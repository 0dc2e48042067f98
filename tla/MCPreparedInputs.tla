--------------------------- MODULE MCPreparedInputs ---------------------------
(* A plan for no input, for one or for two, and up to two inputs of any fault. *)
EXTENDS PreparedInputs

Spec(r) == [resource |-> r, semantic |-> "s", concrete |-> "c", maximum |-> 1, token |-> 1]
MCPlans == {<<>>, <<Spec(1)>>, <<Spec(2), Spec(1)>>, <<Spec(1), Spec(1)>>}

InputsFor(r) ==
  {[resource |-> r, semantic |-> "s", concrete |-> "c", capacity |-> 2, token |-> 1]}
  \cup {[resource |-> r, semantic |-> s, concrete |-> c, capacity |-> 1, token |-> t] :
          s \in {"s", "z"}, c \in {"c", "z"}, t \in {1, 2}}

MCSupplies ==
  {<<>>} \cup {<<a>> : a \in InputsFor(1)}
  \cup {<<a, b>> : a \in InputsFor(1) \cup InputsFor(2) \cup InputsFor(3), b \in InputsFor(1) \cup InputsFor(2)}
==============================================================================
