---------------------------- MODULE PreparedInputs ----------------------------
(***************************************************************************)
(* PreparedInputPlan: the inputs a Module was prepared for, and the check of   *)
(* the descriptors a caller supplies before a run.  Resource names are         *)
(* numbers, in their order; types are compared for equality only.             *)
(***************************************************************************)
EXTENDS Naturals, Sequences, FiniteSets, FiniteSetsExt, Functions

CONSTANTS
  Plans,    \* sequences of specs [resource, semantic, concrete, maximum, token]
  Supplies  \* sequences of inputs [resource, semantic, concrete, capacity, token]

ASSUME InputsAssumption ==
  \A s \in Plans \cup Supplies :
    /\ Len(s) \in Nat /\ DOMAIN s = 1 .. Len(s)
    /\ \A i \in DOMAIN s :
         /\ s[i].resource \in Nat
         /\ s \in Plans => s[i].maximum \in Nat
         /\ s \in Supplies => s[i].capacity \in Nat

VARIABLES
  prepared, \* a plan was made
  inputs,   \* per resource name, the spec; the plan
  supplied, \* the ModuleInputs of the call at hand
  verdict   \* its result [kind, resource], or of the last attempt to plan

inputVars == <<prepared, inputs, supplied, verdict>>

Refuse(kind, resource) == [kind |-> kind, resource |-> resource]
Ok == Refuse("Ok", 0)
Planned == Refuse("Planned", 0)

InputsInit == prepared = FALSE /\ inputs = <<>> /\ supplied = <<>> /\ verdict = Planned

(* The first position that repeats the resource of an earlier one.            *)
Repeats(s) == {i \in DOMAIN s : \E j \in 1 .. i - 1 : s[j].resource = s[i].resource}
FirstRepeat(s) == s[Min(Repeats(s))].resource

(* A plan that repeats a resource is refused and none is made; a plan of no    *)
(* inputs is one.                                                            *)
New ==
  \E plan \in Plans :
    /\ ~prepared
    /\ prepared' = (Repeats(plan) = {})
    /\ IF Repeats(plan) # {}
         THEN inputs' = inputs /\ verdict' = Refuse("DuplicatePrepared", FirstRepeat(plan))
         ELSE /\ inputs' = [r \in {plan[i].resource : i \in DOMAIN plan} |->
                              plan[CHOOSE i \in DOMAIN plan : plan[i].resource = r]]
              /\ verdict' = Planned
    /\ UNCHANGED supplied

(* Mutation of Mismatch: capacities at the limit are refused.                 *)
MismatchAtLimit(spec, input) ==
  IF input.semantic # spec.semantic THEN "SemanticType"
  ELSE IF input.concrete # spec.concrete THEN "ConcreteType"
  ELSE IF input.capacity >= spec.maximum THEN "Capacity"
  ELSE IF input.token # spec.token THEN "PreparedPlan" ELSE "Ok"

(* How one input differs from what was prepared, the first of its faults.      *)
Mismatch(spec, input) ==
  IF input.semantic # spec.semantic THEN "SemanticType"
  ELSE IF input.concrete # spec.concrete THEN "ConcreteType"
  ELSE IF input.capacity > spec.maximum THEN "Capacity"
  ELSE IF input.token # spec.token THEN "PreparedPlan" ELSE "Ok"

(* A repeated input is named in the order supplied, the others in name order;   *)
(* unknown inputs come before missing and mismatched ones.                    *)
Verdict(s) ==
  LET given == {s[i].resource : i \in DOMAIN s}
      Input(r) == s[CHOOSE i \in DOMAIN s : s[i].resource = r]
      Fault(r) == IF r \notin given THEN "Missing" ELSE Mismatch(inputs[r], Input(r))
      unknown == given \ DOMAIN inputs
      faulty == {r \in DOMAIN inputs : Fault(r) # "Ok"}
  IN  IF Repeats(s) # {} THEN Refuse("Duplicate", FirstRepeat(s))
      ELSE IF unknown # {} THEN Refuse("Unknown", Min(unknown))
      ELSE IF faulty # {} THEN Refuse(Fault(Min(faulty)), Min(faulty))
      ELSE Ok

Validate ==
  /\ prepared
  /\ supplied' \in Supplies
  /\ verdict' = Verdict(supplied')
  /\ UNCHANGED <<prepared, inputs>>

InputsNext == New \/ Validate

InputsSpec == InputsInit /\ [][InputsNext]_inputVars
------------------------------------------------------------------------------
Fitting(spec, input) ==
  /\ input.resource = spec.resource /\ input.semantic = spec.semantic
  /\ input.concrete = spec.concrete /\ input.token = spec.token
  /\ input.capacity <= spec.maximum

(* Inputs are accepted exactly if they are the prepared ones, one each and no    *)
(* other, in any order and up to their capacities: what is refused has the      *)
(* fault it is refused for, and in the order of names nothing before it has.    *)
AcceptsExactlyThePrepared ==
  verdict.kind \notin {"Planned", "DuplicatePrepared"} =>
    LET fits == {r \in DOMAIN inputs : \E i \in DOMAIN supplied : Fitting(inputs[r], supplied[i])}
        named == {i \in DOMAIN supplied : supplied[i].resource = verdict.resource}
    IN  /\ verdict.kind = "Ok" <=> fits = DOMAIN inputs /\ Len(supplied) = Cardinality(fits)
        /\ verdict.kind = "Duplicate" => Cardinality(named) > 1
        /\ verdict.kind = "Unknown" => named # {} /\ verdict.resource \notin DOMAIN inputs
        /\ verdict.kind = "Missing" => named = {} /\ verdict.resource \in DOMAIN inputs
        /\ verdict.kind \notin {"Ok", "Duplicate", "Unknown"} =>
             verdict.resource \notin fits /\ {r \in DOMAIN inputs : r < verdict.resource} \subseteq fits
==============================================================================
