---------------------------- MODULE ExecutionPlan ----------------------------
(***************************************************************************)
(* The immutable data a prepared Module runs from: the dense graph         *)
(* (graph.rs, DenseGraph) and the slot assignment (storage.rs, StoragePlan)*)
(* as PreparedRuntime::build leaves them.  A Unit is named by its place in *)
(* execution_order, 1 .. UnitCount, the only way a run reaches it.         *)
(*                                                                         *)
(* GraphWellFormed and StorageWellFormed are what compile, into_dense and  *)
(* plan_storage check or establish before a Module exists, and all that    *)
(* the runtime relies on.                                                  *)
(***************************************************************************)
EXTENDS Integers

CONSTANTS
  UnitCount,     \* number of Units in execution_order
  Resource,      \* dense resource indices
  ModuleInput,   \* resources whose producer is the Module itself
  ModuleOutput,  \* resources the Module declares as outputs
  Reads,         \* step -> resources bound to the input ports of its Unit
  Writes,        \* step -> resources bound to the output ports of its Unit
  Slot,          \* storage slots
  SlotOf,        \* stored resource -> its slot (resource_slots)
  SlotKind,      \* slot -> "value", "fixed" or "bounded" representation
  Capacity,      \* stored resource -> prepared capacity (resource_capacities)
  LiveEnd,       \* stored resource -> last step of its live range
  GrowPolicy     \* TRUE iff the build options choose CapacityPolicy::Grow

Steps  == 1 .. UnitCount
Stored == UNION {Writes[p] : p \in Steps}

(* The step whose Unit produces r. *)
ProducerStep(r) == CHOOSE p \in Steps : r \in Writes[p]

(* resource_policies: a fixed buffer never grows, anything else follows the *)
(* build options.                                                           *)
RejectsOverflow(r) == SlotKind[SlotOf[r]] = "fixed" \/ ~GrowPolicy

(* One producer per resource, inputs come from outside or from an earlier   *)
(* step, and a Module input is never a Module output.                       *)
GraphWellFormed ==
  /\ UnitCount \in Nat
  /\ Reads \in [Steps -> SUBSET Resource]
  /\ Writes \in [Steps -> SUBSET Resource]
  /\ Resource = ModuleInput \cup Stored
  /\ ModuleInput \cap Stored = {}
  /\ \A p, q \in Steps : Writes[p] \cap Writes[q] # {} => p = q
  /\ \A p \in Steps : \A r \in Reads[p] \cap Stored : ProducerStep(r) < p
  /\ ModuleOutput \subseteq Stored

(* Live ranges are inclusive, reach every consumer (and the synthetic step  *)
(* UnitCount + 1 for an output), and do not meet inside one slot.           *)
StorageWellFormed ==
  /\ SlotOf \in [Stored -> Slot]
  /\ SlotKind \in [Slot -> {"value", "fixed", "bounded"}]
  /\ Capacity \in [Stored -> Nat]
  /\ LiveEnd \in [Stored -> Nat]
  /\ GrowPolicy \in BOOLEAN
  /\ \A r \in Stored : SlotKind[SlotOf[r]] = "value" => Capacity[r] = 1
  /\ \A r \in Stored : ProducerStep(r) <= LiveEnd[r]
  /\ \A p \in Steps : \A r \in Reads[p] \cap Stored : p <= LiveEnd[r]
  /\ \A r \in ModuleOutput : LiveEnd[r] = UnitCount + 1
  /\ \A r, t \in Stored :
       r # t /\ SlotOf[r] = SlotOf[t] =>
         LiveEnd[r] < ProducerStep(t) \/ LiveEnd[t] < ProducerStep(r)

ASSUME GraphAssumption == GraphWellFormed
ASSUME StorageAssumption == StorageWellFormed
==============================================================================
