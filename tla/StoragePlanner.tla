--------------------------- MODULE StoragePlanner ---------------------------
(***************************************************************************)
(* Planning the storage of a compiled graph (storage.rs: plan_storage and  *)
(* calculate_live_ranges) and taking the plan over when a Module is built  *)
(* (runtime.rs: allocate_slots and the disjointness check of               *)
(* PreparedRuntime::build).                                                *)
(*                                                                         *)
(* The planner goes once through the resources of the graph, in their      *)
(* order, and puts each into the first slot that fits or into a new one.   *)
(* Which graph, which types and which requirements it is given is chosen   *)
(* in Init.  Steps are numbered as in ExecutionPlan, from 1 up to the      *)
(* synthetic run-end step UnitCount + 1, one more than the code's          *)
(* positions.                                                              *)
(***************************************************************************)
EXTENDS Integers, Sequences, FiniteSetsExt

CONSTANTS
  UnitCount,      \* number of Units in execution_order
  ResourceCount,  \* number of resources of the graph
  ResourceSpec,   \* resources a graph may have and what is required of them
  SemanticType,   \* names of resource types
  Registered,     \* the types the ResourceRegistry knows
  ElementSize,    \* registered type -> bytes of one element
  Representation, \* registered type -> "value", "fixed" or "bounded"
  ConcreteType,   \* registered type -> the Rust type of its descriptor
  Layout,         \* registered type -> everything else compatible_with compares
  MaxSize,        \* usize::MAX
  GrowPolicy      \* TRUE iff the build options choose CapacityPolicy::Grow

Steps == 1 .. UnitCount
Nodes == 1 .. ResourceCount

(* A resource of the graph: the step that produces it (0 for a Module      *)
(* input), the steps that consume it, whether it is a Module output, its   *)
(* type, the Rust type it was resolved to, and its requirement if the       *)
(* caller supplies one.                                                     *)
ASSUME PlannerAssumption ==
  /\ UnitCount \in Nat
  /\ ResourceCount \in Nat
  /\ MaxSize \in Nat
  /\ Registered \subseteq SemanticType
  /\ ElementSize \in [Registered -> Nat]
  /\ Representation \in [Registered -> {"value", "fixed", "bounded"}]
  /\ GrowPolicy \in BOOLEAN
  /\ \A x \in ResourceSpec :
       /\ x.producer \in 0 .. UnitCount
       /\ x.consumers \subseteq Steps
       /\ \A p \in x.consumers : x.producer < p
       /\ x.output \in BOOLEAN
       /\ x.output => x.producer # 0
       /\ x.type \in SemanticType
       /\ x.required \in BOOLEAN
       /\ x.capacity \in Nat

VARIABLES
  resources,    \* graph.resources, with their requirements
  next,         \* the resource the planner is at
  slots,        \* the slots planned so far
  assignments,  \* resource -> [slot, capacity, bytes], for those assigned
  phase,        \* "planning" or a result
  culprit,      \* the resource an error names; 0 if there is none
  peak,         \* estimated_peak_bytes of the report
  allocated     \* slot -> capacity allocate_slots allocates it with

vars == <<resources, next, slots, assignments, phase, culprit, peak, allocated>>

Failures == {"missing_descriptor", "missing_requirement", "size_overflow"}
Results  == Failures \cup {"planned", "built", "registry_mismatch", "rejected"}

IsStored(r) == resources[r].producer # 0
StoredNodes == {r \in Nodes : IsStored(r)}
------------------------------------------------------------------------------
(* What the planner computes about one resource. *)

(* Mutation of RangeEnd: a Module output dies with its last consumer.        *)
EndOfConsumers(r) == Max({resources[r].producer} \cup resources[r].consumers)

(* calculate_live_ranges: from the producer to the last consumer, or to the *)
(* end of the run.                                                          *)
RangeEnd(r) ==
  IF resources[r].output
    THEN UnitCount + 1
    ELSE Max({resources[r].producer} \cup resources[r].consumers)

LiveRange(r) == [start |-> resources[r].producer, end |-> RangeEnd(r)]

(* Mutation of Overlaps: ranges that meet in one step are taken as disjoint. *)
OverlapsInside(g, h) == g.start < h.end /\ h.start < g.end

Overlaps(g, h) == g.start <= h.end /\ h.start <= g.end

CompatibleTypes(t, u) ==
  /\ Layout[t] = Layout[u]
  /\ Representation[t] = Representation[u]
  /\ ElementSize[t] = ElementSize[u]

PhysicalCapacity(r) ==
  IF Representation[resources[r].type] = "value" THEN 1 ELSE resources[r].capacity

(* Two backings per slot: the published and the pending side.               *)
Bytes(r) == ElementSize[resources[r].type] * PhysicalCapacity(r) * 2

Fits(s, r) ==
  /\ CompatibleTypes(slots[s].type, resources[r].type)
  /\ slots[s].capacity >= PhysicalCapacity(r)
  /\ \A g \in slots[s].ranges : ~ Overlaps(g, LiveRange(r))

Reusable(r) == {s \in DOMAIN slots : Fits(s, r)}

(* The planned bytes of all slots.                                          *)
PlannedBytes == MapThenSumSet(LAMBDA s : slots[s].bytes, DOMAIN slots)
------------------------------------------------------------------------------
(* plan_storage *)

Init ==
  /\ resources \in [Nodes -> ResourceSpec]
  /\ next = 1
  /\ slots = <<>>
  /\ assignments = <<>>
  /\ phase = "planning"
  /\ culprit = 0
  /\ peak = 0
  /\ allocated = <<>>

SkipModuleInput ==
  /\ phase = "planning" /\ next \in Nodes
  /\ ~ IsStored(next)
  /\ next' = next + 1
  /\ UNCHANGED <<resources, slots, assignments, phase, culprit, peak, allocated>>

Fail(error, r) ==
  /\ phase' = error
  /\ culprit' = r
  /\ UNCHANGED <<resources, next, slots, assignments, peak, allocated>>

RejectUnknown ==
  /\ phase = "planning" /\ next \in Nodes
  /\ IsStored(next)
  /\ \/ /\ resources[next].type \notin Registered
        /\ Fail("missing_descriptor", next)
     \/ /\ resources[next].type \in Registered
        /\ ~ resources[next].required
        /\ Fail("missing_requirement", next)

Plannable(r) ==
  /\ IsStored(r)
  /\ resources[r].type \in Registered
  /\ resources[r].required

RejectOversize ==
  /\ phase = "planning" /\ next \in Nodes
  /\ Plannable(next)
  /\ Bytes(next) > MaxSize
  /\ Fail("size_overflow", next)

Assign(s) ==
  /\ assignments' = [r \in DOMAIN assignments \cup {next} |->
                       IF r = next
                         THEN [slot |-> s, capacity |-> PhysicalCapacity(next),
                               bytes |-> Bytes(next)]
                         ELSE assignments[r]]
  /\ next' = next + 1
  /\ UNCHANGED <<resources, phase, culprit, peak, allocated>>

ReuseSlot ==
  /\ phase = "planning" /\ next \in Nodes
  /\ Plannable(next) /\ Bytes(next) <= MaxSize
  /\ Reusable(next) # {}
  /\ slots' = [slots EXCEPT ![Min(Reusable(next))].ranges = @ \cup {LiveRange(next)}]
  /\ Assign(Min(Reusable(next)))

OpenSlot ==
  /\ phase = "planning" /\ next \in Nodes
  /\ Plannable(next) /\ Bytes(next) <= MaxSize
  /\ Reusable(next) = {}
  /\ slots' = Append(slots, [type |-> resources[next].type,
                             capacity |-> PhysicalCapacity(next),
                             bytes |-> Bytes(next),
                             ranges |-> {LiveRange(next)}])
  /\ Assign(Len(slots) + 1)

FinishPlan ==
  /\ phase = "planning" /\ next = ResourceCount + 1
  /\ PlannedBytes <= MaxSize
  /\ phase' = "planned"
  /\ peak' = PlannedBytes
  /\ UNCHANGED <<resources, next, slots, assignments, culprit, allocated>>

(* Mutation of RejectTotal: the overflow is blamed on a resource past the end. *)
RejectTotalAtEnd ==
  /\ phase = "planning" /\ next = ResourceCount + 1
  /\ PlannedBytes > MaxSize
  /\ Fail("size_overflow", next)

(* The overflow of the sum is reported against the first assigned resource. *)
RejectTotal ==
  /\ phase = "planning" /\ next = ResourceCount + 1
  /\ PlannedBytes > MaxSize
  /\ Fail("size_overflow", Min(DOMAIN assignments))
------------------------------------------------------------------------------
(* Taking the plan over in PreparedRuntime::build. *)

Tenants(s) == {r \in DOMAIN assignments : assignments[r].slot = s}

(* Mutation of AllocatedCapacity: the last tenant decides.                  *)
CapacityOfLast(s) == assignments[Max(Tenants(s))].capacity

AllocatedCapacity(s) == Max({assignments[r].capacity : r \in Tenants(s)})

(* allocate_slots: the registry given to build may be another one than the  *)
(* graph was resolved with.                                                 *)
RegistryMatches ==
  \A r \in Nodes :
    /\ resources[r].type \in Registered
    /\ ConcreteType[resources[r].type] = resources[r].concrete

(* allocate_slots: one assignment per stored resource, no slot without one, *)
(* and every tenant compatible with the first.                              *)
AssignmentsMatch ==
  /\ DOMAIN assignments = StoredNodes
  /\ \A r \in DOMAIN assignments : assignments[r].slot \in DOMAIN slots
  /\ \A s \in DOMAIN slots :
       /\ Tenants(s) # {}
       /\ \A r \in Tenants(s) :
            CompatibleTypes(resources[Min(Tenants(s))].type, resources[r].type)

(* build: the outputs of a Unit have slots of their own, and none of them is *)
(* the slot of one of its inputs.                                           *)
UnitsDisjoint ==
  \A r, t \in StoredNodes :
    /\ r # t
    /\ assignments[r].slot = assignments[t].slot
    => /\ resources[r].producer # resources[t].producer
       /\ resources[r].producer \notin resources[t].consumers

RejectRegistry ==
  /\ phase = "planned"
  /\ ~ RegistryMatches
  /\ phase' = "registry_mismatch"
  /\ UNCHANGED <<resources, next, slots, assignments, culprit, peak, allocated>>

PrepareRuntime ==
  /\ phase = "planned"
  /\ RegistryMatches
  /\ IF AssignmentsMatch /\ UnitsDisjoint
       THEN /\ phase' = "built"
            /\ allocated' = [s \in DOMAIN slots |-> AllocatedCapacity(s)]
       ELSE phase' = "rejected" /\ allocated' = allocated
  /\ UNCHANGED <<resources, next, slots, assignments, culprit, peak>>

Next ==
  \/ SkipModuleInput
  \/ RejectUnknown
  \/ RejectOversize
  \/ ReuseSlot
  \/ OpenSlot
  \/ FinishPlan
  \/ RejectTotal
  \/ RejectRegistry
  \/ PrepareRuntime

Spec == Init /\ [][Next]_vars
------------------------------------------------------------------------------
PlannedSlot ==
  [type : Registered, capacity : Nat, bytes : 0 .. MaxSize,
   ranges : SUBSET [start : Steps, end : 1 .. UnitCount + 1]]

(* A plan in the making is what the code can hold.                          *)
TypeOK ==
  /\ resources \in [Nodes -> ResourceSpec]
  /\ next \in 1 .. ResourceCount + 1
  /\ slots \in Seq(PlannedSlot)
  /\ DOMAIN assignments = {r \in StoredNodes : r < next}
  /\ \A r \in DOMAIN assignments :
       assignments[r] \in [slot : DOMAIN slots, capacity : Nat, bytes : 0 .. MaxSize]
  /\ phase \in Results \cup {"planning"}
  /\ peak <= MaxSize
  /\ DOMAIN allocated = IF phase = "built" THEN DOMAIN slots ELSE {}

(* The resource holds a value somebody may still read at step p: it has been *)
(* (or is being) produced, and it is an output, or p is its producing step,  *)
(* or it has a consumer at p or later.                                      *)
LiveAt(r, p) ==
  /\ resources[r].producer <= p
  /\ \/ resources[r].output
     \/ \E c \in {resources[r].producer} \cup resources[r].consumers : p <= c

(* Resources in one slot are never live at the same step, the synthetic end *)
(* of the run included, at any moment of the planning.                      *)
LiveResourcesKeepApart ==
  \A r, t \in DOMAIN assignments :
    r # t /\ assignments[r].slot = assignments[t].slot =>
      \A p \in 1 .. UnitCount + 1 : ~ (LiveAt(r, p) /\ LiveAt(t, p))

(* The plan as the runtime sees it. *)
PlanReads    == [p \in Steps |-> {r \in Nodes : p \in resources[r].consumers}]
PlanWrites   == [p \in Steps |-> {r \in Nodes : resources[r].producer = p}]
PlanOutputs  == {r \in Nodes : resources[r].output}
PlanSlotOf   == [r \in StoredNodes |-> assignments[r].slot]
PlanSlotKind == [s \in DOMAIN slots |-> Representation[slots[s].type]]
PlanCapacity == [r \in StoredNodes |-> assignments[r].capacity]
PlanLiveEnd  == [r \in StoredNodes |-> RangeEnd(r)]

Plan == INSTANCE ExecutionPlan WITH
  Resource     <- Nodes,
  ModuleInput  <- Nodes \ StoredNodes,
  ModuleOutput <- PlanOutputs,
  Reads        <- PlanReads,
  Writes       <- PlanWrites,
  Slot         <- DOMAIN slots,
  SlotOf       <- PlanSlotOf,
  SlotKind     <- PlanSlotKind,
  Capacity     <- PlanCapacity,
  LiveEnd      <- PlanLiveEnd

(* A finished plan satisfies everything the model of the runtime assumes of *)
(* one: what ModuleRuntime shows for such plans it shows for these.         *)
RuntimeCanRely ==
  phase \in {"planned", "built"} => Plan!GraphWellFormed /\ Plan!StorageWellFormed

(* The checks of allocate_slots and build never refuse a plan of the        *)
(* planner, although they are written independently of it.                  *)
PlansAreAccepted == phase # "rejected"

(* A failure names a stored resource, and every stored resource before it   *)
(* had been assigned: the first at fault is reported, and assignments[0],   *)
(* which the overflow of the sum is blamed on, exists.                      *)
FailuresNameTheFirst ==
  phase \in Failures =>
    /\ culprit \in StoredNodes
    /\ {r \in StoredNodes : r < culprit} \subseteq DOMAIN assignments

(* At every step of a run, both backings of all that is live fit in the     *)
(* reported peak.                                                           *)
EstimateCoversTheRun ==
  phase = "planned" =>
    \A p \in 1 .. UnitCount + 1 :
      MapThenSumSet(LAMBDA r : ElementSize[resources[r].type] * assignments[r].capacity * 2,
                    {r \in StoredNodes : LiveAt(r, p)}) <= peak

(* What is allocated holds every tenant of the slot and costs, in sum,      *)
(* exactly the peak that was reported.                                      *)
AllocationMatchesEstimate ==
  phase = "built" =>
    /\ \A r \in StoredNodes : assignments[r].capacity <= allocated[assignments[r].slot]
    /\ peak = MapThenSumSet(LAMBDA s : ElementSize[slots[s].type] * allocated[s] * 2,
                            DOMAIN slots)

(* The reported peak is what the build allocates, and never less than a run   *)
(* needs.                                                                   *)
EstimateIsExact == EstimateCoversTheRun /\ AllocationMatchesEstimate

(* The inductive invariant of the proofs: what a slot records about its     *)
(* tenants is true, and the ranges of two tenants do not meet.              *)
TenantsRecorded ==
  \A r \in DOMAIN assignments :
    LET s == assignments[r].slot IN
    /\ Plannable(r)
    /\ CompatibleTypes(slots[s].type, resources[r].type)
    /\ assignments[r].capacity = PhysicalCapacity(r)
    /\ LiveRange(r) \in slots[s].ranges

TenantsDisjoint ==
  \A r, t \in DOMAIN assignments :
    r # t /\ assignments[r].slot = assignments[t].slot =>
      ~ Overlaps(LiveRange(r), LiveRange(t))

PlanInv ==
  /\ TypeOK
  /\ TenantsRecorded
  /\ TenantsDisjoint
  /\ \A s \in DOMAIN slots : Tenants(s) # {}
  /\ phase \in {"planned", "built"} => next = ResourceCount + 1
  /\ PlansAreAccepted
==============================================================================
