------------------------ MODULE StoragePlanner_proofs ------------------------
(***************************************************************************)
(* For every graph, every set of types and every requirement: the planner  *)
(* never lets two live resources share a slot, build never refuses its     *)
(* plan, a finished plan satisfies what the runtime assumes, its reported   *)
(* peak is what is allocated and enough, and a refusal names the first      *)
(* resource at fault.                                                      *)
(***************************************************************************)
EXTENDS StoragePlanner, NaturalBounds, SequenceTheorems, TLAPS

------------------------------------------------------------------------------
(* Live ranges. *)

(* What the graph of a plan in the making looks like.                       *)
LEMMA SpecTypes ==
  ASSUME resources \in [Nodes -> ResourceSpec], NEW r \in Nodes
  PROVE  /\ resources[r].producer \in 0 .. UnitCount
         /\ resources[r].consumers \in SUBSET Steps
         /\ \A p \in resources[r].consumers : resources[r].producer < p
         /\ resources[r].output \in BOOLEAN
         /\ resources[r].output => resources[r].producer # 0
         /\ resources[r].type \in SemanticType
         /\ resources[r].required \in BOOLEAN
         /\ resources[r].capacity \in Nat
BY PlannerAssumption

(* The live range of a stored resource starts at its producer, ends no      *)
(* earlier than that or any consumer, and at the end of the run for outputs. *)
LEMMA RangeReaches ==
  ASSUME resources \in [Nodes -> ResourceSpec], NEW r \in StoredNodes
  PROVE  /\ resources[r].producer \in Steps
         /\ RangeEnd(r) \in 1 .. UnitCount + 1
         /\ resources[r].producer <= RangeEnd(r)
         /\ \A p \in resources[r].consumers : p <= RangeEnd(r)
         /\ resources[r].output => RangeEnd(r) = UnitCount + 1
<1> DEFINE T == {resources[r].producer} \cup resources[r].consumers
<1>1. r \in Nodes /\ resources[r].producer # 0
  BY DEF StoredNodes, IsStored
<1>2. /\ resources[r].producer \in Steps
      /\ resources[r].consumers \in SUBSET Steps
      /\ UnitCount \in Nat
      /\ resources[r].output \in BOOLEAN
  BY <1>1, SpecTypes, PlannerAssumption DEF Steps
<1>3. T \in SUBSET (0 .. UnitCount) /\ T # {} /\ T \subseteq Steps
  BY <1>2 DEF Steps
<1>4. Max(T) \in T /\ \A y \in T : Max(T) >= y
  BY <1>2, <1>3, MaxOfBounded
<1>5. Max(T) \in Steps
  <2> HIDE DEF T
  <2> QED
    BY <1>3, <1>4
<1>6. CASE resources[r].output
  <2>1. RangeEnd(r) = UnitCount + 1
    BY <1>6 DEF RangeEnd
  <2> QED
    BY <2>1, <1>2 DEF Steps
<1>7. CASE ~ resources[r].output
  <2>1. RangeEnd(r) = Max(T)
    BY <1>7 DEF RangeEnd
  <2>2. \A p \in T : p \in Int /\ p <= Max(T)
    BY <1>3, <1>4, <1>5 DEF Steps
  <2>3. RangeEnd(r) \in Steps /\ \A p \in T : p \in Int /\ p <= RangeEnd(r)
    BY <2>1, <2>2, <1>5, Zenon
  <2> QED
    BY <2>3, <1>2, <1>7 DEF Steps
<1> QED
  BY <1>2, <1>6, <1>7

(* Its live range as the planner records it.                                *)
LEMMA RangeType ==
  ASSUME resources \in [Nodes -> ResourceSpec], NEW r \in StoredNodes
  PROVE  LiveRange(r) \in [start : Steps, end : 1 .. UnitCount + 1]
BY RangeReaches DEF LiveRange

(* Physical capacities are naturals, and 1 for values.                      *)
LEMMA CapacityType ==
  ASSUME resources \in [Nodes -> ResourceSpec], NEW r \in Nodes, Plannable(r)
  PROVE  /\ PhysicalCapacity(r) \in Nat
         /\ Representation[resources[r].type] = "value" => PhysicalCapacity(r) = 1
         /\ Bytes(r) \in Nat
         /\ resources[r].type \in Registered
<1>1. resources[r].type \in Registered
  BY DEF Plannable
<1>2. ElementSize[resources[r].type] \in Nat
  BY <1>1, PlannerAssumption
<1>3. PhysicalCapacity(r) \in Nat
  BY SpecTypes DEF PhysicalCapacity
<1>4. \A a, b \in Nat : a * b * 2 \in Nat
  OBVIOUS
<1> QED
  BY <1>1, <1>2, <1>3, <1>4 DEF PhysicalCapacity, Bytes

------------------------------------------------------------------------------
(* The inductive invariant. *)

LEMMA InitPlanInv == Init => PlanInv
<1> SUFFICES ASSUME Init PROVE PlanInv
  OBVIOUS
<1>1. next = 1 /\ slots = <<>> /\ assignments = <<>> /\ phase = "planning"
      /\ peak = 0 /\ allocated = <<>> /\ resources \in [Nodes -> ResourceSpec]
  BY DEF Init
<1>2. DOMAIN assignments = {} /\ DOMAIN slots = {} /\ DOMAIN allocated = {}
  BY <1>1
<1>3. {r \in StoredNodes : r < next} = {}
  BY <1>1 DEF StoredNodes, Nodes
<1>4. slots \in Seq(PlannedSlot)
  BY <1>1
<1>5. TypeOK
  BY <1>1, <1>2, <1>3, <1>4, PlannerAssumption DEF TypeOK
<1> QED
  BY <1>1, <1>2, <1>5
     DEF PlanInv, TenantsRecorded, TenantsDisjoint, PlansAreAccepted

(* Giving the next resource slot s keeps the invariant when s is compatible, *)
(* records its range, and no tenant of s is live together with it.          *)
LEMMA AssignPreserves ==
  ASSUME PlanInv, phase = "planning", next \in Nodes,
         Plannable(next), Bytes(next) <= MaxSize,
         NEW s \in DOMAIN slots', Assign(s),
         slots' \in Seq(PlannedSlot),
         \A u \in DOMAIN slots :
           /\ u \in DOMAIN slots'
           /\ slots'[u].type = slots[u].type
           /\ slots[u].ranges \subseteq slots'[u].ranges,
         \A u \in DOMAIN slots' : u \in DOMAIN slots \/ u = s,
         CompatibleTypes(slots'[s].type, resources[next].type),
         LiveRange(next) \in slots'[s].ranges,
         \A t \in Tenants(s) : ~ Overlaps(LiveRange(t), LiveRange(next))
  PROVE  PlanInv'
<1> DEFINE new == [slot |-> s, capacity |-> PhysicalCapacity(next),
                   bytes |-> Bytes(next)]
           old == DOMAIN assignments
<1>1. /\ resources \in [Nodes -> ResourceSpec]
      /\ old = {r \in StoredNodes : r < next}
      /\ \A r \in old : assignments[r] \in
           [slot : DOMAIN slots, capacity : Nat, bytes : 0 .. MaxSize]
      /\ TenantsRecorded /\ TenantsDisjoint
      /\ \A u \in DOMAIN slots : Tenants(u) # {}
      /\ peak <= MaxSize /\ DOMAIN allocated = {}
  BY DEF PlanInv, TypeOK
<1>2. /\ resources' = resources /\ phase' = "planning" /\ next' = next + 1
      /\ peak' = peak /\ allocated' = allocated
      /\ assignments' = [r \in old \cup {next} |-> IF r = next THEN new ELSE assignments[r]]
  BY DEF Assign
<1>3. next \in StoredNodes /\ next \notin old /\ next \in Nat
  BY <1>1 DEF Plannable, StoredNodes, Nodes
<1>4. /\ DOMAIN assignments' = old \cup {next}
      /\ assignments'[next] = new
      /\ \A r \in old : assignments'[r] = assignments[r]
  BY <1>2, <1>3
<1>5. StoredNodes' = StoredNodes
  BY <1>2 DEF StoredNodes, IsStored
<1>6. \A r : /\ Plannable(r)' <=> Plannable(r)
             /\ LiveRange(r)' = LiveRange(r)
             /\ PhysicalCapacity(r)' = PhysicalCapacity(r)
  BY <1>2 DEF Plannable, IsStored, LiveRange, RangeEnd, PhysicalCapacity
<1>7. TypeOK'
  <2>1. old \cup {next} = {r \in StoredNodes : r < next + 1}
    BY <1>1, <1>3 DEF StoredNodes, Nodes
  <2>2. DOMAIN assignments' = {r \in StoredNodes' : r < next'}
    BY <2>1, <1>2, <1>4, <1>5
  <2>3. next' \in 1 .. ResourceCount + 1
    BY <1>2, PlannerAssumption DEF Nodes
  <2>4. PhysicalCapacity(next) \in Nat /\ Bytes(next) \in 0 .. MaxSize
    BY <1>1, CapacityType, PlannerAssumption
  <2>5. \A r \in DOMAIN assignments' : assignments'[r] \in
          [slot : DOMAIN slots', capacity : Nat, bytes : 0 .. MaxSize]
    BY <2>4, <1>1, <1>4
  <2> QED
    BY <2>2, <2>3, <2>5, <1>1, <1>2 DEF TypeOK
<1>8. TenantsRecorded'
  <2> SUFFICES ASSUME NEW r \in DOMAIN assignments'
               PROVE  /\ Plannable(r)
                      /\ CompatibleTypes(slots'[assignments'[r].slot].type, resources[r].type)
                      /\ assignments'[r].capacity = PhysicalCapacity(r)
                      /\ LiveRange(r) \in slots'[assignments'[r].slot].ranges
    BY <1>2, <1>6 DEF TenantsRecorded, CompatibleTypes
  <2>1. CASE r = next
    BY <2>1, <1>4
  <2>2. CASE r \in old
    <3>1. assignments[r].slot \in DOMAIN slots
      BY <2>2, <1>1
    <3> QED
      BY <3>1, <2>2, <1>1, <1>4 DEF TenantsRecorded
  <2> QED
    BY <2>1, <2>2, <1>4
<1>9. TenantsDisjoint'
  <2> SUFFICES ASSUME NEW r \in DOMAIN assignments', NEW t \in DOMAIN assignments',
                      r # t, assignments'[r].slot = assignments'[t].slot
               PROVE  ~ Overlaps(LiveRange(r), LiveRange(t))
    BY <1>6 DEF TenantsDisjoint, Overlaps
  <2>1. \A a, b : Overlaps(LiveRange(a), LiveRange(b)) <=> Overlaps(LiveRange(b), LiveRange(a))
    BY DEF Overlaps
  <2>2. \A a \in old : assignments[a].slot = s => ~ Overlaps(LiveRange(a), LiveRange(next))
    BY DEF Tenants
  <2>3. CASE r \in old /\ t \in old
    BY <2>3, <1>1, <1>4 DEF TenantsDisjoint
  <2>4. CASE r = next \/ t = next
    BY <2>1, <2>2, <2>4, <1>4
  <2> QED
    BY <2>3, <2>4, <1>4
<1>10. \A u \in DOMAIN slots' : Tenants(u)' # {}
  <2> SUFFICES ASSUME NEW u \in DOMAIN slots'
               PROVE  \E r \in DOMAIN assignments' : assignments'[r].slot = u
    BY DEF Tenants
  <2>1. CASE u = s
    BY <2>1, <1>4
  <2>2. CASE u \in DOMAIN slots
    BY <2>2, <1>1, <1>4 DEF Tenants
  <2> QED
    BY <2>1, <2>2
<1> QED
  BY <1>2, <1>7, <1>8, <1>9, <1>10 DEF PlanInv, PlansAreAccepted

LEMMA ReuseSlotPreserves == PlanInv /\ ReuseSlot => PlanInv'
<1> SUFFICES ASSUME PlanInv, ReuseSlot PROVE PlanInv'
  OBVIOUS
<1> DEFINE s == Min(Reusable(next))
<1>1. slots \in Seq(PlannedSlot) /\ resources \in [Nodes -> ResourceSpec]
  BY DEF PlanInv, TypeOK
<1>2. /\ phase = "planning" /\ next \in Nodes /\ Plannable(next)
      /\ Bytes(next) <= MaxSize /\ Reusable(next) # {}
      /\ slots' = [slots EXCEPT ![s].ranges = @ \cup {LiveRange(next)}]
      /\ Assign(s)
  BY DEF ReuseSlot
<1>3. Reusable(next) \in SUBSET Nat
  BY <1>1 DEF Reusable
<1>4. s \in Reusable(next)
  BY <1>2, <1>3, MinOfNaturals
<1>5. s \in DOMAIN slots /\ Fits(s, next)
  BY <1>4 DEF Reusable
<1> HIDE DEF s
<1>6. LiveRange(next) \in [start : Steps, end : 1 .. UnitCount + 1]
  BY <1>1, <1>2, RangeType DEF Plannable, StoredNodes
<1>7. /\ slots' \in Seq(PlannedSlot)
      /\ DOMAIN slots' = DOMAIN slots
      /\ \A u \in DOMAIN slots :
           /\ slots'[u].type = slots[u].type
           /\ slots[u].ranges \subseteq slots'[u].ranges
      /\ LiveRange(next) \in slots'[s].ranges
  <2>1. slots[s] \in PlannedSlot
    BY <1>1, <1>5
  <2>2. [slots[s] EXCEPT !.ranges = @ \cup {LiveRange(next)}] \in PlannedSlot
    BY <2>1, <1>6 DEF PlannedSlot
  <2>3. slots' = [slots EXCEPT ![s] = [slots[s] EXCEPT !.ranges = @ \cup {LiveRange(next)}]]
    BY <1>2
  <2>4. slots' \in Seq(PlannedSlot) /\ DOMAIN slots' = DOMAIN slots
    BY <2>2, <2>3, <1>1, <1>5
  <2>5. slots'[s] = [slots[s] EXCEPT !.ranges = @ \cup {LiveRange(next)}]
    BY <2>3, <1>5
  <2>6. \A u \in DOMAIN slots : u # s => slots'[u] = slots[u]
    BY <2>3
  <2>7. slots'[s].type = slots[s].type
        /\ slots'[s].ranges = slots[s].ranges \cup {LiveRange(next)}
    BY <2>1, <2>5 DEF PlannedSlot
  <2> QED
    BY <2>4, <2>6, <2>7
<1>8. \A t \in Tenants(s) : ~ Overlaps(LiveRange(t), LiveRange(next))
  BY <1>5 DEF PlanInv, TenantsRecorded, Tenants, Fits
<1>9. CompatibleTypes(slots'[s].type, resources[next].type)
  BY <1>5, <1>7 DEF Fits
<1> QED
  BY <1>2, <1>5, <1>7, <1>8, <1>9, AssignPreserves

LEMMA OpenSlotPreserves == PlanInv /\ OpenSlot => PlanInv'
<1> SUFFICES ASSUME PlanInv, OpenSlot PROVE PlanInv'
  OBVIOUS
<1> DEFINE new == [type |-> resources[next].type, capacity |-> PhysicalCapacity(next),
                   bytes |-> Bytes(next), ranges |-> {LiveRange(next)}]
           s == Len(slots) + 1
<1>1. slots \in Seq(PlannedSlot) /\ resources \in [Nodes -> ResourceSpec]
  BY DEF PlanInv, TypeOK
<1>2. /\ phase = "planning" /\ next \in Nodes /\ Plannable(next)
      /\ Bytes(next) <= MaxSize
      /\ slots' = Append(slots, new)
      /\ Assign(s)
  BY DEF OpenSlot
<1>3. LiveRange(next) \in [start : Steps, end : 1 .. UnitCount + 1]
  BY <1>1, <1>2, RangeType DEF Plannable, StoredNodes
<1>4. new \in PlannedSlot
  BY <1>1, <1>2, <1>3, CapacityType, PlannerAssumption DEF PlannedSlot
<1>5. /\ slots' \in Seq(PlannedSlot)
      /\ DOMAIN slots' = DOMAIN slots \cup {s} /\ s \notin DOMAIN slots
      /\ \A u \in DOMAIN slots : slots'[u] = slots[u]
      /\ slots'[s] = new
  <2> HIDE DEF new
  <2> QED
    BY <1>1, <1>2, <1>4, AppendProperties
<1>6. Tenants(s) = {}
  BY <1>5 DEF PlanInv, TypeOK, Tenants
<1>7. CompatibleTypes(slots'[s].type, resources[next].type)
  BY <1>5 DEF CompatibleTypes
<1>8. LiveRange(next) \in slots'[s].ranges
  BY <1>5
<1> HIDE DEF s, new
<1> QED
  BY <1>2, <1>5, <1>6, <1>7, <1>8, AssignPreserves

(* A finished plan has assigned every stored resource.                      *)
LEMMA AllAssigned ==
  ASSUME PlanInv, phase \in {"planned", "built"}
  PROVE  /\ resources \in [Nodes -> ResourceSpec]
         /\ DOMAIN assignments = StoredNodes
         /\ \A r \in StoredNodes : assignments[r].slot \in DOMAIN slots
<1>1. next = ResourceCount + 1 /\ TypeOK /\ ResourceCount \in Nat
  BY PlannerAssumption DEF PlanInv
<1>2. {r \in StoredNodes : r < next} = StoredNodes
  BY <1>1 DEF StoredNodes, Nodes
<1>3. DOMAIN assignments = StoredNodes
  BY <1>1, <1>2 DEF TypeOK
<1> QED
  BY <1>1, <1>3 DEF TypeOK

(* A finished plan is accepted by allocate_slots and build.            *)
LEMMA PlanAccepted ==
  ASSUME PlanInv, phase = "planned"
  PROVE  AssignmentsMatch /\ UnitsDisjoint
<1>1. /\ resources \in [Nodes -> ResourceSpec]
      /\ DOMAIN assignments = StoredNodes
      /\ \A r \in StoredNodes : assignments[r].slot \in DOMAIN slots
      /\ TenantsRecorded /\ TenantsDisjoint
      /\ \A u \in DOMAIN slots : Tenants(u) # {}
  BY AllAssigned DEF PlanInv
<1>2. AssignmentsMatch
  <2> SUFFICES ASSUME NEW s \in DOMAIN slots, NEW r \in Tenants(s)
               PROVE  CompatibleTypes(resources[Min(Tenants(s))].type, resources[r].type)
    BY <1>1 DEF AssignmentsMatch
  <2>1. Tenants(s) \in SUBSET Nat
    BY <1>1 DEF Tenants, StoredNodes, Nodes
  <2>2. Min(Tenants(s)) \in Tenants(s)
    BY <2>1, <1>1, MinOfNaturals
  <2>3. \A t \in Tenants(s) : CompatibleTypes(slots[s].type, resources[t].type)
    BY <1>1 DEF Tenants, TenantsRecorded
  <2> QED
    BY <2>2, <2>3 DEF CompatibleTypes
<1>3. UnitsDisjoint
  <2> SUFFICES ASSUME NEW r \in StoredNodes, NEW t \in StoredNodes, r # t,
                      assignments[r].slot = assignments[t].slot
               PROVE  /\ resources[r].producer # resources[t].producer
                      /\ resources[r].producer \notin resources[t].consumers
    BY DEF UnitsDisjoint
  <2>1. ~ Overlaps(LiveRange(r), LiveRange(t))
    BY <1>1 DEF TenantsDisjoint
  <2>2. /\ resources[r].producer \in Int /\ RangeEnd(r) \in Int
        /\ resources[r].producer <= RangeEnd(r)
        /\ resources[t].producer \in Int /\ RangeEnd(t) \in Int
        /\ resources[t].producer <= RangeEnd(t)
        /\ \A p \in resources[t].consumers : p <= RangeEnd(t)
    BY <1>1, RangeReaches DEF Steps
  <2>3. \A p \in resources[t].consumers : resources[t].producer < p
    BY <1>1, SpecTypes DEF StoredNodes
  <2>4. ~ (resources[r].producer <= RangeEnd(t) /\ resources[t].producer <= RangeEnd(r))
    BY <2>1 DEF Overlaps, LiveRange
  <2> QED
    BY <2>2, <2>3, <2>4
<1> QED
  BY <1>2, <1>3

(* Steps that leave slots and assignments alone.                            *)
LEMMA FramePreserves ==
  ASSUME PlanInv, UNCHANGED <<resources, slots, assignments>>,
         DOMAIN assignments = {r \in StoredNodes : r < next'},
         next' \in 1 .. ResourceCount + 1,
         phase' \in (Results \ {"rejected"}) \cup {"planning"},
         phase' \in {"planned", "built"} => next' = ResourceCount + 1,
         peak' <= MaxSize,
         DOMAIN allocated' = IF phase' = "built" THEN DOMAIN slots ELSE {}
  PROVE  PlanInv'
<1>1. TypeOK'
  BY DEF PlanInv, TypeOK, StoredNodes, IsStored
<1>2. TenantsRecorded' /\ TenantsDisjoint' /\ \A s \in DOMAIN slots' : Tenants(s)' # {}
  BY ZenonT(30) DEF PlanInv, TenantsRecorded, TenantsDisjoint, Tenants, Plannable, IsStored,
         CompatibleTypes, PhysicalCapacity, LiveRange, RangeEnd, Overlaps
<1> QED
  BY <1>1, <1>2 DEF PlanInv, PlansAreAccepted, Results, Failures

LEMMA NextPreserves == PlanInv /\ [Next]_vars => PlanInv'
<1> SUFFICES ASSUME PlanInv, [Next]_vars PROVE PlanInv'
  OBVIOUS
<1>1. /\ next \in 1 .. ResourceCount + 1 /\ ResourceCount \in Nat
      /\ DOMAIN assignments = {r \in StoredNodes : r < next}
      /\ peak <= MaxSize
      /\ phase \in (Results \ {"rejected"}) \cup {"planning"}
      /\ phase \in {"planned", "built"} => next = ResourceCount + 1
      /\ DOMAIN allocated = IF phase = "built" THEN DOMAIN slots ELSE {}
  BY PlannerAssumption DEF PlanInv, TypeOK, PlansAreAccepted
<1>2. CASE SkipModuleInput
  <2>1. /\ UNCHANGED <<resources, slots, assignments, phase, peak, allocated>>
        /\ phase = "planning" /\ next \in Nodes /\ next \notin StoredNodes
        /\ next' = next + 1
    BY <1>2 DEF SkipModuleInput, StoredNodes
  <2>2. {r \in StoredNodes : r < next} = {r \in StoredNodes : r < next + 1}
    BY <2>1 DEF StoredNodes, Nodes
  <2> QED
    BY <2>1, <2>2, <1>1, FramePreserves DEF Nodes
<1>3. CASE RejectUnknown \/ RejectOversize \/ RejectTotal
  <2>1. /\ UNCHANGED <<resources, next, slots, assignments, peak, allocated>>
        /\ phase = "planning" /\ phase' \in Failures
    BY <1>3 DEF RejectUnknown, RejectOversize, RejectTotal, Fail, Failures
  <2> QED
    BY <2>1, <1>1, FramePreserves DEF Results, Failures
<1>4. CASE ReuseSlot
  BY <1>4, ReuseSlotPreserves
<1>5. CASE OpenSlot
  BY <1>5, OpenSlotPreserves
<1>6. CASE FinishPlan
  <2>1. /\ UNCHANGED <<resources, next, slots, assignments, allocated>>
        /\ phase = "planning" /\ phase' = "planned" /\ next = ResourceCount + 1
        /\ peak' <= MaxSize
    BY <1>6 DEF FinishPlan
  <2> QED
    BY <2>1, <1>1, FramePreserves DEF Results, Failures
<1>7. CASE PrepareRuntime
  <2>1. /\ UNCHANGED <<resources, next, slots, assignments, peak>>
        /\ phase = "planned" /\ phase' = "built"
        /\ allocated' = [s \in DOMAIN slots |-> AllocatedCapacity(s)]
    BY <1>7, PlanAccepted DEF PrepareRuntime
  <2> QED
    BY <2>1, <1>1, FramePreserves DEF Results, Failures
<1>8. CASE RejectRegistry
  <2>1. /\ UNCHANGED <<resources, next, slots, assignments, peak, allocated>>
        /\ phase = "planned" /\ phase' = "registry_mismatch"
    BY <1>8 DEF RejectRegistry
  <2> QED
    BY <2>1, <1>1, FramePreserves DEF Results, Failures
<1>9. CASE UNCHANGED vars
  BY <1>9, <1>1, FramePreserves DEF vars
<1> QED
  BY <1>2, <1>3, <1>4, <1>5, <1>6, <1>7, <1>8, <1>9 DEF Next

(* The planner's bookkeeping is right at every moment: slots record their   *)
(* tenants truthfully, and two tenants never overlap.                       *)
THEOREM PlanInvariant == Spec => []PlanInv
<1>1. Init => PlanInv
  BY InitPlanInv
<1>2. PlanInv /\ [Next]_vars => PlanInv'
  BY NextPreserves
<1> QED
  BY <1>1, <1>2, PTL DEF Spec

(* plan_storage and allocate_slots keep to their types.                     *)
THEOREM PlannerTypeCorrect == Spec => []TypeOK
<1>1. PlanInv => TypeOK
  BY DEF PlanInv
<1> QED
  BY <1>1, PlanInvariant, PTL

(* The checks of allocate_slots and build refuse no plan of plan_storage.   *)
THEOREM NoPlanRefused == Spec => []PlansAreAccepted
<1>1. PlanInv => PlansAreAccepted
  BY DEF PlanInv
<1> QED
  BY <1>1, PlanInvariant, PTL

(* Tenants of a slot are live apart, for their ranges do not meet.                *)
LEMMA TenantsApart ==
  ASSUME PlanInv
  PROVE  LiveResourcesKeepApart
<1> SUFFICES ASSUME NEW r \in DOMAIN assignments, NEW t \in DOMAIN assignments,
                    r # t, assignments[r].slot = assignments[t].slot,
                    NEW p \in 1 .. UnitCount + 1, LiveAt(r, p), LiveAt(t, p)
             PROVE  FALSE
  BY DEF LiveResourcesKeepApart
<1>1. r \in StoredNodes /\ t \in StoredNodes /\ resources \in [Nodes -> ResourceSpec]
  BY DEF PlanInv, TypeOK
<1>2. \A q \in StoredNodes : LiveAt(q, p) => resources[q].producer <= p /\ p <= RangeEnd(q)
  <2> SUFFICES ASSUME NEW q \in StoredNodes, LiveAt(q, p)
               PROVE  p <= RangeEnd(q)
    BY DEF LiveAt
  <2>1. /\ RangeEnd(q) \in 1 .. UnitCount + 1
        /\ \A c \in {resources[q].producer} \cup resources[q].consumers : c <= RangeEnd(q)
        /\ resources[q].output => RangeEnd(q) = UnitCount + 1
        /\ resources[q].producer \in Int /\ resources[q].consumers \subseteq Int
    BY <1>1, RangeReaches, SpecTypes DEF StoredNodes, Steps
  <2>2. UnitCount \in Nat
    BY PlannerAssumption
  <2> QED
    BY <2>1, <2>2 DEF LiveAt
<1>3. /\ RangeEnd(r) \in Int /\ resources[r].producer \in Int
      /\ RangeEnd(t) \in Int /\ resources[t].producer \in Int
  BY <1>1, RangeReaches DEF Steps
<1>4. Overlaps(LiveRange(r), LiveRange(t))
  BY <1>1, <1>2, <1>3 DEF Overlaps, LiveRange
<1> QED
  BY <1>4 DEF PlanInv, TenantsDisjoint

(* No two resources of one slot are ever live at the same step.             *)
THEOREM NoLiveAliasing == Spec => []LiveResourcesKeepApart
<1>1. PlanInv => LiveResourcesKeepApart
  BY TenantsApart
<1> QED
  BY <1>1, PlanInvariant, PTL

(* A finished plan, seen as an ExecutionPlan, is well formed: the facts     *)
(* about ModuleRuntime hold for every Module built from it.                 *)
THEOREM PlansAreWellFormed == Spec => []RuntimeCanRely
<1>1. PlanInv => RuntimeCanRely
  <2> SUFFICES ASSUME PlanInv, phase \in {"planned", "built"}
               PROVE  Plan!GraphWellFormed /\ Plan!StorageWellFormed
    BY DEF RuntimeCanRely
  <2>1. /\ resources \in [Nodes -> ResourceSpec]
        /\ DOMAIN assignments = StoredNodes
        /\ TenantsRecorded /\ TenantsDisjoint
        /\ slots \in Seq(PlannedSlot)
        /\ \A r \in StoredNodes : assignments[r].slot \in DOMAIN slots
    BY AllAssigned DEF PlanInv, TypeOK
  <2>2. Plan!Steps = Steps
    BY DEF Plan!Steps, Steps
  <2>3. UNION {PlanWrites[p] : p \in Steps} = StoredNodes
    BY <2>1, SpecTypes DEF StoredNodes, IsStored, Steps, PlanWrites
  <2>4. Plan!Stored = StoredNodes
    BY <2>2, <2>3 DEF Plan!Stored
  <2>5. \A r \in StoredNodes : Plan!ProducerStep(r) = resources[r].producer
    <3> SUFFICES ASSUME NEW r \in StoredNodes
                 PROVE  Plan!ProducerStep(r) = resources[r].producer
      OBVIOUS
    <3>1. r \in Nodes /\ resources[r].producer \in Steps
      BY <2>1, RangeReaches DEF StoredNodes
    <3>2. \A p \in Steps : r \in PlanWrites[p] <=> p = resources[r].producer
      BY <3>1 DEF PlanWrites
    <3> QED
      BY <3>1, <3>2, <2>2 DEF Plan!ProducerStep
  <2>6. Plan!GraphWellFormed
    <3>1. \A p \in Steps : \A r \in PlanReads[p] \cap StoredNodes : resources[r].producer < p
      BY <2>1, SpecTypes DEF PlanReads, StoredNodes
    <3>2. PlanOutputs \subseteq StoredNodes
      BY <2>1, SpecTypes DEF StoredNodes, IsStored, PlanOutputs
    <3>3. PlanReads \in [Steps -> SUBSET Nodes] /\ PlanWrites \in [Steps -> SUBSET Nodes]
      BY DEF PlanReads, PlanWrites
    <3>4. \A p, q \in Steps : PlanWrites[p] \cap PlanWrites[q] # {} => p = q
      BY DEF PlanWrites
    <3>5. StoredNodes \subseteq Nodes /\ UnitCount \in Nat
      BY PlannerAssumption DEF StoredNodes
    <3> QED
      BY <2>2, <2>4, <2>5, <3>1, <3>2, <3>3, <3>4, <3>5 DEF Plan!GraphWellFormed
  <2>7. Plan!StorageWellFormed
    <3>1. \A s \in DOMAIN slots : slots[s].type \in Registered
      <4>1. \A s \in DOMAIN slots : slots[s] \in PlannedSlot
        BY <2>1
      <4> QED
        BY <4>1 DEF PlannedSlot
    <3>2. PlanSlotKind \in [DOMAIN slots -> {"value", "fixed", "bounded"}]
      BY <3>1, PlannerAssumption DEF PlanSlotKind
    <3>3. \A r \in StoredNodes :
            /\ assignments[r].capacity \in Nat
            /\ PlanSlotKind[assignments[r].slot] = "value" => assignments[r].capacity = 1
      BY <2>1, CapacityType
         DEF TenantsRecorded, CompatibleTypes, StoredNodes, PlanSlotKind
    <3>4. \A r \in StoredNodes :
            /\ resources[r].producer \in Steps
            /\ RangeEnd(r) \in Nat
            /\ resources[r].producer <= RangeEnd(r)
            /\ \A p \in resources[r].consumers : p <= RangeEnd(r)
            /\ resources[r].output => RangeEnd(r) = UnitCount + 1
      BY <2>1, RangeReaches
    <3>5. PlanOutputs \subseteq StoredNodes
      BY <2>1, SpecTypes DEF StoredNodes, IsStored, PlanOutputs
    <3>6. \A r, t \in StoredNodes :
            r # t /\ assignments[r].slot = assignments[t].slot =>
              RangeEnd(r) < resources[t].producer \/ RangeEnd(t) < resources[r].producer
      BY <2>1, <3>4 DEF TenantsDisjoint, Overlaps, LiveRange, Steps
    <3>7. GrowPolicy \in BOOLEAN
      BY PlannerAssumption
    <3>8. /\ PlanSlotOf \in [StoredNodes -> DOMAIN slots]
          /\ PlanCapacity \in [StoredNodes -> Nat]
          /\ PlanLiveEnd \in [StoredNodes -> Nat]
      BY <2>1, <3>3, <3>4 DEF PlanSlotOf, PlanCapacity, PlanLiveEnd
    <3>9. \A r \in StoredNodes : PlanSlotKind[PlanSlotOf[r]] = "value" => PlanCapacity[r] = 1
      BY <3>3 DEF PlanSlotOf, PlanCapacity
    <3>10. /\ \A r \in StoredNodes : resources[r].producer <= PlanLiveEnd[r]
           /\ \A p \in Steps : \A r \in PlanReads[p] \cap StoredNodes : p <= PlanLiveEnd[r]
           /\ \A r \in PlanOutputs : PlanLiveEnd[r] = UnitCount + 1
      BY <3>4, <3>5 DEF PlanReads, PlanOutputs, PlanLiveEnd
    <3>11. \A r, t \in StoredNodes :
             r # t /\ PlanSlotOf[r] = PlanSlotOf[t] =>
               PlanLiveEnd[r] < resources[t].producer \/ PlanLiveEnd[t] < resources[r].producer
      BY <3>6 DEF PlanSlotOf, PlanLiveEnd
    <3> QED
      BY <2>2, <2>4, <2>5, <3>2, <3>7, <3>8, <3>9, <3>10, <3>11
         DEF Plan!StorageWellFormed
  <2> QED
    BY <2>6, <2>7
<1> QED
  BY <1>1, PlanInvariant, PTL
------------------------------------------------------------------------------
(* What a plan costs. *)

Costs(q) == SumOver([s \in DOMAIN q |-> q[s].bytes], DOMAIN q)

(* A slot is as large as its largest tenant, and priced for that; what is        *)
(* reported and allocated are these prices and sizes.                            *)
CostInv ==
  /\ \A s \in DOMAIN slots :
       /\ slots[s].bytes = ElementSize[slots[s].type] * slots[s].capacity * 2
       /\ \E r \in Tenants(s) : assignments[r].capacity = slots[s].capacity
  /\ \A r \in DOMAIN assignments : assignments[r].capacity <= slots[assignments[r].slot].capacity
  /\ phase \in {"planned", "built"} => peak = Costs(slots)
  /\ phase = "built" => allocated = [s \in DOMAIN slots |-> AllocatedCapacity(s)]

(* The sum of plan_storage, as a sum of a function.                               *)
LEMMA PlannedBytesAreCosts == PlannedBytes = Costs(slots)
<1> DEFINE D == DOMAIN slots
           f == [s \in D |-> slots[s].bytes]
           F(G) == [s \in SUBSET D |-> IF s = {} THEN 0 ELSE f[Pick(s)] + G[s \ {Pick(s)}]]
           E(G) == [s \in SUBSET D |-> IF s = {} THEN 0 ELSE slots[Pick(s)].bytes + G[s \ {Pick(s)}]]
<1>1. \A s \in SUBSET D : s # {} => f[Pick(s)] = slots[Pick(s)].bytes
  BY DEF Pick
<1> HIDE DEF f
<1>2. \A G : F(G) = E(G)
  BY <1>1
<1>3. PlannedBytes = (CHOOSE G : G = E(G))[D]
  BY Zenon DEF PlannedBytes, MapThenSumSet, MapThenFoldSet, Pick
<1>4. SumOver(f, D) = (CHOOSE G : G = F(G))[D]
  BY Zenon DEF SumOver, MapThenSumSet, MapThenFoldSet, Pick
<1>5. (CHOOSE G : G = F(G)) = (CHOOSE G : G = E(G))
  <2> HIDE DEF F, E
  <2> QED BY <1>2
<1>6. PlannedBytes = SumOver(f, D)
  BY <1>3, <1>4, <1>5, Zenon
<1> QED BY <1>6 DEF Costs, f

(* What is live at a step.                                                      *)
LiveCost(r) == ElementSize[resources[r].type] * assignments[r].capacity * 2

LEMMA LiveCostsAreASum ==
  ASSUME NEW D
  PROVE  MapThenSumSet(LAMBDA r : ElementSize[resources[r].type] * assignments[r].capacity * 2, D)
         = SumOver([r \in D |-> LiveCost(r)], D)
<1> DEFINE f == [r \in D |-> LiveCost(r)]
           F(G) == [s \in SUBSET D |-> IF s = {} THEN 0 ELSE f[Pick(s)] + G[s \ {Pick(s)}]]
           E(G) == [s \in SUBSET D |-> IF s = {} THEN 0 ELSE LiveCost(Pick(s)) + G[s \ {Pick(s)}]]
<1>1. \A s \in SUBSET D : s # {} => f[Pick(s)] = LiveCost(Pick(s))
  BY DEF Pick
<1> HIDE DEF f
<1>2. \A G : F(G) = E(G)
  BY <1>1
<1>3. MapThenSumSet(LAMBDA r : ElementSize[resources[r].type] * assignments[r].capacity * 2, D)
      = (CHOOSE G : G = E(G))[D]
  BY Zenon DEF LiveCost, MapThenSumSet, MapThenFoldSet, Pick
<1>4. SumOver(f, D) = (CHOOSE G : G = F(G))[D]
  BY Zenon DEF SumOver, MapThenSumSet, MapThenFoldSet, Pick
<1>5. (CHOOSE G : G = F(G)) = (CHOOSE G : G = E(G))
  <2> HIDE DEF F, E
  <2> QED BY <1>2
<1> HIDE DEF F, E
<1> QED BY <1>3, <1>4, <1>5, Zenon DEF f

AllocatedCost(s) == ElementSize[slots[s].type] * allocated[s] * 2

LEMMA AllocatedCostsAreASum ==
  ASSUME NEW D
  PROVE  MapThenSumSet(LAMBDA s : ElementSize[slots[s].type] * allocated[s] * 2, D)
         = SumOver([s \in D |-> AllocatedCost(s)], D)
<1> DEFINE f == [s \in D |-> AllocatedCost(s)]
           F(G) == [s \in SUBSET D |-> IF s = {} THEN 0 ELSE f[Pick(s)] + G[s \ {Pick(s)}]]
           E(G) == [s \in SUBSET D |-> IF s = {} THEN 0 ELSE AllocatedCost(Pick(s)) + G[s \ {Pick(s)}]]
<1>1. \A s \in SUBSET D : s # {} => f[Pick(s)] = AllocatedCost(Pick(s))
  BY DEF Pick
<1> HIDE DEF f
<1>2. \A G : F(G) = E(G)
  BY <1>1
<1>3. MapThenSumSet(LAMBDA s : ElementSize[slots[s].type] * allocated[s] * 2, D)
      = (CHOOSE G : G = E(G))[D]
  BY Zenon DEF AllocatedCost, MapThenSumSet, MapThenFoldSet, Pick
<1>4. SumOver(f, D) = (CHOOSE G : G = F(G))[D]
  BY Zenon DEF SumOver, MapThenSumSet, MapThenFoldSet, Pick
<1>5. (CHOOSE G : G = F(G)) = (CHOOSE G : G = E(G))
  <2> HIDE DEF F, E
  <2> QED BY <1>2
<1> HIDE DEF F, E
<1> QED BY <1>3, <1>4, <1>5, Zenon DEF f

LEMMA AssignKeepsCosts ==
  ASSUME PlanInv, CostInv, phase = "planning", next \in Nodes, Plannable(next),
         NEW s \in DOMAIN slots', Assign(s),
         \A u \in DOMAIN slots :
           /\ u \in DOMAIN slots'
           /\ slots'[u].type = slots[u].type
           /\ slots'[u].capacity = slots[u].capacity
           /\ slots'[u].bytes = slots[u].bytes,
         \A u \in DOMAIN slots' : u \in DOMAIN slots \/ u = s,
         PhysicalCapacity(next) <= slots'[s].capacity,
         s \notin DOMAIN slots =>
           /\ PhysicalCapacity(next) = slots'[s].capacity
           /\ slots'[s].bytes = ElementSize[slots'[s].type] * slots'[s].capacity * 2
  PROVE  CostInv'
<1> DEFINE new == [slot |-> s, capacity |-> PhysicalCapacity(next), bytes |-> Bytes(next)]
           old == DOMAIN assignments
<1>1. /\ phase' = "planning"
      /\ assignments' = [r \in old \cup {next} |-> IF r = next THEN new ELSE assignments[r]]
  BY DEF Assign
<1>2. next \notin old /\ \A r \in old : assignments[r].slot \in DOMAIN slots
  <2>1. old = {r \in StoredNodes : r < next} /\ next \in Nat
    BY DEF PlanInv, TypeOK, Nodes
  <2>2. \A r \in old : assignments[r].slot \in DOMAIN slots
    BY DEF PlanInv, TypeOK
  <2> QED BY <2>1, <2>2
<1>3. /\ DOMAIN assignments' = old \cup {next}
      /\ assignments'[next].slot = s /\ assignments'[next].capacity = PhysicalCapacity(next)
      /\ \A r \in old : assignments'[r] = assignments[r]
  BY <1>1, <1>2
<1>4. ASSUME NEW r \in DOMAIN assignments'
      PROVE  assignments'[r].capacity <= slots'[assignments'[r].slot].capacity
  <2>1. CASE r = next
    BY <1>3, <2>1
  <2>2. CASE r \in old
    <3>1. assignments[r].capacity <= slots[assignments[r].slot].capacity
      BY <2>2 DEF CostInv
    <3> QED BY <1>2, <1>3, <2>2, <3>1
  <2> QED BY <1>3, <2>1, <2>2
<1>5. ASSUME NEW u \in DOMAIN slots'
      PROVE  /\ slots'[u].bytes = ElementSize[slots'[u].type] * slots'[u].capacity * 2
             /\ \E r \in DOMAIN assignments' :
                  assignments'[r].slot = u /\ assignments'[r].capacity = slots'[u].capacity
  <2>1. CASE u \in DOMAIN slots
    <3>1. slots[u].bytes = ElementSize[slots[u].type] * slots[u].capacity * 2
      BY <2>1 DEF CostInv
    <3>2. PICK r \in old : assignments[r].slot = u /\ assignments[r].capacity = slots[u].capacity
      BY <2>1 DEF CostInv, Tenants
    <3>3. /\ r \in DOMAIN assignments' /\ assignments'[r].slot = u
          /\ assignments'[r].capacity = slots'[u].capacity
      BY <1>3, <2>1, <3>2
    <3>4. slots'[u].bytes = ElementSize[slots'[u].type] * slots'[u].capacity * 2
      BY <2>1, <3>1
    <3> QED BY <3>3, <3>4
  <2>2. CASE u \notin DOMAIN slots
    <3>1. u = s
      BY <2>2
    <3> QED BY <1>3, <2>2, <3>1
  <2> QED BY <2>1, <2>2
<1>6. ASSUME NEW u \in DOMAIN slots'
      PROVE  \E r \in Tenants(u)' : assignments'[r].capacity = slots'[u].capacity
  BY <1>5 DEF Tenants
<1> QED BY <1>1, <1>4, <1>5, <1>6 DEF CostInv

LEMMA CostsKept ==
  ASSUME PlanInv, CostInv, Next
  PROVE  CostInv'
<1>1. slots \in Seq(PlannedSlot)
  BY DEF PlanInv, TypeOK
<1>2. CASE ReuseSlot
  <2> DEFINE s == Min(Reusable(next))
  <2>1. /\ phase = "planning" /\ next \in Nodes /\ Plannable(next) /\ Assign(s)
        /\ slots' = [slots EXCEPT ![s].ranges = @ \cup {LiveRange(next)}]
        /\ s \in DOMAIN slots /\ Fits(s, next)
    <3>1. Reusable(next) \in SUBSET Nat
      BY <1>1 DEF Reusable
    <3>2. s \in Reusable(next)
      BY <1>2, <3>1, MinOfNaturals DEF ReuseSlot
    <3> QED BY <1>2, <3>2 DEF ReuseSlot, Reusable
  <2> HIDE DEF s
  <2>2. DOMAIN slots' = DOMAIN slots /\ \A u \in DOMAIN slots :
          /\ slots'[u].type = slots[u].type
          /\ slots'[u].capacity = slots[u].capacity
          /\ slots'[u].bytes = slots[u].bytes
    <3>1. slots[s] \in PlannedSlot
      BY <1>1, <2>1
    <3> DEFINE wider == [slots[s] EXCEPT !.ranges = @ \cup {LiveRange(next)}]
    <3>2. /\ wider.type = slots[s].type /\ wider.capacity = slots[s].capacity
          /\ wider.bytes = slots[s].bytes
      BY <3>1 DEF PlannedSlot
    <3>3. slots' = [slots EXCEPT ![s] = wider]
      BY <2>1
    <3> HIDE DEF wider
    <3>4. DOMAIN slots' = DOMAIN slots /\ slots'[s] = wider
          /\ \A u \in DOMAIN slots : u # s => slots'[u] = slots[u]
      BY <1>1, <2>1, <3>3
    <3> QED BY <3>2, <3>4
  <2>3. PhysicalCapacity(next) <= slots'[s].capacity
    <3>1. slots[s].capacity \in Nat /\ PhysicalCapacity(next) \in Nat
      <4>1. slots[s] \in PlannedSlot
        BY <1>1, <2>1
      <4>2. resources \in [Nodes -> ResourceSpec]
        BY DEF PlanInv, TypeOK
      <4> QED BY <2>1, <4>1, <4>2, CapacityType DEF PlannedSlot
    <3>2. slots[s].capacity >= PhysicalCapacity(next)
      BY <2>1 DEF Fits
    <3> QED BY <2>1, <2>2, <3>1, <3>2
  <2> QED BY <2>1, <2>2, <2>3, AssignKeepsCosts
<1>3. CASE OpenSlot
  <2> DEFINE new == [type |-> resources[next].type, capacity |-> PhysicalCapacity(next),
                     bytes |-> Bytes(next), ranges |-> {LiveRange(next)}]
             s == Len(slots) + 1
  <2>1. /\ phase = "planning" /\ next \in Nodes /\ Plannable(next)
        /\ slots' = Append(slots, new) /\ Assign(s)
    BY <1>3 DEF OpenSlot
  <2>2. /\ new.type = resources[next].type /\ new.capacity = PhysicalCapacity(next)
        /\ new.bytes = ElementSize[new.type] * new.capacity * 2
    BY DEF Bytes
  <2>3. /\ DOMAIN slots' = DOMAIN slots \cup {s} /\ s \notin DOMAIN slots
        /\ \A u \in DOMAIN slots : slots'[u] = slots[u]
        /\ slots'[s] = new
    <3> HIDE DEF new
    <3>1. Len(slots) \in Nat /\ DOMAIN slots = 1 .. Len(slots)
      BY <1>1
    <3>2. /\ Len(slots') = Len(slots) + 1 /\ DOMAIN slots' = 1 .. Len(slots) + 1
          /\ slots'[Len(slots) + 1] = new
          /\ \A u \in 1 .. Len(slots) : slots'[u] = slots[u]
      BY <1>1, <2>1
    <3> QED BY <3>1, <3>2
  <2>4. PhysicalCapacity(next) <= PhysicalCapacity(next)
    <3>1. resources \in [Nodes -> ResourceSpec]
      BY DEF PlanInv, TypeOK
    <3> QED BY <2>1, <3>1, CapacityType
  <2> HIDE DEF new, s
  <2> QED BY <2>1, <2>2, <2>3, <2>4, AssignKeepsCosts
<1>4. ASSUME UNCHANGED <<slots, assignments>>,
             phase' \in {"planned", "built"} => peak' = Costs(slots'),
             phase' = "built" => allocated' = [s \in DOMAIN slots |-> AllocatedCapacity(s)]
      PROVE  CostInv'
  <2>1. \A s : Tenants(s)' = Tenants(s) /\ AllocatedCapacity(s)' = AllocatedCapacity(s)
    BY <1>4 DEF Tenants, AllocatedCapacity
  <2>2. [s \in DOMAIN slots' |-> AllocatedCapacity(s)'] = [s \in DOMAIN slots |-> AllocatedCapacity(s)]
    BY <1>4, <2>1
  <2>3. phase' = "built" => allocated' = [s \in DOMAIN slots' |-> AllocatedCapacity(s)']
    BY <1>4, <2>2
  <2> QED BY <1>4, <2>1, <2>3 DEF CostInv
<1>5. CASE FinishPlan
  <2>1. /\ UNCHANGED <<slots, assignments>> /\ phase' = "planned" /\ peak' = PlannedBytes
    BY <1>5 DEF FinishPlan
  <2>2. peak' = Costs(slots')
    BY <2>1, PlannedBytesAreCosts
  <2> QED BY <1>4, <2>1, <2>2
<1>6. CASE PrepareRuntime
  BY <1>4, <1>6, PlanAccepted DEF PrepareRuntime, CostInv
<1>7. CASE SkipModuleInput \/ RejectUnknown \/ RejectOversize \/ RejectTotal \/ RejectRegistry
  BY <1>4, <1>7 DEF SkipModuleInput, RejectUnknown, RejectOversize, RejectTotal, RejectRegistry,
                    Fail, CostInv
<1> QED BY <1>2, <1>3, <1>5, <1>6, <1>7 DEF Next

(* Both backings of all that is live at a step fit in the peak.                   *)
LEMMA EstimateCovers ==
  ASSUME PlanInv, CostInv
  PROVE  EstimateCoversTheRun
<1> SUFFICES ASSUME phase = "planned", NEW p \in 1 .. UnitCount + 1
             PROVE  MapThenSumSet(LAMBDA r : ElementSize[resources[r].type] * assignments[r].capacity * 2,
                                  {r \in StoredNodes : LiveAt(r, p)}) <= peak
  BY DEF EstimateCoversTheRun
<1> DEFINE D == {r \in StoredNodes : LiveAt(r, p)}
           R == DOMAIN slots
           f == [r \in D |-> LiveCost(r)]
           g == [s \in R |-> slots[s].bytes]
           h == [r \in D |-> assignments[r].slot]
<1>1. /\ resources \in [Nodes -> ResourceSpec] /\ DOMAIN assignments = StoredNodes
      /\ \A r \in StoredNodes : assignments[r].slot \in R
      /\ slots \in Seq(PlannedSlot) /\ TenantsRecorded
  BY AllAssigned DEF PlanInv, TypeOK
<1>2. IsFiniteSet(D) /\ IsFiniteSet(R)
  <2>1. IsFiniteSet(1 .. ResourceCount) /\ D \in SUBSET (1 .. ResourceCount)
    BY FS_Interval, PlannerAssumption DEF StoredNodes, Nodes
  <2>2. R = 1 .. Len(slots) /\ Len(slots) \in Nat
    BY <1>1
  <2>3. IsFiniteSet(D)
    BY <2>1, FS_Subset
  <2>4. IsFiniteSet(1 .. Len(slots))
    BY <2>2, FS_Interval
  <2> QED BY <2>2, <2>3, <2>4
<1>3. \A s \in R : g[s] \in Nat
  <2> TAKE s \in R
  <2>1. slots[s] \in PlannedSlot
    BY <1>1
  <2> QED BY <2>1, PlannerAssumption DEF PlannedSlot
<1>4. ASSUME NEW r \in D
      PROVE  f[r] \in Nat /\ f[r] <= g[assignments[r].slot]
  <2> DEFINE s == assignments[r].slot
             c == assignments[r].capacity
             e == ElementSize[resources[r].type]
  <2>1. r \in StoredNodes /\ s \in R /\ slots[s] \in PlannedSlot
    BY <1>1
  <2>2. /\ CompatibleTypes(slots[s].type, resources[r].type) /\ Plannable(r)
        /\ c = PhysicalCapacity(r)
    BY <1>1 DEF TenantsRecorded
  <2>3. ElementSize[slots[s].type] = e /\ e \in Nat
    BY <2>2, PlannerAssumption DEF CompatibleTypes, Plannable
  <2>4. c \in Nat /\ slots[s].capacity \in Nat /\ c <= slots[s].capacity
    BY <1>1, <2>1, <2>2, CapacityType DEF CostInv, PlannedSlot, StoredNodes
  <2>5. g[s] = e * slots[s].capacity * 2 /\ f[r] = e * c * 2
    BY <2>1, <2>3 DEF CostInv, LiveCost
  <2> HIDE DEF f, g, s, c, e
  <2>6. PICK d \in Nat : slots[s].capacity = c + d
    <3>1. slots[s].capacity - c \in Nat /\ slots[s].capacity = c + (slots[s].capacity - c)
      BY <2>4
    <3> QED BY <3>1
  <2>7. e * (c + d) * 2 = e * c * 2 + e * d * 2 /\ e * d * 2 \in Nat /\ e * c * 2 \in Nat
    BY <2>3, <2>4
  <2>8. f[r] \in Nat /\ f[r] <= g[s]
    BY <2>5, <2>6, <2>7
  <2> QED BY <2>8 DEF s
<1>5. h \in [D -> R] /\ \A r \in D : h[r] = assignments[r].slot
  BY <1>1
<1>6. ASSUME NEW r \in D, NEW t \in D, r # t
      PROVE  h[r] # h[t]
  BY <1>1, <1>5, <1>6, TenantsApart DEF LiveResourcesKeepApart
<1>7. \A r \in D : f[r] \in Nat /\ f[r] <= g[h[r]]
  BY <1>4, <1>5
<1> HIDE DEF f, g, h
<1>8. SumOver(f, D) <= SumOver(g, R)
  BY <1>2, <1>3, <1>5, <1>6, <1>7, SumBounded
<1>9. peak = SumOver(g, R)
  BY DEF CostInv, Costs, g
<1>10. MapThenSumSet(LAMBDA r : ElementSize[resources[r].type] * assignments[r].capacity * 2, D)
       = SumOver(f, D)
  BY LiveCostsAreASum, Zenon DEF f
<1> HIDE DEF D
<1>11. MapThenSumSet(LAMBDA r : ElementSize[resources[r].type] * assignments[r].capacity * 2, D) <= peak
  BY <1>8, <1>9, <1>10
<1> QED BY <1>11 DEF D

(* What is allocated for a slot is what it was planned for.                        *)
LEMMA AllocationMatches ==
  ASSUME PlanInv, CostInv
  PROVE  AllocationMatchesEstimate
<1> SUFFICES ASSUME phase = "built"
             PROVE  AllocationMatchesEstimate
  BY DEF AllocationMatchesEstimate
<1> DEFINE R == DOMAIN slots
           f == [s \in R |-> AllocatedCost(s)]
           g == [s \in R |-> slots[s].bytes]
<1>1. /\ DOMAIN assignments = StoredNodes
      /\ \A r \in StoredNodes : assignments[r].slot \in R
      /\ slots \in Seq(PlannedSlot)
      /\ \A r \in StoredNodes : assignments[r].capacity \in Nat
      /\ peak = SumOver(g, R) /\ allocated = [s \in R |-> AllocatedCapacity(s)]
  BY AllAssigned DEF PlanInv, TypeOK, CostInv, Costs
<1>2. ASSUME NEW s \in R
      PROVE  allocated[s] = slots[s].capacity
  <2> DEFINE T == {assignments[r].capacity : r \in Tenants(s)}
  <2>1. slots[s].capacity \in Nat
    <3>1. slots[s] \in PlannedSlot
      BY <1>1
    <3> QED BY <3>1 DEF PlannedSlot
  <2>2. \A r \in Tenants(s) : assignments[r].capacity \in 0 .. slots[s].capacity
    BY <1>1, <2>1 DEF Tenants, CostInv
  <2>3. PICK r \in Tenants(s) : assignments[r].capacity = slots[s].capacity
    BY DEF CostInv
  <2>4. T \in SUBSET (0 .. slots[s].capacity) /\ slots[s].capacity \in T
    BY <2>2, <2>3
  <2> HIDE DEF T
  <2>5. Max(T) \in T /\ Max(T) >= slots[s].capacity
    BY <2>1, <2>4, MaxOfBounded
  <2>6. Max(T) = slots[s].capacity
    <3>1. Max(T) \in 0 .. slots[s].capacity
      BY <2>4, <2>5
    <3> QED BY <2>1, <2>5, <3>1
  <2> QED BY <1>1, <2>6 DEF AllocatedCapacity, T
<1>3. \A r \in StoredNodes : assignments[r].capacity <= allocated[assignments[r].slot]
  BY <1>1, <1>2 DEF CostInv
<1>4. f = g
  BY <1>2 DEF AllocatedCost, CostInv
<1>5. MapThenSumSet(LAMBDA s : ElementSize[slots[s].type] * allocated[s] * 2, R) = SumOver(f, R)
  BY AllocatedCostsAreASum, Zenon
<1> HIDE DEF f, g
<1>6. peak = MapThenSumSet(LAMBDA s : ElementSize[slots[s].type] * allocated[s] * 2, R)
  BY <1>1, <1>4, <1>5, Zenon
<1> QED BY <1>3, <1>6, Zenon DEF AllocationMatchesEstimate

(* The reported peak is what the build allocates for the plan, and covers what is  *)
(* live at any step of a run (plan_storage and allocate_slots).                  *)
THEOREM EstimateAlwaysExact == Spec => []EstimateIsExact
<1>1. Init => CostInv
  <2> SUFFICES ASSUME Init PROVE CostInv
    OBVIOUS
  <2>1. DOMAIN slots = {} /\ DOMAIN assignments = {} /\ phase = "planning"
    BY DEF Init
  <2> QED BY <2>1 DEF CostInv
<1>2. PlanInv /\ CostInv /\ [Next]_vars => CostInv'
  <2> SUFFICES ASSUME PlanInv, CostInv, UNCHANGED vars PROVE CostInv'
    BY CostsKept
  <2>1. UNCHANGED <<slots, assignments, phase, peak, allocated>>
    BY DEF vars
  <2>2. \A s : Tenants(s)' = Tenants(s) /\ AllocatedCapacity(s)' = AllocatedCapacity(s)
    BY <2>1 DEF Tenants, AllocatedCapacity
  <2>3. [s \in DOMAIN slots' |-> AllocatedCapacity(s)'] = [s \in DOMAIN slots |-> AllocatedCapacity(s)]
    BY <2>1, <2>2
  <2> QED BY <2>1, <2>2, <2>3 DEF CostInv
<1>3. PlanInv /\ CostInv => EstimateIsExact
  BY EstimateCovers, AllocationMatches DEF EstimateIsExact
<1> QED BY <1>1, <1>2, <1>3, PlanInvariant, PTL DEF Spec

(* plan_storage reports the first resource it cannot plan, and when only the sum   *)
(* is too large, an assignment that exists.                                     *)
THEOREM FailuresAlwaysNameTheFirst == Spec => []FailuresNameTheFirst
<1>1. Init => FailuresNameTheFirst
  BY DEF Init, FailuresNameTheFirst, Failures
<1>2. PlanInv /\ FailuresNameTheFirst /\ [Next]_vars => FailuresNameTheFirst'
  <2> SUFFICES ASSUME PlanInv, FailuresNameTheFirst, [Next]_vars, phase' \in Failures
               PROVE  culprit' \in StoredNodes' /\ {r \in StoredNodes' : r < culprit'} \subseteq DOMAIN assignments'
    BY DEF FailuresNameTheFirst
  <2>1. DOMAIN assignments = {r \in StoredNodes : r < next} /\ next \in 1 .. ResourceCount + 1
    BY DEF PlanInv, TypeOK
  <2>2. CASE RejectUnknown \/ RejectOversize
    <3>1. /\ culprit' = next /\ next \in Nodes /\ IsStored(next)
          /\ UNCHANGED <<resources, assignments>>
      BY <2>2 DEF RejectUnknown, RejectOversize, Fail, Plannable
    <3>2. StoredNodes' = StoredNodes /\ next \in StoredNodes
      BY <3>1 DEF StoredNodes, IsStored
    <3> QED BY <2>1, <3>1, <3>2
  <2>3. CASE RejectTotal
    <3>1. /\ culprit' = Min(DOMAIN assignments) /\ next = ResourceCount + 1
          /\ PlannedBytes > MaxSize
          /\ UNCHANGED <<resources, assignments>>
      BY <2>3 DEF RejectTotal, Fail
    <3>2. StoredNodes' = StoredNodes
      BY <3>1 DEF StoredNodes, IsStored
    <3>3. DOMAIN slots # {}
      <4> SUFFICES ASSUME DOMAIN slots = {} PROVE FALSE
        OBVIOUS
      <4> DEFINE g == [s \in {} |-> slots[s].bytes]
      <4>1. SumOver(g, {}) = 0
        <5>1. IsFiniteSet({}) /\ \A x \in {} : g[x] \in Nat
          BY FS_EmptySet
        <5> HIDE DEF g
        <5> QED BY <5>1, SumUnfolds
      <4>2. Costs(slots) = SumOver(g, {})
        BY DEF Costs
      <4> QED BY <3>1, <4>1, <4>2, PlannedBytesAreCosts, PlannerAssumption
    <3>4. DOMAIN assignments # {} /\ DOMAIN assignments \in SUBSET Nat
      BY <2>1, <3>3 DEF PlanInv, Tenants, StoredNodes, Nodes
    <3>5. culprit' \in DOMAIN assignments
      BY <3>1, <3>4, MinOfNaturals
    <3>6. DOMAIN assignments = StoredNodes
      BY <2>1, <3>1, PlannerAssumption DEF StoredNodes, Nodes
    <3> QED BY <3>1, <3>2, <3>5, <3>6
  <2>4. CASE RejectRegistry \/ PrepareRuntime \/ FinishPlan \/ SkipModuleInput \/ ReuseSlot \/ OpenSlot
    BY <2>4 DEF RejectRegistry, PrepareRuntime, FinishPlan, SkipModuleInput, ReuseSlot, OpenSlot,
                Assign, Failures
  <2>5. CASE UNCHANGED vars
    BY <2>5 DEF vars, FailuresNameTheFirst, StoredNodes, IsStored
  <2> QED BY <2>2, <2>3, <2>4, <2>5 DEF Next
<1> QED BY <1>1, <1>2, PlanInvariant, PTL DEF Spec
==============================================================================
