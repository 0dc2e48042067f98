--------------------------- MODULE Module_proofs ---------------------------
(***************************************************************************)
(* Proofs about ModuleRuntime and ModuleHost, for every execution plan that *)
(* satisfies the assumptions of ExecutionPlan (any number of Units,         *)
(* resources and slots, any capacities), any probe lists and any number of  *)
(* runs.                                                                   *)
(*                                                                         *)
(* First the runtime by itself: TypeOK is inductive, and everything else    *)
(* follows from RuntimeInv (ModuleRuntime), proved one action at a time.    *)
(* Then a Module in the hands of its host, which runs as ModuleRuntime does *)
(* and keeps the safety part of ModuleContract.                             *)
(***************************************************************************)
EXTENDS ModuleHost, SequenceTheorems, TLAPS


------------------------------------------------------------------------------
(* Facts about execution plans. *)

(* A stored resource is written by its producing step.                      *)
LEMMA ProducerWrites ==
  ASSUME NEW r \in Stored
  PROVE  ProducerStep(r) \in Steps /\ r \in Writes[ProducerStep(r)]
BY DEF Stored, ProducerStep

(* A step that writes r is the producer of r.                               *)
LEMMA WriterProduces ==
  ASSUME NEW p \in Steps, NEW r \in Writes[p]
  PROVE  r \in Stored /\ r \in Resource /\ ProducerStep(r) = p
<1>1. r \in Stored
  BY DEF Stored
<1>2. r \in Resource
  BY <1>1, GraphAssumption DEF GraphWellFormed
<1>3. Writes[ProducerStep(r)] \cap Writes[p] # {} /\ ProducerStep(r) \in Steps
  BY <1>1, ProducerWrites
<1> QED
  BY <1>1, <1>2, <1>3, GraphAssumption DEF GraphWellFormed

(* Two outputs of one step never share a slot.                              *)
LEMMA GroupSlotsDistinct ==
  ASSUME NEW p \in Steps, NEW r \in Writes[p], NEW t \in Writes[p],
         SlotOf[r] = SlotOf[t]
  PROVE  r = t
<1>1. /\ r \in Stored /\ ProducerStep(r) = p
      /\ t \in Stored /\ ProducerStep(t) = p
  BY WriterProduces
<1>2. LiveEnd[r] \in Nat /\ LiveEnd[t] \in Nat /\ p \in Int
  BY <1>1, StorageAssumption DEF StorageWellFormed, Steps
<1>3. p <= LiveEnd[r] /\ p <= LiveEnd[t]
  BY <1>1, StorageAssumption DEF StorageWellFormed
<1> QED
  BY <1>1, <1>2, <1>3, StorageAssumption DEF StorageWellFormed

(* What is still live does not share a slot with an output of the step.     *)
LEMMA LiveSlotNotWritten ==
  ASSUME NEW p \in Steps, NEW r \in Stored, ProducerStep(r) < p, p <= LiveEnd[r]
  PROVE  SlotOf[r] \notin SlotsWritten(p)
<1> SUFFICES ASSUME NEW t \in Writes[p], SlotOf[t] = SlotOf[r]
             PROVE  FALSE
  BY DEF SlotsWritten
<1>1. t \in Stored /\ ProducerStep(t) = p
  BY WriterProduces
<1>2. ProducerStep(r) \in Steps
  BY ProducerWrites
<1>3. /\ LiveEnd[r] \in Nat /\ LiveEnd[t] \in Nat
      /\ p \in Int /\ ProducerStep(r) \in Int
  BY <1>1, <1>2, StorageAssumption DEF StorageWellFormed, Steps
<1>4. p <= LiveEnd[t]
  BY <1>1, StorageAssumption DEF StorageWellFormed
<1>5. r # t
  BY <1>1, <1>3
<1>6. LiveEnd[r] < p \/ LiveEnd[t] < ProducerStep(r)
  BY <1>1, <1>5, StorageAssumption DEF StorageWellFormed
<1> QED
  BY <1>3, <1>4, <1>6

(* The owner PublishGroup chooses for the slot of an output is that output. *)
LEMMA ChosenOwner ==
  ASSUME NEW p \in Steps, NEW r \in Writes[p]
  PROVE  (CHOOSE t \in Writes[p] : SlotOf[t] = SlotOf[r]) = r
<1> DEFINE c == CHOOSE t \in Writes[p] : SlotOf[t] = SlotOf[r]
<1>1. c \in Writes[p] /\ SlotOf[c] = SlotOf[r]
  OBVIOUS
<1>2. c = r
  BY <1>1, GroupSlotsDistinct
<1> QED
  BY <1>2

(* A nonempty sequence of length at most one has length one.                *)
LEMMA SingleItem ==
  ASSUME NEW S, NEW q \in Seq(S), q # <<>>, Len(q) <= 1
  PROVE  Len(q) = 1
<1>1. Len(q) \in Nat \ {0}
  BY EmptySeq, Zenon
<1> QED
  BY <1>1

(* Writes and slots stay within their sets.                                 *)
LEMMA PlanTypes ==
  /\ Stored \subseteq Resource
  /\ \A p \in Steps : Writes[p] \subseteq Stored
  /\ \A r \in Stored : SlotOf[r] \in Slot
  /\ \A p \in Steps : SlotsWritten(p) \subseteq Slot
<1>1. Stored \subseteq Resource
  BY GraphAssumption DEF GraphWellFormed
<1>2. \A p \in Steps : Writes[p] \subseteq Stored
  BY DEF Stored
<1>3. \A r \in Stored : SlotOf[r] \in Slot
  BY StorageAssumption DEF StorageWellFormed
<1> QED
  BY <1>1, <1>2, <1>3 DEF SlotsWritten
------------------------------------------------------------------------------
(* TypeOK *)

LEMMA OutcomeTypes ==
  /\ \A k \in ErrorKind \cup {"none", "ok"} : Plain(k) \in Outcome
  /\ HandlerError \subseteq Outcome
  /\ \A e \in HandlerError : e.kind # "ok" /\ e.kind # "none"
  /\ \A e \in Outcome : e.kind = "ok" => e = Plain("ok")
BY RuntimeAssumption DEF Plain, Outcome, ErrorKind

LEMMA InitTypeOK == Init => TypeOK
<1> SUFFICES ASSUME Init PROVE TypeOK
  OBVIOUS
<1>1. bound \in Bindings
  BY DEF Init, Bindings
<1>2. outcome \in Outcome
  BY OutcomeTypes DEF Init
<1>3. pos \in 0 .. UnitCount + 1
  BY GraphAssumption DEF GraphWellFormed, Init
<1>4. live \in [Slot -> [valid : BOOLEAN, items : Seq(Item)]]
  BY DEF Init, Nothing
<1>5. pending \in [Slot -> Seq(Item)]
  BY DEF Init
<1> QED
  BY <1>1, <1>2, <1>3, <1>4, <1>5 DEF Init, TypeOK

(* The published side of every slot is one that was pending, or nothing.    *)
LEMMA PublishGroupTypes ==
  ASSUME TypeOK, NEW p \in Steps, PublishGroup(p)
  PROVE  /\ published' \in [Resource -> BOOLEAN]
         /\ owner' \in [Slot -> Stored \cup {NoResource}]
         /\ live' \in [Slot -> [valid : BOOLEAN, items : Seq(Item)]]
         /\ pending' \in [Slot -> Seq(Item)]
<1>1. published' \in [Resource -> BOOLEAN]
  BY DEF PublishGroup
<1>2. owner' \in [Slot -> Stored \cup {NoResource}]
  <2> SUFFICES ASSUME NEW s \in SlotsWritten(p)
               PROVE  (CHOOSE r \in Writes[p] : SlotOf[r] = s) \in Stored
    BY DEF PublishGroup, TypeOK
  <2>1. \E r \in Writes[p] : SlotOf[r] = s
    BY DEF SlotsWritten
  <2>2. (CHOOSE r \in Writes[p] : SlotOf[r] = s) \in Writes[p]
    BY <2>1
  <2> QED
    BY <2>2, PlanTypes
<1>3. live' \in [Slot -> [valid : BOOLEAN, items : Seq(Item)]]
  BY DEF PublishGroup, TypeOK
<1>4. pending' \in [Slot -> Seq(Item)]
  BY DEF PublishGroup, DiscardPending, TypeOK
<1> QED
  BY <1>1, <1>2, <1>3, <1>4

(* A failed run leaves a well-typed store behind.                           *)
LEMMA StopRunTypes ==
  ASSUME TypeOK, pc = "handler", NEW e \in Outcome, StopRun(e)
  PROVE  TypeOK'
<1>1. pending' \in [Slot -> Seq(Item)]
  BY DEF StopRun, DiscardPending, TypeOK
<1>2. /\ published' \in [Resource -> BOOLEAN]
      /\ owner' \in [Slot -> Stored \cup {NoResource}]
  BY DEF StopRun, InvalidatePublications
<1>3. pos' \in 0 .. UnitCount + 1 /\ poisoned' \in BOOLEAN
  BY GraphAssumption DEF GraphWellFormed, StopRun, Poisons
<1> QED
  BY <1>1, <1>2, <1>3 DEF StopRun, TypeOK

LEMMA NextTypeOK == TypeOK /\ [Next]_vars => TypeOK'
<1> SUFFICES ASSUME TypeOK, [Next]_vars
             PROVE  TypeOK'
  OBVIOUS
<1> USE DEF TypeOK
<1> DEFINE ClearedStore == /\ published' \in [Resource -> BOOLEAN]
                           /\ owner' \in [Slot -> Stored \cup {NoResource}]
<1>0. InvalidatePublications => ClearedStore
  BY DEF InvalidatePublications
<1>1. ASSUME NEW b \in Bindings, NEW isProfiled \in BOOLEAN, Enter(b, isProfiled)
      PROVE  TypeOK'
  BY <1>0, <1>1, OutcomeTypes DEF Enter, ErrorKind
<1>2. {} \in Bindings
  BY DEF Bindings
<1>3. CASE RejectInputs
  BY <1>2, <1>3, OutcomeTypes DEF RejectInputs, Return, ErrorKind, store
<1>4. CASE RejectProbes
  BY <1>2, <1>4, OutcomeTypes DEF RejectProbes, Return, ErrorKind, store
<1>5. CASE RejectPoisoned
  BY <1>5, OutcomeTypes DEF RejectPoisoned, ErrorKind, store
<1>6. CASE StartRun
  <2>1. /\ live' \in [Slot -> [valid : BOOLEAN, items : Seq(Item)]]
        /\ pending' \in [Slot -> Seq(Item)]
    BY <1>6 DEF StartRun, ResetStore, Nothing
  <2>2. pos' \in 0 .. UnitCount + 1 /\ pos' # 0 /\ runs' \in Nat
    BY <1>6, GraphAssumption DEF GraphWellFormed, StartRun
  <2>3. ClearedStore
    BY <1>6, <1>0 DEF StartRun, ResetStore
  <2> QED
    BY <1>6, <2>1, <2>2, <2>3 DEF StartRun
<1>7. CASE BeginUnit
  BY <1>7 DEF BeginUnit, DiscardPending
<1>8. ASSUME NEW r \in Stored, WriteValue(r)
      PROVE  TypeOK'
  <2>1. <<[resource |-> r, run |-> runs]>> \in Seq(Item)
    BY DEF Item
  <2>2. pending' \in [Slot -> Seq(Item)]
    BY <1>8, <2>1 DEF WriteValue
  <2> QED
    BY <1>8, <2>2 DEF WriteValue
<1>9. ASSUME NEW r \in Stored, PushBuffer(r)
      PROVE  TypeOK'
  <2>1. [resource |-> r, run |-> runs] \in Item /\ SlotOf[r] \in Slot
    BY PlanTypes DEF Item
  <2>2. Append(pending[SlotOf[r]], [resource |-> r, run |-> runs]) \in Seq(Item)
    BY <2>1
  <2>3. pending' \in [Slot -> Seq(Item)]
    BY <1>9, <2>2 DEF PushBuffer
  <2> QED
    BY <1>9, <2>3 DEF PushBuffer
<1>10. CASE UnitPublishes
  <2>1. pos \in Steps /\ PublishGroup(pos)
    BY <1>10 DEF UnitPublishes
  <2>2. pos' \in 0 .. UnitCount + 1 /\ pos' # 0
    BY <1>10, <2>1, GraphAssumption DEF GraphWellFormed, UnitPublishes, Steps
  <2> QED
    BY <1>10, <2>1, <2>2, PublishGroupTypes DEF UnitPublishes
<1>11. CASE UnitIncomplete
  BY <1>11, StopRunTypes, OutcomeTypes DEF UnitIncomplete, ErrorKind
<1>12. CASE UnitPanics
  BY <1>12, StopRunTypes, OutcomeTypes DEF UnitPanics, ErrorKind
<1>13. ASSUME NEW e \in HandlerError, UnitFails(e)
       PROVE  TypeOK'
  BY <1>13, StopRunTypes, OutcomeTypes DEF UnitFails
<1>14. CASE FinishRun
  BY <1>14, GraphAssumption, OutcomeTypes DEF GraphWellFormed, FinishRun, store
<1>15. CASE ReturnOutcome
  BY <1>2, <1>15 DEF ReturnOutcome, Return, store
<1>16. CASE ReturnViolation
  BY <1>0, <1>2, <1>16, OutcomeTypes DEF ReturnViolation, Return, ErrorKind
<1>17. CASE UNCHANGED vars
  BY <1>17 DEF vars, store
<1> QED
  BY <1>1, <1>3, <1>4, <1>5, <1>6, <1>7, <1>8, <1>9, <1>10, <1>11, <1>12,
     <1>13, <1>14, <1>15, <1>16, <1>17 DEF Next, UnitReturns

(* Every variable keeps its type; in particular a handler only ever runs at *)
(* a step of the plan.                                                      *)
THEOREM TypeCorrect == Spec => []TypeOK
<1>1. Init => TypeOK
  BY InitTypeOK
<1>2. TypeOK /\ [Next]_vars => TypeOK'
  BY NextTypeOK
<1> QED
  BY <1>1, <1>2, PTL DEF Spec
------------------------------------------------------------------------------
(* RuntimeInv: the store operations. *)

(* Once every flag is cleared, nothing can be read.                         *)
LEMMA NothingReadable ==
  ASSUME \A r \in Resource : ~published[r]
  PROVE  \A r \in Stored : ~Readable(r)
BY PlanTypes DEF Readable

(* With OwnersFit, a flag alone tells what can be read.                     *)
LEMMA ReadableIsPublished ==
  ASSUME OwnersFit, NEW r \in Resource
  PROVE  Readable(r) <=> published[r]
BY DEF OwnersFit, Readable

(* A step that touches neither side of the store keeps what was readable.   *)
LEMMA ReadableKept ==
  ASSUME UNCHANGED <<published, owner>>
  PROVE  \A r : Readable(r)' <=> Readable(r)
BY DEF Readable

(* What publishing a group does to one resource: an output of the group can *)
(* be read and holds what was pending, any other keeps its contents while   *)
(* it can be read, and stays readable unless its slot was written.          *)
LEMMA PublishGroupReadable ==
  ASSUME TypeOK, OwnersFit, NEW p \in Steps, PublishGroup(p), NEW r \in Stored
  PROVE  /\ r \in Writes[p] =>
              /\ Readable(r)'
              /\ live'[SlotOf[r]] = [valid |-> TRUE, items |-> pending[SlotOf[r]]]
         /\ r \notin Writes[p] /\ Readable(r)' =>
              Readable(r) /\ live'[SlotOf[r]] = live[SlotOf[r]]
         /\ Readable(r) /\ SlotOf[r] \notin SlotsWritten(p) => Readable(r)'
<1>1. SlotOf[r] \in Slot /\ r \in Resource
  BY PlanTypes
<1>2. ASSUME r \in Writes[p]
      PROVE  /\ Readable(r)'
             /\ live'[SlotOf[r]] = [valid |-> TRUE, items |-> pending[SlotOf[r]]]
  <2>1. SlotOf[r] \in SlotsWritten(p)
    BY <1>2 DEF SlotsWritten
  <2>2. owner'[SlotOf[r]] = r
    BY <1>1, <1>2, <2>1, ChosenOwner DEF PublishGroup
  <2>3. published'[r]
    BY <1>1, <1>2 DEF PublishGroup
  <2> QED
    BY <1>1, <2>1, <2>2, <2>3 DEF PublishGroup, Readable
<1>3. ASSUME r \notin Writes[p], Readable(r)'
      PROVE  Readable(r) /\ live'[SlotOf[r]] = live[SlotOf[r]]
  <2>1. published[r] /\ \A s \in SlotsWritten(p) : owner[s] # r
    BY <1>1, <1>3 DEF PublishGroup, Readable
  <2>2. owner[SlotOf[r]] = r
    BY <1>1, <2>1 DEF OwnersFit
  <2>3. SlotOf[r] \notin SlotsWritten(p)
    BY <2>1, <2>2
  <2> QED
    BY <1>1, <2>1, <2>2, <2>3 DEF PublishGroup, Readable
<1>4. ASSUME Readable(r), SlotOf[r] \notin SlotsWritten(p)
      PROVE  Readable(r)'
  <2>1. owner'[SlotOf[r]] = r
    BY <1>1, <1>4 DEF PublishGroup, Readable
  <2>2. ASSUME NEW s \in SlotsWritten(p)
        PROVE  owner[s] # r
    <3>1. s \in Slot /\ s # SlotOf[r]
      BY <1>4, <2>2, PlanTypes
    <3>2. r # NoResource
      BY <1>1, RuntimeAssumption
    <3> QED
      BY <3>1, <3>2 DEF OwnersFit
  <2>3. published'[r]
    BY <1>1, <1>4, <2>2 DEF PublishGroup, Readable
  <2> QED
    BY <2>1, <2>3 DEF Readable
<1> QED
  BY <1>2, <1>3, <1>4

(* Publishing a group keeps flags, owners and slot assignment in agreement. *)
LEMMA PublishGroupOwners ==
  ASSUME TypeOK, OwnersFit, NEW p \in Steps, PublishGroup(p)
  PROVE  OwnersFit'
<1>1. ASSUME NEW s \in Slot, owner'[s] # NoResource
      PROVE  SlotOf[owner'[s]] = s
  <2>1. CASE s \in SlotsWritten(p)
    <3>1. PICK r \in Writes[p] : SlotOf[r] = s
      BY <2>1 DEF SlotsWritten
    <3>2. owner'[s] = r
      BY <2>1, <3>1, ChosenOwner DEF PublishGroup
    <3> QED
      BY <3>1, <3>2
  <2>2. CASE s \notin SlotsWritten(p)
    <3>1. owner'[s] = owner[s]
      BY <2>2 DEF PublishGroup
    <3> QED
      BY <1>1, <3>1 DEF OwnersFit
  <2> QED
    BY <2>1, <2>2
<1>2. ASSUME NEW r \in Resource, published'[r]
      PROVE  r \in Stored /\ owner'[SlotOf[r]] = r
  <2>1. CASE r \in Writes[p]
    <3>1. r \in Stored
      BY <2>1, PlanTypes
    <3>2. Readable(r)'
      BY <2>1, <3>1, PublishGroupReadable
    <3> QED
      BY <3>1, <3>2 DEF Readable
  <2>2. CASE r \notin Writes[p]
    <3>1. published[r] /\ \A s \in SlotsWritten(p) : owner[s] # r
      BY <1>2, <2>2 DEF PublishGroup
    <3>2. r \in Stored /\ owner[SlotOf[r]] = r
      BY <3>1 DEF OwnersFit
    <3>3. SlotOf[r] \notin SlotsWritten(p) /\ SlotOf[r] \in Slot
      BY <3>1, <3>2, PlanTypes
    <3> QED
      BY <3>2, <3>3 DEF PublishGroup
  <2> QED
    BY <2>1, <2>2
<1> QED
  BY <1>1, <1>2 DEF OwnersFit

(* A store without flags and owners satisfies whatever is said of readable  *)
(* resources.                                                               *)
LEMMA ClearedStore ==
  ASSUME InvalidatePublications
  PROVE  /\ OwnersFit'
         /\ ReadableIsFresh'
         /\ \A r \in Resource : ~published'[r]
         /\ \A r \in Stored : ~Readable(r)'
<1>1. \A r \in Resource : ~published'[r]
  BY DEF InvalidatePublications
<1>2. \A r \in Stored : ~Readable(r)'
  BY <1>1, PlanTypes DEF Readable
<1> QED
  BY <1>1, <1>2 DEF InvalidatePublications, OwnersFit, ReadableIsFresh

(* A failed run leaves nothing to read and does not claim success.          *)
LEMMA StopRunKeeps ==
  ASSUME RuntimeInv, pc = "handler", NEW e \in Outcome, e.kind # "ok", StopRun(e)
  PROVE  RuntimeInv'
<1>1. TypeOK'
  BY StopRunTypes DEF RuntimeInv
<1>2. /\ OwnersFit'
      /\ ReadableIsFresh'
      /\ \A r \in Resource : ~published'[r]
  BY ClearedStore DEF StopRun
<1>3. pc' = "closing" /\ outcome'.kind # "ok"
  BY DEF StopRun
<1> QED
  BY <1>1, <1>2, <1>3 DEF RuntimeInv, PendingTagged, GroupsAreAtomic, RunChecked,
     VisibilityDecided
------------------------------------------------------------------------------
(* RuntimeInv: one lemma per action that moves data or starts something.    *)

LEMMA EnterKeeps ==
  ASSUME RuntimeInv, TypeOK', NEW b \in Bindings, NEW isProfiled \in BOOLEAN,
         Enter(b, isProfiled)
  PROVE  RuntimeInv'
<1>1. /\ OwnersFit'
      /\ ReadableIsFresh'
      /\ \A r \in Resource : ~published'[r]
  BY ClearedStore DEF Enter
<1>2. pc' = "preflight"
  BY DEF Enter
<1> QED
  BY <1>1, <1>2 DEF RuntimeInv, PendingTagged, GroupsAreAtomic, RunChecked,
     VisibilityDecided

(* A run starts from an empty store, which is what GroupsAreAtomic says at  *)
(* the first step.                                                          *)
LEMMA StartRunKeeps ==
  ASSUME RuntimeInv, TypeOK', StartRun
  PROVE  RuntimeInv'
<1>1. /\ OwnersFit'
      /\ ReadableIsFresh'
      /\ \A r \in Resource : ~published'[r]
      /\ \A r \in Stored : ~Readable(r)'
  BY ClearedStore DEF StartRun, ResetStore
<1>2. pc' = "loop" /\ pos' = 1
  BY DEF StartRun
<1>3. GroupsAreAtomic'
  <2> SUFFICES ASSUME NEW r \in Stored
               PROVE  ~(ProducerStep(r) < 1)
    BY <1>1, <1>2 DEF GroupsAreAtomic
  <2> QED
    BY ProducerWrites DEF Steps
<1>4. InputsValid(bound)' /\ ~poisoned'
  BY DEF StartRun, InputsValid
<1> QED
  BY <1>1, <1>2, <1>3, <1>4 DEF RuntimeInv, PendingTagged, RunChecked,
     VisibilityDecided

LEMMA BeginUnitKeeps ==
  ASSUME RuntimeInv, TypeOK', BeginUnit
  PROVE  RuntimeInv'
<1>1. PendingTagged'
  <2> SUFFICES ASSUME NEW r \in Writes[pos]
               PROVE  pending'[SlotOf[r]] = <<>>
    <3>1. pos \in Steps /\ pos' = pos
      BY DEF BeginUnit
    <3>2. \A r \in Writes[pos] : RejectsOverflow(r) => 0 <= Capacity[r]
      BY <3>1, PlanTypes, StorageAssumption DEF StorageWellFormed
    <3> QED
      BY <3>1, <3>2 DEF PendingTagged
  <2>1. SlotOf[r] \in Slot /\ SlotOf[r] \in SlotsWritten(pos)
    BY PlanTypes DEF BeginUnit, SlotsWritten
  <2> QED
    BY <2>1 DEF BeginUnit, DiscardPending
<1>2. \A r : Readable(r)' <=> Readable(r)
  BY ReadableKept DEF BeginUnit
<1>3. OwnersFit'
  BY DEF RuntimeInv, BeginUnit, OwnersFit
<1>4. ReadableIsFresh'
  BY <1>2 DEF RuntimeInv, BeginUnit, ReadableIsFresh
<1>5. GroupsAreAtomic'
  BY <1>2 DEF RuntimeInv, BeginUnit, GroupsAreAtomic
<1>6. RunChecked'
  BY DEF RuntimeInv, BeginUnit, RunChecked, InputsValid
<1>7. VisibilityDecided'
  BY DEF BeginUnit, VisibilityDecided
<1> QED
  BY <1>1, <1>3, <1>4, <1>5, <1>6, <1>7 DEF RuntimeInv

(* A write of a handler reaches the pending side of one slot, and only the  *)
(* resource written has an output there.                                    *)
LEMMA WriteKeeps ==
  ASSUME RuntimeInv, TypeOK', NEW r \in Stored, WriteValue(r) \/ PushBuffer(r)
  PROVE  RuntimeInv'
<1> DEFINE item == [resource |-> r, run |-> runs]
<1>1. /\ pc = "handler" /\ pc' = "handler" /\ r \in Writes[pos]
      /\ UNCHANGED <<pos, bound, published, owner, live, poisoned, outcome, runs>>
  BY DEF WriteValue, PushBuffer
<1>2. /\ pos \in Steps
      /\ SlotOf[r] \in Slot
      /\ pending[SlotOf[r]] \in Seq(Item)
      /\ item \in Item
      /\ Capacity[r] \in Nat
  BY <1>1, PlanTypes, StorageAssumption DEF StorageWellFormed, RuntimeInv, TypeOK, Item
<1>3. pending' = [pending EXCEPT ![SlotOf[r]] = Append(pending[SlotOf[r]], item)]
  <2>1. CASE WriteValue(r)
    <3>1. Append(<<>>, item) = <<item>>
      OBVIOUS
    <3> QED
      BY <2>1, <3>1 DEF WriteValue
  <2>2. CASE PushBuffer(r)
    BY <2>2 DEF PushBuffer
  <2> QED
    BY <2>1, <2>2
<1>4. PendingTagged'
  <2> SUFFICES ASSUME NEW t \in Writes[pos]
               PROVE  LET items == pending'[SlotOf[t]] IN
                        /\ \A i \in 1 .. Len(items) :
                             items[i] = [resource |-> t, run |-> runs]
                        /\ SlotKind[SlotOf[t]] = "value" => Len(items) <= 1
                        /\ RejectsOverflow(t) => Len(items) <= Capacity[t]
    BY <1>1 DEF PendingTagged
  <2>1. CASE t = r
    <3> DEFINE old == pending[SlotOf[r]]
               new == Append(old, item)
    <3>1. pending'[SlotOf[t]] = new
      BY <1>2, <1>3, <2>1 DEF RuntimeInv, TypeOK
    <3>2. /\ \A i \in 1 .. Len(old) : old[i] = item
          /\ RejectsOverflow(r) => Len(old) <= Capacity[r]
      BY <1>1 DEF RuntimeInv, PendingTagged
    <3>3. /\ Len(new) = Len(old) + 1 /\ Len(old) \in Nat
          /\ \A i \in 1 .. Len(new) : new[i] = IF i <= Len(old) THEN old[i] ELSE item
      BY <1>2
    <3>4. \A i \in 1 .. Len(new) : new[i] = item
      BY <3>2, <3>3
    <3>5. CASE WriteValue(r)
      <4>1. old = <<>> /\ Len(old) = 0 /\ Capacity[r] = 1
        BY <3>5, StorageAssumption DEF StorageWellFormed, WriteValue
      <4> QED
        BY <2>1, <3>1, <3>3, <3>4, <4>1
    <3>6. CASE PushBuffer(r)
      <4>1. /\ SlotKind[SlotOf[r]] # "value"
            /\ ~(Len(old) = Capacity[r] /\ RejectsOverflow(r))
        BY <3>6 DEF PushBuffer
      <4>2. RejectsOverflow(r) => Len(new) <= Capacity[r]
        BY <1>2, <3>2, <3>3, <4>1
      <4> QED
        BY <2>1, <3>1, <3>4, <4>1, <4>2
    <3> QED
      BY <3>5, <3>6
  <2>2. CASE t # r
    <3>1. SlotOf[t] # SlotOf[r]
      BY <1>1, <1>2, <2>2, GroupSlotsDistinct
    <3>2. pending'[SlotOf[t]] = pending[SlotOf[t]]
      BY <1>3, <3>1
    <3> QED
      BY <1>1, <3>2 DEF RuntimeInv, PendingTagged
  <2> QED
    BY <2>1, <2>2
<1>5. \A t : Readable(t)' <=> Readable(t)
  BY <1>1, ReadableKept
<1>6. OwnersFit'
  BY <1>1 DEF RuntimeInv, OwnersFit
<1>7. ReadableIsFresh'
  BY <1>1, <1>5 DEF RuntimeInv, ReadableIsFresh
<1>8. GroupsAreAtomic'
  BY <1>1, <1>5 DEF RuntimeInv, GroupsAreAtomic
<1>9. RunChecked'
  BY <1>1 DEF RuntimeInv, RunChecked, InputsValid
<1>10. VisibilityDecided'
  BY <1>1 DEF VisibilityDecided
<1> QED
  BY <1>4, <1>6, <1>7, <1>8, <1>9, <1>10 DEF RuntimeInv

(* Publication: the new group is fresh and complete, and the live ranges of *)
(* the plan keep every resource a later step needs.                         *)
LEMMA UnitPublishesKeeps ==
  ASSUME RuntimeInv, TypeOK', UnitPublishes
  PROVE  RuntimeInv'
<1>1. /\ pc = "handler" /\ pc' = "loop" /\ pos \in Steps /\ pos' = pos + 1
      /\ PublishGroup(pos)
      /\ \A r \in Writes[pos] : PendingComplete(r)
      /\ UNCHANGED <<bound, poisoned, runs>>
  BY DEF RuntimeInv, TypeOK, UnitPublishes
<1>2. TypeOK /\ OwnersFit
  BY DEF RuntimeInv
<1>3. OwnersFit'
  BY <1>1, <1>2, PublishGroupOwners
<1>4. ReadableIsFresh'
  <2> SUFFICES ASSUME NEW r \in Stored, Readable(r)'
               PROVE  LET v == live'[SlotOf[r]] IN
                        /\ v.valid
                        /\ \A i \in 1 .. Len(v.items) :
                             v.items[i] = [resource |-> r, run |-> runs]
                        /\ SlotKind[SlotOf[r]] = "value" => Len(v.items) = 1
                        /\ SlotKind[SlotOf[r]] = "fixed" => Len(v.items) = Capacity[r]
                        /\ RejectsOverflow(r) => Len(v.items) <= Capacity[r]
    BY <1>1 DEF ReadableIsFresh
  <2>1. CASE r \in Writes[pos]
    <3> DEFINE items == pending[SlotOf[r]]
    <3>1. live'[SlotOf[r]] = [valid |-> TRUE, items |-> items]
      BY <1>1, <1>2, <2>1, PublishGroupReadable
    <3>2. /\ \A i \in 1 .. Len(items) : items[i] = [resource |-> r, run |-> runs]
          /\ SlotKind[SlotOf[r]] = "value" => Len(items) <= 1
          /\ RejectsOverflow(r) => Len(items) <= Capacity[r]
      BY <1>1, <2>1 DEF RuntimeInv, PendingTagged
    <3>3. items \in Seq(Item)
      BY PlanTypes DEF RuntimeInv, TypeOK
    <3>4. SlotKind[SlotOf[r]] = "value" => items # <<>>
      BY <1>1, <2>1 DEF PendingComplete
    <3>5. SlotKind[SlotOf[r]] = "fixed" => Len(items) = Capacity[r]
      BY <1>1, <2>1 DEF PendingComplete
    <3>6. items # <<>> /\ Len(items) <= 1 => Len(items) = 1
      BY <3>3, SingleItem
    <3> QED
      BY <3>1, <3>2, <3>4, <3>5, <3>6
  <2>2. CASE r \notin Writes[pos]
    <3>1. Readable(r) /\ live'[SlotOf[r]] = live[SlotOf[r]]
      BY <1>1, <1>2, <2>2, PublishGroupReadable
    <3> QED
      BY <3>1 DEF RuntimeInv, ReadableIsFresh
  <2> QED
    BY <2>1, <2>2
<1>5. GroupsAreAtomic'
  <2> SUFFICES ASSUME NEW r \in Stored
               PROVE  /\ pos + 1 <= ProducerStep(r) => ~Readable(r)'
                      /\ ProducerStep(r) < pos + 1 /\ pos + 1 <= LiveEnd[r] =>
                           Readable(r)'
    BY <1>1 DEF GroupsAreAtomic
  <2>1. /\ ProducerStep(r) \in Int /\ pos \in Int /\ LiveEnd[r] \in Int
        /\ r \in Writes[pos] <=> ProducerStep(r) = pos
    BY <1>1, ProducerWrites, WriterProduces, StorageAssumption DEF StorageWellFormed, Steps
  <2>2. ASSUME pos + 1 <= ProducerStep(r)
        PROVE  ~Readable(r)'
    <3>1. r \notin Writes[pos] /\ pos <= ProducerStep(r)
      BY <2>1, <2>2
    <3>2. ~Readable(r)
      BY <1>1, <3>1 DEF RuntimeInv, GroupsAreAtomic
    <3> QED
      BY <1>1, <1>2, <3>1, <3>2, PublishGroupReadable
  <2>3. ASSUME ProducerStep(r) < pos + 1, pos + 1 <= LiveEnd[r]
        PROVE  Readable(r)'
    <3>1. CASE ProducerStep(r) = pos
      BY <1>1, <1>2, <2>1, <3>1, PublishGroupReadable
    <3>2. CASE ProducerStep(r) # pos
      <4>1. ProducerStep(r) < pos /\ pos <= LiveEnd[r]
        BY <2>1, <2>3, <3>2
      <4>2. Readable(r) /\ SlotOf[r] \notin SlotsWritten(pos)
        BY <1>1, <4>1, LiveSlotNotWritten DEF RuntimeInv, GroupsAreAtomic
      <4> QED
        BY <1>1, <1>2, <4>2, PublishGroupReadable
    <3> QED
      BY <3>1, <3>2
  <2> QED
    BY <2>2, <2>3
<1>6. RunChecked'
  BY <1>1 DEF RuntimeInv, RunChecked, InputsValid
<1> QED
  BY <1>1, <1>3, <1>4, <1>5, <1>6 DEF RuntimeInv, PendingTagged, VisibilityDecided

(* Behind the last step every Module output is still live.                  *)
LEMMA FinishRunKeeps ==
  ASSUME RuntimeInv, TypeOK', FinishRun
  PROVE  RuntimeInv'
<1>1. /\ pc = "loop" /\ pc' = "closing" /\ pos = UnitCount + 1
      /\ outcome'.kind = "ok"
      /\ UNCHANGED <<bound, published, owner, live, poisoned, runs>>
  BY GraphAssumption DEF GraphWellFormed, RuntimeInv, TypeOK, FinishRun, store, Plain, Steps
<1>2. \A r : Readable(r)' <=> Readable(r)
  BY <1>1, ReadableKept
<1>3. ASSUME NEW r \in ModuleOutput
      PROVE  Readable(r)
  <2>1. r \in Stored /\ LiveEnd[r] = UnitCount + 1
    BY GraphAssumption, StorageAssumption DEF GraphWellFormed, StorageWellFormed
  <2>2. ProducerStep(r) < pos /\ pos <= LiveEnd[r]
    BY <1>1, <2>1, ProducerWrites, GraphAssumption DEF GraphWellFormed, Steps
  <2> QED
    BY <1>1, <2>1, <2>2 DEF RuntimeInv, GroupsAreAtomic
<1>4. VisibilityDecided'
  BY <1>1, <1>2, <1>3 DEF VisibilityDecided
<1>5. OwnersFit' /\ ReadableIsFresh' /\ RunChecked'
  BY <1>1, <1>2 DEF RuntimeInv, OwnersFit, ReadableIsFresh, RunChecked
<1> QED
  BY <1>1, <1>4, <1>5 DEF RuntimeInv, PendingTagged, GroupsAreAtomic
------------------------------------------------------------------------------
(* RuntimeInv is inductive. *)

LEMMA InitRuntimeInv == Init => RuntimeInv
<1> SUFFICES ASSUME Init PROVE RuntimeInv
  OBVIOUS
<1>1. TypeOK
  BY InitTypeOK
<1>2. \A r \in Resource : ~published[r]
  BY DEF Init
<1>3. \A r \in Stored : ~Readable(r)
  BY <1>2, NothingReadable
<1>4. pc = "idle" /\ ~poisoned /\ outcome.kind # "ok"
  BY DEF Init, Plain
<1>5. OwnersFit
  BY <1>2 DEF Init, OwnersFit
<1> QED
  BY <1>1, <1>2, <1>3, <1>4, <1>5 DEF RuntimeInv, PendingTagged,
     ReadableIsFresh, GroupsAreAtomic, RunChecked, VisibilityDecided

LEMMA NextRuntimeInv == RuntimeInv /\ [Next]_vars => RuntimeInv'
<1> SUFFICES ASSUME RuntimeInv, [Next]_vars
             PROVE  RuntimeInv'
  OBVIOUS
<1>1. TypeOK'
  BY NextTypeOK DEF RuntimeInv
<1>2. ASSUME NEW b \in Bindings, NEW isProfiled \in BOOLEAN, Enter(b, isProfiled)
      PROVE  RuntimeInv'
  BY <1>1, <1>2, EnterKeeps
<1>3. CASE StartRun
  BY <1>1, <1>3, StartRunKeeps
<1>4. CASE BeginUnit
  BY <1>1, <1>4, BeginUnitKeeps
<1>5. ASSUME NEW r \in Stored, WriteValue(r) \/ PushBuffer(r)
      PROVE  RuntimeInv'
  BY <1>1, <1>5, WriteKeeps
<1>6. CASE UnitPublishes
  BY <1>1, <1>6, UnitPublishesKeeps
<1>7. CASE UnitIncomplete
  BY <1>7, StopRunKeeps, OutcomeTypes DEF UnitIncomplete, Plain, ErrorKind
<1>8. CASE UnitPanics
  BY <1>8, StopRunKeeps, OutcomeTypes DEF UnitPanics, Plain, ErrorKind
<1>9. ASSUME NEW e \in HandlerError, UnitFails(e)
      PROVE  RuntimeInv'
  BY <1>9, StopRunKeeps, OutcomeTypes DEF UnitFails
<1>10. CASE FinishRun
  BY <1>1, <1>10, FinishRunKeeps
(* The remaining steps read and write nothing of the store but the flags.   *)
<1>11. ASSUME \/ RejectInputs \/ RejectProbes \/ RejectPoisoned
              \/ ReturnOutcome \/ UNCHANGED vars
       PROVE  RuntimeInv'
  <2>1. UNCHANGED <<published, owner, live, pending, poisoned, runs>>
    BY <1>11 DEF RejectInputs, RejectProbes, RejectPoisoned, ReturnOutcome, vars, store
  <2>2. \A r : Readable(r)' <=> Readable(r)
    BY <2>1, ReadableKept
  <2>3. OwnersFit' /\ ReadableIsFresh'
    BY <2>1, <2>2 DEF RuntimeInv, OwnersFit, ReadableIsFresh
  <2>4. CASE UNCHANGED vars
    BY <1>1, <2>2, <2>3, <2>4 DEF RuntimeInv, PendingTagged, GroupsAreAtomic,
       RunChecked, InputsValid, VisibilityDecided, vars, store
  <2>5. CASE RejectInputs \/ RejectProbes \/ RejectPoisoned
    <3>1. \A r \in Resource : ~published'[r]
      BY <2>1, <2>5 DEF RuntimeInv, VisibilityDecided, RejectInputs, RejectProbes,
         RejectPoisoned
    <3>2. pc' \in {"idle", "closing"} /\ outcome'.kind # "ok"
      BY <2>5 DEF RejectInputs, RejectProbes, RejectPoisoned, Return, Plain
    <3> QED
      BY <1>1, <2>3, <3>1, <3>2 DEF RuntimeInv, PendingTagged, GroupsAreAtomic,
         RunChecked, VisibilityDecided
  <2>6. CASE ReturnOutcome
    <3>1. pc = "closing" /\ pc' = "idle" /\ outcome' = outcome
      BY <2>6 DEF ReturnOutcome, Return
    <3>2. VisibilityDecided'
      BY <2>1, <2>2, <3>1 DEF RuntimeInv, VisibilityDecided
    <3>3. RunChecked'
      BY <2>1, <3>1 DEF RuntimeInv, RunChecked
    <3> QED
      BY <1>1, <2>3, <3>1, <3>2, <3>3 DEF RuntimeInv, PendingTagged, GroupsAreAtomic
  <2> QED
    BY <1>11, <2>4, <2>5, <2>6
<1>12. CASE ReturnViolation
  <2>1. /\ OwnersFit'
        /\ ReadableIsFresh'
        /\ \A r \in Resource : ~published'[r]
    BY <1>12, ClearedStore DEF ReturnViolation
  <2>2. pc' = "idle" /\ outcome'.kind # "ok"
    BY <1>12 DEF ReturnViolation, Return, Plain
  <2> QED
    BY <1>1, <2>1, <2>2 DEF RuntimeInv, PendingTagged, GroupsAreAtomic, RunChecked,
       VisibilityDecided
<1> QED
  BY <1>2, <1>3, <1>4, <1>5, <1>6, <1>7, <1>8, <1>9, <1>10, <1>11, <1>12
     DEF Next, UnitReturns

(* The inductive invariant holds in every reachable state.                  *)
THEOREM RuntimeInvariant == Spec => []RuntimeInv
<1>1. Init => RuntimeInv
  BY InitRuntimeInv
<1>2. RuntimeInv /\ [Next]_vars => RuntimeInv'
  BY NextRuntimeInv
<1> QED
  BY <1>1, <1>2, PTL DEF Spec

(* What can be read as a resource is what its Unit wrote for it in this run, *)
(* complete and within its capacity, whatever slots the plan reuses.        *)
THEOREM FreshReads == Spec => []ReadableIsFresh
<1>1. RuntimeInv => ReadableIsFresh
  BY DEF RuntimeInv
<1> QED
  BY <1>1, RuntimeInvariant, PTL

(* A run shows every output group as a whole or not at all, and keeps it as *)
(* long as its live range says.                                             *)
THEOREM AtomicGroups == Spec => []GroupsAreAtomic
<1>1. RuntimeInv => GroupsAreAtomic
  BY DEF RuntimeInv
<1> QED
  BY <1>1, RuntimeInvariant, PTL

(* The graph, the live ranges, the loop order and the preflight check together *)
(* exclude an unpublished or shadowed input.                                  *)
LEMMA InputsAreAvailable == RuntimeInv => InputsAvailable
<1> SUFFICES ASSUME RuntimeInv, pc = "handler", NEW r \in Reads[pos]
             PROVE  IF r \in ModuleInput
                      THEN \E x \in bound : x.resource = r /\ x.token = OwnToken
                      ELSE Readable(r) /\ \A x \in bound : x.resource # r
  BY DEF InputsAvailable
<1>1. pos \in Steps /\ InputsValid(bound)
  BY DEF RuntimeInv, TypeOK, RunChecked
<1>2. CASE r \in ModuleInput
  BY <1>1, <1>2 DEF InputsValid
<1>3. CASE r \notin ModuleInput
  <2>1. r \in Stored
    BY <1>1, <1>3, GraphAssumption DEF GraphWellFormed
  <2>2. ProducerStep(r) < pos /\ pos <= LiveEnd[r]
    BY <1>1, <2>1, GraphAssumption, StorageAssumption DEF GraphWellFormed, StorageWellFormed
  <2>3. Readable(r)
    BY <2>1, <2>2 DEF RuntimeInv, GroupsAreAtomic
  <2> QED
    BY <1>1, <1>3, <2>3 DEF InputsValid
<1> QED
  BY <1>2, <1>3

(* Whenever a handler runs, each of its declared inputs can be read.          *)
THEOREM DeclaredInputsAvailable == Spec => []InputsAvailable
BY InputsAreAvailable, RuntimeInvariant, PTL

(* The host sees every output after a success and nothing after any other   *)
(* end of a call.                                                           *)
THEOREM VisibleAfterSuccessOnly == Spec => []OutcomeDecidesVisibility
<1>1. RuntimeInv => OutcomeDecidesVisibility
  BY DEF RuntimeInv, VisibilityDecided, OutcomeDecidesVisibility
<1> QED
  BY <1>1, RuntimeInvariant, PTL

(* The two records of who holds a slot never disagree.                      *)
THEOREM FlagsAndOwnersAgree == Spec => []FlagsFollowOwners
<1>1. RuntimeInv => FlagsFollowOwners
  BY PlanTypes DEF RuntimeInv, OwnersFit, FlagsFollowOwners
<1> QED
  BY <1>1, RuntimeInvariant, PTL

(* All that may be relied on when something is read, together (run loop,       *)
(* publication and the checks of execute).                                   *)
THEOREM ReadsStaySafe == Spec => []ReadsAreSafe
BY FreshReads, AtomicGroups, DeclaredInputsAvailable, VisibleAfterSuccessOnly,
   FlagsAndOwnersAgree, PTL DEF ReadsAreSafe
------------------------------------------------------------------------------
(* Action properties *)

(* Poison is never cleared, and behind it no Unit runs and nothing becomes  *)
(* visible.                                                                 *)
THEOREM PoisonStays == Spec => PoisonIsFinal
<1>1. ASSUME RuntimeInv, RuntimeInv', [Next]_vars, poisoned
      PROVE  /\ poisoned'
             /\ pc' \notin {"loop", "handler"}
             /\ \A r \in Resource : ~published'[r]
  <2>1. pc \notin {"loop", "handler"}
    BY <1>1 DEF RuntimeInv, RunChecked
  <2>2. poisoned'
    BY <1>1, <2>1 DEF Next, vars, Enter, RejectInputs, RejectProbes, RejectPoisoned,
       StartRun, BeginUnit, WriteValue, PushBuffer, UnitReturns, UnitPublishes,
       UnitIncomplete, UnitPanics, UnitFails, FinishRun, ReturnOutcome, ReturnViolation
  <2> QED
    BY <1>1, <2>2 DEF RuntimeInv, RunChecked
<1>2. RuntimeInv /\ RuntimeInv' /\ [Next]_vars =>
        [poisoned => /\ poisoned'
                     /\ pc' \notin {"loop", "handler"}
                     /\ \A r \in Resource : ~published'[r]]_vars
  BY <1>1
<1> QED
  BY <1>2, RuntimeInvariant, PTL DEF Spec, PoisonIsFinal

(* Within a run the contents of a resource that can be read do not change.  *)
THEOREM PublishedStays == Spec => PublishedIsImmutable
<1>1. ASSUME RuntimeInv, [Next]_vars, NEW r \in Stored,
             Readable(r), Readable(r)', runs' = runs
      PROVE  live'[SlotOf[r]] = live[SlotOf[r]]
  <2>1. CASE UnitPublishes
    <3>1. pc = "handler" /\ pos \in Steps /\ PublishGroup(pos)
      BY <1>1, <2>1 DEF RuntimeInv, TypeOK, UnitPublishes
    <3>2. r \notin Writes[pos]
      <4> SUFFICES ASSUME r \in Writes[pos] PROVE FALSE
        OBVIOUS
      <4>1. ProducerStep(r) = pos /\ pos \in Int
        BY <3>1, WriterProduces DEF Steps
      <4> QED
        BY <1>1, <3>1, <4>1 DEF RuntimeInv, GroupsAreAtomic
    <3> QED
      BY <1>1, <3>1, <3>2, PublishGroupReadable DEF RuntimeInv
  <2>2. CASE StartRun
    BY <1>1, <2>2 DEF StartRun, RuntimeInv, TypeOK
  <2>3. CASE ~UnitPublishes /\ ~StartRun
    <3>1. live' = live
      BY <1>1, <2>3 DEF Next, vars, store, Enter, RejectInputs, RejectProbes,
         RejectPoisoned, BeginUnit, WriteValue, PushBuffer, UnitReturns,
         UnitIncomplete, UnitPanics, UnitFails, StopRun, FinishRun, ReturnOutcome,
         ReturnViolation
    <3> QED
      BY <3>1
  <2> QED
    BY <2>1, <2>2, <2>3
<1>2. RuntimeInv /\ [Next]_vars =>
        [\A r \in Stored :
           Readable(r) /\ Readable(r)' /\ runs' = runs =>
             live'[SlotOf[r]] = live[SlotOf[r]]]_vars
  BY <1>1
<1> QED
  BY <1>2, RuntimeInvariant, PTL DEF Spec, PublishedIsImmutable
------------------------------------------------------------------------------
(* The host. *)


(* What an event or a timing can be called.                                   *)
Kinds == {"Success", "FatalFailure", "Overflow", "IncompleteOutput", "Panic",
          "AllocationProfileViolation", "RecoverableFailure"}

(* Types, up to the sum in peak.                                             *)
HostTypes ==
  /\ inputs \in Bindings
  /\ into \in OutputHandle \cup {NoTarget}
  /\ probes \in ProbeLists \cup {<<>>}
  /\ sink \in {"none", "replacing", "appending"}
  /\ reporting \in BOOLEAN
  /\ target \in [valid : BOOLEAN, run : 0 .. runs]
  /\ returned \in Outcome

(* Probes are open from the start of a run to its report, and were checked.    *)
WatchFits ==
  /\ pc \in {"idle", "preflight"} => active = {}
  /\ pc \in {"loop", "handler", "closing"} => active = DOMAIN probes
  /\ pc \in {"loop", "handler"} => (profiled => ProbesValid(probes))

(* A call begins with an empty report, and nothing is told before its end.     *)
ReportFits ==
  /\ pc # "idle" => report = EmptyReport /\ received = <<>>
  /\ report.events = <<>> \/ \E x : report.events = <<x>>
  /\ received = <<>> \/ (\E x : received = <<x>>) \/ \E x, y : received = <<x, y>>
  /\ report.timings \in Seq(Kinds) /\ Len(report.timings) <= TimingCapacity

(* The recorder has a timing of every Unit that was launched, or counted it.   *)
AllSuccess(s) == \A i \in 1 .. Len(s) : s[i] = "Success"
RecorderFits ==
  /\ recorder = [kept |-> recorder.kept, dropped |-> recorder.dropped]
  /\ recorder.kept \in Seq(Kinds) /\ Len(recorder.kept) <= TimingCapacity
  /\ recorder.dropped \in Nat
  /\ recorder.dropped > 0 => Len(recorder.kept) = TimingCapacity

LaunchedAreMeasured ==
  LET n == Len(recorder.kept) IN
    /\ pc \in {"loop", "handler"} /\ reporting = TRUE =>
         AllSuccess(recorder.kept) /\ n + recorder.dropped = pos - 1
    /\ pc = "closing" /\ reporting = TRUE =>
         /\ \A i \in 1 .. n - 1 : recorder.kept[i] = "Success"
         /\ outcome.kind = "ok" => n + recorder.dropped = UnitCount
         /\ outcome.kind # "ok" /\ outcome # Plain("poisoned") =>
              recorder.dropped > 0 \/ (n > 0 /\ recorder.kept[n] = EventKind(outcome))

(* A run_into in progress has no valid target.                               *)
TargetIsVoid == pc # "idle" /\ into # NoTarget => target.valid = FALSE

HostInvariant ==
  /\ RuntimeInv
  /\ HostTypes
  /\ WatchFits
  /\ ReportFits /\ DiagnosticsTellOutcome
  /\ RecorderFits /\ LaunchedAreMeasured /\ TimingsTraceTheRun
  /\ TargetIsVoid /\ TargetTellsAnswer
------------------------------------------------------------------------------
(* The kinds of events; a success is told apart from a failure.              *)
LEMMA EventKinds ==
  /\ \A e : EventKind(e) \in Kinds
  /\ \A e : e.kind = "ok" => EventKind(e) = "Success"
  /\ EventKind(Plain("profile")) = "AllocationProfileViolation"
<1>1. DOMAIN EventKindOf = {"ok", "fatal", "overflow", "incomplete", "panic", "profile"}
  BY DEF EventKindOf
<1>2. /\ EventKindOf["ok"] = "Success" /\ EventKindOf["profile"] = "AllocationProfileViolation"
  BY DEF EventKindOf
<1>6. \A k \in DOMAIN EventKindOf : EventKindOf[k] \in Kinds
  BY <1>1 DEF EventKindOf, Kinds
<1>7. "RecoverableFailure" \in Kinds
  BY DEF Kinds
<1>3. ASSUME NEW e PROVE EventKind(e) \in Kinds
  BY <1>6, <1>7 DEF EventKind
<1>4. ASSUME NEW e, e.kind = "ok" PROVE EventKind(e) = "Success"
  BY <1>1, <1>2, <1>4 DEF EventKind
<1>5. EventKind(Plain("profile")) = "AllocationProfileViolation"
  BY <1>1, <1>2 DEF EventKind, Plain
<1> QED BY <1>3, <1>4, <1>5

(* Whatever the host does, the Module takes a step of ModuleRuntime or none.   *)
LEMMA HostStepRuns ==
  ASSUME inputs \in Bindings, [HostNext]_allVars
  PROVE  [Next]_vars
<1>1. ASSUME NEW isProfiled \in BOOLEAN, EnterCall(isProfiled) PROVE Next
  BY <1>1 DEF EnterCall, Next
<1>2. Run \/ (\E h \in OutputHandle : RunInto(h)) => Next
  BY <1>1 DEF Run, RunInto
<1>3. ASSUME NEW ps, NEW diagnostic, RunProfiled(ps, diagnostic) PROVE Next
  BY <1>1, <1>3 DEF RunProfiled
<1>4. (\E h \in InputHandle : BindInput(h)) \/ ClearInputs \/ SetReporting => UNCHANGED vars
  BY DEF BindInput, ClearInputs, SetReporting
<1>5. Refuse \/ Launch => Next
  BY DEF Refuse, Launch, Next
<1>6. HandlerStep => Next
  BY DEF HandlerStep, Next
<1>7. UnitSucceeds \/ UnitStops => Next
  BY DEF UnitSucceeds, UnitStops, UnitReturns, Next
<1>8. ASSUME NEW dirty, NEW capacity, Close(dirty, capacity) PROVE Next
  BY <1>8 DEF Close, Next
<1>9. UNCHANGED allVars => UNCHANGED vars
  BY DEF allVars
<1> QED BY <1>2, <1>3, <1>4, <1>5, <1>6, <1>7, <1>8, <1>9 DEF HostNext, CloseCall
------------------------------------------------------------------------------
(* Between calls: only the inputs and the switch change.                      *)
LEMMA IdleKeeps ==
  ASSUME HostInvariant, RuntimeInv',
         (\E h \in InputHandle : BindInput(h)) \/ ClearInputs \/ SetReporting
  PROVE  HostInvariant'
<1>1. /\ pc = "idle"
      /\ UNCHANGED <<vars, callVars, active, recorder, report, received, target, returned>>
  BY DEF BindInput, ClearInputs, SetReporting
<1>2. inputs' \in Bindings
  <2>1. ASSUME NEW h \in InputHandle, BindInput(h) PROVE inputs' \in Bindings
    BY <2>1 DEF HostInvariant, HostTypes, BindInput, Bindings
  <2>2. ClearInputs => inputs' \in Bindings
    BY DEF ClearInputs, Bindings
  <2>3. SetReporting => inputs' \in Bindings
    BY DEF SetReporting, HostInvariant, HostTypes
  <2> QED BY <2>1, <2>2, <2>3
<1>3. reporting' \in BOOLEAN
  <2>1. CASE SetReporting
    BY <2>1, Zenon DEF SetReporting
  <2>2. CASE (\E h \in InputHandle : BindInput(h)) \/ ClearInputs
    BY <2>2, Zenon DEF BindInput, ClearInputs, HostInvariant, HostTypes
  <2> QED BY <2>1, <2>2
<1>4. HostTypes'
  BY <1>1, <1>2, <1>3 DEF HostInvariant, HostTypes, vars, callVars
<1>5. WatchFits' /\ TargetIsVoid' /\ TargetTellsAnswer'
  BY <1>1 DEF HostInvariant, WatchFits, TargetIsVoid, TargetTellsAnswer, ProbesValid, vars, callVars
<1>6. ReportFits' /\ DiagnosticsTellOutcome'
  BY <1>1 DEF HostInvariant, ReportFits, DiagnosticsTellOutcome, Undelivered, vars, callVars
<1>7. RecorderFits' /\ LaunchedAreMeasured' /\ TimingsTraceTheRun'
  BY <1>1 DEF HostInvariant, RecorderFits, LaunchedAreMeasured, TimingsTraceTheRun, vars
<1> QED BY <1>4, <1>5, <1>6, <1>7 DEF HostInvariant

(* The entry of a call: the report is emptied, a target is voided.             *)
LEMMA EntryKeeps ==
  ASSUME HostInvariant, RuntimeInv', NEW isProfiled, EnterCall(isProfiled),
         into' \in OutputHandle \cup {NoTarget},
         probes' \in ProbeLists \cup {<<>>},
         sink' \in {"none", "replacing", "appending"},
         IF into' = NoTarget THEN target' = target ELSE target' = [target EXCEPT !.valid = FALSE]
  PROVE  HostInvariant'
<1>1. /\ pc = "idle" /\ pc' = "preflight" /\ runs' = runs
      /\ report' = EmptyReport /\ received' = <<>>
      /\ returned' \in Outcome
      /\ UNCHANGED <<inputs, active, reporting, recorder>>
  BY OutcomeTypes DEF EnterCall, Enter
<1>2. HostTypes' /\ TargetIsVoid' /\ TargetTellsAnswer'
  BY <1>1 DEF HostInvariant, HostTypes, TargetIsVoid, TargetTellsAnswer
<1>3. WatchFits'
  BY <1>1 DEF HostInvariant, WatchFits
<1>4. ReportFits' /\ DiagnosticsTellOutcome'
  BY <1>1, HostAssumption DEF ReportFits, DiagnosticsTellOutcome, EmptyReport
<1>5. RecorderFits' /\ LaunchedAreMeasured' /\ TimingsTraceTheRun'
  BY <1>1 DEF HostInvariant, RecorderFits, LaunchedAreMeasured, TimingsTraceTheRun
<1> QED BY <1>2, <1>3, <1>4, <1>5 DEF HostInvariant

LEMMA RunsKeep ==
  ASSUME HostInvariant, RuntimeInv',
         \/ Run
         \/ \E ps \in ProbeLists, diagnostic \in {"none", "replacing", "appending"} :
              RunProfiled(ps, diagnostic)
         \/ \E h \in OutputHandle : RunInto(h)
  PROVE  HostInvariant'
<1>1. CASE Run
  BY <1>1, EntryKeeps DEF Run
<1>2. ASSUME NEW ps \in ProbeLists, NEW diagnostic \in {"none", "replacing", "appending"},
             RunProfiled(ps, diagnostic)
      PROVE  HostInvariant'
  BY <1>2, EntryKeeps DEF RunProfiled
<1>3. ASSUME NEW h \in OutputHandle, RunInto(h) PROVE HostInvariant'
  <2>1. h # NoTarget
    BY HostAssumption DEF OutputHandle
  <2> QED BY <1>3, <2>1, EntryKeeps DEF RunInto
<1> QED BY <1>1, <1>2, <1>3

(* A call that is refused before its probes begin.                            *)
LEMMA RefuseKeeps ==
  ASSUME HostInvariant, RuntimeInv', Refuse
  PROVE  HostInvariant'
<1>1. /\ pc = "preflight" /\ pc' = "idle" /\ runs' = runs
      /\ UNCHANGED <<inputs, callVars, active, reporting, recorder, report, received, target>>
      /\ report = EmptyReport /\ received = <<>>
  BY DEF Refuse, RejectInputs, RejectProbes, Return, HostInvariant, ReportFits
<1>2. returned' = outcome' /\ returned' \in Outcome /\ returned'.kind # "ok"
  <2>1. outcome' \in {Plain("binding"), Plain("profile")} /\ returned' = outcome'
    BY DEF Refuse, RejectInputs, RejectProbes, Return
  <2> QED BY <2>1, OutcomeTypes DEF ErrorKind, Plain
<1>3. HostTypes' /\ WatchFits'
  BY <1>1, <1>2 DEF HostInvariant, HostTypes, WatchFits, callVars
<1>4. TargetIsVoid' /\ TargetTellsAnswer'
  BY <1>1, <1>2 DEF HostInvariant, TargetIsVoid, TargetTellsAnswer, callVars
<1>5. ReportFits' /\ DiagnosticsTellOutcome'
  BY <1>1, <1>2 DEF HostInvariant, ReportFits, DiagnosticsTellOutcome, EmptyReport
<1>6. RecorderFits' /\ LaunchedAreMeasured' /\ TimingsTraceTheRun'
  BY <1>1 DEF HostInvariant, RecorderFits, LaunchedAreMeasured, TimingsTraceTheRun, EmptyReport
<1> QED BY <1>3, <1>4, <1>5, <1>6 DEF HostInvariant

(* The probes begin and the recorder starts anew.                             *)
LEMMA LaunchKeeps ==
  ASSUME HostInvariant, RuntimeInv', Launch
  PROVE  HostInvariant'
<1> USE HostAssumption
<1>1. /\ pc = "preflight" /\ active' = DOMAIN probes /\ recorder' = NoTimings
      /\ profiled => ProbesValid(probes)
      /\ UNCHANGED <<inputs, callVars, reporting, report, received, target, returned, profiled>>
      /\ report = EmptyReport /\ received = <<>>
      /\ runs \in Nat
  BY DEF Launch, RejectPoisoned, StartRun, HostInvariant, ReportFits, RuntimeInv, TypeOK
<1>2. \/ pc' = "closing" /\ outcome' = Plain("poisoned") /\ runs' = runs
      \/ pc' = "loop" /\ pos' = 1 /\ runs' = runs + 1
  BY DEF Launch, RejectPoisoned, StartRun
<1>3. HostTypes'
  BY <1>1, <1>2 DEF HostInvariant, HostTypes, callVars
<1>4. WatchFits' /\ TargetIsVoid' /\ TargetTellsAnswer'
  BY <1>1, <1>2 DEF HostInvariant, WatchFits, TargetIsVoid, TargetTellsAnswer, ProbesValid, callVars
<1>5. ReportFits' /\ DiagnosticsTellOutcome' /\ TimingsTraceTheRun'
  BY <1>1, <1>2 DEF ReportFits, DiagnosticsTellOutcome, TimingsTraceTheRun, EmptyReport
<1>6. RecorderFits' /\ LaunchedAreMeasured'
  BY <1>1, <1>2 DEF RecorderFits, LaunchedAreMeasured, NoTimings, AllSuccess, Plain
<1> QED BY <1>3, <1>4, <1>5, <1>6 DEF HostInvariant

(* What a step inside a run leaves alone.                                     *)
LEMMA InsideKeeps ==
  ASSUME HostInvariant, pc \in {"loop", "handler"}, pc' \in {"loop", "handler", "closing"},
         runs' = runs, profiled' = profiled,
         UNCHANGED <<inputs, callVars, active, reporting, report, received, target, returned>>
  PROVE  /\ HostTypes' /\ WatchFits' /\ TargetIsVoid' /\ TargetTellsAnswer'
         /\ ReportFits' /\ DiagnosticsTellOutcome' /\ TimingsTraceTheRun'
<1>1. HostTypes'
  BY DEF HostInvariant, HostTypes, callVars
<1>2. WatchFits' /\ TargetIsVoid' /\ TargetTellsAnswer'
  BY DEF HostInvariant, WatchFits, TargetIsVoid, TargetTellsAnswer, ProbesValid, callVars
<1>3. ReportFits' /\ DiagnosticsTellOutcome' /\ TimingsTraceTheRun'
  BY DEF HostInvariant, ReportFits, DiagnosticsTellOutcome, TimingsTraceTheRun
<1> QED BY <1>1, <1>2, <1>3

(* Steps of the loop and of handlers that are not measured.                   *)
LEMMA HandlerStepKeeps ==
  ASSUME HostInvariant, RuntimeInv', HandlerStep
  PROVE  HostInvariant'
<1>1. /\ pc \in {"loop", "handler"} /\ runs' = runs /\ profiled' = profiled
      /\ UNCHANGED hostVars
      /\ \/ pc' = "handler" /\ pos' = pos
         \/ pc' = "closing" /\ outcome' = Plain("ok") /\ pc = "loop" /\ pos \notin Steps
  BY DEF HandlerStep, BeginUnit, FinishRun, WriteValue, PushBuffer
<1>2. /\ HostTypes' /\ WatchFits' /\ TargetIsVoid' /\ TargetTellsAnswer'
      /\ ReportFits' /\ DiagnosticsTellOutcome' /\ TimingsTraceTheRun'
  BY <1>1, InsideKeeps DEF hostVars
<1>3. RecorderFits'
  BY <1>1 DEF HostInvariant, RecorderFits, hostVars
<1>4. LaunchedAreMeasured'
  <2>1. pc = "loop" /\ pos \notin Steps => pos - 1 = UnitCount
    BY GraphAssumption DEF HostInvariant, RuntimeInv, TypeOK, Steps, GraphWellFormed
  <2> QED BY <1>1, <2>1 DEF HostInvariant, LaunchedAreMeasured, RecorderFits, AllSuccess, Plain, hostVars
<1> QED BY <1>2, <1>3, <1>4 DEF HostInvariant

(* One more timing, kept or counted.                                          *)
LEMMA MeasureCounts ==
  ASSUME RecorderFits, NEW kind \in Kinds, Measure(kind), reporting \in BOOLEAN
  PROVE  /\ RecorderFits'
         /\ reporting = TRUE =>
              /\ Len(recorder'.kept) + recorder'.dropped = Len(recorder.kept) + recorder.dropped + 1
              /\ \/ recorder'.kept = Append(recorder.kept, kind)
                 \/ recorder'.kept = recorder.kept /\ recorder'.dropped > 0
<1> USE HostAssumption
<1>1. CASE reporting = FALSE
  <2>1. recorder' = recorder
    BY <1>1 DEF Measure
  <2> QED BY <1>1, <2>1 DEF RecorderFits
<1>2. CASE reporting = TRUE /\ Len(recorder.kept) < TimingCapacity
  <2>1. recorder'.kept = Append(recorder.kept, kind) /\ recorder'.dropped = recorder.dropped
        /\ recorder' = [kept |-> recorder'.kept, dropped |-> recorder'.dropped]
    BY <1>2 DEF Measure, RecorderFits
  <2>2. recorder'.kept \in Seq(Kinds) /\ Len(recorder'.kept) = Len(recorder.kept) + 1
    BY <2>1 DEF RecorderFits
  <2> QED BY <1>2, <2>1, <2>2 DEF RecorderFits
<1>3. CASE reporting = TRUE /\ ~(Len(recorder.kept) < TimingCapacity)
  <2>1. recorder'.kept = recorder.kept /\ recorder'.dropped = recorder.dropped + 1
        /\ recorder' = [kept |-> recorder'.kept, dropped |-> recorder'.dropped]
    BY <1>3 DEF Measure, RecorderFits
  <2> QED BY <1>3, <2>1 DEF RecorderFits
<1> QED BY <1>1, <1>2, <1>3

LEMMA UnitSucceedsKeeps ==
  ASSUME HostInvariant, RuntimeInv', UnitSucceeds
  PROVE  HostInvariant'
<1>1. /\ pc = "handler" /\ pc' = "loop" /\ pos' = pos + 1 /\ pos \in Nat
      /\ runs' = runs /\ profiled' = profiled
      /\ UNCHANGED <<inputs, callVars, active, reporting, report, received, target, returned>>
      /\ Measure("Success")
  BY GraphAssumption DEF UnitSucceeds, UnitPublishes, HostInvariant, RuntimeInv, TypeOK, Steps, GraphWellFormed
<1>2. /\ HostTypes' /\ WatchFits' /\ TargetIsVoid' /\ TargetTellsAnswer'
      /\ ReportFits' /\ DiagnosticsTellOutcome' /\ TimingsTraceTheRun'
  BY <1>1, InsideKeeps
<1>6. "Success" \in Kinds /\ RecorderFits /\ reporting \in BOOLEAN
  BY DEF HostInvariant, HostTypes, Kinds
<1>3. /\ RecorderFits /\ RecorderFits'
      /\ reporting = TRUE =>
           /\ Len(recorder'.kept) + recorder'.dropped = Len(recorder.kept) + recorder.dropped + 1
           /\ \/ recorder'.kept = Append(recorder.kept, "Success")
              \/ recorder'.kept = recorder.kept /\ recorder'.dropped > 0
  BY <1>1, <1>6, MeasureCounts
<1>4. reporting = TRUE => AllSuccess(recorder.kept) /\ AllSuccess(recorder'.kept)
  BY <1>1, <1>3, SMTT(30) DEF HostInvariant, LaunchedAreMeasured, RecorderFits, AllSuccess
<1>5. LaunchedAreMeasured'
  BY <1>1, <1>3, <1>4 DEF HostInvariant, LaunchedAreMeasured, RecorderFits
<1> QED BY <1>2, <1>3, <1>5 DEF HostInvariant

LEMMA UnitStopsKeeps ==
  ASSUME HostInvariant, RuntimeInv', UnitStops
  PROVE  HostInvariant'
<1>1. /\ pc = "handler" /\ pc' = "closing" /\ runs' = runs /\ profiled' = profiled
      /\ outcome'.kind # "ok"
      /\ UNCHANGED <<inputs, callVars, active, reporting, report, received, target, returned>>
      /\ Measure(EventKind(outcome'))
  BY OutcomeTypes DEF UnitStops, UnitIncomplete, UnitPanics, UnitFails, StopRun, Plain
<1>2. /\ HostTypes' /\ WatchFits' /\ TargetIsVoid' /\ TargetTellsAnswer'
      /\ ReportFits' /\ DiagnosticsTellOutcome' /\ TimingsTraceTheRun'
  BY <1>1, InsideKeeps
<1> DEFINE kind == EventKind(outcome')
<1>0. kind \in Kinds
  BY EventKinds
<1>3. /\ RecorderFits /\ reporting \in BOOLEAN /\ RecorderFits'
      /\ reporting = TRUE =>
           \/ recorder'.kept = Append(recorder.kept, kind)
           \/ recorder'.kept = recorder.kept /\ recorder'.dropped > 0
  BY <1>0, <1>1, MeasureCounts DEF HostInvariant, HostTypes
<1>4. reporting = TRUE => AllSuccess(recorder.kept)
  BY <1>1 DEF HostInvariant, LaunchedAreMeasured
<1>5. LaunchedAreMeasured'
  <2> HIDE DEF kind
  <2>1. ASSUME reporting = TRUE
        PROVE  LET n == Len(recorder'.kept) IN
                 /\ \A i \in 1 .. n - 1 : recorder'.kept[i] = "Success"
                 /\ recorder'.dropped > 0 \/ (n > 0 /\ recorder'.kept[n] = kind)
    BY <1>0, <1>3, <1>4, <2>1 DEF RecorderFits, AllSuccess
  <2> QED BY <1>1, <2>1 DEF LaunchedAreMeasured, kind
<1> QED BY <1>2, <1>3, <1>5 DEF HostInvariant

(* What the call returns: what the run came to, or the error that kept        *)
(* run_into from filling its target.                                          *)
LEMMA CloseAnswers ==
  ASSUME RuntimeInv, HostTypes, TargetIsVoid, NEW dirty, NEW capacity, Close(dirty, capacity),
         outcome' \in Outcome
  PROVE  /\ returned' \in Outcome
         /\ returned' = outcome' \/ (into # NoTarget /\ outcome'.kind = "ok" /\ returned'.kind # "ok")
         /\ target' = target \/ target' = [valid |-> returned'.kind = "ok", run |-> runs]
         /\ into = NoTarget => target' = target
         /\ into # NoTarget => (target'.valid <=> returned'.kind = "ok")
         /\ into # NoTarget /\ target'.valid => target'.run = runs
<1>1. pc = "closing"
  BY DEF Close, ReturnViolation, ReturnOutcome
<1>2. into # NoTarget => target.valid = FALSE
  BY <1>1 DEF TargetIsVoid
<1>3. CASE ReturnRun
  BY <1>2, <1>3 DEF ReturnRun
<1>4. CASE RefuseHandle
  <2>1. returned' = Plain("binding") /\ target' = target /\ into # NoTarget /\ outcome'.kind = "ok"
    BY <1>4 DEF RefuseHandle, Delivering
  <2>2. returned'.kind # "ok" /\ returned' \in Outcome
    BY <2>1, OutcomeTypes DEF Plain, ErrorKind
  <2> QED BY <1>2, <2>1, <2>2
<1>5. ASSUME NEW answer \in HandlerError \cup {Plain("ok")}, CopyOut(answer)
      PROVE  /\ returned' \in Outcome
             /\ returned' = outcome' \/ (into # NoTarget /\ outcome'.kind = "ok" /\ returned'.kind # "ok")
             /\ target' = [valid |-> returned'.kind = "ok", run |-> runs]
             /\ into # NoTarget
             /\ target'.valid <=> returned'.kind = "ok"
             /\ target'.run = runs
  <2>1. returned' = answer /\ into # NoTarget /\ outcome'.kind = "ok"
        /\ target' = [valid |-> answer.kind = "ok", run |-> runs]
    BY <1>5 DEF CopyOut, Delivering
  <2>2. answer \in Outcome /\ (answer.kind = "ok" => answer = Plain("ok"))
    BY <1>5, OutcomeTypes
  <2>3. outcome' = Plain("ok")
    BY <2>1, OutcomeTypes
  <2> QED BY <2>1, <2>2, <2>3
<1>6. ReturnRun \/ RefuseHandle \/ \E answer \in HandlerError \cup {Plain("ok")} : CopyOut(answer)
  BY DEF Close
<1> QED
  <2>1. CASE ReturnRun \/ RefuseHandle
    BY <1>2, <1>3, <1>4, <2>1
  <2>2. CASE \E answer \in HandlerError \cup {Plain("ok")} : CopyOut(answer)
    BY <1>5, <2>2
  <2> QED BY <1>6, <2>1, <2>2

(* The end of a call: the report, the sink and the timings tell what its run   *)
(* came to, and so what it returned, but for a target that was not filled.     *)
LEMMA CloseKeeps ==
  ASSUME HostInvariant, RuntimeInv', NEW dirty, NEW capacity, Close(dirty, capacity)
  PROVE  HostInvariant'
<1> DEFINE violated == Violated(dirty)
           final    == IF violated THEN Plain("profile") ELSE outcome
           first    == Event(EventKind(outcome), capacity)
           last     == IF violated THEN [first EXCEPT !.kind = "AllocationProfileViolation"] ELSE first
           closed   == [events |-> <<last>>, timings |-> recorder.kept,
                        dropped |-> recorder.dropped, dirty |-> dirty # {}]
<1>1. /\ pc = "closing" /\ pc' = "idle" /\ runs' = runs /\ outcome' = final
      /\ active' = {} /\ UNCHANGED <<inputs, callVars, reporting, recorder>>
      /\ report = EmptyReport /\ received = <<>> /\ runs \in Nat
  BY DEF Close, ReturnViolation, ReturnOutcome, Return, HostInvariant, ReportFits, RuntimeInv, TypeOK
<1>2. violated => outcome.kind = "ok" /\ dirty # {}
  BY DEF Violated
<1>3. /\ report' = IF reporting = TRUE THEN closed ELSE EmptyReport
      /\ received' = <<>> \/ received' = <<last>> \/ received' = <<first, last>>
  <2>1. /\ report' = IF reporting = TRUE THEN closed ELSE report
        /\ received' = IF sink = "none" THEN received
                       ELSE IF sink = "appending" /\ first # last THEN <<first, last>>
                       ELSE <<last>>
    BY DEF Close, Record
  <2> HIDE DEF first, last, closed
  <2> QED BY <1>1, <2>1
<1>4. last.kind = EventKind(final) /\ last.kind \in Kinds
  BY EventKinds DEF Event
<1>11. /\ returned' \in Outcome
       /\ returned' = outcome' \/ (into # NoTarget /\ outcome'.kind = "ok" /\ returned'.kind # "ok")
       /\ target' = target \/ target' = [valid |-> returned'.kind = "ok", run |-> runs]
       /\ into # NoTarget => (target'.valid <=> returned'.kind = "ok")
       /\ into # NoTarget /\ target'.valid => target'.run = runs
  <2>1. outcome' \in Outcome
    BY DEF RuntimeInv, TypeOK
  <2> QED BY <2>1, CloseAnswers DEF HostInvariant
<1>5. HostTypes'
  <2>1. target' \in [valid : BOOLEAN, run : 0 .. runs]
    <3>2. runs \in 0 .. runs
      BY <1>1
    <3>3. [valid |-> returned'.kind = "ok", run |-> runs] \in [valid : BOOLEAN, run : 0 .. runs]
      BY <3>2, Zenon
    <3> QED BY <1>11, <3>3 DEF HostInvariant, HostTypes
  <2>2. reporting' \in BOOLEAN
    BY <1>1, Zenon DEF HostInvariant, HostTypes
  <2> QED BY <1>1, <1>11, <2>1, <2>2 DEF HostInvariant, HostTypes, callVars
<1>6. WatchFits' /\ TargetIsVoid' /\ TargetTellsAnswer'
  BY <1>1, <1>11 DEF WatchFits, TargetIsVoid, TargetTellsAnswer, callVars
<1>7. RecorderFits' /\ LaunchedAreMeasured'
  BY <1>1 DEF HostInvariant, RecorderFits, LaunchedAreMeasured
<1>8. ReportFits'
  <2>1. recorder.kept \in Seq(Kinds) /\ Len(recorder.kept) <= TimingCapacity
    BY DEF HostInvariant, RecorderFits
  <2>2. <<>> \in Seq(Kinds) /\ Len(<<>>) <= TimingCapacity
    BY HostAssumption
  <2>3. report'.events = <<>> \/ report'.events = <<last>>
    BY <1>3 DEF EmptyReport
  <2>4. report'.timings \in Seq(Kinds) /\ Len(report'.timings) <= TimingCapacity
    BY <1>3, <2>1, <2>2 DEF EmptyReport
  <2> HIDE DEF first, last, closed
  <2> QED BY <1>1, <1>3, <2>3, <2>4 DEF ReportFits
<1>9. DiagnosticsTellOutcome'
  <2>1. report'.events = <<>> \/ report'.events = <<last>>
    BY <1>3 DEF EmptyReport
  <2>2. last.kind = EventKind(outcome')
    BY <1>1, <1>4
  <2>3. Undelivered' => last.kind = "Success"
    BY <2>2, EventKinds DEF Undelivered
  <2>4. Undelivered' \/ returned' = outcome'
    BY <1>1, <1>11 DEF Undelivered, callVars
  <2>5. last.kind = (IF Undelivered THEN "Success" ELSE EventKind(returned))'
    <3>1. CASE Undelivered'
      BY <2>3, <3>1
    <3>2. CASE ~Undelivered'
      BY <2>2, <2>4, <3>2 DEF EventKind
    <3> QED BY <3>1, <3>2
  <2> HIDE DEF first, last, closed, final
  <2> QED BY <1>3, <2>1, <2>4, <2>5 DEF DiagnosticsTellOutcome
<1>10. TimingsTraceTheRun'
  <2>1. CASE reporting # TRUE
    BY <1>1, <1>3, <2>1 DEF TimingsTraceTheRun, EmptyReport
  <2>2. CASE reporting = TRUE
    <3> DEFINE n == Len(recorder.kept)
    <3>1. /\ report'.timings = recorder.kept /\ report'.dropped = recorder.dropped
          /\ report'.dirty = (dirty # {})
      BY <1>3, <2>2
    <3>2. /\ \A i \in 1 .. n - 1 : recorder.kept[i] = "Success"
          /\ outcome.kind = "ok" => n + recorder.dropped = UnitCount
          /\ outcome.kind # "ok" /\ outcome # Plain("poisoned") =>
               recorder.dropped > 0 \/ (n > 0 /\ recorder.kept[n] = EventKind(outcome))
          /\ recorder.dropped > 0 => n = TimingCapacity
      BY <1>1, <2>2 DEF HostInvariant, LaunchedAreMeasured, RecorderFits
    <3>3. CASE violated
      <4>1. outcome' = Plain("profile") /\ report'.dirty = TRUE /\ outcome'.kind # "ok"
        BY <1>1, <1>2, <3>1, <3>3 DEF Plain
      <4> HIDE DEF closed, final
      <4> QED BY <1>2, <3>1, <3>2, <3>3, <4>1 DEF TimingsTraceTheRun
    <3>4. CASE ~violated
      <4>1. outcome' = outcome
        BY <1>1, <3>4
      <4>2. EventKind(outcome)' = EventKind(outcome)
        BY <4>1
      <4> HIDE DEF closed, final
      <4> QED BY <3>1, <3>2, <4>1, <4>2 DEF TimingsTraceTheRun
    <3> QED BY <3>3, <3>4
  <2> QED BY <2>1, <2>2
<1> QED BY <1>5, <1>6, <1>7, <1>8, <1>9, <1>10 DEF HostInvariant
------------------------------------------------------------------------------
LEMMA HostInitInvariant == HostInit => HostInvariant
<1> SUFFICES ASSUME HostInit PROVE HostInvariant
  OBVIOUS
<1> USE HostAssumption
<1>1. RuntimeInv /\ pc = "idle" /\ runs = 0
  BY InitRuntimeInv DEF HostInit, Init
<1>2. inputs \in Bindings
  BY DEF HostInit, Bindings
<1>3. reporting \in BOOLEAN /\ target \in [valid : BOOLEAN, run : {0}]
  BY Zenon DEF HostInit
<1>4. 0 .. 0 = {0}
  OBVIOUS
<1>5. target \in [valid : BOOLEAN, run : 0 .. runs]
  BY <1>1, <1>3, <1>4
<1>6. HostTypes
  BY <1>1, <1>2, <1>3, <1>5, OutcomeTypes DEF HostInit, HostTypes
<1>7. WatchFits /\ TargetIsVoid /\ TargetTellsAnswer
  BY <1>1 DEF HostInit, WatchFits, TargetIsVoid, TargetTellsAnswer
<1>8. ReportFits /\ DiagnosticsTellOutcome /\ TimingsTraceTheRun
  BY <1>1 DEF HostInit, Init, ReportFits, DiagnosticsTellOutcome, TimingsTraceTheRun, EmptyReport
<1>9. RecorderFits /\ LaunchedAreMeasured
  BY <1>1 DEF HostInit, RecorderFits, LaunchedAreMeasured, NoTimings
<1> QED BY <1>1, <1>6, <1>7, <1>8, <1>9 DEF HostInvariant

LEMMA HostStepKeeps ==
  ASSUME HostInvariant, [HostNext]_allVars
  PROVE  HostInvariant'
<1>1. RuntimeInv /\ inputs \in Bindings
  BY DEF HostInvariant, HostTypes
<1>2. [Next]_vars
  BY <1>1, HostStepRuns
<1>3. RuntimeInv'
  BY <1>1, <1>2, NextRuntimeInv
<1>4. CASE UNCHANGED allVars
  <2>1. HostTypes' /\ WatchFits' /\ TargetIsVoid' /\ TargetTellsAnswer'
    BY <1>4 DEF HostInvariant, HostTypes, WatchFits, TargetIsVoid, TargetTellsAnswer, ProbesValid,
       allVars, vars, hostVars, callVars
  <2>2. ReportFits' /\ DiagnosticsTellOutcome' /\ TimingsTraceTheRun'
    BY <1>4 DEF HostInvariant, ReportFits, DiagnosticsTellOutcome, Undelivered, TimingsTraceTheRun,
       allVars, vars, hostVars, callVars
  <2>3. RecorderFits' /\ LaunchedAreMeasured'
    BY <1>4 DEF HostInvariant, RecorderFits, LaunchedAreMeasured, allVars, vars, hostVars
  <2> QED BY <1>3, <2>1, <2>2, <2>3 DEF HostInvariant
<1>5. CASE (\E h \in InputHandle : BindInput(h)) \/ ClearInputs \/ SetReporting
  BY <1>3, <1>5, IdleKeeps
<1>6. CASE \/ Run
           \/ \E ps \in ProbeLists, diagnostic \in {"none", "replacing", "appending"} :
                RunProfiled(ps, diagnostic)
           \/ \E h \in OutputHandle : RunInto(h)
  BY <1>3, <1>6, RunsKeep
<1>7. CASE Refuse
  BY <1>3, <1>7, RefuseKeeps
<1>8. CASE Launch
  BY <1>3, <1>8, LaunchKeeps
<1>9. CASE HandlerStep
  BY <1>3, <1>9, HandlerStepKeeps
<1>10. CASE UnitSucceeds
  BY <1>3, <1>10, UnitSucceedsKeeps
<1>11. CASE UnitStops
  BY <1>3, <1>11, UnitStopsKeeps
<1>12. CASE CloseCall
  BY <1>3, <1>12, CloseKeeps DEF CloseCall
<1> QED BY <1>4, <1>5, <1>6, <1>7, <1>8, <1>9, <1>10, <1>11, <1>12 DEF HostNext

(* The invariant of a Module in the hands of its host.                        *)
THEOREM HostInvariantHolds == HostSpec => []HostInvariant
<1>1. HostInit => HostInvariant
  BY HostInitInvariant
<1>2. HostInvariant /\ [HostNext]_allVars => HostInvariant'
  BY HostStepKeeps
<1> QED
  BY <1>1, <1>2, PTL DEF HostSpec

(* After every call the report, the sink and the timings tell what its run     *)
(* came to (Module::execute), and that is what the host was returned, with     *)
(* one exception: a run_into that could not fill its target returned an error  *)
(* of which they are not told.  Its target is then invalid (run_into).         *)
THEOREM DiagnosticsAreTrue == HostSpec => []HostInv
<1>1. HostInvariant => HostInv
  <2> SUFFICES ASSUME HostInvariant PROVE HostInv
    OBVIOUS
  <2>1. active \in SUBSET DOMAIN probes
    BY DEF HostInvariant, WatchFits, RuntimeInv, TypeOK
  <2>2. Len(report.events) <= 1
    <3>1. CASE report.events = <<>>
      BY <3>1
    <3>2. CASE \E x : report.events = <<x>>
      <4>1. PICK x : report.events = <<x>>
        BY <3>2
      <4>2. Len(<<x>>) = 1
        OBVIOUS
      <4> QED BY <4>1, <4>2
    <3> QED BY <3>1, <3>2 DEF HostInvariant, ReportFits
  <2>3. Len(received) <= 2
    <3>1. CASE received = <<>>
      BY <3>1
    <3>2. CASE \E x : received = <<x>>
      <4>1. PICK x : received = <<x>>
        BY <3>2
      <4>2. Len(<<x>>) = 1
        OBVIOUS
      <4> QED BY <4>1, <4>2
    <3>3. CASE \E x, y : received = <<x, y>>
      <4>1. PICK x, y : received = <<x, y>>
        BY <3>3
      <4>2. Len(<<x, y>>) = 2
        OBVIOUS
      <4> QED BY <4>1, <4>2
    <3> QED BY <3>1, <3>2, <3>3 DEF HostInvariant, ReportFits
  <2>4. /\ Len(recorder.kept) <= TimingCapacity /\ recorder.dropped \in Nat
        /\ Len(report.timings) <= TimingCapacity
    BY DEF HostInvariant, ReportFits, RecorderFits
  <2>5. HostTypeOK
    BY <2>1, <2>2, <2>3, <2>4 DEF HostTypeOK, HostInvariant, HostTypes, RuntimeInv
  <2> QED BY <2>5 DEF HostInv, HostInvariant
<1> QED
  BY <1>1, HostInvariantHolds, PTL

(* No Unit of a profiled run allocates unwatched, and no probe outlives a call. *)
THEOREM DomainsAreWatched == HostSpec => []InstrumentedDomainsAreWatched
<1>1. HostInvariant => InstrumentedDomainsAreWatched
  <2> SUFFICES ASSUME HostInvariant PROVE InstrumentedDomainsAreWatched
    OBVIOUS
  <2>1. pc = "idle" => active = {}
    BY DEF HostInvariant, WatchFits
  <2>2. ASSUME pc = "handler", profiled, NEW d \in DOMAIN Evidence, Evidence[d] = "instrumented"
        PROVE  \E i \in active : \A j \in active : probes[j] = d <=> j = i
    <3>1. ProbesValid(probes) /\ active = DOMAIN probes
      BY <2>2 DEF HostInvariant, WatchFits
    <3>2. PICK i \in DOMAIN probes : probes[i] = d
      BY <2>2, <3>1 DEF ProbesValid
    <3> QED BY <3>1, <3>2 DEF ProbesValid
  <2> QED BY <2>1, <2>2 DEF InstrumentedDomainsAreWatched
<1> QED
  BY <1>1, HostInvariantHolds, PTL

(* What ModuleRuntime promises holds in the hands of a host as well, whatever   *)
(* inputs, probes and targets it passes.                                      *)
THEOREM HostReadsStaySafe == HostSpec => []ReadsAreSafe
<1>1. HostInvariant => ReadsAreSafe
  <2> SUFFICES ASSUME RuntimeInv PROVE ReadsAreSafe
    BY DEF HostInvariant
  <2>1. InputsAvailable
    BY InputsAreAvailable
  <2>2. OutcomeDecidesVisibility
    BY DEF RuntimeInv, VisibilityDecided, OutcomeDecidesVisibility
  <2>3. FlagsFollowOwners
    BY PlanTypes DEF RuntimeInv, OwnersFit, FlagsFollowOwners
  <2> QED BY <2>1, <2>2, <2>3 DEF RuntimeInv, ReadsAreSafe
<1> QED
  BY <1>1, HostInvariantHolds, PTL
------------------------------------------------------------------------------
(* The step simulation of ModuleContract.                                     *)

(* What the mapping shows of a state, once VisibilityDecided and               *)
(* ReadableIsFresh are known: the fallback -1 is never taken.                  *)
Seen == IF pc = "idle" /\ outcome.kind = "ok" THEN runs ELSE 0

LEMMA VisibleIsSeen ==
  ASSUME RuntimeInv
  PROVE  VisibleRun = Seen
<1>1. CASE pc = "idle" /\ outcome.kind = "ok"
  <2>1. ASSUME NEW r \in ModuleOutput PROVE WrittenByRun(r, runs)
    <3>1. Readable(r) /\ r \in Stored /\ SlotOf[r] \in Slot
      BY <1>1, PlanTypes DEF RuntimeInv, VisibilityDecided, Readable
    <3>2. live[SlotOf[r]].items \in Seq(Item)
      BY <3>1 DEF RuntimeInv, TypeOK
    <3>3. \A i \in 1 .. Len(live[SlotOf[r]].items) :
            live[SlotOf[r]].items[i] = [resource |-> r, run |-> runs]
      BY <3>1 DEF RuntimeInv, ReadableIsFresh
    <3> QED BY <3>1, <3>2, <3>3 DEF WrittenByRun
  <2> QED BY <1>1, <2>1 DEF VisibleRun, Seen
<1>2. CASE pc = "idle" /\ outcome.kind # "ok"
  BY <1>2 DEF RuntimeInv, VisibilityDecided, VisibleRun, Seen
<1>3. CASE pc # "idle"
  BY <1>3 DEF VisibleRun, Seen
<1> QED BY <1>1, <1>2, <1>3

LEMMA VisibleIsSeenNext ==
  ASSUME RuntimeInv'
  PROVE  VisibleRun' = Seen'
<1>1. CASE pc' = "idle" /\ outcome'.kind = "ok"
  <2>1. ASSUME NEW r \in ModuleOutput PROVE WrittenByRun(r, runs)'
    <3>1. Readable(r)' /\ r \in Stored /\ SlotOf[r] \in Slot
      BY <1>1, PlanTypes DEF RuntimeInv, VisibilityDecided, Readable
    <3>2. live'[SlotOf[r]].items \in Seq(Item)
      BY <3>1 DEF RuntimeInv, TypeOK
    <3>3. \A i \in 1 .. Len(live'[SlotOf[r]].items) :
            live'[SlotOf[r]].items[i] = [resource |-> r, run |-> runs']
      BY <3>1 DEF RuntimeInv, ReadableIsFresh
    <3> QED BY <3>1, <3>2, <3>3 DEF WrittenByRun
  <2> QED BY <1>1, <2>1 DEF VisibleRun, Seen
<1>2. CASE pc' = "idle" /\ outcome'.kind # "ok"
  BY <1>2 DEF RuntimeInv, VisibilityDecided, VisibleRun, Seen
<1>3. CASE pc' # "idle"
  BY <1>3 DEF VisibleRun, Seen
<1> QED BY <1>1, <1>2, <1>3

(* Steps that the contract does not see.                                      *)
LEMMA HiddenSteps ==
  ASSUME HostInvariant, VisibleRun = Seen, VisibleRun' = Seen',
         \/ (\E h \in InputHandle : BindInput(h)) \/ ClearInputs \/ SetReporting
         \/ HandlerStep \/ UnitSucceeds \/ UNCHANGED allVars
  PROVE  UNCHANGED Contract!contractVars
<1>1. /\ runs' = runs /\ poisoned' = poisoned /\ into' = into /\ target' = target
      /\ returned' = returned
      /\ \/ pc' = pc /\ outcome' = outcome
         \/ /\ pc \in {"loop", "handler"}
            /\ pc' \in {"loop", "handler"} \/ (pc' = "closing" /\ outcome' = Plain("ok"))
  BY DEF BindInput, ClearInputs, SetReporting, HandlerStep, BeginUnit, FinishRun, WriteValue, PushBuffer,
     UnitSucceeds, UnitPublishes, allVars, vars, hostVars, callVars
<1>2. VisibleRun' = VisibleRun
  BY <1>1 DEF Seen
<1>3. ContractPhase' = ContractPhase
  BY <1>1 DEF ContractPhase, Plain
<1>4. (pc = "idle" /\ returned.kind = "ok")' = (pc = "idle" /\ returned.kind = "ok")
  BY <1>1
<1> QED BY <1>1, <1>2, <1>3, <1>4 DEF Contract!contractVars

(* run, run_profiled and run_into are the contract's Call.                     *)
LEMMA CallSteps ==
  ASSUME HostInvariant, VisibleRun = Seen, VisibleRun' = Seen', NEW isProfiled,
         EnterCall(isProfiled),
         IF into' = NoTarget THEN target' = target ELSE target' = [target EXCEPT !.valid = FALSE]
  PROVE  Contract!Call
<1>1. /\ pc = "idle" /\ pc' = "preflight" /\ runs' = runs /\ poisoned' = poisoned
  BY DEF EnterCall, Enter
<1>2. ContractPhase = "idle" /\ ContractPhase' = "called" /\ VisibleRun' = 0
  BY <1>1 DEF ContractPhase, Seen
<1>3. (into # NoTarget)' \in BOOLEAN
  OBVIOUS
<1>4. (IF target.valid THEN target.run ELSE 0)' =
        IF (into # NoTarget)' THEN 0 ELSE IF target.valid THEN target.run ELSE 0
  BY DEF HostInvariant, HostTypes
<1>5. (pc = "idle" /\ returned.kind = "ok")' = FALSE
  BY <1>1
<1> QED BY <1>1, <1>2, <1>3, <1>4, <1>5 DEF Contract!Call

(* A call refused before or after its probes begin, and the start of a run.    *)
LEMMA CheckSteps ==
  ASSUME HostInvariant, VisibleRun = Seen, VisibleRun' = Seen', Refuse \/ Launch
  PROVE  Contract!Refuse \/ Contract!Start
<1>1. pc = "preflight" /\ into' = into /\ target' = target /\ poisoned' = poisoned
  BY DEF Refuse, Launch, RejectInputs, RejectProbes, RejectPoisoned, StartRun, hostVars, callVars
<1>2. ContractPhase = "called" /\ VisibleRun = 0
  BY <1>1 DEF ContractPhase, Seen
<1>3. CASE Refuse
  <2>1. pc' = "idle" /\ runs' = runs /\ outcome'.kind # "ok"
    BY <1>3 DEF Refuse, RejectInputs, RejectProbes, Return, Plain
  <2>2. ContractPhase' = "idle" /\ VisibleRun' = 0
    BY <2>1 DEF ContractPhase, Seen
  <2>3. returned'.kind # "ok"
    BY <1>3, <2>1 DEF Refuse
  <2>4. (pc = "idle" /\ returned.kind = "ok")' = (pc = "idle" /\ returned.kind = "ok")
    BY <1>1, <2>3
  <2> QED BY <1>1, <1>2, <2>1, <2>2, <2>4 DEF Contract!Refuse
<1>4. CASE Launch /\ RejectPoisoned
  <2>1. pc' = "closing" /\ runs' = runs /\ outcome'.kind # "ok"
    BY <1>4 DEF RejectPoisoned, Plain
  <2>2. ContractPhase' = "failed" /\ VisibleRun' = 0
    BY <2>1 DEF ContractPhase, Seen
  <2>3. (pc = "idle" /\ returned.kind = "ok")' = (pc = "idle" /\ returned.kind = "ok")
    BY <1>1, <2>1
  <2> QED BY <1>1, <1>2, <2>1, <2>2, <2>3 DEF Contract!Refuse
<1>5. CASE Launch /\ StartRun
  <2>1. pc' = "loop" /\ runs' = runs + 1 /\ ~poisoned
    BY <1>5 DEF StartRun
  <2>2. ContractPhase' = "running" /\ VisibleRun' = 0
    BY <2>1 DEF ContractPhase, Seen
  <2>3. (pc = "idle" /\ returned.kind = "ok")' = (pc = "idle" /\ returned.kind = "ok")
    BY <1>1, <2>1
  <2> QED BY <1>1, <1>2, <2>1, <2>2, <2>3 DEF Contract!Start
<1> QED BY <1>3, <1>4, <1>5 DEF Launch

(* A Unit that stops the run.                                                *)
LEMMA StopSteps ==
  ASSUME HostInvariant, RuntimeInv', VisibleRun = Seen, VisibleRun' = Seen', UnitStops
  PROVE  Contract!Fail
<1>1. /\ pc = "handler" /\ pc' = "closing" /\ runs' = runs /\ outcome'.kind # "ok"
      /\ into' = into /\ target' = target
  BY OutcomeTypes DEF UnitStops, UnitIncomplete, UnitPanics, UnitFails, StopRun, Plain, callVars
<1>2. poisoned' \in BOOLEAN
  BY Zenon DEF RuntimeInv, TypeOK
<1>3. /\ ContractPhase = "running" /\ ContractPhase' = "failed"
      /\ VisibleRun = 0 /\ VisibleRun' = 0
  BY <1>1 DEF ContractPhase, Seen
<1>4. (pc = "idle" /\ returned.kind = "ok")' = (pc = "idle" /\ returned.kind = "ok")
  BY <1>1
<1> QED BY <1>1, <1>2, <1>3, <1>4 DEF Contract!Fail

(* The end of a call: success, or failure, also by a probe's verdict alone.    *)
LEMMA CloseSteps ==
  ASSUME HostInvariant, RuntimeInv', VisibleRun = Seen, VisibleRun' = Seen',
         NEW dirty, NEW capacity, Close(dirty, capacity)
  PROVE  Contract!Succeed \/ Contract!ReturnFailure
<1> DEFINE copied  == IF target.valid THEN target.run ELSE 0
           granted == pc = "idle" /\ returned.kind = "ok"
<1>1. /\ pc = "closing" /\ pc' = "idle" /\ runs' = runs /\ poisoned' = poisoned /\ into' = into
      /\ outcome' = IF Violated(dirty) THEN Plain("profile") ELSE outcome
  BY DEF Close, ReturnViolation, ReturnOutcome, Return, callVars
<1>2. ContractPhase' = "idle" /\ VisibleRun = 0 /\ (into # NoTarget)' = (into # NoTarget)
  BY <1>1 DEF ContractPhase, Seen
<1>3. /\ returned' = outcome' \/ (into # NoTarget /\ outcome'.kind = "ok" /\ returned'.kind # "ok")
      /\ into = NoTarget => target' = target
      /\ into # NoTarget => (target'.valid <=> returned'.kind = "ok")
      /\ into # NoTarget /\ target'.valid => target'.run = runs
  <2>1. outcome' \in Outcome
    BY DEF RuntimeInv, TypeOK
  <2> QED BY <2>1, CloseAnswers DEF HostInvariant
<1>4. granted' = (returned'.kind = "ok") /\ granted = FALSE
  BY <1>1
<1>5. into # NoTarget => target.valid = FALSE
  BY <1>1 DEF HostInvariant, TargetIsVoid
<1>6. CASE outcome.kind = "ok" /\ dirty = {}
  <2>1. outcome' = outcome
    BY <1>1, <1>6 DEF Violated
  <2>2. ContractPhase = "running" /\ VisibleRun' = runs
    BY <1>1, <1>6, <2>1 DEF ContractPhase, Seen
  <2>3. granted' \in IF into # NoTarget THEN BOOLEAN ELSE {TRUE}
    BY <1>3, <1>4, <1>6, <2>1
  <2>4. copied' = IF ~(into # NoTarget) THEN copied ELSE IF granted' THEN runs ELSE 0
    <3>1. CASE into = NoTarget
      BY <1>3, <3>1
    <3>2. CASE into # NoTarget
      <4>1. granted' <=> target'.valid
        BY <1>3, <1>4, <3>2
      <4> HIDE DEF granted
      <4> QED BY <1>3, <3>2, <4>1
    <3> QED BY <3>1, <3>2
  <2> QED BY <1>1, <1>2, <2>2, <2>3, <2>4 DEF Contract!Succeed
<1>7. CASE ~(outcome.kind = "ok" /\ dirty = {})
  <2>1. outcome'.kind # "ok"
    BY <1>1, <1>7 DEF Violated, Plain
  <2>2. ContractPhase \in {"running", "failed"} /\ VisibleRun' = 0
    BY <1>1, <2>1 DEF ContractPhase, Seen
  <2>3. returned'.kind # "ok" /\ granted' = granted
    BY <1>3, <1>4, <2>1
  <2>4. copied' = copied
    <3>1. CASE into = NoTarget
      BY <1>3, <3>1
    <3>2. CASE into # NoTarget
      BY <1>3, <1>5, <2>3, <3>2
    <3> QED BY <3>1, <3>2
  <2> QED BY <1>1, <1>2, <2>2, <2>3, <2>4 DEF Contract!ReturnFailure
<1> QED BY <1>6, <1>7

LEMMA HostStepSimulates ==
  ASSUME HostInvariant, HostInvariant', [HostNext]_allVars
  PROVE  [Contract!Next]_(Contract!contractVars)
<1>1. VisibleRun = Seen /\ VisibleRun' = Seen' /\ RuntimeInv'
  BY VisibleIsSeen, VisibleIsSeenNext DEF HostInvariant
<1>2. CASE \/ (\E h \in InputHandle : BindInput(h)) \/ ClearInputs \/ SetReporting
           \/ HandlerStep \/ UnitSucceeds \/ UNCHANGED allVars
  BY <1>1, <1>2, HiddenSteps
<1>3. CASE Run \/ \E ps \in ProbeLists, diagnostic \in {"none", "replacing", "appending"} :
                    RunProfiled(ps, diagnostic)
  <2>1. PICK isProfiled \in BOOLEAN : EnterCall(isProfiled) /\ into' = NoTarget /\ target' = target
    BY <1>3 DEF Run, RunProfiled
  <2>2. Contract!Call
    BY <1>1, <2>1, CallSteps
  <2> QED BY <2>2 DEF Contract!Next
<1>4. ASSUME NEW h \in OutputHandle, RunInto(h) PROVE Contract!Next
  <2>1. h # NoTarget
    BY HostAssumption DEF OutputHandle
  <2>2. Contract!Call
    BY <1>1, <1>4, <2>1, CallSteps DEF RunInto
  <2> QED BY <2>2 DEF Contract!Next
<1>5. Refuse \/ Launch => Contract!Next
  BY <1>1, CheckSteps DEF Contract!Next
<1>6. UnitStops => Contract!Next
  BY <1>1, StopSteps DEF Contract!Next
<1>7. CloseCall => Contract!Next
  BY <1>1, CloseSteps DEF Contract!Next, CloseCall
<1> QED BY <1>2, <1>3, <1>4, <1>5, <1>6, <1>7 DEF HostNext

LEMMA HostInitMaps == HostInit => Contract!Init
<1> SUFFICES ASSUME HostInit PROVE Contract!Init
  OBVIOUS
<1>1. VisibleRun = Seen
  BY InitRuntimeInv, VisibleIsSeen DEF HostInit
<1>2. ContractPhase = "idle" /\ VisibleRun = 0
  BY <1>1 DEF HostInit, Init, ContractPhase, Seen, Plain
<1>3. (IF target.valid THEN target.run ELSE 0) = 0
  BY DEF HostInit
<1>4. (into # NoTarget) = FALSE /\ poisoned = FALSE /\ runs = 0
  BY DEF HostInit, Init
<1>5. (pc = "idle" /\ returned.kind = "ok") = FALSE
  BY DEF HostInit, Plain
<1> QED BY <1>2, <1>3, <1>4, <1>5 DEF Contract!Init

(* A Module, with its reports, probes and targets, keeps its contract: every    *)
(* step is a step of ModuleContract or changes nothing the contract speaks of. *)
THEOREM ModuleKeepsContract ==
  HostSpec => Contract!Init /\ [][Contract!Next]_(Contract!contractVars)
<1>1. HostInit => Contract!Init
  BY HostInitMaps
<1>2. HostInvariant /\ HostInvariant' /\ [HostNext]_allVars => [Contract!Next]_(Contract!contractVars)
  BY HostStepSimulates
<1> QED
  BY <1>1, <1>2, HostInvariantHolds, PTL DEF HostSpec
=============================================================================
