---------------------------- MODULE ModuleRuntime ----------------------------
(***************************************************************************)
(* One prepared Module executing runs (runtime.rs: Module::execute without *)
(* its reporting, PreparedRuntime, PreparedExecutable, RuntimeStore and    *)
(* the RegistrationInvocation a Unit handler writes through).              *)
(*                                                                         *)
(* A run is a loop over execution_order.  Unit code is foreign: between    *)
(* BeginUnit and its return it may write its outputs in any order, ignore  *)
(* the errors those calls return, and leave by success, by an error of its *)
(* choice or by a panic.  A slot holds a published and a pending side;     *)
(* their contents are the items written, each carrying the resource it was *)
(* written for and the run that wrote it.                                  *)
(***************************************************************************)
EXTENDS ExecutionPlan, Sequences

CONSTANTS
  NoResource,    \* the owner of a slot nothing was published to
  OwnToken,      \* plan_token of this Module's graph
  Token,         \* plan tokens an input handle may carry
  HandlerError,  \* errors foreign code may return: [kind, nested]
  MaxRuns,       \* bound on the runs started
  MaxLength      \* bound on the length of a growing buffer

(* nested marks a RunError::Execution wrapper around the cause, as a Unit   *)
(* that drives a Module of its own passes on.                               *)
ErrorKind == {"recoverable", "fatal", "panic", "poisoned", "overflow",
              "incomplete", "binding", "profile"}
Plain(k)  == [kind |-> k, nested |-> FALSE]
Outcome   == [kind : ErrorKind, nested : BOOLEAN] \cup {Plain("none"), Plain("ok")}

ASSUME RuntimeAssumption ==
  /\ NoResource \notin Resource
  /\ OwnToken \in Token
  /\ HandlerError \subseteq [kind : ErrorKind, nested : BOOLEAN]
  /\ MaxRuns \in Nat
  /\ MaxLength \in Nat

VARIABLES
  pc,         \* "idle"; in a call "preflight", "loop" (between Units),
              \* "handler" (inside one) or "closing"
  pos,        \* the step the loop is at; 0 outside the loop
  bound,      \* the Module inputs of the call in progress
  profiled,   \* the call in progress is run_profiled
  published,  \* resource -> its publication flag
  owner,      \* slot -> resource last published to it, or NoResource
  live,       \* slot -> its published side
  pending,    \* slot -> its pending side
  poisoned,   \* a fatal failure or a panic happened
  outcome,    \* what the run came to, or the check that refused it
  runs        \* runs that got past their checks

store == <<published, owner, live, pending>>
vars  == <<pc, pos, bound, profiled, store, poisoned, outcome, runs>>

Item == [resource : Stored, run : Nat]

(* An input handle of this plan names a Module input; a handle of another   *)
(* plan may carry any index.                                                *)
InputHandle ==
  {h \in [resource : Resource, token : Token] :
     h.token = OwnToken => h.resource \in ModuleInput}

(* A ModuleInputs value: at most one binding per resource index.            *)
Bindings ==
  {b \in SUBSET InputHandle :
     \A x, y \in b : x.resource = y.resource => x = y}

InputsValid(b) ==
  /\ \A x \in b : x.token = OwnToken
  /\ {x.resource : x \in b} = ModuleInput

SlotsWritten(p) == {SlotOf[r] : r \in Writes[p]}

(* require_published: the flag is set and the slot still belongs to r.      *)
Readable(r) == r \in Stored /\ published[r] /\ owner[SlotOf[r]] = r

Nothing == [valid |-> FALSE, items |-> <<>>]

TypeOK ==
  /\ pc \in {"idle", "preflight", "loop", "handler", "closing"}
  /\ pos \in 0 .. UnitCount + 1
  /\ pc = "loop" => pos # 0
  /\ pc = "handler" => pos \in Steps
  /\ bound \in Bindings
  /\ profiled \in BOOLEAN
  /\ published \in [Resource -> BOOLEAN]
  /\ owner \in [Slot -> Stored \cup {NoResource}]
  /\ live \in [Slot -> [valid : BOOLEAN, items : Seq(Item)]]
  /\ pending \in [Slot -> Seq(Item)]
  /\ poisoned \in BOOLEAN
  /\ outcome \in Outcome
  /\ runs \in Nat

Init ==
  /\ pc = "idle"
  /\ pos = 0
  /\ bound = {}
  /\ profiled = FALSE
  /\ published = [r \in Resource |-> FALSE]
  /\ owner = [s \in Slot |-> NoResource]
  /\ live = [s \in Slot |-> Nothing]
  /\ pending = [s \in Slot |-> <<>>]
  /\ poisoned = FALSE
  /\ outcome = Plain("none")
  /\ runs = 0
------------------------------------------------------------------------------
(* RuntimeStore operations. *)

InvalidatePublications ==
  /\ published' = [r \in Resource |-> FALSE]
  /\ owner' = [s \in Slot |-> NoResource]

ResetStore ==
  /\ InvalidatePublications
  /\ live' = [s \in Slot |-> Nothing]
  /\ pending' = [s \in Slot |-> <<>>]

(* Mutation of DiscardPending: the pending side keeps what it held.         *)
KeepPending(p) == pending' = [s \in Slot |-> pending[s]]

DiscardPending(p) ==
  pending' = [s \in Slot |-> IF s \in SlotsWritten(p) THEN <<>> ELSE pending[s]]

(* pending_complete of the slot r is assigned to.                           *)
PendingComplete(r) ==
  /\ SlotKind[SlotOf[r]] = "value" => pending[SlotOf[r]] # <<>>
  /\ SlotKind[SlotOf[r]] = "fixed" => Len(pending[SlotOf[r]]) = Capacity[r]

(* Mutation of PublishGroup: the resource that held the slot keeps its flag. *)
PublishGroupOver(p) ==
  /\ live' = [s \in Slot |->
                IF s \in SlotsWritten(p)
                  THEN [valid |-> TRUE, items |-> pending[s]]
                  ELSE live[s]]
  /\ DiscardPending(p)
  /\ owner' = [s \in Slot |->
                 IF s \in SlotsWritten(p)
                   THEN CHOOSE r \in Writes[p] : SlotOf[r] = s
                   ELSE owner[s]]
  /\ published' = [r \in Resource |-> r \in Writes[p] \/ published[r]]

(* Every output of the group moves to the published side of its slot; the   *)
(* resource that held the slot before loses its flag.                       *)
PublishGroup(p) ==
  /\ live' = [s \in Slot |->
                IF s \in SlotsWritten(p)
                  THEN [valid |-> TRUE, items |-> pending[s]]
                  ELSE live[s]]
  /\ DiscardPending(p)
  /\ owner' = [s \in Slot |->
                 IF s \in SlotsWritten(p)
                   THEN CHOOSE r \in Writes[p] : SlotOf[r] = s
                   ELSE owner[s]]
  /\ published' = [r \in Resource |->
                     \/ r \in Writes[p]
                     \/ published[r] /\ \A s \in SlotsWritten(p) : owner[s] # r]
------------------------------------------------------------------------------
(* Module::execute up to the first Unit.  Previous publications are dropped *)
(* before any check; the inputs are checked before the probes, and both     *)
(* before poison.                                                           *)

Enter(b, isProfiled) ==
  /\ pc = "idle"
  /\ InvalidatePublications
  /\ pc' = "preflight"
  /\ bound' = b
  /\ profiled' = isProfiled
  /\ outcome' = Plain("none")
  /\ UNCHANGED <<pos, live, pending, poisoned, runs>>

(* Module::execute returns e and gives the inputs back.                     *)
Return(e) ==
  /\ pc' = "idle"
  /\ bound' = {}
  /\ outcome' = e

RejectInputs ==
  /\ pc = "preflight"
  /\ ~InputsValid(bound)
  /\ Return(Plain("binding"))
  /\ UNCHANGED <<pos, profiled, store, poisoned, runs>>

RejectProbes ==
  /\ pc = "preflight"
  /\ InputsValid(bound)
  /\ profiled
  /\ Return(Plain("profile"))
  /\ UNCHANGED <<pos, profiled, store, poisoned, runs>>

RejectPoisoned ==
  /\ pc = "preflight"
  /\ InputsValid(bound)
  /\ poisoned
  /\ pc' = "closing"
  /\ outcome' = Plain("poisoned")
  /\ UNCHANGED <<pos, bound, profiled, store, poisoned, runs>>

(* Mutation of StartRun: the poison is not looked at.                       *)
StartRunPoisoned ==
  /\ pc = "preflight"
  /\ InputsValid(bound)
  /\ ResetStore
  /\ pc' = "loop"
  /\ pos' = 1
  /\ runs' = runs + 1
  /\ UNCHANGED <<bound, profiled, poisoned, outcome>>

StartRun ==
  /\ pc = "preflight"
  /\ InputsValid(bound)
  /\ ~poisoned
  /\ ResetStore
  /\ pc' = "loop"
  /\ pos' = 1
  /\ runs' = runs + 1
  /\ UNCHANGED <<bound, profiled, poisoned, outcome>>
------------------------------------------------------------------------------
(* The loop of run_with_inputs_timed, and the end of Module::execute.       *)

(* Mutation of BeginUnit: discard clears both sides of the slots.           *)
BeginUnitClearsSlots ==
  /\ pc = "loop"
  /\ pos \in Steps
  /\ DiscardPending(pos)
  /\ live' = [s \in Slot |-> IF s \in SlotsWritten(pos) THEN Nothing ELSE live[s]]
  /\ pc' = "handler"
  /\ UNCHANGED <<pos, bound, profiled, published, owner, poisoned, outcome, runs>>

BeginUnit ==
  /\ pc = "loop"
  /\ pos \in Steps
  /\ DiscardPending(pos)
  /\ pc' = "handler"
  /\ UNCHANGED <<pos, bound, profiled, published, owner, live, poisoned,
                 outcome, runs>>

(* Mutation of FinishRun: the loop expects one step too many.               *)
FinishRunLate ==
  /\ pc = "loop"
  /\ pos > UnitCount + 1
  /\ pc' = "closing"
  /\ pos' = 0
  /\ outcome' = Plain("ok")
  /\ UNCHANGED <<bound, profiled, store, poisoned, runs>>

FinishRun ==
  /\ pc = "loop"
  /\ pos \notin Steps
  /\ pc' = "closing"
  /\ pos' = 0
  /\ outcome' = Plain("ok")
  /\ UNCHANGED <<bound, profiled, store, poisoned, runs>>

ReturnOutcome ==
  /\ pc = "closing"
  /\ Return(outcome)
  /\ UNCHANGED <<pos, profiled, store, poisoned, runs>>

(* A probe saw allocator operations during a run that succeeded.            *)
ReturnViolation ==
  /\ pc = "closing"
  /\ profiled
  /\ outcome.kind = "ok"
  /\ InvalidatePublications
  /\ Return(Plain("profile"))
  /\ UNCHANGED <<pos, profiled, live, pending, poisoned, runs>>
------------------------------------------------------------------------------
(* What a Unit handler can do through its RegistrationInvocation.  A second *)
(* write of a value and a push beyond a rejecting capacity return an error  *)
(* and change nothing, so they are not steps.                               *)

WriteValue(r) ==
  /\ pc = "handler"
  /\ r \in Writes[pos]
  /\ SlotKind[SlotOf[r]] = "value"
  /\ pending[SlotOf[r]] = <<>>
  /\ pending' = [pending EXCEPT ![SlotOf[r]] = <<[resource |-> r, run |-> runs]>>]
  /\ UNCHANGED <<pc, pos, bound, profiled, published, owner, live, poisoned,
                 outcome, runs>>

PushBuffer(r) ==
  /\ pc = "handler"
  /\ r \in Writes[pos]
  /\ SlotKind[SlotOf[r]] # "value"
  /\ ~(Len(pending[SlotOf[r]]) = Capacity[r] /\ RejectsOverflow(r))
  /\ Len(pending[SlotOf[r]]) < MaxLength
  /\ pending' = [pending EXCEPT ![SlotOf[r]] =
                   Append(@, [resource |-> r, run |-> runs])]
  /\ UNCHANGED <<pc, pos, bound, profiled, published, owner, live, poisoned,
                 outcome, runs>>

(* Only the error itself is matched, not the cause inside a wrapper.        *)
Poisons(e) == ~e.nested /\ e.kind \in {"fatal", "panic"}

StopRun(e) ==
  /\ DiscardPending(pos)
  /\ InvalidatePublications
  /\ poisoned' = Poisons(e)
  /\ pc' = "closing"
  /\ pos' = 0
  /\ outcome' = e
  /\ UNCHANGED <<bound, profiled, live, runs>>

(* The handler returned Ok and its output set is complete.                  *)
UnitPublishes ==
  /\ pc = "handler"
  /\ \A r \in Writes[pos] : PendingComplete(r)
  /\ PublishGroup(pos)
  /\ pc' = "loop"
  /\ pos' = pos + 1
  /\ UNCHANGED <<bound, profiled, poisoned, outcome, runs>>

(* The handler returned Ok but some output was not initialized.             *)
UnitIncomplete ==
  /\ pc = "handler"
  /\ \E r \in Writes[pos] : ~PendingComplete(r)
  /\ StopRun(Plain("binding"))

(* The handler returned an error, or unwound.                               *)
UnitFails(e) ==
  /\ pc = "handler"
  /\ StopRun(e)

UnitPanics ==
  /\ pc = "handler"
  /\ StopRun(Plain("panic"))

UnitReturns == UnitPublishes \/ UnitIncomplete \/ UnitPanics \/ (\E e \in HandlerError : UnitFails(e))

Next ==
  \/ \E b \in Bindings, isProfiled \in BOOLEAN :
       runs < MaxRuns /\ Enter(b, isProfiled)
  \/ RejectInputs
  \/ RejectProbes
  \/ RejectPoisoned
  \/ StartRun
  \/ BeginUnit
  \/ \E r \in Stored : WriteValue(r) \/ PushBuffer(r)
  \/ UnitReturns
  \/ FinishRun
  \/ ReturnOutcome
  \/ ReturnViolation

Execute ==
  \/ RejectInputs \/ RejectProbes \/ RejectPoisoned \/ StartRun
  \/ BeginUnit \/ FinishRun \/ ReturnOutcome \/ ReturnViolation

(* The executor keeps going while it is inside a call, and Unit code is     *)
(* trusted to return; the host is free never to call again.                 *)
Fairness == WF_vars(Execute) /\ WF_vars(UnitReturns)

Spec == Init /\ [][Next]_vars /\ Fairness
------------------------------------------------------------------------------
(* Every read a handler may make of a declared input port succeeds: a Module *)
(* input is bound by a handle of this plan, and a stored input is published  *)
(* and not shadowed by a binding.  Slot reuse, the order of the loop and the *)
(* preflight check all have to be right for this (input_value,               *)
(* require_published).                                                       *)
InputsAvailable ==
  pc = "handler" =>
    \A r \in Reads[pos] :
      IF r \in ModuleInput
        THEN \E x \in bound : x.resource = r /\ x.token = OwnToken
        ELSE Readable(r) /\ \A x \in bound : x.resource # r

(* What can be read as r was written for r, by the current run, and is       *)
(* complete and within the prepared capacity: nothing leaks through a slot   *)
(* from another resource, a failed Unit or an earlier run (UC-V0-08, -10).   *)
ReadableIsFresh ==
  \A r \in Stored :
    Readable(r) =>
      LET v == live[SlotOf[r]] IN
        /\ v.valid
        /\ \A i \in 1 .. Len(v.items) : v.items[i] = [resource |-> r, run |-> runs]
        /\ SlotKind[SlotOf[r]] = "value" => Len(v.items) = 1
        /\ SlotKind[SlotOf[r]] = "fixed" => Len(v.items) = Capacity[r]
        /\ RejectsOverflow(r) => Len(v.items) <= Capacity[r]

(* A run exposes whole output groups: nothing of a Unit that has not         *)
(* returned successfully, and all of one that has, for as long as the plan   *)
(* keeps it live (UC-V0-08, PreparedExecutable::run).                        *)
GroupsAreAtomic ==
  pc \in {"loop", "handler"} =>
    \A r \in Stored :
      /\ pos <= ProducerStep(r) => ~Readable(r)
      /\ ProducerStep(r) < pos /\ pos <= LiveEnd[r] => Readable(r)

(* Between calls the host sees every Module output after a success and no    *)
(* resource at all after anything else: rejected call, failed run or         *)
(* allocation violation (UC-V0-16, Module::execute).                         *)
OutcomeDecidesVisibility ==
  pc = "idle" =>
    IF outcome.kind = "ok"
      THEN \A r \in ModuleOutput : Readable(r)
      ELSE \A r \in Resource : ~published[r]

(* A set flag always belongs to the current owner of the slot, although two  *)
(* vectors record it: observed_capacity would count a slot twice otherwise.  *)
FlagsFollowOwners ==
  \A r \in Stored : published[r] => owner[SlotOf[r]] = r

(* A poisoned Module never runs a Unit and never publishes again (UC-V0-17,  *)
(* -18): each later call leaves the store empty and the poison in place.     *)
PoisonIsFinal ==
  [][poisoned => /\ poisoned'
                 /\ pc' \notin {"loop", "handler"}
                 /\ \A r \in Resource : ~published'[r]]_vars

(* A resource is write-once within a run: from its publication to the end of *)
(* its visibility its contents do not change (UC-V0-02).                     *)
PublishedIsImmutable ==
  [][\A r \in Stored :
       Readable(r) /\ Readable(r)' /\ runs' = runs =>
         live'[SlotOf[r]] = live[SlotOf[r]]]_vars

(* Every call returns to the host, whatever its Units do, as long as they    *)
(* return.                                                                   *)
CallsReturn == pc # "idle" ~> pc = "idle"

(* What Units and the host may rely on when they read: the five invariants     *)
(* above together.                                                          *)
ReadsAreSafe ==
  /\ InputsAvailable
  /\ ReadableIsFresh
  /\ GroupsAreAtomic
  /\ OutcomeDecidesVisibility
  /\ FlagsFollowOwners

(* What the safety properties above need to be inductive.  While a handler   *)
(* runs, the pending side of each of its slots holds only items of this run  *)
(* for that output, within its bounds.                                       *)
PendingTagged ==
  pc = "handler" =>
    \A r \in Writes[pos] :
      LET items == pending[SlotOf[r]] IN
        /\ \A i \in 1 .. Len(items) : items[i] = [resource |-> r, run |-> runs]
        /\ SlotKind[SlotOf[r]] = "value" => Len(items) <= 1
        /\ RejectsOverflow(r) => Len(items) <= Capacity[r]

(* Flags and owners agree with the slot assignment, in both directions.      *)
OwnersFit ==
  /\ \A s \in Slot : owner[s] # NoResource => SlotOf[owner[s]] = s
  /\ \A r \in Resource : published[r] => r \in Stored /\ owner[SlotOf[r]] = r

(* A run is under way only on checked inputs and without poison; poison and  *)
(* visible resources exclude each other.                                     *)
RunChecked ==
  /\ pc \in {"loop", "handler"} => InputsValid(bound) /\ ~poisoned
  /\ poisoned => \A r \in Resource : ~published[r]

(* OutcomeDecidesVisibility at every point outside the loop.                 *)
VisibilityDecided ==
  /\ pc = "preflight" => \A r \in Resource : ~published[r]
  /\ pc \in {"idle", "closing"} =>
       IF outcome.kind = "ok"
         THEN \A r \in ModuleOutput : Readable(r)
         ELSE \A r \in Resource : ~published[r]

(* The inductive invariant of Module_proofs.                                 *)
RuntimeInv ==
  /\ TypeOK
  /\ PendingTagged
  /\ OwnersFit
  /\ ReadableIsFresh
  /\ GroupsAreAtomic
  /\ RunChecked
  /\ VisibilityDecided

(* UC-V0-17: "Fatal is the default and makes the Module reject later runs."  *)
FatalFailurePoisons ==
  pc = "idle" /\ outcome.kind \in {"fatal", "panic"} => poisoned
==============================================================================
