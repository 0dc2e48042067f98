-------------------------- MODULE Observing_proofs ---------------------------
(* Proofs about what watches a run: BoundedRunSink, for every capacity and any     *)
(* number of events, AdapterController over RerunAdapter, for any number of        *)
(* calls, and the navigation episode, for every itinerary and trail.               *)
EXTENDS MCObserving, SequenceTheorems, TLAPS

(* An empty sink.                                                            *)
LEMMA EmptySink ==
  ASSUME events = <<>>, dropped = 0, lastRetained = FALSE, told = <<>>
  PROVE  SinkInvariant
<1>0. lastRetained \in BOOLEAN
  BY Zenon
<1>1. SinkTypeOK
  BY <1>0 DEF SinkTypeOK
<1>2. Len(events) = 0 /\ Len(told) = 0
  OBVIOUS
<1>3. KeepsTheFirst
  BY <1>2, SinkAssumption DEF KeepsTheFirst
<1>4. lastRetained <=> (told # <<>> /\ dropped = 0)
  BY Zenon
<1> QED BY <1>1, <1>3, <1>4 DEF SinkInvariant

(* Recording an event.                                                       *)
LEMMA RecordKeeps ==
  ASSUME SinkInvariant, NEW e \in Kind, Record(e)
  PROVE  SinkInvariant'
<1> USE SinkAssumption
<1>0. /\ events \in Seq(Kind) /\ told \in Seq(Kind) /\ dropped \in Nat
      /\ KeepsTheFirst
  BY DEF SinkInvariant, SinkTypeOK
<1>1. told' = Append(told, e) /\ told' \in Seq(Kind) /\ told' # <<>>
  BY <1>0 DEF Record
<1>2. CASE Len(events) < Capacity
  <2>1. /\ events' = Append(events, e) /\ dropped' = dropped /\ dropped = 0
        /\ lastRetained' = TRUE
    BY <1>0, <1>2 DEF Record, KeepsTheFirst
  <2>2. KeepsTheFirst'
    BY <1>0, <1>1, <1>2, <2>1 DEF KeepsTheFirst
  <2>3. SinkTypeOK'
    BY <1>0, <1>1, <2>1 DEF SinkTypeOK
  <2> QED BY <1>1, <2>1, <2>2, <2>3 DEF SinkInvariant
<1>3. CASE ~(Len(events) < Capacity)
  <2>1. events' = events /\ dropped' = dropped + 1 /\ lastRetained' = FALSE
    BY <1>3 DEF Record
  <2>2. KeepsTheFirst'
    BY <1>0, <1>1, <1>3, <2>1, SMTT(30) DEF KeepsTheFirst
  <2>5. lastRetained' \in BOOLEAN
    BY <2>1, Zenon
  <2>3. SinkTypeOK'
    BY <1>0, <1>1, <2>1, <2>5 DEF SinkTypeOK
  <2>4. dropped' # 0
    BY <1>0, <2>1
  <2> QED BY <2>1, <2>2, <2>3, <2>4 DEF SinkInvariant
<1> QED BY <1>2, <1>3

(* Correcting the last event: when it was dropped, no event kept is touched.   *)
LEMMA CorrectLastKeeps ==
  ASSUME SinkInvariant, NEW e \in Kind, CorrectLast(e)
  PROVE  SinkInvariant'
<1> USE SinkAssumption
<1>0. /\ events \in Seq(Kind) /\ told \in Seq(Kind) /\ dropped \in Nat
      /\ KeepsTheFirst /\ lastRetained \in BOOLEAN
      /\ lastRetained <=> (told # <<>> /\ dropped = 0)
  BY DEF SinkInvariant, SinkTypeOK
<1>1. dropped' = dropped /\ lastRetained' = lastRetained
  BY DEF CorrectLast
<1>2. CASE told = <<>>
  <2>1. ~lastRetained
    BY <1>0, <1>2
  <2>2. events' = events /\ told' = told
    BY <1>2, <2>1 DEF CorrectLast
  <2> QED BY <1>1, <2>2 DEF SinkInvariant, SinkTypeOK, KeepsTheFirst
<1>3. CASE told # <<>> /\ lastRetained
  <2>1. dropped = 0
    BY <1>0, <1>3
  <2>2. /\ events' = [events EXCEPT ![Len(events)] = e]
        /\ told' = [told EXCEPT ![Len(told)] = e]
    BY <1>3 DEF CorrectLast
  <2>3. Len(told) > 0 /\ Len(events) = Len(told)
    BY <1>0, <1>3, <2>1 DEF KeepsTheFirst
  <2>4. /\ events' \in Seq(Kind) /\ told' \in Seq(Kind)
        /\ Len(events') = Len(events) /\ Len(told') = Len(told) /\ told' # <<>>
    BY <1>0, <2>2, <2>3
  <2>5. KeepsTheFirst'
    BY <1>0, <1>1, <2>2, <2>3, <2>4 DEF KeepsTheFirst
  <2>6. SinkTypeOK'
    BY <1>0, <1>1, <2>4 DEF SinkTypeOK
  <2> QED BY <1>1, <1>3, <2>1, <2>4, <2>5, <2>6 DEF SinkInvariant
<1>4. CASE told # <<>> /\ ~lastRetained
  <2>1. dropped # 0
    BY <1>0, <1>4
  <2>2. events' = events /\ told' = [told EXCEPT ![Len(told)] = e]
    BY <1>4 DEF CorrectLast
  <2>3. Len(events) < Len(told)
    BY <1>0, <2>1 DEF KeepsTheFirst
  <2>4. told' \in Seq(Kind) /\ Len(told') = Len(told) /\ told' # <<>>
    BY <1>0, <1>4, <2>2, <2>3
  <2>5. KeepsTheFirst'
    BY <1>0, <1>1, <2>2, <2>3, <2>4 DEF KeepsTheFirst
  <2>6. SinkTypeOK'
    BY <1>0, <1>1, <2>2, <2>4 DEF SinkTypeOK
  <2> QED BY <1>1, <1>4, <2>1, <2>4, <2>5, <2>6 DEF SinkInvariant
<1> QED BY <1>0, <1>2, <1>3, <1>4

LEMMA SinkStepKeeps ==
  ASSUME SinkInvariant, [SinkNext]_sinkVars
  PROVE  SinkInvariant'
<1>1. CASE Clear
  <2>1. events' = <<>> /\ dropped' = 0 /\ lastRetained' = FALSE /\ told' = <<>>
    BY <1>1 DEF Clear
  <2>2. lastRetained' \in BOOLEAN
    BY <2>1, Zenon
  <2>3. SinkTypeOK'
    BY <2>1, <2>2 DEF SinkTypeOK
  <2>4. Len(events') = 0 /\ Len(told') = 0
    BY <2>1
  <2>5. KeepsTheFirst'
    BY <2>1, <2>4, SinkAssumption DEF KeepsTheFirst
  <2>6. (lastRetained <=> (told # <<>> /\ dropped = 0))'
    BY <2>1, Zenon
  <2> QED BY <2>3, <2>5, <2>6 DEF SinkInvariant
<1>2. ASSUME NEW e \in Kind, Record(e)
      PROVE  SinkInvariant'
  BY <1>2, RecordKeeps
<1>3. ASSUME NEW e \in Kind, CorrectLast(e)
      PROVE  SinkInvariant'
  BY <1>3, CorrectLastKeeps
<1>4. CASE UNCHANGED sinkVars
  BY <1>4 DEF sinkVars, SinkInvariant, SinkTypeOK, KeepsTheFirst
<1> QED BY <1>1, <1>2, <1>3, <1>4 DEF SinkNext

(* The flag, the count and the kept prefix are maintained together.           *)
THEOREM SinkInvariantHolds == SinkSpec => []SinkInvariant
<1>1. SinkInit => SinkInvariant
  BY EmptySink DEF SinkInit
<1> QED BY <1>1, SinkStepKeeps, PTL DEF SinkSpec

(* What the sink shows is the first events told, each with its last           *)
(* correction, and the number of the others.                                 *)
THEOREM SinkKeepsTheFirst == SinkSpec => []KeepsTheFirst
<1>1. SinkInvariant => KeepsTheFirst
  BY DEF SinkInvariant
<1> QED BY <1>1, SinkInvariantHolds, PTL
------------------------------------------------------------------------------
(* The controller and its adapter. *)

(* Run indices are used up by snapshots only, at most one per call; a snapshot  *)
(* that is being logged is the only one of its index that can be.              *)
CallsFit ==
  /\ call.number \in 0 .. MaxCalls
  /\ result = "pending" => call.kind \in {"description", "snapshot"}
  /\ result \in {"none", "pending", "delivered", "error"}
  /\ runIndex \in Nat /\ unitIds \in 0 .. MaxUnits
  /\ runIndex <= call.number
  /\ result = "pending" => runIndex < call.number
  /\ at.tick = Unset /\ at = [tick |-> at.tick, run |-> at.run]
  /\ at.run \in Nat \cup {Unset}
  /\ at.run # Unset => at.run <= runIndex
  /\ result = "pending" /\ call.kind = "snapshot" => at.run = runIndex

DeliveriesFit ==
  /\ \A d \in delivered : d.run \in Nat /\ d.run < runIndex
  /\ DeliveredRunsAreDistinct

(* Under the disable policy rows of the current index are of the current        *)
(* snapshot, which is still being logged or was the last.                      *)
RowsFit ==
  policy = "disable" =>
    /\ \A r \in rows : r.time.run # Unset =>
         /\ r.time.run \in Nat /\ r.time.run <= runIndex
         /\ r.time.run = runIndex =>
              /\ r.call = call.number
              /\ (result = "pending" /\ call.kind = "snapshot") \/ ~enabled
    /\ RunsAreNotMixed

(* A disabled adapter is not in a call; only the first failure disables.       *)
PolicyFits ==
  /\ policy \in {"report", "disable"}
  /\ enabled \in BOOLEAN
  /\ ~enabled => Idle
  /\ failures \in {0, 1}
  /\ lastError \in 0 .. MaxCalls
  /\ failures = 1 => ~enabled /\ lastError = call.number /\ call.number >= 1
  /\ outcome \in {"none", "Delivered", "Disabled", "DisabledAfterFailure", "Failed"}
  /\ policy = "disable" => outcome # "Failed"

ControllerInvariant == CallsFit /\ DeliveriesFit /\ RowsFit /\ PolicyFits

LEMMA InvariantSuffices ==
  ASSUME ControllerInvariant
  PROVE  ControllerInv
<1> USE RerunAssumption
<1>1. ControllerTypeOK
  <2>1. enabled \in BOOLEAN
    BY DEF ControllerInvariant, PolicyFits
  <2>2. failures \in 0 .. MaxCalls
    BY DEF ControllerInvariant, PolicyFits, CallsFit
  <2>3. runIndex \in 0 .. MaxCalls /\ at.run \in 0 .. MaxCalls \cup {Unset}
    BY DEF ControllerInvariant, CallsFit
  <2> QED BY <2>1, <2>2, <2>3 DEF ControllerInvariant, PolicyFits, CallsFit, ControllerTypeOK
<1>2. DeliveredRunsAreDistinct
  BY DEF ControllerInvariant, DeliveriesFit
<1>3. RunsAreNotMixed
  BY DEF ControllerInvariant, RowsFit, RunsAreNotMixed
<1>4. DisabledForGood
  BY DEF ControllerInvariant, PolicyFits, DisabledForGood
<1> QED BY <1>1, <1>2, <1>3, <1>4 DEF ControllerInv

(* A new call, which only an enabled adapter gets: no row has its index yet.    *)
LEMMA CallKeeps ==
  ASSUME ControllerInvariant, Call
  PROVE  ControllerInvariant'
<1> USE RerunAssumption
<1>1. /\ enabled /\ Idle /\ call.number < MaxCalls
      /\ call'.number = call.number + 1
      /\ call'.kind \in {"description", "snapshot"}
      /\ at' = IF call'.kind = "snapshot" THEN [at EXCEPT !.run = runIndex] ELSE at
      /\ result' = "pending" /\ unitIds' \in 0 .. MaxUnits
      /\ UNCHANGED <<rows, runIndex, delivered, policy, enabled, lastError, outcome, failures>>
  <2>1. ASSUME NEW n \in 0 .. MaxUnits, Guarded(FALSE), FixedDescription(n), UNCHANGED controllerVars
        PROVE  <1>1!:
    BY <2>1 DEF Guarded, FixedDescription, Begin, controllerVars
  <2>2. ASSUME NEW n \in 0 .. MaxUnits, Guarded(TRUE), RunSnapshot(n), UNCHANGED controllerVars
        PROVE  <1>1!:
    BY <2>2 DEF ControllerInvariant, CallsFit, Guarded, RunSnapshot, Begin, controllerVars
  <2> QED BY <2>1, <2>2 DEF Call
<1>2. CallsFit'
  BY <1>1 DEF ControllerInvariant, CallsFit
<1>3. DeliveriesFit'
  BY <1>1 DEF ControllerInvariant, DeliveriesFit, DeliveredRunsAreDistinct
<1>4. RowsFit'
  <2>1. result # "pending" /\ enabled
    BY <1>1 DEF Idle
  <2> QED BY <1>1, <2>1 DEF ControllerInvariant, RowsFit, RunsAreNotMixed
<1>5. PolicyFits'
  BY <1>1 DEF ControllerInvariant, PolicyFits
<1> QED BY <1>2, <1>3, <1>4, <1>5 DEF ControllerInvariant

(* A row: static, or one more of the snapshot that is being logged.            *)
LEMMA StepKeepsRows ==
  ASSUME ControllerInvariant, Step
  PROVE  ControllerInvariant'
<1> DEFINE row == [entity |-> Head(job), call |-> call.number, data |-> call.data,
                   time |-> IF IsStatic THEN Untimed ELSE at]
<1>1. /\ result = "pending" /\ rows' = rows \cup {row}
      /\ UNCHANGED <<at, runIndex, unitIds, call, result, delivered>>
      /\ UNCHANGED <<policy, enabled, lastError, outcome, failures>>
  BY DEF Step, LogRow, controllerVars
<1>2. CallsFit' /\ DeliveriesFit' /\ PolicyFits'
  BY <1>1 DEF ControllerInvariant, CallsFit, DeliveriesFit, DeliveredRunsAreDistinct, PolicyFits, Idle
<1>3. row.call = call.number /\ row.time = IF IsStatic THEN Untimed ELSE at
  OBVIOUS
<1>4. row.time.run = Unset \/ (row.time.run = runIndex /\ call.kind = "snapshot")
  BY <1>1, <1>3 DEF ControllerInvariant, CallsFit, IsStatic, Untimed
<1> HIDE DEF row
<1>5. RowsFit'
  BY <1>1, <1>3, <1>4 DEF ControllerInvariant, CallsFit, RowsFit, RunsAreNotMixed
<1> QED BY <1>2, <1>5 DEF ControllerInvariant

(* The end of a call that was logged whole uses up its run index.              *)
LEMMA DeliverKeeps ==
  ASSUME ControllerInvariant, Deliver
  PROVE  ControllerInvariant'
<1> USE RerunAssumption
<1>1. /\ result = "pending" /\ result' = "delivered" /\ outcome' = "Delivered"
      /\ UNCHANGED <<rows, at, unitIds, call, job, policy, enabled, lastError, failures>>
      /\ runIndex' = IF call.kind = "snapshot" THEN runIndex + 1 ELSE runIndex
      /\ delivered' = IF call.kind = "snapshot"
                        THEN delivered \cup {[call |-> call.number, run |-> runIndex]}
                        ELSE delivered
  BY DEF Deliver, Finish
<1>2. CallsFit'
  BY <1>1 DEF ControllerInvariant, CallsFit
<1>3. DeliveriesFit'
  BY <1>1 DEF ControllerInvariant, CallsFit, DeliveriesFit, DeliveredRunsAreDistinct
<1>4. RowsFit'
  <2>1. CASE call.kind = "snapshot"
    BY <1>1, <2>1 DEF ControllerInvariant, CallsFit, RowsFit, RunsAreNotMixed
  <2>2. CASE call.kind = "description"
    BY <1>1, <2>2 DEF ControllerInvariant, CallsFit, RowsFit, RunsAreNotMixed
  <2> QED BY <1>1, <2>1, <2>2 DEF ControllerInvariant, CallsFit
<1>5. PolicyFits'
  BY <1>1 DEF ControllerInvariant, PolicyFits, Idle
<1> QED BY <1>2, <1>3, <1>4, <1>5 DEF ControllerInvariant

(* A failure, of a call that only an enabled adapter can be in.                *)
LEMMA FailureKeeps ==
  ASSUME ControllerInvariant, HandleFailure
  PROVE  ControllerInvariant'
<1> USE RerunAssumption
<1>1. /\ result = "pending" /\ result' = "error"
      /\ UNCHANGED <<rows, at, runIndex, unitIds, call, delivered, policy>>
  BY DEF HandleFailure, Fail
<1>2. CallsFit' /\ DeliveriesFit'
  BY <1>1 DEF ControllerInvariant, CallsFit, DeliveriesFit, DeliveredRunsAreDistinct
<1>3. enabled
  BY <1>1 DEF ControllerInvariant, PolicyFits, Idle
<1>4. failures = 0
  BY <1>3 DEF ControllerInvariant, PolicyFits
<1>5. CASE policy = "report"
  <2>1. outcome' = "Failed" /\ UNCHANGED <<enabled, lastError, failures>>
    BY <1>5 DEF HandleFailure
  <2> QED BY <1>1, <1>2, <1>3, <1>4, <1>5, <2>1 DEF ControllerInvariant, PolicyFits, RowsFit
<1>6. CASE policy = "disable"
  <2>1. /\ outcome' = "DisabledAfterFailure" /\ enabled' = FALSE
        /\ lastError' = call.number /\ failures' = failures + 1
    BY <1>6 DEF HandleFailure
  <2>2. ~enabled' /\ enabled' \in BOOLEAN
    BY <2>1, Zenon
  <2>5. /\ Idle' /\ policy' = policy
        /\ failures' = 1 /\ lastError' = call'.number
        /\ call'.number \in 0 .. MaxCalls /\ call'.number >= 1
    BY <1>1, <1>4, <2>1 DEF ControllerInvariant, CallsFit, Idle
  <2>3. PolicyFits'
    BY <1>6, <2>1, <2>2, <2>5 DEF PolicyFits
  <2>4. RowsFit'
    BY <1>1, <2>2 DEF ControllerInvariant, RowsFit, RunsAreNotMixed
  <2> QED BY <1>2, <2>3, <2>4 DEF ControllerInvariant
<1> QED BY <1>5, <1>6 DEF ControllerInvariant, PolicyFits

(* A call to a disabled adapter, or the host's own decision to disable it.     *)
LEMMA DisablingKeeps ==
  ASSUME ControllerInvariant, CallDisabled \/ Disable
  PROVE  ControllerInvariant'
<1>1. /\ Idle /\ UNCHANGED <<rows, at, runIndex, unitIds, call, result, delivered>>
      /\ UNCHANGED <<policy, lastError, failures>>
      /\ outcome' \in {outcome, "Disabled"}
  BY DEF CallDisabled, Disable, adapterVars
<1>2. CallsFit' /\ DeliveriesFit'
  BY <1>1 DEF ControllerInvariant, CallsFit, DeliveriesFit, DeliveredRunsAreDistinct
<1>3. enabled' \in BOOLEAN /\ (enabled' => enabled)
  <2>1. CASE CallDisabled
    BY <2>1, Zenon DEF CallDisabled, ControllerInvariant, PolicyFits
  <2>2. CASE Disable
    BY <2>2, Zenon DEF Disable
  <2> QED BY <2>1, <2>2
<1>4. RowsFit'
  BY <1>1, <1>3 DEF ControllerInvariant, RowsFit, RunsAreNotMixed
<1>5. PolicyFits'
  BY <1>1, <1>3 DEF ControllerInvariant, PolicyFits, Idle
<1> QED BY <1>2, <1>4, <1>5 DEF ControllerInvariant

LEMMA StepKeeps ==
  ASSUME ControllerInvariant, [ControllerNext]_<<adapterVars, controllerVars>>
  PROVE  ControllerInvariant'
<1>1. ASSUME UNCHANGED <<adapterVars, controllerVars>> PROVE ControllerInvariant'
  BY <1>1 DEF adapterVars, controllerVars, ControllerInvariant, CallsFit, DeliveriesFit,
              DeliveredRunsAreDistinct, RowsFit, RunsAreNotMixed, PolicyFits, Idle
<1> QED BY <1>1, CallKeeps, StepKeepsRows, DeliverKeeps, FailureKeeps, DisablingKeeps DEF ControllerNext

LEMMA InitFits ==
  ASSUME ControllerInit
  PROVE  ControllerInvariant
<1> USE RerunAssumption
<1>1. CallsFit
  BY DEF ControllerInit, AdapterInit, CallsFit, NoCall, Untimed
<1>2. DeliveriesFit /\ RowsFit
  BY DEF ControllerInit, AdapterInit, DeliveriesFit, DeliveredRunsAreDistinct, RowsFit, RunsAreNotMixed
<1>3. enabled /\ enabled \in BOOLEAN
  BY Zenon DEF ControllerInit
<1>4. PolicyFits
  BY <1>3 DEF ControllerInit, AdapterInit, PolicyFits, Idle
<1> QED BY <1>1, <1>2, <1>4 DEF ControllerInvariant

(* The inductive invariant of the controller and the adapter under it.         *)
THEOREM ControllerInvariantHolds == ControllerSpec => []ControllerInvariant
<1> QED BY InitFits, StepKeeps, PTL DEF ControllerSpec

(* Runs are told apart, under the disable policy down to every row, and a       *)
(* failure disables once and for all (AdapterController::handle_failure).       *)
THEOREM ControllerKeepsItsPromises == ControllerSpec => []ControllerInv
<1> QED BY ControllerInvariantHolds, InvariantSuffices, PTL

(* A disabled adapter logs nothing (the guard in front of every call).         *)
THEOREM DisabledMeansSilent == ControllerSpec => SilentWhenDisabled
<1>1. ASSUME ControllerInvariant, [ControllerNext]_<<adapterVars, controllerVars>>, ~enabled
      PROVE  UNCHANGED <<adapterVars, enabled, lastError>>
  <2>1. result # "pending"
    BY <1>1 DEF ControllerInvariant, PolicyFits, Idle
  <2>2. ~Call /\ ~Disable
    BY <1>1 DEF Call, Guarded, Disable
  <2>3. ~Step /\ ~Deliver /\ ~HandleFailure
    BY <2>1 DEF Step, LogRow, Deliver, Finish, HandleFailure, Fail
  <2>4. CallDisabled => UNCHANGED <<adapterVars, enabled, lastError>>
    BY DEF CallDisabled
  <2> QED BY <1>1, <2>2, <2>3, <2>4 DEF ControllerNext, controllerVars
<1>2. ControllerInvariant /\ [ControllerNext]_<<adapterVars, controllerVars>>
        => [~enabled => UNCHANGED <<adapterVars, enabled, lastError>>]_<<adapterVars, controllerVars>>
  BY <1>1
<1> QED BY <1>2, ControllerInvariantHolds, PTL DEF ControllerSpec, SilentWhenDisabled
------------------------------------------------------------------------------
(* The episode and its adapter. *)

RawPath     == Navigation("raw_path")
RobotPose   == Navigation("robot_pose")
RecentTrail == Navigation("recent_pose_trail")

TimedKind == {"frame", "snapshot", "pose"}

UnitSeries   == {Series(k) : k \in Nat}
UnitOffsets  == {Offset(k) : k \in Nat}
RunMetrics   == {Metric(m) : m \in {"elapsed_ms", "observed_capacity", "allocations",
                                    "reallocations", "deallocations"}}
PlanCapacities == {<<"metrics/capacity", m>> : m \in {"slots", "bytes", "resources"}}

EntitiesOf == [
  description |-> UnitSeries \cup PlanCapacities,
  map         |-> {Navigation("map")},
  frame       |-> {RawPath, Navigation("smoothed_path"), Navigation("start"), Navigation("goal")},
  snapshot    |-> UnitSeries \cup UnitOffsets \cup RunMetrics,
  pose        |-> {RobotPose, RecentTrail}]

(* The kind of call that logs an entity at a tick.                           *)
KindOf(entity) ==
  IF entity \in {RobotPose, RecentTrail} THEN "pose"
  ELSE IF entity[1] = "navigation" THEN "frame" ELSE "snapshot"

(* Kinds of the rows there may be at the current tick: those of the leg that   *)
(* is about to start.                                                        *)
LoggedAtTick ==
  IF phase = "snapshot" THEN {"frame"}
  ELSE IF phase = "end" \/ (phase = "poses" /\ path # <<>>) THEN {"frame", "snapshot"}
  ELSE {}

(* What the call in progress is, by the phase it was made in.                 *)
CallOfPhase ==
  /\ call.number \in 0 .. MaxCalls
  /\ result \in {"none", "pending", "delivered", "error"}
  /\ at.run = Unset /\ at = [tick |-> at.tick, run |-> at.run]
  /\ result = "pending" =>
       \/ call.kind = "description" /\ phase = "map"
       \/ call.kind = "map" /\ phase = "run"
       \/ call.kind = "frame" /\ phase = "snapshot" /\ at.tick = tick /\ call.data = leg
       \/ call.kind = "snapshot" /\ phase = "poses" /\ path # <<>> /\ at.tick = tick
       \/ /\ call.kind = "pose" /\ phase = "poses"
          /\ tick >= 1 /\ at.tick = tick - 1
          /\ call.data = [pose |-> travelled[tick], trail |-> trail]
  /\ result = "pending" => job \in Seq(EntitiesOf[call.kind])

(* A row belongs to one call, which gives it its data.                        *)
RowsOfCalls ==
  /\ \A r \in rows :
       /\ r = [entity |-> r.entity, call |-> r.call, data |-> r.data, time |-> r.time]
       /\ r.call \in 0 .. call.number
       /\ result = "pending" /\ r.call = call.number => r.data = call.data
  /\ \A r, s \in rows : r.call = s.call => r.data = s.data

(* At one tick an entity is logged by one call.                               *)
RowsOfTicks ==
  /\ \A r \in rows : r.time.tick # Unset =>
       /\ r.time.tick \in 0 .. tick
       /\ r.time.tick = tick => KindOf(r.entity) \in LoggedAtTick
  /\ result = "pending" /\ call.kind \in TimedKind =>
       \A r \in rows : r.time.tick = at.tick /\ KindOf(r.entity) = call.kind =>
         r.call = call.number
  /\ \A r, s \in rows :
       r.entity = s.entity /\ r.time.tick = s.time.tick /\ r.time.tick # Unset =>
         r.call = s.call

Poses == Nat \X Nat

(* How far the episode got: a tick is a pose, and the poses of a leg follow    *)
(* those of the legs before.                                                 *)
Progress ==
  /\ phase \in {"describe", "map", "run", "frame", "snapshot", "poses", "end"}
  /\ leg \in 0 .. Legs
  /\ travelled \in Seq(Poses) /\ path \in Seq(Poses) /\ trail \in Seq(Poses)
  /\ tick = Len(travelled)
  /\ phase \in {"frame", "snapshot"} => path # <<>>
  /\ phase # "end" => \A i \in 1 .. Len(path) : path[i][1] = leg
  /\ \A i \in 1 .. Len(travelled) :
       /\ travelled[i][1] <= leg
       /\ phase \in {"frame", "snapshot"} => travelled[i][1] < leg

(* seq is the last poses of the first n travelled.                            *)
LastOf(seq, n) ==
  /\ seq \in Seq(Poses)
  /\ Len(seq) = IF n < MaxTrail THEN n ELSE MaxTrail
  /\ \A i \in 1 .. Len(seq) : seq[i] = travelled[n - Len(seq) + i]

TrailFits == LastOf(trail, tick)

PosesFit ==
  \A r \in rows : r.entity \in {RobotPose, RecentTrail} =>
    /\ r.time.tick \in Nat /\ r.time.tick < tick
    /\ r.data.pose = travelled[r.time.tick + 1]
    /\ LastOf(r.data.trail, r.time.tick + 1)

HasRoute(number, upTo) ==
  \E f \in rows : f.entity = RawPath /\ f.data = number /\ f.time.tick \in 0 .. upTo

(* The route of a leg is logged before its first pose and after the last of     *)
(* the legs before.                                                          *)
RoutesFit ==
  /\ \A f \in rows : f.entity = RawPath =>
       /\ f.time.tick \in 0 .. tick
       /\ f.data \in 0 .. leg
       /\ \A i \in 1 .. Len(travelled) :
            /\ i <= f.time.tick => travelled[i][1] < f.data
            /\ i > f.time.tick => travelled[i][1] >= f.data
  /\ \A i \in 1 .. Len(travelled) : HasRoute(travelled[i][1], i - 1)
  /\ phase = "snapshot" =>
       \/ HasRoute(leg, tick)
       \/ result = "pending" /\ call.kind = "frame" /\ job # <<>> /\ Head(job) = RawPath
  /\ phase = "poses" => HasRoute(leg, tick)

EpisodeInvariant ==
  /\ CallOfPhase /\ RowsOfCalls /\ RowsOfTicks
  /\ Progress /\ TrailFits /\ PosesFit /\ RoutesFit

(* The lists of entities of the operations.                                  *)
LEMMA EntitiesOfCalls ==
  /\ EntitiesOf["description"] = UnitSeries \cup PlanCapacities
  /\ EntitiesOf["map"] = {Navigation("map")}
  /\ EntitiesOf["frame"] = {RawPath, Navigation("smoothed_path"), Navigation("start"),
                            Navigation("goal")}
  /\ EntitiesOf["snapshot"] = UnitSeries \cup UnitOffsets \cup RunMetrics
  /\ EntitiesOf["pose"] = {RobotPose, RecentTrail}
BY DEF EntitiesOf

LEMMA EntityTellsKind ==
  /\ \A kind \in TimedKind : \A e \in EntitiesOf[kind] : KindOf(e) = kind
  /\ \A kind \in {"description", "map", "snapshot"} : \A e \in EntitiesOf[kind] :
       e \notin {RawPath, RobotPose, RecentTrail}
<1> USE EntitiesOfCalls DEF Navigation, RawPath, RobotPose, RecentTrail
<1>1. \A e \in UnitSeries \cup UnitOffsets \cup RunMetrics \cup PlanCapacities :
        e[1] # "navigation" /\ e \notin {RawPath, RobotPose, RecentTrail}
  BY DEF UnitSeries, UnitOffsets, RunMetrics, PlanCapacities, Series, Offset, Metric
<1>2. \A e \in EntitiesOf["snapshot"] : KindOf(e) = "snapshot"
  BY <1>1 DEF KindOf
<1>3. \A e \in EntitiesOf["frame"] : KindOf(e) = "frame"
  BY DEF KindOf
<1>4. \A e \in EntitiesOf["pose"] : KindOf(e) = "pose"
  BY DEF KindOf
<1>5. Navigation("map") \notin {RawPath, RobotPose, RecentTrail}
  OBVIOUS
<1> QED BY <1>1, <1>2, <1>3, <1>4, <1>5 DEF TimedKind

LEMMA SnapshotEntities ==
  ASSUME NEW timings \in Nat
  PROVE  SnapshotRows(timings) \in Seq(EntitiesOf["snapshot"])
<1> DEFINE E == EntitiesOf["snapshot"]
           pairs == [i \in 1 .. 2 * timings |->
                       IF i % 2 = 1 THEN Series(i \div 2) ELSE Offset(i \div 2 - 1)]
<1>1. /\ \A k \in Nat : Series(k) \in E /\ Offset(k) \in E
      /\ \A m \in {"elapsed_ms", "observed_capacity", "allocations",
                   "reallocations", "deallocations"} : Metric(m) \in E
  BY EntitiesOfCalls DEF UnitSeries, UnitOffsets, RunMetrics
<1>2. \A i \in 1 .. 2 * timings : i \div 2 \in Nat /\ (i % 2 # 1 => i \div 2 - 1 \in Nat)
  OBVIOUS
<1> HIDE DEF E
<1>3. pairs \in Seq(E)
  <2>1. 2 * timings \in Nat /\ pairs \in [1 .. 2 * timings -> E]
    BY <1>1, <1>2
  <2> QED BY <2>1, SeqDef
<1> HIDE DEF pairs
<1>4. <<Metric("elapsed_ms")>> \in Seq(E)
  BY <1>1
<1>5. <<Metric("observed_capacity"), Metric("allocations"),
        Metric("reallocations"), Metric("deallocations")>> \in Seq(E)
  BY <1>1
<1>6. <<Metric("elapsed_ms")>> \o pairs \in Seq(E)
  BY <1>3, <1>4
<1>7. (<<Metric("elapsed_ms")>> \o pairs) \o
        <<Metric("observed_capacity"), Metric("allocations"),
          Metric("reallocations"), Metric("deallocations")>> \in Seq(E)
  BY <1>5, <1>6
<1> QED BY <1>7 DEF pairs, E, SnapshotRows

LEMMA DescriptionEntities ==
  ASSUME NEW units \in Nat
  PROVE  [k \in 1 .. units |-> Series(k - 1)] \o
           <<<<"metrics/capacity", "slots">>, <<"metrics/capacity", "bytes">>,
             <<"metrics/capacity", "resources">>>> \in Seq(EntitiesOf["description"])
<1> DEFINE E == EntitiesOf["description"]
           series == [k \in 1 .. units |-> Series(k - 1)]
           capacities == <<<<"metrics/capacity", "slots">>, <<"metrics/capacity", "bytes">>,
                           <<"metrics/capacity", "resources">>>>
<1>1. \A k \in Nat : Series(k) \in E
  BY EntitiesOfCalls DEF UnitSeries
<1>2. \A m \in {"slots", "bytes", "resources"} : <<"metrics/capacity", m>> \in E
  BY EntitiesOfCalls DEF PlanCapacities
<1> HIDE DEF E
<1>3. \A k \in 1 .. units : k - 1 \in Nat
  OBVIOUS
<1>4. series \in [1 .. units -> E]
  BY <1>1, <1>3
<1>5. series \in Seq(E)
  BY <1>4, SeqDef
<1>6. capacities \in Seq(E)
  BY <1>2
<1> HIDE DEF series, capacities
<1>7. series \o capacities \in Seq(E)
  BY <1>5, <1>6
<1> QED BY <1>7 DEF series, capacities, E
------------------------------------------------------------------------------
(* Rows and calls while a call is being made: no row belongs to it yet.        *)
LEMMA NewCallKeepsRows ==
  ASSUME RowsOfCalls, call.number \in Nat, call'.number = call.number + 1, rows' = rows
  PROVE  RowsOfCalls'
BY DEF RowsOfCalls

LEMMA EpisodeStarts ==
  ASSUME EpisodeInit
  PROVE  EpisodeInvariant
<1> USE RerunAssumption, EpisodeAssumption DEF EpisodeInit, AdapterInit
<1>1. CallOfPhase
  BY DEF CallOfPhase, NoCall, Untimed
<1>2. RowsOfCalls /\ RowsOfTicks
  BY DEF RowsOfCalls, RowsOfTicks
<1>3. Progress
  BY DEF Progress
<1>4. TrailFits
  BY DEF TrailFits, LastOf
<1>5. PosesFit /\ RoutesFit
  BY DEF PosesFit, RoutesFit
<1> QED BY <1>1, <1>2, <1>3, <1>4, <1>5 DEF EpisodeInvariant

(* The calls made once, before the first leg: their rows are static.           *)
LEMMA DescribeKeeps ==
  ASSUME EpisodeInvariant, Describe
  PROVE  EpisodeInvariant'
<1> USE RerunAssumption, EpisodeAssumption
<1>1. /\ phase = "describe" /\ phase' = "map"
      /\ call.number < MaxCalls /\ call'.number = call.number + 1
      /\ call'.kind = "description" /\ result' = "pending"
      /\ job' \in Seq(EntitiesOf["description"])
      /\ UNCHANGED <<rows, at, leg, tick, trail, path, travelled>>
  BY DescriptionEntities DEF Describe, FixedDescription, Begin
<1>2. CallOfPhase'
  BY <1>1 DEF EpisodeInvariant, CallOfPhase
<1>3. RowsOfCalls'
  BY <1>1, NewCallKeepsRows DEF EpisodeInvariant, CallOfPhase
<1>4. RowsOfTicks'
  BY <1>1 DEF EpisodeInvariant, RowsOfTicks, LoggedAtTick, TimedKind
<1>5. Progress' /\ TrailFits' /\ PosesFit' /\ RoutesFit'
  BY <1>1 DEF EpisodeInvariant, Progress, TrailFits, PosesFit, LastOf, RoutesFit, HasRoute
<1> QED BY <1>2, <1>3, <1>4, <1>5 DEF EpisodeInvariant

LEMMA LogMapKeeps ==
  ASSUME EpisodeInvariant, LogMap
  PROVE  EpisodeInvariant'
<1> USE RerunAssumption, EpisodeAssumption
<1>1. /\ phase = "map" /\ phase' = "run"
      /\ call.number < MaxCalls /\ call'.number = call.number + 1
      /\ call'.kind = "map" /\ result' = "pending"
      /\ job' \in Seq(EntitiesOf["map"])
      /\ UNCHANGED <<rows, at, leg, tick, trail, path, travelled>>
  BY EntitiesOfCalls DEF LogMap, NavigationMap, Begin
<1>2. CallOfPhase'
  BY <1>1 DEF EpisodeInvariant, CallOfPhase
<1>3. RowsOfCalls'
  BY <1>1, NewCallKeepsRows DEF EpisodeInvariant, CallOfPhase
<1>4. RowsOfTicks'
  BY <1>1 DEF EpisodeInvariant, RowsOfTicks, LoggedAtTick, TimedKind
<1>5. Progress' /\ TrailFits' /\ PosesFit' /\ RoutesFit'
  BY <1>1 DEF EpisodeInvariant, Progress, TrailFits, PosesFit, LastOf, RoutesFit, HasRoute
<1> QED BY <1>2, <1>3, <1>4, <1>5 DEF EpisodeInvariant

(* The poses of the next leg are of a number nobody travelled yet.             *)
LEMMA RunLegKeeps ==
  ASSUME EpisodeInvariant, RunLeg
  PROVE  EpisodeInvariant'
<1> USE RerunAssumption, EpisodeAssumption
<1>1. /\ phase = "run" /\ result # "pending" /\ leg < Legs /\ leg' = leg + 1
      /\ UNCHANGED <<rows, at, call, job, result, tick, trail, travelled>>
  BY DEF RunLeg, Idle, adapterVars
<1>2. \/ phase' = "end" /\ path' = path
      \/ /\ phase' = "frame" /\ path' # <<>> /\ path' \in Seq(Poses)
         /\ \A i \in 1 .. Len(path') : path'[i][1] = leg + 1
  <2>1. ASSUME NEW n \in PathLength, path' = [i \in 1 .. n |-> <<leg + 1, i>>]
        PROVE  path' # <<>> /\ path' \in Seq(Poses) /\ \A i \in 1 .. Len(path') : path'[i][1] = leg + 1
    <3>1. leg + 1 \in Nat /\ n \in Nat \ {0}
      BY <1>1 DEF EpisodeInvariant, Progress
    <3>2. path' \in [1 .. n -> Poses]
      BY <2>1, <3>1 DEF Poses
    <3>3. path' \in Seq(Poses) /\ Len(path') = n
      BY <3>1, <3>2, SeqDef
    <3>4. path' # <<>>
      BY <3>1, <3>3
    <3>5. \A i \in 1 .. n : path'[i][1] = leg + 1
      BY <2>1
    <3> QED BY <3>3, <3>4, <3>5
  <2> QED BY <2>1 DEF RunLeg
<1>3. CallOfPhase' /\ RowsOfCalls'
  BY <1>1 DEF EpisodeInvariant, CallOfPhase, RowsOfCalls
<1>4. RowsOfTicks'
  BY <1>1, <1>2 DEF EpisodeInvariant, RowsOfTicks, LoggedAtTick
<1>5. Progress'
  <2>1. leg' \in 0 .. Legs /\ \A i \in 1 .. Len(travelled) : travelled[i][1] < leg'
    <3>1. \A i \in 1 .. Len(travelled) : travelled[i][1] \in Nat /\ travelled[i][1] <= leg
      BY DEF EpisodeInvariant, Progress, Poses
    <3> QED BY <1>1, <3>1 DEF EpisodeInvariant, Progress
  <2>2. \A i \in 1 .. Len(travelled) : travelled[i][1] <= leg'
    <3>1. \A i \in 1 .. Len(travelled) : travelled[i][1] \in Nat
      BY DEF EpisodeInvariant, Progress, Poses
    <3> QED BY <2>1, <3>1
  <2> QED BY <1>1, <1>2, <2>1, <2>2 DEF EpisodeInvariant, Progress
<1>6. TrailFits' /\ PosesFit'
  BY <1>1 DEF EpisodeInvariant, TrailFits, PosesFit, LastOf
<1>7. RoutesFit'
  <2>1. phase' \notin {"snapshot", "poses"}
    BY <1>2
  <2> QED BY <1>1, <2>1 DEF EpisodeInvariant, RoutesFit, HasRoute, Progress
<1> QED BY <1>3, <1>4, <1>5, <1>6, <1>7 DEF EpisodeInvariant

(* A frame opens a tick at which its leg has logged nothing.                  *)
LEMMA LogFrameKeeps ==
  ASSUME EpisodeInvariant, LogFrame
  PROVE  EpisodeInvariant'
<1> USE RerunAssumption, EpisodeAssumption
<1>1. /\ phase = "frame" /\ phase' = "snapshot"
      /\ call.number < MaxCalls /\ call'.number = call.number + 1
      /\ call'.kind = "frame" /\ call'.data = leg /\ result' = "pending"
      /\ at' = [at EXCEPT !.tick = tick]
      /\ UNCHANGED <<rows, leg, tick, trail, path, travelled>>
  BY DEF LogFrame, NavigationFrameAt, Begin
<1>2. job' \in Seq(EntitiesOf["frame"]) /\ job' # <<>> /\ Head(job') = RawPath
  <2>1. job' = <<Navigation("raw_path")>>
                  \o (IF smoothing THEN <<Navigation("smoothed_path")>> ELSE <<>>)
                  \o <<Navigation("start"), Navigation("goal")>>
    BY DEF LogFrame, NavigationFrameAt, Begin
  <2> DEFINE E == EntitiesOf["frame"]
             first == <<Navigation("raw_path")>>
             middle == IF smoothing THEN <<Navigation("smoothed_path")>> ELSE <<>>
             last == <<Navigation("start"), Navigation("goal")>>
  <2>2. /\ Navigation("raw_path") \in E /\ Navigation("smoothed_path") \in E
        /\ Navigation("start") \in E /\ Navigation("goal") \in E
    BY EntitiesOfCalls DEF RawPath
  <2> HIDE DEF E
  <2>3. first \in Seq(E) /\ Len(first) = 1 /\ first[1] = RawPath
    BY <2>2 DEF RawPath
  <2>4. middle \in Seq(E)
    <3>1. <<Navigation("smoothed_path")>> \in Seq(E) /\ <<>> \in Seq(E)
      BY <2>2
    <3> QED BY <3>1
  <2>5. last \in Seq(E)
    BY <2>2
  <2> HIDE DEF first, middle, last
  <2>6. /\ first \o middle \in Seq(E) /\ Len(first \o middle) = 1 + Len(middle)
        /\ (first \o middle)[1] = RawPath
    BY <2>3, <2>4, ConcatProperties
  <2>7. /\ (first \o middle) \o last \in Seq(E) /\ Len((first \o middle) \o last) > 0
        /\ ((first \o middle) \o last)[1] = RawPath
    BY <2>4, <2>5, <2>6, ConcatProperties
  <2>8. job' = (first \o middle) \o last
    BY <2>1 DEF first, middle, last
  <2>9. job' # <<>> /\ Head(job') = RawPath
    BY <2>7, <2>8, HeadTailProperties
  <2> QED BY <2>7, <2>8, <2>9 DEF E
<1>3. at'.tick = tick /\ at'.run = Unset /\ at' = [tick |-> at'.tick, run |-> at'.run]
  BY <1>1 DEF EpisodeInvariant, CallOfPhase
<1>4. CallOfPhase'
  BY <1>1, <1>2, <1>3 DEF EpisodeInvariant, CallOfPhase
<1>5. RowsOfCalls'
  BY <1>1, NewCallKeepsRows DEF EpisodeInvariant, CallOfPhase
<1>6. RowsOfTicks'
  <2>1. tick \in Nat
    BY DEF EpisodeInvariant, Progress
  <2> QED BY <1>1, <1>3, <2>1 DEF EpisodeInvariant, RowsOfTicks, LoggedAtTick
<1>7. Progress' /\ TrailFits' /\ PosesFit'
  BY <1>1 DEF EpisodeInvariant, Progress, TrailFits, PosesFit, LastOf
<1>8. RoutesFit'
  BY <1>1, <1>2 DEF EpisodeInvariant, RoutesFit, HasRoute
<1> QED BY <1>4, <1>5, <1>6, <1>7, <1>8 DEF EpisodeInvariant

LEMMA LogRunKeeps ==
  ASSUME EpisodeInvariant, LogRun
  PROVE  EpisodeInvariant'
<1> USE RerunAssumption, EpisodeAssumption
<1>1. /\ phase = "snapshot" /\ phase' = "poses" /\ result # "pending"
      /\ call.number < MaxCalls /\ call'.number = call.number + 1
      /\ call'.kind = "snapshot" /\ result' = "pending"
      /\ job' \in Seq(EntitiesOf["snapshot"])
      /\ at' = [at EXCEPT !.tick = tick]
      /\ UNCHANGED <<rows, leg, tick, trail, path, travelled>>
  BY SnapshotEntities DEF LogRun, RunSnapshotAt, Begin, Idle
<1>2. at'.tick = tick /\ at'.run = Unset /\ at' = [tick |-> at'.tick, run |-> at'.run]
  BY <1>1 DEF EpisodeInvariant, CallOfPhase
<1>3. path # <<>> /\ tick \in Nat
  BY <1>1 DEF EpisodeInvariant, Progress
<1>4. CallOfPhase'
  BY <1>1, <1>2, <1>3 DEF EpisodeInvariant, CallOfPhase
<1>5. RowsOfCalls'
  BY <1>1, NewCallKeepsRows DEF EpisodeInvariant, CallOfPhase
<1>6. RowsOfTicks'
  <2>1. \A r \in rows : r.time.tick = tick => KindOf(r.entity) = "frame"
    BY <1>1, <1>3 DEF EpisodeInvariant, RowsOfTicks, LoggedAtTick
  <2>2. LoggedAtTick' = {"frame", "snapshot"}
    BY <1>1, <1>3 DEF LoggedAtTick
  <2> QED BY <1>1, <1>2, <1>3, <2>1, <2>2 DEF EpisodeInvariant, RowsOfTicks
<1>7. Progress' /\ TrailFits' /\ PosesFit'
  BY <1>1 DEF EpisodeInvariant, Progress, TrailFits, PosesFit, LastOf
<1>8. RoutesFit'
  BY <1>1 DEF EpisodeInvariant, RoutesFit, HasRoute
<1> QED BY <1>4, <1>5, <1>6, <1>7, <1>8 DEF EpisodeInvariant

(* Pushing a pose keeps the last ones, MaxTrail at most.                      *)
LEMMA PushKeepsTheLast ==
  ASSUME Progress, TrailFits, NEW pose \in Poses,
         travelled' = Append(travelled, pose), trail' = Push(pose)
  PROVE  /\ trail' \in Seq(Poses) /\ Len(trail') <= MaxTrail
         /\ Len(trail') = IF tick + 1 < MaxTrail THEN tick + 1 ELSE MaxTrail
         /\ \A i \in 1 .. Len(trail') : trail'[i] = travelled'[tick + 1 - Len(trail') + i]
<1> USE RerunAssumption
<1>1. /\ travelled \in Seq(Poses) /\ trail \in Seq(Poses) /\ tick = Len(travelled)
      /\ Len(trail) = IF tick < MaxTrail THEN tick ELSE MaxTrail
      /\ \A i \in 1 .. Len(trail) : trail[i] = travelled[tick - Len(trail) + i]
  BY DEF Progress, TrailFits, LastOf
<1>2. /\ Len(travelled') = tick + 1
      /\ \A i \in 1 .. tick : travelled'[i] = travelled[i]
      /\ travelled'[tick + 1] = pose
  BY <1>1
<1>3. CASE Len(trail) = MaxTrail
  <2>1. trail' = Append(Tail(trail), pose)
    BY <1>3 DEF Push
  <2>2. trail # <<>> /\ Tail(trail) \in Seq(Poses) /\ Len(Tail(trail)) = MaxTrail - 1
        /\ \A i \in 1 .. MaxTrail - 1 : Tail(trail)[i] = trail[i + 1]
    BY <1>1, <1>3, HeadTailProperties
  <2>3. /\ trail' \in Seq(Poses) /\ Len(trail') = MaxTrail
        /\ \A i \in 1 .. MaxTrail - 1 : trail'[i] = trail[i + 1]
        /\ trail'[MaxTrail] = pose
    BY <2>1, <2>2
  <2>4. tick >= MaxTrail /\ tick \in Nat
    BY <1>1, <1>3
  <2>5. \A i \in 1 .. MaxTrail : trail'[i] = travelled'[tick + 1 - MaxTrail + i]
    <3> TAKE i \in 1 .. MaxTrail
    <3>1. CASE i = MaxTrail
      BY <1>2, <2>3, <2>4, <3>1
    <3>2. CASE i # MaxTrail
      <4>3. i \in 1 .. MaxTrail - 1 /\ i + 1 \in 1 .. Len(trail)
        BY <1>3, <3>2
      <4>1. trail'[i] = travelled[tick - MaxTrail + (i + 1)]
        BY <1>1, <1>3, <2>3, <4>3
      <4>2. tick - MaxTrail + (i + 1) = tick + 1 - MaxTrail + i /\ tick + 1 - MaxTrail + i \in 1 .. tick
        BY <2>4, <3>2
      <4> QED BY <1>2, <4>1, <4>2
    <3> QED BY <3>1, <3>2
  <2>6. MaxTrail = IF tick + 1 < MaxTrail THEN tick + 1 ELSE MaxTrail
    BY <2>4
  <2>7. \A i \in 1 .. Len(trail') : trail'[i] = travelled'[tick + 1 - Len(trail') + i]
    BY <2>3, <2>5, Zenon
  <2>8. Len(trail') <= MaxTrail
    BY <2>3
  <2>9. Len(trail') = IF tick + 1 < MaxTrail THEN tick + 1 ELSE MaxTrail
    BY <2>3, <2>6, Zenon
  <2> QED BY <2>3, <2>7, <2>8, <2>9, Zenon
<1>4. CASE Len(trail) # MaxTrail
  <2>1. trail' = Append(trail, pose) /\ Len(trail) = tick /\ tick < MaxTrail
    BY <1>1, <1>4 DEF Push
  <2> QED BY <1>1, <1>2, <2>1, SMTT(30)
<1> QED BY <1>3, <1>4

(* What was travelled stays as it is.                                         *)
LEMMA EarlierPosesStay ==
  ASSUME Progress, NEW pose \in Poses, travelled' = Append(travelled, pose),
         NEW n \in 0 .. tick, NEW seq, LastOf(seq, n)
  PROVE  LastOf(seq, n)'
<1>1. /\ travelled \in Seq(Poses) /\ tick = Len(travelled)
      /\ \A i \in 1 .. tick : travelled'[i] = travelled[i]
  BY DEF Progress
<1>2. Len(seq) \in 0 .. n
  BY <1>1, RerunAssumption DEF LastOf
<1>3. \A i \in 1 .. Len(seq) : n - Len(seq) + i \in 1 .. tick
  BY <1>1, <1>2
<1> QED BY <1>1, <1>3 DEF LastOf

LEMMA LogPoseKeeps ==
  ASSUME EpisodeInvariant, LogPose
  PROVE  EpisodeInvariant'
<1> USE RerunAssumption, EpisodeAssumption
<1> DEFINE pose == Head(path)
<1>0. Progress /\ TrailFits
  BY DEF EpisodeInvariant
<1>1. /\ phase = "poses" /\ path # <<>> /\ phase' = phase /\ leg' = leg
      /\ travelled' = Append(travelled, pose) /\ trail' = Push(pose)
      /\ path' = Tail(path) /\ tick' = tick + 1
  BY DEF LogPose, NextTick
<1>2. /\ pose \in Poses /\ pose[1] = leg /\ path' \in Seq(Poses)
      /\ \A i \in 1 .. Len(path') : path'[i][1] = leg
  <2>1. path \in Seq(Poses) /\ \A i \in 1 .. Len(path) : path[i][1] = leg
    BY <1>0, <1>1 DEF Progress
  <2>2. /\ Head(path) \in Poses /\ Tail(path) \in Seq(Poses) /\ Len(Tail(path)) = Len(path) - 1
        /\ \A i \in 1 .. Len(Tail(path)) : Tail(path)[i] = path[i + 1]
    BY <1>1, <2>1, HeadTailProperties
  <2>3. Head(path) = path[1] /\ Len(path) >= 1
    BY <1>1, <2>1
  <2> QED BY <1>1, <2>1, <2>2, <2>3
<1> HIDE DEF pose
<1>3. /\ trail' \in Seq(Poses) /\ Len(trail') <= MaxTrail
      /\ Len(trail') = IF tick + 1 < MaxTrail THEN tick + 1 ELSE MaxTrail
      /\ \A i \in 1 .. Len(trail') : trail'[i] = travelled'[tick + 1 - Len(trail') + i]
  BY <1>0, <1>1, <1>2, PushKeepsTheLast
<1>4. /\ travelled \in Seq(Poses) /\ tick = Len(travelled) /\ tick \in Nat
      /\ travelled' \in Seq(Poses) /\ Len(travelled') = tick + 1
      /\ \A i \in 1 .. tick : travelled'[i] = travelled[i]
      /\ travelled'[tick + 1] = pose
  BY <1>0, <1>1, <1>2 DEF Progress
<1>5. /\ result # "pending" /\ call.number < MaxCalls
      /\ call' = [number |-> call.number + 1, kind |-> "pose",
                  data |-> [pose |-> pose, trail |-> trail']]
      /\ at' = [at EXCEPT !.tick = tick] /\ result' = "pending"
      /\ job' = <<RobotPose, RecentTrail>> /\ rows' = rows
  <2>1. ~ (Len(Push(pose)) > MaxTrail)
    BY <1>1, <1>3
  <2> QED BY <1>1, <2>1 DEF LogPose, NavigationPoseAt, Begin, Idle, pose, RobotPose, RecentTrail
<1>6. at'.tick = tick /\ at'.run = Unset /\ at' = [tick |-> at'.tick, run |-> at'.run]
  BY <1>5 DEF EpisodeInvariant, CallOfPhase
<1>7. CallOfPhase'
  <2>1. job' \in Seq(EntitiesOf["pose"])
    BY <1>5, EntitiesOfCalls
  <2>2. call'.number \in 0 .. MaxCalls /\ call'.kind = "pose"
        /\ call'.data = [pose |-> travelled'[tick'], trail |-> trail']
    BY <1>1, <1>4, <1>5 DEF EpisodeInvariant, CallOfPhase
  <2>3. tick' >= 1 /\ at'.tick = tick' - 1
    BY <1>1, <1>4, <1>6
  <2> QED BY <1>1, <1>5, <1>6, <2>1, <2>2, <2>3 DEF CallOfPhase
<1>8. RowsOfCalls'
  BY <1>5, NewCallKeepsRows DEF EpisodeInvariant, CallOfPhase
<1>9. RowsOfTicks'
  <2>1. \A r \in rows : r.time.tick = tick => KindOf(r.entity) # "pose"
    BY <1>4 DEF EpisodeInvariant, RowsOfTicks, LoggedAtTick
  <2>2. \A r \in rows : r.time.tick # Unset => r.time.tick \in 0 .. tick' /\ r.time.tick # tick'
    BY <1>1, <1>4 DEF EpisodeInvariant, RowsOfTicks
  <2> QED BY <1>5, <1>6, <2>1, <2>2 DEF EpisodeInvariant, RowsOfTicks
<1>10. Progress'
  <2>1. \A i \in 1 .. Len(travelled') : travelled'[i][1] <= leg
    <3> TAKE i \in 1 .. Len(travelled')
    <3>1. CASE i = tick + 1
      BY <1>0, <1>2, <1>4, <3>1 DEF Progress
    <3>2. CASE i # tick + 1
      BY <1>0, <1>4, <3>2 DEF Progress
    <3> QED BY <3>1, <3>2
  <2> QED BY <1>0, <1>1, <1>2, <1>3, <1>4, <2>1 DEF Progress
<1>11. TrailFits'
  <2>1. tick' = tick + 1
    BY <1>1
  <2>2. Len(trail') = IF tick' < MaxTrail THEN tick' ELSE MaxTrail
    BY <1>3, <2>1, Zenon
  <2>3. \A i \in 1 .. Len(trail') : trail'[i] = travelled'[tick' - Len(trail') + i]
    <3> TAKE i \in 1 .. Len(trail')
    <3>1. trail'[i] = travelled'[tick + 1 - Len(trail') + i]
      BY <1>3
    <3>2. tick' - Len(trail') + i = tick + 1 - Len(trail') + i
      BY <1>3, <1>4, <2>1
    <3> QED BY <3>1, <3>2, Zenon
  <2> QED BY <1>3, <2>2, <2>3, Zenon DEF TrailFits, LastOf
<1>12. PosesFit'
  <2> SUFFICES ASSUME NEW r \in rows, r.entity \in {RobotPose, RecentTrail}
               PROVE  /\ r.time.tick \in Nat /\ r.time.tick < tick'
                      /\ r.data.pose = travelled'[r.time.tick + 1]
                      /\ LastOf(r.data.trail, r.time.tick + 1)'
    BY <1>5 DEF PosesFit
  <2>1. /\ r.time.tick \in Nat /\ r.time.tick < tick
        /\ r.data.pose = travelled[r.time.tick + 1]
        /\ LastOf(r.data.trail, r.time.tick + 1)
    BY DEF EpisodeInvariant, PosesFit
  <2>2. r.time.tick + 1 \in 1 .. tick
    BY <1>4, <2>1
  <2>3. LastOf(r.data.trail, r.time.tick + 1)'
    BY <1>0, <1>1, <1>2, <2>1, <2>2, EarlierPosesStay
  <2> QED BY <1>1, <1>4, <2>1, <2>2, <2>3
<1>13. RoutesFit'
  <2>1. ASSUME NEW f \in rows, f.entity = RawPath
        PROVE  /\ f.time.tick \in 0 .. tick'
               /\ f.data \in 0 .. leg
               /\ \A i \in 1 .. Len(travelled') :
                    /\ i <= f.time.tick => travelled'[i][1] < f.data
                    /\ i > f.time.tick => travelled'[i][1] >= f.data
    <3>1. /\ f.time.tick \in 0 .. tick /\ f.data \in 0 .. leg
          /\ \A i \in 1 .. tick :
               /\ i <= f.time.tick => travelled[i][1] < f.data
               /\ i > f.time.tick => travelled[i][1] >= f.data
      BY <1>4, <2>1 DEF EpisodeInvariant, RoutesFit
    <3>2. leg \in Nat /\ travelled'[tick + 1][1] >= f.data
      BY <1>0, <1>2, <1>4, <3>1 DEF Progress
    <3>3. \A i \in 1 .. tick :
               /\ i <= f.time.tick => travelled'[i][1] < f.data
               /\ i > f.time.tick => travelled'[i][1] >= f.data
      BY <1>4, <3>1
    <3>4. \A i \in 1 .. tick + 1 : i \in 1 .. tick \/ (i = tick + 1 /\ i > f.time.tick)
      BY <1>4, <3>1
    <3>5. f.time.tick \in 0 .. tick'
      BY <1>1, <1>4, <3>1
    <3> QED BY <1>4, <3>1, <3>2, <3>3, <3>4, <3>5
  <2>2. HasRoute(leg, tick)
    BY <1>1 DEF EpisodeInvariant, RoutesFit
  <2>3. \A i \in 1 .. Len(travelled') : HasRoute(travelled'[i][1], i - 1)
    <3> TAKE i \in 1 .. Len(travelled')
    <3>1. CASE i = tick + 1
      BY <1>2, <1>4, <2>2, <3>1
    <3>2. CASE i # tick + 1
      <4>1. i \in 1 .. Len(travelled) /\ travelled'[i] = travelled[i]
        BY <1>4, <3>2
      <4> QED BY <4>1 DEF EpisodeInvariant, RoutesFit
    <3> QED BY <3>1, <3>2
  <2>4. HasRoute(leg, tick + 1)
    <3>1. 0 .. tick \subseteq 0 .. tick + 1
      BY <1>4
    <3> QED BY <2>2, <3>1 DEF HasRoute
  <2> QED BY <1>1, <1>5, <2>1, <2>3, <2>4 DEF RoutesFit, HasRoute
<1> QED BY <1>7, <1>8, <1>9, <1>10, <1>11, <1>12, <1>13 DEF EpisodeInvariant

LEMMA EndLegKeeps ==
  ASSUME EpisodeInvariant, EndLeg
  PROVE  EpisodeInvariant'
<1> USE RerunAssumption, EpisodeAssumption
<1>1. /\ phase = "poses" /\ path = <<>> /\ result # "pending"
      /\ phase' \in {"run", "end"}
      /\ UNCHANGED <<rows, at, call, job, result, leg, tick, trail, path, travelled>>
  BY DEF EndLeg, Idle, adapterVars
<1>2. CallOfPhase' /\ RowsOfCalls'
  BY <1>1 DEF EpisodeInvariant, CallOfPhase, RowsOfCalls
<1>3. RowsOfTicks'
  <2>1. LoggedAtTick = {}
    BY <1>1 DEF LoggedAtTick
  <2> QED BY <1>1, <2>1 DEF EpisodeInvariant, RowsOfTicks
<1>4. Progress' /\ TrailFits' /\ PosesFit'
  BY <1>1 DEF EpisodeInvariant, Progress, TrailFits, PosesFit, LastOf
<1>5. RoutesFit'
  BY <1>1 DEF EpisodeInvariant, RoutesFit, HasRoute
<1> QED BY <1>2, <1>3, <1>4, <1>5 DEF EpisodeInvariant

(* The end of a call: its route, if it was to log one, is logged.              *)
LEMMA FinishKeeps ==
  ASSUME EpisodeInvariant, Finish, UNCHANGED episodeVars
  PROVE  EpisodeInvariant'
<1>1. /\ result = "pending" /\ job = <<>> /\ result' = "delivered"
      /\ UNCHANGED <<rows, at, call, job, phase, leg, tick, trail, path, travelled>>
  BY DEF Finish, episodeVars
<1>2. CallOfPhase' /\ RowsOfCalls'
  BY <1>1 DEF EpisodeInvariant, CallOfPhase, RowsOfCalls
<1>3. RowsOfTicks'
  BY <1>1 DEF EpisodeInvariant, RowsOfTicks, LoggedAtTick
<1>4. Progress' /\ TrailFits' /\ PosesFit'
  BY <1>1 DEF EpisodeInvariant, Progress, TrailFits, PosesFit, LastOf
<1>5. RoutesFit'
  BY <1>1 DEF EpisodeInvariant, RoutesFit, HasRoute
<1> QED BY <1>2, <1>3, <1>4, <1>5 DEF EpisodeInvariant

LEMMA EpisodeFailureKeeps ==
  ASSUME EpisodeInvariant, AdapterFails
  PROVE  EpisodeInvariant'
<1>1. /\ result' = "error" /\ phase' = "end"
      /\ UNCHANGED <<rows, at, call, leg, tick, trail, path, travelled>>
  BY DEF AdapterFails, Fail
<1>2. CallOfPhase' /\ RowsOfCalls'
  BY <1>1 DEF EpisodeInvariant, CallOfPhase, RowsOfCalls
<1>3. RowsOfTicks'
  BY <1>1 DEF EpisodeInvariant, RowsOfTicks, LoggedAtTick
<1>4. Progress' /\ TrailFits' /\ PosesFit'
  BY <1>1 DEF EpisodeInvariant, Progress, TrailFits, PosesFit, LastOf
<1>5. RoutesFit'
  BY <1>1 DEF EpisodeInvariant, RoutesFit, HasRoute
<1> QED BY <1>2, <1>3, <1>4, <1>5 DEF EpisodeInvariant

(* A row: of the entity, the call and the tick that are due.                   *)
LEMMA LogRowKeeps ==
  ASSUME EpisodeInvariant, LogRow, UNCHANGED episodeVars
  PROVE  EpisodeInvariant'
<1> USE RerunAssumption, EpisodeAssumption
<1> DEFINE row == [entity |-> Head(job), call |-> call.number, data |-> call.data,
                   time |-> IF IsStatic THEN Untimed ELSE at]
<1>1. /\ result = "pending" /\ job # <<>> /\ job' = Tail(job)
      /\ rows' = rows \cup {row}
      /\ UNCHANGED <<at, call, result, phase, leg, tick, trail, path, travelled>>
  BY DEF LogRow, episodeVars
<1>2. /\ row.entity = Head(job) /\ row.call = call.number /\ row.data = call.data
      /\ row = [entity |-> row.entity, call |-> row.call, data |-> row.data, time |-> row.time]
      /\ row.time = IF IsStatic THEN Untimed ELSE at
  OBVIOUS
<1> HIDE DEF row
<1>3. /\ Head(job) \in EntitiesOf[call.kind]
      /\ Tail(job) \in Seq(EntitiesOf[call.kind])
  BY <1>1, HeadTailProperties DEF EpisodeInvariant, CallOfPhase
<1>4. /\ \/ call.kind \in {"description", "map"} /\ row.time.tick = Unset
         \/ call.kind \in TimedKind /\ row.time = at /\ KindOf(row.entity) = call.kind
      /\ call.kind \notin {"frame", "pose"} => row.entity \notin {RawPath, RobotPose, RecentTrail}
  <2>1. call.kind \in {"description", "map"} \cup TimedKind
    BY <1>1 DEF EpisodeInvariant, CallOfPhase, TimedKind
  <2>2. row.time.tick = Unset \/ ~ IsStatic
    BY <1>2 DEF Untimed
  <2> QED BY <1>2, <1>3, <2>1, <2>2, EntityTellsKind DEF IsStatic, TimedKind
<1>5. CallOfPhase'
  BY <1>1, <1>3 DEF EpisodeInvariant, CallOfPhase
<1>6. RowsOfCalls'
  <2>1. row.call \in 0 .. call.number
    BY <1>2 DEF EpisodeInvariant, CallOfPhase
  <2> QED BY <1>1, <1>2, <2>1 DEF EpisodeInvariant, RowsOfCalls
<1>7. \/ call.kind = "frame" /\ at.tick = tick /\ phase = "snapshot" /\ call.data = leg
      \/ call.kind = "snapshot" /\ at.tick = tick /\ phase = "poses" /\ path # <<>>
      \/ /\ call.kind = "pose" /\ tick >= 1 /\ at.tick = tick - 1
         /\ call.data = [pose |-> travelled[tick], trail |-> trail]
      \/ call.kind \in {"description", "map"}
  BY <1>1 DEF EpisodeInvariant, CallOfPhase
<1>8. tick \in Nat /\ tick = Len(travelled) /\ leg \in Nat
  BY DEF EpisodeInvariant, Progress
<1>9. RowsOfTicks'
  <2>1. row.time.tick # Unset =>
          /\ row.time.tick \in 0 .. tick
          /\ row.time.tick = tick => KindOf(row.entity) \in LoggedAtTick
    BY <1>4, <1>7, <1>8 DEF LoggedAtTick, TimedKind
  <2>2. \A r \in rows' : r.time.tick # Unset =>
          /\ r.time.tick \in 0 .. tick
          /\ r.time.tick = tick => KindOf(r.entity) \in LoggedAtTick
    BY <1>1, <2>1 DEF EpisodeInvariant, RowsOfTicks
  <2>3. call.kind \in TimedKind =>
          \A r \in rows' : r.time.tick = at.tick /\ KindOf(r.entity) = call.kind =>
            r.call = call.number
    BY <1>1, <1>2 DEF EpisodeInvariant, RowsOfTicks
  <2>4. row.time.tick # Unset =>
          \A r \in rows : r.entity = row.entity /\ r.time.tick = row.time.tick => r.call = row.call
    BY <1>1, <1>2, <1>4, <2>3
  <2>5. \A r, s \in rows' :
          r.entity = s.entity /\ r.time.tick = s.time.tick /\ r.time.tick # Unset =>
            r.call = s.call
    BY <1>1, <2>4 DEF EpisodeInvariant, RowsOfTicks
  <2> QED BY <1>1, <2>2, <2>3, <2>5 DEF RowsOfTicks, LoggedAtTick
<1>10. Progress' /\ TrailFits'
  BY <1>1 DEF EpisodeInvariant, Progress, TrailFits, LastOf
<1>11. PosesFit'
  <2>1. row.entity \in {RobotPose, RecentTrail} =>
          /\ row.time.tick \in Nat /\ row.time.tick < tick
          /\ row.data.pose = travelled[row.time.tick + 1]
          /\ LastOf(row.data.trail, row.time.tick + 1)
    <3> HAVE row.entity \in {RobotPose, RecentTrail}
    <3>1. KindOf(row.entity) = "pose"
      BY DEF KindOf
    <3>2. call.kind = "pose"
      BY <1>4, <1>7, <3>1 DEF TimedKind
    <3>3. /\ row.time.tick = tick - 1 /\ tick >= 1
          /\ row.data.pose = travelled[tick] /\ row.data.trail = trail
      BY <1>2, <1>4, <1>7, <3>2
    <3>4. row.time.tick + 1 = tick /\ row.time.tick \in Nat /\ row.time.tick < tick
      BY <1>8, <3>3
    <3>5. LastOf(trail, tick)
      BY DEF EpisodeInvariant, TrailFits
    <3> QED BY <3>3, <3>4, <3>5
  <2> QED BY <1>1, <2>1 DEF EpisodeInvariant, PosesFit, LastOf
<1>12. RoutesFit'
  <2>1. row.entity = RawPath =>
          call.kind = "frame" /\ row.time.tick = tick /\ row.data = leg /\ phase = "snapshot"
    <3> HAVE row.entity = RawPath
    <3>1. KindOf(row.entity) = "frame"
      BY DEF KindOf, RawPath, RobotPose, RecentTrail, Navigation
    <3> QED BY <1>2, <1>4, <1>7, <3>1 DEF TimedKind
  <2>2. phase = "snapshot" => \A i \in 1 .. Len(travelled) : travelled[i][1] < leg
    BY DEF EpisodeInvariant, Progress
  <2>3. \A f \in rows' : f.entity = RawPath =>
          /\ f.time.tick \in 0 .. tick
          /\ f.data \in 0 .. leg
          /\ \A i \in 1 .. Len(travelled) :
               /\ i <= f.time.tick => travelled[i][1] < f.data
               /\ i > f.time.tick => travelled[i][1] >= f.data
    <3> SUFFICES ASSUME NEW f \in rows', f.entity = RawPath
                 PROVE  /\ f.time.tick \in 0 .. tick
                        /\ f.data \in 0 .. leg
                        /\ \A i \in 1 .. Len(travelled) :
                             /\ i <= f.time.tick => travelled[i][1] < f.data
                             /\ i > f.time.tick => travelled[i][1] >= f.data
      OBVIOUS
    <3>1. CASE f \in rows
      BY <3>1 DEF EpisodeInvariant, RoutesFit
    <3>2. CASE f = row
      BY <1>8, <2>1, <2>2, <3>2
    <3> QED BY <1>1, <3>1, <3>2
  <2>5. phase = "snapshot" =>
           \/ HasRoute(leg, tick)'
           \/ result = "pending" /\ call.kind = "frame" /\ job' # <<>> /\ Head(job') = RawPath
    <3> HAVE phase = "snapshot"
    <3>1. CASE HasRoute(leg, tick)
      <4>1. PICK f \in rows : f.entity = RawPath /\ f.data = leg /\ f.time.tick \in 0 .. tick
        BY <3>1 DEF HasRoute
      <4> QED BY <1>1, <4>1 DEF HasRoute
    <3>2. CASE Head(job) = RawPath
      <4>1. row.data = leg /\ row.time.tick \in 0 .. tick /\ row.entity = RawPath /\ row \in rows'
        BY <1>1, <1>2, <1>8, <2>1, <3>2
      <4> QED BY <1>1, <4>1 DEF HasRoute
    <3> QED BY <3>1, <3>2 DEF EpisodeInvariant, RoutesFit
  <2>6. phase = "poses" => HasRoute(leg, tick)'
    <3> HAVE phase = "poses"
    <3>1. PICK f \in rows : f.entity = RawPath /\ f.data = leg /\ f.time.tick \in 0 .. tick
      BY DEF EpisodeInvariant, RoutesFit, HasRoute
    <3> QED BY <1>1, <3>1 DEF HasRoute
  <2>7. \A i \in 1 .. Len(travelled) : HasRoute(travelled[i][1], i - 1)'
    <3> SUFFICES ASSUME NEW i \in 1 .. Len(travelled)
                 PROVE  HasRoute(travelled[i][1], i - 1)'
      OBVIOUS
    <3>1. PICK f \in rows : /\ f.entity = RawPath /\ f.data = travelled[i][1]
                            /\ f.time.tick \in 0 .. i - 1
      BY DEF EpisodeInvariant, RoutesFit, HasRoute
    <3> QED BY <1>1, <3>1 DEF HasRoute
  <2> QED BY <1>1, <2>3, <2>5, <2>6, <2>7 DEF RoutesFit
<1> QED BY <1>5, <1>6, <1>9, <1>10, <1>11, <1>12 DEF EpisodeInvariant

LEMMA EpisodeStepKeeps ==
  ASSUME EpisodeInvariant, [EpisodeNext]_<<adapterVars, episodeVars>>
  PROVE  EpisodeInvariant'
<1>1. ASSUME UNCHANGED <<adapterVars, episodeVars>>
      PROVE  EpisodeInvariant'
  <2>1. /\ UNCHANGED <<rows, at, call, job, result>>
        /\ UNCHANGED <<phase, leg, tick, trail, path, travelled>>
    BY <1>1 DEF adapterVars, episodeVars
  <2>2. CallOfPhase' /\ RowsOfCalls'
    BY <2>1 DEF EpisodeInvariant, CallOfPhase, RowsOfCalls
  <2>3. RowsOfTicks'
    BY <2>1 DEF EpisodeInvariant, RowsOfTicks, LoggedAtTick
  <2>4. Progress' /\ TrailFits' /\ PosesFit'
    BY <2>1 DEF EpisodeInvariant, Progress, TrailFits, PosesFit, LastOf
  <2>5. RoutesFit'
    BY <2>1 DEF EpisodeInvariant, RoutesFit, HasRoute
  <2> QED BY <2>2, <2>3, <2>4, <2>5 DEF EpisodeInvariant
<1> QED BY <1>1, DescribeKeeps, LogMapKeeps, RunLegKeeps, LogFrameKeeps, LogRunKeeps,
           LogPoseKeeps, EndLegKeeps, LogRowKeeps, FinishKeeps, EpisodeFailureKeeps
        DEF EpisodeNext, AdapterStep
------------------------------------------------------------------------------
(* What the invariant says of a recording that is looked at.                   *)

(* The trail of a row as the property puts it.                                *)
LEMMA LastAsSubSeq ==
  ASSUME Progress, NEW n \in 1 .. tick, NEW seq, LastOf(seq, n)
  PROVE  LET upTo == SubSeq(travelled, 1, n)
             size == IF Len(upTo) < MaxTrail THEN Len(upTo) ELSE MaxTrail
         IN  /\ seq = SubSeq(upTo, Len(upTo) - size + 1, Len(upTo))
             /\ Last(upTo) = travelled[n]
<1> USE RerunAssumption
<1> DEFINE upTo == SubSeq(travelled, 1, n)
           size == IF Len(upTo) < MaxTrail THEN Len(upTo) ELSE MaxTrail
<1>1. travelled \in Seq(Poses) /\ tick = Len(travelled) /\ n \in Nat /\ n >= 1
  BY DEF Progress
<1>2. upTo \in Seq(Poses) /\ Len(upTo) = n /\ \A i \in 1 .. n : upTo[i] = travelled[i]
  <2>1. \A i \in 1 .. n : travelled[i] \in Poses
    BY <1>1
  <2>2. 1 \in Int /\ n \in Int
    BY <1>1
  <2>3. /\ upTo \in Seq(Poses) /\ Len(upTo) = IF 1 <= n THEN n - 1 + 1 ELSE 0
        /\ \A i \in 1 .. n - 1 + 1 : upTo[i] = travelled[1 + i - 1]
    BY <2>1, <2>2, SubSeqProperties
  <2> QED BY <1>1, <2>3
<1> HIDE DEF upTo
<1>3. Len(seq) = size /\ size \in 0 .. n /\ seq \in Seq(Poses)
  BY <1>1, <1>2 DEF LastOf
<1> HIDE DEF size
<1> DEFINE last == SubSeq(upTo, Len(upTo) - size + 1, Len(upTo))
<1>4. /\ last \in Seq(Poses) /\ Len(last) = size
      /\ \A i \in 1 .. size : last[i] = upTo[n - size + i]
  <2>1. n - size + 1 \in Int /\ n \in Int /\ n - size + 1 >= 1
    BY <1>1, <1>3
  <2>2. \A i \in n - size + 1 .. n : upTo[i] \in Poses
    BY <1>2, <1>3
  <2>3. /\ SubSeq(upTo, n - size + 1, n) \in Seq(Poses)
        /\ Len(SubSeq(upTo, n - size + 1, n)) =
             IF n - size + 1 <= n THEN n - (n - size + 1) + 1 ELSE 0
        /\ \A i \in 1 .. n - (n - size + 1) + 1 :
             SubSeq(upTo, n - size + 1, n)[i] = upTo[n - size + 1 + i - 1]
    BY <2>1, <2>2, SubSeqProperties
  <2>4. last = SubSeq(upTo, n - size + 1, n)
    BY <1>2
  <2> HIDE DEF last
  <2>5. n - (n - size + 1) + 1 = size /\ (~ (n - size + 1 <= n) => size = 0)
    BY <1>1, <1>3
  <2>6. \A i \in 1 .. size : n - size + 1 + i - 1 = n - size + i
    BY <1>1, <1>3
  <2> QED BY <2>3, <2>4, <2>5, <2>6
<1>5. \A i \in 1 .. size : seq[i] = last[i]
  <2> TAKE i \in 1 .. size
  <2>1. seq[i] = travelled[n - size + i] /\ n - size + i \in 1 .. n
    BY <1>1, <1>3 DEF LastOf
  <2> QED BY <1>2, <1>4, <2>1
<1> HIDE DEF last
<1>6. seq = last
  BY <1>3, <1>4, <1>5, SeqEqual
<1>7. Last(upTo) = travelled[n]
  BY <1>1, <1>2 DEF Last
<1> QED BY <1>6, <1>7 DEF last, size, upTo

LEMMA EpisodeShows ==
  ASSUME EpisodeInvariant
  PROVE  EpisodeInv
<1> USE RerunAssumption, EpisodeAssumption
<1>0. /\ tick \in Nat /\ tick = Len(travelled) /\ leg \in Nat
  BY DEF EpisodeInvariant, Progress
<1>1. EpisodeTypeOK
  <2>1. Len(trail) <= MaxTrail
    BY <1>0 DEF EpisodeInvariant, TrailFits, LastOf
  <2> QED BY <1>0, <2>1 DEF EpisodeInvariant, CallOfPhase, Progress, EpisodeTypeOK
<1>2. TrailIsRecent
  <2> SUFFICES ASSUME NEW r \in rows, r.entity = Navigation("recent_pose_trail")
               PROVE  LET upTo == SubSeq(travelled, 1, r.time.tick + 1)
                          size == IF Len(upTo) < MaxTrail THEN Len(upTo) ELSE MaxTrail
                      IN  /\ r.time.tick < Len(travelled)
                          /\ r.data.trail = SubSeq(upTo, Len(upTo) - size + 1, Len(upTo))
                          /\ r.data.pose = Last(upTo)
    BY DEF TrailIsRecent
  <2>1. /\ r.time.tick \in Nat /\ r.time.tick < tick
        /\ r.data.pose = travelled[r.time.tick + 1]
        /\ LastOf(r.data.trail, r.time.tick + 1)
    BY DEF EpisodeInvariant, PosesFit, RecentTrail
  <2>2. r.time.tick + 1 \in 1 .. tick /\ Progress
    BY <1>0, <2>1 DEF EpisodeInvariant
  <2> QED BY <1>0, <2>1, <2>2, LastAsSubSeq
<1>3. ASSUME NEW r \in rows, r.entity = Navigation("robot_pose"),
             NEW shown \in ShownAt(Navigation("raw_path"), r.time.tick)
      PROVE  shown.data = r.data.pose[1]
  <2> DEFINE t == r.time.tick
             number == travelled[t + 1][1]
  <2>1. t \in Nat /\ t < tick /\ r.data.pose = travelled[t + 1]
    BY <1>3 DEF EpisodeInvariant, PosesFit, RobotPose
  <2>2. /\ shown \in rows /\ shown.entity = RawPath /\ shown.time.tick # Unset
        /\ shown.time.tick <= t
        /\ \A s \in rows : s.entity = RawPath /\ s.time.tick # Unset /\ s.time.tick <= t =>
             \/ s.time.tick < shown.time.tick
             \/ s.time.tick = shown.time.tick /\ s.call <= shown.call
    BY <1>3 DEF ShownAt, RawPath
  <2>3. t + 1 \in 1 .. Len(travelled)
    BY <1>0, <2>1
  <2>4. /\ shown.time.tick \in Nat /\ shown.data \in Nat
        /\ \A i \in 1 .. Len(travelled) :
             /\ i <= shown.time.tick => travelled[i][1] < shown.data
             /\ i > shown.time.tick => travelled[i][1] >= shown.data
    BY <1>0, <2>2 DEF EpisodeInvariant, RoutesFit
  <2>5. PICK f \in rows : f.entity = RawPath /\ f.data = number /\ f.time.tick \in 0 .. t
    <3>1. \A i \in 1 .. Len(travelled) :
            \E f \in rows : /\ f.entity = RawPath /\ f.data = travelled[i][1]
                            /\ f.time.tick \in 0 .. i - 1
      BY DEF EpisodeInvariant, RoutesFit, HasRoute
    <3>2. PICK i \in 1 .. Len(travelled) : i = t + 1
      BY <2>3
    <3>3. i - 1 = t
      BY <2>1, <3>2
    <3>4. PICK f \in rows : /\ f.entity = RawPath /\ f.data = travelled[i][1]
                            /\ f.time.tick \in 0 .. i - 1
      BY <3>1, Zenon
    <3> QED BY <3>2, <3>3, <3>4
  <2>6. f.time.tick \in Nat /\ f.time.tick <= t /\ f.time.tick # Unset
    BY <2>1, <2>5
  <2>7. \A i \in 1 .. Len(travelled) : i > f.time.tick => travelled[i][1] >= number
    BY <2>5 DEF EpisodeInvariant, RoutesFit
  <2>8. number \in Nat /\ number >= shown.data
    <3>1. number \in Nat
      <4>1. travelled \in Seq(Poses)
        BY DEF EpisodeInvariant, Progress
      <4>2. travelled[t + 1] \in Poses
        BY <2>3, <4>1, ElementOfSeq
      <4> QED BY <4>2 DEF Poses
    <3>2. t + 1 > shown.time.tick
      BY <2>1, <2>2, <2>4
    <3> QED BY <2>3, <2>4, <3>1, <3>2
  <2>9. CASE f.time.tick < shown.time.tick
    <3> DEFINE i == f.time.tick + 1
    <3>1. i \in 1 .. Len(travelled) /\ i <= shown.time.tick /\ i > f.time.tick
      BY <1>0, <2>1, <2>2, <2>4, <2>6, <2>9
    <3> HIDE DEF i
    <3>2. travelled[i][1] < shown.data /\ travelled[i][1] >= number
      BY <2>4, <2>7, <3>1
    <3>3. travelled[i][1] \in Nat
      BY <3>1 DEF EpisodeInvariant, Progress, Poses
    <3> QED BY <2>4, <2>8, <3>2, <3>3
  <2>10. CASE f.time.tick = shown.time.tick
    <3>1. f.call = shown.call
      BY <2>2, <2>5, <2>10 DEF EpisodeInvariant, RowsOfTicks
    <3> QED BY <2>1, <2>2, <2>5, <3>1 DEF EpisodeInvariant, RowsOfCalls
  <2> QED BY <2>2, <2>5, <2>6, <2>9, <2>10
<1>4. \A r, s \in rows :
        r.entity = s.entity /\ r.time = s.time /\ r.time.tick # Unset => r.call = s.call
  BY DEF EpisodeInvariant, RowsOfTicks
<1>5. ASSUME NEW r \in rows, NEW s \in rows, r.entity = Navigation("robot_pose"),
             s.entity = r.entity, s.time = r.time
      PROVE  s = r
  <2>1. r.time.tick \in Nat
    BY <1>5 DEF EpisodeInvariant, PosesFit, RobotPose
  <2>2. r.call = s.call
    BY <1>4, <1>5, <2>1
  <2>3. r.data = s.data
    BY <2>2 DEF EpisodeInvariant, RowsOfCalls
  <2>4. /\ r = [entity |-> r.entity, call |-> r.call, data |-> r.data, time |-> r.time]
        /\ s = [entity |-> s.entity, call |-> s.call, data |-> s.data, time |-> s.time]
    BY DEF EpisodeInvariant, RowsOfCalls
  <2> QED BY <1>5, <2>2, <2>3, <2>4
<1>6. RobotIsOnItsRoute
  BY <1>3, <1>4, <1>5 DEF RobotIsOnItsRoute
<1> QED BY <1>1, <1>2, <1>6 DEF EpisodeInv

(* The inductive invariant of an episode and the adapter under it: rows belong  *)
(* to calls, calls to ticks, ticks to poses, and poses to the route logged      *)
(* before them.                                                               *)
THEOREM EpisodeInvariantHolds == EpisodeSpec => []EpisodeInvariant
<1> QED BY EpisodeStarts, EpisodeStepKeeps, PTL DEF EpisodeSpec

(* For every itinerary, trail and failure a viewer sees, at every tick, the      *)
(* robot on the route of its own leg with the latest poses behind it, and the    *)
(* timings of one run (run_episode and the Rerun route of main).                *)
THEOREM EpisodeShowsOneLeg == EpisodeSpec => []EpisodeInv
<1> QED BY EpisodeInvariantHolds, EpisodeShows, PTL
------------------------------------------------------------------------------
(* The sum of the three parts that the run observe checks. *)

Observed ==
  /\ SinkInvariant
  /\ part = "controller" => ControllerInvariant
  /\ part = "episode" => EpisodeInvariant

LEMMA ObservedHolds == MCSpec => []Observed
<1>1. MCInit => Observed
  BY EmptySink, InitFits, EpisodeStarts DEF MCInit, Observed, SinkInit
<1>2. ASSUME Observed, SinkStep
      PROVE  Observed'
  BY <1>2, SinkStepKeeps DEF SinkStep, Observed
<1>3. ASSUME Observed, ControllerStep
      PROVE  Observed'
  BY <1>3, StepKeeps, SinkStepKeeps DEF ControllerStep, Observed
<1>4. ASSUME Observed, EpisodeStep
      PROVE  Observed'
  BY <1>4, EpisodeStepKeeps, SinkStepKeeps DEF EpisodeStep, Observed
<1>5. ASSUME Observed, UNCHANGED observingVars
      PROVE  Observed'
  BY <1>5, StepKeeps, EpisodeStepKeeps, SinkStepKeeps DEF observingVars, Observed
<1> QED BY <1>1, <1>2, <1>3, <1>4, <1>5, PTL DEF MCSpec, MCNext

(* What the run checks of the controller and of the episode, for all values of   *)
(* the constants.                                                             *)
THEOREM ControlledAlways == MCSpec => []Controlled
<1>1. Observed => Controlled
  BY InvariantSuffices DEF Observed, Controlled
<1> QED BY <1>1, ObservedHolds, PTL

THEOREM DisplayedAlways == MCSpec => []Displayed
<1>1. Observed => Displayed
  BY EpisodeShows DEF Observed, Displayed
<1> QED BY <1>1, ObservedHolds, PTL
==============================================================================
