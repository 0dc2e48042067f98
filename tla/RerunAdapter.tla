----------------------------- MODULE RerunAdapter -----------------------------
(***************************************************************************)
(* The Rerun adapter (unit-compose-debug-rerun): every operation sets a     *)
(* timeline of the recording and then logs a list of rows one by one.  Any  *)
(* row may fail, which ends the operation and keeps what was logged.        *)
(*                                                                         *)
(* The recording is a set of rows; a row names its entity, the call that    *)
(* logged it and the time it was logged at.  A timeline that was set once    *)
(* stays set (set_time_sequence is sticky), so rows carry both timelines.    *)
(***************************************************************************)
EXTENDS Naturals, Sequences, FiniteSets, SequencesExt

CONSTANTS
  MaxUnits,   \* Units of the Module a description or a report is about
  MaxTrail,   \* MAX_POSE_TRAIL_POINTS
  MaxCalls,   \* bound on the calls made to the adapter
  Unset       \* a timeline that was never set; also the time of static rows

ASSUME RerunAssumption ==
  /\ MaxUnits \in Nat /\ MaxTrail \in Nat \ {0} /\ MaxCalls \in Nat
  /\ Unset \notin Nat

VARIABLES
  rows,      \* the recording
  at,        \* current value of the timelines episode_tick and run
  runIndex,  \* run_index
  unitIds,   \* length of unit_ids
  call,      \* the call in progress: its number, kind and data
  job,       \* entities it still has to log
  result,    \* how the latest call ended
  delivered  \* runs whose snapshot was logged to the end (history)

adapterVars == <<rows, at, runIndex, unitIds, call, job, result, delivered>>

NoCall == [number |-> 0, kind |-> "none", data |-> 0]
Untimed == [tick |-> Unset, run |-> Unset]

AdapterInit ==
  /\ rows = {}
  /\ at = Untimed
  /\ runIndex = 0
  /\ unitIds = 0
  /\ call = NoCall
  /\ job = <<>>
  /\ result = "none"
  /\ delivered = {}

Idle == result # "pending"

Begin(kind, data, time, entities) ==
  /\ Idle
  /\ call.number < MaxCalls
  /\ call' = [number |-> call.number + 1, kind |-> kind, data |-> data]
  /\ at' = time
  /\ job' = entities
  /\ result' = "pending"
  /\ UNCHANGED <<rows, runIndex, delivered>>

(* A call whose arguments are rejected before anything is logged.           *)
Reject ==
  /\ Idle
  /\ call.number < MaxCalls
  /\ call' = [NoCall EXCEPT !.number = call.number + 1]
  /\ result' = "error"
  /\ UNCHANGED <<rows, at, runIndex, unitIds, job, delivered>>
------------------------------------------------------------------------------
(* The operations. *)

Series(k) == <<"timings/units", k>>
Offset(k) == <<"timings/start_offset_ms", k>>
Metric(name) == <<"metrics/run", name>>
Navigation(name) == <<"navigation", name>>

(* fixed_description and log_capacity_plan: unit_ids is replaced first.      *)
FixedDescription(units) ==
  /\ Begin("description", units, at,
       [k \in 1 .. units |-> Series(k - 1)] \o
       <<<<"metrics/capacity", "slots">>, <<"metrics/capacity", "bytes">>,
         <<"metrics/capacity", "resources">>>>)
  /\ unitIds' = units

(* The rows of log_run_snapshot for a report with that many Unit timings: a  *)
(* duration and a start offset for each.                                     *)
SnapshotRows(timings) ==
  <<Metric("elapsed_ms")>>
  \o [i \in 1 .. 2 * timings |->
        IF i % 2 = 1 THEN Series(i \div 2) ELSE Offset(i \div 2 - 1)]
  \o <<Metric("observed_capacity"), Metric("allocations"),
       Metric("reallocations"), Metric("deallocations")>>

RunSnapshot(timings) ==
  /\ Begin("snapshot", timings, [at EXCEPT !.run = runIndex], SnapshotRows(timings))
  /\ UNCHANGED unitIds

RunSnapshotAt(tick, timings) ==
  /\ Begin("snapshot", timings, [at EXCEPT !.tick = tick], SnapshotRows(timings))
  /\ UNCHANGED unitIds

(* A map or a frame whose images and points fit the grid: no other is ever     *)
(* logged, they are copied from a run that accepted the grid.                *)
NavigationMap ==
  Begin("map", 0, at, <<Navigation("map")>>) /\ UNCHANGED unitIds

(* A frame without a smoothed path logs nothing for it.                      *)
NavigationFrameAt(tick, leg, smoothed) ==
  /\ Begin("frame", leg, [at EXCEPT !.tick = tick],
       <<Navigation("raw_path")>>
       \o (IF smoothed THEN <<Navigation("smoothed_path")>> ELSE <<>>)
       \o <<Navigation("start"), Navigation("goal")>>)
  /\ UNCHANGED unitIds

NavigationPoseAt(tick, pose, trail) ==
  IF Len(trail) > MaxTrail THEN Reject
  ELSE /\ Begin("pose", [pose |-> pose, trail |-> trail], [at EXCEPT !.tick = tick],
            <<Navigation("robot_pose"), Navigation("recent_pose_trail")>>)
       /\ UNCHANGED unitIds
------------------------------------------------------------------------------
(* The rows of a call. *)

IsStatic == call.kind \in {"description", "map"}

(* Only a Unit timing is looked up in the fixed execution order.             *)
Unknown(entity) ==
  call.kind = "snapshot" /\ entity[1] = "timings/units" /\ entity[2] >= unitIds

LogRow ==
  /\ result = "pending" /\ job # <<>>
  /\ ~Unknown(Head(job))
  /\ rows' = rows \cup {[entity |-> Head(job), call |-> call.number, data |-> call.data,
                         time |-> IF IsStatic THEN Untimed ELSE at]}
  /\ job' = Tail(job)
  /\ UNCHANGED <<at, runIndex, unitIds, call, result, delivered>>

Fail ==
  /\ result = "pending" /\ job # <<>>
  /\ job' = <<>>
  /\ result' = "error"
  /\ UNCHANGED <<rows, at, runIndex, unitIds, call, delivered>>

(* Mutation of Finish: the run index is not moved.                           *)
FinishKeepsIndex ==
  /\ result = "pending" /\ job = <<>>
  /\ result' = "delivered"
  /\ delivered' = IF call.kind = "snapshot"
                    THEN delivered \cup {[call |-> call.number, run |-> runIndex]}
                    ELSE delivered
  /\ UNCHANGED <<rows, at, runIndex, unitIds, call, job>>

(* The end of the call; a snapshot moves the run index, in both its forms.    *)
Finish ==
  /\ result = "pending" /\ job = <<>>
  /\ result' = "delivered"
  /\ runIndex' = IF call.kind = "snapshot" THEN runIndex + 1 ELSE runIndex
  /\ delivered' = IF call.kind = "snapshot"
                    THEN delivered \cup {[call |-> call.number, run |-> runIndex]}
                    ELSE delivered
  /\ UNCHANGED <<rows, at, unitIds, call, job>>
------------------------------------------------------------------------------
(* No two snapshots that were delivered share a run index: the chart never   *)
(* shows one run over another that was logged in full.                       *)
DeliveredRunsAreDistinct ==
  \A d, e \in delivered : d.run = e.run => d = e

(* What a viewer shows for an entity at a tick: its latest row up to there.   *)
ShownAt(entity, tick) ==
  LET upTo == {r \in rows : r.entity = entity /\ r.time.tick # Unset
                              /\ r.time.tick <= tick}
  IN  {r \in upTo : \A s \in upTo :
         s.time.tick < r.time.tick
            \/ (s.time.tick = r.time.tick /\ s.call <= r.call)}
==============================================================================
