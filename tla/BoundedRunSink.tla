---------------------------- MODULE BoundedRunSink ----------------------------
(***************************************************************************)
(* BoundedRunSink (unit-compose-debug): keeps the first N events and counts  *)
(* the others.  Module::execute records one event per run and may correct    *)
(* it before it returns; what ModuleHost calls a "replacing" sink.            *)
(***************************************************************************)
EXTENDS Naturals, Sequences

CONSTANTS
  Capacity,  \* N
  Kind,      \* outcomes an event can tell
  MaxEvents  \* bound on the events recorded between two clears

ASSUME SinkAssumption == Capacity \in Nat /\ MaxEvents \in Nat

VARIABLES
  events,
  dropped,
  lastRetained,  \* last_record_retained
  told           \* every event since the last clear, as corrected (history)

sinkVars == <<events, dropped, lastRetained, told>>

SinkInit ==
  /\ events = <<>>
  /\ dropped = 0
  /\ lastRetained = FALSE
  /\ told = <<>>

Record(e) ==
  /\ Len(told) < MaxEvents
  /\ IF Len(events) < Capacity
       THEN events' = Append(events, e) /\ lastRetained' = TRUE /\ UNCHANGED dropped
       ELSE dropped' = dropped + 1 /\ lastRetained' = FALSE /\ UNCHANGED events
  /\ told' = Append(told, e)

(* Mutation of CorrectLast: the last event kept is corrected, whichever it is. *)
CorrectLastKept(e) ==
  /\ events' = IF events # <<>> THEN [events EXCEPT ![Len(events)] = e] ELSE events
  /\ told' = IF told # <<>> THEN [told EXCEPT ![Len(told)] = e] ELSE told
  /\ UNCHANGED <<dropped, lastRetained>>

(* A correction is of the event recorded last, kept or not; there may be none. *)
CorrectLast(e) ==
  /\ events' = IF lastRetained THEN [events EXCEPT ![Len(events)] = e] ELSE events
  /\ told' = IF told # <<>> THEN [told EXCEPT ![Len(told)] = e] ELSE told
  /\ UNCHANGED <<dropped, lastRetained>>

Clear ==
  /\ events' = <<>>
  /\ dropped' = 0
  /\ lastRetained' = FALSE
  /\ told' = <<>>

SinkNext == Clear \/ \E e \in Kind : Record(e) \/ CorrectLast(e)

SinkSpec == SinkInit /\ [][SinkNext]_sinkVars
------------------------------------------------------------------------------
SinkTypeOK ==
  /\ events \in Seq(Kind) /\ told \in Seq(Kind)
  /\ dropped \in Nat /\ lastRetained \in BOOLEAN

(* The events kept are the first ones told, with their last correction, and   *)
(* every other one is counted ("deterministic reject-and-count overflow       *)
(* behavior").                                                               *)
KeepsTheFirst ==
  /\ Len(events) <= Capacity
  /\ Len(events) + dropped = Len(told)
  /\ dropped > 0 => Len(events) = Capacity
  /\ \A i \in 1 .. Len(events) : events[i] = told[i]

(* The inductive invariant: the flag tells whether the last event was kept.   *)
SinkInvariant ==
  /\ SinkTypeOK
  /\ KeepsTheFirst
  /\ lastRetained <=> (told # <<>> /\ dropped = 0)
==============================================================================
