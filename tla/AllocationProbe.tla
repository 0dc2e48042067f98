---------------------------- MODULE AllocationProbe ----------------------------
(***************************************************************************)
(* The allocator of the allocation test harness: each thread has a flag and       *)
(* counters of its own, and GlobalProbe sets and reads those of the thread it is   *)
(* called on.  Module::execute begins and finishes a probe on one thread, and a    *)
(* Unit may run another Module inside the measurement.                         *)
(***************************************************************************)
EXTENDS Integers, Sequences, Functions

CONSTANTS
  Threads,
  MaxNested,     \* bound on measurements inside each other
  MaxOperations  \* bound on the operations of a thread

Operations == {"allocations", "reallocations", "deallocations"}

VARIABLES
  counting,    \* ACTIVE, by thread
  counted,   \* ALLOCS, REALLOCS, DEALLOCS, by thread
  performed, \* operations of the thread so far (history)
  running,   \* for each thread the measurements begun and not finished: what had
             \* been performed then, and whether another began since (history)
  report     \* for each thread the last AllocationOperations, and its measurement

probeVars == <<counting, counted, performed, running, report>>

Zero == [o \in Operations |-> 0]
NoReport == [counted |-> Zero, true |-> Zero, disturbed |-> FALSE]

ProbeInit ==
  /\ counting = [t \in Threads |-> FALSE]
  /\ counted = [t \in Threads |-> Zero]
  /\ performed = [t \in Threads |-> Zero]
  /\ running = [t \in Threads |-> <<>>]
  /\ report = [t \in Threads |-> NoReport]

(* alloc, realloc, dealloc.                                                  *)
Operate(t, operation) ==
  /\ FoldFunction(LAMBDA n, sum : n + sum, 0, performed[t]) < MaxOperations
  /\ performed' = [performed EXCEPT ![t][operation] = @ + 1]
  /\ counted' = IF counting[t] THEN [counted EXCEPT ![t][operation] = @ + 1] ELSE counted
  /\ UNCHANGED <<counting, running, report>>

(* Mutation of Cleared: the counters go on from the measurement before.         *)
ClearedNot(t) == counted[t]

Cleared(t) == Zero

Begin(t) ==
  /\ Len(running[t]) < MaxNested
  /\ counting' = [counting EXCEPT ![t] = TRUE]
  /\ counted' = [counted EXCEPT ![t] = Cleared(t)]
  /\ running' = [running EXCEPT ![t] =
       Append([i \in DOMAIN @ |-> [@[i] EXCEPT !.disturbed = TRUE]],
              [since |-> performed[t], disturbed |-> FALSE])]
  /\ UNCHANGED <<performed, report>>

Finish(t) ==
  /\ running[t] # <<>>
  /\ LET m == running[t][Len(running[t])]
     IN  report' = [report EXCEPT ![t] =
           [counted |-> counted[t],
            true |-> [o \in Operations |-> performed[t][o] - m.since[o]],
            disturbed |-> m.disturbed]]
  /\ counting' = [counting EXCEPT ![t] = FALSE]
  /\ running' = [running EXCEPT ![t] = SubSeq(@, 1, Len(@) - 1)]
  /\ UNCHANGED <<counted, performed>>

ProbeNext ==
  \E t \in Threads : Begin(t) \/ Finish(t) \/ \E o \in Operations : Operate(t, o)

ProbeSpec == ProbeInit /\ [][ProbeNext]_probeVars
------------------------------------------------------------------------------
(* A measurement reports what its thread did between begin and finish, each kind  *)
(* by itself, whatever other threads do and measure meanwhile: unless another      *)
(* measurement began inside it, which takes the flag and the counters over.        *)
CountsAreExact ==
  \A t \in Threads : ~ report[t].disturbed => report[t].counted = report[t].true
==============================================================================
