---------------------------- MODULE ModuleContract ----------------------------
(***************************************************************************)
(* What a Module promises its host (docs/specification/v0-architecture.md, *)
(* sections 10 to 12), with no Units, slots or probes in sight.            *)
(*                                                                         *)
(* The outputs a host can see are all those of one run, the latest, and    *)
(* only after that run succeeded.  A failed run shows nothing and may      *)
(* poison; a poisoned Module starts no further run.  A call returns Ok only *)
(* after its run succeeded.  The target of run_into is valid only if it    *)
(* holds the outputs of the call that filled it, exactly if that call      *)
(* returned Ok: one that cannot fill its target returns an error although  *)
(* its run succeeded and its outputs can be seen.                          *)
(***************************************************************************)
EXTENDS Naturals

VARIABLES
  phase,    \* "idle", "called", "running" or "failed"
  latest,   \* number of the latest run
  visible,  \* run whose outputs the host can see, 0 for none
  filling,  \* the latest call was a run_into
  copied,   \* run whose output the host's target holds, 0 if invalid
  granted,  \* the latest call returned Ok
  dead      \* the Module is poisoned

contractVars == <<phase, latest, visible, filling, copied, granted, dead>>

Init ==
  /\ phase = "idle"
  /\ latest = 0
  /\ visible = 0
  /\ filling = FALSE
  /\ copied = 0
  /\ granted = FALSE
  /\ dead = FALSE

(* run and run_profiled leave the host's target alone; run_into voids it.   *)
Call ==
  /\ phase = "idle"
  /\ phase' = "called"
  /\ visible' = 0
  /\ filling' \in BOOLEAN
  /\ copied' = IF filling' THEN 0 ELSE copied
  /\ granted' = FALSE
  /\ UNCHANGED <<latest, dead>>

Start ==
  /\ phase = "called"
  /\ ~dead
  /\ phase' = "running"
  /\ latest' = latest + 1
  /\ UNCHANGED <<visible, filling, copied, granted, dead>>

Refuse ==
  /\ phase = "called"
  /\ phase' \in {"failed", "idle"}
  /\ UNCHANGED <<latest, visible, filling, copied, granted, dead>>

Fail ==
  /\ phase = "running"
  /\ phase' = "failed"
  /\ dead' \in BOOLEAN
  /\ UNCHANGED <<latest, visible, filling, copied, granted>>

Succeed ==
  /\ phase = "running"
  /\ phase' = "idle"
  /\ visible' = latest
  /\ granted' \in IF filling THEN BOOLEAN ELSE {TRUE}
  /\ copied' = IF ~filling THEN copied ELSE IF granted' THEN latest ELSE 0
  /\ UNCHANGED <<latest, filling, dead>>

(* An allocation violation withdraws a run that was otherwise successful.   *)
ReturnFailure ==
  /\ phase \in {"running", "failed"}
  /\ phase' = "idle"
  /\ UNCHANGED <<latest, visible, filling, copied, granted, dead>>

Next == Call \/ Start \/ Refuse \/ Fail \/ Succeed \/ ReturnFailure

Spec ==
  /\ Init
  /\ [][Next]_contractVars
  /\ WF_contractVars(Start \/ Refuse \/ Fail \/ Succeed \/ ReturnFailure)
==============================================================================
