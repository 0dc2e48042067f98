--------------------------- MODULE AdapterController ---------------------------
(***************************************************************************)
(* AdapterController (unit-compose-debug) around the Rerun adapter: the      *)
(* failure policy decides whether a failed call is an error for the host or  *)
(* the end of the adapter.                                                   *)
(*                                                                         *)
(* An action joins an action of RerunAdapter with what the controller does.  *)
(***************************************************************************)
EXTENDS RerunAdapter

VARIABLES
  policy,    \* AdapterFailurePolicy, fixed when the controller is made
  enabled,
  lastError, \* the call whose failure disabled the adapter, 0 if there is none
  outcome,   \* what the host was given by its latest call
  failures   \* calls answered with DisabledAfterFailure (history)

controllerVars == <<policy, enabled, lastError, outcome, failures>>

ControllerInit ==
  /\ AdapterInit
  /\ policy \in {"report", "disable"}
  /\ enabled = TRUE
  /\ lastError = 0
  /\ outcome = "none"
  /\ failures = 0

(* Mutation of Guarded: only run_snapshot looks at the flag.                 *)
GuardedSnapshots(isSnapshot) == enabled \/ ~isSnapshot

(* A call reaches the adapter only while it is enabled.                      *)
Guarded(isSnapshot) == enabled

Call ==
  /\ \/ \E n \in 0 .. MaxUnits : Guarded(FALSE) /\ FixedDescription(n)
     \/ \E n \in 0 .. MaxUnits : Guarded(TRUE) /\ RunSnapshot(n)
  /\ UNCHANGED controllerVars

CallDisabled ==
  /\ Idle
  /\ ~enabled
  /\ outcome' = "Disabled"
  /\ UNCHANGED <<adapterVars, policy, enabled, lastError, failures>>

Disable ==
  /\ Idle
  /\ enabled
  /\ enabled' = FALSE
  /\ UNCHANGED <<adapterVars, policy, lastError, outcome, failures>>

Step == LogRow /\ UNCHANGED controllerVars

Deliver ==
  /\ Finish
  /\ outcome' = "Delivered"
  /\ UNCHANGED <<policy, enabled, lastError, failures>>

HandleFailure ==
  /\ Fail
  /\ IF policy = "report"
       THEN outcome' = "Failed" /\ UNCHANGED <<enabled, lastError, failures>>
       ELSE /\ outcome' = "DisabledAfterFailure"
            /\ enabled' = FALSE
            /\ lastError' = call.number
            /\ failures' = failures + 1
  /\ UNCHANGED policy

ControllerNext ==
  \/ Call
  \/ CallDisabled
  \/ Disable
  \/ Step
  \/ Deliver
  \/ HandleFailure

ControllerSpec ==
  ControllerInit /\ [][ControllerNext]_<<adapterVars, controllerVars>>
------------------------------------------------------------------------------
ControllerTypeOK ==
  /\ policy \in {"report", "disable"} /\ enabled \in BOOLEAN
  /\ runIndex \in 0 .. MaxCalls /\ unitIds \in 0 .. MaxUnits
  /\ lastError \in 0 .. MaxCalls /\ failures \in 0 .. MaxCalls
  /\ outcome \in {"none", "Delivered", "Disabled", "DisabledAfterFailure", "Failed"}
  /\ result \in {"none", "pending", "delivered", "error"}
  /\ at.tick = Unset /\ at.run \in 0 .. MaxCalls \cup {Unset}

(* Under the disable policy no run index ever shows rows of two reports, a    *)
(* snapshot that failed halfway included: it was the last one.               *)
RunsAreNotMixed ==
  policy = "disable" =>
    \A r, s \in rows :
      r.time.run # Unset /\ r.time.run = s.time.run => r.call = s.call

(* AdapterFailurePolicy::Disable "Record the error and permanently disable    *)
(* subsequent adapter calls": the failure is told once, the recording never   *)
(* changes again, and a host that disabled the adapter sees no error at all.  *)
DisabledForGood ==
  /\ failures <= 1
  /\ failures = 1 => ~enabled /\ lastError = call.number
  /\ policy = "disable" => outcome # "Failed"

(* All of it, with DeliveredRunsAreDistinct of the adapter underneath.        *)
ControllerInv ==
  ControllerTypeOK /\ DeliveredRunsAreDistinct /\ RunsAreNotMixed /\ DisabledForGood

(* Once disabled, by the host or by a failure, nothing is logged any more.    *)
SilentWhenDisabled ==
  [][~enabled => UNCHANGED <<adapterVars, enabled, lastError>>]_<<adapterVars, controllerVars>>
==============================================================================
