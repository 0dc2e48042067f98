---------------------------- MODULE NavigationHost ----------------------------
(***************************************************************************)
(* The navigation example's host: PreparedNavigation, a built Module with    *)
(* its input plan, its handles and copies of its last outputs, and           *)
(* NavigationHost, which replaces the active Module by one that was built    *)
(* and warmed up (examples/navigation-planning/src/lib.rs).                  *)
(*                                                                         *)
(* A Module is named by its plan token; runs are numbered over all Modules.   *)
(* Of a run only what ModuleContract promises is used: it publishes all       *)
(* outputs or none, and a fatal failure poisons the Module for good.          *)
(***************************************************************************)
EXTENDS Naturals, FiniteSets

CONSTANTS
  MaxModules,  \* bound on the Modules built
  MaxHostRuns, \* bound on the runs
  CellLimit,   \* MAX_CELLS
  Oversize     \* a capacity no plan accepts

ASSUME HostAssumption ==
  MaxModules \in Nat \ {0} /\ MaxHostRuns \in Nat /\ CellLimit < Oversize

VARIABLES
  built,       \* tokens given out so far
  active,      \* token of the active Module
  owned,       \* Modules in the hands of the host's owner: built by him and not
               \* activated yet, or replaced and given back
  snapshot,    \* token -> part -> run it was copied from, 0 if none
  poisoned,    \* tokens of poisoned Modules
  supplied,    \* the ModuleInput the caller holds: token and capacity
  candidate,   \* token of the candidate of a reload in progress, 0 if none
  hostRuns,    \* runs so far, of any Module
  lastOk,      \* token -> its last successful run (history)
  checked,     \* the latest call validated its ModuleInput (history)
  reply        \* what the latest call returned: the run its path is from, or an error

navHostVars == <<built, active, owned, snapshot, poisoned, supplied, candidate,
                 hostRuns, lastOk, checked, reply>>

Module == 1 .. MaxModules
Part == {"dimensions", "binary", "cost", "raw", "path"}
Blank == [p \in Part |-> 0]
Error(kind) == [run |-> 0, error |-> kind]

NavHostInit ==
  /\ built = 1 /\ active = 1
  /\ owned = {} /\ poisoned = {}
  /\ snapshot = [m \in Module |-> Blank]
  /\ supplied = [token |-> 1, capacity |-> CellLimit]
  /\ candidate = 0
  /\ hostRuns = 0
  /\ lastOk = [m \in Module |-> 0]
  /\ checked = FALSE
  /\ reply = Error("none")

(* supplied_input of a Module, with any number of cells.                     *)
Supply(m, capacity) ==
  /\ candidate = 0
  /\ supplied' = [token |-> m, capacity |-> capacity]
  /\ checked' = FALSE
  /\ UNCHANGED <<built, active, owned, snapshot, poisoned, candidate, hostRuns,
                 lastOk, reply>>

(* Mutation of RefreshSnapshot: without a smoother the path is left alone.    *)
RefreshMaps(m, n) ==
  snapshot' = [snapshot EXCEPT ![m] =
                 [p \in Part |-> IF p = "path" /\ @["path"] # 0 THEN @["path"] ELSE n]]

(* refresh_snapshot: the four outputs are read before any copy is changed.    *)
RefreshSnapshot(m, n) ==
  snapshot' = [snapshot EXCEPT ![m] = [p \in Part |-> n]]

(* A run of a Module and what follows it; a failure leaves the copies alone.  *)
RunModule(m) ==
  \/ /\ m \in poisoned
     /\ reply' = Error("poisoned")
     /\ UNCHANGED <<snapshot, poisoned, hostRuns, lastOk>>
  \/ /\ m \notin poisoned /\ hostRuns < MaxHostRuns
     /\ hostRuns' = hostRuns + 1
     /\ \/ /\ RefreshSnapshot(m, hostRuns')
           /\ lastOk' = [lastOk EXCEPT ![m] = hostRuns']
           /\ reply' = [run |-> snapshot'[m]["path"], error |-> "none"]
           /\ UNCHANGED poisoned
        \/ /\ reply' = Error("failed")
           /\ poisoned' \in {poisoned, poisoned \cup {m}}
           /\ UNCHANGED <<snapshot, lastOk>>

InputPlanAccepts(m) == supplied.token = m /\ supplied.capacity <= CellLimit

(* run_checked and run_checked_profiled, by the host on the active Module or   *)
(* by its owner on another.                                                  *)
RunChecked(m) ==
  /\ candidate = 0
  /\ IF InputPlanAccepts(m) THEN RunModule(m)
     ELSE /\ reply' = Error("input")
          /\ UNCHANGED <<snapshot, poisoned, hostRuns, lastOk>>
  /\ checked' = TRUE
  /\ UNCHANGED <<built, active, owned, supplied, candidate>>

(* run_profiled and warm_up ask for no ModuleInput.                          *)
RunUnchecked(m) ==
  /\ candidate = 0
  /\ RunModule(m)
  /\ checked' = FALSE
  /\ UNCHANGED <<built, active, owned, supplied, candidate>>

(* The owner builds a Module, and hands one of his to the host in exchange    *)
(* for the active one, warm or not (activate).                               *)
Prepare ==
  /\ candidate = 0
  /\ built < MaxModules
  /\ built' = built + 1
  /\ owned' = owned \cup {built'}
  /\ checked' = FALSE
  /\ UNCHANGED <<active, snapshot, poisoned, supplied, candidate, hostRuns, lastOk,
                 reply>>

Activate(m) ==
  /\ candidate = 0
  /\ active' = m
  /\ owned' = (owned \ {m}) \cup {active}
  /\ checked' = FALSE
  /\ UNCHANGED <<built, snapshot, poisoned, supplied, candidate, hostRuns, lastOk,
                 reply>>

(* reload: build a candidate, warm it up, activate it; the first two may fail. *)
BuildCandidate ==
  /\ candidate = 0
  /\ built < MaxModules
  /\ \/ candidate' = built + 1 /\ UNCHANGED reply
     \/ reply' = Error("build") /\ UNCHANGED candidate
  /\ built' = built + 1
  /\ checked' = FALSE
  /\ UNCHANGED <<active, owned, snapshot, poisoned, supplied, hostRuns, lastOk>>

(* Mutation of WarmUp: the candidate is activated before it is warm.          *)
WarmUpActive ==
  /\ candidate # 0
  /\ RunModule(candidate)
  /\ active' = candidate
  /\ owned' = owned \cup {active}
  /\ candidate' = 0
  /\ checked' = FALSE
  /\ UNCHANGED <<built, supplied>>

WarmUp ==
  /\ candidate # 0
  /\ RunModule(candidate)
  /\ IF reply'.error = "none"
       THEN active' = candidate /\ owned' = owned \cup {active}
       ELSE UNCHANGED <<active, owned>>
  /\ candidate' = 0
  /\ checked' = FALSE
  /\ UNCHANGED <<built, supplied>>

NavHostNext ==
  \/ \E m \in {active} \cup owned :
       \/ \E capacity \in {CellLimit, Oversize} : Supply(m, capacity)
       \/ RunChecked(m)
       \/ RunUnchecked(m)
  \/ Prepare
  \/ \E m \in owned : Activate(m)
  \/ BuildCandidate
  \/ WarmUp

NavHostSpec == NavHostInit /\ [][NavHostNext]_navHostVars
------------------------------------------------------------------------------
(* The copies post_run_snapshot shows, of any Module, are of one run, its     *)
(* last successful one, and the path a call returns is of that call.          *)
SnapshotsAreOfOneRun ==
  /\ \A m \in Module, p \in Part : snapshot[m][p] = lastOk[m]
  /\ reply.error = "none" /\ reply.run # 0 => reply.run = hostRuns

(* reload "prepares and warms a candidate before atomically replacing the     *)
(* active Module": what a reload makes active can be inspected at once, one    *)
(* that fails leaves the active Module with all it had, no Module that was    *)
(* replaced is lost, and a ModuleInput supplied for one Module never runs     *)
(* another, whichever Modules the owner exchanged in between.                 *)
ReloadIsAllOrNothing ==
  [][/\ candidate # 0 =>
          /\ active' # active => lastOk'[active'] = hostRuns' /\ active' \notin poisoned'
          /\ snapshot'[active] = snapshot[active]
          /\ active \in poisoned' <=> active \in poisoned
          /\ \A m \in Module : lastOk'[m] # lastOk[m] => m = candidate
     /\ active' # active => active \in owned'
     /\ checked' => \A m \in Module : lastOk'[m] # lastOk[m] => m = supplied.token]_navHostVars
==============================================================================
