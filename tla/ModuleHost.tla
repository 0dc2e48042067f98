------------------------------ MODULE ModuleHost ------------------------------
(***************************************************************************)
(* A Module as its host drives it: ModuleRuntime, composed with what       *)
(* Module::execute does around a run (allocation probes, run report,       *)
(* diagnostic sink, Unit timings), with the host's ModuleInputs value, and *)
(* with run_into and the host-owned output it fills (runtime.rs, lib.rs).  *)
(*                                                                         *)
(* Every action that runs the Module is an action of ModuleRuntime joined  *)
(* with its effect on the variables added here.                            *)
(***************************************************************************)
EXTENDS ModuleRuntime, FiniteSetsExt

CONSTANTS
  Evidence,        \* declared allocation domain -> AllocationEvidence
  ProbeLists,      \* probe lists a host passes to run_profiled
  TimingCapacity,  \* UNIT_TIMING_CAPACITY
  NoTarget         \* the call is not a run_into

ASSUME HostAssumption ==
  /\ TimingCapacity \in Nat
  /\ Evidence \in [DOMAIN Evidence -> {"instrumented", "certified", "unsupported"}]
  /\ \A ps \in ProbeLists : Len(ps) \in Nat /\ DOMAIN ps = 1 .. Len(ps)
  /\ NoTarget \notin [resource : ModuleOutput, token : Token]

VARIABLES
  inputs,     \* the host's ModuleInputs
  into,       \* the output handle of the run_into in progress, or NoTarget
  probes,     \* the probe list of the call in progress
  sink,       \* its sink: "none", "replacing" or "appending"
  active,     \* indices of the probes that were begun and not finished
  reporting,  \* reporting_enabled
  recorder,   \* UnitExecutionRecorder of the run: timings kept and dropped
  report,     \* the RunReport
  received,   \* events the sink got during the latest call
  target,     \* the HostOutput: validity and the run its contents are from
  returned,   \* what the latest call returned to the host
  peak        \* most elements the store held at once in this run (history)

callVars == <<into, probes, sink>>
hostVars == <<inputs, callVars, active, reporting, recorder, report, received,
              target, returned, peak>>
allVars  == <<vars, hostVars>>

OutputHandle == [resource : ModuleOutput, token : Token]
EmptyReport  == [events |-> <<>>, timings |-> <<>>, dropped |-> 0, dirty |-> FALSE]
NoTimings    == [kept |-> <<>>, dropped |-> 0]

(* error_event_kind looks through wrappers, unlike Poisons.                 *)
EventKindOf ==
  [ok |-> "Success", fatal |-> "FatalFailure", overflow |-> "Overflow",
   incomplete |-> "IncompleteOutput", panic |-> "Panic", profile |-> "AllocationProfileViolation"]
EventKind(e) == IF e.kind \in DOMAIN EventKindOf THEN EventKindOf[e.kind] ELSE "RecoverableFailure"

(* unit_error and module_error: only a Unit's own failure has a disposition. *)
Disposition(e) ==
  IF ~e.nested /\ e.kind \in {"recoverable", "fatal"} THEN e.kind ELSE "none"

(* RuntimeStore::observed_capacity, over what is readable at that moment.   *)
ObservedCapacity ==
  MapThenSumSet(LAMBDA r : Len(live[SlotOf[r]].items), {r \in Stored : Readable(r)})

(* Mutation of ProbesValid: a domain probed twice goes unnoticed.           *)
ProbesMayRepeat(ps) ==
  /\ \A d \in DOMAIN Evidence :
       Evidence[d] = "instrumented" => \E i \in DOMAIN ps : ps[i] = d
  /\ \A i \in DOMAIN ps : ps[i] \in DOMAIN Evidence

(* The probes cover every instrumented domain, name only declared domains,  *)
(* and name none twice.                                                     *)
ProbesValid(ps) ==
  /\ \A d \in DOMAIN Evidence :
       Evidence[d] = "instrumented" => \E i \in DOMAIN ps : ps[i] = d
  /\ \A i \in DOMAIN ps : ps[i] \in DOMAIN Evidence
  /\ \A i, j \in DOMAIN ps : ps[i] = ps[j] => i = j

HostInit ==
  /\ Init
  /\ inputs = {}
  /\ into = NoTarget
  /\ probes = <<>>
  /\ sink = "none"
  /\ active = {}
  /\ reporting = TRUE
  /\ recorder = NoTimings
  /\ report = EmptyReport
  /\ received = <<>>
  /\ target = [valid |-> FALSE, run |-> 0]
  /\ returned = Plain("none")
  /\ peak = 0
------------------------------------------------------------------------------
(* Between calls. *)

BindInput(h) ==
  /\ pc = "idle"
  /\ \A x \in inputs : x.resource # h.resource
  /\ inputs' = inputs \cup {h}
  /\ UNCHANGED <<vars, callVars, active, reporting, recorder, report, received,
                 target, returned, peak>>

ClearInputs ==
  /\ pc = "idle"
  /\ inputs # {}
  /\ inputs' = {}
  /\ UNCHANGED <<vars, callVars, active, reporting, recorder, report, received,
                 target, returned, peak>>

SetReporting ==
  /\ pc = "idle"
  /\ reporting' = ~reporting
  /\ UNCHANGED <<vars, inputs, callVars, active, recorder, report, received,
                 target, returned, peak>>

(* The entry of run, run_profiled and run_into.                             *)
EnterCall(isProfiled) ==
  /\ runs < MaxRuns
  /\ Enter(inputs, isProfiled)
  /\ report' = EmptyReport
  /\ received' = <<>>
  /\ returned' = Plain("none")
  /\ UNCHANGED <<inputs, active, reporting, recorder, peak>>

Run ==
  /\ EnterCall(FALSE)
  /\ into' = NoTarget
  /\ probes' = <<>>
  /\ sink' = "none"
  /\ UNCHANGED target

RunProfiled(ps, diagnostic) ==
  /\ EnterCall(TRUE)
  /\ into' = NoTarget
  /\ probes' = ps
  /\ sink' = diagnostic
  /\ UNCHANGED target

(* Mutation of RunInto: the target of an earlier call stays valid.          *)
RunIntoKeepsTarget(h) ==
  /\ EnterCall(FALSE)
  /\ into' = h
  /\ probes' = <<>>
  /\ sink' = "none"
  /\ UNCHANGED target

RunInto(h) ==
  /\ EnterCall(FALSE)
  /\ into' = h
  /\ probes' = <<>>
  /\ sink' = "none"
  /\ target' = [target EXCEPT !.valid = FALSE]
------------------------------------------------------------------------------
(* Inside a call. *)

Refuse ==
  /\ RejectInputs \/ (~ProbesValid(probes) /\ RejectProbes)
  /\ returned' = outcome'
  /\ UNCHANGED <<inputs, callVars, active, reporting, recorder, report, received,
                 target, peak>>

(* Probes begin and the recorder starts on every call that passes the       *)
(* checks, a poisoned Module's included.                                    *)
Launch ==
  /\ profiled => ProbesValid(probes)
  /\ RejectPoisoned \/ StartRun
  /\ active' = DOMAIN probes
  /\ recorder' = NoTimings
  /\ peak' = 0
  /\ UNCHANGED <<inputs, callVars, reporting, report, received, target, returned>>

(* UnitExecutionRecorder::measure around PreparedExecutable::run.           *)
Measure(kind) ==
  recorder' =
    IF ~reporting THEN recorder
    ELSE IF Len(recorder.kept) < TimingCapacity
      THEN [recorder EXCEPT !.kept = Append(@, kind)]
      ELSE [recorder EXCEPT !.dropped = @ + 1]

UnitSucceeds ==
  /\ UnitPublishes
  /\ Measure("Success")
  /\ peak' = Max({peak, ObservedCapacity'})
  /\ UNCHANGED <<inputs, callVars, active, reporting, report, received, target,
                 returned>>

UnitStops ==
  /\ UnitIncomplete \/ UnitPanics \/ \E e \in HandlerError : UnitFails(e)
  /\ Measure(EventKind(outcome'))
  /\ UNCHANGED <<inputs, callVars, active, reporting, report, received, target,
                 returned, peak>>

HandlerStep ==
  /\ BeginUnit \/ FinishRun \/ \E r \in Stored : WriteValue(r) \/ PushBuffer(r)
  /\ UNCHANGED hostVars
------------------------------------------------------------------------------
(* The end of Module::execute: the event goes to the report and the sink,   *)
(* then the probes finish and may overrule a success, but never a failure.  *)

Event(kind, capacity) == [kind |-> kind, capacity |-> capacity]

(* A capacity failure reports the capacity it ran into, any other outcome   *)
(* what is still published.                                                 *)
EventCapacities ==
  IF outcome.kind = "overflow" THEN {Capacity[r] : r \in Stored}
  ELSE {ObservedCapacity}

Violated(dirty) == outcome.kind = "ok" /\ dirty # {}

(* Mutation of Record: the violation is not carried over to the records.    *)
RecordUncorrected(dirty, capacity) ==
  LET first == Event(EventKind(outcome), capacity) IN
    /\ report' = IF ~reporting THEN report
                 ELSE [events |-> <<first>>, timings |-> recorder.kept,
                       dropped |-> recorder.dropped, dirty |-> dirty # {}]
    /\ received' = IF sink = "none" THEN received ELSE <<first>>

(* replace_last on the report, correct_last on the sink: one that does not  *)
(* override correct_last records a second event.                            *)
Record(dirty, capacity) ==
  LET first == Event(EventKind(outcome), capacity)
      last  == IF Violated(dirty)
                 THEN [first EXCEPT !.kind = "AllocationProfileViolation"]
                 ELSE first
  IN
    /\ report' = IF ~reporting THEN report
                 ELSE [events  |-> <<last>>,
                       timings |-> recorder.kept,
                       dropped |-> recorder.dropped,
                       dirty   |-> dirty # {}]
    /\ received' = IF sink = "none" THEN received
                   ELSE IF sink = "appending" /\ first # last THEN <<first, last>>
                   ELSE <<last>>

(* What the call returns.  run and run_profiled return what the run came to,  *)
(* and so does run_into if the run failed.                                  *)
ReturnRun ==
  /\ into = NoTarget \/ outcome'.kind # "ok"
  /\ returned' = outcome'
  /\ UNCHANGED target

(* After a success run_into may still return an error, which neither the      *)
(* report nor the sink is told: the handle is of another plan or its resource *)
(* is not published,                                                        *)
Delivering == into # NoTarget /\ outcome'.kind = "ok"
HandleFits == into.token = OwnToken /\ Readable(into.resource)

RefuseHandle ==
  /\ Delivering /\ ~HandleFits
  /\ returned' = Plain("binding")
  /\ UNCHANGED target

(* or the host's copy closure returns one.  Only its Ok validates the target. *)
CopyOut(answer) ==
  /\ Delivering /\ HandleFits
  /\ returned' = answer
  /\ target' = [valid |-> answer.kind = "ok", run |-> runs]

Close(dirty, capacity) ==
  /\ IF Violated(dirty) THEN ReturnViolation ELSE ReturnOutcome
  /\ Record(dirty, capacity)
  /\ active' = {}
  /\ \/ ReturnRun
     \/ RefuseHandle
     \/ \E answer \in HandlerError \cup {Plain("ok")} : CopyOut(answer)
  /\ UNCHANGED <<inputs, callVars, reporting, recorder, peak>>

CloseCall ==
  \E dirty \in SUBSET active, capacity \in EventCapacities : Close(dirty, capacity)

HostNext ==
  \/ \E h \in InputHandle : BindInput(h)
  \/ ClearInputs
  \/ SetReporting
  \/ Run
  \/ \E ps \in ProbeLists, diagnostic \in {"none", "replacing", "appending"} :
       RunProfiled(ps, diagnostic)
  \/ \E h \in OutputHandle : RunInto(h)
  \/ Refuse
  \/ Launch
  \/ HandlerStep
  \/ UnitSucceeds
  \/ UnitStops
  \/ CloseCall

HostFairness ==
  /\ WF_allVars(Refuse \/ Launch \/ CloseCall)
  /\ WF_allVars((BeginUnit \/ FinishRun) /\ UNCHANGED hostVars)
  /\ WF_allVars(UnitSucceeds \/ UnitStops)

HostSpec == HostInit /\ [][HostNext]_allVars /\ HostFairness
------------------------------------------------------------------------------
(* Refinement mapping to ModuleContract. *)

ContractPhase ==
  IF pc = "idle" THEN "idle"
  ELSE IF pc = "preflight" THEN "called"
  ELSE IF pc = "closing" /\ outcome.kind # "ok" THEN "failed"
  ELSE "running"

WrittenByRun(r, n) ==
  /\ Readable(r)
  /\ \A i \in DOMAIN live[SlotOf[r]].items : live[SlotOf[r]].items[i].run = n

(* The run all outputs are from after a success, none after anything else;   *)
(* -1, which no contract state has, if that is not so.                      *)
VisibleRun ==
  IF pc # "idle" THEN 0
  ELSE IF outcome.kind = "ok" /\ \A r \in ModuleOutput : WrittenByRun(r, runs) THEN runs
  ELSE IF outcome.kind # "ok" /\ \A r \in Resource : ~published[r] THEN 0
  ELSE -1

Contract == INSTANCE ModuleContract
  WITH phase   <- ContractPhase,
       latest  <- runs,
       visible <- VisibleRun,
       filling <- into # NoTarget,
       copied  <- IF target.valid THEN target.run ELSE 0,
       granted <- pc = "idle" /\ returned.kind = "ok",
       dead    <- poisoned

(* Runs, probes, reports and targets together keep the promises of           *)
(* ModuleContract: outputs of one run or none, poison for good, a valid      *)
(* target only with the outputs of the call that filled it.                  *)
ImplementsContract == Contract!Spec
------------------------------------------------------------------------------
HostTypeOK ==
  /\ TypeOK
  /\ inputs \in Bindings
  /\ into \in OutputHandle \cup {NoTarget}
  /\ probes \in ProbeLists \cup {<<>>}
  /\ sink \in {"none", "replacing", "appending"}
  /\ active \in SUBSET DOMAIN probes
  /\ reporting \in BOOLEAN
  /\ Len(recorder.kept) <= TimingCapacity /\ recorder.dropped \in Nat
  /\ Len(report.events) <= 1 /\ Len(report.timings) <= TimingCapacity
  /\ Len(received) <= 2
  /\ target \in [valid : BOOLEAN, run : 0 .. runs]
  /\ returned \in Outcome

(* A run_into whose run succeeded and that could not fill its target.        *)
Undelivered == into # NoTarget /\ outcome.kind = "ok" /\ returned.kind # "ok"

(* After a call the report and the sink tell what the host was returned, also *)
(* when a probe overruled a success that had been recorded (replace_last,     *)
(* correct_last); but of an undelivered run_into they tell the success of its *)
(* run, while the host holds the error of output or of its own copy.         *)
DiagnosticsTellOutcome ==
  pc = "idle" =>
    LET told == IF Undelivered THEN "Success" ELSE EventKind(returned) IN
      /\ \A i \in DOMAIN report.events : report.events[i].kind = told
      /\ received # <<>> => received[Len(received)].kind = told
      /\ Undelivered \/ returned = outcome

(* After a run_into the target is valid exactly if the call returned Ok, and  *)
(* then it holds this run's output: is_valid and the Result never disagree.   *)
TargetTellsAnswer ==
  pc = "idle" /\ into # NoTarget =>
    /\ target.valid <=> returned.kind = "ok"
    /\ target.valid => target.run = runs

(* While a Unit runs in a profiled call, each instrumented domain is watched *)
(* by exactly one begun probe; between calls no probe is left open           *)
(* (AllocationDomainProbe: "must cover exactly one run_profiled call").      *)
InstrumentedDomainsAreWatched ==
  /\ pc = "handler" /\ profiled =>
       \A d \in DOMAIN Evidence : Evidence[d] = "instrumented" =>
         \E i \in active : \A j \in active : probes[j] = d <=> j = i
  /\ pc = "idle" => active = {}

(* The timings of a reported call are the Units launched, in order: all      *)
(* succeeded but perhaps the last, none is missing without being counted as  *)
(* dropped, and a success measured every Unit (UC-V0-16: no later Unit is    *)
(* launched).  A success that a probe withdrew did so too.                   *)
TimingsTraceTheRun ==
  pc = "idle" /\ report.events # <<>> =>
    LET n == Len(report.timings)
        withdrawn == outcome = Plain("profile") /\ report.dirty /\ n + report.dropped = UnitCount
    IN
      /\ \A i \in 1 .. n - 1 : report.timings[i] = "Success"
      /\ report.dropped > 0 => n = TimingCapacity
      /\ outcome.kind = "ok" => n + report.dropped = UnitCount
      /\ outcome.kind # "ok" /\ outcome # Plain("poisoned") /\ ~withdrawn =>
           \/ report.dropped > 0
           \/ n > 0 /\ report.timings[n] = EventKind(outcome)

(* What a host learns from the diagnostics of a call.                        *)
HostInv ==
  HostTypeOK /\ DiagnosticsTellOutcome /\ TargetTellsAnswer /\ TimingsTraceTheRun

(* docs/concepts/terminology.md: after a recoverable failure the Unit        *)
(* guarantees another run is possible.                                       *)
RecoverableReportMeansReusable ==
  pc = "idle" =>
    \A i \in DOMAIN report.events :
      report.events[i].kind = "RecoverableFailure" => ~poisoned

(* UC-V0-18: a panic "returns a structured fatal run error".                 *)
PanicErrorIsFatal ==
  pc = "idle" /\ outcome.kind = "panic" => Disposition(outcome) = "fatal"

(* UC-V0-12: growing storage "records observed peaks".                       *)
PeakIsRecorded ==
  pc = "idle" /\ outcome.kind = "ok" =>
    \A i \in DOMAIN report.events : report.events[i].capacity >= peak
==============================================================================
