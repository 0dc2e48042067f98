--------------------------- MODULE Examples_proofs ---------------------------
(****************************************************************************)
(* The examples and the allocation harness:                                 *)
(*   NavigationHost   for any number of Modules and runs                    *)
(*   LidarSlam, ImageRegistration, CloudRegistration                        *)
(*                    for any inputs and limits                             *)
(*   AllocationProbe  for any threads and nesting                           *)
(*   GridPlanner      for any grids planned one after the other on one      *)
(*                    workspace, of any size and limits, with either        *)
(*                    algorithm                                             *)
(*                                                                          *)
(* Of the planner, first the grid: what is free, who is next to whom,       *)
(* breadth-first distances and the cells of a line; then its invariant,     *)
(* what an expansion does to the parts of it, and every action.             *)
(****************************************************************************)
EXTENDS GridPlanner, NavigationHost, LidarSlam, ImageRegistration, CloudRegistration, AllocationProbe,
        NaturalBounds, SequenceTheorems, TLAPS
------------------------------------------------------------------------------
(* The host of the navigation example. *)

(* What the host knows of its Modules: tokens given out so far name them, the  *)
(* candidate is the latest, and neither active nor in its owner's hands.      *)
TokensFit ==
  /\ built \in Module /\ active \in 1 .. built
  /\ candidate \in {0, built}
  /\ candidate # active
  /\ owned \subseteq 1 .. built
  /\ candidate \notin owned

(* The copies of a Module are of its last successful run, which is no later    *)
(* than the latest run.                                                     *)
CopiesFit ==
  /\ hostRuns \in Nat
  /\ lastOk \in [Module -> Nat]
  /\ snapshot \in [Module -> [Part -> Nat]]
  /\ \A m \in Module, p \in Part : snapshot[m][p] = lastOk[m]
  /\ reply.error = "none" /\ reply.run # 0 => reply.run = hostRuns

HostInvariant == TokensFit /\ CopiesFit

(* What a run of a Module does to the copies, and to no other Module's.        *)
LEMMA RunKeepsCopies ==
  ASSUME CopiesFit, NEW m \in Module, RunModule(m)
  PROVE  /\ CopiesFit'
         /\ \A x \in Module \ {m} : snapshot'[x] = snapshot[x] /\ lastOk'[x] = lastOk[x]
         /\ \A x \in Module \ {m} : x \in poisoned' <=> x \in poisoned
         /\ reply'.error = "none" => lastOk'[m] = hostRuns' /\ m \notin poisoned'
<1>0. "path" \in Part
  BY DEF Part
<1>1. CASE reply' = Error("poisoned") /\ UNCHANGED <<snapshot, poisoned, hostRuns, lastOk>>
  <2>1. reply'.error = "poisoned"
    BY <1>1 DEF Error
  <2> QED BY <1>1, <2>1 DEF CopiesFit
<1>2. CASE /\ hostRuns' = hostRuns + 1
           /\ RefreshSnapshot(m, hostRuns')
           /\ lastOk' = [lastOk EXCEPT ![m] = hostRuns']
           /\ reply' = [run |-> snapshot'[m]["path"], error |-> "none"]
           /\ UNCHANGED poisoned
           /\ m \notin poisoned
  <2>1. hostRuns' \in Nat
    BY <1>2 DEF CopiesFit
  <2>2. snapshot' = [snapshot EXCEPT ![m] = [p \in Part |-> hostRuns']]
    BY <1>2 DEF RefreshSnapshot
  <2>3. snapshot' \in [Module -> [Part -> Nat]] /\ lastOk' \in [Module -> Nat]
    BY <1>2, <2>1, <2>2 DEF CopiesFit
  <2>4. \A x \in Module \ {m} : snapshot'[x] = snapshot[x] /\ lastOk'[x] = lastOk[x]
    BY <1>2, <2>2 DEF CopiesFit
  <2>5. lastOk'[m] = hostRuns' /\ \A p \in Part : snapshot'[m][p] = hostRuns'
    BY <1>2, <2>2 DEF CopiesFit
  <2>6. \A x \in Module, p \in Part : snapshot'[x][p] = lastOk'[x]
    BY <2>4, <2>5 DEF CopiesFit
  <2>7. reply'.run = hostRuns'
    BY <1>0, <1>2, <2>5
  <2> QED BY <1>2, <2>1, <2>3, <2>4, <2>5, <2>6, <2>7 DEF CopiesFit
<1>3. CASE /\ hostRuns' = hostRuns + 1
           /\ reply' = Error("failed")
           /\ poisoned' \in {poisoned, poisoned \cup {m}}
           /\ UNCHANGED <<snapshot, lastOk>>
  <2>1. reply'.error = "failed"
    BY <1>3 DEF Error
  <2> QED BY <1>3, <2>1 DEF CopiesFit
<1> QED BY <1>1, <1>2, <1>3 DEF RunModule

(* A run the caller asks for: refused, or a run of the Module that its input    *)
(* was made for.                                                             *)
LEMMA RunCheckedKeeps ==
  ASSUME HostInvariant, NEW m \in 1 .. built, RunChecked(m)
  PROVE  /\ HostInvariant' /\ candidate = 0 /\ active' = active
         /\ \A x \in Module : lastOk'[x] # lastOk[x] => x = supplied.token
<1>0. m \in Module
  BY HostAssumption DEF HostInvariant, TokensFit, Module
<1>1. TokensFit' /\ candidate = 0 /\ active' = active
  BY DEF RunChecked, HostInvariant, TokensFit
<1>2. CASE InputPlanAccepts(m)
  <2>1. RunModule(m) /\ supplied.token = m
    BY <1>2 DEF RunChecked, InputPlanAccepts
  <2> QED BY <1>0, <1>1, <2>1, RunKeepsCopies DEF HostInvariant
<1>3. CASE ~InputPlanAccepts(m)
  <2>1. reply' = Error("input") /\ UNCHANGED <<snapshot, poisoned, hostRuns, lastOk>>
    BY <1>3 DEF RunChecked
  <2>2. reply'.error = "input"
    BY <2>1 DEF Error
  <2> QED BY <1>1, <2>1, <2>2 DEF HostInvariant, CopiesFit
<1> QED BY <1>2, <1>3

(* A run without a ModuleInput.                                              *)
LEMMA RunUncheckedKeeps ==
  ASSUME HostInvariant, NEW m \in 1 .. built, RunUnchecked(m)
  PROVE  HostInvariant' /\ candidate = 0 /\ active' = active /\ ~checked'
<1>1. m \in Module
  BY HostAssumption DEF HostInvariant, TokensFit, Module
<1>2. TokensFit' /\ candidate = 0 /\ active' = active /\ ~checked'
  BY DEF RunUnchecked, HostInvariant, TokensFit
<1>3. CopiesFit'
  BY <1>1, RunKeepsCopies DEF RunUnchecked, HostInvariant
<1> QED BY <1>2, <1>3 DEF HostInvariant

(* A Module of the owner's, and its exchange for the active one.               *)
LEMMA PrepareKeeps ==
  ASSUME HostInvariant, Prepare
  PROVE  HostInvariant' /\ candidate = 0 /\ UNCHANGED <<active, lastOk>>
<1>1. TokensFit' /\ candidate = 0 /\ UNCHANGED <<active, lastOk>>
  BY HostAssumption DEF Prepare, HostInvariant, TokensFit, Module
<1>2. CopiesFit'
  BY DEF Prepare, HostInvariant, CopiesFit
<1> QED BY <1>1, <1>2 DEF HostInvariant

LEMMA ActivateKeeps ==
  ASSUME HostInvariant, NEW m \in owned, Activate(m)
  PROVE  HostInvariant' /\ candidate = 0 /\ UNCHANGED lastOk /\ active \in owned'
<1>1. /\ TokensFit' /\ candidate = 0 /\ UNCHANGED lastOk /\ active \in owned'
  BY DEF Activate, HostInvariant, TokensFit
<1>2. CopiesFit'
  BY DEF Activate, HostInvariant, CopiesFit
<1> QED BY <1>1, <1>2 DEF HostInvariant

(* Warming up the candidate: it becomes active with copies of that very run,   *)
(* or the active Module stays as it was.                                      *)
LEMMA WarmUpKeeps ==
  ASSUME HostInvariant, WarmUp
  PROVE  /\ HostInvariant' /\ candidate \in Module
         /\ active' # active => /\ lastOk'[active'] = hostRuns'
                                /\ active' \notin poisoned'
                                /\ active \in owned'
         /\ snapshot'[active] = snapshot[active]
         /\ active \in poisoned' <=> active \in poisoned
         /\ \A x \in Module : lastOk'[x] # lastOk[x] => x = candidate
<1>0. candidate = built /\ candidate \in Module /\ active \in Module /\ active # candidate
  BY HostAssumption DEF WarmUp, HostInvariant, TokensFit, Module
<1>1. /\ CopiesFit'
      /\ \A x \in Module \ {candidate} : snapshot'[x] = snapshot[x] /\ lastOk'[x] = lastOk[x]
      /\ \A x \in Module \ {candidate} : x \in poisoned' <=> x \in poisoned
      /\ reply'.error = "none" => lastOk'[candidate] = hostRuns' /\ candidate \notin poisoned'
  BY <1>0, RunKeepsCopies DEF WarmUp, HostInvariant
<1>2. TokensFit'
  <2>1. /\ built' = built /\ candidate' = 0
        /\ active' \in {active, built} /\ owned' \subseteq owned \cup {active}
    BY <1>0 DEF WarmUp
  <2>2. 0 \notin 1 .. built /\ built \in 1 .. built
    BY HostAssumption DEF HostInvariant, TokensFit, Module
  <2> QED BY <2>1, <2>2 DEF HostInvariant, TokensFit
<1> QED BY <1>0, <1>1, <1>2 DEF WarmUp, HostInvariant

(* Building a candidate gives out the next token.                             *)
LEMMA BuildKeeps ==
  ASSUME HostInvariant, BuildCandidate
  PROVE  HostInvariant' /\ candidate = 0 /\ UNCHANGED <<active, lastOk>>
<1>1. TokensFit' /\ candidate = 0 /\ UNCHANGED <<active, lastOk>>
  BY HostAssumption DEF BuildCandidate, HostInvariant, TokensFit, Module
<1>2. reply' = reply \/ reply'.error = "build"
  BY DEF BuildCandidate, Error
<1>3. CopiesFit'
  BY <1>2 DEF BuildCandidate, HostInvariant, CopiesFit
<1> QED BY <1>1, <1>3 DEF HostInvariant

(* The Modules that can be run: the active one and those replaced.             *)
LEMMA StepKeeps ==
  ASSUME HostInvariant, [NavHostNext]_navHostVars
  PROVE  HostInvariant'
<1>1. ASSUME NEW m, NEW capacity, Supply(m, capacity) PROVE HostInvariant'
  BY <1>1 DEF Supply, HostInvariant, TokensFit, CopiesFit
<1>2. ASSUME NEW m \in {active} \cup owned, RunChecked(m) \/ RunUnchecked(m) PROVE HostInvariant'
  <2>1. m \in 1 .. built
    BY <1>2 DEF HostInvariant, TokensFit
  <2> QED BY <1>2, <2>1, RunCheckedKeeps, RunUncheckedKeeps
<1>3. ASSUME UNCHANGED navHostVars PROVE HostInvariant'
  BY <1>3 DEF navHostVars, HostInvariant, TokensFit, CopiesFit
<1> QED BY <1>1, <1>2, <1>3, BuildKeeps, WarmUpKeeps, PrepareKeeps, ActivateKeeps DEF NavHostNext

(* Initially the host has one Module that never ran.                          *)
LEMMA InitFits ==
  ASSUME NavHostInit
  PROVE  HostInvariant
<1>1. TokensFit
  BY HostAssumption DEF NavHostInit, TokensFit, Module
<1>2. CopiesFit
  BY DEF NavHostInit, CopiesFit, Blank, Error
<1> QED BY <1>1, <1>2 DEF HostInvariant

(* The inductive invariant (NavigationHost::reload and activate).              *)
THEOREM HostInvariantHolds == NavHostSpec => []HostInvariant
<1> QED BY InitFits, StepKeeps, PTL DEF NavHostSpec

(* What a host shows of a Module after a run is of one run of that Module, its  *)
(* last successful one (refresh_snapshot).                                    *)
THEOREM CopiesAreOfOneRun == NavHostSpec => []SnapshotsAreOfOneRun
<1>1. HostInvariant => SnapshotsAreOfOneRun
  BY DEF HostInvariant, CopiesFit, SnapshotsAreOfOneRun
<1> QED BY <1>1, HostInvariantHolds, PTL

(* A reload replaces the active Module by one that has just run, or leaves it   *)
(* with all it had; no Module is lost when another is activated; and a checked  *)
(* call runs only the Module its input was made for.                          *)
THEOREM ReloadsAreAtomic == NavHostSpec => ReloadIsAllOrNothing
<1> DEFINE Atomic ==
      /\ candidate # 0 =>
           /\ active' # active => lastOk'[active'] = hostRuns' /\ active' \notin poisoned'
           /\ snapshot'[active] = snapshot[active]
           /\ active \in poisoned' <=> active \in poisoned
           /\ \A m \in Module : lastOk'[m] # lastOk[m] => m = candidate
      /\ active' # active => active \in owned'
      /\ checked' => \A m \in Module : lastOk'[m] # lastOk[m] => m = supplied.token
<1>1. ASSUME HostInvariant, [NavHostNext]_navHostVars PROVE Atomic
  <2>1. ASSUME NEW m, NEW capacity, Supply(m, capacity) PROVE Atomic
    BY <2>1 DEF Supply
  <2>2. ASSUME NEW m \in {active} \cup owned, RunChecked(m) PROVE Atomic
    <3>1. m \in 1 .. built
      BY <1>1, <2>2 DEF HostInvariant, TokensFit
    <3> QED BY <1>1, <2>2, <3>1, RunCheckedKeeps
  <2>3. ASSUME NEW m \in {active} \cup owned, RunUnchecked(m) PROVE Atomic
    <3>1. m \in 1 .. built
      BY <1>1, <2>3 DEF HostInvariant, TokensFit
    <3> QED BY <1>1, <2>3, <3>1, RunUncheckedKeeps
  <2>4. ASSUME Prepare \/ BuildCandidate PROVE Atomic
    BY <1>1, <2>4, PrepareKeeps, BuildKeeps
  <2>5. ASSUME NEW m \in owned, Activate(m) PROVE Atomic
    BY <1>1, <2>5, ActivateKeeps
  <2>6. ASSUME WarmUp PROVE Atomic
    <3>1. ~checked'
      BY <2>6 DEF WarmUp
    <3> QED BY <1>1, <2>6, <3>1, WarmUpKeeps
  <2>7. ASSUME UNCHANGED navHostVars PROVE Atomic
    BY <2>7 DEF navHostVars
  <2> QED BY <1>1, <2>1, <2>2, <2>3, <2>4, <2>5, <2>6, <2>7 DEF NavHostNext
<1>2. HostInvariant /\ [NavHostNext]_navHostVars => [Atomic]_navHostVars
  BY <1>1
<1> QED BY <1>2, HostInvariantHolds, PTL DEF NavHostSpec, ReloadIsAllOrNothing
------------------------------------------------------------------------------
(* The allocation harness. *)

Counters == [Operations -> Int]

(* A measurement of this thread that no other has disturbed is the innermost      *)
(* one: the flag is set for it, and the counters tell what was done since.       *)
Measuring(t) ==
  /\ running[t] \in Seq([since : Counters, disturbed : BOOLEAN])
  /\ \A i \in 1 .. Len(running[t]) :
       ~ running[t][i].disturbed =>
         /\ i = Len(running[t])
         /\ counting[t]
         /\ \A o \in Operations : counted[t][o] = performed[t][o] - running[t][i].since[o]

ProbeFits ==
  /\ counting \in [Threads -> BOOLEAN]
  /\ counted \in [Threads -> Counters] /\ performed \in [Threads -> Counters]
  /\ DOMAIN running = Threads /\ DOMAIN report = Threads
  /\ \A t \in Threads : Measuring(t)
  /\ CountsAreExact

LEMMA MeasuringStays ==
  ASSUME NEW u, Measuring(u),
         running'[u] = running[u], counting'[u] = counting[u],
         counted'[u] = counted[u], performed'[u] = performed[u]
  PROVE  Measuring(u)'
BY Zenon DEF Measuring

LEMMA ProbeStarts ==
  ASSUME ProbeInit
  PROVE  ProbeFits
<1>1. Zero \in Counters
  BY DEF Zero, Counters
<1>2. counting \in [Threads -> BOOLEAN]
  BY Zenon DEF ProbeInit
<1>3. \A t \in Threads : Measuring(t)
  BY DEF ProbeInit, Measuring
<1>4. CountsAreExact
  BY DEF ProbeInit, CountsAreExact, NoReport
<1> QED BY <1>1, <1>2, <1>3, <1>4 DEF ProbeInit, ProbeFits

(* An operation is counted by the measurement of its own thread, if one runs.     *)
LEMMA OperateKeeps ==
  ASSUME ProbeFits, NEW t \in Threads, NEW o \in Operations, Operate(t, o)
  PROVE  ProbeFits'
<1>1. /\ performed' = [performed EXCEPT ![t][o] = @ + 1]
      /\ counted' = IF counting[t] THEN [counted EXCEPT ![t][o] = @ + 1] ELSE counted
      /\ UNCHANGED <<counting, running, report>>
  BY DEF Operate
<1>2. /\ performed' \in [Threads -> Counters] /\ counted' \in [Threads -> Counters]
      /\ \A u \in Threads \ {t} : performed'[u] = performed[u] /\ counted'[u] = counted[u]
      /\ \A p \in Operations :
           performed'[t][p] = IF p = o THEN performed[t][p] + 1 ELSE performed[t][p]
      /\ counting[t] => \A p \in Operations :
           counted'[t][p] = IF p = o THEN counted[t][p] + 1 ELSE counted[t][p]
  BY <1>1 DEF ProbeFits, Counters
<1>3. ASSUME NEW u \in Threads
      PROVE  Measuring(u)'
  <2>1. running'[u] = running[u] /\ counting'[u] = counting[u]
    BY <1>1
  <2>2. running[u] \in Seq([since : Counters, disturbed : BOOLEAN])
    BY DEF ProbeFits, Measuring
  <2>3. ASSUME NEW i \in 1 .. Len(running[u]), ~ running[u][i].disturbed
        PROVE  /\ i = Len(running[u])
               /\ counting[u]
               /\ \A p \in Operations : counted'[u][p] = performed'[u][p] - running[u][i].since[p]
    <3>1. /\ i = Len(running[u]) /\ counting[u]
          /\ \A p \in Operations : counted[u][p] = performed[u][p] - running[u][i].since[p]
      BY <2>3 DEF ProbeFits, Measuring
    <3>2. \A p \in Operations : /\ running[u][i].since[p] \in Int
                                /\ performed[u][p] \in Int /\ counted[u][p] \in Int
      <4>1. running[u][i] \in [since : Counters, disturbed : BOOLEAN]
        BY <2>2, ElementOfSeq
      <4> QED BY <4>1 DEF ProbeFits, Counters
    <3>3. CASE u = t
      BY <1>2, <3>1, <3>2, <3>3
    <3>4. CASE u # t
      BY <1>2, <3>1, <3>4
    <3> QED BY <3>3, <3>4
  <2> QED BY <2>1, <2>2, <2>3 DEF Measuring
<1>4. CountsAreExact'
  BY <1>1 DEF ProbeFits, CountsAreExact
<1> QED BY <1>1, <1>2, <1>3, <1>4 DEF ProbeFits

(* A measurement takes flag and counters over from those it begins in.           *)
LEMMA BeginKeeps ==
  ASSUME ProbeFits, NEW t \in Threads, Begin(t)
  PROVE  ProbeFits'
<1> DEFINE Measurement == [since : Counters, disturbed : BOOLEAN]
           outer == [i \in DOMAIN running[t] |-> [running[t][i] EXCEPT !.disturbed = TRUE]]
           new == [since |-> performed[t], disturbed |-> FALSE]
<1>1. /\ counting' = [counting EXCEPT ![t] = TRUE]
      /\ counted' = [counted EXCEPT ![t] = Zero]
      /\ running' = [running EXCEPT ![t] = Append(outer, new)]
      /\ UNCHANGED <<performed, report>>
  BY DEF Begin, Cleared
<1>2. Zero \in Counters /\ TRUE \in BOOLEAN /\ FALSE \in BOOLEAN
  BY DEF Zero, Counters
<1>3. counting' \in [Threads -> BOOLEAN]
  BY <1>1, Zenon DEF ProbeFits
<1>4. counted' \in [Threads -> Counters]
  BY <1>1, <1>2 DEF ProbeFits
<1>5. new \in Measurement /\ new.since = performed[t] /\ new.disturbed = FALSE
  BY <1>2 DEF ProbeFits
<1>6. /\ outer \in Seq(Measurement) /\ Len(outer) = Len(running[t])
      /\ \A i \in 1 .. Len(outer) : outer[i].disturbed = TRUE
  <2>1. running[t] \in Seq(Measurement)
    BY DEF ProbeFits, Measuring
  <2>2. \A i \in 1 .. Len(running[t]) :
          /\ outer[i] \in Measurement
          /\ outer[i].disturbed = TRUE
    <3> TAKE i \in 1 .. Len(running[t])
    <3>1. running[t][i] \in Measurement
      BY <2>1, ElementOfSeq
    <3>2. outer[i] = [running[t][i] EXCEPT !.disturbed = TRUE]
      BY <2>1
    <3> HIDE DEF outer
    <3> QED BY <3>1, <3>2
  <2>3. Len(running[t]) \in Nat /\ outer = [i \in 1 .. Len(running[t]) |-> outer[i]]
    BY <2>1
  <2> HIDE DEF outer
  <2>4. outer \in [1 .. Len(running[t]) -> Measurement]
    BY <2>2, <2>3
  <2>5. outer \in Seq(Measurement)
    BY <2>3, <2>4, SeqDef
  <2>6. Len(outer) = Len(running[t])
    BY <2>3, <2>5
  <2> QED BY <2>2, <2>5, <2>6
<1> HIDE DEF outer, new
<1>7. ASSUME NEW u \in Threads
      PROVE  Measuring(u)'
  <2>1. CASE u = t
    <3>1. running'[t] = Append(outer, new) /\ counting'[t] = TRUE /\ counted'[t] = Zero
          /\ performed'[t] = performed[t]
      BY <1>1 DEF ProbeFits
    <3>2. /\ running'[t] \in Seq(Measurement) /\ Len(running'[t]) = Len(outer) + 1
          /\ \A i \in 1 .. Len(outer) : running'[t][i] = outer[i]
          /\ running'[t][Len(outer) + 1] = new
      BY <1>5, <1>6, <3>1
    <3>3. ASSUME NEW i \in 1 .. Len(running'[t]), ~ running'[t][i].disturbed
          PROVE  i = Len(running'[t]) /\ running'[t][i] = new
      <4>1. i \notin 1 .. Len(outer)
        BY <1>6, <3>2, <3>3
      <4> QED BY <1>6, <3>2, <4>1
    <3>4. \A o \in Operations : counted'[t][o] = performed'[t][o] - performed[t][o]
      BY <3>1 DEF Zero, ProbeFits, Counters
    <3>5. counting'[t]
      BY <3>1
    <3> QED BY <1>5, <2>1, <3>2, <3>3, <3>4, <3>5 DEF Measuring
  <2>2. CASE u # t
    <3>1. /\ running'[u] = running[u] /\ counting'[u] = counting[u]
          /\ counted'[u] = counted[u] /\ performed'[u] = performed[u]
      BY <1>1, <2>2 DEF ProbeFits
    <3>2. Measuring(u)
      BY DEF ProbeFits
    <3> QED BY <3>1, <3>2, MeasuringStays
  <2> QED BY <2>1, <2>2
<1>8. CountsAreExact'
  BY <1>1 DEF ProbeFits, CountsAreExact
<1> QED BY <1>1, <1>3, <1>4, <1>7, <1>8 DEF ProbeFits

(* What is reported of an undisturbed measurement is what the counters hold.      *)
LEMMA FinishKeeps ==
  ASSUME ProbeFits, NEW t \in Threads, Finish(t)
  PROVE  ProbeFits'
<1> DEFINE Measurement == [since : Counters, disturbed : BOOLEAN]
           n == Len(running[t])
           m == running[t][n]
           told == [counted |-> counted[t],
                    true |-> [o \in Operations |-> performed[t][o] - m.since[o]],
                    disturbed |-> m.disturbed]
<1>1. /\ running[t] # <<>>
      /\ report' = [report EXCEPT ![t] = told]
      /\ counting' = [counting EXCEPT ![t] = FALSE]
      /\ running' = [running EXCEPT ![t] = SubSeq(running[t], 1, n - 1)]
      /\ UNCHANGED <<counted, performed>>
  BY DEF Finish
<1>2. running[t] \in Seq(Measurement) /\ n \in Nat /\ n >= 1
  <2>1. running[t] \in Seq(Measurement)
    BY DEF ProbeFits, Measuring
  <2> QED BY <1>1, <2>1
<1>3. counting' \in [Threads -> BOOLEAN]
  BY <1>1, Zenon DEF ProbeFits
<1>4. ~ m.disturbed => counted[t] = told.true
  <2> HAVE ~ m.disturbed
  <2>1. \A o \in Operations : counted[t][o] = performed[t][o] - m.since[o]
    BY <1>2 DEF ProbeFits, Measuring
  <2>2. counted[t] \in [Operations -> Int]
    BY DEF ProbeFits, Counters
  <2> QED BY <2>1, <2>2
<1>5. CountsAreExact'
  <2>1. report'[t] = told /\ \A u \in Threads \ {t} : report'[u] = report[u]
    BY <1>1 DEF ProbeFits
  <2>2. told.counted = counted[t] /\ told.disturbed = m.disturbed
    OBVIOUS
  <2> HIDE DEF told, m
  <2> QED BY <1>4, <2>1, <2>2 DEF ProbeFits, CountsAreExact
<1>6. ASSUME NEW u \in Threads
      PROVE  Measuring(u)'
  <2>1. CASE u = t
    <3>1. running'[t] = SubSeq(running[t], 1, n - 1)
      BY <1>1 DEF ProbeFits
    <3>2. /\ running'[t] \in Seq(Measurement) /\ Len(running'[t]) = n - 1
          /\ \A i \in 1 .. n - 1 : running'[t][i] = running[t][i]
      <4>1. 1 \in 1 .. Len(running[t]) + 1 /\ n - 1 \in 1 - 1 .. Len(running[t])
        BY <1>2
      <4> HIDE DEF Measurement
      <4> QED BY <1>2, <3>1, <4>1, SubSeqProperties
    <3>3. ASSUME NEW i \in 1 .. n - 1
          PROVE  running[t][i].disturbed
      BY <1>2 DEF ProbeFits, Measuring
    <3> QED BY <2>1, <3>2, <3>3 DEF Measuring
  <2>2. CASE u # t
    <3>1. /\ running'[u] = running[u] /\ counting'[u] = counting[u]
          /\ counted'[u] = counted[u] /\ performed'[u] = performed[u]
      BY <1>1, <2>2 DEF ProbeFits
    <3>2. Measuring(u)
      BY DEF ProbeFits
    <3> QED BY <3>1, <3>2, MeasuringStays
  <2> QED BY <2>1, <2>2
<1> QED BY <1>1, <1>3, <1>5, <1>6 DEF ProbeFits

(* The inductive invariant of the thread-local flag and counters.                *)
THEOREM ProbeFitsAlways == ProbeSpec => []ProbeFits
<1>1. ASSUME ProbeFits, UNCHANGED probeVars
      PROVE  ProbeFits'
  <2>1. /\ counting' = counting /\ counted' = counted /\ performed' = performed
        /\ running' = running /\ report' = report
    BY <1>1 DEF probeVars
  <2>2. \A t \in Threads : Measuring(t)'
    BY <1>1, <2>1, MeasuringStays DEF ProbeFits
  <2>3. CountsAreExact'
    BY <1>1, <2>1 DEF ProbeFits, CountsAreExact
  <2> QED BY <1>1, <2>1, <2>2, <2>3, Zenon DEF ProbeFits
<1>2. ASSUME ProbeFits, ProbeNext
      PROVE  ProbeFits'
  BY <1>2, OperateKeeps, BeginKeeps, FinishKeeps DEF ProbeNext
<1> QED BY <1>1, <1>2, ProbeStarts, PTL DEF ProbeSpec

(* A measurement reports what its thread did, exactly, whatever other threads do,  *)
(* unless another began inside it (GlobalProbe::begin and finish).                *)
THEOREM MeasurementsAreExact == ProbeSpec => []CountsAreExact
<1>1. ProbeFits => CountsAreExact
  BY DEF ProbeFits
<1> QED BY <1>1, ProbeFitsAlways, PTL
------------------------------------------------------------------------------
(* The image example. *)

(* What homography made and warp completed, on the way to metrics.               *)
Filled(r) == r = [features |-> r.features, matches |-> r.matches, inliers |-> r.inliers,
                  warped |-> r.warped, targetGray |-> r.targetGray]

Registered(r) ==
  /\ Filled(r)
  /\ r.matches \in Seq(Nat \X Nat) /\ Len(r.matches) >= MinMatches
  /\ \A i \in DOMAIN r.matches :
       r.matches[i][1] < r.features.source /\ r.matches[i][2] < r.features.target

ImageFits ==
  /\ imageUnit \in {"orb", "match", "homography", "warp", "metrics"} => pair.source = pair.target
  /\ imageUnit = "homography" => candidates \in MatchLists
  /\ imageUnit \in {"warp", "metrics"} => Registered(registration)
  /\ imageUnit = "metrics" =>
       registration.warped = pair.source /\ registration.targetGray = pair.target
  /\ RegistrationIsWhole

LEMMA HomographyKeeps ==
  ASSUME ImageFits, Homography
  PROVE  ImageFits'
<1>1. CASE FailImages
  BY <1>1 DEF ImageFits, FailImages, host, RegistrationIsWhole
<1>2. CASE ~ FailImages
  <2>1. PICK mask \in [DOMAIN candidates -> BOOLEAN] :
          registration' = [features |-> features, matches |-> candidates, inliers |-> mask,
                           warped |-> 0, targetGray |-> 0]
    BY <1>2 DEF Homography
  <2>2. /\ Registrable(candidates) /\ imageUnit = "homography" /\ imageUnit' = "warp"
        /\ UNCHANGED <<pair, features, candidates, points, host>>
    BY <1>2 DEF Homography
  <2>3. candidates \in Seq(Nat \X Nat)
    BY <2>2, ImageAssumption DEF ImageFits
  <2>4. Registered(registration)'
    BY <2>1, <2>2, <2>3 DEF Registrable, Registered, Filled
  <2>5. RegistrationIsWhole'
    BY <2>2 DEF ImageFits, RegistrationIsWhole, host
  <2> QED BY <2>2, <2>4, <2>5 DEF ImageFits
<1> QED BY <1>1, <1>2

LEMMA WarpKeeps ==
  ASSUME ImageFits, Warp
  PROVE  ImageFits'
<1>1. CASE FailImages
  BY <1>1 DEF ImageFits, FailImages, host, RegistrationIsWhole
<1>2. CASE ~ FailImages
  <2>1. /\ imageUnit = "warp" /\ imageUnit' = "metrics"
        /\ registration' = [registration EXCEPT !.warped = pair.source, !.targetGray = pair.target]
        /\ UNCHANGED <<pair, features, candidates, points, host>>
    BY <1>2 DEF Warp
  <2>2. Registered(registration)
    BY <2>1 DEF ImageFits
  <2>3. registration' = [features |-> registration.features, matches |-> registration.matches,
                         inliers |-> registration.inliers,
                         warped |-> pair.source, targetGray |-> pair.target]
    BY <2>1, <2>2 DEF Registered, Filled
  <2>4. Registered(registration)'
    BY <2>2, <2>3 DEF Registered, Filled
  <2>5. RegistrationIsWhole'
    BY <2>1 DEF ImageFits, RegistrationIsWhole, host
  <2> QED BY <2>1, <2>3, <2>4, <2>5 DEF ImageFits
<1> QED BY <1>1, <1>2

(* The points published are the matches of the registration, one by one.         *)
LEMMA MetricsKeeps ==
  ASSUME ImageFits, Metrics
  PROVE  ImageFits'
<1>1. CASE FailImages
  BY <1>1 DEF ImageFits, FailImages, host, RegistrationIsWhole
<1>2. CASE ~ FailImages
  <2>1. /\ imageUnit = "metrics" /\ imageUnit' = "idle"
        /\ ~ (Len(Pushed) > MaxMatches)
        /\ imageSnapshot' = registration
        /\ lastSuccess' = [pair |-> pair, points |-> Pushed]
    BY <1>2 DEF Metrics
  <2>2. /\ Registered(registration) /\ pair.source = pair.target
        /\ registration.warped = pair.source /\ registration.targetGray = pair.target
    BY <2>1 DEF ImageFits
  <2>3. registration.matches \in Seq(Nat \X Nat)
    BY <2>2 DEF Registered
  <2>4. /\ Len(Pushed) = Len(registration.matches)
        /\ \A i \in DOMAIN registration.matches : Pushed[i] = Correspondence(i)
    BY <2>3 DEF Pushed
  <2>5. Len(registration.matches) \in MinMatches .. MaxMatches
    <3>1. MinMatches \in Nat /\ MaxMatches \in Nat
      BY ImageAssumption
    <3>2. Len(registration.matches) \in Nat /\ Len(registration.matches) >= MinMatches
      BY <2>2, <2>3 DEF Registered
    <3>3. ~ (Len(registration.matches) > MaxMatches)
      BY <2>1, <2>4
    <3> QED BY <3>1, <3>2, <3>3
  <2>6. ASSUME NEW i \in DOMAIN registration.matches
        PROVE  /\ <<Pushed[i].source, Pushed[i].target>> = registration.matches[i]
               /\ Pushed[i].source < registration.features.source
               /\ Pushed[i].target < registration.features.target
               /\ Pushed[i].inlier = registration.inliers[i]
    <3>1. /\ Pushed[i].source = registration.matches[i][1]
          /\ Pushed[i].target = registration.matches[i][2]
          /\ Pushed[i].inlier = registration.inliers[i]
      <4>1. Pushed[i] = Correspondence(i)
        BY <2>4
      <4> HIDE DEF Pushed
      <4> QED BY <4>1 DEF Correspondence
    <3>2. registration.matches[i] \in Nat \X Nat
      BY <2>3, ElementOfSeq
    <3>3. /\ registration.matches[i][1] < registration.features.source
          /\ registration.matches[i][2] < registration.features.target
      BY <2>2 DEF Registered
    <3> QED BY <3>1, <3>2, <3>3
  <2>7. RegistrationIsWhole'
    BY <2>1, <2>2, <2>4, <2>5, <2>6 DEF RegistrationIsWhole
  <2> QED BY <2>1, <2>7 DEF ImageFits
<1> QED BY <1>1, <1>2

LEMMA ImageStepKeeps ==
  ASSUME ImageFits, ImageNext
  PROVE  ImageFits'
<1>1. CASE StartImages
  BY <1>1 DEF StartImages, ImageFits, host, RegistrationIsWhole
<1>2. CASE Grayscale
  BY <1>2 DEF Grayscale, FailImages, ImageFits, host, RegistrationIsWhole
<1>3. CASE Orb
  BY <1>3 DEF Orb, FailImages, ImageFits, host, RegistrationIsWhole
<1>4. CASE Match
  BY <1>4 DEF Match, ImageFits, host, RegistrationIsWhole
<1> QED
  BY <1>1, <1>2, <1>3, <1>4, HomographyKeeps, WarpKeeps, MetricsKeeps DEF ImageNext

(* The host's registration is of its last successful run and whole, whatever Unit  *)
(* failed since (the six Units and run_demo of the image example).              *)
THEOREM RegistrationAlwaysWhole == ImageSpec => []RegistrationIsWhole
<1>1. ImageInit => ImageFits
  BY DEF ImageInit, ImageFits, RegistrationIsWhole
<1>2. ImageFits /\ [ImageNext]_imageVars => ImageFits'
  <2>1. ASSUME ImageFits, UNCHANGED imageVars
        PROVE  ImageFits'
    BY <2>1, Zenon DEF ImageFits, imageVars, Registered, Filled, RegistrationIsWhole
  <2> QED BY <2>1, ImageStepKeeps
<1>3. ImageFits => RegistrationIsWhole
  BY DEF ImageFits
<1> QED BY <1>1, <1>2, <1>3, PTL DEF ImageSpec
------------------------------------------------------------------------------
(* How the examples thin out points. *)

(* Division rounds down.                                                       *)
LEMMA DivBounds ==
  ASSUME NEW x \in Int, NEW c \in Nat \ {0}
  PROVE  /\ x \div c \in Int
         /\ c * (x \div c) <= x
         /\ x < c * (x \div c) + c
<1>1. /\ x = c * (x \div c) + (x % c) /\ x % c \in 0 .. c - 1 /\ x \div c \in Int
  OBVIOUS
<1> QED BY <1>1

(* What is less stays less when a positive factor is taken away.                  *)
LEMMA DivideOut ==
  ASSUME NEW c \in Nat \ {0}, NEW a \in Int, NEW b \in Int, c * a < c * b
  PROVE  a < b
<1> SUFFICES ASSUME a >= b PROVE FALSE
  OBVIOUS
<1>1. PICK d \in Nat : a = b + d
  <2>1. a - b \in Nat /\ a = b + (a - b)
    OBVIOUS
  <2> QED BY <2>1
<1>2. c * a = c * b + c * d /\ c * d >= 0
  BY <1>1
<1> QED BY <1>2
(* The places bounded_sample takes: the first, then at distances that differ by    *)
(* at most one, up to one such distance from the end.                              *)
SpreadOver(s, length, limit, count) ==
  /\ count \in 1 .. length /\ count <= limit
  /\ s \in [1 .. count -> 0 .. length - 1] /\ s \in Seq(Nat) /\ Len(s) = count
  /\ s[1] = 0
  /\ (length - 1 - s[count]) * count < length
  /\ \A i \in 1 .. count - 1 : s[i] < s[i + 1]
  /\ \A i, j \in 1 .. count - 1 : s[i + 1] - s[i] <= s[j + 1] - s[j] + 1
  /\ length <= limit => \A i \in 1 .. count : s[i] = i - 1

LEMMA SampleIsSpread ==
  ASSUME NEW length \in Nat \ {0}, NEW limit \in Nat \ {0}
  PROVE  SpreadOver(BoundedSample(length, limit), length, limit, Lesser(limit, length))
<1> DEFINE count == Lesser(limit, length)
           s == BoundedSample(length, limit)
<1>1. count \in 1 .. length /\ count <= limit /\ (length <= limit => count = length)
  BY DEF Lesser
<1>2. s = [i \in 1 .. count |-> ((i - 1) * length) \div count]
  BY DEF BoundedSample
<1>3. \A i \in 1 .. count : s[i] = ((i - 1) * length) \div count
  BY <1>2
<1> HIDE DEF count, s
<1>4. ASSUME NEW i \in 1 .. count
      PROVE  /\ s[i] \in Int
             /\ count * s[i] <= (i - 1) * length
             /\ (i - 1) * length < count * s[i] + count
  <2>1. PICK x \in Int : x = (i - 1) * length
    BY <1>1
  <2>2. s[i] = x \div count
    BY <1>3, <2>1
  <2>3. /\ x \div count \in Int /\ count * (x \div count) <= x
        /\ x < count * (x \div count) + count
    BY <1>1, DivBounds
  <2> QED BY <2>1, <2>2, <2>3
<1>5. ASSUME NEW i \in 1 .. count
      PROVE  s[i] \in 0 .. length - 1
  <2>1. (i - 1) * length >= 0 /\ (i - 1) * length + length <= count * length
    <3>1. (i - 1) * length + length = i * length
      BY <1>1
    <3>2. count * length = i * length + (count - i) * length /\ (count - i) * length >= 0
      BY <1>1
    <3>3. /\ (i - 1) * length \in Int /\ i * length \in Int /\ (count - i) * length \in Int
          /\ (i - 1) * length >= 0
      BY <1>1
    <3> QED BY <3>1, <3>2, <3>3
  <2>2. count * (0 - 1) < count * s[i]
    <3>1. count * (0 - 1) = 0 - count
      BY <1>1
    <3>2. PICK p \in Int : p = count * s[i]
      BY <1>1, <1>4
    <3>3. PICK x \in Int : x = (i - 1) * length
      BY <1>1
    <3>4. x >= 0 /\ x < p + count
      BY <1>4, <2>1, <3>2, <3>3
    <3> QED BY <1>1, <3>1, <3>2, <3>4
  <2>3. count * s[i] < count * length
    <3>1. PICK p \in Int, x \in Int, y \in Int :
            p = count * s[i] /\ x = (i - 1) * length /\ y = count * length
      BY <1>1, <1>4
    <3>2. p <= x /\ x + length <= y
      BY <1>4, <2>1, <3>1
    <3>3. p < y
      BY <1>1, <3>2
    <3> QED BY <3>1, <3>3
  <2>4. 0 - 1 < s[i]
    BY <1>1, <1>4, <2>2, DivideOut
  <2>5. s[i] < length
    BY <1>1, <1>4, <2>3, DivideOut
  <2> QED BY <1>4, <2>4, <2>5
<1>6. s \in [1 .. count -> 0 .. length - 1] /\ s \in Seq(Nat) /\ Len(s) = count
  <2>1. s \in [1 .. count -> 0 .. length - 1] /\ s \in [1 .. count -> Nat]
    BY <1>2, <1>5
  <2>2. count \in Nat
    BY <1>1
  <2>3. s \in Seq(Nat)
    BY <2>1, <2>2, SeqDef
  <2> QED BY <2>1, <2>2, <2>3
<1>7. s[1] = 0
  <2>1. s[1] \in Int /\ count * s[1] <= 0 /\ 0 < count * s[1] + count
    BY <1>1, <1>4
  <2>2. count * s[1] < count * 1 /\ count * (0 - 1) < count * s[1]
    BY <1>1, <2>1
  <2> QED BY <1>1, <2>1, <2>2, DivideOut
<1>8. (length - 1 - s[count]) * count < length
  <2>1. s[count] \in Int /\ (count - 1) * length < count * s[count] + count
    BY <1>1, <1>4
  <2>2. (count - 1) * length = count * length - length
    BY <1>1
  <2>3. (length - 1 - s[count]) * count = count * length - count - count * s[count]
    BY <1>1, <2>1
  <2>4. count * length \in Int /\ count * s[count] \in Int
    BY <1>1, <2>1
  <2> QED BY <1>1, <2>1, <2>2, <2>3, <2>4
<1>9. ASSUME NEW i \in 1 .. count - 1
      PROVE  /\ s[i] \in Int /\ s[i + 1] \in Int
             /\ count * (s[i + 1] - s[i]) < length + count
             /\ length - count < count * (s[i + 1] - s[i])
  <2>1. i \in 1 .. count /\ i + 1 \in 1 .. count
    BY <1>1
  <2>2. /\ s[i] \in Int /\ count * s[i] <= (i - 1) * length
        /\ (i - 1) * length < count * s[i] + count
    BY <1>4, <2>1
  <2>3. /\ s[i + 1] \in Int /\ count * s[i + 1] <= i * length
        /\ i * length < count * s[i + 1] + count
    <3>1. PICK k \in 1 .. count : k = i + 1
      BY <2>1
    <3>2. k - 1 = i
      BY <3>1
    <3> QED BY <1>4, <3>1, <3>2
  <2>4. i * length = (i - 1) * length + length
    BY <1>1
  <2>5. count * (s[i + 1] - s[i]) = count * s[i + 1] - count * s[i]
    BY <1>1, <2>2, <2>3
  <2>6. /\ count * s[i + 1] \in Int /\ count * s[i] \in Int /\ (i - 1) * length \in Int
        /\ i * length \in Int
    BY <1>1, <2>2, <2>3
  <2> QED BY <1>1, <2>2, <2>3, <2>4, <2>5, <2>6
<1>10. ASSUME NEW i \in 1 .. count - 1
       PROVE  s[i] < s[i + 1]
  <2>1. count * 0 < count * (s[i + 1] - s[i])
    BY <1>1, <1>9
  <2>2. 0 < s[i + 1] - s[i]
    BY <1>1, <1>9, <2>1, DivideOut
  <2> QED BY <1>9, <2>2
<1>11. ASSUME NEW i \in 1 .. count - 1, NEW j \in 1 .. count - 1
       PROVE  s[i + 1] - s[i] <= s[j + 1] - s[j] + 1
  <2>1. PICK a \in Int, b \in Int : a = s[i + 1] - s[i] /\ b = s[j + 1] - s[j]
    BY <1>9
  <2>2. count * a < length + count /\ length - count < count * b
    BY <1>9, <2>1
  <2>3. count * (b + 2) = count * b + count + count
    BY <1>1
  <2>4. count * a < count * (b + 2)
    <3>1. count * a \in Int /\ count * b \in Int
      BY <1>1
    <3> QED BY <1>1, <2>2, <2>3, <3>1
  <2>5. a < b + 2
    BY <1>1, <2>4, DivideOut
  <2> QED BY <2>1, <2>5
<1>12. ASSUME length <= limit, NEW i \in 1 .. count
       PROVE  s[i] = i - 1
  <2>1. count = length
    BY <1>1, <1>12
  <2>2. /\ s[i] \in Int /\ count * s[i] <= (i - 1) * count
        /\ (i - 1) * count < count * s[i] + count
    BY <1>4, <2>1
  <2>3. count * s[i] < count * i /\ count * (i - 2) < count * s[i]
    <3>1. (i - 1) * count = count * i - count /\ count * (i - 2) = count * i - count - count
      BY <1>1
    <3>2. count * i \in Int /\ count * s[i] \in Int
      BY <1>1, <2>2
    <3> QED BY <1>1, <2>2, <3>1, <3>2
  <2>4. s[i] < i /\ i - 2 < s[i]
    BY <1>1, <2>2, <2>3, DivideOut
  <2> QED BY <2>2, <2>4
<1>13. SpreadOver(s, length, limit, count)
  BY <1>1, <1>5, <1>6, <1>7, <1>8, <1>10, <1>11, <1>12 DEF SpreadOver
<1> QED BY <1>13 DEF s, count
------------------------------------------------------------------------------
(* The point-cloud example. *)

(* A sample of a cloud reaches over all of it, one of each pair as long as the other. *)
Covers(total, sample) ==
  /\ \A i \in DOMAIN sample : sample[i] \in 0 .. total - 1
  /\ \A i \in 1 .. Len(sample) - 1 : sample[i] < sample[i + 1]
  /\ sample[1] = 0
  /\ (total - 1 - sample[Len(sample)]) * Len(sample) < total
Compared(c, aligned, against) ==
  /\ Covers(c.source, aligned) /\ Covers(c.target, against)
  /\ Len(aligned) = Len(against) /\ Len(aligned) <= MaxPoints
  /\ Len(aligned) \in {MaxPoints, c.source, c.target}

CloudFits ==
  /\ cloudUnit \in {"icp", "transform"} => Compared(clouds, samples.source, samples.target)
  /\ cloudUnit = "metrics" => Compared(clouds, alignment.aligned, alignment.against)
  /\ cloudSnapshot # NoCloud => Compared(lastClouds, cloudSnapshot.aligned, cloudSnapshot.against)

LEMMA SampleCovers ==
  ASSUME NEW total \in Nat \ {0}, NEW count \in 1 .. total
  PROVE  Covers(total, BoundedSample(total, count)) /\ Len(BoundedSample(total, count)) = count
<1>1. count = Lesser(count, total) /\ count \in Nat \ {0}
  BY DEF Lesser
<1>2. SpreadOver(BoundedSample(total, count), total, count, count)
  BY <1>1, SampleIsSpread
<1> QED BY <1>2 DEF SpreadOver, Covers

LEMMA SampleCompares ==
  ASSUME NEW c, Accepted(c)
  PROVE  Compared(c, SampleClouds(c).source, SampleClouds(c).target)
<1> DEFINE count == Lesser(MaxPoints, Lesser(c.source, c.target))
<1>1. c.source \in Nat \ {0} /\ c.target \in Nat \ {0} /\ MaxPoints \in Nat \ {0}
  BY CloudAssumption DEF Accepted
<1>2. /\ count \in 1 .. c.source /\ count \in 1 .. c.target /\ count <= MaxPoints
      /\ count \in {MaxPoints, c.source, c.target}
  BY <1>1 DEF Lesser
<1>3. /\ SampleClouds(c).source = BoundedSample(c.source, count)
      /\ SampleClouds(c).target = BoundedSample(c.target, count)
  BY DEF SampleClouds
<1> HIDE DEF count
<1>4. /\ Covers(c.source, BoundedSample(c.source, count)) /\ Len(BoundedSample(c.source, count)) = count
      /\ Covers(c.target, BoundedSample(c.target, count)) /\ Len(BoundedSample(c.target, count)) = count
  BY <1>1, <1>2, SampleCovers
<1> QED BY <1>2, <1>3, <1>4 DEF Compared

LEMMA CloudStepKeeps ==
  ASSUME CloudFits, CloudNext
  PROVE  CloudFits'
<1>1. CASE FailClouds
  BY <1>1 DEF CloudFits, FailClouds, cloudHost, Compared, Covers
<1>2. CASE StartClouds
  BY <1>2 DEF StartClouds, CloudFits, cloudHost, Compared, Covers
<1>3. CASE Sample /\ ~ FailClouds
  <2>1. /\ Accepted(clouds) /\ samples' = SampleClouds(clouds) /\ cloudUnit' = "icp"
        /\ UNCHANGED <<clouds, alignment, cloudHost>>
    BY <1>3 DEF Sample
  <2>2. Compared(clouds, samples'.source, samples'.target)
    BY <2>1, SampleCompares
  <2> QED BY <2>1, <2>2 DEF CloudFits, cloudHost, Compared, Covers
<1>4. CASE Icp /\ ~ FailClouds
  BY <1>4 DEF Icp, CloudFits, cloudHost, Compared, Covers
<1>5. CASE Transform /\ ~ FailClouds
  <2>1. /\ cloudUnit = "transform" /\ cloudUnit' = "metrics"
        /\ alignment' = [aligned |-> samples.source, against |-> samples.target]
        /\ UNCHANGED <<clouds, samples, cloudHost>>
    BY <1>5 DEF Transform
  <2>2. Compared(clouds, samples.source, samples.target)
    BY <2>1 DEF CloudFits
  <2>3. alignment'.aligned = samples.source /\ alignment'.against = samples.target
    BY <2>1
  <2>4. Compared(clouds, alignment'.aligned, alignment'.against)
    BY <2>2, <2>3
  <2> QED BY <2>1, <2>4 DEF CloudFits, cloudHost, Compared, Covers
<1>6. CASE CopyRegistration
  BY <1>6 DEF CopyRegistration, CloudFits, Compared, Covers
<1> QED BY <1>1, <1>2, <1>3, <1>4, <1>5, <1>6 DEF CloudNext

(* Clouds of any two lengths are compared by as many points of each, spread over   *)
(* the whole of both (SampleClouds and bounded_sample of the point-cloud example). *)
THEOREM SamplesAlwaysAgree == CloudSpec => []SamplesAgree
<1>1. CloudInit => CloudFits
  BY DEF CloudInit, CloudFits
<1>2. CloudFits /\ [CloudNext]_cloudVars => CloudFits'
  <2>1. ASSUME CloudFits, UNCHANGED cloudVars
        PROVE  CloudFits'
    BY <2>1, Zenon DEF CloudFits, cloudVars, Compared, Covers
  <2> QED BY <2>1, CloudStepKeeps
<1>3. CloudFits => SamplesAgree
  BY Zenon DEF CloudFits, SamplesAgree, Compared, Covers
<1> QED BY <1>1, <1>2, <1>3, PTL DEF CloudSpec
------------------------------------------------------------------------------
(* How the LiDAR example thins out its map. *)

(* What sampled_map has pushed of each number of points.                          *)
Pushing(G, total, capacity, stride) ==
  /\ G \in [0 .. total -> Seq(Nat)] /\ G[0] = <<>>
  /\ \A k \in 1 .. total :
       G[k] = IF (k - 1) % stride = 0 /\ Len(G[k - 1]) < capacity
                THEN Append(G[k - 1], k - 1) ELSE G[k - 1]

LEMMA EachOfUnfolds ==
  ASSUME NEW total \in Nat, NEW capacity \in Nat, NEW stride \in Nat \ {0}
  PROVE  \E G : EachOf(total, capacity, stride) = G[total] /\ Pushing(G, total, capacity, stride)
<1> DEFINE Body(G) == [n \in 0 .. total |->
             IF n = 0 THEN <<>>
             ELSE IF (n - 1) % stride = 0 /\ Len(G[n - 1]) < capacity
               THEN Append(G[n - 1], n - 1) ELSE G[n - 1]]
           F == CHOOSE G : G = Body(G)
           next == [p \in (1 .. total) \X Seq(Nat) |->
                      IF (p[1] - 1) % stride = 0 /\ Len(p[2]) < capacity
                        THEN Append(p[2], p[1] - 1) ELSE p[2]]
<1>1. EachOf(total, capacity, stride) = F[total]
  BY Zenon DEF EachOf
<1>2. \A k \in 1 .. total, s \in Seq(Nat) : Append(s, k - 1) \in Seq(Nat)
  <2> SUFFICES ASSUME NEW k \in 1 .. total, NEW s \in Seq(Nat)
               PROVE  Append(s, k - 1) \in Seq(Nat)
    OBVIOUS
  <2>1. k - 1 \in Nat
    OBVIOUS
  <2> QED BY <2>1
<1>3. next \in [(1 .. total) \X Seq(Nat) -> Seq(Nat)]
  <2>1. ASSUME NEW p \in (1 .. total) \X Seq(Nat)
        PROVE  (IF (p[1] - 1) % stride = 0 /\ Len(p[2]) < capacity
                  THEN Append(p[2], p[1] - 1) ELSE p[2]) \in Seq(Nat)
    <3>1. p[1] \in 1 .. total /\ p[2] \in Seq(Nat)
      BY <2>1
    <3>2. Append(p[2], p[1] - 1) \in Seq(Nat)
      BY <1>2, <3>1
    <3> QED BY <3>1, <3>2
  <2> QED BY <2>1
<1>4. \A k \in 1 .. total, s \in Seq(Nat) :
        next[<<k, s>>] = IF (k - 1) % stride = 0 /\ Len(s) < capacity
                           THEN Append(s, k - 1) ELSE s
  OBVIOUS
<1>5. PICK H \in [0 .. total -> Seq(Nat)] : Follows(H, total, <<>>, next)
  <2>1. <<>> \in Seq(Nat)
    OBVIOUS
  <2> HIDE DEF next
  <2> QED BY <1>3, <2>1, RecursionExists
<1> HIDE DEF next
<1>6. H = Body(H)
  <2>1. ASSUME NEW k \in 0 .. total
        PROVE  H[k] = IF k = 0 THEN <<>>
                      ELSE IF (k - 1) % stride = 0 /\ Len(H[k - 1]) < capacity
                        THEN Append(H[k - 1], k - 1) ELSE H[k - 1]
    <3>1. CASE k = 0
      BY <1>5, <3>1 DEF Follows
    <3>2. CASE k # 0
      <4>1. k \in 1 .. total /\ k - 1 \in 0 .. total
        BY <3>2
      <4>2. H[k - 1] \in Seq(Nat)
        BY <4>1
      <4>3. H[k] = next[<<k, H[k - 1]>>]
        BY <1>5, <4>1 DEF Follows
      <4> QED BY <1>4, <3>2, <4>1, <4>2, <4>3
    <3> QED BY <3>1, <3>2
  <2> QED BY <1>5, <2>1
<1>7. F = Body(F)
  <2> HIDE DEF Body
  <2> QED BY <1>6, Zenon
<1>8. /\ F = [k \in 0 .. total |-> F[k]]
      /\ F[0] = <<>>
      /\ \A k \in 1 .. total : F[k] = IF (k - 1) % stride = 0 /\ Len(F[k - 1]) < capacity
                                        THEN Append(F[k - 1], k - 1) ELSE F[k - 1]
  <2>1. PICK G : G = F
    OBVIOUS
  <2>2. G = [n \in 0 .. total |->
             IF n = 0 THEN <<>>
             ELSE IF (n - 1) % stride = 0 /\ Len(G[n - 1]) < capacity
               THEN Append(G[n - 1], n - 1) ELSE G[n - 1]]
    BY <1>7, <2>1, Zenon
  <2> HIDE DEF F
  <2>3. \A k \in 0 .. total :
          G[k] = IF k = 0 THEN <<>>
                 ELSE IF (k - 1) % stride = 0 /\ Len(G[k - 1]) < capacity
                   THEN Append(G[k - 1], k - 1) ELSE G[k - 1]
    BY <2>2, Zenon
  <2>4. G = [k \in 0 .. total |-> G[k]]
    <3>1. DOMAIN G = 0 .. total
      BY <2>2, Zenon
    <3>2. G = [k \in DOMAIN G |-> G[k]]
      BY <2>2, Zenon
    <3> QED BY <3>1, <3>2, Zenon
  <2>5. 0 \in 0 .. total /\ \A k \in 1 .. total : k \in 0 .. total /\ k # 0
    OBVIOUS
  <2> QED BY <2>1, <2>3, <2>4, <2>5, Zenon
<1> HIDE DEF F
<1>9. \A k \in 0 .. total : F[k] \in Seq(Nat)
  <2> DEFINE T == {k \in 0 .. total : F[k] \in Seq(Nat)}
  <2>1. 0 \in T
    BY <1>8, SMTT(30)
  <2>2. ASSUME NEW k \in 1 .. total, k - 1 \in T
        PROVE  k \in T
    <3>1. F[k - 1] \in Seq(Nat) /\ k \in 0 .. total
      BY <2>2
    <3>2. Append(F[k - 1], k - 1) \in Seq(Nat)
      BY <1>2, <3>1
    <3>3. F[k] = Append(F[k - 1], k - 1) \/ F[k] = F[k - 1]
      BY <1>8, Zenon
    <3> QED BY <3>1, <3>2, <3>3, Zenon
  <2>3. \A k \in 0 .. total : k \in T
    <3> HIDE DEF T
    <3> QED BY <2>1, <2>2, Along
  <2> QED BY <2>3
<1>10. F \in [0 .. total -> Seq(Nat)]
  BY <1>8, <1>9
<1> QED BY <1>1, <1>8, <1>10 DEF Pushing

(* What is pushed of the first n points: the multiples of the stride in order.    *)
Placed(s, n, capacity, stride) ==
  /\ s \in Seq(Nat) /\ Len(s) <= capacity
  /\ \A i \in 1 .. Len(s) : s[i] = stride * (i - 1)
  /\ Len(s) < capacity => n <= stride * Len(s)
  /\ n = 0 => Len(s) = 0
  /\ n > 0 => Len(s) > 0 /\ stride * (Len(s) - 1) < n

LEMMA PushPlaces ==
  ASSUME NEW n \in Nat, NEW capacity \in Nat \ {0}, NEW stride \in Nat \ {0},
         NEW s, Placed(s, n, capacity, stride)
  PROVE  Placed(IF n % stride = 0 /\ Len(s) < capacity THEN Append(s, n) ELSE s,
                n + 1, capacity, stride)
<1> DEFINE c == Len(s)
<1>1. s \in Seq(Nat) /\ c \in Nat /\ c <= capacity
  BY DEF Placed
<1>2. /\ c < capacity => n <= stride * c
      /\ n = 0 => c = 0
      /\ n > 0 => c > 0 /\ stride * (c - 1) < n
  BY DEF Placed
<1>3. \A i \in 1 .. c : s[i] = stride * (i - 1)
  BY DEF Placed
<1>4. PICK q \in Int : q = n \div stride
  BY DivBounds
<1>5. PICK r \in Int : r = n % stride /\ n = stride * q + r /\ r \in 0 .. stride - 1
  BY <1>4
<1> HIDE DEF c
<1>6. PICK x \in Int : x = stride * c
  BY <1>1
<1>7. PICK y \in Int : y = stride * (c - 1) /\ y = x - stride
  BY <1>1, <1>6
<1>8. n <= x /\ r = 0 => n = x
  <2> HAVE n <= x /\ r = 0
  <2>1. n = stride * q /\ n >= 0
    BY <1>5
  <2>2. CASE n = 0
    BY <1>2, <1>6, <2>2
  <2>3. CASE n > 0
    <3>1. y < n
      BY <1>2, <1>7, <2>3
    <3>2. stride * (c - 1) < stride * q
      BY <1>7, <2>1, <3>1
    <3>3. c - 1 < q
      <4>1. c - 1 \in Int
        BY <1>1
      <4> QED BY <3>2, <4>1, DivideOut
    <3>4. PICK d \in Nat : q = c + d
      <4>1. q - c \in Nat /\ q = c + (q - c)
        BY <1>1, <3>3
      <4> QED BY <4>1
    <3>5. n = x + stride * d /\ stride * d >= 0
      BY <1>1, <1>6, <2>1, <3>4
    <3> QED BY <3>5
  <2> QED BY <2>1, <2>2, <2>3
<1>9. n <= x /\ r # 0 => n # x
  <2> SUFFICES ASSUME n = x, r # 0 PROVE FALSE
    OBVIOUS
  <2>1. stride * q < stride * c /\ stride * c < stride * (q + 1)
    <3>1. PICK z \in Int : z = stride * q /\ stride * (q + 1) = z + stride
      BY <1>4
    <3>2. z < x /\ x < z + stride
      BY <1>5, <3>1
    <3> QED BY <1>6, <3>1, <3>2
  <2>2. q < c
    BY <1>1, <2>1, DivideOut
  <2>3. c < q + 1
    <3>1. q + 1 \in Int /\ c \in Int
      BY <1>1
    <3> QED BY <2>1, <3>1, DivideOut
  <2> QED BY <1>1, <2>2, <2>3
<1>10. CASE r = 0 /\ c < capacity
  <2> DEFINE t == Append(s, n)
  <2>1. n = x
    BY <1>2, <1>6, <1>8, <1>10
  <2>2. /\ t \in Seq(Nat) /\ Len(t) = c + 1 /\ t[c + 1] = n
        /\ \A i \in 1 .. c : t[i] = s[i]
    BY <1>1 DEF c
  <2> HIDE DEF t
  <2>3. ASSUME NEW i \in 1 .. Len(t)
        PROVE  t[i] = stride * (i - 1)
    <3>1. CASE i = c + 1
      <4>1. i - 1 = c
        BY <1>1, <3>1
      <4> QED BY <1>6, <2>1, <2>2, <3>1, <4>1
    <3>2. CASE i # c + 1
      <4>1. i \in 1 .. c
        BY <1>1, <2>2, <2>3, <3>2
      <4> QED BY <1>3, <2>2, <4>1
    <3> QED BY <3>1, <3>2
  <2>4. stride * Len(t) = x + stride /\ stride * (Len(t) - 1) = x
    BY <1>1, <1>6, <2>2
  <2>5. Placed(t, n + 1, capacity, stride)
    BY <1>1, <1>10, <2>1, <2>2, <2>3, <2>4 DEF Placed
  <2>6. (IF n % stride = 0 /\ Len(s) < capacity THEN Append(s, n) ELSE s) = t
    BY <1>5, <1>10 DEF t, c
  <2> QED BY <2>5, <2>6
<1>11. CASE ~ (r = 0 /\ c < capacity)
  <2>1. c < capacity => n + 1 <= x
    BY <1>2, <1>6, <1>9, <1>11
  <2>2. n + 1 > 0 /\ (c > 0) /\ stride * (c - 1) < n + 1
    <3>1. CASE n = 0
      <4>1. c = 0 /\ x = 0
        BY <1>2, <1>6, <3>1
      <4>2. FALSE
        BY <2>1, <3>1, <4>1
      <4> QED BY <4>2
    <3>2. CASE n > 0
      BY <1>2, <1>7, <3>2
    <3> QED BY <3>1, <3>2
  <2>3. Placed(s, n + 1, capacity, stride)
    BY <1>1, <1>3, <1>6, <2>1, <2>2 DEF Placed, c
  <2>4. (IF n % stride = 0 /\ Len(s) < capacity THEN Append(s, n) ELSE s) = s
    BY <1>5, <1>11 DEF c
  <2> QED BY <2>3, <2>4
<1> QED BY <1>10, <1>11

LEMMA EachOfPlaces ==
  ASSUME NEW total \in Nat, NEW capacity \in Nat \ {0}, NEW stride \in Nat \ {0}
  PROVE  Placed(EachOf(total, capacity, stride), total, capacity, stride)
<1>1. PICK G : EachOf(total, capacity, stride) = G[total] /\ Pushing(G, total, capacity, stride)
  BY EachOfUnfolds
<1> DEFINE T == {k \in 0 .. total : Placed(G[k], k, capacity, stride)}
<1>2. 0 \in T
  <2>1. G[0] = <<>>
    BY <1>1 DEF Pushing
  <2>2. Placed(<<>>, 0, capacity, stride)
    BY DEF Placed
  <2> QED BY <2>1, <2>2
<1>3. ASSUME NEW k \in 1 .. total, k - 1 \in T
      PROVE  k \in T
  <2>1. k - 1 \in Nat /\ (k - 1) + 1 = k /\ Placed(G[k - 1], k - 1, capacity, stride)
    BY <1>3
  <2>2. Placed(IF (k - 1) % stride = 0 /\ Len(G[k - 1]) < capacity
                 THEN Append(G[k - 1], k - 1) ELSE G[k - 1], (k - 1) + 1, capacity, stride)
    BY <2>1, PushPlaces
  <2>3. G[k] = IF (k - 1) % stride = 0 /\ Len(G[k - 1]) < capacity
                 THEN Append(G[k - 1], k - 1) ELSE G[k - 1]
    BY <1>1 DEF Pushing
  <2>4. Placed(G[k], k, capacity, stride)
    BY <2>1, <2>2, <2>3, Zenon
  <2> QED BY <2>4
<1>4. \A k \in 0 .. total : k \in T
  <2> HIDE DEF T
  <2> QED BY <1>2, <1>3, Along
<1>5. total \in 0 .. total
  OBVIOUS
<1> QED BY <1>1, <1>4, <1>5

(* The stride is enough for the capacity, and no more than needed.                *)
LEMMA StrideCovers ==
  ASSUME NEW total \in Nat, NEW capacity \in Nat \ {0}
  PROVE  /\ Stride(total, capacity) \in Nat \ {0}
         /\ total <= Stride(total, capacity) * capacity
         /\ total <= capacity => Stride(total, capacity) = 1
<1> DEFINE q == (total + capacity - 1) \div capacity
<1>1. PICK x \in Int : x = total + capacity - 1
  OBVIOUS
<1>2. q \in Int /\ capacity * q <= x /\ x < capacity * q + capacity
  BY <1>1, DivBounds
<1>3. Stride(total, capacity) = IF q >= 1 THEN q ELSE 1
  BY DEF Stride, Greater
<1> HIDE DEF q
<1>4. total <= capacity => q <= 1
  <2> SUFFICES ASSUME total <= capacity PROVE q < 2
    BY <1>2
  <2>1. capacity * q < capacity * 2
    BY <1>1, <1>2
  <2> QED BY <1>2, <2>1, DivideOut
<1>5. q < 1 => total = 0
  <2> SUFFICES ASSUME q < 1 PROVE total = 0
    OBVIOUS
  <2>1. PICK d \in Nat : q = 0 - d
    <3>1. 0 - q \in Nat /\ q = 0 - (0 - q)
      BY <1>2
    <3> QED BY <3>1
  <2>2. capacity * q = 0 - capacity * d /\ capacity * d >= 0
    BY <2>1
  <2> QED BY <1>1, <1>2, <2>2
<1>6. q >= 1 => total <= q * capacity
  <2> HAVE q >= 1
  <2>1. q * capacity = capacity * q
    BY <1>2
  <2> QED BY <1>1, <1>2, <2>1
<1> QED BY <1>2, <1>3, <1>4, <1>5, <1>6

------------------------------------------------------------------------------
(* The LiDAR example. *)

(* What slamwich answered for a frame.                                         *)
ResultType == [update : BOOLEAN, keyframe : BOOLEAN, edges : Seq(Nat \X Nat \X BOOLEAN)]

(* The frames accepted so far, each the successor of the one before.             *)
HistoryFits ==
  /\ accepted \in Seq([frame : LidarFrames, result : ResultType])
  /\ \A i \in 2 .. Len(accepted) :
       /\ accepted[i].frame.index = accepted[i - 1].frame.index + 1
       /\ accepted[i].frame.time > accepted[i - 1].frame.time
  /\ lastFrame = IF accepted = <<>> THEN Absent
                 ELSE [index |-> accepted[Len(accepted)].frame.index,
                       time |-> accepted[Len(accepted)].frame.time]

Updating == {i \in DOMAIN accepted : accepted[i].result.update}
Extending == {i \in DOMAIN accepted : accepted[i].result.keyframe}
CountsFit ==
  /\ keyframes \in Seq(Nat)
  /\ IsFiniteSet(Updating) /\ updates = Cardinality(Updating)
  /\ IsFiniteSet(Extending) /\ Len(keyframes) = Cardinality(Extending)

(* The queue holds the last indices of the first n accepted frames.              *)
Trail(queue, frames, n) ==
  /\ queue \in Seq(Nat) /\ Len(queue) = Lesser(TrailLimit, n)
  /\ \A i \in 1 .. Len(queue) : queue[i] = frames[n - Len(queue) + i].frame.index

Published == IF stage = "snapshot" THEN Len(accepted) - 1 ELSE Len(accepted)
TrailsFit ==
  /\ trails = [estimated |-> trails.estimated, odometry |-> trails.odometry,
               reference |-> trails.reference]
  /\ \A t \in {"estimated", "odometry", "reference"} : Trail(trails[t], accepted, Published)

(* The run on its way through the Units.                                        *)
RunFits ==
  /\ stage \in {"idle", "scan_prepare", "slam", "snapshot"}
  /\ stage # "idle" => frame \in LidarFrames
  /\ stage = "slam" => ValidFrame(frame) /\ sampled = BoundedSample(frame.size, ScanLimit)
  /\ stage = "snapshot" =>
       /\ accepted # <<>> /\ frame = accepted[Len(accepted)].frame
       /\ ValidFrame(frame)
       /\ observation.estimated = frame.index
       /\ observation.updates = updates /\ observation.keyframes = Len(keyframes)
       /\ observation.scan = BoundedSample(frame.size, ScanLimit)

(* What the host shows of the last accepted frame, until the next is accepted.     *)
Shown ==
  /\ lastSnapshot.frame = accepted[Len(accepted)].frame
  /\ lastSnapshot.trails = trails
  /\ lastSnapshot.observation.updates = updates
  /\ lastSnapshot.observation.keyframes = Len(keyframes)
  /\ lastSnapshot.dropped + Len(lastSnapshot.observation.scan) = lastSnapshot.frame.size

LidarFits ==
  /\ HistoryFits /\ CountsFit /\ TrailsFit /\ RunFits
  /\ stage # "snapshot" /\ accepted # <<>> => Shown

(* One more element satisfies the condition, or none.                             *)
LEMMA OneMore ==
  ASSUME NEW n \in Nat, NEW T \in SUBSET (1 .. n), IsFiniteSet(T), NEW U,
         U = T \/ U = T \cup {n + 1}
  PROVE  IsFiniteSet(U) /\ Cardinality(U) = Cardinality(T) + (IF n + 1 \in U THEN 1 ELSE 0)
<1>1. n + 1 \notin T
  OBVIOUS
<1>2. IsFiniteSet(T \cup {n + 1}) /\ Cardinality(T \cup {n + 1}) = Cardinality(T) + 1
  BY <1>1, FS_AddElement
<1>3. Cardinality(T) \in Nat
  BY FS_CardinalityType
<1>4. CASE U = T
  BY <1>1, <1>3, <1>4
<1>5. CASE U = T \cup {n + 1}
  <2>1. n + 1 \in U
    BY <1>5
  <2> QED BY <1>2, <1>5, <2>1
<1> QED BY <1>4, <1>5

(* push_bounded keeps the newest.                                                *)
LEMMA PushKeepsTrail ==
  ASSUME NEW frames, NEW n \in Nat, NEW queue, Trail(queue, frames, n),
         NEW value \in Nat, value = frames[n + 1].frame.index
  PROVE  Trail(PushBounded(queue, value, TrailLimit), frames, n + 1)
<1> DEFINE q == PushBounded(queue, value, TrailLimit)
<1>1. TrailLimit \in Nat \ {0}
  BY LidarAssumption
<1>2. /\ queue \in Seq(Nat) /\ Len(queue) = Lesser(TrailLimit, n)
      /\ \A i \in 1 .. Len(queue) : queue[i] = frames[n - Len(queue) + i].frame.index
  BY DEF Trail
<1>3. CASE Len(queue) = TrailLimit
  <2>1. q = Append(Tail(queue), value) /\ queue # <<>>
    BY <1>1, <1>2, <1>3 DEF PushBounded
  <2>2. /\ Tail(queue) \in Seq(Nat) /\ Len(Tail(queue)) = TrailLimit - 1
        /\ \A i \in 1 .. TrailLimit - 1 : Tail(queue)[i] = queue[i + 1]
    BY <1>1, <1>2, <1>3, <2>1
  <2>3. /\ q \in Seq(Nat) /\ Len(q) = TrailLimit /\ q[TrailLimit] = value
        /\ \A i \in 1 .. TrailLimit - 1 : q[i] = queue[i + 1]
    BY <1>1, <2>1, <2>2
  <2>4. n >= TrailLimit
    BY <1>1, <1>2, <1>3 DEF Lesser
  <2>5. ASSUME NEW i \in 1 .. TrailLimit
        PROVE  q[i] = frames[n + 1 - TrailLimit + i].frame.index
    <3>1. CASE i = TrailLimit
      <4>1. n + 1 - TrailLimit + i = n + 1
        BY <1>1, <3>1
      <4> HIDE DEF q
      <4> QED BY <2>3, <3>1, <4>1
    <3>2. CASE i # TrailLimit
      <4>1. i \in 1 .. TrailLimit - 1
        BY <1>1, <3>2
      <4>2. PICK k \in 1 .. TrailLimit : k = i + 1
        <5>1. i + 1 \in 1 .. TrailLimit
          BY <1>1, <4>1
        <5> QED BY <5>1
      <4>3. queue[k] = frames[n - TrailLimit + k].frame.index
        BY <1>2, <1>3
      <4>4. n - TrailLimit + k = n + 1 - TrailLimit + i
        BY <1>1, <4>2
      <4>5. q[i] = queue[k]
        BY <2>3, <4>1, <4>2
      <4> HIDE DEF q
      <4> QED BY <4>3, <4>4, <4>5
    <3> QED BY <3>1, <3>2
  <2>6. Lesser(TrailLimit, n + 1) = TrailLimit
    BY <1>1, <2>4 DEF Lesser
  <2> HIDE DEF q
  <2>7. Trail(q, frames, n + 1)
    BY <2>3, <2>5, <2>6 DEF Trail
  <2> QED BY <2>7 DEF q
<1>4. CASE Len(queue) # TrailLimit
  <2>1. Len(queue) = n /\ n < TrailLimit
    BY <1>1, <1>2, <1>4 DEF Lesser
  <2>2. /\ q \in Seq(Nat) /\ Len(q) = n + 1 /\ q[n + 1] = value
        /\ \A i \in 1 .. n : q[i] = queue[i]
    BY <1>2, <1>4, <2>1 DEF PushBounded
  <2>3. ASSUME NEW i \in 1 .. n + 1
        PROVE  q[i] = frames[n + 1 - (n + 1) + i].frame.index
    <3>1. n + 1 - (n + 1) + i = i
      OBVIOUS
    <3>2. CASE i = n + 1
      <4> HIDE DEF q
      <4> QED BY <2>2, <3>1, <3>2
    <3>3. CASE i # n + 1
      <4>1. i \in 1 .. n /\ n - Len(queue) + i = i
        BY <2>1, <3>3
      <4>2. queue[i] = frames[i].frame.index
        BY <1>2, <2>1, <4>1
      <4> HIDE DEF q
      <4> QED BY <2>2, <3>1, <4>1, <4>2
    <3> QED BY <3>2, <3>3
  <2>4. Lesser(TrailLimit, n + 1) = n + 1
    BY <1>1, <2>1 DEF Lesser
  <2> HIDE DEF q
  <2>5. Trail(q, frames, n + 1)
    <3>1. \A i \in 1 .. Len(q) : q[i] = frames[n + 1 - Len(q) + i].frame.index
      BY <2>2, <2>3, Zenon
    <3>2. q \in Seq(Nat) /\ Len(q) = Lesser(TrailLimit, n + 1)
      BY <2>2, <2>4
    <3> QED BY <3>1, <3>2 DEF Trail
  <2> QED BY <2>5 DEF q
<1> QED BY <1>3, <1>4

(* The edges between keyframes before n.                                         *)
Between(n) == (0 .. n - 1) \X (0 .. n - 1) \X BOOLEAN

(* slamwich joins only keyframes it has.                                         *)
LEMMA ScanJoinsKeyframes ==
  ASSUME keyframes \in Seq(Nat), NEW result \in ScanResults
  PROVE  result.edges \in Seq(Between(Len(keyframes) + (IF result.keyframe THEN 1 ELSE 0)))
<1> DEFINE new == Len(keyframes)
           odometry == IF new = 0 THEN <<>> ELSE <<<<new - 1, new, FALSE>>>>
           E == Between(new + 1)
<1>1. new \in Nat
  OBVIOUS
<1>2. TRUE \in BOOLEAN /\ FALSE \in BOOLEAN
  BY Zenon
<1>3. \A i \in 0 .. new, j \in 0 .. new, closing \in BOOLEAN : <<i, j, closing>> \in E
  <2>1. 0 .. (new + 1) - 1 = 0 .. new
    BY <1>1
  <2> QED BY <2>1, Zenon DEF Between
<1>4. <<>> \in Seq(E) /\ <<>> \in Seq(Between(new))
  OBVIOUS
<1>5. odometry \in Seq(E)
  <2>1. CASE new = 0
    BY <1>4, <2>1
  <2>2. CASE new # 0
    <3>1. new - 1 \in 0 .. new /\ new \in 0 .. new
      BY <1>1, <2>2
    <3> HIDE DEF new, E
    <3>2. <<new - 1, new, FALSE>> \in E
      BY <1>2, <1>3, <3>1, Zenon
    <3>3. PICK e \in E : e = <<new - 1, new, FALSE>>
      BY <3>2, Zenon
    <3>4. <<e>> \in Seq(E)
      BY <3>3
    <3>5. odometry = <<e>>
      BY <2>2, <3>3, Zenon
    <3> QED BY <3>4, <3>5, Zenon
  <2> QED BY <2>1, <2>2
<1>6. ASSUME NEW old \in 0 .. new - 2
      PROVE  Append(odometry, <<old, new, TRUE>>) \in Seq(E)
  <2>1. old \in 0 .. new /\ new \in 0 .. new
    BY <1>1
  <2> HIDE DEF odometry, E, new
  <2>2. <<old, new, TRUE>> \in E
    BY <1>2, <1>3, <2>1, Zenon
  <2>3. PICK e \in E : e = <<old, new, TRUE>>
    BY <2>2, Zenon
  <2>4. Append(odometry, e) \in Seq(E)
    BY <1>5
  <2> QED BY <2>3, <2>4, Zenon
<1> DEFINE Joins(e) == e = odometry \/ \E old \in 0 .. new - 2 : e = Append(odometry, <<old, new, TRUE>>)
<1>7. \/ ~ result.keyframe /\ result.edges = <<>>
      \/ result.keyframe /\ Joins(result.edges)
  <2>1. \/ result = [update |-> FALSE, keyframe |-> FALSE, edges |-> <<>>]
        \/ result = [update |-> TRUE, keyframe |-> FALSE, edges |-> <<>>]
        \/ result = [update |-> TRUE, keyframe |-> TRUE, edges |-> odometry]
        \/ \E old \in 0 .. new - 2 :
             result = [update |-> TRUE, keyframe |-> TRUE,
                       edges |-> Append(odometry, <<old, new, TRUE>>)]
    BY Zenon DEF ScanResults
  <2> DEFINE Answer(u, k, e) == [update |-> u, keyframe |-> k, edges |-> e]
  <2>2. /\ \A u, e, x : x = Answer(u, FALSE, e) => ~ x.keyframe /\ x.edges = e
        /\ \A u, e, x : x = Answer(u, TRUE, e) => x.keyframe /\ x.edges = e
    <3>1. \A u, k, e, x : x = Answer(u, k, e) => x.keyframe = k /\ x.edges = e
      OBVIOUS
    <3> QED BY <3>1
  <2>3. \/ result = Answer(FALSE, FALSE, <<>>) \/ result = Answer(TRUE, FALSE, <<>>)
        \/ \E e : Joins(e) /\ result = Answer(TRUE, TRUE, e)
    <3> HIDE DEF odometry, new
    <3> QED BY <2>1, Zenon
  <2> HIDE DEF odometry, new, Answer, Joins
  <2>4. CASE result = Answer(FALSE, FALSE, <<>>) \/ result = Answer(TRUE, FALSE, <<>>)
    BY <2>2, <2>4, Zenon
  <2>5. CASE \E e : Joins(e) /\ result = Answer(TRUE, TRUE, e)
    <3>1. PICK e : Joins(e) /\ result = Answer(TRUE, TRUE, e)
      BY <2>5
    <3>2. result.keyframe /\ result.edges = e
      BY <2>2, <3>1, Zenon
    <3> QED BY <3>1, <3>2, Zenon
  <2> QED BY <2>3, <2>4, <2>5, Zenon
<1>8. CASE ~ result.keyframe
  <2>1. result.edges = <<>>
    BY <1>7, <1>8, Zenon
  <2>2. new + (IF result.keyframe THEN 1 ELSE 0) = new
    BY <1>1, <1>8
  <2> QED BY <1>4, <2>1, <2>2, Zenon
<1>9. CASE result.keyframe
  <2> HIDE DEF odometry, E
  <2>1. result.edges \in Seq(E)
    <3>1. Joins(result.edges)
      BY <1>7, <1>9, Zenon
    <3> QED BY <1>5, <1>6, <3>1, Zenon
  <2> QED BY <1>9, <2>1, Zenon DEF E
<1> QED BY <1>8, <1>9

LEMMA ScanResultsFit ==
  ASSUME keyframes \in Seq(Nat)
  PROVE  ScanResults \subseteq ResultType
<1> SUFFICES ASSUME NEW result \in ScanResults PROVE result \in ResultType
  OBVIOUS
<1> DEFINE m == Len(keyframes) + (IF result.keyframe THEN 1 ELSE 0)
<1>1. result.edges \in Seq(Between(m))
  BY ScanJoinsKeyframes
<1>2. result.edges \in Seq(Nat \X Nat \X BOOLEAN)
  <2>1. 0 .. m - 1 \subseteq Nat
    OBVIOUS
  <2>2. Between(m) \subseteq Nat \X Nat \X BOOLEAN
    <3> HIDE DEF m
    <3> QED BY <2>1, Zenon DEF Between
  <2> HIDE DEF m
  <2> QED BY <1>1, <2>2
<1>3. \E u, k \in BOOLEAN : \E e : result = [update |-> u, keyframe |-> k, edges |-> e]
  BY Zenon DEF ScanResults
<1>4. PICK u \in BOOLEAN, k \in BOOLEAN :
        \E e : result = [update |-> u, keyframe |-> k, edges |-> e]
  BY <1>3, Zenon
<1>5. PICK e : result = [update |-> u, keyframe |-> k, edges |-> e]
  BY <1>4
<1>6. e = result.edges
  BY <1>5
<1> QED BY <1>2, <1>5, <1>6, Zenon DEF ResultType

(* What no accepted frame changes.                                             *)
LEMMA RefusalKeeps ==
  ASSUME LidarFits, RunFits', stage # "snapshot", stage' # "snapshot",
         keyframes' = keyframes, updates' = updates, lastFrame' = lastFrame,
         trails' = trails, lastSnapshot' = lastSnapshot, accepted' = accepted
  PROVE  LidarFits'
<1>1. HistoryFits'
  BY Zenon DEF LidarFits, HistoryFits
<1>2. CountsFit'
  <2>1. Updating' = Updating /\ Extending' = Extending
    BY DEF Updating, Extending
  <2> QED BY <2>1, Zenon DEF LidarFits, CountsFit
<1>3. TrailsFit'
  <2>1. Published' = Published
    BY DEF Published
  <2> QED BY <2>1, Zenon DEF LidarFits, TrailsFit
<1>4. (stage # "snapshot" /\ accepted # <<>> => Shown)'
  BY Zenon DEF LidarFits, Shown
<1> QED BY <1>1, <1>2, <1>3, <1>4 DEF LidarFits

LEMMA SlamKeeps ==
  ASSUME LidarFits, Slam, InOrder
  PROVE  LidarFits'
<1> DEFINE n == Len(accepted)
<1>1. PICK result \in ScanResults :
        /\ keyframes' = IF result.keyframe THEN Append(keyframes, Len(sampled)) ELSE keyframes
        /\ updates' = updates + (IF result.update THEN 1 ELSE 0)
        /\ lastFrame' = [index |-> frame.index, time |-> frame.time]
        /\ observation' =
             [estimated |-> frame.index, result |-> result, updates |-> updates',
              keyframes |-> Len(keyframes'), scan |-> sampled,
              window |-> SubSeq([k \in DOMAIN keyframes' |-> k - 1],
                                WindowStart(Len(keyframes')) + 1, Len(keyframes')),
              map |-> MapSample(MapPoints(keyframes'), MapLimit),
              edges |-> WindowEdges(edges', WindowStart(Len(keyframes')))]
        /\ accepted' = Append(accepted, [frame |-> frame, result |-> result])
  BY Zenon DEF Slam
<1>2. /\ stage = "slam" /\ stage' = "snapshot"
      /\ UNCHANGED <<frame, sampled, trails, lastSnapshot>>
  BY DEF Slam
<1>3. /\ frame \in LidarFrames /\ ValidFrame(frame) /\ sampled = BoundedSample(frame.size, ScanLimit)
      /\ HistoryFits /\ CountsFit /\ TrailsFit
  BY <1>2 DEF LidarFits, RunFits
<1>4. result \in ResultType
  BY <1>1, <1>3, ScanResultsFit DEF CountsFit
<1>5. accepted \in Seq([frame : LidarFrames, result : ResultType]) /\ n \in Nat
  BY <1>3 DEF HistoryFits
<1> DEFINE new == [frame |-> frame, result |-> result]
<1>6. new \in [frame : LidarFrames, result : ResultType] /\ new.frame = frame /\ new.result = result
  BY <1>3, <1>4
<1> HIDE DEF new
<1>7. /\ accepted' \in Seq([frame : LidarFrames, result : ResultType])
      /\ Len(accepted') = n + 1 /\ accepted'[n + 1] = new /\ accepted' # <<>>
      /\ \A i \in 1 .. n : accepted'[i] = accepted[i]
  BY <1>1, <1>5, <1>6 DEF new
<1> HIDE DEF n
<1>8. HistoryFits'
  <2>1. ASSUME NEW i \in 2 .. n + 1
        PROVE  /\ accepted'[i].frame.index = accepted'[i - 1].frame.index + 1
               /\ accepted'[i].frame.time > accepted'[i - 1].frame.time
    <3>1. CASE i = n + 1
      <4>1. i - 1 = n /\ n \in 1 .. n /\ accepted # <<>>
        BY <1>5, <2>1, <3>1 DEF n
      <4>2. accepted[n].frame \in LidarFrames
        <5>1. accepted[n] \in [frame : LidarFrames, result : ResultType]
          BY <1>5, <4>1, ElementOfSeq DEF n
        <5> QED BY <5>1
      <4>3. lastFrame = [index |-> accepted[n].frame.index, time |-> accepted[n].frame.time]
        BY <1>3, <4>1 DEF HistoryFits, n
      <4>4. lastFrame # Absent
        <5>1. accepted[n].frame.index \in 0 .. MaxIndex /\ accepted[n].frame.time \in Nat
          BY <4>2, LidarAssumption
        <5> QED BY <4>3, <5>1, LidarAssumption
      <4>5. frame.index = accepted[n].frame.index + 1 /\ frame.time > accepted[n].frame.time
        BY <4>3, <4>4 DEF InOrder
      <4>6. accepted'[i].frame = frame /\ accepted'[i - 1] = accepted[n]
        BY <1>6, <1>7, <3>1, <4>1
      <4> QED BY <4>5, <4>6
    <3>2. CASE i # n + 1
      <4>1. i \in 2 .. n /\ i \in 1 .. n /\ i - 1 \in 1 .. n
        BY <1>5, <2>1, <3>2
      <4>2. accepted'[i] = accepted[i] /\ accepted'[i - 1] = accepted[i - 1]
        BY <1>7, <4>1
      <4>3. /\ accepted[i].frame.index = accepted[i - 1].frame.index + 1
            /\ accepted[i].frame.time > accepted[i - 1].frame.time
        BY <1>3, <4>1 DEF HistoryFits, n
      <4> QED BY <4>2, <4>3
    <3> QED BY <3>1, <3>2
  <2>2. lastFrame' = [index |-> accepted'[n + 1].frame.index, time |-> accepted'[n + 1].frame.time]
    BY <1>1, <1>6, <1>7
  <2> QED BY <1>7, <2>1, <2>2 DEF HistoryFits
<1>9. CountsFit'
  <2>1. /\ Updating = {i \in 1 .. n : accepted[i].result.update}
        /\ Extending = {i \in 1 .. n : accepted[i].result.keyframe}
        /\ Updating' = {i \in 1 .. n + 1 : accepted'[i].result.update}
        /\ Extending' = {i \in 1 .. n + 1 : accepted'[i].result.keyframe}
    BY <1>5, <1>7 DEF Updating, Extending, n
  <2>2. accepted'[n + 1].result = result
    BY <1>6, <1>7
  <2>3. ASSUME NEW i \in 1 .. n + 1
        PROVE  i \in 1 .. n \/ i = n + 1
    BY <1>5
  <2>4. Updating' = IF result.update THEN Updating \cup {n + 1} ELSE Updating
    BY <1>5, <1>7, <2>1, <2>2, <2>3
  <2>5. Extending' = IF result.keyframe THEN Extending \cup {n + 1} ELSE Extending
    BY <1>5, <1>7, <2>1, <2>2, <2>3
  <2>6. Updating \in SUBSET (1 .. n) /\ Extending \in SUBSET (1 .. n)
    BY <2>1
  <2>7. IsFiniteSet(Updating) /\ IsFiniteSet(Extending)
    BY <1>3 DEF CountsFit
  <2>8. /\ IsFiniteSet(Updating')
        /\ Cardinality(Updating') = Cardinality(Updating) + (IF n + 1 \in Updating' THEN 1 ELSE 0)
        /\ IsFiniteSet(Extending')
        /\ Cardinality(Extending') = Cardinality(Extending) + (IF n + 1 \in Extending' THEN 1 ELSE 0)
    BY <1>5, <2>4, <2>5, <2>6, <2>7, OneMore
  <2>9. (n + 1 \in Updating' <=> result.update) /\ (n + 1 \in Extending' <=> result.keyframe)
    BY <1>5, <2>4, <2>5, <2>6
  <2>10. Len(sampled) \in Nat
    BY <1>3, SampleIsSpread, LidarAssumption DEF SpreadOver, ValidFrame
  <2>11. keyframes' \in Seq(Nat) /\ Len(keyframes') = Len(keyframes) + (IF result.keyframe THEN 1 ELSE 0)
    BY <1>1, <1>3, <2>10 DEF CountsFit
  <2>12. updates = Cardinality(Updating) /\ Len(keyframes) = Cardinality(Extending)
    BY <1>3 DEF CountsFit
  <2> QED BY <1>1, <2>8, <2>9, <2>11, <2>12 DEF CountsFit
<1>10. TrailsFit'
  <2>1. Published = n /\ Published' = n
    BY <1>2, <1>5, <1>7 DEF Published, n
  <2>2. ASSUME NEW t \in {"estimated", "odometry", "reference"}
        PROVE  Trail(trails'[t], accepted', n)
    <3>1. Trail(trails[t], accepted, n)
      BY <1>3, <2>1 DEF TrailsFit
    <3>2. PICK q : q = trails[t]
      OBVIOUS
    <3>3. /\ q \in Seq(Nat) /\ Len(q) = Lesser(TrailLimit, n)
          /\ \A i \in 1 .. Len(q) : q[i] = accepted[n - Len(q) + i].frame.index
      BY <3>1, <3>2 DEF Trail
    <3>4. \A i \in 1 .. Len(q) : n - Len(q) + i \in 1 .. n
      <4>1. Len(q) \in 0 .. n
        BY <1>5, <3>3, LidarAssumption DEF Lesser
      <4> QED BY <1>5, <4>1
    <3>5. \A i \in 1 .. Len(q) : q[i] = accepted'[n - Len(q) + i].frame.index
      BY <1>7, <3>3, <3>4
    <3>6. Trail(q, accepted', n)
      BY <3>3, <3>5 DEF Trail
    <3> QED BY <1>2, <3>2, <3>6
  <2> QED BY <1>2, <1>3, <2>1, <2>2 DEF TrailsFit
<1>11. RunFits'
  <2>1. frame' = accepted'[Len(accepted')].frame
    BY <1>2, <1>6, <1>7
  <2>2. /\ observation'.estimated = frame.index /\ observation'.updates = updates'
        /\ observation'.keyframes = Len(keyframes') /\ observation'.scan = sampled
    BY <1>1
  <2> QED BY <1>2, <1>3, <1>7, <2>1, <2>2 DEF RunFits, ValidFrame
<1> QED BY <1>2, <1>8, <1>9, <1>10, <1>11 DEF LidarFits

LEMMA PublishKeeps ==
  ASSUME LidarFits, PublishSnapshot
  PROVE  LidarFits'
<1> DEFINE n == Len(accepted) - 1
<1>1. /\ stage = "snapshot" /\ stage' = "idle"
      /\ trails' = [estimated |-> PushBounded(trails.estimated, observation.estimated, TrailLimit),
                    odometry  |-> PushBounded(trails.odometry, frame.index, TrailLimit),
                    reference |-> PushBounded(trails.reference, frame.index, TrailLimit)]
      /\ lastSnapshot' = [frame |-> frame, trails |-> trails', observation |-> observation,
                          dropped |-> frame.size - Len(observation.scan)]
      /\ UNCHANGED <<keyframes, edges, lastFrame, updates, slamPoisoned, accepted>>
  BY DEF PublishSnapshot, EndRun
<1>2. /\ accepted # <<>> /\ frame = accepted[Len(accepted)].frame /\ frame \in LidarFrames
      /\ ValidFrame(frame)
      /\ observation.estimated = frame.index
      /\ observation.updates = updates /\ observation.keyframes = Len(keyframes)
      /\ observation.scan = BoundedSample(frame.size, ScanLimit)
  BY <1>1 DEF LidarFits, RunFits
<1>3. /\ accepted \in Seq([frame : LidarFrames, result : ResultType])
      /\ n \in Nat /\ Len(accepted) = n + 1 /\ Published = n /\ Published' = n + 1
  <2>1. accepted \in Seq([frame : LidarFrames, result : ResultType])
    BY DEF LidarFits, HistoryFits
  <2>2. Len(accepted) \in Nat \ {0}
    BY <1>2, <2>1
  <2> QED BY <1>1, <2>1, <2>2 DEF Published
<1> HIDE DEF n
<1>4. frame.index \in Nat /\ frame.index = accepted[n + 1].frame.index
  BY <1>2, <1>3, LidarAssumption, SMTT(30)
<1>5. HistoryFits'
  BY <1>1, Zenon DEF LidarFits, HistoryFits
<1>6. CountsFit'
  <2>1. Updating' = Updating /\ Extending' = Extending
    BY <1>1 DEF Updating, Extending
  <2> QED BY <1>1, <2>1, Zenon DEF LidarFits, CountsFit
<1>7. TrailsFit'
  <2>1. /\ trails'.estimated = PushBounded(trails.estimated, frame.index, TrailLimit)
        /\ trails'.odometry = PushBounded(trails.odometry, frame.index, TrailLimit)
        /\ trails'.reference = PushBounded(trails.reference, frame.index, TrailLimit)
    BY <1>1, <1>2
  <2>2. /\ Trail(trails.estimated, accepted, n) /\ Trail(trails.odometry, accepted, n)
        /\ Trail(trails.reference, accepted, n)
    BY <1>3 DEF LidarFits, TrailsFit
  <2>3. /\ Trail(trails'.estimated, accepted, n + 1) /\ Trail(trails'.odometry, accepted, n + 1)
        /\ Trail(trails'.reference, accepted, n + 1)
    BY <1>3, <1>4, <2>1, <2>2, PushKeepsTrail
  <2>4. trails' = [estimated |-> trails'.estimated, odometry |-> trails'.odometry,
                   reference |-> trails'.reference]
    BY <1>1
  <2>5. accepted' = accepted
    BY <1>1
  <2> QED BY <1>3, <2>3, <2>4, <2>5 DEF TrailsFit
<1>8. RunFits'
  BY <1>1 DEF RunFits
<1>9. Shown'
  <2>1. /\ lastSnapshot'.frame = frame /\ lastSnapshot'.trails = trails'
        /\ lastSnapshot'.observation = observation
        /\ lastSnapshot'.dropped = frame.size - Len(observation.scan)
    BY <1>1
  <2>2. lastSnapshot'.dropped + Len(observation.scan) = frame.size
    <3>1. Len(observation.scan) \in Nat /\ frame.size \in Nat
      <4>1. frame.size \in Nat \ {0} /\ ScanLimit \in Nat \ {0}
        BY <1>2, LidarAssumption DEF ValidFrame
      <4>2. BoundedSample(frame.size, ScanLimit) \in Seq(Nat)
        BY <4>1, SampleIsSpread DEF SpreadOver
      <4> QED BY <1>2, <4>1, <4>2
    <3> QED BY <2>1, <3>1
  <2> QED BY <1>1, <1>2, <2>1, <2>2 DEF Shown
<1> QED BY <1>1, <1>5, <1>6, <1>7, <1>8, <1>9 DEF LidarFits

LEMMA LidarStepKeeps ==
  ASSUME LidarFits, LidarNext
  PROVE  LidarFits'
<1>1. ASSUME NEW f \in LidarFrames, StartFrame(f)
      PROVE  LidarFits'
  BY <1>1, RefusalKeeps DEF StartFrame, LidarFits, RunFits
<1>2. CASE PrepareScan
  <2>1. RunFits'
    BY <1>2 DEF PrepareScan, EndRun, LidarFits, RunFits, ValidFrame
  <2> QED BY <1>2, <2>1, RefusalKeeps DEF PrepareScan, EndRun
<1>3. CASE Slam /\ ~ InOrder
  <2>1. RunFits'
    BY <1>3 DEF Slam, EndRun, RunFits
  <2> QED BY <1>3, <2>1, RefusalKeeps DEF Slam, EndRun
<1>4. CASE SlamPanics
  <2>1. RunFits'
    BY <1>4 DEF SlamPanics, EndRun, RunFits
  <2> QED BY <1>4, <2>1, RefusalKeeps DEF SlamPanics, EndRun
<1> QED BY <1>1, <1>2, <1>3, <1>4, SlamKeeps, PublishKeeps DEF LidarNext

LEMMA LidarStarts ==
  ASSUME LidarInit
  PROVE  LidarFits
<1>1. accepted = <<>> /\ keyframes = <<>> /\ updates = 0
  BY DEF LidarInit
<1>2. Updating = {} /\ Extending = {}
  BY <1>1 DEF Updating, Extending
<1>3. CountsFit
  BY <1>1, <1>2, FS_EmptySet DEF CountsFit
<1>4. HistoryFits
  BY DEF LidarInit, HistoryFits
<1>5. TrailsFit
  <2>1. Trail(<<>>, accepted, 0)
    BY LidarAssumption DEF Trail, Lesser
  <2>2. Published = 0
    BY <1>1 DEF LidarInit, Published
  <2>3. /\ trails.estimated = <<>> /\ trails.odometry = <<>> /\ trails.reference = <<>>
        /\ trails = [estimated |-> <<>>, odometry |-> <<>>, reference |-> <<>>]
    BY DEF LidarInit
  <2> QED BY <2>1, <2>2, <2>3 DEF TrailsFit
<1> QED BY <1>3, <1>4, <1>5 DEF LidarInit, LidarFits, RunFits

(* A trail of all accepted frames is the suffix the host is promised.              *)
(* The last elements of a sequence.                                              *)
LEMMA SuffixFits ==
  ASSUME NEW E, NEW s \in Seq(E), NEW limit \in Nat
  PROVE  /\ Suffix(s, limit) \in Seq(E)
         /\ Len(Suffix(s, limit)) = Lesser(limit, Len(s))
         /\ Len(Suffix(s, limit)) \in 0 .. Len(s)
         /\ \A i \in 1 .. Len(Suffix(s, limit)) :
              Suffix(s, limit)[i] = s[Len(s) - Len(Suffix(s, limit)) + i]
<1> DEFINE n == Len(s)
           first == Greater(n - limit, 0)
           u == SubSeq(s, first + 1, n)
<1>1. n \in Nat
  OBVIOUS
<1>2. first \in 0 .. n /\ n - first = Lesser(limit, n)
  BY <1>1 DEF Greater, Lesser
<1> HIDE DEF first, n
<1>3. first + 1 \in Int /\ n \in Int /\ \A i \in first + 1 .. n : s[i] \in E
  <2>1. \A i \in first + 1 .. n : i \in 1 .. Len(s)
    BY <1>1, <1>2 DEF n
  <2> QED BY <1>1, <1>2, <2>1, ElementOfSeq
<1>4. /\ u \in Seq(E)
      /\ Len(u) = IF first + 1 <= n THEN n - (first + 1) + 1 ELSE 0
      /\ \A i \in 1 .. n - (first + 1) + 1 : u[i] = s[(first + 1) + i - 1]
  BY <1>3, SubSeqProperties
<1>5. Suffix(s, limit) = u
  BY DEF Suffix, u, first, n
<1> HIDE DEF u
<1>6. Len(u) = n - first /\ n - (first + 1) + 1 = n - first
  BY <1>1, <1>2, <1>4
<1>7. \A i \in 1 .. n - first : (first + 1) + i - 1 = n - Len(u) + i
  BY <1>1, <1>2, <1>6
<1>8. \A i \in 1 .. Len(u) : u[i] = s[n - Len(u) + i]
  BY <1>4, <1>6, <1>7
<1>9. Len(u) \in 0 .. n
  BY <1>1, <1>2, <1>6
<1> QED BY <1>2, <1>4, <1>5, <1>6, <1>8, <1>9, Zenon DEF n

LEMMA TrailIsSuffix ==
  ASSUME NEW frames \in Seq([frame : LidarFrames, result : ResultType]),
         NEW queue, Trail(queue, frames, Len(frames))
  PROVE  queue = Suffix([i \in DOMAIN frames |-> frames[i].frame.index], TrailLimit)
<1> DEFINE indices == [i \in DOMAIN frames |-> frames[i].frame.index]
           n == Len(frames)
           suffix == Suffix(indices, TrailLimit)
<1>1. n \in Nat /\ TrailLimit \in Nat \ {0}
  BY LidarAssumption
<1>2. indices \in Seq(Nat) /\ Len(indices) = n /\ \A i \in 1 .. n : indices[i] = frames[i].frame.index
  <2>1. \A i \in 1 .. n : frames[i].frame.index \in Nat
    <3> TAKE i \in 1 .. n
    <3>1. frames[i] \in [frame : LidarFrames, result : ResultType]
      BY ElementOfSeq
    <3>2. frames[i].frame \in LidarFrames
      BY <3>1
    <3> QED BY <3>2, LidarAssumption
  <2> QED BY <2>1
<1> HIDE DEF indices, n
<1>3. /\ suffix \in Seq(Nat) /\ Len(suffix) = Lesser(TrailLimit, n) /\ Len(suffix) \in 0 .. n
      /\ \A i \in 1 .. Len(suffix) : suffix[i] = indices[n - Len(suffix) + i]
  BY <1>1, <1>2, SuffixFits, ZenonT(30)
<1> HIDE DEF suffix
<1>4. /\ queue \in Seq(Nat) /\ Len(queue) = Lesser(TrailLimit, n)
      /\ \A i \in 1 .. Len(queue) : queue[i] = frames[n - Len(queue) + i].frame.index
  BY DEF Trail, n
<1>5. \A i \in 1 .. Len(suffix) : n - Len(suffix) + i \in 1 .. n
  BY <1>1, <1>3
<1>6. \A i \in 1 .. Len(queue) : queue[i] = suffix[i]
  <2>1. Len(queue) = Len(suffix)
    BY <1>3, <1>4
  <2>2. TAKE i \in 1 .. Len(queue)
  <2>3. n - Len(suffix) + i \in 1 .. n /\ suffix[i] = indices[n - Len(suffix) + i]
    BY <1>3, <1>5, <2>1
  <2>4. queue[i] = frames[n - Len(suffix) + i].frame.index
    BY <1>4, <2>1
  <2> QED BY <1>2, <2>3, <2>4
<1>7. queue = suffix
  BY <1>3, <1>4, <1>6, SeqEqual
<1> QED BY <1>7 DEF suffix, indices

LEMMA LidarKeeps ==
  ASSUME LidarFits, [LidarNext]_lidarVars
  PROVE  LidarFits'
<1>1. ASSUME LidarFits, UNCHANGED lidarVars
      PROVE  LidarFits'
  <2>1. /\ UNCHANGED <<stage, frame, sampled, observation>>
        /\ UNCHANGED <<keyframes, updates, lastFrame, trails, lastSnapshot, accepted>>
    BY <1>1 DEF lidarVars
  <2>2. RunFits'
    BY <1>1, <2>1, Zenon DEF LidarFits, RunFits
  <2>3. CASE stage # "snapshot"
    BY <1>1, <2>1, <2>2, <2>3, RefusalKeeps
  <2>4. CASE stage = "snapshot"
    <3>1. HistoryFits'
      BY <1>1, <2>1, Zenon DEF LidarFits, HistoryFits
    <3>2. CountsFit'
      <4>1. Updating' = Updating /\ Extending' = Extending
        BY <2>1 DEF Updating, Extending
      <4> QED BY <1>1, <2>1, <4>1, Zenon DEF LidarFits, CountsFit
    <3>3. TrailsFit'
      <4>1. Published' = Published
        BY <2>1 DEF Published
      <4> QED BY <1>1, <2>1, <4>1, Zenon DEF LidarFits, TrailsFit
    <3> QED BY <2>1, <2>2, <2>4, <3>1, <3>2, <3>3 DEF LidarFits
  <2> QED BY <2>3, <2>4
<1> QED BY <1>1, LidarStepKeeps

(* The host's snapshot tells the accepted frames whatever was refused since        *)
(* (the three Units and LidarSlam::process of the LiDAR example).                *)
THEOREM SnapshotAlwaysTellsTheHistory == LidarSpec => []SnapshotTellsTheHistory
<1>1. LidarFits /\ [LidarNext]_lidarVars => LidarFits'
  BY LidarKeeps
<1>2. LidarFits => SnapshotTellsTheHistory
  <2> SUFFICES ASSUME LidarFits, stage = "idle", accepted # <<>>
               PROVE  SnapshotTellsTheHistory
    BY DEF SnapshotTellsTheHistory
  <2> DEFINE recent == Suffix([i \in DOMAIN accepted |-> accepted[i].frame.index], TrailLimit)
  <2>1. Shown /\ HistoryFits /\ CountsFit /\ TrailsFit
    BY DEF LidarFits
  <2>2. ASSUME NEW t \in DOMAIN lastSnapshot.trails
        PROVE  lastSnapshot.trails[t] = recent
    <3>1. lastSnapshot.trails = trails
      BY <2>1 DEF Shown
    <3>2. t \in {"estimated", "odometry", "reference"}
      BY <2>1, <2>2, <3>1 DEF TrailsFit
    <3>3. Trail(trails[t], accepted, Len(accepted))
      BY <2>1, <3>2 DEF TrailsFit, Published
    <3>4. trails[t] = recent
      BY <2>1, <3>3, TrailIsSuffix DEF HistoryFits
    <3> QED BY <3>1, <3>4
  <2>3. /\ lastSnapshot.observation.updates = Cardinality({i \in DOMAIN accepted : accepted[i].result.update})
        /\ lastSnapshot.observation.keyframes = Cardinality({i \in DOMAIN accepted : accepted[i].result.keyframe})
    BY <2>1 DEF Shown, CountsFit, Updating, Extending
  <2> HIDE DEF recent
  <2> QED BY <2>1, <2>2, <2>3, Zenon DEF SnapshotTellsTheHistory, Shown, HistoryFits, recent
<1> QED BY <1>1, <1>2, LidarStarts, PTL DEF LidarSpec

------------------------------------------------------------------------------
(* What the LiDAR example shows of its graph. *)

(* The edges that are kept of the first k: in their order, those between keyframes *)
(* from the start of the window.  What follows an edge tells its place from the end. *)
Inside(graph, start, k) == {n \in 1 .. k : graph[n][1] >= start /\ graph[n][2] >= start}
Newer(P, n) == {m \in P : m > n}
Keeps(s, graph, P) ==
  /\ IsFiniteSet(P) /\ Len(s) = Cardinality(P)
  /\ \A i \in 1 .. Len(s) : \E n \in P : s[i] = graph[n]
  /\ \A n \in P : /\ Cardinality(Newer(P, n)) < Len(s)
                  /\ s[Len(s) - Cardinality(Newer(P, n))] = graph[n]

Keeping(G, graph, start, E) ==
  /\ G \in [0 .. Len(graph) -> Seq(E)] /\ G[0] = <<>>
  /\ \A k \in 1 .. Len(graph) :
       G[k] = IF graph[k][1] >= start /\ graph[k][2] >= start
                THEN Append(G[k - 1], graph[k]) ELSE G[k - 1]

LEMMA EdgesFromUnfolds ==
  ASSUME NEW E, NEW graph \in Seq(E), NEW start
  PROVE  \E G : EdgesFrom(graph, start) = G[Len(graph)] /\ Keeping(G, graph, start, E)
<1> DEFINE total == Len(graph)
           Body(G) == [n \in 0 .. total |->
             IF n = 0 THEN <<>>
             ELSE IF graph[n][1] >= start /\ graph[n][2] >= start
               THEN Append(G[n - 1], graph[n]) ELSE G[n - 1]]
           F == CHOOSE G : G = Body(G)
           next == [p \in (1 .. total) \X Seq(E) |->
                      IF graph[p[1]][1] >= start /\ graph[p[1]][2] >= start
                        THEN Append(p[2], graph[p[1]]) ELSE p[2]]
<1>0. total \in Nat
  OBVIOUS
<1>1. EdgesFrom(graph, start) = F[total]
  BY Zenon DEF EdgesFrom
<1>2. \A k \in 1 .. total, s \in Seq(E) : Append(s, graph[k]) \in Seq(E)
  <2> SUFFICES ASSUME NEW k \in 1 .. total, NEW s \in Seq(E)
               PROVE  Append(s, graph[k]) \in Seq(E)
    OBVIOUS
  <2>1. graph[k] \in E
    BY ElementOfSeq
  <2> QED BY <2>1
<1>3. next \in [(1 .. total) \X Seq(E) -> Seq(E)]
  <2>1. ASSUME NEW p \in (1 .. total) \X Seq(E)
        PROVE  (IF graph[p[1]][1] >= start /\ graph[p[1]][2] >= start
                  THEN Append(p[2], graph[p[1]]) ELSE p[2]) \in Seq(E)
    <3>1. p[1] \in 1 .. total /\ p[2] \in Seq(E)
      BY <2>1
    <3>2. Append(p[2], graph[p[1]]) \in Seq(E)
      BY <1>2, <3>1
    <3> QED BY <3>1, <3>2, Zenon
  <2> QED BY <2>1, Zenon
<1>4. \A k \in 1 .. total, s \in Seq(E) :
        next[<<k, s>>] = IF graph[k][1] >= start /\ graph[k][2] >= start
                           THEN Append(s, graph[k]) ELSE s
  OBVIOUS
<1>5. PICK H \in [0 .. total -> Seq(E)] : Follows(H, total, <<>>, next)
  <2>1. <<>> \in Seq(E)
    OBVIOUS
  <2> HIDE DEF next, total
  <2> QED BY <1>0, <1>3, <2>1, RecursionExists
<1> HIDE DEF next
<1>6. H = Body(H)
  <2>1. ASSUME NEW k \in 0 .. total
        PROVE  H[k] = IF k = 0 THEN <<>>
                      ELSE IF graph[k][1] >= start /\ graph[k][2] >= start
                        THEN Append(H[k - 1], graph[k]) ELSE H[k - 1]
    <3>1. CASE k = 0
      BY <1>5, <3>1 DEF Follows
    <3>2. CASE k # 0
      <4>1. k \in 1 .. total /\ k - 1 \in 0 .. total
        BY <1>0, <3>2
      <4>2. H[k - 1] \in Seq(E)
        BY <4>1
      <4>3. H[k] = next[<<k, H[k - 1]>>]
        BY <1>5, <4>1 DEF Follows
      <4> QED BY <1>4, <3>2, <4>1, <4>2, <4>3, Zenon
    <3> QED BY <3>1, <3>2
  <2> QED BY <1>5, <2>1
<1>7. F = Body(F)
  <2> HIDE DEF Body
  <2> QED BY <1>6, Zenon
<1>8. /\ F = [k \in 0 .. total |-> F[k]]
      /\ F[0] = <<>>
      /\ \A k \in 1 .. total : F[k] = IF graph[k][1] >= start /\ graph[k][2] >= start
                                        THEN Append(F[k - 1], graph[k]) ELSE F[k - 1]
  <2>1. PICK G : G = F
    OBVIOUS
  <2>2. G = [n \in 0 .. total |->
             IF n = 0 THEN <<>>
             ELSE IF graph[n][1] >= start /\ graph[n][2] >= start
               THEN Append(G[n - 1], graph[n]) ELSE G[n - 1]]
    BY <1>7, <2>1, ZenonT(30)
  <2> HIDE DEF F
  <2>3. \A k \in 0 .. total :
          G[k] = IF k = 0 THEN <<>>
                 ELSE IF graph[k][1] >= start /\ graph[k][2] >= start
                   THEN Append(G[k - 1], graph[k]) ELSE G[k - 1]
    BY <2>2, Zenon
  <2>4. G = [k \in 0 .. total |-> G[k]]
    <3>1. DOMAIN G = 0 .. total
      BY <2>2, Zenon
    <3>2. G = [k \in DOMAIN G |-> G[k]]
      BY <2>2, Zenon
    <3> QED BY <3>1, <3>2, Zenon
  <2>5. 0 \in 0 .. total /\ \A k \in 1 .. total : k \in 0 .. total /\ k # 0
    BY <1>0
  <2> QED BY <2>1, <2>3, <2>4, <2>5, Zenon
<1> HIDE DEF F
<1>9. \A k \in 0 .. total : F[k] \in Seq(E)
  <2> DEFINE T == {k \in 0 .. total : F[k] \in Seq(E)}
  <2>1. 0 \in T
    BY <1>0, <1>8
  <2>2. ASSUME NEW k \in 1 .. total, k - 1 \in T
        PROVE  k \in T
    <3>1. F[k - 1] \in Seq(E) /\ k \in 0 .. total
      BY <1>0, <2>2
    <3>2. Append(F[k - 1], graph[k]) \in Seq(E)
      BY <1>2, <3>1
    <3>3. F[k] = Append(F[k - 1], graph[k]) \/ F[k] = F[k - 1]
      BY <1>8, Zenon
    <3> QED BY <3>1, <3>2, <3>3, Zenon
  <2>3. \A k \in 0 .. total : k \in T
    <3> HIDE DEF T, total
    <3> QED BY <1>0, <2>1, <2>2, Along
  <2> QED BY <2>3
<1>10. F \in [0 .. total -> Seq(E)]
  BY <1>8, <1>9
<1> QED BY <1>1, <1>8, <1>10, Zenon DEF Keeping

LEMMA OneMoreKept ==
  ASSUME NEW E, NEW s \in Seq(E), NEW graph, NEW k \in Nat \ {0}, graph[k] \in E,
         NEW P \in SUBSET (1 .. k - 1), Keeps(s, graph, P)
  PROVE  Keeps(Append(s, graph[k]), graph, P \cup {k})
<1> DEFINE t == Append(s, graph[k])
           Q == P \cup {k}
<1>1. /\ t \in Seq(E) /\ Len(t) = Len(s) + 1 /\ t[Len(s) + 1] = graph[k]
      /\ \A i \in 1 .. Len(s) : t[i] = s[i]
      /\ Len(s) \in Nat
  OBVIOUS
<1>2. IsFiniteSet(P) /\ Len(s) = Cardinality(P)
  BY DEF Keeps
<1>3. IsFiniteSet(Q) /\ Cardinality(Q) = Len(s) + 1
  <2>1. k \notin P
    OBVIOUS
  <2> QED BY <1>2, <2>1, FS_AddElement
<1> HIDE DEF t
<1>4. ASSUME NEW i \in 1 .. Len(t)
      PROVE  \E n \in Q : t[i] = graph[n]
  <2>1. CASE i = Len(s) + 1
    BY <1>1, <2>1
  <2>2. CASE i # Len(s) + 1
    <3>1. i \in 1 .. Len(s)
      BY <1>1, <2>2
    <3>2. PICK n \in P : s[i] = graph[n]
      BY <3>1 DEF Keeps
    <3> QED BY <1>1, <3>1, <3>2
  <2> QED BY <2>1, <2>2
<1>5. ASSUME NEW n \in Q
      PROVE  /\ Cardinality(Newer(Q, n)) < Len(t)
             /\ t[Len(t) - Cardinality(Newer(Q, n))] = graph[n]
  <2>1. CASE n = k
    <3>1. Newer(Q, n) = {}
      <4>1. \A m \in Q : m \in 1 .. k
        OBVIOUS
      <4>2. \A m \in Q : ~ (m > n)
        BY <2>1, <4>1
      <4> QED BY <4>2, Zenon DEF Newer
    <3>2. Cardinality(Newer(Q, n)) = 0
      BY <3>1, FS_EmptySet
    <3> QED BY <1>1, <2>1, <3>2
  <2>2. CASE n # k
    <3>1. n \in P
      BY <1>5, <2>2
    <3>2. Newer(Q, n) = Newer(P, n) \cup {k} /\ k \notin Newer(P, n) /\ Newer(P, n) \subseteq P
      BY <3>1 DEF Newer
    <3>3. IsFiniteSet(Newer(P, n)) /\ Cardinality(Newer(P, n)) \in Nat
      BY <1>2, <3>2, FS_Subset, FS_CardinalityType
    <3>4. Cardinality(Newer(Q, n)) = Cardinality(Newer(P, n)) + 1
      BY <3>2, <3>3, FS_AddElement
    <3>5. /\ Cardinality(Newer(P, n)) < Len(s)
          /\ s[Len(s) - Cardinality(Newer(P, n))] = graph[n]
      BY <3>1 DEF Keeps
    <3>6. PICK a \in Nat : a = Cardinality(Newer(P, n))
      BY <3>3
    <3>7. Len(s) - a \in 1 .. Len(s) /\ Len(t) - (a + 1) = Len(s) - a /\ a + 1 < Len(t)
      BY <1>1, <3>5, <3>6
    <3> QED BY <1>1, <3>4, <3>5, <3>6, <3>7
  <2> QED BY <2>1, <2>2
<1> QED BY <1>1, <1>3, <1>4, <1>5, Zenon DEF Keeps, t

LEMMA EdgesAreKept ==
  ASSUME NEW E, NEW graph \in Seq(E), NEW start
  PROVE  /\ EdgesFrom(graph, start) \in Seq(E)
         /\ Keeps(EdgesFrom(graph, start), graph, Inside(graph, start, Len(graph)))
<1>1. PICK G : EdgesFrom(graph, start) = G[Len(graph)] /\ Keeping(G, graph, start, E)
  BY EdgesFromUnfolds
<1>2. /\ G \in [0 .. Len(graph) -> Seq(E)] /\ G[0] = <<>> /\ Len(graph) \in Nat
      /\ \A k \in 1 .. Len(graph) :
           G[k] = IF graph[k][1] >= start /\ graph[k][2] >= start
                    THEN Append(G[k - 1], graph[k]) ELSE G[k - 1]
  BY <1>1 DEF Keeping
<1> DEFINE T == {k \in 0 .. Len(graph) : Keeps(G[k], graph, Inside(graph, start, k))}
<1>3. 0 \in T
  <2>1. Inside(graph, start, 0) = {}
    BY DEF Inside
  <2>2. Keeps(<<>>, graph, {})
    <3>1. IsFiniteSet({}) /\ Cardinality({}) = 0
      BY FS_EmptySet
    <3>2. Len(<<>>) = 0 /\ 1 .. 0 = {}
      OBVIOUS
    <3> QED BY <3>1, <3>2, Zenon DEF Keeps
  <2>3. 0 \in 0 .. Len(graph)
    BY <1>2
  <2> QED BY <1>2, <2>1, <2>2, <2>3, Zenon
<1>4. ASSUME NEW k \in 1 .. Len(graph), k - 1 \in T
      PROVE  k \in T
  <2>1. /\ Keeps(G[k - 1], graph, Inside(graph, start, k - 1))
        /\ k \in Nat \ {0} /\ G[k - 1] \in Seq(E) /\ k \in 0 .. Len(graph)
    BY <1>2, <1>4
  <2>2. graph[k] \in E
    BY ElementOfSeq
  <2>3. Inside(graph, start, k - 1) \in SUBSET (1 .. k - 1)
    BY DEF Inside
  <2>4. CASE graph[k][1] >= start /\ graph[k][2] >= start
    <3>1. Inside(graph, start, k) = Inside(graph, start, k - 1) \cup {k}
      <4>1. 1 .. k = (1 .. k - 1) \cup {k}
        BY <2>1
      <4> QED BY <2>4, <4>1, Zenon DEF Inside
    <3>2. G[k] = Append(G[k - 1], graph[k])
      BY <1>2, <2>4, Zenon
    <3>3. Keeps(Append(G[k - 1], graph[k]), graph, Inside(graph, start, k - 1) \cup {k})
      BY <2>1, <2>2, <2>3, OneMoreKept
    <3> QED BY <2>1, <3>1, <3>2, <3>3, Zenon
  <2>5. CASE ~ (graph[k][1] >= start /\ graph[k][2] >= start)
    <3>1. Inside(graph, start, k) = Inside(graph, start, k - 1)
      <4>1. 1 .. k = (1 .. k - 1) \cup {k}
        BY <2>1
      <4> QED BY <2>5, <4>1, Zenon DEF Inside
    <3>2. G[k] = G[k - 1]
      BY <1>2, <2>5, Zenon
    <3> QED BY <2>1, <3>1, <3>2, Zenon
  <2> QED BY <2>4, <2>5
<1>5. \A k \in 0 .. Len(graph) : k \in T
  <2> HIDE DEF T
  <2> QED BY <1>2, <1>3, <1>4, Along
<1>6. Len(graph) \in 0 .. Len(graph)
  BY <1>2
<1> QED BY <1>1, <1>2, <1>5, <1>6

(* The published edges are the last of those from the start on, renumbered.       *)
Renumbered(e, start) == <<e[1] - start, e[2] - start, e[3]>>

LEMMA WindowEdgesFit ==
  ASSUME NEW E, NEW graph \in Seq(E), NEW start,
         NEW w, w = WindowEdges(graph, start),
         NEW P, P = Inside(graph, start, Len(graph))
  PROVE  /\ DOMAIN w = 1 .. Len(w) /\ Len(w) = Lesser(EdgeLimit, Cardinality(P))
         /\ IsFiniteSet(P) /\ Cardinality(P) \in Nat
         /\ \A i \in 1 .. Len(w) : \E n \in P : w[i] = Renumbered(graph[n], start)
         /\ \A n \in P : Cardinality(Newer(P, n)) < EdgeLimit =>
              w[Len(w) - Cardinality(Newer(P, n))] = Renumbered(graph[n], start)
<1> DEFINE kept == EdgesFrom(graph, start)
           recent == Suffix(kept, EdgeLimit)
           c == Cardinality(P)
<1>1. EdgeLimit \in Nat \ {0}
  BY LidarAssumption
<1>2. kept \in Seq(E) /\ Keeps(kept, graph, P)
  BY EdgesAreKept
<1>3. /\ IsFiniteSet(P) /\ Len(kept) = c /\ c \in Nat
      /\ \A i \in 1 .. Len(kept) : \E n \in P : kept[i] = graph[n]
      /\ \A n \in P : /\ Cardinality(Newer(P, n)) < Len(kept)
                      /\ kept[Len(kept) - Cardinality(Newer(P, n))] = graph[n]
  BY <1>2, FS_CardinalityType, Zenon DEF Keeps
<1>4. w = [i \in DOMAIN recent |-> Renumbered(recent[i], start)]
  BY Zenon DEF WindowEdges, Renumbered
<1> HIDE DEF kept, c
<1>5. /\ recent \in Seq(E) /\ Len(recent) = Lesser(EdgeLimit, c) /\ Len(recent) \in 0 .. c
      /\ \A i \in 1 .. Len(recent) : recent[i] = kept[c - Len(recent) + i]
  <2>1. /\ recent \in Seq(E) /\ Len(recent) = Lesser(EdgeLimit, Len(kept))
        /\ Len(recent) \in 0 .. Len(kept)
        /\ \A i \in 1 .. Len(recent) : recent[i] = kept[Len(kept) - Len(recent) + i]
    BY <1>1, <1>2, SuffixFits
  <2> QED BY <1>3, <2>1, Zenon
<1> HIDE DEF recent
<1>6. Len(recent) \in Nat /\ DOMAIN recent = 1 .. Len(recent)
  BY <1>5
<1> DEFINE l == Len(recent)
<1>7. DOMAIN w = 1 .. l /\ \A i \in 1 .. l : w[i] = Renumbered(recent[i], start)
  BY <1>4, <1>6, Zenon
<1>8. Len(w) = l
  <2>1. w \in Seq({w[i] : i \in 1 .. l})
    <3>1. w = [i \in 1 .. l |-> w[i]]
      BY <1>4, <1>6, <1>7, ZenonT(30)
    <3>2. \A i \in 1 .. l : w[i] \in {w[j] : j \in 1 .. l}
      OBVIOUS
    <3> HIDE DEF l
    <3>3. w \in [1 .. l -> {w[j] : j \in 1 .. l}]
      BY <3>1, <3>2
    <3> QED BY <1>6, <3>3, SeqDef DEF l
  <2> QED BY <1>6, <1>7, <2>1
<1>9. ASSUME NEW i \in 1 .. l
      PROVE  \E n \in P : w[i] = Renumbered(graph[n], start)
  <2>1. c - l + i \in 1 .. c
    BY <1>3, <1>5, <1>6
  <2>2. PICK n \in P : kept[c - l + i] = graph[n]
    BY <1>3, <2>1
  <2> QED BY <1>5, <1>7, <2>2, Zenon
<1>10. ASSUME NEW n \in P, Cardinality(Newer(P, n)) < EdgeLimit
       PROVE  w[l - Cardinality(Newer(P, n))] = Renumbered(graph[n], start)
  <2>1. Newer(P, n) \subseteq P
    BY DEF Newer
  <2>2. PICK a \in Nat : a = Cardinality(Newer(P, n))
    BY <1>3, <2>1, FS_Subset, FS_CardinalityType
  <2>3. a < c /\ a < EdgeLimit /\ kept[c - a] = graph[n]
    BY <1>3, <1>10, <2>2
  <2>4. l - a \in 1 .. l /\ c - l + (l - a) = c - a
    BY <1>1, <1>3, <1>5, <1>6, <2>3 DEF Lesser
  <2>5. recent[l - a] = kept[c - a]
    BY <1>5, <2>4
  <2> QED BY <1>7, <2>2, <2>3, <2>4, <2>5, Zenon
<1> QED BY <1>3, <1>5, <1>7, <1>8, <1>9, <1>10, Zenon DEF c, l

(* The window is the newest keyframes.                                          *)
Window(count) == SubSeq([k \in 1 .. count |-> k - 1], WindowStart(count) + 1, count)

LEMMA WindowFits ==
  ASSUME NEW count \in Nat
  PROVE  /\ WindowStart(count) \in 0 .. count
         /\ Window(count) \in Seq(Nat)
         /\ Len(Window(count)) = count - WindowStart(count)
         /\ Len(Window(count)) = Lesser(WindowLimit, count)
         /\ \A i \in 1 .. Len(Window(count)) : Window(count)[i] = WindowStart(count) + i - 1
<1> DEFINE first == WindowStart(count)
           all == [k \in 1 .. count |-> k - 1]
           u == SubSeq(all, first + 1, count)
<1>1. first \in 0 .. count /\ count - first = Lesser(WindowLimit, count)
  BY LidarAssumption DEF WindowStart, Greater, Lesser
<1>2. \A k \in 1 .. count : all[k] = k - 1 /\ all[k] \in Nat
  OBVIOUS
<1> HIDE DEF first, all
<1>3. first + 1 \in Int /\ count \in Int /\ \A i \in first + 1 .. count : all[i] \in Nat
  BY <1>1, <1>2
<1>4. /\ u \in Seq(Nat)
      /\ Len(u) = IF first + 1 <= count THEN count - (first + 1) + 1 ELSE 0
      /\ \A i \in 1 .. count - (first + 1) + 1 : u[i] = all[(first + 1) + i - 1]
  BY <1>3, SubSeqProperties
<1> HIDE DEF u
<1>5. Len(u) = count - first /\ count - (first + 1) + 1 = count - first
  BY <1>1, <1>4
<1>6. \A i \in 1 .. count - first : (first + 1) + i - 1 = first + i /\ first + i \in 1 .. count
  BY <1>1
<1>7. \A i \in 1 .. count - first : u[i] = first + i - 1
  BY <1>1, <1>2, <1>4, <1>5, <1>6
<1>8. Window(count) = u
  BY DEF Window, u, all, first
<1> QED BY <1>1, <1>4, <1>5, <1>7, <1>8 DEF first

(* What an observation shows of a graph.                                         *)
Seen(o, frames, graph) ==
  /\ o.keyframes = Len(frames)
  /\ o.window = Window(Len(frames))
  /\ o.map = MapSample(MapPoints(frames), MapLimit)
  /\ o.edges = WindowEdges(graph, WindowStart(Len(frames)))

(* Its edges have places of its window, which is as long as it may be.            *)
Indexed(o) ==
  /\ \A i \in DOMAIN o.edges : {o.edges[i][1] + 1, o.edges[i][2] + 1} \subseteq DOMAIN o.window
  /\ Len(o.window) = Lesser(WindowLimit, o.keyframes)

Joined(o, e) == <<o.window[e[1] + 1], o.window[e[2] + 1], e[3]>>
InWindow(o, graph) ==
  {n \in DOMAIN graph : {graph[n][1], graph[n][2]} \subseteq {o.window[i] : i \in DOMAIN o.window}}
ShowsEdges(o, graph) ==
  /\ Len(o.edges) = Lesser(EdgeLimit, Cardinality(InWindow(o, graph)))
  /\ \A n \in InWindow(o, graph) : Cardinality(Newer(InWindow(o, graph), n)) < EdgeLimit =>
       Joined(o, o.edges[Len(o.edges) - Cardinality(Newer(InWindow(o, graph), n))]) = graph[n]

LEMMA SeenEdges ==
  ASSUME NEW frames \in Seq(Nat), NEW graph \in Seq(Between(Len(frames))),
         NEW o, Seen(o, frames, graph)
  PROVE  Indexed(o) /\ ShowsEdges(o, graph)
<1> DEFINE count == Len(frames)
           start == WindowStart(count)
           P == Inside(graph, start, Len(graph))
           w == o.edges
           u == o.window
<1>1. count \in Nat /\ Len(graph) \in Nat /\ DOMAIN graph = 1 .. Len(graph)
  OBVIOUS
<1>2. /\ start \in 0 .. count /\ u \in Seq(Nat) /\ Len(u) = count - start
      /\ Len(u) = Lesser(WindowLimit, count) /\ o.keyframes = count
      /\ \A i \in 1 .. Len(u) : u[i] = start + i - 1
  BY <1>1, WindowFits DEF Seen
<1>3. /\ DOMAIN w = 1 .. Len(w) /\ Len(w) = Lesser(EdgeLimit, Cardinality(P))
      /\ \A i \in 1 .. Len(w) : \E n \in P : w[i] = Renumbered(graph[n], start)
      /\ \A n \in P : Cardinality(Newer(P, n)) < EdgeLimit =>
           w[Len(w) - Cardinality(Newer(P, n))] = Renumbered(graph[n], start)
  <2>1. w = WindowEdges(graph, start)
    BY DEF Seen
  <2> HIDE DEF w, start, count
  <2> QED BY <2>1, WindowEdgesFit
<1>4. ASSUME NEW n \in 1 .. Len(graph)
      PROVE  /\ graph[n][1] \in 0 .. count - 1 /\ graph[n][2] \in 0 .. count - 1
             /\ graph[n] = <<graph[n][1], graph[n][2], graph[n][3]>>
  <2>1. graph[n] \in (0 .. count - 1) \X (0 .. count - 1) \X BOOLEAN
    BY ElementOfSeq DEF Between
  <2> HIDE DEF count
  <2> QED BY <2>1
<1> HIDE DEF count, start, w, u
<1>5. DOMAIN u = 1 .. count - start
  BY <1>1, <1>2
<1>6. \A i \in 0 .. count - 1 : (\E k \in DOMAIN u : i = u[k]) <=> i >= start
  <2>1. ASSUME NEW i \in 0 .. count - 1, i >= start
        PROVE  \E k \in DOMAIN u : i = u[k]
    <3>1. (i - start) + 1 \in 1 .. count - start /\ start + ((i - start) + 1) - 1 = i
      BY <1>1, <1>2, <2>1
    <3> QED BY <1>2, <1>5, <3>1
  <2>2. ASSUME NEW i \in 0 .. count - 1, NEW k \in DOMAIN u, i = u[k]
        PROVE  i >= start
    BY <1>1, <1>2, <1>5, <2>2
  <2> QED BY <2>1, <2>2
<1>7. InWindow(o, graph) = P
  <2>1. InWindow(o, graph) = {n \in 1 .. Len(graph) :
           (\E k \in DOMAIN u : graph[n][1] = u[k]) /\ (\E k \in DOMAIN u : graph[n][2] = u[k])}
    BY <1>1 DEF InWindow, u
  <2>2. \A n \in 1 .. Len(graph) :
          ((\E k \in DOMAIN u : graph[n][1] = u[k]) /\ (\E k \in DOMAIN u : graph[n][2] = u[k]))
            <=> (graph[n][1] >= start /\ graph[n][2] >= start)
    BY <1>4, <1>6, Zenon
  <2> QED BY <2>1, <2>2, Zenon DEF Inside
<1>8. ASSUME NEW n \in P
      PROVE  /\ Renumbered(graph[n], start)[1] + 1 \in DOMAIN u
             /\ Renumbered(graph[n], start)[2] + 1 \in DOMAIN u
             /\ Joined(o, Renumbered(graph[n], start)) = graph[n]
  <2>1. /\ n \in 1 .. Len(graph) /\ graph[n][1] >= start /\ graph[n][2] >= start
    BY DEF Inside
  <2>2. PICK a \in 0 .. count - 1 : a = graph[n][1]
    BY <1>4, <2>1
  <2>3. PICK b \in 0 .. count - 1 : b = graph[n][2]
    BY <1>4, <2>1
  <2>4. graph[n] = <<a, b, graph[n][3]>>
    BY <1>4, <2>1, <2>2, <2>3, Zenon
  <2>5. PICK c : c = graph[n][3]
    OBVIOUS
  <2>6. PICK e : e = Renumbered(graph[n], start)
    OBVIOUS
  <2>7. e[1] = a - start /\ e[2] = b - start /\ e[3] = c
    BY <2>2, <2>3, <2>5, <2>6, Zenon DEF Renumbered
  <2>8. /\ e[1] + 1 \in 1 .. count - start /\ e[2] + 1 \in 1 .. count - start
        /\ start + (e[1] + 1) - 1 = a /\ start + (e[2] + 1) - 1 = b
    <3>1. a >= start /\ b >= start /\ start \in 0 .. count /\ count \in Nat
      BY <1>1, <1>2, <2>1, <2>2, <2>3
    <3>2. PICK x : x = e[1] /\ x = a - start
      BY <2>7
    <3>3. PICK y : y = e[2] /\ y = b - start
      BY <2>7
    <3>4. /\ x + 1 \in 1 .. count - start /\ y + 1 \in 1 .. count - start
          /\ start + (x + 1) - 1 = a /\ start + (y + 1) - 1 = b
      BY <3>1, <3>2, <3>3
    <3> QED BY <3>2, <3>3, <3>4, Zenon
  <2>9. u[e[1] + 1] = a /\ u[e[2] + 1] = b
    BY <1>2, <2>8
  <2>10. Joined(o, e) = <<a, b, c>>
    BY <2>7, <2>9, Zenon DEF Joined, u
  <2> QED BY <1>5, <2>4, <2>5, <2>6, <2>8, <2>10, Zenon
<1>9. Indexed(o)
  <2>1. ASSUME NEW i \in DOMAIN w
        PROVE  {w[i][1] + 1, w[i][2] + 1} \subseteq DOMAIN u
    <3>1. PICK n \in P : w[i] = Renumbered(graph[n], start)
      BY <1>3, Zenon
    <3> QED BY <1>8, <3>1, Zenon
  <2> QED BY <1>2, <2>1, Zenon DEF Indexed, w, u
<1>10. ShowsEdges(o, graph)
  <2>1. ASSUME NEW n \in P, Cardinality(Newer(P, n)) < EdgeLimit
        PROVE  Joined(o, w[Len(w) - Cardinality(Newer(P, n))]) = graph[n]
    BY <1>3, <1>8, <2>1, Zenon
  <2> QED BY <1>3, <1>7, <2>1, Zenon DEF ShowsEdges, w
<1> QED BY <1>9, <1>10

(* The points of all keyframes.                                                  *)
LEMMA MapPointsCounted ==
  ASSUME NEW frames \in Seq(Nat)
  PROVE  MapPoints(frames) \in Nat
<1> DEFINE n == Len(frames)
           Body(G) == [k \in 0 .. n |-> IF k = 0 THEN 0 ELSE G[k - 1] + frames[k]]
           F == CHOOSE G : G = Body(G)
           next == [p \in (1 .. n) \X Nat |-> p[2] + frames[p[1]]]
<1>0. MapPoints(frames) = F[n]
  BY Zenon DEF MapPoints
<1>1. n \in Nat /\ n \in 0 .. n
  OBVIOUS
<1>2. \A k \in 1 .. n : frames[k] \in Nat
  OBVIOUS
<1>3. next \in [(1 .. n) \X Nat -> Nat]
  BY <1>2
<1>4. \A k \in 1 .. n, s \in Nat : next[<<k, s>>] = s + frames[k]
  OBVIOUS
<1>5. PICK H \in [0 .. n -> Nat] : Follows(H, n, 0, next)
  <2> HIDE DEF next, n
  <2> QED BY <1>1, <1>3, RecursionExists
<1> HIDE DEF next
<1>6. H = Body(H)
  <2>1. ASSUME NEW k \in 0 .. n
        PROVE  H[k] = IF k = 0 THEN 0 ELSE H[k - 1] + frames[k]
    <3>1. CASE k = 0
      BY <1>5, <3>1 DEF Follows
    <3>2. CASE k # 0
      <4>1. k \in 1 .. n /\ k - 1 \in 0 .. n
        BY <1>1, <3>2
      <4>2. H[k] = next[<<k, H[k - 1]>>] /\ H[k - 1] \in Nat
        BY <1>5, <4>1 DEF Follows
      <4> QED BY <1>4, <3>2, <4>1, <4>2
    <3> QED BY <3>1, <3>2
  <2> QED BY <1>5, <2>1
<1>7. F = Body(F)
  <2> HIDE DEF Body
  <2> QED BY <1>6, Zenon
<1>8. F[0] = 0 /\ \A k \in 1 .. n : F[k] = F[k - 1] + frames[k]
  <2>1. PICK G : G = F
    OBVIOUS
  <2>2. G = [k \in 0 .. n |-> IF k = 0 THEN 0 ELSE G[k - 1] + frames[k]]
    BY <1>7, <2>1, Zenon
  <2> HIDE DEF F
  <2>3. \A k \in 0 .. n : G[k] = IF k = 0 THEN 0 ELSE G[k - 1] + frames[k]
    BY <2>2, Zenon
  <2>4. 0 \in 0 .. n /\ \A k \in 1 .. n : k \in 0 .. n /\ k # 0
    BY <1>1
  <2> QED BY <2>1, <2>3, <2>4, Zenon
<1> HIDE DEF F
<1> DEFINE T == {k \in 0 .. n : F[k] \in Nat}
<1>9. 0 \in T
  BY <1>1, <1>8
<1>10. ASSUME NEW k \in 1 .. n, k - 1 \in T
       PROVE  k \in T
  <2>1. F[k - 1] \in Nat /\ k \in 0 .. n /\ F[k] = F[k - 1] + frames[k]
    BY <1>1, <1>8, <1>10
  <2> QED BY <1>2, <2>1
<1>11. n \in T
  <2> HIDE DEF T, n
  <2> QED BY <1>1, <1>9, <1>10, Along
<1> QED BY <1>0, <1>11

(* The map and the scan are spread.                                             *)
MapEven(map, total) ==
  /\ Spread(map, total, MapLimit)
  /\ \A i \in 1 .. Len(map) - 1 : map[i + 1] - map[i] = Stride(total, MapLimit)
  /\ map # <<>> => total - map[Len(map)] <= Stride(total, MapLimit)

LEMMA MapIsEven ==
  ASSUME NEW total \in Nat
  PROVE  MapEven(MapSample(total, MapLimit), total)
<1> DEFINE stride == Stride(total, MapLimit)
           s == MapSample(total, MapLimit)
           c == Len(s)
           next == [i \in DOMAIN s |-> IF i = Len(s) THEN total ELSE s[i + 1]]
<1>1. MapLimit \in Nat \ {0}
  BY LidarAssumption
<1>2. stride \in Nat \ {0} /\ total <= stride * MapLimit /\ (total <= MapLimit => stride = 1)
  BY <1>1, StrideCovers
<1>3. Placed(s, total, MapLimit, stride)
  <2> HIDE DEF stride
  <2>1. s = EachOf(total, MapLimit, stride)
    BY DEF MapSample, stride
  <2> QED BY <1>1, <1>2, <2>1, EachOfPlaces
<1> HIDE DEF stride, s
<1>4. /\ s \in Seq(Nat) /\ c \in Nat /\ c <= MapLimit /\ DOMAIN s = 1 .. c
      /\ \A i \in 1 .. c : s[i] = stride * (i - 1)
      /\ total > 0 => c > 0
  BY <1>3 DEF Placed
<1>5. c > 0 => total <= stride * c /\ stride * (c - 1) < total
  <2> HAVE c > 0
  <2>1. total > 0
    BY <1>3, <1>4 DEF Placed
  <2>2. CASE c = MapLimit
    BY <1>2, <1>3, <2>1, <2>2 DEF Placed
  <2>3. CASE c # MapLimit
    <3>1. c < MapLimit
      <4>1. c \in Nat /\ c <= MapLimit
        BY <1>4
      <4> HIDE DEF c
      <4> QED BY <1>1, <2>3, <4>1
    <3> QED BY <1>3, <2>1, <3>1 DEF Placed
  <2> QED BY <2>2, <2>3
<1> HIDE DEF c
<1>6. ASSUME NEW i \in 1 .. c - 1
      PROVE  s[i + 1] - s[i] = stride
  <2>1. i \in 1 .. c /\ i + 1 \in 1 .. c /\ (i + 1) - 1 = i
    BY <1>4
  <2>2. PICK x \in Int : x = stride * (i - 1) /\ stride * i = x + stride
    BY <1>2, <2>1
  <2> QED BY <1>2, <1>4, <2>1, <2>2
<1>7. c > 0 => total - s[c] \in 1 .. stride
  <2> HAVE c > 0
  <2>1. c \in 1 .. c
    BY <1>4
  <2>2. PICK x \in Int : x = stride * (c - 1) /\ stride * c = x + stride
    BY <1>2, <1>4
  <2> QED BY <1>2, <1>4, <1>5, <2>1, <2>2
<1>8. ASSUME NEW i \in DOMAIN s
      PROVE  next[i] - s[i] \in 1 .. stride
  <2>1. i \in 1 .. c /\ c > 0
    BY <1>4
  <2>2. CASE i = c
    BY <1>7, <2>1, <2>2 DEF c
  <2>3. CASE i # c
    <3>1. i \in 1 .. c - 1
      BY <1>4, <2>1, <2>3
    <3>2. next[i] = s[i + 1]
      BY <2>3 DEF c
    <3> QED BY <1>2, <1>6, <3>1, <3>2
  <2> QED BY <2>2, <2>3
<1>9. total > 0 => s # <<>> /\ s[1] = 0
  <2> HAVE total > 0
  <2>1. c > 0 /\ 1 \in 1 .. c
    BY <1>4
  <2>2. s[1] = stride * 0 /\ stride * 0 = 0
    BY <1>2, <1>4, <2>1
  <2> QED BY <2>1, <2>2 DEF c
<1>10. Spread(s, total, MapLimit)
  <2>1. \A i \in DOMAIN s : next[i] - s[i] >= 1
    BY <1>8
  <2>2. total <= MapLimit => \A i \in DOMAIN s : next[i] - s[i] = 1
    BY <1>2, <1>8
  <2> HIDE DEF next
  <2>3. \A g \in {next[i] - s[i] : i \in DOMAIN s} : g >= 1
    BY <2>1
  <2>4. total <= MapLimit => {next[i] - s[i] : i \in DOMAIN s} \subseteq {1}
    BY <2>2
  <2> QED BY <1>4, <1>9, <2>3, <2>4, Zenon DEF Spread, next, c
<1>11. s # <<>> => total - s[Len(s)] <= stride
  <2> HAVE s # <<>>
  <2>1. c > 0
    BY <1>4 DEF c
  <2> QED BY <1>2, <1>7, <2>1 DEF c
<1> QED BY <1>6, <1>10, <1>11, Zenon DEF MapEven, stride, s, c

LEMMA ScanIsEven ==
  ASSUME NEW length \in Nat \ {0}
  PROVE  /\ Spread(BoundedSample(length, ScanLimit), length, ScanLimit)
         /\ \A i, j \in 1 .. Len(BoundedSample(length, ScanLimit)) - 1 :
              BoundedSample(length, ScanLimit)[i + 1] - BoundedSample(length, ScanLimit)[i]
                <= BoundedSample(length, ScanLimit)[j + 1] - BoundedSample(length, ScanLimit)[j] + 1
<1> DEFINE s == BoundedSample(length, ScanLimit)
           c == Lesser(ScanLimit, length)
           next == [i \in DOMAIN s |-> IF i = Len(s) THEN length ELSE s[i + 1]]
<1>1. ScanLimit \in Nat \ {0}
  BY LidarAssumption
<1>2. SpreadOver(s, length, ScanLimit, c)
  BY <1>1, SampleIsSpread
<1> HIDE DEF s, c
<1>3. /\ c \in 1 .. length /\ c <= ScanLimit /\ s \in Seq(Nat) /\ Len(s) = c /\ DOMAIN s = 1 .. c
      /\ \A i \in 1 .. c : s[i] \in 0 .. length - 1
      /\ s[1] = 0
      /\ \A i \in 1 .. c - 1 : s[i] < s[i + 1]
      /\ \A i, j \in 1 .. c - 1 : s[i + 1] - s[i] <= s[j + 1] - s[j] + 1
      /\ length <= ScanLimit => \A i \in 1 .. c : s[i] = i - 1
      /\ length <= ScanLimit => c = length
  BY <1>1, <1>2 DEF SpreadOver, c, Lesser
<1>4. ASSUME NEW i \in DOMAIN s
      PROVE  /\ next[i] - s[i] >= 1
             /\ length <= ScanLimit => next[i] - s[i] = 1
  <2>1. i \in 1 .. c /\ s[i] \in 0 .. length - 1
    BY <1>3
  <2>2. CASE i = c
    <3>1. next[i] = length
      BY <1>3, <2>2
    <3> HIDE DEF next
    <3> QED BY <1>3, <2>1, <2>2, <3>1
  <2>3. CASE i # c
    <3>1. i \in 1 .. c - 1 /\ i + 1 \in 1 .. c /\ s[i + 1] \in Int
      <4>1. c \in Nat /\ \A k \in 1 .. c : s[k] \in Int
        BY <1>3
      <4>2. i \in 1 .. c - 1 /\ i + 1 \in 1 .. c
        BY <2>1, <2>3, <4>1
      <4> QED BY <4>1, <4>2
    <3>2. next[i] = s[i + 1]
      BY <1>3, <2>3
    <3>3. s[i] < s[i + 1]
      BY <1>3, <3>1
    <3>4. length <= ScanLimit => s[i + 1] = (i + 1) - 1 /\ s[i] = i - 1
      BY <1>3, <2>1, <3>1
    <3> HIDE DEF next
    <3> QED BY <2>1, <3>1, <3>2, <3>3, <3>4
  <2> QED BY <2>2, <2>3
<1> HIDE DEF next
<1>5. /\ \A g \in {next[i] - s[i] : i \in DOMAIN s} : g >= 1
      /\ length <= ScanLimit => {next[i] - s[i] : i \in DOMAIN s} \subseteq {1}
  BY <1>4
<1>6. s # <<>>
  BY <1>3
<1>7. Spread(s, length, ScanLimit)
  BY <1>3, <1>5, <1>6, Zenon DEF Spread, next
<1> QED BY <1>3, <1>7, Zenon DEF s

LEMMA MoreBetween ==
  ASSUME NEW n \in Nat, NEW m \in Nat, n <= m, NEW s \in Seq(Between(n)), NEW t \in Seq(Between(m))
  PROVE  s \o t \in Seq(Between(m))
<1>1. 0 .. n - 1 \subseteq 0 .. m - 1
  OBVIOUS
<1>2. Between(n) \subseteq Between(m)
  BY <1>1, Zenon DEF Between
<1>3. s \in Seq(Between(m))
  BY <1>2
<1> QED BY <1>3

(* What is published is the graph as it was when the frame was accepted.          *)
GraphFits ==
  /\ edges \in Seq(Between(Len(keyframes)))
  /\ stage = "snapshot" => Seen(observation, keyframes, edges)
  /\ lastSnapshot # Absent =>
       /\ Indexed(lastSnapshot.observation)
       /\ stage # "snapshot" => Seen(lastSnapshot.observation, keyframes, edges)

LEMMA GraphStays ==
  ASSUME GraphFits, stage # "snapshot", stage' # "snapshot",
         UNCHANGED <<keyframes, edges, lastSnapshot>>
  PROVE  GraphFits'
<1>1. keyframes' = keyframes /\ edges' = edges /\ lastSnapshot' = lastSnapshot
  OBVIOUS
<1> QED BY <1>1, Zenon DEF GraphFits, Indexed, Seen

LEMMA SlamKeepsGraph ==
  ASSUME LidarFits, GraphFits, Slam, InOrder
  PROVE  GraphFits'
<1>1. PICK result \in ScanResults :
        /\ keyframes' = IF result.keyframe THEN Append(keyframes, Len(sampled)) ELSE keyframes
        /\ edges' = edges \o result.edges
        /\ observation' =
             [estimated |-> frame.index, result |-> result, updates |-> updates',
              keyframes |-> Len(keyframes'), scan |-> sampled,
              window |-> SubSeq([k \in DOMAIN keyframes' |-> k - 1],
                                WindowStart(Len(keyframes')) + 1, Len(keyframes')),
              map |-> MapSample(MapPoints(keyframes'), MapLimit),
              edges |-> WindowEdges(edges', WindowStart(Len(keyframes')))]
  BY Zenon DEF Slam
<1>2. stage = "slam" /\ stage' = "snapshot" /\ lastSnapshot' = lastSnapshot
  BY DEF Slam
<1>3. /\ ValidFrame(frame) /\ frame \in LidarFrames /\ sampled = BoundedSample(frame.size, ScanLimit)
      /\ keyframes \in Seq(Nat)
  BY <1>2 DEF LidarFits, RunFits, CountsFit
<1>4. Len(sampled) \in Nat
  BY <1>3, SampleIsSpread, LidarAssumption DEF SpreadOver, ValidFrame
<1>5. keyframes' \in Seq(Nat) /\ Len(keyframes') = Len(keyframes) + (IF result.keyframe THEN 1 ELSE 0)
  BY <1>1, <1>3, <1>4
<1>6. edges' \in Seq(Between(Len(keyframes')))
  <2>1. edges \in Seq(Between(Len(keyframes)))
    BY DEF GraphFits
  <2>2. result.edges \in Seq(Between(Len(keyframes')))
    BY <1>3, <1>5, ScanJoinsKeyframes
  <2>3. Len(keyframes) \in Nat /\ Len(keyframes') \in Nat /\ Len(keyframes) <= Len(keyframes')
    BY <1>3, <1>5
  <2> QED BY <1>1, <2>1, <2>2, <2>3, MoreBetween
<1>7. Seen(observation', keyframes', edges')
  <2>1. DOMAIN keyframes' = 1 .. Len(keyframes')
    BY <1>5
  <2> QED BY <1>1, <2>1, Zenon DEF Seen, Window
<1>8. lastSnapshot' # Absent => Indexed(lastSnapshot'.observation)
  BY <1>2, Zenon DEF GraphFits
<1> QED BY <1>2, <1>6, <1>7, <1>8, Zenon DEF GraphFits, Seen, Indexed

LEMMA PublishKeepsGraph ==
  ASSUME LidarFits, GraphFits, PublishSnapshot
  PROVE  GraphFits'
<1>1. /\ stage = "snapshot" /\ stage' = "idle" /\ lastSnapshot'.observation = observation
      /\ keyframes' = keyframes /\ edges' = edges
  BY DEF PublishSnapshot, EndRun
<1>2. Seen(observation, keyframes, edges) /\ edges \in Seq(Between(Len(keyframes)))
  BY <1>1 DEF GraphFits
<1>3. keyframes \in Seq(Nat)
  BY DEF LidarFits, CountsFit
<1>4. Indexed(observation)
  BY <1>2, <1>3, SeenEdges
<1>5. PICK o : o = lastSnapshot'.observation /\ Seen(o, keyframes, edges) /\ Indexed(o)
  BY <1>1, <1>2, <1>4, Zenon
<1> QED BY <1>1, <1>2, <1>5, Zenon DEF GraphFits, Seen, Indexed

LEMMA GraphStepKeeps ==
  ASSUME LidarFits, GraphFits, [LidarNext]_lidarVars
  PROVE  GraphFits'
<1>1. ASSUME NEW f \in LidarFrames, StartFrame(f)
      PROVE  GraphFits'
  BY <1>1, GraphStays DEF StartFrame
<1>2. CASE PrepareScan
  BY <1>2, GraphStays DEF PrepareScan, EndRun
<1>3. CASE Slam /\ ~ InOrder
  BY <1>3, GraphStays DEF Slam, EndRun
<1>4. CASE SlamPanics
  BY <1>4, GraphStays DEF SlamPanics, EndRun
<1>5. CASE UNCHANGED lidarVars
  <2>1. /\ stage' = stage /\ keyframes' = keyframes /\ edges' = edges
        /\ observation' = observation /\ lastSnapshot' = lastSnapshot
    BY <1>5 DEF lidarVars
  <2> QED BY <2>1, Zenon DEF GraphFits, Seen, Indexed
<1> QED BY <1>1, <1>2, <1>3, <1>4, <1>5, SlamKeepsGraph, PublishKeepsGraph DEF LidarNext

LEMMA GraphStarts ==
  ASSUME LidarInit
  PROVE  GraphFits
<1>1. edges = <<>> /\ stage = "idle" /\ lastSnapshot = Absent
  BY DEF LidarInit
<1>2. edges \in Seq(Between(Len(keyframes)))
  BY <1>1
<1> QED BY <1>1, <1>2 DEF GraphFits

LEMMA GraphTells ==
  ASSUME LidarFits, GraphFits
  PROVE  EdgesAreOfTheWindow /\ SamplesAreSpread
<1>1. keyframes \in Seq(Nat) /\ edges \in Seq(Between(Len(keyframes)))
  BY DEF LidarFits, CountsFit, GraphFits
<1>2. ASSUME lastSnapshot # Absent, stage = "idle"
      PROVE  Seen(lastSnapshot.observation, keyframes, edges)
  BY <1>2 DEF GraphFits
<1>3. EdgesAreOfTheWindow
  <2>1. ASSUME lastSnapshot # Absent, stage = "idle"
        PROVE  ShowsEdges(lastSnapshot.observation, edges)
    BY <1>1, <1>2, <2>1, SeenEdges
  <2>2. lastSnapshot # Absent => Indexed(lastSnapshot.observation)
    BY DEF GraphFits
  <2> QED BY <2>1, <2>2, Zenon
           DEF EdgesAreOfTheWindow, Indexed, ShowsEdges, InWindow, Newer, Joined
<1>4. ScansAreSpread
  <2> SUFFICES ASSUME stage = "slam"
               PROVE  /\ Spread(sampled, frame.size, ScanLimit)
                      /\ \A i, j \in 1 .. Len(sampled) - 1 :
                           sampled[i + 1] - sampled[i] <= sampled[j + 1] - sampled[j] + 1
    BY Zenon DEF ScansAreSpread
  <2>1. frame.size \in Nat \ {0} /\ sampled = BoundedSample(frame.size, ScanLimit)
    BY LidarAssumption DEF LidarFits, RunFits, ValidFrame
  <2> QED BY <2>1, ScanIsEven, Zenon
<1>5. MapIsSpread
  <2> SUFFICES ASSUME lastSnapshot # Absent, stage = "idle"
               PROVE  MapEven(lastSnapshot.observation.map, MapPoints(keyframes))
    BY Zenon DEF MapIsSpread, MapEven
  <2>1. lastSnapshot.observation.map = MapSample(MapPoints(keyframes), MapLimit)
    BY <1>2 DEF Seen
  <2>2. MapPoints(keyframes) \in Nat
    BY <1>1, MapPointsCounted
  <2> QED BY <2>1, <2>2, MapIsEven
<1> QED BY <1>3, <1>4, <1>5 DEF SamplesAreSpread

LEMMA GraphAlwaysFits == LidarSpec => [](LidarFits /\ GraphFits)
<1>1. LidarInit => LidarFits /\ GraphFits
  BY LidarStarts, GraphStarts
<1>2. LidarFits /\ GraphFits /\ [LidarNext]_lidarVars => (LidarFits /\ GraphFits)'
  BY LidarKeeps, GraphStepKeeps
<1> QED BY <1>1, <1>2, PTL DEF LidarSpec

(* The edges that are shown join the keyframes that slamwich joined, and are the    *)
(* newest in the window (SlamUnit::execute of the LiDAR example).                  *)
THEOREM EdgesAlwaysOfTheWindow == LidarSpec => []EdgesAreOfTheWindow
<1>1. LidarFits /\ GraphFits => EdgesAreOfTheWindow
  BY GraphTells
<1> QED BY <1>1, GraphAlwaysFits, PTL

(* What is sampled of a scan and of the map is spread over all of it             *)
(* (bounded_sample and sampled_map of the LiDAR example).                        *)
THEOREM SamplesAlwaysSpread == LidarSpec => []SamplesAreSpread
<1>1. LidarFits /\ GraphFits => SamplesAreSpread
  BY GraphTells
<1> QED BY <1>1, GraphAlwaysFits, PTL
------------------------------------------------------------------------------
(* A grid as the itinerary gives it, and the ground on it: the definitions of    *)
(* GridPlanner for a grid that is not the one at hand.                        *)
Plain(g) ==
  /\ g.width \in Nat /\ g.height \in Nat /\ g.radius \in Nat
  /\ \A c \in DOMAIN g.data : g.data[c] \in Int

CellsOf(g) == 0 .. g.width * g.height - 1
Column(g, c) == c % g.width
Row(g, c) == c \div g.width
Near(g, c) ==
  {n \in {c - 1, c + 1, c - g.width, c + g.width} \cap CellsOf(g) :
     Column(g, n) = Column(g, c) \/ Row(g, n) = Row(g, c)}
Box(g, c, r) ==
  {n \in CellsOf(g) : Abs(Column(g, n) - Column(g, c)) <= r /\ Abs(Row(g, n) - Row(g, c)) <= r}
Occupied(g) == {c \in CellsOf(g) : g.data[c] < 0 \/ g.data[c] >= 50}
FreeOf(g) == CellsOf(g) \ UNION {Box(g, c, g.radius) : c \in Occupied(g)}
OpenGround(g) == {c \in CellsOf(g) : \A n \in Box(g, c, 1) : g.data[n] = 0}
Estimate(kind, g, c) ==
  IF kind = "AStar"
    THEN Abs(Column(g, c) - Column(g, g.goal)) + Abs(Row(g, c) - Row(g, g.goal))
    ELSE 0

LEMMA SameGround ==
  /\ Cells = CellsOf(Grid) /\ Free = FreeOf(Grid) /\ ItineraryFree = OpenGround(Grid)
  /\ \A c : Neighbors(c) = Near(Grid, c)
  /\ \A c : Heuristic(c) = Estimate(algorithm, Grid, c)
<1>1. Cells = CellsOf(Grid)
  BY Zenon DEF Cells, CellsOf
<1>2. Free = FreeOf(Grid)
  BY Zenon DEF Free, Cost, Binary, Square, FreeOf, Occupied, Box, Cells, CellsOf, X, Y, Column, Row
<1>3. ItineraryFree = OpenGround(Grid)
  BY Zenon DEF ItineraryFree, OpenGround, Square, Box, Cells, CellsOf, X, Y, Column, Row
<1>4. \A c : Neighbors(c) = Near(Grid, c)
  BY Zenon DEF Neighbors, Near, Cells, CellsOf, X, Y, Column, Row
<1>5. \A c : Heuristic(c) = Estimate(algorithm, Grid, c)
  BY Zenon DEF Heuristic, Manhattan, Estimate, X, Y, Column, Row
<1> QED BY <1>1, <1>2, <1>3, <1>4, <1>5
------------------------------------------------------------------------------
(* Breadth first. *)

(* Cells reached one step further.                                            *)
Further(g, w, free) == w \cup {c \in free : Near(g, c) \cap w # {}}

(* W is the sequence of cells reached.                                        *)
Layers(W, g, free) ==
  /\ W[0] = {g.start}
  /\ \A n \in Nat \ {0} : W[n] = Further(g, W[n - 1], free)

LEMMA LayersGrow ==
  ASSUME NEW g, NEW free, IsFiniteSet(free), g.start \in free, NEW W, Layers(W, g, free)
  PROVE  /\ \A n \in Nat : W[n] \subseteq free /\ g.start \in W[n]
         /\ \A n \in Nat : \A m \in 0 .. n : W[m] \subseteq W[n]
         /\ \A n \in Nat : W[n + 1] = W[n] \/ Cardinality(W[n]) >= n + 1
         /\ W[Cardinality(free) + 1] = W[Cardinality(free)]
<1>0. \A n \in Nat : W[n + 1] = Further(g, W[n], free)
  <2> TAKE n \in Nat
  <2>1. n + 1 \in Nat \ {0} /\ (n + 1) - 1 = n
    OBVIOUS
  <2> QED BY <2>1 DEF Layers
<1>1. \A n \in Nat : W[n] \subseteq free /\ g.start \in W[n]
  <2> DEFINE T == {n \in Nat : W[n] \subseteq free /\ g.start \in W[n]}
  <2>1. 0 \in T
    BY DEF Layers
  <2>2. ASSUME NEW n \in Nat, n \in T PROVE n + 1 \in T
    BY <1>0, <2>2 DEF Further
  <2>3. \A n \in Nat : n \in T
    <3> HIDE DEF T
    <3> QED BY <2>1, <2>2, Induction
  <2> QED BY <2>3
<1>2. \A n \in Nat : \A m \in 0 .. n : W[m] \subseteq W[n]
  <2> DEFINE T == {n \in Nat : \A m \in 0 .. n : W[m] \subseteq W[n]}
  <2>1. 0 \in T
    OBVIOUS
  <2>2. ASSUME NEW n \in Nat, n \in T PROVE n + 1 \in T
    <3>1. W[n] \subseteq W[n + 1]
      BY <1>0 DEF Further
    <3>2. ASSUME NEW m \in 0 .. n + 1 PROVE W[m] \subseteq W[n + 1]
      <4>1. CASE m = n + 1
        BY <4>1
      <4>2. CASE m # n + 1
        <5>1. m \in 0 .. n
          BY <4>2
        <5> QED BY <2>2, <3>1, <5>1
      <4> QED BY <4>1, <4>2
    <3> QED BY <3>2
  <2>3. \A n \in Nat : n \in T
    <3> HIDE DEF T
    <3> QED BY <2>1, <2>2, Induction
  <2> QED BY <2>3
<1>3. \A n \in Nat : IsFiniteSet(W[n]) /\ Cardinality(W[n]) \in Nat /\ Cardinality(W[n]) <= Cardinality(free)
  <2> TAKE n \in Nat
  <2>1. W[n] \subseteq free
    BY <1>1
  <2>2. IsFiniteSet(W[n]) /\ Cardinality(W[n]) <= Cardinality(free)
    BY <2>1, FS_Subset
  <2> QED BY <2>2, FS_CardinalityType
<1>4. \A n \in Nat : W[n + 1] = W[n] \/ Cardinality(W[n]) >= n + 1
  <2> DEFINE T == {n \in Nat : W[n + 1] = W[n] \/ Cardinality(W[n]) >= n + 1}
  <2>1. 0 \in T
    <3>1. Cardinality(W[0]) = 1
      BY FS_Singleton DEF Layers
    <3> QED BY <3>1
  <2>2. ASSUME NEW n \in Nat, n \in T PROVE n + 1 \in T
    <3>0. n + 1 \in Nat
      OBVIOUS
    <3>1. CASE W[n + 1] = W[n]
      <4>1. W[(n + 1) + 1] = Further(g, W[n], free) /\ W[n + 1] = Further(g, W[n], free)
        BY <1>0, <3>0, <3>1
      <4> QED BY <3>0, <4>1
    <3>2. CASE W[n + 1] # W[n]
      <4>1. W[n] \subseteq W[n + 1]
        BY <1>0 DEF Further
      <4>2. IsFiniteSet(W[n + 1])
        BY <1>3, <3>0
      <4>3. Cardinality(W[n]) <= Cardinality(W[n + 1]) /\ Cardinality(W[n]) # Cardinality(W[n + 1])
        BY <3>2, <4>1, <4>2, FS_Subset
      <4>4. Cardinality(W[n]) >= n + 1 /\ Cardinality(W[n]) \in Nat /\ Cardinality(W[n + 1]) \in Nat
        BY <1>3, <2>2, <3>0, <3>2
      <4>5. Cardinality(W[n + 1]) >= (n + 1) + 1
        BY <4>3, <4>4
      <4> QED BY <3>0, <4>5
    <3> QED BY <3>1, <3>2
  <2>3. \A n \in Nat : n \in T
    <3> HIDE DEF T
    <3> QED BY <2>1, <2>2, Induction
  <2> QED BY <2>3
<1>5. W[Cardinality(free) + 1] = W[Cardinality(free)]
  <2>1. Cardinality(free) \in Nat
    BY FS_CardinalityType
  <2>2. ~ (Cardinality(W[Cardinality(free)]) >= Cardinality(free) + 1)
    BY <1>3, <2>1
  <2> QED BY <1>4, <2>1, <2>2
<1> QED BY <1>1, <1>2, <1>4, <1>5

(* The layers of route_distances.                                             *)
LayersOf(g, free) ==
  LET within[n \in Nat] ==
        IF n = 0 THEN {g.start}
        ELSE LET before == within[n - 1]
             IN  before \cup {c \in free : Near(g, c) \cap before # {}}
  IN  within

RoutesOn(g, free) ==
  [c \in CellsOf(g) |->
     IF c \in LayersOf(g, free)[Cardinality(free)]
       THEN CHOOSE n \in 0 .. Cardinality(free) :
              c \in LayersOf(g, free)[n] /\ (n = 0 \/ c \notin LayersOf(g, free)[n - 1])
       ELSE Inf]

LEMMA SameRoutes ==
  ASSUME NEW free
  PROVE  RouteDistances(free) = RoutesOn(Grid, free)
BY Zenon DEF RouteDistances, RoutesOn, LayersOf, Cells, CellsOf, Neighbors, Near, X, Y, Column, Row

LEMMA LayersExist ==
  ASSUME NEW g, NEW free, g.start \in free
  PROVE  Layers(LayersOf(g, free), g, free)
<1> DEFINE next == [x \in Nat \X SUBSET free |-> Further(g, x[2], free)]
           E(G) == [n \in Nat |-> IF n = 0 THEN {g.start} ELSE Further(g, G[n - 1], free)]
<1>1. next \in [Nat \X SUBSET free -> SUBSET free]
  BY DEF Further
<1>2. {g.start} \in SUBSET free
  OBVIOUS
<1>3. PICK G \in [Nat -> SUBSET free] : FollowsOn(G, {g.start}, next)
  <2> HIDE DEF next
  <2> QED BY <1>1, <1>2, RecursionOnNaturals
<1>4. ASSUME NEW k \in Nat, k # 0 PROVE G[k] = Further(g, G[k - 1], free)
  <2>1. k - 1 \in Nat /\ G[k - 1] \in SUBSET free
    BY <1>4
  <2>2. next[<<k, G[k - 1]>>] = Further(g, G[k - 1], free)
    BY <2>1
  <2> QED BY <1>3, <1>4, <2>2 DEF FollowsOn
<1>5. G = E(G)
  <2>1. \A k \in Nat : G[k] = E(G)[k]
    BY <1>3, <1>4 DEF FollowsOn
  <2> QED BY <1>3, <2>1
<1>6. LayersOf(g, free) = CHOOSE H : H = E(H)
  BY Zenon DEF LayersOf, Further
<1> DEFINE W == LayersOf(g, free)
<1>7. W = E(W)
  <2> HIDE DEF E
  <2> QED BY <1>5, <1>6, Zenon
<1>8. W[0] = {g.start}
  BY <1>7
<1>9. \A n \in Nat \ {0} : W[n] = Further(g, W[n - 1], free)
  BY <1>7
<1> QED BY <1>8, <1>9 DEF Layers

LEMMA CellsAreNumbers ==
  ASSUME NEW g, Plain(g), NEW c \in CellsOf(g)
  PROVE  /\ g.width \in Nat \ {0} /\ g.height \in Nat \ {0}
         /\ c \in Nat /\ c < g.width * g.height
<1> DEFINE w == g.width
           h == g.height
<1>1. w \in Nat /\ h \in Nat
  BY DEF Plain
<1>2. w * h \in Nat
  <2> HIDE DEF w, h
  <2> QED BY <1>1
<1>3. c \in Nat /\ c < w * h
  <2> DEFINE m == w * h
  <2>1. c \in 0 .. m - 1 /\ m \in Nat
    BY <1>2 DEF CellsOf
  <2> HIDE DEF m
  <2>2. c \in Nat /\ c < m
    BY <2>1
  <2> QED BY <2>2 DEF m
<1>4. w # 0 /\ h # 0
  <2> HIDE DEF w, h
  <2> QED BY <1>1, <1>3
<1> QED BY <1>1, <1>3, <1>4

LEMMA NeighborsAreMutual ==
  ASSUME NEW g, Plain(g), NEW c \in CellsOf(g), NEW n \in Near(g, c)
  PROVE  n \in CellsOf(g) /\ c \in Near(g, n)
<1>1. n \in CellsOf(g) /\ n \in {c - 1, c + 1, c - g.width, c + g.width}
      /\ (Column(g, n) = Column(g, c) \/ Row(g, n) = Row(g, c))
  BY DEF Near
<1>2. c \in Nat /\ n \in Nat /\ g.width \in Nat
  BY <1>1, CellsAreNumbers
<1>3. c \in {n - 1, n + 1, n - g.width, n + g.width}
  BY <1>1, <1>2
<1> QED BY <1>1, <1>3 DEF Near

(* Distances of a route over free cells: from the start, one more with every  *)
(* step that must be taken, and no more than one more with any that may be.   *)
Settles(g, R, free) ==
  /\ R \in [CellsOf(g) -> Nat]
  /\ R[g.start] = 0
  /\ \A c \in CellsOf(g) : R[c] # Inf => R[c] < Cardinality(free)
  /\ \A c \in CellsOf(g) : \A n \in Near(g, c) \cap free :
       R[c] # Inf => R[n] # Inf /\ R[n] <= R[c] + 1
  /\ \A c \in CellsOf(g) : R[c] # Inf /\ c # g.start =>
       c \in free /\ \E p \in Near(g, c) : R[p] # Inf /\ R[c] = R[p] + 1

LEMMA RoutesSettle ==
  ASSUME NEW g, Plain(g), NEW free \in SUBSET CellsOf(g), IsFiniteSet(free), g.start \in free,
         Cardinality(free) <= MaxCells
  PROVE  Settles(g, RoutesOn(g, free), free)
<1> DEFINE W == LayersOf(g, free)
           K == Cardinality(free)
           R == RoutesOn(g, free)
<1>1. Layers(W, g, free)
  BY LayersExist
<1> HIDE DEF W
<1>2. /\ \A n \in Nat : W[n] \subseteq free /\ g.start \in W[n]
      /\ \A n \in Nat : \A m \in 0 .. n : W[m] \subseteq W[n]
      /\ W[K + 1] = W[K]
  BY <1>1, LayersGrow
<1>3. \A n \in Nat : W[n + 1] = W[n] \/ Cardinality(W[n]) >= n + 1
  BY <1>1, LayersGrow
<1>4. K \in Nat /\ K < Inf /\ Inf \in Nat
  BY FS_CardinalityType, PlannerAssumption
<1>5. R = [c \in CellsOf(g) |->
            IF c \in W[K]
              THEN CHOOSE n \in 0 .. K : c \in W[n] /\ (n = 0 \/ c \notin W[n - 1])
              ELSE Inf]
  BY Zenon DEF RoutesOn, LayersOf, W
<1> HIDE DEF R, K
(* The distance of a cell is the first layer that has it.                     *)
<1>6. ASSUME NEW c \in CellsOf(g), c \in W[K]
      PROVE  R[c] \in 0 .. K /\ c \in W[R[c]] /\ (R[c] = 0 \/ c \notin W[R[c] - 1])
  <2> DEFINE T == {n \in Nat : c \in W[n]}
             P(n) == c \in W[n] /\ (n = 0 \/ c \notin W[n - 1])
  <2>1. PICK m \in T : \A n \in T : m <= n
    <3>1. K \in T /\ T \in SUBSET Nat
      BY <1>4, <1>6
    <3> HIDE DEF T
    <3> QED BY <3>1, LeastNatural
  <2>2. K \in T
    BY <1>4, <1>6
  <2>3. m \in Nat /\ m <= K
    BY <2>1, <2>2
  <2>4. m # 0 => m - 1 \notin T /\ m - 1 \in Nat
    BY <2>1, <2>3
  <2>5. m \in 0 .. K /\ P(m)
    BY <1>4, <2>1, <2>3, <2>4
  <2>6. R[c] = CHOOSE n \in 0 .. K : P(n)
    BY <1>5, <1>6
  <2> HIDE DEF P
  <2>7. R[c] \in 0 .. K /\ P(R[c])
    BY <2>5, <2>6
  <2> QED BY <2>7 DEF P
<1>7. ASSUME NEW c \in CellsOf(g), c \notin W[K] PROVE R[c] = Inf
  BY <1>5, <1>7
<1>8. ASSUME NEW c \in CellsOf(g)
      PROVE  R[c] \in Nat /\ (c \in W[K] <=> R[c] # Inf)
  BY <1>4, <1>6, <1>7
<1>9. ASSUME NEW c \in CellsOf(g), R[c] # Inf, NEW n \in Nat, c \in W[n]
      PROVE  R[c] <= n
  <2>1. R[c] \in 0 .. K /\ (R[c] = 0 \/ c \notin W[R[c] - 1])
    BY <1>6, <1>8, <1>9
  <2>2. CASE ~ (R[c] <= n)
    <3>1. R[c] # 0 /\ R[c] - 1 \in Nat /\ n \in 0 .. R[c] - 1
      BY <1>4, <2>1, <2>2
    <3>2. W[n] \subseteq W[R[c] - 1]
      BY <1>2, <3>1
    <3> QED BY <1>9, <2>1, <3>1, <3>2
  <2> QED BY <2>2
<1>10. g.start \in CellsOf(g)
  OBVIOUS
<1>11. R[g.start] = 0
  <2>1. g.start \in W[0] /\ g.start \in W[K]
    BY <1>2, <1>4
  <2>2. R[g.start] <= 0 /\ R[g.start] \in Nat
    BY <1>8, <1>9, <1>10, <2>1
  <2> QED BY <2>2
<1>12. ASSUME NEW c \in CellsOf(g), R[c] # Inf PROVE R[c] < K
  <2>1. R[c] \in 0 .. K /\ c \in W[R[c]] /\ (R[c] = 0 \/ c \notin W[R[c] - 1])
    BY <1>6, <1>8, <1>12
  <2>2. CASE R[c] = 0
    <3>1. Cardinality({g.start}) <= K
      BY FS_Subset DEF K
    <3>2. Cardinality({g.start}) = 1
      BY FS_Singleton
    <3> QED BY <1>4, <2>2, <3>1, <3>2
  <2>3. CASE R[c] # 0
    <3> DEFINE m == R[c] - 1
    <3>1. m \in Nat /\ m + 1 = R[c]
      BY <1>4, <2>1, <2>3
    <3>2. c \in W[m + 1] /\ c \notin W[m]
      BY <2>1, <2>3, <3>1
    <3> HIDE DEF m
    <3>3. Cardinality(W[m]) >= m + 1
      BY <1>3, <3>1, <3>2
    <3>4. W[m] \subseteq free \ {c} /\ c \in free
      BY <1>2, <3>1, <3>2
    <3>5. IsFiniteSet(free \ {c}) /\ Cardinality(free \ {c}) = K - 1
      BY <3>4, FS_RemoveElement DEF K
    <3>6. Cardinality(W[m]) <= K - 1 /\ IsFiniteSet(W[m])
      BY <3>4, <3>5, FS_Subset
    <3>7. Cardinality(W[m]) \in Nat
      BY <3>6, FS_CardinalityType
    <3> QED BY <1>4, <3>1, <3>3, <3>6, <3>7
  <2> QED BY <2>2, <2>3
<1>13. \A n \in Nat : W[n + 1] = Further(g, W[n], free)
  <2> TAKE n \in Nat
  <2>1. n + 1 \in Nat \ {0} /\ (n + 1) - 1 = n
    OBVIOUS
  <2> QED BY <1>1, <2>1 DEF Layers
<1>14. ASSUME NEW c \in CellsOf(g), NEW n \in Near(g, c) \cap free, R[c] # Inf
       PROVE  R[n] # Inf /\ R[n] <= R[c] + 1
  <2>1. R[c] \in 0 .. K /\ c \in W[R[c]] /\ c \in W[K]
    BY <1>6, <1>8, <1>14
  <2>2. n \in CellsOf(g) /\ c \in Near(g, n)
    BY NeighborsAreMutual
  <2>3. n \in W[R[c] + 1] /\ n \in W[K + 1]
    BY <1>4, <1>13, <2>1, <2>2 DEF Further
  <2>4. R[n] # Inf
    BY <1>2, <1>8, <2>2, <2>3
  <2> QED BY <1>4, <1>9, <2>1, <2>2, <2>3, <2>4
<1>15. ASSUME NEW c \in CellsOf(g), R[c] # Inf, c # g.start
       PROVE  c \in free /\ \E p \in Near(g, c) : R[p] # Inf /\ R[c] = R[p] + 1
  <2>1. R[c] \in 0 .. K /\ c \in W[R[c]] /\ (R[c] = 0 \/ c \notin W[R[c] - 1])
    BY <1>6, <1>8, <1>15
  <2>2. R[c] # 0
    BY <1>1, <1>15, <2>1 DEF Layers
  <2> DEFINE m == R[c] - 1
  <2>3. m \in Nat /\ m + 1 = R[c] /\ m \in 0 .. K
    BY <1>4, <2>1, <2>2
  <2>4. c \in W[m + 1] /\ c \notin W[m]
    BY <2>1, <2>2, <2>3
  <2> HIDE DEF m
  <2>5. c \in free /\ Near(g, c) \cap W[m] # {}
    BY <1>13, <2>3, <2>4 DEF Further
  <2>6. PICK p \in Near(g, c) : p \in W[m]
    BY <2>5
  <2>7. p \in CellsOf(g) /\ c \in Near(g, p)
    BY NeighborsAreMutual
  <2>8. W[m] \subseteq W[K]
    BY <1>2, <1>4, <2>3
  <2>9. R[p] # Inf /\ R[p] <= m /\ R[p] \in Nat
    BY <1>8, <1>9, <2>3, <2>6, <2>7, <2>8
  <2>10. R[c] <= R[p] + 1
    BY <1>14, <2>5, <2>7, <2>9
  <2>11. R[c] = R[p] + 1
    BY <2>1, <2>3, <2>9, <2>10
  <2> QED BY <2>5, <2>9, <2>11
<1>16. R \in [CellsOf(g) -> Nat]
  BY <1>5, <1>8
<1> QED BY <1>11, <1>12, <1>14, <1>15, <1>16 DEF Settles, R, K

(* What is further with more cells to walk on was no nearer with fewer.       *)
LEMMA MoreCellsNoFarther ==
  ASSUME NEW g, Plain(g), NEW few \in SUBSET CellsOf(g), NEW many \in SUBSET CellsOf(g), few \subseteq many,
         Cardinality(many) <= MaxCells, IsFiniteSet(many),
         NEW R, Settles(g, R, few), NEW S, Settles(g, S, many)
  PROVE  \A c \in CellsOf(g) : S[c] <= R[c]
<1>1. /\ R \in [CellsOf(g) -> Nat] /\ R[g.start] = 0
      /\ \A c \in CellsOf(g) : R[c] # Inf /\ c # g.start =>
           c \in few /\ \E p \in Near(g, c) : R[p] # Inf /\ R[c] = R[p] + 1
  BY DEF Settles
<1>2. /\ S \in [CellsOf(g) -> Nat] /\ S[g.start] = 0
      /\ \A c \in CellsOf(g) : S[c] # Inf => S[c] < Cardinality(many)
      /\ \A c \in CellsOf(g) : \A n \in Near(g, c) \cap many :
           S[c] # Inf => S[n] # Inf /\ S[n] <= S[c] + 1
  BY DEF Settles
<1>3. Inf \in Nat /\ MaxCells \in Nat /\ MaxCells < Inf /\ Cardinality(many) \in Nat
  BY PlannerAssumption, FS_CardinalityType
<1> DEFINE T == {k \in Nat : \A c \in CellsOf(g) : R[c] = k /\ k # Inf => S[c] # Inf /\ S[c] <= k}
<1>4. 0 \in T
  <2>1. ASSUME NEW c \in CellsOf(g), R[c] = 0, 0 # Inf
        PROVE  S[c] # Inf /\ S[c] <= 0
    <3>1. \A p \in Near(g, c) : R[p] \in Nat
      BY <1>1 DEF Near
    <3>2. c = g.start
      BY <1>1, <2>1, <3>1
    <3> QED BY <1>2, <2>1, <3>2
  <2> QED BY <2>1
<1>5. ASSUME NEW k \in Nat, k \in T PROVE k + 1 \in T
  <2>1. ASSUME NEW c \in CellsOf(g), R[c] = k + 1, k + 1 # Inf
        PROVE  S[c] # Inf /\ S[c] <= k + 1
    <3>1. CASE c = g.start
      BY <1>1, <2>1, <3>1
    <3>2. CASE c # g.start
      <4>1. PICK p \in Near(g, c) : c \in few /\ R[p] # Inf /\ R[c] = R[p] + 1
        BY <1>1, <2>1, <3>2
      <4>2. p \in CellsOf(g) /\ c \in Near(g, p)
        BY NeighborsAreMutual
      <4>3. R[p] \in Nat
        BY <1>1, <4>2
      <4>4. R[p] = k
        BY <2>1, <4>1, <4>3
      <4>5. S[p] # Inf /\ S[p] <= k
        BY <1>5, <4>1, <4>2, <4>4
      <4>6. S[c] # Inf /\ S[c] <= S[p] + 1
        BY <1>2, <4>1, <4>2, <4>5
      <4>7. S[c] \in Nat /\ S[p] \in Nat
        BY <1>2, <4>2
      <4> QED BY <4>5, <4>6, <4>7
    <3> QED BY <3>1, <3>2
  <2> QED BY <2>1
<1>6. \A k \in Nat : k \in T
  <2> HIDE DEF T
  <2> QED BY <1>4, <1>5, Induction
<1> TAKE c \in CellsOf(g)
<1>7. CASE R[c] = Inf
  <2>1. S[c] \in Nat /\ (S[c] # Inf => S[c] < Cardinality(many))
    BY <1>2
  <2> QED BY <1>3, <1>7, <2>1
<1>8. CASE R[c] # Inf
  <2>1. R[c] \in T
    BY <1>1, <1>6
  <2> QED BY <1>8, <2>1
<1> QED BY <1>7, <1>8
------------------------------------------------------------------------------
(* Steps on the grid. *)

LEMMA PlaceOfCell ==
  ASSUME NEW w \in Nat \ {0}, NEW c \in Nat
  PROVE  /\ c % w \in 0 .. w - 1 /\ c \div w \in Nat
         /\ c = w * (c \div w) + (c % w)
OBVIOUS

LEMMA PlacesAreNumbers ==
  ASSUME NEW g, Plain(g), NEW c \in CellsOf(g)
  PROVE  Column(g, c) \in Int /\ Row(g, c) \in Int
<1>1. c \in Nat /\ g.width \in Nat \ {0}
  BY CellsAreNumbers
<1>2. c % g.width \in 0 .. g.width - 1 /\ c \div g.width \in Nat
  BY <1>1, PlaceOfCell
<1>3. c % g.width \in Int
  BY <1>1, <1>2
<1> QED BY <1>2, <1>3 DEF Column, Row

(* Neighbours are one apart in a row or in a column.                          *)
LEMMA NeighborsTouch ==
  ASSUME NEW g, Plain(g), NEW c \in CellsOf(g), NEW n \in Near(g, c)
  PROVE  /\ Column(g, c) \in 0 .. g.width - 1 /\ Row(g, c) \in Nat /\ c = g.width * Row(g, c) + Column(g, c)
         /\ Column(g, n) \in 0 .. g.width - 1 /\ Row(g, n) \in Nat /\ n = g.width * Row(g, n) + Column(g, n)
         /\ \/ Column(g, n) = Column(g, c) /\ Row(g, n) \in {Row(g, c) - 1, Row(g, c) + 1}
            \/ Row(g, n) = Row(g, c) /\ Column(g, n) \in {Column(g, c) - 1, Column(g, c) + 1}
<1> DEFINE w == g.width
<1>1. n \in CellsOf(g) /\ n \in {c - 1, c + 1, c - w, c + w} /\ (Column(g, n) = Column(g, c) \/ Row(g, n) = Row(g, c))
  BY DEF Near
<1>2. c \in Nat /\ n \in Nat /\ w \in Nat \ {0}
  BY <1>1, CellsAreNumbers
<1>3. Column(g, c) \in 0 .. w - 1 /\ Row(g, c) \in Nat /\ c = w * Row(g, c) + Column(g, c)
  BY <1>2, PlaceOfCell DEF Column, Row
<1>4. Column(g, n) \in 0 .. w - 1 /\ Row(g, n) \in Nat /\ n = w * Row(g, n) + Column(g, n)
  BY <1>2, PlaceOfCell DEF Column, Row
<1> HIDE DEF w
<1>5. CASE Row(g, n) = Row(g, c)
  <2>1. PICK m \in Int : m = w * Row(g, c)
    BY <1>2, <1>3
  <2>2. c = m + Column(g, c) /\ n = m + Column(g, n)
    BY <1>3, <1>4, <1>5, <2>1
  <2>3. Column(g, n) \in {Column(g, c) - 1, Column(g, c) + 1}
    BY <1>1, <1>2, <1>3, <1>4, <2>1, <2>2
  <2> QED BY <1>3, <1>4, <1>5, <2>3 DEF w
<1>6. CASE Column(g, n) = Column(g, c)
  <2>1. PICK e \in Int : e = Row(g, n) - Row(g, c)
    BY <1>3, <1>4
  <2>2. w * Row(g, n) = w * Row(g, c) + w * e
    BY <1>2, <1>3, <1>4, <2>1
  <2>3. PICK m \in Int : m = w * Row(g, c)
    BY <1>2, <1>3
  <2>4. PICK k \in Int : k = w * e
    BY <1>2, <2>1
  <2>5. k \in {1, -1, w, -w}
    <3>1. n = c + k
      <4>1. n = m + k + Column(g, n) /\ c = m + Column(g, c)
        BY <1>3, <1>4, <2>2, <2>3, <2>4
      <4> QED BY <1>2, <1>3, <1>6, <2>3, <2>4, <4>1
    <3> QED BY <1>1, <1>2, <2>4, <3>1
  <2>6. ~ (e >= 2)
    <3> SUFFICES ASSUME e >= 2 PROVE FALSE
      OBVIOUS
    <3>1. k = w * 2 + w * (e - 2) /\ w * (e - 2) >= 0
      BY <1>2, <2>4
    <3>2. k >= w * 2
      BY <1>2, <2>1, <2>4, <3>1
    <3> QED BY <1>2, <2>5, <3>2
  <2>7. ~ (e <= -2)
    <3> SUFFICES ASSUME e <= -2 PROVE FALSE
      OBVIOUS
    <3>1. k = w * (-2) - w * (-2 - e) /\ w * (-2 - e) >= 0
      BY <1>2, <2>4
    <3>2. k <= -(w * 2)
      BY <1>2, <2>1, <2>4, <3>1
    <3> QED BY <1>2, <2>5, <3>2
  <2>8. e # 0
    BY <1>2, <2>4, <2>5
  <2>9. e \in {1, -1}
    BY <2>1, <2>6, <2>7, <2>8
  <2>10. Row(g, n) \in {Row(g, c) - 1, Row(g, c) + 1}
    BY <1>3, <1>4, <2>1, <2>9
  <2> QED BY <1>3, <1>4, <1>6, <2>10 DEF w
<1> QED BY <1>1, <1>5, <1>6

(* The estimate changes by no more than one with a step.                      *)
LEMMA EstimateIsConsistent ==
  ASSUME NEW kind, NEW g, Plain(g), g.goal \in CellsOf(g), NEW c \in CellsOf(g)
  PROVE  /\ Estimate(kind, g, c) \in Nat
         /\ \A n \in Near(g, c) : Estimate(kind, g, n) <= Estimate(kind, g, c) + 1
<1>1. /\ Column(g, c) \in Int /\ Row(g, c) \in Int
      /\ Column(g, g.goal) \in Int /\ Row(g, g.goal) \in Int
  BY PlacesAreNumbers
<1>2. Estimate(kind, g, c) \in Nat
  BY <1>1 DEF Estimate, Abs
<1>3. ASSUME NEW n \in Near(g, c)
      PROVE  Estimate(kind, g, n) <= Estimate(kind, g, c) + 1
  <2>1. /\ Column(g, n) \in Int /\ Row(g, n) \in Int
        /\ \/ Column(g, n) = Column(g, c) /\ Row(g, n) \in {Row(g, c) - 1, Row(g, c) + 1}
           \/ Row(g, n) = Row(g, c) /\ Column(g, n) \in {Column(g, c) - 1, Column(g, c) + 1}
    BY NeighborsTouch
  <2> QED BY <1>1, <2>1 DEF Estimate, Abs
<1> QED BY <1>2, <1>3

(* The points of line_is_clear, one after the other, and the cells they are, on  *)
(* a grid of some width.                                                      *)
Across(w, from, to) == Abs((to % w) - (from % w))
Down(w, from, to) == -Abs((to \div w) - (from \div w))
Origin(w, from, to) ==
  [x |-> from % w, y |-> from \div w, error |-> Across(w, from, to) + Down(w, from, to)]
Onward(w, from, to, p) ==
  LET right == 2 * p.error >= Down(w, from, to)
      down  == 2 * p.error <= Across(w, from, to)
  IN  [x     |-> IF right THEN p.x + Sign((to % w) - (from % w)) ELSE p.x,
       y     |-> IF down THEN p.y + Sign((to \div w) - (from \div w)) ELSE p.y,
       error |-> p.error + (IF right THEN Down(w, from, to) ELSE 0)
                         + (IF down THEN Across(w, from, to) ELSE 0)]
PointsOf(w, from, to) ==
  LET at[k \in Nat] ==
        IF k = 0 THEN Origin(w, from, to) ELSE Onward(w, from, to, at[k - 1])
  IN  at
LineOn(w, from, to) ==
  {PointsOf(w, from, to)[k].y * w + PointsOf(w, from, to)[k].x :
     k \in 0 .. Max({Across(w, from, to), -Down(w, from, to)})}

LEMMA SameLines ==
  ASSUME NEW from, NEW to
  PROVE  LineCells(from, to) = LineOn(Grid.width, from, to)
BY Zenon DEF LineCells, LineOn, PointsOf, Onward, Origin, Across, Down, X, Y

LEMMA PointsFollow ==
  ASSUME NEW w \in Nat \ {0}, NEW from \in Nat, NEW to \in Nat
  PROVE  /\ PointsOf(w, from, to)[0] = Origin(w, from, to)
         /\ PointsOf(w, from, to)[1] = Onward(w, from, to, Origin(w, from, to))
<1> DEFINE Point == [x : Int, y : Int, error : Int]
           next == [q \in Nat \X Point |-> Onward(w, from, to, q[2])]
           first == Origin(w, from, to)
           E(G) == [k \in Nat |-> IF k = 0 THEN Origin(w, from, to)
                                  ELSE Onward(w, from, to, G[k - 1])]
           at == PointsOf(w, from, to)
<1>1. /\ from % w \in Int /\ from \div w \in Int /\ to % w \in Int /\ to \div w \in Int
  BY PlaceOfCell
<1>2. Across(w, from, to) \in Int /\ Down(w, from, to) \in Int
  BY <1>1 DEF Across, Down, Abs
<1>3. first \in Point
  BY <1>1, <1>2 DEF Origin
<1>4. \A p \in Point : Onward(w, from, to, p) \in Point
  BY <1>1, <1>2 DEF Onward, Sign
<1>5. next \in [Nat \X Point -> Point]
  <2> HIDE DEF Point
  <2> QED BY <1>4
<1>6. PICK G \in [Nat -> Point] : FollowsOn(G, first, next)
  <2> HIDE DEF Point, next, first
  <2> QED BY <1>3, <1>5, RecursionOnNaturals
<1>7. G = E(G)
  <2> HIDE DEF Point
  <2>1. \A k \in Nat \ {0} : G[k] = Onward(w, from, to, G[k - 1])
    <3> TAKE k \in Nat \ {0}
    <3>1. k - 1 \in Nat
      OBVIOUS
    <3>2. next[<<k, G[k - 1]>>] = Onward(w, from, to, G[k - 1])
      BY <3>1
    <3> QED BY <1>6, <3>2 DEF FollowsOn
  <2>2. \A k \in Nat : G[k] = E(G)[k]
    BY <1>6, <2>1 DEF FollowsOn
  <2> QED BY <2>2
<1>8. at = CHOOSE H : H = E(H)
  BY Zenon DEF PointsOf
<1>9. at = E(at)
  <2> HIDE DEF E, at
  <2> QED BY <1>7, <1>8, Zenon
<1> HIDE DEF at
<1>10. at[0] = first /\ at[1] = Onward(w, from, to, at[0])
  BY <1>9
<1> QED BY <1>10 DEF at

(* Between neighbours the line has no other cell.                             *)
LEMMA NeighborsInSight ==
  ASSUME NEW g, Plain(g), NEW c \in CellsOf(g), NEW n \in Near(g, c)
  PROVE  LineOn(g.width, c, n) \subseteq {c, n}
<1> DEFINE w == g.width
           dx == Across(w, c, n)
           dy == Down(w, c, n)
           at == PointsOf(w, c, n)
<1>1. /\ w \in Nat \ {0} /\ c \in Nat /\ n \in Nat
  <2>1. n \in CellsOf(g)
    BY DEF Near
  <2> QED BY <2>1, CellsAreNumbers
<1>2. /\ Column(g, c) = c % w /\ Row(g, c) = c \div w /\ Column(g, n) = n % w /\ Row(g, n) = n \div w
  BY DEF Column, Row
<1>3. /\ Column(g, c) \in Nat /\ Row(g, c) \in Nat /\ c = w * Row(g, c) + Column(g, c)
      /\ Column(g, n) \in Nat /\ Row(g, n) \in Nat /\ n = w * Row(g, n) + Column(g, n)
      /\ \/ Column(g, n) = Column(g, c) /\ Row(g, n) \in {Row(g, c) - 1, Row(g, c) + 1}
         \/ Row(g, n) = Row(g, c) /\ Column(g, n) \in {Column(g, c) - 1, Column(g, c) + 1}
  BY NeighborsTouch
<1>4. at[0] = Origin(w, c, n) /\ at[1] = Onward(w, c, n, Origin(w, c, n))
  BY <1>1, PointsFollow
<1>5. dx = Abs(Column(g, n) - Column(g, c)) /\ dy = -Abs(Row(g, n) - Row(g, c))
  BY <1>2 DEF Across, Down
<1>6. (dx = 1 /\ dy = 0) \/ (dx = 0 /\ dy = -1)
  BY <1>3, <1>5 DEF Abs
<1>7. Max({dx, -dy}) = 1
  <2>1. {dx, -dy} \in SUBSET (0 .. 1) /\ {dx, -dy} # {} /\ 1 \in {dx, -dy}
    BY <1>6
  <2> HIDE DEF dx, dy
  <2>2. Max({dx, -dy}) \in {dx, -dy} /\ \A y \in {dx, -dy} : Max({dx, -dy}) >= y
    BY <2>1, MaxOfBounded
  <2> QED BY <1>6, <2>2
<1>8. at[0] = [x |-> Column(g, c), y |-> Row(g, c), error |-> dx + dy]
  BY <1>2, <1>4 DEF Origin
<1>9. at[1].x = Column(g, n) /\ at[1].y = Row(g, n)
  <2> DEFINE p == at[0]
  <2>1. p.x = Column(g, c) /\ p.y = Row(g, c) /\ p.error = dx + dy
    BY <1>8
  <2>2. /\ at[1].x = IF 2 * p.error >= dy THEN p.x + Sign(Column(g, n) - Column(g, c)) ELSE p.x
        /\ at[1].y = IF 2 * p.error <= dx THEN p.y + Sign(Row(g, n) - Row(g, c)) ELSE p.y
    BY <1>2, <1>4 DEF Onward
  <2> HIDE DEF p, dx, dy, at
  <2> QED BY <1>3, <1>5, <1>6, <2>1, <2>2 DEF Sign, Abs
<1> HIDE DEF at, dx, dy
<1>10. LineOn(w, c, n) = {at[k].y * w + at[k].x : k \in 0 .. 1}
  BY <1>7 DEF LineOn, at, dx, dy
<1>11. at[0].y * w + at[0].x = c /\ at[1].y * w + at[1].x = n
  <2>1. Row(g, c) * w = w * Row(g, c) /\ Row(g, n) * w = w * Row(g, n)
    BY <1>1, <1>3
  <2>2. at[0].y = Row(g, c) /\ at[0].x = Column(g, c)
    BY <1>8
  <2> QED BY <1>3, <1>9, <2>1, <2>2
<1>12. \A k \in 0 .. 1 : k = 0 \/ k = 1
  OBVIOUS
<1> QED BY <1>10, <1>11, <1>12 DEF w
------------------------------------------------------------------------------
(* The invariant of the planner. *)

(* Grids still to plan are as the itinerary gives them, and the one that is     *)
(* planned fits the workspace and has both its ends free.                       *)
WorkFits == \E S : work \in Seq(S) /\ \A g \in S : Plain(g)

Playable(g) ==
  /\ Plain(g)
  /\ Cardinality(CellsOf(g)) <= MaxCells
  /\ g.start \in FreeOf(g) /\ g.goal \in FreeOf(g)

Planning ==
  \/ pc \in {"search", "trace", "smooth", "advance"}
  \/ pc = "done" /\ outcome \notin {"invalid grid", "occupied"}

(* Closed cells have their shortest distance, D = R, and every distance is along   *)
(* closed cells.                                                              *)
Chains(g, R, D, P, C) ==
  /\ D[g.start] = 0
  /\ \A c \in C \cap CellsOf(g) : D[c] # Inf /\ D[c] = R[c]
  /\ \A c \in CellsOf(g) : D[c] # Inf =>
       /\ c \in FreeOf(g)
       /\ R[c] # Inf /\ R[c] <= D[c]
       /\ c = g.start \/ (P[c] \in C \cap Near(g, c) /\ D[c] = D[P[c]] + 1)

(* The neighbours of closed cells have been looked at, and cells that have a       *)
(* distance and are not closed are in the heap with it.                         *)
EntryOn(kind, g, c, d) == [score |-> d + Estimate(kind, g, c), cell |-> c, distance |-> d]

Frontier(kind, g, D, C, O) ==
  /\ g.goal \notin C
  /\ \A e \in O : /\ e.cell \in FreeOf(g) /\ e.distance \in Nat /\ e.distance < Inf
                  /\ e = EntryOn(kind, g, e.cell, e.distance)
  /\ \A c \in C \cap CellsOf(g) : \A n \in Near(g, c) \cap FreeOf(g) :
       D[n] # Inf /\ D[n] <= D[c] + 1
  /\ \A c \in CellsOf(g) \ C : D[c] # Inf => EntryOn(kind, g, c, D[c]) \in O

(* Every cell is expanded once and leaves no more than three entries behind.      *)
HeapFits(g, C, O, n) ==
  /\ n = Cardinality(C \cap CellsOf(g))
  /\ IsFiniteSet(O) /\ Cardinality(O) <= 3 * n + 1

(* A walk to the goal that gets one nearer with every step.                     *)
Walk(g, R, r) ==
  /\ r \in Seq(FreeOf(g)) /\ Len(r) <= MaxPath
  /\ R[g.goal] # Inf
  /\ \A i \in 1 .. Len(r) : R[r[i]] + (Len(r) - i) = R[g.goal]
  /\ \A i \in 1 .. Len(r) - 1 : r[i + 1] \in Near(g, r[i])
  /\ r # <<>> => r[Len(r)] = g.goal

TraceFits(g, R, D, r) ==
  /\ Walk(g, R, r)
  /\ r # <<>> => r[1] # g.start
  /\ LET c == IF r = <<>> THEN g.goal ELSE r[1] IN D[c] # Inf /\ D[c] = R[c]

RouteFits(g, R, r) ==
  IF r = <<>> THEN R[g.goal] = Inf ELSE Walk(g, R, r) /\ r[1] = g.start

(* What is smoothed so far leads from the start to the anchor.                   *)
SmoothFits(g, R, r, s, a) ==
  IF r = <<>> THEN s = <<>> /\ a = 1
  ELSE /\ a \in 1 .. Len(r)
       /\ s \in Seq(FreeOf(g)) /\ Len(s) \in 1 .. a
       /\ s[1] = g.start /\ s[Len(s)] = r[a]
       /\ \A i \in 1 .. Len(s) - 1 : LineOn(g.width, s[i], s[i + 1]) \subseteq FreeOf(g)
       /\ \A i, j \in 1 .. Len(s) : i < j => R[s[i]] < R[s[j]]

OutcomeFits(o, g, R, r, s, a) ==
  /\ o \in {"ok", "raw_path", "search_workspace", "smoothed_path"}
  /\ o = "ok" => RouteFits(g, R, r) /\ SmoothFits(g, R, r, s, a) /\ a >= Len(r)
  /\ o = "smoothed_path" => RouteFits(g, R, r) /\ r # <<>> /\ Len(r) > MaxSmoothed
  /\ o = "raw_path" => R[g.goal] # Inf /\ R[g.goal] >= MaxPath
  /\ o = "search_workspace" => Cardinality(FreeOf(g)) > MaxExpansions

WorkspaceFits ==
  /\ distance \in [0 .. MaxCells - 1 -> Nat]
  /\ DOMAIN parent = 0 .. MaxCells - 1

GridInv ==
  /\ WorkFits /\ WorkspaceFits
  /\ pc # "ready" => work # <<>>
  /\ Planning => Playable(Grid) /\ Settles(Grid, route, FreeOf(Grid))
  /\ pc \in {"search", "trace"} => Chains(Grid, route, distance, parent, closed)
  /\ pc = "search" =>
       /\ Frontier(algorithm, Grid, distance, closed, open)
       /\ HeapFits(Grid, closed, open, expansions)
       /\ rawPath = <<>>
  /\ pc = "trace" => TraceFits(Grid, route, distance, rawPath)
  /\ pc \in {"smooth", "advance"} => RouteFits(Grid, route, rawPath)
  /\ pc = "advance" => SmoothFits(Grid, route, rawPath, path, anchor)
  /\ Planning /\ pc = "done" => OutcomeFits(outcome, Grid, route, rawPath, path, anchor)

(* A playable grid has its cells in the workspace.                              *)
LEMMA CellsFit ==
  ASSUME NEW g, Playable(g)
  PROVE  /\ CellsOf(g) \subseteq 0 .. MaxCells - 1 /\ IsFiniteSet(CellsOf(g))
         /\ FreeOf(g) \subseteq CellsOf(g) /\ IsFiniteSet(FreeOf(g))
         /\ Cardinality(FreeOf(g)) <= MaxCells /\ Cardinality(FreeOf(g)) < Inf
<1> DEFINE m == g.width * g.height
<1>1. m \in Nat /\ Plain(g)
  <2>1. g.width \in Nat /\ g.height \in Nat /\ Plain(g)
    BY DEF Playable, Plain
  <2>2. \A x, y \in Nat : x * y \in Nat
    OBVIOUS
  <2> QED BY <2>1, <2>2
<1>2. CellsOf(g) = 0 .. m - 1
  BY DEF CellsOf
<1> HIDE DEF m
<1>3. IsFiniteSet(CellsOf(g)) /\ Cardinality(CellsOf(g)) = m
  <2>1. 0 \in Int /\ m - 1 \in Int
    BY <1>1
  <2>2. /\ IsFiniteSet(0 .. m - 1)
        /\ Cardinality(0 .. m - 1) = IF 0 > m - 1 THEN 0 ELSE (m - 1) - 0 + 1
    BY <2>1, FS_Interval
  <2> QED BY <1>1, <1>2, <2>2
<1>4. m <= MaxCells
  BY <1>3 DEF Playable
<1>5. CellsOf(g) \subseteq 0 .. MaxCells - 1
  BY <1>1, <1>2, <1>4, PlannerAssumption
<1>6. FreeOf(g) \subseteq CellsOf(g)
  BY DEF FreeOf
<1>7. IsFiniteSet(FreeOf(g)) /\ Cardinality(FreeOf(g)) <= m
  BY <1>3, <1>6, FS_Subset
<1>8. Cardinality(FreeOf(g)) \in Nat
  BY <1>7, FS_CardinalityType
<1> QED BY <1>1, <1>3, <1>4, <1>5, <1>6, <1>7, <1>8, PlannerAssumption

(* What Settles says of a playable grid.                                         *)
LEMMA RouteFacts ==
  ASSUME NEW g, Playable(g), NEW R, Settles(g, R, FreeOf(g))
  PROVE  /\ \A c \in CellsOf(g) : R[c] \in Nat
         /\ R[g.start] = 0 /\ g.start \in CellsOf(g) /\ g.goal \in CellsOf(g)
         /\ \A c \in CellsOf(g) : R[c] # Inf => R[c] < MaxCells
         /\ \A c \in CellsOf(g) : \A n \in Near(g, c) \cap FreeOf(g) :
              R[c] # Inf => R[n] # Inf /\ R[n] <= R[c] + 1
         /\ \A c \in CellsOf(g) : R[c] # Inf /\ c # g.start =>
              c \in FreeOf(g) /\ \E p \in Near(g, c) : R[p] # Inf /\ R[c] = R[p] + 1
         /\ \A c \in CellsOf(g) : R[c] = 0 => c = g.start
         /\ \A c \in CellsOf(g) : R[c] # Inf => c \in FreeOf(g)
<1>1. /\ R \in [CellsOf(g) -> Nat] /\ R[g.start] = 0
      /\ \A c \in CellsOf(g) : R[c] # Inf => R[c] < Cardinality(FreeOf(g))
      /\ \A c \in CellsOf(g) : R[c] # Inf /\ c # g.start =>
           c \in FreeOf(g) /\ \E p \in Near(g, c) : R[p] # Inf /\ R[c] = R[p] + 1
  BY DEF Settles
<1>2. \A c \in CellsOf(g) : \A n \in Near(g, c) \cap FreeOf(g) :
        R[c] # Inf => R[n] # Inf /\ R[n] <= R[c] + 1
  BY DEF Settles
<1>3. /\ FreeOf(g) \subseteq CellsOf(g) /\ Cardinality(FreeOf(g)) <= MaxCells
      /\ IsFiniteSet(FreeOf(g))
  BY CellsFit
<1>4. Cardinality(FreeOf(g)) \in Nat /\ MaxCells \in Nat /\ Inf \in Nat /\ MaxCells < Inf
  BY <1>3, FS_CardinalityType, PlannerAssumption
<1>5. g.start \in FreeOf(g) /\ g.goal \in FreeOf(g)
  BY DEF Playable
<1>6. \A c \in CellsOf(g) : R[c] # Inf => R[c] < MaxCells
  BY <1>1, <1>3, <1>4
<1>7. \A c \in CellsOf(g) : R[c] = 0 => c = g.start
  <2> SUFFICES ASSUME NEW c \in CellsOf(g), R[c] = 0, c # g.start PROVE FALSE
    OBVIOUS
  <2>1. PICK p \in Near(g, c) : R[c] = R[p] + 1
    BY <1>1, <1>4
  <2>2. p \in CellsOf(g)
    BY DEF Near
  <2> QED BY <1>1, <2>1, <2>2
<1> QED BY <1>1, <1>2, <1>3, <1>5, <1>6, <1>7

(* Before a cell that is reachable and not closed there is one, at least as good,    *)
(* in the heap with its shortest distance.                                      *)
LEMMA SomethingIsOpen ==
  ASSUME NEW kind, NEW g, Playable(g), NEW R, Settles(g, R, FreeOf(g)),
         NEW D, \A c \in CellsOf(g) : D[c] \in Nat, NEW P, NEW C, NEW O,
         Chains(g, R, D, P, C), Frontier(kind, g, D, C, O)
  PROVE  \A c \in CellsOf(g) \ C : R[c] # Inf =>
           \E e \in O : e.score <= R[c] + Estimate(kind, g, c)
<1> DEFINE Opened(k) == \A c \in CellsOf(g) \ C : R[c] = k /\ k # Inf =>
             \E y \in CellsOf(g) \ C : /\ D[y] # Inf /\ D[y] = R[y]
                                       /\ R[y] + Estimate(kind, g, y) <= k + Estimate(kind, g, c)
           T == {k \in Nat : Opened(k)}
<1>1. /\ \A c \in CellsOf(g) : R[c] \in Nat
      /\ R[g.start] = 0 /\ g.start \in CellsOf(g)
      /\ \A c \in CellsOf(g) : R[c] # Inf /\ c # g.start =>
           c \in FreeOf(g) /\ \E p \in Near(g, c) : R[p] # Inf /\ R[c] = R[p] + 1
      /\ \A c \in CellsOf(g) : R[c] = 0 => c = g.start
  BY RouteFacts
<1>2. \A c \in CellsOf(g) :
        /\ Estimate(kind, g, c) \in Nat
        /\ \A n \in Near(g, c) : Estimate(kind, g, n) <= Estimate(kind, g, c) + 1
  <2>1. Plain(g) /\ g.goal \in CellsOf(g)
    BY CellsFit DEF Playable
  <2> QED BY <2>1, EstimateIsConsistent
<1>3. Inf \in Nat /\ Inf # 0
  BY PlannerAssumption
<1>4. /\ D[g.start] = 0
      /\ \A c \in C \cap CellsOf(g) : D[c] # Inf /\ D[c] = R[c]
      /\ \A c \in CellsOf(g) : D[c] # Inf => R[c] <= D[c]
  BY DEF Chains
<1>5. /\ \A c \in C \cap CellsOf(g) : \A n \in Near(g, c) \cap FreeOf(g) :
           D[n] # Inf /\ D[n] <= D[c] + 1
      /\ \A c \in CellsOf(g) \ C : D[c] # Inf => EntryOn(kind, g, c, D[c]) \in O
  BY DEF Frontier
<1>6. 0 \in T
  <2>1. ASSUME NEW c \in CellsOf(g) \ C, R[c] = 0
        PROVE  \E y \in CellsOf(g) \ C : /\ D[y] # Inf /\ D[y] = R[y]
                                         /\ R[y] + Estimate(kind, g, y) <= 0 + Estimate(kind, g, c)
    <3>1. c = g.start
      BY <1>1, <2>1
    <3>2. D[c] # Inf /\ D[c] = R[c]
      BY <1>1, <1>3, <1>4, <3>1
    <3>3. R[c] + Estimate(kind, g, c) <= 0 + Estimate(kind, g, c)
      BY <1>2, <2>1
    <3> QED BY <3>2, <3>3
  <2> QED BY <2>1
<1>7. ASSUME NEW k \in Nat, k \in T PROVE k + 1 \in T
  <2>1. ASSUME NEW c \in CellsOf(g) \ C, R[c] = k + 1, k + 1 # Inf
        PROVE  \E y \in CellsOf(g) \ C : /\ D[y] # Inf /\ D[y] = R[y]
                                         /\ R[y] + Estimate(kind, g, y) <= (k + 1) + Estimate(kind, g, c)
    <3>1. c # g.start
      BY <1>1, <2>1
    <3>2. PICK p \in Near(g, c) : c \in FreeOf(g) /\ R[p] # Inf /\ R[c] = R[p] + 1
      BY <1>1, <2>1, <3>1
    <3>3. p \in CellsOf(g) /\ c \in Near(g, p)
      BY NeighborsAreMutual DEF Playable
    <3>4. R[p] \in Nat /\ R[p] = k
      BY <1>1, <2>1, <3>2, <3>3
    <3>5. CASE p \in C
      <4>1. D[p] = k /\ D[c] # Inf /\ D[c] <= D[p] + 1
        BY <1>4, <1>5, <3>2, <3>3, <3>4, <3>5
      <4>2. R[c] <= D[c] /\ D[c] \in Nat /\ R[c] \in Nat
        BY <1>1, <1>4, <4>1
      <4>3. D[c] = R[c]
        BY <2>1, <4>1, <4>2
      <4>4. R[c] + Estimate(kind, g, c) <= (k + 1) + Estimate(kind, g, c)
        BY <1>2, <2>1
      <4> QED BY <4>1, <4>3, <4>4
    <3>6. CASE p \notin C
      <4>1. PICK y \in CellsOf(g) \ C : /\ D[y] # Inf /\ D[y] = R[y]
                                        /\ R[y] + Estimate(kind, g, y) <= k + Estimate(kind, g, p)
        BY <1>7, <3>2, <3>3, <3>4, <3>6
      <4>2. Estimate(kind, g, p) <= Estimate(kind, g, c) + 1
        BY <1>2, <3>2
      <4>3. /\ R[y] \in Nat /\ Estimate(kind, g, y) \in Nat
            /\ Estimate(kind, g, p) \in Nat /\ Estimate(kind, g, c) \in Nat
        BY <1>1, <1>2, <3>3
      <4>4. R[y] + Estimate(kind, g, y) <= (k + 1) + Estimate(kind, g, c)
        BY <4>1, <4>2, <4>3
      <4> QED BY <4>1, <4>4
    <3> QED BY <3>5, <3>6
  <2> QED BY <2>1
<1>8. \A k \in Nat : k \in T
  <2> HIDE DEF T
  <2> QED BY <1>6, <1>7, Induction
<1> TAKE c \in CellsOf(g) \ C
<1> HAVE R[c] # Inf
<1>9. R[c] \in Nat
  BY <1>1
<1>10. PICK y \in CellsOf(g) \ C : /\ D[y] # Inf /\ D[y] = R[y]
                                   /\ R[y] + Estimate(kind, g, y) <= R[c] + Estimate(kind, g, c)
  BY <1>8, <1>9
<1>11. EntryOn(kind, g, y, D[y]) \in O
  BY <1>5, <1>10
<1>12. EntryOn(kind, g, y, D[y]).score = R[y] + Estimate(kind, g, y)
  BY <1>10 DEF EntryOn
<1> QED BY <1>10, <1>11, <1>12

(* The heap gives its least entry.                                              *)
LEMMA BestIsLeast ==
  ASSUME open # {}, \A e \in open : e.score \in Nat /\ e.cell \in Nat /\ e.distance \in Nat
  PROVE  Best \in open /\ \A f \in open : Before(Best, f)
<1> DEFINE scores == {e.score : e \in open}
<1>1. PICK s \in scores : \A t \in scores : s <= t
  <2>1. scores \in SUBSET Nat /\ scores # {}
    OBVIOUS
  <2> HIDE DEF scores
  <2> QED BY <2>1, LeastNatural
<1> DEFINE cells == {e.cell : e \in {e \in open : e.score = s}}
<1>2. PICK c \in cells : \A d \in cells : c <= d
  <2>1. cells \in SUBSET Nat /\ cells # {}
    BY <1>1
  <2> HIDE DEF cells
  <2> QED BY <2>1, LeastNatural
<1> DEFINE ways == {e.distance : e \in {e \in open : e.score = s /\ e.cell = c}}
<1>3. PICK d \in ways : \A x \in ways : d <= x
  <2>1. ways \in SUBSET Nat /\ ways # {}
    BY <1>2
  <2> HIDE DEF ways
  <2> QED BY <2>1, LeastNatural
<1>4. PICK e \in open : e.score = s /\ e.cell = c /\ e.distance = d
  BY <1>3
<1>5. ASSUME NEW f \in open PROVE Before(e, f)
  <2>1. s <= f.score /\ s \in Nat /\ f.score \in Nat
    BY <1>1
  <2>2. f.score = s => c <= f.cell /\ c \in Nat /\ f.cell \in Nat
    BY <1>2
  <2>3. f.score = s /\ f.cell = c => d <= f.distance
    BY <1>3
  <2> HIDE DEF scores, cells, ways
  <2> QED BY <1>4, <2>1, <2>2, <2>3 DEF Before
<1> QED BY <1>5 DEF Best
------------------------------------------------------------------------------
(* The search. *)

(* Cells that expanding b gives a shorter distance.                            *)
Bettered(g, D, C, b) == {n \in Near(g, b) : n \in FreeOf(g) \ C /\ D[b] + 1 < D[n]}

(* The heap after it.                                                          *)
HeapAfter(kind, g, D, C, O, e, b) ==
  (O \ {e}) \cup {EntryOn(kind, g, c, D[b] + 1) : c \in Bettered(g, D, C, b)}

(* Expanding a cell that has its shortest distance keeps the chains.             *)
LEMMA ExpandingKeepsChains ==
  ASSUME NEW g, Playable(g), NEW R, Settles(g, R, FreeOf(g)),
         NEW D, \A c \in CellsOf(g) : D[c] \in Nat, NEW P, NEW C, Chains(g, R, D, P, C),
         NEW b \in FreeOf(g), D[b] = R[b], D[b] # Inf, NEW D1, NEW P1,
         \A c \in CellsOf(g) :
           /\ D1[c] = IF c \in Bettered(g, D, C, b) THEN D[b] + 1 ELSE D[c]
           /\ P1[c] = IF c \in Bettered(g, D, C, b) THEN b ELSE P[c]
  PROVE  Chains(g, R, D1, P1, C \cup {b})
<1> DEFINE I == Bettered(g, D, C, b)
<1>1. FreeOf(g) \subseteq CellsOf(g) /\ b \in CellsOf(g)
  BY CellsFit
<1>2. /\ \A c \in CellsOf(g) : R[c] \in Nat
      /\ g.start \in CellsOf(g)
      /\ \A c \in CellsOf(g) : \A n \in Near(g, c) \cap FreeOf(g) :
           R[c] # Inf => R[n] # Inf /\ R[n] <= R[c] + 1
  BY RouteFacts
<1>3. /\ D[g.start] = 0
      /\ \A c \in C \cap CellsOf(g) : D[c] # Inf /\ D[c] = R[c]
      /\ \A c \in CellsOf(g) : D[c] # Inf =>
           /\ c \in FreeOf(g)
           /\ R[c] # Inf /\ R[c] <= D[c]
           /\ c = g.start \/ (P[c] \in C \cap Near(g, c) /\ D[c] = D[P[c]] + 1)
  BY DEF Chains
<1>4. /\ \A c \in I : c \in CellsOf(g) /\ c \in Near(g, b) /\ c \in FreeOf(g) /\ c \notin C
      /\ \A c \in I : D[b] + 1 < D[c]
  BY <1>1 DEF Bettered
<1>5. b \notin I /\ g.start \notin I
  BY <1>1, <1>2, <1>3, <1>4
<1>6. \A c \in CellsOf(g) : c \in I => D1[c] = D[b] + 1 /\ P1[c] = b
  OBVIOUS
<1>7. \A c \in CellsOf(g) : c \notin I => D1[c] = D[c] /\ P1[c] = P[c]
  OBVIOUS
<1> HIDE DEF I
<1>8. D1[g.start] = 0
  BY <1>2, <1>3, <1>5, <1>7
<1>9. ASSUME NEW c \in (C \cup {b}) \cap CellsOf(g)
      PROVE  D1[c] # Inf /\ D1[c] = R[c]
  <2>1. c \notin I
    BY <1>4, <1>5
  <2>2. D1[c] = D[c]
    BY <1>7, <2>1
  <2> QED BY <1>3, <2>2
<1>10. ASSUME NEW c \in CellsOf(g), D1[c] # Inf
       PROVE  /\ c \in FreeOf(g)
              /\ R[c] # Inf /\ R[c] <= D1[c]
              /\ c = g.start \/ (P1[c] \in (C \cup {b}) \cap Near(g, c) /\ D1[c] = D1[P1[c]] + 1)
  <2>1. CASE c \in I
    <3>1. c \in Near(g, b) /\ c \in FreeOf(g)
      BY <1>4, <2>1
    <3>2. b \in Near(g, c)
      BY <1>1, <3>1, NeighborsAreMutual DEF Playable
    <3>3. D1[c] = D[b] + 1 /\ P1[c] = b /\ D1[b] = D[b]
      BY <1>1, <1>5, <1>6, <1>7, <2>1
    <3>4. R[c] # Inf /\ R[c] <= R[b] + 1
      BY <1>1, <1>2, <3>1
    <3> QED BY <3>1, <3>2, <3>3, <3>4
  <2>2. CASE c \notin I
    <3>1. D1[c] = D[c] /\ P1[c] = P[c]
      BY <1>7, <2>2
    <3>2. /\ c \in FreeOf(g)
          /\ R[c] # Inf /\ R[c] <= D1[c]
          /\ c = g.start \/ (P[c] \in C \cap Near(g, c) /\ D[c] = D[P[c]] + 1)
      BY <1>3, <1>10, <3>1
    <3>3. CASE c = g.start
      BY <3>2, <3>3
    <3>4. CASE c # g.start
      <4>1. P[c] \in C /\ P[c] \in Near(g, c) /\ D[c] = D[P[c]] + 1
        BY <3>2, <3>4
      <4>2. P[c] \in CellsOf(g) /\ P[c] \notin I
        BY <1>4, <4>1 DEF Near
      <4>3. D1[P[c]] = D[P[c]]
        BY <1>7, <4>2
      <4> QED BY <3>1, <3>2, <4>1, <4>3
    <3> QED BY <3>3, <3>4
  <2> QED BY <2>1, <2>2
<1> QED BY <1>8, <1>9, <1>10 DEF Chains

(* And it keeps the frontier, its entry replaced by those of the cells bettered.    *)
LEMMA ExpandingKeepsFrontier ==
  ASSUME NEW kind, NEW g, Playable(g), NEW R, Settles(g, R, FreeOf(g)),
         NEW D, \A c \in CellsOf(g) : D[c] \in Nat, NEW P, NEW C, Chains(g, R, D, P, C),
         NEW O, Frontier(kind, g, D, C, O), NEW e \in O,
         NEW b \in FreeOf(g), b = e.cell, b # g.goal, D[b] = R[b], D[b] # Inf, NEW D1,
         \A c \in CellsOf(g) : D1[c] = IF c \in Bettered(g, D, C, b) THEN D[b] + 1 ELSE D[c]
  PROVE  Frontier(kind, g, D1, C \cup {b}, HeapAfter(kind, g, D, C, O, e, b))
<1> DEFINE I == Bettered(g, D, C, b)
           O1 == (O \ {e}) \cup {EntryOn(kind, g, c, D[b] + 1) : c \in I}
<1>1. FreeOf(g) \subseteq CellsOf(g) /\ b \in CellsOf(g)
  BY CellsFit
<1>2. /\ \A c \in CellsOf(g) : R[c] \in Nat
      /\ \A c \in CellsOf(g) : R[c] # Inf => R[c] < MaxCells
      /\ \A c \in CellsOf(g) : \A n \in Near(g, c) \cap FreeOf(g) :
           R[c] # Inf => R[n] # Inf /\ R[n] <= R[c] + 1
  BY RouteFacts
<1>3. \A c \in C \cap CellsOf(g) : D[c] # Inf /\ D[c] = R[c]
  BY DEF Chains
<1>4. /\ \A c \in I : c \in CellsOf(g) /\ c \in Near(g, b) /\ c \in FreeOf(g) /\ c \notin C
      /\ \A c \in I : D[b] + 1 < D[c]
      /\ \A c \in Near(g, b) : c \in FreeOf(g) /\ c \notin C /\ D[b] + 1 < D[c] => c \in I
  BY <1>1 DEF Bettered
<1>5. b \notin I
  BY <1>1, <1>4
<1>6. \A c \in CellsOf(g) : c \in I => D1[c] = D[b] + 1
  OBVIOUS
<1>7. \A c \in CellsOf(g) : c \notin I => D1[c] = D[c]
  OBVIOUS
<1>8. D[b] + 1 \in Nat /\ D[b] + 1 < Inf /\ Inf \in Nat
  BY <1>1, <1>2, PlannerAssumption
<1> HIDE DEF I
<1>9. /\ g.goal \notin C
      /\ \A f \in O : /\ f.cell \in FreeOf(g) /\ f.distance \in Nat /\ f.distance < Inf
                      /\ f = EntryOn(kind, g, f.cell, f.distance)
      /\ \A c \in C \cap CellsOf(g) : \A n \in Near(g, c) \cap FreeOf(g) :
           D[n] # Inf /\ D[n] <= D[c] + 1
      /\ \A c \in CellsOf(g) \ C : D[c] # Inf => EntryOn(kind, g, c, D[c]) \in O
  BY DEF Frontier
<1>10. \A c, d : EntryOn(kind, g, c, d).cell = c /\ EntryOn(kind, g, c, d).distance = d
  BY DEF EntryOn
<1>11. ASSUME NEW f \in O1
       PROVE  /\ f.cell \in FreeOf(g) /\ f.distance \in Nat /\ f.distance < Inf
              /\ f = EntryOn(kind, g, f.cell, f.distance)
  <2>1. CASE f \in O
    BY <1>9, <2>1
  <2>2. CASE f \notin O
    <3>1. PICK c \in I : f = EntryOn(kind, g, c, D[b] + 1)
      BY <2>2
    <3>2. f.cell = c /\ f.distance = D[b] + 1
      BY <1>10, <3>1
    <3> QED BY <1>4, <1>8, <3>1, <3>2
  <2> QED BY <2>1, <2>2
<1>12. ASSUME NEW c \in (C \cup {b}) \cap CellsOf(g), NEW n \in Near(g, c) \cap FreeOf(g)
       PROVE  D1[n] # Inf /\ D1[n] <= D1[c] + 1
  <2>1. c \notin I /\ n \in CellsOf(g)
    BY <1>1, <1>4, <1>5
  <2>2. D1[c] = D[c] /\ D[c] \in Nat /\ D[n] \in Nat
    BY <1>7, <2>1
  <2>3. CASE n \in I
    <3>1. D1[n] = D[b] + 1 /\ D[b] + 1 < D[n] /\ D1[n] # Inf
      BY <1>4, <1>6, <1>8, <2>1, <2>3
    <3>2. CASE c = b
      BY <1>8, <2>2, <3>1, <3>2
    <3>3. CASE c # b
      <4>1. c \in C
        BY <3>3
      <4>2. D[n] <= D[c] + 1
        BY <1>9, <4>1
      <4> QED BY <1>8, <2>2, <3>1, <4>2
    <3> QED BY <3>2, <3>3
  <2>4. CASE n \notin I
    <3>1. D1[n] = D[n]
      BY <1>7, <2>1, <2>4
    <3>2. CASE c \in C
      BY <1>9, <2>2, <3>1, <3>2
    <3>3. CASE c \notin C
      <4>1. c = b
        BY <3>3
      <4>2. CASE n \in C
        <5>1. D[n] = R[n] /\ D[n] # Inf
          BY <1>3, <2>1, <4>2
        <5>2. R[n] <= R[b] + 1
          BY <1>2, <4>1
        <5> QED BY <2>2, <3>1, <4>1, <5>1, <5>2
      <4>3. CASE n \notin C
        <5>1. ~ (D[b] + 1 < D[n])
          BY <1>4, <2>4, <4>1, <4>3
        <5> QED BY <1>8, <2>2, <3>1, <4>1, <5>1
      <4> QED BY <4>2, <4>3
    <3> QED BY <3>2, <3>3
  <2> QED BY <2>3, <2>4
<1>13. ASSUME NEW c \in CellsOf(g) \ (C \cup {b}), D1[c] # Inf
       PROVE  EntryOn(kind, g, c, D1[c]) \in O1
  <2>1. CASE c \in I
    BY <1>6, <2>1
  <2>2. CASE c \notin I
    <3>1. D1[c] = D[c] /\ EntryOn(kind, g, c, D[c]) \in O
      BY <1>7, <1>9, <1>13, <2>2
    <3>2. EntryOn(kind, g, c, D[c]) # e
      BY <1>10, <1>13
    <3> QED BY <3>1, <3>2
  <2> QED BY <2>1, <2>2
<1>14. g.goal \notin C \cup {b}
  BY <1>9
<1>15. Frontier(kind, g, D1, C \cup {b}, O1)
  <2> HIDE DEF O1
  <2> QED BY <1>11, <1>12, <1>13, <1>14 DEF Frontier
<1> QED BY <1>15 DEF I, HeapAfter

LEMMA FourAtMost ==
  ASSUME NEW a, NEW b, NEW c, NEW d, NEW T \in SUBSET {a, b, c, d}
  PROVE  IsFiniteSet(T) /\ Cardinality(T) \in 0 .. 4
<1>1. IsFiniteSet({a}) /\ Cardinality({a}) = 1
  BY FS_Singleton
<1>2. IsFiniteSet({a} \cup {b}) /\ Cardinality({a} \cup {b}) \in 0 .. 2
  BY <1>1, FS_AddElement
<1>3. IsFiniteSet(({a} \cup {b}) \cup {c}) /\ Cardinality(({a} \cup {b}) \cup {c}) \in 0 .. 3
  BY <1>2, FS_AddElement
<1>4. /\ IsFiniteSet((({a} \cup {b}) \cup {c}) \cup {d})
      /\ Cardinality((({a} \cup {b}) \cup {c}) \cup {d}) \in 0 .. 4
  BY <1>3, FS_AddElement
<1>5. T \in SUBSET ((({a} \cup {b}) \cup {c}) \cup {d})
  OBVIOUS
<1>6. IsFiniteSet(T) /\ Cardinality(T) <= Cardinality((({a} \cup {b}) \cup {c}) \cup {d})
  BY <1>4, <1>5, FS_Subset
<1>7. Cardinality(T) \in Nat
  BY <1>6, FS_CardinalityType
<1> QED BY <1>4, <1>6, <1>7

(* A cell has four neighbours at most, so expanding it leaves at most three more     *)
(* entries.                                                                   *)
LEMMA ExpandingKeepsHeap ==
  ASSUME NEW kind, NEW g, Playable(g), NEW D, NEW C, NEW O, NEW n, HeapFits(g, C, O, n),
         NEW e \in O, NEW b \in FreeOf(g) \ C
  PROVE  /\ HeapFits(g, C \cup {b}, HeapAfter(kind, g, D, C, O, e, b), n + 1)
         /\ n + 1 <= MaxCells
<1> DEFINE new == {EntryOn(kind, g, c, D[b] + 1) : c \in Bettered(g, D, C, b)}
           En(c) == EntryOn(kind, g, c, D[b] + 1)
           done == C \cap CellsOf(g)
<1>1. new \in SUBSET {En(b - 1), En(b + 1), En(b - g.width), En(b + g.width)}
  <2>1. \A c \in Bettered(g, D, C, b) : c \in {b - 1, b + 1, b - g.width, b + g.width}
    BY DEF Bettered, Near
  <2> QED BY <2>1
<1>2. IsFiniteSet(new) /\ Cardinality(new) \in 0 .. 4
  <2> DEFINE i == En(b - 1)
             j == En(b + 1)
             k == En(b - g.width)
             l == En(b + g.width)
  <2>1. new \in SUBSET {i, j, k, l}
    BY <1>1
  <2> HIDE DEF new, i, j, k, l
  <2> QED BY <2>1, FourAtMost
<1>3. /\ n = Cardinality(done) /\ IsFiniteSet(O) /\ Cardinality(O) <= 3 * n + 1
  BY DEF HeapFits
<1>4. /\ CellsOf(g) \subseteq 0 .. MaxCells - 1 /\ IsFiniteSet(CellsOf(g))
      /\ FreeOf(g) \subseteq CellsOf(g) /\ Cardinality(CellsOf(g)) <= MaxCells
  BY CellsFit DEF Playable
<1> HIDE DEF new
<1>5. IsFiniteSet(O \ {e}) /\ Cardinality(O \ {e}) = Cardinality(O) - 1 /\ Cardinality(O) \in Nat
  <2>1. IsFiniteSet(O \ {e}) /\ Cardinality(O \ {e}) = Cardinality(O) - 1
    BY <1>3, FS_RemoveElement
  <2>2. Cardinality(O) \in Nat
    BY <1>3, FS_CardinalityType
  <2> QED BY <2>1, <2>2
<1>6. /\ IsFiniteSet((O \ {e}) \cup new)
      /\ Cardinality((O \ {e}) \cup new) <= Cardinality(O) - 1 + 4
  <2>1. /\ IsFiniteSet((O \ {e}) \cup new)
        /\ Cardinality((O \ {e}) \cup new) =
             Cardinality(O \ {e}) + Cardinality(new) - Cardinality((O \ {e}) \cap new)
    BY <1>2, <1>5, FS_Union
  <2>2. IsFiniteSet((O \ {e}) \cap new)
    BY <1>5, FS_Intersection
  <2>3. Cardinality((O \ {e}) \cap new) \in Nat
    BY <2>2, FS_CardinalityType
  <2> QED BY <1>2, <1>5, <2>1, <2>3
<1>7. IsFiniteSet(done) /\ done \subseteq CellsOf(g) /\ b \notin done
  BY <1>4, FS_Intersection
<1>8. (C \cup {b}) \cap CellsOf(g) = done \cup {b}
  BY <1>4
<1>9. Cardinality(done \cup {b}) = n + 1 /\ n \in Nat
  <2>1. Cardinality(done \cup {b}) = Cardinality(done) + 1
    BY <1>7, FS_AddElement
  <2>2. Cardinality(done) \in Nat
    BY <1>7, FS_CardinalityType
  <2> QED BY <1>3, <2>1, <2>2
<1>10. n + 1 <= MaxCells
  <2>1. done \cup {b} \in SUBSET CellsOf(g)
    BY <1>4, <1>7
  <2>2. Cardinality(done \cup {b}) <= Cardinality(CellsOf(g))
    BY <1>4, <2>1, FS_Subset
  <2>3. Cardinality(CellsOf(g)) \in Nat
    BY <1>4, FS_CardinalityType
  <2> QED BY <1>4, <1>9, <2>2, <2>3, PlannerAssumption
<1>11. Cardinality((O \ {e}) \cup new) <= 3 * (n + 1) + 1
  <2>1. IsFiniteSet((O \ {e}) \cup new)
    BY <1>6
  <2>2. Cardinality((O \ {e}) \cup new) \in Nat
    BY <2>1, FS_CardinalityType
  <2> QED BY <1>3, <1>5, <1>6, <1>9, <2>2
<1>12. HeapFits(g, C \cup {b}, (O \ {e}) \cup new, n + 1)
  BY <1>6, <1>8, <1>9, <1>11 DEF HeapFits
<1> QED BY <1>10, <1>12 DEF new, HeapAfter

(* The entry expanded has the shortest distance of its cell.                     *)
LEMMA BestIsExact ==
  ASSUME GridInv, pc = "search", open # {}, ~ Stale(Best)
  PROVE  /\ Best \in open /\ Best.cell \in FreeOf(Grid) \ closed
         /\ distance[Best.cell] # Inf /\ distance[Best.cell] = route[Best.cell]
<1> DEFINE g == Grid
           b == Best.cell
<1>1. /\ Playable(g) /\ Settles(g, route, FreeOf(g))
      /\ Chains(g, route, distance, parent, closed)
      /\ Frontier(algorithm, g, distance, closed, open)
  BY DEF GridInv, Planning
<1>2. \A e \in open : /\ e.cell \in FreeOf(g) /\ e.distance \in Nat /\ e.distance < Inf
                      /\ e = EntryOn(algorithm, g, e.cell, e.distance)
  BY <1>1 DEF Frontier
<1>3. /\ FreeOf(g) \subseteq CellsOf(g) /\ CellsOf(g) \subseteq 0 .. MaxCells - 1
      /\ g.goal \in CellsOf(g) /\ Plain(g)
  BY <1>1, CellsFit DEF Playable
<1>4. \A c \in CellsOf(g) : distance[c] \in Nat
  BY <1>3 DEF GridInv, WorkspaceFits
<1>5. \A c \in CellsOf(g) : Estimate(algorithm, g, c) \in Nat
  BY <1>3, EstimateIsConsistent
<1>6. \A c, d : /\ EntryOn(algorithm, g, c, d).score = d + Estimate(algorithm, g, c)
  BY DEF EntryOn
<1>7. \A e \in open : /\ e.score = e.distance + Estimate(algorithm, g, e.cell)
                      /\ e.cell \in CellsOf(g)
  BY <1>2, <1>3, <1>6
<1>8. \A e \in open : e.score \in Nat /\ e.cell \in Nat /\ e.distance \in Nat
  <2> TAKE e \in open
  <2>1. e.cell \in CellsOf(g) /\ e.distance \in Nat
    BY <1>2, <1>7
  <2>2. e.cell \in Nat
    BY <1>3, <2>1
  <2>3. e.score \in Nat
    BY <1>5, <1>7, <2>1
  <2> QED BY <2>1, <2>2, <2>3
<1>9. Best \in open /\ \A f \in open : Before(Best, f)
  BY <1>8, BestIsLeast
<1>10. b \in FreeOf(g) /\ b \in CellsOf(g) /\ b \notin closed /\ Best.distance = distance[b]
       /\ distance[b] # Inf
  BY <1>2, <1>7, <1>9 DEF Stale
<1>11. route[b] # Inf /\ route[b] <= distance[b] /\ route[b] \in Nat /\ distance[b] \in Nat
  <2>1. route[b] \in Nat
    BY <1>1, <1>10, RouteFacts
  <2>2. route[b] # Inf /\ route[b] <= distance[b]
    BY <1>1, <1>10 DEF Chains
  <2> QED BY <1>4, <1>10, <2>1, <2>2
<1>12. PICK e \in open : e.score <= route[b] + Estimate(algorithm, g, b)
  <2>1. b \in CellsOf(g) \ closed /\ route[b] # Inf
    BY <1>10, <1>11
  <2> HIDE DEF g, b
  <2> QED BY <1>1, <1>4, <2>1, SomethingIsOpen
<1>13. Best.score <= e.score
  <2>1. Before(Best, e) /\ Best.score \in Nat /\ e.score \in Nat
    BY <1>8, <1>9
  <2> QED BY <2>1 DEF Before
<1>14. distance[b] + Estimate(algorithm, g, b) <= route[b] + Estimate(algorithm, g, b)
  BY <1>5, <1>7, <1>8, <1>9, <1>10, <1>11, <1>12, <1>13
<1>15. distance[b] = route[b]
  BY <1>5, <1>10, <1>11, <1>14
<1> QED BY <1>9, <1>10, <1>15

(* An empty heap means that the goal cannot be reached.                          *)
LEMMA NothingOpen ==
  ASSUME GridInv, pc = "search", open = {}
  PROVE  route[Grid.goal] = Inf /\ distance[Grid.goal] = Inf
<1> DEFINE g == Grid
<1>1. /\ Playable(g) /\ Settles(g, route, FreeOf(g))
      /\ Chains(g, route, distance, parent, closed)
      /\ Frontier(algorithm, g, distance, closed, open)
  BY DEF GridInv, Planning
<1>2. /\ FreeOf(g) \subseteq CellsOf(g) /\ CellsOf(g) \subseteq 0 .. MaxCells - 1
      /\ g.goal \in CellsOf(g)
  BY <1>1, CellsFit DEF Playable
<1>3. \A c \in CellsOf(g) : distance[c] \in Nat
  BY <1>2 DEF GridInv, WorkspaceFits
<1>4. g.goal \in CellsOf(g) \ closed
  BY <1>1, <1>2 DEF Frontier
<1>5. route[g.goal] = Inf
  <2> SUFFICES ASSUME route[g.goal] # Inf PROVE FALSE
    OBVIOUS
  <2> HIDE DEF g
  <2>1. \E e \in open : e.score <= route[g.goal] + Estimate(algorithm, g, g.goal)
    BY <1>1, <1>3, <1>4, SomethingIsOpen
  <2> QED BY <2>1
<1>6. distance[g.goal] = Inf
  BY <1>1, <1>2, <1>5 DEF Chains
<1> QED BY <1>5, <1>6

(* The grids stay.                                                             *)
LEMMA GridStays ==
  ASSUME GridInv, pc # "ready", UNCHANGED work
  PROVE  WorkFits' /\ Grid' = Grid /\ work' # <<>> /\ work # <<>>
<1>1. WorkFits' <=> WorkFits
  BY DEF WorkFits
<1>2. Grid' = Grid
  BY DEF Grid
<1> QED BY <1>1, <1>2 DEF GridInv

LEMMA SkipStaleKeeps ==
  ASSUME GridInv, SkipStale
  PROVE  GridInv'
<1> DEFINE g == Grid
<1>1. /\ pc = "search" /\ pc' = pc /\ open # {} /\ Stale(Best) /\ open' = open \ {Best}
      /\ UNCHANGED <<algorithm, work, distance, parent, closed, expansions, rawPath,
                     path, anchor, outcome, route>>
  BY DEF SkipStale
<1>2. WorkFits' /\ Grid' = g /\ work' # <<>>
  BY <1>1, GridStays
<1>3. /\ Playable(g) /\ Settles(g, route, FreeOf(g))
      /\ Chains(g, route, distance, parent, closed)
      /\ Frontier(algorithm, g, distance, closed, open)
      /\ HeapFits(g, closed, open, expansions)
      /\ rawPath = <<>>
  BY <1>1 DEF GridInv, Planning
<1> HIDE DEF g
<1>4. Frontier(algorithm, g, distance, closed, open')
  <2>1. /\ g.goal \notin closed
        /\ \A e \in open : /\ e.cell \in FreeOf(g) /\ e.distance \in Nat /\ e.distance < Inf
                           /\ e = EntryOn(algorithm, g, e.cell, e.distance)
        /\ \A c \in closed \cap CellsOf(g) : \A n \in Near(g, c) \cap FreeOf(g) :
             distance[n] # Inf /\ distance[n] <= distance[c] + 1
        /\ \A c \in CellsOf(g) \ closed :
             distance[c] # Inf => EntryOn(algorithm, g, c, distance[c]) \in open
    BY <1>3 DEF Frontier
  <2>2. ASSUME NEW c \in CellsOf(g) \ closed, distance[c] # Inf
        PROVE  EntryOn(algorithm, g, c, distance[c]) \in open'
    <3> DEFINE e == EntryOn(algorithm, g, c, distance[c])
    <3>1. e.cell = c /\ e.distance = distance[c]
      BY DEF EntryOn
    <3>2. ~ Stale(e)
      BY <2>2, <3>1 DEF Stale
    <3>3. e # Best
      BY <1>1, <3>2
    <3> QED BY <1>1, <2>1, <2>2, <3>3
  <2> QED BY <1>1, <2>1, <2>2 DEF Frontier
<1>5. HeapFits(g, closed, open', expansions)
  <2>1. /\ expansions = Cardinality(closed \cap CellsOf(g))
        /\ IsFiniteSet(open) /\ Cardinality(open) <= 3 * expansions + 1
    BY <1>3 DEF HeapFits
  <2>2. IsFiniteSet(open') /\ Cardinality(open') <= Cardinality(open)
    BY <1>1, <2>1, FS_Subset
  <2>3. Cardinality(open) \in Nat /\ Cardinality(open') \in Nat
    BY <2>1, <2>2, FS_CardinalityType
  <2>4. expansions \in Nat
    <3>1. IsFiniteSet(CellsOf(g))
      BY <1>3, CellsFit
    <3>2. IsFiniteSet(closed \cap CellsOf(g))
      BY <3>1, FS_Intersection
    <3> QED BY <2>1, <3>2, FS_CardinalityType
  <2>5. Cardinality(open') <= 3 * expansions + 1
    BY <2>1, <2>2, <2>3, <2>4
  <2> QED BY <2>1, <2>2, <2>5 DEF HeapFits
<1>6. Planning' /\ pc' = "search"
  BY <1>1 DEF Planning
<1>7. WorkspaceFits'
  BY <1>1 DEF GridInv, WorkspaceFits
<1> QED BY <1>1, <1>2, <1>3, <1>4, <1>5, <1>6, <1>7 DEF GridInv

LEMMA ExpandKeeps ==
  ASSUME GridInv, Expand
  PROVE  GridInv'
<1> DEFINE g == Grid
           b == Best.cell
           stepped == distance[b] + 1
           improved == {n \in Neighbors(b) : Improves(n, stepped)}
<1>1. /\ pc = "search" /\ open # {} /\ ~ Stale(Best) /\ b # g.goal
      /\ UNCHANGED <<algorithm, work, rawPath, path, anchor, route>>
  BY DEF Expand
<1>2. WorkFits' /\ Grid' = g /\ work' # <<>>
  BY <1>1, GridStays
<1>3. /\ Playable(g) /\ Settles(g, route, FreeOf(g))
      /\ Chains(g, route, distance, parent, closed)
      /\ Frontier(algorithm, g, distance, closed, open)
      /\ HeapFits(g, closed, open, expansions)
      /\ rawPath = <<>>
  BY <1>1 DEF GridInv, Planning
<1>4. /\ Best \in open /\ b \in FreeOf(g) \ closed
      /\ distance[b] # Inf /\ distance[b] = route[b]
  BY <1>1, BestIsExact
<1>5. /\ CellsOf(g) \subseteq 0 .. MaxCells - 1 /\ IsFiniteSet(CellsOf(g))
      /\ FreeOf(g) \subseteq CellsOf(g) /\ IsFiniteSet(FreeOf(g))
      /\ Cardinality(FreeOf(g)) <= MaxCells
  BY <1>3, CellsFit
<1>6. /\ distance \in [0 .. MaxCells - 1 -> Nat] /\ DOMAIN parent = 0 .. MaxCells - 1
  BY DEF GridInv, WorkspaceFits
<1>7. CASE expansions = MaxExpansions
  <2>1. /\ pc' = "done" /\ outcome' = "search_workspace"
        /\ UNCHANGED <<distance, parent, closed, expansions>>
    BY <1>7 DEF Expand, Return
  <2>2. Cardinality(FreeOf(g)) > MaxExpansions
    <3> DEFINE found == closed \cap CellsOf(g)
    <3>1. found \subseteq FreeOf(g) \ {b}
      BY <1>3, <1>4 DEF Chains
    <3>2. /\ IsFiniteSet(FreeOf(g) \ {b})
          /\ Cardinality(FreeOf(g) \ {b}) = Cardinality(FreeOf(g)) - 1
      BY <1>4, <1>5, FS_RemoveElement
    <3>3. Cardinality(found) <= Cardinality(FreeOf(g)) - 1
      BY <3>1, <3>2, FS_Subset
    <3>4. Cardinality(FreeOf(g)) \in Nat
      BY <1>5, FS_CardinalityType
    <3>5. MaxExpansions = Cardinality(found) /\ MaxExpansions \in Nat
      BY <1>3, <1>7, PlannerAssumption DEF HeapFits
    <3> QED BY <3>3, <3>4, <3>5
  <2>3. OutcomeFits(outcome', g, route', rawPath', path', anchor')
    BY <1>2, <2>1, <2>2 DEF OutcomeFits
  <2>4. WorkspaceFits'
    BY <1>6, <2>1 DEF WorkspaceFits
  <2> HIDE DEF g
  <2> QED BY <1>1, <1>2, <1>3, <2>1, <2>3, <2>4 DEF GridInv
<1>8. CASE expansions # MaxExpansions
  <2>1. /\ closed' = closed \cup {b}
        /\ expansions' = expansions + 1
        /\ distance' = [c \in DOMAIN distance |-> IF c \in improved THEN stepped ELSE distance[c]]
        /\ parent' = [c \in DOMAIN parent |-> IF c \in improved THEN b ELSE parent[c]]
        /\ open' = (open \ {Best}) \cup {Entry(c, stepped) : c \in improved}
        /\ IF Cardinality(open') > OpenCapacity
             THEN Return("search_open_set") ELSE UNCHANGED <<pc, outcome>>
    BY <1>8 DEF Expand
  <2>2. improved = Bettered(g, distance, closed, b)
    <3>1. Neighbors(b) = Near(g, b) /\ Free = FreeOf(g)
      BY SameGround
    <3> QED BY <3>1 DEF Improves, Bettered
  <2>3. open' = HeapAfter(algorithm, g, distance, closed, open, Best, b)
    <3>1. \A c : Entry(c, stepped) = EntryOn(algorithm, g, c, stepped)
      BY SameGround DEF Entry, EntryOn
    <3> QED BY <2>1, <2>2, <3>1 DEF HeapAfter
  <2>4. \A c \in CellsOf(g) : distance[c] \in Nat
    BY <1>5, <1>6
  <2>5. \A c \in CellsOf(g) :
          /\ distance'[c] = IF c \in Bettered(g, distance, closed, b) THEN distance[b] + 1
                                                                    ELSE distance[c]
          /\ parent'[c] = IF c \in Bettered(g, distance, closed, b) THEN b ELSE parent[c]
    BY <1>5, <1>6, <2>1, <2>2
  <2> HIDE DEF g, improved
  <2>6. Chains(g, route, distance', parent', closed')
    <3>1. b \in FreeOf(g)
      BY <1>4
    <3> QED BY <1>3, <1>4, <2>1, <2>4, <2>5, <3>1, ExpandingKeepsChains
  <2>7. Frontier(algorithm, g, distance', closed', open')
    <3>1. b \in FreeOf(g) /\ b # g.goal
      BY <1>1, <1>4 DEF g
    <3>2. \A c \in CellsOf(g) :
            distance'[c] = IF c \in Bettered(g, distance, closed, b) THEN distance[b] + 1
                                                                   ELSE distance[c]
      BY <2>5
    <3>3. /\ b = Best.cell /\ Best \in open /\ distance[b] # Inf /\ distance[b] = route[b]
          /\ closed' = closed \cup {b}
      BY <1>4, <2>1
    <3> HIDE DEF b
    <3>4. Frontier(algorithm, g, distance', closed \cup {b},
                   HeapAfter(algorithm, g, distance, closed, open, Best, b))
      BY <1>3, <2>4, <3>1, <3>2, <3>3, ExpandingKeepsFrontier
    <3> QED BY <2>3, <3>3, <3>4
  <2>8. HeapFits(g, closed', open', expansions') /\ expansions + 1 <= MaxCells
    BY <1>3, <1>4, <2>1, <2>3, ExpandingKeepsHeap
  <2>9. UNCHANGED <<pc, outcome>>
    <3>1. Cardinality(open') <= 3 * (expansions + 1) + 1 /\ IsFiniteSet(open')
      BY <2>1, <2>8 DEF HeapFits
    <3>2. Cardinality(open') \in Nat
      BY <3>1, FS_CardinalityType
    <3>3. expansions \in Nat
      <4>1. IsFiniteSet(closed \cap CellsOf(g))
        BY <1>5, FS_Intersection
      <4> QED BY <1>3, <4>1, FS_CardinalityType DEF HeapFits
    <3>4. ~ (Cardinality(open') > OpenCapacity)
      BY <2>8, <3>1, <3>2, <3>3, PlannerAssumption DEF OpenCapacity
    <3> QED BY <2>1, <3>4
  <2>10. WorkspaceFits'
    <3>1. stepped \in Nat /\ b \in 0 .. MaxCells - 1
      BY <1>4, <1>5, <2>4
    <3> QED BY <1>6, <2>1, <3>1 DEF WorkspaceFits
  <2> QED BY <1>1, <1>2, <1>3, <2>6, <2>7, <2>8, <2>9, <2>10 DEF GridInv, Planning
<1> QED BY <1>7, <1>8

LEMMA StartKeeps ==
  ASSUME GridInv, Start
  PROVE  GridInv'
<1> DEFINE g == Grid
<1>1. /\ pc = "ready" /\ work # <<>> /\ UNCHANGED <<algorithm, work, path, anchor>>
  BY DEF Start
<1>2. WorkFits' /\ Grid' = g /\ work' # <<>>
  BY <1>1 DEF GridInv, WorkFits, Grid
<1>3. Plain(g)
  <2>1. PICK S : work \in Seq(S) /\ \A x \in S : Plain(x)
    BY DEF GridInv, WorkFits
  <2>2. Head(work) \in S
    BY <1>1, <2>1
  <2> QED BY <2>1, <2>2 DEF Grid
<1>4. Cells = CellsOf(g) /\ Free = FreeOf(g)
  BY SameGround
<1>5. distance \in [0 .. MaxCells - 1 -> Nat] /\ DOMAIN parent = 0 .. MaxCells - 1 /\ Inf \in Nat
  BY PlannerAssumption DEF GridInv, WorkspaceFits
<1>6. CASE ~ ValidGrid
  <2>1. pc' = "done" /\ outcome' = "invalid grid" /\ UNCHANGED <<distance, parent>>
    BY <1>6 DEF Start, Return
  <2>2. WorkspaceFits' /\ ~ Planning'
    BY <1>5, <2>1 DEF WorkspaceFits, Planning
  <2> QED BY <1>2, <2>1, <2>2 DEF GridInv
<1>7. CASE ValidGrid /\ ~ ({Grid.start, Grid.goal} \subseteq Free)
  <2>1. Reset(Cells, {}) /\ Return("occupied")
    BY <1>7 DEF Start
  <2>2. pc' = "done" /\ outcome' = "occupied"
    BY <2>1 DEF Return
  <2>3. WorkspaceFits' /\ ~ Planning'
    BY <1>5, <2>1, <2>2 DEF WorkspaceFits, Planning, Reset
  <2> QED BY <1>2, <2>2, <2>3 DEF GridInv
<1>8. CASE ValidGrid /\ {Grid.start, Grid.goal} \subseteq Free
  <2>1. /\ rawPath' = <<>> /\ route' = RouteDistances(Free) /\ expansions' = 0
        /\ Reset(Cells, {Grid.start})
        /\ open' = {Entry(Grid.start, 0)}
        /\ pc' = "search"
    BY <1>8 DEF Start
  <2>2. Playable(g)
    BY <1>3, <1>4, <1>8 DEF Playable, ValidGrid
  <2>3. Settles(g, route', FreeOf(g))
    <3>1. route' = RoutesOn(g, FreeOf(g))
      BY <1>4, <2>1, SameRoutes
    <3>2. /\ FreeOf(g) \in SUBSET CellsOf(g) /\ IsFiniteSet(FreeOf(g))
          /\ g.start \in FreeOf(g) /\ Cardinality(FreeOf(g)) <= MaxCells
      BY <2>2, CellsFit DEF Playable
    <3> HIDE DEF g
    <3> QED BY <1>3, <3>1, <3>2, RoutesSettle
  <2>4. /\ CellsOf(g) \subseteq 0 .. MaxCells - 1
        /\ g.start \in CellsOf(g) /\ g.goal \in CellsOf(g) /\ FreeOf(g) \subseteq CellsOf(g)
        /\ g.start \in FreeOf(g)
    BY <2>2, CellsFit DEF Playable
  <2>5. /\ \A c \in CellsOf(g) : distance'[c] = IF c = g.start THEN 0 ELSE Inf
        /\ closed' = closed \ CellsOf(g)
    BY <1>4, <1>5, <2>1, <2>4 DEF Reset
  <2>6. open' = {EntryOn(algorithm, g, g.start, 0)}
    BY <2>1, SameGround DEF Entry, EntryOn
  <2>7. Inf # 0
    BY PlannerAssumption
  <2>8. WorkspaceFits'
    BY <1>5, <2>1 DEF WorkspaceFits, Reset
  <2> HIDE DEF g
  <2>9. Chains(g, route', distance', parent', closed')
    <3>1. route'[g.start] = 0
      BY <2>3 DEF Settles
    <3>2. \A c \in CellsOf(g) : distance'[c] # Inf => c = g.start /\ distance'[c] = 0
      BY <2>5
    <3>3. closed' \cap CellsOf(g) = {}
      BY <2>5
    <3>4. distance'[g.start] = 0
      BY <2>4, <2>5
    <3> QED BY <2>4, <2>7, <3>1, <3>2, <3>3, <3>4 DEF Chains
  <2>10. Frontier(algorithm, g, distance', closed', open')
    <3> DEFINE e == EntryOn(algorithm, g, g.start, 0)
    <3>1. e.cell = g.start /\ e.distance = 0
      BY DEF EntryOn
    <3>2. e = EntryOn(algorithm, g, e.cell, e.distance)
      BY <3>1
    <3>3. \A c \in CellsOf(g) : distance'[c] # Inf => c = g.start /\ distance'[c] = 0
      BY <2>5
    <3>4. g.goal \notin closed' /\ closed' \cap CellsOf(g) = {}
      BY <2>4, <2>5
    <3>5. 0 < Inf
      BY PlannerAssumption
    <3>6. \A f \in open' : /\ f.cell \in FreeOf(g) /\ f.distance \in Nat /\ f.distance < Inf
                           /\ f = EntryOn(algorithm, g, f.cell, f.distance)
      <4> HIDE DEF e
      <4>1. open' = {e}
        BY <2>6 DEF e
      <4> QED BY <2>4, <3>1, <3>2, <3>5, <4>1
    <3>7. \A c \in CellsOf(g) \ closed' :
            distance'[c] # Inf => EntryOn(algorithm, g, c, distance'[c]) \in open'
      BY <2>6, <3>3
    <3> QED BY <3>4, <3>6, <3>7 DEF Frontier
  <2>11. HeapFits(g, closed', open', expansions')
    <3>1. closed' \cap CellsOf(g) = {}
      BY <2>5
    <3>2. Cardinality({}) = 0
      BY FS_EmptySet
    <3>3. IsFiniteSet(open') /\ Cardinality(open') = 1
      BY <2>6, FS_Singleton
    <3>4. expansions' = Cardinality(closed' \cap CellsOf(g))
      BY <2>1, <3>1, <3>2
    <3>5. Cardinality(open') <= 3 * expansions' + 1
      BY <2>1, <3>3
    <3> QED BY <3>3, <3>4, <3>5 DEF HeapFits
  <2> QED
    BY <1>1, <1>2, <2>1, <2>2, <2>3, <2>8, <2>9, <2>10, <2>11 DEF GridInv, Planning
<1> QED BY <1>6, <1>7, <1>8

(* What an empty list says of a walk.                                           *)
LEMMA NoWalkYet ==
  ASSUME NEW g, NEW R, R[g.goal] # Inf
  PROVE  Walk(g, R, <<>>)
BY PlannerAssumption DEF Walk

LEMMA EndSearchKeeps ==
  ASSUME GridInv, EndSearch
  PROVE  GridInv'
<1> DEFINE g == Grid
<1>1. /\ pc = "search" /\ (open # {} => ~ Stale(Best) /\ Best.cell = g.goal)
      /\ pc' = IF distance[g.goal] = Inf THEN "smooth" ELSE "trace"
      /\ UNCHANGED <<algorithm, work, distance, parent, closed, expansions, rawPath,
                     path, anchor, outcome, route>>
  BY DEF EndSearch
<1>2. WorkFits' /\ Grid' = g /\ work' # <<>>
  BY <1>1, GridStays
<1>3. /\ Playable(g) /\ Settles(g, route, FreeOf(g))
      /\ Chains(g, route, distance, parent, closed)
      /\ rawPath = <<>>
  BY <1>1 DEF GridInv, Planning
<1>4. WorkspaceFits'
  BY <1>1 DEF GridInv, WorkspaceFits
<1>5. CASE open = {}
  <2>1. route[g.goal] = Inf /\ distance[g.goal] = Inf
    BY <1>1, <1>5, NothingOpen
  <2>2. pc' = "smooth"
    BY <1>1, <2>1
  <2>3. RouteFits(g, route, rawPath)
    BY <1>3, <2>1 DEF RouteFits
  <2> HIDE DEF g
  <2> QED BY <1>1, <1>2, <1>3, <1>4, <2>2, <2>3 DEF GridInv, Planning
<1>6. CASE open # {}
  <2>1. distance[g.goal] # Inf /\ distance[g.goal] = route[g.goal]
    BY <1>1, <1>6, BestIsExact
  <2>2. pc' = "trace"
    BY <1>1, <2>1
  <2>3. TraceFits(g, route, distance, rawPath)
    <3>1. Walk(g, route, <<>>)
      BY <2>1, NoWalkYet
    <3> QED BY <1>3, <2>1, <3>1 DEF TraceFits
  <2> HIDE DEF g
  <2> QED BY <1>1, <1>2, <1>3, <1>4, <2>2, <2>3 DEF GridInv, Planning
<1> QED BY <1>5, <1>6

(* What a sequence is with one more element before its first.                    *)
LEMMA Prepended ==
  ASSUME NEW S, NEW x \in S, NEW s \in Seq(S)
  PROVE  /\ <<x>> \o s \in Seq(S) /\ Len(<<x>> \o s) = Len(s) + 1 /\ (<<x>> \o s)[1] = x
         /\ \A i \in 1 .. Len(s) : (<<x>> \o s)[i + 1] = s[i]
OBVIOUS

(* A walk is one longer with the cell before its first.                          *)
LEMMA WalkGrows ==
  ASSUME NEW g, Playable(g), NEW R, Settles(g, R, FreeOf(g)), NEW r, Walk(g, R, r),
         Len(r) < MaxPath, NEW c \in FreeOf(g), R[c] \in Nat,
         IF r = <<>> THEN c = g.goal ELSE c \in Near(g, r[1]) /\ R[c] + 1 = R[r[1]]
  PROVE  Walk(g, R, <<c>> \o r) /\ (<<c>> \o r)[1] = c /\ <<c>> \o r # <<>>
<1> DEFINE q == <<c>> \o r
<1>1. /\ r \in Seq(FreeOf(g)) /\ Len(r) \in Nat
      /\ R[g.goal] # Inf
      /\ \A i \in 1 .. Len(r) : R[r[i]] + (Len(r) - i) = R[g.goal]
      /\ \A i \in 1 .. Len(r) - 1 : r[i + 1] \in Near(g, r[i])
      /\ r # <<>> => r[Len(r)] = g.goal
  <2>1. r \in Seq(FreeOf(g))
    BY Zenon DEF Walk
  <2>2. Len(r) \in Nat
    BY <2>1
  <2> QED BY <2>1, <2>2, Zenon DEF Walk
<1>3. /\ q \in Seq(FreeOf(g)) /\ Len(q) = Len(r) + 1 /\ q[1] = c
      /\ \A i \in 1 .. Len(r) : q[i + 1] = r[i]
  <2>1. r \in Seq(FreeOf(g))
    BY <1>1
  <2>2. <<c>> \o r \in Seq(FreeOf(g)) /\ Len(<<c>> \o r) = Len(r) + 1 /\ (<<c>> \o r)[1] = c
        /\ \A i \in 1 .. Len(r) : (<<c>> \o r)[i + 1] = r[i]
    BY <2>1, Prepended
  <2> QED BY <2>2
<1> HIDE DEF q
<1>4. R[g.goal] \in Nat /\ (\A d \in FreeOf(g) : R[d] \in Nat /\ d \in CellsOf(g)) /\ Plain(g)
  <2>1. FreeOf(g) \subseteq CellsOf(g) /\ g.goal \in FreeOf(g) /\ Plain(g)
    BY CellsFit DEF Playable
  <2>2. R \in [CellsOf(g) -> Nat]
    BY DEF Settles
  <2> QED BY <2>1, <2>2
<1>5. CASE r = <<>>
  <2>1. Len(r) = 0 /\ Len(q) = 1 /\ c = g.goal
    BY <1>3, <1>5
  <2> QED BY <1>1, <1>3, <1>4, <2>1, PlannerAssumption DEF Walk, q
<1>6. CASE r # <<>>
  <2>1. Len(r) >= 1 /\ r[1] \in FreeOf(g) /\ c \in Near(g, r[1]) /\ R[c] + 1 = R[r[1]]
    BY <1>1, <1>6
  <2>2. R[r[1]] + (Len(r) - 1) = R[g.goal]
    BY <1>1, <2>1
  <2>3. ASSUME NEW i \in 1 .. Len(q)
        PROVE  R[q[i]] + (Len(q) - i) = R[g.goal]
    <3>1. CASE i = 1
      BY <1>1, <1>3, <1>4, <2>1, <2>2, <3>1
    <3>2. CASE i # 1
      <4>1. i - 1 \in 1 .. Len(r) /\ (i - 1) + 1 = i
        BY <1>1, <1>3, <3>2
      <4>2. q[i] = r[i - 1] /\ R[r[i - 1]] + (Len(r) - (i - 1)) = R[g.goal]
        BY <1>1, <1>3, <4>1
      <4> QED BY <1>1, <1>3, <4>2
    <3> QED BY <3>1, <3>2
  <2>4. ASSUME NEW i \in 1 .. Len(q) - 1
        PROVE  q[i + 1] \in Near(g, q[i])
    <3>1. i \in 1 .. Len(r) /\ q[i + 1] = r[i]
      BY <1>1, <1>3
    <3>2. CASE i = 1
      <4>1. r[1] \in Near(g, c)
        BY <1>4, <2>1, NeighborsAreMutual
      <4> QED BY <1>3, <3>1, <3>2, <4>1
    <3>3. CASE i # 1
      <4>1. i - 1 \in 1 .. Len(r) - 1 /\ (i - 1) + 1 = i /\ i - 1 \in 1 .. Len(r)
        BY <1>1, <3>1, <3>3
      <4>2. q[i] = r[i - 1] /\ r[i] \in Near(g, r[i - 1])
        BY <1>1, <1>3, <4>1
      <4> QED BY <3>1, <4>2
    <3> QED BY <3>2, <3>3
  <2>5. q[Len(q)] = g.goal
    BY <1>1, <1>3, <1>6, <2>1, SMTT(30)
  <2>6. Len(q) <= MaxPath
    BY <1>1, <1>3, PlannerAssumption
  <2> QED BY <1>1, <1>3, <2>3, <2>4, <2>5, <2>6, SMTT(30) DEF Walk, q
<1> QED BY <1>5, <1>6

LEMMA TraceKeeps ==
  ASSUME GridInv, Trace
  PROVE  GridInv'
<1> DEFINE g == Grid
           current == IF rawPath = <<>> THEN g.goal ELSE parent[Head(rawPath)]
<1>1. /\ pc = "trace"
      /\ UNCHANGED <<algorithm, work, distance, parent, closed, open, expansions,
                     path, anchor, route>>
  BY DEF Trace
<1>2. WorkFits' /\ Grid' = g /\ work' # <<>>
  BY <1>1, GridStays
<1>3. /\ Playable(g) /\ Settles(g, route, FreeOf(g))
      /\ Chains(g, route, distance, parent, closed)
      /\ TraceFits(g, route, distance, rawPath)
  BY <1>1 DEF GridInv, Planning
<1>4. WorkspaceFits'
  BY <1>1 DEF GridInv, WorkspaceFits
<1>5. /\ FreeOf(g) \subseteq CellsOf(g) /\ g.goal \in FreeOf(g) /\ Plain(g)
      /\ CellsOf(g) \subseteq 0 .. MaxCells - 1
  BY <1>3, CellsFit DEF Playable
<1>6. /\ \A c \in CellsOf(g) : route[c] \in Nat
      /\ \A c \in CellsOf(g) : route[c] = 0 => c = g.start
      /\ route[g.start] = 0
  BY <1>3, RouteFacts
<1>7. /\ Walk(g, route, rawPath)
      /\ rawPath \in Seq(FreeOf(g)) /\ Len(rawPath) \in Nat /\ Len(rawPath) <= MaxPath
      /\ route[g.goal] # Inf
      /\ \A i \in 1 .. Len(rawPath) : route[rawPath[i]] + (Len(rawPath) - i) = route[g.goal]
      /\ rawPath # <<>> => rawPath[1] # g.start
  BY <1>3 DEF TraceFits, Walk
<1>8. rawPath # <<>> => /\ Head(rawPath) = rawPath[1] /\ rawPath[1] \in FreeOf(g) /\ Len(rawPath) >= 1
  BY <1>7
<1>9. rawPath # <<>> => distance[rawPath[1]] # Inf /\ distance[rawPath[1]] = route[rawPath[1]]
  BY <1>3 DEF TraceFits
<1>10. rawPath = <<>> => distance[g.goal] # Inf /\ distance[g.goal] = route[g.goal]
  BY <1>3 DEF TraceFits
<1>11. CASE Len(rawPath) = MaxPath
  <2>1. pc' = "done" /\ outcome' = "raw_path" /\ UNCHANGED rawPath
    BY <1>11 DEF Trace, Return
  <2>2. route[g.goal] >= MaxPath
    <3>1. CASE rawPath = <<>>
      BY <1>5, <1>6, <1>11, <3>1
    <3>2. CASE rawPath # <<>>
      <4>1. route[rawPath[1]] + (Len(rawPath) - 1) = route[g.goal] /\ rawPath[1] # g.start
        BY <1>7, <1>8, <3>2
      <4>2. route[rawPath[1]] # 0 /\ route[rawPath[1]] \in Nat
        BY <1>5, <1>6, <1>8, <3>2, <4>1
      <4> QED BY <1>7, <1>11, <4>1, <4>2
    <3> QED BY <3>1, <3>2
  <2>3. OutcomeFits(outcome', g, route', rawPath', path', anchor')
    BY <1>1, <1>7, <2>1, <2>2 DEF OutcomeFits
  <2> HIDE DEF g
  <2> QED BY <1>1, <1>2, <1>3, <1>4, <2>1, <2>3 DEF GridInv
<1>12. CASE Len(rawPath) # MaxPath
  <2>1. /\ rawPath' = <<current>> \o rawPath
        /\ pc' = IF current = g.start THEN "smooth" ELSE "trace"
        /\ UNCHANGED outcome
    BY <1>12 DEF Trace
  <2>2. /\ current \in FreeOf(g) /\ distance[current] # Inf /\ distance[current] = route[current]
        /\ IF rawPath = <<>> THEN current = g.goal
           ELSE current \in Near(g, rawPath[1]) /\ route[current] + 1 = route[rawPath[1]]
    <3>1. CASE rawPath = <<>>
      BY <1>5, <1>10, <3>1
    <3>2. CASE rawPath # <<>>
      <4> DEFINE h == rawPath[1]
      <4>1. current = parent[h] /\ h \in CellsOf(g) /\ h # g.start
            /\ distance[h] # Inf /\ distance[h] = route[h]
        BY <1>5, <1>7, <1>8, <1>9, <3>2
      <4>2. current \in closed \cap Near(g, h) /\ distance[h] = distance[current] + 1
        BY <1>3, <4>1 DEF Chains
      <4>3. current \in closed \cap CellsOf(g)
        BY <4>2 DEF Near
      <4>4. distance[current] # Inf /\ distance[current] = route[current]
        BY <1>3, <4>3 DEF Chains
      <4>5. current \in FreeOf(g)
        BY <1>3, <4>3, <4>4 DEF Chains
      <4>6. route[current] + 1 = route[h]
        BY <4>1, <4>2, <4>4
      <4> QED BY <3>2, <4>2, <4>4, <4>5, <4>6
    <3> QED BY <3>1, <3>2
  <2> HIDE DEF current
  <2>3. Len(rawPath) < MaxPath /\ route[current] \in Nat
    BY <1>5, <1>6, <1>7, <1>12, <2>2, PlannerAssumption
  <2>4. Walk(g, route, rawPath') /\ rawPath'[1] = current /\ rawPath' # <<>>
    <3> HIDE DEF g
    <3> QED BY <1>3, <1>7, <2>1, <2>2, <2>3, WalkGrows
  <2>5. CASE current = g.start
    <3>1. pc' = "smooth" /\ RouteFits(g, route, rawPath')
      BY <2>1, <2>4, <2>5 DEF RouteFits
    <3> HIDE DEF g
    <3> QED BY <1>1, <1>2, <1>3, <1>4, <3>1 DEF GridInv, Planning
  <2>6. CASE current # g.start
    <3>1. pc' = "trace" /\ TraceFits(g, route, distance, rawPath')
      BY <2>1, <2>2, <2>4, <2>6 DEF TraceFits
    <3> HIDE DEF g
    <3> QED BY <1>1, <1>2, <1>3, <1>4, <3>1 DEF GridInv, Planning
  <2> QED BY <2>5, <2>6
<1> QED BY <1>11, <1>12
------------------------------------------------------------------------------
(* The smoother. *)

LEMMA BeginSmoothingKeeps ==
  ASSUME GridInv, BeginSmoothing
  PROVE  GridInv'
<1> DEFINE g == Grid
<1>1. /\ pc = "smooth" /\ anchor' = 1
      /\ UNCHANGED <<algorithm, work, distance, parent, closed, open, expansions,
                     rawPath, route>>
  BY DEF BeginSmoothing
<1>2. WorkFits' /\ Grid' = g /\ work' # <<>>
  BY <1>1, GridStays
<1>3. /\ Playable(g) /\ Settles(g, route, FreeOf(g))
      /\ RouteFits(g, route, rawPath)
  BY <1>1 DEF GridInv, Planning
<1>4. WorkspaceFits'
  BY <1>1 DEF GridInv, WorkspaceFits
<1> HIDE DEF g
(* A smoother without room for one point refuses every route.                   *)
<1>5. CASE rawPath # <<>> /\ MaxSmoothed = 0
  <2>1. pc' = "done" /\ outcome' = "smoothed_path"
    BY <1>5 DEF BeginSmoothing, Return
  <2>2. rawPath \in Seq(FreeOf(g))
    BY <1>3, <1>5 DEF RouteFits, Walk
  <2>3. Len(rawPath) > MaxSmoothed
    BY <1>5, <2>2
  <2>4. OutcomeFits(outcome', g, route', rawPath', path', anchor')
    BY <1>1, <1>3, <1>5, <2>1, <2>3 DEF OutcomeFits
  <2> QED BY <1>1, <1>2, <1>3, <1>4, <2>1, <2>4 DEF GridInv
<1>6. CASE ~ (rawPath # <<>> /\ MaxSmoothed = 0)
  <2>1. /\ pc' = "advance" /\ outcome' = outcome
        /\ path' = IF rawPath = <<>> THEN <<>> ELSE <<Head(rawPath)>>
    BY <1>6 DEF BeginSmoothing
  <2>2. SmoothFits(g, route, rawPath, path', anchor')
    <3>1. CASE rawPath = <<>>
      BY <1>1, <2>1, <3>1 DEF SmoothFits
    <3>2. CASE rawPath # <<>>
      <4>1. rawPath \in Seq(FreeOf(g)) /\ rawPath[1] = g.start
        BY <1>3, <3>2 DEF RouteFits, Walk
      <4>2. Len(rawPath) \in Nat /\ Len(rawPath) >= 1 /\ Head(rawPath) = rawPath[1]
            /\ rawPath[1] \in FreeOf(g)
        BY <3>2, <4>1
      <4>3. path' = <<rawPath[1]>> /\ Len(path') = 1 /\ path'[1] = rawPath[1]
            /\ path' \in Seq(FreeOf(g))
        BY <2>1, <3>2, <4>2
      <4> QED BY <1>1, <3>2, <4>1, <4>2, <4>3 DEF SmoothFits
    <3> QED BY <3>1, <3>2
  <2> QED BY <1>1, <1>2, <1>3, <1>4, <2>1, <2>2 DEF GridInv, Planning
<1> QED BY <1>5, <1>6

(* The smoother has room for one more point.                                    *)
LEMMA AdvanceKeepsPoint ==
  ASSUME GridInv, Advance, Len(path) # MaxSmoothed
  PROVE  GridInv'
<1> DEFINE g == Grid
           seen == {i \in anchor + 1 .. Len(rawPath) : Visible(i)}
<1>1. /\ pc = "advance" /\ anchor < Len(rawPath)
      /\ UNCHANGED <<algorithm, work, distance, parent, closed, open, expansions,
                     rawPath, route>>
  BY DEF Advance
<1>2. WorkFits' /\ Grid' = g /\ work' # <<>>
  BY <1>1, GridStays
<1>3. /\ Playable(g) /\ Settles(g, route, FreeOf(g))
      /\ RouteFits(g, route, rawPath)
      /\ SmoothFits(g, route, rawPath, path, anchor)
  BY <1>1 DEF GridInv, Planning
<1>4. WorkspaceFits'
  BY <1>1 DEF GridInv, WorkspaceFits
<1>5. rawPath # <<>>
  <2>1. rawPath = <<>> => Len(rawPath) = 0 /\ anchor = 1
    BY <1>3 DEF SmoothFits
  <2> QED BY <1>1, <2>1
<1>6. Walk(g, route, rawPath)
  BY <1>3, <1>5 DEF RouteFits
<1>7. /\ rawPath \in Seq(FreeOf(g)) /\ Len(rawPath) \in Nat /\ Len(rawPath) <= MaxPath
      /\ \A i \in 1 .. Len(rawPath) : route[rawPath[i]] + (Len(rawPath) - i) = route[g.goal]
      /\ \A i \in 1 .. Len(rawPath) - 1 : rawPath[i + 1] \in Near(g, rawPath[i])
  BY <1>6 DEF Walk
<1>8. /\ anchor \in 1 .. Len(rawPath)
      /\ path \in Seq(FreeOf(g)) /\ Len(path) \in 1 .. anchor
      /\ path[1] = g.start /\ path[Len(path)] = rawPath[anchor]
      /\ \A i \in 1 .. Len(path) - 1 : LineOn(g.width, path[i], path[i + 1]) \subseteq FreeOf(g)
      /\ \A i, j \in 1 .. Len(path) : i < j => route[path[i]] < route[path[j]]
  BY <1>3, <1>5 DEF SmoothFits
<1>10. /\ anchor' = Max(seen) /\ path' = Append(path, rawPath[anchor'])
       /\ UNCHANGED <<pc, outcome>>
  BY DEF Advance
<1>11. anchor' \in anchor + 1 .. Len(rawPath) /\ Visible(anchor')
  <2>1. anchor + 1 \in seen /\ seen \in SUBSET (0 .. Len(rawPath)) /\ seen # {}
    BY <1>1, <1>7, <1>8, SMTT(30) DEF Visible
  <2>2. Max(seen) \in seen
    <3> HIDE DEF seen
    <3> QED BY <1>7, <2>1, MaxOfBounded
  <2> QED BY <1>10, <2>2
<1> DEFINE to == anchor'
<1>12. to \in 1 .. Len(rawPath) /\ rawPath[to] \in FreeOf(g) /\ rawPath[anchor] \in FreeOf(g)
  BY <1>7, <1>8, <1>11
<1>13. FreeOf(g) \subseteq CellsOf(g) /\ Plain(g) /\ g.goal \in CellsOf(g)
  BY <1>3, CellsFit DEF Playable
<1>14. LineOn(g.width, rawPath[anchor], rawPath[to]) \subseteq FreeOf(g)
  <2>1. CASE to = anchor + 1
    <3>1. rawPath[to] \in Near(g, rawPath[anchor]) /\ rawPath[anchor] \in CellsOf(g)
      BY <1>7, <1>8, <1>11, <1>12, <1>13, <2>1
    <3>2. LineOn(g.width, rawPath[anchor], rawPath[to]) \subseteq {rawPath[anchor], rawPath[to]}
      BY <1>13, <3>1, NeighborsInSight
    <3> QED BY <1>12, <3>2
  <2>2. CASE to # anchor + 1
    <3>1. LineCells(rawPath[anchor], rawPath[to]) \subseteq Free
      BY <1>11, <2>2 DEF Visible, LineIsClear
    <3> QED BY <3>1, SameLines, SameGround
  <2> QED BY <2>1, <2>2
<1>15. route[rawPath[anchor]] < route[rawPath[to]]
  <2>1. /\ route[rawPath[anchor]] + (Len(rawPath) - anchor) = route[g.goal]
        /\ route[rawPath[to]] + (Len(rawPath) - to) = route[g.goal]
    BY <1>7, <1>8, <1>12
  <2>2. /\ route[rawPath[anchor]] \in Nat /\ route[rawPath[to]] \in Nat
    BY <1>3, <1>12, <1>13 DEF Settles
  <2> QED BY <1>7, <1>8, <1>11, <2>1, <2>2, SMTT(30)
<1> HIDE DEF g, to, seen
<1>16. /\ path' \in Seq(FreeOf(g)) /\ Len(path') = Len(path) + 1 /\ Len(path) \in Nat
       /\ path'[Len(path) + 1] = rawPath[to]
       /\ \A i \in 1 .. Len(path) : path'[i] = path[i]
  BY <1>8, <1>10, <1>12 DEF to
<1>17. \A i \in 1 .. Len(path') - 1 : LineOn(g.width, path'[i], path'[i + 1]) \subseteq FreeOf(g)
  <2> TAKE i \in 1 .. Len(path') - 1
  <2>1. CASE i = Len(path)
    BY <1>8, <1>14, <1>16, <2>1
  <2>2. CASE i # Len(path)
    <3>1. i \in 1 .. Len(path) - 1 /\ i \in 1 .. Len(path) /\ i + 1 \in 1 .. Len(path)
      BY <1>16, <2>2
    <3> QED BY <1>8, <1>16, <3>1
  <2> QED BY <2>1, <2>2
<1>18. \A i \in 1 .. Len(path) : route[path[i]] <= route[rawPath[anchor]] /\ route[path[i]] \in Nat
  <2> TAKE i \in 1 .. Len(path)
  <2>1. path[i] \in CellsOf(g)
    BY <1>8, <1>13
  <2>2. route[path[i]] \in Nat
    BY <1>3, <2>1 DEF Settles
  <2>3. i = Len(path) \/ route[path[i]] < route[path[Len(path)]]
    BY <1>8
  <2>4. route[rawPath[anchor]] \in Nat
    BY <1>3, <1>12, <1>13 DEF Settles
  <2> QED BY <1>8, <2>2, <2>3, <2>4
<1>19. \A i, j \in 1 .. Len(path') : i < j => route[path'[i]] < route[path'[j]]
  <2> TAKE i, j \in 1 .. Len(path')
  <2> HAVE i < j
  <2>1. i \in 1 .. Len(path)
    BY <1>16
  <2>2. CASE j = Len(path) + 1
    <3>1. route[path[i]] <= route[rawPath[anchor]] /\ route[path[i]] \in Nat
      BY <1>18, <2>1
    <3>2. route[rawPath[anchor]] \in Nat /\ route[rawPath[to]] \in Nat
      BY <1>3, <1>12, <1>13 DEF Settles
    <3> QED BY <1>15, <1>16, <2>1, <2>2, <3>1, <3>2
  <2>3. CASE j # Len(path) + 1
    <3>1. j \in 1 .. Len(path)
      BY <1>16, <2>3
    <3> QED BY <1>8, <1>16, <2>1, <3>1
  <2> QED BY <2>2, <2>3
<1>20. SmoothFits(g, route, rawPath, path', to)
  <2>1. Len(path') \in 1 .. to
    BY <1>8, <1>11, <1>16 DEF to
  <2>2. path'[1] = g.start /\ path'[Len(path')] = rawPath[to]
    BY <1>8, <1>16
  <2> QED BY <1>5, <1>12, <1>16, <1>17, <1>19, <2>1, <2>2 DEF SmoothFits
<1> QED BY <1>1, <1>2, <1>3, <1>4, <1>10, <1>20 DEF GridInv, Planning, to

(* Without room it gives up: the route has yet another point.                    *)
LEMMA AdvanceKeeps ==
  ASSUME GridInv, Advance
  PROVE  GridInv'
<1> DEFINE g == Grid
<1>1. CASE Len(path) # MaxSmoothed
  BY <1>1, AdvanceKeepsPoint
<1>2. CASE Len(path) = MaxSmoothed
  <2>1. /\ pc = "advance" /\ anchor < Len(rawPath) /\ pc' = "done" /\ outcome' = "smoothed_path"
        /\ UNCHANGED <<algorithm, work, distance, parent, closed, open, expansions,
                       rawPath, path, anchor, route>>
    BY <1>2 DEF Advance, Return
  <2>2. WorkFits' /\ Grid' = g /\ work' # <<>>
    BY <2>1, GridStays
  <2>3. /\ Playable(g) /\ Settles(g, route, FreeOf(g))
        /\ RouteFits(g, route, rawPath)
        /\ SmoothFits(g, route, rawPath, path, anchor)
    BY <2>1 DEF GridInv, Planning
  <2>4. WorkspaceFits'
    BY <2>1 DEF GridInv, WorkspaceFits
  <2> HIDE DEF g
  <2>5. rawPath # <<>> /\ Len(rawPath) > MaxSmoothed
    <3>1. CASE rawPath = <<>>
      <4>1. Len(rawPath) = 0 /\ anchor = 1
        BY <2>3, <3>1 DEF SmoothFits
      <4> QED BY <2>1, <4>1
    <3>2. CASE rawPath # <<>>
      <4>1. rawPath \in Seq(FreeOf(g)) /\ anchor \in 1 .. Len(rawPath) /\ Len(path) \in 1 .. anchor
        BY <2>3, <3>2 DEF SmoothFits, RouteFits, Walk
      <4>2. Len(rawPath) \in Nat
        BY <4>1
      <4> QED BY <1>2, <2>1, <3>2, <4>1, <4>2, PlannerAssumption
    <3> QED BY <3>1, <3>2
  <2>6. OutcomeFits(outcome', g, route', rawPath', path', anchor')
    BY <2>1, <2>3, <2>5 DEF OutcomeFits
  <2> QED BY <2>1, <2>2, <2>3, <2>4, <2>6 DEF GridInv
<1> QED BY <1>1, <1>2

LEMMA PublishRouteKeeps ==
  ASSUME GridInv, Publish
  PROVE  GridInv'
<1> DEFINE g == Grid
<1>1. /\ pc = "advance" /\ anchor >= Len(rawPath) /\ pc' = "done" /\ outcome' = "ok"
      /\ UNCHANGED <<algorithm, work, distance, parent, closed, open, expansions, rawPath,
                     path, anchor, route>>
  BY DEF Publish, Return
<1>2. WorkFits' /\ Grid' = g /\ work' # <<>>
  BY <1>1, GridStays
<1>3. /\ Playable(g) /\ Settles(g, route, FreeOf(g))
      /\ RouteFits(g, route, rawPath)
      /\ SmoothFits(g, route, rawPath, path, anchor)
  BY <1>1 DEF GridInv, Planning
<1>4. WorkspaceFits'
  BY <1>1 DEF GridInv, WorkspaceFits
<1> HIDE DEF g
<1>5. OutcomeFits(outcome', g, route', rawPath', path', anchor')
  BY <1>1, <1>3 DEF OutcomeFits
<1> QED BY <1>1, <1>2, <1>3, <1>4, <1>5 DEF GridInv

LEMMA NextGridKeeps ==
  ASSUME GridInv, NextGrid
  PROVE  GridInv'
<1>1. /\ pc = "done" /\ work' = Tail(work) /\ pc' = "ready"
      /\ UNCHANGED <<distance, parent>>
  BY DEF NextGrid
<1>2. WorkFits'
  <2>1. PICK S : work \in Seq(S) /\ \A g \in S : Plain(g)
    BY DEF GridInv, WorkFits
  <2>2. work # <<>>
    BY <1>1 DEF GridInv
  <2>3. work' \in Seq(S)
    BY <1>1, <2>1, <2>2
  <2> QED BY <2>1, <2>3 DEF WorkFits
<1>3. WorkspaceFits' /\ ~ Planning'
  BY <1>1 DEF GridInv, WorkspaceFits, Planning
<1> QED BY <1>1, <1>2, <1>3 DEF GridInv

LEMMA PlannerStarts ==
  ASSUME PlannerInit
  PROVE  GridInv
<1>1. pc = "ready" /\ work \in Workloads
  BY DEF PlannerInit
<1>2. WorkFits
  <2> DEFINE S == {work[i] : i \in DOMAIN work}
  <2>1. work \in Seq(S)
    BY <1>1, PlannerAssumption
  <2>2. \A g \in S : Plain(g)
    BY <1>1, PlannerAssumption DEF Plain
  <2> QED BY <2>1, <2>2 DEF WorkFits
<1>3. WorkspaceFits
  BY PlannerAssumption DEF PlannerInit, WorkspaceFits
<1> QED BY <1>1, <1>2, <1>3 DEF GridInv, Planning

(* The invariant of the planner holds in every state: of grids planned one after the
   other on one workspace, with either algorithm.                            *)
THEOREM GridInvariantHolds == PlannerSpec => []GridInv
<1>1. ASSUME GridInv, [PlannerNext]_plannerVars
      PROVE  GridInv'
  <2>1. CASE UNCHANGED plannerVars
    <3>1. /\ UNCHANGED <<algorithm, work, distance, parent, closed, open, expansions>>
          /\ UNCHANGED <<rawPath, path, anchor, pc, outcome, route>>
      BY <2>1 DEF plannerVars
    <3>2. Grid' = Grid /\ (WorkFits' <=> WorkFits) /\ (WorkspaceFits' <=> WorkspaceFits)
          /\ (Planning' <=> Planning)
      BY <3>1 DEF Grid, WorkFits, WorkspaceFits, Planning
    <3> QED BY <1>1, <3>1, <3>2 DEF GridInv
  <2> QED
    BY <1>1, <2>1, StartKeeps, SkipStaleKeeps, ExpandKeeps, EndSearchKeeps, TraceKeeps,
       BeginSmoothingKeeps, AdvanceKeeps, PublishRouteKeeps, NextGridKeeps DEF PlannerNext
<1> QED BY PlannerStarts, <1>1, PTL DEF PlannerSpec
------------------------------------------------------------------------------
(* What the properties of GridPlanner say, from the invariant.                   *)

LEMMA SettledWhileSearching ==
  ASSUME GridInv
  PROVE  SearchIsSettled
<1> SUFFICES ASSUME pc = "search" PROVE SearchIsSettled
  BY Zenon DEF SearchIsSettled
<1> DEFINE g == Grid
<1>1. /\ Playable(g) /\ Settles(g, route, FreeOf(g))
      /\ Chains(g, route, distance, parent, closed)
      /\ Frontier(algorithm, g, distance, closed, open)
      /\ HeapFits(g, closed, open, expansions)
  BY DEF GridInv, Planning
<1>2. /\ Cells = CellsOf(g) /\ \A c : Neighbors(c) = Near(g, c)
      /\ \A c, d : Entry(c, d) = EntryOn(algorithm, g, c, d)
  BY SameGround DEF Entry, EntryOn
<1>3. IsFiniteSet(CellsOf(g)) /\ CellsOf(g) \subseteq 0 .. MaxCells - 1
  BY <1>1, CellsFit
<1>4. Grid.start = g.start
  OBVIOUS
<1> HIDE DEF g
<1>5. \A c \in closed \cap Cells : distance[c] = route[c]
  BY <1>1, <1>2 DEF Chains
<1>6. \A c \in Cells : distance[c] # Inf =>
        /\ distance[c] >= route[c]
        /\ c = Grid.start \/ (/\ parent[c] \in closed \cap Neighbors(c)
                              /\ distance[c] = distance[parent[c]] + 1)
        /\ c \in closed \/ Entry(c, distance[c]) \in open
  <2> TAKE c \in Cells
  <2> HAVE distance[c] # Inf
  <2>1. /\ route[c] <= distance[c]
        /\ c = g.start \/ (parent[c] \in closed \cap Near(g, c) /\ distance[c] = distance[parent[c]] + 1)
    BY <1>1, <1>2 DEF Chains
  <2>2. distance[c] \in Nat /\ route[c] \in Nat
    <3>1. distance \in [0 .. MaxCells - 1 -> Nat]
      BY DEF GridInv, WorkspaceFits
    <3> QED BY <1>1, <1>2, <1>3, <3>1 DEF Settles
  <2>3. c \in closed \/ Entry(c, distance[c]) \in open
    BY <1>1, <1>2 DEF Frontier
  <2> QED BY <1>2, <1>4, <2>1, <2>2, <2>3
<1>7. Cardinality(open) + Cardinality(closed \cap Cells) <= 4 * Cardinality(Cells) + 1
  <2> DEFINE C == closed \cap CellsOf(g)
  <2>1. IsFiniteSet(C) /\ Cardinality(C) <= Cardinality(CellsOf(g))
    BY <1>3, FS_Subset
  <2>2. Cardinality(C) \in Nat /\ Cardinality(CellsOf(g)) \in Nat
    BY <1>3, <2>1, FS_CardinalityType
  <2>3. IsFiniteSet(open) /\ Cardinality(open) <= 3 * Cardinality(C) + 1
    BY <1>1 DEF HeapFits
  <2>4. Cardinality(open) \in Nat
    BY <2>3, FS_CardinalityType
  <2> HIDE DEF C
  <2>5. Cardinality(open) + Cardinality(C) <= 4 * Cardinality(CellsOf(g)) + 1
    BY <2>1, <2>2, <2>3, <2>4
  <2> QED BY <1>2, <2>5 DEF C
<1> QED BY <1>5, <1>6, <1>7 DEF SearchIsSettled

(* While a search goes on, closed cells have their shortest distance, every       *)
(* distance is along a chain of closed cells and no shorter than the shortest, what *)
(* is still to be expanded is in the heap, and the heap fits; whatever grids were   *)
(* planned before.                                                             *)
THEOREM SearchAlwaysSettled == PlannerSpec => []SearchIsSettled
BY GridInvariantHolds, SettledWhileSearching, PTL

LEMMA ClearWhenPublished ==
  ASSUME GridInv
  PROVE  FinalPathIsClear
<1> SUFFICES ASSUME pc = "done", outcome = "ok", rawPath # <<>> PROVE FinalPathIsClear
  BY Zenon DEF FinalPathIsClear
<1> DEFINE g == Grid
<1>1. OutcomeFits(outcome, g, route, rawPath, path, anchor)
  BY DEF GridInv, Planning
<1>2. /\ SmoothFits(g, route, rawPath, path, anchor) /\ anchor >= Len(rawPath)
      /\ Walk(g, route, rawPath)
  BY <1>1 DEF OutcomeFits, RouteFits
<1>3. /\ rawPath \in Seq(FreeOf(g)) /\ Len(rawPath) \in Nat /\ Len(rawPath) >= 1
      /\ rawPath[Len(rawPath)] = g.goal
  BY <1>2 DEF Walk
<1>4. /\ anchor \in 1 .. Len(rawPath)
      /\ path \in Seq(FreeOf(g)) /\ Len(path) \in 1 .. anchor
      /\ path[1] = g.start /\ path[Len(path)] = rawPath[anchor]
      /\ \A i \in 1 .. Len(path) - 1 : LineOn(g.width, path[i], path[i + 1]) \subseteq FreeOf(g)
      /\ \A i, j \in 1 .. Len(path) : i < j => route[path[i]] < route[path[j]]
  BY <1>2 DEF SmoothFits
<1>5. anchor = Len(rawPath)
  BY <1>2, <1>3, <1>4
<1>6. DOMAIN path = 1 .. Len(path) /\ Len(path) >= 1 /\ Head(path) = path[1]
  BY <1>3, <1>4
<1>7. Last(path) = g.goal
  BY <1>3, <1>4, <1>5 DEF Last
<1>8. \A i \in 1 .. Len(path) - 1 : LineIsClear(path[i], path[i + 1])
  BY <1>4, SameLines, SameGround DEF LineIsClear
<1>9. Len(path) <= Len(rawPath)
  BY <1>3, <1>4, <1>5
<1> QED BY <1>4, <1>6, <1>7, <1>8, <1>9 DEF FinalPathIsClear

(* The final path leads from the start to the goal over free cells only, never back, *)
(* and is no longer than the raw one: what path_metrics would find.                *)
THEOREM FinalPathsAlwaysClear == PlannerSpec => []FinalPathIsClear
BY GridInvariantHolds, ClearWhenPublished, PTL

(* A square holds whoever holds it in theirs.                                     *)
LEMMA OpenGroundIsFree ==
  ASSUME NEW g, Plain(g), g.radius <= 1
  PROVE  OpenGround(g) \subseteq FreeOf(g)
<1> SUFFICES ASSUME NEW c \in OpenGround(g), ~ (c \in FreeOf(g)) PROVE FALSE
  OBVIOUS
<1>1. c \in CellsOf(g) /\ \A n \in Box(g, c, 1) : g.data[n] = 0
  BY DEF OpenGround
<1>2. PICK o \in Occupied(g) : c \in Box(g, o, g.radius)
  BY <1>1 DEF FreeOf
<1>3. o \in CellsOf(g) /\ (g.data[o] < 0 \/ g.data[o] >= 50)
  BY DEF Occupied
<1>4. \A d \in CellsOf(g) : Column(g, d) \in Int /\ Row(g, d) \in Int
  BY PlacesAreNumbers
<1>5. /\ Abs(Column(g, c) - Column(g, o)) <= g.radius
      /\ Abs(Row(g, c) - Row(g, o)) <= g.radius
  BY <1>2 DEF Box
<1>6. /\ Abs(Column(g, o) - Column(g, c)) <= 1 /\ Abs(Row(g, o) - Row(g, c)) <= 1
  BY <1>1, <1>3, <1>4, <1>5 DEF Abs, Plain
<1>7. g.data[o] = 0
  BY <1>1, <1>3, <1>6 DEF Box
<1> QED BY <1>3, <1>7

LEMMA ExactWhenDone ==
  ASSUME GridInv
  PROVE  PlanIsExact
<1> SUFFICES ASSUME pc = "done", Planning PROVE PlanIsExact
  BY Zenon DEF PlanIsExact, Planning
<1> DEFINE g == Grid
           shortest == route[g.goal]
<1>1. /\ Playable(g) /\ Settles(g, route, FreeOf(g))
      /\ OutcomeFits(outcome, g, route, rawPath, path, anchor)
  BY DEF GridInv
<1>2. /\ Plain(g) /\ g.start \in FreeOf(g) /\ g.goal \in FreeOf(g)
      /\ FreeOf(g) \subseteq CellsOf(g) /\ IsFiniteSet(FreeOf(g)) /\ Cardinality(FreeOf(g)) <= MaxCells
  BY <1>1, CellsFit DEF Playable
<1>3. /\ \A c \in CellsOf(g) : route[c] \in Nat
      /\ route[g.start] = 0
  BY <1>1, RouteFacts
<1>4. shortest \in Nat
  BY <1>2, <1>3
<1>5. /\ outcome \in {"ok", "raw_path", "search_workspace", "smoothed_path"}
      /\ outcome \in {"ok", "smoothed_path"} => RouteFits(g, route, rawPath)
      /\ outcome = "smoothed_path" => rawPath # <<>> /\ Len(rawPath) > MaxSmoothed
      /\ outcome = "raw_path" => shortest # Inf /\ shortest >= MaxPath
      /\ outcome = "search_workspace" => Cardinality(FreeOf(g)) > MaxExpansions
  BY <1>1 DEF OutcomeFits
<1>6. outcome = "ok" /\ rawPath = <<>> => shortest = Inf
  BY <1>5 DEF RouteFits
<1>7. ASSUME outcome \in {"ok", "smoothed_path"}, rawPath # <<>>
      PROVE  /\ Len(rawPath) = shortest + 1 /\ Len(rawPath) <= MaxPath /\ shortest # Inf
             /\ Head(rawPath) = g.start /\ Last(rawPath) = g.goal
             /\ \A i \in 1 .. Len(rawPath) - 1 :
                  rawPath[i + 1] \in Near(g, rawPath[i]) \cap FreeOf(g)
  <2>1. /\ rawPath \in Seq(FreeOf(g)) /\ Len(rawPath) <= MaxPath /\ shortest # Inf
        /\ \A i \in 1 .. Len(rawPath) : route[rawPath[i]] + (Len(rawPath) - i) = shortest
        /\ \A i \in 1 .. Len(rawPath) - 1 : rawPath[i + 1] \in Near(g, rawPath[i])
        /\ rawPath[Len(rawPath)] = g.goal /\ rawPath[1] = g.start
    BY <1>5, <1>7 DEF RouteFits, Walk
  <2>2. Len(rawPath) \in Nat /\ Len(rawPath) >= 1 /\ Head(rawPath) = rawPath[1]
    BY <1>7, <2>1
  <2> HIDE DEF g, shortest
  <2>3. 0 + (Len(rawPath) - 1) = shortest
    <3>1. 1 \in 1 .. Len(rawPath)
      BY <2>2
    <3> QED BY <1>3, <2>1, <3>1
  <2>4. Len(rawPath) = shortest + 1
    BY <1>4, <2>2, <2>3
  <2>5. Last(rawPath) = g.goal
    BY <2>1 DEF Last
  <2>6. \A i \in 1 .. Len(rawPath) - 1 : rawPath[i + 1] \in FreeOf(g)
    <3> TAKE i \in 1 .. Len(rawPath) - 1
    <3>1. i + 1 \in 1 .. Len(rawPath)
      BY <2>2
    <3> QED BY <2>1, <2>2, <3>1
  <2> QED BY <2>1, <2>2, <2>4, <2>5, <2>6
<1>8. outcome = "raw_path" <=> shortest # Inf /\ shortest >= MaxPath /\ outcome # "search_workspace"
  <2>1. CASE outcome \in {"ok", "smoothed_path"}
    <3>1. CASE rawPath = <<>>
      BY <1>5, <1>6, <2>1, <3>1
    <3>2. CASE rawPath # <<>>
      <4>1. ~ (shortest >= MaxPath)
        BY <1>4, <1>7, <2>1, <3>2, PlannerAssumption
      <4> QED BY <2>1, <4>1
    <3> QED BY <3>1, <3>2
  <2>2. CASE outcome \notin {"ok", "smoothed_path"}
    BY <1>5, <2>2
  <2> QED BY <2>1, <2>2
<1>9. ASSUME g.radius <= 1, g.start \in OpenGround(g)
      PROVE  shortest <= RoutesOn(g, OpenGround(g))[g.goal]
  <2>1. OpenGround(g) \subseteq FreeOf(g)
    BY <1>2, <1>9, OpenGroundIsFree
  <2>2. /\ IsFiniteSet(OpenGround(g)) /\ Cardinality(OpenGround(g)) <= Cardinality(FreeOf(g))
    BY <1>2, <2>1, FS_Subset
  <2>3. Cardinality(OpenGround(g)) <= MaxCells
    <3>1. Cardinality(OpenGround(g)) \in Nat /\ Cardinality(FreeOf(g)) \in Nat
      BY <1>2, <2>2, FS_CardinalityType
    <3> QED BY <1>2, <2>2, <3>1, PlannerAssumption
  <2>4. OpenGround(g) \in SUBSET CellsOf(g) /\ FreeOf(g) \in SUBSET CellsOf(g)
    BY <1>2, <2>1
  <2> DEFINE R == RoutesOn(g, OpenGround(g))
  <2>5. Settles(g, R, OpenGround(g))
    BY <1>2, <1>9, <2>2, <2>3, <2>4, RoutesSettle
  <2> HIDE DEF g, R
  <2>6. \A c \in CellsOf(g) : route[c] <= R[c]
    BY <1>1, <1>2, <2>1, <2>4, <2>5, MoreCellsNoFarther
  <2> QED BY <1>2, <2>6 DEF R
<1>10. /\ Free = FreeOf(g) /\ ItineraryFree = OpenGround(g)
       /\ \A c : Neighbors(c) = Near(g, c)
       /\ RouteDistances(ItineraryFree) = RoutesOn(g, OpenGround(g))
  BY SameGround, SameRoutes
<1>11. /\ outcome # "search_open_set"
       /\ outcome = "smoothed_path" => rawPath # <<>> /\ Len(rawPath) > MaxSmoothed
  BY <1>5
<1> QED BY <1>5, <1>6, <1>7, <1>8, <1>9, <1>10, <1>11 DEF PlanIsExact

(* The planner finds a route if and only if there is one that fits, always a        *)
(* shortest one, whichever the algorithm and whatever an earlier grid left in the    *)
(* workspace; its heap never runs full; and a leg of the itinerary always has a      *)
(* route, no longer than the itinerary's own.  The smoother refuses only a route     *)
(* of more points than its own limit.                                              *)
THEOREM PlansAlwaysExact == PlannerSpec => []PlanIsExact
BY GridInvariantHolds, ExactWhenDone, PTL
==============================================================================
