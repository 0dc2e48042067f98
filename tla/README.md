# UnitCompose in TLA+

UnitCompose is a single-threaded, embeddable framework: a host declares Units
with typed ports, connects them through named Resources into a Module, and runs
the Module again and again on storage that was planned when it was built. This
directory holds specifications of what makes that correct, TLC configurations
that check them on small instances, and proofs that hold for every instance.
Source paths below are relative to `src/`; `core` abbreviates
`crates/unit-compose-core/src`.

## 1. The system

### Components

| Component | State it keeps | Operations | What makes it correct |
| --- | --- | --- | --- |
| Graph front end (`core/graph.rs`: `resolve`, `compile`, `into_dense`) | none; builds values | resolve descriptors, find producers and consumers, order the Units, report a cycle, turn ids into indices | one producer per Resource, the order respects every dependency and does not depend on source order, an accepted graph passes `into_dense`, a reported cycle is one |
| Storage planning (`core/storage.rs`) | slots and their live ranges while planning | live ranges, first-fit assignment, size estimate | no two live Resources share a slot, sharing only between compatible representations, the estimate covers every moment of a run |
| Module runtime (`core/runtime.rs`: `PreparedRuntime`, `PreparedExecutable`, `RuntimeStore`, `RegistrationInvocation`) | publication flags, slot owners, published and pending side of each slot, poison | run: check, reset, one Unit after the other, publish its group or stop | whole groups or nothing, no stale or foreign contents, write-once, nothing visible after a failure, poison for good |
| Module host interface (`core/runtime.rs`: `Module`, `ModuleInputs`, `HostOutput`) | bound inputs, host-owned outputs and their validity | bind, clear, run, run_profiled, run_into, output | the host sees exactly the outputs of the latest successful run, from this Module's plan |
| Run diagnostics (`core/lib.rs`: `RunReport`, `UnitExecutionRecorder`, probes, `DiagnosticSink`) | bounded event and timing arrays, dropped counters, open probes | record, replace, measure, begin, finish | diagnostics tell what the run came to, which is what the host got unless `run_into` could not deliver; bounds hold, every instrumented domain is watched |
| Registries and build (`core/graph.rs`: `UnitRegistry`; `core/lib.rs`: `ResourceRegistry`, `AllocationCapability`, `BuildOptions`; `core/runtime.rs`: `build_definition`, `allocate_slots`) | registered descriptors, factories, executors, the plan token counter | register, resolve, decode, construct, build | a Module fits the registry that built it, a failed build leaves nothing behind, tokens are unique, strict builds only on evidence |
| Prepared input plan (`core/storage.rs`: `PreparedInputPlan`) | prepared input specs | validate supplied inputs | accepts exactly what was prepared, stable error order |
| YAML front end (`crates/unit-compose-yaml/src`) | parser container stack, span index | parse, normalize, resolve, find bounds | the tree is what was read, limits, duplicate and alias rejection, the meaning does not depend on the order of the text, precedence of bounds, errors point into the document |
| Debug adapters (`crates/unit-compose-debug/src`) | enabled flag, last error, bounded event buffer | forward, disable, record, correct_last, clear | a failing adapter never fails a run, corrections only touch retained events |
| Rerun adapter (`crates/unit-compose-debug-rerun/src`) | run index, unit names, sticky timelines of the recording | log map, frame, pose, snapshot, describe | runs are told apart, a failure halfway is not covered up |
| Inspection (`core/inspection.rs`, text output of `core/graph.rs`) | none | render text, dot, mermaid | layout only |
| Allocation test harness (`crates/unit-compose-core/allocation-test-harness`) | thread-local active flag and counters | begin, finish, count | counts what its thread did inside a measurement |
| Example: navigation planning (`examples/navigation-planning/src`) | planner workspace, prepared Module, host's active Module, episode tick and trail | decode, inflate, A*/Dijkstra, smooth, activate, reload, run an episode | optimal clear paths, bounded open list, old Module kept when a reload fails, the display shows the run at hand |
| Example: lidar SLAM (`examples/lidar-slam/src`) | map and pose private to a Unit, frame order, last snapshot | prepare, estimate, publish | private state against published state on failure, edges of the window, samples within limits |
| Examples: image and point-cloud registration (`examples/image-registration`, `examples/point-cloud-registration`) | host's copy of the last result | pipelines of six and of four Units | a result is of one pair, lists and flags agree in length |

### How they interact

Building is a chain of values: YAML text -> `ParsedModule` -> `ResolvedModule`
-> `CompiledGraph` -> `StoragePlan` and `DenseGraph` -> `PreparedRuntime` inside
a `Module`. Each stage either fails, leaving nothing, or hands an immutable value
to the next. Running is a chain of calls: the host binds inputs with handles
that carry the plan token of a graph, calls the Module, the Module calls probes,
the runtime and the sink, the runtime calls each Unit's executor, and the
executor calls back into the store through a `RegistrationInvocation`. No component
starts a thread. A host may use several, and then two things are shared or told
apart by thread: the process-wide counter that plan tokens come from, and the
counters of the allocation harness, which are thread-local.

Around a run, a sink records its events, and a debug adapter, behind a controller
that decides what a failure means, writes snapshots of it to a viewer row by row.
The examples are hosts: they build, warm up and replace Modules, and keep copies of
outputs after the views are gone.

### What is hard here

Foreign code runs in the middle of the loop. A Unit may write its outputs in any
order, leave after any of them by an error of its choice or by unwinding, or
forget one; a later Unit or a later run may use the same slot. The outcome of a
call is decided in several places (inputs, probes, poison, the Unit, the output
set, the probes again) and recorded in several others (flags, owners, poison,
report, sink, host target), all of which have to agree. Storage reuse makes each
read depend on the graph, the order and the live ranges being right together.
Units with state of their own have changed it before they know whether their run
succeeds, and a host that reloads has two Modules and two sets of handles for a
while. On the way in, a document can be wrong in many places at once and a registry
can be filled in any order, partly, or differently from the one that resolved.
`PROJECT.json` lists these hazards at their lines.

## 2. The modules

| Module | Models | Correspondence |
| --- | --- | --- |
| `ExecutionPlan` | the immutable plan: graph in execution order, slots, capacities, live ranges | constants; a Unit is its position in `execution_order`; the two assumptions are what the builders check or establish |
| `ModuleRuntime` | one prepared Module executing runs | one variable per field of `RuntimeStore` and `PreparedRuntime` plus the control point (`pc`, `pos`); one action per step of `Module::execute`, `run_with_inputs_timed`, `PreparedExecutable::run` and per effective write |
| `ModuleHost` | the same Module with everything `Module::execute` does around a run and everything the host does between runs | every action is an action of `ModuleRuntime` joined with its effect on reports, probes, sinks, targets; `outcome` is what the run came to, `returned` what the call returned to the host |
| `ModuleContract` | abstract: outputs of the latest successful run or none, poison, calls that return Ok, valid targets | `ModuleHost` is shown to implement it |
| `StoragePlanner` | `plan_storage` and what `allocate_slots` and `build` do with its plan | one action per way an iteration of the planner's loop can end (skip, fail, reuse a slot, open one), then the checks of the builder; the loop variable is `next`, slots and assignments are the fields of `StoragePlan` |
| `GraphCompiler` | `ResolvedModule::compile` and `into_dense` | one action per iteration of each loop of `compile`, of `stable_topological_order` and of the search; a frame of `stack` is a call of `visit` |
| `UnitRegistry` | `UnitRegistry`, `load`, `AllocationCapability`, `build_definition` and the token counter | one action per registration call, for loading, and for the three parts of a build: `Begin` (checks and borrow), `Advance` (the counter), `Assemble` (the Units and the Module); builders interleave |
| `PreparedInputs` | `PreparedInputPlan::new` and `validate` | two actions; the verdict is computed in the order of the code's checks |
| `YamlSyntax` | the event loop of `parse` and its key check | one action per kind of event; `stack` is the stack of containers. A node is named by the position of its first event, as its span is in the code, and a container holds the names of what it owns |
| `YamlDefinition` | normalization, `resolve`, requirements | the checks of a document as one sequence in the order of the code; the first that fails is the answer. `Whole` puts together what the code holds of a node: its entries and its JSON |
| `BoundedRunSink` | `BoundedRunSink` | one action per method |
| `RerunAdapter` | the Rerun adapter | an operation is the list of rows it logs; `LogRow` and `Fail` take it on by one |
| `AdapterController` | `AdapterController` around that adapter | actions of `RerunAdapter` joined with the failure policy |
| `NavigationEpisode` | `run_episode` and the Rerun route of the navigation example | the second host of the adapter: frame, run and poses of each leg with tick and trail |
| `GridPlanner` | decoder, inflation, planner and smoother on one grid | one action per turn of each loop; workspace and heap are carried over to the next grid |
| `NavigationHost` | `PreparedNavigation` and `NavigationHost` | checked and unchecked runs, build, activate and reload; a Module run is an outcome of `ModuleContract` |
| `LidarSlam`, `Sampling` | the three LiDAR Units and the sampling of points | one action per Unit; slamwich is a choice of what it may answer |
| `ImageRegistration`, `CloudRegistration` | the two registration examples | one action per Unit; the vision and ICP libraries are choices |
| `AllocationProbe` | the counting allocator and `GlobalProbe` | one action per allocator call, begin and finish, by thread |
| `Module_proofs` | no state; theorems | about `ModuleRuntime` and `ModuleHost` |
| `StoragePlanner_proofs`, `GraphCompiler_proofs` | no state; theorems | each about the module it is named after |
| `Loading_proofs` | no state; theorems | about `UnitRegistry` and `PreparedInputs` |
| `Yaml_proofs` | no state; theorems | about `YamlSyntax` and `YamlDefinition` |
| `Observing_proofs` | no state; theorems | about `BoundedRunSink`, `AdapterController` and `NavigationEpisode` |
| `Examples_proofs` | no state; theorems | about `NavigationHost`, `LidarSlam`, `ImageRegistration`, `CloudRegistration`, `AllocationProbe` and `GridPlanner` |
| `NaturalBounds` | no state; lemmas the others share | least and greatest elements, induction over naturals, how many elements a sequence has, sums over finite sets, functions defined by recursion |
| `MCPipeline`, `MCModuleRuntime`, `MCModuleHost`, `MCStoragePlanner`, `MCGraphCompiler`, `MCUnitRegistry`, `MCPreparedInputs`, `MCYamlDefinition`, `MCNavigation`, `MCLidarSlam` | concrete plans, sources, documents, grids and values of the constants for TLC | |
| `MCObserving`, `MCLoading`, `MCExamples` | sums of components that share no variable (section 3) | |

Three machines are joined by `ExecutionPlan`. `GraphCompiler` and
`StoragePlanner` instantiate it with what they produced and have
`GraphWellFormed` and `StorageWellFormed` as an invariant of their final states;
`ModuleRuntime` extends it and assumes both. What one stage guarantees is
literally what the next one relies on. `AdapterController` and
`NavigationEpisode` extend `RerunAdapter` and join their steps with its own;
`NavigationHost` uses of a run what `ModuleContract` promises.

Choices that a reader of the code should know:

- Contents are abstracted to items `[resource, run]`: for which resource and in
  which run an element was written. This is exactly what freshness, aliasing and
  atomicity distinguish; values are not modelled.
- A write that the code refuses (second write of a value, push beyond a
  rejecting capacity, wrong port, wrong type) returns an error and changes
  nothing; the Unit may ignore or forward that error. It is therefore not a
  step, and forwarding is covered by `UnitFails`.
- Types of bindings are not modelled: handles are typed and checked against the
  graph when they are made, so a mistyped binding needs a handle of another
  plan, which `InputsValid` refuses before it looks at types.
- `Module::execute` checks the inputs and `run_with_inputs_timed` checks them
  again; the second check cannot fail and is not a separate step.
- An error is a kind and whether it is wrapped in `RunError::Execution`, because
  `run_with_inputs_timed` looks at the outer error and `error_event_kind` at the
  root cause.
- A call may return an error although its run succeeded: `run_into` with a handle
  that does not fit, or whose copy closure fails (`RefuseHandle`, `CopyOut`). Report
  and sink say `Success` then, and the outputs stay visible; the target is invalid.
  `DiagnosticsTellOutcome` states this exception and no other. The copy closure is
  taken to answer with any error a Unit may answer with; that it panics is left out.
- Names of Units and resources are numbers, because the code depends on their
  order only (ordered maps and sets). Unit 0 is the Module as a producer.
- The inner loop over the inputs of one Unit is one step that finds the first
  faulty input; nothing outside can see the loop half done, since an error
  discards everything.
- The planner's sizes are naturals with one bound `MaxSize` for `usize::MAX`.
- `allocate_slots` has a path without a plan (one slot per resource) that only
  tests take; it is not modelled.
- The host cannot call a Module while it holds a view of an output (the borrow
  checker excludes it, see the `compile_fail` example in `Module::output`), so
  calls start from `idle` only.
- The recording is a set of rows that carry the call that logged them and the time
  of both timelines, because `set_time_sequence` is sticky: a row is shown at
  whatever time was last set, by whichever operation.
- A document is a tree of nodes and strings are members of a small set with their
  order (`Rank`), because the code compares and sorts them only. The parser
  (saphyr) is external: it emits balanced events or stops at a syntax error.
- Configuration is the set of its fields and, for each set that is accepted, the
  capacities the Unit resolves from it.
- A heap entry of the planner is its distance, heuristic and cell. Distances, the
  heuristic and the order of the heap are translated, ties included; a workspace
  keeps the cells of larger grids until they are reset, as in the code.
- External libraries (slamwich, ORB, RANSAC, ICP, the Rerun SDK, the global
  allocator) are choices among what the calling code accepts from them: success
  with any result of the right shape, failure, and for slamwich a panic. Points,
  scans, images and matches are represented by their places and counts.

## 3. The runs

| Run | Question | Bounds |
| --- | --- | --- |
| `runtime` | Is publication atomic, fresh, write-once and silent after failures, and do calls return? | three Units, four stored resources, three slots of the three kinds, a growing buffer reused; prepared capacities 1 and 2, buffers up to three elements; two runs; handler errors: recoverable, fatal, overflow, nested fatal, nested allocation violation |
| `host` | Do calls, probes, reports, sinks and `run_into` keep the contract? | one instrumented and one certified domain, a further one of best-effort support, probe lists valid, missing, doubled and undeclared, two kept timings for three Units; handles of this plan and of another, every answer of a copy closure |
| `planner` | Do live resources keep apart, is the plan accepted, is the estimate what is allocated, do failures name the first culprit? | four resources over three Units, six lifetimes, three registered types of which two share a representation, missing types and requirements, sizes up to 15 so that single buffers and sums overflow |
| `compiler` | Is the order right and canonical, the verdict exact, the reported cycle a cycle, does `into_dense` agree, are planner and runtime given one graph? | all dependency relations on three Units in all source orders; all relations on four Units that read one or two each; a sound Module of two Units spoiled in one or several ways at once |
| `loading` | Is the tree what was read, does a definition mean the same in every order, which bound decides, do Modules fit their registry, are tokens unique under concurrent builds, which inputs are accepted? | every event stream of up to nine events and depth two; more than a hundred documents, most with one element changed; nine sets of bounds; two registries filled in every order from fifteen calls, two builds at once, certificates from two sources; no input, or up to two with any fault |
| `observe` | Does the sink keep the first events and correct the right one, does the controller disable for good and in silence, does the display show the run at hand, does an episode end? | a sink of two events for four; three controller calls and an episode of three legs with paths of one, two and four points, trail of three, a failure at any row |
| `examples` | Are paths shortest and clear and is the heap bound enough, are copies of one run, is a reload all or nothing, does the SLAM snapshot tell its history, do registrations agree, are measurements exact? | all 3x3 grids with up to five occupied cells; pairs of grids, so that one workspace serves a large and a small grid; grids that A* improves, that inflation changes, that do not fit; a smoother with a limit below the planner's; three Modules and four runs of a host; five LiDAR frames refused for every reason; lists and clouds around every limit; two threads with nested measurements |
| `nested_fatal`, `poison_report`, `panic_error`, `growth_peak`, `mismatch_path` | Where the code does not do what its documents say (section 6) | as above |

`observe`, `loading` and `examples` check several components at once. These share no
variable, so a property of one holds in their product exactly if it holds while the
others stay in their initial states; the variable `part` says which of them moves,
and TLC explores the sum of the state spaces instead of the product. In `observe`,
controller and episode are two hosts of one adapter, each with an adapter of its
own, and their invariants are conditioned on the part.

Two runs are enough for anything one run can leave behind for another, because
`StartRun` resets the whole store: only poison and the host's own state survive
a third run, and both are covered by the second. Three Units are the fewest with
a resource that dies before the run ends, so that a slot is reused, next to one
that stays live. A timing capacity of two lets a three-Unit run drop a timing.
The plan itself is fixed in these runs; the proofs cover all plans.

The planner looks at pairs of resources (overlap) and at the tenants of one slot;
four resources let three share a slot while a fourth overlaps some of them, and
three Units give every relation between two ranges. For the order, three Units
have every cycle and tail in every order of names; four add a cycle reached from
two sides and a cycle with a tail on both ends, which the search must not report
whole.

Nine events hold a mapping in a sequence in a mapping with a pending key on each
level, which is all that the stack can confuse, and two collections too many for
the depth. Two builders are the fewest that can read the token counter in turn, and
the second registry is enough to differ from the first in ports, in their order, in
the configuration type and in what it lacks. An episode of three legs shows a leg
between two others, and a path of four points is longer than the trail. Grids of
three by three have obstacles to walk round on both sides; the detours and the four
by four grids were chosen because A* improves an open cell on them, leaving a stale
entry, or because inflation closes or swallows a cell. Five frames overrun a window
of three keyframes by two. Each limit of the LiDAR and registration examples is met
from below, exactly, and from above.

Deadlock checking is off because the system stops by itself: the bound on runs
is reached, and a poisoned Module has nothing left to do; planning, compiling,
loading and searching end in a result or an error.

Fairness. Inside a call the code is a straight line, so the steps of
`Module::execute` are weakly fair. Units are assumed to return, sooner or later
(weak fairness of `UnitReturns`): the framework cannot force it, and a Unit that
never returns blocks its caller for ever. Nothing is assumed about the host.
Compiling is a plain function: weak fairness of its next step says that a call
that is running goes on. The episode is a loop without waiting, so its next step is
weakly fair in `observe` (`EpisodesEnd`); a failing row is one of the ways on, so
fairness does not exclude failures. All other runs check safety only and assume
nothing.

## 4. What is proved

`Module_proofs` proves of the runtime, for every plan satisfying `GraphAssumption` and
`StorageAssumption`, any set of handler errors and any number of runs:

- `TypeCorrect`;
- `FreshReads`, `AtomicGroups`, `DeclaredInputsAvailable`,
  `VisibleAfterSuccessOnly`, `FlagsAndOwnersAgree`;
- `ReadsStaySafe`, the conjunction that the run `runtime` checks;
- the action properties `PoisonStays` and `PublishedStays`.

None of these is inductive. `RuntimeInv` adds what is missing: while a handler
runs the pending sides of its slots hold only this run's items for these outputs
(`PendingTagged`, or publication could not be fresh); flags, owners and slot
assignment agree in both directions (`OwnersFit`, or a flag could survive the
loss of its slot); a run only goes on with checked inputs and without poison
(`RunChecked`); and what the host may see is decided already while a call is
being closed (`VisibilityDecided`). The argument that carries the proof is about
the plan: outputs of one step never share a slot (`GroupSlotsDistinct`) and a
resource that is still live never shares one with an output of the current step
(`LiveSlotNotWritten`); both follow from the inclusive live ranges.

It proves further, for every plan, evidence, probe list and timing
capacity, that the Module keeps all this in the hands of a host
(`HostReadsStaySafe`), that the report, the sink and the timings tell what the run
came to, which is what the host was returned except for a `run_into` that could not
deliver (`DiagnosticsAreTrue`), that probes watch what they must (`DomainsAreWatched`), and
the safety part of the refinement: `ModuleKeepsContract` says that every step of
`ModuleHost` is a step of `ModuleContract` or changes nothing the contract speaks
of. Every step of the host is a step of `ModuleRuntime` or leaves it alone
(`HostStepRuns`), so `RuntimeInv` carries over. `HostInvariant` adds what the
variables of the host know: the recorder has measured or counted every Unit
launched and holds only successes while the loop goes on (`LaunchedAreMeasured`,
without which a full array could hide which Unit failed); nothing is told before
the end of a call (`ReportFits`); probes are open exactly from the start of a run to
its report (`WatchFits`); and a target is void while a `run_into` is on its way to
fill it (`TargetIsVoid`, or a refused copy would leave an old run valid) and afterwards
valid exactly if the call returned Ok (`TargetTellsAnswer`). The mapping
shows -1, which no contract state has, if the outputs were not all of one run; that
this branch is never taken is `VisibleIsSeen`, from `VisibilityDecided` and
`ReadableIsFresh`.

`StoragePlanner_proofs` proves, for every graph, every set of types and every
requirement: `PlanInv` and `TypeOK`; that resources of one slot are never live at
the same step (`LiveResourcesKeepApart`); that `build` refuses no plan
(`PlansAreAccepted`); and that a finished plan satisfies both assumptions of the
runtime (`RuntimeCanRely`). `PlanInv` says what the loop knows of the slots: whose
live ranges each has recorded, that they are pairwise disjoint, and that capacity
and type of a slot fit all its tenants. The step that matters is `ReuseSlot`: a
range that meets none of the recorded ones is disjoint from every tenant, because
the record is complete. `CostInv` adds the sizes: a slot is charged for its largest
tenant, and the peak is the sum over all slots, which bounds what any step of a run
has live (`EstimateAlwaysExact`, from the lemmas on sums in `NaturalBounds`). A
failure names the first resource in the way of the loop (`FailuresAlwaysNameTheFirst`).

`GraphCompiler_proofs` proves, for every source: `CompileInv` and `TypeOK`;
`OrderRespectsDependencies` and `OrderIsCanonical`; that `into_dense` accepts every
compiled graph (`DenseAgrees`); that a compiled graph is well formed
(`RuntimeCanRely`); and that the planner, which reads producers and consumers of
resources, is given the same graph as the runtime, which reads the ports of the
Units, with everything it assumes of it (`PlannerCanRely`). `CompileInv` states what each loop has built in terms of the
source and of how far the loop got. Its heart is `OrderExact`: an in-degree is the
number of dependencies not yet placed, and the ready set is exactly the Units with
none. The proof of `PlaceUnit` is an argument about cardinalities
(`PlacingCounts`); that the order is complete when its length is the number of
Units is one too (`OrderIsComplete`). `CompileIsAlwaysExact` says that the answer is
right in both directions: an error names a defect the source has, a source that
compiles has none, a cycle reported is a cycle, and a graph is what planner and
runtime rely on. `VerdictInv` carries the verdict: what the
loops have passed has no defect; the stack of `visit` is a path of dependencies, and a
Unit that is finished reaches no cycle, so the search cannot end without one while
Units are left unplaced, for each of them waits for another.

`Observing_proofs` proves, for every capacity and any set of event kinds, that
the sink holds the first events, each with its last correction, and counts exactly
those it does not hold (`SinkKeepsTheFirst`). The invariant `SinkInvariantHolds`
rests on is that the flag of the last event tells whether that event was kept: this
is what stops a correction from reaching an older event. For the controller it
proves, for any number of calls and Units and a failure at any row, that run indices
are not reused after a delivery, that the disable policy keeps the rows of two
snapshots apart, that only the first failure disables (`ControllerKeepsItsPromises`)
and that a disabled adapter is silent (`DisabledMeansSilent`). The invariant relates
three counters, calls, run index and failures, to the rows: under the disable policy
rows of the current index are of the current call, because a failure that could leave
half a snapshot behind lets no further call through. For the episode it proves, for
any number of legs, any path lengths, any trail of at least one pose and a failure at
any row, that a viewer sees the robot on the route of its own leg with its latest
poses behind it (`EpisodeShowsOneLeg`). `EpisodeInvariant` ties each row to a call,
each call to a tick and each tick to one pose of one leg. `ControlledAlways` and
`DisplayedAlways` state both in the sum of parts that the run checks.

`Loading_proofs` proves, for any registries, calls, sources and builders, that
plan tokens are unique (`TokensStayUnique`) and that a Module fits the registry it was
built with for its whole life (`ModulesKeepTheirRegistry`). The first rests on what
builds in progress hold: a token is below the counter from the moment it is taken,
and belongs to one build or one Module. The second rests on registrations that only
grow (`Grows`): ports stay, and a factory or executor that was set stays, so a Module
checked once goes on to fit; and on the order of the two halves, an executor being
accepted only for the type its factory makes. A strict Module rests on evidence
(`StrictRestsOnEvidence`): merging, a fold over the Units, keeps every domain and is
strict only if each declaration is (`StrictMeansEvidence`), and the evidence inspected
when a build began is the evidence when it ends, because the registry is borrowed in
between (`BorrowedStays`). Of `PreparedInputs` it proves that exactly the prepared
inputs are accepted and that any other call is answered with the first thing wrong
with it (`AlwaysAcceptsExactlyThePrepared`); the heart is that as many distinct
names as there are inputs, all of them prepared, leave nothing out.

`Yaml_proofs` proves the four properties of the YAML front end, for any scalars, any
depth limit and sources of any length, and for any documents, Unit types and bounds.

- The tree has what was read, all of it, once and in order (`TreeRead`). `ReadingInv`
  says it of any sequence of events, also within an event, when a node has begun and is
  not there yet: the collections open after each event are a function of the events
  (`Openings`), the containers on the stack are those collections, the outermost first,
  and each holds the finished nodes inside it, the pending key last. An event adds
  exactly one node to exactly one container (`EventAdds`), and what is inside of what
  before it does not change (`OpenGrows`).
- A source is refused for the first fault in it (`RefusedForTheFirst`). `FaultInv` adds
  that the parser has as many collections open as the stack has containers, so that the
  depth limit bites at the event that exceeds it, and that a verdict is that of
  `KeyFault`. That `KeyFault`, which descends, returns the fault with the least position
  rests on how positions nest: what a node spans is the node and what its children span
  (`SpanSplits`), one child after the other (`SpansInOrder`). A key is looked at but not
  into, so an alias as a key is no string before it is an alias (`EntryFaultIsFirst`).
- What is accepted is a document as `YamlDefinition` assumes its documents to be, without
  key faults (`AcceptedIsDocument`).
- The order of a document's mappings decides nothing (`OrderIsOfNoMatter` for the reversal
  that the run tries, `AnyOrderLoadsAlike` for every order of each). Two documents
  that differ in order only have roots that are twins (`RootsAreTwins`): the same JSON,
  and the same entries in another order, whose values are twins again. Twins pass the
  same checks (`DefinitionsAreCheckedAlike`), though not in the same order, and are
  normalized to the same definition (`NormalAlike`), because what is sorted by name and
  has no name twice has one order only (`SortedAlike`). Resolution sees the normal form.
- The closest bound of a resource is its capacity (`ClosestBound`). `AnswerInv` says that
  the answer is that of `load` for a document at hand. `LoadedIs` sums up the checks:
  what loads passed all of them, resolved and has a bound for everything, and what is
  refused for a bound misses one, at the producer of a resource (`MissedIsProduced`). A
  Unit that resolves makes exactly the resources its output ports are bound to
  (`ResourcesAreMade`), so what is required is what is produced, and the bound taken for a
  port is that of its configuration, or else the host's, or else the adapter's
  (`CapacitiesAre`).

Recursion over a tree is a function on the positions of its nodes: what a node owns
comes after it, so the value at a position depends on later ones only, and the function
exists (`FaultsExist`, `WholesExist`). What holds of all nodes is shown from the last
position to the first.

`Examples_proofs` proves of the navigation host, for any number of Modules and runs,
that copies are of one run (`CopiesAreOfOneRun`) and reloads all or nothing
(`ReloadsAreAtomic`). Its invariant says that a candidate is the latest Module built,
neither active nor in the hands of the owner, so what warming it up changes is never
the active one's. A reload activates what has just run; an owner who calls `activate`
himself may activate a cold or poisoned Module, and the theorem claims nothing of that
but that the Module replaced is not lost and that inputs stay with the Module they were
made for. `run_profiled` and `warm_up` ask for no `ModuleInput`, so this holds of checked
runs only. Of the LiDAR Units, for every sequence of frames and every limit: the snapshot
tells the latest poses of exactly the frames accepted (`SnapshotAlwaysTellsTheHistory`),
edges join poses of the window (`EdgesAlwaysOfTheWindow`) and samples are spread
(`SamplesAlwaysSpread`). `LidarFits` says which counters agree at which stage: the
estimator has counted a frame before its Unit can still fail, and the history of the
host has not. Sampling rests on one lemma about division, `SampleIsSpread`, which the
registration of clouds of any two sizes uses too (`SamplesAlwaysAgree`). Of the image
example it proves that a registration shown is whole, whatever the matcher found
(`RegistrationAlwaysWhole`), and of the allocation harness that a measurement counts
what its thread did, for any nesting on any number of threads (`MeasurementsAreExact`).

The second half of `Examples_proofs` proves the search itself, for grids of any size
planned one after the other on one workspace, with either algorithm and any limits: `SearchAlwaysSettled`,
`PlansAlwaysExact` and `FinalPathsAlwaysClear`. The route distances are breadth-first
layers; `RoutesSettle` shows that they stop growing within as many steps as there are
free cells, because a layer that adds nothing adds nothing for ever, and that they
satisfy the usual equations: 0 at the start, one more than some neighbour, at most one
more than any. The estimate changes by at most one with a step (`EstimateIsConsistent`),
so the argument for A* is the classical one. `GridInv` has three parts that need each
other: a closed cell has its shortest distance and each distance leads back over
closed cells (`Chains`); the neighbours of closed cells have been looked at and what is
open is in the heap with its present distance (`Frontier`); and every expansion closes
a new cell and leaves at most three entries more (`HeapFits`, why the heap never runs
full). The smoother has a limit of its own and is shown to refuse only routes
longer than it. From these, before any cell that can be reached and is not closed there is an
open one on a shortest route to it (`SomethingIsOpen`), so the best entry that is not
stale is exact (`BestIsExact`) and an empty heap means that there is no route. What is
traced is then one nearer to the start with every point (`Walk`), and what the smoother
has so far goes from the start to its anchor over clear lines (`SmoothFits`); that it
may take the next point without a test is `NeighborsInSight`: the line between two
neighbours consists of the two. That a leg of the itinerary has a route no longer than
the itinerary's is `OpenGroundIsFree` with `MoreCellsNoFarther`.

Together: every graph that compiles satisfies `GraphWellFormed`, every plan made
for a graph of that kind satisfies `StorageWellFormed`, and the runtime is correct
for every plan that satisfies both. `StoragePlanner` describes its graph by
producers and consumers of resources and the runtime by ports of Units;
`PlannerAndRuntimeAgree` proves that after every compilation the two are views of
one graph, and that the view of the planner satisfies what `PlannerAssumption` says
of producers, consumers and outputs.

Assumptions. Each module states what its proofs need of the constants (`...Assumption`),
and TLC evaluates all of them in the runs: typing of bounds, sizes and lists; in
`UnitRegistry` that ports, capability domains and sources are the lists the code has
them in; in `GridPlanner` that sizes are natural, cells integers and `INF` above the
number of cells; in `LidarSlam` that frames carry natural times and sizes and that `Absent` is
no frame; in `YamlDefinition` that documents are trees as `parse` returns them (which
`AcceptedIsDocument` proves they are), that strings have a total order and that the
ports of a Unit type are lists. Nothing is assumed of the number or the order of events, calls, Units, frames
or failures.

Induction. The library's induction theorems take an operator as a parameter, which
the prover cannot instantiate. Where a proof needs induction it is over the members
of a set instead: a set of naturals that misses a natural has a least one it misses
(`Induction` in `NaturalBounds`). Sums, folds and functions that recurse on a natural
are got from there (`SumUnfolds`, `SumAdds`, `FoldUnfolds`, `RecursionExists`,
`RecursionOnNaturals`).

Only model-checked: liveness (`CallsReturn`, `CompileEnds`, `EpisodesEnd`, and the
fairness of `ModuleContract`), which is beyond the prover. Some theorems are not checked by a run of their own because a larger
invariant contains them: the run then lists that invariant (`ReadsAreSafe`, `HostInv`,
`PlanInv`, `CompileInv`).

## 5. Not modelled

- Inspection: text, dot and mermaid output is layout of immutable data.
- Values, floating point, clock readings and durations, and the numerical code of
  the examples: path lengths, poses, transformations, residuals, thresholds. What a
  library computes is a choice, so nothing is said of its quality.
- Colours, pixels and the layout of the viewer; argument parsing, the JSON snapshot,
  percentiles and the synthetic scenes of the example programs; their configuration
  checks and the declarations with which they fill their registries. This is why the
  examples are `partly` modelled in `PROJECT.json`.
- `allocate_slots` without a plan, which only tests take, and the producer ports,
  Unit types and configurations that compilation passes on unread.
- Decoder, inflation and planner of the navigation example have a `max_cells` each; the
  model has one for the three, as the shipped configurations do. The smoother's limit is
  separate from the planner's; its branch for a limit of zero
  (`examples/navigation-planning/src/lib.rs:560`) is modelled and proved about, but
  the run has a positive limit.
- The checks with which `navigation_map` and `navigation_frame_at` refuse images and
  points that do not fit their dimensions (`crates/unit-compose-debug-rerun/src/lib.rs:62`,
  `:126`): the only caller passes copies of what a run published for a grid it accepted.
  Like the trail check, which is modelled (`Reject`), they would return before any row.
- `DenseResourceMissing` and `DenseUnitMissing` of `into_dense` (`core/graph.rs:1120`,
  `:1151`, `:1183`): the ids looked up are those the maps were just filled from, so after
  `compile` the lookups cannot fail.
- Capacities of the LiDAR Units are taken from one configuration; Units configured
  with different limits are not considered. Neither is a Unit's limit that its
  descriptor text names and no code enforces.
- `panic = "abort"` builds end the process and leave nothing to specify; neither
  does a failing allocation.

There is no fault model of crashes and restarts or of lost messages: nothing is
persisted and nothing is sent. The failures modelled are those the code handles:
errors and panics of Units, probes, sinks and adapter rows, refused builds and
reloads, and documents, inputs and frames that are wrong.

## 6. Where code and documents disagree

1. `nested_fatal`: a fatal failure wrapped in `RunError::Execution` (a Unit that
   drives a Module of its own and passes its error on) is reported as fatal but
   does not poison (`core/runtime.rs:1267`).
2. `poison_report`: a call rejected because of poison is reported as
   `RecoverableFailure` (`core/lib.rs:834`).
3. `panic_error`: the error of a panicked run has no disposition
   (`core/runtime.rs:1424`), where UC-V0-18 says "structured fatal run error".
4. `growth_peak`: with growing storage the recorded capacity is the one readable
   at the end, not the peak of the run (`core/runtime.rs:198`).

5. `mismatch_path`: the error for a concrete type that differs is placed under the
   `inputs` of its Unit even if the port is an output
   (`crates/unit-compose-yaml/src/lib.rs:397`), so it points at a place the document
   does not have.

## 7. Where to go on

Every safety property of the runs has a theorem. Inspection and the configuration
checks of the example programs are the parts of the code left to model. `SameButForOrder`
compares documents whose nodes keep their positions; that loading does not depend on
the positions either is not stated.
