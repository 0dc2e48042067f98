---------------------------- MODULE GraphCompiler ----------------------------
(***************************************************************************)
(* Compiling a resolved Module into an ordered graph (graph.rs:            *)
(* ResolvedModule::compile, stable_topological_order, find_cycle) and the  *)
(* checks into_dense repeats before the graph is indexed.                  *)
(*                                                                         *)
(* The source is chosen in Init.  compile is a straight line of loops; an  *)
(* action is one iteration, so that every error path is a step of its own. *)
(* Unit and resource names are ordered sets of numbers; a Unit is never 0, *)
(* which stands for the Module as a producer.                              *)
(***************************************************************************)
EXTENDS Integers, Sequences, FiniteSetsExt

CONSTANTS
  UnitId,    \* names Units may have
  Resource,  \* names resources may have
  Port,      \* port names
  Semantic,  \* semantic types
  Concrete,  \* Rust types
  Source     \* resolved Modules: [inputs, units, outputs], each a sequence

Binding  == [port : Port, resource : Resource, semantic : Semantic, concrete : Concrete]
Declared == [resource : Resource, semantic : Semantic, concrete : Concrete]
UnitDecl == [id : UnitId, inputs : Seq(Binding), outputs : Seq(Binding)]

ASSUME CompilerAssumption ==
  /\ UnitId \subseteq Nat \ {0}
  /\ Source \subseteq [inputs : Seq(Declared), units : Seq(UnitDecl),
                       outputs : Seq(Resource)]

VARIABLES
  source,        \* the resolved Module
  phase,         \* the loop compile is in, or how it ended
  at,            \* the iteration of that loop
  producers,     \* resource -> its types and the Unit that writes it, or 0
  consumers,     \* the input ports connected so far
  dependencies,  \* Unit -> Units it waits for
  indegree,      \* Unit -> how many of them are not placed yet
  ready,         \* Units that wait for none
  order,         \* execution_order so far
  stack,         \* find_cycle: Units being visited, with neighbours to try
  visited,       \* find_cycle: Units visited
  path           \* the cycle reported

vars == <<source, phase, at, producers, consumers, dependencies, indegree,
          ready, order, stack, visited, path>>

Loops  == {"inputs", "units", "connections", "outputs", "ordering", "search"}
Errors == {"duplicate_producer", "duplicate_unit", "duplicate_port",
           "unknown_resource", "semantic_mismatch", "concrete_mismatch",
           "unknown_output", "input_as_output", "cycle", "duplicate_output"}

Resources(bindings) == {bindings[k].resource : k \in DOMAIN bindings}
Ports(bindings)     == {bindings[k].port : k \in DOMAIN bindings}
Placed              == {order[k] : k \in DOMAIN order}
Outgoing(u)         == {v \in DOMAIN dependencies : u \in dependencies[v]}
Remaining           == {u \in DOMAIN indegree : indegree[u] > 0}

Init ==
  /\ source \in Source
  /\ phase = "inputs"
  /\ at = 1
  /\ producers = <<>>
  /\ consumers = {}
  /\ dependencies = <<>>
  /\ indegree = <<>>
  /\ ready = {}
  /\ order = <<>>
  /\ stack = <<>>
  /\ visited = {}
  /\ path = <<>>

Reject(error) ==
  /\ phase' = error
  /\ UNCHANGED <<source, at, producers, consumers, dependencies, indegree,
                 ready, order, stack, visited, path>>

EndLoop(loop, sequence, following) ==
  /\ phase = loop
  /\ at = Len(sequence) + 1
  /\ phase' = following
  /\ at' = 1
------------------------------------------------------------------------------
(* Producers. *)

(* producers after insert_producer for each of the declarations, on behalf  *)
(* of unit.                                                                 *)
Produced(declarations, unit) ==
  LET new == Resources(declarations)
      by(r) == CHOOSE d \in {declarations[k] : k \in DOMAIN declarations} :
                 d.resource = r
  IN [r \in DOMAIN producers \cup new |->
        IF r \in new
          THEN [semantic |-> by(r).semantic, concrete |-> by(r).concrete, unit |-> unit]
          ELSE producers[r]]

(* Two declarations of one resource, here or before.                        *)
ProducedTwice(declarations) ==
  \/ Resources(declarations) \cap DOMAIN producers # {}
  \/ \E j, k \in DOMAIN declarations :
       j # k /\ declarations[j].resource = declarations[k].resource

DeclareInput ==
  /\ phase = "inputs" /\ at \in DOMAIN source.inputs
  /\ LET declared == <<source.inputs[at]>> IN
     \/ ProducedTwice(declared) /\ Reject("duplicate_producer")
     \/ /\ ~ ProducedTwice(declared)
        /\ producers' = Produced(declared, 0)
        /\ at' = at + 1
        /\ UNCHANGED <<source, phase, consumers, dependencies, indegree, ready,
                       order, stack, visited, path>>

EndInputs ==
  /\ EndLoop("inputs", source.inputs, "units")
  /\ UNCHANGED <<source, producers, consumers, dependencies, indegree, ready,
                 order, stack, visited, path>>

SeenBefore(k) == \E j \in 1 .. k - 1 : source.units[j].id = source.units[k].id

(* validate_resolved_ports *)
PortsRepeat(unit) ==
  \/ Cardinality(Ports(unit.inputs)) # Len(unit.inputs)
  \/ Cardinality(Ports(unit.outputs)) # Len(unit.outputs)

DeclareUnit ==
  /\ phase = "units" /\ at \in DOMAIN source.units
  /\ LET unit == source.units[at] IN
     \/ SeenBefore(at) /\ Reject("duplicate_unit")
     \/ /\ ~ SeenBefore(at)
        /\ PortsRepeat(unit)
        /\ Reject("duplicate_port")
     \/ /\ ~ SeenBefore(at) /\ ~ PortsRepeat(unit)
        /\ ProducedTwice(unit.outputs)
        /\ Reject("duplicate_producer")
     \/ /\ ~ SeenBefore(at) /\ ~ PortsRepeat(unit)
        /\ ~ ProducedTwice(unit.outputs)
        /\ producers' = Produced(unit.outputs, unit.id)
        /\ at' = at + 1
        /\ UNCHANGED <<source, phase, consumers, dependencies, indegree, ready,
                       order, stack, visited, path>>

EndUnits ==
  /\ EndLoop("units", source.units, "connections")
  /\ dependencies' =
       [u \in {source.units[k].id : k \in DOMAIN source.units} |-> {}]
  /\ UNCHANGED <<source, producers, consumers, indegree, ready, order, stack,
                 visited, path>>
------------------------------------------------------------------------------
(* Consumers and dependencies. *)

(* What is wrong with an input binding, "none" if nothing is.               *)
BindingFault(b) ==
  IF b.resource \notin DOMAIN producers THEN "unknown_resource"
  ELSE IF b.semantic # producers[b.resource].semantic THEN "semantic_mismatch"
  ELSE IF b.concrete # producers[b.resource].concrete THEN "concrete_mismatch"
  ELSE "none"

(* The inputs of a Unit are looked at in order; the first faulty one is     *)
(* reported.                                                                *)
FaultyInputs(unit) ==
  {k \in DOMAIN unit.inputs : BindingFault(unit.inputs[k]) # "none"}

(* Mutation of ProducingUnits: only the first input makes a dependency.     *)
FirstProducingUnit(unit) ==
  {producers[r].unit : r \in {unit.inputs[k].resource : k \in DOMAIN unit.inputs \cap {1}}}
    \ {0}

ProducingUnits(unit) == {producers[r].unit : r \in Resources(unit.inputs)} \ {0}

(* The input ports of a Unit, as consumers of their resources.              *)
Consumes(unit) ==
  {[resource |-> unit.inputs[k].resource, unit |-> unit.id, port |-> unit.inputs[k].port]
     : k \in DOMAIN unit.inputs}

ConnectUnit ==
  /\ phase = "connections" /\ at \in DOMAIN source.units
  /\ LET unit == source.units[at] IN
     \/ /\ FaultyInputs(unit) # {}
        /\ Reject(BindingFault(unit.inputs[Min(FaultyInputs(unit))]))
     \/ /\ FaultyInputs(unit) = {}
        /\ consumers' = consumers \cup Consumes(unit)
        /\ dependencies' = [dependencies EXCEPT ![unit.id] = @ \cup ProducingUnits(unit)]
        /\ at' = at + 1
        /\ UNCHANGED <<source, phase, producers, indegree, ready, order, stack,
                       visited, path>>

EndConnections ==
  /\ EndLoop("connections", source.units, "outputs")
  /\ UNCHANGED <<source, producers, consumers, dependencies, indegree, ready,
                 order, stack, visited, path>>

CheckOutput ==
  /\ phase = "outputs" /\ at \in DOMAIN source.outputs
  /\ LET r == source.outputs[at] IN
     \/ r \notin DOMAIN producers /\ Reject("unknown_output")
     \/ /\ r \in DOMAIN producers
        /\ producers[r].unit = 0
        /\ Reject("input_as_output")
     \/ /\ r \in DOMAIN producers
        /\ producers[r].unit # 0
        /\ at' = at + 1
        /\ UNCHANGED <<source, phase, producers, consumers, dependencies,
                       indegree, ready, order, stack, visited, path>>

EndOutputs ==
  /\ EndLoop("outputs", source.outputs, "ordering")
  /\ indegree' = [u \in DOMAIN dependencies |-> Cardinality(dependencies[u])]
  /\ ready' = {u \in DOMAIN dependencies : dependencies[u] = {}}
  /\ UNCHANGED <<source, producers, consumers, dependencies, order, stack,
                 visited, path>>
------------------------------------------------------------------------------
(* stable_topological_order *)

(* Mutation of PlaceUnit: the greatest ready name is taken.                 *)
PlaceLastUnit ==
  /\ phase = "ordering" /\ ready # {}
  /\ LET u == Max(ready) IN
     /\ order' = Append(order, u)
     /\ indegree' = [v \in DOMAIN indegree |->
                       IF v \in Outgoing(u) THEN indegree[v] - 1 ELSE indegree[v]]
     /\ ready' = (ready \ {u}) \cup {v \in Outgoing(u) : indegree[v] = 1}
  /\ UNCHANGED <<source, phase, at, producers, consumers, dependencies, stack,
                 visited, path>>

PlaceUnit ==
  /\ phase = "ordering" /\ ready # {}
  /\ LET u == Min(ready) IN
     /\ order' = Append(order, u)
     /\ indegree' = [v \in DOMAIN indegree |->
                       IF v \in Outgoing(u) THEN indegree[v] - 1 ELSE indegree[v]]
     /\ ready' = (ready \ {u}) \cup {v \in Outgoing(u) : indegree[v] = 1}
  /\ UNCHANGED <<source, phase, at, producers, consumers, dependencies, stack,
                 visited, path>>

OutputsRepeat ==
  \E j, k \in DOMAIN source.outputs : j # k /\ source.outputs[j] = source.outputs[k]

(* The whole graph is ordered; only now repeated outputs are looked for.    *)
FinishCompile ==
  /\ phase = "ordering" /\ ready = {}
  /\ Len(order) = Cardinality(DOMAIN indegree)
  /\ IF OutputsRepeat
       THEN Reject("duplicate_output")
       ELSE /\ phase' = "compiled"
            /\ UNCHANGED <<source, at, producers, consumers, dependencies,
                           indegree, ready, order, stack, visited, path>>

StartSearch ==
  /\ phase = "ordering" /\ ready = {}
  /\ Len(order) # Cardinality(DOMAIN indegree)
  /\ phase' = "search"
  /\ UNCHANGED <<source, at, producers, consumers, dependencies, indegree,
                 ready, order, stack, visited, path>>
------------------------------------------------------------------------------
(* find_cycle: a depth-first search, one call of visit per frame. *)

Frame(u) == [unit |-> u, untried |-> Outgoing(u) \cap Remaining]
Top      == stack[Len(stack)]
OnStack  == {stack[k].unit : k \in DOMAIN stack}

(* The elements of a set of names in their order.                           *)
Sorted(S) ==
  CHOOSE q \in [1 .. Cardinality(S) -> S] : \A j, k \in DOMAIN q : j < k => q[j] < q[k]

(* The next root: visit returns at once for those visited before.  Without  *)
(* a root left, all remaining Units would be returned.                      *)
VisitRoot ==
  /\ phase = "search" /\ stack = <<>>
  /\ LET roots == Remaining \ visited IN
     IF roots = {}
       THEN /\ phase' = "cycle"
            /\ path' = Sorted(Remaining)
            /\ UNCHANGED <<stack, visited>>
       ELSE /\ stack' = <<Frame(Min(roots))>>
            /\ visited' = visited \cup {Min(roots)}
            /\ UNCHANGED <<phase, path>>
  /\ UNCHANGED <<source, at, producers, consumers, dependencies, indegree,
                 ready, order>>

(* Mutation of CloseCycle: any visited neighbour is taken to close a cycle. *)
CloseVisited(v) ==
  /\ v \in visited
  /\ phase' = "cycle"
  /\ path' = Append([k \in DOMAIN stack |-> stack[k].unit], v)
  /\ UNCHANGED <<stack, visited>>

(* The neighbour is being visited: the stack from it on is a cycle.         *)
CloseCycle(v) ==
  /\ v \in OnStack
  /\ LET start == CHOOSE k \in DOMAIN stack : stack[k].unit = v IN
     path' = Append([k \in 1 .. Len(stack) - start + 1 |-> stack[start + k - 1].unit], v)
  /\ phase' = "cycle"
  /\ UNCHANGED <<stack, visited>>

(* Mutation of Tried: the neighbour is tried again and again.               *)
TriedAgain(v) == [stack EXCEPT ![Len(stack)].untried = @ \cup {v}]

Tried(v) == [stack EXCEPT ![Len(stack)].untried = @ \ {v}]

TryNeighbour ==
  /\ phase = "search" /\ stack # <<>> /\ Top.untried # {}
  /\ LET v == Min(Top.untried) IN
     \/ CloseCycle(v)
     \/ /\ v \in visited \ OnStack
        /\ stack' = Tried(v)
        /\ UNCHANGED <<phase, visited, path>>
     \/ /\ v \notin visited
        /\ stack' = Append(Tried(v), Frame(v))
        /\ visited' = visited \cup {v}
        /\ UNCHANGED <<phase, path>>
  /\ UNCHANGED <<source, at, producers, consumers, dependencies, indegree,
                 ready, order>>

Retreat ==
  /\ phase = "search" /\ stack # <<>> /\ Top.untried = {}
  /\ stack' = SubSeq(stack, 1, Len(stack) - 1)
  /\ UNCHANGED <<source, phase, at, producers, consumers, dependencies,
                 indegree, ready, order, visited, path>>
------------------------------------------------------------------------------
(* into_dense *)

Position(u)   == CHOOSE k \in DOMAIN order : order[k] = u
UnitNamed(u)  == source.units[CHOOSE k \in DOMAIN source.units : source.units[k].id = u]

(* The output ports that write a resource, as Unit and place.               *)
Writers(r) ==
  UNION {{<<u, k>> : k \in {j \in DOMAIN UnitNamed(u).outputs :
                              UnitNamed(u).outputs[j].resource = r}}
           : u \in DOMAIN dependencies}

(* Every resource has the producer and the consumers the ports say.         *)
EdgesValid ==
  /\ \A r \in DOMAIN producers :
       IF producers[r].unit = 0
         THEN Writers(r) = {}
         ELSE \E w \in Writers(r) : w[1] = producers[r].unit /\ Writers(r) = {w}
  /\ \A u \in DOMAIN dependencies :
       Resources(UnitNamed(u).outputs) \subseteq DOMAIN producers
  /\ consumers = UNION {Consumes(UnitNamed(u)) : u \in DOMAIN dependencies}

OrderValid ==
  /\ Len(order) = Len(source.units)
  /\ Placed = DOMAIN dependencies
  /\ \A u \in Placed : \A r \in Resources(UnitNamed(u).inputs) :
       /\ r \in DOMAIN producers
       /\ producers[r].unit # 0 => Position(producers[r].unit) < Position(u)

IntoDense ==
  /\ phase = "compiled"
  /\ phase' = IF EdgesValid /\ OrderValid THEN "dense" ELSE "rejected"
  /\ UNCHANGED <<source, at, producers, consumers, dependencies, indegree,
                 ready, order, stack, visited, path>>

Next ==
  \/ DeclareInput
  \/ EndInputs
  \/ DeclareUnit
  \/ EndUnits
  \/ ConnectUnit
  \/ EndConnections
  \/ CheckOutput
  \/ EndOutputs
  \/ PlaceUnit
  \/ FinishCompile
  \/ StartSearch
  \/ VisitRoot
  \/ TryNeighbour
  \/ Retreat
  \/ IntoDense

Spec == Init /\ [][Next]_vars /\ WF_vars(Next)
------------------------------------------------------------------------------
(* Types of the compiler's state. *)
TypeOK ==
  /\ phase \in Loops \cup Errors \cup {"compiled", "dense", "rejected"}
  /\ at \in Nat \ {0}
  /\ DOMAIN producers \subseteq Resource
  /\ \A r \in DOMAIN producers : producers[r] \in
       [semantic : Semantic, concrete : Concrete, unit : UnitId \cup {0}]
  /\ consumers \subseteq [resource : Resource, unit : UnitId, port : Port]
  /\ DOMAIN dependencies \subseteq UnitId
  /\ \A u \in DOMAIN dependencies : dependencies[u] \subseteq UnitId
  /\ DOMAIN indegree \subseteq DOMAIN dependencies
  /\ \A u \in DOMAIN indegree : indegree[u] \in Nat
  /\ ready \subseteq DOMAIN indegree
  /\ order \in Seq(UnitId)
  /\ stack \in Seq([unit : UnitId, untried : SUBSET UnitId])
  /\ visited \subseteq UnitId

(* What the source says, independently of what compile builds from it.      *)
DeclaredUnits == {source.units[k] : k \in DOMAIN source.units}

DependsOn(u, v) ==
  \E x, y \in DeclaredUnits :
    /\ x.id = u /\ y.id = v
    /\ Resources(x.inputs) \cap Resources(y.outputs) # {}

Cyclic ==
  \E S \in (SUBSET {x.id : x \in DeclaredUnits}) \ {{}} :
    \A u \in S : \E v \in S : DependsOn(u, v)

Declarations ==
  {<<0, k>> : k \in DOMAIN source.inputs}
    \cup UNION {{<<j, k>> : k \in DOMAIN source.units[j].outputs}
                 : j \in DOMAIN source.units}

Declaration(d) ==
  IF d[1] = 0 THEN source.inputs[d[2]] ELSE source.units[d[1]].outputs[d[2]]

InputBindings ==
  UNION {{x.inputs[k] : k \in DOMAIN x.inputs} : x \in DeclaredUnits}

Defect(e) ==
  \/ /\ e = "duplicate_producer"
     /\ \E c, d \in Declarations :
          c # d /\ Declaration(c).resource = Declaration(d).resource
  \/ /\ e = "duplicate_unit"
     /\ \E j, k \in DOMAIN source.units :
          j # k /\ source.units[j].id = source.units[k].id
  \/ /\ e = "duplicate_port"
     /\ \E x \in DeclaredUnits : \E bindings \in {x.inputs, x.outputs} :
          \E j, k \in DOMAIN bindings :
            j # k /\ bindings[j].port = bindings[k].port
  \/ /\ e = "unknown_resource"
     /\ \E b \in InputBindings :
          \A d \in Declarations : Declaration(d).resource # b.resource
  \/ /\ e = "semantic_mismatch"
     /\ \E b \in InputBindings, d \in Declarations :
          /\ Declaration(d).resource = b.resource
          /\ Declaration(d).semantic # b.semantic
  \/ /\ e = "concrete_mismatch"
     /\ \E b \in InputBindings, d \in Declarations :
          /\ Declaration(d).resource = b.resource
          /\ Declaration(d).concrete # b.concrete
  \/ /\ e = "unknown_output"
     /\ \E k \in DOMAIN source.outputs :
          \A d \in Declarations : Declaration(d).resource # source.outputs[k]
  \/ /\ e = "input_as_output"
     /\ \E k \in DOMAIN source.outputs, j \in DOMAIN source.inputs :
          source.inputs[j].resource = source.outputs[k]
  \/ e = "cycle" /\ Cyclic
  \/ e = "duplicate_output" /\ OutputsRepeat

(* A Module is compiled if and only if nothing is wrong with it, and the    *)
(* error reported is one of the things wrong with it, whatever else is and  *)
(* in whatever order the source lists Units and ports.                      *)
VerdictIsExact ==
  /\ phase \in Errors => Defect(phase)
  /\ phase \in {"compiled", "dense"} => \A e \in Errors : ~ Defect(e)

(* Every Unit is placed after all Units whose outputs it reads.             *)
OrderRespectsDependencies ==
  \A k \in DOMAIN order, v \in {x.id : x \in DeclaredUnits} :
    DependsOn(order[k], v) => \E j \in 1 .. k - 1 : order[j] = v

(* Each place goes to the least Unit that could go there, so the order is a *)
(* function of the dependencies alone and not of the source's order.        *)
OrderIsCanonical ==
  \A k \in DOMAIN order :
    LET before == {order[j] : j \in 1 .. k - 1} IN
    \A u \in {x.id : x \in DeclaredUnits} \ before :
      u < order[k] =>
        \E v \in {x.id : x \in DeclaredUnits} \ before : DependsOn(u, v)

(* A reported cycle is one: it returns to where it starts, each of its      *)
(* Units feeds the next, and none but the first is passed twice.            *)
CycleIsGenuine ==
  phase = "cycle" =>
    /\ Len(path) > 1 /\ path[1] = path[Len(path)]
    /\ \A k \in 1 .. Len(path) - 1 : DependsOn(path[k + 1], path[k])
    /\ \A j, k \in 1 .. Len(path) - 1 : j # k => path[j] # path[k]

(* into_dense checks edges and order of a graph anew and, for a graph of    *)
(* compile, finds nothing.                                                  *)
DenseAgrees == phase # "rejected"

(* The graph as the runtime sees it. *)
GraphReads   == [p \in DOMAIN order |-> Resources(UnitNamed(order[p]).inputs)]
GraphWrites  == [p \in DOMAIN order |-> Resources(UnitNamed(order[p]).outputs)]
GraphInputs  == {r \in DOMAIN producers : producers[r].unit = 0}
GraphOutputs == {source.outputs[k] : k \in DOMAIN source.outputs}

Graph == INSTANCE ExecutionPlan WITH
  UnitCount    <- Len(order),
  Resource     <- DOMAIN producers,
  ModuleInput  <- GraphInputs,
  ModuleOutput <- GraphOutputs,
  Reads        <- GraphReads,
  Writes       <- GraphWrites,
  Slot         <- {},
  SlotOf       <- <<>>,
  SlotKind     <- <<>>,
  Capacity     <- <<>>,
  LiveEnd      <- <<>>,
  GrowPolicy   <- FALSE

(* The graph as the planner sees it: of a resource, the step that produces  *)
(* it, 0 for a Module input, and the steps that consume it.                 *)
ProducedAt(r) == IF producers[r].unit = 0 THEN 0 ELSE Position(producers[r].unit)
ConsumedAt(r) == {Position(c.unit) : c \in {d \in consumers : d.resource = r}}

(* A compiled graph has everything the runtime assumes.                     *)
RuntimeCanRely == phase \in {"compiled", "dense"} => Graph!GraphWellFormed

(* It has everything the planner assumes, which goes by producers and       *)
(* consumers of resources; and they are the graph the runtime goes by, the  *)
(* ports of the Units in their order.                                       *)
PlannerCanRely ==
  phase \in {"compiled", "dense"} =>
    /\ \A r \in DOMAIN producers :
         /\ ProducedAt(r) \in 0 .. Len(order)
         /\ ConsumedAt(r) \subseteq 1 .. Len(order)
         /\ \A p \in ConsumedAt(r) : ProducedAt(r) < p
         /\ r \in GraphOutputs => ProducedAt(r) # 0
    /\ GraphInputs = {r \in DOMAIN producers : ProducedAt(r) = 0}
    /\ \A p \in 1 .. Len(order) :
         /\ GraphReads[p] = {r \in DOMAIN producers : p \in ConsumedAt(r)}
         /\ GraphWrites[p] = {r \in DOMAIN producers : ProducedAt(r) = p}

(* Whatever compile answers is right: the error, the cycle or the graph.    *)
CompileIsExact ==
  VerdictIsExact /\ CycleIsGenuine /\ RuntimeCanRely /\ PlannerCanRely

(* The inductive invariant of the proofs: what each loop has established,   *)
(* as far as it got.                                                        *)
Ordered      == {"ordering", "search", "compiled", "dense", "rejected", "cycle",
                 "duplicate_output"}
Connecting   == {"connections", "outputs"} \cup Ordered
EarlyErrors  == Errors \ Ordered

InputsSeen ==
  IF phase = "inputs" THEN {k \in DOMAIN source.inputs : k < at} ELSE DOMAIN source.inputs

UnitsSeen ==
  {k \in DOMAIN source.units : phase # "inputs" /\ (phase = "units" => k < at)}

UnitsConnected == {k \in DOMAIN source.units : phase = "connections" => k < at}
OutputsChecked == {k \in DOMAIN source.outputs : phase = "outputs" => k < at}

ProducersExact ==
  phase \notin EarlyErrors =>
    /\ DOMAIN producers =
         {source.inputs[k].resource : k \in InputsSeen}
           \cup UNION {Resources(source.units[k].outputs) : k \in UnitsSeen}
    /\ \A k \in InputsSeen : producers[source.inputs[k].resource].unit = 0
    /\ \A k \in UnitsSeen : \A r \in Resources(source.units[k].outputs) :
         producers[r].unit = source.units[k].id
    /\ \A j, k \in UnitsSeen : j # k => source.units[j].id # source.units[k].id
    /\ \A k \in UnitsSeen : \A i, j \in DOMAIN source.units[k].outputs :
         i # j => source.units[k].outputs[i].resource # source.units[k].outputs[j].resource

DependenciesExact ==
  /\ phase \in {"inputs", "units"} => consumers = {}
  /\ phase \in Connecting =>
      /\ DOMAIN dependencies = {source.units[k].id : k \in DOMAIN source.units}
      /\ \A k \in DOMAIN source.units :
           /\ k \in UnitsConnected => Resources(source.units[k].inputs) \subseteq DOMAIN producers
           /\ dependencies[source.units[k].id] =
                IF k \in UnitsConnected THEN ProducingUnits(source.units[k]) ELSE {}
      /\ consumers = UNION {Consumes(source.units[k]) : k \in UnitsConnected}

OutputsExact ==
  phase \in {"outputs"} \cup Ordered =>
    \A k \in OutputsChecked :
      /\ source.outputs[k] \in DOMAIN producers
      /\ producers[source.outputs[k]].unit # 0

OrderExact ==
  IF phase \in Ordered
    THEN /\ DOMAIN indegree = DOMAIN dependencies
         /\ Placed \subseteq DOMAIN dependencies
         /\ \A j, k \in DOMAIN order : j # k => order[j] # order[k]
         /\ \A k \in DOMAIN order :
              LET before == {order[j] : j \in 1 .. k - 1} IN
              /\ dependencies[order[k]] \subseteq before
              /\ \A u \in DOMAIN dependencies \ before :
                   u < order[k] => ~ (dependencies[u] \subseteq before)
         /\ \A u \in DOMAIN dependencies :
              indegree[u] = Cardinality(dependencies[u] \ Placed)
         /\ ready = {u \in DOMAIN dependencies \ Placed : dependencies[u] \subseteq Placed}
    ELSE order = <<>> /\ DOMAIN indegree = {} /\ ready = {}

CompileInv ==
  /\ TypeOK
  /\ ProducersExact
  /\ DependenciesExact
  /\ OutputsExact
  /\ OrderExact
  /\ phase \in {"compiled", "dense"} => Len(order) = Cardinality(DOMAIN indegree)
  /\ DenseAgrees

(* Compiling ends, the search for a cycle included: it marks what it visits.  *)
CompileEnds == <>(phase \notin Loops \cup {"compiled"})
==============================================================================
