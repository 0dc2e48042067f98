------------------------- MODULE GraphCompiler_proofs -------------------------
(***************************************************************************)
(* For every source: Units are ordered behind what they read, by a         *)
(* canonical choice, into_dense accepts what compile made, a compiled      *)
(* graph is one the planner and the runtime are correct for, and whatever  *)
(* compile answers, an error, a cycle or a graph, is right of the source.  *)
(***************************************************************************)
EXTENDS GraphCompiler, NaturalBounds, SequenceTheorems, TLAPS

(* The inductive invariant, with the source it is about.                    *)
FullInv == source \in Source /\ CompileInv

------------------------------------------------------------------------------
(* The source. *)

(* What a source is made of.                                                *)
LEMMA SourceTypes ==
  ASSUME source \in Source
  PROVE  /\ source.inputs \in Seq(Declared)
         /\ source.units \in Seq(UnitDecl)
         /\ source.outputs \in Seq(Resource)
         /\ \A k \in DOMAIN source.inputs : source.inputs[k] \in Declared
         /\ \A k \in DOMAIN source.units :
              /\ source.units[k] \in UnitDecl
              /\ source.units[k].id \in UnitId
              /\ source.units[k].inputs \in Seq(Binding)
              /\ source.units[k].outputs \in Seq(Binding)
         /\ \A k \in DOMAIN source.outputs : source.outputs[k] \in Resource
<1>1. source \in [inputs : Seq(Declared), units : Seq(UnitDecl), outputs : Seq(Resource)]
  BY CompilerAssumption
<1>2. /\ source.inputs \in Seq(Declared)
      /\ source.units \in Seq(UnitDecl)
      /\ source.outputs \in Seq(Resource)
  BY <1>1
<1>3. \A k \in DOMAIN source.units : source.units[k] \in UnitDecl
  BY <1>2
<1>4. \A x \in UnitDecl :
        x.id \in UnitId /\ x.inputs \in Seq(Binding) /\ x.outputs \in Seq(Binding)
  BY DEF UnitDecl
<1> QED
  BY <1>2, <1>3, <1>4

(* Names of Units are positive.                                             *)
LEMMA UnitNames == UnitId \subseteq Nat /\ 0 \notin UnitId
BY CompilerAssumption

(* What a list of bindings is made of.                                      *)
LEMMA BindingTypes ==
  ASSUME NEW b \in Seq(Binding)
  PROVE  /\ \A k \in DOMAIN b : /\ b[k].port \in Port
                                /\ b[k].resource \in Resource
                                /\ b[k].semantic \in Semantic
                                /\ b[k].concrete \in Concrete
         /\ Resources(b) \subseteq Resource
         /\ IsFiniteSet(Resources(b))
<1>1. \A k \in DOMAIN b : b[k] \in Binding
  OBVIOUS
<1>2. Resources(b) \subseteq Resource
  BY <1>1 DEF Binding, Resources
<1>3. DOMAIN b = 1 .. Len(b) /\ Len(b) \in Nat
  OBVIOUS
<1>4. IsFiniteSet(Resources(b))
  <2> DEFINE f == [k \in 1 .. Len(b) |-> b[k].resource]
  <2>1. /\ f \in [1 .. Len(b) -> Resources(b)]
        /\ \A t \in Resources(b) : \E k \in 1 .. Len(b) : f[k] = t
    BY <1>3 DEF Resources
  <2> QED
    BY <1>3, <2>1, ElementsOfList
<1> QED
  BY <1>1, <1>2, <1>4 DEF Binding

(* The phases that reject before the Units are ordered.                     *)
LEMMA EarlyErrorsAre ==
  EarlyErrors = {"duplicate_producer", "duplicate_unit", "duplicate_port",
                 "unknown_resource", "semantic_mismatch", "concrete_mismatch",
                 "unknown_output", "input_as_output"}
BY DEF EarlyErrors, Errors, Ordered

------------------------------------------------------------------------------
(* Steps that leave the graph alone. *)

(* Rejecting before the Units are ordered.                                  *)
LEMMA RejectKeepsInv ==
  ASSUME FullInv, phase \in {"inputs", "units", "connections", "outputs"},
         NEW e \in EarlyErrors, Reject(e)
  PROVE  FullInv'
<1> USE DEF FullInv, CompileInv
<1>1. phase' = e /\ phase' \notin Ordered /\ phase' \notin Connecting
  BY EarlyErrorsAre DEF Reject, Connecting, Ordered
<1>2. phase' \notin {"inputs", "units", "outputs", "compiled", "dense", "rejected"}
  BY <1>1, EarlyErrorsAre
<1>3. source' \in Source /\ TypeOK'
  BY <1>1 DEF Reject, TypeOK, EarlyErrors
<1>4. ProducersExact' /\ DependenciesExact' /\ OutputsExact'
  BY <1>1, <1>2 DEF ProducersExact, DependenciesExact, OutputsExact
<1>5. OrderExact'
  <2>1. phase \notin Ordered
    BY DEF Ordered
  <2> QED
    BY <2>1, <1>1 DEF OrderExact, Reject
<1> QED
  BY <1>2, <1>3, <1>4, <1>5 DEF DenseAgrees

(* Going on once the Units are ordered.                                     *)
LEMMA LaterKeepsInv ==
  ASSUME FullInv, phase \in Ordered, phase' \in Ordered, TypeOK',
         UNCHANGED <<source, producers, consumers, dependencies, indegree, ready, order>>,
         phase' \in {"compiled", "dense"} => Len(order) = Cardinality(DOMAIN indegree),
         phase' # "rejected"
  PROVE  FullInv'
<1> USE DEF FullInv, CompileInv
<1>1. /\ phase \notin {"inputs", "units", "connections", "outputs"}
      /\ phase' \notin {"inputs", "units", "connections", "outputs"}
      /\ phase \notin EarlyErrors /\ phase' \notin EarlyErrors
      /\ phase \in Connecting /\ phase' \in Connecting
  BY DEF Ordered, EarlyErrors, Connecting
<1>2. /\ InputsSeen' = InputsSeen /\ UnitsSeen' = UnitsSeen
      /\ UnitsConnected' = UnitsConnected /\ OutputsChecked' = OutputsChecked
  BY <1>1 DEF InputsSeen, UnitsSeen, UnitsConnected, OutputsChecked
<1>3. ProducersExact'
  BY <1>1, <1>2 DEF ProducersExact
<1>4. DependenciesExact'
  <2>1. \A k : ProducingUnits(source.units[k])' = ProducingUnits(source.units[k])
    BY DEF ProducingUnits
  <2> QED
    BY <2>1, <1>1, <1>2 DEF DependenciesExact
<1>5. OutputsExact'
  BY <1>1, <1>2 DEF OutputsExact
<1>6. OrderExact'
  BY DEF OrderExact, Placed
<1> QED
  BY <1>3, <1>4, <1>5, <1>6 DEF DenseAgrees

------------------------------------------------------------------------------
(* Producers. *)

(* What Produced leaves, for declarations of resources not produced yet.     *)
LEMMA ProduceAdds ==
  ASSUME NEW decls, NEW unit, ~ ProducedTwice(decls), producers' = Produced(decls, unit)
  PROVE  /\ DOMAIN producers' = DOMAIN producers \cup Resources(decls)
         /\ \A r \in DOMAIN producers : producers'[r] = producers[r]
         /\ \A r \in Resources(decls) : producers'[r] \in
              [semantic : {decls[k].semantic : k \in DOMAIN decls},
               concrete : {decls[k].concrete : k \in DOMAIN decls}, unit : {unit}]
<1> DEFINE by(r) == CHOOSE d \in {decls[k] : k \in DOMAIN decls} : d.resource = r
           new == Resources(decls)
<1>1. producers' = [r \in DOMAIN producers \cup new |->
                      IF r \in new
                        THEN [semantic |-> by(r).semantic,
                              concrete |-> by(r).concrete, unit |-> unit]
                        ELSE producers[r]]
  BY Zenon DEF Produced
<1>2. \A r \in new : by(r) \in {decls[k] : k \in DOMAIN decls}
  <2> TAKE r \in new
  <2>1. \E d \in {decls[k] : k \in DOMAIN decls} : d.resource = r
    BY DEF Resources
  <2> QED
    BY <2>1
<1>3. new \cap DOMAIN producers = {}
  BY DEF ProducedTwice
<1> HIDE DEF by, new
<1>4. /\ DOMAIN producers' = DOMAIN producers \cup new
      /\ \A r \in DOMAIN producers : producers'[r] = producers[r]
  BY <1>1, <1>3
<1>5. \A r \in new :
        producers'[r] = [semantic |-> by(r).semantic, concrete |-> by(r).concrete,
                         unit |-> unit]
  BY <1>1
<1>6. \A r \in new : \E k \in DOMAIN decls : by(r) = decls[k]
  BY <1>2
<1> QED
  BY <1>4, <1>5, <1>6 DEF new

(* DeclareInput. *)
LEMMA DeclareInputKeepsInv ==
  ASSUME FullInv, DeclareInput
  PROVE  FullInv'
<1> DEFINE declared == <<source.inputs[at]>>
<1>1. phase = "inputs" /\ at \in DOMAIN source.inputs
  BY DEF DeclareInput
<1>2. CASE ProducedTwice(declared) /\ Reject("duplicate_producer")
  BY <1>1, <1>2, RejectKeepsInv, EarlyErrorsAre
<1>3. CASE /\ ~ ProducedTwice(declared) /\ producers' = Produced(declared, 0) /\ at' = at + 1
           /\ UNCHANGED <<source, phase, consumers, dependencies, indegree, ready,
                          order, stack, visited, path>>
  <2>1. source \in Source /\ TypeOK /\ ProducersExact
    BY DEF FullInv, CompileInv
  <2>2. source.inputs[at] \in Declared
    BY <1>1, <2>1, SourceTypes
  <2>3. Resources(declared) = {source.inputs[at].resource}
    BY DEF Resources
  <2>4. /\ DOMAIN producers' = DOMAIN producers \cup {source.inputs[at].resource}
        /\ \A r \in DOMAIN producers : producers'[r] = producers[r]
        /\ source.inputs[at].resource \notin DOMAIN producers
        /\ producers'[source.inputs[at].resource] \in
             [semantic : {source.inputs[at].semantic},
              concrete : {source.inputs[at].concrete}, unit : {0}]
    <3>1. DOMAIN declared = {1} /\ declared[1] = source.inputs[at]
      OBVIOUS
    <3> HIDE DEF declared
    <3>2. Resources(declared) \cap DOMAIN producers = {}
      BY <1>3 DEF ProducedTwice
    <3>3. /\ DOMAIN producers' = DOMAIN producers \cup Resources(declared)
          /\ \A r \in DOMAIN producers : producers'[r] = producers[r]
          /\ \A r \in Resources(declared) : producers'[r] \in
               [semantic : {declared[k].semantic : k \in DOMAIN declared},
                concrete : {declared[k].concrete : k \in DOMAIN declared}, unit : {0}]
      BY <1>3, ProduceAdds
    <3>4. producers'[source.inputs[at].resource] \in
            [semantic : {source.inputs[at].semantic},
             concrete : {source.inputs[at].concrete}, unit : {0}]
      BY <2>3, <3>1, <3>3
    <3> QED
      BY <2>3, <3>2, <3>3, <3>4
  <2>5. TypeOK'
    <3>1. \A r \in DOMAIN producers' : producers'[r] \in
            [semantic : Semantic, concrete : Concrete, unit : UnitId \cup {0}]
      BY <2>1, <2>2, <2>4 DEF TypeOK, Declared
    <3>2. DOMAIN producers' \subseteq Resource
      BY <2>1, <2>2, <2>4 DEF TypeOK, Declared
    <3>3. at' \in Nat \ {0}
      BY <1>3, <2>1 DEF TypeOK
    <3> QED
      BY <3>1, <3>2, <3>3, <1>3, <2>1 DEF TypeOK
  <2>6. /\ InputsSeen' = InputsSeen \cup {at} /\ UnitsSeen = {} /\ UnitsSeen' = {}
        /\ at \notin InputsSeen
    BY <1>1, <1>3, <2>1, SourceTypes DEF InputsSeen, UnitsSeen, TypeOK
  <2>7. ProducersExact'
    <3>1. phase \notin EarlyErrors
      BY <1>1, EarlyErrorsAre
    <3>2. /\ DOMAIN producers = {source.inputs[k].resource : k \in InputsSeen}
          /\ \A k \in InputsSeen : producers[source.inputs[k].resource].unit = 0
      BY <2>1, <2>6, <3>1 DEF ProducersExact
    <3>3. DOMAIN producers' = {source.inputs[k].resource : k \in InputsSeen'}
      BY <2>4, <2>6, <3>2
    <3>4. \A k \in InputsSeen' : producers'[source.inputs[k].resource].unit = 0
      BY <2>4, <2>6, <3>2
    <3>5. (UNION {Resources(source.units[k].outputs) : k \in UnitsSeen})' = {}
      BY <2>6
    <3> QED
      BY <1>3, <2>6, <3>3, <3>4, <3>5 DEF ProducersExact
  <2>8. phase \notin Connecting /\ phase \notin Ordered /\ phase # "outputs"
    BY <1>1 DEF Connecting, Ordered
  <2>9. DependenciesExact' /\ OutputsExact' /\ OrderExact'
    BY <1>3, <2>8 DEF DependenciesExact, OutputsExact, OrderExact, FullInv, CompileInv
  <2> QED
    BY <1>1, <1>3, <2>1, <2>5, <2>7, <2>9 DEF FullInv, CompileInv, DenseAgrees
<1> QED
  BY <1>2, <1>3 DEF DeclareInput

(* EndInputs. *)
LEMMA EndInputsKeepsInv ==
  ASSUME FullInv, EndInputs
  PROVE  FullInv'
<1> USE DEF FullInv, CompileInv
<1>1. /\ phase = "inputs" /\ at = Len(source.inputs) + 1 /\ phase' = "units" /\ at' = 1
      /\ UNCHANGED <<source, producers, consumers, dependencies, indegree, ready,
                     order, stack, visited, path>>
  BY DEF EndInputs, EndLoop
<1>2. TypeOK'
  BY <1>1 DEF TypeOK, Loops
<1>3. /\ InputsSeen = DOMAIN source.inputs /\ InputsSeen' = DOMAIN source.inputs
      /\ UnitsSeen = {} /\ UnitsSeen' = {}
  BY <1>1, SourceTypes DEF InputsSeen, UnitsSeen
<1>4. /\ phase \notin EarlyErrors /\ phase' \notin EarlyErrors
      /\ phase' \notin Connecting /\ phase \notin Ordered /\ phase' \notin Ordered
  BY <1>1, EarlyErrorsAre DEF Connecting, Ordered
<1>5. ProducersExact'
  BY <1>1, <1>3, <1>4 DEF ProducersExact
<1>6. DependenciesExact' /\ OutputsExact' /\ OrderExact'
  BY <1>1, <1>4 DEF DependenciesExact, OutputsExact, OrderExact
<1> QED
  BY <1>1, <1>2, <1>5, <1>6 DEF DenseAgrees

(* DeclareUnit. *)
LEMMA DeclareUnitKeepsInv ==
  ASSUME FullInv, DeclareUnit
  PROVE  FullInv'
<1> DEFINE unit == source.units[at]
<1>1. phase = "units" /\ at \in DOMAIN source.units
  BY DEF DeclareUnit
<1>2. CASE \E e \in EarlyErrors : Reject(e)
  BY <1>1, <1>2, RejectKeepsInv
<1>3. CASE /\ ~ SeenBefore(at) /\ ~ ProducedTwice(unit.outputs)
           /\ producers' = Produced(unit.outputs, unit.id) /\ at' = at + 1
           /\ UNCHANGED <<source, phase, consumers, dependencies, indegree, ready,
                          order, stack, visited, path>>
  <2>1. source \in Source /\ TypeOK /\ ProducersExact
    BY DEF FullInv, CompileInv
  <2>2. /\ unit.id \in UnitId /\ unit.outputs \in Seq(Binding) /\ at \in 1 .. Len(source.units)
        /\ DOMAIN source.units = 1 .. Len(source.units) /\ Len(source.units) \in Nat
    BY <1>1, <2>1, SourceTypes
  <2>3. /\ DOMAIN producers' = DOMAIN producers \cup Resources(unit.outputs)
        /\ \A r \in DOMAIN producers : producers'[r] = producers[r]
        /\ \A r \in Resources(unit.outputs) : producers'[r] \in
             [semantic : {unit.outputs[k].semantic : k \in DOMAIN unit.outputs},
              concrete : {unit.outputs[k].concrete : k \in DOMAIN unit.outputs},
              unit : {unit.id}]
    BY <1>3, ProduceAdds
  <2>4. /\ Resources(unit.outputs) \cap DOMAIN producers = {}
        /\ \A i, j \in DOMAIN unit.outputs :
             i # j => unit.outputs[i].resource # unit.outputs[j].resource
    BY <1>3 DEF ProducedTwice
  <2>5. \A j \in 1 .. at - 1 : source.units[j].id # unit.id
    BY <1>3 DEF SeenBefore
  <2>6. TypeOK'
    <3>1. \A r \in Resources(unit.outputs) : producers'[r] \in
            [semantic : Semantic, concrete : Concrete, unit : UnitId \cup {0}]
      <4>1. /\ {unit.outputs[k].semantic : k \in DOMAIN unit.outputs} \subseteq Semantic
            /\ {unit.outputs[k].concrete : k \in DOMAIN unit.outputs} \subseteq Concrete
            /\ {unit.id} \subseteq UnitId \cup {0}
        BY <2>2, BindingTypes
      <4> QED
        BY <2>3, <4>1
    <3>2. \A r \in DOMAIN producers' : producers'[r] \in
            [semantic : Semantic, concrete : Concrete, unit : UnitId \cup {0}]
      BY <2>1, <2>3, <3>1 DEF TypeOK
    <3>3. DOMAIN producers' \subseteq Resource
      BY <2>1, <2>2, <2>3, BindingTypes DEF TypeOK
    <3>4. at' \in Nat \ {0}
      BY <1>3, <2>1 DEF TypeOK
    <3> QED
      BY <3>2, <3>3, <3>4, <1>3, <2>1 DEF TypeOK
  <2>7. /\ InputsSeen' = InputsSeen
        /\ UnitsSeen = 1 .. at - 1 /\ UnitsSeen' = UnitsSeen \cup {at}
    <3>1. UnitsSeen = {k \in DOMAIN source.units : k < at}
      BY <1>1 DEF UnitsSeen
    <3>2. UnitsSeen' = {k \in DOMAIN source.units : k < at + 1}
      BY <1>1, <1>3 DEF UnitsSeen
    <3>3. InputsSeen' = InputsSeen
      BY <1>1, <1>3 DEF InputsSeen
    <3> QED
      BY <2>2, <3>1, <3>2, <3>3
  <2>8. ProducersExact'
    <3>1. phase \notin EarlyErrors
      BY <1>1, EarlyErrorsAre
    <3>2. /\ DOMAIN producers =
               {source.inputs[k].resource : k \in InputsSeen}
                 \cup UNION {Resources(source.units[k].outputs) : k \in UnitsSeen}
          /\ \A k \in InputsSeen : producers[source.inputs[k].resource].unit = 0
          /\ \A k \in UnitsSeen : \A r \in Resources(source.units[k].outputs) :
               producers[r].unit = source.units[k].id
          /\ \A j, k \in UnitsSeen : j # k => source.units[j].id # source.units[k].id
          /\ \A k \in UnitsSeen : \A i, j \in DOMAIN source.units[k].outputs :
               i # j => source.units[k].outputs[i].resource # source.units[k].outputs[j].resource
      BY <2>1, <3>1 DEF ProducersExact
    <3>3. DOMAIN producers' =
            {source.inputs[k].resource : k \in InputsSeen}
              \cup UNION {Resources(source.units[k].outputs) : k \in UnitsSeen'}
      BY <2>3, <2>7, <3>2
    <3>4. \A k \in InputsSeen : producers'[source.inputs[k].resource].unit = 0
      BY <2>3, <3>2
    <3>5. \A k \in UnitsSeen' : \A r \in Resources(source.units[k].outputs) :
            producers'[r].unit = source.units[k].id
      <4>1. \A k \in UnitsSeen : \A r \in Resources(source.units[k].outputs) :
              r \in DOMAIN producers
        BY <3>2
      <4>2. \A r \in Resources(unit.outputs) : producers'[r].unit = unit.id
        BY <2>3
      <4> QED
        BY <2>3, <2>7, <3>2, <4>1, <4>2
    <3>6. \A j, k \in UnitsSeen' : j # k => source.units[j].id # source.units[k].id
      BY <2>5, <2>7, <3>2
    <3>7. \A k \in UnitsSeen' : \A i, j \in DOMAIN source.units[k].outputs :
            i # j => source.units[k].outputs[i].resource # source.units[k].outputs[j].resource
      BY <2>4, <2>7, <3>2
    <3> QED
      BY <1>3, <2>7, <3>3, <3>4, <3>5, <3>6, <3>7 DEF ProducersExact
  <2>9. phase \notin Connecting /\ phase \notin Ordered /\ phase # "outputs"
    BY <1>1 DEF Connecting, Ordered
  <2>10. DependenciesExact' /\ OutputsExact' /\ OrderExact'
    BY <1>3, <2>9 DEF DependenciesExact, OutputsExact, OrderExact, FullInv, CompileInv
  <2> QED
    BY <1>1, <1>3, <2>1, <2>6, <2>8, <2>10 DEF FullInv, CompileInv, DenseAgrees
<1> QED
  BY <1>2, <1>3, EarlyErrorsAre DEF DeclareUnit

(* EndUnits. *)
LEMMA EndUnitsKeepsInv ==
  ASSUME FullInv, EndUnits
  PROVE  FullInv'
<1> USE DEF FullInv, CompileInv
<1>1. /\ phase = "units" /\ at = Len(source.units) + 1
      /\ phase' = "connections" /\ at' = 1
      /\ dependencies' = [u \in {source.units[k].id : k \in DOMAIN source.units} |-> {}]
      /\ UNCHANGED <<source, producers, consumers, indegree, ready, order, stack,
                     visited, path>>
  BY DEF EndUnits, EndLoop
<1>2. \A k \in DOMAIN source.units : source.units[k].id \in UnitId
  BY SourceTypes
<1>3. phase \notin Ordered /\ phase' \notin Ordered /\ phase' \in Connecting
      /\ phase \notin EarlyErrors /\ phase' \notin EarlyErrors
  BY <1>1, EarlyErrorsAre DEF Connecting, Ordered
<1>4. DOMAIN indegree = {} /\ order = <<>> /\ ready = {} /\ consumers = {}
  BY <1>1, <1>3 DEF OrderExact, DependenciesExact
<1>5. TypeOK'
  <2>1. /\ DOMAIN dependencies' = {source.units[k].id : k \in DOMAIN source.units}
        /\ \A u \in DOMAIN dependencies' : dependencies'[u] = {}
    BY <1>1
  <2>2. phase' \in Loops /\ at' \in Nat \ {0}
    BY <1>1 DEF Loops
  <2>3. DOMAIN dependencies' \subseteq UnitId
    BY <1>2, <2>1
  <2> QED
    BY <1>1, <1>4, <2>1, <2>2, <2>3 DEF TypeOK
<1>6. /\ InputsSeen' = InputsSeen /\ UnitsSeen = DOMAIN source.units
      /\ UnitsSeen' = DOMAIN source.units /\ UnitsConnected' = {}
  BY <1>1, SourceTypes DEF InputsSeen, UnitsSeen, UnitsConnected
<1>7. ProducersExact'
  BY <1>1, <1>3, <1>6 DEF ProducersExact
<1>8. DependenciesExact'
  <2>1. (UNION {Consumes(source.units[k]) : k \in UnitsConnected})' = {}
    BY <1>6
  <2> QED
    BY <1>1, <1>4, <1>6, <2>1 DEF DependenciesExact
<1>9. OutputsExact' /\ OrderExact'
  BY <1>1, <1>3, <1>4 DEF OutputsExact, OrderExact
<1> QED
  BY <1>1, <1>5, <1>7, <1>8, <1>9 DEF DenseAgrees

------------------------------------------------------------------------------
(* Consumers, dependencies and outputs. *)

(* The Units a Unit waits for are finitely many, and names.                 *)
LEMMA ProducingUnitsType ==
  ASSUME source \in Source, TypeOK, NEW k \in DOMAIN source.units,
         Resources(source.units[k].inputs) \subseteq DOMAIN producers
  PROVE  /\ ProducingUnits(source.units[k]) \subseteq UnitId
         /\ IsFiniteSet(ProducingUnits(source.units[k]))
<1> DEFINE b == source.units[k].inputs
           n == Len(b)
           f == [j \in 1 .. n |-> producers[b[j].resource].unit]
           T == {producers[r].unit : r \in Resources(b)}
<1>1. b \in Seq(Binding) /\ n \in Nat /\ DOMAIN b = 1 .. n
  BY SourceTypes
<1>2. f \in [1 .. n -> T] /\ \A t \in T : \E j \in 1 .. n : f[j] = t
  BY <1>1 DEF Resources
<1>3. IsFiniteSet(T)
  <2> HIDE DEF n, f, T
  <2> QED
    BY <1>1, <1>2, ElementsOfList
<1>4. IsFiniteSet(ProducingUnits(source.units[k]))
  BY <1>3, FS_Subset DEF ProducingUnits
<1>5. \A r \in Resources(b) : producers[r].unit \in UnitId \cup {0}
  BY DEF TypeOK
<1> QED
  BY <1>4, <1>5 DEF ProducingUnits

(* ConnectUnit. *)
LEMMA ConnectUnitKeepsInv ==
  ASSUME FullInv, ConnectUnit
  PROVE  FullInv'
<1> DEFINE unit == source.units[at]
<1>1. phase = "connections" /\ at \in DOMAIN source.units
  BY DEF ConnectUnit
<1>2. /\ source \in Source /\ TypeOK /\ ProducersExact /\ DependenciesExact
      /\ phase \notin Ordered /\ phase \in Connecting /\ phase \notin EarlyErrors
  BY <1>1, EarlyErrorsAre DEF FullInv, CompileInv, Ordered, Connecting
<1>3. /\ unit.id \in UnitId /\ unit.inputs \in Seq(Binding)
      /\ at \in 1 .. Len(source.units) /\ Len(source.units) \in Nat
      /\ DOMAIN source.units = 1 .. Len(source.units)
      /\ DOMAIN unit.inputs = 1 .. Len(unit.inputs)
  BY <1>1, <1>2, SourceTypes
<1>4. CASE /\ FaultyInputs(unit) # {}
           /\ Reject(BindingFault(unit.inputs[Min(FaultyInputs(unit))]))
  <2>1. Min(FaultyInputs(unit)) \in FaultyInputs(unit)
    <3>1. FaultyInputs(unit) \in SUBSET Nat
      BY <1>3 DEF FaultyInputs
    <3> QED
      BY <1>4, <3>1, MinOfNaturals
  <2>2. BindingFault(unit.inputs[Min(FaultyInputs(unit))]) # "none"
    BY <2>1 DEF FaultyInputs
  <2>3. BindingFault(unit.inputs[Min(FaultyInputs(unit))]) \in EarlyErrors
    BY <2>2, EarlyErrorsAre DEF BindingFault
  <2> QED
    BY <1>1, <1>4, <2>3, RejectKeepsInv
<1>5. CASE /\ FaultyInputs(unit) = {}
           /\ consumers' = consumers \cup Consumes(unit)
           /\ dependencies' = [dependencies EXCEPT ![unit.id] = @ \cup ProducingUnits(unit)]
           /\ at' = at + 1
           /\ UNCHANGED <<source, phase, producers, indegree, ready, order, stack,
                          visited, path>>
  <2>1. Resources(unit.inputs) \subseteq DOMAIN producers
    <3>1. \A k \in DOMAIN unit.inputs : unit.inputs[k].resource \in DOMAIN producers
      BY <1>5 DEF FaultyInputs, BindingFault
    <3> QED
      BY <3>1 DEF Resources
  <2>2. /\ DOMAIN dependencies = {source.units[k].id : k \in DOMAIN source.units}
        /\ \A k \in DOMAIN source.units :
             /\ k \in UnitsConnected =>
                  Resources(source.units[k].inputs) \subseteq DOMAIN producers
             /\ dependencies[source.units[k].id] =
                  IF k \in UnitsConnected THEN ProducingUnits(source.units[k]) ELSE {}
        /\ consumers = UNION {Consumes(source.units[k]) : k \in UnitsConnected}
    BY <1>2 DEF DependenciesExact
  <2>3. /\ UnitsSeen = DOMAIN source.units /\ UnitsSeen' = DOMAIN source.units
        /\ InputsSeen' = InputsSeen
    BY <1>1, <1>5 DEF UnitsSeen, InputsSeen
  <2>4. \A j, k \in DOMAIN source.units : j # k => source.units[j].id # source.units[k].id
    BY <1>2, <2>3 DEF ProducersExact
  <2>5. at \notin UnitsConnected /\ UnitsConnected' = UnitsConnected \cup {at}
    <3>1. UnitsConnected = {k \in DOMAIN source.units : k < at}
      BY <1>1 DEF UnitsConnected
    <3>2. UnitsConnected' = {k \in DOMAIN source.units : k < at + 1}
      BY <1>1, <1>5 DEF UnitsConnected
    <3> QED
      BY <1>3, <3>1, <3>2
  <2>6. /\ DOMAIN dependencies' = DOMAIN dependencies /\ unit.id \in DOMAIN dependencies
        /\ dependencies'[unit.id] = ProducingUnits(unit)
        /\ \A u \in DOMAIN dependencies : u # unit.id => dependencies'[u] = dependencies[u]
    BY <1>1, <1>5, <2>2, <2>5
  <2>7. TypeOK'
    <3>1. \A u \in DOMAIN dependencies' : dependencies'[u] \subseteq UnitId
      <4>1. ProducingUnits(unit) \subseteq UnitId
        BY <1>1, <1>2, <2>1, ProducingUnitsType
      <4> QED
        BY <1>2, <2>6, <4>1 DEF TypeOK
    <3>2. consumers' \subseteq [resource : Resource, unit : UnitId, port : Port]
      <4>1. Consumes(unit) \subseteq [resource : Resource, unit : UnitId, port : Port]
        BY <1>3, BindingTypes DEF Consumes
      <4> QED
        BY <1>2, <1>5, <4>1 DEF TypeOK
    <3>3. at' \in Nat \ {0}
      BY <1>2, <1>5 DEF TypeOK
    <3> QED
      BY <1>2, <1>5, <2>6, <3>1, <3>2, <3>3 DEF TypeOK
  <2>8. ProducersExact'
    BY <1>2, <1>5, <2>3 DEF ProducersExact
  <2>9. DependenciesExact'
    <3>1. \A k \in DOMAIN source.units : ProducingUnits(source.units[k])' = ProducingUnits(source.units[k])
      BY <1>5 DEF ProducingUnits
    <3>2. \A k \in DOMAIN source.units :
             /\ k \in UnitsConnected' =>
                  Resources(source.units[k].inputs) \subseteq DOMAIN producers
             /\ dependencies'[source.units[k].id] =
                  IF k \in UnitsConnected' THEN ProducingUnits(source.units[k]) ELSE {}
      BY <1>1, <2>1, <2>2, <2>4, <2>5, <2>6
    <3>3. consumers' = UNION {Consumes(source.units[k]) : k \in UnitsConnected'}
      BY <1>5, <2>2, <2>5
    <3>4. phase' = phase /\ phase \notin {"inputs", "units"} /\ source' = source
          /\ producers' = producers
      BY <1>1, <1>5
    <3> HIDE DEF unit
    <3> QED
      BY <2>2, <2>6, <3>1, <3>2, <3>3, <3>4 DEF DependenciesExact
  <2>10. OutputsExact' /\ OrderExact'
    BY <1>1, <1>2, <1>5, <2>6 DEF OutputsExact, OrderExact, FullInv, CompileInv
  <2> QED
    BY <1>1, <1>2, <1>5, <2>7, <2>8, <2>9, <2>10 DEF FullInv, CompileInv, DenseAgrees
<1> QED
  BY <1>4, <1>5 DEF ConnectUnit

(* EndConnections. *)
LEMMA EndConnectionsKeepsInv ==
  ASSUME FullInv, EndConnections
  PROVE  FullInv'
<1> USE DEF FullInv, CompileInv
<1>1. /\ phase = "connections" /\ at = Len(source.units) + 1
      /\ phase' = "outputs" /\ at' = 1
      /\ UNCHANGED <<source, producers, consumers, dependencies, indegree, ready, order,
                     stack, visited, path>>
  BY DEF EndConnections, EndLoop
<1>2. /\ phase \notin Ordered /\ phase' \notin Ordered /\ phase \in Connecting
      /\ phase' \in Connecting /\ phase \notin EarlyErrors /\ phase' \notin EarlyErrors
  BY <1>1, EarlyErrorsAre DEF Connecting, Ordered
<1>3. TypeOK'
  BY <1>1 DEF TypeOK, Loops
<1>4. /\ InputsSeen' = InputsSeen /\ UnitsSeen' = UnitsSeen
      /\ UnitsConnected = DOMAIN source.units /\ UnitsConnected' = DOMAIN source.units
      /\ OutputsChecked' = {}
  BY <1>1, SourceTypes DEF InputsSeen, UnitsSeen, UnitsConnected, OutputsChecked
<1>5. ProducersExact'
  BY <1>1, <1>2, <1>4 DEF ProducersExact
<1>6. DependenciesExact'
  <2>1. \A k : ProducingUnits(source.units[k])' = ProducingUnits(source.units[k])
    BY <1>1 DEF ProducingUnits
  <2> QED
    BY <1>1, <1>2, <1>4, <2>1 DEF DependenciesExact
<1>7. OutputsExact' /\ OrderExact'
  BY <1>1, <1>2, <1>4 DEF OutputsExact, OrderExact
<1> QED
  BY <1>1, <1>3, <1>5, <1>6, <1>7 DEF DenseAgrees

(* CheckOutput. *)
LEMMA CheckOutputKeepsInv ==
  ASSUME FullInv, CheckOutput
  PROVE  FullInv'
<1> DEFINE r == source.outputs[at]
<1>1. phase = "outputs" /\ at \in DOMAIN source.outputs
  BY DEF CheckOutput
<1>2. CASE \E e \in EarlyErrors : Reject(e)
  BY <1>1, <1>2, RejectKeepsInv
<1>3. CASE /\ r \in DOMAIN producers /\ producers[r].unit # 0 /\ at' = at + 1
           /\ UNCHANGED <<source, phase, producers, consumers, dependencies,
                          indegree, ready, order, stack, visited, path>>
  <2> USE DEF FullInv, CompileInv
  <2>1. /\ phase \notin Ordered /\ phase \in Connecting /\ phase \notin EarlyErrors
    BY <1>1, EarlyErrorsAre DEF Connecting, Ordered
  <2>2. TypeOK'
    BY <1>3 DEF TypeOK
  <2>3. /\ InputsSeen' = InputsSeen /\ UnitsSeen' = UnitsSeen
        /\ UnitsConnected' = UnitsConnected
    BY <1>1, <1>3 DEF InputsSeen, UnitsSeen, UnitsConnected
  <2>4. ProducersExact'
    BY <1>3, <2>3 DEF ProducersExact
  <2>5. DependenciesExact'
    <3>1. \A k : ProducingUnits(source.units[k])' = ProducingUnits(source.units[k])
      BY <1>3 DEF ProducingUnits
    <3> QED
      BY <1>1, <1>3, <2>1, <2>3, <3>1 DEF DependenciesExact
  <2>6. OutputsChecked' = OutputsChecked \cup {at}
    <3>1. DOMAIN source.outputs \subseteq Nat
      BY SourceTypes
    <3> QED
      BY <1>1, <1>3, <3>1 DEF OutputsChecked
  <2>7. OutputsExact'
    BY <1>1, <1>3, <2>6 DEF OutputsExact
  <2>8. OrderExact'
    BY <1>3, <2>1 DEF OrderExact
  <2> QED
    BY <1>1, <1>3, <2>2, <2>4, <2>5, <2>7, <2>8 DEF DenseAgrees
<1> QED
  BY <1>2, <1>3, EarlyErrorsAre DEF CheckOutput

------------------------------------------------------------------------------
(* Ordering. *)

(* What is known of the dependencies once all Units are connected.          *)
LEMMA DependenciesKnown ==
  ASSUME FullInv, phase \in {"outputs"} \cup Ordered
  PROVE  /\ DOMAIN dependencies = {source.units[k].id : k \in DOMAIN source.units}
         /\ \A k \in DOMAIN source.units :
              /\ Resources(source.units[k].inputs) \subseteq DOMAIN producers
              /\ dependencies[source.units[k].id] = ProducingUnits(source.units[k])
         /\ consumers = UNION {Consumes(source.units[k]) : k \in DOMAIN source.units}
         /\ \A u \in DOMAIN dependencies :
              dependencies[u] \subseteq UnitId /\ IsFiniteSet(dependencies[u])
         /\ DOMAIN dependencies \subseteq UnitId
<1>1. /\ source \in Source /\ TypeOK /\ DependenciesExact /\ phase \in Connecting
      /\ phase # "connections"
  BY DEF FullInv, CompileInv, Ordered, Connecting
<1>2. UnitsConnected = DOMAIN source.units
  BY <1>1 DEF UnitsConnected
<1>3. /\ DOMAIN dependencies = {source.units[k].id : k \in DOMAIN source.units}
      /\ \A k \in DOMAIN source.units :
           /\ Resources(source.units[k].inputs) \subseteq DOMAIN producers
           /\ dependencies[source.units[k].id] = ProducingUnits(source.units[k])
      /\ consumers = UNION {Consumes(source.units[k]) : k \in DOMAIN source.units}
  BY <1>1, <1>2 DEF DependenciesExact
<1>4. \A k \in DOMAIN source.units : IsFiniteSet(ProducingUnits(source.units[k]))
  BY <1>1, <1>3, ProducingUnitsType
<1>5. \A u \in DOMAIN dependencies :
        dependencies[u] \subseteq UnitId /\ IsFiniteSet(dependencies[u])
  BY <1>1, <1>3, <1>4 DEF TypeOK
<1> QED
  BY <1>1, <1>3, <1>5 DEF TypeOK

(* EndOutputs. *)
LEMMA EndOutputsKeepsInv ==
  ASSUME FullInv, EndOutputs
  PROVE  FullInv'
<1>1. /\ phase = "outputs" /\ at = Len(source.outputs) + 1
      /\ phase' = "ordering" /\ at' = 1
      /\ indegree' = [u \in DOMAIN dependencies |-> Cardinality(dependencies[u])]
      /\ ready' = {u \in DOMAIN dependencies : dependencies[u] = {}}
      /\ UNCHANGED <<source, producers, consumers, dependencies, order, stack, visited, path>>
  BY DEF EndOutputs, EndLoop
<1>2. /\ phase \notin Ordered /\ phase' \in Ordered /\ phase \in Connecting
      /\ phase' \in Connecting /\ phase \notin EarlyErrors /\ phase' \notin EarlyErrors
  BY <1>1, EarlyErrorsAre DEF Connecting, Ordered
<1>3. /\ source \in Source /\ TypeOK /\ ProducersExact /\ DependenciesExact
      /\ OutputsExact /\ order = <<>>
  BY <1>2 DEF FullInv, CompileInv, OrderExact
<1>4. \A u \in DOMAIN dependencies : Cardinality(dependencies[u]) \in Nat
  BY <1>1, DependenciesKnown, FS_CardinalityType
<1>5. TypeOK'
  BY <1>1, <1>3, <1>4 DEF TypeOK, Loops
<1>6. /\ InputsSeen' = InputsSeen /\ UnitsSeen' = UnitsSeen
      /\ UnitsConnected' = UnitsConnected
      /\ OutputsChecked = DOMAIN source.outputs /\ OutputsChecked' = OutputsChecked
  BY <1>1, <1>3, SourceTypes DEF InputsSeen, UnitsSeen, UnitsConnected, OutputsChecked
<1>7. ProducersExact'
  BY <1>1, <1>2, <1>3, <1>6 DEF ProducersExact
<1>8. DependenciesExact'
  <2>1. \A k : ProducingUnits(source.units[k])' = ProducingUnits(source.units[k])
    BY <1>1 DEF ProducingUnits
  <2> QED
    BY <1>1, <1>2, <1>3, <1>6, <2>1 DEF DependenciesExact
<1>9. OutputsExact'
  BY <1>1, <1>3, <1>6 DEF OutputsExact
<1>10. OrderExact'
  <2>1. Placed' = {} /\ DOMAIN order = {}
    BY <1>1, <1>3 DEF Placed
  <2>2. \A u \in DOMAIN dependencies :
          /\ dependencies[u] \ Placed' = dependencies[u]
          /\ dependencies[u] \subseteq Placed' <=> dependencies[u] = {}
    BY <2>1
  <2>3. \A u \in DOMAIN dependencies : indegree'[u] = Cardinality(dependencies[u] \ Placed')
    BY <1>1, <2>2
  <2>4. ready' = {u \in DOMAIN dependencies \ Placed' : dependencies[u] \subseteq Placed'}
    BY <1>1, <2>1, <2>2
  <2> QED
    BY <1>1, <1>2, <2>1, <2>3, <2>4 DEF OrderExact
<1> QED
  BY <1>1, <1>3, <1>5, <1>7, <1>8, <1>9, <1>10 DEF FullInv, CompileInv, DenseAgrees

(* Placing u brings the indegree of its consumers down by one.              *)
LEMMA PlacingCounts ==
  ASSUME NEW D, IsFiniteSet(D), NEW P, NEW u, u \notin P
  PROVE  /\ Cardinality(D \ P) \in Nat
         /\ u \in D => Cardinality(D \ (P \cup {u})) = Cardinality(D \ P) - 1
         /\ u \notin D => Cardinality(D \ (P \cup {u})) = Cardinality(D \ P)
         /\ D \subseteq P <=> Cardinality(D \ P) = 0
         /\ u \in D => (D \subseteq P \cup {u} <=> Cardinality(D \ P) = 1)
<1>1. IsFiniteSet(D \ P)
  BY FS_Subset
<1>2. Cardinality(D \ P) \in Nat
  BY <1>1, FS_CardinalityType
<1>3. D \ (P \cup {u}) = (D \ P) \ {u}
  OBVIOUS
<1>4. /\ IsFiniteSet((D \ P) \ {u})
      /\ Cardinality((D \ P) \ {u}) =
           IF u \in D \ P THEN Cardinality(D \ P) - 1 ELSE Cardinality(D \ P)
  BY <1>1, FS_RemoveElement
<1>5. Cardinality(D \ P) = 0 <=> D \ P = {}
  BY <1>1, FS_EmptySet
<1>6. Cardinality((D \ P) \ {u}) = 0 <=> (D \ P) \ {u} = {}
  BY <1>4, FS_EmptySet
<1>7. u \in D => (D \subseteq P \cup {u} <=> Cardinality(D \ P) = 1)
  BY <1>2, <1>4, <1>6
<1> QED
  BY <1>2, <1>3, <1>4, <1>5, <1>7

(* PlaceUnit. *)
LEMMA PlaceUnitKeepsInv ==
  ASSUME FullInv, PlaceUnit
  PROVE  FullInv'
<1> DEFINE u == Min(ready)
           out == Outgoing(u)
           n == Len(order)
<1>1. /\ phase = "ordering" /\ ready # {} /\ order' = Append(order, u)
      /\ indegree' = [v \in DOMAIN indegree |->
                        IF v \in out THEN indegree[v] - 1 ELSE indegree[v]]
      /\ ready' = (ready \ {u}) \cup {v \in out : indegree[v] = 1}
      /\ UNCHANGED <<source, phase, at, producers, consumers, dependencies, stack,
                     visited, path>>
  BY DEF PlaceUnit
<1>2. /\ source \in Source /\ TypeOK /\ phase \in Ordered /\ phase \in Connecting
      /\ phase \notin EarlyErrors /\ DenseAgrees
  BY <1>1, EarlyErrorsAre DEF FullInv, CompileInv, Ordered, Connecting
<1>3. /\ ProducersExact /\ DependenciesExact /\ OutputsExact
  BY DEF FullInv, CompileInv
<1>4. /\ DOMAIN indegree = DOMAIN dependencies
      /\ Placed \subseteq DOMAIN dependencies
      /\ \A j, k \in DOMAIN order : j # k => order[j] # order[k]
      /\ \A k \in DOMAIN order :
           LET before == {order[j] : j \in 1 .. k - 1} IN
           /\ dependencies[order[k]] \subseteq before
           /\ \A v \in DOMAIN dependencies \ before :
                v < order[k] => ~ (dependencies[v] \subseteq before)
      /\ \A v \in DOMAIN dependencies :
           indegree[v] = Cardinality(dependencies[v] \ Placed)
      /\ ready = {v \in DOMAIN dependencies \ Placed : dependencies[v] \subseteq Placed}
  BY <1>2 DEF FullInv, CompileInv, OrderExact
<1>5. /\ \A v \in DOMAIN dependencies :
           dependencies[v] \subseteq UnitId /\ IsFiniteSet(dependencies[v])
      /\ DOMAIN dependencies \subseteq UnitId
  BY <1>2, DependenciesKnown
<1>6. u \in ready /\ \A v \in ready : u <= v
  <2>1. ready \in SUBSET Nat
    BY <1>4, <1>5, UnitNames
  <2> HIDE DEF u
  <2> QED
    BY <1>1, <2>1, MinOfNaturals DEF u
<1> HIDE DEF u
<1>7. u \in DOMAIN dependencies /\ u \notin Placed /\ dependencies[u] \subseteq Placed
  BY <1>4, <1>6
<1>8. /\ out = {v \in DOMAIN dependencies : u \in dependencies[v]}
  BY DEF Outgoing
<1> HIDE DEF out
<1>9. /\ n \in Nat /\ DOMAIN order = 1 .. n /\ DOMAIN order' = 1 .. n + 1
      /\ order'[n + 1] = u /\ \A k \in 1 .. n : order'[k] = order[k]
      /\ order \in Seq(UnitId) /\ order' \in Seq(UnitId)
  BY <1>1, <1>2, <1>5, <1>7 DEF TypeOK
<1>10. Placed = {order[j] : j \in 1 .. n} /\ Placed' = Placed \cup {u}
  BY <1>9 DEF Placed
<1>11. \A v \in Placed : v \in DOMAIN dependencies /\ dependencies[v] \subseteq Placed
  <2> TAKE v \in Placed
  <2>1. PICK k \in 1 .. n : v = order[k]
    BY <1>10
  <2>2. {order[j] : j \in 1 .. k - 1} \subseteq Placed
    BY <1>9, <1>10
  <2> QED
    BY <1>4, <1>9, <2>1, <2>2
<1>12. \A v \in DOMAIN dependencies :
         /\ Cardinality(dependencies[v] \ Placed) \in Nat
         /\ u \in dependencies[v] =>
              Cardinality(dependencies[v] \ (Placed \cup {u}))
                = Cardinality(dependencies[v] \ Placed) - 1
         /\ u \notin dependencies[v] =>
              Cardinality(dependencies[v] \ (Placed \cup {u}))
                = Cardinality(dependencies[v] \ Placed)
         /\ dependencies[v] \subseteq Placed
              <=> Cardinality(dependencies[v] \ Placed) = 0
         /\ u \in dependencies[v] =>
              (dependencies[v] \subseteq Placed \cup {u}
                 <=> Cardinality(dependencies[v] \ Placed) = 1)
  BY <1>5, <1>7, PlacingCounts
<1>13. \A v \in DOMAIN dependencies :
         indegree'[v] = Cardinality(dependencies[v] \ Placed')
  BY <1>1, <1>4, <1>8, <1>10, <1>12
<1>14. \A v \in DOMAIN dependencies : Cardinality(dependencies[v] \ Placed') \in Nat
  <2> TAKE v \in DOMAIN dependencies
  <2>1. IsFiniteSet(dependencies[v] \ Placed')
    BY <1>5, FS_Subset
  <2> QED
    BY <2>1, FS_CardinalityType
<1>15. ready' = {v \in DOMAIN dependencies \ Placed' : dependencies[v] \subseteq Placed'}
  <2>1. ASSUME NEW v \in ready'
        PROVE  v \in DOMAIN dependencies \ Placed' /\ dependencies[v] \subseteq Placed'
    <3>1. CASE v \in ready \ {u}
      BY <3>1, <1>4, <1>10
    <3>2. CASE v \in out /\ indegree[v] = 1
      <4>1. v \in DOMAIN dependencies /\ u \in dependencies[v]
            /\ Cardinality(dependencies[v] \ Placed) = 1
        BY <3>2, <1>4, <1>8
      <4>2. dependencies[v] \subseteq Placed \cup {u}
        BY <4>1, <1>12
      <4>3. v \notin Placed
        BY <4>1, <1>7, <1>11
      <4>4. v # u
        BY <4>1, <1>7
      <4> QED
        BY <4>1, <4>2, <4>3, <4>4, <1>10
    <3> QED
      BY <2>1, <3>1, <3>2, <1>1
  <2>2. ASSUME NEW v \in DOMAIN dependencies \ Placed', dependencies[v] \subseteq Placed'
        PROVE  v \in ready'
    <3>1. CASE u \in dependencies[v]
      <4>1. Cardinality(dependencies[v] \ Placed) = 1
        BY <2>2, <3>1, <1>10, <1>12
      <4>2. v \in out /\ indegree[v] = 1
        BY <4>1, <3>1, <1>4, <1>8
      <4> QED
        BY <4>2, <1>1
    <3>2. CASE u \notin dependencies[v]
      <4>1. v \in ready \ {u}
        BY <2>2, <3>2, <1>4, <1>10
      <4> QED
        BY <4>1, <1>1
    <3> QED
      BY <3>1, <3>2
  <2> QED
    BY <2>1, <2>2
<1>16. TypeOK'
  <2>1. DOMAIN indegree' = DOMAIN dependencies
    BY <1>1, <1>4
  <2>2. ready' \subseteq DOMAIN dependencies
    BY <1>15
  <2>3. \A v \in DOMAIN indegree' : indegree'[v] \in Nat
    BY <2>1, <1>13, <1>14
  <2> QED
    BY <1>1, <1>2, <1>9, <2>1, <2>2, <2>3 DEF TypeOK
<1>17. OrderExact'
  <2>1. \A j, k \in DOMAIN order' : j # k => order'[j] # order'[k]
    <3>1. \A j \in 1 .. n : order[j] # u
      BY <1>7, <1>10
    <3> QED
      BY <3>1, <1>4, <1>9
  <2>2. ASSUME NEW k \in DOMAIN order'
        PROVE  LET before == {order'[j] : j \in 1 .. k - 1} IN
               /\ dependencies[order'[k]] \subseteq before
               /\ \A v \in DOMAIN dependencies \ before :
                    v < order'[k] => ~ (dependencies[v] \subseteq before)
    <3> DEFINE before == {order[j] : j \in 1 .. k - 1}
    <3>1. {order'[j] : j \in 1 .. k - 1} = before
      <4>1. \A j \in 1 .. k - 1 : order'[j] = order[j]
        BY <1>9
      <4> QED
        BY <4>1
    <3>2. CASE k \in 1 .. n
      BY <3>1, <3>2, <1>4, <1>9
    <3>3. CASE k = n + 1
      <4>1. before = Placed
        BY <3>3, <1>9, <1>10
      <4>2. \A v \in DOMAIN dependencies \ Placed :
              v < u => ~ (dependencies[v] \subseteq Placed)
        <5> SUFFICES ASSUME NEW v \in DOMAIN dependencies \ Placed, v < u,
                            dependencies[v] \subseteq Placed
                     PROVE  FALSE
          OBVIOUS
        <5>1. v \in ready
          BY <1>4
        <5>2. u \in Nat /\ v \in Nat
          BY <1>5, <1>7, UnitNames
        <5> QED
          BY <5>1, <5>2, <1>6
      <4> HIDE DEF before
      <4> QED
        BY <3>1, <3>3, <4>1, <4>2, <1>7, <1>9
    <3> QED
      BY <3>2, <3>3, <1>9
  <2>3. Placed' \subseteq DOMAIN dependencies
    BY <1>4, <1>7, <1>10
  <2>4. DOMAIN indegree' = DOMAIN dependencies
    BY <1>1, <1>4
  <2>5. phase' \in Ordered /\ dependencies' = dependencies
    BY <1>1, <1>2
  <2> QED
    BY <2>1, <2>2, <2>3, <2>4, <2>5, <1>13, <1>15 DEF OrderExact
<1>18. /\ InputsSeen' = InputsSeen /\ UnitsSeen' = UnitsSeen
       /\ UnitsConnected' = UnitsConnected /\ OutputsChecked' = OutputsChecked
  BY <1>1 DEF InputsSeen, UnitsSeen, UnitsConnected, OutputsChecked
<1>19. ProducersExact' /\ OutputsExact'
  BY <1>1, <1>3, <1>18 DEF ProducersExact, OutputsExact
<1>20. DependenciesExact'
  <2>1. \A k : ProducingUnits(source.units[k])' = ProducingUnits(source.units[k])
    BY <1>1 DEF ProducingUnits
  <2> QED
    BY <1>1, <1>2, <1>3, <1>18, <2>1 DEF DependenciesExact
<1> QED
  BY <1>1, <1>2, <1>16, <1>17, <1>19, <1>20 DEF FullInv, CompileInv, DenseAgrees

(* FinishCompile and StartSearch. *)
LEMMA FinishCompileKeepsInv ==
  ASSUME FullInv, FinishCompile \/ StartSearch
  PROVE  FullInv'
<1>1. /\ phase = "ordering" /\ phase' \in {"duplicate_output", "compiled", "search"}
      /\ phase' = "compiled" => Len(order) = Cardinality(DOMAIN indegree)
      /\ UNCHANGED <<source, at, producers, consumers, dependencies, indegree,
                     ready, order, stack, visited, path>>
  BY DEF FinishCompile, StartSearch, Reject
<1>2. phase \in Ordered /\ phase' \in Ordered
  BY <1>1 DEF Ordered
<1>3. TypeOK'
  BY <1>1 DEF FullInv, CompileInv, TypeOK, Errors, Loops
<1> QED
  BY <1>1, <1>2, <1>3, LaterKeepsInv

------------------------------------------------------------------------------
(* The search for a cycle. *)

(* Units still waiting are names, and so are the neighbours of a frame.     *)
LEMMA FrameType ==
  ASSUME TypeOK, NEW v \in UnitId
  PROVE  /\ Remaining \subseteq UnitId
         /\ Frame(v) \in [unit : UnitId, untried : SUBSET UnitId]
BY DEF TypeOK, Remaining, Frame

(* VisitRoot, TryNeighbour and Retreat touch the stack and what was visited. *)
LEMMA SearchKeepsInv ==
  ASSUME FullInv, VisitRoot \/ TryNeighbour \/ Retreat
  PROVE  FullInv'
<1> DEFINE FrameOf == [unit : UnitId, untried : SUBSET UnitId]
<1>1. /\ phase = "search"
      /\ UNCHANGED <<source, at, producers, consumers, dependencies, indegree,
                     ready, order>>
  BY DEF VisitRoot, TryNeighbour, Retreat
<1>2. TypeOK
  BY DEF FullInv, CompileInv
<1>3. /\ phase' \in {"search", "cycle"} /\ stack' \in Seq(FrameOf)
      /\ visited' \subseteq UnitId
  <2>1. CASE VisitRoot
    <3> DEFINE roots == Remaining \ visited
    <3>1. CASE roots = {}
      BY <1>1, <1>2, <2>1, <3>1 DEF VisitRoot, TypeOK
    <3>2. CASE roots # {}
      <4>1. Remaining \subseteq UnitId
        BY <1>2 DEF TypeOK, Remaining
      <4>2. Min(roots) \in roots
        BY <3>2, <4>1, UnitNames, MinOfNaturals
      <4>3. Min(roots) \in UnitId
        BY <4>1, <4>2
      <4>4. Frame(Min(roots)) \in FrameOf
        BY <1>2, <4>3, FrameType
      <4>5. /\ stack' = <<Frame(Min(roots))>> /\ phase' = "search"
            /\ visited' = visited \cup {Min(roots)}
        BY <1>1, <2>1, <3>2 DEF VisitRoot
      <4> HIDE DEF roots, FrameOf
      <4> QED
        BY <1>2, <4>3, <4>4, <4>5 DEF TypeOK
    <3> QED
      BY <3>1, <3>2
  <2>2. CASE TryNeighbour
    <3> DEFINE v == Min(Top.untried)
    <3>1. stack # <<>> /\ Top.untried # {} /\ stack \in Seq(FrameOf)
      BY <1>2, <2>2 DEF TryNeighbour, TypeOK
    <3>2. Top \in FrameOf /\ Len(stack) \in DOMAIN stack
      <4> HIDE DEF FrameOf
      <4>1. Len(stack) \in 1 .. Len(stack)
        BY <3>1
      <4> QED
        BY <3>1, <4>1 DEF Top
    <3>3. v \in Top.untried /\ Top.untried \in SUBSET UnitId
      BY <3>1, <3>2, UnitNames, MinOfNaturals
    <3>4. v \in UnitId
      BY <3>3
    <3>5. Frame(v) \in FrameOf
      BY <1>2, <3>4, FrameType
    <3> HIDE DEF v
    <3>6. Tried(v) \in Seq(FrameOf)
      <4>1. Tried(v) = [stack EXCEPT ![Len(stack)] = [Top EXCEPT !.untried = Top.untried \ {v}]]
        BY DEF Tried, Top
      <4>2. [Top EXCEPT !.untried = Top.untried \ {v}] \in FrameOf
        BY <3>2, <3>3
      <4> QED
        BY <3>1, <3>2, <4>1, <4>2
    <3>7. \/ CloseCycle(v)
          \/ stack' = Tried(v) /\ UNCHANGED <<phase, visited, path>>
          \/ /\ stack' = Append(Tried(v), Frame(v)) /\ visited' = visited \cup {v}
             /\ UNCHANGED <<phase, path>>
      BY <2>2 DEF TryNeighbour, v
    <3>8. CASE CloseCycle(v)
      BY <1>2, <3>8 DEF CloseCycle, TypeOK
    <3>9. CASE stack' = Tried(v) /\ UNCHANGED <<phase, visited, path>>
      BY <1>1, <1>2, <3>6, <3>9 DEF TypeOK
    <3>10. CASE /\ stack' = Append(Tried(v), Frame(v)) /\ visited' = visited \cup {v}
                /\ UNCHANGED <<phase, path>>
      <4> HIDE DEF FrameOf
      <4>1. stack' \in Seq(FrameOf)
        BY <3>5, <3>6, <3>10
      <4> QED
        BY <1>1, <1>2, <3>4, <3>10, <4>1 DEF TypeOK
    <3> QED
      BY <3>7, <3>8, <3>9, <3>10
  <2>3. CASE Retreat
    <3>1. /\ stack # <<>> /\ stack' = SubSeq(stack, 1, Len(stack) - 1)
          /\ stack \in Seq(FrameOf) /\ UNCHANGED <<phase, visited>>
      BY <1>2, <2>3 DEF Retreat, TypeOK
    <3> HIDE DEF FrameOf
    <3>2. stack' \in Seq(FrameOf)
      BY <3>1
    <3> QED
      BY <1>1, <1>2, <3>1, <3>2 DEF TypeOK
  <2> QED
    BY <2>1, <2>2, <2>3
<1>4. TypeOK'
  BY <1>1, <1>2, <1>3 DEF TypeOK, Loops, Errors
<1>5. phase \in Ordered /\ phase' \in Ordered
  BY <1>1, <1>3 DEF Ordered
<1> QED
  BY <1>1, <1>3, <1>4, <1>5, LaterKeepsInv

------------------------------------------------------------------------------
(* The finished graph. *)

(* A name finds its Unit.                                                   *)
LEMMA NamesAreUnique ==
  ASSUME FullInv, phase \in Ordered
  PROVE  /\ source \in Source
         /\ UnitsSeen = DOMAIN source.units /\ InputsSeen = DOMAIN source.inputs
         /\ \A j, k \in DOMAIN source.units :
              j # k => source.units[j].id # source.units[k].id
         /\ \A k \in DOMAIN source.units :
              UnitNamed(source.units[k].id) = source.units[k]
         /\ \A u \in DOMAIN dependencies : \E k \in DOMAIN source.units :
              u = source.units[k].id /\ UnitNamed(u) = source.units[k]
<1>1. /\ source \in Source /\ ProducersExact /\ phase \notin EarlyErrors
      /\ phase \notin {"inputs", "units"}
  BY DEF FullInv, CompileInv, Ordered, EarlyErrors
<1>2. UnitsSeen = DOMAIN source.units /\ InputsSeen = DOMAIN source.inputs
  BY <1>1 DEF UnitsSeen, InputsSeen
<1>3. \A j, k \in DOMAIN source.units : j # k => source.units[j].id # source.units[k].id
  BY <1>1, <1>2 DEF ProducersExact
<1>4. \A k \in DOMAIN source.units : UnitNamed(source.units[k].id) = source.units[k]
  BY <1>3 DEF UnitNamed
<1>5. DOMAIN dependencies = {source.units[k].id : k \in DOMAIN source.units}
  BY DependenciesKnown
<1> QED
  BY <1>1, <1>2, <1>3, <1>4, <1>5

(* An order as long as there are Units has all of them.                     *)
LEMMA OrderIsComplete ==
  ASSUME FullInv, phase \in {"compiled", "dense"}
  PROVE  /\ Placed = DOMAIN dependencies
         /\ Len(order) = Len(source.units)
         /\ order \in Seq(UnitId)
         /\ \A k \in DOMAIN order : Position(order[k]) = k
<1>1. /\ phase \in Ordered /\ TypeOK /\ OrderExact
      /\ Len(order) = Cardinality(DOMAIN indegree)
  BY DEF FullInv, CompileInv, Ordered
<1>2. /\ DOMAIN indegree = DOMAIN dependencies /\ Placed \subseteq DOMAIN dependencies
      /\ \A j, k \in DOMAIN order : j # k => order[j] # order[k]
  BY <1>1 DEF OrderExact
<1>3. order \in Seq(UnitId) /\ Len(order) \in Nat /\ DOMAIN order = 1 .. Len(order)
  BY <1>1 DEF TypeOK
<1>4. Cardinality(Placed) = Len(order)
  <2>1. /\ order \in [1 .. Len(order) -> Placed]
        /\ \A t \in Placed : \E k \in 1 .. Len(order) : order[k] = t
    BY <1>3 DEF Placed
  <2>2. (\A j, k \in 1 .. Len(order) : j # k => order[j] # order[k])
          => Cardinality(Placed) = Len(order)
    BY ONLY <1>3, <2>1, ElementsOfList
  <2> QED
    BY <1>2, <1>3, <2>2
<1>5. /\ IsFiniteSet(DOMAIN dependencies)
      /\ Cardinality(DOMAIN dependencies) = Len(source.units)
  <2> DEFINE n == Len(source.units)
             f == [k \in 1 .. n |-> source.units[k].id]
  <2>1. source.units \in Seq(UnitDecl) /\ n \in Nat /\ DOMAIN source.units = 1 .. n
    BY SourceTypes DEF FullInv
  <2>2. /\ f \in [1 .. n -> DOMAIN dependencies]
        /\ \A t \in DOMAIN dependencies : \E k \in 1 .. n : f[k] = t
    BY <1>1, <2>1, DependenciesKnown
  <2>3. \A j, k \in 1 .. n : j # k => f[j] # f[k]
    BY <1>1, <2>1, NamesAreUnique
  <2> HIDE DEF f
  <2> QED
    BY <2>1, <2>2, <2>3, ElementsOfList
<1>6. Placed = DOMAIN dependencies
  BY <1>1, <1>2, <1>4, <1>5, FS_Subset
<1>7. \A k \in DOMAIN order : Position(order[k]) = k
  BY <1>2 DEF Position
<1> QED
  BY <1>1, <1>2, <1>3, <1>5, <1>6, <1>7

(* The ports and the producers say the same.                                *)
LEMMA PortsKnown ==
  ASSUME FullInv, phase \in Ordered
  PROVE  /\ \A k \in DOMAIN source.units :
              /\ source.units[k].id # 0
              /\ Resources(source.units[k].inputs) \subseteq DOMAIN producers
              /\ \A r \in Resources(source.units[k].outputs) :
                   r \in DOMAIN producers /\ producers[r].unit = source.units[k].id
              /\ \A i, j \in DOMAIN source.units[k].outputs :
                   i # j => source.units[k].outputs[i].resource
                              # source.units[k].outputs[j].resource
         /\ \A r \in DOMAIN producers :
              \/ producers[r].unit = 0
              \/ \E k \in DOMAIN source.units : r \in Resources(source.units[k].outputs)
<1>1. /\ ProducersExact /\ phase \notin EarlyErrors
  BY DEF FullInv, CompileInv, Ordered, EarlyErrors
<1>2. UnitsSeen = DOMAIN source.units /\ InputsSeen = DOMAIN source.inputs
  BY NamesAreUnique
<1>3. \A k \in DOMAIN source.units : source.units[k].id # 0
  BY SourceTypes, UnitNames DEF FullInv
<1>4. /\ DOMAIN producers =
           {source.inputs[k].resource : k \in DOMAIN source.inputs}
             \cup UNION {Resources(source.units[k].outputs) : k \in DOMAIN source.units}
      /\ \A k \in DOMAIN source.inputs : producers[source.inputs[k].resource].unit = 0
      /\ \A k \in DOMAIN source.units : \A r \in Resources(source.units[k].outputs) :
           producers[r].unit = source.units[k].id
      /\ \A k \in DOMAIN source.units : \A i, j \in DOMAIN source.units[k].outputs :
           i # j => source.units[k].outputs[i].resource # source.units[k].outputs[j].resource
  BY <1>1, <1>2 DEF ProducersExact
<1>5. \A k \in DOMAIN source.units :
        Resources(source.units[k].inputs) \subseteq DOMAIN producers
  BY DependenciesKnown
<1> QED
  BY <1>3, <1>4, <1>5

(* What a Unit in the order reads comes from the Module or from before.     *)
LEMMA ReadsComeBefore ==
  ASSUME FullInv, phase \in Ordered, NEW k \in DOMAIN order
  PROVE  /\ \E j \in DOMAIN source.units :
              order[k] = source.units[j].id /\ UnitNamed(order[k]) = source.units[j]
         /\ \A r \in Resources(UnitNamed(order[k]).inputs) :
              /\ r \in DOMAIN producers
              /\ producers[r].unit # 0 =>
                   \E j \in 1 .. k - 1 : order[j] = producers[r].unit
<1>1. OrderExact
  BY DEF FullInv, CompileInv
<1>2. dependencies[order[k]] \subseteq {order[j] : j \in 1 .. k - 1}
  BY <1>1 DEF OrderExact
<1>3. order[k] \in DOMAIN dependencies
  BY <1>1 DEF OrderExact, Placed
<1>4. PICK j \in DOMAIN source.units :
        order[k] = source.units[j].id /\ UnitNamed(order[k]) = source.units[j]
  BY <1>3, NamesAreUnique
<1>5. dependencies[order[k]] = ProducingUnits(source.units[j])
  BY <1>4, DependenciesKnown
<1>6. \A r \in Resources(source.units[j].inputs) :
        producers[r].unit # 0 => producers[r].unit \in dependencies[order[k]]
  BY <1>5 DEF ProducingUnits
<1>7. Resources(source.units[j].inputs) \subseteq DOMAIN producers
  BY PortsKnown
<1> QED
  BY <1>2, <1>4, <1>6, <1>7

(* into_dense finds nothing to reject.                                      *)
LEMMA DenseAccepts ==
  ASSUME FullInv, phase = "compiled"
  PROVE  EdgesValid /\ OrderValid
<1>1. phase \in Ordered /\ phase \in {"compiled", "dense"}
  BY DEF Ordered
<1>2. /\ \A j, k \in DOMAIN source.units :
           j # k => source.units[j].id # source.units[k].id
      /\ \A k \in DOMAIN source.units :
           /\ source.units[k].id \in DOMAIN dependencies
           /\ UnitNamed(source.units[k].id) = source.units[k]
      /\ \A u \in DOMAIN dependencies : \E k \in DOMAIN source.units :
           u = source.units[k].id /\ UnitNamed(u) = source.units[k]
  BY <1>1, NamesAreUnique, DependenciesKnown
<1>3. EdgesValid
  <2>1. ASSUME NEW r \in DOMAIN producers
        PROVE  /\ producers[r].unit = 0 => Writers(r) = {}
               /\ producers[r].unit # 0 =>
                    \E w \in Writers(r) : w[1] = producers[r].unit /\ Writers(r) = {w}
    <3>1. ASSUME NEW w \in Writers(r)
          PROVE  /\ producers[r].unit # 0
                 /\ \E k \in DOMAIN source.units :
                      /\ source.units[k].id = producers[r].unit
                      /\ \E i \in DOMAIN source.units[k].outputs :
                           /\ w = <<producers[r].unit, i>>
                           /\ source.units[k].outputs[i].resource = r
      <4>1. PICK u \in DOMAIN dependencies :
              \E i \in DOMAIN UnitNamed(u).outputs :
                w = <<u, i>> /\ UnitNamed(u).outputs[i].resource = r
        BY <3>1 DEF Writers
      <4>2. PICK k \in DOMAIN source.units :
              u = source.units[k].id /\ UnitNamed(u) = source.units[k]
        BY <1>2
      <4>3. r \in Resources(source.units[k].outputs)
        BY <4>1, <4>2 DEF Resources
      <4>4. producers[r].unit = u /\ u # 0
        BY <1>1, <4>2, <4>3, PortsKnown
      <4> QED
        BY <4>1, <4>2, <4>4
    <3>2. CASE producers[r].unit # 0
      <4>1. PICK k \in DOMAIN source.units : r \in Resources(source.units[k].outputs)
        BY <1>1, <3>2, PortsKnown
      <4>2. PICK i \in DOMAIN source.units[k].outputs :
              source.units[k].outputs[i].resource = r
        BY <4>1 DEF Resources
      <4>3. producers[r].unit = source.units[k].id
        BY <1>1, <4>1, PortsKnown
      <4>4. <<source.units[k].id, i>> \in Writers(r)
        BY <1>2, <4>2 DEF Writers
      <4>5. \A w \in Writers(r) : w = <<source.units[k].id, i>>
        <5> TAKE w \in Writers(r)
        <5>1. PICK l \in DOMAIN source.units :
                /\ source.units[l].id = producers[r].unit
                /\ \E j \in DOMAIN source.units[l].outputs :
                     /\ w = <<producers[r].unit, j>>
                     /\ source.units[l].outputs[j].resource = r
          BY <3>1
        <5>2. l = k
          BY <1>2, <4>3, <5>1
        <5>3. PICK j \in DOMAIN source.units[k].outputs :
                w = <<source.units[k].id, j>> /\ source.units[k].outputs[j].resource = r
          BY <4>3, <5>1, <5>2
        <5>4. j = i
          BY <1>1, <4>2, <5>3, PortsKnown
        <5> QED
          BY <5>3, <5>4
      <4> DEFINE w == <<source.units[k].id, i>>
      <4>6. w \in Writers(r) /\ w[1] = producers[r].unit
        BY <4>3, <4>4
      <4>7. Writers(r) = {w}
        BY <4>4, <4>5
      <4> HIDE DEF w
      <4> QED
        BY <3>2, <4>6, <4>7
    <3> QED
      BY <3>1, <3>2
  <2>2. \A u \in DOMAIN dependencies :
          Resources(UnitNamed(u).outputs) \subseteq DOMAIN producers
    BY <1>1, <1>2, PortsKnown
  <2>3. consumers = UNION {Consumes(UnitNamed(u)) : u \in DOMAIN dependencies}
    <3>1. {Consumes(UnitNamed(u)) : u \in DOMAIN dependencies}
            = {Consumes(source.units[k]) : k \in DOMAIN source.units}
      BY <1>2
    <3> QED
      BY <1>1, <3>1, DependenciesKnown
  <2> QED
    BY <2>1, <2>2, <2>3 DEF EdgesValid
<1>4. OrderValid
  <2>1. /\ Placed = DOMAIN dependencies /\ Len(order) = Len(source.units)
        /\ \A k \in DOMAIN order : Position(order[k]) = k
        /\ DOMAIN order = 1 .. Len(order) /\ Len(order) \in Nat
    BY <1>1, OrderIsComplete
  <2>2. ASSUME NEW u \in Placed, NEW r \in Resources(UnitNamed(u).inputs)
        PROVE  /\ r \in DOMAIN producers
               /\ producers[r].unit # 0 => Position(producers[r].unit) < Position(u)
    <3>1. PICK k \in DOMAIN order : u = order[k]
      BY <2>2 DEF Placed
    <3>2. /\ r \in DOMAIN producers
          /\ producers[r].unit # 0 => \E j \in 1 .. k - 1 : order[j] = producers[r].unit
      BY <1>1, <2>2, <3>1, ReadsComeBefore
    <3>3. ASSUME NEW j \in 1 .. k - 1
          PROVE  Position(order[j]) < Position(order[k])
      <4>1. j \in DOMAIN order /\ j < k
        BY <2>1
      <4> QED
        BY <2>1, <4>1
    <3> QED
      BY <3>1, <3>2, <3>3
  <2> QED
    BY <2>1, <2>2 DEF OrderValid
<1> QED
  BY <1>3, <1>4

(* IntoDense. *)
LEMMA IntoDenseKeepsInv ==
  ASSUME FullInv, IntoDense
  PROVE  FullInv'
<1>1. /\ phase = "compiled" /\ phase' = "dense"
      /\ UNCHANGED <<source, at, producers, consumers, dependencies, indegree,
                     ready, order, stack, visited, path>>
  BY DenseAccepts DEF IntoDense
<1>2. TypeOK'
  BY <1>1 DEF FullInv, CompileInv, TypeOK
<1>3. Len(order) = Cardinality(DOMAIN indegree)
  BY <1>1 DEF FullInv, CompileInv
<1> QED
  BY <1>1, <1>2, <1>3, LaterKeepsInv DEF Ordered

------------------------------------------------------------------------------
(* The theorems. *)

(* The invariant holds before compiling starts.                             *)
LEMMA InitInv == Init => FullInv
<1> SUFFICES ASSUME Init PROVE FullInv
  OBVIOUS
<1>1. TypeOK
  BY DEF Init, TypeOK, Loops
<1>2. /\ phase \notin Connecting /\ phase \notin Ordered /\ phase = "inputs"
  BY DEF Init, Connecting, Ordered
<1>3. ProducersExact
  <2>1. InputsSeen = {} /\ UnitsSeen = {}
    <3>1. DOMAIN source.inputs \subseteq Nat \ {0}
      BY SourceTypes DEF Init
    <3> QED
      BY <3>1 DEF Init, InputsSeen, UnitsSeen
  <2>2. /\ {source.inputs[k].resource : k \in InputsSeen} = {}
        /\ UNION {Resources(source.units[k].outputs) : k \in UnitsSeen} = {}
    BY <2>1
  <2> QED
    BY <2>1, <2>2 DEF Init, ProducersExact
<1>4. DependenciesExact /\ OutputsExact /\ OrderExact
  BY <1>2 DEF Init, DependenciesExact, OutputsExact, OrderExact
<1> QED
  BY <1>1, <1>2, <1>3, <1>4 DEF Init, FullInv, CompileInv, DenseAgrees

(* Every step of compile and into_dense keeps it.                           *)
LEMMA NextInv == FullInv /\ [Next]_vars => FullInv'
<1> SUFFICES ASSUME FullInv, [Next]_vars PROVE FullInv'
  OBVIOUS
<1>1. CASE DeclareInput
  BY <1>1, DeclareInputKeepsInv
<1>2. CASE EndInputs
  BY <1>2, EndInputsKeepsInv
<1>3. CASE DeclareUnit
  BY <1>3, DeclareUnitKeepsInv
<1>4. CASE EndUnits
  BY <1>4, EndUnitsKeepsInv
<1>5. CASE ConnectUnit
  BY <1>5, ConnectUnitKeepsInv
<1>6. CASE EndConnections
  BY <1>6, EndConnectionsKeepsInv
<1>7. CASE CheckOutput
  BY <1>7, CheckOutputKeepsInv
<1>8. CASE EndOutputs
  BY <1>8, EndOutputsKeepsInv
<1>9. CASE PlaceUnit
  BY <1>9, PlaceUnitKeepsInv
<1>10. CASE FinishCompile \/ StartSearch
  BY <1>10, FinishCompileKeepsInv
<1>11. CASE VisitRoot \/ TryNeighbour \/ Retreat
  BY <1>11, SearchKeepsInv
<1>12. CASE IntoDense
  BY <1>12, IntoDenseKeepsInv
<1>13. CASE UNCHANGED vars
  <2>1. /\ InputsSeen' = InputsSeen /\ UnitsSeen' = UnitsSeen
        /\ UnitsConnected' = UnitsConnected /\ OutputsChecked' = OutputsChecked
    BY <1>13 DEF vars, InputsSeen, UnitsSeen, UnitsConnected, OutputsChecked
  <2>2. \A k : ProducingUnits(source.units[k])' = ProducingUnits(source.units[k])
    BY <1>13 DEF vars, ProducingUnits
  <2>3. TypeOK' /\ source' \in Source
    BY <1>13 DEF vars, FullInv, CompileInv, TypeOK
  <2>4. ProducersExact' /\ OutputsExact'
    BY <1>13, <2>1 DEF vars, FullInv, CompileInv, ProducersExact, OutputsExact
  <2>5. DependenciesExact'
    BY <1>13, <2>1, <2>2 DEF vars, FullInv, CompileInv, DependenciesExact
  <2>6. OrderExact'
    BY <1>13 DEF vars, FullInv, CompileInv, OrderExact, Placed
  <2> QED
    BY <1>13, <2>3, <2>4, <2>5, <2>6 DEF vars, FullInv, CompileInv, DenseAgrees
<1> QED
  BY <1>1, <1>2, <1>3, <1>4, <1>5, <1>6, <1>7, <1>8, <1>9, <1>10, <1>11, <1>12, <1>13
  DEF Next

(* The invariant holds of all that compile and into_dense do.               *)
LEMMA FullInvariant == Spec => []FullInv
BY InitInv, NextInv, PTL DEF Spec

(* What each loop of compile builds is exactly what the source says, as far *)
(* as the loop got (CompileInv).                                            *)
THEOREM CompileInvariant == Spec => []CompileInv
<1>1. FullInv => CompileInv
  BY DEF FullInv
<1> QED
  BY <1>1, FullInvariant, PTL

(* compile and into_dense keep to their types (TypeOK).                     *)
THEOREM CompilerTypeCorrect == Spec => []TypeOK
<1>1. FullInv => TypeOK
  BY DEF FullInv, CompileInv
<1> QED
  BY <1>1, FullInvariant, PTL

(* into_dense rejects no graph that compile made (DenseAgrees).             *)
THEOREM CompiledGraphsAreDense == Spec => []DenseAgrees
<1>1. FullInv => DenseAgrees
  BY DEF FullInv, CompileInv
<1> QED
  BY <1>1, FullInvariant, PTL

(* There is an order only once the Units are ordered.                       *)
LEMMA OrderMeansOrdered ==
  ASSUME FullInv, NEW k \in DOMAIN order
  PROVE  phase \in Ordered
BY DEF FullInv, CompileInv, OrderExact

(* Every Unit is placed behind all Units whose outputs it reads             *)
(* (OrderRespectsDependencies), whatever the source.                        *)
THEOREM ProducersFirst == Spec => []OrderRespectsDependencies
<1>1. ASSUME FullInv PROVE OrderRespectsDependencies
  <2> SUFFICES ASSUME NEW k \in DOMAIN order, NEW v, DependsOn(order[k], v)
               PROVE  \E j \in 1 .. k - 1 : order[j] = v
    BY DEF OrderRespectsDependencies
  <2>1. phase \in Ordered
    BY <1>1, OrderMeansOrdered
  <2>2. PICK i, j \in DOMAIN source.units :
          /\ source.units[i].id = order[k] /\ source.units[j].id = v
          /\ Resources(source.units[i].inputs) \cap Resources(source.units[j].outputs) # {}
    BY DEF DependsOn, DeclaredUnits
  <2>3. PICK r \in Resources(source.units[i].inputs) :
          r \in Resources(source.units[j].outputs)
    BY <2>2
  <2>4. producers[r].unit = v /\ v # 0
    BY <1>1, <2>1, <2>2, <2>3, PortsKnown
  <2>5. UnitNamed(order[k]) = source.units[i]
    BY <1>1, <2>1, <2>2, NamesAreUnique
  <2> QED
    BY <1>1, <2>1, <2>3, <2>4, <2>5, ReadsComeBefore
<1>2. FullInv => OrderRespectsDependencies
  BY <1>1
<1> QED
  BY <1>2, FullInvariant, PTL

(* Every place goes to the least Unit that may have it (OrderIsCanonical),  *)
(* so the order of the source is of no account.                             *)
THEOREM OrderIsAFunctionOfTheGraph == Spec => []OrderIsCanonical
<1>1. ASSUME FullInv PROVE OrderIsCanonical
  <2> DEFINE Ids == {x.id : x \in DeclaredUnits}
             Before(k) == {order[j] : j \in 1 .. k - 1}
  <2> SUFFICES ASSUME NEW k \in DOMAIN order, NEW u \in Ids \ Before(k), u < order[k]
               PROVE  \E v \in Ids \ Before(k) : DependsOn(u, v)
    BY DEF OrderIsCanonical
  <2>1. phase \in Ordered
    BY <1>1, OrderMeansOrdered
  <2>2. PICK i \in DOMAIN source.units : source.units[i].id = u
    BY DEF DeclaredUnits
  <2>3. /\ u \in DOMAIN dependencies
        /\ dependencies[u] = ProducingUnits(source.units[i])
    BY <1>1, <2>1, <2>2, DependenciesKnown
  <2>4. ~ (dependencies[u] \subseteq Before(k))
    BY <1>1, <2>1, <2>3 DEF FullInv, CompileInv, OrderExact
  <2>5. PICK v \in ProducingUnits(source.units[i]) : v \notin Before(k)
    BY <2>3, <2>4
  <2>6. PICK r \in Resources(source.units[i].inputs) :
          producers[r].unit = v /\ v # 0
    BY <2>5 DEF ProducingUnits
  <2>7. r \in DOMAIN producers
    BY <1>1, <2>1, <2>6, PortsKnown
  <2>8. PICK j \in DOMAIN source.units : r \in Resources(source.units[j].outputs)
    BY <1>1, <2>1, <2>6, <2>7, PortsKnown
  <2>9. source.units[j].id = v
    BY <1>1, <2>1, <2>6, <2>8, PortsKnown
  <2>10. v \in Ids /\ DependsOn(u, v)
    BY <2>2, <2>6, <2>8, <2>9 DEF DeclaredUnits, DependsOn
  <2> QED
    BY <2>5, <2>10
<1>2. FullInv => OrderIsCanonical
  BY <1>1
<1> QED
  BY <1>2, FullInvariant, PTL

(* The compiled graph, by ports: who reads what, who writes what, and that   *)
(* what is read was written earlier or comes from outside.                  *)
LEMMA PortsOfTheGraph ==
  ASSUME FullInv, phase \in {"compiled", "dense"}
  PROVE  /\ order \in Seq(UnitId) /\ Len(order) \in Nat /\ DOMAIN order = 1 .. Len(order)
         /\ \A k \in DOMAIN order : Position(order[k]) = k
         /\ \A p, q \in DOMAIN order : order[p] = order[q] => p = q
         /\ DOMAIN GraphReads = DOMAIN order /\ DOMAIN GraphWrites = DOMAIN order
         /\ GraphReads = [p \in DOMAIN order |-> GraphReads[p]]
         /\ GraphWrites = [p \in DOMAIN order |-> GraphWrites[p]]
         /\ \A p \in DOMAIN order : \A r \in GraphReads[p] :
              /\ r \in DOMAIN producers
              /\ producers[r].unit # 0 => \E q \in 1 .. p - 1 : order[q] = producers[r].unit
         /\ \A p \in DOMAIN order : \A r \in GraphWrites[p] :
              r \in DOMAIN producers /\ producers[r].unit = order[p] /\ order[p] # 0
         /\ \A r \in DOMAIN producers : producers[r].unit # 0 =>
              \E p \in DOMAIN order : r \in GraphWrites[p] /\ order[p] = producers[r].unit
         /\ GraphOutputs \subseteq {r \in DOMAIN producers : producers[r].unit # 0}
<1> DEFINE In(p)  == Resources(UnitNamed(order[p]).inputs)
           Out(p) == Resources(UnitNamed(order[p]).outputs)
<1>1. /\ phase \in Ordered /\ phase # "outputs" /\ source \in Source
      /\ order \in Seq(UnitId) /\ Len(order) \in Nat /\ DOMAIN order = 1 .. Len(order)
      /\ Placed = DOMAIN dependencies
      /\ \A k \in DOMAIN order : Position(order[k]) = k
  BY OrderIsComplete DEF Ordered, FullInv
<1>2. \A p \in DOMAIN order : \A r \in In(p) :
        /\ r \in DOMAIN producers
        /\ producers[r].unit # 0 => \E q \in 1 .. p - 1 : order[q] = producers[r].unit
  BY <1>1, ReadsComeBefore
<1>3. \A p \in DOMAIN order : \A r \in Out(p) :
        r \in DOMAIN producers /\ producers[r].unit = order[p] /\ order[p] # 0
  <2> TAKE p \in DOMAIN order
  <2>1. PICK k \in DOMAIN source.units :
          order[p] = source.units[k].id /\ UnitNamed(order[p]) = source.units[k]
    BY <1>1, ReadsComeBefore
  <2> QED
    BY <1>1, <2>1, PortsKnown
<1>4. \A r \in DOMAIN producers : producers[r].unit # 0 =>
        \E p \in DOMAIN order : r \in Out(p) /\ order[p] = producers[r].unit
  <2> SUFFICES ASSUME NEW r \in DOMAIN producers, producers[r].unit # 0
               PROVE  \E p \in DOMAIN order : r \in Out(p) /\ order[p] = producers[r].unit
    OBVIOUS
  <2>1. PICK k \in DOMAIN source.units : r \in Resources(source.units[k].outputs)
    BY <1>1, PortsKnown
  <2>2. source.units[k].id = producers[r].unit
    BY <1>1, <2>1, PortsKnown
  <2>3. source.units[k].id \in Placed
    BY <1>1, DependenciesKnown
  <2>4. PICK p \in DOMAIN order : order[p] = source.units[k].id
    BY <2>3 DEF Placed
  <2>5. UnitNamed(order[p]) = source.units[k]
    BY <1>1, <2>4, NamesAreUnique
  <2> QED
    BY <2>1, <2>2, <2>4, <2>5
<1>5. \A p, q \in DOMAIN order : order[p] = order[q] => p = q
  BY <1>1
<1>6. /\ GraphReads = [p \in DOMAIN order |-> In(p)]
      /\ GraphWrites = [p \in DOMAIN order |-> Out(p)]
  BY DEF GraphReads, GraphWrites
<1>7. GraphOutputs \subseteq {r \in DOMAIN producers : producers[r].unit # 0}
  <2>1. OutputsExact /\ OutputsChecked = DOMAIN source.outputs
    BY <1>1 DEF FullInv, CompileInv, OutputsChecked
  <2> QED
    BY <1>1, <2>1 DEF OutputsExact, GraphOutputs
<1> HIDE DEF In, Out
<1> QED
  BY <1>1, <1>2, <1>3, <1>4, <1>5, <1>6, <1>7

(* A compiled graph is well formed: the runtime is proved correct for every  *)
(* such graph (RuntimeCanRely).                                             *)
THEOREM CompiledGraphsAreWellFormed == Spec => []RuntimeCanRely
<1>1. ASSUME FullInv, phase \in {"compiled", "dense"}
      PROVE  Graph!GraphWellFormed
  <2>1. /\ Len(order) \in Nat /\ DOMAIN order = 1 .. Len(order)
        /\ \A p, q \in DOMAIN order : order[p] = order[q] => p = q
    BY <1>1, PortsOfTheGraph
  <2>2. \A p \in DOMAIN order : \A r \in GraphReads[p] :
          /\ r \in DOMAIN producers
          /\ producers[r].unit # 0 => \E q \in 1 .. p - 1 : order[q] = producers[r].unit
    BY <1>1, PortsOfTheGraph
  <2>3. \A p \in DOMAIN order : \A r \in GraphWrites[p] :
          r \in DOMAIN producers /\ producers[r].unit = order[p] /\ order[p] # 0
    BY <1>1, PortsOfTheGraph
  <2>4. \A r \in DOMAIN producers : producers[r].unit # 0 =>
          \E p \in DOMAIN order : r \in GraphWrites[p] /\ order[p] = producers[r].unit
    BY <1>1, PortsOfTheGraph
  <2>5. /\ GraphReads = [p \in DOMAIN order |-> GraphReads[p]]
        /\ GraphWrites = [p \in DOMAIN order |-> GraphWrites[p]]
    BY <1>1, PortsOfTheGraph
  <2>6. GraphOutputs \subseteq {r \in DOMAIN producers : producers[r].unit # 0}
    BY <1>1, PortsOfTheGraph
  <2>7. Graph!Steps = DOMAIN order
    BY <2>1 DEF Graph!Steps
  <2>8. Graph!Stored = {r \in DOMAIN producers : producers[r].unit # 0}
    BY <2>3, <2>4, <2>7 DEF Graph!Stored
  <2>9. ASSUME NEW p \in DOMAIN order, NEW r \in GraphReads[p], r \in Graph!Stored
        PROVE  Graph!ProducerStep(r) < p
    <3>1. PICK q \in 1 .. p - 1 : order[q] = producers[r].unit
      BY <2>2, <2>8, <2>9
    <3>2. q \in DOMAIN order /\ q < p
      BY <2>1, <3>1
    <3>3. \A s \in DOMAIN order : r \in GraphWrites[s] <=> s = q
      BY <2>1, <2>3, <2>4, <2>8, <2>9, <3>1, <3>2
    <3>4. Graph!ProducerStep(r) = q
      BY <2>7, <3>2, <3>3 DEF Graph!ProducerStep
    <3> QED
      BY <3>2, <3>4
  <2>10. \A p, q \in DOMAIN order : GraphWrites[p] \cap GraphWrites[q] # {} => p = q
    BY <2>1, <2>3
  <2>11. /\ GraphReads \in [DOMAIN order -> SUBSET DOMAIN producers]
         /\ GraphWrites \in [DOMAIN order -> SUBSET DOMAIN producers]
    BY <2>2, <2>3, <2>5
  <2>12. /\ DOMAIN producers = GraphInputs \cup Graph!Stored
         /\ GraphInputs \cap Graph!Stored = {}
    BY <2>8 DEF GraphInputs
  <2>13. \A p \in DOMAIN order : \A r \in GraphReads[p] \cap Graph!Stored :
           Graph!ProducerStep(r) < p
    BY <2>9
  <2> QED
    BY <2>1, <2>6, <2>7, <2>8, <2>10, <2>11, <2>12, <2>13 DEF Graph!GraphWellFormed
<1>2. FullInv => RuntimeCanRely
  BY <1>1 DEF RuntimeCanRely
<1> QED
  BY <1>2, FullInvariant, PTL

(* The consumers connected of a resource are the Units that read it.         *)
LEMMA ConsumersOfTheGraph ==
  ASSUME FullInv, phase \in {"compiled", "dense"}, NEW r
  PROVE  ConsumedAt(r) = {p \in DOMAIN order : r \in GraphReads[p]}
<1>1. /\ phase \in Ordered /\ Placed = DOMAIN dependencies
      /\ \A k \in DOMAIN order : Position(order[k]) = k
  BY OrderIsComplete DEF Ordered
<1>2. /\ consumers = UNION {Consumes(source.units[k]) : k \in DOMAIN source.units}
      /\ \A k \in DOMAIN source.units : source.units[k].id \in Placed
  BY <1>1, DependenciesKnown
<1>3. \A p \in DOMAIN order : GraphReads[p] = Resources(UnitNamed(order[p]).inputs)
  BY DEF GraphReads
<1>4. ASSUME NEW p \in ConsumedAt(r)
      PROVE  p \in DOMAIN order /\ r \in GraphReads[p]
  <2>1. PICK c \in consumers : c.resource = r /\ p = Position(c.unit)
    BY <1>4 DEF ConsumedAt
  <2>2. PICK k \in DOMAIN source.units : c \in Consumes(source.units[k])
    BY <1>2, <2>1
  <2>3. PICK i \in DOMAIN source.units[k].inputs :
          c = [resource |-> source.units[k].inputs[i].resource, unit |-> source.units[k].id,
               port |-> source.units[k].inputs[i].port]
    BY <2>2 DEF Consumes
  <2>4. r \in Resources(source.units[k].inputs) /\ c.unit = source.units[k].id
    BY <2>1, <2>3 DEF Resources
  <2>5. PICK q \in DOMAIN order : order[q] = source.units[k].id
    BY <1>2 DEF Placed
  <2>6. p = q
    BY <1>1, <2>1, <2>4, <2>5
  <2>7. UnitNamed(order[q]) = source.units[k]
    BY <1>1, <2>5, NamesAreUnique
  <2> QED
    BY <1>3, <2>4, <2>5, <2>6, <2>7
<1>5. ASSUME NEW p \in DOMAIN order, r \in GraphReads[p]
      PROVE  p \in ConsumedAt(r)
  <2>1. PICK k \in DOMAIN source.units :
          order[p] = source.units[k].id /\ UnitNamed(order[p]) = source.units[k]
    BY <1>1, ReadsComeBefore
  <2>2. PICK i \in DOMAIN source.units[k].inputs : source.units[k].inputs[i].resource = r
    BY <1>3, <1>5, <2>1 DEF Resources
  <2> DEFINE c == [resource |-> source.units[k].inputs[i].resource,
                   unit |-> source.units[k].id, port |-> source.units[k].inputs[i].port]
  <2>3. c \in Consumes(source.units[k])
    BY DEF Consumes
  <2>4. c \in consumers /\ c.resource = r /\ c.unit = order[p]
    BY <1>2, <2>1, <2>2, <2>3
  <2>5. Position(c.unit) = p
    BY <1>1, <2>4
  <2> HIDE DEF c
  <2> QED
    BY <2>4, <2>5 DEF ConsumedAt
<1> QED
  BY <1>4, <1>5

(* The planner, which goes by producers and consumers of resources, is given *)
(* what it assumes of a graph, and it is the graph the runtime goes by, which *)
(* is made of the ports of the Units.                                        *)
THEOREM PlannerAndRuntimeAgree == Spec => []PlannerCanRely
<1>1. ASSUME FullInv, phase \in {"compiled", "dense"}
      PROVE  PlannerCanRely
  <2>1. /\ Len(order) \in Nat /\ DOMAIN order = 1 .. Len(order)
        /\ \A k \in DOMAIN order : Position(order[k]) = k
        /\ \A p, q \in DOMAIN order : order[p] = order[q] => p = q
    BY <1>1, PortsOfTheGraph
  <2>2. \A p \in DOMAIN order : \A r \in GraphReads[p] :
          /\ r \in DOMAIN producers
          /\ producers[r].unit # 0 => \E q \in 1 .. p - 1 : order[q] = producers[r].unit
    BY <1>1, PortsOfTheGraph
  <2>3. \A p \in DOMAIN order : \A r \in GraphWrites[p] :
          r \in DOMAIN producers /\ producers[r].unit = order[p] /\ order[p] # 0
    BY <1>1, PortsOfTheGraph
  <2>4. \A r \in DOMAIN producers : producers[r].unit # 0 =>
          \E p \in DOMAIN order : r \in GraphWrites[p] /\ order[p] = producers[r].unit
    BY <1>1, PortsOfTheGraph
  <2>5. GraphOutputs \subseteq {r \in DOMAIN producers : producers[r].unit # 0}
    BY <1>1, PortsOfTheGraph
  <2>6. \A r \in DOMAIN producers : \A p \in DOMAIN order :
          producers[r].unit = order[p] /\ order[p] # 0 => ProducedAt(r) = p
    BY <2>1 DEF ProducedAt
  <2>7. \A r \in DOMAIN producers : producers[r].unit # 0 =>
          /\ ProducedAt(r) \in DOMAIN order /\ r \in GraphWrites[ProducedAt(r)]
          /\ order[ProducedAt(r)] = producers[r].unit
    <3> TAKE r \in DOMAIN producers
    <3> HAVE producers[r].unit # 0
    <3>1. PICK p \in DOMAIN order : r \in GraphWrites[p] /\ order[p] = producers[r].unit
      BY <2>4
    <3>2. ProducedAt(r) = p
      BY <2>6, <3>1
    <3> QED
      BY <3>1, <3>2
  <2>8. \A r : producers[r].unit = 0 => ProducedAt(r) = 0
    BY DEF ProducedAt
  <2>9. \A r \in DOMAIN producers : ConsumedAt(r) = {p \in DOMAIN order : r \in GraphReads[p]}
    BY <1>1, ConsumersOfTheGraph
  <2>10. \A r \in DOMAIN producers : ProducedAt(r) = 0 <=> producers[r].unit = 0
    BY <2>1, <2>7, <2>8
  <2>11. \A r \in DOMAIN producers : ProducedAt(r) \in 0 .. Len(order)
    BY <2>1, <2>7, <2>8
  <2>12. ASSUME NEW r \in DOMAIN producers, NEW p \in ConsumedAt(r)
         PROVE  p \in 1 .. Len(order) /\ ProducedAt(r) < p
    <3>1. p \in 1 .. Len(order) /\ r \in GraphReads[p]
      BY <2>1, <2>9, <2>12
    <3>2. CASE producers[r].unit = 0
      BY <2>1, <2>8, <3>1, <3>2
    <3>3. CASE producers[r].unit # 0
      <4>1. PICK q \in 1 .. p - 1 : order[q] = producers[r].unit
        BY <2>1, <2>2, <3>1, <3>3
      <4>2. q \in DOMAIN order /\ q < p
        BY <2>1, <3>1, <4>1
      <4>3. ProducedAt(r) = q
        BY <2>6, <3>3, <4>1, <4>2
      <4> QED
        BY <3>1, <4>2, <4>3
    <3> QED
      BY <3>2, <3>3
  <2>13. GraphInputs = {r \in DOMAIN producers : ProducedAt(r) = 0}
    BY <2>10 DEF GraphInputs
  <2>14. ASSUME NEW p \in 1 .. Len(order)
         PROVE  /\ GraphReads[p] = {r \in DOMAIN producers : p \in ConsumedAt(r)}
                /\ GraphWrites[p] = {r \in DOMAIN producers : ProducedAt(r) = p}
    <3>1. GraphReads[p] = {r \in DOMAIN producers : p \in ConsumedAt(r)}
      BY <2>1, <2>2, <2>9
    <3>2. ASSUME NEW r \in GraphWrites[p]
          PROVE  r \in DOMAIN producers /\ ProducedAt(r) = p
      BY <2>1, <2>3, <2>6
    <3>3. ASSUME NEW r \in DOMAIN producers, ProducedAt(r) = p
          PROVE  r \in GraphWrites[p]
      BY <2>1, <2>7, <2>10, <3>3
    <3> QED
      BY <3>1, <3>2, <3>3
  <2>15. \A r \in GraphOutputs : ProducedAt(r) # 0
    BY <2>5, <2>10
  <2> QED
    BY <2>11, <2>12, <2>13, <2>14, <2>15 DEF PlannerCanRely
<1>2. FullInv => PlannerCanRely
  BY <1>1 DEF PlannerCanRely
<1> QED
  BY <1>2, FullInvariant, PTL

------------------------------------------------------------------------------
(* What compile answers.  Beyond CompileInv: types and ports are as         *)
(* declared, what was looked at has no defect, and the search for a cycle   *)
(* holds a path of Units that each feed the next, above Units that are      *)
(* finished: they feed finished ones only, and close no cycle.              *)

Known(d) ==
  /\ producers[d.resource].semantic = d.semantic
  /\ producers[d.resource].concrete = d.concrete

TypesRecorded ==
  phase \notin EarlyErrors =>
    /\ \A k \in InputsSeen : Known(source.inputs[k])
    /\ \A k \in UnitsSeen : \A i \in DOMAIN source.units[k].outputs :
         Known(source.units[k].outputs[i])
    /\ \A j, k \in InputsSeen :
         j # k => source.inputs[j].resource # source.inputs[k].resource
    /\ \A k \in UnitsSeen : ~ PortsRepeat(source.units[k])

NothingPassed ==
  /\ phase \in Connecting => \A k \in UnitsConnected : FaultyInputs(source.units[k]) = {}
  /\ phase \in {"compiled", "dense"} => ~ OutputsRepeat
  /\ phase \in {"search", "cycle"} => ready = {} /\ Len(order) # Cardinality(DOMAIN indegree)

Finished     == visited \ OnStack
Following(k) == IF k < Len(stack) THEN {stack[k + 1].unit} ELSE {}

StackIsPath ==
  /\ \A k \in DOMAIN stack :
       /\ stack[k].unit \in visited
       /\ stack[k].untried \subseteq Outgoing(stack[k].unit) \cap Remaining
       /\ k < Len(stack) => stack[k + 1].unit \in Outgoing(stack[k].unit)
       /\ (Outgoing(stack[k].unit) \cap Remaining) \ stack[k].untried
            \subseteq Finished \cup Following(k)
  /\ \A j, k \in DOMAIN stack : j # k => stack[j].unit # stack[k].unit

FinishedAcyclic ==
  /\ visited \subseteq Remaining
  /\ \A u \in Finished : Outgoing(u) \cap Remaining \subseteq Finished
  /\ \A S \in (SUBSET Finished) \ {{}} : \E u \in S : \A w \in S : u \notin Outgoing(w)

SearchExact ==
  /\ phase \notin {"search", "cycle"} => stack = <<>> /\ visited = {}
  /\ phase = "search" => StackIsPath /\ FinishedAcyclic

Answered == (\A e \in Errors : phase = e => Defect(e)) /\ CycleIsGenuine

VerdictInv == FullInv /\ TypesRecorded /\ NothingPassed /\ SearchExact /\ Answered

(* Ports repeat if fewer are counted than there are bindings.               *)
LEMMA PortsCounted ==
  ASSUME NEW b \in Seq(Binding)
  PROVE  Cardinality(Ports(b)) # Len(b) <=>
           \E j, k \in DOMAIN b : j # k /\ b[j].port = b[k].port
<1> DEFINE f == [k \in 1 .. Len(b) |-> b[k].port]
<1>1. DOMAIN b = 1 .. Len(b) /\ Len(b) \in Nat
  OBVIOUS
<1>2. f \in Surjection(1 .. Len(b), Ports(b))
  BY <1>1 DEF Surjection, Ports
<1>3. IsFiniteSet(1 .. Len(b)) /\ Cardinality(1 .. Len(b)) = Len(b)
  BY <1>1, FS_Interval
<1>4. Cardinality(Ports(b)) = Len(b) <=> f \in Injection(1 .. Len(b), Ports(b))
  BY <1>2, <1>3, FS_Surjection
<1>5. f \in Injection(1 .. Len(b), Ports(b)) <=>
        \A j, k \in 1 .. Len(b) : f[j] = f[k] => j = k
  BY <1>2 DEF Surjection, Injection, IsInjective
<1> QED
  BY <1>1, <1>4, <1>5

(* The declarations, by their places.                                       *)
LEMMA Declares ==
  ASSUME source \in Source
  PROVE  /\ \A k \in DOMAIN source.inputs :
              <<0, k>> \in Declarations /\ Declaration(<<0, k>>) = source.inputs[k]
         /\ \A j \in DOMAIN source.units : \A k \in DOMAIN source.units[j].outputs :
              /\ <<j, k>> \in Declarations
              /\ Declaration(<<j, k>>) = source.units[j].outputs[k]
              /\ j # 0
         /\ \A d \in Declarations :
              \/ \E k \in DOMAIN source.inputs : d = <<0, k>>
              \/ \E j \in DOMAIN source.units : \E k \in DOMAIN source.units[j].outputs :
                   d = <<j, k>>
<1>1. 0 \notin DOMAIN source.units
  BY SourceTypes
<1>2. \A j, k : Declaration(<<j, k>>) =
                  IF j = 0 THEN source.inputs[k] ELSE source.units[j].outputs[k]
  BY DEF Declaration
<1> QED
  BY <1>1, <1>2 DEF Declarations

(* A defect is one of the source.                                           *)
LEMMA DefectsStay ==
  ASSUME UNCHANGED source, NEW e
  PROVE  Defect(e)' <=> Defect(e)
<1>1. DeclaredUnits' = DeclaredUnits /\ OutputsRepeat' = OutputsRepeat
  BY DEF DeclaredUnits, OutputsRepeat
<1>2. Declarations' = Declarations
  BY DEF Declarations
<1>3. \A d : Declaration(d)' = Declaration(d)
  BY DEF Declaration
<1>4. \A u, v : DependsOn(u, v)' <=> DependsOn(u, v)
  BY <1>1 DEF DependsOn
<1>5. Cyclic' <=> Cyclic
  BY <1>1, <1>4 DEF Cyclic
<1>6. InputBindings' = InputBindings
  BY <1>1 DEF InputBindings
<1> QED
  BY <1>1, <1>2, <1>3, <1>5, <1>6 DEF Defect

(* Rejecting for a defect before the Units are ordered.                     *)
LEMMA RejectIsRight ==
  ASSUME VerdictInv, FullInv', phase \notin {"search", "cycle"},
         NEW e \in EarlyErrors, Reject(e), Defect(e)
  PROVE  VerdictInv'
<1>1. /\ phase' = e /\ phase' \in EarlyErrors /\ phase' \notin Connecting
      /\ phase' \notin {"compiled", "dense", "search", "cycle"} /\ UNCHANGED source
  BY EarlyErrorsAre DEF Reject, Connecting, Ordered
<1>2. \A c \in Errors : (phase = c => Defect(c))' <=> (phase' = c => Defect(c))
  BY <1>1, DefectsStay
<1>3. SearchExact'
  BY <1>1 DEF SearchExact, VerdictInv, Reject
<1>4. TypesRecorded' /\ NothingPassed' /\ CycleIsGenuine'
  BY <1>1 DEF TypesRecorded, NothingPassed, CycleIsGenuine
<1>5. Answered'
  <2>1. \A c \in Errors : phase' = c => Defect(c)
    BY <1>1
  <2> QED BY <1>2, <1>4, <2>1 DEF Answered
<1> QED BY <1>3, <1>4, <1>5 DEF VerdictInv

(* Going on to another iteration or loop, before the search.                *)
LEMMA LoopIsRight ==
  ASSUME VerdictInv, FullInv', UNCHANGED <<source, stack, visited>>,
         phase \notin {"search", "cycle"}, phase' \in (Loops \ {"search"}) \cup {"compiled", "dense"},
         TypesRecorded', NothingPassed'
  PROVE  VerdictInv'
<1>1. phase' \notin Errors /\ phase' \notin {"search", "cycle"}
  BY DEF Loops, Errors
<1>2. Answered' /\ SearchExact'
  BY <1>1 DEF Answered, SearchExact, CycleIsGenuine, VerdictInv
<1> QED BY <1>2 DEF VerdictInv

(* What is recorded stays so while nothing more is declared.                *)
LEMMA RecordsStay ==
  ASSUME VerdictInv, UNCHANGED <<source, producers>>, phase \notin EarlyErrors,
         InputsSeen' = InputsSeen, UnitsSeen' = UnitsSeen
  PROVE  TypesRecorded'
<1>1. \A d : Known(d)' <=> Known(d)
  BY DEF Known
<1>2. \A k : PortsRepeat(source.units[k])' <=> PortsRepeat(source.units[k])
  BY DEF PortsRepeat
<1> QED BY <1>1, <1>2 DEF TypesRecorded, VerdictInv

(* What the units loop and the inputs loop have declared.                   *)
LEMMA DeclaredSoFar ==
  ASSUME VerdictInv, phase \in {"inputs", "units"} \cup Connecting
  PROVE  /\ source \in Source /\ TypeOK
         /\ \A k \in InputsSeen :
              /\ k \in DOMAIN source.inputs
              /\ source.inputs[k].resource \in DOMAIN producers
              /\ producers[source.inputs[k].resource].unit = 0
              /\ Known(source.inputs[k])
         /\ \A k \in UnitsSeen : \A i \in DOMAIN source.units[k].outputs :
              /\ k \in DOMAIN source.units
              /\ source.units[k].outputs[i].resource \in DOMAIN producers
              /\ producers[source.units[k].outputs[i].resource].unit = source.units[k].id
              /\ Known(source.units[k].outputs[i])
         /\ \A r \in DOMAIN producers :
              \/ \E k \in InputsSeen : source.inputs[k].resource = r
              \/ \E k \in UnitsSeen : \E i \in DOMAIN source.units[k].outputs :
                   source.units[k].outputs[i].resource = r
         /\ \A k \in UnitsSeen : ~ PortsRepeat(source.units[k])
<1>1. /\ source \in Source /\ TypeOK /\ ProducersExact /\ TypesRecorded
      /\ phase \notin EarlyErrors
  BY EarlyErrorsAre DEF VerdictInv, FullInv, CompileInv, Connecting, Ordered
<1>2. /\ InputsSeen \subseteq DOMAIN source.inputs
      /\ UnitsSeen \subseteq DOMAIN source.units
  BY DEF InputsSeen, UnitsSeen
<1>3. DOMAIN producers =
        {source.inputs[k].resource : k \in InputsSeen}
          \cup UNION {Resources(source.units[k].outputs) : k \in UnitsSeen}
  BY <1>1 DEF ProducersExact
<1>4. \A k \in UnitsSeen : \A i \in DOMAIN source.units[k].outputs :
        source.units[k].outputs[i].resource \in Resources(source.units[k].outputs)
  BY DEF Resources
<1>5. \A r \in DOMAIN producers :
        \/ \E k \in InputsSeen : source.inputs[k].resource = r
        \/ \E k \in UnitsSeen : \E i \in DOMAIN source.units[k].outputs :
             source.units[k].outputs[i].resource = r
  BY <1>3 DEF Resources
<1>6. \A k \in InputsSeen :
        /\ source.inputs[k].resource \in DOMAIN producers
        /\ producers[source.inputs[k].resource].unit = 0
        /\ Known(source.inputs[k])
  BY <1>1, <1>3 DEF ProducersExact, TypesRecorded
<1>7. \A k \in UnitsSeen : \A i \in DOMAIN source.units[k].outputs :
        /\ source.units[k].outputs[i].resource \in DOMAIN producers
        /\ producers[source.units[k].outputs[i].resource].unit = source.units[k].id
        /\ Known(source.units[k].outputs[i])
  BY <1>1, <1>3, <1>4 DEF ProducersExact, TypesRecorded
<1> QED BY <1>1, <1>2, <1>5, <1>6, <1>7 DEF TypesRecorded

(* Produced gives a resource the types it is declared with.                 *)
LEMMA ProducedKnown ==
  ASSUME NEW decls, NEW unit, ~ ProducedTwice(decls), producers' = Produced(decls, unit)
  PROVE  /\ \A i \in DOMAIN decls :
              /\ producers'[decls[i].resource].semantic = decls[i].semantic
              /\ producers'[decls[i].resource].concrete = decls[i].concrete
         /\ \A r \in DOMAIN producers : producers'[r] = producers[r]
<1> DEFINE by(r) == CHOOSE d \in {decls[k] : k \in DOMAIN decls} : d.resource = r
           new == Resources(decls)
<1>1. producers' = [r \in DOMAIN producers \cup new |->
                      IF r \in new
                        THEN [semantic |-> by(r).semantic,
                              concrete |-> by(r).concrete, unit |-> unit]
                        ELSE producers[r]]
  BY Zenon DEF Produced
<1>2. \A i \in DOMAIN decls : by(decls[i].resource) = decls[i]
  <2> SUFFICES ASSUME NEW i \in DOMAIN decls PROVE by(decls[i].resource) = decls[i]
    OBVIOUS
  <2>1. \A j \in DOMAIN decls : decls[j].resource = decls[i].resource => j = i
    BY DEF ProducedTwice
  <2>2. \A d \in {decls[k] : k \in DOMAIN decls} :
          d.resource = decls[i].resource <=> d = decls[i]
    BY <2>1
  <2>3. decls[i] \in {decls[k] : k \in DOMAIN decls}
    OBVIOUS
  <2> QED BY <2>2, <2>3
<1>3. \A i \in DOMAIN decls : decls[i].resource \in new
  BY DEF Resources
<1>4. \A r \in DOMAIN producers : producers'[r] = producers[r]
  BY ProduceAdds
<1> HIDE DEF by, new
<1>5. \A i \in DOMAIN decls :
        producers'[decls[i].resource] = [semantic |-> decls[i].semantic,
                                         concrete |-> decls[i].concrete, unit |-> unit]
  <2>1. \A r \in new :
          producers'[r] = [semantic |-> by(r).semantic, concrete |-> by(r).concrete,
                           unit |-> unit]
    BY <1>1
  <2> TAKE i \in DOMAIN decls
  <2>2. by(decls[i].resource) = decls[i] /\ decls[i].resource \in new
    BY <1>2, <1>3
  <2>3. producers'[decls[i].resource] =
          [semantic |-> by(decls[i].resource).semantic,
           concrete |-> by(decls[i].resource).concrete, unit |-> unit]
    BY <2>1, <2>2
  <2> QED BY <2>2, <2>3
<1>6. \A i \in DOMAIN decls :
        /\ producers'[decls[i].resource].semantic = decls[i].semantic
        /\ producers'[decls[i].resource].concrete = decls[i].concrete
  <2> TAKE i \in DOMAIN decls
  <2> DEFINE x == producers'[decls[i].resource]
             a == decls[i].semantic
             b == decls[i].concrete
  <2>1. x = [semantic |-> a, concrete |-> b, unit |-> unit]
    BY <1>5
  <2> HIDE DEF x, a, b
  <2>2. x.semantic = a /\ x.concrete = b
    BY <2>1
  <2> QED BY <2>2 DEF x, a, b
<1> QED BY <1>4, <1>6

(* Two declarations of one resource are a defect.                           *)
LEMMA DeclaredTwice ==
  ASSUME NEW c \in Declarations, NEW d \in Declarations, c # d,
         Declaration(c).resource = Declaration(d).resource
  PROVE  Defect("duplicate_producer")
BY DEF Defect

(* DeclareInput. *)
LEMMA DeclareInputIsRight ==
  ASSUME VerdictInv, DeclareInput
  PROVE  VerdictInv'
<1> DEFINE declared == <<source.inputs[at]>>
<1>1. phase = "inputs" /\ at \in DOMAIN source.inputs /\ FullInv /\ FullInv'
  BY DeclareInputKeepsInv DEF DeclareInput, VerdictInv
<1>2. /\ source \in Source /\ InputsSeen = {k \in DOMAIN source.inputs : k < at}
      /\ UnitsSeen = {} /\ at \in Nat
  BY <1>1 DEF InputsSeen, UnitsSeen, FullInv, CompileInv, TypeOK
<1>3. DOMAIN declared = {1} /\ declared[1] = source.inputs[at]
  OBVIOUS
<1> HIDE DEF declared
<1>4. CASE ProducedTwice(declared) /\ Reject("duplicate_producer")
  <2>1. source.inputs[at].resource \in DOMAIN producers
    BY <1>3, <1>4 DEF ProducedTwice, Resources
  <2>2. PICK k \in InputsSeen : source.inputs[k].resource = source.inputs[at].resource
    BY <1>1, <1>2, <2>1, DeclaredSoFar
  <2>3. k \in DOMAIN source.inputs /\ <<0, k>> # <<0, at>>
    BY <1>2
  <2>4. Defect("duplicate_producer")
    <3>1. /\ <<0, k>> \in Declarations /\ Declaration(<<0, k>>) = source.inputs[k]
          /\ <<0, at>> \in Declarations /\ Declaration(<<0, at>>) = source.inputs[at]
      BY <1>1, <1>2, <2>3, Declares
    <3> QED BY <2>2, <2>3, <3>1, DeclaredTwice
  <2> QED BY <1>1, <1>4, <2>4, RejectIsRight, EarlyErrorsAre
<1>5. CASE /\ ~ ProducedTwice(declared) /\ producers' = Produced(declared, 0) /\ at' = at + 1
           /\ UNCHANGED <<source, phase, consumers, dependencies, indegree, ready,
                          order, stack, visited, path>>
  <2>1. InputsSeen' = InputsSeen \cup {at} /\ UnitsSeen' = {}
    BY <1>1, <1>2, <1>5, SourceTypes DEF InputsSeen, UnitsSeen
  <2>2. /\ producers'[source.inputs[at].resource].semantic = source.inputs[at].semantic
        /\ producers'[source.inputs[at].resource].concrete = source.inputs[at].concrete
        /\ \A r \in DOMAIN producers : producers'[r] = producers[r]
    BY <1>3, <1>5, ProducedKnown
  <2>3. source.inputs[at].resource \notin DOMAIN producers
    BY <1>3, <1>5 DEF ProducedTwice, Resources
  <2>4. \A k \in InputsSeen : source.inputs[k].resource \in DOMAIN producers /\ Known(source.inputs[k])
    BY <1>1, DeclaredSoFar
  <2>5. \A k \in InputsSeen' : Known(source.inputs[k])'
    BY <1>5, <2>1, <2>2, <2>4 DEF Known
  <2>6. \A j, k \in InputsSeen : j # k => source.inputs[j].resource # source.inputs[k].resource
    BY <1>1, EarlyErrorsAre DEF VerdictInv, TypesRecorded
  <2>7. \A j, k \in InputsSeen' : j # k => source.inputs[j].resource # source.inputs[k].resource
    BY <2>1, <2>3, <2>4, <2>6
  <2>8. TypesRecorded'
    BY <1>5, <2>1, <2>5, <2>7 DEF TypesRecorded
  <2>9. phase' = "inputs" /\ phase' \notin Connecting
    BY <1>1, <1>5 DEF Connecting, Ordered
  <2>10. NothingPassed'
    BY <2>9 DEF NothingPassed
  <2> QED BY <1>1, <1>5, <2>8, <2>9, <2>10, LoopIsRight DEF Loops
<1> QED
  BY <1>4, <1>5 DEF DeclareInput, declared

(* DeclareUnit. *)
LEMMA DeclareUnitIsRight ==
  ASSUME VerdictInv, DeclareUnit
  PROVE  VerdictInv'
<1> DEFINE unit == source.units[at]
<1>1. phase = "units" /\ at \in DOMAIN source.units /\ FullInv /\ FullInv'
  BY DeclareUnitKeepsInv DEF DeclareUnit, VerdictInv
<1>2. /\ source \in Source /\ InputsSeen = DOMAIN source.inputs
      /\ UnitsSeen = {k \in DOMAIN source.units : k < at} /\ at \in Nat
  BY <1>1 DEF InputsSeen, UnitsSeen, FullInv, CompileInv, TypeOK
<1>3. /\ unit.inputs \in Seq(Binding) /\ unit.outputs \in Seq(Binding)
      /\ unit \in DeclaredUnits /\ \A k \in 1 .. at - 1 : k \in DOMAIN source.units
  BY <1>1, <1>2, SourceTypes DEF DeclaredUnits
<1>4. CASE SeenBefore(at) /\ Reject("duplicate_unit")
  <2>1. Defect("duplicate_unit")
    BY <1>1, <1>2, <1>3, <1>4 DEF SeenBefore, Defect
  <2> QED BY <1>1, <1>4, <2>1, RejectIsRight, EarlyErrorsAre
<1>5. CASE PortsRepeat(unit) /\ Reject("duplicate_port")
  <2>1. \E bindings \in {unit.inputs, unit.outputs} : \E j, k \in DOMAIN bindings :
          j # k /\ bindings[j].port = bindings[k].port
    BY <1>3, <1>5, PortsCounted DEF PortsRepeat
  <2>2. Defect("duplicate_port")
    BY <1>3, <2>1 DEF Defect
  <2> QED BY <1>1, <1>5, <2>2, RejectIsRight, EarlyErrorsAre
<1>6. CASE ProducedTwice(unit.outputs) /\ Reject("duplicate_producer")
  <2>1. ASSUME NEW i \in DOMAIN unit.outputs, unit.outputs[i].resource \in DOMAIN producers
        PROVE  Defect("duplicate_producer")
    <3>1. CASE \E k \in InputsSeen : source.inputs[k].resource = unit.outputs[i].resource
      <4>1. PICK k \in InputsSeen : source.inputs[k].resource = unit.outputs[i].resource
        BY <3>1
      <4>2. /\ <<0, k>> \in Declarations /\ Declaration(<<0, k>>) = source.inputs[k]
            /\ <<at, i>> \in Declarations /\ Declaration(<<at, i>>) = unit.outputs[i]
            /\ at # 0
        BY <1>1, <1>2, Declares
      <4>3. <<0, k>> # <<at, i>>
        BY <4>2
      <4> QED BY <4>1, <4>2, <4>3, DeclaredTwice
    <3>2. CASE \E k \in UnitsSeen : \E j \in DOMAIN source.units[k].outputs :
                 source.units[k].outputs[j].resource = unit.outputs[i].resource
      <4>1. PICK k \in UnitsSeen : \E j \in DOMAIN source.units[k].outputs :
              source.units[k].outputs[j].resource = unit.outputs[i].resource
        BY <3>2
      <4>2. PICK j \in DOMAIN source.units[k].outputs :
              source.units[k].outputs[j].resource = unit.outputs[i].resource
        BY <4>1
      <4>3. /\ <<k, j>> \in Declarations
            /\ Declaration(<<k, j>>) = source.units[k].outputs[j]
            /\ <<at, i>> \in Declarations /\ Declaration(<<at, i>>) = unit.outputs[i]
        BY <1>1, <1>2, Declares
      <4>4. <<k, j>> # <<at, i>>
        BY <1>2
      <4> QED BY <4>2, <4>3, <4>4, DeclaredTwice
    <3> QED BY <1>1, <2>1, <3>1, <3>2, DeclaredSoFar
  <2>2. ASSUME NEW i \in DOMAIN unit.outputs, NEW j \in DOMAIN unit.outputs, i # j,
               unit.outputs[i].resource = unit.outputs[j].resource
        PROVE  Defect("duplicate_producer")
    <3>1. /\ <<at, i>> \in Declarations /\ Declaration(<<at, i>>) = unit.outputs[i]
          /\ <<at, j>> \in Declarations /\ Declaration(<<at, j>>) = unit.outputs[j]
      BY <1>1, <1>2, Declares
    <3>2. <<at, i>> # <<at, j>>
      BY <2>2
    <3> QED BY <2>2, <3>1, <3>2, DeclaredTwice
  <2>3. Defect("duplicate_producer")
    BY <1>6, <2>1, <2>2 DEF ProducedTwice, Resources
  <2> QED BY <1>1, <1>6, <2>3, RejectIsRight, EarlyErrorsAre
<1>7. CASE /\ ~ PortsRepeat(unit) /\ ~ ProducedTwice(unit.outputs)
           /\ producers' = Produced(unit.outputs, unit.id) /\ at' = at + 1
           /\ UNCHANGED <<source, phase, consumers, dependencies, indegree, ready,
                          order, stack, visited, path>>
  <2>1. InputsSeen' = InputsSeen /\ UnitsSeen' = UnitsSeen \cup {at}
    BY <1>1, <1>2, <1>7, SourceTypes DEF InputsSeen, UnitsSeen
  <2>2. /\ \A i \in DOMAIN unit.outputs :
             /\ producers'[unit.outputs[i].resource].semantic = unit.outputs[i].semantic
             /\ producers'[unit.outputs[i].resource].concrete = unit.outputs[i].concrete
        /\ \A r \in DOMAIN producers : producers'[r] = producers[r]
    BY <1>7, ProducedKnown
  <2>3. /\ \A k \in InputsSeen :
             source.inputs[k].resource \in DOMAIN producers /\ Known(source.inputs[k])
        /\ \A k \in UnitsSeen : \A i \in DOMAIN source.units[k].outputs :
             /\ source.units[k].outputs[i].resource \in DOMAIN producers
             /\ Known(source.units[k].outputs[i])
        /\ \A k \in UnitsSeen : ~ PortsRepeat(source.units[k])
    BY <1>1, DeclaredSoFar
  <2>4. \A k \in InputsSeen' : Known(source.inputs[k])'
    BY <1>7, <2>1, <2>2, <2>3, SMTT(30) DEF Known
  <2>5. \A k \in UnitsSeen' : \A i \in DOMAIN source.units[k].outputs :
          Known(source.units[k].outputs[i])'
    BY <1>7, <2>1, <2>2, <2>3 DEF Known
  <2>6. \A k \in UnitsSeen' : ~ PortsRepeat(source.units[k])'
    <3>1. \A k : PortsRepeat(source.units[k])' <=> PortsRepeat(source.units[k])
      BY <1>7 DEF PortsRepeat
    <3> QED BY <1>7, <2>1, <2>3, <3>1
  <2>7. \A j, k \in InputsSeen : j # k => source.inputs[j].resource # source.inputs[k].resource
    BY <1>1, EarlyErrorsAre DEF VerdictInv, TypesRecorded
  <2>8. TypesRecorded'
    BY <1>7, <2>1, <2>4, <2>5, <2>6, <2>7 DEF TypesRecorded
  <2>9. phase' = "units" /\ phase' \notin Connecting
    BY <1>1, <1>7 DEF Connecting, Ordered
  <2>10. NothingPassed'
    BY <2>9 DEF NothingPassed
  <2> QED BY <1>1, <1>7, <2>8, <2>9, <2>10, LoopIsRight DEF Loops
<1> QED
  BY <1>4, <1>5, <1>6, <1>7 DEF DeclareUnit

(* EndInputs and EndUnits. *)
LEMMA EndDeclaringIsRight ==
  ASSUME VerdictInv, EndInputs \/ EndUnits
  PROVE  VerdictInv'
<1>1. FullInv /\ FullInv'
  BY EndInputsKeepsInv, EndUnitsKeepsInv DEF VerdictInv
<1>2. /\ UNCHANGED <<source, producers, stack, visited>> /\ at' = 1
      /\ \/ phase = "inputs" /\ phase' = "units" /\ at = Len(source.inputs) + 1
         \/ phase = "units" /\ phase' = "connections" /\ at = Len(source.units) + 1
  BY DEF EndInputs, EndUnits, EndLoop
<1>3. /\ source \in Source
      /\ \A k \in DOMAIN source.inputs : k < Len(source.inputs) + 1
      /\ \A k \in DOMAIN source.units : k < Len(source.units) + 1 /\ ~ (k < 1)
  BY <1>1, SourceTypes DEF FullInv
<1>4. InputsSeen' = InputsSeen /\ UnitsSeen' = UnitsSeen
  <2>1. CASE phase = "inputs"
    <3>1. /\ InputsSeen = DOMAIN source.inputs /\ InputsSeen' = DOMAIN source.inputs
          /\ UnitsSeen = {} /\ UnitsSeen' = {}
      BY <1>2, <1>3, <2>1 DEF InputsSeen, UnitsSeen
    <3> QED BY <3>1
  <2>2. CASE phase = "units"
    <3>1. /\ InputsSeen = DOMAIN source.inputs /\ InputsSeen' = DOMAIN source.inputs
          /\ UnitsSeen = DOMAIN source.units /\ UnitsSeen' = DOMAIN source.units
      BY <1>2, <1>3, <2>2 DEF InputsSeen, UnitsSeen
    <3> QED BY <3>1
  <2> QED BY <1>2, <2>1, <2>2
<1>5. TypesRecorded'
  BY <1>2, <1>4, RecordsStay, EarlyErrorsAre
<1>6. NothingPassed'
  <2>1. phase' = "connections" => UnitsConnected' = {}
    BY <1>2, <1>3 DEF UnitsConnected
  <2>2. phase' = "units" => phase' \notin Connecting
    BY DEF Connecting, Ordered
  <2> QED BY <1>2, <2>1, <2>2 DEF NothingPassed
<1> QED BY <1>1, <1>2, <1>5, <1>6, LoopIsRight DEF Loops

(* What producers says once all is declared.                                *)
LEMMA ProducersTell ==
  ASSUME VerdictInv, phase \in Connecting
  PROVE  /\ \A d \in Declarations :
              /\ Declaration(d).resource \in DOMAIN producers
              /\ producers[Declaration(d).resource].semantic = Declaration(d).semantic
              /\ producers[Declaration(d).resource].concrete = Declaration(d).concrete
         /\ \A r \in DOMAIN producers : \E d \in Declarations : Declaration(d).resource = r
         /\ \A k \in DOMAIN source.inputs :
              /\ source.inputs[k].resource \in DOMAIN producers
              /\ producers[source.inputs[k].resource].unit = 0
         /\ \A r \in DOMAIN producers : producers[r].unit = 0 =>
              \E k \in DOMAIN source.inputs : source.inputs[k].resource = r
<1>1. /\ source \in Source
      /\ InputsSeen = DOMAIN source.inputs /\ UnitsSeen = DOMAIN source.units
  BY DeclaredSoFar DEF InputsSeen, UnitsSeen, Connecting, Ordered
<1>2. /\ \A k \in DOMAIN source.inputs :
           /\ source.inputs[k].resource \in DOMAIN producers
           /\ producers[source.inputs[k].resource].unit = 0
           /\ Known(source.inputs[k])
      /\ \A k \in DOMAIN source.units : \A i \in DOMAIN source.units[k].outputs :
           /\ source.units[k].outputs[i].resource \in DOMAIN producers
           /\ producers[source.units[k].outputs[i].resource].unit = source.units[k].id
           /\ Known(source.units[k].outputs[i])
      /\ \A r \in DOMAIN producers :
           \/ \E k \in DOMAIN source.inputs : source.inputs[k].resource = r
           \/ \E k \in DOMAIN source.units : \E i \in DOMAIN source.units[k].outputs :
                source.units[k].outputs[i].resource = r
  BY <1>1, DeclaredSoFar
<1>3. \A k \in DOMAIN source.units : source.units[k].id # 0
  BY <1>1, SourceTypes, UnitNames
<1>4. \A d \in Declarations :
        /\ Declaration(d).resource \in DOMAIN producers
        /\ Known(Declaration(d))
  <2> TAKE d \in Declarations
  <2>1. CASE \E k \in DOMAIN source.inputs : d = <<0, k>>
    BY <1>1, <1>2, <2>1, Declares
  <2>2. CASE \E j \in DOMAIN source.units : \E k \in DOMAIN source.units[j].outputs : d = <<j, k>>
    BY <1>1, <1>2, <2>2, Declares
  <2> QED BY <1>1, <2>1, <2>2, Declares
<1>5. \A r \in DOMAIN producers : \E d \in Declarations : Declaration(d).resource = r
  <2> TAKE r \in DOMAIN producers
  <2>1. CASE \E k \in DOMAIN source.inputs : source.inputs[k].resource = r
    BY <1>1, <2>1, Declares
  <2>2. CASE \E k \in DOMAIN source.units : \E i \in DOMAIN source.units[k].outputs :
               source.units[k].outputs[i].resource = r
    BY <1>1, <2>2, Declares, ZenonT(30)
  <2> QED BY <1>2, <2>1, <2>2
<1>6. \A r \in DOMAIN producers : producers[r].unit = 0 =>
        \E k \in DOMAIN source.inputs : source.inputs[k].resource = r
  BY <1>2, <1>3
<1> QED BY <1>2, <1>4, <1>5, <1>6 DEF Known

(* A faulty binding is a defect of the source.                              *)
LEMMA FaultIsDefect ==
  ASSUME VerdictInv, phase \in Connecting, NEW b \in InputBindings,
         BindingFault(b) # "none"
  PROVE  BindingFault(b) \in EarlyErrors /\ Defect(BindingFault(b))
<1>1. CASE b.resource \notin DOMAIN producers
  <2>1. BindingFault(b) = "unknown_resource"
    BY <1>1 DEF BindingFault
  <2>2. \A d \in Declarations : Declaration(d).resource # b.resource
    BY <1>1, ProducersTell
  <2>3. Defect("unknown_resource")
    BY <2>2 DEF Defect
  <2> QED BY <2>1, <2>3, EarlyErrorsAre
<1>2. CASE b.resource \in DOMAIN producers
  <2>1. PICK d \in Declarations : Declaration(d).resource = b.resource
    BY <1>2, ProducersTell
  <2>2. /\ producers[b.resource].semantic = Declaration(d).semantic
        /\ producers[b.resource].concrete = Declaration(d).concrete
    BY <2>1, ProducersTell
  <2>3. CASE b.semantic # producers[b.resource].semantic
    <3>1. BindingFault(b) = "semantic_mismatch"
      BY <1>2, <2>3 DEF BindingFault
    <3>2. Defect("semantic_mismatch")
      BY <2>1, <2>2, <2>3 DEF Defect
    <3> QED BY <3>1, <3>2, EarlyErrorsAre
  <2>4. CASE b.semantic = producers[b.resource].semantic
    <3>1. /\ BindingFault(b) = "concrete_mismatch"
          /\ b.concrete # producers[b.resource].concrete
      BY <1>2, <2>4 DEF BindingFault
    <3>2. Defect("concrete_mismatch")
      BY <2>1, <2>2, <3>1 DEF Defect
    <3> QED BY <3>1, <3>2, EarlyErrorsAre
  <2> QED BY <2>3, <2>4
<1> QED BY <1>1, <1>2

(* From the connections on, what is declared stays known.                   *)
LEMMA LaterRecordsStay ==
  ASSUME VerdictInv, phase \in Connecting, phase' \in Connecting,
         UNCHANGED <<source, producers>>
  PROVE  TypesRecorded'
<1>1. /\ phase \notin {"inputs", "units"} /\ phase' \notin {"inputs", "units"}
      /\ phase \notin EarlyErrors
  BY EarlyErrorsAre DEF Connecting, Ordered
<1>2. InputsSeen' = InputsSeen /\ UnitsSeen' = UnitsSeen
  BY <1>1 DEF InputsSeen, UnitsSeen
<1> QED BY <1>1, <1>2, RecordsStay

LEMMA FaultsStay ==
  ASSUME UNCHANGED producers, NEW x
  PROVE  FaultyInputs(x)' = FaultyInputs(x)
<1>1. \A b : BindingFault(b)' = BindingFault(b)
  BY DEF BindingFault
<1> QED BY <1>1 DEF FaultyInputs

(* ConnectUnit. *)
LEMMA ConnectUnitIsRight ==
  ASSUME VerdictInv, ConnectUnit
  PROVE  VerdictInv'
<1> DEFINE unit == source.units[at]
<1>1. /\ phase = "connections" /\ at \in DOMAIN source.units /\ FullInv /\ FullInv'
      /\ phase \in Connecting /\ source \in Source
  BY ConnectUnitKeepsInv DEF ConnectUnit, VerdictInv, Connecting, FullInv
<1>2. CASE /\ FaultyInputs(unit) # {}
           /\ Reject(BindingFault(unit.inputs[Min(FaultyInputs(unit))]))
  <2> DEFINE k == Min(FaultyInputs(unit))
  <2>1. FaultyInputs(unit) \in SUBSET Nat
    BY <1>1, SourceTypes DEF FaultyInputs
  <2>2. k \in FaultyInputs(unit)
    BY <1>2, <2>1, MinOfNaturals
  <2>3. unit.inputs[k] \in InputBindings /\ BindingFault(unit.inputs[k]) # "none"
    <3>1. k \in DOMAIN unit.inputs /\ BindingFault(unit.inputs[k]) # "none"
      BY <2>2 DEF FaultyInputs
    <3>2. unit \in DeclaredUnits
      BY <1>1 DEF DeclaredUnits
    <3> HIDE DEF unit, k
    <3> QED BY <3>1, <3>2 DEF InputBindings
  <2>4. /\ BindingFault(unit.inputs[k]) \in EarlyErrors
        /\ Defect(BindingFault(unit.inputs[k]))
    BY <1>1, <2>3, FaultIsDefect
  <2> QED BY <1>1, <1>2, <2>4, RejectIsRight
<1>3. CASE /\ FaultyInputs(unit) = {} /\ at' = at + 1
           /\ UNCHANGED <<source, phase, producers, stack, visited>>
  <2>1. UnitsConnected' = UnitsConnected \cup {at}
    BY <1>1, <1>3, SourceTypes DEF UnitsConnected
  <2>2. \A k \in UnitsConnected : FaultyInputs(source.units[k]) = {}
    BY <1>1 DEF VerdictInv, NothingPassed
  <2>3. \A k \in UnitsConnected' : FaultyInputs(source.units[k])' = {}
    BY <1>3, <2>1, <2>2, FaultsStay
  <2>4. NothingPassed'
    BY <1>1, <1>3, <2>3 DEF NothingPassed
  <2> QED BY <1>1, <1>3, <2>4, LaterRecordsStay, LoopIsRight DEF Loops
<1> QED
  BY <1>2, <1>3 DEF ConnectUnit

(* The loops after the connections, when all inputs are connected.          *)
LEMMA ConnectionsStay ==
  ASSUME VerdictInv, phase \in Connecting, phase' \in Connecting, phase' # "connections",
         phase = "connections" => at = Len(source.units) + 1,
         UNCHANGED <<source, producers>>
  PROVE  \A k \in UnitsConnected' : FaultyInputs(source.units[k])' = {}
<1>1. source \in Source
  BY DEF VerdictInv, FullInv
<1>2. \A k \in DOMAIN source.units : k < Len(source.units) + 1
  BY <1>1, SourceTypes
<1>3. /\ UnitsConnected = DOMAIN source.units /\ UnitsConnected' = DOMAIN source.units
  BY <1>2 DEF UnitsConnected
<1>4. \A k \in UnitsConnected : FaultyInputs(source.units[k]) = {}
  BY DEF VerdictInv, NothingPassed
<1> QED BY <1>3, <1>4, FaultsStay

(* EndConnections, EndOutputs, PlaceUnit and, without an error, CheckOutput. *)
LEMMA LaterLoopIsRight ==
  ASSUME VerdictInv, FullInv', phase \in {"connections", "outputs", "ordering"},
         phase' \in {"outputs", "ordering"},
         phase = "connections" => at = Len(source.units) + 1,
         UNCHANGED <<source, producers, stack, visited>>
  PROVE  VerdictInv'
<1>1. phase \in Connecting /\ phase' \in Connecting /\ phase' # "connections"
  BY DEF Connecting, Ordered
<1>2. NothingPassed'
  BY <1>1, ConnectionsStay DEF NothingPassed
<1> QED BY <1>1, <1>2, LaterRecordsStay, LoopIsRight DEF Loops

(* CheckOutput. *)
LEMMA CheckOutputIsRight ==
  ASSUME VerdictInv, CheckOutput
  PROVE  VerdictInv'
<1> DEFINE r == source.outputs[at]
<1>1. /\ phase = "outputs" /\ at \in DOMAIN source.outputs /\ FullInv /\ FullInv'
      /\ phase \in Connecting
  BY CheckOutputKeepsInv DEF CheckOutput, VerdictInv, Connecting
<1>2. CASE r \notin DOMAIN producers /\ Reject("unknown_output")
  <2>1. \A d \in Declarations : Declaration(d).resource # r
    BY <1>1, <1>2, ProducersTell
  <2>2. Defect("unknown_output")
    BY <1>1, <2>1 DEF Defect
  <2> QED BY <1>1, <1>2, <2>2, RejectIsRight, EarlyErrorsAre
<1>3. CASE r \in DOMAIN producers /\ producers[r].unit = 0 /\ Reject("input_as_output")
  <2>1. \E j \in DOMAIN source.inputs : source.inputs[j].resource = r
    BY <1>1, <1>3, ProducersTell
  <2>2. Defect("input_as_output")
    BY <1>1, <2>1 DEF Defect
  <2> QED BY <1>1, <1>3, <2>2, RejectIsRight, EarlyErrorsAre
<1>4. CASE UNCHANGED <<source, phase, producers, stack, visited>>
  BY <1>1, <1>4, LaterLoopIsRight
<1> QED
  BY <1>2, <1>3, <1>4 DEF CheckOutput

------------------------------------------------------------------------------
(* Ordering, searching and answering. *)

(* The dependencies are what the source says.                               *)
LEMMA DependenciesAreReads ==
  ASSUME FullInv, phase \in Ordered
  PROVE  /\ DOMAIN dependencies = {x.id : x \in DeclaredUnits}
         /\ \A u \in DOMAIN dependencies :
              /\ dependencies[u] \subseteq DOMAIN dependencies
              /\ IsFiniteSet(dependencies[u])
              /\ \A v \in dependencies[u] : DependsOn(u, v)
         /\ \A u, v : DependsOn(u, v) => u \in DOMAIN dependencies /\ v \in dependencies[u]
<1>1. DOMAIN dependencies = {x.id : x \in DeclaredUnits}
  BY DependenciesKnown DEF DeclaredUnits
<1>2. ASSUME NEW u \in DOMAIN dependencies, NEW v \in dependencies[u]
      PROVE  v \in DOMAIN dependencies /\ DependsOn(u, v)
  <2>1. PICK i \in DOMAIN source.units : u = source.units[i].id
    BY <1>2, DependenciesKnown
  <2>2. v \in ProducingUnits(source.units[i])
    BY <1>2, <2>1, DependenciesKnown
  <2>3. PICK r \in Resources(source.units[i].inputs) : producers[r].unit = v /\ v # 0
    BY <2>2 DEF ProducingUnits
  <2>4. r \in DOMAIN producers
    BY <2>3, PortsKnown
  <2>5. PICK j \in DOMAIN source.units : r \in Resources(source.units[j].outputs)
    BY <2>3, <2>4, PortsKnown
  <2>6. source.units[j].id = v
    BY <2>3, <2>5, PortsKnown
  <2>7. source.units[i] \in DeclaredUnits /\ source.units[j] \in DeclaredUnits
    BY DEF DeclaredUnits
  <2> QED BY <1>1, <2>1, <2>3, <2>5, <2>6, <2>7 DEF DependsOn
<1>3. ASSUME NEW u, NEW v, DependsOn(u, v)
      PROVE  u \in DOMAIN dependencies /\ v \in dependencies[u]
  <2>1. PICK i, j \in DOMAIN source.units :
          /\ source.units[i].id = u /\ source.units[j].id = v
          /\ Resources(source.units[i].inputs) \cap Resources(source.units[j].outputs) # {}
    BY <1>3 DEF DependsOn, DeclaredUnits
  <2>2. PICK r \in Resources(source.units[i].inputs) : r \in Resources(source.units[j].outputs)
    BY <2>1
  <2>3. producers[r].unit = v /\ v # 0
    BY <2>1, <2>2, PortsKnown
  <2>4. v \in ProducingUnits(source.units[i])
    BY <2>2, <2>3 DEF ProducingUnits
  <2> QED BY <2>1, <2>4, DependenciesKnown
<1> QED BY <1>1, <1>2, <1>3, DependenciesKnown

(* When no Unit is ready, those left wait for others left.                  *)
LEMMA RemainingWait ==
  ASSUME FullInv, phase \in Ordered, ready = {}
  PROVE  /\ Remaining = DOMAIN dependencies \ Placed
         /\ \A u \in Remaining : \E v \in Remaining : v \in dependencies[u]
<1>1. OrderExact
  BY DEF FullInv, CompileInv
<1>2. \A u \in DOMAIN dependencies :
        indegree[u] > 0 <=> ~ (dependencies[u] \subseteq Placed)
  <2> TAKE u \in DOMAIN dependencies
  <2>1. IsFiniteSet(dependencies[u])
    BY DependenciesAreReads
  <2>2. IsFiniteSet(dependencies[u] \ Placed)
    BY <2>1, FS_Subset
  <2>3. /\ Cardinality(dependencies[u] \ Placed) \in Nat
        /\ Cardinality(dependencies[u] \ Placed) = 0 <=> dependencies[u] \ Placed = {}
    BY <2>2, FS_CardinalityType, FS_EmptySet
  <2> QED BY <1>1, <2>3 DEF OrderExact
<1>3. \A u \in DOMAIN dependencies \ Placed : ~ (dependencies[u] \subseteq Placed)
  BY <1>1 DEF OrderExact
<1>4. \A u \in Placed : dependencies[u] \subseteq Placed
  <2> SUFFICES ASSUME NEW k \in DOMAIN order PROVE dependencies[order[k]] \subseteq Placed
    BY DEF Placed
  <2>1. dependencies[order[k]] \subseteq {order[j] : j \in 1 .. k - 1}
    BY <1>1 DEF OrderExact
  <2>2. order \in Seq(UnitId)
    BY DEF FullInv, CompileInv, TypeOK
  <2>3. \A j \in 1 .. k - 1 : j \in DOMAIN order
    BY <2>2
  <2> QED BY <2>1, <2>3 DEF Placed
<1>5. Remaining = DOMAIN dependencies \ Placed
  BY <1>1, <1>2, <1>3, <1>4 DEF Remaining, OrderExact
<1>6. \A u \in Remaining : \E v \in Remaining : v \in dependencies[u]
  BY <1>3, <1>5, DependenciesAreReads
<1> QED BY <1>5, <1>6

(* A source whose Units cannot all be placed is cyclic.                     *)
LEMMA LeftOverIsCyclic ==
  ASSUME FullInv, phase \in Ordered, ready = {},
         Len(order) # Cardinality(DOMAIN indegree)
  PROVE  Remaining # {} /\ Cyclic
<1>1. OrderExact /\ order \in Seq(UnitId)
  BY DEF FullInv, CompileInv, TypeOK
<1>2. Remaining # {}
  <2> SUFFICES ASSUME Remaining = {} PROVE Len(order) = Cardinality(DOMAIN indegree)
    OBVIOUS
  <2>1. Placed = DOMAIN indegree
    BY <1>1, RemainingWait DEF OrderExact
  <2>2. /\ order \in [1 .. Len(order) -> Placed] /\ Len(order) \in Nat
        /\ \A t \in Placed : \E k \in 1 .. Len(order) : order[k] = t
    BY <1>1 DEF Placed
  <2>3. \A j, k \in 1 .. Len(order) : j # k => order[j] # order[k]
    BY <1>1 DEF OrderExact
  <2>4. Cardinality(Placed) = Len(order)
    BY ONLY <2>2, <2>3, ElementsOfList
  <2> QED BY <2>1, <2>4
<1>3. \A u \in Remaining : \E v \in Remaining : DependsOn(u, v)
  BY RemainingWait, DependenciesAreReads
<1>4. Remaining \in SUBSET {x.id : x \in DeclaredUnits}
  BY RemainingWait, DependenciesAreReads
<1> QED BY <1>2, <1>3, <1>4 DEF Cyclic

(* A source whose Units are all placed is not.                              *)
LEMMA PlacedIsAcyclic ==
  ASSUME FullInv, phase \in {"compiled", "dense"}
  PROVE  ~ Cyclic
<1> SUFFICES ASSUME Cyclic PROVE FALSE
  OBVIOUS
<1>1. phase \in Ordered /\ OrderExact
  BY DEF Ordered, FullInv, CompileInv
<1> DEFINE Ids == {x.id : x \in DeclaredUnits}
<1>2. PICK S : /\ S \subseteq Ids /\ S # {}
               /\ \A u \in S : \E v \in S : DependsOn(u, v)
  <2>1. \E S \in (SUBSET Ids) \ {{}} : \A u \in S : \E v \in S : DependsOn(u, v)
    BY DEF Cyclic
  <2> HIDE DEF Ids
  <2> QED BY <2>1
<1> DEFINE P == {k \in DOMAIN order : order[k] \in S}
<1>3. P \in SUBSET Nat /\ P # {}
  <2>1. Placed = DOMAIN dependencies /\ order \in Seq(UnitId)
    BY OrderIsComplete
  <2>2. DOMAIN dependencies = Ids
    BY <1>1, DependenciesAreReads
  <2>3. S \subseteq Placed /\ S # {}
    BY ONLY <1>2, <2>1, <2>2
  <2> QED BY <2>1, <2>3 DEF Placed
<1>4. PICK k \in P : \A j \in P : k <= j
  BY <1>3, LeastNatural
<1>5. PICK v \in S : DependsOn(order[k], v)
  BY <1>2
<1>6. v \in dependencies[order[k]]
  BY <1>1, <1>5, DependenciesAreReads
<1>7. PICK j \in 1 .. k - 1 : order[j] = v
  BY <1>1, <1>6 DEF OrderExact
<1>8. j \in DOMAIN order /\ j < k
  <2>1. order \in Seq(UnitId)
    BY OrderIsComplete
  <2> QED BY <2>1
<1> QED BY <1>3, <1>4, <1>5, <1>7, <1>8

(* Nothing is wrong with a source that was ordered, if its outputs do not   *)
(* repeat.                                                                  *)
LEMMA CompiledIsSound ==
  ASSUME VerdictInv, phase \in {"compiled", "dense"}
  PROVE  \A e \in Errors : ~ Defect(e)
<1>1. /\ phase \in Ordered /\ phase \in Connecting /\ FullInv /\ source \in Source
      /\ UnitsConnected = DOMAIN source.units /\ OutputsChecked = DOMAIN source.outputs
      /\ UnitsSeen = DOMAIN source.units /\ InputsSeen = DOMAIN source.inputs
      /\ phase \notin EarlyErrors
  BY EarlyErrorsAre DEF Ordered, Connecting, VerdictInv, FullInv, UnitsConnected,
     OutputsChecked, UnitsSeen, InputsSeen
<1>2. ~ Defect("duplicate_producer")
  <2> SUFFICES ASSUME NEW c \in Declarations, NEW d \in Declarations,
                      Declaration(c).resource = Declaration(d).resource
               PROVE  c = d
    BY DEF Defect
  <2>1. \A j, k \in DOMAIN source.inputs :
          j # k => source.inputs[j].resource # source.inputs[k].resource
    BY <1>1 DEF VerdictInv, TypesRecorded
  <2>2. ASSUME NEW k \in DOMAIN source.units, NEW i \in DOMAIN source.units[k].outputs
        PROVE  /\ source.units[k].outputs[i].resource \in Resources(source.units[k].outputs)
               /\ producers[source.units[k].outputs[i].resource].unit = source.units[k].id
               /\ source.units[k].id # 0
    <3>1. source.units[k].outputs[i].resource \in Resources(source.units[k].outputs)
      BY DEF Resources
    <3> QED BY <1>1, <3>1, PortsKnown
  <2>3. \A j, k \in DOMAIN source.units : j # k => source.units[j].id # source.units[k].id
    BY <1>1, NamesAreUnique
  <2>4. \A k \in DOMAIN source.units : \A i, j \in DOMAIN source.units[k].outputs :
          i # j => source.units[k].outputs[i].resource # source.units[k].outputs[j].resource
    BY <1>1, PortsKnown
  <2>5. \A k \in DOMAIN source.inputs : producers[source.inputs[k].resource].unit = 0
    BY <1>1, ProducersTell
  <2>6. CASE \E k \in DOMAIN source.inputs : c = <<0, k>>
    <3>1. PICK k \in DOMAIN source.inputs : c = <<0, k>>
      BY <2>6
    <3>2. Declaration(c) = source.inputs[k]
      BY <1>1, <3>1, Declares
    <3>3. CASE \E j \in DOMAIN source.inputs : d = <<0, j>>
      <4>1. PICK j \in DOMAIN source.inputs : d = <<0, j>>
        BY <3>3
      <4>2. Declaration(d) = source.inputs[j]
        BY <1>1, <4>1, Declares
      <4> QED BY <2>1, <3>1, <3>2, <4>1, <4>2
    <3>4. CASE \E j \in DOMAIN source.units : \E i \in DOMAIN source.units[j].outputs : d = <<j, i>>
      <4>1. PICK j \in DOMAIN source.units : \E i \in DOMAIN source.units[j].outputs : d = <<j, i>>
        BY <3>4
      <4>2. PICK i \in DOMAIN source.units[j].outputs : d = <<j, i>>
        BY <4>1
      <4>3. Declaration(d) = source.units[j].outputs[i]
        BY <1>1, <4>2, Declares
      <4> QED BY <2>2, <2>5, <3>2, <4>3
    <3> QED BY <1>1, <3>3, <3>4, Declares
  <2>7. CASE \E j \in DOMAIN source.units : \E i \in DOMAIN source.units[j].outputs : c = <<j, i>>
    <3>1. PICK j \in DOMAIN source.units : \E i \in DOMAIN source.units[j].outputs : c = <<j, i>>
      BY <2>7
    <3>2. PICK i \in DOMAIN source.units[j].outputs : c = <<j, i>>
      BY <3>1
    <3>3. Declaration(c) = source.units[j].outputs[i]
      BY <1>1, <3>2, Declares
    <3>4. CASE \E k \in DOMAIN source.inputs : d = <<0, k>>
      <4>1. PICK k \in DOMAIN source.inputs : d = <<0, k>>
        BY <3>4
      <4>2. Declaration(d) = source.inputs[k]
        BY <1>1, <4>1, Declares
      <4> QED BY <2>2, <2>5, <3>3, <4>2
    <3>5. CASE \E k \in DOMAIN source.units : \E l \in DOMAIN source.units[k].outputs : d = <<k, l>>
      <4>1. PICK k \in DOMAIN source.units : \E l \in DOMAIN source.units[k].outputs : d = <<k, l>>
        BY <3>5
      <4>2. PICK l \in DOMAIN source.units[k].outputs : d = <<k, l>>
        BY <4>1
      <4>3. Declaration(d) = source.units[k].outputs[l]
        BY <1>1, <4>2, Declares
      <4>4. source.units[j].id = source.units[k].id
        BY <2>2, <3>3, <4>3
      <4>5. j = k
        BY <2>3, <4>4
      <4>6. i = l
        BY <2>4, <3>3, <4>3, <4>5
      <4> QED BY <3>2, <4>2, <4>5, <4>6
    <3> QED BY <1>1, <3>4, <3>5, Declares
  <2> QED BY <1>1, <2>6, <2>7, Declares
<1>3. ~ Defect("duplicate_unit")
  BY <1>1, NamesAreUnique DEF Defect
<1>4. ~ Defect("duplicate_port")
  <2>1. \A k \in DOMAIN source.units : ~ PortsRepeat(source.units[k])
    BY <1>1, DeclaredSoFar
  <2>2. \A x \in DeclaredUnits :
          ~ PortsRepeat(x) /\ x.inputs \in Seq(Binding) /\ x.outputs \in Seq(Binding)
    BY <1>1, <2>1, SourceTypes DEF DeclaredUnits
  <2>3. \A x \in DeclaredUnits : \A bindings \in {x.inputs, x.outputs} :
          \A j, k \in DOMAIN bindings : j # k => bindings[j].port # bindings[k].port
    BY <2>2, PortsCounted DEF PortsRepeat
  <2> QED BY <2>3 DEF Defect
<1>5. \A b \in InputBindings : BindingFault(b) = "none"
  <2>1. \A k \in DOMAIN source.units : FaultyInputs(source.units[k]) = {}
    BY <1>1 DEF VerdictInv, NothingPassed
  <2>2. \A k \in DOMAIN source.units : \A i \in DOMAIN source.units[k].inputs :
          BindingFault(source.units[k].inputs[i]) = "none"
    BY <2>1 DEF FaultyInputs
  <2> QED BY <2>2 DEF InputBindings, DeclaredUnits
<1>6. \A b \in InputBindings :
        /\ b.resource \in DOMAIN producers
        /\ b.semantic = producers[b.resource].semantic
        /\ b.concrete = producers[b.resource].concrete
  BY <1>5 DEF BindingFault
<1>7. ~ Defect("unknown_resource")
  BY <1>1, <1>6, ProducersTell DEF Defect
<1>8. ~ Defect("semantic_mismatch") /\ ~ Defect("concrete_mismatch")
  <2>1. \A b \in InputBindings, d \in Declarations : Declaration(d).resource = b.resource =>
          Declaration(d).semantic = b.semantic /\ Declaration(d).concrete = b.concrete
    BY <1>1, <1>6, ProducersTell
  <2> QED BY <2>1 DEF Defect
<1>9. \A k \in DOMAIN source.outputs :
        source.outputs[k] \in DOMAIN producers /\ producers[source.outputs[k]].unit # 0
  BY <1>1 DEF FullInv, CompileInv, OutputsExact
<1>10. ~ Defect("unknown_output")
  BY <1>1, <1>9, ProducersTell DEF Defect
<1>11. ~ Defect("input_as_output")
  BY <1>1, <1>9, ProducersTell DEF Defect
<1>12. ~ Defect("cycle")
  BY <1>1, PlacedIsAcyclic DEF Defect
<1>13. ~ Defect("duplicate_output")
  BY DEF VerdictInv, NothingPassed, Defect
<1> QED
  BY <1>2, <1>3, <1>4, <1>7, <1>8, <1>10, <1>11, <1>12, <1>13 DEF Errors

(* FinishCompile and IntoDense. *)
LEMMA FinishIsRight ==
  ASSUME VerdictInv, FinishCompile \/ IntoDense
  PROVE  VerdictInv'
<1>1. /\ FullInv /\ FullInv' /\ phase \in {"ordering", "compiled"}
      /\ UNCHANGED <<source, producers, stack, visited, indegree, order, ready>>
      /\ \/ phase' = "duplicate_output" /\ OutputsRepeat
         \/ phase' = "compiled" /\ ~ OutputsRepeat
         \/ phase = "compiled" /\ phase' = "dense"
  BY FinishCompileKeepsInv, IntoDenseKeepsInv, DenseAccepts
  DEF FinishCompile, IntoDense, VerdictInv, Reject
<1>2. /\ phase \in Connecting /\ phase' \in Connecting
      /\ phase' \notin {"connections", "search", "cycle"}
      /\ phase \notin {"connections", "search", "cycle"}
  BY <1>1 DEF Connecting, Ordered
<1>3. TypesRecorded'
  BY <1>1, <1>2, LaterRecordsStay
<1>4. NothingPassed'
  <2>1. OutputsRepeat' <=> OutputsRepeat
    BY <1>1 DEF OutputsRepeat
  <2>2. phase' \in {"compiled", "dense"} => ~ OutputsRepeat
    BY <1>1 DEF VerdictInv, NothingPassed
  <2> QED BY <1>1, <1>2, <2>1, <2>2, ConnectionsStay DEF NothingPassed
<1>5. SearchExact' /\ CycleIsGenuine'
  BY <1>1, <1>2 DEF SearchExact, CycleIsGenuine, VerdictInv
<1>6. Answered'
  <2>1. \A c \in Errors : (phase = c => Defect(c))' <=> (phase' = c => Defect(c))
    BY <1>1, DefectsStay
  <2>2. OutputsRepeat => Defect("duplicate_output")
    BY DEF Defect
  <2>3. \A c \in Errors : phase' = c => Defect(c)
    BY <1>1, <2>2 DEF Errors
  <2> QED BY <1>5, <2>1, <2>3 DEF Answered
<1> QED BY <1>1, <1>3, <1>4, <1>5, <1>6 DEF VerdictInv

(* StartSearch. *)
LEMMA StartSearchIsRight ==
  ASSUME VerdictInv, StartSearch
  PROVE  VerdictInv'
<1>1. /\ FullInv /\ FullInv' /\ phase = "ordering" /\ phase' = "search" /\ ready = {}
      /\ Len(order) # Cardinality(DOMAIN indegree)
      /\ UNCHANGED <<source, producers, stack, visited, indegree, order, ready>>
  BY FinishCompileKeepsInv DEF StartSearch, VerdictInv
<1>2. phase \in Connecting /\ phase' \in Connecting
  BY <1>1 DEF Connecting, Ordered
<1>3. TypesRecorded'
  BY <1>1, <1>2, LaterRecordsStay
<1>4. NothingPassed'
  BY <1>1, <1>2, ConnectionsStay DEF NothingPassed
<1>5. stack' = <<>> /\ visited' = {}
  BY <1>1 DEF VerdictInv, SearchExact
<1>6. SearchExact'
  <2>1. StackIsPath'
    BY <1>5 DEF StackIsPath
  <2>2. Finished' = {} /\ (SUBSET Finished') \ {{}} = {}
    BY <1>5 DEF Finished
  <2>3. FinishedAcyclic'
    BY <1>5, <2>2 DEF FinishedAcyclic
  <2> QED BY <1>1, <2>1, <2>3 DEF SearchExact
<1>7. Answered'
  BY <1>1 DEF Answered, Errors, CycleIsGenuine
<1> QED BY <1>1, <1>3, <1>4, <1>6, <1>7 DEF VerdictInv

(* What every step of the search leaves alone, and what it starts from.     *)
LEMMA SearchStep ==
  ASSUME VerdictInv, VisitRoot \/ TryNeighbour \/ Retreat
  PROVE  /\ FullInv' /\ TypesRecorded' /\ NothingPassed'
         /\ phase = "search" /\ StackIsPath /\ FinishedAcyclic /\ Cyclic
         /\ UNCHANGED source /\ Remaining' = Remaining
         /\ \A u : Outgoing(u)' = Outgoing(u)
         /\ stack \in Seq([unit : UnitId, untried : SUBSET UnitId])
         /\ Len(stack) \in Nat /\ DOMAIN stack = 1 .. Len(stack)
         /\ Remaining \subseteq UnitId /\ Remaining # {}
         /\ \A u \in Remaining : \E v \in Remaining : u \in Outgoing(v)
         /\ \A u, v : v \in Outgoing(u) => DependsOn(v, u)
<1>1. /\ FullInv /\ FullInv' /\ phase = "search"
      /\ UNCHANGED <<source, at, producers, consumers, dependencies, indegree, ready, order>>
  BY SearchKeepsInv DEF VerdictInv, VisitRoot, TryNeighbour, Retreat
<1>2. phase' \in {"search", "cycle"}
  BY DEF VisitRoot, TryNeighbour, Retreat, CloseCycle
<1>3. /\ phase \in Connecting /\ phase' \in Connecting /\ phase \in Ordered
      /\ phase' # "connections" /\ phase # "connections"
      /\ phase' \notin {"compiled", "dense"}
  BY <1>1, <1>2 DEF Connecting, Ordered
<1>4. TypesRecorded'
  BY <1>1, <1>3, LaterRecordsStay
<1>5. ready = {} /\ Len(order) # Cardinality(DOMAIN indegree)
  BY <1>1 DEF VerdictInv, NothingPassed
<1>6. NothingPassed'
  BY <1>1, <1>3, <1>5, ConnectionsStay DEF NothingPassed
<1>7. Remaining' = Remaining /\ \A u : Outgoing(u)' = Outgoing(u)
  BY <1>1 DEF Remaining, Outgoing
<1>8. Remaining # {} /\ Cyclic
  BY <1>1, <1>3, <1>5, LeftOverIsCyclic
<1>9. /\ Remaining \subseteq DOMAIN dependencies /\ DOMAIN dependencies \subseteq UnitId
      /\ \A u \in Remaining : \E v \in Remaining : v \in dependencies[u]
  BY <1>1, <1>3, <1>5, RemainingWait, DependenciesKnown
<1>10. \A u \in Remaining : \E v \in Remaining : u \in Outgoing(v)
  BY <1>9 DEF Outgoing
<1>11. \A u, v : v \in Outgoing(u) => DependsOn(v, u)
  BY <1>1, <1>3, DependenciesAreReads DEF Outgoing
<1>12. stack \in Seq([unit : UnitId, untried : SUBSET UnitId])
  BY <1>1 DEF FullInv, CompileInv, TypeOK
<1>13. Len(stack) \in Nat /\ DOMAIN stack = 1 .. Len(stack)
  BY <1>12
<1>14. StackIsPath /\ FinishedAcyclic
  BY <1>1 DEF VerdictInv, SearchExact
<1> QED
  BY <1>1, <1>4, <1>6, <1>7, <1>8, <1>9, <1>10, <1>11, <1>12, <1>13, <1>14

(* A step that goes on searching.                                           *)
LEMMA SearchGoesOn ==
  ASSUME VerdictInv, VisitRoot \/ TryNeighbour \/ Retreat, phase' = "search",
         StackIsPath', FinishedAcyclic'
  PROVE  VerdictInv'
<1>1. SearchExact'
  BY DEF SearchExact
<1>2. Answered'
  BY DEF Answered, Errors, CycleIsGenuine
<1> QED BY <1>1, <1>2, SearchStep DEF VerdictInv

(* Visiting another Unit finishes none.                                     *)
LEMMA FinishedStays ==
  ASSUME FinishedAcyclic, Finished' = Finished, visited' \subseteq Remaining,
         Remaining' = Remaining, \A u : Outgoing(u)' = Outgoing(u)
  PROVE  FinishedAcyclic'
<1>1. \A u \in Finished' : (Outgoing(u) \cap Remaining)' \subseteq Finished'
  BY DEF FinishedAcyclic
<1>2. \A S \in (SUBSET Finished') \ {{}} : \E u \in S : \A w \in S : u \notin Outgoing(w)'
  BY DEF FinishedAcyclic
<1> QED BY <1>1, <1>2 DEF FinishedAcyclic

(* VisitRoot finds a root: were all Units left finished, they would close   *)
(* no cycle, yet each has another left before it.                           *)
LEMMA VisitRootIsRight ==
  ASSUME VerdictInv, VisitRoot
  PROVE  VerdictInv'
<1> DEFINE roots == Remaining \ visited
           v == Min(roots)
<1>1. stack = <<>> /\ OnStack = {} /\ Finished = visited
  BY DEF VisitRoot, OnStack, Finished
<1>2. /\ StackIsPath /\ FinishedAcyclic /\ Remaining # {} /\ Remaining \subseteq UnitId
      /\ Remaining' = Remaining /\ \A u : Outgoing(u)' = Outgoing(u)
      /\ \A u \in Remaining : \E w \in Remaining : u \in Outgoing(w)
  BY SearchStep
<1>3. roots # {}
  <2> SUFFICES ASSUME Remaining \subseteq visited PROVE FALSE
    OBVIOUS
  <2>1. Finished = Remaining
    BY <1>1, <1>2 DEF FinishedAcyclic
  <2>2. Remaining \in (SUBSET Finished) \ {{}}
    BY <1>2, <2>1
  <2>3. PICK u \in Remaining : \A w \in Remaining : u \notin Outgoing(w)
    BY <1>2, <2>2 DEF FinishedAcyclic
  <2> QED BY <1>2, <2>3
<1>4. v \in roots
  <2>1. roots \in SUBSET Nat
    BY <1>2, UnitNames
  <2> HIDE DEF roots
  <2> QED BY <1>3, <2>1, MinOfNaturals
<1>5. /\ stack' = <<Frame(v)>> /\ visited' = visited \cup {v} /\ phase' = "search"
  BY <1>3, SearchStep DEF VisitRoot
<1> HIDE DEF v
<1>6. /\ DOMAIN stack' = 1 .. 1 /\ Len(stack') = 1
      /\ stack'[1].unit = v /\ stack'[1].untried = Outgoing(v) \cap Remaining
  BY <1>5 DEF Frame
<1>7. Finished' = Finished
  <2>1. OnStack' = {v}
    BY <1>6 DEF OnStack
  <2> QED BY <1>1, <1>4, <1>5, <2>1 DEF Finished
<1>8. FinishedAcyclic'
  <2>1. visited' \subseteq Remaining
    BY <1>2, <1>4, <1>5 DEF FinishedAcyclic
  <2> QED BY <1>2, <1>7, <2>1, FinishedStays
<1>9. StackIsPath'
  BY <1>2, <1>5, <1>6 DEF StackIsPath
<1> QED BY <1>5, <1>8, <1>9, SearchGoesOn

(* CloseCycle reports the part of the stack the neighbour closes.           *)
LEMMA CloseCycleIsRight ==
  ASSUME VerdictInv, TryNeighbour, NEW v, v \in Top.untried, CloseCycle(v)
  PROVE  VerdictInv'
<1> DEFINE start == CHOOSE k \in DOMAIN stack : stack[k].unit = v
           n == Len(stack)
           m == n - start + 1
           part == [k \in 1 .. m |-> stack[start + k - 1].unit]
<1>1. start \in DOMAIN stack /\ stack[start].unit = v
  BY DEF CloseCycle, OnStack
<1>2. phase' = "cycle" /\ path' = Append(part, v)
  BY DEF CloseCycle
<1>3. /\ StackIsPath /\ Cyclic /\ n \in Nat /\ DOMAIN stack = 1 .. n
      /\ UNCHANGED source /\ \A u, w : w \in Outgoing(u) => DependsOn(w, u)
  BY SearchStep
<1> HIDE DEF start
<1>4. start \in 1 .. n /\ m \in 1 .. n
  BY <1>1, <1>3
<1>5. part \in Seq({stack[k].unit : k \in DOMAIN stack}) /\ Len(part) = m
  BY <1>3, <1>4
<1>6. /\ Len(path') = m + 1 /\ path'[m + 1] = v
      /\ \A k \in 1 .. m : path'[k] = stack[start + k - 1].unit
  BY <1>2, <1>4, <1>5
<1>7. Len(path') > 1 /\ path'[1] = path'[Len(path')]
  BY <1>1, <1>4, <1>6
<1>8. \A k \in 1 .. m : path'[k + 1] \in Outgoing(path'[k])
  <2> TAKE k \in 1 .. m
  <2>1. CASE k = m
    <3>1. path'[k] = Top.unit /\ Top = stack[n] /\ n \in DOMAIN stack
      BY <1>3, <1>4, <1>6, <2>1 DEF Top
    <3>2. v \in Outgoing(stack[n].unit)
      BY <1>3, <3>1 DEF StackIsPath
    <3> QED BY <1>6, <2>1, <3>1, <3>2
  <2>2. CASE k < m
    <3>1. /\ start + k - 1 \in DOMAIN stack /\ start + k - 1 < n /\ k + 1 \in 1 .. m
          /\ (start + k - 1) + 1 = start + (k + 1) - 1
      BY <1>3, <1>4, <2>2
    <3>2. stack[(start + k - 1) + 1].unit \in Outgoing(stack[start + k - 1].unit)
      BY <1>3, <3>1 DEF StackIsPath
    <3> QED BY <1>6, <3>1, <3>2
  <2> QED BY <1>4, <2>1, <2>2
<1>9. \A j, k \in 1 .. m : j # k => path'[j] # path'[k]
  <2> TAKE j, k \in 1 .. m
  <2>1. /\ start + j - 1 \in DOMAIN stack /\ start + k - 1 \in DOMAIN stack
        /\ start + j - 1 = start + k - 1 => j = k
    BY <1>3, <1>4
  <2> QED BY <1>3, <1>6, <2>1 DEF StackIsPath
<1>10. CycleIsGenuine'
  <2>1. DeclaredUnits' = DeclaredUnits
    BY <1>3 DEF DeclaredUnits
  <2>2. \A k \in 1 .. m : \E x, y \in DeclaredUnits :
          /\ x.id = path'[k + 1] /\ y.id = path'[k]
          /\ Resources(x.inputs) \cap Resources(y.outputs) # {}
    <3>1. \A k \in 1 .. m : DependsOn(path'[k + 1], path'[k])
      BY <1>3, <1>8
    <3> QED BY <3>1 DEF DependsOn
  <2>3. 1 .. Len(path') - 1 = 1 .. m
    BY <1>4, <1>6
  <2> HIDE DEF m, n, part
  <2>4. (\A k \in 1 .. Len(path) - 1 : DependsOn(path[k + 1], path[k]))'
    <3>1. \A k \in 1 .. Len(path') - 1 : \E x, y \in DeclaredUnits' :
            /\ x.id = path'[k + 1] /\ y.id = path'[k]
            /\ Resources(x.inputs) \cap Resources(y.outputs) # {}
      <4> TAKE k \in 1 .. Len(path') - 1
      <4>1. k \in 1 .. m
        BY <2>3
      <4> QED BY <2>1, <2>2, <4>1, Zenon
    <3> QED BY <3>1, Zenon DEF DependsOn
  <2>5. (\A j, k \in 1 .. Len(path) - 1 : j # k => path[j] # path[k])'
    BY <1>9, <2>3
  <2> QED BY <1>7, <2>4, <2>5 DEF CycleIsGenuine
<1>11. Answered'
  <2>1. \A c \in Errors : (phase = c => Defect(c))' <=> (phase' = c => Defect(c))
    BY <1>3, DefectsStay
  <2>2. Defect("cycle")
    BY <1>3 DEF Defect
  <2> QED BY <1>2, <1>10, <2>1, <2>2 DEF Answered
<1>12. SearchExact'
  BY <1>2 DEF SearchExact
<1> QED BY <1>11, <1>12, SearchStep DEF VerdictInv

(* Tried takes a neighbour from the topmost Unit.                           *)
LEMMA TriedFits ==
  ASSUME stack \in Seq([unit : UnitId, untried : SUBSET UnitId]), stack # <<>>, NEW v
  PROVE  /\ Tried(v) \in Seq([unit : UnitId, untried : SUBSET UnitId])
         /\ Len(Tried(v)) = Len(stack)
         /\ \A k \in 1 .. Len(stack) :
              /\ Tried(v)[k].unit = stack[k].unit
              /\ Tried(v)[k].untried =
                   IF k = Len(stack) THEN stack[k].untried \ {v} ELSE stack[k].untried
<1> DEFINE F == [unit : UnitId, untried : SUBSET UnitId]
           n == Len(stack)
<1>1. n \in 1 .. n /\ DOMAIN stack = 1 .. n /\ n \in Nat
  OBVIOUS
<1>2. \A k \in 1 .. n : stack[k] \in F
  <2> HIDE DEF F
  <2>1. stack \in Seq(F)
    BY DEF F
  <2> QED BY <1>1, <2>1
<1>3. Tried(v) = [stack EXCEPT ![n] = [stack[n] EXCEPT !.untried = stack[n].untried \ {v}]]
  BY DEF Tried
<1>4. [stack[n] EXCEPT !.untried = stack[n].untried \ {v}] \in F
  BY <1>1, <1>2
<1>5. /\ [stack[n] EXCEPT !.untried = stack[n].untried \ {v}].unit = stack[n].unit
      /\ [stack[n] EXCEPT !.untried = stack[n].untried \ {v}].untried = stack[n].untried \ {v}
  BY <1>1, <1>2
<1> DEFINE top == [stack[n] EXCEPT !.untried = stack[n].untried \ {v}]
<1> HIDE DEF top
<1>6. Tried(v) = [stack EXCEPT ![n] = top] /\ top \in F
  BY <1>3, <1>4 DEF top
<1>7. Tried(v) \in Seq(F) /\ Len(Tried(v)) = n
  <2> HIDE DEF F
  <2>1. stack \in Seq(F)
    BY DEF F
  <2> QED BY <1>1, <1>6, <2>1
<1>8. \A k \in 1 .. n : Tried(v)[k] = IF k = n THEN top ELSE stack[k]
  BY <1>1, <1>6
<1> QED BY <1>5, <1>7, <1>8 DEF top

(* TryNeighbour. *)
LEMMA TryNeighbourIsRight ==
  ASSUME VerdictInv, TryNeighbour
  PROVE  VerdictInv'
<1> DEFINE v == Min(Top.untried)
           n == Len(stack)
<1>1. /\ stack # <<>> /\ Top.untried # {} /\ Top = stack[n]
      /\ \/ CloseCycle(v)
         \/ v \in visited \ OnStack /\ stack' = Tried(v) /\ UNCHANGED <<phase, visited>>
         \/ /\ v \notin visited /\ stack' = Append(Tried(v), Frame(v))
            /\ visited' = visited \cup {v} /\ UNCHANGED phase
  BY DEF TryNeighbour, Top
<1>2. /\ phase = "search" /\ StackIsPath /\ FinishedAcyclic
      /\ Remaining' = Remaining /\ \A u : Outgoing(u)' = Outgoing(u)
      /\ stack \in Seq([unit : UnitId, untried : SUBSET UnitId])
      /\ n \in Nat /\ DOMAIN stack = 1 .. n /\ Remaining \subseteq UnitId
  BY SearchStep
<1>3. n \in 1 .. n
  BY <1>1, <1>2
<1>4. v \in stack[n].untried /\ v \in Outgoing(stack[n].unit) \cap Remaining
  <2>1. stack[n].untried \subseteq Outgoing(stack[n].unit) \cap Remaining
    BY <1>2, <1>3 DEF StackIsPath
  <2>2. Top.untried \in SUBSET Nat
    BY <1>1, <1>2, <2>1, UnitNames
  <2>3. v \in Top.untried
    BY <1>1, <2>2, MinOfNaturals
  <2> QED BY <1>1, <2>1, <2>3
<1> HIDE DEF v
<1>5. /\ Len(Tried(v)) = n /\ Tried(v) \in Seq([unit : UnitId, untried : SUBSET UnitId])
      /\ \A k \in 1 .. n :
           /\ Tried(v)[k].unit = stack[k].unit
           /\ Tried(v)[k].untried =
                IF k = n THEN stack[k].untried \ {v} ELSE stack[k].untried
  BY <1>1, <1>2, TriedFits
<1> DEFINE t == Tried(v)
<1> HIDE DEF t
<1>6. /\ Len(t) = n /\ t \in Seq([unit : UnitId, untried : SUBSET UnitId])
      /\ \A k \in 1 .. n :
           /\ t[k].unit = stack[k].unit
           /\ t[k].untried = IF k = n THEN stack[k].untried \ {v} ELSE stack[k].untried
  BY <1>5 DEF t
<1>7. /\ OnStack = {stack[k].unit : k \in 1 .. n}
      /\ Following(n) = {} /\ \A k \in 1 .. n : k < n => Following(k) = {stack[k + 1].unit}
  BY <1>2 DEF OnStack, Following
<1>8. /\ \A k \in 1 .. n :
           /\ stack[k].unit \in visited
           /\ stack[k].untried \subseteq Outgoing(stack[k].unit) \cap Remaining
           /\ k < n => stack[k + 1].unit \in Outgoing(stack[k].unit)
           /\ (Outgoing(stack[k].unit) \cap Remaining) \ stack[k].untried
                \subseteq Finished \cup Following(k)
      /\ \A j, k \in 1 .. n : j # k => stack[j].unit # stack[k].unit
  BY <1>2 DEF StackIsPath
<1> HIDE DEF n
<1>9. CASE CloseCycle(v)
  BY <1>1, <1>4, <1>9, CloseCycleIsRight
<1>10. CASE v \in visited \ OnStack /\ stack' = t /\ UNCHANGED <<phase, visited>>
  <2>1. DOMAIN stack' = 1 .. n /\ Len(stack') = n
    BY <1>2, <1>6, <1>10
  <2>2. \A k \in 1 .. n :
          /\ stack'[k].unit = stack[k].unit
          /\ stack'[k].untried = IF k = n THEN stack[k].untried \ {v} ELSE stack[k].untried
    BY <1>6, <1>10
  <2>3. OnStack' = OnStack
    <3>1. OnStack' = {stack'[k].unit : k \in 1 .. n}
      BY <2>1 DEF OnStack
    <3> QED BY <1>7, <2>2, <3>1
  <2>4. Finished' = Finished /\ v \in Finished
    BY <1>10, <2>3 DEF Finished
  <2>5. FinishedAcyclic'
    BY <1>2, <1>10, <2>4, FinishedStays DEF FinishedAcyclic
  <2>6. \A k \in 1 .. n : Following(k)' = IF k < n THEN {stack'[k + 1].unit} ELSE {}
    BY <1>2, <2>1 DEF Following
  <2>7. \A k \in 1 .. n : k < n => k + 1 \in 1 .. n
    BY <1>2
  <2>8. \A k \in 1 .. n : Following(k) \subseteq Following(k)'
    <3> TAKE k \in 1 .. n
    <3>1. CASE k < n
      BY <1>7, <2>2, <2>6, <2>7, <3>1
    <3>2. CASE ~ (k < n)
      <4>1. k = n
        BY <1>2, <3>2
      <4> QED BY <1>7, <4>1
    <3> QED BY <3>1, <3>2
  <2>9. ASSUME NEW k \in 1 .. n
        PROVE  /\ stack'[k].unit \in visited'
               /\ stack'[k].untried \subseteq Outgoing(stack'[k].unit) \cap Remaining
               /\ k < n => stack'[k + 1].unit \in Outgoing(stack'[k].unit)
               /\ (Outgoing(stack'[k].unit) \cap Remaining) \ stack'[k].untried
                    \subseteq Finished' \cup Following(k)'
    <3>1. /\ stack'[k].unit = stack[k].unit
          /\ stack'[k].untried \subseteq stack[k].untried
          /\ stack[k].untried \ stack'[k].untried \subseteq {v}
          /\ k < n => stack'[k + 1].unit = stack[k + 1].unit
      BY <2>2, <2>7
    <3>2. Following(k) \subseteq Following(k)'
      BY <2>8
    <3> QED BY <1>8, <1>10, <2>4, <3>1, <3>2
  <2>10. \A j, k \in 1 .. n : j # k => stack'[j].unit # stack'[k].unit
    BY <1>8, <2>2
  <2>11. StackIsPath'
    BY <1>2, <2>1, <2>9, <2>10 DEF StackIsPath
  <2> QED BY <1>2, <1>10, <2>5, <2>11, SearchGoesOn
<1>11. CASE /\ v \notin visited /\ stack' = Append(t, Frame(v))
            /\ visited' = visited \cup {v} /\ UNCHANGED phase
  <2>1. /\ DOMAIN stack' = 1 .. n + 1 /\ Len(stack') = n + 1
        /\ \A k \in 1 .. n : stack'[k] = t[k]
        /\ stack'[n + 1] = Frame(v)
    BY <1>2, <1>6, <1>11
  <2>2. /\ \A k \in 1 .. n :
             /\ stack'[k].unit = stack[k].unit
             /\ stack'[k].untried =
                  IF k = n THEN stack[k].untried \ {v} ELSE stack[k].untried
        /\ stack'[n + 1].unit = v /\ stack'[n + 1].untried = Outgoing(v) \cap Remaining
    <3>1. Frame(v).unit = v /\ Frame(v).untried = Outgoing(v) \cap Remaining
      BY DEF Frame
    <3>2. \A k \in 1 .. n :
            /\ stack'[k].unit = stack[k].unit
            /\ stack'[k].untried =
                 IF k = n THEN stack[k].untried \ {v} ELSE stack[k].untried
      BY <1>6, <2>1
    <3> QED BY <2>1, <3>1, <3>2
  <2>3. OnStack' = OnStack \cup {v}
    <3>1. OnStack' = {stack'[k].unit : k \in 1 .. n + 1}
      BY <2>1 DEF OnStack
    <3>2. 1 .. n + 1 = (1 .. n) \cup {n + 1}
      BY <1>2
    <3>3. \A x \in OnStack' : x \in OnStack \/ x = v
      BY <1>7, <2>2, <3>1, <3>2
    <3>4. \A x \in OnStack : x \in OnStack'
      BY <1>7, <2>2, <3>1, <3>2
    <3>5. v \in OnStack'
      BY <2>2, <3>1, <3>2
    <3> QED BY <3>3, <3>4, <3>5
  <2>4. Finished' = Finished
    BY <1>11, <2>3 DEF Finished
  <2>5. FinishedAcyclic'
    <3>1. visited' \subseteq Remaining
      BY <1>2, <1>4, <1>11 DEF FinishedAcyclic
    <3> QED BY <1>2, <2>4, <3>1, FinishedStays
  <2>6. \A k \in 1 .. n + 1 : Following(k)' = IF k < n + 1 THEN {stack'[k + 1].unit} ELSE {}
    BY <1>2, <2>1 DEF Following
  <2>7. ASSUME NEW k \in 1 .. n + 1
        PROVE  /\ stack'[k].unit \in visited'
               /\ stack'[k].untried \subseteq Outgoing(stack'[k].unit) \cap Remaining
               /\ k < n + 1 => stack'[k + 1].unit \in Outgoing(stack'[k].unit)
               /\ (Outgoing(stack'[k].unit) \cap Remaining) \ stack'[k].untried
                    \subseteq Finished' \cup Following(k)'
    <3>1. CASE k = n + 1
      <4>1. stack'[k].unit = v /\ stack'[k].untried = Outgoing(v) \cap Remaining
        BY <2>2, <3>1
      <4>2. ~ (k < n + 1) /\ v \in visited'
        BY <1>2, <1>11, <3>1
      <4> QED BY <4>1, <4>2
    <3>2. CASE k = n
      <4>1. /\ stack'[k].unit = stack[k].unit /\ stack'[k + 1].unit = v
            /\ stack'[k].untried = stack[k].untried \ {v}
        BY <1>3, <2>2, <3>2
      <4>2. Following(k) = {} /\ Following(k)' = {v}
        BY <1>2, <1>7, <2>6, <3>2, <4>1
      <4>3. /\ stack[k].unit \in visited
            /\ stack[k].untried \subseteq Outgoing(stack[k].unit) \cap Remaining
            /\ (Outgoing(stack[k].unit) \cap Remaining) \ stack[k].untried
                 \subseteq Finished \cup Following(k)
        BY <1>3, <1>8, <3>2
      <4>4. v \in Outgoing(stack[k].unit)
        BY <1>4, <3>2
      <4> QED BY <1>11, <2>4, <4>1, <4>2, <4>3, <4>4
    <3>3. CASE k \in 1 .. n /\ k < n
      <4>1. k + 1 \in 1 .. n /\ k < n + 1 /\ k # n
        BY <1>2, <3>3
      <4>2. /\ stack'[k].unit = stack[k].unit /\ stack'[k + 1].unit = stack[k + 1].unit
            /\ stack'[k].untried = stack[k].untried
        BY <2>2, <3>3, <4>1
      <4>3. Following(k) = Following(k)'
        BY <1>7, <2>6, <3>3, <4>1, <4>2
      <4> QED BY <1>8, <1>11, <2>4, <3>3, <4>2, <4>3
    <3> QED BY <1>2, <3>1, <3>2, <3>3
  <2>8. \A j, k \in 1 .. n + 1 : j # k => stack'[j].unit # stack'[k].unit
    <3>1. \A k \in 1 .. n : stack'[k].unit # v /\ stack'[k].unit = stack[k].unit
      BY <1>8, <1>11, <2>2
    <3>2. 1 .. n + 1 = (1 .. n) \cup {n + 1}
      BY <1>2
    <3> QED BY <1>8, <2>2, <3>1, <3>2
  <2>9. StackIsPath'
    BY <1>2, <2>1, <2>7, <2>8 DEF StackIsPath
  <2> QED BY <1>2, <1>11, <2>5, <2>9, SearchGoesOn
<1> QED BY <1>1, <1>9, <1>10, <1>11 DEF t

(* Retreat finishes the topmost Unit: none of the finished feeds it.        *)
LEMMA RetreatIsRight ==
  ASSUME VerdictInv, Retreat
  PROVE  VerdictInv'
<1> DEFINE n == Len(stack)
           u == stack[n].unit
<1>1. /\ stack # <<>> /\ stack[n].untried = {} /\ stack' = SubSeq(stack, 1, n - 1)
      /\ phase' = phase /\ visited' = visited
  BY DEF Retreat, Top
<1>2. /\ phase = "search" /\ StackIsPath /\ FinishedAcyclic
      /\ Remaining' = Remaining /\ \A w : Outgoing(w)' = Outgoing(w)
      /\ stack \in Seq([unit : UnitId, untried : SUBSET UnitId])
      /\ n \in Nat /\ DOMAIN stack = 1 .. n
  BY SearchStep
<1>3. n \in 1 .. n
  BY <1>1, <1>2
<1>4. /\ DOMAIN stack' = 1 .. n - 1 /\ Len(stack') = n - 1
      /\ \A k \in 1 .. n - 1 : stack'[k] = stack[k]
  BY <1>1, <1>2, <1>3
<1>5. u \in visited /\ \A k \in 1 .. n - 1 : stack[k].unit # u
  BY <1>2, <1>3 DEF StackIsPath
<1>6. OnStack = OnStack' \cup {u} /\ u \notin OnStack'
  <2>1. OnStack' = {stack[k].unit : k \in 1 .. n - 1}
    BY <1>4 DEF OnStack
  <2>2. OnStack = {stack[k].unit : k \in 1 .. n}
    BY <1>2 DEF OnStack
  <2> QED BY <1>3, <1>5, <2>1, <2>2
<1>7. Finished' = Finished \cup {u} /\ u \notin Finished
  BY <1>1, <1>5, <1>6 DEF Finished
<1>8. Outgoing(u) \cap Remaining \subseteq Finished
  <2>1. (Outgoing(u) \cap Remaining) \ stack[n].untried \subseteq Finished \cup Following(n)
    BY <1>2, <1>3 DEF StackIsPath
  <2>2. Following(n) = {}
    BY <1>3 DEF Following
  <2> QED BY <1>1, <2>1, <2>2
<1> HIDE DEF u
<1>9. FinishedAcyclic'
  <2>1. visited' \subseteq Remaining
    BY <1>1, <1>2 DEF FinishedAcyclic
  <2>2. \A w \in Finished' : (Outgoing(w) \cap Remaining)' \subseteq Finished'
    BY <1>2, <1>7, <1>8 DEF FinishedAcyclic
  <2>3. ASSUME NEW S \in (SUBSET Finished') \ {{}}
        PROVE  \E x \in S : \A w \in S : x \notin Outgoing(w)
    <3>1. S \subseteq Finished \cup {u} /\ S # {}
      BY <1>7, <2>3
    <3>2. CASE u \in S
      <4>1. u \in Remaining
        BY <1>2, <1>5 DEF FinishedAcyclic
      <4>2. \A w \in Finished : u \notin Outgoing(w)
        BY <1>2, <1>7, <4>1 DEF FinishedAcyclic
      <4>3. u \notin Outgoing(u)
        BY <1>7, <1>8, <4>1
      <4> QED BY <3>1, <3>2, <4>2, <4>3
    <3>3. CASE u \notin S
      <4>1. S \in (SUBSET Finished) \ {{}}
        BY <3>1, <3>3
      <4> QED BY <1>2, <4>1 DEF FinishedAcyclic
    <3> QED BY <3>2, <3>3
  <2>4. \A S \in (SUBSET Finished') \ {{}} : \E x \in S : \A w \in S : x \notin Outgoing(w)'
    BY <1>2, <2>3
  <2> QED BY <1>2, <2>1, <2>2, <2>4 DEF FinishedAcyclic
<1>10. StackIsPath'
  <2>1. ASSUME NEW k \in 1 .. n - 1
        PROVE  /\ stack'[k].unit \in visited'
               /\ stack'[k].untried \subseteq Outgoing(stack'[k].unit) \cap Remaining
               /\ k < n - 1 => stack'[k + 1].unit \in Outgoing(stack'[k].unit)
               /\ (Outgoing(stack'[k].unit) \cap Remaining) \ stack'[k].untried
                    \subseteq Finished' \cup Following(k)'
    <3>1. k \in 1 .. n /\ k < n /\ (k < n - 1 => k + 1 \in 1 .. n - 1)
      BY <1>2
    <3>2. /\ stack[k].unit \in visited
          /\ stack[k].untried \subseteq Outgoing(stack[k].unit) \cap Remaining
          /\ stack[k + 1].unit \in Outgoing(stack[k].unit)
          /\ (Outgoing(stack[k].unit) \cap Remaining) \ stack[k].untried
               \subseteq Finished \cup Following(k)
      BY <1>2, <3>1 DEF StackIsPath
    <3>3. Finished \cup Following(k) \subseteq Finished' \cup Following(k)'
      <4>1. CASE k < n - 1
        BY <1>2, <1>4, <1>7, <3>1, <4>1 DEF Following
      <4>2. CASE k = n - 1
        <5>1. k < n /\ k + 1 = n
          BY <1>2, <3>1, <4>2
        <5>2. Following(k) = {stack[k + 1].unit}
          BY <5>1 DEF Following
        <5>3. stack[k + 1].unit = u
          BY <5>1 DEF u
        <5> QED BY <1>7, <5>2, <5>3
      <4>3. k < n - 1 \/ k = n - 1
        <5>1. n \in Nat /\ k \in 1 .. n /\ k < n
          BY <1>2, <3>1
        <5> HIDE DEF n
        <5> QED BY <5>1
      <4> QED BY <4>1, <4>2, <4>3
    <3> QED BY <1>1, <1>4, <3>1, <3>2, <3>3
  <2>2. \A j, k \in 1 .. n - 1 : j # k => stack'[j].unit # stack'[k].unit
    BY <1>2, <1>4 DEF StackIsPath
  <2> QED BY <1>2, <1>4, <2>1, <2>2 DEF StackIsPath
<1> QED BY <1>1, <1>2, <1>9, <1>10, SearchGoesOn

(* The invariant holds before compiling starts, and every step keeps it.    *)
LEMMA InitVerdict == Init => VerdictInv
<1> SUFFICES ASSUME Init PROVE VerdictInv
  OBVIOUS
<1>1. FullInv /\ phase = "inputs" /\ at = 1 /\ source \in Source
  BY InitInv DEF Init
<1>2. InputsSeen = {} /\ UnitsSeen = {}
  <2>1. \A k \in DOMAIN source.inputs : ~ (k < 1)
    BY <1>1, SourceTypes
  <2> QED BY <1>1, <2>1 DEF InputsSeen, UnitsSeen
<1>3. phase \notin Connecting
  BY <1>1 DEF Connecting, Ordered
<1>4. TypesRecorded /\ NothingPassed
  BY <1>1, <1>2, <1>3 DEF TypesRecorded, NothingPassed
<1>5. SearchExact /\ Answered
  BY <1>1 DEF Init, SearchExact, Answered, CycleIsGenuine, Errors
<1> QED BY <1>1, <1>4, <1>5 DEF VerdictInv

LEMMA NextVerdict == VerdictInv /\ [Next]_vars => VerdictInv'
<1> SUFFICES ASSUME VerdictInv, [Next]_vars PROVE VerdictInv'
  OBVIOUS
<1>1. CASE DeclareInput \/ DeclareUnit \/ EndInputs \/ EndUnits
  BY <1>1, DeclareInputIsRight, DeclareUnitIsRight, EndDeclaringIsRight
<1>2. CASE ConnectUnit \/ CheckOutput
  BY <1>2, ConnectUnitIsRight, CheckOutputIsRight
<1>3. CASE EndConnections \/ EndOutputs \/ PlaceUnit
  <2>1. FullInv'
    BY <1>3, EndConnectionsKeepsInv, EndOutputsKeepsInv, PlaceUnitKeepsInv DEF VerdictInv
  <2>2. /\ phase \in {"connections", "outputs", "ordering"} /\ phase' \in {"outputs", "ordering"}
        /\ phase = "connections" => at = Len(source.units) + 1
        /\ UNCHANGED <<source, producers, stack, visited>>
    BY <1>3 DEF EndConnections, EndOutputs, PlaceUnit, EndLoop
  <2> QED BY <2>1, <2>2, LaterLoopIsRight
<1>4. CASE FinishCompile \/ IntoDense \/ StartSearch
  BY <1>4, FinishIsRight, StartSearchIsRight
<1>5. CASE VisitRoot \/ TryNeighbour \/ Retreat
  BY <1>5, VisitRootIsRight, TryNeighbourIsRight, RetreatIsRight
<1>6. CASE UNCHANGED vars
  <2>1. FullInv'
    BY <1>6, NextInv DEF VerdictInv
  <2>2. UNCHANGED <<source, phase, at, producers, consumers, dependencies, indegree,
                    ready, order, stack, visited, path>>
    BY <1>6 DEF vars
  <2>3. /\ InputsSeen' = InputsSeen /\ UnitsSeen' = UnitsSeen
        /\ UnitsConnected' = UnitsConnected
    BY <2>2 DEF InputsSeen, UnitsSeen, UnitsConnected
  <2>4. TypesRecorded'
    <3>1. \A d : Known(d)' <=> Known(d)
      BY <2>2 DEF Known
    <3>2. \A k : PortsRepeat(source.units[k])' <=> PortsRepeat(source.units[k])
      BY <2>2 DEF PortsRepeat
    <3> QED BY <2>2, <2>3, <3>1, <3>2 DEF TypesRecorded, VerdictInv
  <2>5. NothingPassed'
    BY <2>2, <2>3, FaultsStay DEF NothingPassed, VerdictInv, OutputsRepeat
  <2>6. SearchExact'
    <3>1. Remaining' = Remaining /\ \A u : Outgoing(u)' = Outgoing(u)
      BY <2>2 DEF Remaining, Outgoing
    <3>2. Finished' = Finished /\ \A k : Following(k)' = Following(k)
      BY <2>2 DEF Finished, OnStack, Following
    <3>3. StackIsPath' <=> StackIsPath
      BY <2>2, <3>1, <3>2 DEF StackIsPath
    <3>4. FinishedAcyclic' <=> FinishedAcyclic
      BY <2>2, <3>1, <3>2 DEF FinishedAcyclic
    <3> QED BY <2>2, <3>3, <3>4 DEF SearchExact, VerdictInv
  <2>7. Answered'
    <3>1. \A c \in Errors : (phase = c => Defect(c))' <=> (phase' = c => Defect(c))
      BY <2>2, DefectsStay
    <3>2. \A u, w : DependsOn(u, w)' <=> DependsOn(u, w)
      BY <2>2 DEF DependsOn, DeclaredUnits
    <3>3. CycleIsGenuine' <=> CycleIsGenuine
      BY <2>2, <3>2 DEF CycleIsGenuine
    <3> QED BY <2>2, <3>1, <3>3 DEF Answered, VerdictInv
  <2> QED BY <2>1, <2>4, <2>5, <2>6, <2>7 DEF VerdictInv
<1> QED
  BY <1>1, <1>2, <1>3, <1>4, <1>5, <1>6 DEF Next

(* Whatever compile answers is right (CompileIsExact): an error names a     *)
(* defect of the source, a compiled source has none, a reported cycle is    *)
(* one, and a compiled graph is what the planner and the runtime assume.    *)
THEOREM CompileIsAlwaysExact == Spec => []CompileIsExact
<1>1. VerdictInv => VerdictIsExact /\ CycleIsGenuine
  <2> SUFFICES ASSUME VerdictInv PROVE VerdictIsExact /\ CycleIsGenuine
    OBVIOUS
  <2>1. phase \in Errors => Defect(phase)
    BY DEF VerdictInv, Answered
  <2>2. phase \in {"compiled", "dense"} => \A e \in Errors : ~ Defect(e)
    BY CompiledIsSound
  <2> QED BY <2>1, <2>2 DEF VerdictIsExact, VerdictInv, Answered
<1>2. VerdictIsExact /\ CycleIsGenuine /\ RuntimeCanRely /\ PlannerCanRely => CompileIsExact
  BY DEF CompileIsExact
<1> QED
  BY <1>1, <1>2, InitVerdict, NextVerdict, CompiledGraphsAreWellFormed, PlannerAndRuntimeAgree,
     PTL DEF Spec
==============================================================================
