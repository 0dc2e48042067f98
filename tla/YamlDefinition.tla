---------------------------- MODULE YamlDefinition ----------------------------
(***************************************************************************)
(* From a tree without key faults to a resolved definition: normalization,     *)
(* resolution, and the bounds of every resource.                             *)
(*                                                                         *)
(* The code returns at the first check that fails.  The checks of a document   *)
(* are a sequence here, in the order of the code; its diagnostic is the first   *)
(* of them that fails.  A path is the sequence of its fields.                  *)
(***************************************************************************)
EXTENDS YamlSyntax

CONSTANTS
  Documents,       \* trees, as parse returns them
  Rank,            \* the order of strings: string -> Nat
  SupportedSchema, \* SUPPORTED_SCHEMA
  SemanticTypes,   \* strings SemanticType::new accepts
  ConcreteTypes,   \* ResourceRegistry: semantic type -> concrete type
  UnitTypes,       \* UnitRegistry: by type, the ports in order, the fields of its
                   \* configuration, and for the fields given the capacities they
                   \* resolve, or none if they are in "refused"
  Bounds           \* BoundSources: [host, adapters], partial functions

(* A tree as parse returns it: what a node owns comes after it.                *)
Later(tree, p) == {q \in DOMAIN tree.nodes : q > p}
IsNode(tree, p, node) ==
  \/ node.kind = "mapping" /\ node.values \in Seq(Later(tree, p) \X Later(tree, p))
  \/ node.kind = "sequence" /\ node.values \in Seq(Later(tree, p))
  \/ node.kind = "alias"
  \/ node.kind = "scalar" /\ node = ScalarOf(node.text)
IsDocument(tree) ==
  /\ tree.root \in DOMAIN tree.nodes /\ DOMAIN tree.nodes \subseteq Nat \ {NoNode}
  /\ \E n \in DOMAIN tree.nodes : \A p \in DOMAIN tree.nodes : p <= n
  /\ \A p \in DOMAIN tree.nodes : IsNode(tree, p, tree.nodes[p])

ASSUME DefinitionAssumption ==
  /\ \A d \in Documents : IsDocument(d)
  /\ Rank \in [Strings -> Nat] /\ \A s, t \in Strings : Rank[s] = Rank[t] => s = t
  /\ \A t \in DOMAIN UnitTypes : \A ports \in {UnitTypes[t].inputs, UnitTypes[t].outputs} :
       ports \in Seq(ToSet(ports))

VARIABLES
  document,  \* the tree at hand, NoTree before the first
  bounds,
  answer     \* Result of load

definitionVars == <<document, bounds, answer>>

Check(ok, kind, path) == [ok |-> ok, kind |-> kind, path |-> path]

(* A node with all below it, as the code holds it: the entries of a mapping, and *)
(* its JSON (to_json), where a mapping is a function of its keys.              *)
Whole(tree, node, below) ==
  IF node.kind = "mapping"
    THEN LET key(i) == KeyOf(tree, node.values[i]).text
             value(i) == below[node.values[i][2]]
             at(k) == CHOOSE i \in DOMAIN node.values : key(i) = k
         IN  [entries |-> [i \in DOMAIN node.values |-> [key |-> key(i), value |-> value(i)]],
              json |-> [kind |-> "mapping",
                        fields |-> [k \in {key(i) : i \in DOMAIN node.values} |-> value(at(k)).json]]]
  ELSE [entries |-> <<>>,
        json |-> IF node.kind = "sequence"
                   THEN [kind |-> "sequence", items |-> [i \in DOMAIN node.values |-> below[node.values[i]].json]]
                   ELSE node]

RootNode(tree) ==
  LET whole[p \in DOMAIN tree.nodes] == Whole(tree, tree.nodes[p], whole)
  IN  whole[tree.root]

NoTree == [root |-> NoNode, nodes |-> <<>>]
Absent == [entries |-> <<>>, json |-> [kind |-> "none"]]
EmptyMapping == [kind |-> "mapping", fields |-> <<>>]

(* Accessors: total, since a check that fails hides those after it.           *)
Get(node, field) ==
  LET found == {i \in DOMAIN node.entries : node.entries[i].key = field}
  IN  IF found = {} THEN Absent ELSE node.entries[Min(found)].value
Text(node) == IF IsString(node.json) THEN node.json.text ELSE MergeKeyText

EachEntry(node, Of(_, _)) ==
  [i \in DOMAIN node.entries |-> Of(node.entries[i].key, node.entries[i].value)]

IsMapping(node, path) == <<Check(node.json.kind = "mapping", "InvalidField", path)>>
IsText(node, path) == <<Check(IsString(node.json), "InvalidField", path)>>
RejectUnknown(node, path, allowed) ==
  EachEntry(node, LAMBDA key, value : Check(key \in allowed, "UnknownField", Append(path, key)))
Required(node, path, field) ==
  <<Check(Get(node, field) # Absent, "MissingField", Append(path, field))>>
RequiredString(node, path, field) ==
  Required(node, path, field) \o IsText(Get(node, field), Append(path, field))

InputChecks(node) ==
  IsMapping(node, <<"inputs">>) \o
  FlattenSeq(EachEntry(node, LAMBDA name, value :
    LET path == <<"inputs", name>>
    IN  IsMapping(value, path) \o RejectUnknown(value, path, {"type"})
        \o RequiredString(value, path, "type")
        \o <<Check(Text(Get(value, "type")) \in SemanticTypes, "InvalidField", Append(path, "type"))>>))

BindingChecks(node, path) ==
  IsMapping(node, path) \o
  FlattenSeq(EachEntry(node, LAMBDA port, value : IsText(value, Append(path, port))))

UnitChecks(node) ==
  IsMapping(node, <<"units">>) \o
  FlattenSeq(EachEntry(node, LAMBDA id, value :
    LET path == <<"units", id>>
    IN  IsMapping(value, path)
        \o RejectUnknown(value, path, {"type", "config", "inputs", "outputs"})
        \o RequiredString(value, path, "type")
        \o Required(value, path, "inputs") \o BindingChecks(Get(value, "inputs"), Append(path, "inputs"))
        \o Required(value, path, "outputs") \o BindingChecks(Get(value, "outputs"), Append(path, "outputs"))))

DefinitionChecks(node) ==
  IsMapping(node, <<>>)
  \o RejectUnknown(node, <<>>, {"schema", "module", "inputs", "units", "outputs"})
  \o RequiredString(node, <<>>, "schema")
  \o <<Check(Text(Get(node, "schema")) = SupportedSchema, "UnsupportedSchema", <<"schema">>)>>
  \o RequiredString(node, <<>>, "module")
  \o Required(node, <<>>, "inputs") \o Required(node, <<>>, "units") \o Required(node, <<>>, "outputs")
  \o InputChecks(Get(node, "inputs"))
  \o UnitChecks(Get(node, "units"))
  \o BindingChecks(Get(node, "outputs"), <<"outputs">>)
------------------------------------------------------------------------------
(* The normal form of a document that passes them. *)

(* Mutation of ByName: entries stay in the order of the source.               *)
ByNameUnsorted(s) == s

(* Stable, as sort_by is.                                                    *)
Precedes(s, i, j) ==
  Rank[s[i].name] < Rank[s[j].name] \/ (Rank[s[i].name] = Rank[s[j].name] /\ i <= j)
PlaceIn(s, i) == Cardinality({j \in DOMAIN s : Precedes(s, j, i)})
ByName(s) == [k \in DOMAIN s |-> s[CHOOSE i \in DOMAIN s : PlaceIn(s, i) = k]]

(* Bindings of ports to resources; what is bound to a name that is no string    *)
(* is never used.                                                            *)
Bindings(node) == ByName(EachEntry(node, LAMBDA port, value : [name |-> port, resource |-> Text(value)]))

Normal(node) ==
  [inputs |-> ByName(EachEntry(Get(node, "inputs"), LAMBDA name, value :
                [name |-> name, type |-> Text(Get(value, "type"))])),
   units |-> ByName(EachEntry(Get(node, "units"), LAMBDA id, value :
                [name |-> id, type |-> Text(Get(value, "type")),
                 config |-> IF Get(value, "config") = Absent THEN EmptyMapping
                            ELSE Get(value, "config").json,
                 inputs |-> Bindings(Get(value, "inputs")),
                 outputs |-> Bindings(Get(value, "outputs"))])),
   outputs |-> LET names == EachEntry(Get(node, "outputs"), LAMBDA name, value : [name |-> Text(value)])
               IN  ByName(names)]
------------------------------------------------------------------------------
(* Resolution against the registries. *)

PortPath(unit, direction, port) == <<"units", unit.name, direction, port>>

(* resolve_ports. A concrete type that differs is reported as one of an input,   *)
(* whichever the port is.                                                    *)
PortChecks(unit, direction, bindings, ports) ==
  [i \in DOMAIN bindings |->
     Check(\E p \in DOMAIN ports : ports[p].name = bindings[i].name, "Graph", <<>>)]
  \o FlattenSeq([p \in DOMAIN ports |->
       <<Check(\E i \in DOMAIN bindings : bindings[i].name = ports[p].name,
               "MissingPort", PortPath(unit, direction, ports[p].name)),
         Check(ports[p].type \in DOMAIN ConcreteTypes, "Graph", <<>>),
         Check(ports[p].type \in DOMAIN ConcreteTypes /\ ConcreteTypes[ports[p].type] = ports[p].concrete,
               "TypeMismatch", PortPath(unit, "inputs", ports[p].name))>>])

ResolveUnit(unit) ==
  IF unit.type \notin DOMAIN UnitTypes
    THEN <<Check(FALSE, "UnknownUnit", <<"units", unit.name, "type">>)>>
    ELSE PortChecks(unit, "inputs", unit.inputs, UnitTypes[unit.type].inputs)
         \o PortChecks(unit, "outputs", unit.outputs, UnitTypes[unit.type].outputs)

Resolve(module) ==
  [i \in DOMAIN module.inputs |-> Check(module.inputs[i].type \in DOMAIN ConcreteTypes, "Graph", <<>>)]
  \o FlattenSeq([i \in DOMAIN module.units |-> ResolveUnit(module.units[i])])
------------------------------------------------------------------------------
(* Bounds. *)

(* The bounds of a resource, the one that is used first.                      *)
Lookup(f, key) == IF key \in DOMAIN f THEN <<f[key]>> ELSE <<>>

(* Where a resource is produced: the last place written in the document.       *)
Producer(node, resource) ==
  LET units == Get(node, "units").entries
      outputs(i) == Get(units[i].value, "outputs").entries
      places == UNION {{<<i, o>> : o \in {o \in DOMAIN outputs(i) : Text(outputs(i)[o].value) = resource}} :
                         i \in DOMAIN units}
      last == CHOOSE p \in places :
                \A q \in places : q[1] < p[1] \/ (q[1] = p[1] /\ q[2] <= p[2])
  IN  IF places # {}
        THEN <<"units", units[last[1]].key, "outputs", outputs(last[1])[last[2]].key>>
      ELSE IF Get(Get(node, "inputs"), resource) # Absent THEN <<"inputs", resource>>
      ELSE <<>>

InputBounds(input, b) == Lookup(b.host, input.name) \o Lookup(b.adapters, input.type)

(* Mutation of OutputBounds: the host goes before the Unit.                 *)
OutputBoundsHostFirst(own, port, resource, b) ==
  Lookup(b.host, resource) \o Lookup(own, port.name) \o Lookup(b.adapters, port.type)
OutputBounds(own, port, resource, b) ==
  Lookup(own, port.name) \o Lookup(b.host, resource) \o Lookup(b.adapters, port.type)

(* decode: a field the configuration does not have is refused, the least one    *)
(* first.                                                                    *)
Fields(unit) == IF unit.config.kind = "mapping" THEN DOMAIN unit.config.fields ELSE {}
LeastField(fields) == CHOOSE f \in fields : \A g \in fields : Rank[f] <= Rank[g]

ConfigChecks(unit) ==
  LET path == <<"units", unit.name, "config">>
      ignored == Fields(unit) \ UnitTypes[unit.type].fields
  IN  <<Check(unit.config.kind = "mapping", "Config", path),
        Check(ignored = {}, "UnknownField", Append(path, IF ignored = {} THEN "config" ELSE LeastField(ignored))),
        Check(Fields(unit) \notin UnitTypes[unit.type].refused, "UnresolvedBound", path)>>

Ports(unit) == UnitTypes[unit.type].outputs
Resource(unit, port) ==
  unit.outputs[CHOOSE i \in DOMAIN unit.outputs : unit.outputs[i].name = port.name].resource
UnitBounds(unit, port, b) ==
  OutputBounds(UnitTypes[unit.type].capacities[Fields(unit)], port, Resource(unit, port), b)

BoundChecks(node, module, b) ==
  [i \in DOMAIN module.inputs |->
     Check(InputBounds(module.inputs[i], b) # <<>>, "UnresolvedBound",
           Producer(node, module.inputs[i].name))]

UnitBoundChecks(node, unit, b) ==
  [p \in DOMAIN Ports(unit) |->
     Check(UnitBounds(unit, Ports(unit)[p], b) # <<>>, "UnresolvedBound",
           Producer(node, Resource(unit, Ports(unit)[p])))]
------------------------------------------------------------------------------
(* load. *)

Failures(checks) == {i \in DOMAIN checks : ~checks[i].ok}
Refused(checks) == [kind |-> checks[Min(Failures(checks))].kind, path |-> checks[Min(Failures(checks))].path]

UnitRequirements(unit, b) ==
  [r \in {Resource(unit, p) : p \in ToSet(Ports(unit))} |->
     LET last == Max({p \in DOMAIN Ports(unit) : Resource(unit, Ports(unit)[p]) = r})
     IN  Head(UnitBounds(unit, Ports(unit)[last], b))]

(* A later Unit replaces the capacity of a resource it produces as well: that    *)
(* is an error only to compilation.                                          *)
Requirements(module, b) ==
  LET given == {module.inputs[i].name : i \in DOMAIN module.inputs}
      made(i) == UnitRequirements(module.units[i], b)
      makers(r) == {i \in DOMAIN module.units : r \in DOMAIN made(i)}
  IN  [r \in given \cup UNION {DOMAIN made(i) : i \in DOMAIN module.units} |->
         IF makers(r) # {} THEN made(Max(makers(r)))[r]
         ELSE Head(InputBounds(module.inputs[CHOOSE i \in DOMAIN module.inputs : module.inputs[i].name = r], b))]

(* After a failure of one Unit the next is not looked at.                     *)
FaultOfUnit(node, unit, b) ==
  IF Failures(ConfigChecks(unit)) # {} THEN <<Refused(ConfigChecks(unit))>>
  ELSE IF Failures(UnitBoundChecks(node, unit, b)) # {} THEN <<Refused(UnitBoundChecks(node, unit, b))>>
  ELSE <<>>
FaultyUnits(node, module, b) == {i \in DOMAIN module.units : FaultOfUnit(node, module.units[i], b) # <<>>}

Loaded(node, b) ==
  LET module == Normal(node)
      faulty == FaultyUnits(node, module, b)
  IN  IF Failures(DefinitionChecks(node)) # {} THEN Refused(DefinitionChecks(node))
      ELSE IF Failures(Resolve(module)) # {} THEN Refused(Resolve(module))
      ELSE IF Failures(BoundChecks(node, module, b)) # {} THEN Refused(BoundChecks(node, module, b))
      ELSE IF faulty # {} THEN Head(FaultOfUnit(node, module.units[Min(faulty)], b))
      ELSE [kind |-> "Ok", requirements |-> Requirements(module, b), module |-> module]

DefinitionInit ==
  document = NoTree /\ bounds \in Bounds /\ answer = [kind |-> "none"]

LoadDocument ==
  /\ document = NoTree
  /\ document' \in {d \in Documents : KeyFault(d) = "Ok"}
  /\ answer' = Loaded(RootNode(document'), bounds)
  /\ UNCHANGED bounds

DefinitionSpec ==
  SyntaxInit /\ DefinitionInit /\ [][LoadDocument /\ UNCHANGED syntaxVars]_<<syntaxVars, definitionVars>>
------------------------------------------------------------------------------
(* Two trees that differ in the order of entries only.                        *)
SameButForOrder(one, other) ==
  /\ one.root = other.root /\ DOMAIN one.nodes = DOMAIN other.nodes
  /\ \A p \in DOMAIN one.nodes :
       IF one.nodes[p].kind = "mapping"
         THEN /\ other.nodes[p].kind = "mapping"
              /\ Len(one.nodes[p].values) = Len(other.nodes[p].values)
              /\ ToSet(one.nodes[p].values) = ToSet(other.nodes[p].values)
         ELSE one.nodes[p] = other.nodes[p]

Reversed(tree) ==
  [root |-> tree.root,
   nodes |-> [p \in DOMAIN tree.nodes |->
                IF tree.nodes[p].kind = "mapping"
                  THEN [kind |-> "mapping", values |-> Reverse(tree.nodes[p].values)]
                  ELSE tree.nodes[p]]]

(* Whatever becomes of one tree becomes of the other: they are refused both, or  *)
(* resolve to the same Module, configurations and capacities.                 *)
LoadAlike(tree, other, b) ==
  LET one == Loaded(RootNode(tree), b)
      two == Loaded(RootNode(other), b)
  IN  /\ one.kind = "Ok" <=> two.kind = "Ok"
      /\ one.kind = "Ok" => one = two

(* A definition does not depend on the order in which its document is written.   *)
OrderIsIrrelevant ==
  document # NoTree =>
    SameButForOrder(document, Reversed(document)) /\ LoadAlike(document, Reversed(document), bounds)

(* The Unit that produces a resource decides its capacity, then the host, then   *)
(* the adapter of its type.  Whatever is loaded has a capacity for each of its   *)
(* resources and nothing else, and no bound is missed.  (A resource with two      *)
(* producers is refused by compilation.)                                     *)
ClosestBoundIsUsed ==
  document # NoTree =>
    LET producer(r) == Producer(RootNode(document), r)
        names == {r \in Strings : producer(r) # <<>>}
        units == IF answer.kind = "Ok" THEN ToSet(answer.module.units) ELSE {}
        own == UNION {{<<u, p>> : p \in ToSet(Ports(u))} : u \in units}
        Unit(q) == q[1]
        Port(q) == q[2]
        Own(q) == UnitTypes[Unit(q).type].capacities[Fields(Unit(q))]
        Of(q) == Resource(Unit(q), Port(q))
        single == {q \in own : \A o \in own : Of(o) = Of(q) => o = q}
        decided == {q \in own : Port(q).name \in DOMAIN Own(q)}
    IN  /\ answer.kind = "Ok" =>
             /\ DOMAIN answer.requirements = names
             /\ \A q \in decided \cap single : answer.requirements[Of(q)] = Own(q)[Port(q).name]
             /\ \A r \in names \ {Of(q) : q \in decided} :
                  IF r \in DOMAIN bounds.host
                    THEN answer.requirements[r] = bounds.host[r]
                    ELSE answer.requirements[r] \in {bounds.adapters[t] : t \in DOMAIN bounds.adapters}
        /\ answer.kind = "UnresolvedBound" =>
             \/ Last(answer.path) = "config"
             \/ \E r \in names \ DOMAIN bounds.host : producer(r) = answer.path

(* The node a path leads to.                                                 *)
Found(path) == FoldLeft(Get, RootNode(document), path)

(* An error identifies a place in the document: what is at fault, or the place   *)
(* of what is missing.                                                       *)
PathsAreInTheDocument ==
  answer.kind \notin {"none", "Ok"} =>
    \/ Found(answer.path) # Absent
    \/ /\ answer.kind \in {"MissingField", "MissingPort", "UnresolvedBound"}
       /\ Found(Front(answer.path)) # Absent
==============================================================================
