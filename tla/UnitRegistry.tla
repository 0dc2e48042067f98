----------------------------- MODULE UnitRegistry -----------------------------
(***************************************************************************)
(* Unit registries, and the builders that turn a definition into a Module.    *)
(*                                                                         *)
(* A definition is resolved and decoded with one registry and may be built    *)
(* with another, on another thread: registries are filled by each host binary  *)
(* and only the counter of plan tokens is shared.  A registry is borrowed for  *)
(* the length of a build.  A call that is refused changes nothing.            *)
(***************************************************************************)
EXTENDS Naturals, Sequences, FiniteSets, SequencesExt

CONSTANTS
  Registries,
  Resources,   \* ResourceRegistry: the concrete type of a semantic type
  Calls,       \* registration calls of the hosts
  Sources,     \* ParsedModules: sequences of Units [id, type, inputs, outputs]
  Given,       \* semantic types of the resources that are Module inputs
  Certificates, \* Certified evidence, one value for each source text
  Builders,
  MaxBuilds    \* bound: builds begun

IsSequence(s) == Len(s) \in Nat /\ DOMAIN s = 1 .. Len(s)
IsList(s) == IsSequence(s) /\ s = [i \in 1 .. Len(s) |-> s[i]]

ASSUME RegistryAssumption ==
  /\ MaxBuilds \in Nat
  /\ "unsupported" \notin Certificates
  /\ \A r \in DOMAIN Given : Given[r] \in DOMAIN Resources
  /\ \A c \in Calls : c.registry \in Registries
  /\ \A c \in Calls : c.op = "register" => IsSequence(c.inputs) /\ IsSequence(c.outputs)
  /\ \A c \in Calls : c.op = "capability" => IsList(c.capability.domains)
  /\ \A source \in Sources : IsSequence(source)

None == [none |-> TRUE]

VARIABLES
  registrations,  \* per registry: Unit type -> registration
  definition,     \* None, or the ExecutableDefinition not built yet
  building,       \* per builder: None, or the build at hand
  nextToken,      \* NEXT_PLAN_TOKEN
  modules,        \* Modules built
  begun           \* builds begun

registryVars == <<registrations, definition, building, nextToken, modules, begun>>

Undeclared == [domains |-> <<[name |-> "undeclared", evidence |-> "unsupported"]>>,
               complete |-> FALSE]

RegistryInit ==
  /\ registrations = [r \in Registries |-> <<>>]
  /\ definition = None
  /\ building = [b \in Builders |-> None]
  /\ nextToken = 1
  /\ modules = {}
  /\ begun = 0
------------------------------------------------------------------------------
(* Registration. *)

Names(ports) == {ports[i].name : i \in DOMAIN ports}
Known(r, type) == type \in DOMAIN registrations[r]
Borrowed(r) == \E b \in Builders : building[b] # None /\ building[b].registry = r

Vacant(r, type) == ~Known(r, type)

Register(c) ==
  /\ c.op = "register" /\ Vacant(c.registry, c.type)
  /\ Cardinality(Names(c.inputs)) = Len(c.inputs)
  /\ Cardinality(Names(c.outputs)) = Len(c.outputs)
  /\ LET new == [inputs |-> c.inputs, outputs |-> c.outputs, configuration |-> c.configuration,
                 factory |-> None, adapt |-> None, capability |-> Undeclared]
     IN  registrations' = [registrations EXCEPT ![c.registry] =
           [t \in DOMAIN @ \cup {c.type} |-> IF t = c.type THEN new ELSE @[t]]]

SetAllocationCapability(c) ==
  /\ c.op = "capability" /\ Known(c.registry, c.type)
  /\ registrations' = [registrations EXCEPT ![c.registry][c.type].capability = c.capability]

RegisterFactory(c) ==
  /\ c.op = "factory" /\ Known(c.registry, c.type)
  /\ LET unit == registrations[c.registry][c.type]
     IN  unit.factory = None /\ unit.configuration = c.configuration
  /\ registrations' = [registrations EXCEPT ![c.registry][c.type].factory =
       [configuration |-> c.configuration, implementation |-> c.implementation]]

ExecutorFits(unit, implementation) == unit.factory.implementation = implementation

(* A Unit type without a factory is reported as unknown.                      *)
RegisterExecutor(c) ==
  /\ c.op = "executor" /\ Known(c.registry, c.type)
  /\ LET unit == registrations[c.registry][c.type]
     IN  /\ unit.factory # None
         /\ unit.adapt = None
         /\ ExecutorFits(unit, c.implementation)
  /\ registrations' = [registrations EXCEPT ![c.registry][c.type].adapt = [implementation |-> c.implementation]]

Registration ==
  \E c \in Calls :
    /\ ~Borrowed(c.registry)
    /\ \/ Register(c) \/ SetAllocationCapability(c) \/ RegisterFactory(c) \/ RegisterExecutor(c)
    /\ UNCHANGED <<definition, building, nextToken, modules, begun>>
------------------------------------------------------------------------------
(* Loading: resolution and decoding with one registry. *)

(* resolve_ports: each port of the descriptor is bound once, and its semantic   *)
(* type has the concrete type the Unit was compiled with.                     *)
Resolves(bindings, ports) ==
  /\ Cardinality({bindings[i].port : i \in DOMAIN bindings}) = Len(bindings)
  /\ {bindings[i].port : i \in DOMAIN bindings} = Names(ports)
  /\ \A i \in DOMAIN ports :
       ports[i].type \in DOMAIN Resources /\ Resources[ports[i].type] = ports[i].concrete

Resolved(bindings, ports) ==
  [i \in DOMAIN ports |->
     LET b == CHOOSE b \in DOMAIN bindings : bindings[b].port = ports[i].name
     IN  [name |-> ports[i].name, type |-> ports[i].type, concrete |-> ports[i].concrete,
          resource |-> bindings[b].resource]]

(* What graph compilation asks of resolved Units: one producer of a resource,  *)
(* of the semantic type of all its consumers.                                *)
Compiles(units) ==
  LET produced == {p \in (DOMAIN units) \X (1 .. 2) : p[2] \in DOMAIN units[p[1]].outputs}
      Out(p) == units[p[1]].outputs[p[2]]
  IN  /\ \A p, q \in produced : p # q => Out(p).resource # Out(q).resource
      /\ \A p \in produced : Out(p).resource \notin DOMAIN Given
      /\ \A i \in DOMAIN units : \A n \in DOMAIN units[i].inputs :
           LET input == units[i].inputs[n]
           IN  IF input.resource \in DOMAIN Given
                 THEN Given[input.resource] = input.type
                 ELSE \E p \in produced : p[1] < i /\ Out(p).resource = input.resource
                                                /\ Out(p).type = input.type

(* The configurations registries can decode: only a registry makes one.       *)
Decodable == UNION {{[type |-> t, concrete |-> registrations[r][t].configuration] :
                       t \in DOMAIN registrations[r]} : r \in Registries}

(* A host pairs the graph with the configurations of its Units; the type of an  *)
(* ExecutableDefinition does not keep one from being missing or another Unit's. *)
Load(r) ==
  \E source \in Sources :
    /\ definition = None
    /\ \A i \in DOMAIN source :
         /\ Known(r, source[i].type)
         /\ Resolves(source[i].inputs, registrations[r][source[i].type].inputs)
         /\ Resolves(source[i].outputs, registrations[r][source[i].type].outputs)
    /\ LET units == [i \in DOMAIN source |->
                       [id |-> source[i].id, type |-> source[i].type,
                        inputs |-> Resolved(source[i].inputs, registrations[r][source[i].type].inputs),
                        outputs |-> Resolved(source[i].outputs, registrations[r][source[i].type].outputs)]]
           own == [i \in DOMAIN source |->
                     [type |-> source[i].type,
                      concrete |-> registrations[r][source[i].type].configuration]]
       IN  /\ Compiles(units)
           /\ \E other \in Decodable \cup {None}, n \in DOMAIN source :
                definition' = [units |-> units,
                               configurations |-> [own EXCEPT ![n] = other]]
    /\ UNCHANGED <<registrations, building, nextToken, modules, begun>>
------------------------------------------------------------------------------
(* Building. *)

(* AllocationCapability::inspect. *)
Supports(evidence) == evidence \in {"instrumented"} \cup Certificates
StrictCapable(capability) ==
  /\ capability.complete
  /\ capability.domains # <<>>
  /\ \A i \in DOMAIN capability.domains :
       capability.domains[i].name # "" /\ Supports(capability.domains[i].evidence)

Capabilities(r, units) == [i \in DOMAIN units |-> registrations[r][units[i].type].capability]

(* Mutation of Merge: the first evidence for a domain stands.                 *)
MergeFirst(merged, domain) ==
  [name \in DOMAIN merged \cup {domain.name} |->
     IF name \in DOMAIN merged THEN merged[name] ELSE domain.evidence]

(* Evidence for a domain on which two Units differ counts as none: two         *)
(* certifications from different sources differ.                             *)
Merge(merged, domain) ==
  [name \in DOMAIN merged \cup {domain.name} |->
     IF name # domain.name THEN merged[name]
     ELSE IF name \in DOMAIN merged /\ merged[name] # domain.evidence THEN "unsupported"
     ELSE domain.evidence]

Combined(each) ==
  LET merged == FoldLeft(Merge, <<>>, FlattenSeq([i \in DOMAIN each |-> each[i].domains]))
      names == SetToSeq(DOMAIN merged)
  IN  [domains |-> [i \in DOMAIN names |-> [name |-> names[i], evidence |-> merged[names[i]]]],
       complete |-> \A i \in DOMAIN each : StrictCapable(each[i])]

AllocationCapability(r, units) == Combined(Capabilities(r, units))

(* Mutation of Advance: the counter is read only.                             *)
AdvanceNever(token) == token
Advance(token) == token + 1

(* A build up to its token: until it takes that, atomically, it only reads what  *)
(* it has borrowed and moved, the definition included. One that fails before    *)
(* leaves no trace; storage planning may refuse any definition.                *)
Begin(b, r, strict) ==
  /\ building[b] = None /\ definition # None /\ begun < MaxBuilds
  /\ begun' = begun + 1
  /\ definition' = None
  /\ \/ /\ \A i \in DOMAIN definition.units : Known(r, definition.units[i].type)
        /\ strict => StrictCapable(AllocationCapability(r, definition.units))
        /\ building' = [building EXCEPT ![b] =
             [number |-> begun, registry |-> r, strict |-> strict, token |-> nextToken,
              units |-> definition.units, configurations |-> definition.configurations]]
        /\ nextToken' = Advance(nextToken)
     \/ UNCHANGED <<building, nextToken>>
  /\ UNCHANGED <<registrations, modules>>

(* Mutation of OrderedPorts: the ports agree as sets.                         *)
OrderedPortsAsSets(bindings, ports) ==
  {[name |-> p.name, type |-> p.type, concrete |-> p.concrete] : p \in ToSet(bindings)} = ToSet(ports)

OrderedPorts(bindings, ports) ==
  /\ Len(bindings) = Len(ports)
  /\ \A i \in DOMAIN ports :
       /\ bindings[i].name = ports[i].name
       /\ bindings[i].type = ports[i].type
       /\ bindings[i].concrete = ports[i].concrete

ValidDescriptors(r, units) ==
  \A i \in DOMAIN units :
    /\ OrderedPorts(units[i].inputs, registrations[r][units[i].type].inputs)
    /\ OrderedPorts(units[i].outputs, registrations[r][units[i].type].outputs)

(* prepare_executable and construct, up to the call of the factory.           *)
Preparable(r, unit, configuration) ==
  LET registered == registrations[r][unit.type]
  IN  /\ configuration # None
      /\ configuration.type = unit.type
      /\ registered.factory # None
      /\ registered.adapt # None
      /\ configuration.concrete = registered.factory.configuration

Fits(b) ==
  LET build == building[b]
  IN  /\ ValidDescriptors(build.registry, build.units)
      /\ \A i \in DOMAIN build.units :
           Preparable(build.registry, build.units[i], build.configurations[i])

(* Slots and workspaces may fail to be reserved, and a factory may fail.       *)
Assemble(b) ==
  /\ building[b] # None
  /\ \/ Fits(b) /\ modules' = modules \cup {building[b]}
     \/ UNCHANGED modules
  /\ building' = [building EXCEPT ![b] = None]
  /\ UNCHANGED <<registrations, definition, nextToken, begun>>

RegistryNext ==
  \/ Registration
  \/ \E r \in Registries : Load(r)
  \/ \E b \in Builders, r \in Registries, strict \in BOOLEAN : Begin(b, r, strict)
  \/ \E b \in Builders : Assemble(b)

RegistrySpec == RegistryInit /\ [][RegistryNext]_registryVars
------------------------------------------------------------------------------
(* Handles are checked by their plan token alone: no two Modules of the        *)
(* process share one, whatever builds run at the same time or fail.           *)
TokensAreUnique == \A m, n \in modules : m.token = n.token => m = n

(* The bindings of a Unit are the ports its executor was registered for, in       *)
(* their order, its configuration is of the factory's type, and the executor    *)
(* takes what the factory makes.                                             *)
UnitFits(unit, registered, configuration) ==
  /\ [n \in DOMAIN unit.inputs |-> unit.inputs[n].name] =
       [n \in DOMAIN registered.inputs |-> registered.inputs[n].name]
  /\ [n \in DOMAIN unit.outputs |-> unit.outputs[n].name] =
       [n \in DOMAIN registered.outputs |-> registered.outputs[n].name]
  /\ configuration.type = unit.type
  /\ configuration.concrete = registered.factory.configuration
  /\ registered.factory.implementation = registered.adapt.implementation

(* A Module runs with the registry it was built with, which may not be the one  *)
(* its definition was resolved with and which goes on being filled: all its     *)
(* Units fit that registry for the life of the Module.                         *)
ModulesFitTheirRegistry ==
  \A m \in modules : \A i \in DOMAIN m.units :
    UnitFits(m.units[i], registrations[m.registry][m.units[i].type], m.configurations[i])

Evident(declared) ==
  LET domains == UNION {ToSet(c.domains) : c \in declared}
  IN  /\ \A c \in declared : c.complete
      /\ domains # {}
      /\ \A d, e \in domains : Supports(d.evidence) /\ (d.name = e.name => d.evidence = e.evidence)

(* A Module is built with the strict guarantee only if every allocation domain  *)
(* any of its Units declares has evidence, the same from every Unit, and every  *)
(* Unit asserts that its declaration is complete.                            *)
StrictOnEvidence ==
  [][\A m \in modules' \ modules :
       m.strict =>
         Evident({registrations[m.registry][m.units[i].type].capability : i \in DOMAIN m.units})]_registryVars
==============================================================================
