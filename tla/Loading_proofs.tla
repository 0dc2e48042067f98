---------------------------- MODULE Loading_proofs ----------------------------
(* Proofs about loading: UnitRegistry, for any registries, calls, sources and     *)
(* builders, and PreparedInputs, for any plans and supplies.                    *)
EXTENDS UnitRegistry, PreparedInputs, NaturalBounds, SequenceTheorems, TLAPS

(* Every token a build holds or a Module has was given out, and to one of them. *)
Holds(b) == building[b] # None
TokensFit ==
  /\ nextToken \in Nat
  /\ building = [b \in Builders |-> building[b]]
  /\ \A m \in modules : m.token \in Nat /\ m.token < nextToken
  /\ \A b \in Builders : Holds(b) =>
       /\ building[b].token \in Nat /\ building[b].token < nextToken
       /\ \A m \in modules : m.token # building[b].token
       /\ \A c \in Builders : Holds(c) /\ c # b => building[b].token # building[c].token
  /\ TokensAreUnique

LEMMA BeginKeepsTokens ==
  ASSUME TokensFit, NEW b \in Builders, NEW r, NEW strict, Begin(b, r, strict)
  PROVE  TokensFit'
<1>1. CASE UNCHANGED <<building, nextToken>>
  BY <1>1 DEF Begin, TokensFit, TokensAreUnique, Holds
<1>2. CASE UNCHANGED modules /\ nextToken' = Advance(nextToken)
           /\ building' = [building EXCEPT ![b] =
             [number |-> begun, registry |-> r, strict |-> strict, token |-> nextToken,
              units |-> definition.units, configurations |-> definition.configurations]]
  <2>1. nextToken' = nextToken + 1 /\ nextToken \in Nat /\ modules' = modules
    BY <1>2 DEF Advance, TokensFit
  <2>2. /\ building'[b].token = nextToken
        /\ \A c \in Builders \ {b} : building'[c] = building[c]
        /\ building' = [c \in Builders |-> building'[c]]
    BY <1>2 DEF TokensFit
  <2>3. \A c \in Builders \ {b} : Holds(c)' <=> Holds(c)
    BY <2>2 DEF Holds
  <2>4. \A m \in modules' : m.token \in Nat /\ m.token < nextToken'
    BY <2>1 DEF TokensFit
  <2>5. ASSUME NEW c \in Builders, Holds(c)'
        PROVE  /\ building'[c].token \in Nat /\ building'[c].token < nextToken'
               /\ \A m \in modules' : m.token # building'[c].token
               /\ \A d \in Builders : Holds(d)' /\ d # c => building'[c].token # building'[d].token
    BY <2>1, <2>2, <2>3, <2>5 DEF TokensFit
  <2> QED BY <2>1, <2>2, <2>4, <2>5 DEF TokensFit, TokensAreUnique
<1> QED BY <1>1, <1>2 DEF Begin

LEMMA AssembleKeepsTokens ==
  ASSUME TokensFit, NEW b \in Builders, Assemble(b)
  PROVE  TokensFit'
<1>1. /\ building' = [building EXCEPT ![b] = None] /\ nextToken' = nextToken /\ Holds(b)
      /\ modules' \subseteq modules \cup {building[b]}
  BY DEF Assemble, Holds
<1>2. /\ building' = [c \in Builders |-> building'[c]]
      /\ \A c \in Builders : Holds(c)' => Holds(c) /\ c # b /\ building'[c] = building[c]
  BY <1>1 DEF TokensFit, Holds
<1> QED BY <1>1, <1>2 DEF TokensFit, TokensAreUnique

(* All other steps leave builds, Modules and the counter alone.               *)
LEMMA StepKeepsTokens ==
  ASSUME TokensFit, [RegistryNext]_registryVars
  PROVE  TokensFit'
<1>1. ASSUME UNCHANGED <<building, nextToken, modules>> PROVE TokensFit'
  BY <1>1 DEF TokensFit, TokensAreUnique, Holds
<1>2. ASSUME Registration PROVE TokensFit'
  BY <1>1, <1>2 DEF Registration
<1>3. ASSUME NEW r \in Registries, Load(r) PROVE TokensFit'
  <2>1. UNCHANGED <<building, nextToken, modules>>
    BY <1>3 DEF Load
  <2> QED BY <1>1, <2>1
<1>4. ASSUME UNCHANGED registryVars PROVE TokensFit'
  BY <1>1, <1>4 DEF registryVars
<1> QED BY <1>2, <1>3, <1>4, BeginKeepsTokens, AssembleKeepsTokens DEF RegistryNext

(* Modules never share a plan token (PreparedRuntime::build takes it from one    *)
(* counter of the process), whatever builds run at the same time or fail.      *)
THEOREM TokensStayUnique == RegistrySpec => []TokensAreUnique
<1>1. RegistryInit => TokensFit
  BY DEF RegistryInit, TokensFit, TokensAreUnique, Holds
<1>2. TokensFit => TokensAreUnique
  BY DEF TokensFit
<1> QED BY <1>1, <1>2, StepKeepsTokens, PTL DEF RegistrySpec
------------------------------------------------------------------------------
(* What a registration is, and that its executor takes what its factory makes.  *)
IsRegistration(u) ==
  /\ u = [inputs |-> u.inputs, outputs |-> u.outputs, configuration |-> u.configuration,
          factory |-> u.factory, adapt |-> u.adapt, capability |-> u.capability]
  /\ IsSequence(u.inputs) /\ IsSequence(u.outputs)
  /\ IsList(u.capability.domains)
  /\ u.adapt # None => u.factory # None /\ u.factory.implementation = u.adapt.implementation

RegistrationsFit ==
  /\ registrations = [r \in Registries |-> registrations[r]]
  /\ \A r \in Registries : \A t \in DOMAIN registrations[r] : IsRegistration(registrations[r][t])

(* Units whose types a registry knows, with sequences of ports.               *)
Sequenced(units) ==
  /\ IsSequence(units)
  /\ \A i \in DOMAIN units : IsSequence(units[i].inputs) /\ IsSequence(units[i].outputs)
KnownTo(r, units) ==
  r \in Registries /\ \A i \in DOMAIN units : units[i].type \in DOMAIN registrations[r]

BuildsFit ==
  /\ building = [b \in Builders |-> building[b]]
  /\ definition # None => Sequenced(definition.units)
  /\ \A b \in Builders : Holds(b) =>
       KnownTo(building[b].registry, building[b].units) /\ Sequenced(building[b].units)

(* Both halves of a registration are there once a Module was built with it.    *)
Complete(m) ==
  /\ KnownTo(m.registry, m.units)
  /\ \A i \in DOMAIN m.units :
       LET registered == registrations[m.registry][m.units[i].type]
       IN  registered.factory # None /\ registered.adapt # None
ModulesFit == (\A m \in modules : Complete(m)) /\ ModulesFitTheirRegistry

RegistryInvariant == RegistrationsFit /\ BuildsFit /\ ModulesFit

(* Registrations are never taken back: ports stay, and what is set stays.      *)
Stays(old, new) ==
  /\ new.inputs = old.inputs /\ new.outputs = old.outputs
  /\ old.factory # None => new.factory = old.factory
  /\ old.adapt # None => new.adapt = old.adapt
Grows ==
  \A r \in Registries : \A t \in DOMAIN registrations[r] :
    t \in DOMAIN registrations'[r] /\ Stays(registrations[r][t], registrations'[r][t])

(* A call that changes one registration to another that still fits.           *)
LEMMA ReplacedFits ==
  ASSUME RegistrationsFit, NEW s \in Registries, NEW type \in DOMAIN registrations[s], NEW u,
         IsRegistration(u), Stays(registrations[s][type], u),
         registrations' = [registrations EXCEPT ![s] = [registrations[s] EXCEPT ![type] = u]]
  PROVE  RegistrationsFit' /\ Grows
<1>1. /\ registrations'[s] = [registrations[s] EXCEPT ![type] = u]
      /\ \A r \in Registries \ {s} : registrations'[r] = registrations[r]
      /\ registrations' = [r \in Registries |-> registrations'[r]]
  BY DEF RegistrationsFit
<1>2. /\ registrations'[s][type] = u /\ DOMAIN registrations'[s] = DOMAIN registrations[s]
      /\ \A t \in DOMAIN registrations[s] \ {type} : registrations'[s][t] = registrations[s][t]
  BY <1>1
<1>3. \A v : Stays(v, v)
  BY DEF Stays
<1>4. Grows
  BY <1>1, <1>2, <1>3 DEF Grows
<1>5. \A r \in Registries : \A t \in DOMAIN registrations'[r] : IsRegistration(registrations'[r][t])
  BY <1>1, <1>2 DEF RegistrationsFit
<1> QED BY <1>1, <1>4, <1>5 DEF RegistrationsFit

LEMMA RegisterFits ==
  ASSUME RegistrationsFit, NEW c \in Calls, Register(c)
  PROVE  RegistrationsFit' /\ Grows
<1> DEFINE s == c.registry
           new == [inputs |-> c.inputs, outputs |-> c.outputs, configuration |-> c.configuration,
                   factory |-> None, adapt |-> None, capability |-> Undeclared]
           grown == [t \in DOMAIN registrations[s] \cup {c.type} |->
                       IF t = c.type THEN new ELSE registrations[s][t]]
<1>1. s \in Registries /\ c.type \notin DOMAIN registrations[s]
  BY RegistryAssumption DEF Register, Vacant, Known
<1>2. registrations' = [registrations EXCEPT ![s] = grown]
  BY DEF Register
<1>3. IsRegistration(new)
  <2>1. IsList(Undeclared.domains)
    <3> DEFINE e == [name |-> "undeclared", evidence |-> "unsupported"]
    <3>1. Undeclared.domains = <<e>>
      BY DEF Undeclared
    <3> HIDE DEF e
    <3> QED BY <3>1 DEF IsList, IsSequence
  <2>2. IsSequence(c.inputs) /\ IsSequence(c.outputs)
    BY RegistryAssumption DEF Register
  <2>3. /\ new.inputs = c.inputs /\ new.outputs = c.outputs /\ new.factory = None
        /\ new.adapt = None /\ new.capability = Undeclared
        /\ new = [inputs |-> new.inputs, outputs |-> new.outputs, configuration |-> new.configuration,
                  factory |-> new.factory, adapt |-> new.adapt, capability |-> new.capability]
    OBVIOUS
  <2> HIDE DEF new
  <2> QED BY <2>1, <2>2, <2>3 DEF IsRegistration
<1> HIDE DEF s, new
<1>4. /\ registrations'[s] = grown
      /\ \A r \in Registries \ {s} : registrations'[r] = registrations[r]
      /\ registrations' = [r \in Registries |-> registrations'[r]]
  BY <1>1, <1>2 DEF RegistrationsFit
<1>5. \A v : Stays(v, v)
  BY DEF Stays
<1>6. Grows
  BY <1>1, <1>4, <1>5 DEF Grows
<1>7. \A r \in Registries : \A t \in DOMAIN registrations'[r] : IsRegistration(registrations'[r][t])
  BY <1>1, <1>3, <1>4 DEF RegistrationsFit
<1> QED BY <1>4, <1>6, <1>7 DEF RegistrationsFit

(* The other calls set one field of a registration, the executor after the     *)
(* factory.                                                                  *)
LEMMA RegistrationFits ==
  ASSUME RegistrationsFit, Registration
  PROVE  RegistrationsFit' /\ Grows
<1>1. PICK c \in Calls :
        Register(c) \/ SetAllocationCapability(c) \/ RegisterFactory(c) \/ RegisterExecutor(c)
  BY DEF Registration
<1> DEFINE s == c.registry
           old == registrations[s][c.type]
<1>2. CASE Register(c)
  BY <1>2, RegisterFits
<1>3. CASE SetAllocationCapability(c)
  <2> DEFINE u == [old EXCEPT !.capability = c.capability]
  <2>1. s \in Registries /\ c.type \in DOMAIN registrations[s]
    BY <1>3, RegistryAssumption DEF SetAllocationCapability, Known
  <2>2. IsRegistration(old)
    BY <2>1 DEF RegistrationsFit
  <2>3. IsRegistration(u) /\ Stays(old, u)
    <3>1. IsList(c.capability.domains)
      BY <1>3, RegistryAssumption DEF SetAllocationCapability
    <3>2. /\ u.inputs = old.inputs /\ u.outputs = old.outputs /\ u.factory = old.factory
          /\ u.adapt = old.adapt /\ u.capability = c.capability
          /\ u = [inputs |-> u.inputs, outputs |-> u.outputs, configuration |-> u.configuration,
                  factory |-> u.factory, adapt |-> u.adapt, capability |-> u.capability]
      BY <2>2 DEF IsRegistration
    <3> HIDE DEF u, old
    <3> QED BY <2>2, <3>1, <3>2 DEF IsRegistration, Stays
  <2>4. registrations' = [registrations EXCEPT ![s] = [registrations[s] EXCEPT ![c.type] = u]]
    BY <1>3 DEF SetAllocationCapability
  <2> QED BY <2>1, <2>3, <2>4, ReplacedFits
<1>4. CASE RegisterFactory(c)
  <2> DEFINE u == [old EXCEPT !.factory = [configuration |-> c.configuration, implementation |-> c.implementation]]
  <2>1. s \in Registries /\ c.type \in DOMAIN registrations[s] /\ old.factory = None
    BY <1>4, RegistryAssumption DEF RegisterFactory, Known
  <2>2. IsRegistration(old) /\ old.adapt = None
    BY <2>1 DEF RegistrationsFit, IsRegistration
  <2>3. IsRegistration(u) /\ Stays(old, u)
    BY <2>1, <2>2 DEF IsRegistration, Stays
  <2>4. registrations' = [registrations EXCEPT ![s] = [registrations[s] EXCEPT ![c.type] = u]]
    BY <1>4 DEF RegisterFactory
  <2> QED BY <2>1, <2>3, <2>4, ReplacedFits
<1>5. CASE RegisterExecutor(c)
  <2> DEFINE u == [old EXCEPT !.adapt = [implementation |-> c.implementation]]
  <2>1. /\ s \in Registries /\ c.type \in DOMAIN registrations[s]
        /\ old.factory # None /\ old.adapt = None /\ old.factory.implementation = c.implementation
    BY <1>5, RegistryAssumption DEF RegisterExecutor, Known, ExecutorFits
  <2>2. IsRegistration(old)
    BY <2>1 DEF RegistrationsFit
  <2>3. IsRegistration(u) /\ Stays(old, u)
    BY <2>1, <2>2 DEF IsRegistration, Stays
  <2>4. registrations' = [registrations EXCEPT ![s] = [registrations[s] EXCEPT ![c.type] = u]]
    BY <1>5 DEF RegisterExecutor
  <2> QED BY <2>1, <2>3, <2>4, ReplacedFits
<1> QED BY <1>1, <1>2, <1>3, <1>4, <1>5

(* What was known or complete stays so when registrations grow.               *)
LEMMA GrowingKeeps ==
  ASSUME Grows, BuildsFit, ModulesFit, UNCHANGED <<definition, building, modules>>
  PROVE  BuildsFit' /\ ModulesFit'
<1>1. \A r, units : KnownTo(r, units) => KnownTo(r, units)'
  BY DEF Grows, KnownTo
<1>2. BuildsFit'
  BY <1>1 DEF BuildsFit, Holds
<1>3. ASSUME NEW m \in modules, NEW i \in DOMAIN m.units
      PROVE  /\ m.registry \in Registries /\ m.units[i].type \in DOMAIN registrations[m.registry]
             /\ Stays(registrations[m.registry][m.units[i].type],
                      registrations'[m.registry][m.units[i].type])
             /\ registrations[m.registry][m.units[i].type].factory # None
             /\ registrations[m.registry][m.units[i].type].adapt # None
  BY <1>3 DEF ModulesFit, Complete, KnownTo, Grows
<1>4. \A m \in modules : Complete(m)'
  BY <1>1, <1>3 DEF ModulesFit, Complete, Stays
<1>5. ASSUME NEW unit, NEW old, NEW new, NEW configuration,
             Stays(old, new), old.factory # None, old.adapt # None, UnitFits(unit, old, configuration)
      PROVE  UnitFits(unit, new, configuration)
  BY <1>5 DEF Stays, UnitFits
<1>6. ModulesFitTheirRegistry'
  BY <1>3, <1>5 DEF ModulesFit, ModulesFitTheirRegistry
<1> QED BY <1>2, <1>4, <1>6 DEF ModulesFit

(* Resolution gives every Unit as many bindings as its descriptor has ports.   *)
LEMMA LoadFits ==
  ASSUME RegistryInvariant, NEW r \in Registries, Load(r)
  PROVE  RegistryInvariant'
<1>1. PICK source \in Sources :
        /\ \A i \in DOMAIN source : Known(r, source[i].type)
        /\ definition'.units =
             [i \in DOMAIN source |->
                [id |-> source[i].id, type |-> source[i].type,
                 inputs |-> Resolved(source[i].inputs, registrations[r][source[i].type].inputs),
                 outputs |-> Resolved(source[i].outputs, registrations[r][source[i].type].outputs)]]
  BY DEF Load
<1>2. ASSUME NEW bindings, NEW ports, IsSequence(ports) PROVE IsSequence(Resolved(bindings, ports))
  <2>1. /\ DOMAIN Resolved(bindings, ports) = 1 .. Len(ports) /\ Len(ports) \in Nat
        /\ Resolved(bindings, ports) = [i \in 1 .. Len(ports) |-> Resolved(bindings, ports)[i]]
    BY <1>2 DEF Resolved, IsSequence
  <2>2. Len(Resolved(bindings, ports)) = Len(ports)
    BY <2>1
  <2> QED BY <2>1, <2>2 DEF IsSequence
<1>3. \A i \in DOMAIN source : IsRegistration(registrations[r][source[i].type])
  BY <1>1 DEF RegistryInvariant, RegistrationsFit, Known
<1>4. ASSUME NEW i \in DOMAIN definition'.units
      PROVE  IsSequence(definition'.units[i].inputs) /\ IsSequence(definition'.units[i].outputs)
  <2>1. /\ i \in DOMAIN source
        /\ definition'.units[i].inputs =
             Resolved(source[i].inputs, registrations[r][source[i].type].inputs)
        /\ definition'.units[i].outputs =
             Resolved(source[i].outputs, registrations[r][source[i].type].outputs)
    BY <1>1, <1>4
  <2> QED BY <1>2, <1>3, <2>1 DEF IsRegistration
<1>5. UNCHANGED <<registrations, building, modules>>
  BY DEF Load
<1>6. RegistrationsFit' /\ ModulesFit'
  BY <1>5 DEF RegistryInvariant, RegistrationsFit, ModulesFit, ModulesFitTheirRegistry, Complete, KnownTo
<1>7. IsSequence(definition'.units)
  <2>1. IsSequence(source)
    BY RegistryAssumption
  <2>2. /\ DOMAIN definition'.units = 1 .. Len(source) /\ Len(source) \in Nat
        /\ definition'.units = [i \in 1 .. Len(source) |-> definition'.units[i]]
    BY <1>1, <2>1 DEF IsSequence
  <2>3. Len(definition'.units) = Len(source)
    BY <2>2
  <2> QED BY <2>2, <2>3 DEF IsSequence
<1>8. BuildsFit'
  BY <1>4, <1>5, <1>7 DEF RegistryInvariant, BuildsFit, Sequenced, KnownTo, Holds
<1> QED BY <1>6, <1>8 DEF RegistryInvariant

LEMMA BeginFits ==
  ASSUME RegistryInvariant, NEW b \in Builders, NEW r \in Registries, NEW strict, Begin(b, r, strict)
  PROVE  RegistryInvariant'
<1>1. UNCHANGED <<registrations, modules>> /\ definition' = None
  BY DEF Begin
<1>2. RegistrationsFit' /\ ModulesFit'
  BY <1>1 DEF RegistryInvariant, RegistrationsFit, ModulesFit, ModulesFitTheirRegistry, Complete, KnownTo
<1>3. CASE building' = building
  BY <1>1, <1>2, <1>3 DEF RegistryInvariant, BuildsFit, KnownTo, Holds
<1>4. CASE /\ \A i \in DOMAIN definition.units : Known(r, definition.units[i].type)
           /\ building' = [building EXCEPT ![b] =
             [number |-> begun, registry |-> r, strict |-> strict, token |-> nextToken,
              units |-> definition.units, configurations |-> definition.configurations]]
  <2>1. /\ building' = [c \in Builders |-> building'[c]]
        /\ \A c \in Builders \ {b} : building'[c] = building[c]
        /\ building'[b].registry = r /\ building'[b].units = definition.units
    BY <1>4 DEF RegistryInvariant, BuildsFit
  <2>2. KnownTo(r, definition.units) /\ Sequenced(definition.units)
    BY <1>4 DEF RegistryInvariant, BuildsFit, KnownTo, Known, Begin
  <2>3. BuildsFit'
    BY <1>1, <2>1, <2>2 DEF RegistryInvariant, BuildsFit, KnownTo, Holds
  <2> QED BY <1>2, <2>3 DEF RegistryInvariant
<1> QED BY <1>3, <1>4 DEF Begin

(* What the checks of the builder establish for a Module.                     *)
LEMMA AssembleFits ==
  ASSUME RegistryInvariant, NEW b \in Builders, Assemble(b)
  PROVE  RegistryInvariant'
<1> DEFINE m == building[b]
<1>1. UNCHANGED <<registrations, definition>> /\ building' = [building EXCEPT ![b] = None] /\ Holds(b)
  BY DEF Assemble, Holds
<1>2. /\ building' = [c \in Builders |-> building'[c]]
      /\ \A c \in Builders : Holds(c)' => Holds(c) /\ building'[c] = building[c]
  BY <1>1 DEF RegistryInvariant, BuildsFit, Holds
<1>3. RegistrationsFit' /\ BuildsFit'
  BY <1>1, <1>2 DEF RegistryInvariant, RegistrationsFit, BuildsFit, KnownTo
<1>4. CASE modules' = modules
  BY <1>1, <1>3, <1>4 DEF RegistryInvariant, ModulesFit, ModulesFitTheirRegistry, Complete, KnownTo
<1>5. CASE Fits(b) /\ modules' = modules \cup {m}
  <2>1. KnownTo(m.registry, m.units) /\ Sequenced(m.units)
    BY <1>1, SMTT(30) DEF RegistryInvariant, BuildsFit
  <2>2. ASSUME NEW i \in DOMAIN m.units
        PROVE  LET registered == registrations[m.registry][m.units[i].type]
               IN  /\ UnitFits(m.units[i], registered, m.configurations[i])
                   /\ registered.factory # None /\ registered.adapt # None
    <3> DEFINE unit == m.units[i]
               registered == registrations[m.registry][unit.type]
    <3>1. IsRegistration(registered) /\ IsSequence(unit.inputs) /\ IsSequence(unit.outputs)
      BY <2>1 DEF RegistryInvariant, RegistrationsFit, KnownTo, Sequenced
    <3>2. OrderedPorts(unit.inputs, registered.inputs) /\ OrderedPorts(unit.outputs, registered.outputs)
      BY <1>5 DEF Fits, ValidDescriptors
    <3>3. ASSUME NEW bindings, NEW ports, IsSequence(bindings), IsSequence(ports), OrderedPorts(bindings, ports)
          PROVE  [n \in DOMAIN bindings |-> bindings[n].name] = [n \in DOMAIN ports |-> ports[n].name]
      BY <3>3 DEF IsSequence, OrderedPorts
    <3>4. Preparable(m.registry, unit, m.configurations[i])
      BY <1>5 DEF Fits
    <3>5. /\ m.configurations[i].type = unit.type
          /\ m.configurations[i].concrete = registered.factory.configuration
          /\ registered.factory # None /\ registered.adapt # None
      BY <3>4 DEF Preparable
    <3> HIDE DEF unit, registered
    <3>6. registered.factory.implementation = registered.adapt.implementation
      BY <3>1, <3>5 DEF IsRegistration
    <3>7. IsSequence(registered.inputs) /\ IsSequence(registered.outputs)
      BY <3>1 DEF IsRegistration
    <3>8. UnitFits(unit, registered, m.configurations[i])
      BY <3>1, <3>2, <3>3, <3>5, <3>6, <3>7 DEF UnitFits
    <3> QED BY <3>5, <3>8 DEF unit, registered
  <2>3. \A n \in modules' : Complete(n)'
    BY <1>1, <1>5, <2>1, <2>2 DEF RegistryInvariant, ModulesFit, Complete, KnownTo
  <2>4. ModulesFitTheirRegistry'
    BY <1>1, <1>5, <2>2 DEF RegistryInvariant, ModulesFit, ModulesFitTheirRegistry
  <2> QED BY <1>3, <1>5, <2>3, <2>4 DEF RegistryInvariant, ModulesFit
<1> QED BY <1>4, <1>5 DEF Assemble

LEMMA StepFits ==
  ASSUME RegistryInvariant, [RegistryNext]_registryVars
  PROVE  RegistryInvariant'
<1>1. ASSUME Registration PROVE RegistryInvariant'
  <2>1. UNCHANGED <<definition, building, modules>>
    BY <1>1 DEF Registration
  <2> QED BY <1>1, <2>1, RegistrationFits, GrowingKeeps DEF RegistryInvariant
<1>2. ASSUME UNCHANGED registryVars PROVE RegistryInvariant'
  BY <1>2 DEF registryVars, RegistryInvariant, RegistrationsFit, BuildsFit, ModulesFit,
              ModulesFitTheirRegistry, Complete, KnownTo, Holds
<1> QED BY <1>1, <1>2, LoadFits, BeginFits, AssembleFits DEF RegistryNext

LEMMA InitFits ==
  ASSUME RegistryInit
  PROVE  RegistryInvariant
<1>1. RegistrationsFit
  BY DEF RegistryInit, RegistrationsFit
<1>2. BuildsFit
  BY DEF RegistryInit, BuildsFit, Holds
<1>3. ModulesFit
  BY DEF RegistryInit, ModulesFit, ModulesFitTheirRegistry
<1> QED BY <1>1, <1>2, <1>3 DEF RegistryInvariant

(* A Module goes on to fit the registry it was built with, whichever its        *)
(* definition was resolved with (validate_registered_unit_descriptors, and      *)
(* register_executor after register_factory).                                 *)
THEOREM ModulesKeepTheirRegistry == RegistrySpec => []ModulesFitTheirRegistry
<1>1. RegistryInvariant => ModulesFitTheirRegistry
  BY DEF RegistryInvariant, ModulesFit
<1> QED BY <1>1, InitFits, StepFits, PTL DEF RegistrySpec

------------------------------------------------------------------------------
(* Merging evidence. *)

(* Every prefix of a sequence of domains merged.                              *)
Merging(F, s) == F[0] = <<>> /\ \A k \in 1 .. Len(s) : F[k] = Merge(F[k - 1], s[k])

(* The fold, as SequencesExt defines it: over sets of places, the last first.   *)
MergeUpTo(g, s, t) == IF t = {} THEN <<>> ELSE Merge(g[t \ {Max(t)}], s[Max(t)])
Folds(g, s, m) == g = [t \in SUBSET (1 .. m) |-> MergeUpTo(g, s, t)]

LEMMA FoldExists ==
  ASSUME NEW s, NEW n \in Nat
  PROVE  \E g : Folds(g, s, n)
<1> DEFINE T == {m \in Nat : \E g : Folds(g, s, m)}
<1>1. 0 \in T
  <2> DEFINE g == [t \in SUBSET (1 .. 0) |-> <<>>]
  <2>1. \A t \in SUBSET (1 .. 0) : t = {}
    OBVIOUS
  <2>2. g = [t \in SUBSET (1 .. 0) |-> MergeUpTo(g, s, t)]
    BY <2>1 DEF MergeUpTo
  <2> HIDE DEF g
  <2> QED BY <2>2 DEF Folds
<1>2. ASSUME NEW m \in 1 .. n, m - 1 \in T
      PROVE  m \in T
  <2>1. PICK g : Folds(g, s, m - 1)
    BY <1>2
  <2> DEFINE h == [t \in SUBSET (1 .. m) |->
                     IF m \in t THEN Merge(g[t \ {m}], s[m]) ELSE g[t]]
  <2>2. ASSUME NEW t \in SUBSET (1 .. m)
        PROVE  h[t] = MergeUpTo(h, s, t)
    <3>1. CASE m \in t
      <4>1. t \in SUBSET (0 .. m) /\ t # {} /\ m \in Nat
        BY <1>2, <3>1
      <4>2. Max(t) \in t /\ Max(t) >= m
        BY <3>1, <4>1, MaxOfBounded
      <4>3. Max(t) = m
        <5>1. Max(t) \in 1 .. m
          BY <2>2, <4>2
        <5> QED BY <4>1, <4>2, <5>1
      <4>4. t \ {m} \in SUBSET (1 .. m) /\ m \notin t \ {m}
        OBVIOUS
      <4>5. h[t \ {m}] = g[t \ {m}] /\ h[t] = Merge(g[t \ {m}], s[m])
        BY <3>1, <4>4
      <4> QED BY <4>1, <4>3, <4>5 DEF MergeUpTo
    <3>2. CASE m \notin t
      <4>1. t \in SUBSET (1 .. m - 1)
        BY <1>2, <3>2
      <4>2. h[t] = g[t] /\ g[t] = MergeUpTo(g, s, t)
        BY <2>1, <3>2, <4>1 DEF Folds
      <4>3. t \ {Max(t)} \in SUBSET (1 .. m) /\ m \notin t \ {Max(t)}
        BY <3>2
      <4>4. h[t \ {Max(t)}] = g[t \ {Max(t)}]
        BY <4>3
      <4> HIDE DEF h
      <4> QED BY <4>2, <4>4 DEF MergeUpTo
    <3> QED BY <3>1, <3>2
  <2>3. h = [t \in SUBSET (1 .. m) |-> h[t]]
    OBVIOUS
  <2> HIDE DEF h
  <2>4. Folds(h, s, m)
    BY <2>2, <2>3 DEF Folds
  <2>5. m \in Nat
    BY <1>2
  <2> QED BY <2>4, <2>5
<1>3. n \in 0 .. n
  OBVIOUS
<1>4. n \in T
  <2> HIDE DEF T
  <2> QED BY <1>1, <1>2, <1>3, Along
<1> QED BY <1>4

LEMMA FoldUnfolds ==
  ASSUME NEW s, IsSequence(s)
  PROVE  \E F : Merging(F, s) /\ FoldLeft(Merge, <<>>, s) = F[Len(s)]
<1> DEFINE n == Len(s)
           iter == CHOOSE g : Folds(g, s, n)
<1>1. n \in Nat /\ DOMAIN s = 1 .. n
  BY DEF IsSequence
<1>2. Folds(iter, s, n)
  BY <1>1, FoldExists
<1>3. FoldLeft(Merge, <<>>, s) = iter[1 .. n]
  BY <1>1 DEF FoldLeft, MapThenFoldSet, Folds, MergeUpTo
<1> DEFINE F == [k \in 0 .. n |-> iter[1 .. k]]
<1> HIDE DEF iter
<1>4. F[0] = <<>>
  BY <1>1, <1>2 DEF Folds, MergeUpTo
<1>5. ASSUME NEW k \in 1 .. n
      PROVE  F[k] = Merge(F[k - 1], s[k])
  <2>1. 1 .. k \in SUBSET (1 .. n) /\ 1 .. k # {} /\ (1 .. k) \in SUBSET (0 .. n) /\ k \in 1 .. k
    BY <1>1
  <2>2. Max(1 .. k) \in 1 .. k /\ Max(1 .. k) >= k
    BY <1>1, <2>1, MaxOfBounded
  <2>3. Max(1 .. k) = k
    BY <2>2
  <2>4. (1 .. k) \ {k} = 1 .. k - 1
    BY <1>1
  <2>5. iter[1 .. k] = Merge(iter[1 .. k - 1], s[k])
    BY <1>2, <2>1, <2>3, <2>4 DEF Folds, MergeUpTo
  <2> QED BY <1>1, <2>5
<1>6. F[n] = iter[1 .. n]
  BY <1>1
<1> HIDE DEF F
<1> QED BY <1>3, <1>4, <1>5, <1>6 DEF Merging

(* Names merged are those met; evidence is that of any of them, or none.       *)
LEMMA MergedIsCommon ==
  ASSUME NEW D, NEW s \in Seq(D), NEW F, Merging(F, s)
  PROVE  /\ DOMAIN F[Len(s)] = {s[j].name : j \in 1 .. Len(s)}
         /\ \A j \in 1 .. Len(s) : F[Len(s)][s[j].name] \in {s[j].evidence, "unsupported"}
<1> DEFINE n == Len(s)
           Common(k) == /\ DOMAIN F[k] = {s[j].name : j \in 1 .. k}
                      /\ \A j \in 1 .. k : F[k][s[j].name] \in {s[j].evidence, "unsupported"}
           T == {k \in Nat : Common(k)}
<1>1. n \in Nat
  OBVIOUS
<1>2. 0 \in T
  BY DEF Merging
<1>3. ASSUME NEW k \in 1 .. n, k - 1 \in T
      PROVE  k \in T
  <2>1. F[k] = Merge(F[k - 1], s[k])
    BY DEF Merging
  <2> DEFINE old == F[k - 1]
             d == s[k]
             new == F[k]
  <2>2. /\ DOMAIN old = {s[j].name : j \in 1 .. k - 1} /\ k - 1 \in Nat /\ k \in Nat
        /\ \A j \in 1 .. k - 1 : old[s[j].name] \in {s[j].evidence, "unsupported"}
    BY <1>3
  <2> HIDE DEF old, new
  <2>3. new = [name \in DOMAIN old \cup {d.name} |->
                IF name # d.name THEN old[name]
                ELSE IF name \in DOMAIN old /\ old[name] # d.evidence THEN "unsupported"
                ELSE d.evidence]
    BY <2>1 DEF Merge, old, new
  <2>4. 1 .. k = (1 .. k - 1) \cup {k}
    BY <2>2
  <2>5. DOMAIN new = {s[j].name : j \in 1 .. k}
    BY <2>2, <2>3, <2>4
  <2>6. ASSUME NEW j \in 1 .. k
        PROVE  new[s[j].name] \in {s[j].evidence, "unsupported"}
    <3>1. s[j].name \in DOMAIN old \cup {d.name}
      BY <2>2, <2>4
    <3>2. CASE s[j].name # d.name
      <4>1. j \in 1 .. k - 1
        BY <2>2, <2>4, <3>2
      <4> QED BY <2>2, <2>3, <3>1, <3>2, <4>1
    <3>3. CASE s[j].name = d.name
      <4>1. new[d.name] = IF d.name \in DOMAIN old /\ old[d.name] # d.evidence THEN "unsupported"
                          ELSE d.evidence
        BY <2>3
      <4>2. CASE j = k
        BY <3>3, <4>1, <4>2
      <4>3. CASE j \in 1 .. k - 1
        <5>1. d.name \in DOMAIN old /\ old[d.name] \in {s[j].evidence, "unsupported"}
          BY <2>2, <3>3, <4>3
        <5> QED BY <3>3, <4>1, <5>1
      <4> QED BY <2>4, <4>2, <4>3
    <3> QED BY <3>2, <3>3
  <2> QED BY <2>2, <2>5, <2>6 DEF new
<1>4. n \in 0 .. n
  BY <1>1
<1>5. n \in T
  <2> HIDE DEF T, n
  <2> QED BY <1>1, <1>2, <1>3, <1>4, Along
<1> QED BY <1>5

(* FlattenSeq is a sequence of all there is in a sequence of sequences.        *)
LEMMA FlattenHasAll ==
  ASSUME NEW D, NEW seqs \in Seq(Seq(D))
  PROVE  /\ FlattenSeq(seqs) \in Seq(D)
         /\ Len(seqs) = 0 => FlattenSeq(seqs) = <<>>
         /\ \A i \in DOMAIN seqs : \A j \in DOMAIN seqs[i] :
              \E k \in 1 .. Len(FlattenSeq(seqs)) : FlattenSeq(seqs)[k] = seqs[i][j]
<1> DEFINE n == Len(seqs)
<1>1. n \in Nat /\ DOMAIN seqs = 1 .. n /\ \A i \in 1 .. n : seqs[i] \in Seq(D)
  OBVIOUS
<1>2. CASE n = 0
  <2>1. seqs = <<>> /\ FlattenSeq(seqs) = seqs
    BY <1>1, <1>2 DEF FlattenSeq
  <2>2. <<>> \in Seq(D) /\ DOMAIN seqs = {}
    BY <1>1, <1>2
  <2> QED BY <2>1, <2>2
<1>3. CASE n # 0
  <2>1. n \in 1 .. n /\ 1 \in 1 .. n
    BY <1>1, <1>3
  <2> DEFINE Flattens(g) == g = [i \in 1 .. n |-> IF i = 1 THEN seqs[i] ELSE g[i - 1] \o seqs[i]]
             flatten == CHOOSE g : Flattens(g)
             first == seqs[1]
             next == [p \in (1 .. n - 1) \X Seq(D) |-> p[2] \o seqs[p[1] + 1]]
  <2>2. first \in Seq(D) /\ n - 1 \in Nat
    BY <1>1, <2>1
  <2>3. next \in [(1 .. n - 1) \X Seq(D) -> Seq(D)]
    <3>1. ASSUME NEW p \in (1 .. n - 1) \X Seq(D)
          PROVE  p[2] \o seqs[p[1] + 1] \in Seq(D)
      <4>1. p[2] \in Seq(D) /\ p[1] + 1 \in 1 .. n
        BY <1>1, <3>1
      <4>2. seqs[p[1] + 1] \in Seq(D)
        BY <1>1, <4>1
      <4> QED BY <4>1, <4>2, ConcatProperties
    <3> QED BY <3>1
  <2>4. PICK G \in [0 .. n - 1 -> Seq(D)] : Follows(G, n - 1, first, next)
    <3> HIDE DEF next, first, n
    <3> QED BY <2>2, <2>3, RecursionExists
  <2> DEFINE g == [i \in 1 .. n |-> G[i - 1]]
  <2>5. Flattens(g)
    <3>1. ASSUME NEW i \in 1 .. n
          PROVE  G[i - 1] = IF i = 1 THEN seqs[i] ELSE g[i - 1] \o seqs[i]
      <4>1. CASE i = 1
        BY <2>4, <4>1 DEF Follows
      <4>2. CASE i # 1
        <5>1. i - 1 \in 1 .. n - 1 /\ (i - 1) - 1 \in 0 .. n - 1 /\ i - 1 \in 1 .. n
              /\ (i - 1) + 1 = i
          BY <1>1, <4>2
        <5>2. G[i - 1] = next[<<i - 1, G[(i - 1) - 1]>>] /\ G[(i - 1) - 1] \in Seq(D)
          BY <2>4, <5>1 DEF Follows
        <5>3. g[i - 1] = G[(i - 1) - 1]
          BY <5>1
        <5>4. next[<<i - 1, G[(i - 1) - 1]>>] = G[(i - 1) - 1] \o seqs[(i - 1) + 1]
          BY <5>1, <5>2
        <5> QED BY <4>2, <5>1, <5>2, <5>3, <5>4
      <4> QED BY <4>1, <4>2
    <3> QED BY <3>1
  <2> HIDE DEF g
  <2>6. Flattens(flatten)
    BY <2>5
  <2>7. FlattenSeq(seqs) = flatten[n]
    BY <1>3 DEF FlattenSeq
  <2> DEFINE All(k) == /\ flatten[k] \in Seq(D)
                       /\ \A i \in 1 .. k : \A j \in DOMAIN seqs[i] :
                            \E l \in 1 .. Len(flatten[k]) : flatten[k][l] = seqs[i][j]
             T == {k \in Nat : All(k + 1)}
  <2> HIDE DEF flatten
  <2>8. 0 \in T
    <3>1. flatten[1] = seqs[1]
      BY <2>1, <2>6
    <3>2. \A i \in 1 .. 0 + 1 : i = 1
      OBVIOUS
    <3>3. seqs[1] \in Seq(D)
      BY <1>1, <2>1
    <3>4. DOMAIN seqs[1] = 1 .. Len(seqs[1])
      BY <3>3
    <3>5. All(1)
      <4> SUFFICES ASSUME NEW j \in DOMAIN seqs[1]
                   PROVE  \E l \in 1 .. Len(flatten[1]) : flatten[1][l] = seqs[1][j]
        BY <3>1, <3>2, <3>3
      <4> QED BY <3>1, <3>4
    <3> QED BY <3>5
  <2>9. ASSUME NEW k \in 1 .. n - 1, k - 1 \in T
        PROVE  k \in T
    <3>1. k \in Nat /\ k \in 1 .. n /\ k + 1 \in 1 .. n /\ k + 1 # 1 /\ (k + 1) - 1 = k /\ (k - 1) + 1 = k
      BY <1>1, <2>9
    <3> DEFINE a == flatten[k]
               b == seqs[k + 1]
    <3>2. flatten[k + 1] = a \o b
      BY <2>6, <3>1
    <3>3. All(k)
      BY <2>9, <3>1
    <3>4. a \in Seq(D) /\ b \in Seq(D)
      BY <1>1, <3>1, <3>3
    <3> HIDE DEF a, b
    <3>5. /\ a \o b \in Seq(D) /\ Len(a \o b) = Len(a) + Len(b)
          /\ \A l \in 1 .. Len(a) : (a \o b)[l] = a[l]
          /\ \A l \in 1 .. Len(b) : (a \o b)[Len(a) + l] = b[l]
          /\ Len(a) \in Nat /\ Len(b) \in Nat /\ DOMAIN b = 1 .. Len(b)
      BY <3>4
    <3>6. ASSUME NEW i \in 1 .. k + 1, NEW j \in DOMAIN seqs[i]
          PROVE  \E l \in 1 .. Len(a \o b) : (a \o b)[l] = seqs[i][j]
      <4>1. CASE i \in 1 .. k
        <5>1. PICK l \in 1 .. Len(a) : a[l] = seqs[i][j]
          BY <3>3, <3>6, <4>1 DEF a
        <5>2. l \in 1 .. Len(a \o b) /\ (a \o b)[l] = seqs[i][j]
          BY <3>5, <5>1
        <5> QED BY <5>2
      <4>2. CASE i = k + 1
        <5>1. seqs[i] = b /\ j \in 1 .. Len(b)
          BY <3>5, <3>6, <4>2 DEF b
        <5>2. Len(a) + j \in 1 .. Len(a \o b) /\ (a \o b)[Len(a) + j] = b[j]
          BY <3>5, <5>1
        <5> QED BY <5>1, <5>2
      <4> QED BY <3>1, <4>1, <4>2
    <3>7. All(k + 1)
      BY <3>2, <3>5, <3>6
    <3> QED BY <3>1, <3>7
  <2>10. n - 1 \in 0 .. n - 1
    BY <2>2
  <2>11. n - 1 \in T
    <3> HIDE DEF T, n
    <3> QED BY <2>2, <2>8, <2>9, <2>10, Along
  <2>12. All(n)
    <3>1. (n - 1) + 1 = n
      <4> HIDE DEF n, T
      <4> QED BY <1>1
    <3>2. All((n - 1) + 1)
      <4> HIDE DEF n, All
      <4> QED BY <2>11
    <3> HIDE DEF n, All, T
    <3> QED BY <3>1, <3>2
  <2> QED BY <1>1, <1>3, <2>7, <2>12, ZenonT(30)
<1> QED BY <1>2, <1>3

(* SetToSeq lists a finite set.                                                *)
LEMMA SetIsListed ==
  ASSUME NEW S, IsFiniteSet(S)
  PROVE  /\ DOMAIN SetToSeq(S) = 1 .. Cardinality(S)
         /\ \A x \in S : \E i \in 1 .. Cardinality(S) : SetToSeq(S)[i] = x
<1> DEFINE n == Cardinality(S)
           f == SetToSeq(S)
<1>1. n \in Nat /\ \E g \in [1 .. n -> S] : IsInjective(g)
  BY FS_CardinalityType DEF ExistsBijection, Bijection, Injection
<1>2. f \in [1 .. n -> S] /\ IsInjective(f)
  BY <1>1 DEF SetToSeq
<1>3. f \in Injection(1 .. n, S)
  BY <1>2 DEF Injection
<1>4. IsFiniteSet(1 .. n) /\ Cardinality(1 .. n) = n
  BY <1>1, FS_Interval
<1> HIDE DEF f, n
<1>5. Cardinality(1 .. n) = Cardinality(S)
  BY <1>4 DEF n
<1>6. f \in Surjection(1 .. n, S)
  BY <1>3, <1>4, <1>5, FS_Injection
<1>7. \A x \in S : \E i \in 1 .. n : f[i] = x
  BY <1>6 DEF Surjection
<1> QED BY <1>2, <1>7 DEF f, n

(* If what capabilities come to together is strict, each of them is complete    *)
(* and has evidence, the same for the same name.                              *)
LEMMA StrictMeansEvidence ==
  ASSUME NEW each, IsSequence(each),
         \A i \in DOMAIN each : IsList(each[i].domains),
         StrictCapable(Combined(each))
  PROVE  Evident({each[i] : i \in DOMAIN each})
<1> DEFINE n == Len(each)
           D == UNION {ToSet(each[i].domains) : i \in DOMAIN each}
           seqs == [i \in DOMAIN each |-> each[i].domains]
           all == FlattenSeq(seqs)
           merged == FoldLeft(Merge, <<>>, all)
           names == SetToSeq(DOMAIN merged)
           listed == [i \in DOMAIN names |-> [name |-> names[i], evidence |-> merged[names[i]]]]
<1>1. n \in Nat /\ DOMAIN each = 1 .. n
  BY DEF IsSequence
<1>2. seqs \in Seq(Seq(D)) /\ Len(seqs) = n /\ DOMAIN seqs = 1 .. n
  <2>1. ASSUME NEW i \in 1 .. n PROVE each[i].domains \in Seq(D)
    <3>1. IsList(each[i].domains)
      BY <1>1
    <3>2. \A j \in DOMAIN each[i].domains : each[i].domains[j] \in D
      BY <1>1 DEF ToSet
    <3> HIDE DEF D
    <3> QED BY <3>1, <3>2 DEF IsList, IsSequence
  <2> HIDE DEF D
  <2> QED BY <1>1, <2>1
<1> HIDE DEF D
<1>3. Combined(each) = [domains |-> listed, complete |-> \A i \in DOMAIN each : StrictCapable(each[i])]
  BY Zenon DEF Combined
<1>4. /\ \A i \in DOMAIN each : StrictCapable(each[i])
      /\ listed # <<>>
      /\ \A i \in DOMAIN listed : Supports(listed[i].evidence)
  <2>1. Combined(each).domains = listed
    BY <1>3
  <2>2. Combined(each).complete = \A i \in DOMAIN each : StrictCapable(each[i])
    BY <1>3
  <2>3. /\ Combined(each).complete /\ Combined(each).domains # <<>>
        /\ \A i \in DOMAIN Combined(each).domains : Supports(Combined(each).domains[i].evidence)
    BY DEF StrictCapable
  <2> HIDE DEF listed
  <2> QED BY <2>1, <2>2, <2>3
<1>5. /\ all \in Seq(D) /\ (n = 0 => all = <<>>)
      /\ \A i \in 1 .. n : \A j \in DOMAIN each[i].domains :
           \E k \in 1 .. Len(all) : all[k] = each[i].domains[j]
  <2>1. \A i \in 1 .. n : seqs[i] = each[i].domains
    BY <1>1
  <2> HIDE DEF seqs, n
  <2>2. /\ all \in Seq(D) /\ (Len(seqs) = 0 => all = <<>>)
        /\ \A i \in DOMAIN seqs : \A j \in DOMAIN seqs[i] :
             \E k \in 1 .. Len(all) : all[k] = seqs[i][j]
    <3>1. seqs \in Seq(Seq(D))
      BY <1>2
    <3>2. FlattenSeq(seqs) \in Seq(D)
      BY <3>1, FlattenHasAll
    <3>3. Len(seqs) = 0 => FlattenSeq(seqs) = <<>>
      BY <3>1, FlattenHasAll
    <3>4. \A i \in DOMAIN seqs : \A j \in DOMAIN seqs[i] :
            \E k \in 1 .. Len(FlattenSeq(seqs)) : FlattenSeq(seqs)[k] = seqs[i][j]
      BY <3>1, FlattenHasAll
    <3> QED BY <3>2, <3>3, <3>4
  <2> HIDE DEF all
  <2>3. ASSUME NEW i \in 1 .. n, NEW j \in DOMAIN each[i].domains
        PROVE  \E k \in 1 .. Len(all) : all[k] = each[i].domains[j]
    <3>1. seqs[i] = each[i].domains
      BY <2>1
    <3>2. i \in DOMAIN seqs
      BY <1>2
    <3>3. j \in DOMAIN seqs[i]
      BY <3>1
    <3> QED BY <2>2, <3>1, <3>2, <3>3, Zenon
  <2> QED BY <1>2, <2>2, <2>3
<1> HIDE DEF all
<1>6. IsSequence(all) /\ Len(all) \in Nat
  BY <1>5 DEF IsSequence
<1>7. PICK F : Merging(F, all) /\ merged = F[Len(all)]
  BY <1>6, FoldUnfolds
<1> HIDE DEF merged
<1>8. /\ DOMAIN merged = {all[k].name : k \in 1 .. Len(all)}
      /\ \A k \in 1 .. Len(all) : merged[all[k].name] \in {all[k].evidence, "unsupported"}
  BY <1>5, <1>7, MergedIsCommon
<1>9. IsFiniteSet(DOMAIN merged)
  <2> DEFINE f == [k \in 1 .. Len(all) |-> all[k].name]
  <2>1. f \in [1 .. Len(all) -> DOMAIN merged] /\ \A x \in DOMAIN merged : \E k \in 1 .. Len(all) : f[k] = x
    BY <1>8
  <2> HIDE DEF f
  <2> QED BY <1>6, <2>1, ElementsOfList
<1>10. /\ DOMAIN names = 1 .. Cardinality(DOMAIN merged)
       /\ \A x \in DOMAIN merged : \E i \in DOMAIN names : names[i] = x
  BY <1>9, SetIsListed
<1> HIDE DEF names
<1>11. ASSUME NEW x \in DOMAIN merged
       PROVE  Supports(merged[x])
  <2>1. PICK i \in DOMAIN names : names[i] = x
    BY <1>10
  <2>2. listed[i].evidence = merged[x] /\ i \in DOMAIN listed
    BY <2>1
  <2> QED BY <1>4, <2>2
<1>12. ASSUME NEW i \in DOMAIN each, NEW j \in DOMAIN each[i].domains
       PROVE  /\ Supports(each[i].domains[j].evidence)
              /\ merged[each[i].domains[j].name] = each[i].domains[j].evidence
  <2>1. StrictCapable(each[i])
    BY <1>4
  <2>2. Supports(each[i].domains[j].evidence)
    BY <2>1 DEF StrictCapable
  <2>3. PICK k \in 1 .. Len(all) : all[k] = each[i].domains[j]
    BY <1>1, <1>5, <1>12
  <2>4. all[k].name \in DOMAIN merged /\ merged[all[k].name] \in {all[k].evidence, "unsupported"}
    BY <1>8
  <2>5. merged[all[k].name] # "unsupported"
    BY <1>11, <2>4, RegistryAssumption DEF Supports
  <2> QED BY <2>2, <2>3, <2>4, <2>5
<1> DEFINE declared == {each[i] : i \in DOMAIN each}
           domains == UNION {ToSet(c.domains) : c \in declared}
<1>13. \A c \in declared : c.complete
  BY <1>4 DEF StrictCapable
<1>14. \A d \in domains : Supports(d.evidence) /\ merged[d.name] = d.evidence
  <2> SUFFICES ASSUME NEW d \in domains PROVE Supports(d.evidence) /\ merged[d.name] = d.evidence
    OBVIOUS
  <2>1. PICK c \in declared : d \in ToSet(c.domains)
    OBVIOUS
  <2>2. PICK i \in DOMAIN each : c = each[i]
    BY <2>1
  <2>3. PICK j \in DOMAIN c.domains : d = c.domains[j]
    BY <2>1 DEF ToSet
  <2> QED BY <1>12, <2>2, <2>3
<1>15. domains # {}
  <2>1. ASSUME DOMAIN names = {} PROVE FALSE
    <3>1. DOMAIN listed = {}
      BY <2>1
    <3>2. listed \in [1 .. 0 -> {}]
      BY <2>1
    <3> HIDE DEF listed
    <3>3. listed \in Seq({}) /\ Len(listed) = 0
      BY <3>2
    <3>4. listed = <<>>
      BY <3>3
    <3> QED BY <1>4, <3>4
  <2>2. PICK k \in 1 .. Len(all) : TRUE
    <3>1. DOMAIN merged # {}
      <4>1. CASE DOMAIN merged = {}
        <5>1. Cardinality(DOMAIN merged) = 0
          BY <4>1, FS_EmptySet
        <5>2. DOMAIN names = {}
          BY <1>10, <5>1
        <5> QED BY <2>1, <5>2
      <4> QED BY <4>1
    <3> QED BY <1>8, <3>1
  <2>3. n # 0
    BY <1>5, <2>2
  <2>4. 1 \in DOMAIN each
    BY <1>1, <2>3
  <2>5. each[1].domains # <<>> /\ each[1].domains \in Seq(D)
    <3>1. seqs[1] = each[1].domains /\ seqs[1] \in Seq(D)
      BY <1>1, <1>2, <2>4
    <3> HIDE DEF seqs
    <3> QED BY <1>4, <2>4, <3>1 DEF StrictCapable
  <2>6. each[1].domains[1] \in ToSet(each[1].domains)
    BY <2>5 DEF ToSet
  <2> QED BY <2>4, <2>6
<1> HIDE DEF declared, domains
<1>16. Evident(declared) <=> /\ \A c \in declared : c.complete
                             /\ domains # {}
                             /\ \A d, e \in domains : Supports(d.evidence) /\ (d.name = e.name => d.evidence = e.evidence)
  BY Zenon DEF Evident, domains
<1>17. \A d, e \in domains : Supports(d.evidence) /\ (d.name = e.name => d.evidence = e.evidence)
  BY <1>14
<1>18. Evident(declared)
  BY <1>13, <1>15, <1>16, <1>17
<1> QED BY <1>18 DEF declared

------------------------------------------------------------------------------
(* Strict builds. *)

(* A build that goes on and is strict found evidence, and what it was found in   *)
(* is borrowed.                                                              *)
StrictBuilds ==
  \A b \in Builders : Holds(b) /\ building[b].strict =>
    StrictCapable(AllocationCapability(building[b].registry, building[b].units))

(* Registering changes no registry that is borrowed.                          *)
LEMMA BorrowedStays ==
  ASSUME RegistryInvariant, Registration, NEW b \in Builders, Holds(b)
  PROVE  registrations'[building[b].registry] = registrations[building[b].registry]
<1>1. PICK c \in Calls :
        /\ ~Borrowed(c.registry)
        /\ Register(c) \/ SetAllocationCapability(c) \/ RegisterFactory(c) \/ RegisterExecutor(c)
  BY DEF Registration
<1>2. building[b].registry # c.registry
  BY <1>1 DEF Borrowed, Holds
<1>3. building[b].registry \in Registries
  BY DEF RegistryInvariant, BuildsFit, KnownTo
<1>4. \A r \in Registries \ {c.registry} : registrations'[r] = registrations[r]
  <2>1. registrations = [r \in Registries |-> registrations[r]]
    BY DEF RegistryInvariant, RegistrationsFit
  <2>2. CASE Register(c)
    <3>1. \E new : registrations' = [registrations EXCEPT ![c.registry] = new]
      BY <2>2 DEF Register
    <3> QED BY <2>1, <3>1
  <2>3. CASE SetAllocationCapability(c)
    <3>1. \E new : registrations' = [registrations EXCEPT ![c.registry] = new]
      BY <2>3 DEF SetAllocationCapability
    <3> QED BY <2>1, <3>1
  <2>4. CASE RegisterFactory(c)
    <3>1. \E new : registrations' = [registrations EXCEPT ![c.registry] = new]
      BY <2>4 DEF RegisterFactory
    <3> QED BY <2>1, <3>1
  <2>5. CASE RegisterExecutor(c)
    <3>1. \E new : registrations' = [registrations EXCEPT ![c.registry] = new]
      BY <2>5 DEF RegisterExecutor
    <3> QED BY <2>1, <3>1
  <2> QED BY <1>1, <2>2, <2>3, <2>4, <2>5
<1> QED BY <1>2, <1>3, <1>4

LEMMA StepKeepsStrict ==
  ASSUME RegistryInvariant, StrictBuilds, [RegistryNext]_registryVars
  PROVE  StrictBuilds'
<1>1. ASSUME Registration PROVE StrictBuilds'
  <2>1. building' = building
    BY <1>1 DEF Registration
  <2>2. ASSUME NEW b \in Builders, Holds(b), building[b].strict
        PROVE  StrictCapable(AllocationCapability(building[b].registry, building[b].units)')
    <3>1. registrations'[building[b].registry] = registrations[building[b].registry]
      BY <1>1, <2>2, BorrowedStays
    <3> DEFINE r == building[b].registry
               units == building[b].units
    <3>2. Capabilities(r, units)' = Capabilities(r, units)
      BY <2>1, <3>1 DEF Capabilities
    <3>3. AllocationCapability(r, units)' = AllocationCapability(r, units)
      BY <3>2 DEF AllocationCapability
    <3> QED BY <2>2, <3>3 DEF StrictBuilds
  <2> QED BY <2>1, <2>2 DEF StrictBuilds, Holds
<1>2. ASSUME UNCHANGED <<registrations, building>> PROVE StrictBuilds'
  <2>1. \A r, units : Capabilities(r, units)' = Capabilities(r, units)
    BY <1>2 DEF Capabilities
  <2> QED BY <1>2, <2>1 DEF StrictBuilds, Holds, AllocationCapability
<1>3. ASSUME NEW r \in Registries, Load(r) PROVE StrictBuilds'
  BY <1>2, <1>3 DEF Load
<1>4. ASSUME NEW b \in Builders, NEW r \in Registries, NEW strict \in BOOLEAN, Begin(b, r, strict)
      PROVE  StrictBuilds'
  <2>1. registrations' = registrations
    BY <1>4 DEF Begin
  <2>2. CASE building' = building
    BY <1>2, <2>1, <2>2, SMTT(30)
  <2>3. CASE /\ strict => StrictCapable(AllocationCapability(r, definition.units))
             /\ building' = [building EXCEPT ![b] =
                  [number |-> begun, registry |-> r, strict |-> strict, token |-> nextToken,
                   units |-> definition.units, configurations |-> definition.configurations]]
    <3>1. /\ \A c \in Builders \ {b} : building'[c] = building[c]
          /\ building'[b].registry = r /\ building'[b].units = definition.units
          /\ building'[b].strict = strict
      BY <2>3 DEF RegistryInvariant, BuildsFit
    <3>2. \A q, units : Capabilities(q, units)' = [i \in DOMAIN units |-> registrations[q][units[i].type].capability]
      BY <2>1 DEF Capabilities
    <3>3. ASSUME NEW c \in Builders, Holds(c)', building'[c].strict
          PROVE  StrictCapable(Combined(Capabilities(building'[c].registry, building'[c].units)))
      <4>1. CASE c = b
        BY <2>3, <3>1, <3>3, <4>1 DEF AllocationCapability
      <4>2. CASE c # b
        BY <3>1, <3>3, <4>2, SMTT(30) DEF StrictBuilds, AllocationCapability, Holds
      <4> QED BY <4>1, <4>2
    <3> QED BY <2>1, <3>3 DEF StrictBuilds, AllocationCapability, Capabilities
  <2> QED BY <1>4, <2>2, <2>3 DEF Begin
<1>5. ASSUME NEW b \in Builders, Assemble(b) PROVE StrictBuilds'
  <2>1. /\ registrations' = registrations
        /\ \A c \in Builders : Holds(c)' => Holds(c) /\ building'[c] = building[c]
    BY <1>5 DEF Assemble, RegistryInvariant, BuildsFit, Holds
  <2>2. ASSUME NEW c \in Builders, Holds(c)', building'[c].strict
        PROVE  StrictCapable(Combined(Capabilities(building'[c].registry, building'[c].units)))
    BY <2>1, <2>2 DEF StrictBuilds, AllocationCapability
  <2> QED BY <2>1, <2>2 DEF StrictBuilds, AllocationCapability, Capabilities
<1>6. ASSUME UNCHANGED registryVars PROVE StrictBuilds'
  BY <1>2, <1>6 DEF registryVars
<1> QED BY <1>1, <1>3, <1>4, <1>5, <1>6 DEF RegistryNext

(* A Module with the strict guarantee has evidence (StrictOnEvidence): its        *)
(* registry was borrowed from the check until the Module was there, and a name    *)
(* with different evidence comes out of merging unsupported.                    *)
THEOREM StrictRestsOnEvidence == RegistrySpec => StrictOnEvidence
<1>1. ASSUME RegistryInvariant, StrictBuilds, RegistryNext, NEW m \in modules' \ modules, m.strict
      PROVE  Evident({registrations[m.registry][m.units[i].type].capability : i \in DOMAIN m.units})
  <2>1. PICK b \in Builders : Assemble(b)
    BY <1>1 DEF RegistryNext, Registration, Load, Begin
  <2>2. m = building[b] /\ Holds(b)
    BY <1>1, <2>1 DEF Assemble, Holds
  <2>3. StrictCapable(AllocationCapability(m.registry, m.units))
    BY <1>1, <2>2 DEF StrictBuilds
  <2>4. KnownTo(m.registry, m.units) /\ Sequenced(m.units)
    BY <1>1, <2>2 DEF RegistryInvariant, BuildsFit
  <2> DEFINE each == Capabilities(m.registry, m.units)
  <2>5. /\ DOMAIN each = DOMAIN m.units
        /\ each = [i \in DOMAIN m.units |-> each[i]]
        /\ \A i \in DOMAIN m.units :
             each[i] = registrations[m.registry][m.units[i].type].capability
    BY DEF Capabilities
  <2>6. \A i \in DOMAIN m.units : IsList(each[i].domains)
    <3> SUFFICES ASSUME NEW i \in DOMAIN m.units PROVE IsList(each[i].domains)
      OBVIOUS
    <3>1. IsRegistration(registrations[m.registry][m.units[i].type])
      BY <1>1, <2>4 DEF KnownTo, RegistryInvariant, RegistrationsFit
    <3> QED BY <2>5, <3>1 DEF IsRegistration
  <2>7. IsSequence(each)
    BY <2>4, <2>5 DEF Sequenced, IsSequence
  <2>8. StrictCapable(Combined(each))
    BY <2>3 DEF AllocationCapability
  <2> HIDE DEF each
  <2>9. Evident({each[i] : i \in DOMAIN each})
    BY <2>5, <2>6, <2>7, <2>8, StrictMeansEvidence
  <2>10. {each[i] : i \in DOMAIN each}
           = {registrations[m.registry][m.units[i].type].capability : i \in DOMAIN m.units}
    <3> DEFINE cap(i) == registrations[m.registry][m.units[i].type].capability
    <3>1. DOMAIN each = DOMAIN m.units /\ \A i \in DOMAIN each : each[i] = cap(i)
      BY <2>5
    <3> HIDE DEF cap
    <3>2. {each[i] : i \in DOMAIN each} = {cap(i) : i \in DOMAIN m.units}
      BY <3>1
    <3> QED BY <3>2 DEF cap
  <2> QED BY <2>9, <2>10
<1>2. RegistryInvariant /\ StrictBuilds /\ [RegistryNext]_registryVars =>
        [\A m \in modules' \ modules :
           m.strict =>
             Evident({registrations[m.registry][m.units[i].type].capability : i \in DOMAIN m.units})]_registryVars
  BY <1>1
<1>3. RegistryInit => StrictBuilds
  BY DEF RegistryInit, StrictBuilds, Holds
<1> QED
  BY <1>2, <1>3, InitFits, StepFits, StepKeepsStrict, PTL DEF RegistrySpec, StrictOnEvidence

------------------------------------------------------------------------------
(* The prepared inputs.                                                        *)

(* The sequences a caller makes.                                               *)
Listed(s) ==
  /\ Len(s) \in Nat /\ DOMAIN s = 1 .. Len(s)
  /\ \A i \in DOMAIN s : s[i].resource \in Nat

(* A plan has one spec of each of finitely many names.                          *)
PlanFits ==
  /\ IsFiniteSet(DOMAIN inputs)
  /\ \A r \in DOMAIN inputs :
       r \in Nat /\ inputs[r].resource = r /\ inputs[r].maximum \in Nat

(* What one call answers, by the plan it is checked against.                    *)
FitsOf(plan, s) == {r \in DOMAIN plan : \E i \in DOMAIN s : Fitting(plan[r], s[i])}
AnswersExactly(plan, s, v) ==
  LET named == {i \in DOMAIN s : s[i].resource = v.resource}
  IN  /\ v.kind = "Ok" <=> FitsOf(plan, s) = DOMAIN plan /\ Len(s) = Cardinality(FitsOf(plan, s))
      /\ v.kind = "Duplicate" => Cardinality(named) > 1
      /\ v.kind = "Unknown" => named # {} /\ v.resource \notin DOMAIN plan
      /\ v.kind = "Missing" => named = {} /\ v.resource \in DOMAIN plan
      /\ v.kind \notin {"Ok", "Duplicate", "Unknown"} =>
           /\ v.resource \notin FitsOf(plan, s)
           /\ {r \in DOMAIN plan : r < v.resource} \subseteq FitsOf(plan, s)

NamesIn(s) == {s[i].resource : i \in DOMAIN s}
InputOf(s, r) == s[CHOOSE i \in DOMAIN s : s[i].resource = r]
FaultOf(s, r) == IF r \notin NamesIn(s) THEN "Missing" ELSE Mismatch(inputs[r], InputOf(s, r))
Unprepared(s) == NamesIn(s) \ DOMAIN inputs
Faulty(s) == {r \in DOMAIN inputs : FaultOf(s, r) # "Ok"}

LEMMA VerdictUnfolds ==
  ASSUME NEW s
  PROVE  Verdict(s) = IF Repeats(s) # {} THEN Refuse("Duplicate", FirstRepeat(s))
                      ELSE IF Unprepared(s) # {} THEN Refuse("Unknown", Min(Unprepared(s)))
                      ELSE IF Faulty(s) # {} THEN Refuse(FaultOf(s, Min(Faulty(s))), Min(Faulty(s)))
                      ELSE Ok
BY Zenon DEF Verdict, NamesIn, InputOf, FaultOf, Unprepared, Faulty

(* How many names are given: as many as inputs, if none repeats.                *)
LEMMA GivenCounted ==
  ASSUME NEW s, Listed(s)
  PROVE  /\ NamesIn(s) \subseteq Nat
         /\ IsFiniteSet(NamesIn(s))
         /\ Cardinality(NamesIn(s)) <= Len(s)
         /\ Cardinality(NamesIn(s)) = Len(s) <=> Repeats(s) = {}
<1> DEFINE n == Len(s)
           f == [i \in 1 .. n |-> s[i].resource]
<1>1. n \in Nat /\ DOMAIN s = 1 .. n /\ \A i \in 1 .. n : f[i] = s[i].resource /\ f[i] \in Nat
  BY DEF Listed
<1>2. NamesIn(s) = {f[i] : i \in 1 .. n}
  BY <1>1 DEF NamesIn
<1>3. f \in Surjection(1 .. n, NamesIn(s))
  BY <1>1, <1>2 DEF Surjection
<1> HIDE DEF f, n
<1>4. IsFiniteSet(1 .. n) /\ Cardinality(1 .. n) = n
  <2>1. 1 \in Int /\ n \in Int /\ n - 1 + 1 = n /\ (n < 1 => n = 0)
    BY <1>1
  <2>2. IsFiniteSet(1 .. n) /\ Cardinality(1 .. n) = IF 1 > n THEN 0 ELSE n - 1 + 1
    BY <2>1, FS_Interval, Zenon
  <2> QED BY <2>1, <2>2
<1>5. /\ IsFiniteSet(NamesIn(s))
      /\ Cardinality(NamesIn(s)) <= n
      /\ Cardinality(NamesIn(s)) = n <=> f \in Injection(1 .. n, NamesIn(s))
  BY <1>3, <1>4, FS_Surjection
<1>6. f \in Injection(1 .. n, NamesIn(s)) <=> \A i, j \in 1 .. n : f[i] = f[j] => i = j
  BY <1>3 DEF Injection, Surjection, IsInjective
<1>7. (\A i, j \in 1 .. n : f[i] = f[j] => i = j) <=> Repeats(s) = {}
  <2>1. ASSUME \A i, j \in 1 .. n : f[i] = f[j] => i = j, NEW i \in Repeats(s)
        PROVE  FALSE
    <3>1. PICK j \in 1 .. i - 1 : s[j].resource = s[i].resource
      BY DEF Repeats
    <3>2. i \in 1 .. n /\ j \in 1 .. n /\ j # i
      BY <1>1, <3>1 DEF Repeats
    <3> QED BY <1>1, <2>1, <3>1, <3>2
  <2>2. ASSUME Repeats(s) = {}, NEW i \in 1 .. n, NEW j \in 1 .. n, f[i] = f[j], i # j
        PROVE  FALSE
    <3>1. CASE j < i
      <4>1. j \in 1 .. i - 1 /\ s[j].resource = s[i].resource
        BY <1>1, <2>2, <3>1
      <4> QED BY <1>1, <2>2, <4>1 DEF Repeats
    <3>2. CASE i < j
      <4>1. i \in 1 .. j - 1 /\ s[i].resource = s[j].resource
        BY <1>1, <2>2, <3>2
      <4> QED BY <1>1, <2>2, <4>1 DEF Repeats
    <3> QED BY <1>1, <2>2, <3>1, <3>2
  <2> QED BY <2>1, <2>2
<1>8. NamesIn(s) \subseteq Nat
  BY <1>1, <1>2
<1> QED BY <1>5, <1>6, <1>7, <1>8 DEF n

(* Without repeats an input is found by its name, and has no fault if it fits.     *)
LEMMA FaultlessFits ==
  ASSUME PlanFits, NEW s, Listed(s), \A i \in DOMAIN s : s[i].capacity \in Nat,
         Repeats(s) = {}, NEW r \in DOMAIN inputs
  PROVE  FaultOf(s, r) = "Ok" <=> r \in FitsOf(inputs, s)
<1>1. /\ r \in Nat /\ inputs[r].resource = r /\ inputs[r].maximum \in Nat
      /\ Len(s) \in Nat /\ DOMAIN s = 1 .. Len(s)
  BY DEF PlanFits, Listed
<1>2. ASSUME NEW i \in DOMAIN s, s[i].resource = r
      PROVE  InputOf(s, r) = s[i]
  <2> DEFINE k == CHOOSE j \in DOMAIN s : s[j].resource = r
  <2>1. k \in DOMAIN s /\ s[k].resource = r
    BY <1>2
  <2>2. k = i
    <3> HIDE DEF k
    <3>1. CASE k < i
      <4>1. k \in 1 .. i - 1
        BY <1>1, <2>1, <3>1
      <4> QED BY <1>2, <2>1, <4>1 DEF Repeats
    <3>2. CASE i < k
      <4>1. i \in 1 .. k - 1
        BY <1>1, <2>1, <3>2
      <4> QED BY <1>2, <2>1, <4>1 DEF Repeats
    <3> QED BY <1>1, <2>1, <3>1, <3>2
  <2> QED BY <2>2 DEF InputOf
<1>3. CASE r \in NamesIn(s)
  <2>1. PICK i \in DOMAIN s : s[i].resource = r
    BY <1>3 DEF NamesIn
  <2>2. InputOf(s, r) = s[i] /\ s[i].capacity \in Nat
    BY <1>2, <2>1
  <2>3. FaultOf(s, r) = Mismatch(inputs[r], s[i])
    BY <1>3, <2>2 DEF FaultOf
  <2>4. Mismatch(inputs[r], s[i]) = "Ok" <=> Fitting(inputs[r], s[i])
    BY <1>1, <2>1, <2>2 DEF Mismatch, Fitting
  <2>5. \A j \in DOMAIN s : Fitting(inputs[r], s[j]) => Fitting(inputs[r], s[i])
    <3> SUFFICES ASSUME NEW j \in DOMAIN s, Fitting(inputs[r], s[j])
                 PROVE  Fitting(inputs[r], s[i])
      OBVIOUS
    <3>1. s[j].resource = r
      BY <1>1 DEF Fitting
    <3>2. s[j] = s[i]
      BY <1>2, <2>2, <3>1
    <3> QED BY <3>2
  <2> QED BY <2>3, <2>4, <2>5 DEF FitsOf
<1>4. CASE r \notin NamesIn(s)
  <2>1. FaultOf(s, r) # "Ok"
    BY <1>4 DEF FaultOf
  <2>2. r \notin FitsOf(inputs, s)
    BY <1>1, <1>4 DEF FitsOf, Fitting, NamesIn
  <2> QED BY <2>1, <2>2
<1> QED BY <1>3, <1>4

LEMMA FaultNames ==
  ASSUME NEW s, NEW r
  PROVE  FaultOf(s, r) \in {"Ok", "Missing", "SemanticType", "ConcreteType", "Capacity", "PreparedPlan"}
BY DEF FaultOf, Mismatch

LEMMA FittingAreGiven ==
  ASSUME PlanFits, NEW s
  PROVE  FitsOf(inputs, s) \subseteq NamesIn(s)
<1> SUFFICES ASSUME NEW r \in FitsOf(inputs, s) PROVE r \in NamesIn(s)
  OBVIOUS
<1>1. PICK i \in DOMAIN s : Fitting(inputs[r], s[i])
  BY DEF FitsOf
<1>2. s[i].resource = r
  BY <1>1 DEF Fitting, PlanFits, FitsOf
<1> QED BY <1>2 DEF NamesIn

LEMMA VerdictIsExact ==
  ASSUME PlanFits, NEW s, Listed(s), \A i \in DOMAIN s : s[i].capacity \in Nat
  PROVE  AnswersExactly(inputs, s, Verdict(s))
<1> DEFINE v == Verdict(s)
           named == {i \in DOMAIN s : s[i].resource = v.resource}
           D == DOMAIN inputs
<1>1. /\ NamesIn(s) \subseteq Nat /\ IsFiniteSet(NamesIn(s)) /\ Cardinality(NamesIn(s)) <= Len(s)
      /\ Cardinality(NamesIn(s)) = Len(s) <=> Repeats(s) = {}
      /\ Len(s) \in Nat /\ DOMAIN s = 1 .. Len(s) /\ D \subseteq Nat /\ IsFiniteSet(D)
  BY GivenCounted DEF Listed, PlanFits
<1>2. FitsOf(inputs, s) \subseteq NamesIn(s) /\ FitsOf(inputs, s) \subseteq D
  BY FittingAreGiven DEF FitsOf
<1>3. ASSUME FitsOf(inputs, s) = D, Len(s) = Cardinality(D)
      PROVE  Repeats(s) = {} /\ NamesIn(s) = D
  <2>1. Cardinality(D) <= Cardinality(NamesIn(s)) /\ (Cardinality(D) = Cardinality(NamesIn(s)) => D = NamesIn(s))
    BY <1>1, <1>2, <1>3, FS_Subset
  <2>2. Cardinality(D) \in Nat /\ Cardinality(NamesIn(s)) \in Nat
    BY <1>1, FS_CardinalityType
  <2> QED BY <1>1, <1>3, <2>1, <2>2
<1>4. CASE Repeats(s) # {}
  <2>1. v = Refuse("Duplicate", FirstRepeat(s))
    BY <1>4, VerdictUnfolds
  <2>2. v.kind = "Duplicate" /\ v.resource = FirstRepeat(s)
    BY <2>1 DEF Refuse
  <2> DEFINE i == Min(Repeats(s))
  <2>3. i \in Repeats(s)
    <3>1. Repeats(s) \subseteq Nat
      BY <1>1 DEF Repeats
    <3> QED BY <1>4, <3>1, MinOfNaturals
  <2>4. v.resource = s[i].resource
    BY <2>2 DEF FirstRepeat
  <2>5. PICK j \in 1 .. i - 1 : s[j].resource = s[i].resource
    BY <2>3 DEF Repeats
  <2>6. i \in 1 .. Len(s)
    BY <1>1, <2>3 DEF Repeats
  <2> HIDE DEF i, v
  <2>7. {j, i} \subseteq named /\ j # i
    BY <1>1, <2>4, <2>5, <2>6
  <2>8. IsFiniteSet(named)
    <3>1. IsFiniteSet(1 .. Len(s)) /\ named \subseteq 1 .. Len(s)
      BY <1>1, FS_Interval
    <3> QED BY <3>1, FS_Subset
  <2>9. Cardinality({j, i}) = 2 /\ Cardinality({j, i}) <= Cardinality(named)
    <3>1. IsFiniteSet({j}) /\ Cardinality({j}) = 1
      BY FS_Singleton
    <3>2. Cardinality({j, i}) = 2
      <4>1. {j, i} = {j} \cup {i} /\ i \notin {j}
        BY <2>7
      <4>2. Cardinality({j} \cup {i}) = Cardinality({j}) + 1
        BY <3>1, <4>1, FS_AddElement
      <4> QED BY <3>1, <4>1, <4>2
    <3>3. Cardinality({j, i}) <= Cardinality(named)
      BY <2>7, <2>8, FS_Subset
    <3> QED BY <3>2, <3>3
  <2>10. Cardinality(named) > 1
    <3>1. Cardinality(named) \in Nat
      BY <2>8, FS_CardinalityType
    <3> QED BY <2>9, <3>1
  <2>11. ~ (FitsOf(inputs, s) = D /\ Len(s) = Cardinality(FitsOf(inputs, s)))
    BY <1>3, <1>4
  <2>12. AnswersExactly(inputs, s, v)
    BY <2>2, <2>10, <2>11 DEF AnswersExactly
  <2> QED BY <2>12 DEF v
<1>5. CASE Repeats(s) = {} /\ Unprepared(s) # {}
  <2>1. v = Refuse("Unknown", Min(Unprepared(s)))
    BY <1>5, VerdictUnfolds
  <2>2. v.kind = "Unknown" /\ v.resource = Min(Unprepared(s))
    BY <2>1 DEF Refuse
  <2>3. v.resource \in Unprepared(s)
    BY <1>1, <1>5, <2>2, MinOfNaturals DEF Unprepared
  <2> HIDE DEF v
  <2>4. named # {} /\ v.resource \notin D
    BY <2>3 DEF Unprepared, NamesIn
  <2>5. ~ (FitsOf(inputs, s) = D /\ Len(s) = Cardinality(FitsOf(inputs, s)))
    BY <1>3, <2>3 DEF Unprepared
  <2>6. AnswersExactly(inputs, s, v)
    BY <2>2, <2>4, <2>5 DEF AnswersExactly
  <2> QED BY <2>6 DEF v
<1>6. CASE Repeats(s) = {} /\ Unprepared(s) = {} /\ Faulty(s) # {}
  <2> DEFINE r == Min(Faulty(s))
  <2>1. v = Refuse(FaultOf(s, r), r)
    BY <1>6, VerdictUnfolds
  <2>2. v.kind = FaultOf(s, r) /\ v.resource = r
    BY <2>1 DEF Refuse
  <2>3. r \in Faulty(s) /\ \A q \in Faulty(s) : r <= q
    BY <1>1, <1>6, MinOfNaturals DEF Faulty
  <2> HIDE DEF v, r
  <2>4. r \in D /\ FaultOf(s, r) # "Ok" /\ r \notin FitsOf(inputs, s)
    BY <1>6, <2>3, FaultlessFits DEF Faulty
  <2>5. ASSUME NEW q \in D, q < r
        PROVE  q \in FitsOf(inputs, s)
    <3>1. q \notin Faulty(s)
      BY <1>1, <2>3, <2>4, <2>5
    <3> QED BY <1>6, <3>1, FaultlessFits DEF Faulty
  <2>6. v.kind = "Missing" => named = {}
    <3> HAVE v.kind = "Missing"
    <3>1. r \notin NamesIn(s)
      BY <2>2 DEF FaultOf, Mismatch
    <3> QED BY <2>2, <3>1 DEF NamesIn
  <2>7. v.kind \notin {"Ok", "Duplicate", "Unknown"}
    BY <2>2, <2>4, FaultNames
  <2>8. AnswersExactly(inputs, s, v)
    BY <2>2, <2>4, <2>5, <2>6, <2>7 DEF AnswersExactly
  <2> QED BY <2>8 DEF v
<1>7. CASE Repeats(s) = {} /\ Unprepared(s) = {} /\ Faulty(s) = {}
  <2>1. v = Ok
    BY <1>7, VerdictUnfolds
  <2>2. v.kind = "Ok"
    BY <2>1 DEF Ok, Refuse
  <2>3. FitsOf(inputs, s) = D
    BY <1>2, <1>7, FaultlessFits DEF Faulty
  <2>4. NamesIn(s) = D
    BY <1>2, <1>7, <2>3 DEF Unprepared
  <2>5. Len(s) = Cardinality(FitsOf(inputs, s))
    BY <1>1, <1>7, <2>3, <2>4
  <2> HIDE DEF v
  <2>6. AnswersExactly(inputs, s, v)
    BY <2>2, <2>3, <2>5 DEF AnswersExactly
  <2> QED BY <2>6 DEF v
<1> QED BY <1>4, <1>5, <1>6, <1>7

LEMMA NewMakesAPlan ==
  ASSUME PlanFits, New
  PROVE  PlanFits'
<1>1. PICK plan \in Plans :
        \/ inputs' = inputs
        \/ inputs' = [r \in {plan[i].resource : i \in DOMAIN plan} |->
                        plan[CHOOSE i \in DOMAIN plan : plan[i].resource = r]]
  BY DEF New
<1>2. CASE inputs' = inputs
  BY <1>2 DEF PlanFits
<1>3. CASE inputs' = [r \in {plan[i].resource : i \in DOMAIN plan} |->
                        plan[CHOOSE i \in DOMAIN plan : plan[i].resource = r]]
  <2>1. Listed(plan) /\ \A i \in DOMAIN plan : plan[i].maximum \in Nat
    BY InputsAssumption DEF Listed
  <2>2. DOMAIN inputs' = NamesIn(plan) /\ IsFiniteSet(NamesIn(plan))
    BY <1>3, <2>1, GivenCounted DEF NamesIn
  <2>3. ASSUME NEW r \in NamesIn(plan)
        PROVE  r \in Nat /\ inputs'[r].resource = r /\ inputs'[r].maximum \in Nat
    <3> DEFINE k == CHOOSE i \in DOMAIN plan : plan[i].resource = r
    <3>1. k \in DOMAIN plan /\ plan[k].resource = r
      BY DEF NamesIn
    <3>2. inputs'[r] = plan[k]
      BY <1>3 DEF NamesIn
    <3> HIDE DEF k
    <3> QED BY <2>1, <3>1, <3>2 DEF Listed
  <2> QED BY <2>2, <2>3 DEF PlanFits
<1> QED BY <1>1, <1>2, <1>3

(* Inputs are accepted exactly if they are the prepared ones, and refused for the   *)
(* fault they have (PreparedInputPlan::new and validate).                        *)
THEOREM AlwaysAcceptsExactlyThePrepared == InputsSpec => []AcceptsExactlyThePrepared
<1>1. InputsInit => PlanFits /\ AcceptsExactlyThePrepared
  <2> SUFFICES ASSUME InputsInit PROVE PlanFits /\ AcceptsExactlyThePrepared
    OBVIOUS
  <2>1. DOMAIN inputs = {} /\ verdict.kind = "Planned"
    BY DEF InputsInit, Planned, Refuse
  <2> QED BY <2>1, FS_EmptySet DEF PlanFits, AcceptsExactlyThePrepared
<1>2. PlanFits /\ AcceptsExactlyThePrepared /\ [InputsNext]_inputVars
        => (PlanFits /\ AcceptsExactlyThePrepared)'
  <2> SUFFICES ASSUME PlanFits, AcceptsExactlyThePrepared, [InputsNext]_inputVars
               PROVE  PlanFits' /\ AcceptsExactlyThePrepared'
    OBVIOUS
  <2>1. CASE New
    <3>1. verdict'.kind \in {"Planned", "DuplicatePrepared"}
      BY <2>1 DEF New, Planned, Refuse
    <3> QED BY <2>1, <3>1, NewMakesAPlan DEF AcceptsExactlyThePrepared
  <2>2. CASE Validate
    <3>1. supplied' \in Supplies /\ verdict' = Verdict(supplied') /\ inputs' = inputs
      BY <2>2 DEF Validate
    <3>2. PICK s \in Supplies : s = supplied'
      BY <3>1
    <3>3. AnswersExactly(inputs, s, Verdict(s))
      BY InputsAssumption, VerdictIsExact DEF Listed
    <3>4. AnswersExactly(inputs', supplied', verdict')
      BY <3>1, <3>2, <3>3
    <3>5. AcceptsExactlyThePrepared'
      BY <3>4, Zenon DEF AcceptsExactlyThePrepared, AnswersExactly, FitsOf, Fitting
    <3>6. PlanFits'
      BY <3>1 DEF PlanFits
    <3> QED BY <3>5, <3>6
  <2>3. CASE UNCHANGED inputVars
    BY <2>3, Zenon DEF inputVars, PlanFits, AcceptsExactlyThePrepared, Fitting
  <2> QED BY <2>1, <2>2, <2>3 DEF InputsNext
<1> QED BY <1>1, <1>2, PTL DEF InputsSpec
==============================================================================
