---------------------------- MODULE MCUnitRegistry ----------------------------
(* Two registries of two Unit types, one with which definitions are resolved    *)
(* and one that may register the first Unit type differently.                 *)
EXTENDS UnitRegistry

BuilderSymmetry == Permutations(Builders)

Port(name, type) == [name |-> name, type |-> type, concrete |-> Resources[type]]
Bind(port, resource) == [port |-> port, resource |-> resource]
Domains(complete, domains) == [complete |-> complete, domains |-> domains]
Domain(name, evidence) == [name |-> name, evidence |-> evidence]

MCResources == "scan" :> "Scan" @@ "map" :> "Map"
MCGiven == "i" :> "scan"

RegisterA(r, outputs, configuration) ==
  [op |-> "register", registry |-> r, type |-> "A", inputs |-> <<Port("in", "scan")>>,
   outputs |-> outputs, configuration |-> configuration]
RegisterB(r) ==
  [op |-> "register", registry |-> r, type |-> "B", inputs |-> <<Port("p", "map"), Port("q", "map")>>,
   outputs |-> <<>>, configuration |-> "C1"]
XY == <<Port("x", "map"), Port("y", "map")>>
YX == <<Port("y", "map"), Port("x", "map")>>

FactoryOf(type, configuration, implementation) ==
  [op |-> "factory", registry |-> "back", type |-> type,
   configuration |-> configuration, implementation |-> implementation]
ExecutorOf(type, implementation) ==
  [op |-> "executor", registry |-> "back", type |-> type, implementation |-> implementation]
CapabilityOf(type, capability) ==
  [op |-> "capability", registry |-> "back", type |-> type, capability |-> capability]

MCCalls ==
  {RegisterA("front", XY, "C1"), RegisterB("front"),
   RegisterA("back", XY, "C1"), RegisterA("back", YX, "C1"), RegisterA("back", XY, "C2"), RegisterB("back"),
   FactoryOf("A", "C1", "I1"), FactoryOf("A", "C2", "I1"), FactoryOf("B", "C1", "I2"),
   ExecutorOf("A", "I1"), ExecutorOf("A", "I2"), ExecutorOf("B", "I2"),
   CapabilityOf("A", Domains(TRUE, <<Domain("heap", "vendor")>>)),
   CapabilityOf("B", Domains(TRUE, <<Domain("heap", "audit")>>)),
   CapabilityOf("B", Domains(TRUE, <<Domain("gpu", "instrumented")>>))}

UnitA(outputs) == [id |-> "a", type |-> "A", inputs |-> <<Bind("in", "i")>>, outputs |-> outputs]
UnitB(p, q) == [id |-> "b", type |-> "B", inputs |-> <<Bind("q", q), Bind("p", p)>>, outputs |-> <<>>]

MCSources ==
  {<<UnitA(<<Bind("y", "r2"), Bind("x", "r1")>>), UnitB("r1", "r2")>>,
   <<UnitA(<<Bind("y", "r2"), Bind("x", "r1")>>), UnitB("r1", "i")>>,
   <<UnitA(<<Bind("y", "r2"), Bind("y", "r1")>>), UnitB("r1", "r2")>>}
==============================================================================
