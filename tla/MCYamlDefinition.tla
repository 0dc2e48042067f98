--------------------------- MODULE MCYamlDefinition ---------------------------
(* Definitions of up to two Units, and the same with one element changed.     *)
EXTENDS YamlDefinition, TLC

(* Documents are written as nested nodes and laid out as the parser does, each   *)
(* node at the position of its first event.                                  *)
T(text) == ScalarOf(text)
Pair(key, value) == <<T(key), value>>
Map(pairs) == [kind |-> "mapping", values |-> pairs]
ListOf(items) == [kind |-> "sequence", values |-> items]

RECURSIVE Extent(_), Laid(_, _)
Items(node) == IF node.kind = "mapping" THEN FlattenSeq(node.values) ELSE node.values
Extents(items, n) == FoldSet(LAMBDA i, sum : sum + Extent(items[i]), 0, 1 .. n)
Extent(node) ==
  IF node.kind \in Collections THEN 2 + Extents(Items(node), Len(Items(node))) ELSE 1

Laid(node, at) ==
  IF node.kind \notin Collections THEN {<<at, node>>}
  ELSE LET items == Items(node)
           places == [i \in DOMAIN items |-> at + 1 + Extents(items, i - 1)]
           values == IF node.kind = "mapping"
                       THEN [i \in DOMAIN node.values |-> <<places[2 * i - 1], places[2 * i]>>]
                       ELSE places
       IN  {<<at, [kind |-> node.kind, values |-> values]>>}
           \cup UNION {Laid(items[i], places[i]) : i \in DOMAIN items}

Document(node) ==
  LET laid == Laid(node, 2)
  IN  [root |-> 2, nodes |-> [p \in {l[1] : l \in laid} |-> (CHOOSE l \in laid : l[1] = p)[2]]]

Texts == <<"a", "b", "cfg", "config", "frame", "grid", "in", "inputs", "m", "module", "n", "out",
           "outputs", "plan", "schema", "side", "t/map", "t/none", "t/scan", "type", "units", "v0", "x", "<<">>
MCStrings == ToSet(Texts)
MCRank == [s \in MCStrings |-> CHOOSE i \in DOMAIN Texts : Texts[i] = s]

MCConcreteTypes == "t/scan" :> "Scan" @@ "t/map" :> "Map"
UnitPort(name, type, concrete) == [name |-> name, type |-> type, concrete |-> concrete]

(* Unit type "n" has been compiled with another concrete type for its output.   *)
MCUnitTypes ==
  "m" :> [inputs |-> <<UnitPort("in", "t/scan", "Scan")>>,
          outputs |-> <<UnitPort("side", "t/map", "Map"), UnitPort("out", "t/map", "Map")>>,
          fields |-> {"cfg", "x"}, refused |-> {{"x"}},
          capacities |-> ({} :> <<>> @@ {"cfg"} :> ("out" :> 4) @@ {"cfg", "x"} :> ("out" :> 5 @@ "side" :> 6))]
  @@
  "n" :> [inputs |-> <<UnitPort("in", "t/map", "Map")>>, outputs |-> <<UnitPort("out", "t/map", "Grid")>>,
          fields |-> {}, refused |-> {}, capacities |-> ({} :> <<>>)]
  @@
  "t/map" :> [inputs |-> <<UnitPort("in", "t/map", "Map")>>, outputs |-> <<>>,
          fields |-> {}, refused |-> {}, capacities |-> ({} :> <<>>)]

Host == {<<>>, "grid" :> 2, "frame" :> 1 @@ "grid" :> 2 @@ "plan" :> 3}
Adapters == {<<>>, "t/scan" :> 7, "t/scan" :> 7 @@ "t/map" :> 8}
MCBounds == {[host |-> h, adapters |-> a] : h \in Host, a \in Adapters}

ModuleInputs(type) == Map(<<Pair("frame", Map(<<Pair("type", T(type))>>))>>)
Binding(port, resource) == Pair(port, T(resource))
FirstOutputs == {<<Binding("out", "grid"), Binding("side", "plan")>>, <<Binding("side", "plan"), Binding("out", "grid")>>,
                 <<Binding("out", "grid"), Binding("side", "grid")>>,
                 <<Binding("out", "grid")>>, <<Binding("out", "grid"), Binding("side", "plan"), Binding("x", "grid")>>,
                 <<Pair("out", Map(<<>>)), Binding("side", "plan")>>}
Configs == {<<>>} \cup {<<Pair("config", c)>> : c \in
             {Map(<<>>), T("x"), Map(<<Pair("cfg", T("n"))>>), Map(<<Pair("x", T("n"))>>),
              Map(<<Pair("x", Map(<<Pair("b", T("n")), Pair("a", T("x"))>>)), Pair("cfg", ListOf(<<T("n"), T("a")>>))>>), Map(<<Pair("out", T("n")), Pair("n", T("n"))>>)}}

First(config, outputs) ==
  Map(<<Pair("type", T("m"))>> \o config \o
      <<Pair("inputs", Map(<<Binding("in", "frame")>>)), Pair("outputs", Map(outputs))>>)
Second(type, outputs) ==
  Map(<<Pair("outputs", Map(outputs)), Pair("type", T(type)), Pair("inputs", Map(<<Binding("in", "grid")>>))>>)

Root(inputs, units, outputs) ==
  <<Pair("module", T("m")), Pair("schema", T("v0")), Pair("units", Map(units)),
    Pair("inputs", inputs), Pair("outputs", outputs)>>

BothOutputs == Map(<<Binding("x", "plan"), Binding("n", "grid")>>)
Definition(first, second) == Root(ModuleInputs("t/scan"), <<Pair("b", first)>> \o second, BothOutputs)
Usual == First(<<>>, <<Binding("out", "grid"), Binding("side", "plan")>>)

Plain ==
  {Definition(First(c, o), s) : c \in Configs, o \in FirstOutputs, s \in {<<>>, <<Pair("a", Second("t/map", <<>>))>>}}
  \cup {Definition(Usual, s) : s \in {<<Pair("a", Second("x", <<>>))>>, <<Pair("a", T("x"))>>, <<Pair("a", ListOf(<<>>))>>}}
  \cup {Root(i, <<Pair("b", Usual)>>, o) : i \in {ModuleInputs("t/scan"), ModuleInputs("t/none"), ModuleInputs("x"), Map(<<Pair("frame", T("x"))>>), T("x")},
                                          o \in {BothOutputs, Map(<<>>), T("x")}}

(* One element of the root, or of a Unit, left out or given another name.       *)
Without(pairs, i) == SubSeq(pairs, 1, i - 1) \o SubSeq(pairs, i + 1, Len(pairs))
Renamed(pairs, i) == [pairs EXCEPT ![i] = Pair("x", pairs[i][2])]
Blurred(pairs, i) == [pairs EXCEPT ![i] = Pair(pairs[i][1].text, T("x"))]
Changed(pairs) == UNION {{Without(pairs, i), Renamed(pairs, i), Blurred(pairs, i)} : i \in DOMAIN pairs}

MCDocuments ==
  {Document(Map(d)) : d \in Plain \cup Changed(Definition(Usual, <<>>))
                 \cup {Definition(Map(u), <<>>) : u \in Changed(Usual.values)}}
  \cup {Document(T("x")), Document(Map(<<>>))}

MismatchedDocuments == {Document(Map(Definition(Usual, <<Pair("a", Second("n", <<Binding("out", "x")>>))>>)))}
==============================================================================
