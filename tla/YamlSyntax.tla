------------------------------ MODULE YamlSyntax ------------------------------
(***************************************************************************)
(* The event loop that turns the events of the YAML parser (external: saphyr)  *)
(* into a tree of nodes, and the check of its mapping keys.                   *)
(*                                                                         *)
(* The parser emits balanced collections and as many values as keys, one       *)
(* document after the other, or stops at a syntax error.  A node is named by    *)
(* the position of its first event, which stands for its span; nodes holds      *)
(* those that are finished, and a container has the names of what it owns.      *)
(***************************************************************************)
EXTENDS Naturals, Sequences, FiniteSets, FiniteSetsExt, SequencesExt

CONSTANTS
  Strings,      \* scalars that are strings
  MergeKeyText, \* "<<"
  Others,       \* scalars that are not
  Scalars,      \* bound: the scalars of a source
  MaxDepth,     \* max_depth of ParseLimits
  MaxEvents     \* bound: events of a source

ASSUME SyntaxAssumption ==
  /\ MergeKeyText \in Strings /\ Strings \cap Others = {} /\ Scalars \subseteq Strings \cup Others
  /\ MaxDepth \in Nat /\ MaxEvents \in Nat

VARIABLES
  events,    \* events read so far (history)
  nodes,     \* finished nodes by position
  stack,     \* open containers, the outermost first
  root,
  documents,
  nested,    \* collections the parser has open, with the nodes in each (external)
  result     \* "reading", "Ok" or the kind of the diagnostic

syntaxVars == <<events, nodes, stack, root, documents, nested, result>>

NoNode == 0
Event(kind) == [kind |-> kind]
ScalarOf(text) == [kind |-> "scalar", text |-> text]
Collections == {"sequence", "mapping"}

SyntaxInit ==
  /\ events = <<>> /\ nodes = <<>> /\ stack = <<>> /\ root = NoNode /\ documents = 0
  /\ nested = <<>> /\ result = "reading"
------------------------------------------------------------------------------
(* The tree. *)

Position == Len(events) + 1

(* Mutation of Attach: a pending key stays pending.                           *)
AttachKeepingKey(container, at) ==
  IF container.kind = "sequence"
    THEN [container EXCEPT !.values = Append(@, at)]
    ELSE IF container.key = NoNode
      THEN [container EXCEPT !.key = at]
      ELSE [container EXCEPT !.values = Append(@, <<container.key, at>>)]

Attach(container, at) ==
  IF container.kind = "sequence"
    THEN [container EXCEPT !.values = Append(@, at)]
    ELSE IF container.key = NoNode
      THEN [container EXCEPT !.key = at]
      ELSE [container EXCEPT !.values = Append(@, <<container.key, at>>), !.key = NoNode]

PushNode(open, at, node) ==
  IF open = <<>> /\ root # NoNode
    THEN result' = "Syntax" /\ stack' = open /\ UNCHANGED <<nodes, root>>
    ELSE /\ nodes' = [p \in DOMAIN nodes \cup {at} |-> IF p = at THEN node ELSE nodes[p]]
         /\ stack' = IF open = <<>> THEN open ELSE [open EXCEPT ![Len(open)] = Attach(@, at)]
         /\ root' = IF open = <<>> THEN at ELSE root
         /\ UNCHANGED result

TooDeep == Len(stack) + 1 > MaxDepth

Open(kind) ==
  IF TooDeep
    THEN result' = "DepthLimit" /\ UNCHANGED <<nodes, stack, root>>
    ELSE /\ stack' = Append(stack, [kind |-> kind, at |-> Position, values |-> <<>>, key |-> NoNode])
         /\ UNCHANGED <<nodes, root, result>>

Close ==
  IF stack = <<>> \/ Last(stack).key # NoNode
    THEN result' = "Syntax" /\ UNCHANGED <<nodes, stack, root>>
    ELSE PushNode(Front(stack), Last(stack).at,
                  [kind |-> Last(stack).kind, values |-> Last(stack).values])
------------------------------------------------------------------------------
(* The parser's events (external) and the handler of each. *)

Remaining == MaxEvents - Len(events)
InDocument == events # <<>> /\ Last(events).kind # "end document"

(* A node may begin here, with its closing event still in bounds.             *)
NodeMayBegin(length) ==
  /\ InDocument
  /\ nested = <<>> => Last(events).kind = "document"
  /\ Remaining >= length + Len(nested) + 1

Counted == IF nested = <<>> THEN nested ELSE [nested EXCEPT ![Len(nested)].nodes = @ + 1]
Read(event) == result = "reading" /\ events' = Append(events, event)

DocumentStart ==
  /\ ~InDocument /\ Remaining >= 3
  /\ Read(Event("document"))
  /\ documents' = documents + 1
  /\ UNCHANGED <<nodes, stack, root, nested, result>>

DocumentEnd ==
  /\ InDocument /\ nested = <<>> /\ Last(events).kind # "document"
  /\ Read(Event("end document"))
  /\ UNCHANGED <<nodes, stack, root, documents, nested, result>>

Leaf(event) ==
  /\ NodeMayBegin(1)
  /\ Read(event)
  /\ nested' = Counted
  /\ PushNode(stack, Position, event)
  /\ UNCHANGED documents

ScalarEvent == \E text \in Scalars : Leaf(ScalarOf(text))

AliasEvent == Leaf(Event("alias"))

CollectionStart ==
  \E kind \in Collections :
    /\ NodeMayBegin(2)
    /\ Read(Event(kind))
    /\ nested' = Append(Counted, [kind |-> kind, nodes |-> 0])
    /\ Open(kind)
    /\ UNCHANGED documents

CollectionEnd ==
  /\ nested # <<>> /\ (Last(nested).kind = "mapping" => Last(nested).nodes % 2 = 0)
  /\ Read(Event("end"))
  /\ nested' = Front(nested)
  /\ Close
  /\ UNCHANGED documents

(* The size of a source is checked before it is parsed.                       *)
TooLarge ==
  /\ result = "reading" /\ events = <<>>
  /\ result' = "DocumentTooLarge"
  /\ UNCHANGED <<events, nodes, stack, root, documents, nested>>

SyntaxError ==
  /\ result = "reading"
  /\ result' = "Syntax"
  /\ UNCHANGED <<events, nodes, stack, root, documents, nested>>
------------------------------------------------------------------------------
(* The keys. *)

Tree == [root |-> root, nodes |-> nodes]

IsString(node) == node.kind = "scalar" /\ node.text \in Strings
KeyOf(tree, entry) == tree.nodes[entry[1]]

FirstFault(faults) ==
  LET faulty == {i \in DOMAIN faults : faults[i] # "Ok"}
  IN  IF faulty = {} THEN "Ok" ELSE faults[Min(faulty)]

(* Mutation of EntryFault: a value is checked before its key is remembered.   *)
EntryFaultLate(tree, entries, i, below) ==
  LET key == KeyOf(tree, entries[i])
  IN  IF ~IsString(key) THEN "InvalidField"
      ELSE IF key.text = MergeKeyText THEN "MergeKey"
      ELSE IF below[entries[i][2]] # "Ok" THEN below[entries[i][2]]
      ELSE IF \E j \in 1 .. i - 1 : KeyOf(tree, entries[j]) = key THEN "DuplicateKey"
      ELSE "Ok"

EntryFault(tree, entries, i, below) ==
  LET key == KeyOf(tree, entries[i])
  IN  IF ~IsString(key) THEN "InvalidField"
      ELSE IF key.text = MergeKeyText THEN "MergeKey"
      ELSE IF \E j \in 1 .. i - 1 : KeyOf(tree, entries[j]) = key THEN "DuplicateKey"
      ELSE below[entries[i][2]]

(* validate_mapping_keys: values are checked with their keys, so a fault of a   *)
(* value precedes the next key; keys are not looked into.                     *)
NodeFault(tree, node, below) ==
  IF node.kind = "alias" THEN "Alias"
  ELSE IF node.kind = "sequence"
    THEN FirstFault([i \in DOMAIN node.values |-> below[node.values[i]]])
  ELSE IF node.kind = "mapping"
    THEN FirstFault([i \in DOMAIN node.values |-> EntryFault(tree, node.values, i, below)])
  ELSE "Ok"

KeyFault(tree) ==
  LET fault[p \in DOMAIN tree.nodes] == NodeFault(tree, tree.nodes[p], fault)
  IN  fault[tree.root]

StreamEnd ==
  /\ result = "reading" /\ ~InDocument
  /\ result' = IF documents # 1 \/ root = NoNode THEN "Syntax" ELSE KeyFault(Tree)
  /\ UNCHANGED <<events, nodes, stack, root, documents, nested>>

SyntaxNext ==
  \/ DocumentStart \/ DocumentEnd \/ ScalarEvent \/ AliasEvent
  \/ CollectionStart \/ CollectionEnd \/ TooLarge \/ SyntaxError \/ StreamEnd

SyntaxSpec == SyntaxInit /\ [][SyntaxNext]_syntaxVars
------------------------------------------------------------------------------
(* What the events say of the tree. *)

Begins == {p \in DOMAIN events : events[p].kind \in {"scalar", "alias"} \cup Collections}

(* The collections that are open after each event, by where they begin.       *)
OpenAfter[n \in 0 .. Len(events)] ==
  IF n = 0 THEN {}
  ELSE LET before == OpenAfter[n - 1]
       IN  IF events[n].kind \in Collections THEN before \cup {n}
           ELSE IF events[n].kind = "end" THEN before \ {Max(before)}
           ELSE before

OpenNow == OpenAfter[Len(events)]
Outermost == {p \in Begins : OpenAfter[p - 1] = {}}
Inside(c) == {p \in Begins : OpenAfter[p - 1] # {} /\ Max(OpenAfter[p - 1]) = c}

(* What a container holds, keys and values in turn.                           *)
Held(c) == IF c.kind = "mapping" THEN FlattenSeq(c.values) ELSE c.values
Pending(c) == IF c.key = NoNode THEN <<>> ELSE <<c.key>>
ListsInOrder(s, S) ==
  ToSet(s) = S /\ \A i, j \in DOMAIN s : i < j => s[i] < s[j]

(* Nothing is lost, doubled or moved: every node that has ended is there, as it  *)
(* was read; a container holds exactly the nodes that begin directly inside it,  *)
(* in their order; and so do the containers still open, with what is pending.    *)
TreeIsWhatWasRead ==
  result \in {"reading", "Ok"} =>
    /\ DOMAIN nodes = Begins \ OpenNow
    /\ {root} \ {NoNode} = Outermost \ OpenNow
    /\ \A p \in DOMAIN nodes :
         IF events[p].kind \in Collections
           THEN nodes[p].kind = events[p].kind /\ ListsInOrder(Held(nodes[p]), Inside(p))
           ELSE nodes[p] = events[p]
    /\ ListsInOrder([i \in DOMAIN stack |-> stack[i].at], OpenNow)
    /\ \A i \in DOMAIN stack :
         /\ stack[i].kind = events[stack[i].at].kind
         /\ ListsInOrder(Held(stack[i]) \o Pending(stack[i]), Inside(stack[i].at) \ OpenNow)

(* The faults of a mapping's keys where they are, whatever order they are        *)
(* looked for in.                                                            *)
KeyFaults(e) ==
  LET key(i) == KeyOf(Tree, e[i])
  IN  {<<e[i][1], "InvalidField">> : i \in {j \in DOMAIN e : ~IsString(key(j))}}
      \cup {<<e[i][1], "MergeKey">> : i \in {j \in DOMAIN e : key(j) = ScalarOf(MergeKeyText)}}
      \cup {<<e[i][1], "DuplicateKey">> :
              i \in {j \in DOMAIN e : /\ IsString(key(j)) /\ key(j).text # MergeKeyText
                                      /\ \E k \in 1 .. j - 1 : key(k) = key(j)}}

Faults ==
  {<<p, "Alias">> : p \in {q \in DOMAIN nodes : nodes[q].kind = "alias"}}
  \cup UNION {KeyFaults(nodes[p].values) : p \in {q \in DOMAIN nodes : nodes[q].kind = "mapping"}}

(* A source is accepted exactly if it is one document, within the depth limit,   *)
(* without aliases, and all its keys are strings, distinct and no merge keys.   *)
(* One that is refused for its keys is refused for the first fault in it: an     *)
(* alias used as a key is not a string before it is an alias.                  *)
RefusedForTheFirstFault ==
  /\ result = "DepthLimit" <=> \E n \in DOMAIN events : Cardinality(OpenAfter[n]) > MaxDepth
  /\ result \notin {"reading", "DocumentTooLarge", "DepthLimit", "Syntax"} =>
       LET first == Min({f[1] : f \in Faults})
       IN  /\ documents = 1 /\ root # NoNode
           /\ result = "Ok" <=> Faults = {}
           /\ result # "Ok" =>
                /\ <<first, result>> \in Faults
                /\ result = "Alias" => <<first, "InvalidField">> \notin Faults
==============================================================================
