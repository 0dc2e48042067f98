----------------------------- MODULE Yaml_proofs -----------------------------
(****************************************************************************)
(* The YAML front end, for any scalars, depth limit and length of a source, and *)
(* any documents, Unit types and bounds:                                    *)
(*   TreeRead            the tree has what was read, all of it, once, in order *)
(*   RefusedForTheFirst  a source is refused for the first fault in it      *)
(*   AcceptedIsDocument  what is accepted is a document as loading assumes it *)
(*   OrderIsOfNoMatter, AnyOrderLoadsAlike                                  *)
(*                       the order of a document's mappings decides nothing *)
(*   ClosestBound        the closest bound of a resource is its capacity    *)
(*                                                                          *)
(* A node is named by its position, so what a node owns comes after it, and *)
(* what is said of a tree is shown from its last position to its first.     *)
(****************************************************************************)
EXTENDS YamlDefinition, NaturalBounds, SequenceTheorems, TLAPS
------------------------------------------------------------------------------
(* FlattenSeq is the last of the concatenations it goes through.            *)
Flattens(F, s) ==
  /\ F[0] = <<>>
  /\ \A k \in 1 .. Len(s) : F[k] = F[k - 1] \o s[k]
  /\ FlattenSeq(s) = F[Len(s)]

(* FlattenSeq of any sequences comes of concatenating them one by one.      *)
LEMMA FlattenUnfolds ==
  ASSUME NEW D, NEW s \in Seq(Seq(D))
  PROVE  \E F \in [0 .. Len(s) -> Seq(D)] : Flattens(F, s)
<1> DEFINE n == Len(s)
           next == [p \in (1 .. n) \X Seq(D) |-> p[2] \o s[p[1]]]
<1>1. n \in Nat /\ DOMAIN s = 1 .. n /\ \A i \in 1 .. n : s[i] \in Seq(D)
  OBVIOUS
<1>2. next \in [(1 .. n) \X Seq(D) -> Seq(D)]
  <2>1. ASSUME NEW p \in (1 .. n) \X Seq(D)
        PROVE  p[2] \o s[p[1]] \in Seq(D)
    <3>1. p[2] \in Seq(D) /\ s[p[1]] \in Seq(D)
      BY <1>1
    <3> QED BY <3>1, ConcatProperties
  <2> QED BY <2>1
<1>3. PICK F \in [0 .. n -> Seq(D)] : Follows(F, n, <<>>, next)
  <2>1. <<>> \in Seq(D)
    OBVIOUS
  <2> HIDE DEF next, n
  <2> QED BY <1>1, <1>2, <2>1, RecursionExists
<1>4. ASSUME NEW k \in 1 .. n
      PROVE  F[k] = F[k - 1] \o s[k] /\ F[k] \in Seq(D) /\ F[k - 1] \in Seq(D)
  <2>1. k - 1 \in 0 .. n /\ k \in 0 .. n
    BY <1>1
  <2>2. <<k, F[k - 1]>> \in (1 .. n) \X Seq(D)
    BY <2>1
  <2>3. F[k] = next[<<k, F[k - 1]>>]
    BY <1>3 DEF Follows
  <2> QED BY <2>1, <2>2, <2>3
<1>5. F[0] = <<>>
  BY <1>3 DEF Follows
<1>6. CASE n = 0
  <2>1. FlattenSeq(s) = s /\ s = <<>>
    BY <1>1, <1>6 DEF FlattenSeq
  <2> QED BY <1>4, <1>5, <1>6, <2>1 DEF Flattens
<1>7. CASE n # 0
  <2> DEFINE Solves(g) == g = [i \in 1 .. n |-> IF i = 1 THEN s[i] ELSE g[i - 1] \o s[i]]
             G == [i \in 1 .. n |-> F[i]]
             flatten == CHOOSE g : Solves(g)
  <2>1. Solves(G)
    <3>1. ASSUME NEW i \in 1 .. n
          PROVE  F[i] = IF i = 1 THEN s[i] ELSE G[i - 1] \o s[i]
      <4>1. CASE i = 1
        <5>1. F[1] = F[0] \o s[1] /\ s[1] \in Seq(D)
          BY <1>1, <1>4, <4>1
        <5> QED BY <1>5, <4>1, <5>1, ConcatEmptySeq
      <4>2. CASE i # 1
        <5>1. i - 1 \in 1 .. n
          BY <1>1, <4>2
        <5> QED BY <1>4, <4>2, <5>1
      <4> QED BY <4>1, <4>2
    <3> QED BY <3>1
  <2> HIDE DEF G
  <2>2. Solves(flatten)
    BY <2>1
  <2>3. FlattenSeq(s) = flatten[n]
    BY <1>7 DEF FlattenSeq
  <2> HIDE DEF flatten
  <2> DEFINE T == {k \in 0 .. n : k # 0 => flatten[k] = F[k]}
  <2>4. \A k \in 0 .. n : k \in T
    <3>1. 0 \in T
      BY <1>1
    <3>2. ASSUME NEW k \in 1 .. n, k - 1 \in T
          PROVE  flatten[k] = F[k]
      <4>1. flatten[k] = IF k = 1 THEN s[k] ELSE flatten[k - 1] \o s[k]
        BY <2>2
      <4>2. G[k] = IF k = 1 THEN s[k] ELSE G[k - 1] \o s[k]
        BY <2>1
      <4>3. G[k] = F[k] /\ (k # 1 => G[k - 1] = F[k - 1])
        <5>1. k # 1 => k - 1 \in 1 .. n
          BY <1>1
        <5> QED BY <5>1 DEF G
      <4>4. k # 1 => flatten[k - 1] = F[k - 1]
        <5>1. k # 1 => k - 1 # 0
          OBVIOUS
        <5> QED BY <3>2, <5>1
      <4>5. CASE k = 1
        BY <4>1, <4>2, <4>3, <4>5
      <4>6. CASE k # 1
        <5>1. flatten[k] = flatten[k - 1] \o s[k]
          BY <4>1, <4>6
        <5>2. G[k] = G[k - 1] \o s[k]
          BY <4>2, <4>6
        <5> HIDE DEF T, G
        <5> QED BY <4>3, <4>4, <4>6, <5>1, <5>2
      <4> QED BY <4>5, <4>6
    <3>3. \A k \in 1 .. n : k - 1 \in T => k \in T
      BY <1>1, <3>2
    <3> HIDE DEF T, n
    <3> QED BY <1>1, <3>1, <3>3, Along
  <2>5. flatten[n] = F[n]
    <3>1. n \in 0 .. n
      BY <1>1
    <3> QED BY <1>7, <2>4, <3>1
  <2> QED BY <1>4, <1>5, <2>3, <2>5 DEF Flattens
<1> QED BY <1>6, <1>7

(* It is a sequence of what there is in the sequences of a sequence.        *)
LEMMA FlattenElements ==
  ASSUME NEW D, NEW s \in Seq(Seq(D))
  PROVE  /\ FlattenSeq(s) \in Seq(D)
         /\ \A x : x \in ToSet(FlattenSeq(s)) <=> \E i \in DOMAIN s : x \in ToSet(s[i])
<1> DEFINE n == Len(s)
<1>1. PICK F \in [0 .. n -> Seq(D)] : Flattens(F, s)
  BY FlattenUnfolds
<1>2. n \in Nat /\ DOMAIN s = 1 .. n /\ (\A i \in 1 .. n : s[i] \in Seq(D)) /\ n \in 0 .. n
  OBVIOUS
<1> HIDE DEF n
<1> DEFINE T == {k \in 0 .. n : \A x : x \in ToSet(F[k]) <=> \E i \in 1 .. k : x \in ToSet(s[i])}
<1>3. 0 \in T
  <2>1. ToSet(<<>>) = {} /\ 1 .. 0 = {}
    BY DEF ToSet
  <2> QED BY <1>1, <1>2, <2>1 DEF Flattens
<1>4. ASSUME NEW k \in 1 .. n, k - 1 \in T
      PROVE  k \in T
  <2>1. /\ F[k] = F[k - 1] \o s[k] /\ F[k - 1] \in Seq(D) /\ s[k] \in Seq(D) /\ k \in 0 .. n
        /\ 1 .. k = (1 .. k - 1) \cup {k}
    <3>1. k - 1 \in 0 .. n /\ k \in 0 .. n /\ k \in Nat
      BY <1>2
    <3>2. F[k] = F[k - 1] \o s[k]
      BY <1>1 DEF Flattens, n
    <3>3. 1 .. k = (1 .. k - 1) \cup {k}
      BY <3>1
    <3> QED BY <1>1, <1>2, <3>1, <3>2, <3>3
  <2> DEFINE a == F[k - 1]
             b == s[k]
  <2>2. ToSet(a \o b) = ToSet(a) \cup ToSet(b)
    <3>1. a \in Seq(D) /\ b \in Seq(D)
      BY <2>1
    <3> HIDE DEF a, b
    <3>2. /\ DOMAIN (a \o b) = 1 .. Len(a) + Len(b) /\ DOMAIN a = 1 .. Len(a) /\ DOMAIN b = 1 .. Len(b)
          /\ \A l \in 1 .. Len(a) : (a \o b)[l] = a[l]
          /\ \A l \in 1 .. Len(b) : (a \o b)[Len(a) + l] = b[l]
          /\ Len(a) \in Nat /\ Len(b) \in Nat
      BY <3>1
    <3>3. ToSet(a \o b) \subseteq ToSet(a) \cup ToSet(b)
      <4>1. ASSUME NEW l \in 1 .. Len(a) + Len(b)
            PROVE  (a \o b)[l] \in ToSet(a) \cup ToSet(b)
        <5>1. CASE l <= Len(a)
          BY <3>2, <5>1 DEF ToSet
        <5>2. CASE l > Len(a)
          <6>1. l - Len(a) \in 1 .. Len(b) /\ Len(a) + (l - Len(a)) = l
            BY <3>2, <5>2
          <6>2. (a \o b)[l] = b[l - Len(a)]
            BY <3>2, <6>1
          <6> QED BY <3>2, <6>1, <6>2 DEF ToSet
        <5> QED BY <3>2, <5>1, <5>2
      <4> QED BY <3>2, <4>1 DEF ToSet
    <3>4. ToSet(a) \subseteq ToSet(a \o b)
      <4>1. \A l \in 1 .. Len(a) : l \in 1 .. Len(a) + Len(b)
        BY <3>2
      <4> QED BY <3>2, <4>1, Zenon DEF ToSet
    <3>5. ToSet(b) \subseteq ToSet(a \o b)
      <4>1. \A l \in 1 .. Len(b) : Len(a) + l \in 1 .. Len(a) + Len(b)
        BY <3>2
      <4> QED BY <3>2, <4>1 DEF ToSet
    <3> QED BY <3>3, <3>4, <3>5
  <2>3. \A x : x \in ToSet(F[k]) <=> x \in ToSet(a) \/ x \in ToSet(s[k])
    BY <2>1, <2>2
  <2>4. \A i : i \in 1 .. k <=> i \in 1 .. k - 1 \/ i = k
    BY <2>1
  <2>5. \A x : x \in ToSet(F[k]) <=> \E i \in 1 .. k : x \in ToSet(s[i])
    <3> HIDE DEF a, b
    <3>1. \A x : x \in ToSet(a) <=> \E i \in 1 .. k - 1 : x \in ToSet(s[i])
      BY <1>4 DEF a
    <3> QED BY <2>3, <2>4, <3>1, Zenon
  <2> QED BY <2>1, <2>5
<1>5. n \in T
  <2> HIDE DEF T
  <2> QED BY <1>2, <1>3, <1>4, Along
<1> QED BY <1>1, <1>2, <1>5 DEF Flattens, n

(* To append to it is to append to the last of them.                        *)
LEMMA FlattenAppend ==
  ASSUME NEW D, NEW s \in Seq(Seq(D)), NEW t \in Seq(D)
  PROVE  FlattenSeq(Append(s, t)) = FlattenSeq(s) \o t
<1> DEFINE n == Len(s)
           u == Append(s, t)
<1>1. /\ n \in Nat /\ u \in Seq(Seq(D)) /\ Len(u) = n + 1 /\ u[n + 1] = t
      /\ \A i \in 1 .. n : u[i] = s[i]
  OBVIOUS
<1>2. PICK F \in [0 .. Len(s) -> Seq(D)] : Flattens(F, s)
  BY FlattenUnfolds
<1>3. PICK G \in [0 .. Len(u) -> Seq(D)] : Flattens(G, u)
  BY <1>1, FlattenUnfolds
<1> HIDE DEF n, u
<1> DEFINE T == {k \in 0 .. n : G[k] = F[k]}
<1>4. 0 \in T
  BY <1>1, <1>2, <1>3 DEF Flattens
<1>5. ASSUME NEW k \in 1 .. n, k - 1 \in T
      PROVE  k \in T
  <2>1. k \in 1 .. Len(u) /\ u[k] = s[k] /\ k \in 0 .. n
    BY <1>1
  <2>2. G[k] = G[k - 1] \o u[k] /\ F[k] = F[k - 1] \o s[k]
    BY <1>2, <1>3, <2>1 DEF Flattens, n
  <2> QED BY <1>5, <2>1, <2>2
<1>6. n \in T
  <2>1. n \in 0 .. n
    BY <1>1
  <2> HIDE DEF T
  <2> QED BY <1>1, <1>4, <1>5, <2>1, Along
<1>7. n + 1 \in 1 .. Len(u) /\ (n + 1) - 1 = n
  BY <1>1
<1>8. FlattenSeq(u) = G[n] \o t /\ FlattenSeq(s) = F[n]
  BY <1>1, <1>2, <1>3, <1>7 DEF Flattens, n
<1> QED BY <1>6, <1>8 DEF u
------------------------------------------------------------------------------
(* OpenAfter, for any events: the collections that are open after each.     *)
OpensAt(f, e, n) ==
  IF n = 0 THEN {}
  ELSE LET before == f[n - 1]
       IN  IF e[n].kind \in Collections THEN before \cup {n}
           ELSE IF e[n].kind = "end" THEN before \ {Max(before)}
           ELSE before
Opens(f, e) == f = [n \in 0 .. Len(e) |-> OpensAt(f, e, n)]
Openings(e) == CHOOSE f : Opens(f, e)

(* What is open after each event is a function of the events alone.         *)
LEMMA OpenAfterOpens == OpenAfter = Openings(events) /\ (OpenAfter = Openings(events))'
BY DEF OpenAfter, Openings, Opens, OpensAt

(* Openings obeys its recursion for every sequence of events.               *)
LEMMA OpeningsExist ==
  ASSUME NEW X, NEW e \in Seq(X)
  PROVE  Opens(Openings(e), e)
<1> DEFINE n == Len(e)
           next == [p \in (1 .. n) \X SUBSET Nat |->
                      IF e[p[1]].kind \in Collections THEN p[2] \cup {p[1]}
                      ELSE IF e[p[1]].kind = "end" THEN p[2] \ {Max(p[2])}
                      ELSE p[2]]
<1>1. n \in Nat
  OBVIOUS
<1>2. next \in [(1 .. n) \X SUBSET Nat -> SUBSET Nat]
  BY <1>1
<1>3. PICK F \in [0 .. n -> SUBSET Nat] : Follows(F, n, {}, next)
  <2> HIDE DEF next, n
  <2> QED BY <1>1, <1>2, RecursionExists
<1>4. ASSUME NEW k \in 0 .. n
      PROVE  F[k] = OpensAt(F, e, k)
  <2>1. CASE k = 0
    BY <1>3, <2>1 DEF Follows, OpensAt
  <2>2. CASE k # 0
    <3>1. k \in 1 .. n /\ k - 1 \in 0 .. n
      BY <1>1, <2>2
    <3>2. F[k] = next[<<k, F[k - 1]>>] /\ <<k, F[k - 1]>> \in (1 .. n) \X SUBSET Nat
      BY <1>3, <3>1 DEF Follows
    <3> QED BY <2>2, <3>2 DEF OpensAt
  <2> QED BY <2>1, <2>2
<1>5. Opens(F, e)
  BY <1>4 DEF Opens
<1> QED BY <1>5 DEF Openings

(* What is open after an event began with a collection before it; it was open *)
(* ever since, and what was open where it began and no more is open around it. *)
NestsAt(f, e, n) ==
  /\ f[n] \subseteq 1 .. n
  /\ \A c \in f[n] : /\ e[c].kind \in Collections
                     /\ f[c - 1] = f[n] \cap (1 .. c - 1)
                     /\ \A m \in c .. n : c \in f[m]

(* A collection is open at an event only if it began before it and is open  *)
(* after every event between them.                                          *)
LEMMA OpenNests ==
  ASSUME NEW e, Len(e) \in Nat, NEW f, Opens(f, e)
  PROVE  \A n \in 0 .. Len(e) : NestsAt(f, e, n)
<1> DEFINE T == {n \in 0 .. Len(e) : NestsAt(f, e, n)}
<1>1. \A n \in 0 .. Len(e) : f[n] = OpensAt(f, e, n)
  BY DEF Opens
<1>2. 0 \in T
  <2>1. 0 \in 0 .. Len(e)
    OBVIOUS
  <2>2. f[0] = {}
    BY <1>1, <2>1 DEF OpensAt
  <2> QED BY <2>1, <2>2 DEF NestsAt
<1>3. ASSUME NEW n \in 1 .. Len(e), n - 1 \in T
      PROVE  NestsAt(f, e, n)
  <2>1. n \in Nat /\ n >= 1 /\ NestsAt(f, e, n - 1) /\ f[n] = OpensAt(f, e, n)
    BY <1>1, <1>3
  <2> DEFINE b == f[n - 1]
  <2>2. /\ b \subseteq 1 .. n - 1
        /\ \A c \in b : /\ e[c].kind \in Collections
                        /\ f[c - 1] = b \cap (1 .. c - 1)
                        /\ \A m \in c .. n - 1 : c \in f[m]
    BY <2>1 DEF NestsAt
  <2>3. \/ f[n] = b \cup {n} /\ e[n].kind \in Collections
        \/ f[n] = b
        \/ f[n] = b \ {Max(b)}
    BY <2>1 DEF OpensAt
  <2> HIDE DEF b
  <2>4. ASSUME NEW c \in f[n], c \in b
        PROVE  /\ e[c].kind \in Collections
               /\ f[c - 1] = f[n] \cap (1 .. c - 1)
               /\ \A m \in c .. n : c \in f[m]
    <3>1. c \in 1 .. n - 1 /\ b \subseteq 0 .. n - 1 /\ b # {} /\ n - 1 \in Nat
      BY <2>1, <2>2, <2>4
    <3>2. Max(b) \in b /\ Max(b) >= c
      BY <2>4, <3>1, MaxOfBounded
    <3>3. f[n] \cap (1 .. c - 1) = b \cap (1 .. c - 1)
      <4>1. CASE f[n] = b \cup {n}
        BY <3>1, <4>1
      <4>2. CASE f[n] = b \ {Max(b)}
        <5>1. Max(b) \notin 1 .. c - 1
          BY <3>1, <3>2
        <5> QED BY <4>2, <5>1
      <4> QED BY <2>3, <4>1, <4>2
    <3>4. \A m \in c .. n : m \in c .. n - 1 \/ m = n
      BY <2>1, <3>1
    <3> QED BY <2>2, <2>4, <3>3, <3>4
  <2>5. f[n] \subseteq 1 .. n
    <3>1. b \subseteq 1 .. n /\ n \in 1 .. n
      BY <2>1, <2>2
    <3> QED BY <2>3, <3>1
  <2>6. ASSUME NEW c \in f[n], c \notin b
        PROVE  /\ e[c].kind \in Collections
               /\ f[c - 1] = f[n] \cap (1 .. c - 1)
               /\ \A m \in c .. n : c \in f[m]
    <3>1. c = n /\ e[n].kind \in Collections /\ f[n] = b \cup {n}
      BY <2>3, <2>6
    <3>2. b = f[n] \cap (1 .. n - 1)
      <4>1. n \notin 1 .. n - 1 /\ b \subseteq 1 .. n - 1
        BY <2>1, <2>2
      <4> QED BY <3>1, <4>1
    <3>3. \A m \in n .. n : m = n
      BY <2>1
    <3> QED BY <2>6, <3>1, <3>2, <3>3 DEF b
  <2> QED BY <2>4, <2>5, <2>6 DEF NestsAt
<1>4. \A n \in 1 .. Len(e) : n - 1 \in T => n \in T
  BY <1>3
<1> QED
  <2>1. \A n \in 0 .. Len(e) : n \in T
    <3> HIDE DEF T
    <3> QED BY <1>2, <1>4, Along
  <2> QED BY <2>1

(* An event more changes nothing of the events before.                      *)
GrownBy(f, g, v, n) ==
  /\ \A m \in 0 .. n : g[m] = f[m]
  /\ g[n + 1] = IF v.kind \in Collections THEN f[n] \cup {n + 1}
                ELSE IF v.kind = "end" THEN f[n] \ {Max(f[n])}
                ELSE f[n]

(* One event more leaves what was open before it as it was, and adds one    *)
(* step.                                                                    *)
LEMMA OpenGrows ==
  ASSUME NEW X, NEW e \in Seq(X), NEW v \in X
  PROVE  GrownBy(Openings(e), Openings(Append(e, v)), v, Len(e))
<1> DEFINE u == Append(e, v)
           f == Openings(e)
           g == Openings(u)
           n == Len(e)
           T == {m \in 0 .. n : g[m] = f[m]}
<1>1. n \in Nat /\ u \in Seq(X) /\ Len(u) = n + 1 /\ u[n + 1] = v /\ \A i \in 1 .. n : u[i] = e[i]
  OBVIOUS
<1>2. Opens(f, e) /\ Opens(g, u)
  BY <1>1, OpeningsExist
<1> HIDE DEF u, f, g
<1>3. /\ \A m \in 0 .. n : f[m] = OpensAt(f, e, m)
      /\ \A m \in 0 .. n + 1 : g[m] = OpensAt(g, u, m)
  BY <1>1, <1>2 DEF Opens
<1>4. 0 \in T
  <2>1. 0 \in 0 .. n /\ 0 \in 0 .. n + 1
    BY <1>1
  <2> QED BY <1>3, <2>1 DEF OpensAt
<1>5. ASSUME NEW m \in 1 .. n, m - 1 \in T
      PROVE  g[m] = f[m]
  <2>1. m \in 0 .. n /\ m \in 0 .. n + 1 /\ m # 0 /\ g[m - 1] = f[m - 1] /\ u[m] = e[m]
    BY <1>1, <1>5
  <2> QED BY <1>3, <2>1 DEF OpensAt
<1>6. \A m \in 0 .. n : m \in T
  <2>1. \A m \in 1 .. n : m - 1 \in T => m \in T
    BY <1>5
  <2> HIDE DEF T, n
  <2> QED BY <1>1, <1>4, <2>1, Along
<1>7. \A m \in 0 .. n : g[m] = f[m]
  BY <1>6
<1>8. n + 1 \in 0 .. n + 1 /\ n + 1 # 0 /\ (n + 1) - 1 = n /\ n \in 0 .. n
  BY <1>1
<1>9. g[n + 1] = IF v.kind \in Collections THEN f[n] \cup {n + 1}
                 ELSE IF v.kind = "end" THEN f[n] \ {Max(f[n])}
                 ELSE f[n]
  <2>1. g[n + 1] = OpensAt(g, u, n + 1) /\ g[n] = f[n]
    BY <1>3, <1>7, <1>8
  <2> HIDE DEF n
  <2> QED BY <1>1, <1>8, <2>1 DEF OpensAt
<1> QED BY <1>7, <1>9 DEF u, f, g, GrownBy
------------------------------------------------------------------------------
(* Containers: what they hold, with one node more.                          *)

(* A list in order, with something later than all of it at the end, is in   *)
(* order.                                                                   *)
LEMMA ListGrows ==
  ASSUME NEW s \in Seq(Nat), NEW S, ListsInOrder(s, S), NEW a \in Nat, \A x \in S : x < a
  PROVE  ListsInOrder(Append(s, a), S \cup {a})
<1> DEFINE n == Len(s)
           t == Append(s, a)
<1>1. /\ n \in Nat /\ DOMAIN s = 1 .. n /\ DOMAIN t = 1 .. n + 1 /\ t[n + 1] = a
      /\ \A i \in 1 .. n : t[i] = s[i] /\ s[i] \in Nat
  OBVIOUS
<1>2. S = {s[i] : i \in 1 .. n} /\ \A i, j \in 1 .. n : i < j => s[i] < s[j]
  BY <1>1 DEF ListsInOrder, ToSet
<1> HIDE DEF n, t
<1>3. \A i : i \in 1 .. n + 1 <=> i \in 1 .. n \/ i = n + 1
  BY <1>1
<1>4. {t[i] : i \in 1 .. n + 1} = S \cup {a}
  BY <1>1, <1>2, <1>3
<1>5. ASSUME NEW i \in 1 .. n + 1, NEW j \in 1 .. n + 1, i < j
      PROVE  t[i] < t[j]
  <2>1. i \in 1 .. n
    BY <1>1, <1>5
  <2> QED BY <1>1, <1>2, <1>3, <1>5, <2>1
<1> QED BY <1>1, <1>4, <1>5 DEF ListsInOrder, ToSet, t

(* The containers that are open, and what they have been given.             *)
ValuesOf(kind) == IF kind = "mapping" THEN Seq(Nat \X Nat) ELSE Seq(Nat)
Containers ==
  {c \in [kind : Collections, at : Nat, values : Seq(Nat) \cup Seq(Nat \X Nat), key : Nat] :
     c.values \in ValuesOf(c.kind) /\ (c.kind = "sequence" => c.key = NoNode)}
Filled(c) == Held(c) \o Pending(c)

(* The entries of a mapping are pairs, which FlattenSeq takes for           *)
(* sequences.                                                               *)
LEMMA PairsAreSequences ==
  ASSUME NEW s \in Seq(Nat \X Nat)
  PROVE  s \in Seq(Seq(Nat))
<1>1. Len(s) \in Nat /\ s = [i \in 1 .. Len(s) |-> s[i]] /\ \A i \in 1 .. Len(s) : s[i] \in Nat \X Nat
  OBVIOUS
<1>2. ASSUME NEW i \in 1 .. Len(s)
      PROVE  s[i] \in Seq(Nat)
  <2>1. PICK a, b \in Nat : s[i] = <<a, b>>
    BY <1>1
  <2> QED BY <2>1
<1> QED BY <1>1, <1>2

(* What a container holds is a sequence of positions, whatever its kind.    *)
LEMMA HeldIsSequence ==
  ASSUME NEW c, c.values \in ValuesOf(c.kind)
  PROVE  Held(c) \in Seq(Nat)
BY PairsAreSequences, FlattenElements DEF Held, ValuesOf

(* Attach adds one node at the end of what a container holds, pending key   *)
(* included.                                                                *)
LEMMA AttachFills ==
  ASSUME NEW c \in Containers, NEW at \in Nat \ {NoNode}
  PROVE  /\ Attach(c, at) \in Containers
         /\ Attach(c, at).kind = c.kind /\ Attach(c, at).at = c.at
         /\ Filled(c) \in Seq(Nat)
         /\ Filled(Attach(c, at)) = Append(Filled(c), at)
<1> DEFINE d == Attach(c, at)
<1>1. /\ c = [kind |-> c.kind, at |-> c.at, values |-> c.values, key |-> c.key]
      /\ c.kind \in Collections /\ c.at \in Nat /\ c.values \in ValuesOf(c.kind) /\ c.key \in Nat
      /\ c.kind = "sequence" => c.key = NoNode
  BY DEF Containers
<1>2. Held(c) \in Seq(Nat) /\ Pending(c) \in Seq(Nat) /\ Filled(c) \in Seq(Nat)
  <2>1. Held(c) \in Seq(Nat)
    BY <1>1, HeldIsSequence
  <2>2. Pending(c) \in Seq(Nat)
    BY <1>1 DEF Pending
  <2> QED BY <2>1, <2>2, ConcatProperties DEF Filled
<1>3. CASE c.kind = "sequence"
  <2>1. d = [kind |-> c.kind, at |-> c.at, values |-> Append(c.values, at), key |-> c.key]
    BY <1>1, <1>3 DEF Attach
  <2>2. c.values \in Seq(Nat) /\ Append(c.values, at) \in Seq(Nat)
    BY <1>1, <1>3 DEF ValuesOf
  <2>3. d \in Containers
    <3> HIDE DEF d
    <3> QED BY <1>1, <1>3, <2>1, <2>2 DEF Containers, ValuesOf
  <2>4. Filled(c) = c.values /\ Filled(d) = Append(c.values, at)
    <3> HIDE DEF d
    <3>1. Held(c) = c.values /\ Pending(c) = <<>> /\ Held(d) = Append(c.values, at) /\ Pending(d) = <<>>
      BY <1>1, <1>3, <2>1 DEF Held, Pending
    <3> QED BY <2>2, <3>1, ConcatEmptySeq DEF Filled
  <2>7. d.kind = c.kind /\ d.at = c.at
    BY <2>1
  <2> HIDE DEF d
  <2> QED BY <1>2, <2>3, <2>4, <2>7 DEF d
<1>4. CASE c.kind = "mapping" /\ c.key = NoNode
  <2>1. d = [kind |-> c.kind, at |-> c.at, values |-> c.values, key |-> at]
    BY <1>1, <1>4 DEF Attach
  <2>2. d \in Containers
    <3> HIDE DEF d
    <3> QED BY <1>1, <1>4, <2>1 DEF Containers, ValuesOf
  <2>3. Filled(c) = Held(c) /\ Filled(d) = Append(Held(c), at)
    <3> HIDE DEF d
    <3>1. Held(d) = Held(c) /\ Pending(c) = <<>> /\ Pending(d) = <<at>>
      BY <1>1, <1>4, <2>1 DEF Held, Pending
    <3>2. Held(c) \o <<at>> = Append(Held(c), at)
      BY <1>2
    <3> QED BY <1>2, <3>1, <3>2, ConcatEmptySeq DEF Filled
  <2>7. d.kind = c.kind /\ d.at = c.at
    BY <2>1
  <2> HIDE DEF d
  <2> QED BY <1>2, <2>2, <2>3, <2>7 DEF d
<1>5. CASE c.kind = "mapping" /\ c.key # NoNode
  <2> DEFINE pair == <<c.key, at>>
  <2>1. d = [kind |-> c.kind, at |-> c.at, values |-> Append(c.values, pair), key |-> NoNode]
    BY <1>1, <1>5 DEF Attach
  <2>2. c.values \in Seq(Nat \X Nat) /\ pair \in Nat \X Nat /\ Append(c.values, pair) \in Seq(Nat \X Nat)
    BY <1>1, <1>5 DEF ValuesOf
  <2>3. d \in Containers
    <3> HIDE DEF d
    <3>1. NoNode \in Nat
      BY DEF NoNode
    <3> QED BY <1>1, <1>5, <2>1, <2>2, <3>1 DEF Containers, ValuesOf
  <2>4. Held(d) = Held(c) \o pair
    <3>1. c.values \in Seq(Seq(Nat)) /\ pair \in Seq(Nat)
      BY <1>1, <2>2, PairsAreSequences
    <3>2. FlattenSeq(Append(c.values, pair)) = FlattenSeq(c.values) \o pair
      BY <3>1, FlattenAppend
    <3>3. d.kind = "mapping" /\ d.values = Append(c.values, pair)
      BY <1>5, <2>1
    <3> HIDE DEF d, pair
    <3> QED BY <1>5, <3>2, <3>3 DEF Held
  <2>5. Filled(d) = Held(d) /\ Filled(c) = Held(c) \o <<c.key>>
    <3> HIDE DEF d
    <3>1. Held(d) \in Seq(Nat)
      <4>1. d.values \in ValuesOf(d.kind)
        BY <2>3 DEF Containers
      <4> QED BY <4>1, HeldIsSequence
    <3>2. Pending(d) = <<>> /\ Pending(c) = <<c.key>>
      BY <1>5, <2>1 DEF Pending
    <3> QED BY <3>1, <3>2, ConcatEmptySeq DEF Filled
  <2>6. Held(c) \o pair = Append(Held(c) \o <<c.key>>, at)
    BY <1>1, <1>2
  <2>7. d.kind = c.kind /\ d.at = c.at
    BY <2>1
  <2> HIDE DEF d
  <2> QED BY <1>2, <2>3, <2>4, <2>5, <2>6, <2>7 DEF d
<1> QED BY <1>1, <1>3, <1>4, <1>5 DEF Collections

(* The open collections are listed from the outermost to the one that is read. *)
Ats(open) == [i \in DOMAIN open |-> open[i].at]

(* The top of the stack of containers is the innermost collection that is   *)
(* open.                                                                    *)
LEMMA TopIsInnermost ==
  ASSUME NEW open \in Seq(Containers), NEW n \in Nat, NEW o \in SUBSET (1 .. n), ListsInOrder(Ats(open), o)
  PROVE  /\ open = <<>> <=> o = {}
         /\ open # <<>> => /\ Last(open).at = Max(o)
                           /\ Front(open) \in Seq(Containers)
                           /\ ListsInOrder(Ats(Front(open)), o \ {Max(o)})
<1> DEFINE m == Len(open)
           at(i) == open[i].at
<1>1. m \in Nat /\ DOMAIN open = 1 .. m /\ (open = <<>> <=> m = 0)
  OBVIOUS
<1>2. o = {at(i) : i \in 1 .. m} /\ \A i, j \in 1 .. m : i < j => at(i) < at(j)
  BY <1>1 DEF ListsInOrder, ToSet, Ats
<1>3. open = <<>> <=> o = {}
  <2>1. m = 0 <=> 1 .. m = {}
    BY <1>1
  <2> HIDE DEF m
  <2> QED BY <1>1, <1>2, <2>1
<1>4. CASE m # 0
  <2> HIDE DEF m
  <2>1. m \in 1 .. m /\ \A i \in 1 .. m : i = m \/ (i \in 1 .. m - 1 /\ i < m)
    BY <1>1, <1>4
  <2>2. o \subseteq 0 .. n /\ o # {}
    BY <1>1, <1>3, <1>4
  <2>3. Max(o) \in o /\ \A y \in o : Max(o) >= y
    BY <2>2, MaxOfBounded
  <2> HIDE DEF at
  <2>4. at(m) = Max(o)
    <3>1. at(m) \in o /\ at(m) \in Nat /\ Max(o) \in Nat /\ Max(o) >= at(m)
      <4>1. at(m) \in o
        BY <1>2, <2>1
      <4>2. o \subseteq Nat
        BY <2>2
      <4> QED BY <2>3, <4>1, <4>2
    <3>2. PICK i \in 1 .. m : Max(o) = at(i)
      BY <1>2, <2>3
    <3>3. i < m => at(i) < at(m)
      BY <1>2, <2>1
    <3> QED BY <2>1, <3>1, <3>2, <3>3
  <2>5. /\ Front(open) \in Seq(Containers) /\ DOMAIN Front(open) = 1 .. m - 1
        /\ \A i \in 1 .. m - 1 : Front(open)[i] = open[i]
    BY <1>1, <1>4 DEF Front, m
  <2>6. \A i \in 1 .. m - 1 : i \in 1 .. m /\ i < m
    BY <1>1
  <2>7. {at(i) : i \in 1 .. m - 1} = o \ {Max(o)}
    <3>1. \A i \in 1 .. m - 1 : at(i) \in o /\ at(i) # at(m)
      <4>1. \A x, y \in o : x < y => x # y
        BY <2>2
      <4> QED BY <1>2, <2>1, <2>6, <4>1
    <3>2. \A x \in o \ {at(m)} : \E i \in 1 .. m - 1 : x = at(i)
      BY <1>2, <2>1
    <3> QED BY <2>4, <3>1, <3>2
  <2>8. ListsInOrder(Ats(Front(open)), o \ {Max(o)})
    <3>1. Ats(Front(open)) = [i \in 1 .. m - 1 |-> at(i)]
      BY <2>5 DEF Ats, at
    <3>2. \A i, j \in 1 .. m - 1 : i < j => at(i) < at(j)
      BY <1>2, <2>6
    <3> QED BY <2>7, <3>1, <3>2 DEF ListsInOrder, ToSet
  <2> QED BY <1>3, <2>4, <2>5, <2>8 DEF Last, m, at
<1> QED BY <1>1, <1>3, <1>4
------------------------------------------------------------------------------
(* What the events say of the tree, for any events, with the nodes of u     *)
(* unfinished and the collections of o open.                                *)
BeginsIn(e) == {p \in DOMAIN e : e[p].kind \in {"scalar", "alias"} \cup Collections}
OutermostIn(e, f) == {p \in BeginsIn(e) : f[p - 1] = {}}
InsideIn(e, f, c) == {p \in BeginsIn(e) : f[p - 1] # {} /\ Max(f[p - 1]) = c}

ReadAs(e, f, node, p) ==
  IF e[p].kind \in Collections
    THEN /\ node.kind = e[p].kind /\ node.values \in ValuesOf(node.kind)
         /\ ListsInOrder(Held(node), InsideIn(e, f, p))
    ELSE node = e[p]

Reads(e, f, o, u, ns, open, top) ==
  /\ DOMAIN ns = BeginsIn(e) \ u
  /\ top \in Nat /\ {top} \ {NoNode} = OutermostIn(e, f) \ u
  /\ \A p \in DOMAIN ns : ReadAs(e, f, ns[p], p)
  /\ open \in Seq(Containers)
  /\ ListsInOrder(Ats(open), o)
  /\ \A i \in DOMAIN open : /\ open[i].kind = e[open[i].at].kind
                            /\ ListsInOrder(Filled(open[i]), InsideIn(e, f, open[i].at) \ u)

(* The finished nodes, with one more; the containers, when it is given to the last. *)
Pushed(ns, at, node) == [p \in DOMAIN ns \cup {at} |-> IF p = at THEN node ELSE ns[p]]
GivenTo(open, at) == IF open = <<>> THEN open ELSE [open EXCEPT ![Len(open)] = Attach(@, at)]

(* PushNode gives a node to the container that is read, or makes it the root. *)
LEMMA PushKeepsReading ==
  ASSUME NEW e, NEW f, NEW n \in Nat, NEW o \in SUBSET (1 .. n), NEW ns, NEW open, NEW top,
         NEW at \in Nat \ {NoNode}, NEW node,
         Reads(e, f, o, o \cup {at}, ns, open, top),
         at \in BeginsIn(e) \ o, ReadAs(e, f, node, at),
         o = {} => at \in OutermostIn(e, f) /\ top = NoNode,
         o # {} => /\ at \in InsideIn(e, f, Max(o))
                   /\ \A x \in InsideIn(e, f, Max(o)) \ o : x # at => x < at
  PROVE  Reads(e, f, o, o, Pushed(ns, at, node), GivenTo(open, at), IF open = <<>> THEN at ELSE top)
<1> USE DEF Pushed, GivenTo
<1> DEFINE pushed == Pushed(ns, at, node)
           given == GivenTo(open, at)
           u == o \cup {at}
           newTop == IF open = <<>> THEN at ELSE top
<1>1. /\ DOMAIN ns = BeginsIn(e) \ u
      /\ top \in Nat /\ {top} \ {NoNode} = OutermostIn(e, f) \ u
      /\ \A p \in DOMAIN ns : ReadAs(e, f, ns[p], p)
      /\ open \in Seq(Containers)
      /\ ListsInOrder(Ats(open), o)
      /\ \A i \in DOMAIN open : /\ open[i].kind = e[open[i].at].kind
                                /\ ListsInOrder(Filled(open[i]), InsideIn(e, f, open[i].at) \ u)
  BY DEF Reads
<1>2. /\ open = <<>> <=> o = {}
      /\ open # <<>> => Last(open).at = Max(o)
  BY <1>1, TopIsInnermost
<1>3. DOMAIN pushed = BeginsIn(e) \ o
  BY <1>1
<1>4. newTop \in Nat /\ {newTop} \ {NoNode} = OutermostIn(e, f) \ o
  <2>1. CASE o = {}
    BY <1>1, <1>2, <2>1
  <2>2. CASE o # {}
    <3>1. at \notin OutermostIn(e, f)
      BY <2>2 DEF OutermostIn, InsideIn
    <3> QED BY <1>1, <1>2, <2>2, <3>1
  <2> QED BY <2>1, <2>2
<1>5. \A p \in DOMAIN pushed : ReadAs(e, f, pushed[p], p)
  BY <1>1
<1>6. CASE o = {}
  <2>1. given = open /\ open = <<>> /\ DOMAIN open = {}
    BY <1>2, <1>6
  <2> HIDE DEF pushed, given, newTop
  <2>2. Reads(e, f, o, o, pushed, given, newTop)
    BY <1>1, <1>3, <1>4, <1>5, <2>1 DEF Reads
  <2> QED BY <2>2 DEF pushed, given, newTop
<1>7. CASE o # {}
  <2> DEFINE m == Len(open)
  <2>1. m \in Nat /\ m \in 1 .. m /\ DOMAIN open = 1 .. m /\ open # <<>> /\ \A i \in 1 .. m : open[i] \in Containers
    <3>1. open # <<>> /\ open \in Seq(Containers)
      BY <1>1, <1>2, <1>7
    <3>2. m \in Nat /\ m # 0 /\ DOMAIN open = 1 .. m /\ \A i \in 1 .. m : open[i] \in Containers
      BY <3>1
    <3>3. m \in 1 .. m
      BY <3>2
    <3> QED BY <3>1, <3>2, <3>3
  <2> DEFINE c == open[m]
             d == Attach(c, at)
  <2>2. given = [open EXCEPT ![m] = d]
    BY <2>1
  <2>3. /\ d \in Containers /\ d.kind = c.kind /\ d.at = c.at /\ Filled(c) \in Seq(Nat)
        /\ Filled(d) = Append(Filled(c), at)
    <3>1. c \in Containers
      BY <2>1
    <3> HIDE DEF c
    <3> QED BY <3>1, AttachFills
  <2> HIDE DEF d
  <2>4. /\ given \in Seq(Containers) /\ DOMAIN given = 1 .. m
        /\ given[m] = d /\ \A i \in 1 .. m : i # m => given[i] = open[i]
    <3> HIDE DEF given
    <3> QED BY <1>1, <2>1, <2>2, <2>3
  <2>5. \A i \in 1 .. m : given[i].at = open[i].at /\ given[i].kind = open[i].kind
    BY <2>3, <2>4
  <2> HIDE DEF given, m
  <2>6. Ats(given) = Ats(open)
    BY <2>1, <2>4, <2>5 DEF Ats
  <2>7. c.at = Max(o) /\ at \in InsideIn(e, f, Max(o))
    BY <1>2, <1>7, <2>1 DEF Last, m
  <2>8. ASSUME NEW i \in 1 .. m
        PROVE  ListsInOrder(Filled(given[i]), InsideIn(e, f, given[i].at) \ o)
    <3>1. CASE i = m
      <4> DEFINE S == InsideIn(e, f, c.at) \ u
      <4>1. ListsInOrder(Filled(c), S)
        BY <1>1, <2>1
      <4>2. \A x \in S : x < at
        BY <1>7, <2>7
      <4>3. S \cup {at} = InsideIn(e, f, c.at) \ o
        BY <2>7
      <4> HIDE DEF S
      <4>4. ListsInOrder(Append(Filled(c), at), S \cup {at})
        BY <2>3, <4>1, <4>2, ListGrows
      <4>5. given[i] = d
        BY <2>4, <3>1
      <4> QED BY <2>3, <4>3, <4>4, <4>5
    <3>2. CASE i # m
      <4>1. i < m
        BY <2>1, <3>2
      <4>2. open[i].at < open[m].at /\ open[i].at \in Nat /\ open[m].at \in Nat
        <5>1. open[i].at < open[m].at
          BY <1>1, <2>1, <4>1 DEF ListsInOrder, Ats
        <5> QED BY <2>1, <5>1 DEF Containers
      <4>3. at \notin InsideIn(e, f, open[i].at)
        <5>1. open[i].at # Max(o)
          BY <2>7, <4>2
        <5> QED BY <2>7, <5>1 DEF InsideIn
      <4>4. InsideIn(e, f, open[i].at) \ u = InsideIn(e, f, open[i].at) \ o
        BY <4>3
      <4> QED BY <1>1, <2>1, <2>4, <3>2, <4>4
    <3> QED BY <3>1, <3>2
  <2> HIDE DEF pushed, newTop, c
  <2>9. Reads(e, f, o, o, pushed, given, newTop)
    BY <1>1, <1>3, <1>4, <1>5, <2>1, <2>4, <2>5, <2>6, <2>8 DEF Reads
  <2> QED BY <2>9 DEF pushed, given, newTop
<1> QED BY <1>6, <1>7
------------------------------------------------------------------------------
Begun(v) == v.kind \in {"scalar", "alias"} \cup Collections

(* What an event more adds to what is inside of what.                       *)
Grown(e, v, f, g) ==
  LET u == Append(e, v)
      n == Len(e) + 1
      new == IF Begun(v) THEN {n} ELSE {}
  IN  /\ BeginsIn(u) = BeginsIn(e) \cup new
      /\ \A p \in BeginsIn(e) : u[p] = e[p] /\ p < n
      /\ \A c : InsideIn(u, g, c) = InsideIn(e, f, c)
                   \cup (IF f[n - 1] # {} /\ Max(f[n - 1]) = c THEN new ELSE {})
      /\ OutermostIn(u, g) = OutermostIn(e, f) \cup (IF f[n - 1] = {} THEN new ELSE {})

(* An event that begins a node is inside the innermost open collection, or  *)
(* outermost; any other adds no node.                                       *)
LEMMA EventAdds ==
  ASSUME NEW X, NEW e \in Seq(X), NEW v \in X
  PROVE  Grown(e, v, Openings(e), Openings(Append(e, v)))
<1> DEFINE u == Append(e, v)
           n == Len(e)
           f == Openings(e)
           g == Openings(u)
           new == IF Begun(v) THEN {n + 1} ELSE {}
<1>1. /\ n \in Nat /\ DOMAIN e = 1 .. n /\ DOMAIN u = 1 .. n + 1 /\ u[n + 1] = v
      /\ \A i \in 1 .. n : u[i] = e[i]
  OBVIOUS
<1>2. \A m \in 0 .. n : g[m] = f[m]
  BY OpenGrows DEF GrownBy
<1> HIDE DEF u, f, g, n
<1>3. \A i : i \in 1 .. n + 1 <=> i \in 1 .. n \/ i = n + 1
  BY <1>1
<1>4. BeginsIn(u) = BeginsIn(e) \cup new
  BY <1>1, <1>3 DEF BeginsIn, Begun
<1>5. \A p \in BeginsIn(e) : u[p] = e[p] /\ p < n + 1 /\ g[p - 1] = f[p - 1]
  <2>1. \A p \in 1 .. n : p - 1 \in 0 .. n /\ p < n + 1
    BY <1>1
  <2>2. BeginsIn(e) \subseteq 1 .. n
    BY <1>1 DEF BeginsIn
  <2> QED BY <1>1, <1>2, <2>1, <2>2
<1>6. g[(n + 1) - 1] = f[(n + 1) - 1] /\ (n + 1) - 1 = n
  BY <1>1, <1>2
<1>7. \A c : InsideIn(u, g, c) = InsideIn(e, f, c)
                \cup (IF f[n] # {} /\ Max(f[n]) = c THEN new ELSE {})
  <2> TAKE c
  <2>1. \A p \in BeginsIn(u) : p \in BeginsIn(e) \/ (p \in new /\ p = n + 1)
    BY <1>4
  <2>2. \A p \in BeginsIn(e) : p \in InsideIn(u, g, c) <=> p \in InsideIn(e, f, c)
    BY <1>4, <1>5 DEF InsideIn
  <2>3. \A p \in new : p \in InsideIn(u, g, c) <=> f[n] # {} /\ Max(f[n]) = c
    BY <1>4, <1>6 DEF InsideIn
  <2>4. InsideIn(u, g, c) \subseteq BeginsIn(u) /\ InsideIn(e, f, c) \subseteq BeginsIn(e)
    BY DEF InsideIn
  <2> HIDE DEF new
  <2> QED BY <1>4, <2>1, <2>2, <2>3, <2>4
<1>8. OutermostIn(u, g) = OutermostIn(e, f) \cup (IF f[n] = {} THEN new ELSE {})
  <2>1. \A p \in BeginsIn(u) : p \in BeginsIn(e) \/ (p \in new /\ p = n + 1)
    BY <1>4
  <2>2. \A p \in BeginsIn(e) : p \in OutermostIn(u, g) <=> p \in OutermostIn(e, f)
    BY <1>4, <1>5 DEF OutermostIn
  <2>3. \A p \in new : p \in OutermostIn(u, g) <=> f[n] = {}
    BY <1>4, <1>6 DEF OutermostIn
  <2>4. OutermostIn(u, g) \subseteq BeginsIn(u) /\ OutermostIn(e, f) \subseteq BeginsIn(e)
    BY DEF OutermostIn
  <2> HIDE DEF new
  <2> QED BY <1>4, <2>1, <2>2, <2>3, <2>4
<1> HIDE DEF new
<1>9. Grown(e, v, f, g)
  BY <1>4, <1>5, <1>6, <1>7, <1>8 DEF Grown, new, u, n
<1> QED BY <1>9 DEF f, g, u

(* Before it is handled, an event is a node that is not finished at most.   *)
LEMMA EventKeepsReading ==
  ASSUME NEW X, NEW e \in Seq(X), NEW v \in X, NEW ns, NEW open, NEW top,
         NEW o, o = Openings(e)[Len(e)], o \subseteq 1 .. Len(e),
         Reads(e, Openings(e), o, o, ns, open, top)
  PROVE  Reads(Append(e, v), Openings(Append(e, v)), o, o \cup {Len(e) + 1}, ns, open, top)
<1> DEFINE u == Append(e, v)
           n == Len(e) + 1
           f == Openings(e)
           g == Openings(u)
           new == IF Begun(v) THEN {n} ELSE {}
<1>1. n - 1 = Len(e) /\ n \in Nat /\ Len(e) \in Nat
  OBVIOUS
<1>2. /\ BeginsIn(u) = BeginsIn(e) \cup new
      /\ \A p \in BeginsIn(e) : u[p] = e[p] /\ p < n
      /\ \A c : InsideIn(u, g, c) = InsideIn(e, f, c) \cup (IF o # {} /\ Max(o) = c THEN new ELSE {})
      /\ OutermostIn(u, g) = OutermostIn(e, f) \cup (IF o = {} THEN new ELSE {})
  <2>1. Grown(e, v, f, g)
    BY EventAdds
  <2> QED BY <1>1, <2>1 DEF Grown
<1>3. o # {} => Max(o) \in o
  <2>1. o \subseteq 0 .. Len(e)
    BY <1>1
  <2> QED BY <1>1, <2>1, MaxOfBounded
<1>4. new \subseteq {n}
  OBVIOUS
<1>5. /\ DOMAIN ns = BeginsIn(e) \ o
      /\ top \in Nat /\ {top} \ {NoNode} = OutermostIn(e, f) \ o
      /\ \A p \in DOMAIN ns : ReadAs(e, f, ns[p], p)
      /\ open \in Seq(Containers)
      /\ ListsInOrder(Ats(open), o)
      /\ \A i \in DOMAIN open : /\ open[i].kind = e[open[i].at].kind
                                /\ ListsInOrder(Filled(open[i]), InsideIn(e, f, open[i].at) \ o)
  BY DEF Reads
<1>6. n \notin BeginsIn(e)
  <2>1. DOMAIN e = 1 .. Len(e)
    OBVIOUS
  <2> QED BY <1>1, <2>1 DEF BeginsIn
<1>7. \A i \in DOMAIN open : open[i].at \in o /\ u[open[i].at] = e[open[i].at]
  <2>1. \A i \in DOMAIN open : open[i].at \in o
    BY <1>5 DEF ListsInOrder, ToSet, Ats
  <2>2. \A p \in o : u[p] = e[p]
    <3>1. o \subseteq 1 .. Len(e)
      OBVIOUS
    <3> HIDE DEF f
    <3> QED BY <3>1 DEF u
  <2> QED BY <2>1, <2>2
<1> HIDE DEF u, f, g, n, new
<1>8. DOMAIN ns = BeginsIn(u) \ (o \cup {n})
  BY <1>2, <1>4, <1>5, <1>6
<1>9. {top} \ {NoNode} = OutermostIn(u, g) \ (o \cup {n})
  <2>1. n \notin OutermostIn(e, f)
    BY <1>6 DEF OutermostIn
  <2> QED BY <1>2, <1>4, <1>5, <2>1
<1>10. ASSUME NEW p \in DOMAIN ns
       PROVE  ReadAs(u, g, ns[p], p)
  <2>1. p \in BeginsIn(e) /\ p \notin o
    BY <1>5
  <2>2. u[p] = e[p] /\ InsideIn(u, g, p) = InsideIn(e, f, p)
    BY <1>2, <1>3, <2>1
  <2>3. ReadAs(e, f, ns[p], p)
    BY <1>5
  <2> QED BY <2>2, <2>3 DEF ReadAs
<1>11. ASSUME NEW c
       PROVE  InsideIn(u, g, c) \ (o \cup {n}) = InsideIn(e, f, c) \ o
  <2>1. n \notin InsideIn(e, f, c)
    BY <1>6 DEF InsideIn
  <2> QED BY <1>2, <1>4, <2>1
<1>12. Reads(u, g, o, o \cup {n}, ns, open, top)
  BY <1>5, <1>7, <1>8, <1>9, <1>10, <1>11 DEF Reads
<1> QED BY <1>12 DEF u, g, n
------------------------------------------------------------------------------
(* One event read: leaves, marks and starts of collections.                 *)

(* Only collections that have begun are open, after any number of events.   *)
LEMMA OpenIsBounded ==
  ASSUME NEW X, NEW e \in Seq(X)
  PROVE  /\ \A n \in 0 .. Len(e) : NestsAt(Openings(e), e, n)
         /\ Openings(e)[Len(e)] \subseteq 1 .. Len(e)
<1>1. Len(e) \in Nat /\ Len(e) \in 0 .. Len(e)
  OBVIOUS
<1>2. Opens(Openings(e), e)
  BY OpeningsExist
<1>3. \A n \in 0 .. Len(e) : NestsAt(Openings(e), e, n)
  BY <1>1, <1>2, OpenNests
<1> QED BY <1>1, <1>3 DEF NestsAt

(* The tree is what was read, with the collections open that are.           *)
ReadNow(e) == Openings(e)[Len(e)]
ReadsNow(e, ns, open, top) == Reads(e, Openings(e), ReadNow(e), ReadNow(e), ns, open, top)

(* A leaf: it is finished as soon as it is read.                            *)
LEMMA LeafKeepsReading ==
  ASSUME NEW X, NEW e \in Seq(X), NEW v \in X, NEW ns, NEW open, NEW top, v.kind \in {"scalar", "alias"},
         ReadsNow(e, ns, open, top),
         open = <<>> => top = NoNode
  PROVE  ReadsNow(Append(e, v), Pushed(ns, Len(e) + 1, v), GivenTo(open, Len(e) + 1),
                  IF open = <<>> THEN Len(e) + 1 ELSE top)
<1> DEFINE o == ReadNow(e)
           at == Len(e) + 1
           u == Append(e, v)
           g == Openings(u)
           f == Openings(e)
<1> HIDE DEF o
<1>0. o = Openings(e)[Len(e)] /\ Reads(e, Openings(e), o, o, ns, open, top)
  BY DEF ReadsNow, ReadNow, o
<1>1. /\ Len(e) \in Nat /\ at \in Nat \ {NoNode} /\ at - 1 = Len(e) /\ Len(u) = at /\ u[at] = v
      /\ at \in DOMAIN u
  BY DEF NoNode
<1>2. o \subseteq 1 .. Len(e) /\ o \subseteq 1 .. at
  <2>1. o \subseteq 1 .. Len(e)
    BY <1>0, OpenIsBounded
  <2> QED BY <1>1, <2>1
<1>3. v.kind \notin Collections /\ v.kind # "end" /\ Begun(v)
  BY DEF Collections, Begun
<1>4. g[at] = o
  BY <1>0, <1>1, <1>3, OpenGrows DEF GrownBy
<1>5. Reads(u, g, o, o \cup {at}, ns, open, top)
  BY <1>0, <1>2, EventKeepsReading
<1>6. /\ BeginsIn(u) = BeginsIn(e) \cup {at}
      /\ \A p \in BeginsIn(e) : p < at
      /\ \A c : InsideIn(u, g, c) = InsideIn(e, f, c) \cup (IF o # {} /\ Max(o) = c THEN {at} ELSE {})
      /\ OutermostIn(u, g) = OutermostIn(e, f) \cup (IF o = {} THEN {at} ELSE {})
  <2>1. Grown(e, v, f, g)
    BY EventAdds
  <2> QED BY <1>0, <1>1, <1>3, <2>1 DEF Grown
<1>7. open = <<>> <=> o = {}
  <2>1. open \in Seq(Containers) /\ ListsInOrder(Ats(open), o) /\ o \in SUBSET (1 .. Len(e))
    BY <1>0, <1>2 DEF Reads
  <2> QED BY <1>1, <2>1, TopIsInnermost
<1>8. at \in BeginsIn(u) \ o /\ ReadAs(u, g, v, at)
  <2>1. at \notin o
    BY <1>1, <1>2
  <2> HIDE DEF u, at
  <2> QED BY <1>1, <1>3, <1>6, <2>1 DEF ReadAs
<1>9. o = {} => at \in OutermostIn(u, g) /\ top = NoNode
  BY <1>6, <1>7
<1>10. o # {} => /\ at \in InsideIn(u, g, Max(o))
                 /\ \A x \in InsideIn(u, g, Max(o)) \ o : x # at => x < at
  BY <1>6 DEF InsideIn
<1>11. o \in SUBSET (1 .. at) /\ at \in Nat
  BY <1>1, <1>2
<1>12. Reads(u, g, o, o, Pushed(ns, at, v), GivenTo(open, at), IF open = <<>> THEN at ELSE top)
  <2> HIDE DEF u, g, at, f
  <2> QED BY <1>1, <1>5, <1>8, <1>9, <1>10, <1>11, PushKeepsReading
<1> QED BY <1>1, <1>4, <1>12 DEF ReadsNow, ReadNow

(* The marks of a document.                                                 *)
LEMMA MarkKeepsReading ==
  ASSUME NEW X, NEW e \in Seq(X), NEW v \in X, NEW ns, NEW open, NEW top,
         ~ Begun(v), v.kind # "end",
         ReadsNow(e, ns, open, top)
  PROVE  ReadsNow(Append(e, v), ns, open, top)
<1> DEFINE o == ReadNow(e)
           at == Len(e) + 1
           u == Append(e, v)
           g == Openings(u)
<1> HIDE DEF o
<1>0. o = Openings(e)[Len(e)] /\ Reads(e, Openings(e), o, o, ns, open, top)
  BY DEF ReadsNow, ReadNow, o
<1>1. Len(e) \in Nat /\ at - 1 = Len(e) /\ Len(u) = at /\ at \in DOMAIN u /\ u[at] = v
  OBVIOUS
<1>2. o \subseteq 1 .. Len(e)
  BY <1>0, OpenIsBounded
<1>3. g[at] = o
  BY <1>0, <1>1, OpenGrows DEF Begun, GrownBy
<1>4. Reads(u, g, o, o \cup {at}, ns, open, top)
  BY <1>0, <1>2, EventKeepsReading
<1>5. at \notin BeginsIn(u)
  BY <1>1 DEF BeginsIn, Begun
<1>6. Reads(u, g, o, o, ns, open, top)
  <2> HIDE DEF u, g, at
  <2>1. BeginsIn(u) \ (o \cup {at}) = BeginsIn(u) \ o
    BY <1>5
  <2>2. OutermostIn(u, g) \ (o \cup {at}) = OutermostIn(u, g) \ o
    BY <1>5 DEF OutermostIn
  <2>3. \A c : InsideIn(u, g, c) \ (o \cup {at}) = InsideIn(u, g, c) \ o
    BY <1>5 DEF InsideIn
  <2> QED BY <1>4, <2>1, <2>2, <2>3 DEF Reads
<1> QED BY <1>1, <1>3, <1>6 DEF ReadsNow, ReadNow

(* A collection begins: it is open, and unfinished.                         *)
Started(open, kind, at) ==
  Append(open, [kind |-> kind, at |-> at, values |-> <<>>, key |-> NoNode])

(* The start of a collection opens a container that holds nothing yet.      *)
LEMMA StartKeepsReading ==
  ASSUME NEW X, NEW e \in Seq(X), NEW v \in X, NEW ns, NEW open, NEW top, v.kind \in Collections,
         ReadsNow(e, ns, open, top)
  PROVE  ReadsNow(Append(e, v), ns, Started(open, v.kind, Len(e) + 1), top)
<1> DEFINE o == ReadNow(e)
           at == Len(e) + 1
           u == Append(e, v)
           g == Openings(u)
           c == [kind |-> v.kind, at |-> at, values |-> <<>>, key |-> NoNode]
           more == Started(open, v.kind, at)
           m == Len(open)
<1> HIDE DEF o
<1>0. o = Openings(e)[Len(e)] /\ Reads(e, Openings(e), o, o, ns, open, top)
  BY DEF ReadsNow, ReadNow, o
<1>1. Len(e) \in Nat /\ at \in Nat /\ at - 1 = Len(e) /\ Len(u) = at /\ u[at] = v /\ u \in Seq(X)
  OBVIOUS
<1>2. o \subseteq 1 .. Len(e)
  BY <1>0, OpenIsBounded
<1>3. g[at] = o \cup {at}
  BY <1>0, <1>1, OpenGrows DEF GrownBy
<1>4. Reads(u, g, o, o \cup {at}, ns, open, top)
  BY <1>0, <1>2, EventKeepsReading
<1>5. /\ c \in Containers /\ Filled(c) = <<>> /\ c.kind = v.kind /\ c.at = at
  <2>1. <<>> \in Seq(Nat) /\ <<>> \in Seq(Nat \X Nat) /\ NoNode \in Nat
    BY DEF NoNode
  <2>2. c \in Containers
    BY <1>1, <2>1 DEF Containers, ValuesOf
  <2>3. Held(c) = <<>> /\ Pending(c) = <<>>
    <3>1. FlattenSeq(<<>>) = <<>>
      BY DEF FlattenSeq
    <3> QED BY <3>1 DEF Held, Pending
  <2>4. Filled(c) = <<>>
    <3> HIDE DEF c
    <3> QED BY <2>3, <2>1, ConcatEmptySeq DEF Filled
  <2> QED BY <2>2, <2>4
<1>6. InsideIn(u, g, at) = {}
  <2> SUFFICES ASSUME NEW p \in InsideIn(u, g, at) PROVE FALSE
    OBVIOUS
  <2>1. p \in 1 .. at /\ g[p - 1] # {} /\ Max(g[p - 1]) = at
    BY <1>1 DEF InsideIn, BeginsIn
  <2>2. p - 1 \in 0 .. at /\ p - 1 \in Nat /\ p - 1 < at
    BY <1>1, <2>1
  <2>3. g[p - 1] \subseteq 1 .. p - 1
    BY <1>1, <2>2, OpenIsBounded DEF NestsAt
  <2>4. Max(g[p - 1]) \in g[p - 1]
    <3>1. g[p - 1] \subseteq 0 .. p - 1
      BY <2>3
    <3> HIDE DEF g, at, u
    <3> QED BY <2>1, <2>2, <3>1, MaxOfBounded
  <2> QED BY <1>1, <2>1, <2>2, <2>3, <2>4
<1>7. /\ open \in Seq(Containers) /\ ListsInOrder(Ats(open), o)
      /\ \A i \in DOMAIN open : /\ open[i].kind = u[open[i].at].kind
                                /\ ListsInOrder(Filled(open[i]), InsideIn(u, g, open[i].at) \ (o \cup {at}))
  BY <1>4 DEF Reads
<1> HIDE DEF c, u, g, at
<1>8. /\ more \in Seq(Containers) /\ DOMAIN more = 1 .. m + 1 /\ more[m + 1] = c /\ m \in Nat
      /\ \A i \in 1 .. m : more[i] = open[i]
      /\ DOMAIN open = 1 .. m
  BY <1>5, <1>7 DEF Started, c
<1> HIDE DEF more, m
<1>9. \A i : i \in 1 .. m + 1 <=> i \in 1 .. m \/ i = m + 1
  BY <1>8
<1>10. ListsInOrder(Ats(more), o \cup {at})
  <2>1. Ats(more) = Append(Ats(open), at)
    <3>1. /\ Len(Ats(open)) = m /\ Ats(open) \in Seq(Nat)
          /\ \A i \in 1 .. m : Ats(open)[i] = open[i].at
      <4>1. Ats(open) = [i \in 1 .. m |-> open[i].at] /\ \A i \in 1 .. m : open[i].at \in Nat
        BY <1>7, <1>8 DEF Ats, Containers
      <4> QED BY <1>8, <4>1
    <3>2. Ats(more) = [i \in 1 .. m + 1 |-> more[i].at]
      BY <1>8 DEF Ats
    <3>3. \A i \in 1 .. m + 1 : more[i].at = IF i = m + 1 THEN at ELSE Ats(open)[i]
      BY <1>5, <1>8, <1>9, <3>1
    <3>4. DOMAIN Append(Ats(open), at) = 1 .. m + 1
          /\ \A i \in 1 .. m + 1 : Append(Ats(open), at)[i] = IF i = m + 1 THEN at ELSE Ats(open)[i]
      BY <1>1, <1>8, <3>1
    <3>5. Append(Ats(open), at) = [i \in 1 .. m + 1 |-> Append(Ats(open), at)[i]]
      <4> DEFINE s == Append(Ats(open), at)
      <4>1. s \in Seq(Nat) /\ Len(s) = m + 1
        <5>1. Ats(open) \in Seq(Nat) /\ Len(Ats(open)) = m
          BY <3>1
        <5> QED BY <1>1, <5>1, AppendProperties
      <4> HIDE DEF s
      <4>2. s = [i \in 1 .. m + 1 |-> s[i]]
        BY <4>1
      <4> QED BY <4>2 DEF s
    <3> QED BY <3>2, <3>3, <3>4, <3>5
  <2>2. Ats(open) \in Seq(Nat)
    BY <1>7, SMTT(30) DEF Ats, Containers
  <2>3. \A x \in o : x < at
    BY <1>1, <1>2
  <2> QED BY <1>1, <1>7, <2>1, <2>2, <2>3, ListGrows
<1>11. ASSUME NEW i \in 1 .. m + 1
       PROVE  /\ more[i].kind = u[more[i].at].kind
              /\ ListsInOrder(Filled(more[i]), InsideIn(u, g, more[i].at) \ (o \cup {at}))
  <2>1. CASE i \in 1 .. m
    BY <1>7, <1>8, <2>1
  <2>2. CASE i = m + 1
    <3>1. ListsInOrder(<<>>, {})
      BY DEF ListsInOrder, ToSet
    <3>2. InsideIn(u, g, at) \ (o \cup {at}) = {}
      BY <1>6
    <3> QED BY <1>1, <1>5, <1>8, <2>2, <3>1, <3>2
  <2> QED BY <1>9, <2>1, <2>2
<1>12. Reads(u, g, o \cup {at}, o \cup {at}, ns, more, top)
  BY <1>4, <1>8, <1>10, <1>11 DEF Reads
<1> QED BY <1>1, <1>3, <1>12 DEF u, g, at, more, ReadsNow, ReadNow
------------------------------------------------------------------------------
(* The end of a collection: the innermost one is finished.                  *)
LEMMA EndKeepsReading ==
  ASSUME NEW X, NEW e \in Seq(X), NEW v \in X, NEW ns, NEW open, NEW top, v.kind = "end",
         ReadsNow(e, ns, open, top),
         open # <<>>, Last(open).key = NoNode, Front(open) = <<>> => top = NoNode
  PROVE  ReadsNow(Append(e, v),
                  Pushed(ns, Last(open).at, [kind |-> Last(open).kind, values |-> Last(open).values]),
                  GivenTo(Front(open), Last(open).at),
                  IF Front(open) = <<>> THEN Last(open).at ELSE top)
<1> DEFINE o == ReadNow(e)
           at == Len(e) + 1
           u == Append(e, v)
           f == Openings(e)
           g == Openings(u)
           c == Last(open)
           q == Max(o)
           o2 == o \ {q}
           node == [kind |-> c.kind, values |-> c.values]
<1> HIDE DEF o
<1>0. o = Openings(e)[Len(e)] /\ Reads(e, Openings(e), o, o, ns, open, top)
  BY DEF ReadsNow, ReadNow, o
<1>1. Len(e) \in Nat /\ at \in Nat /\ at - 1 = Len(e) /\ Len(u) = at /\ u[at] = v /\ u \in Seq(X)
      /\ DOMAIN u = 1 .. at
  OBVIOUS
<1>2. o \subseteq 1 .. Len(e) /\ NestsAt(f, e, Len(e)) /\ \A n \in 0 .. Len(e) : NestsAt(f, e, n)
  BY <1>0, <1>1, OpenIsBounded
<1>3. v.kind \notin Collections /\ ~ Begun(v)
  BY DEF Collections, Begun
<1>4. g[at] = o2 /\ \A m \in 0 .. Len(e) : g[m] = f[m]
  <2>1. g[at] = f[Len(e)] \ {Max(f[Len(e)])}
    <3>1. GrownBy(f, g, v, Len(e))
      BY OpenGrows
    <3> HIDE DEF f, g
    <3> QED BY <1>3, <3>1 DEF GrownBy
  <2>2. \A m \in 0 .. Len(e) : g[m] = f[m]
    BY OpenGrows, ZenonT(30) DEF GrownBy
  <2>3. f[Len(e)] = o
    BY <1>0
  <2> HIDE DEF f, g, at, u
  <2> QED BY <1>3, <2>1, <2>2, <2>3
<1>5. Reads(u, g, o, o \cup {at}, ns, open, top)
  BY <1>0, <1>2, EventKeepsReading
<1>6. at \notin BeginsIn(u)
  BY <1>1, <1>3 DEF BeginsIn, Begun
<1>7. /\ DOMAIN ns = BeginsIn(u) \ o
      /\ top \in Nat /\ {top} \ {NoNode} = OutermostIn(u, g) \ o
      /\ \A p \in DOMAIN ns : ReadAs(u, g, ns[p], p)
      /\ open \in Seq(Containers)
      /\ ListsInOrder(Ats(open), o)
      /\ \A i \in DOMAIN open : /\ open[i].kind = u[open[i].at].kind
                                /\ ListsInOrder(Filled(open[i]), InsideIn(u, g, open[i].at) \ o)
  <2> HIDE DEF u, g, at, f
  <2>1. BeginsIn(u) \ (o \cup {at}) = BeginsIn(u) \ o
    BY <1>6
  <2>2. OutermostIn(u, g) \ (o \cup {at}) = OutermostIn(u, g) \ o
    BY <1>6 DEF OutermostIn
  <2>3. \A x : InsideIn(u, g, x) \ (o \cup {at}) = InsideIn(u, g, x) \ o
    BY <1>6 DEF InsideIn
  <2> QED BY <1>5, <2>1, <2>2, <2>3 DEF Reads
<1>8. /\ o # {} /\ c.at = q
      /\ Front(open) \in Seq(Containers) /\ ListsInOrder(Ats(Front(open)), o2)
  BY <1>1, <1>2, <1>7, TopIsInnermost
<1>9. q \in o /\ q \in 1 .. Len(e) /\ \A x \in o : x <= q
  <2>1. o \subseteq 0 .. Len(e)
    BY <1>2
  <2> QED BY <1>1, <1>2, <1>8, <2>1, MaxOfBounded
<1>10. Front(open) = <<>> <=> o2 = {}
  BY <1>1, <1>2, <1>8, TopIsInnermost
<1>11. g[q - 1] = o2 /\ f[q - 1] = o2
  <2>1. f[q - 1] = o \cap (1 .. q - 1)
    BY <1>0, <1>2, <1>9 DEF NestsAt
  <2>2. o \cap (1 .. q - 1) = o2
    <3>1. \A x \in o : x \in Nat /\ x >= 1 /\ (x <= q) /\ (x # q => x <= q - 1)
      BY <1>1, <1>2, <1>9
    <3>2. q \in Nat
      BY <1>1, <1>9
    <3> HIDE DEF q
    <3>3. \A x \in o : x # q => x \in 1 .. q - 1
      BY <3>1, <3>2
    <3>4. q \notin 1 .. q - 1
      BY <3>2
    <3> QED BY <3>3, <3>4
  <2>3. q - 1 \in 0 .. Len(e)
    BY <1>1, <1>9
  <2> HIDE DEF f, g, o2, q
  <2> QED BY <1>4, <2>1, <2>2, <2>3
<1>12. ASSUME NEW x \in BeginsIn(u)
       PROVE  /\ x \in 1 .. Len(e) /\ x - 1 \in 0 .. Len(e)
              /\ g[x - 1] = f[x - 1] /\ f[x - 1] \subseteq 1 .. x - 1
              /\ f[x - 1] # {} => /\ Max(f[x - 1]) \in f[x - 1]
                                  /\ \A y \in f[x - 1] : y <= Max(f[x - 1])
  <2>1. x \in 1 .. Len(e) /\ x - 1 \in 0 .. Len(e)
    BY <1>1, <1>6, <1>12 DEF BeginsIn
  <2>2. g[x - 1] = f[x - 1] /\ f[x - 1] \subseteq 1 .. x - 1
    BY <1>2, <1>4, <2>1 DEF NestsAt
  <2>3. f[x - 1] \subseteq 0 .. x - 1 /\ x - 1 \in Nat
    BY <2>1, <2>2
  <2> HIDE DEF f, g, u
  <2> QED BY <2>1, <2>2, <2>3, MaxOfBounded
<1>13. c \in Containers /\ Len(open) \in DOMAIN open /\ c = open[Len(open)]
  BY <1>7 DEF Last
<1> HIDE DEF u, g, f, q, at, c
<1>14. ReadAs(u, g, node, q) /\ u[q].kind = c.kind /\ c.kind \in Collections
  <2>1. /\ c.kind = u[q].kind
        /\ ListsInOrder(Filled(c), InsideIn(u, g, q) \ o)
    BY <1>7, <1>8, <1>13
  <2>2. InsideIn(u, g, q) \ o = InsideIn(u, g, q)
    <3>1. ASSUME NEW x \in InsideIn(u, g, q), x \in o
          PROVE  FALSE
      <4>1. x \in BeginsIn(u) /\ g[x - 1] # {} /\ Max(g[x - 1]) = q
        BY DEF InsideIn
      <4>2. q \in 1 .. x - 1 /\ x \in 1 .. Len(e)
        BY <1>12, <4>1
      <4> QED BY <1>1, <1>9, <3>1, <4>2
    <3> QED BY <3>1
  <2>3. c.kind \in Collections /\ c.values \in ValuesOf(c.kind)
    BY <1>13 DEF Containers
  <2>4. Filled(c) = Held(c)
    <3>1. Pending(c) = <<>>
      BY DEF Pending, c
    <3>2. Held(c) \in Seq(Nat)
      BY <2>3, HeldIsSequence
    <3> QED BY <3>1, <3>2, ConcatEmptySeq DEF Filled
  <2>5. Held(node) = Held(c)
    BY DEF Held
  <2> QED BY <2>1, <2>2, <2>3, <2>4, <2>5 DEF ReadAs
<1>15. q \in BeginsIn(u) \ o2 /\ q \in Nat \ {NoNode}
  <2>1. q \in 1 .. at
    BY <1>1, <1>9
  <2> QED BY <1>1, <1>14, <2>1 DEF BeginsIn, NoNode
<1>16. o2 = {} => q \in OutermostIn(u, g) /\ top = NoNode
  BY <1>10, <1>11, <1>15 DEF OutermostIn
<1>17. o2 # {} => /\ q \in InsideIn(u, g, Max(o2))
                  /\ \A x \in InsideIn(u, g, Max(o2)) \ o2 : x # q => x < q
  <2> SUFFICES ASSUME o2 # {}
               PROVE  /\ q \in InsideIn(u, g, Max(o2))
                      /\ \A x \in InsideIn(u, g, Max(o2)) \ o2 : x # q => x < q
    OBVIOUS
  <2> HIDE DEF o2
  <2>1. q \in InsideIn(u, g, Max(o2))
    BY <1>11, <1>15 DEF InsideIn
  <2>2. ASSUME NEW x \in InsideIn(u, g, Max(o2)), ~ (x <= q)
        PROVE  FALSE
    <3>1. x \in BeginsIn(u) /\ g[x - 1] # {} /\ Max(g[x - 1]) = Max(o2)
      BY DEF InsideIn
    <3>2. x \in 1 .. Len(e) /\ g[x - 1] = f[x - 1] /\ \A y \in f[x - 1] : y <= Max(o2)
      BY <1>12, <3>1
    <3>3. x - 1 \in q .. Len(e)
      BY <1>1, <1>9, <2>2, <3>2
    <3>4. q \in f[x - 1]
      <4>1. \A m \in q .. Len(e) : q \in f[m]
        <5>1. NestsAt(f, e, Len(e)) /\ o = f[Len(e)] /\ q \in o
          BY <1>0, <1>2, <1>9 DEF f
        <5> QED BY <5>1 DEF NestsAt
      <4> QED BY <3>3, <4>1
    <3>5. Max(o2) \in 1 .. q - 1
      BY <1>11, <1>12, <1>15
    <3> QED BY <1>1, <1>9, <3>2, <3>4, <3>5
  <2>3. \A x \in InsideIn(u, g, Max(o2)) : x \in 1 .. Len(e)
    BY <1>12 DEF InsideIn
  <2> QED BY <1>1, <1>9, <2>1, <2>2, <2>3
<1>18. Reads(u, g, o2, o2 \cup {q}, ns, Front(open), top)
  <2>1. o2 \cup {q} = o
    BY <1>9
  <2>2. /\ DOMAIN Front(open) \subseteq DOMAIN open
        /\ \A i \in DOMAIN Front(open) : Front(open)[i] = open[i]
    BY <1>7 DEF Front
  <2> HIDE DEF o2
  <2> QED BY <1>7, <1>8, <2>1, <2>2 DEF Reads
<1>19. o2 \in SUBSET (1 .. at)
  <2>1. o \subseteq 1 .. Len(e) /\ 1 .. Len(e) \subseteq 1 .. at
    BY <1>1, <1>2
  <2> QED BY <2>1
<1>20. Reads(u, g, o2, o2, Pushed(ns, q, node), GivenTo(Front(open), q), IF Front(open) = <<>> THEN q ELSE top)
  <2> HIDE DEF o2, node
  <2> QED BY <1>1, <1>14, <1>15, <1>16, <1>17, <1>18, <1>19, PushKeepsReading
<1> QED BY <1>1, <1>4, <1>8, <1>20 DEF u, g, c, ReadsNow, ReadNow
------------------------------------------------------------------------------
Marks == {Event("document"), Event("end document")}
Leaves == {Event("alias")} \cup {ScalarOf(text) : text \in Scalars}
SourceEvents == Marks \cup Leaves \cup {Event(kind) : kind \in Collections} \cup {Event("end")}

(* The marks of a document begin no node and end none.                      *)
LEMMA MarksAreNoNodes == \A v \in Marks : ~ Begun(v) /\ v.kind # "end"
<1> SUFFICES ASSUME NEW v \in Marks PROVE ~ Begun(v) /\ v.kind # "end"
  OBVIOUS
<1>1. \A kind : Event(kind).kind = kind
  BY DEF Event
<1>2. v.kind = "document" \/ v.kind = "end document"
  BY <1>1, Zenon DEF Marks
<1> QED BY <1>2, Zenon DEF Begun, Collections

ReadingInv ==
  /\ events \in Seq(SourceEvents)
  /\ result \notin {"Syntax", "DepthLimit"} =>
       ReadsNow(events, nodes, stack, root)

(* Every event, refusal and end of the source keeps what was read.          *)
LEMMA StepKeepsReading ==
  ASSUME ReadingInv, [SyntaxNext]_syntaxVars
  PROVE  ReadingInv'
<1>1. events \in Seq(SourceEvents) /\ (result = "reading" => ReadsNow(events, nodes, stack, root))
  BY DEF ReadingInv
<1>2. SUFFICES events' \in Seq(SourceEvents)
               /\ (result' \notin {"Syntax", "DepthLimit"} => ReadsNow(events', nodes', stack', root'))
  BY DEF ReadingInv
<1>3. CASE UNCHANGED syntaxVars
  BY <1>3 DEF syntaxVars, ReadingInv
<1>4. CASE TooLarge \/ SyntaxError \/ StreamEnd
  BY <1>1, <1>4 DEF TooLarge, SyntaxError, StreamEnd
<1>5. ASSUME NEW v \in Marks, Read(v), UNCHANGED <<nodes, stack, root>>
      PROVE  events' \in Seq(SourceEvents) /\ ReadsNow(events', nodes', stack', root')
  <2>1. v \in SourceEvents /\ ~ Begun(v) /\ v.kind # "end"
    BY MarksAreNoNodes DEF SourceEvents
  <2>2. events' = Append(events, v) /\ ReadsNow(events, nodes, stack, root)
    BY <1>1, <1>5 DEF Read
  <2>3. events' \in Seq(SourceEvents)
    BY <1>1, <2>1, <2>2
  <2> QED BY <1>1, <1>5, <2>1, <2>2, <2>3, MarkKeepsReading
<1>6. CASE DocumentStart \/ DocumentEnd
  <2>1. Event("document") \in Marks /\ Event("end document") \in Marks
    BY Zenon DEF Marks
  <2>2. PICK v \in Marks : Read(v) /\ UNCHANGED <<nodes, stack, root>>
    BY <1>6, <2>1, Zenon DEF DocumentStart, DocumentEnd
  <2> QED BY <1>5, <2>2
<1>7. ASSUME NEW v \in Leaves, Leaf(v)
      PROVE  events' \in Seq(SourceEvents)
             /\ (result' \notin {"Syntax", "DepthLimit"} => ReadsNow(events', nodes', stack', root'))
  <2>1. v \in SourceEvents /\ v.kind \in {"scalar", "alias"}
    <3>1. v.kind \in {"scalar", "alias"}
      BY DEF Leaves, Event, ScalarOf
    <3> QED BY <3>1, Zenon DEF SourceEvents
  <2>2. events' = Append(events, v) /\ ReadsNow(events, nodes, stack, root) /\ PushNode(stack, Position, v)
    BY <1>1, <1>7 DEF Leaf, Read
  <2>3. events' \in Seq(SourceEvents)
    BY <1>1, <2>1, <2>2
  <2>4. CASE stack = <<>> /\ root # NoNode
    BY <2>2, <2>3, <2>4 DEF PushNode
  <2>5. CASE ~ (stack = <<>> /\ root # NoNode)
    <3>1. /\ nodes' = Pushed(nodes, Position, v)
          /\ stack' = GivenTo(stack, Position)
          /\ root' = IF stack = <<>> THEN Position ELSE root
      BY <2>2, <2>5 DEF PushNode, Pushed, GivenTo
    <3>2. stack = <<>> => root = NoNode
      BY <2>5
    <3>3. ReadsNow(events', nodes', stack', root')
      BY <1>1, <2>1, <2>2, <3>1, <3>2, LeafKeepsReading DEF Position
    <3> QED BY <2>3, <3>3
  <2> QED BY <2>4, <2>5
<1>8. CASE ScalarEvent \/ AliasEvent
  <2>1. PICK v \in Leaves : Leaf(v)
    BY <1>8, Zenon DEF ScalarEvent, AliasEvent, Leaves
  <2> QED BY <1>7, <2>1
<1>9. CASE CollectionStart
  <2>1. PICK kind \in Collections : Read(Event(kind)) /\ Open(kind)
    BY <1>9 DEF CollectionStart
  <2> DEFINE v == Event(kind)
  <2>2. v \in SourceEvents /\ v.kind = kind
    <3>1. v.kind = kind
      BY DEF Event
    <3> QED BY <3>1, Zenon DEF SourceEvents
  <2>3. events' = Append(events, v) /\ ReadsNow(events, nodes, stack, root)
    BY <1>1, <2>1 DEF Read
  <2> HIDE DEF v
  <2>4. events' \in Seq(SourceEvents)
    BY <1>1, <2>2, <2>3
  <2>5. CASE TooDeep
    BY <2>1, <2>4, <2>5 DEF Open
  <2>6. CASE ~ TooDeep
    <3>1. /\ stack' = Append(stack, [kind |-> kind, at |-> Position, values |-> <<>>, key |-> NoNode])
          /\ UNCHANGED <<nodes, root>>
      BY <2>1, <2>6 DEF Open
    <3>2. ReadsNow(events', nodes', stack', root')
      <4>1. ReadsNow(events', nodes, Started(stack, v.kind, Len(events) + 1), root)
        BY <1>1, <2>2, <2>3, StartKeepsReading
      <4>2. stack' = Started(stack, v.kind, Len(events) + 1) /\ nodes' = nodes /\ root' = root
        BY <2>2, <3>1 DEF Started, Position
      <4> QED BY <4>1, <4>2
    <3> QED BY <2>4, <3>2
  <2> QED BY <2>5, <2>6
<1>10. CASE CollectionEnd
  <2> DEFINE v == Event("end")
  <2>1. v \in SourceEvents /\ v.kind = "end"
    <3>1. v.kind = "end"
      BY DEF Event
    <3> QED BY <3>1, Zenon DEF SourceEvents
  <2>2. events' = Append(events, v) /\ ReadsNow(events, nodes, stack, root) /\ Close
    BY <1>1, <1>10 DEF CollectionEnd, Read
  <2> HIDE DEF v
  <2>3. events' \in Seq(SourceEvents)
    BY <1>1, <2>1, <2>2
  <2>4. CASE stack = <<>> \/ Last(stack).key # NoNode
    BY <2>2, <2>3, <2>4 DEF Close
  <2>5. CASE ~ (stack = <<>> \/ Last(stack).key # NoNode)
    <3> DEFINE c == Last(stack)
               node == [kind |-> c.kind, values |-> c.values]
    <3>1. PushNode(Front(stack), c.at, node)
      BY <2>2, <2>5 DEF Close
    <3>2. CASE Front(stack) = <<>> /\ root # NoNode
      BY <2>3, <3>1, <3>2 DEF PushNode
    <3>3. CASE ~ (Front(stack) = <<>> /\ root # NoNode)
      <4>1. /\ nodes' = Pushed(nodes, c.at, node)
            /\ stack' = GivenTo(Front(stack), c.at)
            /\ root' = IF Front(stack) = <<>> THEN c.at ELSE root
        BY <3>1, <3>3 DEF PushNode, Pushed, GivenTo
      <4>2. ReadsNow(events', nodes', stack', root')
        <5>1. stack # <<>> /\ Last(stack).key = NoNode /\ (Front(stack) = <<>> => root = NoNode)
          BY <2>5, <3>3
        <5>2. ReadsNow(events', Pushed(nodes, c.at, node), GivenTo(Front(stack), c.at),
                       IF Front(stack) = <<>> THEN c.at ELSE root)
          BY <1>1, <2>1, <2>2, <5>1, EndKeepsReading
        <5> HIDE DEF node, c
        <5> QED BY <4>1, <5>2
      <4> QED BY <2>3, <4>2
    <3> QED BY <3>2, <3>3
  <2> QED BY <2>4, <2>5
<1> QED BY <1>3, <1>4, <1>5, <1>6, <1>8, <1>9, <1>10 DEF SyntaxNext

(* Before the first event nothing is read, and nothing is there.            *)
LEMMA ReadingFromStart == SyntaxInit => ReadingInv
<1> SUFFICES ASSUME SyntaxInit PROVE ReadingInv
  OBVIOUS
<1>1. /\ events = <<>> /\ nodes = <<>> /\ stack = <<>> /\ root = NoNode /\ NoNode \in Nat
      /\ events \in Seq(SourceEvents) /\ stack \in Seq(Containers)
      /\ DOMAIN events = {} /\ DOMAIN nodes = {} /\ DOMAIN stack = {}
  BY DEF SyntaxInit, NoNode
<1>2. BeginsIn(events) = {} /\ OutermostIn(events, Openings(events)) = {}
  BY <1>1 DEF BeginsIn, OutermostIn
<1>3. ReadNow(events) = {}
  <2>1. Len(events) = 0
    BY <1>1
  <2>2. Openings(events)[Len(events)] \subseteq 1 .. Len(events)
    BY <1>1, OpenIsBounded
  <2> QED BY <2>1, <2>2 DEF ReadNow
<1>4. ListsInOrder(Ats(stack), {})
  BY <1>1 DEF ListsInOrder, ToSet, Ats
<1> QED BY <1>1, <1>2, <1>3, <1>4 DEF ReadingInv, ReadsNow, Reads

(* What was read, said of the variables.                                    *)
LEMMA ReadingIsTreeRead == ReadingInv => TreeIsWhatWasRead
<1> SUFFICES ASSUME ReadingInv, result \in {"reading", "Ok"}
             PROVE  TreeIsWhatWasRead
  BY DEF TreeIsWhatWasRead
<1>1. Reads(events, Openings(events), OpenNow, OpenNow, nodes, stack, root)
  BY OpenAfterOpens DEF ReadingInv, ReadsNow, ReadNow, OpenNow
<1>2. /\ Begins = BeginsIn(events) /\ Outermost = OutermostIn(events, Openings(events))
      /\ \A c : Inside(c) = InsideIn(events, Openings(events), c)
  BY OpenAfterOpens DEF Begins, BeginsIn, Outermost, OutermostIn, Inside, InsideIn
<1> QED BY <1>1, <1>2 DEF TreeIsWhatWasRead, Reads, ReadAs, Ats, Filled

(* The tree is what the events say, whatever is read.                       *)
THEOREM TreeRead == SyntaxSpec => []TreeIsWhatWasRead
<1>1. ReadingInv /\ [SyntaxNext]_syntaxVars => ReadingInv'
  BY StepKeepsReading
<1> QED BY <1>1, ReadingFromStart, ReadingIsTreeRead, PTL DEF SyntaxSpec
------------------------------------------------------------------------------
(* Trees whose nodes come before the nodes they own.                        *)
Arena(tree, n) ==
  /\ DOMAIN tree.nodes \subseteq 1 .. n
  /\ \A p \in DOMAIN tree.nodes : IsNode(tree, p, tree.nodes[p])

Faulted(fault, tree) == fault = [p \in DOMAIN tree.nodes |-> NodeFault(tree, tree.nodes[p], fault)]

(* The fault of a node is one of its own or of what it owns.                *)
LEMMA FaultFromBelow ==
  ASSUME NEW tree, NEW n \in Nat, Arena(tree, n), NEW p \in DOMAIN tree.nodes, NEW a, NEW b,
         \A q \in Later(tree, p) : a[q] = b[q]
  PROVE  NodeFault(tree, tree.nodes[p], a) = NodeFault(tree, tree.nodes[p], b)
<1> DEFINE node == tree.nodes[p]
<1>1. IsNode(tree, p, node)
  BY DEF Arena
<1> HIDE DEF node
<1>2. CASE node.kind = "mapping"
  <2>1. node.values \in Seq(Later(tree, p) \X Later(tree, p))
    BY <1>1, <1>2 DEF IsNode
  <2>2. \A i \in DOMAIN node.values : node.values[i][2] \in Later(tree, p)
    BY <2>1
  <2>3. \A i \in DOMAIN node.values : EntryFault(tree, node.values, i, a) = EntryFault(tree, node.values, i, b)
    BY <2>2 DEF EntryFault
  <2>4. [i \in DOMAIN node.values |-> EntryFault(tree, node.values, i, a)]
        = [i \in DOMAIN node.values |-> EntryFault(tree, node.values, i, b)]
    BY <2>3
  <2> QED BY <1>2, <2>4 DEF NodeFault, node
<1>3. CASE node.kind = "sequence"
  <2>1. node.values \in Seq(Later(tree, p))
    BY <1>1, <1>3 DEF IsNode
  <2>2. [i \in DOMAIN node.values |-> a[node.values[i]]] = [i \in DOMAIN node.values |-> b[node.values[i]]]
    BY <2>1
  <2> QED BY <1>3, <2>2 DEF NodeFault, node
<1>4. CASE node.kind \notin {"mapping", "sequence"}
  BY <1>4 DEF NodeFault, node
<1> QED BY <1>2, <1>3, <1>4

(* So each has one.                                                         *)
LEMMA FaultsExist ==
  ASSUME NEW tree, NEW n \in Nat, Arena(tree, n)
  PROVE  \E fault : Faulted(fault, tree)
<1> DEFINE D == DOMAIN tree.nodes
           Solves(g, k) == /\ DOMAIN g = D /\ g = [p \in D |-> g[p]]
                           /\ \A p \in D : p > n - k => g[p] = NodeFault(tree, tree.nodes[p], g)
           T == {k \in 0 .. n : \E g : Solves(g, k)}
<1>1. D \subseteq 1 .. n
  BY DEF Arena
<1>2. 0 \in T
  <2> DEFINE g == [p \in D |-> "Ok"]
  <2>1. \A p \in D : ~ (p > n - 0)
    BY <1>1
  <2> HIDE DEF D
  <2>2. Solves(g, 0)
    BY <2>1
  <2> QED BY <2>2
<1>3. ASSUME NEW k \in 1 .. n, k - 1 \in T
      PROVE  k \in T
  <2>1. PICK g : Solves(g, k - 1)
    BY <1>3
  <2> DEFINE q == n - k + 1
             h == [p \in D |-> IF p = q THEN NodeFault(tree, tree.nodes[p], g) ELSE g[p]]
  <2>2. ASSUME NEW p \in D, p > n - k
        PROVE  h[p] = NodeFault(tree, tree.nodes[p], h)
    <3>1. p \in Nat /\ p >= q /\ q \in Nat
      BY <1>1, <2>2
    <3>2. \A r \in Later(tree, p) : r \in D /\ r # q
      BY <1>1, <3>1 DEF Later
    <3>3. \A r \in Later(tree, p) : h[r] = g[r]
      BY <3>2
    <3>4. NodeFault(tree, tree.nodes[p], h) = NodeFault(tree, tree.nodes[p], g)
      <4> HIDE DEF h
      <4> QED BY <3>3, FaultFromBelow
    <3>5. h[p] = NodeFault(tree, tree.nodes[p], g)
      <4>1. CASE p = q
        BY <4>1
      <4>2. CASE p # q
        <5>1. p > n - (k - 1)
          BY <3>1, <4>2
        <5>2. g[p] = NodeFault(tree, tree.nodes[p], g)
          BY <2>1, <5>1
        <5> QED BY <4>2, <5>2
      <4> QED BY <4>1, <4>2
    <3> QED BY <3>4, <3>5
  <2>3. DOMAIN h = D /\ h = [p \in D |-> h[p]]
    OBVIOUS
  <2> HIDE DEF h, D
  <2>4. Solves(h, k)
    BY <2>2, <2>3
  <2>5. k \in 0 .. n
    OBVIOUS
  <2> QED BY <2>4, <2>5
<1>4. n \in T
  <2>1. n \in 0 .. n
    OBVIOUS
  <2> HIDE DEF T
  <2> QED BY <1>2, <1>3, <2>1, Along
<1>5. PICK g : Solves(g, n)
  BY <1>4
<1>6. \A p \in D : p > n - n
  BY <1>1
<1>7. \A p \in D : g[p] = NodeFault(tree, tree.nodes[p], g)
  BY <1>5, <1>6
<1>8. g = [p \in D |-> NodeFault(tree, tree.nodes[p], g)]
  BY <1>5, <1>7
<1> QED BY <1>8 DEF Faulted

(* KeyFault is the fault of the root in a table of the faults of every      *)
(* node.                                                                    *)
LEMMA KeyFaultIsOfRoot ==
  ASSUME NEW tree, NEW n \in Nat, Arena(tree, n)
  PROVE  \E fault : Faulted(fault, tree) /\ KeyFault(tree) = fault[tree.root]
<1> DEFINE g == CHOOSE fault : Faulted(fault, tree)
<1>1. Faulted(g, tree)
  BY FaultsExist
<1>2. KeyFault(tree) = g[tree.root]
  BY DEF KeyFault, Faulted
<1> QED BY <1>1, <1>2

(* A fault is the first of some, by where they are.                         *)
FirstOf(kind, faults) ==
  /\ kind = "Ok" <=> faults = {}
  /\ kind # "Ok" => \E m \in Nat :
       /\ <<m, kind>> \in faults
       /\ \A f \in faults : f[1] \in Nat /\ m <= f[1]
       /\ kind = "Alias" => <<m, "InvalidField">> \notin faults

(* The first of the faults of one group after the other is the first of all. *)
LEMMA FirstOfAll ==
  ASSUME NEW n \in Nat, NEW kinds, DOMAIN kinds = 1 .. n, NEW G,
         \A i \in 1 .. n : FirstOf(kinds[i], G[i]),
         \A i, j \in 1 .. n : i < j => \A a \in G[i], b \in G[j] : a[1] < b[1]
  PROVE  FirstOf(FirstFault(kinds), UNION {G[i] : i \in 1 .. n})
<1> DEFINE faulty == {i \in DOMAIN kinds : kinds[i] # "Ok"}
           all == UNION {G[i] : i \in 1 .. n}
<1>1. CASE faulty = {}
  <2>1. \A i \in 1 .. n : kinds[i] = "Ok"
    BY <1>1
  <2>2. \A i \in 1 .. n : G[i] = {}
    BY <2>1 DEF FirstOf
  <2>3. all = {}
    BY <2>2
  <2>4. FirstFault(kinds) = "Ok"
    BY <1>1 DEF FirstFault
  <2> HIDE DEF all
  <2> QED BY <2>3, <2>4 DEF FirstOf, all
<1>2. CASE faulty # {}
  <2> DEFINE k == Min(faulty)
  <2>1. k \in faulty /\ \A i \in faulty : k <= i
    <3>1. faulty \in SUBSET Nat
      OBVIOUS
    <3> HIDE DEF faulty
    <3> QED BY <1>2, <3>1, MinOfNaturals
  <2>2. FirstFault(kinds) = kinds[k]
    BY <1>2 DEF FirstFault
  <2>3. k \in 1 .. n /\ kinds[k] # "Ok" /\ \A i \in 1 .. n : i < k => kinds[i] = "Ok"
    <3> HIDE DEF k
    <3> QED BY <2>1
  <2> HIDE DEF k
  <2>4. PICK m \in Nat : /\ <<m, kinds[k]>> \in G[k]
                         /\ \A f \in G[k] : f[1] \in Nat /\ m <= f[1]
                         /\ kinds[k] = "Alias" => <<m, "InvalidField">> \notin G[k]
    BY <2>3 DEF FirstOf
  <2>5. ASSUME NEW i \in 1 .. n, NEW f \in G[i]
        PROVE  f[1] \in Nat /\ m <= f[1] /\ (i # k => m < f[1])
    <3>1. f[1] \in Nat
      BY <2>5 DEF FirstOf
    <3>2. ~ (i < k)
      BY <2>3, <2>5 DEF FirstOf
    <3>3. CASE k < i
      <4>1. <<m, kinds[k]>>[1] < f[1]
        BY <2>3, <2>4, <2>5, <3>3
      <4> QED BY <3>1, <4>1
    <3>4. CASE i = k
      BY <2>4, <2>5, <3>4
    <3> QED BY <2>3, <3>1, <3>2, <3>3, <3>4
  <2>6. <<m, kinds[k]>> \in all
    BY <2>3, <2>4
  <2>7. \A f \in all : f[1] \in Nat /\ m <= f[1]
    BY <2>5
  <2>8. ASSUME kinds[k] = "Alias", <<m, "InvalidField">> \in all
        PROVE  FALSE
    <3>1. PICK i \in 1 .. n : <<m, "InvalidField">> \in G[i]
      BY <2>8
    <3>2. <<m, "InvalidField">>[1] = m
      OBVIOUS
    <3>3. i = k
      BY <2>5, <3>1, <3>2
    <3> QED BY <2>4, <2>8, <3>1, <3>3
  <2> HIDE DEF all, faulty
  <2>9. FirstOf(kinds[k], all)
    BY <2>3, <2>6, <2>7, <2>8 DEF FirstOf
  <2> QED BY <2>2, <2>9 DEF all
<1> QED BY <1>1, <1>2
------------------------------------------------------------------------------
(* The tree of all events of a document, when nothing is open.              *)
IsRead(tree, e, f) ==
  /\ Len(e) \in Nat /\ DOMAIN e = 1 .. Len(e)
  /\ \A n \in 0 .. Len(e) : NestsAt(f, e, n)
  /\ DOMAIN tree.nodes = BeginsIn(e)
  /\ \A p \in DOMAIN tree.nodes :
       /\ ReadAs(e, f, tree.nodes[p], p)
       /\ e[p].kind \in Collections \/ e[p].kind = "alias" \/ e[p] = ScalarOf(e[p].text)
  /\ {tree.root} = OutermostIn(e, f)

(* A node and all inside it.                                                *)
Span(tree, f, p) == {q \in DOMAIN tree.nodes : q = p \/ p \in f[q - 1]}

(* Where a node begins, the collections open are its ancestors.             *)
LEMMA AroundIsNested ==
  ASSUME NEW tree, NEW e, NEW f, IsRead(tree, e, f), NEW q \in DOMAIN tree.nodes
  PROVE  /\ q \in 1 .. Len(e) /\ q - 1 \in 0 .. Len(e)
         /\ f[q - 1] \subseteq 1 .. q - 1 /\ f[q - 1] \subseteq DOMAIN tree.nodes
         /\ f[q - 1] # {} => /\ Max(f[q - 1]) \in f[q - 1]
                             /\ \A x \in f[q - 1] : x <= Max(f[q - 1])
         /\ \A c \in f[q - 1] : /\ f[c - 1] = f[q - 1] \cap (1 .. c - 1)
                                /\ \A m \in c .. q - 1 : c \in f[m]
<1>1. q \in 1 .. Len(e) /\ q - 1 \in 0 .. Len(e) /\ q - 1 \in Nat /\ Len(e) \in Nat
  BY DEF IsRead, BeginsIn
<1>2. NestsAt(f, e, q - 1)
  BY <1>1 DEF IsRead
<1>3. f[q - 1] \subseteq 1 .. q - 1
  BY <1>2 DEF NestsAt
<1>4. f[q - 1] \subseteq DOMAIN tree.nodes
  <2>1. \A c \in f[q - 1] : c \in 1 .. Len(e) /\ e[c].kind \in Collections
    BY <1>1, <1>2, <1>3 DEF NestsAt
  <2> QED BY <2>1 DEF IsRead, BeginsIn
<1>5. f[q - 1] # {} => /\ Max(f[q - 1]) \in f[q - 1]
                       /\ \A x \in f[q - 1] : x <= Max(f[q - 1])
  <2>1. f[q - 1] \subseteq 0 .. q - 1
    BY <1>1, <1>3
  <2> QED BY <1>1, <1>3, <2>1, MaxOfBounded
<1> QED BY <1>1, <1>2, <1>3, <1>4, <1>5 DEF NestsAt

(* What begins inside a node comes after it, and the node is open there.    *)
LEMMA InsideIsLater ==
  ASSUME NEW tree, NEW e, NEW f, IsRead(tree, e, f), NEW p
  PROVE  \A c \in InsideIn(e, f, p) : c \in Later(tree, p) /\ p \in f[c - 1]
<1> SUFFICES ASSUME NEW c \in InsideIn(e, f, p) PROVE c \in Later(tree, p) /\ p \in f[c - 1]
  OBVIOUS
<1>1. c \in DOMAIN tree.nodes /\ f[c - 1] # {} /\ Max(f[c - 1]) = p
  BY DEF IsRead, InsideIn
<1>2. p \in f[c - 1] /\ p \in 1 .. c - 1 /\ c \in 1 .. Len(e) /\ Len(e) \in Nat
  BY <1>1, AroundIsNested, ZenonT(30) DEF IsRead
<1> QED BY <1>1, <1>2 DEF Later

(* All that is inside a node is in one of those that it owns.               *)
LEMMA SpanSplits ==
  ASSUME NEW tree, NEW e, NEW f, IsRead(tree, e, f), NEW p \in DOMAIN tree.nodes, NEW q
  PROVE  q \in Span(tree, f, p) <=> q = p \/ \E c \in InsideIn(e, f, p) : q \in Span(tree, f, c)
<1>1. ASSUME q \in Span(tree, f, p), q # p
      PROVE  \E c \in InsideIn(e, f, p) : q \in Span(tree, f, c)
  <2>1. q \in DOMAIN tree.nodes /\ p \in f[q - 1]
    BY <1>1 DEF Span
  <2> DEFINE above == {c \in f[q - 1] : c > p}
  <2>2. CASE above = {}
    <3>1. Max(f[q - 1]) \in f[q - 1] /\ Max(f[q - 1]) >= p /\ f[q - 1] \subseteq 1 .. q - 1
      BY <2>1, AroundIsNested
    <3>2. Max(f[q - 1]) = p
      BY <2>1, <2>2, <3>1
    <3>3. q \in InsideIn(e, f, p)
      BY <2>1, <3>2 DEF IsRead, InsideIn
    <3> QED BY <2>1, <3>3 DEF Span
  <2>3. CASE above # {}
    <3>1. above \in SUBSET Nat /\ f[q - 1] \subseteq 1 .. q - 1
      BY <2>1, AroundIsNested
    <3>2. PICK c \in above : \A x \in above : c <= x
      BY <2>3, <3>1, LeastNatural
    <3>3. c \in DOMAIN tree.nodes /\ f[c - 1] = f[q - 1] \cap (1 .. c - 1) /\ c > p /\ c \in f[q - 1]
      BY <2>1, <3>2, AroundIsNested
    <3>4. p \in f[c - 1] /\ \A x \in f[c - 1] : x <= p
      <4>1. p \in 1 .. c - 1
        BY <2>1, <3>1, <3>3
      <4>2. ASSUME NEW x \in f[c - 1], ~ (x <= p)
            PROVE  FALSE
        <5>1. x \in f[q - 1] /\ x \in 1 .. c - 1 /\ x > p
          BY <2>1, <3>1, <3>3, <4>2
        <5>2. c <= x
          BY <3>2, <5>1
        <5> QED BY <3>1, <3>2, <5>1, <5>2
      <4> QED BY <2>1, <3>3, <4>1, <4>2
    <3>5. Max(f[c - 1]) = p
      <4>1. Max(f[c - 1]) \in f[c - 1] /\ Max(f[c - 1]) >= p /\ f[c - 1] \subseteq 1 .. c - 1
        BY <3>3, <3>4, AroundIsNested
      <4>2. Max(f[c - 1]) <= p
        BY <3>4, <4>1
      <4> QED BY <2>1, <3>1, <3>4, <4>1, <4>2
    <3>6. c \in InsideIn(e, f, p)
      BY <3>3, <3>4, <3>5 DEF IsRead, InsideIn
    <3> QED BY <2>1, <3>3, <3>6 DEF Span
  <2> QED BY <2>2, <2>3
<1>2. ASSUME NEW c \in InsideIn(e, f, p), q \in Span(tree, f, c)
      PROVE  q \in Span(tree, f, p)
  <2>1. c \in DOMAIN tree.nodes /\ p \in f[c - 1]
    BY InsideIsLater DEF Later
  <2>2. q \in DOMAIN tree.nodes /\ (q = c \/ c \in f[q - 1])
    BY <1>2 DEF Span
  <2>3. c \in f[q - 1] => p \in f[q - 1]
    BY <2>1, <2>2, AroundIsNested
  <2> QED BY <2>1, <2>2, <2>3 DEF Span
<1>3. q = p => q \in Span(tree, f, p)
  BY DEF Span
<1> QED BY <1>1, <1>2, <1>3

(* What a node spans ends before the next node begins.                      *)
LEMMA SpansInOrder ==
  ASSUME NEW tree, NEW e, NEW f, IsRead(tree, e, f), NEW p, NEW c \in InsideIn(e, f, p),
         NEW x \in Span(tree, f, c)
  PROVE  /\ x \in Nat /\ c \in Nat /\ c <= x
         /\ \A d \in InsideIn(e, f, p) : c < d => x < d
<1>1. c \in DOMAIN tree.nodes /\ x \in DOMAIN tree.nodes /\ (x = c \/ c \in f[x - 1]) /\ c > p
  BY InsideIsLater DEF Later, Span
<1>2. c \in 1 .. Len(e) /\ x \in 1 .. Len(e) /\ Len(e) \in Nat /\ (x = c \/ c \in 1 .. x - 1)
  BY <1>1, AroundIsNested DEF IsRead
<1>3. ASSUME NEW d \in InsideIn(e, f, p), c < d, ~ (x < d)
      PROVE  FALSE
  <2>1. d \in DOMAIN tree.nodes /\ f[d - 1] # {} /\ Max(f[d - 1]) = p
    BY DEF InsideIn, IsRead
  <2>2. d \in 1 .. Len(e)
    BY <2>1, AroundIsNested
  <2>3. c \in f[x - 1] /\ d - 1 \in c .. x - 1
    BY <1>1, <1>2, <1>3, <2>2
  <2>4. c \in f[d - 1]
    BY <1>1, <2>3, AroundIsNested
  <2>5. c <= p /\ p \in 1 .. d - 1
    BY <2>1, <2>4, AroundIsNested
  <2> QED BY <1>1, <1>2, <2>2, <2>5
<1> QED BY <1>2, <1>3

(* The root spans all of the tree.                                          *)
LEMMA RootSpansAll ==
  ASSUME NEW tree, NEW e, NEW f, IsRead(tree, e, f)
  PROVE  tree.root \in DOMAIN tree.nodes /\ Span(tree, f, tree.root) = DOMAIN tree.nodes
<1>1. tree.root \in DOMAIN tree.nodes
  BY DEF IsRead, OutermostIn
<1>2. ASSUME NEW q \in DOMAIN tree.nodes
      PROVE  q \in Span(tree, f, tree.root)
  <2>1. CASE f[q - 1] = {}
    <3>1. q \in OutermostIn(e, f)
      BY <2>1 DEF IsRead, OutermostIn
    <3> QED BY <3>1 DEF IsRead, Span
  <2>2. CASE f[q - 1] # {}
    <3>1. f[q - 1] \in SUBSET Nat /\ f[q - 1] \subseteq DOMAIN tree.nodes /\ f[q - 1] \subseteq 1 .. q - 1
      BY AroundIsNested
    <3>2. PICK c \in f[q - 1] : \A x \in f[q - 1] : c <= x
      BY <2>2, <3>1, LeastNatural
    <3>3. f[c - 1] = f[q - 1] \cap (1 .. c - 1) /\ c \in DOMAIN tree.nodes
      BY <3>1, AroundIsNested
    <3>4. f[c - 1] = {}
      BY <3>1, <3>2, <3>3
    <3>5. c = tree.root
      BY <3>3, <3>4 DEF IsRead, OutermostIn
    <3> QED BY <3>2, <3>5 DEF Span
  <2> QED BY <2>1, <2>2
<1> QED BY <1>1, <1>2 DEF Span
------------------------------------------------------------------------------
(* A mapping holds its keys and values in turn.                             *)
LEMMA FlattenPairs ==
  ASSUME NEW s \in Seq(Nat \X Nat)
  PROVE  /\ Len(FlattenSeq(s)) = 2 * Len(s)
         /\ \A i \in 1 .. Len(s) : FlattenSeq(s)[2 * i - 1] = s[i][1] /\ FlattenSeq(s)[2 * i] = s[i][2]
<1> DEFINE n == Len(s)
<1>1. n \in Nat /\ s \in Seq(Seq(Nat))
  BY PairsAreSequences
<1>2. PICK F \in [0 .. n -> Seq(Nat)] : Flattens(F, s)
  BY <1>1, FlattenUnfolds
<1> DEFINE Good(k) == /\ Len(F[k]) = 2 * k
                      /\ \A i \in 1 .. k : F[k][2 * i - 1] = s[i][1] /\ F[k][2 * i] = s[i][2]
           T == {k \in 0 .. n : Good(k)}
<1>3. 0 \in T
  BY <1>1, <1>2 DEF Flattens
<1>4. ASSUME NEW k \in 1 .. n, k - 1 \in T
      PROVE  Good(k)
  <2>1. k - 1 \in 0 .. n /\ k \in 0 .. n /\ Good(k - 1) /\ k \in Nat
    BY <1>4
  <2>2. PICK a, b \in Nat : s[k] = <<a, b>>
    <3>1. s[k] \in Nat \X Nat
      OBVIOUS
    <3> QED BY <3>1
  <2>3. F[k] = F[k - 1] \o <<a, b>> /\ F[k - 1] \in Seq(Nat)
    BY <1>2, <2>1, <2>2 DEF Flattens
  <2> DEFINE h == F[k - 1]
  <2>4. h \in Seq(Nat) /\ Len(h) = 2 * (k - 1)
    BY <2>1, <2>3
  <2> DEFINE t == <<a, b>>
  <2>5. t \in Seq(Nat) /\ Len(t) = 2 /\ t[1] = a /\ t[2] = b
    OBVIOUS
  <2> HIDE DEF h, t
  <2>6. /\ Len(h \o t) = 2 * k
        /\ \A j \in 1 .. Len(h) : (h \o t)[j] = h[j]
        /\ (h \o t)[2 * k - 1] = a /\ (h \o t)[2 * k] = b
    <3>1. /\ Len(h \o t) = Len(h) + 2
          /\ \A j \in 1 .. Len(h) : (h \o t)[j] = h[j]
          /\ (h \o t)[Len(h) + 1] = a /\ (h \o t)[Len(h) + 2] = b
      <4> DEFINE c == h \o t
      <4>1. /\ Len(c) = Len(h) + Len(t)
            /\ \A j \in 1 .. Len(h) + Len(t) : c[j] = IF j <= Len(h) THEN h[j] ELSE t[j - Len(h)]
        BY <2>4, <2>5, ConcatProperties
      <4> HIDE DEF c
      <4> DEFINE m == Len(h)
      <4>2. m \in Nat
        BY <2>4
      <4> HIDE DEF m
      <4>3. /\ \A j \in 1 .. m : j \in 1 .. m + 2 /\ j <= m
            /\ m + 1 \in 1 .. m + 2 /\ ~ (m + 1 <= m) /\ (m + 1) - m = 1
            /\ m + 2 \in 1 .. m + 2 /\ ~ (m + 2 <= m) /\ (m + 2) - m = 2
        BY <4>2
      <4>4. Len(c) = m + 2 /\ \A j \in 1 .. m + 2 : c[j] = IF j <= m THEN h[j] ELSE t[j - m]
        BY <2>5, <4>1 DEF m
      <4>5. c[m + 1] = a /\ c[m + 2] = b /\ \A j \in 1 .. m : c[j] = h[j]
        BY <2>5, <4>3, <4>4
      <4> QED BY <4>4, <4>5 DEF c, m
    <3>2. Len(h) + 2 = 2 * k /\ Len(h) + 1 = 2 * k - 1
      BY <2>1, <2>4
    <3> QED BY <3>1, <3>2
  <2>7. F[k] = h \o t
    BY <2>3 DEF h, t
  <2>8. ASSUME NEW i \in 1 .. k
        PROVE  F[k][2 * i - 1] = s[i][1] /\ F[k][2 * i] = s[i][2]
    <3>1. CASE i = k
      <4>1. s[k][1] = a /\ s[k][2] = b
        BY <2>2
      <4> QED BY <2>6, <2>7, <3>1, <4>1
    <3>2. CASE i # k
      <4>1. i \in 1 .. k - 1 /\ 2 * i - 1 \in 1 .. Len(h) /\ 2 * i \in 1 .. Len(h)
        <5> DEFINE m == Len(h)
        <5>1. i \in 1 .. k /\ k \in Nat /\ m = 2 * (k - 1)
          BY <2>1, <2>4, <2>8
        <5> HIDE DEF m
        <5>2. i \in 1 .. k - 1 /\ 2 * i - 1 \in 1 .. m /\ 2 * i \in 1 .. m
          BY <3>2, <5>1
        <5> QED BY <5>2 DEF m
      <4>2. h[2 * i - 1] = s[i][1] /\ h[2 * i] = s[i][2]
        BY <2>1, <4>1 DEF h
      <4> HIDE DEF h, t
      <4>3. F[k][2 * i - 1] = h[2 * i - 1] /\ F[k][2 * i] = h[2 * i]
        BY <2>6, <2>7, <4>1
      <4> QED BY <4>2, <4>3
    <3> QED BY <3>1, <3>2
  <2> QED BY <2>6, <2>7, <2>8
<1>5. n \in T
  <2>1. n \in 0 .. n /\ \A k \in 1 .. n : k \in 0 .. n
    BY <1>1
  <2>2. \A k \in 1 .. n : k - 1 \in T => k \in T
    <3> HIDE DEF Good, n
    <3> QED BY <1>4, <2>1
  <2> HIDE DEF T, n
  <2> QED BY <1>1, <1>3, <2>1, <2>2, Along
<1> QED BY <1>2, <1>5 DEF Flattens

(* What a mapping or a sequence of a tree that was read owns, in its order. *)
OwnsInOrder(kind, s, inside) ==
  /\ kind = "sequence" =>
       s \in Seq(Nat) /\ inside = ToSet(s) /\ \A i, j \in DOMAIN s : i < j => s[i] < s[j]
  /\ kind = "mapping" =>
       /\ s \in Seq(Nat \X Nat)
       /\ inside = {s[i][1] : i \in DOMAIN s} \cup {s[i][2] : i \in DOMAIN s}
       /\ \A i \in DOMAIN s : s[i][1] < s[i][2]
       /\ \A i, j \in DOMAIN s : i < j => s[i][2] < s[j][1]

(* A container owns the nodes inside it, in their order; a mapping, as keys *)
(* and values in turn.                                                      *)
LEMMA OwnedInOrder ==
  ASSUME NEW tree, NEW e, NEW f, IsRead(tree, e, f), NEW p \in DOMAIN tree.nodes
  PROVE  OwnsInOrder(tree.nodes[p].kind, tree.nodes[p].values, InsideIn(e, f, p))
<1> DEFINE node == tree.nodes[p]
           s == node.values
           inside == InsideIn(e, f, p)
<1>1. /\ ReadAs(e, f, node, p)
      /\ e[p].kind \in Collections \/ e[p].kind = "alias" \/ e[p] = ScalarOf(e[p].text)
  BY DEF IsRead
<1>2. e[p].kind \notin Collections => node.kind \notin Collections
  BY <1>1 DEF ReadAs
<1>3. node.kind \in Collections =>
        node.values \in ValuesOf(node.kind) /\ ListsInOrder(Held(node), inside)
  BY <1>1, <1>2 DEF ReadAs
<1>4. CASE node.kind = "sequence"
  BY <1>3, <1>4 DEF Collections, ValuesOf, Held, ListsInOrder, OwnsInOrder
<1>5. CASE node.kind = "mapping"
  <2> DEFINE h == FlattenSeq(s)
             n == Len(s)
  <2>1. s \in Seq(Nat \X Nat) /\ ToSet(h) = inside /\ \A i, j \in DOMAIN h : i < j => h[i] < h[j]
    BY <1>3, <1>5 DEF Collections, ValuesOf, Held, ListsInOrder
  <2>2. /\ h \in Seq(Nat) /\ Len(h) = 2 * n
        /\ \A i \in 1 .. n : h[2 * i - 1] = s[i][1] /\ h[2 * i] = s[i][2]
    BY <2>1, PairsAreSequences, FlattenElements, FlattenPairs
  <2>3. n \in Nat /\ DOMAIN s = 1 .. n /\ DOMAIN h = 1 .. 2 * n
    BY <2>1, <2>2
  <2> HIDE DEF h, n
  <2>4. \A i \in 1 .. n : 2 * i - 1 \in DOMAIN h /\ 2 * i \in DOMAIN h
    BY <2>3
  <2>5. \A i \in 1 .. n : s[i][1] < s[i][2]
    <3>1. \A i \in 1 .. n : 2 * i - 1 < 2 * i
      BY <2>3
    <3> QED BY <2>1, <2>2, <2>4, <3>1
  <2>6. \A i, j \in 1 .. n : i < j => s[i][2] < s[j][1]
    <3>1. \A i, j \in 1 .. n : i < j => 2 * i < 2 * j - 1
      BY <2>3
    <3> QED BY <2>1, <2>2, <2>4, <3>1
  <2>7. inside = {s[i][1] : i \in 1 .. n} \cup {s[i][2] : i \in 1 .. n}
    <3>1. \A x \in inside : \E i \in 1 .. n : x = s[i][1] \/ x = s[i][2]
      <4> SUFFICES ASSUME NEW x \in inside PROVE \E i \in 1 .. n : x = s[i][1] \/ x = s[i][2]
        OBVIOUS
      <4>1. PICK j \in 1 .. 2 * n : x = h[j]
        BY <2>1, <2>3 DEF ToSet
      <4>2. \E i \in 1 .. n : j = 2 * i - 1 \/ j = 2 * i
        <5>1. j \in Nat /\ j >= 1 /\ j <= 2 * n /\ n \in Nat
          BY <2>3
        <5>2. PICK i \in Nat : j = 2 * i - 1 \/ j = 2 * i
          <6> WITNESS (j + 1) \div 2 \in Nat
          <6> QED BY <5>1
        <5>3. i \in 1 .. n
          BY <5>1, <5>2
        <5> QED BY <5>2, <5>3
      <4> QED BY <2>2, <4>1, <4>2
    <3>2. \A i \in 1 .. n : s[i][1] \in inside /\ s[i][2] \in inside
      BY <2>1, <2>2, <2>4 DEF ToSet
    <3> HIDE DEF inside
    <3> QED BY <3>1, <3>2
  <2> QED BY <1>5, <2>1, <2>3, <2>5, <2>6, <2>7 DEF OwnsInOrder
<1>6. CASE node.kind \notin {"sequence", "mapping"}
  BY <1>6 DEF OwnsInOrder
<1> QED BY <1>4, <1>5, <1>6

(* A tree read in full has every node before the nodes it owns.             *)
LEMMA ReadIsArena ==
  ASSUME NEW tree, NEW e, NEW f, IsRead(tree, e, f)
  PROVE  Arena(tree, Len(e))
<1>1. DOMAIN tree.nodes \subseteq 1 .. Len(e)
  BY AroundIsNested
<1>2. ASSUME NEW p \in DOMAIN tree.nodes
      PROVE  IsNode(tree, p, tree.nodes[p])
  <2> DEFINE node == tree.nodes[p]
             s == node.values
             inside == InsideIn(e, f, p)
  <2>1. inside \subseteq Later(tree, p)
    BY InsideIsLater
  <2>2. /\ ReadAs(e, f, node, p)
        /\ e[p].kind \in Collections \/ e[p].kind = "alias" \/ e[p] = ScalarOf(e[p].text)
    BY DEF IsRead
  <2>3. \/ node.kind = "sequence" \/ node.kind = "mapping" \/ node.kind = "alias"
        \/ (node.kind = "scalar" /\ node = ScalarOf(node.text))
    BY <2>2 DEF ReadAs, Collections, ScalarOf
  <2>4. CASE node.kind = "sequence"
    <3>1. s \in Seq(Nat) /\ inside = ToSet(s)
      BY <2>4, OwnedInOrder DEF OwnsInOrder
    <3>2. s \in Seq(Later(tree, p))
      BY <2>1, <3>1 DEF ToSet
    <3> QED BY <2>4, <3>2 DEF IsNode
  <2>5. CASE node.kind = "mapping"
    <3>1. s \in Seq(Nat \X Nat) /\ inside = {s[i][1] : i \in DOMAIN s} \cup {s[i][2] : i \in DOMAIN s}
      BY <2>5, OwnedInOrder DEF OwnsInOrder
    <3>2. \A i \in DOMAIN s : s[i] \in Later(tree, p) \X Later(tree, p)
      BY <2>1, <3>1
    <3>3. s \in Seq(Later(tree, p) \X Later(tree, p))
      <4> HIDE DEF s
      <4> QED BY <3>1, <3>2
    <3> QED BY <2>5, <3>3 DEF IsNode
  <2> QED BY <2>3, <2>4, <2>5 DEF IsNode
<1> QED BY <1>1, <1>2 DEF Arena
------------------------------------------------------------------------------
(* The faults of one entry of a mapping, of a node, and of all a node spans. *)
EntryFaults(tree, s, i) ==
  LET key(j) == KeyOf(tree, s[j])
  IN  (IF ~ IsString(key(i)) THEN {<<s[i][1], "InvalidField">>} ELSE {})
      \cup (IF key(i) = ScalarOf(MergeKeyText) THEN {<<s[i][1], "MergeKey">>} ELSE {})
      \cup (IF /\ IsString(key(i)) /\ key(i).text # MergeKeyText
               /\ \E k \in 1 .. i - 1 : key(k) = key(i)
              THEN {<<s[i][1], "DuplicateKey">>} ELSE {})
OwnFaults(tree, p) ==
  IF tree.nodes[p].kind = "alias" THEN {<<p, "Alias">>}
  ELSE IF tree.nodes[p].kind = "mapping"
    THEN UNION {EntryFaults(tree, tree.nodes[p].values, i) : i \in DOMAIN tree.nodes[p].values}
  ELSE {}
FaultsUnder(tree, f, p) == UNION {OwnFaults(tree, q) : q \in Span(tree, f, p)}

(* The faults of a node itself are at the node, or at what it owns.         *)
LEMMA OwnFaultsAreOwned ==
  ASSUME NEW tree, NEW e, NEW f, IsRead(tree, e, f), NEW p \in DOMAIN tree.nodes, NEW x \in OwnFaults(tree, p)
  PROVE  x[1] = p \/ x[1] \in InsideIn(e, f, p)
<1> DEFINE s == tree.nodes[p].values
<1>1. CASE tree.nodes[p].kind = "alias"
  BY <1>1 DEF OwnFaults
<1>2. CASE tree.nodes[p].kind = "mapping"
  <2>1. PICK i \in DOMAIN s : x \in EntryFaults(tree, s, i)
    BY <1>2 DEF OwnFaults
  <2>2. x[1] = s[i][1]
    BY <2>1 DEF EntryFaults
  <2>3. s[i][1] \in InsideIn(e, f, p)
    BY <1>2, <2>1, OwnedInOrder DEF OwnsInOrder
  <2> QED BY <2>2, <2>3
<1> QED BY <1>1, <1>2 DEF OwnFaults

(* The faults under a node are within its span.                             *)
LEMMA FaultsAreSpanned ==
  ASSUME NEW tree, NEW e, NEW f, IsRead(tree, e, f), NEW p \in DOMAIN tree.nodes, NEW x \in FaultsUnder(tree, f, p)
  PROVE  x[1] \in Span(tree, f, p)
<1>1. PICK q \in Span(tree, f, p) : x \in OwnFaults(tree, q)
  BY DEF FaultsUnder
<1>2. q \in DOMAIN tree.nodes /\ (q = p \/ p \in f[q - 1])
  BY <1>1 DEF Span
<1>3. CASE x[1] = q
  BY <1>1, <1>3
<1>4. CASE x[1] \in InsideIn(e, f, q)
  <2>1. x[1] \in DOMAIN tree.nodes /\ q \in f[x[1] - 1]
    BY <1>4, InsideIsLater DEF Later
  <2>2. p \in f[x[1] - 1]
    <3>1. q # p => f[q - 1] = f[x[1] - 1] \cap (1 .. q - 1)
      BY <2>1, AroundIsNested
    <3> QED BY <1>2, <2>1, <3>1
  <2> QED BY <2>1, <2>2 DEF Span
<1> QED BY <1>1, <1>2, <1>3, <1>4, OwnFaultsAreOwned

(* The faults under a node are its own and those under what it owns.        *)
LEMMA FaultsSplit ==
  ASSUME NEW tree, NEW e, NEW f, IsRead(tree, e, f), NEW p \in DOMAIN tree.nodes, NEW x
  PROVE  x \in FaultsUnder(tree, f, p) <=>
           x \in OwnFaults(tree, p) \/ \E c \in InsideIn(e, f, p) : x \in FaultsUnder(tree, f, c)
<1>1. \A q : q \in Span(tree, f, p) <=> q = p \/ \E c \in InsideIn(e, f, p) : q \in Span(tree, f, c)
  BY SpanSplits
<1> QED BY <1>1, Zenon DEF FaultsUnder

(* EntryFault finds the first of an entry, its key and its value.           *)
LEMMA EntryFaultIsFirst ==
  ASSUME NEW tree, NEW f, NEW g, NEW s, NEW i,
         NEW k \in Nat, NEW v \in Nat, s[i] = <<k, v>>, k < v,
         IsString(tree.nodes[k]) => tree.nodes[k] = ScalarOf(tree.nodes[k].text) /\ FaultsUnder(tree, f, k) = {},
         FirstOf(g[v], FaultsUnder(tree, f, v)),
         \A x \in FaultsUnder(tree, f, k) : x[1] \in Nat /\ k <= x[1],
         \A x \in FaultsUnder(tree, f, v) : x[1] \in Nat /\ v <= x[1]
  PROVE  FirstOf(EntryFault(tree, s, i, g),
                 EntryFaults(tree, s, i) \cup FaultsUnder(tree, f, k) \cup FaultsUnder(tree, f, v))
<1> DEFINE key == tree.nodes[k]
           A == EntryFaults(tree, s, i)
           all == A \cup FaultsUnder(tree, f, k) \cup FaultsUnder(tree, f, v)
           again == \E j \in 1 .. i - 1 : KeyOf(tree, s[j]) = key
           fault == EntryFault(tree, s, i, g)
<1> SUFFICES FirstOf(fault, all)
  OBVIOUS
<1>1. s[i][1] = k /\ s[i][2] = v /\ KeyOf(tree, s[i]) = key
  BY DEF KeyOf
<1>2. A = (IF ~ IsString(key) THEN {<<k, "InvalidField">>} ELSE {})
          \cup (IF key = ScalarOf(MergeKeyText) THEN {<<k, "MergeKey">>} ELSE {})
          \cup (IF IsString(key) /\ key.text # MergeKeyText /\ again THEN {<<k, "DuplicateKey">>} ELSE {})
  BY <1>1 DEF EntryFaults
<1>3. fault =
        IF ~ IsString(key) THEN "InvalidField"
        ELSE IF key.text = MergeKeyText THEN "MergeKey"
        ELSE IF again THEN "DuplicateKey"
        ELSE g[v]
  BY <1>1 DEF EntryFault
<1>4. IsString(key) => (key = ScalarOf(MergeKeyText) <=> key.text = MergeKeyText)
  BY DEF ScalarOf
<1> HIDE DEF key, A, again, fault
<1>5. \A x \in all : x[1] \in Nat /\ k <= x[1]
  <2>1. \A x \in A : x[1] = k
    BY <1>2
  <2>2. \A x \in FaultsUnder(tree, f, v) : x[1] \in Nat /\ k <= x[1]
    OBVIOUS
  <2> QED BY <2>1, <2>2
<1>6. ASSUME NEW kind, <<k, kind>> \in all, kind \notin {"Ok", "Alias"}
      PROVE  FirstOf(kind, all)
  <2> HIDE DEF all
  <2> QED BY <1>5, <1>6 DEF FirstOf
<1>7. CASE ~ IsString(key)
  <2>1. <<k, "InvalidField">> \in all
    BY <1>2, <1>7
  <2>2. fault = "InvalidField"
    BY <1>3, <1>7
  <2> HIDE DEF all
  <2> QED BY <1>6, <2>1, <2>2
<1>8. CASE IsString(key) /\ key.text = MergeKeyText
  <2>1. <<k, "MergeKey">> \in all
    BY <1>2, <1>4, <1>8
  <2>2. fault = "MergeKey"
    BY <1>3, <1>8
  <2> HIDE DEF all
  <2> QED BY <1>6, <2>1, <2>2
<1>9. CASE IsString(key) /\ key.text # MergeKeyText /\ again
  <2>1. <<k, "DuplicateKey">> \in all
    BY <1>2, <1>9
  <2>2. fault = "DuplicateKey"
    BY <1>3, <1>9
  <2> HIDE DEF all
  <2> QED BY <1>6, <2>1, <2>2
<1>10. CASE IsString(key) /\ key.text # MergeKeyText /\ ~ again
  <2>1. A = {}
    BY <1>2, <1>4, <1>10
  <2>2. all = FaultsUnder(tree, f, v)
    BY <1>10, <2>1 DEF key
  <2>3. fault = g[v]
    BY <1>3, <1>10
  <2> HIDE DEF all
  <2> QED BY <2>2, <2>3
<1> QED BY <1>7, <1>8, <1>9, <1>10

(* validate_mapping_keys finds the first of all the faults under a node.    *)
LEMMA FaultIsFirst ==
  ASSUME NEW tree, NEW e, NEW f, IsRead(tree, e, f), NEW g, Faulted(g, tree)
  PROVE  \A p \in DOMAIN tree.nodes : FirstOf(g[p], FaultsUnder(tree, f, p))
<1> DEFINE n == Len(e)
           D == DOMAIN tree.nodes
           T == {k \in 0 .. n : \A p \in D : p > n - k => FirstOf(g[p], FaultsUnder(tree, f, p))}
<1>1. n \in Nat /\ D \subseteq 1 .. n
  BY AroundIsNested DEF IsRead
<1>2. ASSUME NEW p \in D, \A q \in Later(tree, p) : FirstOf(g[q], FaultsUnder(tree, f, q))
      PROVE  FirstOf(g[p], FaultsUnder(tree, f, p))
  <2> DEFINE node == tree.nodes[p]
             s == node.values
             inside == InsideIn(e, f, p)
             m == Len(s)
  <2>1. g[p] = NodeFault(tree, node, g)
    BY DEF Faulted
  <2>2. \A c \in inside : /\ c \in Later(tree, p) /\ c \in D
                          /\ FirstOf(g[c], FaultsUnder(tree, f, c))
    BY <1>2, InsideIsLater DEF Later
  <2>3. ASSUME NEW c \in inside, NEW x \in FaultsUnder(tree, f, c)
        PROVE  x[1] \in Nat /\ c \in Nat /\ c <= x[1] /\ \A d \in inside : c < d => x[1] < d
    <3>1. x[1] \in Span(tree, f, c)
      BY <2>2, <2>3, FaultsAreSpanned
    <3> QED BY <3>1, SpansInOrder
  <2>4. OwnsInOrder(node.kind, s, inside)
    BY OwnedInOrder
  <2>5. IsNode(tree, p, node)
    BY ReadIsArena DEF Arena
  <2> HIDE DEF D, inside
  <2>6. CASE node.kind = "sequence"
    <3> DEFINE kinds == [i \in DOMAIN s |-> g[s[i]]]
               G == [i \in 1 .. m |-> FaultsUnder(tree, f, s[i])]
    <3>1. s \in Seq(Nat) /\ inside = ToSet(s) /\ \A i, j \in DOMAIN s : i < j => s[i] < s[j]
      BY <2>4, <2>6 DEF OwnsInOrder
    <3>2. m \in Nat /\ DOMAIN s = 1 .. m /\ \A i \in 1 .. m : s[i] \in inside
      BY <3>1 DEF ToSet
    <3>3. g[p] = FirstFault(kinds)
      BY <2>1, <2>6 DEF NodeFault
    <3>4. FaultsUnder(tree, f, p) = UNION {G[i] : i \in 1 .. m}
      <4>1. OwnFaults(tree, p) = {}
        BY <2>6 DEF OwnFaults
      <4>2. \A x : x \in FaultsUnder(tree, f, p) <=> \E c \in inside : x \in FaultsUnder(tree, f, c)
        BY <4>1, FaultsSplit DEF D, inside
      <4>3. \A c : c \in inside <=> \E i \in 1 .. m : c = s[i]
        BY <3>1, <3>2 DEF ToSet
      <4> HIDE DEF s, m
      <4>4. \A x : x \in FaultsUnder(tree, f, p) <=> \E i \in 1 .. m : x \in G[i]
        BY <4>2, <4>3
      <4> HIDE DEF G
      <4> QED BY <4>4
    <3>5. \A i \in 1 .. m : FirstOf(kinds[i], G[i])
      BY <2>2, <3>2
    <3>6. ASSUME NEW i \in 1 .. m, NEW j \in 1 .. m, i < j, NEW a \in G[i], NEW b \in G[j]
          PROVE  a[1] < b[1]
      <4>1. s[i] \in inside /\ s[j] \in inside /\ s[i] < s[j]
        BY <3>1, <3>2, <3>6
      <4>2. a \in FaultsUnder(tree, f, s[i]) /\ b \in FaultsUnder(tree, f, s[j])
        BY <3>6
      <4>3. a[1] \in Nat /\ a[1] < s[j] /\ b[1] \in Nat /\ s[j] <= b[1] /\ s[j] \in Nat
        BY <2>3, <4>1, <4>2
      <4> HIDE DEF s
      <4> QED BY <4>3
    <3>7. DOMAIN kinds = 1 .. m
      BY <3>2
    <3> HIDE DEF kinds, G, m
    <3>8. FirstOf(FirstFault(kinds), UNION {G[i] : i \in 1 .. m})
      BY <3>2, <3>5, <3>6, <3>7, FirstOfAll
    <3> QED BY <3>3, <3>4, <3>8
  <2>7. CASE node.kind = "mapping"
    <3> DEFINE kinds == [i \in DOMAIN s |-> EntryFault(tree, s, i, g)]
               G == [i \in 1 .. m |-> EntryFaults(tree, s, i) \cup FaultsUnder(tree, f, s[i][1])
                                        \cup FaultsUnder(tree, f, s[i][2])]
    <3>1. /\ s \in Seq(Nat \X Nat)
          /\ inside = {s[i][1] : i \in DOMAIN s} \cup {s[i][2] : i \in DOMAIN s}
          /\ \A i \in DOMAIN s : s[i][1] < s[i][2]
          /\ \A i, j \in DOMAIN s : i < j => s[i][2] < s[j][1]
      BY <2>4, <2>7 DEF OwnsInOrder
    <3>2. m \in Nat /\ DOMAIN s = 1 .. m
      BY <3>1
    <3>3. \A i \in 1 .. m : /\ s[i][1] \in inside /\ s[i][2] \in inside /\ s[i] = <<s[i][1], s[i][2]>>
                            /\ s[i][1] \in Nat /\ s[i][2] \in Nat
      <4>1. \A i \in 1 .. m : s[i] \in Nat \X Nat
        BY <3>1, <3>2
      <4>2. \A i \in 1 .. m : s[i][1] \in inside /\ s[i][2] \in inside
        BY <3>1, <3>2
      <4>3. \A i \in 1 .. m : s[i] = <<s[i][1], s[i][2]>> /\ s[i][1] \in Nat /\ s[i][2] \in Nat
        BY <4>1
      <4> QED BY <4>2, <4>3
    <3>4. g[p] = FirstFault(kinds)
      BY <2>1, <2>7 DEF NodeFault
    <3>5. FaultsUnder(tree, f, p) = UNION {G[i] : i \in 1 .. m}
      <4>1. OwnFaults(tree, p) = UNION {EntryFaults(tree, s, i) : i \in 1 .. m}
        BY <2>7, <3>2 DEF OwnFaults
      <4>2. \A x : x \in FaultsUnder(tree, f, p) <=>
                     x \in OwnFaults(tree, p) \/ \E c \in inside : x \in FaultsUnder(tree, f, c)
        BY FaultsSplit DEF D, inside
      <4>3. \A c : c \in inside <=> \E i \in 1 .. m : c = s[i][1] \/ c = s[i][2]
        BY <3>1, <3>2
      <4> HIDE DEF s, m
      <4>4. \A x : x \in OwnFaults(tree, p) <=> \E i \in 1 .. m : x \in EntryFaults(tree, s, i)
        BY <4>1
      <4>5. \A i \in 1 .. m : \A x : x \in G[i] <=> \/ x \in EntryFaults(tree, s, i)
                                                    \/ x \in FaultsUnder(tree, f, s[i][1])
                                                    \/ x \in FaultsUnder(tree, f, s[i][2])
        OBVIOUS
      <4> HIDE DEF G
      <4>6. \A x : x \in FaultsUnder(tree, f, p) <=> \E i \in 1 .. m : x \in G[i]
        <5> TAKE x
        <5>1. x \in FaultsUnder(tree, f, p) => \E i \in 1 .. m : x \in G[i]
          BY <4>2, <4>3, <4>4, <4>5
        <5>2. (\E i \in 1 .. m : x \in G[i]) => x \in FaultsUnder(tree, f, p)
          BY <4>2, <4>3, <4>4, <4>5
        <5> QED BY <5>1, <5>2
      <4> QED BY <4>6
    <3>6. ASSUME NEW i \in 1 .. m
          PROVE  FirstOf(kinds[i], G[i])
      <4> DEFINE k == s[i][1]
                 v == s[i][2]
      <4>1. k \in inside /\ v \in inside /\ s[i] = <<k, v>> /\ k \in Nat /\ v \in Nat /\ k < v
        BY <3>1, <3>2, <3>3
      <4>2. FirstOf(g[k], FaultsUnder(tree, f, k)) /\ FirstOf(g[v], FaultsUnder(tree, f, v)) /\ k \in D
        BY <2>2, <4>1
      <4>3. kinds[i] = EntryFault(tree, s, i, g)
            /\ G[i] = EntryFaults(tree, s, i) \cup FaultsUnder(tree, f, k) \cup FaultsUnder(tree, f, v)
        BY <3>2
      <4>4. IsString(tree.nodes[k]) => tree.nodes[k] = ScalarOf(tree.nodes[k].text) /\ FaultsUnder(tree, f, k) = {}
        <5> SUFFICES ASSUME IsString(tree.nodes[k])
                     PROVE  tree.nodes[k] = ScalarOf(tree.nodes[k].text) /\ FaultsUnder(tree, f, k) = {}
          BY SMTT(30)
        <5>1. tree.nodes[k].kind = "scalar" /\ IsNode(tree, k, tree.nodes[k])
          BY <4>2, ReadIsArena, SMTT(30) DEF IsString, Arena, D
        <5>2. g[k] = "Ok"
          BY <4>2, <5>1 DEF Faulted, NodeFault, D
        <5> HIDE DEF k
        <5> QED BY <4>2, <5>1, <5>2 DEF FirstOf, IsNode
      <4>5. /\ \A x \in FaultsUnder(tree, f, k) : x[1] \in Nat /\ k <= x[1]
            /\ \A x \in FaultsUnder(tree, f, v) : x[1] \in Nat /\ v <= x[1]
        BY <2>3, <4>1
      <4> HIDE DEF k, v, s, kinds, G
      <4> QED BY <4>1, <4>2, <4>3, <4>4, <4>5, EntryFaultIsFirst, SMTT(30)
    <3>7. ASSUME NEW i \in 1 .. m, NEW a \in G[i]
          PROVE  /\ a[1] \in Nat /\ s[i][1] <= a[1]
                 /\ \A d \in inside : s[i][2] < d => a[1] < d
      <4> DEFINE k == s[i][1]
                 v == s[i][2]
      <4>1. k \in inside /\ v \in inside /\ k \in Nat /\ v \in Nat /\ k < v
        BY <3>1, <3>2, <3>3
      <4>2. inside \subseteq Nat
        BY <1>1, <2>2 DEF D
      <4>3. a \in EntryFaults(tree, s, i) \/ a \in FaultsUnder(tree, f, k) \/ a \in FaultsUnder(tree, f, v)
        BY <3>7
      <4>4. CASE a \in EntryFaults(tree, s, i)
        <5>1. a[1] = k
          BY <4>4 DEF EntryFaults
        <5> HIDE DEF k, v
        <5>2. \A d \in inside : v < d => k < d
          BY <4>1, <4>2
        <5> QED BY <4>1, <5>1, <5>2, SMTT(30) DEF k, v
      <4>5. CASE a \in FaultsUnder(tree, f, k)
        <5>1. a[1] \in Nat /\ k <= a[1] /\ a[1] < v
          BY <2>3, <4>1, <4>5
        <5> HIDE DEF k, v
        <5>2. \A d \in inside : v < d => a[1] < d
          BY <4>1, <4>2, <5>1
        <5> QED BY <5>1, <5>2 DEF k, v
      <4>6. CASE a \in FaultsUnder(tree, f, v)
        <5>1. a[1] \in Nat /\ v <= a[1] /\ \A d \in inside : v < d => a[1] < d
          BY <2>3, <4>1, <4>6
        <5> HIDE DEF k, v
        <5>2. k <= a[1]
          BY <4>1, <5>1
        <5> QED BY <5>1, <5>2 DEF k, v
      <4> QED BY <4>3, <4>4, <4>5, <4>6, SMTT(30)
    <3>8. ASSUME NEW i \in 1 .. m, NEW j \in 1 .. m, i < j, NEW a \in G[i], NEW b \in G[j]
          PROVE  a[1] < b[1]
      <4>1. s[j][1] \in inside /\ s[j][1] \in Nat /\ s[i][2] < s[j][1]
        BY <3>1, <3>2, <3>3, <3>8
      <4> HIDE DEF s, G
      <4>2. a[1] \in Nat /\ a[1] < s[j][1] /\ b[1] \in Nat /\ s[j][1] <= b[1]
        BY <3>7, <3>8, <4>1
      <4> QED BY <4>1, <4>2, SMTT(30)
    <3>9. DOMAIN kinds = 1 .. m
      BY <3>2
    <3> HIDE DEF kinds, G, m
    <3>10. FirstOf(FirstFault(kinds), UNION {G[i] : i \in 1 .. m})
      BY <3>2, <3>6, <3>8, <3>9, FirstOfAll
    <3> QED BY <3>4, <3>5, <3>10
  <2>8. CASE node.kind \notin {"sequence", "mapping"}
    <3>1. inside = {}
      <4>1. e[p].kind \notin Collections
        BY <2>8 DEF IsRead, ReadAs, Collections, D
      <4> SUFFICES ASSUME NEW c \in inside PROVE FALSE
        OBVIOUS
      <4>2. p \in f[c - 1] /\ c \in D
        BY InsideIsLater DEF Later, inside, D
      <4>3. c - 1 \in 0 .. Len(e)
        BY <4>2, AroundIsNested DEF D
      <4> QED BY <4>1, <4>2, <4>3 DEF IsRead, NestsAt
    <3>2. \A x : x \in FaultsUnder(tree, f, p) <=> x \in OwnFaults(tree, p)
      BY <3>1, FaultsSplit DEF D, inside
    <3>3. CASE node.kind = "alias"
      <4>1. OwnFaults(tree, p) = {<<p, "Alias">>} /\ g[p] = "Alias" /\ p \in Nat
        BY <1>1, <2>1, <3>3 DEF OwnFaults, NodeFault, D
      <4>2. FaultsUnder(tree, f, p) = {<<p, "Alias">>}
        BY <3>2, <4>1
      <4> DEFINE one == <<p, "Alias">>
      <4>3. one[1] = p /\ one # <<p, "InvalidField">>
        OBVIOUS
      <4>4. FirstOf("Alias", {one})
        <5> HIDE DEF one
        <5>1. /\ <<p, "InvalidField">> \notin {one} /\ p <= p
              /\ \A x \in {one} : x[1] \in Nat /\ p <= x[1]
          BY <4>1, <4>3
        <5> QED BY <4>1, <5>1 DEF FirstOf, one
      <4> QED BY <4>1, <4>2, <4>4
    <3>4. CASE node.kind # "alias"
      <4>1. OwnFaults(tree, p) = {} /\ g[p] = "Ok"
        BY <2>1, <2>8, <3>4 DEF OwnFaults, NodeFault
      <4>2. FaultsUnder(tree, f, p) = {}
        BY <3>2, <4>1
      <4> QED BY <4>1, <4>2 DEF FirstOf
    <3> QED BY <3>3, <3>4
  <2> QED BY <2>6, <2>7, <2>8
<1>3. 0 \in T
  BY <1>1
<1>4. ASSUME NEW k \in 1 .. n, k - 1 \in T
      PROVE  k \in T
  <2>1. ASSUME NEW p \in D, p > n - k
        PROVE  FirstOf(g[p], FaultsUnder(tree, f, p))
    <3>1. ASSUME NEW q \in Later(tree, p)
          PROVE  q \in D /\ q > n - (k - 1)
      BY <1>1, <2>1 DEF Later
    <3>2. \A q \in Later(tree, p) : FirstOf(g[q], FaultsUnder(tree, f, q))
      BY <1>4, <3>1
    <3> QED BY <1>2, <3>2
  <2>2. k \in 0 .. n
    BY <1>1
  <2> HIDE DEF D, n
  <2> QED BY <2>1, <2>2
<1>5. n \in T
  <2>1. n \in 0 .. n
    BY <1>1
  <2> HIDE DEF T
  <2> QED BY <1>1, <1>3, <1>4, <2>1, Along
<1>6. \A p \in D : p > n - n
  BY <1>1
<1> QED BY <1>5, <1>6
------------------------------------------------------------------------------
(* The first of all faults.                                                 *)
FaultKinds == {"Alias", "InvalidField", "MergeKey", "DuplicateKey"}
AllFaults(tree) == UNION {OwnFaults(tree, p) : p \in DOMAIN tree.nodes}

(* KeyFault of a tree read in full is the first of all faults in it, or Ok  *)
(* if there are none.                                                       *)
LEMMA KeyFaultIsFirst ==
  ASSUME NEW tree, NEW e, NEW f, IsRead(tree, e, f)
  PROVE  FirstOf(KeyFault(tree), AllFaults(tree)) /\ KeyFault(tree) \in FaultKinds \cup {"Ok"}
<1>1. Arena(tree, Len(e)) /\ Len(e) \in Nat
  BY ReadIsArena DEF IsRead
<1>2. PICK g : Faulted(g, tree) /\ KeyFault(tree) = g[tree.root]
  BY <1>1, KeyFaultIsOfRoot
<1>3. AllFaults(tree) = FaultsUnder(tree, f, tree.root) /\ tree.root \in DOMAIN tree.nodes
  BY RootSpansAll DEF AllFaults, FaultsUnder
<1>4. FirstOf(KeyFault(tree), AllFaults(tree))
  BY <1>2, <1>3, FaultIsFirst
<1>5. \A x \in AllFaults(tree) : x[2] \in FaultKinds
  <2> SUFFICES ASSUME NEW x \in AllFaults(tree) PROVE x[2] \in FaultKinds
    OBVIOUS
  <2>1. PICK p \in DOMAIN tree.nodes : x \in OwnFaults(tree, p)
    BY DEF AllFaults
  <2>2. CASE tree.nodes[p].kind = "alias"
    BY <2>1, <2>2 DEF OwnFaults, FaultKinds
  <2>3. CASE tree.nodes[p].kind = "mapping"
    <3>1. PICK i : x \in EntryFaults(tree, tree.nodes[p].values, i)
      BY <2>1, <2>3 DEF OwnFaults
    <3> QED BY <3>1 DEF EntryFaults, FaultKinds
  <2> QED BY <2>1, <2>2, <2>3 DEF OwnFaults
<1>6. ASSUME KeyFault(tree) # "Ok"
      PROVE  KeyFault(tree) \in FaultKinds
  <2>1. PICK m \in Nat : <<m, KeyFault(tree)>> \in AllFaults(tree)
    BY <1>4, <1>6 DEF FirstOf
  <2>2. <<m, KeyFault(tree)>>[2] = KeyFault(tree)
    OBVIOUS
  <2> QED BY <1>5, <2>1, <2>2
<1> QED BY <1>4, <1>6

(* The faults the property looks for are those of all nodes.                *)
LEMMA FaultsAreAll == Faults = AllFaults(Tree)
<1>1. ASSUME NEW s
      PROVE  KeyFaults(s) = UNION {EntryFaults(Tree, s, i) : i \in DOMAIN s}
  <2> DEFINE all == UNION {EntryFaults(Tree, s, i) : i \in DOMAIN s}
             key(i) == KeyOf(Tree, s[i])
             again(i) == IsString(key(i)) /\ key(i).text # MergeKeyText /\ \E k \in 1 .. i - 1 : key(k) = key(i)
             one == {<<s[i][1], "InvalidField">> : i \in {j \in DOMAIN s : ~ IsString(key(j))}}
             two == {<<s[i][1], "MergeKey">> : i \in {j \in DOMAIN s : key(j) = ScalarOf(MergeKeyText)}}
             three == {<<s[i][1], "DuplicateKey">> : i \in {j \in DOMAIN s : again(j)}}
  <2>1. KeyFaults(s) = one \cup two \cup three
    BY DEF KeyFaults
  <2>2. \A i \in DOMAIN s : EntryFaults(Tree, s, i) =
          (IF ~ IsString(key(i)) THEN {<<s[i][1], "InvalidField">>} ELSE {})
          \cup (IF key(i) = ScalarOf(MergeKeyText) THEN {<<s[i][1], "MergeKey">>} ELSE {})
          \cup (IF again(i) THEN {<<s[i][1], "DuplicateKey">>} ELSE {})
    BY DEF EntryFaults
  <2> HIDE DEF key, again
  <2>3. \A x : x \in all <=> \E i \in DOMAIN s : x \in EntryFaults(Tree, s, i)
    OBVIOUS
  <2> HIDE DEF all
  <2>4. \A x : x \in all => x \in one \cup two \cup three
    BY <2>2, <2>3
  <2>5. \A x : x \in one \cup two \cup three => x \in all
    BY <2>2, <2>3
  <2> QED BY <2>1, <2>4, <2>5 DEF all
<1>2. Tree.nodes = nodes
  BY DEF Tree
<1> DEFINE aliases == {<<p, "Alias">> : p \in {q \in DOMAIN nodes : nodes[q].kind = "alias"}}
           keys == UNION {KeyFaults(nodes[p].values) : p \in {q \in DOMAIN nodes : nodes[q].kind = "mapping"}}
<1>3. Faults = aliases \cup keys
  BY DEF Faults
<1>4. \A p \in DOMAIN nodes : OwnFaults(Tree, p) =
         IF nodes[p].kind = "alias" THEN {<<p, "Alias">>}
         ELSE IF nodes[p].kind = "mapping" THEN KeyFaults(nodes[p].values)
         ELSE {}
  BY <1>1, <1>2 DEF OwnFaults
<1>5. \A x : x \in AllFaults(Tree) <=> \E p \in DOMAIN nodes : x \in OwnFaults(Tree, p)
  BY <1>2 DEF AllFaults
<1>6. \A x : x \in aliases \cup keys => x \in AllFaults(Tree)
  BY <1>4, <1>5
<1>7. \A x : x \in AllFaults(Tree) => x \in aliases \cup keys
  BY <1>4, <1>5
<1> QED BY <1>3, <1>6, <1>7

(* As many containers are open as collections.                              *)
LEMMA OpenCount ==
  ASSUME NEW X, NEW e \in Seq(X), NEW ns, NEW open, NEW top, ReadsNow(e, ns, open, top)
  PROVE  IsFiniteSet(ReadNow(e)) /\ Cardinality(ReadNow(e)) = Len(open)
         /\ (open = <<>> <=> ReadNow(e) = {})
<1> DEFINE o == ReadNow(e)
           n == Len(open)
           at == Ats(open)
<1>1. open \in Seq(Containers) /\ ListsInOrder(at, o) /\ o \subseteq 1 .. Len(e) /\ Len(e) \in Nat
  BY OpenIsBounded DEF ReadsNow, Reads, ReadNow
<1>2. n \in Nat /\ DOMAIN at = 1 .. n /\ at = [i \in 1 .. n |-> at[i]]
  BY <1>1 DEF Ats
<1> HIDE DEF at, n, o
<1>3. o = {at[i] : i \in 1 .. n} /\ \A i, j \in 1 .. n : i < j => at[i] < at[j]
  BY <1>1, <1>2 DEF ListsInOrder, ToSet
<1>4. at \in [1 .. n -> o] /\ \A x \in o : \E i \in 1 .. n : at[i] = x
  BY <1>2, <1>3
<1>5. \A i, j \in 1 .. n : i # j => at[i] # at[j]
  <2>1. \A i \in 1 .. n : at[i] \in Nat
    <3>1. o \subseteq Nat
      BY <1>1
    <3>2. \A i \in 1 .. n : at[i] \in o
      BY <1>4
    <3> QED BY <3>1, <3>2
  <2>2. \A i, j \in 1 .. n : i # j => i < j \/ j < i
    BY <1>2
  <2> QED BY <1>3, <2>1, <2>2
<1>6. IsFiniteSet(o) /\ Cardinality(o) = n
  BY <1>2, <1>4, <1>5, ElementsOfList
<1>7. open = <<>> <=> o = {}
  BY <1>1, TopIsInnermost DEF at
<1> QED BY <1>6, <1>7 DEF o, n

(* What the parser has open is what its events have opened.                 *)
DocumentEnds(v) == v.kind = "end document"
Parsed(e, open) ==
  /\ open \in Seq([kind : Collections, nodes : Nat])
  /\ IsFiniteSet(ReadNow(e)) /\ Len(open) = Cardinality(ReadNow(e))
  /\ (e = <<>> \/ DocumentEnds(Last(e))) => open = <<>>
Deep(e) == \E n \in DOMAIN e : Cardinality(Openings(e)[n]) > MaxDepth
Refusals == {"reading", "DocumentTooLarge", "DepthLimit", "Syntax"}

FaultInv ==
  /\ ReadingInv
  /\ Parsed(events, nested)
  /\ result = "DepthLimit" <=> Deep(events)
  /\ result \notin Refusals => documents = 1 /\ root # NoNode /\ stack = <<>> /\ result = KeyFault(Tree)

(* Only the end of a document ends it.                                      *)
LEMMA OnlyOneEventEnds ==
  /\ InDocument <=> ~ (events = <<>> \/ DocumentEnds(Last(events)))
  /\ \A v : v.kind \in {"scalar", "alias", "end"} \cup Collections => ~ DocumentEnds(v)
<1>1. InDocument <=> ~ (events = <<>> \/ DocumentEnds(Last(events)))
  BY Zenon DEF InDocument, DocumentEnds
<1>2. \A v : v.kind \in {"scalar", "alias", "end"} \cup Collections => ~ DocumentEnds(v)
  BY Zenon DEF DocumentEnds, Collections
<1> QED BY <1>1, <1>2

(* What an event opens or closes.                                           *)
Opening(e, v, u, o) ==
  /\ v.kind \in Collections => ReadNow(u) = o \cup {Len(u)} /\ Len(u) \notin o
  /\ v.kind = "end" => ReadNow(u) = o \ {Max(o)}
  /\ v.kind \notin Collections \cup {"end"} => ReadNow(u) = o
  /\ o # {} => Max(o) \in o
  /\ Deep(u) <=> Deep(e) \/ Cardinality(ReadNow(u)) > MaxDepth

(* What is open now, after one event more: a start adds it, an end takes    *)
(* the innermost away.                                                      *)
LEMMA EventOpens ==
  ASSUME NEW X, NEW e \in Seq(X), NEW v \in X, NEW u, u = Append(e, v)
  PROVE  Opening(e, v, u, ReadNow(e))
<1> DEFINE o == ReadNow(e)
           f == Openings(e)
           g == Openings(u)
           n == Len(e)
<1>1. n \in Nat /\ Len(u) = n + 1 /\ DOMAIN e = 1 .. n /\ DOMAIN u = 1 .. n + 1
  OBVIOUS
<1>2. GrownBy(f, g, v, n)
  BY OpenGrows
<1>3. o \subseteq 1 .. n /\ o = f[n] /\ ReadNow(u) = g[n + 1]
  BY <1>1, OpenIsBounded DEF ReadNow
<1>4. o # {} => Max(o) \in o
  <2>1. o \subseteq 0 .. n
    BY <1>1, <1>3
  <2> HIDE DEF o
  <2> QED BY <1>1, <2>1, MaxOfBounded
<1>5. v.kind \in Collections => ReadNow(u) = o \cup {n + 1} /\ n + 1 \notin o
  BY <1>1, <1>2, <1>3 DEF GrownBy
<1>6. v.kind = "end" => ReadNow(u) = o \ {Max(o)}
  BY <1>2, <1>3 DEF GrownBy, Collections
<1>7. v.kind \notin Collections \cup {"end"} => ReadNow(u) = o
  BY <1>2, <1>3 DEF GrownBy
<1>8. Deep(u) <=> Deep(e) \/ Cardinality(ReadNow(u)) > MaxDepth
  <2>1. \A m \in 1 .. n : g[m] = f[m]
    BY <1>1, <1>2 DEF GrownBy
  <2>2. \A m : m \in 1 .. n + 1 <=> m \in 1 .. n \/ m = n + 1
    BY <1>1
  <2> QED BY <1>1, <1>3, <2>1, <2>2 DEF Deep
<1> QED BY <1>1, <1>4, <1>5, <1>6, <1>7, <1>8 DEF Opening
------------------------------------------------------------------------------
Opened == [kind : Collections, nodes : Nat]

(* An event keeps the count of what the parser has open, and what that may be. *)
LEMMA EventCounts ==
  ASSUME NEW e \in Seq(SourceEvents), NEW open, Parsed(e, open), ~ Deep(e),
         NEW v \in SourceEvents, NEW u, u = Append(e, v),
         NEW now \in Seq(Opened)
  PROVE  /\ u \in Seq(SourceEvents)
         /\ v \in Marks /\ open = <<>> /\ now = open => Parsed(u, now) /\ ~ Deep(u)
         /\ v \in Leaves /\ Len(now) = Len(open) => Parsed(u, now) /\ ~ Deep(u)
         /\ v.kind \in Collections /\ Len(now) = Len(open) + 1 =>
              Parsed(u, now) /\ (Deep(u) <=> Len(open) + 1 > MaxDepth)
         /\ v.kind = "end" /\ Len(open) = Len(now) + 1 => Parsed(u, now) /\ ~ Deep(u)
<1> DEFINE o == ReadNow(e)
           w == ReadNow(u)
           c == Cardinality(o)
<1>1. /\ u \in Seq(SourceEvents) /\ Len(u) = Len(e) + 1 /\ Len(e) \in Nat /\ DOMAIN e = 1 .. Len(e)
      /\ u # <<>> /\ Last(u) = v
  BY DEF Last
<1>2. open \in Seq(Opened) /\ IsFiniteSet(o) /\ Len(open) = c /\ c \in Nat
  <2>1. open \in Seq(Opened) /\ IsFiniteSet(o) /\ Len(open) = c
    BY DEF Parsed, Opened
  <2> QED BY <2>1, FS_CardinalityType
<1>3. c <= MaxDepth /\ MaxDepth \in Nat
  <2>1. MaxDepth \in Nat
    BY SyntaxAssumption
  <2>2. CASE e = <<>>
    <3>1. open = <<>>
      BY <2>2 DEF Parsed
    <3> QED BY <1>2, <2>1, <3>1
  <2>3. CASE e # <<>>
    <3>1. Len(e) \in DOMAIN e
      BY <1>1, <2>3
    <3>2. ~ (c > MaxDepth)
      BY <3>1 DEF Deep, ReadNow
    <3> HIDE DEF c
    <3> QED BY <1>2, <2>1, <3>2
  <2> QED BY <2>2, <2>3
<1>4. /\ v.kind \in Collections => w = o \cup {Len(u)} /\ Len(u) \notin o
      /\ v.kind = "end" => w = o \ {Max(o)}
      /\ v.kind \notin Collections \cup {"end"} => w = o
      /\ o # {} => Max(o) \in o
      /\ Deep(u) <=> Deep(e) \/ Cardinality(w) > MaxDepth
  <2>1. Opening(e, v, u, o)
    BY EventOpens
  <2> HIDE DEF o
  <2> QED BY <2>1 DEF Opening
<1>5. Deep(u) <=> Cardinality(w) > MaxDepth
  BY <1>4
<1> HIDE DEF o, w, c
<1>6. c = Cardinality(o) /\ w = ReadNow(u)
  BY DEF c, o, w
<1>7. CASE v \in Marks
  <2>1. w = o
    <3>1. ~ Begun(v) /\ v.kind # "end"
      BY <1>7, MarksAreNoNodes
    <3> QED BY <1>4, <3>1 DEF Begun
  <2>2. v \notin Leaves /\ v.kind \notin Collections /\ v.kind # "end"
    <3>1. ~ Begun(v) /\ v.kind # "end"
      BY <1>7, MarksAreNoNodes
    <3>2. \A x \in Leaves : x.kind \in {"scalar", "alias"}
      BY DEF Leaves, Event, ScalarOf
    <3> QED BY <3>1, <3>2 DEF Begun
  <2>3. ~ Deep(u)
    BY <1>2, <1>3, <1>5, <1>6, <2>1
  <2>4. open = <<>> /\ now = open => Parsed(u, now)
    BY <1>2, <1>6, <2>1 DEF Parsed, Opened
  <2> QED BY <1>1, <2>2, <2>3, <2>4
<1>8. CASE v \notin Marks
  <2>1. ~ DocumentEnds(v)
    <3>1. v.kind \in {"scalar", "alias", "end"} \cup Collections
      <4>1. \A x \in Leaves : x.kind \in {"scalar", "alias"}
        BY DEF Leaves, Event, ScalarOf
      <4>2. \A kind : Event(kind).kind = kind
        BY DEF Event
      <4>3. v \in Leaves \/ v = Event("end") \/ \E kind \in Collections : v = Event(kind)
        BY <1>8, Zenon DEF SourceEvents
      <4> QED BY <4>1, <4>2, <4>3, Zenon
    <3> QED BY <3>1, OnlyOneEventEnds
  <2>2. ASSUME IsFiniteSet(w), Cardinality(w) = Len(now)
        PROVE  Parsed(u, now)
    BY <1>1, <1>6, <2>1, <2>2 DEF Parsed, Opened
  <2>3. CASE v \in Leaves
    <3>1. v.kind \in {"scalar", "alias"}
      BY <2>3 DEF Leaves, Event, ScalarOf
    <3>2. v.kind \notin Collections /\ v.kind # "end"
      BY <3>1 DEF Collections
    <3>3. w = o
      BY <1>4, <3>2
    <3>4. ~ Deep(u)
      BY <1>2, <1>3, <1>5, <1>6, <3>3
    <3>5. Len(now) = Len(open) => Parsed(u, now)
      BY <1>2, <1>6, <2>2, <3>3
    <3> QED BY <1>1, <1>8, <3>2, <3>4, <3>5
  <2>4. CASE v.kind \in Collections
    <3>1. v.kind # "end" /\ v \notin Leaves
      <4>1. \A x \in Leaves : x.kind \in {"scalar", "alias"}
        BY DEF Leaves, Event, ScalarOf
      <4> QED BY <2>4, <4>1 DEF Collections
    <3>2. w = o \cup {Len(u)} /\ Len(u) \notin o
      BY <1>4, <2>4
    <3>3. IsFiniteSet(w) /\ Cardinality(w) = c + 1
      BY <1>2, <1>6, <3>2, FS_AddElement
    <3>4. Deep(u) <=> Len(open) + 1 > MaxDepth
      BY <1>2, <1>5, <3>3
    <3>5. Len(now) = Len(open) + 1 => Parsed(u, now)
      BY <1>2, <2>2, <3>3
    <3> QED BY <1>1, <1>8, <3>1, <3>4, <3>5
  <2>5. CASE v.kind = "end" /\ Len(open) = Len(now) + 1
    <3>1. v.kind \notin Collections /\ v \notin Leaves
      <4>1. \A x \in Leaves : x.kind \in {"scalar", "alias"}
        BY DEF Leaves, Event, ScalarOf
      <4> QED BY <2>5, <4>1 DEF Collections
    <3>2. o # {}
      <4>1. c # 0
        BY <1>2, <2>5
      <4> QED BY <1>6, <4>1, FS_EmptySet
    <3>3. IsFiniteSet(w) /\ Cardinality(w) = c - 1
      BY <1>2, <1>4, <1>6, <2>5, <3>2, FS_RemoveElement, SMTT(30)
    <3>4. ~ Deep(u)
      BY <1>2, <1>3, <1>5, <3>3
    <3>5. Parsed(u, now)
      <4>1. Cardinality(w) = Len(now)
        <5>1. Len(now) \in Nat
          OBVIOUS
        <5>2. c = Len(now) + 1
          BY <1>2, <2>5
        <5>3. \A k \in Nat : (k + 1) - 1 = k
          OBVIOUS
        <5> QED BY <3>3, <5>1, <5>2, <5>3, Zenon
      <4> QED BY <2>2, <3>3, <4>1
    <3> QED BY <1>1, <1>8, <3>1, <3>4, <3>5
  <2>6. CASE v \notin Leaves /\ v.kind \notin Collections /\ ~ (v.kind = "end" /\ Len(open) = Len(now) + 1)
    BY <1>1, <1>8, <2>6
  <2> QED BY <2>3, <2>4, <2>5, <2>6
<1> QED BY <1>7, <1>8
------------------------------------------------------------------------------
(* A node with fault-free keys comes of what was read in full.              *)
LEMMA AllIsRead ==
  ASSUME ReadingInv, result \notin {"Syntax", "DepthLimit"}, stack = <<>>, root # NoNode
  PROVE  IsRead(Tree, events, Openings(events))
<1> DEFINE f == Openings(events)
<1>1. events \in Seq(SourceEvents) /\ ReadsNow(events, nodes, stack, root)
  BY DEF ReadingInv
<1>2. ReadNow(events) = {}
  BY <1>1, OpenCount
<1>3. Reads(events, f, {}, {}, nodes, stack, root)
  BY <1>1, <1>2 DEF ReadsNow
<1>4. Tree.nodes = nodes /\ Tree.root = root
  BY DEF Tree
<1>5. \A n \in 0 .. Len(events) : NestsAt(f, events, n)
  BY <1>1, OpenIsBounded
<1>6. ASSUME NEW p \in BeginsIn(events)
      PROVE  events[p].kind \in Collections \/ events[p].kind = "alias" \/ events[p] = ScalarOf(events[p].text)
  <2>1. events[p] \in SourceEvents /\ Begun(events[p])
    BY <1>1, <1>6 DEF BeginsIn, Begun
  <2>2. events[p] \notin Marks /\ events[p] # Event("end")
    <3>1. Event("end").kind = "end"
      BY DEF Event
    <3>2. ~ Begun(Event("end"))
      BY <3>1 DEF Begun, Collections
    <3> QED BY <2>1, <3>2, MarksAreNoNodes
  <2>3. \A kind : Event(kind).kind = kind
    BY DEF Event
  <2>4. events[p] \in Leaves \/ \E kind \in Collections : events[p] = Event(kind)
    BY <2>1, <2>2, Zenon DEF SourceEvents
  <2>5. CASE events[p] \in Leaves
    <3>1. events[p] = Event("alias") \/ \E text \in Scalars : events[p] = ScalarOf(text)
      BY <2>5, Zenon DEF Leaves
    <3>2. CASE events[p] = Event("alias")
      BY <2>3, <3>2, Zenon
    <3>3. CASE \E text \in Scalars : events[p] = ScalarOf(text)
      <4>1. PICK text \in Scalars : events[p] = ScalarOf(text)
        BY <3>3
      <4>2. events[p].text = text
        BY <4>1 DEF ScalarOf
      <4> QED BY <4>1, <4>2
    <3> QED BY <3>1, <3>2, <3>3
  <2>6. CASE \E kind \in Collections : events[p] = Event(kind)
    BY <2>3, <2>6, Zenon
  <2> QED BY <2>4, <2>5, <2>6
<1>7. Len(events) \in Nat /\ DOMAIN events = 1 .. Len(events)
  BY <1>1
<1> QED BY <1>3, <1>4, <1>5, <1>6, <1>7 DEF IsRead, Reads

(* Every step keeps what was read, the count of what is open, the depth     *)
(* limit and the verdict.                                                   *)
LEMMA StepKeepsFaults ==
  ASSUME FaultInv, [SyntaxNext]_syntaxVars
  PROVE  FaultInv'
<1>1. ReadingInv'
  BY StepKeepsReading DEF FaultInv
<1>2. /\ events \in Seq(SourceEvents) /\ Parsed(events, nested)
      /\ result = "DepthLimit" <=> Deep(events)
  BY DEF FaultInv, ReadingInv
<1> DEFINE Counts == /\ Parsed(events', nested')
                     /\ result' = "DepthLimit" <=> Deep(events')
           Accepts == result' \notin Refusals =>
                        documents' = 1 /\ root' # NoNode /\ stack' = <<>> /\ result' = KeyFault(Tree)'
<1>3. SUFFICES Counts /\ Accepts
  BY <1>1 DEF FaultInv
<1>4. CASE UNCHANGED syntaxVars
  BY <1>4 DEF syntaxVars, FaultInv, KeyFault, Tree
<1>5. CASE TooLarge \/ SyntaxError
  BY <1>2, <1>5 DEF TooLarge, SyntaxError, Refusals
<1>6. CASE StreamEnd
  <2>1. CASE documents # 1 \/ root = NoNode
    BY <1>2, <1>6, <2>1 DEF StreamEnd, Refusals
  <2>2. CASE ~ (documents # 1 \/ root = NoNode)
    <3>1. result = "reading" /\ result' = KeyFault(Tree) /\ ~ InDocument
          /\ UNCHANGED <<events, nodes, stack, root, documents, nested>>
      BY <1>6, <2>2 DEF StreamEnd
    <3>2. stack = <<>>
      <4>1. nested = <<>> /\ Len(nested) = Cardinality(ReadNow(events)) /\ IsFiniteSet(ReadNow(events))
        BY <1>2, <3>1, OnlyOneEventEnds DEF Parsed
      <4>2. Cardinality(ReadNow(events)) = 0
        BY <4>1
      <4>3. ReadNow(events) = {}
        BY <4>1, <4>2, FS_EmptySet
      <4>4. ReadsNow(events, nodes, stack, root)
        BY <3>1 DEF FaultInv, ReadingInv
      <4> QED BY <1>2, <4>3, <4>4, OpenCount
    <3>3. KeyFault(Tree) \in FaultKinds \cup {"Ok"}
      <4>1. IsRead(Tree, events, Openings(events))
        BY <2>2, <3>1, <3>2, AllIsRead DEF FaultInv
      <4> QED BY <4>1, KeyFaultIsFirst
    <3>4. result' # "DepthLimit"
      BY <3>1, <3>3 DEF FaultKinds
    <3>5. Counts
      BY <1>2, <3>1, <3>4
    <3>6. Accepts
      <4>1. KeyFault(Tree)' = KeyFault(Tree)
        BY <3>1 DEF KeyFault, Tree
      <4> HIDE DEF Counts
      <4> QED BY <2>2, <3>1, <3>2, <4>1
    <3> QED BY <3>5, <3>6
  <2> QED BY <2>1, <2>2
<1>7. ASSUME NEW v \in SourceEvents, Read(v)
      PROVE  result = "reading" /\ ~ Deep(events) /\ events' = Append(events, v)
  BY <1>2, <1>7 DEF Read
<1>8. ASSUME result' \in Refusals
      PROVE  Accepts
  BY <1>8
<1>9. nested \in Seq(Opened) /\ Len(nested) \in Nat
  BY <1>2 DEF Parsed, Opened
<1>10. CASE DocumentStart \/ DocumentEnd
  <2>1. Event("document") \in Marks /\ Event("end document") \in Marks
    BY Zenon DEF Marks
  <2>2. ~ InDocument => nested = <<>>
    BY <1>2, OnlyOneEventEnds DEF Parsed
  <2>3. PICK v \in Marks : Read(v) /\ UNCHANGED result /\ nested = <<>> /\ nested' = nested
    BY <1>10, <2>1, <2>2, Zenon DEF DocumentStart, DocumentEnd
  <2>4. v \in SourceEvents
    BY DEF SourceEvents
  <2>5. result = "reading" /\ ~ Deep(events) /\ events' = Append(events, v)
    BY <1>7, <2>3, <2>4
  <2>6. Parsed(events', nested') /\ ~ Deep(events')
    BY <1>2, <1>9, <2>3, <2>4, <2>5, EventCounts
  <2>7. result' = "reading"
    BY <2>3, <2>5
  <2> QED BY <1>8, <2>6, <2>7 DEF Refusals
<1>11. Counted \in Seq(Opened) /\ Len(Counted) = Len(nested)
  <2>1. CASE nested = <<>>
    BY <1>9, <2>1 DEF Counted
  <2>2. CASE nested # <<>>
    <3> DEFINE n == Len(nested)
    <3>1. n \in 1 .. n /\ nested[n] \in Opened /\ DOMAIN nested = 1 .. n
      BY <1>9, <2>2
    <3>2. [nested[n] EXCEPT !.nodes = @ + 1] \in Opened
      BY <3>1 DEF Opened
    <3>3. Counted = [nested EXCEPT ![n] = [nested[n] EXCEPT !.nodes = @ + 1]]
      BY <2>2 DEF Counted
    <3>4. Counted = [i \in 1 .. n |-> IF i = n THEN [nested[n] EXCEPT !.nodes = @ + 1] ELSE nested[i]]
      BY <3>1, <3>3
    <3>5. \A i \in 1 .. n : nested[i] \in Opened
      BY <1>9
    <3>6. Counted \in [1 .. n -> Opened] /\ n \in Nat
      BY <1>9, <3>2, <3>4, <3>5
    <3> HIDE DEF n
    <3>7. Counted \in Seq(Opened) /\ Len(Counted) = n
      BY <3>6
    <3> QED BY <3>7 DEF n
  <2> QED BY <2>1, <2>2
<1>12. ASSUME NEW open, NEW at, NEW node, PushNode(open, at, node), result = "reading"
       PROVE  result' \in {"reading", "Syntax"}
  BY <1>12 DEF PushNode
<1>13. CASE ScalarEvent \/ AliasEvent
  <2>1. PICK v \in Leaves : Leaf(v)
    BY <1>13, Zenon DEF ScalarEvent, AliasEvent, Leaves
  <2>2. v \in SourceEvents /\ Read(v) /\ nested' = Counted /\ PushNode(stack, Position, v)
    BY <2>1, Zenon DEF Leaf, SourceEvents
  <2>3. result = "reading" /\ ~ Deep(events) /\ events' = Append(events, v)
    BY <1>7, <2>2
  <2>4. Parsed(events', nested') /\ ~ Deep(events')
    BY <1>2, <1>11, <2>1, <2>2, <2>3, EventCounts
  <2>5. result' \in {"reading", "Syntax"}
    BY <1>12, <2>2, <2>3
  <2> QED BY <1>8, <2>4, <2>5 DEF Refusals
<1>14. CASE CollectionEnd
  <2> DEFINE v == Event("end")
  <2>1. v \in SourceEvents /\ v.kind = "end"
    <3>1. v.kind = "end"
      BY DEF Event
    <3> QED BY <3>1, Zenon DEF SourceEvents
  <2>2. Read(v) /\ nested # <<>> /\ nested' = Front(nested) /\ Close
    BY <1>14 DEF CollectionEnd
  <2>3. result = "reading" /\ ~ Deep(events) /\ events' = Append(events, v)
    BY <1>7, <2>1, <2>2
  <2> HIDE DEF v
  <2>4. nested' \in Seq(Opened) /\ Len(nested) = Len(nested') + 1
    <3>1. \A s \in Seq(Opened) : s # <<>> => SubSeq(s, 1, Len(s) - 1) \in Seq(Opened)
                                             /\ Len(s) = Len(SubSeq(s, 1, Len(s) - 1)) + 1
      <4> SUFFICES ASSUME NEW s \in Seq(Opened), s # <<>>
                   PROVE  SubSeq(s, 1, Len(s) - 1) \in Seq(Opened) /\ Len(s) = Len(SubSeq(s, 1, Len(s) - 1)) + 1
        OBVIOUS
      <4> DEFINE n == Len(s) - 1
      <4>1. n \in Nat /\ Len(s) = n + 1 /\ \A i \in 1 .. n : s[i] \in Opened
        OBVIOUS
      <4> HIDE DEF n
      <4>2. SubSeq(s, 1, n) = [i \in 1 .. n |-> s[i]]
        BY <4>1
      <4>3. SubSeq(s, 1, n) \in Seq(Opened) /\ Len(SubSeq(s, 1, n)) = n
        BY <4>1, <4>2
      <4> QED BY <4>1, <4>3 DEF n
    <3>2. nested # <<>> /\ nested' = SubSeq(nested, 1, Len(nested) - 1)
      BY <2>2 DEF Front
    <3> QED BY <1>9, <3>1, <3>2
  <2>5. Parsed(events', nested') /\ ~ Deep(events')
    BY <1>2, <2>1, <2>3, <2>4, EventCounts
  <2>6. result' \in {"reading", "Syntax"}
    BY <1>12, <2>2, <2>3 DEF Close
  <2> QED BY <1>8, <2>5, <2>6 DEF Refusals
<1>15. CASE CollectionStart
  <2>1. PICK kind \in Collections : /\ Read(Event(kind)) /\ Open(kind)
                                    /\ nested' = Append(Counted, [kind |-> kind, nodes |-> 0])
    BY <1>15 DEF CollectionStart
  <2> DEFINE v == Event(kind)
  <2>2. v \in SourceEvents /\ v.kind = kind
    <3>1. v.kind = kind
      BY DEF Event
    <3> QED BY <3>1, Zenon DEF SourceEvents
  <2>3. result = "reading" /\ ~ Deep(events) /\ events' = Append(events, v)
    BY <1>7, <2>1, <2>2
  <2> HIDE DEF v
  <2>4. nested' \in Seq(Opened) /\ Len(nested') = Len(nested) + 1
    <3>1. [kind |-> kind, nodes |-> 0] \in Opened
      BY DEF Opened
    <3> QED BY <1>9, <1>11, <2>1, <3>1
  <2>5. Parsed(events', nested') /\ (Deep(events') <=> Len(nested) + 1 > MaxDepth)
    BY <1>2, <2>2, <2>3, <2>4, EventCounts
  <2>6. Len(nested) = Len(stack)
    <3>1. ReadsNow(events, nodes, stack, root)
      BY <2>3 DEF FaultInv, ReadingInv
    <3> QED BY <1>2, <3>1, OpenCount DEF Parsed
  <2>7. result' = IF Len(stack) + 1 > MaxDepth THEN "DepthLimit" ELSE "reading"
    BY <2>1, <2>3 DEF Open, TooDeep
  <2>8. result' \in {"reading", "DepthLimit"} /\ (result' = "DepthLimit" <=> Len(stack) + 1 > MaxDepth)
    BY <2>7
  <2> QED BY <1>8, <2>5, <2>6, <2>8 DEF Refusals
<1> QED BY <1>4, <1>5, <1>6, <1>10, <1>13, <1>14, <1>15 DEF SyntaxNext
------------------------------------------------------------------------------
(* The verdict.                                                             *)

(* All of it holds before the first event.                                  *)
LEMMA FaultsFromStart == SyntaxInit => FaultInv
<1> SUFFICES ASSUME SyntaxInit PROVE FaultInv
  OBVIOUS
<1>1. ReadingInv
  BY ReadingFromStart
<1>2. events = <<>> /\ stack = <<>> /\ nested = <<>> /\ result = "reading" /\ root = NoNode
      /\ events \in Seq(SourceEvents) /\ DOMAIN events = {}
      /\ nested \in Seq([kind : Collections, nodes : Nat]) /\ Len(nested) = 0
  BY DEF SyntaxInit
<1>3. ReadsNow(events, nodes, stack, root)
  BY <1>1, <1>2 DEF ReadingInv
<1>4. IsFiniteSet(ReadNow(events)) /\ Cardinality(ReadNow(events)) = 0
  <2>1. ReadNow(events) = {}
    BY <1>2, <1>3, OpenCount
  <2> QED BY <2>1, FS_EmptySet
<1>5. Parsed(events, nested)
  BY <1>2, <1>4 DEF Parsed
<1>6. ~ Deep(events)
  BY <1>2 DEF Deep
<1> QED BY <1>1, <1>2, <1>5, <1>6 DEF FaultInv, Refusals

(* The verdict is the first fault.                                          *)
LEMMA FaultsAreTheFirst == FaultInv => RefusedForTheFirstFault
<1> SUFFICES ASSUME FaultInv PROVE RefusedForTheFirstFault
  OBVIOUS
<1>1. result = "DepthLimit" <=> \E n \in DOMAIN events : Cardinality(OpenAfter[n]) > MaxDepth
  BY OpenAfterOpens DEF FaultInv, Deep
<1> DEFINE first == Min({f[1] : f \in Faults})
<1>2. ASSUME result \notin Refusals
      PROVE  /\ documents = 1 /\ root # NoNode
             /\ result = "Ok" <=> Faults = {}
             /\ result # "Ok" =>
                  /\ <<first, result>> \in Faults
                  /\ result = "Alias" => <<first, "InvalidField">> \notin Faults
  <2>1. documents = 1 /\ root # NoNode /\ stack = <<>> /\ result = KeyFault(Tree)
    BY <1>2 DEF FaultInv
  <2>2. IsRead(Tree, events, Openings(events))
    BY <1>2, <2>1, AllIsRead DEF FaultInv, Refusals
  <2>3. FirstOf(result, Faults)
    BY <2>1, <2>2, KeyFaultIsFirst, FaultsAreAll
  <2>4. result = "Ok" <=> Faults = {}
    BY <2>3 DEF FirstOf
  <2>5. ASSUME result # "Ok"
        PROVE  /\ <<first, result>> \in Faults
               /\ result = "Alias" => <<first, "InvalidField">> \notin Faults
    <3>1. PICK m \in Nat : /\ <<m, result>> \in Faults
                           /\ \A x \in Faults : x[1] \in Nat /\ m <= x[1]
                           /\ result = "Alias" => <<m, "InvalidField">> \notin Faults
      BY <2>3, <2>5 DEF FirstOf
    <3> DEFINE S == {f[1] : f \in Faults}
    <3>2. m \in S /\ S \subseteq Nat /\ \A k \in S : m <= k
      <4>1. <<m, result>>[1] = m
        OBVIOUS
      <4> QED BY <3>1, <4>1
    <3> HIDE DEF S
    <3>3. Min(S) = m
      <4>1. Min(S) \in S /\ Min(S) <= m
        BY <3>2, MinOfNaturals
      <4>2. Min(S) \in Nat /\ m <= Min(S)
        BY <3>2, <4>1
      <4> QED BY <4>1, <4>2
    <3> QED BY <3>1, <3>3 DEF S
  <2> QED BY <2>1, <2>4, <2>5
<1> QED BY <1>1, <1>2 DEF RefusedForTheFirstFault, Refusals

(* A source is refused exactly for what is wrong with it, and for the first of it. *)
THEOREM RefusedForTheFirst == SyntaxSpec => []RefusedForTheFirstFault
<1>1. FaultInv /\ [SyntaxNext]_syntaxVars => FaultInv'
  BY StepKeepsFaults
<1> QED BY <1>1, FaultsFromStart, FaultsAreTheFirst, PTL DEF SyntaxSpec

(* A tree read in full is a document as loading assumes them.               *)
LEMMA ReadIsDocument ==
  ASSUME NEW tree, NEW e, NEW f, IsRead(tree, e, f)
  PROVE  IsDocument(tree)
<1> DEFINE names == DOMAIN tree.nodes
           n == Len(e)
<1>1. names \subseteq 1 .. n /\ \A p \in names : IsNode(tree, p, tree.nodes[p])
  BY ReadIsArena DEF Arena
<1>2. tree.root \in names
  BY RootSpansAll
<1>3. n \in Nat
  BY DEF IsRead
<1> HIDE DEF names, n
<1>4. Max(names) \in names /\ \A p \in names : p <= Max(names)
  <2>1. names \in SUBSET (0 .. n) /\ names # {}
    BY <1>1, <1>2, <1>3
  <2>2. Max(names) \in names /\ \A p \in names : Max(names) >= p
    BY <1>3, <2>1, MaxOfBounded
  <2> QED BY <1>1, <1>3, <2>2
<1>5. names \subseteq Nat \ {NoNode}
  BY <1>1, <1>3 DEF NoNode
<1> QED BY <1>1, <1>2, <1>4, <1>5 DEF names, IsDocument

(* What parse accepts is a document without key faults: what loading assumes of *)
(* its documents holds of every tree that reaches it.                       *)
THEOREM AcceptedIsDocument ==
  SyntaxSpec => [](result = "Ok" => IsDocument(Tree) /\ KeyFault(Tree) = "Ok")
<1>1. FaultInv /\ [SyntaxNext]_syntaxVars => FaultInv'
  BY StepKeepsFaults
<1>2. FaultInv => (result = "Ok" => IsDocument(Tree) /\ KeyFault(Tree) = "Ok")
  <2> SUFFICES ASSUME FaultInv, result = "Ok"
               PROVE  IsDocument(Tree) /\ KeyFault(Tree) = "Ok"
    OBVIOUS
  <2>1. root # NoNode /\ stack = <<>> /\ result = KeyFault(Tree)
    BY DEF FaultInv, Refusals
  <2>2. IsRead(Tree, events, Openings(events))
    BY <2>1, AllIsRead DEF FaultInv
  <2> QED BY <2>1, <2>2, ReadIsDocument
<1> QED BY <1>1, <1>2, FaultsFromStart, PTL DEF SyntaxSpec
------------------------------------------------------------------------------
(* Sequences of any elements.                                               *)
Listing(s) == s \in Seq(ToSet(s))

(* A function on 1 .. n is a sequence of what it yields.                    *)
LEMMA ListingIs ==
  ASSUME NEW n \in Nat, NEW s, s = [i \in 1 .. n |-> s[i]]
  PROVE  Listing(s) /\ Len(s) = n /\ DOMAIN s = 1 .. n
<1>1. DOMAIN s = 1 .. n
  OBVIOUS
<1>2. \A i \in 1 .. n : s[i] \in ToSet(s)
  BY <1>1 DEF ToSet
<1> DEFINE S == ToSet(s)
<1> HIDE DEF S
<1>3. s \in [1 .. n -> S]
  BY <1>2 DEF S
<1>4. s \in Seq(S) /\ Len(s) = n
  BY <1>3
<1> QED BY <1>1, <1>4 DEF Listing, S

(* Two sequences joined have the elements of both.                          *)
LEMMA JoinedIsListing ==
  ASSUME NEW s, Listing(s), NEW t, Listing(t)
  PROVE  Listing(s \o t) /\ \A x : x \in ToSet(s \o t) <=> x \in ToSet(s) \/ x \in ToSet(t)
<1> DEFINE S == ToSet(s) \cup ToSet(t)
           u == s \o t
           n == Len(s)
           m == Len(t)
<1>1. s \in Seq(ToSet(s)) /\ t \in Seq(ToSet(t))
  BY DEF Listing
<1>2. s \in Seq(S) /\ t \in Seq(S) /\ n \in Nat /\ m \in Nat /\ DOMAIN s = 1 .. n /\ DOMAIN t = 1 .. m
  <2> HIDE DEF S
  <2>1. ToSet(s) \subseteq S /\ ToSet(t) \subseteq S
    BY DEF S
  <2>2. s \in Seq(S) /\ t \in Seq(S)
    BY <1>1, <2>1
  <2> QED BY <2>2
<1> HIDE DEF S
<1>3. /\ u \in Seq(S) /\ Len(u) = n + m /\ DOMAIN u = 1 .. n + m
      /\ \A i \in 1 .. n : u[i] = s[i]
      /\ \A i \in 1 .. m : u[n + i] = t[i]
      /\ \A i \in 1 .. n + m : i \in 1 .. n \/ (i - n \in 1 .. m /\ u[i] = t[i - n])
  <2>1. u \in Seq(S) /\ Len(u) = n + m
    BY <1>2
  <2>2. DOMAIN u = 1 .. n + m
    BY <2>1
  <2>3. \A i \in 1 .. n + m : u[i] = IF i <= n THEN s[i] ELSE t[i - n]
    BY <1>2
  <2>4. \A i \in 1 .. n : i \in 1 .. n + m /\ i <= n
    BY <1>2
  <2>5. \A i \in 1 .. m : n + i \in 1 .. n + m /\ ~ (n + i <= n) /\ (n + i) - n = i
    BY <1>2
  <2>6. \A i \in 1 .. n + m : i \in 1 .. n \/ (~ (i <= n) /\ i - n \in 1 .. m)
    BY <1>2
  <2> HIDE DEF n, m, u
  <2> QED BY <2>1, <2>2, <2>3, <2>4, <2>5, <2>6
<1> HIDE DEF n, m, u
<1>4. u = [i \in 1 .. n + m |-> u[i]] /\ n + m \in Nat
  BY <1>2, <1>3
<1>5. Listing(u)
  BY <1>4, ListingIs
<1>6. \A x : x \in ToSet(u) <=> x \in ToSet(s) \/ x \in ToSet(t)
  <2>1. \A i \in 1 .. m : n + i \in 1 .. n + m
    BY <1>2
  <2>2. \A i \in 1 .. n : i \in 1 .. n + m
    BY <1>2
  <2>3. \A x : (x \in ToSet(u) <=> \E i \in 1 .. n + m : u[i] = x)
               /\ (x \in ToSet(s) <=> \E i \in 1 .. n : s[i] = x)
               /\ (x \in ToSet(t) <=> \E i \in 1 .. m : t[i] = x)
    BY <1>2, <1>3 DEF ToSet
  <2>4. \A x : x \in ToSet(s) \/ x \in ToSet(t) => x \in ToSet(u)
    BY <1>3, <2>1, <2>2, <2>3
  <2>5. \A x : x \in ToSet(u) => x \in ToSet(s) \/ x \in ToSet(t)
    BY <1>3, <2>3
  <2> QED BY <2>4, <2>5
<1> QED BY <1>5, <1>6 DEF u

(* Flattened, sequences have the elements of all of them.                   *)
LEMMA FlattenedIsListing ==
  ASSUME NEW s, Listing(s), \A i \in DOMAIN s : Listing(s[i])
  PROVE  /\ Listing(FlattenSeq(s))
         /\ \A x : x \in ToSet(FlattenSeq(s)) <=> \E i \in DOMAIN s : x \in ToSet(s[i])
<1> DEFINE D == UNION {ToSet(s[i]) : i \in DOMAIN s}
           f == FlattenSeq(s)
<1>1. s \in Seq(ToSet(s))
  BY DEF Listing
<1>2. \A i \in DOMAIN s : s[i] \in Seq(D)
  <2> TAKE i \in DOMAIN s
  <2>1. s[i] \in Seq(ToSet(s[i])) /\ ToSet(s[i]) \subseteq D
    BY DEF Listing
  <2> HIDE DEF D
  <2> QED BY <2>1
<1> HIDE DEF D
<1>3. s \in Seq(Seq(D))
  <2>1. Len(s) \in Nat /\ DOMAIN s = 1 .. Len(s) /\ s = [i \in 1 .. Len(s) |-> s[i]]
    BY <1>1
  <2>2. s \in [1 .. Len(s) -> Seq(D)]
    BY <1>2, <2>1
  <2> QED BY <2>1, <2>2
<1>4. f \in Seq(D) /\ \A x : x \in ToSet(f) <=> \E i \in DOMAIN s : x \in ToSet(s[i])
  BY <1>3, FlattenElements
<1> HIDE DEF f
<1>5. Len(f) \in Nat /\ f = [i \in 1 .. Len(f) |-> f[i]]
  BY <1>4
<1> QED BY <1>4, <1>5, ListingIs DEF f
------------------------------------------------------------------------------
(* Checks of which none is about a bound.                                   *)
OtherKinds == {"InvalidField", "UnknownField", "MissingField", "UnsupportedSchema",
               "Graph", "MissingPort", "TypeMismatch", "UnknownUnit"}
IsCheck(c) == c.kind \in OtherKinds
IsChecks(s) == Listing(s) /\ \A c \in ToSet(s) : IsCheck(c)
Passes(s) == \A c \in ToSet(s) : c.ok
SameVerdict(s, t) == IsChecks(s) /\ IsChecks(t) /\ (Passes(s) <=> Passes(t))

(* Checks joined have the same verdict if their parts have it.              *)
LEMMA SameOfJoined ==
  ASSUME NEW s1, NEW t1, SameVerdict(s1, t1), NEW s2, NEW t2, SameVerdict(s2, t2)
  PROVE  SameVerdict(s1 \o s2, t1 \o t2)
<1>1. /\ Listing(s1) /\ Listing(s2) /\ Listing(t1) /\ Listing(t2)
  BY DEF SameVerdict, IsChecks
<1>2. Listing(s1 \o s2) /\ \A x : x \in ToSet(s1 \o s2) <=> x \in ToSet(s1) \/ x \in ToSet(s2)
  BY <1>1, JoinedIsListing
<1>3. Listing(t1 \o t2) /\ \A x : x \in ToSet(t1 \o t2) <=> x \in ToSet(t1) \/ x \in ToSet(t2)
  BY <1>1, JoinedIsListing
<1>4. IsChecks(s1 \o s2) /\ IsChecks(t1 \o t2)
  BY <1>2, <1>3 DEF SameVerdict, IsChecks
<1>5. Passes(s1 \o s2) <=> Passes(s1) /\ Passes(s2)
  BY <1>2, Zenon DEF Passes
<1>6. Passes(t1 \o t2) <=> Passes(t1) /\ Passes(t2)
  BY <1>3, Zenon DEF Passes
<1> QED BY <1>4, <1>5, <1>6, Zenon DEF SameVerdict

(* So do checks flattened, if each list of either side has its like on the  *)
(* other.                                                                   *)
LEMMA SameOfFlattened ==
  ASSUME NEW s, Listing(s), NEW t, Listing(t),
         \A i \in DOMAIN s : \E j \in DOMAIN t : SameVerdict(s[i], t[j]),
         \A j \in DOMAIN t : \E i \in DOMAIN s : SameVerdict(s[i], t[j])
  PROVE  SameVerdict(FlattenSeq(s), FlattenSeq(t))
<1>1. \A i \in DOMAIN s : IsChecks(s[i])
  BY DEF SameVerdict
<1>2. \A j \in DOMAIN t : IsChecks(t[j])
  BY DEF SameVerdict
<1>3. Listing(FlattenSeq(s)) /\ \A x : x \in ToSet(FlattenSeq(s)) <=> \E i \in DOMAIN s : x \in ToSet(s[i])
  BY <1>1, FlattenedIsListing DEF IsChecks
<1>4. Listing(FlattenSeq(t)) /\ \A x : x \in ToSet(FlattenSeq(t)) <=> \E j \in DOMAIN t : x \in ToSet(t[j])
  BY <1>2, FlattenedIsListing DEF IsChecks
<1>5. IsChecks(FlattenSeq(s)) /\ IsChecks(FlattenSeq(t))
  BY <1>1, <1>2, <1>3, <1>4 DEF IsChecks
<1>6. Passes(FlattenSeq(s)) <=> \A i \in DOMAIN s : Passes(s[i])
  BY <1>3, Zenon DEF Passes
<1>7. Passes(FlattenSeq(t)) <=> \A j \in DOMAIN t : Passes(t[j])
  BY <1>4, Zenon DEF Passes
<1>8. (\A i \in DOMAIN s : Passes(s[i])) <=> \A j \in DOMAIN t : Passes(t[j])
  BY Zenon DEF SameVerdict
<1> QED BY <1>5, <1>6, <1>7, <1>8, Zenon DEF SameVerdict

(* Two single checks with the same outcome have the same verdict.           *)
LEMMA SameOfOne ==
  ASSUME NEW c, IsCheck(c), NEW d, IsCheck(d), c.ok <=> d.ok
  PROVE  SameVerdict(<<c>>, <<d>>)
<1>1. ASSUME NEW x PROVE Listing(<<x>>) /\ ToSet(<<x>>) = {x}
  BY DEF Listing, ToSet
<1> QED BY <1>1 DEF SameVerdict, IsChecks, Passes

(* Checks pass exactly if none fails, and a refusal is one of those that    *)
(* failed.                                                                  *)
LEMMA FailureIsRefused ==
  ASSUME NEW s, Listing(s)
  PROVE  /\ Failures(s) = {} <=> Passes(s)
         /\ Failures(s) # {} => \E c \in ToSet(s) : ~ c.ok /\ Refused(s) = [kind |-> c.kind, path |-> c.path]
<1>1. Len(s) \in Nat /\ DOMAIN s = 1 .. Len(s)
  BY DEF Listing
<1>2. Failures(s) = {} <=> Passes(s)
  BY Zenon DEF Failures, Passes, ToSet
<1>3. Failures(s) \in SUBSET Nat
  BY <1>1 DEF Failures
<1>4. ASSUME Failures(s) # {}
      PROVE  \E c \in ToSet(s) : ~ c.ok /\ Refused(s) = [kind |-> c.kind, path |-> c.path]
  <2>1. Min(Failures(s)) \in Failures(s)
    BY <1>3, <1>4, MinOfNaturals
  <2>2. s[Min(Failures(s))] \in ToSet(s) /\ ~ s[Min(Failures(s))].ok
    BY <2>1 DEF Failures, ToSet
  <2> QED BY <2>2 DEF Refused
<1> QED BY <1>2, <1>4
------------------------------------------------------------------------------
(* Documents as wholes.                                                     *)

(* A document has every node before the nodes it owns, up to some last      *)
(* position.                                                                *)
LEMMA DocumentIsArena ==
  ASSUME NEW tree, IsDocument(tree)
  PROVE  tree.root \in DOMAIN tree.nodes /\ \E n \in Nat : Arena(tree, n)
<1>1. PICK n \in DOMAIN tree.nodes : \A p \in DOMAIN tree.nodes : p <= n
  BY DEF IsDocument
<1>2. n \in Nat /\ DOMAIN tree.nodes \subseteq 1 .. n
  BY <1>1 DEF IsDocument, NoNode
<1> QED BY <1>2 DEF IsDocument, Arena

WholeIn(w, tree) == w = [p \in DOMAIN tree.nodes |-> Whole(tree, tree.nodes[p], w)]

(* A node and all below it, of the nodes below it.                          *)
LEMMA WholeFromBelow ==
  ASSUME NEW tree, NEW n \in Nat, Arena(tree, n), NEW p \in DOMAIN tree.nodes, NEW a, NEW b,
         \A q \in Later(tree, p) : a[q] = b[q]
  PROVE  Whole(tree, tree.nodes[p], a) = Whole(tree, tree.nodes[p], b)
<1> DEFINE node == tree.nodes[p]
           s == node.values
<1>1. IsNode(tree, p, node)
  BY DEF Arena
<1>2. CASE node.kind = "mapping"
  <2> DEFINE key(i) == KeyOf(tree, s[i]).text
             K == {key(i) : i \in DOMAIN s}
             at(k) == CHOOSE i \in DOMAIN s : key(i) = k
  <2>1. s \in Seq(Later(tree, p) \X Later(tree, p))
    BY <1>1, <1>2 DEF IsNode
  <2>2. \A i \in DOMAIN s : a[s[i][2]] = b[s[i][2]]
    BY <2>1
  <2> HIDE DEF key
  <2>3. \A k \in K : at(k) \in DOMAIN s
    OBVIOUS
  <2>4. [i \in DOMAIN s |-> [key |-> key(i), value |-> a[s[i][2]]]]
        = [i \in DOMAIN s |-> [key |-> key(i), value |-> b[s[i][2]]]]
    BY <2>2
  <2>5. [k \in K |-> a[s[at(k)][2]].json] = [k \in K |-> b[s[at(k)][2]].json]
    <3> HIDE DEF at, K
    <3> QED BY <2>2, <2>3
  <2>6. ASSUME NEW c
        PROVE  Whole(tree, node, c)
               = [entries |-> [i \in DOMAIN s |-> [key |-> key(i), value |-> c[s[i][2]]]],
                  json |-> [kind |-> "mapping", fields |-> [k \in K |-> c[s[at(k)][2]].json]]]
    BY <1>2 DEF Whole, key
  <2> HIDE DEF K, at
  <2> QED BY <2>4, <2>5, <2>6
<1>3. CASE node.kind = "sequence"
  <2>1. s \in Seq(Later(tree, p))
    BY <1>1, <1>3 DEF IsNode
  <2>2. [i \in DOMAIN s |-> a[s[i]].json] = [i \in DOMAIN s |-> b[s[i]].json]
    BY <2>1, SMTT(30)
  <2> QED BY <1>3, <2>2 DEF Whole
<1>4. CASE node.kind \notin {"mapping", "sequence"}
  BY <1>4 DEF Whole
<1> QED BY <1>2, <1>3, <1>4

(* So each has its whole.                                                   *)
LEMMA WholesExist ==
  ASSUME NEW tree, NEW n \in Nat, Arena(tree, n)
  PROVE  \E w : WholeIn(w, tree)
<1> DEFINE D == DOMAIN tree.nodes
           Solves(g, k) == /\ DOMAIN g = D /\ g = [p \in D |-> g[p]]
                           /\ \A p \in D : p > n - k => g[p] = Whole(tree, tree.nodes[p], g)
           T == {k \in 0 .. n : \E g : Solves(g, k)}
<1>1. D \subseteq 1 .. n
  BY DEF Arena
<1>2. 0 \in T
  <2> DEFINE g == [p \in D |-> "Ok"]
  <2>1. \A p \in D : ~ (p > n - 0)
    BY <1>1
  <2> HIDE DEF D
  <2>2. Solves(g, 0)
    BY <2>1
  <2> QED BY <2>2
<1>3. ASSUME NEW k \in 1 .. n, k - 1 \in T
      PROVE  k \in T
  <2>1. PICK g : Solves(g, k - 1)
    BY <1>3
  <2> DEFINE q == n - k + 1
             h == [p \in D |-> IF p = q THEN Whole(tree, tree.nodes[p], g) ELSE g[p]]
  <2>2. ASSUME NEW p \in D, p > n - k
        PROVE  h[p] = Whole(tree, tree.nodes[p], h)
    <3>1. p \in Nat /\ p >= q /\ q \in Nat
      BY <1>1, <2>2
    <3>2. \A r \in Later(tree, p) : r \in D /\ r # q
      BY <1>1, <3>1 DEF Later
    <3>3. \A r \in Later(tree, p) : h[r] = g[r]
      BY <3>2
    <3>4. Whole(tree, tree.nodes[p], h) = Whole(tree, tree.nodes[p], g)
      <4> HIDE DEF h
      <4> QED BY <3>3, WholeFromBelow
    <3>5. h[p] = Whole(tree, tree.nodes[p], g)
      <4>1. CASE p = q
        BY <4>1
      <4>2. CASE p # q
        <5>1. p > n - (k - 1)
          BY <3>1, <4>2
        <5>2. g[p] = Whole(tree, tree.nodes[p], g)
          BY <2>1, <5>1
        <5> QED BY <4>2, <5>2
      <4> QED BY <4>1, <4>2
    <3> QED BY <3>4, <3>5
  <2>3. DOMAIN h = D /\ h = [p \in D |-> h[p]]
    OBVIOUS
  <2> HIDE DEF h, D
  <2>4. Solves(h, k)
    BY <2>2, <2>3
  <2>5. k \in 0 .. n
    OBVIOUS
  <2> QED BY <2>4, <2>5
<1>4. n \in T
  <2>1. n \in 0 .. n
    OBVIOUS
  <2> HIDE DEF T
  <2> QED BY <1>2, <1>3, <2>1, Along
<1>5. PICK g : Solves(g, n)
  BY <1>4
<1>6. \A p \in D : p > n - n
  BY <1>1
<1>7. \A p \in D : g[p] = Whole(tree, tree.nodes[p], g)
  BY <1>5, <1>6
<1>8. g = [p \in D |-> Whole(tree, tree.nodes[p], g)]
  BY <1>5, <1>7
<1> QED BY <1>8 DEF WholeIn

(* RootNode is what a table of all nodes with what is below them has at the *)
(* root.                                                                    *)
LEMMA RootIsWhole ==
  ASSUME NEW tree, IsDocument(tree)
  PROVE  \E w : WholeIn(w, tree) /\ RootNode(tree) = w[tree.root]
<1> DEFINE v == CHOOSE w : WholeIn(w, tree)
<1>1. WholeIn(v, tree)
  BY WholesExist, DocumentIsArena
<1>2. RootNode(tree) = v[tree.root]
  BY DEF RootNode, WholeIn
<1> QED BY <1>1, <1>2

(* Nodes without faults: all keys are strings and differ.                   *)
KeysFit(tree, s) ==
  /\ \A i \in DOMAIN s : IsString(KeyOf(tree, s[i])) /\ KeyOf(tree, s[i]) = ScalarOf(KeyOf(tree, s[i]).text)
  /\ \A i, j \in DOMAIN s : i # j => KeyOf(tree, s[i]).text # KeyOf(tree, s[j]).text
Sound(tree, S) ==
  /\ S \subseteq DOMAIN tree.nodes /\ tree.root \in S
  /\ \A p \in S :
       /\ tree.nodes[p].kind = "mapping" =>
            /\ KeysFit(tree, tree.nodes[p].values)
            /\ \A i \in DOMAIN tree.nodes[p].values : tree.nodes[p].values[i][2] \in S
       /\ tree.nodes[p].kind = "sequence" =>
            \A i \in DOMAIN tree.nodes[p].values : tree.nodes[p].values[i] \in S

(* Without a first fault there is none.                                     *)
LEMMA NoFaultNoneInIt ==
  ASSUME NEW s, NEW n \in Nat, DOMAIN s = 1 .. n, FirstFault(s) = "Ok"
  PROVE  \A i \in DOMAIN s : s[i] = "Ok"
<1> DEFINE faulty == {i \in DOMAIN s : s[i] # "Ok"}
<1>1. faulty = {}
  <2> SUFFICES ASSUME faulty # {} PROVE FALSE
    OBVIOUS
  <2>1. faulty \in SUBSET Nat
    OBVIOUS
  <2>2. Min(faulty) \in faulty
    <3> HIDE DEF faulty
    <3> QED BY <2>1, MinOfNaturals
  <2>3. s[Min(faulty)] # "Ok" /\ FirstFault(s) = s[Min(faulty)]
    BY <2>2 DEF FirstFault
  <2> QED BY <2>3
<1> QED BY <1>1

(* If the root has no key fault, nor has any node below it: no aliases, and *)
(* keys that are strings and differ.                                        *)
LEMMA FaultlessIsSound ==
  ASSUME NEW tree, IsDocument(tree), KeyFault(tree) = "Ok"
  PROVE  \E S : Sound(tree, S)
<1>1. PICK n \in Nat : Arena(tree, n)
  BY DocumentIsArena
<1>2. PICK g : Faulted(g, tree) /\ KeyFault(tree) = g[tree.root]
  BY <1>1, KeyFaultIsOfRoot
<1> DEFINE S == {p \in DOMAIN tree.nodes : g[p] = "Ok"}
<1>3. tree.root \in S
  BY <1>2, DocumentIsArena
<1>4. ASSUME NEW p \in S
      PROVE  /\ tree.nodes[p].kind = "mapping" =>
                 /\ KeysFit(tree, tree.nodes[p].values)
                 /\ \A i \in DOMAIN tree.nodes[p].values : tree.nodes[p].values[i][2] \in S
             /\ tree.nodes[p].kind = "sequence" =>
                  \A i \in DOMAIN tree.nodes[p].values : tree.nodes[p].values[i] \in S
  <2> DEFINE node == tree.nodes[p]
             s == node.values
  <2>1. p \in DOMAIN tree.nodes /\ NodeFault(tree, node, g) = "Ok" /\ IsNode(tree, p, node)
    BY <1>1, <1>2 DEF Faulted, Arena
  <2> HIDE DEF node
  <2>2. CASE node.kind = "mapping"
    <3>1. s \in Seq(Later(tree, p) \X Later(tree, p))
      BY <2>1, <2>2 DEF IsNode
    <3>2. Len(s) \in Nat /\ DOMAIN s = 1 .. Len(s)
          /\ \A i \in DOMAIN s : s[i][1] \in DOMAIN tree.nodes /\ s[i][2] \in DOMAIN tree.nodes
      BY <3>1 DEF Later
    <3> HIDE DEF s
    <3> DEFINE faults == [i \in DOMAIN s |-> EntryFault(tree, s, i, g)]
    <3>3. FirstFault(faults) = "Ok"
      BY <2>1, <2>2 DEF NodeFault, s
    <3>4. DOMAIN faults = 1 .. Len(s)
      BY <3>2
    <3>5. \A i \in DOMAIN s : EntryFault(tree, s, i, g) = "Ok"
      <4>1. \A i \in DOMAIN faults : faults[i] = "Ok"
        <5> HIDE DEF faults
        <5> QED BY <3>2, <3>3, <3>4, NoFaultNoneInIt
      <4> QED BY <4>1
    <3>6. ASSUME NEW i \in DOMAIN s
          PROVE  /\ IsString(KeyOf(tree, s[i])) /\ g[s[i][2]] = "Ok"
                 /\ \A j \in 1 .. i - 1 : KeyOf(tree, s[j]) # KeyOf(tree, s[i])
      <4> DEFINE key == KeyOf(tree, s[i])
      <4> HIDE DEF key
      <4>1. EntryFault(tree, s, i, g) = "Ok"
        BY <3>5
      <4>2. EntryFault(tree, s, i, g) =
              IF ~ IsString(key) THEN "InvalidField"
              ELSE IF key.text = MergeKeyText THEN "MergeKey"
              ELSE IF \E j \in 1 .. i - 1 : KeyOf(tree, s[j]) = key THEN "DuplicateKey"
              ELSE g[s[i][2]]
        BY DEF EntryFault, key
      <4>3. IsString(key)
        BY <4>1, <4>2
      <4>4. key.text # MergeKeyText
        BY <4>1, <4>2, <4>3
      <4>5. ~ \E j \in 1 .. i - 1 : KeyOf(tree, s[j]) = key
        BY <4>1, <4>2, <4>3, <4>4
      <4>6. g[s[i][2]] = "Ok"
        BY <4>1, <4>2, <4>3, <4>4, <4>5
      <4> QED BY <4>3, <4>5, <4>6 DEF key
    <3>7. \A i \in DOMAIN s : KeyOf(tree, s[i]) = ScalarOf(KeyOf(tree, s[i]).text)
      <4> TAKE i \in DOMAIN s
      <4>1. IsNode(tree, s[i][1], tree.nodes[s[i][1]]) /\ tree.nodes[s[i][1]].kind = "scalar"
        BY <1>1, <3>2, <3>6 DEF Arena, KeyOf, IsString
      <4> QED BY <4>1 DEF IsNode, KeyOf
    <3>8. \A i, j \in DOMAIN s : i # j => KeyOf(tree, s[i]) # KeyOf(tree, s[j])
      <4> TAKE i, j \in DOMAIN s
      <4>1. i \in 1 .. Len(s) /\ j \in 1 .. Len(s)
        BY <3>2
      <4>2. i # j => i \in 1 .. j - 1 \/ j \in 1 .. i - 1
        BY <3>2, <4>1
      <4> QED BY <3>6, <4>2
    <3>9. \A i, j \in DOMAIN s : i # j => KeyOf(tree, s[i]).text # KeyOf(tree, s[j]).text
      BY <3>7, <3>8
    <3> QED BY <2>2, <3>2, <3>6, <3>7, <3>9 DEF KeysFit, node, s
  <2>3. CASE node.kind = "sequence"
    <3>1. s \in Seq(Later(tree, p))
      BY <2>1, <2>3 DEF IsNode
    <3>2. Len(s) \in Nat /\ DOMAIN s = 1 .. Len(s) /\ \A i \in DOMAIN s : s[i] \in DOMAIN tree.nodes
      BY <3>1 DEF Later
    <3> DEFINE faults == [i \in DOMAIN s |-> g[s[i]]]
    <3>3. FirstFault(faults) = "Ok"
      BY <2>1, <2>3 DEF NodeFault
    <3>4. DOMAIN faults = 1 .. Len(s)
      BY <3>2
    <3>5. \A i \in DOMAIN faults : faults[i] = "Ok"
      <4> HIDE DEF faults, s
      <4> QED BY <3>2, <3>3, <3>4, NoFaultNoneInIt
    <3> QED BY <2>3, <3>2, <3>5 DEF node
  <2> QED BY <2>2, <2>3 DEF node
<1>5. Sound(tree, S)
  <2>1. S \subseteq DOMAIN tree.nodes
    OBVIOUS
  <2> HIDE DEF S
  <2> QED BY <1>3, <1>4, <2>1 DEF Sound
<1> QED BY <1>5
------------------------------------------------------------------------------
(* The same elements in another order.                                      *)
Shuffles(h, n) ==
  /\ h \in [1 .. n -> 1 .. n]
  /\ \A i, j \in 1 .. n : h[i] = h[j] => i = j
  /\ \A j \in 1 .. n : \E i \in 1 .. n : h[i] = j

(* A function of 1 .. n to itself that never yields the same twice yields   *)
(* everything.                                                              *)
LEMMA InjectiveShuffles ==
  ASSUME NEW n \in Nat, NEW h \in [1 .. n -> 1 .. n], \A i, j \in 1 .. n : h[i] = h[j] => i = j
  PROVE  Shuffles(h, n)
<1> DEFINE I == 1 .. n
<1>1. IsFiniteSet(I) /\ Cardinality(I) = Cardinality(I)
  BY FS_Interval
<1> HIDE DEF I
<1>2. h \in Injection(I, I)
  BY DEF I, Injection, IsInjective
<1>3. h \in Surjection(I, I)
  BY <1>1, <1>2, FS_Injection
<1> QED BY <1>2, <1>3 DEF Shuffles, Surjection, I

(* Two sequences of the same elements, each once, are shuffles of one       *)
(* another.                                                                 *)
LEMMA SameElementsShuffled ==
  ASSUME NEW n \in Nat, NEW s, DOMAIN s = 1 .. n, NEW t, DOMAIN t = 1 .. n, ToSet(s) = ToSet(t),
         \A i, j \in 1 .. n : s[i] = s[j] => i = j
  PROVE  \E h : Shuffles(h, n) /\ \A i \in 1 .. n : t[h[i]] = s[i]
<1> DEFINE h == [i \in 1 .. n |-> CHOOSE j \in 1 .. n : t[j] = s[i]]
<1>1. ASSUME NEW i \in 1 .. n
      PROVE  h[i] \in 1 .. n /\ t[h[i]] = s[i]
  <2>1. s[i] \in ToSet(t)
    BY DEF ToSet
  <2>2. \E j \in 1 .. n : t[j] = s[i]
    BY <2>1 DEF ToSet
  <2> QED BY <2>2
<1>2. h \in [1 .. n -> 1 .. n] /\ \A i, j \in 1 .. n : h[i] = h[j] => i = j
  <2>1. h = [i \in 1 .. n |-> h[i]]
    OBVIOUS
  <2> HIDE DEF h
  <2> QED BY <1>1, <2>1
<1> HIDE DEF h
<1> QED BY <1>1, <1>2, InjectiveShuffles

(* Nodes that differ in the order of entries only, by a relation R of those *)
(* below them.                                                              *)
Matched(R, s, t, n, h) ==
  /\ s = [i \in 1 .. n |-> s[i]] /\ t = [i \in 1 .. n |-> t[i]]
  /\ Shuffles(h, n)
  /\ \A i \in 1 .. n : /\ s[i].key \in Strings /\ t[h[i]].key = s[i].key
                       /\ s[i].value # Absent
                       /\ <<s[i].value, t[h[i]].value>> \in R
  /\ \A i, j \in 1 .. n : s[i].key = s[j].key => i = j
Twins(R, a, b) ==
  /\ a.json = b.json
  /\ a = Absent <=> b = Absent
  /\ \E n \in Nat : \E h : Matched(R, a.entries, b.entries, n, h)
AllTwins(R) == <<Absent, Absent>> \in R /\ \A r \in R : Twins(R, r[1], r[2])

(* The keys of a mapping and of the same in another order.                  *)
MappingsMatch(one, other, p, n, h) ==
  LET s == one.nodes[p].values
      t == other.nodes[p].values
  IN  /\ other.nodes[p].kind = "mapping"
      /\ DOMAIN s = 1 .. n /\ DOMAIN t = 1 .. n /\ Shuffles(h, n)
      /\ \A i \in 1 .. n : /\ t[h[i]] = s[i] /\ KeyOf(one, s[i]).text \in Strings
                           /\ KeyOf(other, t[h[i]]).text = KeyOf(one, s[i]).text
      /\ \A i, j \in 1 .. n : KeyOf(one, s[i]).text = KeyOf(one, s[j]).text => i = j

(* The entries of a mapping in one document are those of the same mapping   *)
(* in the other, in another order.                                          *)
LEMMA MappingsAreMatched ==
  ASSUME NEW one, IsDocument(one), NEW other, IsDocument(other), SameButForOrder(one, other),
         NEW S, Sound(one, S), NEW p \in S, one.nodes[p].kind = "mapping"
  PROVE  \E n \in Nat : \E h : MappingsMatch(one, other, p, n, h)
<1> DEFINE s == one.nodes[p].values
           t == other.nodes[p].values
           n == Len(s)
<1>1. p \in DOMAIN one.nodes /\ p \in DOMAIN other.nodes /\ KeysFit(one, s)
  BY DEF Sound, SameButForOrder
<1>2. other.nodes[p].kind = "mapping" /\ Len(t) = n /\ ToSet(t) = ToSet(s)
  BY <1>1 DEF SameButForOrder
<1>3. s \in Seq(Later(one, p) \X Later(one, p)) /\ t \in Seq(Later(other, p) \X Later(other, p))
  BY <1>1, <1>2 DEF IsDocument, IsNode
<1>4. n \in Nat /\ DOMAIN s = 1 .. n /\ DOMAIN t = 1 .. n
  BY <1>2, <1>3
<1>5. \A i \in DOMAIN s : s[i][1] \in DOMAIN one.nodes
  BY <1>3 DEF Later
<1> HIDE DEF s, t, n
<1>6. \A i, j \in 1 .. n : KeyOf(one, s[i]).text = KeyOf(one, s[j]).text => i = j
  BY <1>1, <1>4 DEF KeysFit
<1>7. PICK h : Shuffles(h, n) /\ \A i \in 1 .. n : t[h[i]] = s[i]
  <2>1. \A i, j \in 1 .. n : s[i] = s[j] => i = j
    BY <1>6
  <2> QED BY <1>2, <1>4, <2>1, SameElementsShuffled
<1>8. ASSUME NEW i \in 1 .. n
      PROVE  KeyOf(one, s[i]).text \in Strings /\ KeyOf(other, t[h[i]]).text = KeyOf(one, s[i]).text
  <2>1. IsString(KeyOf(one, s[i])) /\ s[i][1] \in DOMAIN one.nodes /\ t[h[i]] = s[i]
    BY <1>1, <1>4, <1>5, <1>7 DEF KeysFit
  <2>2. one.nodes[s[i][1]].kind # "mapping"
    BY <2>1 DEF IsString, KeyOf
  <2>3. other.nodes[s[i][1]] = one.nodes[s[i][1]]
    BY <2>1, <2>2 DEF SameButForOrder
  <2> QED BY <2>1, <2>3 DEF IsString, KeyOf
<1>9. MappingsMatch(one, other, p, n, h)
  BY <1>2, <1>4, <1>6, <1>7, <1>8, SMTT(30) DEF MappingsMatch, s, t
<1> QED BY <1>4, <1>9

(* What a mapping is as a whole.                                            *)
FieldsIn(tree, s, w) ==
  [k \in {KeyOf(tree, s[i]).text : i \in DOMAIN s} |->
     w[s[CHOOSE i \in DOMAIN s : KeyOf(tree, s[i]).text = k][2]].json]
Mapped(tree, s, w) ==
  [entries |-> [i \in DOMAIN s |-> [key |-> KeyOf(tree, s[i]).text, value |-> w[s[i][2]]]],
   json |-> [kind |-> "mapping", fields |-> FieldsIn(tree, s, w)]]

(* What a mapping is with all below it.                                     *)
LEMMA WholeMapping ==
  ASSUME NEW tree, NEW w, WholeIn(w, tree), NEW p \in DOMAIN tree.nodes, tree.nodes[p].kind = "mapping"
  PROVE  w[p] = Mapped(tree, tree.nodes[p].values, w)
<1>1. w[p] = Whole(tree, tree.nodes[p], w)
  BY DEF WholeIn
<1> QED BY <1>1 DEF Whole, Mapped, FieldsIn

(* The JSON of a node does not depend on the order of entries.              *)
LEMMA JsonIsSame ==
  ASSUME NEW one, IsDocument(one), NEW other, IsDocument(other), SameButForOrder(one, other),
         NEW S, Sound(one, S), NEW w, WholeIn(w, one), NEW z, WholeIn(z, other)
  PROVE  \A p \in S : w[p].json = z[p].json
<1>1. PICK n \in Nat : Arena(one, n)
  BY DocumentIsArena
<1> DEFINE T == {k \in 0 .. n : \A p \in S : p > n - k => w[p].json = z[p].json}
<1>2. S \subseteq 1 .. n
  BY <1>1 DEF Sound, Arena
<1>3. 0 \in T
  BY <1>2
<1>4. ASSUME NEW k \in 1 .. n, k - 1 \in T
      PROVE  k \in T
  <2> SUFFICES ASSUME NEW p \in S, p > n - k
               PROVE  w[p].json = z[p].json
    OBVIOUS
  <2>1. \A q \in S : q > p => w[q].json = z[q].json
    <3> TAKE q \in S
    <3>1. q > p => q > n - (k - 1)
      BY <1>2
    <3> QED BY <1>4, <3>1
  <2>2. p \in DOMAIN one.nodes /\ p \in DOMAIN other.nodes /\ IsNode(one, p, one.nodes[p])
    BY DEF Sound, SameButForOrder, IsDocument
  <2>3. CASE one.nodes[p].kind = "mapping"
    <3> DEFINE s == one.nodes[p].values
               t == other.nodes[p].values
               key(i) == KeyOf(one, s[i]).text
               name(i) == KeyOf(other, t[i]).text
    <3>1. PICK m \in Nat : \E h : MappingsMatch(one, other, p, m, h)
      BY <2>3, MappingsAreMatched
    <3>2. PICK h : MappingsMatch(one, other, p, m, h)
      BY <3>1
    <3>3. /\ other.nodes[p].kind = "mapping" /\ DOMAIN s = 1 .. m /\ DOMAIN t = 1 .. m /\ Shuffles(h, m)
          /\ \A i \in 1 .. m : t[h[i]] = s[i] /\ name(h[i]) = key(i)
          /\ \A i, j \in 1 .. m : key(i) = key(j) => i = j
      BY <3>2 DEF MappingsMatch
    <3> DEFINE K == {key(i) : i \in DOMAIN s}
               L == {name(i) : i \in DOMAIN t}
               at(x) == CHOOSE i \in DOMAIN s : key(i) = x
               there(x) == CHOOSE i \in DOMAIN t : name(i) = x
    <3>4. /\ w[p].json = [kind |-> "mapping", fields |-> [x \in K |-> w[s[at(x)][2]].json]]
          /\ z[p].json = [kind |-> "mapping", fields |-> [x \in L |-> z[t[there(x)][2]].json]]
      <4>1. w[p] = Mapped(one, s, w) /\ z[p] = Mapped(other, t, z)
        BY <2>2, <2>3, <3>3, WholeMapping
      <4>2. FieldsIn(one, s, w) = [x \in K |-> w[s[at(x)][2]].json]
            /\ FieldsIn(other, t, z) = [x \in L |-> z[t[there(x)][2]].json]
        BY DEF FieldsIn
      <4> HIDE DEF s, t, key, name, K, L, at, there
      <4> QED BY <4>1, <4>2 DEF Mapped
    <3>5. \A i \in 1 .. m : s[i][2] \in S /\ s[i][2] > p
      <4>1. s \in Seq(Later(one, p) \X Later(one, p))
        BY <2>2, <2>3 DEF IsNode
      <4>2. \A i \in DOMAIN s : s[i][2] > p
        BY <4>1 DEF Later
      <4>3. \A i \in DOMAIN s : s[i][2] \in S
        BY <2>3 DEF Sound
      <4> QED BY <3>3, <4>2, <4>3
    <3> HIDE DEF s, t, key, name
    <3>6. /\ h \in [1 .. m -> 1 .. m]
          /\ \A j \in 1 .. m : \E i \in 1 .. m : h[i] = j
      BY <3>3 DEF Shuffles
    <3>7. K = L
      <4>1. \A x : x \in K => x \in L
        BY <3>3, <3>6
      <4>2. \A x : x \in L => x \in K
        BY <3>3, <3>6
      <4> QED BY <4>1, <4>2
    <3>8. ASSUME NEW x \in K
          PROVE  w[s[at(x)][2]].json = z[t[there(x)][2]].json
      <4>1. at(x) \in 1 .. m /\ key(at(x)) = x
        BY <3>3
      <4>2. there(x) \in 1 .. m /\ name(there(x)) = x
        BY <3>3, <3>7
      <4> HIDE DEF at, there
      <4>3. PICK i \in 1 .. m : h[i] = there(x)
        BY <3>6, <4>2
      <4>4. i = at(x)
        BY <3>3, <4>1, <4>2, <4>3
      <4>5. t[there(x)] = s[at(x)]
        BY <3>3, <4>3, <4>4
      <4> QED BY <2>1, <3>5, <4>1, <4>5
    <3> HIDE DEF K, L, at, there
    <3> QED BY <3>4, <3>7, <3>8
  <2>4. CASE one.nodes[p].kind = "sequence"
    <3> DEFINE s == one.nodes[p].values
    <3>1. other.nodes[p] = one.nodes[p]
      BY <2>2, <2>4 DEF SameButForOrder
    <3>2. w[p] = Whole(one, one.nodes[p], w) /\ z[p] = Whole(other, one.nodes[p], z)
      BY <2>2, <3>1 DEF WholeIn
    <3>3. /\ w[p].json = [kind |-> "sequence", items |-> [i \in DOMAIN s |-> w[s[i]].json]]
          /\ z[p].json = [kind |-> "sequence", items |-> [i \in DOMAIN s |-> z[s[i]].json]]
      BY <2>4, <3>2 DEF Whole
    <3>4. \A i \in DOMAIN s : w[s[i]].json = z[s[i]].json
      <4>1. s \in Seq(Later(one, p))
        BY <2>2, <2>4 DEF IsNode
      <4>2. \A i \in DOMAIN s : s[i] > p
        BY <4>1 DEF Later
      <4>3. \A i \in DOMAIN s : s[i] \in S
        BY <2>4, SMTT(30) DEF Sound
      <4> QED BY <2>1, <4>2, <4>3
    <3> HIDE DEF s
    <3> QED BY <3>3, <3>4
  <2>5. CASE one.nodes[p].kind \notin {"mapping", "sequence"}
    <3>1. other.nodes[p] = one.nodes[p]
      BY <2>2, <2>5 DEF SameButForOrder
    <3>2. w[p] = Whole(one, one.nodes[p], w) /\ z[p] = Whole(other, one.nodes[p], z)
      BY <2>2, <3>1 DEF WholeIn
    <3> QED BY <2>5, <3>2 DEF Whole
  <2> QED BY <2>3, <2>4, <2>5
<1>5. n \in T
  <2>1. n \in 0 .. n
    OBVIOUS
  <2> HIDE DEF T
  <2> QED BY <1>3, <1>4, <2>1, Along
<1>6. \A p \in S : p > n - n
  BY <1>2
<1> QED BY <1>5, <1>6
------------------------------------------------------------------------------
Unmapped(node, w) ==
  [entries |-> <<>>,
   json |-> IF node.kind = "sequence"
              THEN [kind |-> "sequence", items |-> [i \in DOMAIN node.values |-> w[node.values[i]].json]]
              ELSE node]

(* A node of a document is never the absent one, and only mappings have     *)
(* entries.                                                                 *)
LEMMA WholeIsThere ==
  ASSUME NEW tree, IsDocument(tree), NEW w, WholeIn(w, tree), NEW p \in DOMAIN tree.nodes
  PROVE  /\ w[p] # Absent
         /\ tree.nodes[p].kind # "mapping" => w[p].entries = <<>>
<1>1. w[p] = Whole(tree, tree.nodes[p], w)
  BY DEF WholeIn
<1>2. tree.nodes[p].kind \in {"mapping", "sequence", "alias", "scalar"}
  BY DEF IsDocument, IsNode
<1>6. tree.nodes[p].kind # "mapping" => w[p] = Unmapped(tree.nodes[p], w)
  BY <1>1 DEF Whole, Unmapped
<1>3. w[p].json.kind = tree.nodes[p].kind
  <2>1. CASE tree.nodes[p].kind = "mapping"
    <3>1. w[p] = Mapped(tree, tree.nodes[p].values, w)
      BY <2>1, WholeMapping
    <3> QED BY <2>1, <3>1 DEF Mapped
  <2>2. CASE tree.nodes[p].kind # "mapping"
    BY <1>6, <2>2 DEF Unmapped
  <2> QED BY <2>1, <2>2
<1>4. tree.nodes[p].kind # "mapping" => w[p].entries = <<>>
  BY <1>6 DEF Unmapped
<1>5. Absent.json.kind = "none"
  BY DEF Absent
<1> QED BY <1>2, <1>3, <1>4, <1>5

(* The absent node matches itself.                                          *)
LEMMA NothingMatches == \A R : Twins(R, Absent, Absent) /\ Matched(R, <<>>, <<>>, 0, <<>>)
<1> TAKE R
<1>1. Shuffles(<<>>, 0)
  BY DEF Shuffles
<1>2. Matched(R, <<>>, <<>>, 0, <<>>)
  BY <1>1 DEF Matched
<1>3. Absent.entries = <<>>
  BY DEF Absent
<1> QED BY <1>2, <1>3 DEF Twins

(* The roots of two documents that differ in order only are twins: the same *)
(* JSON, and the same entries in another order, down to the leaves.         *)
LEMMA RootsAreTwins ==
  ASSUME NEW one, IsDocument(one), NEW other, IsDocument(other), SameButForOrder(one, other),
         KeyFault(one) = "Ok"
  PROVE  \E R : AllTwins(R) /\ <<RootNode(one), RootNode(other)>> \in R
<1>1. PICK S : Sound(one, S)
  BY FaultlessIsSound
<1>2. PICK w : WholeIn(w, one) /\ RootNode(one) = w[one.root]
  BY RootIsWhole
<1>3. PICK z : WholeIn(z, other) /\ RootNode(other) = z[other.root]
  BY RootIsWhole
<1> DEFINE R == {<<w[p], z[p]>> : p \in S} \cup {<<Absent, Absent>>}
<1>4. <<RootNode(one), RootNode(other)>> \in R
  <2>1. one.root \in S /\ other.root = one.root
    BY <1>1 DEF Sound, SameButForOrder
  <2> QED BY <1>2, <1>3, <2>1
<1>5. ASSUME NEW p \in S
      PROVE  Twins(R, w[p], z[p])
  <2>1. p \in DOMAIN one.nodes /\ p \in DOMAIN other.nodes
    BY <1>1 DEF Sound, SameButForOrder
  <2>2. w[p].json = z[p].json
    BY <1>1, <1>2, <1>3, JsonIsSame
  <2>3. w[p] # Absent /\ z[p] # Absent
    BY <1>2, <1>3, <2>1, WholeIsThere
  <2>4. CASE one.nodes[p].kind = "mapping"
    <3> DEFINE s == one.nodes[p].values
               t == other.nodes[p].values
               a == w[p].entries
               b == z[p].entries
    <3>1. PICK m \in Nat : \E h : MappingsMatch(one, other, p, m, h)
      BY <1>1, <2>4, MappingsAreMatched
    <3>2. PICK h : MappingsMatch(one, other, p, m, h)
      BY <3>1
    <3>3. /\ other.nodes[p].kind = "mapping" /\ DOMAIN s = 1 .. m /\ DOMAIN t = 1 .. m /\ Shuffles(h, m)
          /\ \A i \in 1 .. m : /\ t[h[i]] = s[i] /\ KeyOf(one, s[i]).text \in Strings
                               /\ KeyOf(other, t[h[i]]).text = KeyOf(one, s[i]).text
          /\ \A i, j \in 1 .. m : KeyOf(one, s[i]).text = KeyOf(one, s[j]).text => i = j
      BY <3>2 DEF MappingsMatch
    <3>4. w[p] = Mapped(one, s, w) /\ z[p] = Mapped(other, t, z)
      BY <1>2, <1>3, <2>1, <2>4, <3>3, WholeMapping
    <3>5. \A i \in 1 .. m : s[i][2] \in S
      BY <1>1, <2>4, <3>3 DEF Sound
    <3> HIDE DEF s, t
    <3>6. /\ a = [i \in 1 .. m |-> [key |-> KeyOf(one, s[i]).text, value |-> w[s[i][2]]]]
          /\ b = [i \in 1 .. m |-> [key |-> KeyOf(other, t[i]).text, value |-> z[t[i][2]]]]
      BY <3>3, <3>4 DEF Mapped
    <3> HIDE DEF a, b
    <3>7. /\ a = [i \in 1 .. m |-> a[i]] /\ b = [i \in 1 .. m |-> b[i]]
          /\ \A i \in 1 .. m : a[i].key = KeyOf(one, s[i]).text /\ a[i].value = w[s[i][2]]
          /\ \A i \in 1 .. m : b[i].key = KeyOf(other, t[i]).text /\ b[i].value = z[t[i][2]]
      BY <3>6
    <3>8. h \in [1 .. m -> 1 .. m]
      BY <3>3 DEF Shuffles
    <3>9. ASSUME NEW i \in 1 .. m
          PROVE  /\ a[i].key \in Strings /\ b[h[i]].key = a[i].key /\ a[i].value # Absent
                 /\ <<a[i].value, b[h[i]].value>> \in R
      <4>1. h[i] \in 1 .. m /\ t[h[i]] = s[i] /\ s[i][2] \in S
        BY <3>3, <3>5, <3>8
      <4>2. a[i].key \in Strings /\ b[h[i]].key = a[i].key
        BY <3>3, <3>7, <4>1
      <4>3. a[i].value = w[s[i][2]] /\ b[h[i]].value = z[s[i][2]]
        BY <3>7, <4>1
      <4>4. w[s[i][2]] # Absent
        <5>1. s[i][2] \in DOMAIN one.nodes
          BY <1>1, <4>1 DEF Sound
        <5> QED BY <1>2, <5>1, WholeIsThere
      <4> QED BY <4>1, <4>2, <4>3, <4>4
    <3>10. \A i, j \in 1 .. m : a[i].key = a[j].key => i = j
      BY <3>3, <3>7
    <3> HIDE DEF R
    <3>11. Matched(R, a, b, m, h)
      BY <3>3, <3>7, <3>9, <3>10 DEF Matched
    <3> QED BY <2>2, <2>3, <3>11 DEF Twins, a, b
  <2>5. CASE one.nodes[p].kind # "mapping"
    <3>1. other.nodes[p] = one.nodes[p]
      BY <2>1, <2>5 DEF SameButForOrder
    <3>2. w[p].entries = <<>> /\ z[p].entries = <<>>
      BY <1>2, <1>3, <2>1, <2>5, <3>1, WholeIsThere
    <3> HIDE DEF R
    <3> QED BY <2>2, <2>3, <3>2, NothingMatches DEF Twins
  <2> QED BY <2>4, <2>5
<1>6. AllTwins(R)
  <2>1. \A r \in R : r = <<Absent, Absent>> \/ \E p \in S : r = <<w[p], z[p]>>
    OBVIOUS
  <2>2. <<Absent, Absent>> \in R
    OBVIOUS
  <2> HIDE DEF R
  <2>3. \A r \in R : Twins(R, r[1], r[2])
    <3> TAKE r \in R
    <3>1. CASE r = <<Absent, Absent>>
      BY <3>1, NothingMatches
    <3>2. CASE \E p \in S : r = <<w[p], z[p]>>
      BY <1>5, <3>2
    <3> QED BY <2>1, <3>1, <3>2
  <2> QED BY <2>2, <2>3 DEF AllTwins
<1> QED BY <1>4, <1>6

(* A field of the one is the same field of the other.                       *)
LEMMA GetIsTwin ==
  ASSUME NEW R, AllTwins(R), NEW a, NEW b, <<a, b>> \in R, NEW field
  PROVE  <<Get(a, field), Get(b, field)>> \in R
<1>1. Twins(R, a, b) /\ <<Absent, Absent>> \in R
  BY DEF AllTwins
<1>2. PICK n \in Nat : \E h : Matched(R, a.entries, b.entries, n, h)
  BY <1>1 DEF Twins
<1>3. PICK h : Matched(R, a.entries, b.entries, n, h)
  BY <1>2
<1> DEFINE s == a.entries
           t == b.entries
           found == {i \in DOMAIN s : s[i].key = field}
           there == {i \in DOMAIN t : t[i].key = field}
<1>4. /\ s = [i \in 1 .. n |-> s[i]] /\ t = [i \in 1 .. n |-> t[i]] /\ Shuffles(h, n)
      /\ \A i \in 1 .. n : t[h[i]].key = s[i].key /\ <<s[i].value, t[h[i]].value>> \in R
      /\ \A i, j \in 1 .. n : s[i].key = s[j].key => i = j
  BY <1>3 DEF Matched
<1>5. /\ Get(a, field) = IF found = {} THEN Absent ELSE s[Min(found)].value
      /\ Get(b, field) = IF there = {} THEN Absent ELSE t[Min(there)].value
  BY DEF Get
<1> HIDE DEF s, t
<1>6. DOMAIN s = 1 .. n /\ DOMAIN t = 1 .. n
  BY <1>4
<1>7. h \in [1 .. n -> 1 .. n] /\ \A j \in 1 .. n : \E i \in 1 .. n : h[i] = j
  BY <1>4 DEF Shuffles
<1>8. found = {} <=> there = {}
  <2>1. ASSUME NEW i \in found PROVE there # {}
    <3>1. h[i] \in there
      BY <1>4, <1>6, <1>7, <2>1
    <3> QED BY <3>1
  <2>2. ASSUME NEW k \in there PROVE found # {}
    <3>1. PICK i \in 1 .. n : h[i] = k
      BY <1>6, <1>7, <2>2
    <3>2. i \in found
      BY <1>4, <1>6, <2>2, <3>1
    <3> QED BY <3>2
  <2> QED BY <2>1, <2>2
<1>9. found \in SUBSET Nat /\ there \in SUBSET Nat
  BY <1>6
<1>10. CASE found = {}
  BY <1>1, <1>5, <1>8, <1>10
<1>11. CASE found # {}
  <2> DEFINE i == Min(found)
             k == Min(there)
  <2>1. i \in found /\ k \in there
    <3> HIDE DEF found, there
    <3> QED BY <1>8, <1>9, <1>11, MinOfNaturals
  <2> HIDE DEF i, k
  <2>2. PICK j \in 1 .. n : h[j] = k
    BY <1>6, <1>7, <2>1
  <2>3. j = i
    BY <1>4, <1>6, <2>1, <2>2
  <2>4. <<s[i].value, t[k].value>> \in R
    BY <1>4, <2>2, <2>3
  <2> QED BY <1>5, <1>8, <1>11, <2>4 DEF i, k
<1> QED BY <1>10, <1>11
------------------------------------------------------------------------------
Meets(R, a, b, i, j) ==
  /\ b.entries[j].key = a.entries[i].key
  /\ <<a.entries[i].value, b.entries[j].value>> \in R
Meet(R, a, b) ==
  /\ \E n \in Nat : DOMAIN a.entries = 1 .. n /\ DOMAIN b.entries = 1 .. n
  /\ \A i \in DOMAIN a.entries : \E j \in DOMAIN b.entries : Meets(R, a, b, i, j)
  /\ \A j \in DOMAIN b.entries : \E i \in DOMAIN a.entries : Meets(R, a, b, i, j)

(* Every entry of a node has one of the same key in its twin, which is a    *)
(* twin of it.                                                              *)
LEMMA EntriesMeet ==
  ASSUME NEW R, AllTwins(R), NEW a, NEW b, <<a, b>> \in R
  PROVE  Meet(R, a, b) /\ a.json = b.json /\ (a = Absent <=> b = Absent)
<1>1. Twins(R, a, b)
  BY DEF AllTwins
<1>2. PICK n \in Nat : \E h : Matched(R, a.entries, b.entries, n, h)
  BY <1>1 DEF Twins
<1>3. PICK h : Matched(R, a.entries, b.entries, n, h)
  BY <1>2
<1>4. /\ a.entries = [i \in 1 .. n |-> a.entries[i]] /\ b.entries = [i \in 1 .. n |-> b.entries[i]]
      /\ Shuffles(h, n) /\ \A i \in 1 .. n : Meets(R, a, b, i, h[i])
  BY <1>3 DEF Matched, Meets
<1>5. DOMAIN a.entries = 1 .. n /\ DOMAIN b.entries = 1 .. n
  BY <1>4
<1>6. h \in [1 .. n -> 1 .. n] /\ \A j \in 1 .. n : \E i \in 1 .. n : h[i] = j
  BY <1>4 DEF Shuffles
<1>7. Meet(R, a, b)
  BY <1>4, <1>5, <1>6 DEF Meet
<1> QED BY <1>1, <1>7 DEF Twins

(* What is said of each entry is a sequence as long as the entries.         *)
LEMMA EntriesAreListed ==
  ASSUME NEW s, NEW n \in Nat, DOMAIN s = 1 .. n, NEW c, c = [i \in DOMAIN s |-> c[i]]
  PROVE  Listing(c) /\ DOMAIN c = DOMAIN s
<1>1. c = [i \in 1 .. n |-> c[i]]
  OBVIOUS
<1> QED BY <1>1, ListingIs

(* Lists of checks have the same verdict if every check has its like on the *)
(* other side.                                                              *)
LEMMA SameOfChecks ==
  ASSUME NEW s, Listing(s), NEW t, Listing(t),
         \A i \in DOMAIN s : \E j \in DOMAIN t : IsCheck(s[i]) /\ (s[i].ok <=> t[j].ok),
         \A j \in DOMAIN t : \E i \in DOMAIN s : IsCheck(t[j]) /\ (s[i].ok <=> t[j].ok)
  PROVE  SameVerdict(s, t)
<1>1. IsChecks(s) /\ IsChecks(t)
  BY Zenon DEF IsChecks, ToSet
<1>2. ASSUME NEW u
      PROVE  Passes(u) <=> \A i \in DOMAIN u : u[i].ok
  BY Zenon DEF Passes, ToSet
<1>3. Passes(s) <=> Passes(t)
  <2>1. (\A i \in DOMAIN s : s[i].ok) <=> \A j \in DOMAIN t : t[j].ok
    BY Zenon
  <2> QED BY <1>2, <2>1, Zenon
<1> QED BY <1>1, <1>3, Zenon DEF SameVerdict

(* A check has the outcome it was made with.                                *)
LEMMA CheckIs ==
  \A ok, kind, path : /\ Check(ok, kind, path).ok = ok
                      /\ kind \in OtherKinds => IsCheck(Check(ok, kind, path))
BY DEF Check, IsCheck

(* Checks of equivalent conditions have the same verdict.                   *)
LEMMA SameOfCheck ==
  ASSUME NEW kind \in OtherKinds, NEW path, NEW v, NEW w, v <=> w
  PROVE  SameVerdict(<<Check(v, kind, path)>>, <<Check(w, kind, path)>>)
<1>1. IsCheck(Check(v, kind, path)) /\ IsCheck(Check(w, kind, path))
  BY CheckIs
<1>2. Check(v, kind, path).ok <=> Check(w, kind, path).ok
  BY Zenon, CheckIs
<1> QED BY <1>1, <1>2, SameOfOne

(* The checks of one node.                                                  *)
NodeChecksAlike(a, b) ==
  \A path :
    /\ SameVerdict(IsMapping(a, path), IsMapping(b, path))
    /\ SameVerdict(IsText(a, path), IsText(b, path))
    /\ \A field : /\ SameVerdict(Required(a, path, field), Required(b, path, field))
                  /\ SameVerdict(RequiredString(a, path, field), RequiredString(b, path, field))
    /\ \A allowed : SameVerdict(RejectUnknown(a, path, allowed), RejectUnknown(b, path, allowed))

(* The checks of a single node (its kind, its fields, what it requires)     *)
(* have the same verdict for twins.                                         *)
LEMMA NodesAreCheckedAlike ==
  ASSUME NEW R, AllTwins(R), NEW a, NEW b, <<a, b>> \in R
  PROVE  NodeChecksAlike(a, b)
<1>1. Meet(R, a, b) /\ a.json = b.json
  BY EntriesMeet
<1>2. ASSUME NEW c, NEW d, c.json = d.json, NEW path
      PROVE  SameVerdict(IsText(c, path), IsText(d, path)) /\ SameVerdict(IsMapping(c, path), IsMapping(d, path))
  <2>1. "InvalidField" \in OtherKinds
    BY DEF OtherKinds
  <2> QED BY <1>2, <2>1, SameOfCheck DEF IsText, IsMapping
<1>3. ASSUME NEW path, NEW field
      PROVE  /\ SameVerdict(Required(a, path, field), Required(b, path, field))
             /\ SameVerdict(RequiredString(a, path, field), RequiredString(b, path, field))
  <2>1. <<Get(a, field), Get(b, field)>> \in R
    BY GetIsTwin
  <2>2. Get(a, field).json = Get(b, field).json /\ (Get(a, field) = Absent <=> Get(b, field) = Absent)
    BY <2>1, EntriesMeet
  <2>3. "MissingField" \in OtherKinds
    BY DEF OtherKinds
  <2>4. SameVerdict(Required(a, path, field), Required(b, path, field))
    BY <2>2, <2>3, SameOfCheck DEF Required
  <2>5. SameVerdict(IsText(Get(a, field), Append(path, field)), IsText(Get(b, field), Append(path, field)))
    BY <1>2, <2>2
  <2> QED BY <2>4, <2>5, SameOfJoined DEF RequiredString
<1>4. ASSUME NEW path, NEW allowed
      PROVE  SameVerdict(RejectUnknown(a, path, allowed), RejectUnknown(b, path, allowed))
  <2> DEFINE c(v, i) == Check(v.entries[i].key \in allowed, "UnknownField", Append(path, v.entries[i].key))
             s == [i \in DOMAIN a.entries |-> c(a, i)]
             t == [i \in DOMAIN b.entries |-> c(b, i)]
  <2>1. RejectUnknown(a, path, allowed) = s /\ RejectUnknown(b, path, allowed) = t
    BY DEF RejectUnknown, EachEntry
  <2>2. Listing(s) /\ Listing(t) /\ DOMAIN s = DOMAIN a.entries /\ DOMAIN t = DOMAIN b.entries
    <3> HIDE DEF c
    <3>1. PICK n \in Nat : DOMAIN a.entries = 1 .. n /\ DOMAIN b.entries = 1 .. n
      BY <1>1 DEF Meet
    <3>2. s = [i \in DOMAIN a.entries |-> s[i]] /\ t = [i \in DOMAIN b.entries |-> t[i]]
      OBVIOUS
    <3> HIDE DEF s, t
    <3> QED BY <3>1, <3>2, EntriesAreListed
  <2>3. "UnknownField" \in OtherKinds
    BY DEF OtherKinds
  <2>4. \A i : IsCheck(c(a, i)) /\ IsCheck(c(b, i)) /\ c(a, i).ok = (a.entries[i].key \in allowed)
               /\ c(b, i).ok = (b.entries[i].key \in allowed)
    BY <2>3, CheckIs
  <2> HIDE DEF c
  <2>5. \A i, j : Meets(R, a, b, i, j) => IsCheck(c(a, i)) /\ IsCheck(c(b, j)) /\ (c(a, i).ok <=> c(b, j).ok)
    BY <2>4, Zenon DEF Meets
  <2>6. (\A i \in DOMAIN s : s[i] = c(a, i)) /\ (\A j \in DOMAIN t : t[j] = c(b, j))
    OBVIOUS
  <2> HIDE DEF s, t
  <2>7. /\ \A i \in DOMAIN s : \E j \in DOMAIN t : IsCheck(s[i]) /\ (s[i].ok <=> t[j].ok)
        /\ \A j \in DOMAIN t : \E i \in DOMAIN s : IsCheck(t[j]) /\ (s[i].ok <=> t[j].ok)
    <3>1. /\ \A i \in DOMAIN s : \E j \in DOMAIN t : Meets(R, a, b, i, j)
          /\ \A j \in DOMAIN t : \E i \in DOMAIN s : Meets(R, a, b, i, j)
      BY <1>1, <2>2 DEF Meet
    <3>2. ASSUME NEW i \in DOMAIN s
          PROVE  \E j \in DOMAIN t : IsCheck(s[i]) /\ (s[i].ok <=> t[j].ok)
      <4>1. PICK j \in DOMAIN t : Meets(R, a, b, i, j)
        BY <3>1
      <4>2. s[i] = c(a, i) /\ t[j] = c(b, j)
        BY <2>6
      <4> QED BY <2>5, <4>1, <4>2, Zenon
    <3>3. ASSUME NEW j \in DOMAIN t
          PROVE  \E i \in DOMAIN s : IsCheck(t[j]) /\ (s[i].ok <=> t[j].ok)
      <4>1. PICK i \in DOMAIN s : Meets(R, a, b, i, j)
        BY <3>1
      <4>2. s[i] = c(a, i) /\ t[j] = c(b, j)
        BY <2>6
      <4> QED BY <2>5, <4>1, <4>2, Zenon
    <3> QED BY <3>2, <3>3
  <2> QED BY <2>1, <2>2, <2>7, SameOfChecks
<1> QED BY <1>1, <1>2, <1>3, <1>4 DEF NodeChecksAlike
------------------------------------------------------------------------------
(* The checks of a document, entry by entry.                                *)

(* Checks made for each entry have the same verdict if they have it for     *)
(* entries that meet.                                                       *)
LEMMA SameOfEntries ==
  ASSUME NEW R, NEW a, NEW b, Meet(R, a, b),
         NEW s, s = [i \in DOMAIN a.entries |-> s[i]], NEW t, t = [i \in DOMAIN b.entries |-> t[i]],
         \A i \in DOMAIN s, j \in DOMAIN t : Meets(R, a, b, i, j) => SameVerdict(s[i], t[j])
  PROVE  SameVerdict(FlattenSeq(s), FlattenSeq(t))
<1>1. PICK n \in Nat : DOMAIN a.entries = 1 .. n /\ DOMAIN b.entries = 1 .. n
  BY DEF Meet
<1>2. Listing(s) /\ Listing(t) /\ DOMAIN s = DOMAIN a.entries /\ DOMAIN t = DOMAIN b.entries
  BY <1>1, EntriesAreListed
<1>3. /\ \A i \in DOMAIN s : \E j \in DOMAIN t : SameVerdict(s[i], t[j])
      /\ \A j \in DOMAIN t : \E i \in DOMAIN s : SameVerdict(s[i], t[j])
  <2>1. /\ \A i \in DOMAIN s : \E j \in DOMAIN t : Meets(R, a, b, i, j)
        /\ \A j \in DOMAIN t : \E i \in DOMAIN s : Meets(R, a, b, i, j)
    BY <1>2 DEF Meet
  <2> QED BY <2>1
<1> QED BY <1>2, <1>3, SameOfFlattened

(* The inputs of twins are refused or accepted alike.                       *)
LEMMA InputsAreCheckedAlike ==
  ASSUME NEW R, AllTwins(R), NEW a, NEW b, <<a, b>> \in R
  PROVE  SameVerdict(InputChecks(a), InputChecks(b))
<1> DEFINE of(name, value) ==
             LET path == <<"inputs", name>>
             IN  IsMapping(value, path) \o RejectUnknown(value, path, {"type"})
                 \o RequiredString(value, path, "type")
                 \o <<Check(Text(Get(value, "type")) \in SemanticTypes, "InvalidField", Append(path, "type"))>>
           s == [i \in DOMAIN a.entries |-> of(a.entries[i].key, a.entries[i].value)]
           t == [i \in DOMAIN b.entries |-> of(b.entries[i].key, b.entries[i].value)]
<1>1. /\ InputChecks(a) = IsMapping(a, <<"inputs">>) \o FlattenSeq(s)
      /\ InputChecks(b) = IsMapping(b, <<"inputs">>) \o FlattenSeq(t)
  BY DEF InputChecks, EachEntry
<1>2. ASSUME NEW c, NEW d, <<c, d>> \in R, NEW name
      PROVE  SameVerdict(of(name, c), of(name, d))
  <2> DEFINE path == <<"inputs", name>>
  <2>1. NodeChecksAlike(c, d)
    BY <1>2, NodesAreCheckedAlike
  <2>2. Get(c, "type").json = Get(d, "type").json
    BY <1>2, GetIsTwin, EntriesMeet
  <2>3. Text(Get(c, "type")) = Text(Get(d, "type"))
    BY <2>2 DEF Text
  <2>4. "InvalidField" \in OtherKinds
    BY DEF OtherKinds
  <2> HIDE DEF path
  <2>5. SameVerdict(<<Check(Text(Get(c, "type")) \in SemanticTypes, "InvalidField", Append(path, "type"))>>,
                    <<Check(Text(Get(d, "type")) \in SemanticTypes, "InvalidField", Append(path, "type"))>>)
    BY <2>3, <2>4, SameOfCheck
  <2>6. /\ SameVerdict(IsMapping(c, path), IsMapping(d, path))
        /\ SameVerdict(RejectUnknown(c, path, {"type"}), RejectUnknown(d, path, {"type"}))
        /\ SameVerdict(RequiredString(c, path, "type"), RequiredString(d, path, "type"))
    BY <2>1 DEF NodeChecksAlike
  <2> QED BY <2>5, <2>6, SameOfJoined DEF path
<1> HIDE DEF of
<1>3. s = [i \in DOMAIN a.entries |-> s[i]] /\ t = [i \in DOMAIN b.entries |-> t[i]]
  OBVIOUS
<1>4. Meet(R, a, b)
  BY EntriesMeet
<1>5. ASSUME NEW i \in DOMAIN s, NEW j \in DOMAIN t, Meets(R, a, b, i, j)
      PROVE  SameVerdict(s[i], t[j])
  BY <1>2, <1>5 DEF Meets
<1> HIDE DEF s, t
<1>6. SameVerdict(FlattenSeq(s), FlattenSeq(t))
  BY <1>3, <1>4, <1>5, SameOfEntries
<1>7. NodeChecksAlike(a, b)
  BY NodesAreCheckedAlike
<1>8. SameVerdict(IsMapping(a, <<"inputs">>), IsMapping(b, <<"inputs">>))
  BY <1>7 DEF NodeChecksAlike
<1> QED BY <1>1, <1>6, <1>8, SameOfJoined

(* So are the bindings of a Unit,                                           *)
LEMMA BindingsAreCheckedAlike ==
  ASSUME NEW R, AllTwins(R), NEW a, NEW b, <<a, b>> \in R, NEW path
  PROVE  SameVerdict(BindingChecks(a, path), BindingChecks(b, path))
<1> DEFINE of(port, value) == IsText(value, Append(path, port))
           s == [i \in DOMAIN a.entries |-> of(a.entries[i].key, a.entries[i].value)]
           t == [i \in DOMAIN b.entries |-> of(b.entries[i].key, b.entries[i].value)]
<1>1. /\ BindingChecks(a, path) = IsMapping(a, path) \o FlattenSeq(s)
      /\ BindingChecks(b, path) = IsMapping(b, path) \o FlattenSeq(t)
  BY DEF BindingChecks, EachEntry
<1>2. ASSUME NEW c, NEW d, <<c, d>> \in R, NEW port
      PROVE  SameVerdict(of(port, c), of(port, d))
  BY <1>2, NodesAreCheckedAlike DEF NodeChecksAlike
<1> HIDE DEF of
<1>3. s = [i \in DOMAIN a.entries |-> s[i]] /\ t = [i \in DOMAIN b.entries |-> t[i]]
  OBVIOUS
<1>4. Meet(R, a, b)
  BY EntriesMeet
<1>5. ASSUME NEW i \in DOMAIN s, NEW j \in DOMAIN t, Meets(R, a, b, i, j)
      PROVE  SameVerdict(s[i], t[j])
  BY <1>2, <1>5 DEF Meets
<1> HIDE DEF s, t
<1>6. SameVerdict(FlattenSeq(s), FlattenSeq(t))
  BY <1>3, <1>4, <1>5, SameOfEntries
<1>7. SameVerdict(IsMapping(a, path), IsMapping(b, path))
  BY NodesAreCheckedAlike DEF NodeChecksAlike
<1> QED BY <1>1, <1>6, <1>7, SameOfJoined

(* the Units,                                                               *)
LEMMA UnitsAreCheckedAlike ==
  ASSUME NEW R, AllTwins(R), NEW a, NEW b, <<a, b>> \in R
  PROVE  SameVerdict(UnitChecks(a), UnitChecks(b))
<1> DEFINE of(id, value) ==
             LET path == <<"units", id>>
             IN  IsMapping(value, path)
                 \o RejectUnknown(value, path, {"type", "config", "inputs", "outputs"})
                 \o RequiredString(value, path, "type")
                 \o Required(value, path, "inputs") \o BindingChecks(Get(value, "inputs"), Append(path, "inputs"))
                 \o Required(value, path, "outputs") \o BindingChecks(Get(value, "outputs"), Append(path, "outputs"))
           s == [i \in DOMAIN a.entries |-> of(a.entries[i].key, a.entries[i].value)]
           t == [i \in DOMAIN b.entries |-> of(b.entries[i].key, b.entries[i].value)]
<1>1. /\ UnitChecks(a) = IsMapping(a, <<"units">>) \o FlattenSeq(s)
      /\ UnitChecks(b) = IsMapping(b, <<"units">>) \o FlattenSeq(t)
  BY DEF UnitChecks, EachEntry
<1>2. ASSUME NEW c, NEW d, <<c, d>> \in R, NEW id
      PROVE  SameVerdict(of(id, c), of(id, d))
  <2> DEFINE path == <<"units", id>>
             keys == {"type", "config", "inputs", "outputs"}
             ins == Append(path, "inputs")
             outs == Append(path, "outputs")
  <2>1. NodeChecksAlike(c, d)
    BY <1>2, NodesAreCheckedAlike
  <2> HIDE DEF path, keys, ins, outs
  <2>2. /\ SameVerdict(IsMapping(c, path), IsMapping(d, path))
        /\ SameVerdict(RejectUnknown(c, path, keys), RejectUnknown(d, path, keys))
        /\ SameVerdict(RequiredString(c, path, "type"), RequiredString(d, path, "type"))
        /\ SameVerdict(Required(c, path, "inputs"), Required(d, path, "inputs"))
        /\ SameVerdict(Required(c, path, "outputs"), Required(d, path, "outputs"))
    BY <2>1 DEF NodeChecksAlike
  <2>3. /\ SameVerdict(BindingChecks(Get(c, "inputs"), ins), BindingChecks(Get(d, "inputs"), ins))
        /\ SameVerdict(BindingChecks(Get(c, "outputs"), outs), BindingChecks(Get(d, "outputs"), outs))
    BY <1>2, GetIsTwin, BindingsAreCheckedAlike
  <2>4. \A v : of(id, v) = IsMapping(v, path) \o RejectUnknown(v, path, keys) \o RequiredString(v, path, "type")
                    \o Required(v, path, "inputs") \o BindingChecks(Get(v, "inputs"), ins)
                    \o Required(v, path, "outputs") \o BindingChecks(Get(v, "outputs"), outs)
    BY DEF path, keys, ins, outs
  <2> HIDE DEF of
  <2>5. SameVerdict(IsMapping(c, path) \o RejectUnknown(c, path, keys) \o RequiredString(c, path, "type"),
                    IsMapping(d, path) \o RejectUnknown(d, path, keys) \o RequiredString(d, path, "type"))
    BY <2>2, SameOfJoined
  <2>6. SameVerdict(IsMapping(c, path) \o RejectUnknown(c, path, keys) \o RequiredString(c, path, "type")
                      \o Required(c, path, "inputs") \o BindingChecks(Get(c, "inputs"), ins),
                    IsMapping(d, path) \o RejectUnknown(d, path, keys) \o RequiredString(d, path, "type")
                      \o Required(d, path, "inputs") \o BindingChecks(Get(d, "inputs"), ins))
    BY <2>2, <2>3, <2>5, SameOfJoined
  <2> QED BY <2>2, <2>3, <2>4, <2>6, SameOfJoined
<1> HIDE DEF of
<1>3. s = [i \in DOMAIN a.entries |-> s[i]] /\ t = [i \in DOMAIN b.entries |-> t[i]]
  OBVIOUS
<1>4. Meet(R, a, b)
  BY EntriesMeet
<1>5. ASSUME NEW i \in DOMAIN s, NEW j \in DOMAIN t, Meets(R, a, b, i, j)
      PROVE  SameVerdict(s[i], t[j])
  BY <1>2, <1>5 DEF Meets
<1> HIDE DEF s, t
<1>6. SameVerdict(FlattenSeq(s), FlattenSeq(t))
  BY <1>3, <1>4, <1>5, SameOfEntries
<1>7. SameVerdict(IsMapping(a, <<"units">>), IsMapping(b, <<"units">>))
  BY NodesAreCheckedAlike DEF NodeChecksAlike
<1> QED BY <1>1, <1>6, <1>7, SameOfJoined

(* and definitions as a whole.                                              *)
LEMMA DefinitionsAreCheckedAlike ==
  ASSUME NEW R, AllTwins(R), NEW a, NEW b, <<a, b>> \in R
  PROVE  SameVerdict(DefinitionChecks(a), DefinitionChecks(b))
<1> DEFINE keys == {"schema", "module", "inputs", "units", "outputs"}
           Start(v) == IsMapping(v, <<>>) \o RejectUnknown(v, <<>>, keys) \o RequiredString(v, <<>>, "schema")
           schema(v) == <<Check(Text(Get(v, "schema")) = SupportedSchema, "UnsupportedSchema", <<"schema">>)>>
           Middle(v) == Start(v) \o schema(v) \o RequiredString(v, <<>>, "module")
           Fields3(v) == Middle(v) \o Required(v, <<>>, "inputs") \o Required(v, <<>>, "units")
                           \o Required(v, <<>>, "outputs")
           outs(v) == BindingChecks(Get(v, "outputs"), <<"outputs">>)
<1>1. \A v : DefinitionChecks(v) = Fields3(v) \o InputChecks(Get(v, "inputs")) \o UnitChecks(Get(v, "units")) \o outs(v)
  BY DEF DefinitionChecks
<1>2. NodeChecksAlike(a, b)
  BY NodesAreCheckedAlike
<1>3. \A field : <<Get(a, field), Get(b, field)>> \in R
  BY GetIsTwin
<1>4. SameVerdict(schema(a), schema(b))
  <2>1. Get(a, "schema").json = Get(b, "schema").json
    BY <1>3, EntriesMeet
  <2>2. Text(Get(a, "schema")) = Text(Get(b, "schema"))
    BY <2>1 DEF Text
  <2>3. "UnsupportedSchema" \in OtherKinds
    BY DEF OtherKinds
  <2> QED BY <2>2, <2>3, SameOfCheck
<1>5. SameVerdict(outs(a), outs(b))
  BY <1>3, BindingsAreCheckedAlike
<1> HIDE DEF keys
<1>6. SameVerdict(Start(a), Start(b))
  <2>1. /\ SameVerdict(IsMapping(a, <<>>), IsMapping(b, <<>>))
        /\ SameVerdict(RejectUnknown(a, <<>>, keys), RejectUnknown(b, <<>>, keys))
        /\ SameVerdict(RequiredString(a, <<>>, "schema"), RequiredString(b, <<>>, "schema"))
    BY <1>2 DEF NodeChecksAlike
  <2> QED BY <2>1, SameOfJoined
<1> HIDE DEF Start, schema, outs
<1>7. SameVerdict(Middle(a), Middle(b))
  <2>1. SameVerdict(RequiredString(a, <<>>, "module"), RequiredString(b, <<>>, "module"))
    BY <1>2 DEF NodeChecksAlike
  <2> QED BY <1>4, <1>6, <2>1, SameOfJoined
<1> HIDE DEF Middle
<1>8. SameVerdict(Fields3(a), Fields3(b))
  <2>1. /\ SameVerdict(Required(a, <<>>, "inputs"), Required(b, <<>>, "inputs"))
        /\ SameVerdict(Required(a, <<>>, "units"), Required(b, <<>>, "units"))
        /\ SameVerdict(Required(a, <<>>, "outputs"), Required(b, <<>>, "outputs"))
    BY <1>2 DEF NodeChecksAlike
  <2> QED BY <1>7, <2>1, SameOfJoined
<1> HIDE DEF Fields3
<1>9. /\ SameVerdict(InputChecks(Get(a, "inputs")), InputChecks(Get(b, "inputs")))
      /\ SameVerdict(UnitChecks(Get(a, "units")), UnitChecks(Get(b, "units")))
  BY <1>3, InputsAreCheckedAlike, UnitsAreCheckedAlike
<1> QED BY <1>1, <1>5, <1>8, <1>9, SameOfJoined
------------------------------------------------------------------------------
(* Sorting by name.                                                         *)
Named(s, n) == n \in Nat /\ DOMAIN s = 1 .. n /\ \A i \in 1 .. n : s[i].name \in Strings
Before(s, j) == {k \in DOMAIN s : Precedes(s, k, j)}
Upto(s, r) == {k \in DOMAIN s : Rank[s[k].name] <= r}

(* The place of an element is the count of those not after it, which are no *)
(* more than those of its rank or a lower one.                              *)
LEMMA BeforeIsCounted ==
  ASSUME NEW s, NEW n, Named(s, n), NEW j \in 1 .. n
  PROVE  /\ PlaceIn(s, j) = Cardinality(Before(s, j)) /\ IsFiniteSet(Before(s, j)) /\ PlaceIn(s, j) \in 1 .. n
         /\ j \in Before(s, j) /\ Before(s, j) \subseteq Upto(s, Rank[s[j].name])
         /\ \A r \in Nat : /\ IsFiniteSet(Upto(s, r)) /\ Cardinality(Upto(s, r)) \in Nat
                           /\ r < Rank[s[j].name] => Upto(s, r) \subseteq Before(s, j) \ {j}
<1> DEFINE b == Before(s, j)
<1>1. n \in Nat /\ DOMAIN s = 1 .. n /\ \A i \in 1 .. n : Rank[s[i].name] \in Nat
  BY DefinitionAssumption DEF Named
<1>2. IsFiniteSet(1 .. n) /\ Cardinality(1 .. n) = n
  BY <1>1, FS_Interval
<1>3. b \subseteq 1 .. n /\ j \in b /\ b \subseteq Upto(s, Rank[s[j].name])
  BY <1>1 DEF Before, Precedes, Upto
<1>4. PlaceIn(s, j) = Cardinality(b)
  BY DEF PlaceIn, Before
<1> HIDE DEF b
<1>5. IsFiniteSet(b) /\ Cardinality(b) \in Nat /\ Cardinality(b) <= n /\ Cardinality(b) # 0
  <2>1. IsFiniteSet(b) /\ Cardinality(b) <= n
    BY <1>2, <1>3, FS_Subset
  <2> QED BY <1>3, <2>1, FS_CardinalityType, FS_EmptySet
<1>6. ASSUME NEW r \in Nat
      PROVE  /\ IsFiniteSet(Upto(s, r)) /\ Cardinality(Upto(s, r)) \in Nat
             /\ r < Rank[s[j].name] => Upto(s, r) \subseteq b \ {j}
  <2>1. Upto(s, r) \subseteq 1 .. n
    BY <1>1 DEF Upto
  <2>2. IsFiniteSet(Upto(s, r)) /\ Cardinality(Upto(s, r)) \in Nat
    BY <1>2, <2>1, FS_Subset, FS_CardinalityType
  <2>3. r < Rank[s[j].name] => Upto(s, r) \subseteq b \ {j}
    BY <1>1 DEF Upto, Before, Precedes, b
  <2> QED BY <2>2, <2>3
<1>7. PlaceIn(s, j) \in 1 .. n
  BY <1>1, <1>4, <1>5
<1> QED BY <1>3, <1>4, <1>5, <1>6, <1>7 DEF b

(* No two elements have the same place, and every place is taken.           *)
LEMMA PlacesShuffle ==
  ASSUME NEW s, NEW n, Named(s, n)
  PROVE  Shuffles([i \in 1 .. n |-> PlaceIn(s, i)], n)
<1> DEFINE place == [i \in 1 .. n |-> PlaceIn(s, i)]
<1>1. n \in Nat /\ DOMAIN s = 1 .. n /\ \A i \in 1 .. n : Rank[s[i].name] \in Nat
  BY DefinitionAssumption DEF Named
<1>2. place \in [1 .. n -> 1 .. n]
  BY BeforeIsCounted
<1>3. ASSUME NEW i \in 1 .. n, NEW j \in 1 .. n, i # j, Precedes(s, i, j)
      PROVE  PlaceIn(s, i) # PlaceIn(s, j)
  <2>1. Before(s, i) \subseteq Before(s, j)
    BY <1>1, <1>3 DEF Before, Precedes
  <2>2. j \notin Before(s, i) /\ j \in Before(s, j)
    BY <1>1, <1>3 DEF Before, Precedes
  <2>3. /\ PlaceIn(s, i) = Cardinality(Before(s, i)) /\ PlaceIn(s, j) = Cardinality(Before(s, j))
        /\ IsFiniteSet(Before(s, i)) /\ IsFiniteSet(Before(s, j))
    BY BeforeIsCounted
  <2> QED BY <2>1, <2>2, <2>3, FS_Subset
<1>4. \A i, j \in 1 .. n : Precedes(s, i, j) \/ Precedes(s, j, i)
  BY <1>1 DEF Precedes
<1>5. \A i, j \in 1 .. n : place[i] = place[j] => i = j
  BY <1>3, <1>4
<1> HIDE DEF place
<1> QED BY <1>1, <1>2, <1>5, InjectiveShuffles DEF place

(* Each place has an element, and each element a place.                     *)
LEMMA SortedHasAll ==
  ASSUME NEW s, NEW n, Named(s, n)
  PROVE  /\ Listing(ByName(s)) /\ DOMAIN ByName(s) = 1 .. n
         /\ \A k \in 1 .. n : \E i \in 1 .. n : PlaceIn(s, i) = k /\ ByName(s)[k] = s[i]
         /\ \A i \in 1 .. n : \E k \in 1 .. n : ByName(s)[k] = s[i]
<1> DEFINE place == [i \in 1 .. n |-> PlaceIn(s, i)]
<1>1. n \in Nat /\ DOMAIN s = 1 .. n
  BY DEF Named
<1>2. Shuffles(place, n)
  BY PlacesShuffle
<1>3. /\ \A i \in 1 .. n : place[i] \in 1 .. n
      /\ \A i, j \in 1 .. n : place[i] = place[j] => i = j
      /\ \A k \in 1 .. n : \E i \in 1 .. n : place[i] = k
  <2> HIDE DEF place
  <2> QED BY <1>2 DEF Shuffles
<1>4. DOMAIN ByName(s) = 1 .. n /\ ByName(s) = [k \in 1 .. n |-> s[CHOOSE i \in 1 .. n : PlaceIn(s, i) = k]]
  BY <1>1 DEF ByName
<1>5. ASSUME NEW k \in 1 .. n
      PROVE  \E i \in 1 .. n : PlaceIn(s, i) = k /\ ByName(s)[k] = s[i]
  <2>1. \E i \in 1 .. n : PlaceIn(s, i) = k
    BY <1>3
  <2> QED BY <1>4, <2>1
<1>6. ASSUME NEW i \in 1 .. n
      PROVE  \E k \in 1 .. n : ByName(s)[k] = s[i]
  <2>1. PICK j \in 1 .. n : PlaceIn(s, j) = place[i] /\ ByName(s)[place[i]] = s[j]
    BY <1>3, <1>5
  <2>2. j = i
    BY <1>3, <2>1
  <2> QED BY <1>3, <2>1, <2>2
<1>7. Listing(ByName(s))
  <2>1. ByName(s) = [k \in 1 .. n |-> ByName(s)[k]]
    BY <1>4
  <2> QED BY <1>1, <2>1, ListingIs
<1> QED BY <1>4, <1>5, <1>6, <1>7

(* A shuffle keeps the count of what it carries over.                       *)
LEMMA ShufflesKeepCount ==
  ASSUME NEW n \in Nat, NEW h, Shuffles(h, n), NEW A \in SUBSET (1 .. n), NEW B \in SUBSET (1 .. n),
         \A i \in 1 .. n : i \in A <=> h[i] \in B
  PROVE  Cardinality(A) = Cardinality(B)
<1> DEFINE f == [i \in A |-> h[i]]
<1>1. IsFiniteSet(A)
  <2>1. IsFiniteSet(1 .. n)
    BY FS_Interval
  <2> QED BY <2>1, FS_Subset
<1>2. f \in [A -> B]
  BY DEF Shuffles
<1>3. \A i, j \in A : f[i] = f[j] => i = j
  BY DEF Shuffles
<1>4. \A x \in B : \E i \in A : f[i] = x
  BY DEF Shuffles
<1> HIDE DEF f
<1>5. f \in Bijection(A, B)
  BY <1>2, <1>3, <1>4 DEF Bijection, Injection, Surjection, IsInjective
<1> QED BY <1>1, <1>5, FS_Bijection DEF ExistsBijection

(* With as many elements up to each rank on both sides, an element is of no *)
(* lower rank than the one at its place on the other side.                  *)
LEMMA NoLowerAtAPlace ==
  ASSUME NEW n, NEW s, Named(s, n), NEW t, Named(t, n),
         \A r \in Nat : Cardinality(Upto(s, r)) = Cardinality(Upto(t, r)),
         NEW i \in 1 .. n, NEW j \in 1 .. n, PlaceIn(s, i) = PlaceIn(t, j)
  PROVE  ~ (Rank[s[i].name] < Rank[t[j].name])
<1> DEFINE r == Rank[s[i].name]
           k == PlaceIn(s, i)
<1> SUFFICES ASSUME r < Rank[t[j].name] PROVE FALSE
  OBVIOUS
<1>1. r \in Nat
  BY DefinitionAssumption DEF Named
<1>2. /\ k = Cardinality(Before(s, i)) /\ k \in 1 .. n /\ Before(s, i) \subseteq Upto(s, r)
      /\ IsFiniteSet(Upto(s, r)) /\ Cardinality(Upto(s, r)) \in Nat
  BY <1>1, BeforeIsCounted
<1>3. k <= Cardinality(Upto(s, r))
  BY <1>2, FS_Subset
<1>4. /\ k = Cardinality(Before(t, j)) /\ IsFiniteSet(Before(t, j)) /\ j \in Before(t, j)
      /\ Upto(t, r) \subseteq Before(t, j) \ {j}
  BY <1>1, BeforeIsCounted
<1>5. IsFiniteSet(Before(t, j) \ {j}) /\ Cardinality(Before(t, j) \ {j}) = k - 1
  BY <1>4, FS_RemoveElement
<1>6. Cardinality(Upto(t, r)) <= k - 1
  BY <1>4, <1>5, FS_Subset
<1>7. k <= k - 1 /\ k \in Int
  <2>1. Cardinality(Upto(s, r)) = Cardinality(Upto(t, r)) /\ k \in Int
    BY <1>1, <1>2
  <2> HIDE DEF k, r
  <2> QED BY <1>2, <1>3, <1>6, <2>1
<1> QED BY <1>7

(* A sequence is sorted as any other of the same elements.                  *)
LEMMA SortedAlike ==
  ASSUME NEW n, NEW s, Named(s, n), NEW t, Named(t, n), NEW h, Shuffles(h, n),
         \A i \in 1 .. n : t[h[i]] = s[i],
         \A i, j \in 1 .. n : s[i].name = s[j].name => s[i] = s[j]
  PROVE  ByName(s) = ByName(t)
<1>1. n \in Nat /\ DOMAIN s = 1 .. n /\ DOMAIN t = 1 .. n
  BY DEF Named
<1>2. /\ \A i \in 1 .. n : h[i] \in 1 .. n
      /\ \A j \in 1 .. n : \E i \in 1 .. n : h[i] = j
  BY DEF Shuffles
<1>3. ASSUME NEW r \in Nat
      PROVE  Cardinality(Upto(s, r)) = Cardinality(Upto(t, r))
  <2>1. Upto(s, r) \in SUBSET (1 .. n) /\ Upto(t, r) \in SUBSET (1 .. n)
    BY <1>1 DEF Upto
  <2>2. \A i \in 1 .. n : i \in Upto(s, r) <=> h[i] \in Upto(t, r)
    BY <1>1, <1>2 DEF Upto
  <2> QED BY <1>1, <2>1, <2>2, ShufflesKeepCount
<1>4. ASSUME NEW k \in 1 .. n
      PROVE  ByName(s)[k] = ByName(t)[k]
  <2>1. PICK i \in 1 .. n : PlaceIn(s, i) = k /\ ByName(s)[k] = s[i]
    BY SortedHasAll, ZenonT(30)
  <2>2. PICK j \in 1 .. n : PlaceIn(t, j) = k /\ ByName(t)[k] = t[j]
    BY SortedHasAll
  <2>3. ~ (Rank[s[i].name] < Rank[t[j].name])
    BY <1>3, <2>1, <2>2, NoLowerAtAPlace
  <2>4. ~ (Rank[t[j].name] < Rank[s[i].name])
    BY <1>3, <2>1, <2>2, NoLowerAtAPlace
  <2>5. s[i].name \in Strings /\ t[j].name \in Strings
    BY DEF Named
  <2>6. Rank[s[i].name] = Rank[t[j].name]
    BY <2>3, <2>4, <2>5, DefinitionAssumption
  <2>7. s[i].name = t[j].name
    BY <2>5, <2>6, DefinitionAssumption
  <2>8. PICK m \in 1 .. n : h[m] = j
    BY <1>2
  <2>9. s[m] = t[j]
    BY <2>8
  <2>10. s[m] = s[i]
    BY <2>7, <2>9
  <2> QED BY <2>1, <2>2, <2>9, <2>10
<1>5. DOMAIN ByName(s) = 1 .. n /\ DOMAIN ByName(t) = 1 .. n /\ Listing(ByName(s)) /\ Listing(ByName(t))
  BY SortedHasAll
<1>6. ByName(s) = [k \in 1 .. n |-> ByName(s)[k]] /\ ByName(t) = [k \in 1 .. n |-> ByName(t)[k]]
  BY <1>1 DEF ByName
<1> QED BY <1>4, <1>6
------------------------------------------------------------------------------
(* Normal form.                                                             *)

(* The text of a node is a string even where the node is none.              *)
LEMMA TextIsString == \A node : Text(node) \in Strings
BY SyntaxAssumption DEF Text, IsString

(* The keys of both are names, and differ.                                  *)
Keyed(a) ==
  /\ \E n \in Nat : DOMAIN a.entries = 1 .. n
  /\ \A i \in DOMAIN a.entries : a.entries[i].key \in Strings /\ a.entries[i].value # Absent
  /\ \A i, j \in DOMAIN a.entries : a.entries[i].key = a.entries[j].key => i = j

(* The keys of both are names, and differ.                                  *)
LEMMA TwinsAreKeyed ==
  ASSUME NEW R, AllTwins(R), NEW a, NEW b, <<a, b>> \in R
  PROVE  Keyed(a) /\ \A j \in DOMAIN b.entries : b.entries[j].key \in Strings
<1>1. Twins(R, a, b)
  BY DEF AllTwins
<1>2. PICK n \in Nat : \E h : Matched(R, a.entries, b.entries, n, h)
  BY <1>1 DEF Twins
<1>3. PICK h : Matched(R, a.entries, b.entries, n, h)
  BY <1>2
<1> DEFINE s == a.entries
           t == b.entries
<1> HIDE DEF s, t
<1>4. /\ s = [i \in 1 .. n |-> s[i]] /\ t = [i \in 1 .. n |-> t[i]] /\ Shuffles(h, n)
      /\ \A i \in 1 .. n : s[i].key \in Strings /\ t[h[i]].key = s[i].key /\ s[i].value # Absent
      /\ \A i, j \in 1 .. n : s[i].key = s[j].key => i = j
  BY <1>3 DEF Matched, s, t
<1>5. DOMAIN s = 1 .. n /\ DOMAIN t = 1 .. n
  BY <1>4
<1>6. \A j \in 1 .. n : \E i \in 1 .. n : h[i] = j
  BY <1>4 DEF Shuffles
<1>7. \A j \in DOMAIN t : t[j].key \in Strings
  BY <1>4, <1>5, <1>6, SMTT(30)
<1> QED BY <1>4, <1>5, <1>7 DEF Keyed, s, t

(* What is made of the entries of twins, and named by their keys, is sorted *)
(* into the same sequence.                                                  *)
LEMMA EntriesSortAlike ==
  ASSUME NEW R, AllTwins(R), NEW a, NEW b, <<a, b>> \in R,
         NEW s, s = [i \in DOMAIN a.entries |-> s[i]], NEW t, t = [i \in DOMAIN b.entries |-> t[i]],
         \A i \in DOMAIN s : s[i].name \in Strings, \A j \in DOMAIN t : t[j].name \in Strings,
         \A i, j \in DOMAIN s : s[i].name = s[j].name => s[i] = s[j],
         \A i \in DOMAIN s, j \in DOMAIN t : Meets(R, a, b, i, j) => s[i] = t[j]
  PROVE  ByName(s) = ByName(t)
<1>1. Twins(R, a, b)
  BY DEF AllTwins
<1>2. PICK n \in Nat : \E h : Matched(R, a.entries, b.entries, n, h)
  BY <1>1 DEF Twins
<1>3. PICK h : Matched(R, a.entries, b.entries, n, h)
  BY <1>2
<1>4. /\ a.entries = [i \in 1 .. n |-> a.entries[i]] /\ b.entries = [i \in 1 .. n |-> b.entries[i]]
      /\ Shuffles(h, n) /\ \A i \in 1 .. n : Meets(R, a, b, i, h[i])
  BY <1>3 DEF Matched, Meets
<1>5. DOMAIN a.entries = 1 .. n /\ DOMAIN b.entries = 1 .. n
  BY <1>4
<1>6. DOMAIN s = 1 .. n /\ DOMAIN t = 1 .. n
  BY <1>5
<1>7. Named(s, n) /\ Named(t, n)
  BY <1>6 DEF Named
<1>8. \A i \in 1 .. n : h[i] \in 1 .. n /\ t[h[i]] = s[i]
  BY <1>4, <1>6 DEF Shuffles
<1>9. \A i, j \in 1 .. n : s[i].name = s[j].name => s[i] = s[j]
  BY <1>6
<1>10. Shuffles(h, n)
  BY <1>4
<1> QED BY <1>7, <1>8, <1>9, <1>10, SortedAlike

(* Twins normalize to the same bindings,                                    *)
LEMMA BindingsAlike ==
  ASSUME NEW R, AllTwins(R), NEW a, NEW b, <<a, b>> \in R
  PROVE  Bindings(a) = Bindings(b)
<1> DEFINE of(port, value) == [name |-> port, resource |-> Text(value)]
           s == [i \in DOMAIN a.entries |-> of(a.entries[i].key, a.entries[i].value)]
           t == [i \in DOMAIN b.entries |-> of(b.entries[i].key, b.entries[i].value)]
<1>1. Bindings(a) = ByName(s) /\ Bindings(b) = ByName(t)
  BY DEF Bindings, EachEntry
<1>2. Keyed(a) /\ \A j \in DOMAIN b.entries : b.entries[j].key \in Strings
  BY TwinsAreKeyed
<1>3. ASSUME NEW c, NEW d, <<c, d>> \in R, NEW port
      PROVE  of(port, c) = of(port, d)
  <2>1. c.json = d.json
    BY <1>3, EntriesMeet
  <2> QED BY <2>1 DEF Text
<1>4. \A key, value : of(key, value).name = key
  OBVIOUS
<1> HIDE DEF of
<1>5. /\ s = [i \in DOMAIN a.entries |-> s[i]] /\ t = [i \in DOMAIN b.entries |-> t[i]]
      /\ \A i \in DOMAIN s : s[i].name = a.entries[i].key
      /\ \A j \in DOMAIN t : t[j].name = b.entries[j].key
      /\ DOMAIN s = DOMAIN a.entries /\ DOMAIN t = DOMAIN b.entries
  BY <1>4
<1>6. ASSUME NEW i \in DOMAIN s, NEW j \in DOMAIN t, Meets(R, a, b, i, j)
      PROVE  s[i] = t[j]
  BY <1>3, <1>6 DEF Meets
<1> HIDE DEF s, t
<1>7. /\ \A i \in DOMAIN s : s[i].name \in Strings
      /\ \A j \in DOMAIN t : t[j].name \in Strings
      /\ \A i, j \in DOMAIN s : s[i].name = s[j].name => s[i] = s[j]
  BY <1>2, <1>5 DEF Keyed
<1> QED BY <1>1, <1>5, <1>6, <1>7, EntriesSortAlike

NormalInputs(node) ==
  ByName(EachEntry(node, LAMBDA name, value : [name |-> name, type |-> Text(Get(value, "type"))]))
NormalUnit(id, value) ==
  [name |-> id, type |-> Text(Get(value, "type")),
   config |-> IF Get(value, "config") = Absent THEN EmptyMapping ELSE Get(value, "config").json,
   inputs |-> Bindings(Get(value, "inputs")),
   outputs |-> Bindings(Get(value, "outputs"))]
NormalUnits(node) == ByName(EachEntry(node, NormalUnit))
NormalOutputs(node) == ByName(EachEntry(node, LAMBDA name, value : [name |-> Text(value)]))

(* Normal form of a definition, by its three parts.                         *)
LEMMA NormalIs ==
  \A node : Normal(node) = [inputs |-> NormalInputs(Get(node, "inputs")),
                            units |-> NormalUnits(Get(node, "units")),
                            outputs |-> NormalOutputs(Get(node, "outputs"))]
BY DEF Normal, NormalInputs, NormalUnits, NormalUnit, NormalOutputs, EachEntry

(* the same inputs,                                                         *)
LEMMA NormalInputsAlike ==
  ASSUME NEW R, AllTwins(R), NEW a, NEW b, <<a, b>> \in R
  PROVE  NormalInputs(a) = NormalInputs(b)
<1> DEFINE of(name, value) == [name |-> name, type |-> Text(Get(value, "type"))]
           s == [i \in DOMAIN a.entries |-> of(a.entries[i].key, a.entries[i].value)]
           t == [i \in DOMAIN b.entries |-> of(b.entries[i].key, b.entries[i].value)]
<1>1. NormalInputs(a) = ByName(s) /\ NormalInputs(b) = ByName(t)
  BY DEF NormalInputs, EachEntry
<1>2. Keyed(a) /\ \A j \in DOMAIN b.entries : b.entries[j].key \in Strings
  BY TwinsAreKeyed
<1>3. ASSUME NEW c, NEW d, <<c, d>> \in R, NEW name
      PROVE  of(name, c) = of(name, d)
  <2>1. Get(c, "type").json = Get(d, "type").json
    BY <1>3, GetIsTwin, EntriesMeet
  <2> QED BY <2>1 DEF Text
<1>4. \A key, value : of(key, value).name = key
  OBVIOUS
<1> HIDE DEF of
<1>5. /\ s = [i \in DOMAIN a.entries |-> s[i]] /\ t = [i \in DOMAIN b.entries |-> t[i]]
      /\ \A i \in DOMAIN s : s[i].name = a.entries[i].key
      /\ \A j \in DOMAIN t : t[j].name = b.entries[j].key
      /\ DOMAIN s = DOMAIN a.entries /\ DOMAIN t = DOMAIN b.entries
  BY <1>4
<1>6. ASSUME NEW i \in DOMAIN s, NEW j \in DOMAIN t, Meets(R, a, b, i, j)
      PROVE  s[i] = t[j]
  BY <1>3, <1>6 DEF Meets
<1> HIDE DEF s, t
<1>7. /\ \A i \in DOMAIN s : s[i].name \in Strings
      /\ \A j \in DOMAIN t : t[j].name \in Strings
      /\ \A i, j \in DOMAIN s : s[i].name = s[j].name => s[i] = s[j]
  BY <1>2, <1>5 DEF Keyed
<1> QED BY <1>1, <1>5, <1>6, <1>7, EntriesSortAlike

(* the same Units,                                                          *)
LEMMA NormalUnitsAlike ==
  ASSUME NEW R, AllTwins(R), NEW a, NEW b, <<a, b>> \in R
  PROVE  NormalUnits(a) = NormalUnits(b)
<1> DEFINE s == [i \in DOMAIN a.entries |-> NormalUnit(a.entries[i].key, a.entries[i].value)]
           t == [i \in DOMAIN b.entries |-> NormalUnit(b.entries[i].key, b.entries[i].value)]
<1>1. NormalUnits(a) = ByName(s) /\ NormalUnits(b) = ByName(t)
  BY DEF NormalUnits, EachEntry
<1>2. Keyed(a) /\ \A j \in DOMAIN b.entries : b.entries[j].key \in Strings
  BY TwinsAreKeyed
<1>3. ASSUME NEW c, NEW d, <<c, d>> \in R, NEW id
      PROVE  NormalUnit(id, c) = NormalUnit(id, d)
  <2>1. \A field : <<Get(c, field), Get(d, field)>> \in R
    BY <1>3, GetIsTwin
  <2>2. \A field : /\ Get(c, field).json = Get(d, field).json
                   /\ Get(c, field) = Absent <=> Get(d, field) = Absent
    <3> TAKE field
    <3> DEFINE x == Get(c, field)
               y == Get(d, field)
    <3>1. <<x, y>> \in R
      BY <2>1
    <3> HIDE DEF x, y
    <3>2. x.json = y.json /\ (x = Absent <=> y = Absent)
      BY <3>1, EntriesMeet
    <3> QED BY <3>2 DEF x, y
  <2>3. \A field : Bindings(Get(c, field)) = Bindings(Get(d, field))
    BY <2>1, BindingsAlike
  <2>4. Text(Get(c, "type")) = Text(Get(d, "type"))
    BY <2>2 DEF Text
  <2>5. (IF Get(c, "config") = Absent THEN EmptyMapping ELSE Get(c, "config").json)
        = (IF Get(d, "config") = Absent THEN EmptyMapping ELSE Get(d, "config").json)
    BY <2>2
  <2> QED BY <2>3, <2>4, <2>5 DEF NormalUnit
<1>4. \A key, value : NormalUnit(key, value).name = key
  BY DEF NormalUnit
<1>5. /\ s = [i \in DOMAIN a.entries |-> s[i]] /\ t = [i \in DOMAIN b.entries |-> t[i]]
      /\ \A i \in DOMAIN s : s[i].name = a.entries[i].key
      /\ \A j \in DOMAIN t : t[j].name = b.entries[j].key
      /\ DOMAIN s = DOMAIN a.entries /\ DOMAIN t = DOMAIN b.entries
  BY <1>4
<1>6. ASSUME NEW i \in DOMAIN s, NEW j \in DOMAIN t, Meets(R, a, b, i, j)
      PROVE  s[i] = t[j]
  BY <1>3, <1>6 DEF Meets
<1> HIDE DEF s, t
<1>7. /\ \A i \in DOMAIN s : s[i].name \in Strings
      /\ \A j \in DOMAIN t : t[j].name \in Strings
      /\ \A i, j \in DOMAIN s : s[i].name = s[j].name => s[i] = s[j]
  BY <1>2, <1>5 DEF Keyed
<1> QED BY <1>1, <1>5, <1>6, <1>7, EntriesSortAlike

(* the same outputs,                                                        *)
LEMMA NormalOutputsAlike ==
  ASSUME NEW R, AllTwins(R), NEW a, NEW b, <<a, b>> \in R
  PROVE  NormalOutputs(a) = NormalOutputs(b)
<1> DEFINE of(value) == [name |-> Text(value)]
           s == [i \in DOMAIN a.entries |-> of(a.entries[i].value)]
           t == [i \in DOMAIN b.entries |-> of(b.entries[i].value)]
<1>1. NormalOutputs(a) = ByName(s) /\ NormalOutputs(b) = ByName(t)
  BY DEF NormalOutputs, EachEntry
<1>2. ASSUME NEW c, NEW d, <<c, d>> \in R
      PROVE  of(c) = of(d)
  <2>1. c.json = d.json
    BY <1>2, EntriesMeet
  <2> QED BY <2>1 DEF Text
<1>3. /\ \A v : of(v).name \in Strings
      /\ \A v, w : of(v).name = of(w).name => of(v) = of(w)
  BY TextIsString
<1> HIDE DEF of
<1>4. s = [i \in DOMAIN a.entries |-> s[i]] /\ t = [i \in DOMAIN b.entries |-> t[i]]
  OBVIOUS
<1>5. ASSUME NEW i \in DOMAIN s, NEW j \in DOMAIN t, Meets(R, a, b, i, j)
      PROVE  s[i] = t[j]
  BY <1>2, <1>5 DEF Meets
<1>6. /\ \A i \in DOMAIN s : s[i].name \in Strings
      /\ \A j \in DOMAIN t : t[j].name \in Strings
      /\ \A i, j \in DOMAIN s : s[i].name = s[j].name => s[i] = s[j]
  BY <1>3
<1> HIDE DEF s, t
<1> QED BY <1>1, <1>4, <1>5, <1>6, EntriesSortAlike

(* and to the same definition.                                              *)
LEMMA NormalAlike ==
  ASSUME NEW R, AllTwins(R), NEW a, NEW b, <<a, b>> \in R
  PROVE  Normal(a) = Normal(b)
<1>1. \A field : <<Get(a, field), Get(b, field)>> \in R
  BY GetIsTwin
<1>2. /\ NormalInputs(Get(a, "inputs")) = NormalInputs(Get(b, "inputs"))
      /\ NormalUnits(Get(a, "units")) = NormalUnits(Get(b, "units"))
      /\ NormalOutputs(Get(a, "outputs")) = NormalOutputs(Get(b, "outputs"))
  BY <1>1, NormalInputsAlike, NormalUnitsAlike, NormalOutputsAlike
<1> QED BY <1>2, NormalIs
------------------------------------------------------------------------------
(* Nodes below which all keys are names and differ.                         *)
Orderly(N) ==
  \A x \in N : /\ Keyed(x)
               /\ \A field : Get(x, field) \in N
               /\ \A i \in DOMAIN x.entries : x.entries[i].value \in N

(* Below the root of a document without key faults, all keys are names and  *)
(* differ.                                                                  *)
LEMMA RootIsOrderly ==
  ASSUME NEW tree, IsDocument(tree), KeyFault(tree) = "Ok"
  PROVE  \E N : Orderly(N) /\ RootNode(tree) \in N
<1>1. SameButForOrder(tree, tree)
  BY DEF SameButForOrder
<1>2. PICK R : AllTwins(R) /\ <<RootNode(tree), RootNode(tree)>> \in R
  BY <1>1, RootsAreTwins
<1> DEFINE N == {x \in UNION {{r[1]} : r \in R} : \E y : <<x, y>> \in R}
<1>3. \A x : x \in N <=> \E y : <<x, y>> \in R
  <2>1. ASSUME NEW x, NEW y, <<x, y>> \in R
        PROVE  x \in UNION {{r[1]} : r \in R}
    <3>1. <<x, y>>[1] = x
      OBVIOUS
    <3> QED BY <2>1, <3>1
  <2> QED BY <2>1
<1> HIDE DEF N
<1>4. ASSUME NEW x \in N
      PROVE  /\ Keyed(x)
             /\ \A field : Get(x, field) \in N
             /\ \A i \in DOMAIN x.entries : x.entries[i].value \in N
  <2>1. PICK y : <<x, y>> \in R
    BY <1>3
  <2>2. Keyed(x)
    BY <1>2, <2>1, TwinsAreKeyed
  <2>3. \A field : <<Get(x, field), Get(y, field)>> \in R
    BY <1>2, <2>1, GetIsTwin
  <2>4. Meet(R, x, y)
    BY <1>2, <2>1, EntriesMeet
  <2>5. \A i \in DOMAIN x.entries : x.entries[i].value \in N
    <3> TAKE i \in DOMAIN x.entries
    <3>1. PICK j \in DOMAIN y.entries : Meets(R, x, y, i, j)
      BY <2>4 DEF Meet
    <3> QED BY <1>3, <3>1 DEF Meets
  <2> QED BY <1>3, <2>2, <2>3, <2>5
<1> QED BY <1>2, <1>3, <1>4 DEF Orderly

(* What is sorted by its keys.                                              *)
Distinct(s) == \A i, j \in DOMAIN s : s[i].name = s[j].name => i = j

SortsAll(s, n) ==
  /\ Listing(ByName(s)) /\ DOMAIN ByName(s) = 1 .. n
  /\ \A k \in 1 .. n : \E i \in 1 .. n : ByName(s)[k] = s[i]
  /\ \A i \in 1 .. n : \E k \in 1 .. n : ByName(s)[k] = s[i]
  /\ (\A i, j \in 1 .. n : s[i].name = s[j].name => i = j) => Distinct(ByName(s))

(* Sorting by name keeps every element, and names that differ stay so.      *)
LEMMA NamedAreSorted ==
  ASSUME NEW s, NEW n, Named(s, n)
  PROVE  SortsAll(s, n)
<1>1. /\ Listing(ByName(s)) /\ DOMAIN ByName(s) = 1 .. n
      /\ \A i \in 1 .. n : \E k \in 1 .. n : ByName(s)[k] = s[i]
  BY SortedHasAll
<1>2. \A k \in 1 .. n : \E i \in 1 .. n : PlaceIn(s, i) = k /\ ByName(s)[k] = s[i]
  BY SortedHasAll
<1> DEFINE b == ByName(s)
<1> HIDE DEF b
<1>3. ASSUME \A i, j \in 1 .. n : s[i].name = s[j].name => i = j
      PROVE  Distinct(b)
  <2> SUFFICES ASSUME NEW k \in 1 .. n, NEW m \in 1 .. n, b[k].name = b[m].name
               PROVE  k = m
    BY <1>1 DEF Distinct, b
  <2>1. PICK i \in 1 .. n : PlaceIn(s, i) = k /\ b[k] = s[i]
    BY <1>2 DEF b
  <2>2. PICK j \in 1 .. n : PlaceIn(s, j) = m /\ b[m] = s[j]
    BY <1>2 DEF b
  <2> QED BY <1>3, <2>1, <2>2
<1>4. \A k \in 1 .. n : \E i \in 1 .. n : b[k] = s[i]
  BY <1>2 DEF b
<1> QED BY <1>1, <1>3, <1>4 DEF b, SortsAll

(* What is named by the keys of a mapping has no name twice once it is      *)
(* sorted.                                                                  *)
LEMMA EntriesSorted ==
  ASSUME NEW a, Keyed(a), NEW s, DOMAIN s = DOMAIN a.entries,
         \A i \in DOMAIN a.entries : s[i].name = a.entries[i].key
  PROVE  /\ Listing(ByName(s)) /\ Distinct(ByName(s))
         /\ \A x : x \in ToSet(ByName(s)) <=> \E i \in DOMAIN a.entries : x = s[i]
<1>1. PICK n \in Nat : DOMAIN a.entries = 1 .. n
  BY DEF Keyed
<1>2. DOMAIN s = 1 .. n /\ \A i \in 1 .. n : s[i].name \in Strings
  BY <1>1 DEF Keyed
<1>3. Named(s, n)
  BY <1>2 DEF Named
<1>4. \A i, j \in 1 .. n : s[i].name = s[j].name => i = j
  BY <1>1 DEF Keyed
<1>5. SortsAll(s, n)
  BY <1>3, NamedAreSorted
<1> DEFINE b == ByName(s)
<1> HIDE DEF b
<1>6. Distinct(b) /\ Listing(b) /\ DOMAIN b = 1 .. n
  BY <1>4, <1>5 DEF SortsAll, b
<1>7. \A x : x \in ToSet(b) <=> \E k \in 1 .. n : b[k] = x
  BY <1>6 DEF ToSet
<1>8. \A x : x \in ToSet(b) <=> \E i \in DOMAIN a.entries : x = s[i]
  <2> TAKE x
  <2>1. ASSUME NEW k \in 1 .. n, b[k] = x
        PROVE  \E i \in DOMAIN a.entries : x = s[i]
    BY <1>1, <1>5, <2>1 DEF SortsAll, b
  <2>2. ASSUME NEW i \in DOMAIN a.entries, x = s[i]
        PROVE  \E k \in 1 .. n : b[k] = x
    BY <1>1, <1>5, <2>2 DEF SortsAll, b
  <2> QED BY <1>7, <2>1, <2>2
<1> QED BY <1>6, <1>8 DEF b

(* The bindings of a Unit in normal form are those of the document, each    *)
(* port once.                                                               *)
LEMMA BindingsAre ==
  ASSUME NEW a, Keyed(a)
  PROVE  /\ Listing(Bindings(a)) /\ Distinct(Bindings(a))
         /\ \A x : x \in ToSet(Bindings(a)) <=>
              \E i \in DOMAIN a.entries : x = [name |-> a.entries[i].key, resource |-> Text(a.entries[i].value)]
<1> DEFINE s == [i \in DOMAIN a.entries |-> [name |-> a.entries[i].key, resource |-> Text(a.entries[i].value)]]
<1>1. Bindings(a) = ByName(s)
  BY DEF Bindings, EachEntry
<1>2. /\ s = [i \in DOMAIN a.entries |-> s[i]]
      /\ \A i \in DOMAIN a.entries :
           s[i].name = a.entries[i].key
           /\ s[i] = [name |-> a.entries[i].key, resource |-> Text(a.entries[i].value)]
  OBVIOUS
<1> HIDE DEF s
<1>8. /\ Listing(ByName(s)) /\ Distinct(ByName(s))
      /\ \A x : x \in ToSet(ByName(s)) <=> \E i \in DOMAIN a.entries : x = s[i]
  <2>1. /\ DOMAIN s = DOMAIN a.entries
        /\ \A i \in DOMAIN a.entries : s[i].name = a.entries[i].key
    BY <1>2
  <2> QED BY <2>1, EntriesSorted
<1>9. \A x : (\E i \in DOMAIN a.entries : x = s[i]) <=> \E i \in DOMAIN a.entries : x = [name |-> a.entries[i].key, resource |-> Text(a.entries[i].value)]
  BY <1>2
<1> QED BY <1>1, <1>8, <1>9

(* The inputs in normal form are those of the document, each once.          *)
LEMMA InputsAre ==
  ASSUME NEW a, Keyed(a)
  PROVE  /\ Listing(NormalInputs(a)) /\ Distinct(NormalInputs(a))
         /\ \A x : x \in ToSet(NormalInputs(a)) <=>
              \E i \in DOMAIN a.entries :
                x = [name |-> a.entries[i].key, type |-> Text(Get(a.entries[i].value, "type"))]
<1> DEFINE s == [i \in DOMAIN a.entries |->
                   [name |-> a.entries[i].key, type |-> Text(Get(a.entries[i].value, "type"))]]
<1>1. NormalInputs(a) = ByName(s)
  BY DEF NormalInputs, EachEntry
<1>2. /\ s = [i \in DOMAIN a.entries |-> s[i]]
      /\ \A i \in DOMAIN a.entries :
           s[i].name = a.entries[i].key
           /\ s[i] = [name |-> a.entries[i].key, type |-> Text(Get(a.entries[i].value, "type"))]
  OBVIOUS
<1> HIDE DEF s
<1>8. /\ Listing(ByName(s)) /\ Distinct(ByName(s))
      /\ \A x : x \in ToSet(ByName(s)) <=> \E i \in DOMAIN a.entries : x = s[i]
  <2>1. /\ DOMAIN s = DOMAIN a.entries
        /\ \A i \in DOMAIN a.entries : s[i].name = a.entries[i].key
    BY <1>2
  <2> QED BY <2>1, EntriesSorted
<1>9. \A x : (\E i \in DOMAIN a.entries : x = s[i]) <=> \E i \in DOMAIN a.entries : x = [name |-> a.entries[i].key, type |-> Text(Get(a.entries[i].value, "type"))]
  BY <1>2
<1> QED BY <1>1, <1>8, <1>9

(* The Units in normal form are those of the document, each once.           *)
LEMMA UnitsAre ==
  ASSUME NEW a, Keyed(a)
  PROVE  /\ Listing(NormalUnits(a)) /\ Distinct(NormalUnits(a))
         /\ \A x : x \in ToSet(NormalUnits(a)) <=>
              \E i \in DOMAIN a.entries : x = NormalUnit(a.entries[i].key, a.entries[i].value)
<1> DEFINE s == [i \in DOMAIN a.entries |-> NormalUnit(a.entries[i].key, a.entries[i].value)]
<1>1. NormalUnits(a) = ByName(s)
  BY DEF NormalUnits, EachEntry
<1>2. \A key, value : NormalUnit(key, value).name = key
  BY DEF NormalUnit
<1>3. /\ s = [i \in DOMAIN a.entries |-> s[i]]
      /\ \A i \in DOMAIN a.entries :
           s[i].name = a.entries[i].key /\ s[i] = NormalUnit(a.entries[i].key, a.entries[i].value)
  BY <1>2
<1> HIDE DEF s
<1>8. /\ Listing(ByName(s)) /\ Distinct(ByName(s))
      /\ \A x : x \in ToSet(ByName(s)) <=> \E i \in DOMAIN a.entries : x = s[i]
  <2>1. /\ DOMAIN s = DOMAIN a.entries
        /\ \A i \in DOMAIN a.entries : s[i].name = a.entries[i].key
    BY <1>3
  <2> QED BY <2>1, EntriesSorted
<1>9. \A x : (\E i \in DOMAIN a.entries : x = s[i]) <=> \E i \in DOMAIN a.entries : x = NormalUnit(a.entries[i].key, a.entries[i].value)
  BY <1>3
<1> QED BY <1>1, <1>8, <1>9

(* A Module in normal form.                                                 *)
IsModule(module) ==
  /\ Listing(module.inputs) /\ Distinct(module.inputs) /\ Listing(module.units)
  /\ \A u \in ToSet(module.units) : Listing(u.inputs) /\ Listing(u.outputs) /\ Distinct(u.outputs)

(* The normal form of a document is a Module.                               *)
LEMMA NormalIsModule ==
  ASSUME NEW N, Orderly(N), NEW node \in N
  PROVE  IsModule(Normal(node))
<1> DEFINE ins == Get(node, "inputs")
           us == Get(node, "units")
<1>1. Normal(node).inputs = NormalInputs(ins) /\ Normal(node).units = NormalUnits(us)
  BY NormalIs
<1>2. ins \in N /\ us \in N
  BY DEF Orderly
<1> HIDE DEF ins, us
<1>3. Keyed(ins) /\ Keyed(us)
  BY <1>2 DEF Orderly
<1>4. ASSUME NEW u \in ToSet(NormalUnits(us))
      PROVE  Listing(u.inputs) /\ Listing(u.outputs) /\ Distinct(u.outputs)
  <2>1. PICK i \in DOMAIN us.entries : u = NormalUnit(us.entries[i].key, us.entries[i].value)
    BY <1>3, <1>4, UnitsAre
  <2> DEFINE v == us.entries[i].value
  <2>2. v \in N
    BY <1>2 DEF Orderly
  <2>3. u.inputs = Bindings(Get(v, "inputs")) /\ u.outputs = Bindings(Get(v, "outputs"))
    BY <2>1 DEF NormalUnit
  <2> HIDE DEF v
  <2>4. Keyed(Get(v, "inputs")) /\ Keyed(Get(v, "outputs"))
    BY <2>2 DEF Orderly
  <2> QED BY <2>3, <2>4, BindingsAre
<1> QED BY <1>1, <1>3, <1>4, InputsAre, UnitsAre DEF IsModule
------------------------------------------------------------------------------
(* Resolution.                                                              *)
PortsMeet(bindings, ports) ==
  /\ \A x \in ToSet(bindings) : \E p \in DOMAIN ports : ports[p].name = x.name
  /\ \A p \in DOMAIN ports : \E i \in DOMAIN bindings : bindings[i].name = ports[p].name

(* Bindings that pass name ports of the Unit type, and all of them.         *)
LEMMA PortChecksAre ==
  ASSUME NEW bindings, Listing(bindings), NEW ports, Listing(ports), NEW unit, NEW direction
  PROVE  /\ IsChecks(PortChecks(unit, direction, bindings, ports))
         /\ Passes(PortChecks(unit, direction, bindings, ports)) => PortsMeet(bindings, ports)
<1> DEFINE bound(i) == Check(\E p \in DOMAIN ports : ports[p].name = bindings[i].name, "Graph", <<>>)
           given(p) == Check(\E i \in DOMAIN bindings : bindings[i].name = ports[p].name,
                             "MissingPort", PortPath(unit, direction, ports[p].name))
           known(p) == Check(ports[p].type \in DOMAIN ConcreteTypes, "Graph", <<>>)
           fits(p) == Check(ports[p].type \in DOMAIN ConcreteTypes /\ ConcreteTypes[ports[p].type] = ports[p].concrete,
                            "TypeMismatch", PortPath(unit, "inputs", ports[p].name))
           s == [i \in DOMAIN bindings |-> bound(i)]
           t == [p \in DOMAIN ports |-> <<given(p), known(p), fits(p)>>]
           all == s \o FlattenSeq(t)
<1>1. PortChecks(unit, direction, bindings, ports) = all
  BY DEF PortChecks
<1>2. PICK n \in Nat : DOMAIN bindings = 1 .. n
  BY DEF Listing
<1>3. PICK m \in Nat : DOMAIN ports = 1 .. m
  BY DEF Listing
<1>4. {"Graph", "MissingPort", "TypeMismatch"} \subseteq OtherKinds
  BY DEF OtherKinds
<1>5. (\A i : IsCheck(bound(i))) /\ \A p : IsCheck(given(p)) /\ IsCheck(known(p)) /\ IsCheck(fits(p))
  BY <1>4, CheckIs
<1>6. /\ \A i : bound(i).ok = \E p \in DOMAIN ports : ports[p].name = bindings[i].name
      /\ \A p : given(p).ok = \E i \in DOMAIN bindings : bindings[i].name = ports[p].name
  BY CheckIs, Zenon
<1> HIDE DEF bound, given, known, fits
<1>7. Listing(s) /\ DOMAIN s = DOMAIN bindings /\ \A i \in DOMAIN bindings : s[i] = bound(i)
  <2>1. s = [i \in DOMAIN bindings |-> s[i]] /\ \A i \in DOMAIN bindings : s[i] = bound(i)
    OBVIOUS
  <2> HIDE DEF s
  <2> QED BY <1>2, <2>1, EntriesAreListed
<1>8. Listing(t) /\ DOMAIN t = DOMAIN ports /\ \A p \in DOMAIN ports : t[p] = <<given(p), known(p), fits(p)>>
  <2>1. t = [p \in DOMAIN ports |-> t[p]] /\ \A p \in DOMAIN ports : t[p] = <<given(p), known(p), fits(p)>>
    OBVIOUS
  <2> HIDE DEF t
  <2> QED BY <1>3, <2>1, EntriesAreListed
<1> HIDE DEF s, t
<1>9. \A x, y, z : Listing(<<x, y, z>>) /\ ToSet(<<x, y, z>>) = {x, y, z}
  BY DEF Listing, ToSet
<1>10. Listing(FlattenSeq(t)) /\ \A x : x \in ToSet(FlattenSeq(t)) <=> \E p \in DOMAIN ports : x \in ToSet(t[p])
  BY <1>8, <1>9, FlattenedIsListing
<1>11. Listing(all) /\ \A x : x \in ToSet(all) <=> x \in ToSet(s) \/ x \in ToSet(FlattenSeq(t))
  BY <1>7, <1>10, JoinedIsListing
<1>12. \A p \in DOMAIN ports : ToSet(t[p]) = {given(p), known(p), fits(p)}
  BY <1>8, <1>9
<1>13. \A x : x \in ToSet(s) <=> \E i \in DOMAIN bindings : x = bound(i)
  BY <1>7 DEF ToSet
<1>14. \A x : x \in ToSet(all) <=> \/ \E i \in DOMAIN bindings : x = bound(i)
                                   \/ \E p \in DOMAIN ports : x \in {given(p), known(p), fits(p)}
  BY <1>10, <1>11, <1>12, <1>13
<1> HIDE DEF all
<1>15. IsChecks(all)
  BY <1>5, <1>11, <1>14 DEF IsChecks
<1>16. ASSUME Passes(all)
       PROVE  PortsMeet(bindings, ports)
  <2>1. (\A i \in DOMAIN bindings : bound(i).ok) /\ \A p \in DOMAIN ports : given(p).ok
    BY <1>14, <1>16 DEF Passes
  <2>2. \A i \in DOMAIN bindings : \E p \in DOMAIN ports : ports[p].name = bindings[i].name
    BY <1>6, <2>1, Zenon
  <2>3. \A p \in DOMAIN ports : \E i \in DOMAIN bindings : bindings[i].name = ports[p].name
    BY <1>6, <2>1, Zenon
  <2> QED BY <2>2, <2>3 DEF PortsMeet, ToSet
<1> QED BY <1>1, <1>15, <1>16

UnitFits(u) ==
  /\ u.type \in DOMAIN UnitTypes
  /\ Listing(Ports(u)) /\ PortsMeet(u.outputs, Ports(u))

(* A Unit that resolves fits its type.                                      *)
LEMMA UnitResolves ==
  ASSUME NEW u, Listing(u.inputs), Listing(u.outputs)
  PROVE  IsChecks(ResolveUnit(u)) /\ (Passes(ResolveUnit(u)) => UnitFits(u))
<1>1. CASE u.type \notin DOMAIN UnitTypes
  <2> DEFINE c == Check(FALSE, "UnknownUnit", <<"units", u.name, "type">>)
  <2>1. ResolveUnit(u) = <<c>>
    BY <1>1 DEF ResolveUnit
  <2>2. IsCheck(c) /\ ~ c.ok
    BY DEF Check, IsCheck, OtherKinds
  <2> HIDE DEF c
  <2>3. Listing(<<c>>) /\ ToSet(<<c>>) = {c}
    BY DEF Listing, ToSet
  <2> QED BY <2>1, <2>2, <2>3 DEF IsChecks, Passes
<1>2. CASE u.type \in DOMAIN UnitTypes
  <2> DEFINE in == UnitTypes[u.type].inputs
             out == UnitTypes[u.type].outputs
             first == PortChecks(u, "inputs", u.inputs, in)
             second == PortChecks(u, "outputs", u.outputs, out)
  <2>1. Listing(in) /\ Listing(out)
    BY <1>2, DefinitionAssumption DEF Listing
  <2>2. ResolveUnit(u) = first \o second /\ Ports(u) = out
    BY <1>2 DEF ResolveUnit, Ports
  <2> HIDE DEF in, out
  <2>3. IsChecks(first) /\ IsChecks(second) /\ (Passes(second) => PortsMeet(u.outputs, out))
    BY <2>1, PortChecksAre
  <2> HIDE DEF first, second
  <2>4. Listing(first \o second) /\ \A x : x \in ToSet(first \o second) <=> x \in ToSet(first) \/ x \in ToSet(second)
    BY <2>3, JoinedIsListing DEF IsChecks
  <2>5. IsChecks(first \o second) /\ (Passes(first \o second) => Passes(second))
    BY <2>3, <2>4 DEF IsChecks, Passes
  <2> QED BY <1>2, <2>1, <2>2, <2>3, <2>5 DEF UnitFits
<1> QED BY <1>1, <1>2

(* In a Module that resolves every Unit fits its type.                      *)
LEMMA ModuleResolves ==
  ASSUME NEW module, IsModule(module)
  PROVE  IsChecks(Resolve(module)) /\ (Passes(Resolve(module)) => \A u \in ToSet(module.units) : UnitFits(u))
<1> DEFINE known(i) == Check(module.inputs[i].type \in DOMAIN ConcreteTypes, "Graph", <<>>)
           s == [i \in DOMAIN module.inputs |-> known(i)]
           t == [i \in DOMAIN module.units |-> ResolveUnit(module.units[i])]
           all == s \o FlattenSeq(t)
<1>1. Resolve(module) = all
  BY DEF Resolve
<1>2. PICK n \in Nat : DOMAIN module.inputs = 1 .. n
  BY DEF Listing, IsModule
<1>3. PICK m \in Nat : DOMAIN module.units = 1 .. m
  BY DEF Listing, IsModule
<1>4. \A i : IsCheck(known(i))
  BY CheckIs DEF OtherKinds
<1> HIDE DEF known
<1>5. IsChecks(s)
  <2>1. s = [i \in DOMAIN module.inputs |-> s[i]] /\ \A i \in DOMAIN s : s[i] = known(i)
    OBVIOUS
  <2> HIDE DEF s
  <2>2. Listing(s)
    BY <1>2, <2>1, EntriesAreListed
  <2> QED BY <1>4, <2>1, <2>2 DEF IsChecks, ToSet
<1>6. Listing(t) /\ DOMAIN t = DOMAIN module.units /\ \A i \in DOMAIN t : t[i] = ResolveUnit(module.units[i])
  <2>1. t = [i \in DOMAIN module.units |-> t[i]] /\ DOMAIN t = DOMAIN module.units
        /\ \A i \in DOMAIN t : t[i] = ResolveUnit(module.units[i])
    OBVIOUS
  <2> HIDE DEF t
  <2> QED BY <1>3, <2>1, EntriesAreListed
<1> HIDE DEF s, t
<1>7. \A i \in DOMAIN t : IsChecks(t[i]) /\ (Passes(t[i]) => UnitFits(module.units[i]))
  <2> TAKE i \in DOMAIN t
  <2>1. module.units[i] \in ToSet(module.units)
    BY <1>6 DEF ToSet
  <2> QED BY <1>6, <2>1, UnitResolves DEF IsModule
<1>8. Listing(FlattenSeq(t)) /\ \A x : x \in ToSet(FlattenSeq(t)) <=> \E i \in DOMAIN t : x \in ToSet(t[i])
  BY <1>6, <1>7, FlattenedIsListing DEF IsChecks
<1>9. Listing(all) /\ \A x : x \in ToSet(all) <=> x \in ToSet(s) \/ x \in ToSet(FlattenSeq(t))
  BY <1>5, <1>8, JoinedIsListing DEF IsChecks
<1> HIDE DEF all
<1>10. IsChecks(all)
  BY <1>5, <1>7, <1>8, <1>9 DEF IsChecks
<1>11. Passes(all) => \A i \in DOMAIN t : Passes(t[i])
  BY <1>8, <1>9 DEF Passes
<1>12. Passes(all) => \A u \in ToSet(module.units) : UnitFits(u)
  BY <1>6, <1>7, <1>11 DEF ToSet
<1> QED BY <1>1, <1>10, <1>12
------------------------------------------------------------------------------
(* What becomes of one Unit.                                                *)
Bounded(u, b) ==
  Failures(ConfigChecks(u)) = {} /\ \A p \in DOMAIN Ports(u) : UnitBounds(u, Ports(u)[p], b) # <<>>
Unbounded(node, u, b, fault) ==
  \/ fault.kind \in {"Config", "UnknownField"}
  \/ fault.kind = "UnresolvedBound" /\ fault.path = <<"units", u.name, "config">>
  \/ /\ fault.kind = "UnresolvedBound"
     /\ \E p \in DOMAIN Ports(u) : /\ UnitBounds(u, Ports(u)[p], b) = <<>>
                                   /\ fault.path = Producer(node, Resource(u, Ports(u)[p]))

(* A configuration is refused for itself; a bound it fails to give is       *)
(* missed at the configuration.                                             *)
LEMMA ConfigFaults ==
  ASSUME NEW u, Failures(ConfigChecks(u)) # {}
  PROVE  LET fault == Refused(ConfigChecks(u))
         IN  \/ fault.kind \in {"Config", "UnknownField"}
             \/ fault.kind = "UnresolvedBound" /\ fault.path = <<"units", u.name, "config">>
<1> DEFINE path == <<"units", u.name, "config">>
           ignored == Fields(u) \ UnitTypes[u.type].fields
           a == Check(u.config.kind = "mapping", "Config", path)
           b == Check(ignored = {}, "UnknownField", Append(path, IF ignored = {} THEN "config" ELSE LeastField(ignored)))
           c == Check(Fields(u) \notin UnitTypes[u.type].refused, "UnresolvedBound", path)
<1>1. ConfigChecks(u) = <<a, b, c>>
  BY DEF ConfigChecks
<1>2. a.kind = "Config" /\ b.kind = "UnknownField" /\ c.kind = "UnresolvedBound" /\ c.path = path
  BY DEF Check
<1> HIDE DEF a, b, c, path
<1>3. Listing(<<a, b, c>>) /\ ToSet(<<a, b, c>>) = {a, b, c}
  BY DEF Listing, ToSet
<1>4. PICK d \in {a, b, c} : Refused(ConfigChecks(u)) = [kind |-> d.kind, path |-> d.path]
  BY <1>1, <1>3, FailureIsRefused
<1> QED BY <1>2, <1>4 DEF path

(* A Unit is refused for its bounds exactly if a port of it has none, at    *)
(* the producer of that port's resource.                                    *)
LEMMA UnitBoundFaults ==
  ASSUME NEW node, NEW u, NEW b, Listing(Ports(u))
  PROVE  /\ Failures(UnitBoundChecks(node, u, b)) = {} <=>
              \A p \in DOMAIN Ports(u) : UnitBounds(u, Ports(u)[p], b) # <<>>
         /\ Failures(UnitBoundChecks(node, u, b)) # {} =>
              Unbounded(node, u, b, Refused(UnitBoundChecks(node, u, b)))
<1> DEFINE of(p) == Check(UnitBounds(u, Ports(u)[p], b) # <<>>, "UnresolvedBound",
                          Producer(node, Resource(u, Ports(u)[p])))
           s == [p \in DOMAIN Ports(u) |-> of(p)]
<1>1. UnitBoundChecks(node, u, b) = s
  BY DEF UnitBoundChecks
<1>2. \A p : /\ of(p).ok = (UnitBounds(u, Ports(u)[p], b) # <<>>)
             /\ of(p).kind = "UnresolvedBound" /\ of(p).path = Producer(node, Resource(u, Ports(u)[p]))
  BY DEF Check
<1> HIDE DEF of
<1>3. s = [p \in DOMAIN Ports(u) |-> s[p]] /\ DOMAIN s = DOMAIN Ports(u) /\ \A p \in DOMAIN s : s[p] = of(p)
  OBVIOUS
<1> HIDE DEF s
<1>4. PICK n \in Nat : DOMAIN Ports(u) = 1 .. n
  BY DEF Listing
<1>5. Listing(s)
  BY <1>3, <1>4, EntriesAreListed
<1>6. Failures(s) = {} <=> \A p \in DOMAIN Ports(u) : UnitBounds(u, Ports(u)[p], b) # <<>>
  <2>1. Failures(s) = {} <=> \A p \in DOMAIN s : s[p].ok
    BY DEF Failures
  <2>2. \A p \in DOMAIN s : s[p].ok <=> UnitBounds(u, Ports(u)[p], b) # <<>>
    BY <1>2, <1>3, Zenon
  <2> QED BY <1>3, <2>1, <2>2
<1>7. ASSUME Failures(s) # {}
      PROVE  Unbounded(node, u, b, Refused(s))
  <2>1. PICK c \in ToSet(s) : ~ c.ok /\ Refused(s) = [kind |-> c.kind, path |-> c.path]
    BY <1>5, <1>7, FailureIsRefused
  <2>2. PICK p \in DOMAIN s : c = s[p]
    BY DEF ToSet
  <2>3. ~ of(p).ok /\ Refused(s).kind = of(p).kind /\ Refused(s).path = of(p).path
    BY <1>3, <2>1, <2>2
  <2>4. UnitBounds(u, Ports(u)[p], b) = <<>>
    BY <1>2, <2>3
  <2> QED BY <1>2, <1>3, <2>3, <2>4 DEF Unbounded
<1> QED BY <1>1, <1>6, <1>7

(* A Unit is refused for its configuration or its bounds exactly if it is   *)
(* not bounded.                                                             *)
LEMMA UnitFaults ==
  ASSUME NEW node, NEW u, NEW b, Listing(Ports(u))
  PROVE  /\ FaultOfUnit(node, u, b) = <<>> <=> Bounded(u, b)
         /\ FaultOfUnit(node, u, b) # <<>> => Unbounded(node, u, b, Head(FaultOfUnit(node, u, b)))
<1>1. CASE Failures(ConfigChecks(u)) # {}
  <2> DEFINE fault == Refused(ConfigChecks(u))
  <2>1. FaultOfUnit(node, u, b) = <<fault>>
    BY <1>1 DEF FaultOfUnit
  <2>2. Unbounded(node, u, b, fault)
    BY <1>1, ConfigFaults DEF Unbounded
  <2> HIDE DEF fault
  <2> QED BY <1>1, <2>1, <2>2 DEF Bounded
<1>2. CASE Failures(ConfigChecks(u)) = {} /\ Failures(UnitBoundChecks(node, u, b)) # {}
  <2> DEFINE fault == Refused(UnitBoundChecks(node, u, b))
  <2>1. FaultOfUnit(node, u, b) = <<fault>>
    BY <1>2 DEF FaultOfUnit
  <2>2. Unbounded(node, u, b, fault) /\ ~ Bounded(u, b)
    BY <1>2, UnitBoundFaults DEF Bounded
  <2> HIDE DEF fault
  <2> QED BY <2>1, <2>2
<1>3. CASE Failures(ConfigChecks(u)) = {} /\ Failures(UnitBoundChecks(node, u, b)) = {}
  <2>1. FaultOfUnit(node, u, b) = <<>>
    BY <1>3 DEF FaultOfUnit
  <2> QED BY <1>3, <2>1, UnitBoundFaults DEF Bounded
<1> QED BY <1>1, <1>2, <1>3

(* Inputs are refused exactly if one has no bound; then it is that one that *)
(* is missed.                                                               *)
LEMMA InputBoundFaults ==
  ASSUME NEW node, NEW module, NEW b, Listing(module.inputs)
  PROVE  /\ Failures(BoundChecks(node, module, b)) = {} <=>
              \A i \in DOMAIN module.inputs : InputBounds(module.inputs[i], b) # <<>>
         /\ Failures(BoundChecks(node, module, b)) # {} =>
              \E i \in DOMAIN module.inputs :
                /\ InputBounds(module.inputs[i], b) = <<>>
                /\ Refused(BoundChecks(node, module, b)).kind = "UnresolvedBound"
                /\ Refused(BoundChecks(node, module, b)).path = Producer(node, module.inputs[i].name)
<1> DEFINE in == module.inputs
           of(i) == Check(InputBounds(in[i], b) # <<>>, "UnresolvedBound", Producer(node, in[i].name))
           s == [i \in DOMAIN in |-> of(i)]
<1>1. BoundChecks(node, module, b) = s
  BY DEF BoundChecks
<1>2. \A i : /\ of(i).ok = (InputBounds(in[i], b) # <<>>)
             /\ of(i).kind = "UnresolvedBound" /\ of(i).path = Producer(node, in[i].name)
  BY DEF Check
<1> HIDE DEF of, in
<1>3. s = [i \in DOMAIN in |-> s[i]] /\ DOMAIN s = DOMAIN in /\ \A i \in DOMAIN s : s[i] = of(i)
  OBVIOUS
<1> HIDE DEF s
<1>4. PICK n \in Nat : DOMAIN in = 1 .. n
  BY DEF Listing, in
<1>5. Listing(s)
  BY <1>3, <1>4, EntriesAreListed
<1>6. Failures(s) = {} <=> \A i \in DOMAIN in : InputBounds(in[i], b) # <<>>
  <2>1. Failures(s) = {} <=> \A i \in DOMAIN s : s[i].ok
    BY DEF Failures
  <2>2. \A i \in DOMAIN s : s[i].ok <=> InputBounds(in[i], b) # <<>>
    BY <1>2, <1>3, Zenon
  <2> QED BY <1>3, <2>1, <2>2
<1>7. ASSUME Failures(s) # {}
      PROVE  \E i \in DOMAIN in : /\ InputBounds(in[i], b) = <<>>
                                  /\ Refused(s).kind = "UnresolvedBound"
                                  /\ Refused(s).path = Producer(node, in[i].name)
  <2>1. PICK c \in ToSet(s) : ~ c.ok /\ Refused(s) = [kind |-> c.kind, path |-> c.path]
    BY <1>5, <1>7, FailureIsRefused
  <2>2. PICK i \in DOMAIN s : c = s[i]
    BY DEF ToSet
  <2>3. ~ of(i).ok /\ Refused(s).kind = of(i).kind /\ Refused(s).path = of(i).path
    BY <1>3, <2>1, <2>2
  <2>4. InputBounds(in[i], b) = <<>>
    BY <1>2, <2>3
  <2> QED BY <1>2, <1>3, <2>3, <2>4
<1> QED BY <1>1, <1>6, <1>7 DEF in
------------------------------------------------------------------------------
(* What becomes of a document.                                              *)
Sorted(node) == IsModule(Normal(node)) /\ IsChecks(DefinitionChecks(node))
Passed(node) == Passes(DefinitionChecks(node)) /\ Passes(Resolve(Normal(node)))
Loads(node, b) ==
  /\ Passed(node)
  /\ \A i \in DOMAIN Normal(node).inputs : InputBounds(Normal(node).inputs[i], b) # <<>>
  /\ \A i \in DOMAIN Normal(node).units : Bounded(Normal(node).units[i], b)
InputMissed(node, b, fault) ==
  \E i \in DOMAIN Normal(node).inputs :
    /\ InputBounds(Normal(node).inputs[i], b) = <<>>
    /\ fault.path = Producer(node, Normal(node).inputs[i].name)
UnitMissed(node, b, fault) ==
  \E u \in ToSet(Normal(node).units) : Unbounded(node, u, b, fault)

(* A refusal before bounds are resolved is never one for a bound.           *)
LEMMA RefusedAs ==
  ASSUME NEW s, IsChecks(s), Failures(s) # {}
  PROVE  Refused(s).kind \notin {"Ok", "UnresolvedBound"} /\ ~ Passes(s)
<1>1. PICK c \in ToSet(s) : Refused(s) = [kind |-> c.kind, path |-> c.path]
  BY FailureIsRefused DEF IsChecks
<1>2. c.kind \in OtherKinds
  BY <1>1 DEF IsCheck, IsChecks
<1> QED BY <1>1, <1>2, FailureIsRefused DEF IsChecks, OtherKinds

(* A definition loads exactly if all checks pass, it resolves and           *)
(* everything has a bound. Otherwise it is refused, and for a bound only    *)
(* where one is missed.                                                     *)
LEMMA LoadedIs ==
  ASSUME NEW node, Sorted(node), NEW b
  PROVE  IF Loads(node, b)
           THEN Loaded(node, b) = [kind |-> "Ok", requirements |-> Requirements(Normal(node), b), module |-> Normal(node)]
           ELSE /\ Loaded(node, b).kind # "Ok"
                /\ Loaded(node, b).kind = "UnresolvedBound" =>
                     /\ Passed(node)
                     /\ InputMissed(node, b, Loaded(node, b)) \/ UnitMissed(node, b, Loaded(node, b))
<1> DEFINE m == Normal(node)
           faulty == FaultyUnits(node, m, b)
           answered == Loaded(node, b)
<1>1. /\ IsModule(m) /\ IsChecks(DefinitionChecks(node)) /\ IsChecks(Resolve(m))
      /\ Passes(Resolve(m)) => \A u \in ToSet(m.units) : UnitFits(u)
  BY ModuleResolves DEF Sorted
<1>2. /\ Failures(DefinitionChecks(node)) = {} <=> Passes(DefinitionChecks(node))
      /\ Failures(Resolve(m)) = {} <=> Passes(Resolve(m))
  BY <1>1, FailureIsRefused DEF IsChecks
<1>3. CASE Failures(DefinitionChecks(node)) # {}
  <2>1. answered = Refused(DefinitionChecks(node))
    BY <1>3 DEF Loaded
  <2>2. answered.kind \notin {"Ok", "UnresolvedBound"}
    BY <1>1, <1>3, <2>1, RefusedAs
  <2>3. ~ Loads(node, b)
    BY <1>2, <1>3 DEF Loads, Passed
  <2> QED BY <2>2, <2>3
<1>4. CASE Failures(DefinitionChecks(node)) = {} /\ Failures(Resolve(m)) # {}
  <2>1. answered = Refused(Resolve(m))
    BY <1>4 DEF Loaded
  <2>2. answered.kind \notin {"Ok", "UnresolvedBound"}
    BY <1>1, <1>4, <2>1, RefusedAs
  <2>3. ~ Loads(node, b)
    BY <1>2, <1>4 DEF Loads, Passed
  <2> QED BY <2>2, <2>3
<1>5. CASE Failures(DefinitionChecks(node)) = {} /\ Failures(Resolve(m)) = {}
  <2>1. Passed(node) /\ \A u \in ToSet(m.units) : Listing(Ports(u))
    BY <1>1, <1>2, <1>5 DEF Passed, UnitFits
  <2>2. /\ Failures(BoundChecks(node, m, b)) = {} <=> \A i \in DOMAIN m.inputs : InputBounds(m.inputs[i], b) # <<>>
        /\ Failures(BoundChecks(node, m, b)) # {} =>
             Refused(BoundChecks(node, m, b)).kind = "UnresolvedBound" /\ InputMissed(node, b, Refused(BoundChecks(node, m, b)))
    <3>1. Listing(m.inputs)
      BY <1>1 DEF IsModule
    <3> HIDE DEF m
    <3> QED BY <3>1, InputBoundFaults DEF InputMissed, m
  <2>3. CASE Failures(BoundChecks(node, m, b)) # {}
    <3>1. answered = Refused(BoundChecks(node, m, b))
      BY <1>5, <2>3 DEF Loaded
    <3>2. ~ Loads(node, b)
      BY <2>2, <2>3 DEF Loads
    <3> QED BY <2>1, <2>2, <2>3, <3>1, <3>2
  <2>4. CASE Failures(BoundChecks(node, m, b)) = {}
    <3> DEFINE fault(i) == FaultOfUnit(node, m.units[i], b)
    <3>1. \A i \in DOMAIN m.units : m.units[i] \in ToSet(m.units)
      BY DEF ToSet
    <3>2. \A i \in DOMAIN m.units : /\ fault(i) = <<>> <=> Bounded(m.units[i], b)
                                    /\ fault(i) # <<>> => Unbounded(node, m.units[i], b, Head(fault(i)))
      BY <2>1, <3>1, UnitFaults
    <3>3. \A i : i \in faulty <=> i \in DOMAIN m.units /\ fault(i) # <<>>
      BY DEF FaultyUnits
    <3> HIDE DEF fault
    <3>4. Loads(node, b) <=> faulty = {}
      BY <2>1, <2>2, <2>4, <3>2, <3>3 DEF Loads
    <3>5. CASE faulty = {}
      <4>1. answered = [kind |-> "Ok", requirements |-> Requirements(m, b), module |-> m]
        BY <1>5, <2>4, <3>5 DEF Loaded
      <4> QED BY <3>4, <3>5, <4>1
    <3>6. CASE faulty # {}
      <4>1. answered = Head(fault(Min(faulty)))
        BY <1>5, <2>4, <3>6 DEF Loaded, fault
      <4>2. PICK n \in Nat : DOMAIN m.units = 1 .. n
        BY <1>1 DEF IsModule, Listing
      <4>3. Min(faulty) \in faulty
        <5>1. faulty \subseteq Nat
          BY <3>3, <4>2
        <5> HIDE DEF faulty
        <5> QED BY <3>6, <5>1, MinOfNaturals
      <4> DEFINE i == Min(faulty)
      <4> HIDE DEF i, faulty
      <4>4. i \in DOMAIN m.units /\ Unbounded(node, m.units[i], b, Head(fault(i)))
        BY <3>2, <3>3, <4>3 DEF i
      <4>5. UnitMissed(node, b, answered)
        BY <3>1, <4>1, <4>4 DEF UnitMissed, i
      <4>6. answered.kind # "Ok"
        BY <4>1, <4>4 DEF Unbounded, i
      <4> QED BY <2>1, <3>4, <3>6, <4>5, <4>6
    <3> QED BY <3>5, <3>6
  <2> QED BY <2>3, <2>4
<1> QED BY <1>3, <1>4, <1>5
------------------------------------------------------------------------------
(* The order of a document.                                                 *)

(* Documents that differ in order only load alike: both refused, or the     *)
(* same Module with the same requirements.                                  *)
LEMMA LoadedAlike ==
  ASSUME NEW one, IsDocument(one), NEW other, IsDocument(other), SameButForOrder(one, other),
         KeyFault(one) = "Ok", NEW b
  PROVE  LoadAlike(one, other, b)
<1> DEFINE x == RootNode(one)
           y == RootNode(other)
<1>1. PICK R : AllTwins(R) /\ <<x, y>> \in R
  BY RootsAreTwins
<1>2. PICK N : Orderly(N) /\ x \in N
  BY RootIsOrderly
<1> HIDE DEF x, y
<1>3. Normal(x) = Normal(y) /\ SameVerdict(DefinitionChecks(x), DefinitionChecks(y))
  BY <1>1, NormalAlike, DefinitionsAreCheckedAlike
<1>4. IsModule(Normal(x))
  BY <1>2, NormalIsModule
<1>5. Sorted(x) /\ Sorted(y)
  BY <1>3, <1>4 DEF Sorted, SameVerdict
<1>6. Passed(x) <=> Passed(y)
  BY <1>3 DEF Passed, SameVerdict
<1>7. Loads(x, b) <=> Loads(y, b)
  BY <1>3, <1>6 DEF Loads
<1>8. CASE Loads(x, b)
  <2>1. Loaded(x, b) = [kind |-> "Ok", requirements |-> Requirements(Normal(x), b), module |-> Normal(x)]
    BY <1>5, <1>8, LoadedIs
  <2>2. Loaded(y, b) = [kind |-> "Ok", requirements |-> Requirements(Normal(x), b), module |-> Normal(x)]
    BY <1>3, <1>5, <1>7, <1>8, LoadedIs
  <2> QED BY <2>1, <2>2 DEF LoadAlike, x, y
<1>9. CASE ~ Loads(x, b)
  <2>1. Loaded(x, b).kind # "Ok" /\ Loaded(y, b).kind # "Ok"
    BY <1>5, <1>7, <1>9, LoadedIs
  <2> QED BY <2>1 DEF LoadAlike, x, y
<1> QED BY <1>8, <1>9

(* Reversed, a sequence has the same length and elements.                   *)
LEMMA ReversedValues ==
  ASSUME NEW S, NEW s \in Seq(S)
  PROVE  Reverse(s) \in Seq(S) /\ Len(Reverse(s)) = Len(s) /\ ToSet(Reverse(s)) = ToSet(s)
<1> DEFINE r == Reverse(s)
<1>1. r = [i \in 1 .. Len(s) |-> s[(Len(s) - i) + 1]]
  BY DEF Reverse
<1>2. Len(s) \in Nat /\ DOMAIN s = 1 .. Len(s) /\ \A i \in 1 .. Len(s) : (Len(s) - i) + 1 \in 1 .. Len(s)
  OBVIOUS
<1> HIDE DEF r
<1>3. r \in Seq(S) /\ Len(r) = Len(s) /\ DOMAIN r = 1 .. Len(s)
  BY <1>1, <1>2
<1>4. \A x \in ToSet(r) : x \in ToSet(s)
  <2> TAKE x \in ToSet(r)
  <2>1. PICK i \in 1 .. Len(s) : x = r[i]
    BY <1>3 DEF ToSet
  <2>2. x = s[(Len(s) - i) + 1]
    BY <1>1, <2>1
  <2> QED BY <1>2, <2>2 DEF ToSet
<1>5. \A x \in ToSet(s) : x \in ToSet(r)
  <2> TAKE x \in ToSet(s)
  <2>1. PICK i \in 1 .. Len(s) : x = s[i]
    BY <1>2 DEF ToSet
  <2>2. (Len(s) - ((Len(s) - i) + 1)) + 1 = i /\ (Len(s) - i) + 1 \in 1 .. Len(s)
    BY <1>2
  <2>3. r[(Len(s) - i) + 1] = s[i]
    BY <1>1, <2>2
  <2> QED BY <1>3, <2>1, <2>2, <2>3 DEF ToSet
<1> QED BY <1>3, <1>4, <1>5 DEF r

(* A document with its mappings reversed is one, and differs in order only. *)
LEMMA ReversedIsDocument ==
  ASSUME NEW d, IsDocument(d)
  PROVE  IsDocument(Reversed(d)) /\ SameButForOrder(d, Reversed(d))
<1> DEFINE e == Reversed(d)
<1>1. e.root = d.root /\ DOMAIN e.nodes = DOMAIN d.nodes
      /\ \A p \in DOMAIN d.nodes : e.nodes[p] = IF d.nodes[p].kind = "mapping"
                                                 THEN [kind |-> "mapping", values |-> Reverse(d.nodes[p].values)]
                                                 ELSE d.nodes[p]
  BY DEF Reversed
<1> HIDE DEF e
<1>2. \A p \in DOMAIN d.nodes : IsNode(d, p, d.nodes[p]) /\ Later(e, p) = Later(d, p)
  BY <1>1 DEF IsDocument, Later
<1>3. ASSUME NEW p \in DOMAIN d.nodes, d.nodes[p].kind = "mapping"
      PROVE  /\ e.nodes[p].kind = "mapping" /\ IsNode(e, p, e.nodes[p])
             /\ Len(e.nodes[p].values) = Len(d.nodes[p].values)
             /\ ToSet(e.nodes[p].values) = ToSet(d.nodes[p].values)
  <2> DEFINE node == d.nodes[p]
             s == node.values
  <2>1. s \in Seq(Later(d, p) \X Later(d, p))
    BY <1>2, <1>3 DEF IsNode
  <2>3. e.nodes[p].kind = "mapping" /\ e.nodes[p].values = Reverse(s)
    <3>1. e.nodes[p] = [kind |-> "mapping", values |-> Reverse(s)]
      BY <1>1, <1>3
    <3> QED BY <3>1
  <2> HIDE DEF s
  <2>4. Reverse(s) \in Seq(Later(e, p) \X Later(e, p))
    BY <1>2, <2>1, ReversedValues
  <2> QED BY <2>1, <2>3, <2>4, ReversedValues DEF IsNode, s
<1>4. ASSUME NEW p \in DOMAIN d.nodes, d.nodes[p].kind # "mapping"
      PROVE  e.nodes[p] = d.nodes[p] /\ IsNode(e, p, e.nodes[p])
  <2>1. e.nodes[p] = d.nodes[p]
    BY <1>1, <1>4
  <2> QED BY <1>2, <1>4, <2>1 DEF IsNode
<1>5. IsDocument(e)
  <2>1. \A p \in DOMAIN e.nodes : IsNode(e, p, e.nodes[p])
    BY <1>1, <1>3, <1>4
  <2> QED BY <1>1, <2>1 DEF IsDocument
<1>6. SameButForOrder(d, e)
  BY <1>1, <1>3, <1>4 DEF SameButForOrder
<1> QED BY <1>5, <1>6 DEF e

(* The inductive invariant: what is at hand was parsed, and the answer is that *)
(* of load.                                                                 *)
AnswerInv ==
  \/ document = NoTree
  \/ /\ document \in Documents /\ KeyFault(document) = "Ok"
     /\ answer = Loaded(RootNode(document), bounds)

(* It holds from the start, and load keeps it.                              *)
LEMMA AnswerIsLoaded ==
  /\ SyntaxInit /\ DefinitionInit => AnswerInv
  /\ AnswerInv /\ [LoadDocument /\ UNCHANGED syntaxVars]_<<syntaxVars, definitionVars>> => AnswerInv'
<1>1. SyntaxInit /\ DefinitionInit => AnswerInv
  BY DEF DefinitionInit, AnswerInv
<1>2. ASSUME AnswerInv, LoadDocument
      PROVE  AnswerInv'
  BY <1>2 DEF LoadDocument, AnswerInv
<1>3. ASSUME AnswerInv, UNCHANGED <<syntaxVars, definitionVars>>
      PROVE  AnswerInv'
  BY <1>3 DEF definitionVars, AnswerInv
<1> QED BY <1>1, <1>2, <1>3

(* A document is refused, or resolves to the same, however it is ordered.   *)
THEOREM OrderIsOfNoMatter == DefinitionSpec => []OrderIsIrrelevant
<1>1. AnswerInv => OrderIsIrrelevant
  <2> SUFFICES ASSUME AnswerInv, document # NoTree
               PROVE  SameButForOrder(document, Reversed(document)) /\ LoadAlike(document, Reversed(document), bounds)
    BY DEF OrderIsIrrelevant
  <2>1. IsDocument(document) /\ KeyFault(document) = "Ok"
    BY DefinitionAssumption DEF AnswerInv
  <2>2. IsDocument(Reversed(document)) /\ SameButForOrder(document, Reversed(document))
    BY <2>1, ReversedIsDocument
  <2> QED BY <2>1, <2>2, LoadedAlike
<1> QED BY <1>1, AnswerIsLoaded, PTL DEF DefinitionSpec

(* The same of every other order: a mapping may be written in any order, each on  *)
(* its own, and load gives the same answer as for the document at hand.       *)
THEOREM AnyOrderLoadsAlike ==
  DefinitionSpec =>
    [](document # NoTree =>
         \A other : IsDocument(other) /\ SameButForOrder(document, other) => LoadAlike(document, other, bounds))
<1>1. AnswerInv =>
        (document # NoTree =>
           \A other : IsDocument(other) /\ SameButForOrder(document, other) => LoadAlike(document, other, bounds))
  <2> SUFFICES ASSUME AnswerInv, document # NoTree,
                      NEW other, IsDocument(other), SameButForOrder(document, other)
               PROVE  LoadAlike(document, other, bounds)
    OBVIOUS
  <2>1. IsDocument(document) /\ KeyFault(document) = "Ok"
    BY DefinitionAssumption DEF AnswerInv
  <2> QED BY <2>1, LoadedAlike
<1> QED BY <1>1, AnswerIsLoaded, PTL DEF DefinitionSpec
------------------------------------------------------------------------------
(* The first of several bounds.                                             *)
LEMMA LookupIs ==
  ASSUME NEW f, NEW key, NEW S, key \in DOMAIN f => f[key] \in S
  PROVE  /\ Lookup(f, key) \in Seq(S)
         /\ IF key \in DOMAIN f THEN Lookup(f, key) = <<f[key]>> ELSE Lookup(f, key) = <<>>
BY DEF Lookup

TwoBounds(f, k, g, l) ==
  /\ Lookup(f, k) \o Lookup(g, l) = <<>> => k \notin DOMAIN f
  /\ k \in DOMAIN f => Head(Lookup(f, k) \o Lookup(g, l)) = f[k]
  /\ k \notin DOMAIN f /\ Lookup(f, k) \o Lookup(g, l) # <<>> =>
       l \in DOMAIN g /\ Head(Lookup(f, k) \o Lookup(g, l)) = g[l]

(* Of two bounds the first is taken if it is there,                         *)
LEMMA FirstOfTwo ==
  ASSUME NEW f, NEW k, NEW g, NEW l
  PROVE  TwoBounds(f, k, g, l)
<1> DEFINE S == {f[k], g[l]}
           s == Lookup(f, k)
           t == Lookup(g, l)
<1>1. /\ s \in Seq(S) /\ (IF k \in DOMAIN f THEN s = <<f[k]>> ELSE s = <<>>)
      /\ t \in Seq(S) /\ (IF l \in DOMAIN g THEN t = <<g[l]>> ELSE t = <<>>)
  BY LookupIs
<1> HIDE DEF S, s, t
<1>2. CASE k \in DOMAIN f
  <2>1. Len(s \o t) > 0 /\ (s \o t)[1] = f[k]
    BY <1>1, <1>2
  <2>2. s \o t # <<>> /\ Head(s \o t) = f[k]
    BY <1>1, <2>1
  <2> QED BY <1>2, <2>2 DEF TwoBounds, s, t
<1>3. CASE k \notin DOMAIN f
  <2>1. s \o t = t
    BY <1>1, <1>3
  <2>2. t # <<>> => l \in DOMAIN g /\ Head(t) = g[l]
    BY <1>1
  <2> QED BY <1>3, <2>1, <2>2 DEF TwoBounds, s, t
<1> QED BY <1>2, <1>3

ThreeBounds(f, k, g, l, h, m) ==
  /\ k \in DOMAIN f => Head(Lookup(f, k) \o Lookup(g, l) \o Lookup(h, m)) = f[k]
  /\ k \notin DOMAIN f => Lookup(f, k) \o Lookup(g, l) \o Lookup(h, m) = Lookup(g, l) \o Lookup(h, m)
  /\ Lookup(f, k) \o Lookup(g, l) \o Lookup(h, m) = <<>> => l \notin DOMAIN g

(* and of three.                                                            *)
LEMMA FirstOfThree ==
  ASSUME NEW f, NEW k, NEW g, NEW l, NEW h, NEW m
  PROVE  ThreeBounds(f, k, g, l, h, m)
<1> DEFINE S == {f[k], g[l], h[m]}
           s == Lookup(f, k)
           t == Lookup(g, l)
           u == Lookup(h, m)
<1>1. /\ s \in Seq(S) /\ (IF k \in DOMAIN f THEN s = <<f[k]>> ELSE s = <<>>)
      /\ t \in Seq(S) /\ (IF l \in DOMAIN g THEN t = <<g[l]>> ELSE t = <<>>)
      /\ u \in Seq(S)
  BY LookupIs
<1> HIDE DEF S, s, t, u
<1>2. ASSUME s \o t \o u = <<>>, l \in DOMAIN g
      PROVE  FALSE
  <2>1. Len(s \o t \o u) > 0
    BY <1>1, <1>2
  <2> QED BY <1>2, <2>1
<1>3. CASE k \in DOMAIN f
  <2>1. Len(s \o t \o u) > 0 /\ (s \o t \o u)[1] = f[k]
    BY <1>1, <1>3
  <2>2. s \o t \o u # <<>> /\ Head(s \o t \o u) = f[k]
    BY <1>1, <2>1
  <2> QED BY <1>2, <1>3, <2>2 DEF ThreeBounds, s, t, u
<1>4. CASE k \notin DOMAIN f
  <2>1. s \o t = t
    <3>1. s = <<>> /\ t \in Seq(S)
      BY <1>1, <1>4
    <3> QED BY <3>1
  <2> QED BY <1>2, <1>4, <2>1 DEF ThreeBounds, s, t, u
<1> QED BY <1>3, <1>4
------------------------------------------------------------------------------
(* Which resources there are.                                               *)
LEMMA GetIsThere ==
  ASSUME NEW a, Keyed(a), NEW field
  PROVE  Get(a, field) # Absent <=> \E k \in DOMAIN a.entries : a.entries[k].key = field
<1> DEFINE found == {k \in DOMAIN a.entries : a.entries[k].key = field}
<1>1. Get(a, field) = IF found = {} THEN Absent ELSE a.entries[Min(found)].value
  BY DEF Get
<1>2. PICK n \in Nat : DOMAIN a.entries = 1 .. n
  BY DEF Keyed
<1>3. found \subseteq Nat /\ \A k : k \in found <=> k \in DOMAIN a.entries /\ a.entries[k].key = field
  BY <1>2
<1> HIDE DEF found
<1>4. CASE found = {}
  BY <1>1, <1>3, <1>4
<1>5. CASE found # {}
  <2>1. Min(found) \in found
    BY <1>3, <1>5, MinOfNaturals
  <2>2. a.entries[Min(found)].value # Absent
    BY <1>3, <2>1 DEF Keyed
  <2> QED BY <1>1, <1>3, <1>5, <2>1, <2>2
<1> QED BY <1>4, <1>5

Makes(u, r) == \E x \in ToSet(u.outputs) : x.resource = r
Given(node, r) == \E x \in ToSet(Normal(node).inputs) : x.name = r
Made(node, r) == \E u \in ToSet(Normal(node).units) : Makes(u, r)

(* A resource has a producer exactly if it is an output of a Unit or an     *)
(* input of the Module.                                                     *)
LEMMA ProducerIs ==
  ASSUME NEW N, Orderly(N), NEW node \in N, NEW r
  PROVE  Producer(node, r) # <<>> <=> Made(node, r) \/ Given(node, r)
<1> DEFINE us == Get(node, "units")
           units == us.entries
           outputs(i) == Get(units[i].value, "outputs").entries
           places == UNION {{<<i, o>> : o \in {o \in DOMAIN outputs(i) : Text(outputs(i)[o].value) = r}} :
                              i \in DOMAIN units}
           last == CHOOSE p \in places : \A q \in places : q[1] < p[1] \/ (q[1] = p[1] /\ q[2] <= p[2])
           ins == Get(node, "inputs")
<1>1. Producer(node, r) = IF places # {} THEN <<"units", units[last[1]].key, "outputs", outputs(last[1])[last[2]].key>>
                          ELSE IF Get(ins, r) # Absent THEN <<"inputs", r>> ELSE <<>>
  BY DEF Producer
<1>2. us \in N /\ ins \in N
  BY DEF Orderly
<1>3. Keyed(us) /\ Keyed(ins)
  BY <1>2 DEF Orderly
<1>4. places # {} <=> \E i \in DOMAIN units : \E o \in DOMAIN outputs(i) : Text(outputs(i)[o].value) = r
  <2>1. ASSUME NEW i \in DOMAIN units, NEW o \in DOMAIN outputs(i), Text(outputs(i)[o].value) = r
        PROVE  <<i, o>> \in places
    BY <2>1
  <2>2. ASSUME NEW p \in places
        PROVE  \E i \in DOMAIN units : \E o \in DOMAIN outputs(i) : Text(outputs(i)[o].value) = r
    BY <2>2
  <2> QED BY <2>1, <2>2
<1> HIDE DEF places, last, outputs
<1>5. Producer(node, r) # <<>> <=> places # {} \/ Get(ins, r) # Absent
  BY <1>1
<1>6. Normal(node).inputs = NormalInputs(ins) /\ Normal(node).units = NormalUnits(us)
  BY NormalIs
<1> HIDE DEF us, ins, units
<1>7. Get(ins, r) # Absent <=> Given(node, r)
  <2>1. Get(ins, r) # Absent <=> \E k \in DOMAIN ins.entries : ins.entries[k].key = r
    BY <1>3, GetIsThere
  <2>2. \A x : x \in ToSet(NormalInputs(ins)) <=>
          \E k \in DOMAIN ins.entries : x = [name |-> ins.entries[k].key, type |-> Text(Get(ins.entries[k].value, "type"))]
    BY <1>3, InputsAre
  <2>3. (\E x \in ToSet(NormalInputs(ins)) : x.name = r) <=> \E k \in DOMAIN ins.entries : ins.entries[k].key = r
    <3>1. ASSUME NEW x \in ToSet(NormalInputs(ins)), x.name = r
          PROVE  \E k \in DOMAIN ins.entries : ins.entries[k].key = r
      BY <2>2, <3>1
    <3>2. ASSUME NEW k \in DOMAIN ins.entries, ins.entries[k].key = r
          PROVE  \E x \in ToSet(NormalInputs(ins)) : x.name = r
      <4> DEFINE x == [name |-> ins.entries[k].key, type |-> Text(Get(ins.entries[k].value, "type"))]
      <4>1. x \in ToSet(NormalInputs(ins)) /\ x.name = r
        BY <2>2, <3>2
      <4> QED BY <4>1
    <3> QED BY <3>1, <3>2
  <2> QED BY <1>6, <2>1, <2>3 DEF Given
<1>8. places # {} <=> Made(node, r)
  <2>1. \A u : u \in ToSet(NormalUnits(us)) <=> \E i \in DOMAIN units : u = NormalUnit(units[i].key, units[i].value)
    BY <1>3, UnitsAre DEF units
  <2>2. \A i : NormalUnit(units[i].key, units[i].value).outputs = Bindings(Get(units[i].value, "outputs"))
    BY DEF NormalUnit
  <2>3. \A i \in DOMAIN units : units[i].value \in N
    BY <1>2 DEF Orderly, units
  <2>4. \A i \in DOMAIN units : Keyed(Get(units[i].value, "outputs"))
    BY <2>3 DEF Orderly
  <2>5. \A i \in DOMAIN units :
          Makes(NormalUnit(units[i].key, units[i].value), r) <=>
            \E o \in DOMAIN outputs(i) : Text(outputs(i)[o].value) = r
    <3> TAKE i \in DOMAIN units
    <3> DEFINE a == Get(units[i].value, "outputs")
    <3>1. Keyed(a) /\ outputs(i) = a.entries
      BY <2>4 DEF outputs
    <3>2. NormalUnit(units[i].key, units[i].value).outputs = Bindings(a)
      BY <2>2
    <3> HIDE DEF a
    <3>3. \A x : x \in ToSet(Bindings(a)) <=>
            \E o \in DOMAIN a.entries : x = [name |-> a.entries[o].key, resource |-> Text(a.entries[o].value)]
      BY <3>1, BindingsAre
    <3>4. ASSUME NEW x \in ToSet(Bindings(a)), x.resource = r
          PROVE  \E o \in DOMAIN a.entries : Text(a.entries[o].value) = r
      BY <3>3, <3>4
    <3>5. ASSUME NEW o \in DOMAIN a.entries, Text(a.entries[o].value) = r
          PROVE  \E x \in ToSet(Bindings(a)) : x.resource = r
      <4> DEFINE x == [name |-> a.entries[o].key, resource |-> Text(a.entries[o].value)]
      <4>1. x \in ToSet(Bindings(a)) /\ x.resource = r
        BY <3>3, <3>5
      <4> QED BY <4>1
    <3> QED BY <3>1, <3>2, <3>4, <3>5 DEF Makes
  <2> QED BY <1>4, <1>6, <2>1, <2>5 DEF Made
<1> QED BY <1>5, <1>7, <1>8

(* The resources of a document are named by strings.                        *)
LEMMA ProducedAreStrings ==
  ASSUME NEW N, Orderly(N), NEW node \in N, NEW r, Made(node, r) \/ Given(node, r)
  PROVE  r \in Strings
<1> DEFINE us == Get(node, "units")
           ins == Get(node, "inputs")
<1>1. us \in N /\ ins \in N
  BY DEF Orderly
<1>2. Normal(node).inputs = NormalInputs(ins) /\ Normal(node).units = NormalUnits(us)
  BY NormalIs
<1> HIDE DEF us, ins
<1>3. Keyed(us) /\ Keyed(ins)
  BY <1>1 DEF Orderly
<1>4. CASE Given(node, r)
  <2>1. PICK x \in ToSet(NormalInputs(ins)) : x.name = r
    BY <1>2, <1>4 DEF Given
  <2>2. PICK k \in DOMAIN ins.entries :
          x = [name |-> ins.entries[k].key, type |-> Text(Get(ins.entries[k].value, "type"))]
    BY <1>3, <2>1, InputsAre
  <2>3. ins.entries[k].key \in Strings
    BY <1>3 DEF Keyed
  <2> QED BY <2>1, <2>2, <2>3
<1>5. CASE Made(node, r)
  <2>1. PICK u \in ToSet(NormalUnits(us)) : Makes(u, r)
    BY <1>2, <1>5 DEF Made
  <2>2. PICK i \in DOMAIN us.entries : u = NormalUnit(us.entries[i].key, us.entries[i].value)
    BY <1>3, <2>1, UnitsAre
  <2> DEFINE a == Get(us.entries[i].value, "outputs")
  <2>3. us.entries[i].value \in N
    BY <1>1 DEF Orderly
  <2>4. Keyed(a)
    BY <2>3 DEF Orderly
  <2>5. u.outputs = Bindings(a)
    BY <2>2 DEF NormalUnit
  <2> HIDE DEF a
  <2>6. PICK x \in ToSet(Bindings(a)) : x.resource = r
    BY <2>1, <2>5 DEF Makes
  <2>7. PICK o \in DOMAIN a.entries : x = [name |-> a.entries[o].key, resource |-> Text(a.entries[o].value)]
    BY <2>4, <2>6, BindingsAre
  <2> QED BY <2>6, <2>7, TextIsString
<1> QED BY <1>4, <1>5

(* A Unit that fits its type makes the resources its output ports are bound *)
(* to, and no other.                                                        *)
LEMMA ResourcesAreMade ==
  ASSUME NEW u, UnitFits(u), Listing(u.outputs), Distinct(u.outputs)
  PROVE  \A r : Makes(u, r) <=> \E p \in ToSet(Ports(u)) : Resource(u, p) = r
<1> TAKE r
<1>1. ASSUME NEW p \in ToSet(Ports(u))
      PROVE  \E i \in DOMAIN u.outputs : u.outputs[i].name = p.name /\ Resource(u, p) = u.outputs[i].resource
  <2>1. PICK q \in DOMAIN Ports(u) : p = Ports(u)[q]
    BY DEF ToSet
  <2>2. \E i \in DOMAIN u.outputs : u.outputs[i].name = p.name
    BY <2>1 DEF UnitFits, PortsMeet
  <2> DEFINE i == CHOOSE i \in DOMAIN u.outputs : u.outputs[i].name = p.name
  <2>3. i \in DOMAIN u.outputs /\ u.outputs[i].name = p.name
    BY <2>2
  <2>4. Resource(u, p) = u.outputs[i].resource
    BY DEF Resource
  <2> HIDE DEF i
  <2> QED BY <2>3, <2>4
<1>2. ASSUME NEW p \in ToSet(Ports(u)), Resource(u, p) = r
      PROVE  Makes(u, r)
  BY <1>1, <1>2 DEF Makes, ToSet
<1>3. ASSUME Makes(u, r)
      PROVE  \E p \in ToSet(Ports(u)) : Resource(u, p) = r
  <2>1. PICK x \in ToSet(u.outputs) : x.resource = r
    BY <1>3 DEF Makes
  <2>2. PICK q \in DOMAIN Ports(u) : Ports(u)[q].name = x.name
    BY <2>1 DEF UnitFits, PortsMeet
  <2> DEFINE p == Ports(u)[q]
  <2>3. p \in ToSet(Ports(u)) /\ p.name = x.name
    BY <2>2 DEF ToSet
  <2> HIDE DEF p
  <2>4. PICK i \in DOMAIN u.outputs : u.outputs[i].name = p.name /\ Resource(u, p) = u.outputs[i].resource
    BY <1>1, <2>3
  <2>5. PICK j \in DOMAIN u.outputs : x = u.outputs[j]
    BY <2>1 DEF ToSet
  <2>6. i = j
    BY <2>3, <2>4, <2>5 DEF Distinct
  <2> QED BY <2>1, <2>3, <2>4, <2>5, <2>6
<1> QED BY <1>2, <1>3
------------------------------------------------------------------------------
(* A Module whose Units fit, all with a bound.                              *)
AllBounded(module, b) ==
  /\ IsModule(module)
  /\ \A i \in DOMAIN module.inputs : InputBounds(module.inputs[i], b) # <<>>
  /\ \A i \in DOMAIN module.units : UnitFits(module.units[i]) /\ Bounded(module.units[i], b)


Makers(module, r) == {i \in DOMAIN module.units : \E p \in ToSet(Ports(module.units[i])) : Resource(module.units[i], p) = r}

LastPort(u, r) == Max({p \in DOMAIN Ports(u) : Resource(u, Ports(u)[p]) = r})

(* A Unit requires its own resources, each with the first bound of the last *)
(* port bound to it.                                                        *)
LEMMA UnitRequirementsAre ==
  ASSUME NEW u, NEW b
  PROVE  /\ \A r : r \in DOMAIN UnitRequirements(u, b) <=> \E p \in ToSet(Ports(u)) : Resource(u, p) = r
         /\ \A r \in DOMAIN UnitRequirements(u, b) :
              UnitRequirements(u, b)[r] = Head(UnitBounds(u, Ports(u)[LastPort(u, r)], b))
<1> DEFINE S == {Resource(u, p) : p \in ToSet(Ports(u))}
           head(r) == Head(UnitBounds(u, Ports(u)[LastPort(u, r)], b))
           made == UnitRequirements(u, b)
<1>1. made = [r \in S |-> head(r)]
  BY DEF UnitRequirements, LastPort
<1>2. \A r : r \in S <=> \E p \in ToSet(Ports(u)) : Resource(u, p) = r
  OBVIOUS
<1> HIDE DEF S, made
<1>3. \A r \in DOMAIN made : made[r] = head(r)
  BY <1>1
<1>4. DOMAIN made = S
  BY <1>1
<1> QED BY <1>2, <1>3, <1>4 DEF made

(* The capacity of a resource is that of the last port of the last Unit that *)
(* produces it, or else that of the input.                                  *)
LEMMA RequirementsAre ==
  ASSUME NEW module, NEW b, AllBounded(module, b)
  PROVE  /\ \A r : r \in DOMAIN Requirements(module, b) <=>
                     Makers(module, r) # {} \/ \E x \in ToSet(module.inputs) : x.name = r
         /\ \A r \in DOMAIN Requirements(module, b) :
              \/ \E i \in Makers(module, r) : \E p \in DOMAIN Ports(module.units[i]) :
                   /\ Resource(module.units[i], Ports(module.units[i])[p]) = r
                   /\ Requirements(module, b)[r] = Head(UnitBounds(module.units[i], Ports(module.units[i])[p], b))
              \/ /\ Makers(module, r) = {}
                 /\ \E i \in DOMAIN module.inputs :
                      /\ module.inputs[i].name = r
                      /\ Requirements(module, b)[r] = Head(InputBounds(module.inputs[i], b))
<1> DEFINE units == module.units
           in == module.inputs
           given == {in[i].name : i \in DOMAIN in}
           made(i) == UnitRequirements(units[i], b)
           makers(r) == {i \in DOMAIN units : r \in DOMAIN made(i)}
           domain == given \cup UNION {DOMAIN made(i) : i \in DOMAIN units}
           value(r) == IF makers(r) # {} THEN made(Max(makers(r)))[r]
                       ELSE Head(InputBounds(in[CHOOSE i \in DOMAIN in : in[i].name = r], b))
           q == Requirements(module, b)
<1>1. q = [r \in domain |-> value(r)]
  BY DEF Requirements
<1>2. DOMAIN q = domain /\ \A r \in domain : q[r] = value(r)
  BY <1>1
<1>3. \A r : r \in given <=> \E x \in ToSet(in) : x.name = r
  BY DEF ToSet
<1>4. \A i : \A r \in DOMAIN made(i) :
        made(i)[r] = Head(UnitBounds(units[i], Ports(units[i])[LastPort(units[i], r)], b))
  BY UnitRequirementsAre
<1>5. \A i, r : r \in DOMAIN made(i) <=> \E p \in ToSet(Ports(units[i])) : Resource(units[i], p) = r
  BY UnitRequirementsAre
<1> HIDE DEF made
<1>6. \A r : makers(r) = Makers(module, r)
  BY <1>5 DEF Makers
<1> HIDE DEF makers
<1>7. \A r : r \in domain <=> Makers(module, r) # {} \/ \E x \in ToSet(in) : x.name = r
  <2>1. \A r : r \in domain <=> r \in given \/ \E i \in DOMAIN units : r \in DOMAIN made(i)
    OBVIOUS
  <2>2. \A r : Makers(module, r) # {} <=> \E i \in DOMAIN units : r \in DOMAIN made(i)
    BY <1>5 DEF Makers
  <2> HIDE DEF domain, given
  <2> QED BY <1>3, <2>1, <2>2
<1>8. \A r : value(r) = IF Makers(module, r) # {} THEN made(Max(Makers(module, r)))[r]
                        ELSE Head(InputBounds(in[CHOOSE i \in DOMAIN in : in[i].name = r], b))
  BY <1>6
<1> HIDE DEF domain, value, given, q
<1>9. ASSUME NEW r \in domain, Makers(module, r) # {}
      PROVE  \E i \in Makers(module, r) : \E p \in DOMAIN Ports(units[i]) :
               Resource(units[i], Ports(units[i])[p]) = r /\ q[r] = Head(UnitBounds(units[i], Ports(units[i])[p], b))
  <2> DEFINE i == Max(Makers(module, r))
             u == units[i]
             places == {p \in DOMAIN Ports(u) : Resource(u, Ports(u)[p]) = r}
             p == LastPort(u, r)
  <2>1. PICK n \in Nat : DOMAIN units = 1 .. n
    BY DEF AllBounded, IsModule, Listing
  <2>2. i \in Makers(module, r)
    <3>1. Makers(module, r) \in SUBSET (0 .. n)
      BY <2>1 DEF Makers
    <3> QED BY <1>9, <3>1, MaxOfBounded
  <2>3. q[r] = made(i)[r]
    BY <1>2, <1>8, <1>9
  <2>4. i \in DOMAIN units /\ \E c \in ToSet(Ports(u)) : Resource(u, c) = r
    BY <2>2 DEF Makers
  <2> HIDE DEF i
  <2>5. made(i)[r] = Head(UnitBounds(u, Ports(u)[p], b))
    BY <1>4, <1>5, <2>4
  <2>6. Listing(Ports(u))
    BY <2>4 DEF AllBounded, UnitFits
  <2>7. PICK m \in Nat : DOMAIN Ports(u) = 1 .. m
    BY <2>6 DEF Listing
  <2>8. places # {}
    BY <2>4 DEF ToSet
  <2>9. p \in places
    <3>2. p = Max(places)
      BY DEF LastPort
    <3>1. places \in SUBSET (0 .. m)
      BY <2>7
    <3> HIDE DEF places
    <3> QED BY <2>7, <2>8, <3>1, <3>2, MaxOfBounded
  <2>10. p \in DOMAIN Ports(u) /\ Resource(u, Ports(u)[p]) = r
    BY <2>9
  <2> HIDE DEF p
  <2> QED BY <2>2, <2>3, <2>5, <2>10
<1>10. ASSUME NEW r \in domain, Makers(module, r) = {}
       PROVE  \E i \in DOMAIN in : in[i].name = r /\ q[r] = Head(InputBounds(in[i], b))
  <2> DEFINE i == CHOOSE i \in DOMAIN in : in[i].name = r
  <2>1. \E x \in ToSet(in) : x.name = r
    BY <1>7, <1>10
  <2>2. \E j \in DOMAIN in : in[j].name = r
    BY <2>1 DEF ToSet
  <2>3. i \in DOMAIN in /\ in[i].name = r
    BY <2>2
  <2>4. q[r] = Head(InputBounds(in[i], b))
    BY <1>2, <1>8, <1>10
  <2> HIDE DEF i
  <2> QED BY <2>3, <2>4
<1>11. \A r : r \in DOMAIN q <=> Makers(module, r) # {} \/ \E x \in ToSet(in) : x.name = r
  BY <1>2, <1>7
<1>12. \A r \in DOMAIN q :
         \/ \E i \in Makers(module, r) : \E p \in DOMAIN Ports(units[i]) :
              Resource(units[i], Ports(units[i])[p]) = r /\ q[r] = Head(UnitBounds(units[i], Ports(units[i])[p], b))
         \/ /\ Makers(module, r) = {}
            /\ \E i \in DOMAIN in : in[i].name = r /\ q[r] = Head(InputBounds(in[i], b))
  BY <1>2, <1>9, <1>10
<1> QED BY <1>11, <1>12 DEF q
------------------------------------------------------------------------------
(* Resources without a bound, in the places of the document that produce them. *)
Bound(u) == UnitTypes[u.type].capacities[Fields(u)]
Owned(units) == UNION {{<<u, p>> : p \in ToSet(Ports(u))} : u \in units}
Decided(units) == {q \in Owned(units) : q[2].name \in DOMAIN Bound(q[1])}
Single(units) == {q \in Owned(units) : \A o \in Owned(units) : Resource(o[1], o[2]) = Resource(q[1], q[2]) => o = q}
Produced(node) == {r \in Strings : Producer(node, r) # <<>>}

(* The ports of Units, with their Unit.                                     *)
LEMMA OwnedAre ==
  ASSUME NEW units
  PROVE  \A q : q \in Owned(units) <=> \E u \in units : \E p \in ToSet(Ports(u)) : q = <<u, p>>
BY DEF Owned

(* The bound of a port is that of its configuration, or else the host's, or *)
(* the adapter's.                                                           *)
LEMMA UnitBoundIs ==
  ASSUME NEW u, NEW p, NEW b
  PROVE  LET own == Bound(u)
             r == Resource(u, p)
         IN  /\ p.name \in DOMAIN own => Head(UnitBounds(u, p, b)) = own[p.name]
             /\ UnitBounds(u, p, b) = <<>> => r \notin DOMAIN b.host
             /\ p.name \notin DOMAIN own /\ UnitBounds(u, p, b) # <<>> =>
                  Head(UnitBounds(u, p, b)) = IF r \in DOMAIN b.host THEN b.host[r] ELSE b.adapters[p.type]
             /\ p.name \notin DOMAIN own /\ UnitBounds(u, p, b) # <<>> /\ r \notin DOMAIN b.host =>
                  p.type \in DOMAIN b.adapters
<1> DEFINE own == Bound(u)
           r == Resource(u, p)
<1>1. UnitBounds(u, p, b) = Lookup(own, p.name) \o Lookup(b.host, r) \o Lookup(b.adapters, p.type)
  BY DEF UnitBounds, OutputBounds, Bound
<1> HIDE DEF own, r
<1>2. ThreeBounds(own, p.name, b.host, r, b.adapters, p.type) /\ TwoBounds(b.host, r, b.adapters, p.type)
  BY FirstOfTwo, FirstOfThree
<1>3. CASE p.name \in DOMAIN own
  <2>1. Head(UnitBounds(u, p, b)) = own[p.name] /\ (UnitBounds(u, p, b) = <<>> => r \notin DOMAIN b.host)
    BY <1>1, <1>2, <1>3 DEF ThreeBounds
  <2> QED BY <1>3, <2>1 DEF own, r
<1>4. CASE p.name \notin DOMAIN own
  <2>1. UnitBounds(u, p, b) = Lookup(b.host, r) \o Lookup(b.adapters, p.type)
    BY <1>1, <1>2, <1>4 DEF ThreeBounds
  <2>2. UnitBounds(u, p, b) = <<>> => r \notin DOMAIN b.host
    BY <1>2, <2>1 DEF TwoBounds
  <2>3. CASE r \in DOMAIN b.host
    <3>1. Head(UnitBounds(u, p, b)) = b.host[r]
      BY <1>2, <2>1, <2>3 DEF TwoBounds
    <3> QED BY <1>4, <2>2, <2>3, <3>1 DEF own, r
  <2>4. CASE r \notin DOMAIN b.host
    <3>1. UnitBounds(u, p, b) # <<>> =>
            p.type \in DOMAIN b.adapters /\ Head(UnitBounds(u, p, b)) = b.adapters[p.type]
      BY <1>2, <2>1, <2>4 DEF TwoBounds
    <3> QED BY <1>4, <2>4, <3>1 DEF own, r
  <2> QED BY <2>3, <2>4
<1> QED BY <1>3, <1>4

(* The bound of an input is the host's, or else the adapter's.              *)
LEMMA InputBoundIs ==
  ASSUME NEW x, NEW b
  PROVE  /\ InputBounds(x, b) = <<>> => x.name \notin DOMAIN b.host
         /\ InputBounds(x, b) # <<>> =>
              IF x.name \in DOMAIN b.host THEN Head(InputBounds(x, b)) = b.host[x.name]
              ELSE x.type \in DOMAIN b.adapters /\ Head(InputBounds(x, b)) = b.adapters[x.type]
BY FirstOfTwo DEF InputBounds, TwoBounds

(* In what is required, a port decided by its configuration has that        *)
(* capacity if it alone makes its resource, and a resource nobody decided   *)
(* has the host's bound or an adapter's.                                    *)
LEMMA CapacitiesAre ==
  ASSUME NEW module, NEW b, AllBounded(module, b)
  PROVE  LET units == ToSet(module.units)
             q == Requirements(module, b)
         IN  /\ \A o \in Decided(units) \cap Single(units) : q[Resource(o[1], o[2])] = Bound(o[1])[o[2].name]
             /\ \A r \in DOMAIN q : (\A o \in Decided(units) : Resource(o[1], o[2]) # r) =>
                  IF r \in DOMAIN b.host THEN q[r] = b.host[r]
                  ELSE q[r] \in {b.adapters[t] : t \in DOMAIN b.adapters}
<1> DEFINE units == ToSet(module.units)
           q == Requirements(module, b)
<1>1. \A r : r \in DOMAIN q <=> Makers(module, r) # {} \/ \E x \in ToSet(module.inputs) : x.name = r
  BY RequirementsAre
<1>2. \A r \in DOMAIN q :
        \/ \E i \in Makers(module, r) : \E p \in DOMAIN Ports(module.units[i]) :
             /\ Resource(module.units[i], Ports(module.units[i])[p]) = r
             /\ q[r] = Head(UnitBounds(module.units[i], Ports(module.units[i])[p], b))
        \/ /\ Makers(module, r) = {}
           /\ \E i \in DOMAIN module.inputs :
                module.inputs[i].name = r /\ q[r] = Head(InputBounds(module.inputs[i], b))
  BY RequirementsAre
<1> HIDE DEF q
<1>3. \A i \in DOMAIN module.units : module.units[i] \in units
  BY DEF ToSet
<1>4. \A u \in units : \E i \in DOMAIN module.units : u = module.units[i]
  BY DEF ToSet
<1> HIDE DEF units
<1>5. ASSUME NEW r \in DOMAIN q, NEW i \in Makers(module, r)
      PROVE  \E o \in Owned(units) :
               /\ Resource(o[1], o[2]) = r /\ q[r] = Head(UnitBounds(o[1], o[2], b))
               /\ UnitBounds(o[1], o[2], b) # <<>>
  <2>1. PICK j \in Makers(module, r) : \E p \in DOMAIN Ports(module.units[j]) :
             /\ Resource(module.units[j], Ports(module.units[j])[p]) = r
             /\ q[r] = Head(UnitBounds(module.units[j], Ports(module.units[j])[p], b))
    BY <1>2, <1>5
  <2> DEFINE u == module.units[j]
  <2>2. j \in DOMAIN module.units
    BY DEF Makers
  <2>3. u \in units /\ \A p \in DOMAIN Ports(u) : UnitBounds(u, Ports(u)[p], b) # <<>>
    BY <1>3, <2>2 DEF AllBounded, Bounded
  <2>4. PICK p \in DOMAIN Ports(u) : Resource(u, Ports(u)[p]) = r /\ q[r] = Head(UnitBounds(u, Ports(u)[p], b))
    BY <2>1
  <2> DEFINE port == Ports(u)[p]
             o == <<u, port>>
  <2>5. port \in ToSet(Ports(u))
    BY <2>4 DEF ToSet
  <2> HIDE DEF u, port
  <2>6. o \in Owned(units) /\ o[1] = u /\ o[2] = port
    BY <2>3, <2>5, OwnedAre
  <2>7. Resource(u, port) = r /\ q[r] = Head(UnitBounds(u, port, b)) /\ UnitBounds(u, port, b) # <<>>
    BY <2>3, <2>4 DEF port
  <2> HIDE DEF o
  <2> QED BY <2>6, <2>7
<1>6. ASSUME NEW o \in Decided(units) \cap Single(units)
      PROVE  q[Resource(o[1], o[2])] = Bound(o[1])[o[2].name]
  <2> DEFINE r == Resource(o[1], o[2])
  <2>1. o \in Owned(units) /\ o[2].name \in DOMAIN Bound(o[1])
        /\ \A z \in Owned(units) : Resource(z[1], z[2]) = r => z = o
    BY <1>6 DEF Decided, Single
  <2>2. PICK u \in units : \E p \in ToSet(Ports(u)) : o = <<u, p>>
    BY <2>1, OwnedAre
  <2>3. PICK i \in DOMAIN module.units : u = module.units[i]
    BY <1>4
  <2>4. i \in Makers(module, r)
    BY <2>2, <2>3 DEF Makers
  <2> HIDE DEF r
  <2>5. r \in DOMAIN q
    BY <1>1, <2>4
  <2>6. PICK z \in Owned(units) : Resource(z[1], z[2]) = r /\ q[r] = Head(UnitBounds(z[1], z[2], b))
    BY <1>5, <2>4, <2>5
  <2>7. z = o
    BY <2>1, <2>6
  <2>8. Head(UnitBounds(o[1], o[2], b)) = Bound(o[1])[o[2].name]
    BY <2>1, UnitBoundIs
  <2> QED BY <2>6, <2>7, <2>8 DEF r
<1>7. ASSUME NEW r \in DOMAIN q, \A o \in Decided(units) : Resource(o[1], o[2]) # r
      PROVE  IF r \in DOMAIN b.host THEN q[r] = b.host[r]
             ELSE q[r] \in {b.adapters[t] : t \in DOMAIN b.adapters}
  <2>1. CASE Makers(module, r) # {}
    <3>1. PICK o \in Owned(units) :
            /\ Resource(o[1], o[2]) = r /\ q[r] = Head(UnitBounds(o[1], o[2], b))
            /\ UnitBounds(o[1], o[2], b) # <<>>
      BY <1>5, <2>1
    <3>2. o[2].name \notin DOMAIN Bound(o[1])
      BY <1>7, <3>1 DEF Decided
    <3>3. q[r] = IF r \in DOMAIN b.host THEN b.host[r] ELSE b.adapters[o[2].type]
      BY <3>1, <3>2, UnitBoundIs
    <3>4. r \notin DOMAIN b.host => o[2].type \in DOMAIN b.adapters
      BY <3>1, <3>2, UnitBoundIs
    <3> QED BY <3>3, <3>4
  <2>2. CASE Makers(module, r) = {}
    <3>1. PICK i \in DOMAIN module.inputs : module.inputs[i].name = r /\ q[r] = Head(InputBounds(module.inputs[i], b))
      BY <1>2, <2>2
    <3>2. InputBounds(module.inputs[i], b) # <<>>
      BY DEF AllBounded
    <3> QED BY <3>1, <3>2, InputBoundIs
  <2> QED BY <2>1, <2>2
<1> QED BY <1>6, <1>7 DEF q, units

(* What loads requires exactly the resources that are produced.             *)
LEMMA LoadedCapacities ==
  ASSUME NEW N, Orderly(N), NEW node \in N, NEW b, Sorted(node), Loads(node, b)
  PROVE  AllBounded(Normal(node), b) /\ DOMAIN Requirements(Normal(node), b) = Produced(node)
<1> DEFINE m == Normal(node)
<1>1. \A u \in ToSet(m.units) : UnitFits(u) /\ Listing(u.outputs) /\ Distinct(u.outputs)
  BY ModuleResolves DEF Sorted, Loads, Passed, IsModule
<1>2. AllBounded(m, b)
  BY <1>1 DEF Sorted, Loads, AllBounded, ToSet
<1>3. \A r : Makers(m, r) # {} <=> Made(node, r)
  <2> TAKE r
  <2>1. \A u \in ToSet(m.units) : Makes(u, r) <=> \E p \in ToSet(Ports(u)) : Resource(u, p) = r
    BY <1>1, ResourcesAreMade
  <2>2. Makers(m, r) # {} <=> \E i \in DOMAIN m.units : \E p \in ToSet(Ports(m.units[i])) : Resource(m.units[i], p) = r
    BY DEF Makers
  <2> HIDE DEF m
  <2>3. Makers(m, r) # {} <=> \E u \in ToSet(m.units) : \E p \in ToSet(Ports(u)) : Resource(u, p) = r
    BY <2>2 DEF ToSet
  <2> QED BY <2>1, <2>3 DEF Made, m
<1>4. \A r : r \in DOMAIN Requirements(m, b) <=> Made(node, r) \/ Given(node, r)
  BY <1>2, <1>3, RequirementsAre DEF Given
<1>5. \A r : r \in Produced(node) <=> Made(node, r) \/ Given(node, r)
  BY ProducerIs, ProducedAreStrings DEF Produced
<1>6. DOMAIN Requirements(m, b) = Produced(node)
  <2> HIDE DEF m
  <2> QED BY <1>4, <1>5
<1> QED BY <1>2, <1>6

(* A bound that is missed is one of a resource that is produced and has no  *)
(* bound from the host, at its producer.                                    *)
LEMMA MissedIsProduced ==
  ASSUME NEW N, Orderly(N), NEW node \in N, NEW b, Sorted(node), Passed(node),
         NEW fault, fault.kind = "UnresolvedBound", InputMissed(node, b, fault) \/ UnitMissed(node, b, fault)
  PROVE  \/ Last(fault.path) = "config"
         \/ \E r \in Produced(node) \ DOMAIN b.host : Producer(node, r) = fault.path
<1> DEFINE m == Normal(node)
<1>1. \A r : r \in Produced(node) <=> Made(node, r) \/ Given(node, r)
  BY ProducerIs, ProducedAreStrings DEF Produced
<1>2. CASE InputMissed(node, b, fault)
  <2>1. PICK i \in DOMAIN m.inputs : InputBounds(m.inputs[i], b) = <<>> /\ fault.path = Producer(node, m.inputs[i].name)
    BY <1>2 DEF InputMissed
  <2>2. m.inputs[i] \in ToSet(m.inputs)
    BY <2>1 DEF ToSet
  <2>3. Given(node, m.inputs[i].name)
    BY <2>2 DEF Given
  <2>4. m.inputs[i].name \notin DOMAIN b.host
    BY <2>1, InputBoundIs
  <2> QED BY <1>1, <2>1, <2>3, <2>4
<1>3. CASE UnitMissed(node, b, fault)
  <2>1. PICK u \in ToSet(m.units) : Unbounded(node, u, b, fault)
    BY <1>3 DEF UnitMissed
  <2>2. CASE fault.path = <<"units", u.name, "config">>
    <3>1. Last(<<"units", u.name, "config">>) = "config"
      BY DEF Last
    <3> QED BY <2>2, <3>1
  <2>3. CASE \E p \in DOMAIN Ports(u) : UnitBounds(u, Ports(u)[p], b) = <<>> /\ fault.path = Producer(node, Resource(u, Ports(u)[p]))
    <3>1. PICK p \in DOMAIN Ports(u) : UnitBounds(u, Ports(u)[p], b) = <<>> /\ fault.path = Producer(node, Resource(u, Ports(u)[p]))
      BY <2>3
    <3> DEFINE port == Ports(u)[p]
               r == Resource(u, port)
    <3>2. port \in ToSet(Ports(u))
      BY <3>1 DEF ToSet
    <3>3. UnitFits(u) /\ Listing(u.outputs) /\ Distinct(u.outputs)
      BY ModuleResolves DEF Sorted, Passed, IsModule
    <3> HIDE DEF port
    <3>4. Makes(u, r)
      BY <3>2, <3>3, ResourcesAreMade
    <3>5. r \notin DOMAIN b.host
      BY <3>1, UnitBoundIs DEF port
    <3>6. fault.path = Producer(node, r)
      BY <3>1 DEF port
    <3>7. Made(node, r)
      BY <3>4 DEF Made
    <3> QED BY <1>1, <3>5, <3>6, <3>7
  <2> QED BY <2>1, <2>2, <2>3 DEF Unbounded
<1> QED BY <1>2, <1>3
------------------------------------------------------------------------------
ClosestIsUsed(node, b, got) ==
  LET names == Produced(node)
      units == IF got.kind = "Ok" THEN ToSet(got.module.units) ELSE {}
      q == got.requirements
  IN  /\ got.kind = "Ok" =>
           /\ DOMAIN q = names
           /\ \A o \in Decided(units) \cap Single(units) : q[Resource(o[1], o[2])] = Bound(o[1])[o[2].name]
           /\ \A r \in names : (\A o \in Decided(units) : Resource(o[1], o[2]) # r) =>
                IF r \in DOMAIN b.host THEN q[r] = b.host[r]
                ELSE q[r] \in {b.adapters[t] : t \in DOMAIN b.adapters}
      /\ got.kind = "UnresolvedBound" =>
           \/ Last(got.path) = "config"
           \/ \E r \in names \ DOMAIN b.host : Producer(node, r) = got.path

(* For every document without key faults and all bounds, load uses the      *)
(* closest bound.                                                           *)
LEMMA ClosestIsLoaded ==
  ASSUME NEW tree, IsDocument(tree), KeyFault(tree) = "Ok", NEW b
  PROVE  ClosestIsUsed(RootNode(tree), b, Loaded(RootNode(tree), b))
<1> DEFINE node == RootNode(tree)
           got == Loaded(node, b)
           m == Normal(node)
<1>1. PICK N : Orderly(N) /\ node \in N
  BY RootIsOrderly
<1>2. PICK R : AllTwins(R) /\ <<node, node>> \in R
  <2>1. SameButForOrder(tree, tree)
    BY DEF SameButForOrder
  <2> QED BY <2>1, RootsAreTwins
<1> HIDE DEF node
<1>3. Sorted(node)
  <2>1. IsModule(m)
    BY <1>1, NormalIsModule
  <2>2. IsChecks(DefinitionChecks(node))
    BY <1>2, DefinitionsAreCheckedAlike DEF SameVerdict
  <2> QED BY <2>1, <2>2 DEF Sorted
<1>4. CASE Loads(node, b)
  <2>1. got = [kind |-> "Ok", requirements |-> Requirements(m, b), module |-> m]
    BY <1>3, <1>4, LoadedIs
  <2> HIDE DEF got, m
  <2>2. got.kind = "Ok" /\ got.requirements = Requirements(m, b) /\ got.module = m
    BY <2>1
  <2>3. AllBounded(m, b) /\ DOMAIN Requirements(m, b) = Produced(node)
    BY <1>1, <1>3, <1>4, LoadedCapacities DEF m
  <2> DEFINE units == ToSet(m.units)
             q == Requirements(m, b)
  <2>4. \A o \in Decided(units) \cap Single(units) : q[Resource(o[1], o[2])] = Bound(o[1])[o[2].name]
    BY <2>3, CapacitiesAre
  <2>5. \A r \in DOMAIN q : (\A o \in Decided(units) : Resource(o[1], o[2]) # r) =>
          IF r \in DOMAIN b.host THEN q[r] = b.host[r]
          ELSE q[r] \in {b.adapters[t] : t \in DOMAIN b.adapters}
    BY <2>3, CapacitiesAre
  <2> HIDE DEF units, q
  <2>6. ClosestIsUsed(node, b, got)
    <3>1. (IF got.kind = "Ok" THEN ToSet(got.module.units) ELSE {}) = units /\ got.requirements = q
      BY <2>2 DEF units, q
    <3>2. DOMAIN q = Produced(node)
      BY <2>3 DEF q
    <3>3. got.kind # "UnresolvedBound"
      BY <2>2
    <3> QED BY <2>4, <2>5, <3>1, <3>2, <3>3 DEF ClosestIsUsed
  <2> QED BY <2>6 DEF got, node
<1>5. CASE ~ Loads(node, b)
  <2>1. /\ got.kind # "Ok"
        /\ got.kind = "UnresolvedBound" =>
             Passed(node) /\ (InputMissed(node, b, got) \/ UnitMissed(node, b, got))
    BY <1>3, <1>5, LoadedIs
  <2> HIDE DEF got
  <2>2. got.kind = "UnresolvedBound" =>
           \/ Last(got.path) = "config"
           \/ \E r \in Produced(node) \ DOMAIN b.host : Producer(node, r) = got.path
    BY <1>1, <1>3, <2>1, MissedIsProduced
  <2> QED BY <2>1, <2>2 DEF ClosestIsUsed, got, node
<1> QED BY <1>4, <1>5

(* So the answer does.                                                      *)
LEMMA ClosestIsInvariant ==
  ASSUME AnswerInv
  PROVE  ClosestBoundIsUsed
<1> SUFFICES ASSUME document # NoTree
             PROVE  ClosestBoundIsUsed
  BY DEF ClosestBoundIsUsed
<1> DEFINE node == RootNode(document)
           units == IF answer.kind = "Ok" THEN ToSet(answer.module.units) ELSE {}
           names == Produced(node)
           q == answer.requirements
<1>1. IsDocument(document) /\ KeyFault(document) = "Ok" /\ answer = Loaded(node, bounds)
  BY DefinitionAssumption DEF AnswerInv
<1>2. ClosestIsUsed(node, bounds, answer)
  BY <1>1, ClosestIsLoaded
<1>3. \A r \in names : (r \notin {Resource(o[1], o[2]) : o \in Decided(units)}) =>
          \A o \in Decided(units) : Resource(o[1], o[2]) # r
  OBVIOUS
<1> HIDE DEF node, units
<1>4. answer.kind = "Ok" =>
        /\ DOMAIN q = names
        /\ \A o \in Decided(units) \cap Single(units) : q[Resource(o[1], o[2])] = Bound(o[1])[o[2].name]
        /\ \A r \in names \ {Resource(o[1], o[2]) : o \in Decided(units)} :
             IF r \in DOMAIN bounds.host THEN q[r] = bounds.host[r]
             ELSE q[r] \in {bounds.adapters[t] : t \in DOMAIN bounds.adapters}
  <2> SUFFICES ASSUME answer.kind = "Ok"
               PROVE  /\ DOMAIN q = names
                      /\ \A o \in Decided(units) \cap Single(units) : q[Resource(o[1], o[2])] = Bound(o[1])[o[2].name]
                      /\ \A r \in names \ {Resource(o[1], o[2]) : o \in Decided(units)} :
                           IF r \in DOMAIN bounds.host THEN q[r] = bounds.host[r]
                           ELSE q[r] \in {bounds.adapters[t] : t \in DOMAIN bounds.adapters}
    OBVIOUS
  <2>1. units = ToSet(answer.module.units)
    BY DEF units
  <2>2. /\ DOMAIN q = names
        /\ \A o \in Decided(units) \cap Single(units) : q[Resource(o[1], o[2])] = Bound(o[1])[o[2].name]
        /\ \A r \in names : (\A o \in Decided(units) : Resource(o[1], o[2]) # r) =>
             IF r \in DOMAIN bounds.host THEN q[r] = bounds.host[r]
             ELSE q[r] \in {bounds.adapters[t] : t \in DOMAIN bounds.adapters}
    BY <1>2, <2>1 DEF ClosestIsUsed
  <2> HIDE DEF q, names
  <2> QED BY <1>3, <2>2
<1>5. answer.kind = "UnresolvedBound" =>
        \/ Last(answer.path) = "config"
        \/ \E r \in names \ DOMAIN bounds.host : Producer(node, r) = answer.path
  BY <1>2 DEF ClosestIsUsed
<1> QED
  BY <1>4, <1>5, Zenon DEF ClosestBoundIsUsed, Owned, Decided, Single, Bound, Produced, node, units

(* The closest bound of a resource is its capacity.                         *)
THEOREM ClosestBound == DefinitionSpec => []ClosestBoundIsUsed
<1>1. AnswerInv => ClosestBoundIsUsed
  BY ClosestIsInvariant
<1> QED BY <1>1, AnswerIsLoaded, PTL DEF DefinitionSpec
==============================================================================
