---------------------------- MODULE NaturalBounds ----------------------------
(***************************************************************************)
(* Least and greatest elements of sets of naturals, the operators Min and  *)
(* Max that choose them, how many elements a sequence has, sums over finite *)
(* sets, and functions that are defined by recursion.  The induction these  *)
(* need is over the members of a set: a set of naturals that misses one has *)
(* a least one that it misses.                                             *)
(***************************************************************************)
EXTENDS Integers, FiniteSetsExt, FiniteSetTheorems, TLAPS

(* A nonempty set of naturals has a least element.                          *)
LEMMA LeastNatural ==
  ASSUME NEW T \in SUBSET Nat, T # {}
  PROVE  \E x \in T : \A y \in T : x <= y
<1>1. \E x \in T : \A y \in T : ~ (<<y, x>> \in OpToRel(<, Nat))
  BY NatLessThanWellFounded, WFMin
<1>2. \A x, y \in Nat : ~ (<<y, x>> \in OpToRel(<, Nat)) => x <= y
  BY DEF OpToRel
<1> QED
  BY <1>1, <1>2, Zenon

(* A set with 0 and the successor of each of its naturals has all naturals.      *)
LEMMA Induction ==
  ASSUME NEW T, 0 \in T, \A n \in Nat : n \in T => n + 1 \in T
  PROVE  \A n \in Nat : n \in T
<1> DEFINE missing == {n \in Nat : n \notin T}
<1> SUFFICES ASSUME missing # {} PROVE FALSE
  OBVIOUS
<1>1. PICK m \in missing : \A n \in missing : m <= n
  BY LeastNatural
<1>2. m # 0 /\ m \in Nat
  OBVIOUS
<1>3. m - 1 \in Nat /\ m - 1 \notin missing
  BY <1>1, <1>2
<1>4. (m - 1) + 1 \in T
  BY <1>3
<1> QED BY <1>2, <1>4

(* Min returns it.                                                          *)
LEMMA MinOfNaturals ==
  ASSUME NEW T \in SUBSET Nat, T # {}
  PROVE  Min(T) \in T /\ \A y \in T : Min(T) <= y
BY LeastNatural DEF Min

(* Max returns the greatest element of a bounded set.                       *)
LEMMA MaxOfBounded ==
  ASSUME NEW n \in Nat, NEW T \in SUBSET (0 .. n), T # {}
  PROVE  Max(T) \in T /\ \A y \in T : Max(T) >= y
<1> DEFINE U == {n - x : x \in T}
<1>1. U \in SUBSET Nat /\ U # {}
  <2>1. \A x \in T : n - x \in Nat
    OBVIOUS
  <2>2. PICK x \in T : TRUE
    OBVIOUS
  <2>3. n - x \in U
    BY <2>2
  <2> QED
    BY <2>1, <2>3
<1>2. PICK u \in U : \A v \in U : u <= v
  BY <1>1, LeastNatural
<1>3. PICK x \in T : u = n - x
  BY <1>2
<1>4. \A y \in T : x >= y
  <2> TAKE y \in T
  <2>1. n - x <= n - y
    BY <1>2, <1>3
  <2> QED
    BY <2>1
<1> QED
  BY <1>4 DEF Max

(* A list has finitely many elements, as many as places if they differ.     *)
LEMMA ElementsOfList ==
  ASSUME NEW n \in Nat, NEW T, NEW f \in [1 .. n -> T],
         \A t \in T : \E k \in 1 .. n : f[k] = t
  PROVE  /\ IsFiniteSet(T)
         /\ Cardinality(T) <= n
         /\ (\A j, k \in 1 .. n : j # k => f[j] # f[k]) => Cardinality(T) = n
<1>1. IsFiniteSet(1 .. n) /\ Cardinality(1 .. n) = n
  BY FS_Interval
<1>2. f \in Surjection(1 .. n, T)
  BY DEF Surjection
<1>3. /\ IsFiniteSet(T)
      /\ Cardinality(T) <= n
      /\ Cardinality(T) = n <=> f \in Injection(1 .. n, T)
  BY <1>1, <1>2, FS_Surjection
<1>4. (\A j, k \in 1 .. n : j # k => f[j] # f[k]) => f \in Injection(1 .. n, T)
  BY <1>2 DEF Injection, Surjection, IsInjective
<1> QED
  BY <1>3, <1>4
------------------------------------------------------------------------------
(* Sums over finite sets. *)

SumOver(f, S) == MapThenSumSet(LAMBDA x : f[x], S)

Pick(s) == CHOOSE x \in s : TRUE

(* The element picked is one less to sum.                                      *)
LEMMA PickedApart ==
  ASSUME NEW S, IsFiniteSet(S), NEW s \in SUBSET S
  PROVE  /\ IsFiniteSet(s) /\ Cardinality(s) \in Nat /\ Cardinality(s) <= Cardinality(S)
         /\ Cardinality(s) <= 0 <=> s = {}
         /\ s # {} => /\ Pick(s) \in s
                      /\ s \ {Pick(s)} \in SUBSET S
                      /\ Cardinality(s \ {Pick(s)}) = Cardinality(s) - 1
<1>1. IsFiniteSet(s) /\ Cardinality(s) \in Nat /\ Cardinality(s) <= Cardinality(S)
  BY FS_Subset, FS_CardinalityType
<1>2. Cardinality(s) <= 0 <=> s = {}
  <2>1. Cardinality(s) = 0 <=> s = {}
    BY <1>1, FS_EmptySet
  <2> QED BY <1>1, <2>1
<1>3. s # {} => Pick(s) \in s
  BY DEF Pick
<1>4. s # {} => Cardinality(s \ {Pick(s)}) = Cardinality(s) - 1
  BY <1>1, <1>3, FS_RemoveElement
<1> QED BY <1>1, <1>2, <1>3, <1>4

(* G sums the values of f over s, one element after the other.                  *)
SumsTo(G, f, s) == G[s] = IF s = {} THEN 0 ELSE f[Pick(s)] + G[s \ {Pick(s)}]

SumsWithin(G, f, S) == \A s \in SUBSET S : SumsTo(G, f, s)

LEMMA SumExists ==
  ASSUME NEW S, IsFiniteSet(S), NEW f, \A x \in S : f[x] \in Nat
  PROVE  \E G \in [SUBSET S -> Nat] : \A s \in SUBSET S : SumsTo(G, f, s)
<1> DEFINE T == {n \in Nat : \E G \in [SUBSET S -> Nat] :
                   \A s \in SUBSET S : Cardinality(s) <= n => SumsTo(G, f, s)}
<1>1. 0 \in T
  <2> DEFINE G == [s \in SUBSET S |-> 0]
  <2>1. \A s \in SUBSET S : Cardinality(s) <= 0 => s = {}
    BY PickedApart
  <2>2. G \in [SUBSET S -> Nat] /\ \A s \in SUBSET S : Cardinality(s) <= 0 => SumsTo(G, f, s)
    BY <2>1 DEF SumsTo
  <2> HIDE DEF G
  <2> QED BY <2>2
<1>2. ASSUME NEW n \in Nat, n \in T
      PROVE  n + 1 \in T
  <2>1. PICK G \in [SUBSET S -> Nat] :
          \A s \in SUBSET S : Cardinality(s) <= n => SumsTo(G, f, s)
    BY <1>2
  <2> DEFINE H == [s \in SUBSET S |-> IF Cardinality(s) <= n THEN G[s]
                                      ELSE f[Pick(s)] + G[s \ {Pick(s)}]]
  <2>2. ASSUME NEW s \in SUBSET S, Cardinality(s) > n
        PROVE  s # {} /\ f[Pick(s)] \in Nat /\ G[s \ {Pick(s)}] \in Nat
    BY <2>2, PickedApart
  <2>3. H \in [SUBSET S -> Nat]
    <3> SUFFICES ASSUME NEW s \in SUBSET S
                 PROVE  (IF Cardinality(s) <= n THEN G[s]
                         ELSE f[Pick(s)] + G[s \ {Pick(s)}]) \in Nat
      OBVIOUS
    <3>1. CASE Cardinality(s) <= n
      BY <3>1
    <3>2. CASE ~ (Cardinality(s) <= n)
      <4>1. Cardinality(s) > n
        <5>1. Cardinality(s) \in Nat
          BY PickedApart
        <5> QED BY <3>2, <5>1
      <4>2. f[Pick(s)] \in Nat /\ G[s \ {Pick(s)}] \in Nat
        BY <2>2, <4>1
      <4> QED BY <3>2, <4>2
    <3> QED BY <3>1, <3>2
  <2>4. ASSUME NEW s \in SUBSET S, Cardinality(s) <= n + 1
        PROVE  SumsTo(H, f, s)
    <3>1. CASE s = {}
      <4>1. Cardinality(s) <= n
        <5>1. Cardinality(s) \in Nat /\ Cardinality(s) <= 0
          BY <3>1, PickedApart
        <5> QED BY <5>1
      <4> QED BY <2>1, <3>1, <4>1 DEF SumsTo
    <3>2. CASE s # {}
      <4>1. /\ s \ {Pick(s)} \in SUBSET S /\ Cardinality(s) \in Nat
            /\ Cardinality(s \ {Pick(s)}) = Cardinality(s) - 1
        BY <3>2, PickedApart
      <4>2. Cardinality(s \ {Pick(s)}) <= n
        BY <2>4, <4>1
      <4>3. H[s \ {Pick(s)}] = G[s \ {Pick(s)}]
        BY <4>1, <4>2
      <4>4. H[s] = f[Pick(s)] + G[s \ {Pick(s)}]
        <5>1. CASE Cardinality(s) <= n
          BY <2>1, <3>2, <5>1 DEF SumsTo
        <5>2. CASE ~ (Cardinality(s) <= n)
          BY <5>2
        <5> QED BY <5>1, <5>2
      <4> HIDE DEF H
      <4> QED BY <3>2, <4>3, <4>4 DEF SumsTo
    <3> QED BY <3>1, <3>2
  <2> HIDE DEF H
  <2> QED BY <2>3, <2>4
<1>3. Cardinality(S) \in Nat
  BY FS_CardinalityType
<1> HIDE DEF T
<1>4. Cardinality(S) \in T
  BY <1>1, <1>2, <1>3, Induction
<1>5. \A s \in SUBSET S : Cardinality(s) <= Cardinality(S)
  BY PickedApart
<1> QED BY <1>4, <1>5 DEF T

(* There is one sum.                                                           *)
LEMMA SumUnique ==
  ASSUME NEW S, IsFiniteSet(S), NEW f, NEW G, NEW H, SumsWithin(G, f, S), SumsWithin(H, f, S)
  PROVE  \A s \in SUBSET S : G[s] = H[s]
<1> DEFINE T == {n \in Nat : \A s \in SUBSET S : Cardinality(s) <= n => G[s] = H[s]}
<1>1. 0 \in T
  <2> SUFFICES ASSUME NEW s \in SUBSET S, Cardinality(s) <= 0
               PROVE  G[s] = H[s]
    OBVIOUS
  <2>1. s = {}
    BY PickedApart
  <2> QED BY <2>1 DEF SumsTo, SumsWithin
<1>2. ASSUME NEW n \in Nat, n \in T
      PROVE  n + 1 \in T
  <2> SUFFICES ASSUME NEW s \in SUBSET S, Cardinality(s) <= n + 1
               PROVE  G[s] = H[s]
    OBVIOUS
  <2>1. CASE s = {}
    BY <2>1 DEF SumsTo, SumsWithin
  <2>2. CASE s # {}
    <3>1. s \ {Pick(s)} \in SUBSET S /\ Cardinality(s \ {Pick(s)}) <= n
      BY <2>2, PickedApart
    <3>2. G[s \ {Pick(s)}] = H[s \ {Pick(s)}]
      BY <1>2, <3>1
    <3> QED BY <2>2, <3>2 DEF SumsTo, SumsWithin
  <2> QED BY <2>1, <2>2
<1> HIDE DEF T
<1>3. Cardinality(S) \in T
  BY <1>1, <1>2, FS_CardinalityType, Induction
<1> QED BY <1>3, PickedApart DEF T

(* What the sum over a set is, element by element.                              *)
LEMMA SumUnfolds ==
  ASSUME NEW S, IsFiniteSet(S), NEW f, \A x \in S : f[x] \in Nat
  PROVE  /\ SumOver(f, S) \in Nat
         /\ SumOver(f, S) = IF S = {} THEN 0
                            ELSE f[Pick(S)] + SumOver(f, S \ {Pick(S)})
<1> DEFINE Step(G, s) == [t \in SUBSET s |-> IF t = {} THEN 0 ELSE f[Pick(t)] + G[t \ {Pick(t)}]]
<1>1. PICK G \in [SUBSET S -> Nat] : \A s \in SUBSET S : SumsTo(G, f, s)
  BY SumExists
<1>2. ASSUME NEW s \in SUBSET S
      PROVE  SumOver(f, s) = G[s]
  <2>1. IsFiniteSet(s)
    BY FS_Subset
  <2> DEFINE E == [t \in SUBSET s |-> G[t]]
             H == CHOOSE F : F = Step(F, s)
  <2>2. E = Step(E, s)
    <3>1. ASSUME NEW t \in SUBSET s
          PROVE  G[t] = IF t = {} THEN 0 ELSE f[Pick(t)] + E[t \ {Pick(t)}]
      <4>1. t \in SUBSET S /\ t \ {Pick(t)} \in SUBSET s
        OBVIOUS
      <4> QED BY <1>1, <4>1 DEF SumsTo
    <3> QED BY <3>1
  <2>3. H = Step(H, s)
    <3> HIDE DEF Step, E
    <3> QED BY <2>2, Zenon
  <2>4. SumOver(f, s) = H[s]
    BY Zenon DEF SumOver, MapThenSumSet, MapThenFoldSet, Pick
  <2> HIDE DEF H
  <2>5. \A t \in SUBSET s : SumsTo(H, f, t) /\ SumsTo(G, f, t)
    <3> TAKE t \in SUBSET s
    <3>1. t \in SUBSET S
      OBVIOUS
    <3> QED BY <1>1, <2>3, <3>1 DEF SumsTo
  <2>6. SumsWithin(H, f, s) /\ SumsWithin(G, f, s)
    BY <2>5 DEF SumsWithin
  <2>7. \A t \in SUBSET s : H[t] = G[t]
    BY <2>1, <2>6, SumUnique
  <2> QED BY <2>4, <2>7
<1>3. S \in SUBSET S /\ S \ {Pick(S)} \in SUBSET S
  OBVIOUS
<1> QED BY <1>1, <1>2, <1>3 DEF SumsTo

(* The order of the elements does not matter.                                  *)
LEMMA SumAdds ==
  ASSUME NEW S, IsFiniteSet(S), NEW f, \A x \in S : f[x] \in Nat,
         NEW y \in S
  PROVE  SumOver(f, S) = f[y] + SumOver(f, S \ {y})
<1> DEFINE T == {n \in Nat : \A s \in SUBSET S : Cardinality(s) <= n =>
                   \A x \in s : SumOver(f, s) = f[x] + SumOver(f, s \ {x})}
<1>1. ASSUME NEW s \in SUBSET S
      PROVE  /\ IsFiniteSet(s) /\ SumOver(f, s) \in Nat
             /\ SumOver(f, s) = IF s = {} THEN 0 ELSE f[Pick(s)] + SumOver(f, s \ {Pick(s)})
  <2>1. IsFiniteSet(s) /\ \A x \in s : f[x] \in Nat
    BY FS_Subset
  <2> QED BY <2>1, SumUnfolds
<1>2. 0 \in T
  <2>1. \A s \in SUBSET S : Cardinality(s) <= 0 => s = {}
    BY PickedApart
  <2> QED BY <2>1
<1>3. ASSUME NEW n \in Nat, n \in T
      PROVE  n + 1 \in T
  <2> SUFFICES ASSUME NEW s \in SUBSET S, Cardinality(s) <= n + 1, NEW x \in s
               PROVE  SumOver(f, s) = f[x] + SumOver(f, s \ {x})
    OBVIOUS
  <2> DEFINE p == Pick(s)
  <2>1. /\ p \in s /\ s \ {p} \in SUBSET S /\ Cardinality(s \ {p}) <= n
        /\ SumOver(f, s) = f[p] + SumOver(f, s \ {p})
    BY <1>1, PickedApart
  <2> HIDE DEF p
  <2>2. CASE x = p
    BY <2>1, <2>2
  <2>3. CASE x # p
    <3>1. /\ x \in s \ {p} /\ p \in s \ {x} /\ s \ {x} \in SUBSET S
          /\ (s \ {p}) \ {x} = (s \ {x}) \ {p} /\ (s \ {x}) \ {p} \in SUBSET S
      BY <2>1, <2>3
    <3>2. SumOver(f, s \ {p}) = f[x] + SumOver(f, (s \ {p}) \ {x})
      BY <1>3, <2>1, <3>1
    <3>3. Cardinality(s \ {x}) <= n
      <4>1. IsFiniteSet(s) /\ Cardinality(s) \in Nat
        BY PickedApart
      <4>2. Cardinality(s \ {x}) = Cardinality(s) - 1
        BY <4>1, FS_RemoveElement
      <4> QED BY <4>1, <4>2
    <3>4. SumOver(f, s \ {x}) = f[p] + SumOver(f, (s \ {x}) \ {p})
      BY <1>3, <3>1, <3>3
    <3>5. f[p] \in Nat /\ f[x] \in Nat /\ SumOver(f, (s \ {x}) \ {p}) \in Nat
      BY <1>1, <2>1, <3>1
    <3> QED BY <2>1, <3>1, <3>2, <3>4, <3>5
  <2> QED BY <2>2, <2>3
<1> HIDE DEF T
<1>4. Cardinality(S) \in T
  BY <1>2, <1>3, FS_CardinalityType, Induction
<1>5. S \in SUBSET S /\ Cardinality(S) <= Cardinality(S)
  BY FS_CardinalityType
<1> QED BY <1>4, <1>5 DEF T

(* A sum is at most another, if each value has a larger one of its own there.     *)
LEMMA SumBounded ==
  ASSUME NEW S, IsFiniteSet(S), NEW f, \A x \in S : f[x] \in Nat,
         NEW R, IsFiniteSet(R), NEW g, \A z \in R : g[z] \in Nat,
         NEW h \in [S -> R], \A x, y \in S : x # y => h[x] # h[y],
         \A x \in S : f[x] <= g[h[x]]
  PROVE  SumOver(f, S) <= SumOver(g, R)
<1> DEFINE Into(s, t) == \A x \in s : h[x] \in t
           T == {n \in Nat : \A s \in SUBSET S : Cardinality(s) <= n =>
                   \A t \in SUBSET R : Into(s, t) => SumOver(f, s) <= SumOver(g, t)}
<1>1. ASSUME NEW s \in SUBSET S
      PROVE  /\ IsFiniteSet(s) /\ SumOver(f, s) \in Nat
             /\ s = {} => SumOver(f, s) = 0
             /\ \A x \in s : SumOver(f, s) = f[x] + SumOver(f, s \ {x})
  <2>1. IsFiniteSet(s) /\ \A x \in s : f[x] \in Nat
    BY FS_Subset
  <2>2. SumOver(f, s) \in Nat /\ (s = {} => SumOver(f, s) = 0)
    BY <2>1, SumUnfolds
  <2>3. \A x \in s : SumOver(f, s) = f[x] + SumOver(f, s \ {x})
    BY <2>1, SumAdds
  <2> QED BY <2>1, <2>2, <2>3
<1>2. ASSUME NEW t \in SUBSET R
      PROVE  /\ SumOver(g, t) \in Nat
             /\ \A z \in t : SumOver(g, t) = g[z] + SumOver(g, t \ {z})
  <2>1. IsFiniteSet(t) /\ \A z \in t : g[z] \in Nat
    BY FS_Subset
  <2> QED BY <2>1, SumUnfolds, SumAdds
<1>3. 0 \in T
  <2> SUFFICES ASSUME NEW s \in SUBSET S, Cardinality(s) <= 0, NEW t \in SUBSET R
               PROVE  SumOver(f, s) <= SumOver(g, t)
    OBVIOUS
  <2>1. s = {}
    BY PickedApart
  <2>2. SumOver(f, s) = 0 /\ SumOver(g, t) \in Nat
    BY <1>1, <1>2, <2>1
  <2> QED BY <2>2
<1>4. ASSUME NEW n \in Nat, n \in T
      PROVE  n + 1 \in T
  <2> SUFFICES ASSUME NEW s \in SUBSET S, Cardinality(s) <= n + 1, NEW t \in SUBSET R, Into(s, t)
               PROVE  SumOver(f, s) <= SumOver(g, t)
    OBVIOUS
  <2>1. CASE s = {}
    <3>1. SumOver(f, s) = 0 /\ SumOver(g, t) \in Nat
      BY <1>1, <1>2, <2>1
    <3> QED BY <3>1
  <2>2. CASE s # {}
    <3> DEFINE x == Pick(s)
    <3>1. x \in s /\ s \ {x} \in SUBSET S /\ Cardinality(s \ {x}) <= n
      BY <2>2, PickedApart
    <3> HIDE DEF x
    <3>2. h[x] \in t /\ t \ {h[x]} \in SUBSET R
      BY <3>1
    <3>3. Into(s \ {x}, t \ {h[x]})
      BY <3>1
    <3>4. SumOver(f, s \ {x}) <= SumOver(g, t \ {h[x]})
      BY <1>4, <3>1, <3>2, <3>3
    <3>5. SumOver(f, s) = f[x] + SumOver(f, s \ {x})
      BY <1>1, <3>1
    <3>6. SumOver(g, t) = g[h[x]] + SumOver(g, t \ {h[x]})
      BY <1>2, <3>2
    <3>7. f[x] \in Nat /\ g[h[x]] \in Nat /\ f[x] <= g[h[x]]
      BY <3>1
    <3>8. SumOver(f, s \ {x}) \in Nat /\ SumOver(g, t \ {h[x]}) \in Nat
      BY <1>1, <1>2, <3>1, <3>2
    <3> QED BY <3>4, <3>5, <3>6, <3>7, <3>8
  <2> QED BY <2>1, <2>2
<1> HIDE DEF T
<1>5. Cardinality(S) \in T
  BY <1>3, <1>4, FS_CardinalityType, Induction
<1>6. S \in SUBSET S /\ R \in SUBSET R /\ Cardinality(S) <= Cardinality(S) /\ Into(S, R)
  BY FS_CardinalityType
<1> QED BY <1>5, <1>6 DEF T
------------------------------------------------------------------------------
(* Functions defined by recursion on 0 .. n.                                  *)

(* A property of the first that each hands on to the next is one of all.       *)
LEMMA Along ==
  ASSUME NEW n \in Nat, NEW T, 0 \in T, \A k \in 1 .. n : k - 1 \in T => k \in T
  PROVE  \A k \in 0 .. n : k \in T
<1> DEFINE U == {k \in Nat : k <= n => k \in T}
<1>1. 0 \in U
  OBVIOUS
<1>2. ASSUME NEW k \in Nat, k \in U
      PROVE  k + 1 \in U
  <2>1. CASE k + 1 <= n
    <3>1. k \in T
      BY <1>2, <2>1
    <3>2. k + 1 \in 1 .. n /\ (k + 1) - 1 = k
      BY <1>2, <2>1
    <3>3. k + 1 \in T
      BY <3>1, <3>2
    <3> QED BY <1>2, <3>3
  <2>2. CASE ~ (k + 1 <= n)
    BY <1>2, <2>2
  <2> QED BY <2>1, <2>2
<1>3. \A k \in Nat : k \in U
  <2> HIDE DEF U
  <2> QED BY <1>1, <1>2, Induction
<1> QED BY <1>3

(* A function that is first and then next of what it was exists, for every first   *)
(* and next.                                                                *)
Follows(G, n, first, next) ==
  G[0] = first /\ \A k \in 1 .. n : G[k] = next[<<k, G[k - 1]>>]

LEMMA RecursionExists ==
  ASSUME NEW n \in Nat, NEW V, NEW first \in V, NEW next \in [(1 .. n) \X V -> V]
  PROVE  \E G \in [0 .. n -> V] : Follows(G, n, first, next)
<1> DEFINE T == {m \in Nat : \E G \in [0 .. m -> V] : Follows(G, m, first, next)}
<1>1. 0 \in T
  <2> DEFINE G == [k \in 0 .. 0 |-> first]
  <2>1. G \in [0 .. 0 -> V] /\ Follows(G, 0, first, next)
    BY DEF Follows
  <2> HIDE DEF G
  <2> QED BY <2>1
<1>2. ASSUME NEW m \in 1 .. n, m - 1 \in T
      PROVE  m \in T
  <2>1. PICK G \in [0 .. m - 1 -> V] : Follows(G, m - 1, first, next)
    BY <1>2
  <2> DEFINE H == [k \in 0 .. m |-> IF k = m THEN next[<<m, G[m - 1]>>] ELSE G[k]]
  <2>2. m - 1 \in 0 .. m - 1 /\ m \in Nat /\ m # 0
    BY <1>2
  <2>3. next[<<m, G[m - 1]>>] \in V
    BY <2>1, <2>2
  <2>4. \A k \in 0 .. m : k # m => k \in 0 .. m - 1
    BY <2>2
  <2>5. H \in [0 .. m -> V]
    BY <2>1, <2>3, <2>4
  <2>6. /\ H[m] = next[<<m, G[m - 1]>>]
        /\ \A k \in 0 .. m - 1 : H[k] = G[k]
    BY <2>2
  <2> HIDE DEF H
  <2>7. Follows(H, m, first, next)
    <3>1. ASSUME NEW k \in 1 .. m
          PROVE  H[k] = next[<<k, H[k - 1]>>]
      <4>1. CASE k = m
        BY <2>2, <2>6, <4>1
      <4>2. CASE k # m
        <5>1. k \in 1 .. m - 1 /\ k \in 0 .. m - 1 /\ k - 1 \in 0 .. m - 1
          BY <2>2, <3>1, <4>2
        <5>2. H[k] = G[k] /\ H[k - 1] = G[k - 1]
          BY <2>6, <5>1
        <5> QED BY <2>1, <5>1, <5>2 DEF Follows
      <4> QED BY <4>1, <4>2
    <3>2. H[0] = first
      BY <2>1, <2>2, <2>6 DEF Follows
    <3> QED BY <3>1, <3>2 DEF Follows
  <2> QED BY <2>2, <2>5, <2>7
<1>3. n \in 0 .. n
  OBVIOUS
<1>4. n \in T
  <2> HIDE DEF T
  <2> QED BY <1>1, <1>2, <1>3, Along
<1> QED BY <1>4

(* So does a function of all naturals.                                        *)
FollowsOn(G, first, next) ==
  G[0] = first /\ \A k \in Nat \ {0} : G[k] = next[<<k, G[k - 1]>>]

LEMMA RecursionOnNaturals ==
  ASSUME NEW V, NEW first \in V, NEW next \in [Nat \X V -> V]
  PROVE  \E G \in [Nat -> V] : FollowsOn(G, first, next)
<1> DEFINE Upto(n) == CHOOSE G \in [0 .. n -> V] : Follows(G, n, first, next)
<1>1. ASSUME NEW n \in Nat
      PROVE  Upto(n) \in [0 .. n -> V] /\ Follows(Upto(n), n, first, next)
  <2> DEFINE part == [x \in (1 .. n) \X V |-> next[x]]
  <2>1. part \in [(1 .. n) \X V -> V]
    OBVIOUS
  <2>2. PICK G \in [0 .. n -> V] : Follows(G, n, first, part)
    <3> HIDE DEF part
    <3> QED BY <2>1, RecursionExists
  <2>3. \A k \in 1 .. n : G[k] = next[<<k, G[k - 1]>>]
    <3> TAKE k \in 1 .. n
    <3>1. k - 1 \in 0 .. n
      OBVIOUS
    <3>2. <<k, G[k - 1]>> \in (1 .. n) \X V
      BY <3>1
    <3>3. part[<<k, G[k - 1]>>] = next[<<k, G[k - 1]>>]
      BY <3>2
    <3> QED BY <2>2, <3>3 DEF Follows
  <2>4. Follows(G, n, first, next)
    BY <2>2, <2>3 DEF Follows
  <2> QED BY <2>4
<1> HIDE DEF Upto
<1>2. ASSUME NEW n \in Nat \ {0}
      PROVE  Upto(n)[n - 1] = Upto(n - 1)[n - 1]
  <2> DEFINE m == n - 1
             T == {k \in 0 .. m : Upto(n)[k] = Upto(m)[k]}
  <2>1. m \in Nat /\ m \in 0 .. m /\ \A k \in 1 .. m : k \in 1 .. n /\ k - 1 \in 0 .. m
    OBVIOUS
  <2>2. Follows(Upto(n), n, first, next) /\ Follows(Upto(m), m, first, next)
    BY <1>1, <2>1
  <2> HIDE DEF m
  <2>3. 0 \in T
    BY <2>1, <2>2 DEF Follows
  <2>4. \A k \in 1 .. m : k - 1 \in T => k \in T
    <3> TAKE k \in 1 .. m
    <3>1. Upto(n)[k] = next[<<k, Upto(n)[k - 1]>>] /\ Upto(m)[k] = next[<<k, Upto(m)[k - 1]>>]
      BY <2>1, <2>2 DEF Follows
    <3> QED BY <3>1
  <2>5. \A k \in 0 .. m : k \in T
    <3> HIDE DEF T
    <3> QED BY <2>1, <2>3, <2>4, Along
  <2> QED BY <2>1, <2>5 DEF m
<1> DEFINE G == [n \in Nat |-> Upto(n)[n]]
<1>3. G \in [Nat -> V]
  BY <1>1
<1>4. G[0] = first
  BY <1>1 DEF Follows
<1>5. ASSUME NEW k \in Nat \ {0}
      PROVE  G[k] = next[<<k, G[k - 1]>>]
  <2>1. k - 1 \in Nat /\ k \in 1 .. k
    OBVIOUS
  <2>2. G[k] = Upto(k)[k] /\ G[k - 1] = Upto(k - 1)[k - 1]
    BY <2>1
  <2>3. Upto(k)[k] = next[<<k, Upto(k)[k - 1]>>]
    BY <1>1, <2>1 DEF Follows
  <2> QED BY <1>2, <2>2, <2>3
<1> HIDE DEF G
<1> QED BY <1>3, <1>4, <1>5 DEF FollowsOn
=============================================================================
