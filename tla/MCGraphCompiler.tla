--------------------------- MODULE MCGraphCompiler ---------------------------
(***************************************************************************)
(* Unit u produces resource u; resource 9 is the Module input.  Three kinds *)
(* of sources: every dependency relation on three Units in every source    *)
(* order; every relation on four Units where each reads at most two; and   *)
(* sources with one or two things wrong.                                   *)
(***************************************************************************)
EXTENDS GraphCompiler, SequencesExt

MCUnitId   == 1 .. 4
MCResource == 1 .. 4 \cup {9, 10}
MCPort     == 1 .. 4 \cup {9, 10}
MCSemantic == {"pose", "scan"}
MCConcrete == {"f32", "f64"}

Pose(r) == [port |-> r, resource |-> r, semantic |-> "pose", concrete |-> "f32"]
Input   == [resource |-> 9, semantic |-> "pose", concrete |-> "f32"]

Poses(S)       == SetToSortSeq({Pose(r) : r \in S}, LAMBDA a, b : a.resource < b.resource)
UnitOf(u, reads) == [id |-> u, inputs |-> Poses(reads), outputs |-> <<Pose(u)>>]

Permutations3 == {q \in [1 .. 3 -> 1 .. 3] : \A j, k \in 1 .. 3 : j # k => q[j] # q[k]}

AllOfThree ==
  {[inputs |-> <<Input>>,
    units |-> [k \in 1 .. 3 |-> UnitOf(q[k], reads[q[k]])],
    outputs |-> <<3>>]
     : q \in Permutations3, reads \in [1 .. 3 -> SUBSET (1 .. 3)]}

FewOfFour ==
  {[inputs |-> <<Input>>,
    units |-> [k \in 1 .. 4 |-> UnitOf(5 - k, reads[5 - k])],
    outputs |-> <<2, 4>>]
     : reads \in [1 .. 4 -> {S \in SUBSET (1 .. 4) : Cardinality(S) \in {1, 2}}]}

(* A sound Module of two Units, the second with an input port more, and the *)
(* ways to spoil it.  The second Unit may have the name of the first or     *)
(* produce the same resource, and not only both, and need not read the      *)
(* first one's output.                                                      *)
Spoiled(b, second, reads, written, inputs, outputs) ==
  [inputs |-> inputs,
   units |-> <<UnitOf(1, {9}),
               [id |-> second,
                inputs |-> Append(Poses(reads), b),
                outputs |-> <<Pose(written)>>]>>,
   outputs |-> outputs]

SpoiledSources ==
  {Spoiled(b, second, reads, written, inputs, outputs)
     : b \in {Pose(10), [Pose(9) EXCEPT !.port = 1],
              [Pose(1) EXCEPT !.port = 2],
              [Pose(1) EXCEPT !.port = 2, !.semantic = "scan"],
              [Pose(9) EXCEPT !.port = 2, !.concrete = "f64"],
              [Pose(2) EXCEPT !.port = 2]},
       second \in {1, 2}, reads \in {{9}, {1, 9}}, written \in {1, 2},
       inputs \in {<<>>, <<Input>>, <<Input, Input>>,
                   <<Input, [Input EXCEPT !.resource = 2]>>},
       outputs \in {<<>>, <<2>>, <<2, 1>>, <<2, 2>>, <<9>>, <<10>>}}

MCSource == AllOfThree \cup FewOfFour \cup SpoiledSources
==============================================================================
