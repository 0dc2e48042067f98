------------------------------ MODULE MCPipeline ------------------------------
(***************************************************************************)
(* A three-step pipeline with two Module outputs, a multi-output Unit, a   *)
(* representation of each kind and one reused slot:                        *)
(*                                                                         *)
(*   x --> [1] --> a --> [2] --> b (output) --> [3] --> c (output)         *)
(*           \---> d ----------------------------/                         *)
(*                                                                         *)
(* a is dead after step 2, so c takes over its slot, as plan_storage does. *)
(***************************************************************************)
EXTENDS Naturals, TLC

PipelineResource == {"x", "a", "b", "c", "d"}
PipelineReads    == <<{"x"}, {"a"}, {"b", "d"}>>
PipelineWrites   == <<{"a", "d"}, {"b"}, {"c"}>>
PipelineSlotOf   == [a |-> "s0", b |-> "s1", c |-> "s0", d |-> "s2"]
PipelineSlotKind == [s0 |-> "value", s1 |-> "fixed", s2 |-> "bounded"]
(* The same plan with the reused slot a growing buffer.                      *)
GrowingSlotKind  == [s0 |-> "bounded", s1 |-> "fixed", s2 |-> "value"]
PipelineCapacity == [a |-> 1, b |-> 2, c |-> 1, d |-> 1]
PipelineLiveEnd  == [a |-> 2, b |-> 4, c |-> 4, d |-> 3]

(* The dispositions a Unit can choose, an overflow, and a fatal failure it   *)
(* passes on from a Module of its own.                                       *)
PipelineErrors ==
  {[kind |-> "recoverable", nested |-> FALSE],
   [kind |-> "fatal",       nested |-> FALSE],
   [kind |-> "overflow",    nested |-> FALSE],
   [kind |-> "fatal",       nested |-> TRUE],
   [kind |-> "profile",     nested |-> TRUE]}
==============================================================================
