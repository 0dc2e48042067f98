-------------------------- MODULE MCStoragePlanner --------------------------
(***************************************************************************)
(* All graphs of four resources over three Units with the lifetimes,       *)
(* types, requirements and faults below: a type the registry lacks, for a  *)
(* stored resource or only for a Module input, a missing requirement, an   *)
(* oversized buffer.  With MaxSize 15 a buffer of four elements overflows  *)
(* on its own and two of two elements overflow in sum.                     *)
(***************************************************************************)
EXTENDS StoragePlanner, TLC

MCSemanticType   == {"pose", "scan", "cloud", "unknown"}
MCRegistered     == {"pose", "scan", "cloud"}
MCConcreteType   == [pose |-> "Pose", scan |-> "Vec", cloud |-> "Vec"]
MCElementSize    == [pose |-> 1, scan |-> 2, cloud |-> 2]
MCRepresentation == [pose |-> "value", scan |-> "bounded", cloud |-> "bounded"]
(* scan and cloud are two names of one representation.                       *)
MCLayout         == [pose |-> "a", scan |-> "b", cloud |-> "b"]

Lifetimes ==
  {[producer |-> 1, consumers |-> {2},    output |-> FALSE],
   [producer |-> 1, consumers |-> {2, 3}, output |-> FALSE],
   [producer |-> 2, consumers |-> {3},    output |-> FALSE],
   [producer |-> 1, consumers |-> {2},    output |-> TRUE],
   [producer |-> 3, consumers |-> {},     output |-> FALSE],
   [producer |-> 0, consumers |-> {1, 3}, output |-> FALSE]}

Requirements ==
  {[type |-> "pose",  required |-> TRUE, capacity |-> 2, concrete |-> "Pose"],
   [type |-> "scan",  required |-> TRUE, capacity |-> 2, concrete |-> "Vec"],
   [type |-> "cloud", required |-> TRUE, capacity |-> 1, concrete |-> "Vec"]}

Faults ==
  {[type |-> "unknown", required |-> TRUE,  capacity |-> 1, concrete |-> "Vec"],
   [type |-> "scan",    required |-> FALSE, capacity |-> 0, concrete |-> "Vec"],
   [type |-> "scan",    required |-> TRUE,  capacity |-> 4, concrete |-> "Vec"]}

(* Faults are tried on one lifetime only. *)
MCResourceSpec ==
  {l @@ q : l \in {m \in Lifetimes : m.producer # 0}, q \in Requirements}
    \cup {l @@ [type |-> "pose", required |-> FALSE, capacity |-> 0, concrete |-> "Pose"] :
            l \in {m \in Lifetimes : m.producer = 0}}
    \cup {[producer |-> 0, consumers |-> {2}, output |-> FALSE, type |-> "unknown",
           required |-> FALSE, capacity |-> 0, concrete |-> "Vec"]}
    \cup {l @@ q : l \in {m \in Lifetimes : m.output}, q \in Faults}
==============================================================================
