------------------------------ MODULE MCLidarSlam ------------------------------
(* The LiDAR example on five frames, with frames that are refused for every      *)
(* reason there is.                                                        *)
EXTENDS LidarSlam

MCLidarFrames ==
  {[index |-> i, time |-> i, size |-> s, finite |-> TRUE] : i \in 0 .. MaxIndex, s \in {3, 5}}
  \cup {[index |-> i, time |-> 1, size |-> 5, finite |-> TRUE] : i \in 0 .. MaxIndex}
  \cup {[index |-> i, time |-> i, size |-> s, finite |-> FALSE] : i \in 0 .. MaxIndex, s \in {5}}
  \cup {[index |-> i, time |-> i, size |-> s, finite |-> TRUE] : i \in 0 .. MaxIndex, s \in {0, MaxInput + 1}}
  \cup {[index |-> 0, time |-> MaxIndex + 1, size |-> 5, finite |-> TRUE]}
==============================================================================
