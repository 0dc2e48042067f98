------------------------------- MODULE Sampling -------------------------------
(***************************************************************************)
(* How the examples thin out points: bounded_sample, of which the LiDAR and     *)
(* the point-cloud example have one each, and the stride of sampled_map.        *)
(* Points stand for their places, from 0.                                      *)
(***************************************************************************)
EXTENDS Integers, Sequences

Lesser(m, n) == IF m <= n THEN m ELSE n
Greater(m, n) == IF m >= n THEN m ELSE n

BoundedSample(length, limit) ==
  LET count == Lesser(limit, length)
  IN  [i \in 1 .. count |-> ((i - 1) * length) \div count]

(* The points that are pushed: each stride-th of total, while there is room.      *)
EachOf(total, capacity, stride) ==
  LET pushed[n \in 0 .. total] ==
        IF n = 0 THEN <<>>
        ELSE LET before == pushed[n - 1]
             IN  IF (n - 1) % stride = 0 /\ Len(before) < capacity
                   THEN Append(before, n - 1) ELSE before
  IN  pushed[total]

(* usize::div_ceil, at least 1.                                               *)
Stride(total, capacity) == Greater((total + capacity - 1) \div capacity, 1)

(* Mutation of MapSample: the division of the stride rounds down.              *)
MapSampleTruncated(total, capacity) == EachOf(total, capacity, Greater(total \div capacity, 1))

MapSample(total, capacity) == EachOf(total, capacity, Stride(total, capacity))
==============================================================================
