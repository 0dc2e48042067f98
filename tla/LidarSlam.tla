------------------------------- MODULE LidarSlam -------------------------------
(***************************************************************************)
(* The LiDAR example: three Units that keep state of their own between runs     *)
(* of their Module, and the host's copy of the last snapshot.                      *)
(*                                                                         *)
(* slamwich (external) may add a keyframe and edges between keyframes it has,   *)
(* or report no update, or panic.  A pose stands for the frame it belongs to;   *)
(* a scan is its length, the points sampled from it are their places.           *)
(***************************************************************************)
EXTENDS Sampling, FiniteSets

CONSTANTS
  LidarFrames, \* inputs: [index, time, size, finite]
  MaxIndex,    \* usize::MAX
  MaxInput,    \* MAX_INPUT_POINTS
  ScanLimit, TrailLimit, WindowLimit, MapLimit, EdgeLimit, \* DemoConfig
  Absent,      \* model value: no value
  MaxAccepted  \* bound on the frames that are accepted

ASSUME LidarAssumption ==
  /\ {MaxIndex, MaxInput, MaxAccepted} \subseteq Nat
  /\ {ScanLimit, TrailLimit, WindowLimit, MapLimit, EdgeLimit} \subseteq Nat \ {0}
  /\ \A f \in LidarFrames : f.index \in 0 .. MaxIndex /\ f.time \in Nat /\ f.size \in Nat
  /\ Absent \notin [index : 0 .. MaxIndex, time : Nat]

VARIABLES
  stage,       \* the Unit that runs next, "idle" between runs
  frame,       \* the input of this run
  sampled,     \* PreparedScan.sampled
  keyframes,   \* slamwich: for each keyframe the points it kept
  edges,       \* slamwich: <<from, to, loop closure>>, ids from 0
  lastFrame,   \* last_frame_index and last_timestamp_ns
  updates,
  observation, \* SlamObservation
  trails,      \* the three trails of SnapshotUnit
  lastSnapshot,    \* last_snapshot of the host
  slamPoisoned,    \* a Unit panicked
  accepted     \* what each accepted frame did to the map (history)

lidarVars == <<stage, frame, sampled, keyframes, edges, lastFrame, updates, observation,
               trails, lastSnapshot, slamPoisoned, accepted>>

LidarInit ==
  /\ stage = "idle" /\ frame = Absent /\ sampled = Absent
  /\ keyframes = <<>> /\ edges = <<>>
  /\ lastFrame = Absent /\ updates = 0
  /\ observation = Absent
  /\ trails = [estimated |-> <<>>, odometry |-> <<>>, reference |-> <<>>]
  /\ lastSnapshot = Absent /\ slamPoisoned = FALSE /\ accepted = <<>>

(* The error of a Unit ends the run; what it did to itself before stays.        *)
EndRun == stage' = "idle" /\ frame' = Absent /\ sampled' = Absent /\ observation' = Absent

StartFrame(f) ==
  /\ stage = "idle"
  /\ ~slamPoisoned
  /\ stage' = "scan_prepare"
  /\ frame' = f
  /\ UNCHANGED <<sampled, keyframes, edges, lastFrame, updates, observation, trails,
                 lastSnapshot, slamPoisoned, accepted>>

ValidFrame(f) == f.size \in 1 .. MaxInput /\ f.finite

PrepareScan ==
  /\ stage = "scan_prepare"
  /\ IF ValidFrame(frame)
       THEN /\ stage' = "slam"
            /\ sampled' = BoundedSample(frame.size, ScanLimit)
            /\ UNCHANGED <<frame, observation>>
       ELSE EndRun
  /\ UNCHANGED <<keyframes, edges, lastFrame, updates, trails, lastSnapshot, slamPoisoned, accepted>>

(* Mutation of InOrder: the successor of the last index wraps around.           *)
InOrderWrapping ==
  lastFrame # Absent => /\ frame.index = (lastFrame.index + 1) % (MaxIndex + 1)
                      /\ frame.time > lastFrame.time

(* checked_add: nothing follows the largest index.                            *)
InOrder ==
  lastFrame # Absent => /\ lastFrame.index # MaxIndex
                      /\ frame.index = lastFrame.index + 1
                      /\ frame.time > lastFrame.time

(* The newest keyframes, and the newest of the edges between them, renumbered   *)
(* from the start of the window.                                            *)
WindowStart(count) == Greater(count - WindowLimit, 0)

EdgesFrom(graph, start) ==
  LET kept[n \in 0 .. Len(graph)] ==
        IF n = 0 THEN <<>>
        ELSE IF graph[n][1] >= start /\ graph[n][2] >= start
          THEN Append(kept[n - 1], graph[n]) ELSE kept[n - 1]
  IN  kept[Len(graph)]

Suffix(s, n) == SubSeq(s, Greater(Len(s) - n, 0) + 1, Len(s))

(* Mutation of WindowEdges: edges keep the ids slamwich gave them.              *)
WindowEdgesGlobal(graph, start) == Suffix(EdgesFrom(graph, start), EdgeLimit)

WindowEdges(graph, start) ==
  LET recent == Suffix(EdgesFrom(graph, start), EdgeLimit)
  IN  [i \in DOMAIN recent |-> <<recent[i][1] - start, recent[i][2] - start, recent[i][3]>>]

MapPoints(frames) ==
  LET upTo[k \in 0 .. Len(frames)] == IF k = 0 THEN 0 ELSE upTo[k - 1] + frames[k]
  IN  upTo[Len(frames)]

(* process_scan: the edges it adds, and whether it adds a keyframe.             *)
ScanResults ==
  LET new == Len(keyframes)
      odometry == IF new = 0 THEN <<>> ELSE <<<<new - 1, new, FALSE>>>>
  IN  {[update |-> FALSE, keyframe |-> FALSE, edges |-> <<>>],
       [update |-> TRUE, keyframe |-> FALSE, edges |-> <<>>],
       [update |-> TRUE, keyframe |-> TRUE, edges |-> odometry]}
      \cup {[update |-> TRUE, keyframe |-> TRUE, edges |-> Append(odometry, <<old, new, TRUE>>)] :
              old \in 0 .. new - 2}

Slam ==
  /\ stage = "slam"
  /\ IF InOrder
       THEN \E result \in ScanResults :
              /\ keyframes' = IF result.keyframe THEN Append(keyframes, Len(sampled)) ELSE keyframes
              /\ edges' = edges \o result.edges
              /\ updates' = updates + (IF result.update THEN 1 ELSE 0)
              /\ lastFrame' = [index |-> frame.index, time |-> frame.time]
              /\ observation' =
                   [estimated |-> frame.index, result |-> result, updates |-> updates',
                    keyframes |-> Len(keyframes'), scan |-> sampled,
                    window |-> SubSeq([k \in DOMAIN keyframes' |-> k - 1],
                                      WindowStart(Len(keyframes')) + 1, Len(keyframes')),
                    map |-> MapSample(MapPoints(keyframes'), MapLimit),
                    edges |-> WindowEdges(edges', WindowStart(Len(keyframes')))]
              /\ stage' = "snapshot"
              /\ accepted' = Append(accepted, [frame |-> frame, result |-> result])
              /\ UNCHANGED <<frame, sampled, slamPoisoned>>
       ELSE EndRun /\ UNCHANGED <<keyframes, edges, updates, lastFrame, slamPoisoned, accepted>>
  /\ UNCHANGED <<trails, lastSnapshot>>

(* slamwich panics, in the middle of a frame: the Module is not used again.     *)
SlamPanics ==
  /\ stage = "slam"
  /\ InOrder
  /\ slamPoisoned' = TRUE
  /\ EndRun
  /\ UNCHANGED <<keyframes, edges, lastFrame, updates, trails, lastSnapshot, accepted>>

PushBounded(queue, value, capacity) ==
  IF Len(queue) = capacity THEN Append(Tail(queue), value) ELSE Append(queue, value)

(* The snapshot is published, and the host keeps a copy of it.                 *)
PublishSnapshot ==
  /\ stage = "snapshot"
  /\ trails' = [estimated |-> PushBounded(trails.estimated, observation.estimated, TrailLimit),
                odometry  |-> PushBounded(trails.odometry, frame.index, TrailLimit),
                reference |-> PushBounded(trails.reference, frame.index, TrailLimit)]
  /\ lastSnapshot' = [frame |-> frame, trails |-> trails', observation |-> observation,
                  dropped |-> frame.size - Len(observation.scan)]
  /\ EndRun
  /\ UNCHANGED <<keyframes, edges, lastFrame, updates, slamPoisoned, accepted>>

LidarNext ==
  \/ \E f \in LidarFrames : Len(accepted) < MaxAccepted /\ StartFrame(f)
  \/ PrepareScan \/ Slam \/ SlamPanics \/ PublishSnapshot

LidarSpec == LidarInit /\ [][LidarNext]_lidarVars
------------------------------------------------------------------------------
(* Between runs the host's snapshot is of the last accepted frame, whatever was   *)
(* refused since: the trails are the last accepted frames, the same ones in all  *)
(* three, whose indices follow each other without wrapping; the counts are those *)
(* of all accepted frames (rejected_frames_do_not_publish_or_replace_snapshot,    *)
(* exhausted_frame_index_is_rejected_without_overflow).                      *)
SnapshotTellsTheHistory ==
  stage = "idle" /\ accepted # <<>> =>
    LET recent == Suffix([i \in DOMAIN accepted |-> accepted[i].frame.index], TrailLimit)
        Counted(P(_)) == Cardinality({i \in DOMAIN accepted : P(accepted[i].result)})
    IN  /\ lastSnapshot.frame = accepted[Len(accepted)].frame
        /\ \A t \in DOMAIN lastSnapshot.trails : lastSnapshot.trails[t] = recent
        /\ \A i \in 2 .. Len(accepted) :
             /\ accepted[i].frame.index = accepted[i - 1].frame.index + 1
             /\ accepted[i].frame.time > accepted[i - 1].frame.time
        /\ lastSnapshot.observation.updates = Counted(LAMBDA r : r.update)
        /\ lastSnapshot.observation.keyframes = Counted(LAMBDA r : r.keyframe)
        /\ lastSnapshot.dropped + Len(lastSnapshot.observation.scan) = lastSnapshot.frame.size

(* A published edge joins the keyframes that slamwich joined, found in the       *)
(* window by its own indices, and of the edges between keyframes of the window   *)
(* only older ones are missing (retained_edges_use_local_keyframe_window_indices).*)
EdgesAreOfTheWindow ==
  lastSnapshot # Absent =>
    LET o == lastSnapshot.observation
        Joined(e) == <<o.window[e[1] + 1], o.window[e[2] + 1], e[3]>>
        inWindow == {n \in DOMAIN edges : {edges[n][1], edges[n][2]}
                                            \subseteq {o.window[i] : i \in DOMAIN o.window}}
        newer(n) == Cardinality({m \in inWindow : m > n})
    IN  /\ \A i \in DOMAIN o.edges : {o.edges[i][1] + 1, o.edges[i][2] + 1} \subseteq DOMAIN o.window
        /\ Len(o.window) = Lesser(WindowLimit, o.keyframes)
        /\ stage = "idle" =>
             /\ Len(o.edges) = Lesser(EdgeLimit, Cardinality(inWindow))
             /\ \A n \in inWindow : newer(n) < EdgeLimit =>
                  Joined(o.edges[Len(o.edges) - newer(n)]) = edges[n]

(* What is sampled is spread over the whole scan and the whole map: no sampled   *)
(* point twice, the first one always, gaps that differ by at most one, and no    *)
(* more than was configured.                                                *)
Spread(sample, total, limit) ==
  LET next == [i \in DOMAIN sample |-> IF i = Len(sample) THEN total ELSE sample[i + 1]]
      gaps == {next[i] - sample[i] : i \in DOMAIN sample}
  IN  /\ Len(sample) <= limit
      /\ total > 0 => sample # <<>> /\ sample[1] = 0
      /\ \A g \in gaps : g >= 1
      /\ total <= limit => gaps \subseteq {1}
ScansAreSpread ==
  stage = "slam" =>
    /\ Spread(sampled, frame.size, ScanLimit)
    /\ \A i, j \in 1 .. Len(sampled) - 1 :
         sampled[i + 1] - sampled[i] <= sampled[j + 1] - sampled[j] + 1
MapIsSpread ==
  lastSnapshot # Absent /\ stage = "idle" =>
    LET map == lastSnapshot.observation.map
        total == MapPoints(keyframes)
    IN  /\ Spread(map, total, MapLimit)
        /\ \A i \in 1 .. Len(map) - 1 : map[i + 1] - map[i] = Stride(total, MapLimit)
        /\ map # <<>> => total - map[Len(map)] <= Stride(total, MapLimit)
SamplesAreSpread == ScansAreSpread /\ MapIsSpread
==============================================================================
