--------------------------- MODULE NavigationEpisode ---------------------------
(***************************************************************************)
(* The navigation example's episode (run_episode and the Rerun route of its  *)
(* main): each leg runs the Module, then logs the frame and the run at the   *)
(* current tick, then one pose per point of the final path, advancing the    *)
(* tick after each pose.  The first error ends the program.                  *)
(*                                                                         *)
(* A pose is <<leg, point>>.  The itinerary only has goals at a distance of   *)
(* at least three cells that can be reached, so no final path is empty.      *)
(***************************************************************************)
EXTENDS RerunAdapter

CONSTANTS
  Legs,       \* length of the itinerary
  PathLength  \* possible lengths of a final path

ASSUME EpisodeAssumption == Legs \in Nat /\ PathLength \subseteq Nat \ {0}

VARIABLES
  phase,    \* "describe", "map", "run", "frame", "snapshot", "poses", "end"
  leg,      \* legs run so far
  tick,
  trail,    \* recent poses
  path,     \* poses of the final path that were not logged yet
  smoothing, \* the Module smooths: fixed when it is built
  travelled \* every pose so far (history)

episodeVars == <<phase, leg, tick, trail, path, smoothing, travelled>>

EpisodeInit ==
  /\ AdapterInit
  /\ phase = "describe"
  /\ leg = 0
  /\ tick = 0
  /\ trail = <<>>
  /\ path = <<>>
  /\ smoothing \in BOOLEAN
  /\ travelled = <<>>

Describe ==
  /\ phase = "describe"
  /\ FixedDescription(MaxUnits)
  /\ phase' = "map"
  /\ UNCHANGED <<leg, tick, trail, path, smoothing, travelled>>

LogMap ==
  /\ phase = "map"
  /\ NavigationMap
  /\ phase' = "run"
  /\ UNCHANGED <<leg, tick, trail, path, smoothing, travelled>>

(* A leg whose run fails ends the episode.                                   *)
RunLeg ==
  /\ phase = "run" /\ Idle
  /\ leg < Legs
  /\ \/ \E n \in PathLength :
          /\ path' = [i \in 1 .. n |-> <<leg + 1, i>>]
          /\ phase' = "frame"
     \/ phase' = "end" /\ UNCHANGED path
  /\ leg' = leg + 1
  /\ UNCHANGED <<adapterVars, tick, trail, smoothing, travelled>>

LogFrame ==
  /\ phase = "frame"
  /\ NavigationFrameAt(tick, leg, smoothing)
  /\ phase' = "snapshot"
  /\ UNCHANGED <<leg, tick, trail, path, smoothing, travelled>>

LogRun ==
  /\ phase = "snapshot"
  /\ RunSnapshotAt(tick, MaxUnits)
  /\ phase' = "poses"
  /\ UNCHANGED <<leg, tick, trail, path, smoothing, travelled>>

(* Mutation of Push: room is made after the pose was added.                  *)
PushFirst(pose) ==
  IF Len(trail) > MaxTrail THEN Append(Tail(trail), pose) ELSE Append(trail, pose)

Push(pose) ==
  IF Len(trail) = MaxTrail THEN Append(Tail(trail), pose) ELSE Append(trail, pose)

(* Mutation of NextTick: the tick moves only when the leg is over.           *)
NextTickPerLeg == IF Len(path) = 1 THEN tick + 1 ELSE tick

NextTick == tick + 1

LogPose ==
  /\ phase = "poses" /\ path # <<>>
  /\ NavigationPoseAt(tick, Head(path), Push(Head(path)))
  /\ trail' = Push(Head(path))
  /\ travelled' = Append(travelled, Head(path))
  /\ path' = Tail(path)
  /\ tick' = NextTick
  /\ UNCHANGED <<phase, leg, smoothing>>

EndLeg ==
  /\ phase = "poses" /\ path = <<>> /\ Idle
  /\ phase' = IF leg = Legs THEN "end" ELSE "run"
  /\ UNCHANGED <<adapterVars, leg, tick, trail, path, smoothing, travelled>>

AdapterStep == (LogRow \/ Finish) /\ UNCHANGED episodeVars

AdapterFails ==
  /\ Fail
  /\ phase' = "end"
  /\ UNCHANGED <<leg, tick, trail, path, smoothing, travelled>>

(* "?" after every call: the episode goes on only with the calls answered.   *)
GoesOn == result \in {"none", "delivered"}

EpisodeNext ==
  \/ GoesOn /\ (Describe \/ LogMap \/ RunLeg \/ LogFrame \/ LogRun \/ LogPose \/ EndLeg)
  \/ AdapterStep
  \/ AdapterFails

EpisodeSpec ==
  /\ EpisodeInit
  /\ [][EpisodeNext]_<<adapterVars, episodeVars>>
  /\ WF_<<adapterVars, episodeVars>>(EpisodeNext)
------------------------------------------------------------------------------
EpisodeTypeOK ==
  /\ phase \in {"describe", "map", "run", "frame", "snapshot", "poses", "end"}
  /\ leg \in 0 .. Legs /\ tick \in Nat /\ Len(trail) <= MaxTrail
  /\ call.number <= MaxCalls
  /\ at.run = Unset

(* The trail shown at a tick is the last poses up to that tick, over leg      *)
(* boundaries, and ends with the robot's pose (doc of navigation_pose_at:     *)
(* "Advances the robot pose and replaces the bounded recent trail").          *)
TrailIsRecent ==
  \A r \in rows : r.entity = Navigation("recent_pose_trail") =>
    LET upTo == SubSeq(travelled, 1, r.time.tick + 1)
        size == IF Len(upTo) < MaxTrail THEN Len(upTo) ELSE MaxTrail
    IN  /\ r.time.tick < Len(travelled)
        /\ r.data.trail = SubSeq(upTo, Len(upTo) - size + 1, Len(upTo))
        /\ r.data.pose = Last(upTo)

(* At every tick the viewer shows the robot on the route of its own leg,      *)
(* and the Unit timings at that tick are of no other run: one row per entity. *)
RobotIsOnItsRoute ==
  /\ \A r \in rows : r.entity = Navigation("robot_pose") =>
       /\ \A shown \in ShownAt(Navigation("raw_path"), r.time.tick) :
            shown.data = r.data.pose[1]
       /\ \A s \in rows : s.entity = r.entity /\ s.time = r.time => s = r
  /\ \A r, s \in rows :
       r.entity = s.entity /\ r.time = s.time /\ r.time.tick # Unset => r.call = s.call

(* What a viewer can see at any tick of an episode, whatever fails.           *)
EpisodeInv == EpisodeTypeOK /\ TrailIsRecent /\ RobotIsOnItsRoute

(* Unless a row is lost or a run fails, the whole itinerary is driven: the        *)
(* adapter never refuses what the episode logs (a trail it finds too long).       *)
EpisodeEnds == <>(phase = "end")
==============================================================================
