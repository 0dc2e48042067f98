------------------------------ MODULE MCExamples ------------------------------
(* The examples and the allocation harness: the planner and the host of the      *)
(* navigation example, the LiDAR example, the two registrations, the probe.      *)
EXTENDS MCNavigation, NavigationHost, MCLidarSlam, ImageRegistration, CloudRegistration,
        AllocationProbe

(* Lists of matches of one to four matches, one of which has a place that one    *)
(* image does not have.                                                     *)
MCMatchLists ==
  {<<<<0, 0>>>>, <<<<0, 1>>, <<1, 0>>>>, <<<<2, 1>>, <<1, 2>>, <<0, 0>>>>,
   <<<<0, 0>>, <<1, 1>>, <<2, 2>>, <<1, 2>>>>}

(* The six share no variable, so a property of one holds in their product        *)
(* exactly if it holds with the others at rest: part names the one that moves,   *)
(* and the sum of the state spaces is checked.                                *)
VARIABLE part

MCInit ==
  /\ PlannerInit /\ NavHostInit /\ LidarInit /\ ImageInit /\ CloudInit /\ ProbeInit
  /\ part \in {"planner", "host", "lidar", "image", "cloud", "probe"}
  /\ part # "planner" => algorithm = "AStar" /\ work = <<G(3, 3, {}, 0, 0, 8)>>

MCNext ==
  /\ UNCHANGED part
  /\ \/ /\ part = "planner" /\ PlannerNext
        /\ UNCHANGED <<navHostVars, lidarVars, imageVars, cloudVars, probeVars>>
     \/ /\ part = "host" /\ NavHostNext
        /\ UNCHANGED <<plannerVars, lidarVars, imageVars, cloudVars, probeVars>>
     \/ /\ part = "lidar" /\ LidarNext
        /\ UNCHANGED <<plannerVars, navHostVars, imageVars, cloudVars, probeVars>>
     \/ /\ part = "image" /\ ImageNext
        /\ UNCHANGED <<plannerVars, navHostVars, lidarVars, cloudVars, probeVars>>
     \/ /\ part = "cloud" /\ CloudNext
        /\ UNCHANGED <<plannerVars, navHostVars, lidarVars, imageVars, probeVars>>
     \/ /\ part = "probe" /\ ProbeNext
        /\ UNCHANGED <<plannerVars, navHostVars, lidarVars, imageVars, cloudVars>>

MCSpec ==
  MCInit /\ [][MCNext]_<<plannerVars, navHostVars, lidarVars, imageVars, cloudVars, probeVars, part>>
==============================================================================
