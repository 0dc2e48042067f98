--------------------------- MODULE CloudRegistration ---------------------------
(***************************************************************************)
(* The point-cloud example: four stateless Units, and the host's copy of the      *)
(* last registration.  A cloud is its length, a sample the places it takes;       *)
(* ICP and the transformations are external and may fail.                      *)
(***************************************************************************)
EXTENDS Sampling

CONSTANTS
  CloudSizes,    \* lengths of the clouds given
  MinPoints,     \* 4
  MaxCloud,      \* MAX_INPUT_POINTS
  MaxPoints,     \* DemoConfig.max_points
  NoCloud        \* model value: no value

ASSUME CloudAssumption ==
  /\ CloudSizes \cup {MaxCloud} \subseteq Nat
  /\ {MinPoints, MaxPoints} \subseteq Nat \ {0}

VARIABLES
  cloudUnit,     \* the Unit that runs next, "idle" between runs
  clouds,        \* [source, target] of this run
  samples,       \* SampledClouds
  alignment,     \* what transform made: the points it aligned and compared with
  cloudSnapshot,
  lastClouds     \* the input of the last successful run (history)

cloudVars == <<cloudUnit, clouds, samples, alignment, cloudSnapshot, lastClouds>>
cloudHost == <<cloudSnapshot, lastClouds>>

CloudInit ==
  /\ cloudUnit = "idle"
  /\ clouds = NoCloud /\ samples = NoCloud /\ alignment = NoCloud
  /\ cloudSnapshot = NoCloud /\ lastClouds = NoCloud

StartClouds ==
  /\ cloudUnit = "idle"
  /\ \E s, t \in CloudSizes : clouds' = [source |-> s, target |-> t]
  /\ cloudUnit' = "sample"
  /\ samples' = NoCloud /\ alignment' = NoCloud
  /\ UNCHANGED cloudHost

FailClouds == cloudUnit' = "idle" /\ UNCHANGED <<clouds, samples, alignment, cloudHost>>

Accepted(pair) == \A c \in {pair.source, pair.target} : c \in MinPoints .. MaxCloud

(* Mutation of SampleClouds: each cloud is sampled for itself.                *)
SampleCloudsApart(pair) ==
  [source |-> BoundedSample(pair.source, MaxPoints), target |-> BoundedSample(pair.target, MaxPoints)]

SampleClouds(pair) ==
  LET count == Lesser(MaxPoints, Lesser(pair.source, pair.target))
  IN  [source |-> BoundedSample(pair.source, count), target |-> BoundedSample(pair.target, count)]

Sample ==
  /\ cloudUnit = "sample"
  /\ IF Accepted(clouds)
       THEN /\ samples' = SampleClouds(clouds)
            /\ cloudUnit' = "icp"
            /\ UNCHANGED <<clouds, alignment, cloudHost>>
       ELSE FailClouds

Icp ==
  /\ cloudUnit = "icp"
  /\ \/ FailClouds
     \/ cloudUnit' = "transform" /\ UNCHANGED <<clouds, samples, alignment, cloudHost>>

Transform ==
  /\ cloudUnit = "transform"
  /\ \/ FailClouds
     \/ /\ alignment' = [aligned |-> samples.source, against |-> samples.target]
        /\ cloudUnit' = "metrics"
        /\ UNCHANGED <<clouds, samples, cloudHost>>

(* The last Unit passes the registration on; the host copies it.              *)
CopyRegistration ==
  /\ cloudUnit = "metrics"
  /\ cloudUnit' = "idle"
  /\ cloudSnapshot' = alignment
  /\ lastClouds' = clouds
  /\ UNCHANGED <<clouds, samples, alignment>>

CloudNext == StartClouds \/ Sample \/ Icp \/ Transform \/ CopyRegistration

CloudSpec == CloudInit /\ [][CloudNext]_cloudVars
------------------------------------------------------------------------------
(* The registration the host holds is of its last successful run, and clouds of   *)
(* any two lengths are compared by as many points of each, at most MaxPoints,      *)
(* spread over the whole of both (the descriptor of SampledClouds: "source and     *)
(* target sample counts agree").                                             *)
SamplesAgree ==
  cloudSnapshot # NoCloud =>
    LET of(total, sample) ==
          /\ \A i \in DOMAIN sample : sample[i] \in 0 .. total - 1
          /\ \A i \in 1 .. Len(sample) - 1 : sample[i] < sample[i + 1]
          /\ sample[1] = 0
          /\ (total - 1 - sample[Len(sample)]) * Len(sample) < total
    IN  /\ of(lastClouds.source, cloudSnapshot.aligned)
        /\ of(lastClouds.target, cloudSnapshot.against)
        /\ Len(cloudSnapshot.aligned) = Len(cloudSnapshot.against)
        /\ Len(cloudSnapshot.aligned) <= MaxPoints
        /\ Len(cloudSnapshot.aligned) \in {MaxPoints, lastClouds.source, lastClouds.target}
==============================================================================
