--------------------------- MODULE ImageRegistration ---------------------------
(***************************************************************************)
(* The image example: six stateless Units in the order of the run, and the       *)
(* host's copy of the last registration.  An image is its size, a keypoint its   *)
(* place; detection, matching, RANSAC and warping are external: they fail, or    *)
(* answer within what the code passes on.                                     *)
(***************************************************************************)
EXTENDS Integers, Sequences, FiniteSets

CONSTANTS
  ImageSizes,   \* sizes of images, in pixels
  MaxPixels,    \* DemoConfig.max_pixels
  MaxMatches,   \* DemoConfig.max_matches
  Keypoints,    \* how many keypoints an image may have
  MatchLists,   \* what the matcher may answer: pairs of places
  MinMatches,   \* 4
  NoImage       \* model value: no value

ASSUME ImageAssumption ==
  /\ ImageSizes \cup {MaxPixels, MaxMatches, MinMatches} \cup Keypoints \subseteq Nat
  /\ MatchLists \subseteq Seq(Nat \X Nat)

VARIABLES
  imageUnit,    \* the Unit that runs next, "idle" between runs
  pair,         \* [source, target] of this run
  features,     \* keypoints of both
  candidates,   \* CandidateMatches.matches
  registration, \* ImageRegistration, as the Units fill it
  points,       \* the published result: matches with their flag
  imageSnapshot,
  lastSuccess   \* what the last successful run was given and published (history)

imageVars == <<imageUnit, pair, features, candidates, registration, points,
               imageSnapshot, lastSuccess>>
values == <<features, candidates, registration, points>>
host == <<imageSnapshot, lastSuccess>>

ImageInit ==
  /\ imageUnit = "idle"
  /\ pair = NoImage /\ features = NoImage /\ candidates = NoImage
  /\ registration = NoImage /\ points = <<>>
  /\ imageSnapshot = NoImage /\ lastSuccess = NoImage

StartImages ==
  /\ imageUnit = "idle"
  /\ \E source, target \in ImageSizes : pair' = [source |-> source, target |-> target]
  /\ imageUnit' = "grayscale"
  /\ features' = NoImage /\ candidates' = NoImage /\ registration' = NoImage /\ points' = <<>>
  /\ UNCHANGED host

(* A Unit that fails ends the run; nothing of it is visible to the host.        *)
FailImages == imageUnit' = "idle" /\ UNCHANGED <<pair, values, host>>

Grayscale ==
  /\ imageUnit = "grayscale"
  /\ \/ FailImages
     \/ /\ pair.source = pair.target /\ pair.source <= MaxPixels
        /\ imageUnit' = "orb"
        /\ UNCHANGED <<pair, values, host>>

Orb ==
  /\ imageUnit = "orb"
  /\ \/ FailImages
     \/ /\ \E s, t \in Keypoints : features' = [source |-> s, target |-> t]
        /\ imageUnit' = "match"
        /\ UNCHANGED <<pair, candidates, registration, points, host>>

Match ==
  /\ imageUnit = "match"
  /\ candidates' \in MatchLists
  /\ imageUnit' = "homography"
  /\ UNCHANGED <<pair, features, registration, points, host>>

(* Mutation of Registrable: an index one past the last keypoint is let through. *)
RegistrableLoose(matches) ==
  /\ Len(matches) >= MinMatches
  /\ \A i \in DOMAIN matches : matches[i][1] <= features.source /\ matches[i][2] <= features.target

Registrable(matches) ==
  /\ Len(matches) >= MinMatches
  /\ \A i \in DOMAIN matches : matches[i][1] < features.source /\ matches[i][2] < features.target

(* RANSAC answers a mask of the correspondences with enough inliers, or fails.   *)
Homography ==
  /\ imageUnit = "homography"
  /\ \/ FailImages
     \/ /\ Registrable(candidates)
        /\ \E mask \in [DOMAIN candidates -> BOOLEAN] :
             /\ Cardinality({i \in DOMAIN mask : mask[i]}) >= MinMatches
             /\ registration' = [features |-> features, matches |-> candidates, inliers |-> mask,
                                 warped |-> 0, targetGray |-> 0]
        /\ imageUnit' = "warp"
        /\ UNCHANGED <<pair, features, candidates, points, host>>

Warp ==
  /\ imageUnit = "warp"
  /\ \/ FailImages
     \/ /\ registration' = [registration EXCEPT !.warped = pair.source, !.targetGray = pair.target]
        /\ imageUnit' = "metrics"
        /\ UNCHANGED <<pair, features, candidates, points, host>>

Correspondence(i) ==
  [source |-> registration.matches[i][1], target |-> registration.matches[i][2],
   inlier |-> registration.inliers[i]]

(* The points pushed; more than the capacity ends the run with a capacity error. *)
Pushed == [i \in 1 .. Len(registration.matches) |-> Correspondence(i)]

(* The last Unit; after a successful run the host copies the registration.      *)
Metrics ==
  /\ imageUnit = "metrics"
  /\ IF Len(Pushed) > MaxMatches
       THEN FailImages
       ELSE /\ points' = Pushed
            /\ imageUnit' = "idle"
            /\ imageSnapshot' = registration
            /\ lastSuccess' = [pair |-> pair, points |-> Pushed]
            /\ UNCHANGED <<pair, features, candidates, registration>>

ImageNext ==
  StartImages \/ Grayscale \/ Orb \/ Match \/ Homography \/ Warp \/ Metrics

ImageSpec == ImageInit /\ [][ImageNext]_imageVars
------------------------------------------------------------------------------
(* The host's registration is of its last successful run, whatever failed        *)
(* since, at whichever Unit: both images have the size of that run's pair, every  *)
(* match joins keypoints both images have, and the published points are all of    *)
(* its matches, in order, with the flags RANSAC gave them.                      *)
RegistrationIsWhole ==
  imageSnapshot # NoImage =>
    /\ imageSnapshot.warped = lastSuccess.pair.source
    /\ imageSnapshot.targetGray = imageSnapshot.warped
    /\ Len(lastSuccess.points) = Len(imageSnapshot.matches)
    /\ Len(imageSnapshot.matches) \in MinMatches .. MaxMatches
    /\ \A i \in DOMAIN imageSnapshot.matches :
         LET p == lastSuccess.points[i]
         IN  /\ <<p.source, p.target>> = imageSnapshot.matches[i]
             /\ p.source < imageSnapshot.features.source
             /\ p.target < imageSnapshot.features.target
             /\ p.inlier = imageSnapshot.inliers[i]
==============================================================================
