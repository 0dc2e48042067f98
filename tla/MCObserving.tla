------------------------------ MODULE MCObserving ------------------------------
(* What watches a run: the bounded sink, the controller around the Rerun          *)
(* adapter, and the episode of the navigation example that drives that adapter.   *)
EXTENDS BoundedRunSink, AdapterController, NavigationEpisode

CONSTANT ControllerCalls  \* bound on the calls of the controller

(* Sink and adapter share no variable, and controller and episode are two hosts    *)
(* of the adapter: part names the one that moves, and the sum of the three state   *)
(* spaces is checked.                                                         *)
VARIABLE part

observingVars == <<sinkVars, adapterVars, controllerVars, episodeVars, part>>

MCInit ==
  /\ SinkInit /\ ControllerInit /\ EpisodeInit
  /\ part \in {"sink", "controller", "episode"}
  /\ part # "controller" => policy = "report"
  /\ part # "episode" => ~smoothing

SinkStep ==
  part = "sink" /\ SinkNext /\ UNCHANGED <<adapterVars, controllerVars, episodeVars, part>>

ControllerStep ==
  /\ part = "controller" /\ ControllerNext
  /\ call'.number <= ControllerCalls
  /\ UNCHANGED <<sinkVars, episodeVars, part>>

EpisodeStep ==
  part = "episode" /\ EpisodeNext /\ UNCHANGED <<sinkVars, controllerVars, part>>

MCNext == SinkStep \/ ControllerStep \/ EpisodeStep

(* As EpisodeSpec, the episode goes on as long as it can.                      *)
MCSpec == MCInit /\ [][MCNext]_observingVars /\ WF_observingVars(EpisodeStep)
------------------------------------------------------------------------------
(* The invariants of the controller and of the episode, each for its own host of   *)
(* the adapter: a report set to a timeline by one is not set by the other.         *)
Controlled == part = "controller" => ControllerInv
Displayed  == part = "episode" => EpisodeInv

(* An episode drives its whole itinerary unless a row is lost or a run fails      *)
(* (run_episode).                                                             *)
EpisodesEnd == part = "episode" => EpisodeEnds
==============================================================================
