------------------------------- MODULE MCLive -------------------------------
(* What must happen in the end: to jobs of the publish service, to builds of *)
(* the worker, and to the presses of a visitor on the player.  They share no *)
(* state here (EndToEnd is where service and worker meet), so the first      *)
(* state says which of them runs, and whose fairness holds.                  *)
EXTENDS Publishing

CONSTANTS Targets, Workers, Operators, Tracks, MaxRequests

VARIABLES half,
          tasks, config, lock, workers, cloud, flying, calls, builtBy, steady,
          current, status, duration, request, generation, media, elements

Worker == INSTANCE Publisher WITH procs <- workers
Player == INSTANCE AudioPlayer

workerVars == <<tasks, config, lock, workers, cloud, flying, calls, builtBy, steady>>
playerVars == <<current, status, duration, request, generation, media, elements>>

LiveInit == Init /\ Worker!Init /\ Player!Init /\ half \in {"service", "worker", "player"}

LiveNext ==
  \/ half = "service" /\ Next /\ UNCHANGED <<half, workerVars, playerVars>>
  \/ half = "worker" /\ Worker!Next /\ UNCHANGED <<half, vars, playerVars>>
  \/ half = "player" /\ Player!Next /\ UNCHANGED <<half, vars, workerVars>>

LiveSpec ==
  /\ LiveInit /\ [][LiveNext]_<<half, vars, workerVars, playerVars>>
  /\ \/ half = "service" /\ Fairness
     \/ half = "worker" /\ Worker!Fairness
     \/ half = "player" /\ Player!Fairness

\* Publisher: every queued build ends, given a recovery of each uncertain submission.
BuildsEnd == Worker!BuildsEnd

\* AudioPlayer: the player does not stay in the loading state.
LoadingEnds == Player!LoadingEnds
============================================================================
