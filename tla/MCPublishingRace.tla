-------------------------- MODULE MCPublishingRace --------------------------
(* Two HTTP requests beside the reconciler, on two versions, over the stores *)
(* of production or of development: the first state says which.              *)
EXTENDS DevelopmentPublishing, TLC

CONSTANT ProductionEdits   \* the last revision editors write in production

VARIABLE stack

\* The publish service never changes a version without its jobs.
EditsEnd ==
  jobs' = jobs =>
    \A id \in VersionIds : versions'[id] # versions[id] => versions'[id].revision <= ProductionEdits

RaceInit == MemoryInit /\ stack \in {"production", "development"}

RaceNext ==
  \/ stack = "production" /\ Next /\ EditsEnd /\ UNCHANGED <<successful, stack>>
  \/ stack = "development" /\ MemoryNext /\ UNCHANGED stack

RaceSpec == RaceInit /\ [][RaceNext]_<<memoryVars, stack>>

\* The identifiers are interchangeable; the reconciler is one of a kind.
Symmetry == Permutations(VersionIds) \cup Permutations(Keys) \cup Permutations(Requests)

\* A version in "publishing" has the job that will release it.  In development,
\* where nothing is rolled back, only a reused key leaves one without, and a
\* rollback finds what was live.
TargetsStayAttended ==
  IF stack = "production" THEN PublishingHasJob ELSE StrandedByReuse /\ HistoryIsIndexed
============================================================================
