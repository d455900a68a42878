SPECIFICATION LiveSpec
CONSTANTS
  VersionIds = {v1}
  Contents = {c1}
  Keys = {k1, k2}
  Actors = {alice}
  Requests = {r1}
  Reconciler = reconciler
  None = None
  NoContent = NoContent
  MaxRevision = 5
  Targets = {t1}
  Workers = {w1}
  Operators = {admin}
  Tracks = {tr1, tr2}
  MaxRequests = 3
PROPERTIES
  JobsEnd
  BuildsEnd
  LoadingEnds
CHECK_DEADLOCK FALSE
