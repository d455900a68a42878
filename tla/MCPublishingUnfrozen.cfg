SPECIFICATION Spec
CONSTANTS
  VersionIds = {v1, v2}
  Contents = {c1}
  Keys = {k1}
  Actors = {alice}
  Requests = {r1}
  Reconciler = reconciler
  None = None
  NoContent = NoContent
  MaxRevision = 5
INVARIANTS
  TargetStaysFrozen
CHECK_DEADLOCK FALSE
