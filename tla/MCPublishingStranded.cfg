SPECIFICATION MemorySpec
CONSTANTS
  VersionIds = {v1, v2}
  Contents = {c1}
  Keys = {k1}
  Actors = {alice}
  Requests = {r1, r2}
  Reconciler = reconciler
  None = None
  NoContent = NoContent
  MaxRevision = 3
INVARIANTS
  PublishingHasJob
CHECK_DEADLOCK FALSE
