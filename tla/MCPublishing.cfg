SPECIFICATION Spec
CONSTANTS
  VersionIds = {v1,v2}
  Contents = {c1,c2}
  Keys = {k1,k2,k3}
  Actors = {alice}
  Requests = {r1}
  Reconciler = reconciler
  None = None
  NoContent = NoContent
  MaxRevision = 5
SYMMETRY Symmetry
INVARIANTS
  PublishingHasJob
  PublishedIsPointer
  PointerServesReviewedContent
  TargetFrozenOrWithdrawn
  HistoryIsPublished
  BuildsServeTheActiveJob
PROPERTIES
  JobsEndAsBuilt
CHECK_DEADLOCK FALSE
