SPECIFICATION RaceSpec
CONSTANTS
  VersionIds = {v1, v2}
  Contents = {c1}
  Keys = {k1, k2}
  Actors = {alice}
  Requests = {r1, r2}
  Reconciler = reconciler
  None = None
  NoContent = NoContent
  MaxRevision = 6
  ProductionEdits = 4
SYMMETRY Symmetry
INVARIANTS
  OneActiveJob
  TargetsStayAttended
PROPERTIES
  JobsMoveForward
  ImplementsSlot
CHECK_DEADLOCK FALSE
