SPECIFICATION ServerSpec
CONSTANTS
  Procs = {p1, p2}
  Keys = {k1}
  Stored = Stored
  JobKeys = {i1}
  VersionIds = {v1}
  Contents = {c1, c2}
  NoContent = NoContent
  MaxRevision = 4
  Clients = {alice}
  NoView = NoView
  Actors = {actor}
  HttpRequests = {r1}
  Reconciler = reconciler
  None = None
  Targets = {t1}
  Workers = {w1}
  Operators = {}
INVARIANTS
  FilesMatchObjects
  ReleasedInOrder
  LiveWasReadAndBuilt
PROPERTIES
  ShutdownEnds
  PartsAsSpecified
