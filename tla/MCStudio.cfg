SPECIFICATION StudioSpec
CONSTANTS
  VersionIds = {ver1, ver2}
  Contents = {c1, c2}
  Clients = {alice, bob}
  NoContent = NoContent
  NoView = NoView
  MaxRevision = 6
  WrittenRevisions = {3, 4, 5}
  Tabs = {t1, t2}
  MaxFlows = 2
  MaxTime = 2
  FlowLife = 1
  SessionLife = 2
  TokenLives = {1, 2}
  Kids = {kid1, kid2}
  TTL = 4
  Cooldown = 2
  FetchTime = 1
  MaxKeyTime = 7
  None = None
  NoKey = NoKey
SYMMETRY Symmetry
INVARIANTS
  StudioTypeOK
  ApprovedContentWasRead
  FlowSpentOnce
  SessionsEnd
  KeysFollowTheProvider
PROPERTIES
  NoLostUpdate
CHECK_DEADLOCK FALSE
