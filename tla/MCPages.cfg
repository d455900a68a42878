SPECIFICATION PagesSpec
CONSTANTS
  Tracks = {t1, t2}
  None = None
  MaxRequests = 4
  Versions = {v1}
  MaxKeys = 2
  MaxJobs = 2
  MaxLives = 1
  Ids = {1, 2}
  Created <- SameTime
  PageSize = 1
  MaxUploads = 2
  Filters = {"", "pending", "ready", "deleted"}
INVARIANTS
  PagesTypeOK
  OneSounding
  ButtonIsTrue
  OneKeyPerAttempt
  EndIsSynced
  NothingSkipped
  ShownIsCurrent
PROPERTIES
  ShownWasAskedFor
CHECK_DEADLOCK FALSE
