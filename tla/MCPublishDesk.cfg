SPECIFICATION DeskSpec
CONSTANTS
  Versions = {v1}
  MaxKeys = 2
  MaxJobs = 2
  MaxLives = 1
PROPERTIES KeyOutlivesOutcome
CHECK_DEADLOCK FALSE
