SPECIFICATION Spec
CONSTANTS
  AssetIds = {a1, a2}
  Bases = {oldBase, newBase}
  OldBase = oldBase
  Requests = {r1, r2, r3}
  None = None
SYMMETRY Symmetry
INVARIANTS
  ReadyHasObject
  PublishedMediaStays
  AnsweredUrlIsFinal
CHECK_DEADLOCK FALSE
