SPECIFICATION Spec
CONSTANTS
  Keys = {k1, k2}
  Targets = {t1, t2}
  Workers = {w1, w2}
  Operators = {admin}
  None = None
SYMMETRY Symmetry
INVARIANTS
  NoSecondCreation
  BuiltByFrozenTarget
  ResultsAreReal
PROPERTIES
  ImplementsTrigger
CHECK_DEADLOCK FALSE
