SPECIFICATION Spec
CONSTANTS
  Keys = {k1}
  Targets = {t1}
  Workers = {w1}
  Operators = {admin}
  None = None
PROPERTIES
  SubmitsUnderLock
CHECK_DEADLOCK FALSE
