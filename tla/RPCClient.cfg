SPECIFICATION TimedSpec
CONSTANTS
  Calls = {k1, k2}
  None = None
  MaxDrops = 1
INVARIANTS Inv
PROPERTIES RequestsEnd
CHECK_DEADLOCK FALSE
