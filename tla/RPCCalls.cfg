SPECIFICATION FairSpec
CONSTANTS
  Calls = {k1, k2}
  None = None
  MaxDrops = 0
PROPERTY CallsEnd
CHECK_DEADLOCK FALSE
