SPECIFICATION LocalSpec
CONSTANTS
  Clients = {c1, c2, c3}
  Daemons = {d1, d2, d3}
  None = None
  MaxKills = 1
  MaxDeaths = 2
INVARIANTS LocalTypeOK OneServes ServingIsReachable
SYMMETRY Interchangeable
CHECK_DEADLOCK FALSE
