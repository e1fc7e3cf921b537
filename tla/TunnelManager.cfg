SPECIFICATION FairSpec
CONSTANTS
  Hosts = {h1}
  Ports = {1, 2}
  Health = Health
  NoPort = NoPort
  NoHost = NoHost
  Free = Free
  Other = Other
  MaxDisturbances = 2
  Kinds = {"hung", "teardown", "master", "port", "restart"}
  MaxDepth = 4
INVARIANTS Inv
PROPERTIES ForwardsAreFlights CallsReturn
