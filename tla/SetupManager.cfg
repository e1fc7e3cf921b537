SPECIFICATION FairSpec
CONSTANTS
  h1 = h1
  h2 = h2
  p1 = p1
  p2 = p2
  p3 = p3
  Callers = {c1, c2}
  Projects = {p1, p2, p3}
  Hosts = {h1, h2}
  HostOf <- TwoHosts
  Setups = {s1, s2}
  NoSetup = NoSetup
  NoProject = NoProject
  Nobody = Nobody
INVARIANTS
  TypeOK
  OneSshPerHost
  OneRunPerSetup
  ReadyIsEarned
  HealthCacheHonest
PROPERTIES
  InvalidationSticks
  SetupsAreFlights
  CallsAnswered
