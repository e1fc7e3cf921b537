SPECIFICATION MuxFairSpec
CONSTANTS
  Clients = {c1, c2}
  Openers = {l1, l2}
  Hosts = {h1}
  Sessions = {s1, s2}
  NoSession = NoSession
  NoHost = NoHost
INVARIANTS MuxInv PathIsServed
PROPERTIES MapFollowsSessions ClientsGetAnAnswer
CHECK_DEADLOCK FALSE
