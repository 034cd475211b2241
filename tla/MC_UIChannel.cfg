SPECIFICATION FairSpec
CONSTANTS
  Services = {settings, pro}
  Hello = {settings}
  Direct = {pro}
  Clients = {c1, c2}
  Healthy = {c1}
  OutCap = 2
  RemoveCap = 1
  MaxVersion = 1
CHECK_DEADLOCK FALSE
INVARIANTS
  NoSendOnClosed
  ReachesGreeted
PROPERTIES
  SlowClientIsHarmless
