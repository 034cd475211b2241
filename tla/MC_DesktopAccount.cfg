SPECIFICATION DesktopSpec
CONSTANTS
  Emails = {e1, e2}
  NoEmail = NoEmail
  Campaigns = {k1, k2}
  Calls = {c1, c2}
  MaxUsers = 3
  MaxSalts = 2
  MaxCalls = 3
  MaxBoots = 2
SYMMETRY Symmetry
CHECK_DEADLOCK FALSE
INVARIANTS
  SaltProves
  CacheIsOwn
  
  
