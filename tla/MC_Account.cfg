SPECIFICATION Spec
CONSTANTS
  Emails = {e1, e2}
  NoEmail = NoEmail
  Calls = {c1, c2}
  MaxUsers = 3
  MaxSalts = 2
  MaxCalls = 3
  MaxBoots = 2
SYMMETRY Symmetry
CHECK_DEADLOCK FALSE
INVARIANTS
  TokenIsTheUsers
  WholeLogin
  SaltProves
  SignedOutIsAnonymous
  QuietHasUser
  
