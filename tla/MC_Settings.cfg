SPECIFICATION Spec
CONSTANTS
  Setters = {t1, t2}
  UIReader = {t2}
  Users = {1, 2}
  Values = {1}
  MaxEntries = 2
  MaxSets = 3
  MaxCrashes = 1
CHECK_DEADLOCK FALSE
INVARIANTS
  
  SynchronizedUnlessOverlapped
  WaitMissesNoUser
