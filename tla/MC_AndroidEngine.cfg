SPECIFICATION EngineSpec
CONSTANTS
  MaxBoots = 2
  MaxIncidents = 3
CHECK_DEADLOCK FALSE
INVARIANTS
  ReplicaIsLive
  ProSeesNoAds
PROPERTIES
  ImplementsProcess
