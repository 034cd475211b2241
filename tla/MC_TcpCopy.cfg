SPECIFICATION FairSpec
CONSTANT MaxChunks = 3
CHECK_DEADLOCK FALSE
INVARIANTS
  ReaderIsWatched
PROPERTY IdleIsClosed
