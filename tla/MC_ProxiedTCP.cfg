SPECIFICATION FairSpec
CONSTANTS
  Conns = {c1, c2, c3}
  Dialers = {w1, w2}
  NoConn = NoConn
CHECK_DEADLOCK FALSE
INVARIANTS
  AnswerHasReceiver
  UpstreamHasOneOwner
  NothingLeftBehind
PROPERTIES
  HandleReturns
  ImplementsConnLife
