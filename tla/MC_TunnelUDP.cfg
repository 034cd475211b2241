SPECIFICATION FairSpec
CONSTANTS
  f1 = f1
  f2 = f2
  Flows = {f1, f2}
  Cap = 1
  MaxSends <- Sends
  MaxRecvs <- Recvs
CHECK_DEADLOCK FALSE
INVARIANTS
  OneReceiveAtATime
  
PROPERTY FlowCloses
