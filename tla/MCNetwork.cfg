CONSTANTS
  p1 = p1
  p2 = p2
  p3 = p3
  App = App
  Peer <- MCPeer
  MsgType <- MCMsgType
  MaxMsgs = 3
  MaxConfig = 2
SPECIFICATION Spec
SYMMETRY MCSymmetry
INVARIANT NoSilentLoss
PROPERTIES PerLinkFifo SendProgress
CHECK_DEADLOCK FALSE
