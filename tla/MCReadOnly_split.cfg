CONSTANTS
  c1 = c1
  c2 = c2
  c3 = c3
  Ctx <- MCCtx
  Peer <- MCPeer
  MaxIndex = 2
SYMMETRY MCSymmetry
SPECIFICATION Spec
INVARIANTS
  WaitingWithinQueue
