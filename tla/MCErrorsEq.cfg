CONSTANTS
  IoKind <- MCIoKind
  IoMsg <- MCIoMsg
  Desc <- MCDesc
  ProtoErr <- MCProtoErr
  NodeId <- MCNodeId
  SetName <- MCSetName
SPECIFICATION Spec
INVARIANTS
  EqMatchesReference
