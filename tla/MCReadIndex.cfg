CONSTANTS
  s1 = s1
  s2 = s2
  s3 = s3
  c1 = c1
  c2 = c2
  Server <- MCServer
  Self = s1
  Ctx <- MCCtx
  MaxTerm = 2
  MaxIndex = 2
  ReuseCtx = FALSE
SYMMETRY MCSymmetry
SPECIFICATION Spec
INVARIANTS
  TypeOK
  WaitingWithinQueue
  ReleaseOrder
  ReleasedConfirmed
  GatedReadsFresh
