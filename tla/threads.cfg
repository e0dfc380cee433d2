CONSTANTS
  r1 = r1
  r2 = r2
  r3 = r3
  r4 = r4
  x = x
  y = y
  None = None
  ReplicaIds <- FourIds
  MaxView = 0
  Block <- TwoBlocks
  Index <- SameIndex
  Parent <- NoParent
  Faulty = {r1}
  FaultySends <- EquivocatingPrimary
  Routes <- NoRoutes
SPECIFICATION ThreadsSpec
INVARIANT SameViewAgreement
SYMMETRY BackupSym
CHECK_DEADLOCK FALSE
