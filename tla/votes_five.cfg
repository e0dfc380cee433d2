CONSTANTS
  r1 = r1
  r2 = r2
  r3 = r3
  r4 = r4
  r5 = r5
  x = x
  y = y
  None = None
  ReplicaIds <- FiveIds
  MaxView = 0
  Block <- TwoBlocks
  Index <- SameIndex
  Parent <- NoParent
  Faulty = {r1}
  FaultySends <- EquivocatingPrimary
  Routes <- NoRoutesFive
SPECIFICATION VotesSpec
INVARIANT SameViewAgreement
SYMMETRY BackupSymFive
CHECK_DEADLOCK FALSE
