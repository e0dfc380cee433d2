CONSTANTS
  r1 = r1
  r2 = r2
  r3 = r3
  r4 = r4
  x = x
  y = y
  None = None
  ReplicaIds <- FourIds
  MaxView = 1
  Block <- TwoBlocks
  Index <- SameIndex
  Parent <- NoParent
  Faulty = {r1}
  FaultySends <- EquivocatingPrimary
  Routes <- MoveOnOrForget
SPECIFICATION FinalitySpec
INVARIANT StoresTypeOK
INVARIANT PreparedStillProven
PROPERTY VotesSpec
SYMMETRY BackupSym
CONSTRAINT ViewOneIdle
ACTION_CONSTRAINT LateLoss
CHECK_DEADLOCK FALSE
