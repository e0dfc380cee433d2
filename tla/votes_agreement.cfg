CONSTANTS
  r1 = r1
  r2 = r2
  r3 = r3
  r4 = r4
  r5 = r5
  x = x
  y = y
  None = None
  ReplicaIds <- FourIds
  MaxView = 1
  Block <- TwoBlocks
  Index <- SameIndex
  Parent <- NoParent
  Faulty = {}
  FaultySends <- NoSends
  Routes <- HonestMoveOn
SPECIFICATION VotesSpec
CONSTRAINT PartitionedPrimary
INVARIANT CertificateAgreement
CHECK_DEADLOCK FALSE
