CONSTANTS
  r1 = r1
  r2 = r2
  r3 = r3
  r4 = r4
  r5 = r5
  x = x
  y = y
  None = None
  ReplicaIds <- FourIds
  MaxView = 1
  Block <- TwoBlocks
  Index <- SameIndex
  Parent <- NoParent
  Faulty = {r1}
  FaultySends <- EquivocatingTwice
  Routes <- MoveOn
SPECIFICATION VotesSpec
INVARIANT TypeOK
INVARIANT OneVotePerSlot
INVARIANT SameViewAgreement
INVARIANT BookFollowsCertificates
PROPERTY CertifiedIndexKept
PROPERTY PreparedValueHeld
SYMMETRY BlockSym
CONSTRAINT MoveOnAfterAccepting
CHECK_DEADLOCK FALSE
