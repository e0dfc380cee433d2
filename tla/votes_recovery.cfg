CONSTANTS
  r1 = r1
  r2 = r2
  r3 = r3
  r4 = r4
  r5 = r5
  x = x
  y = y
  None = None
  ReplicaIds <- FourIds
  MaxView = 1
  Block <- TwoBlocks
  Index <- SameIndex
  Parent <- NoParent
  Faulty = {r4}
  FaultySends <- UnprovenClaim
  Routes <- EveryRequest
SPECIFICATION VotesSpec
CONSTRAINT ViewOneIdle
INVARIANT VotesInv
SYMMETRY BlockSym
CHECK_DEADLOCK FALSE
