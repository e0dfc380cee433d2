CONSTANTS
  t1 = t1
  t2 = t2
  w1 = w1
  Thread = {t1}
  Work = {w1}
  NoWork = NoWork
  NoCall = NoCall
  Legacy <- MixedBook
  PeerBlocks <- RivalBlocks
  Exclusive = 3
  Replica = TRUE
  PopulationReward = 2
  MaxSupply = 9
  Drawn = 5
  MaxHash = 8
SPECIFICATION LedgerSpec
INVARIANT SupplyCapped
CHECK_DEADLOCK FALSE
