CONSTANTS
  t1 = t1
  t2 = t2
  w1 = w1
  Thread = {t1, t2}
  Work = {w1}
  NoWork = NoWork
  NoCall = NoCall
  Legacy <- MixedBook
  PeerBlocks <- RivalBlocks
  Exclusive = 3
  Replica = TRUE
  PopulationReward = 2
  MaxSupply = 9
  Drawn = 5
  MaxHash = 7
  chunk1 = chunk1
  chunk2 = chunk2
  ownerNode = ownerNode
  otherNode = otherNode
  Chunk = {chunk1, chunk2}
  PoolNode = {ownerNode, otherNode}
  Owner = ownerNode
  WorkerOf <- ChunkWorkers
  PoolThread = {p1, p2}
  NoJob = NoJob
  PoolIdle = PoolIdle
  MaxBlocks = 2
  Founder = founder
  Applicant = {applicant}
  GroupThread = {g1, g2}
  GroupIdle = GroupIdle
  MaxRequests = 2
  Wallet = {wallet1, wallet2}
  Device = {device}
  Nobody = Nobody
  MaxBindings = 3
  MaxPurges = 2
  r1 = r1
  r2 = r2
  r3 = r3
  r4 = r4
  ViewReplicas <- FourReplicas
  MaxDown = 1
  LastView = 4
  CalmViews = 1
  Operator = TRUE
  Appender = appender
  Reader = {reader1, reader2}
  Torn = Torn
  NoMeta = NoMeta
  MaxPieces = 4
  SyncNode = {n1, n2, n3}
  SyncThread = {s1, s2}
  NoWrite = NoWrite
  MaxDrawn = 3
  Voter = {creator1, voter2}
  Creator = creator1
  NoCreator = NoCreator
  VoteThread = {v1, v2}
  VoteIdle = VoteIdle
  MaxVotes = 3
  Grace = 3
  MinStreak = 2
  Never = Never
  FleetOwner = {owner1, owner2}
  Human = {human}
  Alone = Alone
  MaxRows = 3
  MaxMoves = 1
  MaxWaiting = 2
  Suspect = {suspect1, suspect2}
  SlashThread = {k1, k2}
  SlashIdle = SlashIdle
  CutLine = CutLine
  Unreadable = Unreadable
  MaxSlashes = 3
  MaxCuts = 1
  Token = {token1, token2}
  Scope = {scope1, scope2}
  Unissued = Unissued
  MaxAttempts = 3
  Person = {person1, person2, person3}
  FounderPerson = person1
  NoAuthority = NoAuthority
  NoLine = NoLine
  ControlThread = {c1}
  OtherThread = {c2}
  ControlIdle = ControlIdle
  MaxTransfers = 2
  MaxLines = 3
SPECIFICATION ServicesSpec
INVARIANTS
  TypeOK
  ServicesTypeOK
  LinesExtendLines
  ExclusiveRangeCertified
  WorkPaidOnce
  DoneWasDelivered
  OnlyCompleteJobsFinalized
  FounderKept
  ApprovedWasAdmitted
  OneActivePerDevice
  NoBindingVanishes
  LookupRight
  IndexExact
  SamePast
  VetoHolds
  OutcomeOfTheVotes
  GraceGiven
  BoundOnce
  NoMachineLost
  BanKept
  TrailExplains
  AuthorityAgreed
PROPERTIES
  RevokedForGood
SYMMETRY ThreadSymmetry
CONSTRAINT IndexUncrossed
CHECK_DEADLOCK FALSE
