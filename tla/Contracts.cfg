SPECIFICATION ContractsSpec
CONSTANTS
  s1 = s1
  s2 = s2
  Stakers = {s1, s2}
  Amounts <- StakeAmounts
  Rates <- RewardRates
  Locks <- LockDurations
  MinLock = 1
  MaxLock = 2
  Precision = 4
  RewardFund = 2
  MaxStake = 8
  MaxEarly = 8
  MaxPools = 1
  MaxTime = 2
  m1 = m1
  m2 = m2
  k1 = k1
  k2 = k2
  i1 = i1
  i2 = i2
  r1 = r1
  r2 = r2
  Members = {m1, m2}
  GovAdmin = m1
  Threshold = 1
  VoteStakes = {0, 1}
  FeeValues = {7, 9}
  DefaultFee = 100
  MaxProposals = 2
  CarbonPrices = {1, 2}
  TimelockDelay = 2
  CarbonCalls = {k1, k2}
  MaxId = 3
  NoPending = NoPending
  PaymentIds = {i1, i2}
  PaymentRecords = {r1, r2}
  NoRecord = NoRecord
SYMMETRY Symmetry
CHECK_DEADLOCK FALSE
INVARIANTS
  TotalsAddUp
  PenaltyCovers
  EffectsFollowBallots
  PaymentsSurviveUpgrade
PROPERTIES
  LockNeverShortens
  TimelockHolds
