SPECIFICATION Spec
CONSTANTS
  s1 = s1
  s2 = s2
  Stakers = {s1, s2}
  Amounts <- StakeAmounts
  Rates <- RewardRates
  Locks <- LockDurations
  MinLock = 1
  MaxLock = 2
  Precision = 4
  RewardFund = 2
  MaxStake = 8
  MaxEarly = 8
  MaxPools = 1
  MaxTime = 2
SYMMETRY Symmetry
CHECK_DEADLOCK FALSE
PROPERTY ClaimLeavesNothing
