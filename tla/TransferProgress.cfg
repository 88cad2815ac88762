SPECIFICATION FairSpec
CONSTANTS
  r1 = r1
  r2 = r2
  k1 = k1
  k2 = k2
  u1 = u1
  NoWorker = NoWorker
  Requests = {r1, r2}
  Keys = {k1}
  Users = {u1}
  KeyOf <- RetryKeyOf
  UserOf <- OneUserOf
  AmountOf <- OtherAmount
  Workers = {w1}
  DailyLimit <- TierLimit
  WalletOwners = {u1}
  MaxAttempts = 2
  MaxStalledCount = 1
  MaxReplays = 0
  MaxFaults = 1
  MaxRiskUpdates = 1
  MaxDays = 1
CHECK_DEADLOCK FALSE
INVARIANTS
  OneRowPerKey
  SubmittedAmountIsApproved
PROPERTIES
  DecidedStaysDecided
  AcceptedIsResolved
