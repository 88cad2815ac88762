SPECIFICATION Spec
CONSTANTS
  r1 = r1
  r2 = r2
  k1 = k1
  k2 = k2
  u1 = u1
  NoWorker = NoWorker
  Requests = {r1, r2}
  Keys = {k1}
  Users = {u1}
  KeyOf <- RetryKeyOf
  UserOf <- OneUserOf
  AmountOf <- SameAmount
  Workers = {w1, w2}
  DailyLimit <- TierLimit
  WalletOwners = {u1}
  MaxAttempts = 2
  MaxStalledCount = 1
  MaxReplays = 1
  MaxFaults = 1
  MaxRiskUpdates = 0
  MaxDays = 0
CHECK_DEADLOCK FALSE
PROPERTY NoSubmissionAfterDecision
