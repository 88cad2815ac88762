SPECIFICATION ClientSpec
CONSTANTS
  d1 = d1
  d2 = d2
  t1 = t1
  t2 = t2
  w1 = w1
  w2 = w2
  c1 = c1
  c2 = c2
  e1 = e1
  e2 = e2
  o1 = o1
  Drafts = {d1}
  Tabs = {t1, t2}
  MaxFaults = 1
  StoreWallets = {w1}
  StoreCalls = {c1}
  StoreLimit = 2
  StoredKey = w1
  NoKey = NoKey
  Endpoints = {e1}
  Operations = {o1}
  MaxBlockLag = 1
  MaxLedger = 3
  PathRates = {2000}
  MaxHops = 1
  SourceAmounts = {0, 1}
  Toll <- MCToll
  Slippages = {0, 3, 10}
  NoPath = NoPath
CHECK_DEADLOCK FALSE
INVARIANT ParallelDrainsPostOnce
