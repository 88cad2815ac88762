SPECIFICATION AnchorSpec
CONSTANTS
  c1 = c1
  c2 = c2
  s1 = s1
  s2 = s2
  d1 = d1
  d2 = d2
  r1 = r1
  r2 = r2
  p1 = p1
  p2 = p2
  p3 = p3
  m1 = m1
  m2 = m2
  m3 = m3
  h1 = h1
  h2 = h2
  xy = xy
  yx = yx
  q1 = q1
  q2 = q2
  TrustCalls = {c1, c2}
  MaxSequence = 3
  Simulations = {s1, s2}
  Path <- MCPath
  Rates <- MCRates
  MaxCacheAge = 0
  CircuitReset = 1
  FailureThreshold = 2
  NoRate = NoRate
  Destinations = {d1, d2}
  Amounts = {1, 2}
  NoForm = NoForm
  Requests = {r1, r2}
  QuoteLife = 2
  Pages = {p1, p2, p3}
  Memos = {m1, m2, m3}
  NoMemo = NoMemo
  Accounts = {"mine", "theirs"}
  Owned = {"mine"}
  Assets = {"USDC", "NGN"}
  Quantities = {0, 1, 2}
  Bounds <- MCBounds
  Lookups = {q1, q2}
  NoInfo = NoInfo
  Runs = {h1, h2}
  Corridors = {xy, yx}
  Opposite <- MCOpposite
  MaxRows = 3
  MaxDaily = 2
  MaxVolume = 3
  Shortfalls = {1, 3}
  Nobody = Nobody
CONSTRAINT RowsToSpare
SYMMETRY LiquiditySymmetry
CHECK_DEADLOCK FALSE
INVARIANTS
  LiveQuoteIsConfirmed
  ConfirmedOnce
  InstructionsMatchTheForm
  DailyLimitsHold
PROPERTIES
  ConfirmedFormWasQuoted
