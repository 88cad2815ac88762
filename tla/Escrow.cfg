SPECIFICATION FairSpec
CONSTANTS
  u1 = u1
  u2 = u2
  usd = usd
  eur = eur
  NoTerms = NoTerms
  Users = {u1, u2}
  Assets = {usd, eur}
  Prices <- ReportedPrices
  MinTwapSamples = 2
  MaxTwapDeviationBps = 500
  MinLedgerGap = 2
  Supply = 2
  MaxAmount = 2
  MaxDelay = 2
  MaxEscrows = 2
  MaxSamples = 3
INVARIANTS
  TypeOK
  Solvent
PROPERTIES
  KeepsPromise
  DueIsReleased
