SPECIFICATION AccountsSpec
CONSTANTS
  w1 = w1
  w2 = w2
  w3 = w3
  c1 = c1
  c2 = c2
  c3 = c3
  c4 = c4
  l1 = l1
  e1 = e1
  e2 = e2
  a1 = a1
  a2 = a2
  n1 = n1
  n2 = n2
  v1 = v1
  v2 = v2
  t1 = t1
  t2 = t2
  t3 = t3
  o1 = o1
  o2 = o2
  o3 = o3
  Wallets = {w1, w2, w3}
  WalletCalls = {c1, c2}
  WalletLimit = 2
  NoWallet = NoWallet
  Documents = {"passport", "scan"}
  Oversized = {"scan"}
  Confirms = {c1, c2}
  NoDocument = NoDocument
  Loggers = {l1}
  Erasers = {e1, e2}
  OwnWallets = {a1, a2}
  MaxRows = 4
  Nonces = {n1, n2}
  Verifies = {v1, v2}
  TokenCalls = {t1, t2, t3}
  NoNonce = NoNonce
  Currencies = {"USDC", "NGN"}
  Opening <- MCOpening
  NgnPerUsd = 2
  SendAmounts = {1, 3}
  AnchorAmounts <- MCTyped
  MaxJobs = 2
  NoCode = NoCode
  Officers = {o1, o2, o3}
  Admins = {o1, o2, o3}
  Requester = o1
  Calls = {c1, c2, c3, c4}
  CallerOf <- Callers
  Required = 2
  MaxDeaths = 1
CHECK_DEADLOCK FALSE
INVARIANTS
  OneDefaultWhenUndisturbed
  ConfirmedDocumentWasMeasured
  ErasureIsComplete
  ChallengesAreSpent
  WalletFollowsRecords
  QuorumBeforeDispatch
  OneDispatchPerOfficer
PROPERTIES
  AuditRowsAreImmutable
  QuorumIsDispatched
