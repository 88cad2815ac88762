# AfroPay-Stellar: TLA+ models and proofs

This directory is the verification project of the AfroPay-Stellar repository. It
holds TLA+ modules translated from the code under `src/`, the TLC configurations
that check them on small instances, and TLAPS proofs of the main results for
every value of the constants. `PROJECT.json` maps each definition to the source
lines it stands for, and lists the runs, mutants, findings, hazards and theorems.

- `tlc -workers 2 -config Transfer.cfg MCTransferPipeline` checks one run;
- `tlapm TransferPipelineProofs.tla` checks one module of proofs.

## 1. The system

AfroPay is a remittance service on Stellar. A NestJS API (`apps/api`) accepts
transfers, stores them in Postgres, and processes them from a Bull queue in
Redis. A Next.js client (`apps/frontend`) quotes and sends transfers, queues them
while offline, and opens the anchor's deposits and withdrawals; an older
single-page application (`src/src`) keeps everything in localStorage. A Rust
worker (`services/rust-worker`) pops compliance, payment and rebalancing jobs
from Redis lists and talks to Horizon. Soroban contracts (`contracts/contracts/*`)
hold escrows, stakes, governance, an oracle and a payment registry. A Python
service scores fraud.

| Component | State it keeps | Operations | Where it is hard | What makes it correct |
|---|---|---|---|---|
| Transfer submission (`transaction.service.ts`) | response cache (24 h), `Transaction` rows, queue jobs | `sendTransfer`: cache read, limit check, insert, replay, enqueue, cache write | requests with one key race; the process dies between insert and enqueue | one transaction per key, with and without the cached response; an answered transfer is queued |
| Transaction processor (`transaction.processor.ts`) | row status, score, hash | load, lock, fraud check, submit, mark SUCCESS / FAILED | two workers on one job; a failed update after the submission | decided once; SUCCESS only with a submission; nothing dropped |
| Lock service (`lock.service.ts`) | a Redis key per transaction, token and lease | acquire, heartbeat, release | the lease runs out under its holder | overlap only after a lapse |
| Dead-letter queue (`transaction-dlq.service.ts`) | DLQ entries | route on exhaustion, admin replay | routing is fire-and-forget; replays are not deduplicated | only exhausted jobs are offered |
| KYC limit (`kyc.service.ts`) | the user's SUCCESS rows of today | `assertWithinDailyLimit` | check and spend are far apart | the limit of the tier holds |
| KYC documents (`kyc.service.ts`) | the record, the S3 object, the presigned URL | upload, confirm, submit, SEP-12 put, review | the object is read twice while it can still be replaced | what is confirmed was measured |
| Compliance actions (`compliance-action.service.ts`) | action status, signatures | request, approve, reject, dispatch, result | concurrent approvals; a crash between update and push | no dispatch without a quorum; none twice; a quorum is dispatched |
| Rust worker, compliance loop | Redis list `compliance_jobs` | BLPOP, decode, process | destructive pop before decoding | a dispatched job is received |
| Wallets (`wallet.service.ts`) | wallet rows, default flag | create, import, switch, delete, fund | no database transaction: calls act on stale reads, or die half-way | one default, within the limit |
| Trustlines (`trustline.utils.ts`, `reconcileWallet`) | the account on the ledger | ensure, remove, reconcile | the account moves between the look and the submission | a line that exists is left as it is |
| Audit log (`audit.service.ts`) and its trigger | rows with hash and predecessor | read head, insert, seal | concurrent writers; errors are swallowed | rows never change; one sealed chain |
| Erasure (`admin/`) | users, wallets, transfers, KYC, tombstone | `eraseUser` | wallets and transfers appear after the list was read | nothing names the subject afterwards; no transfer is lost |
| Challenges (`auth/`, `anchor.service.ts`) | nonces in Redis, passkey challenges in memory | issue, sign, verify, expire | read and delete are apart; restarts | a challenge is good for one use, and good for one |
| FX rates and simulation (`anchor.service.ts`, `transfer-simulation.service.ts`) | cache, stale window, circuit breaker | `getFxRate`, `simulate` | lookups race for cache and breaker | an unexpired quote is confirmed |
| SEP-24 (`sep24.service.ts`, `pages/anchor/interactive.tsx`) | one session row, its two deadlines | open, KYC, pay, confirm | one URL in several webviews | a session is confirmed once |
| Deposit and withdrawal modals | inputs, one answer | lookup, account and limit checks | answers arrive after an edit | instructions are for the form and the caller's wallet |
| Send form (`SendForm.tsx`) | form, quote, countdown, preview | debounced, manual and automatic quotes, confirm | overlapping quotes | the confirmed form is the quoted one |
| Liquidity (`liquidity.service.ts`) | hourly lock, the day's rebalances | check corridors, plan, dispatch, result | `Promise.all` frees the lock early | daily limits hold |
| Offline queue (`offlineQueue.ts`, `syncEngine.ts`) | drafts in IndexedDB, a claim with a lease | enqueue, drain, retry, discard | several tabs; closing tabs; lost answers | no unexplained second POST; a draft is settled |
| Wallet store (`walletStore.ts` and its pages) | list, active wallet, shown key | fetch, create, switch, delete, import | answers out of order or lost | the page follows the server |
| RPC client (`rpc-client.service.ts`) | health, cooldown and height per endpoint | poll, rank, fail over | 429s and lagging nodes | a working endpoint returns to rotation |
| DEX routing (`dex.service.ts`) | nothing; the market moves | quote, rank, guard, prepare | the quote is old when it is used | the guard keeps to the quote |
| Remittance application (`src/src`) | wallet, transactions, KYC in localStorage; copies on the page | send wizard, deposits and withdrawals, trustline toggles, KYC upload | timers outlive the components that set them | balances follow from the records |
| Escrow contract | escrow records, price feed, last action per user, token balance | `deposit`, `release`, `refund`, `update_price` | time boundary, shared vault, feed suspension | each deposit leaves once, to the right party, and can leave |
| Staking contract | pools, positions, token balance | pools, `stake`, `claim_rewards`, `withdraw` | long call sequences, rounding, lock changes | totals add up; locks and penalties hold; a claim resets |
| Governor contract | proposals, stakes, votes, executors | propose, vote, execute | no voting period; stakes change during a vote | each executed proposal takes effect once, in order |
| Carbon oracle contract | pending proposal, price, timelock | propose, execute, cancel | ids restart after an execution or a cancel | a price waits out its timelock |
| Payment registry contract | v1 and v2 records | migrate, register | records left out of a migration; a registration before it | no record is lost or overwritten |

How they interact: the submission writes rows and adds jobs; Bull hands a job to
a processor in some API process, which takes the Redis lock and updates the row.
An admin approves compliance actions through the API, which pushes JSON onto a
Redis list that the Rust worker pops; the result comes back as a call to the API,
and so it is with rebalances. The send form asks the API for a simulation, which
prices a path with `getFxRate`, and hands the confirmed form to
`POST /transactions/send` or, without a network, to the offline queue, whose sync
engine posts it later. The wallet pages call the wallet endpoints; the modals and
the SEP-24 webview the anchor's. Erasure writes rows that the audit log, wallets,
transfers and KYC own. The contracts are invoked by signed transactions, each
of them atomic. The application in `src/src` talks to nobody.

## 2. Modules and code

### The transfer pipeline

    TransferStore     the Transaction table and the Bull queue, shared state
    RedisLock         one lock per transaction          (INSTANCE'd as L)
    SendTransfer      POST /transactions/send           EXTENDS TransferStore
    TransactionProcessor  queue worker, DLQ, risk       EXTENDS TransferStore
    TransferPipeline  the composition, fairness, properties, inductive invariant
    MCTransferPipeline, TransferPipelineProofs

A request moves through the `pc`s of `rq[r]`, one per `await` of `sendTransfer`:
read the cache, check the limit, insert (the unique index on the key decides
between `Insert` and `replay`), enqueue (a Bull `add` with a known job id is
ignored: `AddJob`), write the cache. `RequestDies` is the API process dying at
any of them. A row is named by the request that created it. The controller
refuses a request without an `Idempotency-Key`, so every request has a key. A
request's key and amount are constants of the instance, so a retry may differ
in its amount.

A worker moves through `wk[w].pc`, again one step per `await`: `LoadTransaction`
(the terminal-state check, before the lock), `AcquireLock`, `RunFraudCheck`,
`ProcessOnChain`, `MarkSuccess` or `MarkFailed`, `ReleaseLock`, `FinishJob`,
`RouteFailedJobToDlq`. The error paths (`FraudUpdateFails`, `OnChainFails`,
`SuccessUpdateFails`, `FailedUpdateFails`, `ReleaseThrows`) are actions of their
own and spend one of `MaxFaults`. `processOnChain` is a stub in the code: it
succeeds or throws, and `chain[t]` counts the submissions. The fraud score is a
free input. `LeaseLapses` is the lease running out under a live holder; a Redis
error in the heartbeat has the same effect (`HeartbeatFails` clears the timer
and the lease then runs out). Bull is external and modelled from how the code
configures it: attempts, back-off, stalled jobs handed to another worker while
the first may still run, completion and the failed event.

`RiskRead` and `RiskWrite` are `updateRiskScore`, which reads the status and
writes later. `NewDay` is midnight, after which yesterday's rows no longer count
towards the daily limit. Amounts are in one currency: the conversion is a factor
the limit does not tell apart.

### Compliance actions

`ComplianceAction` has one action and its signatures, `Calls` of officers in
flight (each with a stage per `await`), the Redis list and the Rust worker's
receipt. The keys of the JSON payload are data here because a property is about
them: `PayloadKeys` is what TypeScript sends, `JobKeys` what serde requires.
`CallDies` stands for a crash or a rejected database or Redis call.

### Escrow

`Escrow` models `deposit`, `release`, `refund`, `update_price` with both guards,
and `CloseLedger` for the passing of ledgers. A Soroban invocation is atomic and
a panic rolls it back, so every check is a guard. Time is counted down: `left[i]`
is what remains until the release timestamp of escrow `i`, and the block delay
likewise, which keeps the state finite without a bound on the clock. `DepositElsewhere` is a
deposit into an escrow that the instance does not follow: it restarts the depositor's block
delay, and nothing bounds how often, so the bound on escrows does not hide what further
deposits do to the ones there are.
`EscrowPromise` is the abstract contract: an escrow is locked, then released to
the recipient when due, or refunded to the depositor before. `Escrow!KeepsPromise`
is `EscrowPromise!Spec` under the mapping `Phase`, `Due`.

Assumptions: the recipient is not the contract itself; a token transfer inside
an invocation succeeds or the call panics; the ledger sequence (u32) widens
without loss; storage TTL and archival are out. The analysis in
`docs/escrow-boundary-analysis.md` says flags are written before the transfer;
the code transfers first, which atomicity makes indistinguishable here.

### Staking

`Staking` models pools of one asset with the accumulator arithmetic of
`update_pool`, `calculate_pending_reward` and `calculate_penalty`. `until` stands
for `lock_start + lock_duration`, of which the code reads only the sum. `vault`
is the contract's balance, out of which both principal and rewards are paid; a
payment it cannot make is a panic and so a guard. `early` is a history variable.
`get_pending_rewards` reads like a view and saves the pool it updated: it is an
action. What stakers hold themselves is left out. `Totals` is the sum over a finite set that
staking, escrow, governor and liquidity use.

### Governor, carbon oracle, payment registry

Three small contracts, checked with staking in `MCContracts`. `Governor` keeps the stake
each ballot was cast with in the history variable `weight`, and the executed proposals in
the order of their execution in `enacted`: the fee must be the one of the last `SetFeeBps`
among them. Whoever may execute ends the
vote: there is no voting period, so a first ballot in favour can be executed at once.
`CarbonOracle` has transactions under way (`carbonCall`), because the id that one names may
belong to another proposal when it arrives; `since` records what became of the proposal
its sender saw. `PaymentRegistry` starts fresh, or upgraded with version 1 records and not
yet migrated; registrations and the one migration come in any order.

### Accounts: Wallets, KycDocuments, AuditTrail, Challenges, RemittanceApp

Five parts that share no state, with each other or with `ComplianceAction`. `MCAccounts` checks
the six side by side: `focus`, chosen
in the initial state, names the one that steps, so a run costs the sum of their state
spaces and not the product. The same holds for `MCAnchor`, `MCClient` and `MCContracts`. Each
group has one module of proofs (`AccountsProofs`, `AnchorProofs`, `ClientProofs`,
`ContractsProofs`), about the parts' own specifications.

The modules follow one pattern. A request is a record in `wcall[c]`, `confirm[c]`,
`verify[v]`..., with a stage `at` for every `await` of the handler, and what it has read
so far; a step is the code between two awaits. A request may die at any stage where its
process can, and a rejected database call takes the handler's `catch`. Where the code
admits a race that breaks a property, a history variable marks that the race has
happened (`disturbed`, `overwritten`, `shared`, `late`, `together`, `raced`, `lost`) and the
property is stated for the executions without it: the exception is part of the
statement and listed in section 3. Nothing but properties, and the flags themselves,
reads these variables.

- `Wallets`: create, import, switch, delete, funding. The key pair names the wallet;
  deletion looks for transactions, hands the default on and deletes, in that order.
- `KycDocuments`: `GenerateUploadUrl`, the client's upload through the URL, `confirmUpload`
  with its HEAD and its GET as two reads of the object, submit, SEP-12 put, review.
- `AuditTrail`: the three awaits of `log`, the trigger `audit_log_immutable` as a guard on
  every update, and `eraseUser`: reads, then one transaction.
- `Challenges`: a string is a random value and how often it was base64 encoded, because
  the encoding is what decides whether a nonce is found. Signatures are a free outcome.
- `RemittanceApp`: `stored` and `records` are localStorage, `shown` is what App holds in React
  state. `jobs` are `setTimeout` callbacks with the values their closures captured; a
  component that is unmounted leaves its jobs behind, and `live` tells whether the answer
  still reaches the page. Amounts are clamped at zero as `StorageService` does it.

### Anchor: Trustlines, FxRates, SendForm, Sep24, AnchorModals, Liquidity

- `Trustlines`: a call loads the account and its sequence number, and later submits with
  it; the ledger refuses a stale number. Funding, payments, the issuer and reconciliation
  interleave; reconciliation of an account that is not funded reports it as not found.
- `FxRates`: time is the ages of cache entries, breaker and quotes, advanced by `Tick`.
  `Near` is the 0.5 % within which the cache keeps the older rate. `RateExpiresAt` is the
  earliest expiry of the hops.
- `SendForm`: the debounce timer, the buttons and the countdown each start a request; a
  newer request overtakes an older one, whose answer is then dropped.
- `Sep24`: three webviews on one URL, `confirmInteractiveSession` as a check and an update,
  the JWT's deadline before the row's.
- `AnchorModals`: both modals and the endpoints behind them; a changed input closes or
  reloads what the code closes or reloads, and nothing more. An anchor's answer may name the
  account it credits or not, and advertise bounds or not: only what it says is checked.
- `Liquidity`: per run and corridor a check with its own stages; a failing corridor
  rejects `Promise.all`, which releases the lock while the others go on.

### Client: OfflineQueue, WalletStore, RpcPool, DexRouting

- `OfflineQueue`: IndexedDB shared by the tabs, `drainQueue` per tab, the claim and its
  sixty-second lease. A tab can close and IndexedDB can reject between two awaits; a POST
  can be accepted and its answer lost. `stuck` is a drain that IndexedDB failed before the
  `try` block, after which `isSyncingNow` stays set.
- `WalletStore`: a handler of the server is one step here; the answers travel apart.
- `RpcPool`: what the API believes of each endpoint, polls, and operations that try one
  endpoint after the other. The order among routable endpoints is free. A poll may report
  any height, also one the network has not reached: the code takes any number.
- `DexRouting`: `rankPaths` adds to -ln(rate) a thousandth per hop and the fee divided by the
  source amount, which is to compare rates divided by a toll, `exp(hops * (0.001 + 0.000005 /
  amount))`. `Toll[a][h]` is that toll, to scale: for amounts of a unit or more a thousandth
  per hop, for a thousandth of a unit six.

## 3. Runs

| Run | Instance | Shows |
|---|---|---|
| `transfer` | two requests with one key, two workers, two attempts, one stall, one replay, two faults | six invariants of the pipeline under every interleaving (1.7 M states) |
| `transfer_progress` | a retry with another amount, one worker, one fault, one risk update, one midnight after which the cached response may be gone | a key has one transaction also after its response expired, the submitted amount is the stored one, decisions are final, every answered transfer is decided or given up |
| `escrow` | two users, two assets, two escrows and any number of others, three price reports | types, exact solvency per asset, refinement of `EscrowPromise`, a due escrow leaves unless the feed is suspended or its depositor restarts the block delay for ever (0.6 M states) |
| `contracts` | two stakers, one pool, three instants, amounts below and above the precision; two members, two proposals and two fees; two prices and two transactions; two payment ids | staking totals add up, penalties cover early withdrawals, locks never shorten; the governor's effects are its executed proposals, once and in order; a carbon price waits out its timelock; payments survive the registry's upgrade (1 M states) |
| `accounts` | see the bounds | one default and the limit when calls do not overlap (`OneDefaultWhenUndisturbed`); a confirmed document was measured; audit rows never change; erasure is complete and loses no transfer; challenges are spent; balances follow from the records; no compliance action is dispatched without a quorum, at most one dispatch per officer, no quorum of approvals lost except to a crash (1.5 M states, one liveness property) |
| `anchor` | see the bounds | an unexpired quote is confirmed hop by hop; the confirmed form was quoted; instructions match the form and name no other account; a session is confirmed once; daily limits hold, the second rebalance of a day cut to what the first left and a third refused (1.9 M states) |
| `client` | see the bounds | a second POST has a named cause, a draft is settled, the page follows the server, a working endpoint returns, the guard honours its quote up to the toll of the hops (two liveness properties) |
| `transfer_resubmission` | as `transfer` | **violated**: a decided transaction is submitted again |
| `staking_claims` | the stakers of `contracts` | **violated**: something is pending right after a claim |
| `audit_chain` | as `accounts` | **violated**: the trigger refuses the update that stores an entry's hash, so no entry is ever sealed |
| `sep10_login` | as `accounts` | **violated**: the nonce is encoded twice on its way back and `consumeNonce` never finds it |
| `client_tabs` | one draft, two tabs | **violated**: two tabs that listed one draft both claim it and both post it |

The violation runs state what a comment or a test of the repository says; the findings
in `PROJECT.json` quote the lines.

### Deviations the models show without a run

These definitions are in the modules and fail when added to a cfg of the instance named:

- `TransferPipeline!RetriesGetTheOriginalResponse` (transfer): a retry is answered with a
  fresh response when it arrives before the first has written the cache.
- `TransferPipeline!ResubmissionAfterTtlIsNew` (transfer_progress): `transaction.service.spec.ts:223`
  says "expires key after 24 hours so a re-submission after TTL creates a new transaction". The
  key of a row never expires: the insert meets the unique index and `replayFromDb` answers with
  the first transaction, which is what `OneRowPerKey` states. The test sees a second one because
  its mocked `create` has no index.
- `ComplianceAction!NotRedispatched` (accounts): `compliance-action.service.ts:173` says of
  `execute` that actions which left PENDING_APPROVAL are not re-dispatched; two officers whose
  approvals are stored before either is counted both reach the threshold and both dispatch.
- `Trustlines!EnsureIsNoOp` (anchor): `trustline.utils.ts:139` says "If the trustline already
  exists and is usable, this is a **no-op**". The call decides on one load of the account and
  takes the sequence number from a second: of two calls that saw no line, the later rewrites
  the limit of the line the earlier one opened. No property of the runs is about trustlines.
- `TransferPipeline!DailyLimitHolds` (two keys, two amounts that together pass the limit):
  both are checked before either succeeds.
- `ComplianceAction!DispatchIsReceived`: the payload has camelCase keys, the worker's struct
  wants snake_case ones; the pop is destructive.
- `Escrow!SuspensionNeedsDrift` with the code's 10 samples and 500 bps: the first price is
  summed twice, and equal prices suspend the feed.

The exceptions the properties name are executions of the code as well:

- overlapping wallet calls, or one that dies, can leave two default wallets or none;
- an upload between HEAD and GET stores a document that was never measured;
- a depositor who keeps making deposits restarts the block delay, and a due escrow of theirs
  is not released in the meantime;
- the signature of the requester may complete a quorum that nobody then dispatches, and a
  call that dies may take its quorum with it;
- two SEP-24 confirmations that overlap both show success, with different memos;
- an anchor's answer that names no account is shown like one that names the caller's;
- an endpoint that reports a ledger the network has not reached keeps the working ones out
  of rotation until the network gets there, even when it is dead (`highestBlock`);
- a path ranked first can be below the best rate by the toll of its hops, half a per cent a
  hop and more for amounts below a thousandth; a quote by rate alone is then refused although
  nothing moved;
- wallet calls that overlap, or whose answers are lost, leave the page behind the server
  until its next list;
- an edit while a quote or a lookup is in flight shows its answer over the new input;
- a failing corridor lets the next run check a corridor that is still being checked,
  and both spend the same allowance;
- a tab that is slower than its lease, or that works from an old list, posts a draft that
  another tab posts too; so does any tab when an accepted POST's answer is lost;
- carbon oracle: ids restart after an execution or a cancellation, so a late transaction
  can act on a later proposal with the same id;
- payment registry: a payment registered before the migration is overwritten by the old
  record of its id, and an old record that the migration does not list is lost;
- tokens of the anchor: requests that overlap can all spend one nonce;
- `RemittanceApp`: a deposit is deducted from the currency it names as its source, an
  overdraft is clamped at zero, and transfers do not refresh what App shows.

Also seen while modelling: rewards are paid out of the balance that holds the principal
(`staking/src/lib.rs:388`); a late `updateRiskScore` moves a settled transfer from SUCCESS
back to PENDING_REVIEW, which `DecidedStaysDecided` counts as decided because the processor
does; routing to the dead-letter queue is fire-and-forget; rejecting
and executing a compliance action write the status whatever it has become; passkey
challenges are lost when the API restarts.

### Bounds

- `MaxAttempts = 2`, `MaxStalledCount = 1`: the code has 3 attempts and Bull's
  default of one stall. Two attempts already separate a first failure (back-off)
  from the last (failed event, DLQ); the third repeats the first.
- `MaxFaults = 2` in `transfer`: a crash, a rejected update or a lapsed lease, and
  one more while the pipeline recovers from it. One in `transfer_progress`, whose
  liveness check is dearer.
- `MaxReplays = 1`: one replay beside the original job already gives a transaction
  two jobs; two workers is the least that can overlap.
- `MaxRiskUpdates`, `MaxDays`: one each, in the run with a single worker. A day is also what
  it takes a cached response to expire.
- Escrow: `MinTwapSamples` and `MaxSamples` are scaled so that the feed comes alive,
  passes its check and is suspended within three reports. Two escrows share an asset or
  a depositor, or neither; further deposits (`DepositElsewhere`) are not bounded.
- Staking: with `Precision = 4`, the amount 3 is below and 8 above it, as
  positions below and above 10^7 are for the code; both have a penalty that must
  be rounded. `MaxStake` bounds a position and `MaxEarly` what leaves early in all.
- Governor: stakes of 0 and 1 give votes that pass, tie and fail, and ballots whose stake
  changes afterwards; two fees other than the default make a lost and a late effect visible.
  Carbon oracle: ids up to three, a delay of two ticks. Registry: every set of old records over two ids and two contents.
- Compliance: three officers and a quorum of two; four calls, two of them one officer's; one death.
- Accounts: three key pairs and a limit of two, so that the limit is met and a deleted
  wallet can be replaced; two calls at once; a small and an oversized document and two
  confirmations; one `log` and two erasures beside two wallets, four rows; two nonces, two
  verifications, and three token calls, the least for one to begin after another got
  its token while a third is in flight. The application submits twice (`MaxJobs`), with amounts
  the wallet covers and amounts it does not, and a negative one the anchor form accepts.
- Anchor: two trustline calls and three sequence numbers; two simulations, one of two hops
  that share a pair with the other, rates within and beyond 0.5 %; two form fields with two
  values each and two requests; three webviews; two lookups, answered with the caller's
  account, another or none and with bounds that allow all amounts or not; two hourly runs
  over a corridor and its reverse, two rebalances a day and a volume that a first small one
  uses up in part, so that the second is cut. There is
  room for a third row, one more than the count allows; the constraint `RowsToSpare` checks the
  states with three rows and follows them no further.
- Client: two drafts, two tabs, two faults; two wallets and two calls; two endpoints, one
  operation, a lag of one ledger in three, any reported height; two amounts, for which a hop
  costs one and six thousandths, paths with and without a hop, whose rates are apart by less
  and by more than either, and slippages of 0, 0.3 and 1 %. `client_tabs` shrinks all of it.
- Symmetry is used over workers (`transfer`, a safety run) and over stakers
  (`contracts`, `staking_claims`) and over the hourly runs and corridors (`anchor`), never with liveness.

The type invariants of the composed instances (`AccountsTypeOK`, `AnchorTypeOK`,
`ClientTypeOK`, `ContractsTypeOK`) hold on the same instances when added to their cfgs;
the runs keep to what relates the parts of the state.

`CHECK_DEADLOCK FALSE` is set where the system may stop: all requests answered and
all jobs finished, the one action settled, or the clock at its bound.

### Fairness

- Transfer: a request in flight, a worker, Bull's timers and the expiry of an
  orphaned lease go on; the event loop and Redis see to that. Nothing is
  assumed of clients, admins, midnights and faults.
- Compliance: a call in flight and the worker's loop go on (`main.rs` loops).
- Escrow: ledgers close, and somebody keeps calling `release`, which anyone may.
  Weak fairness of `Release(i)` makes a release happen once its guards stay open; that the
  block delay is restarted for ever is the exception `DueIsReleased` names.
- Client: the sync engine of an open tab drains again and again (its two-minute timer and
  the `online` event) and its awaits return; a lease runs out; the health monitor polls
  every endpoint. That the browser comes online for good and a tab stays open is a premise
  of `DraftIsSettled`, not fairness; that an endpoint works is the premise of
  `SteadyEndpointReturns`.

## 4. Proofs

All proofs are for arbitrary constants under the modules' named assumptions.

**TransferPipelineProofs** (`StoreAssumption`, `SendAssumption`,
`ProcessorAssumption`). The invariants of the run are not inductive: that
a completed job is decided depends on what its worker knew when it finished, and
that an answered transfer is queued on what the request knew when it enqueued.
`IInv` adds these: jobs are about existing rows, a send job about the row of its
key (`JobsAreAboutRows`); what a request and a worker may rely on at each stage
(`RequestsAreCoherent`, `WorkersAreCoherent`); attempts are bounded, and a job
without any left has failed (`AttemptsAreBounded`); a pending risk write has a row
(`RiskHasRow`). From `InvariantHolds` follow `SendIsIdempotent`,
`NoTransferIsDropped`, `LockExcludes`, `DlqHoldsExhaustedJobs`,
`SuccessHasSubmission` and, as an action property, `DecisionsAreFinal`. That an answered
transfer is queued (`AcceptedIsQueued`) and that leases are stable (`LeaseIsStable`) are
proved here too, for every instance; the runs no longer repeat them.

The pipeline's two other invariants need more than `IInv`. For `AmountsAreApproved`,
`AmountInv` adds that a worker past its amount check carries the amount of the row
(`AmountsAreChecked`). `SubmissionsArePaidFor` is a counting argument: a worker that may
still submit for a transaction is armed, a job that may still arm one is runnable, and
`PermitInv` says that submissions, armed workers and runnable jobs together are at most 1 +
faults + replays. `PermitStep` lists how a step can move these permits: not at all, between
a job and a worker, from a worker into the chain, or a new one that a fault or a replay pays
for. There is one lemma per action. The number of workers and of jobs need not be finite,
only that of the permits.

**ComplianceActionProofs.** `IInv` says that a call past signing has its officer's
signature (`CallersSigned`), that a call past counting saw a quorum
(`CallersHaveQuorum`), and that the unique index lets only one call of an officer
past signing (`OneSignerPerOfficer`). Signatures are only added, so a quorum seen
once remains. This gives `DispatchNeedsQuorum` and `OfficersDispatchOnce`.

**TotalsProofs.** `Totals!Total` is the community modules' sum over a finite set, a CHOOSE
of a recursive function over subsets. The prover cannot instantiate the library's induction
theorems, so the lemmas argue with a counterexample of the least cardinality (`SmallestSet`,
`LeastExists`), which is first-order. They give what the sums below need: a total does not
depend on the order (`TotalAny`), it adds up (`TotalAdd`), follows a change of one summand
(`TotalChange`), and bounds each summand (`TotalNat`).

**EscrowProofs.** `IInv` adds to the types that every deposited escrow has terms and that
only deposited ones are settled. `ImplementsPromise` maps each action to a step of
`EscrowPromise` or a stutter, one lemma per action. That no balance becomes negative is part
of `TypeCorrect`. `AlwaysSolvent` says that the vault is, per asset, the exact sum of the
unsettled escrows, and `SettlementIsFunded` that the transfer of a release or refund
therefore never lacks money.

**ContractsProofs.** *Staking:* `TreasuryCovers` needs only that a penalty is at least a
tenth of its amount; `LocksHold` needs the types of positions and that a pool's last update
is not in the future. `TotalsHold` adds that nobody has a stake in a pool that is not
created yet (`OnlyInPools`), whose total `create_pool` writes as 0. Only then does
`StakingTypeCorrect` follow: a withdrawal subtracts from `total_staked`, which is not
negative because it is the sum of the positions. *Registry:* before the migration the new
records are exactly the registrations (`BeforeMigration`). *Carbon oracle:* the wait of the
pending proposal and the time it stood add up to the delay (`ClockAddsUp`), and a
transaction under way knows whether its proposal stands or was replaced by one with a larger
id (`CallsRemember`). *Governor:* no ballot precedes its proposal (`NoEarlyBallots`);
tallies are totals of the weights. The pairs and the fee are what `enacted`, the list of executed
proposals, makes of the initial ones, and the list has no proposal twice (`EffectsKept`
carries this over a step that executes nothing).

**AccountsProofs.** *Wallets:* `Undisturbed` says what the one call that runs has done so
far at each of its stages, by how far from one default it has taken the rows. *KYC:*
`ConfirmsMeasured` is what a confirmation may rely on between its reads. *Audit and
erasure:* `ErasureIsComplete` is inductive with the types; `AuditRowsStay` is an action
property. *Challenges:* a nonce that has earned a token is no longer issued, so no request
is late. *Application:* `WalletFollowsRecords` with the shapes of the state (`AppShape`) is
inductive. `Replay` is a recursive function over the list; that a record put in front of the
list applies its charge last, and that settling a job changes no other charge, is shown step
by step along the list, again by a least counterexample (`StepByStep`).

**AnchorProofs.** *SEP-24:* calls past their checks know of each other, and one that knows of
none finds the session incomplete. *Send form:* the current request and the preview are for
the form, unless it was edited under way. *Modals:* requests in flight belong to the open
modal, and what it shows passed the checks there are: an account that the answer names is
the caller's, and bounds that it advertises allow the amount. *FX:* every entry in Redis and
every copy of it is near the answer it stands for, and expiry is the least over the hops. *Liquidity:* what a
check has counted is still what there is, unless another check of the corridor ran beside
it; cardinalities and totals of the day's rows follow.

**ClientProofs.** *DEX:* the paths that rank first have one rate, which is within the toll
of `MaxHops` hops of the best one (`RankedIsNearBest`); until market or amount change, the
quote is the rate of such a path or the best rate itself (`DexInv`), and a refusal then tells
the tolls apart (`TollsTellApart`). *Wallet store:* each answer under way carries what
the server knew, and while the page is settled only one call is (`SettledCalls`). *Offline
queue:* a draft that was accepted is gone, or its one tab is about to remove it, unless its
answer was lost or its claim raced (`DraftInv`).

Assumptions beyond types, all evaluated by TLC on the instances: stakers, members, officers
and wallets are finite sets; the values for "nothing" (`NoPending`, `NoForm`, `NoInfo`,
`NoNonce`, `NoDocument`, `NoRecord`, `NoWallet`) differ from real ones; FX rates are
integers (fixed point); an empty amount field counts as 0 (`0 \in Quantities`); and
`DexAssumption`: tolls grow with the hops, a slippage is at most 100 %, and no two paths of
different rates weigh the same. Between such paths the order in which Horizon lists them
would decide, call by call, and a ranked quote could be refused for a difference of less than
the toll; the assumption leaves these ties out.

**Only model-checked.** Liveness (`AcceptedIsResolved`, `QuorumIsDispatched`,
`DueIsReleased`, `DraftIsSettled`, `SteadyEndpointReturns`): it needs fairness and ENABLED,
which are beyond the prover. Every other property of a passing run is stated by a theorem.
The claims of the violation runs have none.

## 5. Not modelled

`PROJECT.json` gives a reason per component. In short: cryptography (key
encryption, signatures, zero-knowledge proofs), calls to Soroban RPC without state of
their own, metrics and vault, pages that render cached reads, and the scoring model of the
Python service. The escrow under `contracts/escrow` is in no workspace and is not built.
`initialize` of the contracts is their initial state, and `migrate` of escrow, staking and
governor changes nothing that another call reads.
Freezing and clawback on chain, payments and path search are I/O of the worker.
`RateLimitModule` is imported by no module; no module calls `DexService` (its routing is
modelled, its reserve arithmetic is not); the refresh branch of the client's session has no
route in the API; components of `src/src` that App does not import are dead code.

Known gaps inside what is modelled: one user's limit in one currency; one compliance
action at a time; one account and one asset in `Trustlines`, one session in `Sep24`, the
endpoints of one kind in `RpcPool`; staking pools of one asset; amounts far from the width of
i128, whose overflow panics. The forms and the API they call are checked apart: a form's
answer is any answer the endpoint's own module allows.

## 6. Plan

Done: transfer pipeline, compliance actions, the five contracts, accounts, anchor, client.

Every safety property of a passing run is proved.

1. An abstract idempotent transfer that the pipeline refines, checked and then proved step by
   step, as the escrow refines `EscrowPromise`.
2. The types of the compliance action, and what an RPC endpoint's cooldown and
   height may be, as theorems.
