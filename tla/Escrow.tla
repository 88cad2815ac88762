------------------------------- MODULE Escrow -------------------------------
(***************************************************************************)
(* The Soroban escrow contract (contracts/contracts/escrow/src/lib.rs) on  *)
(* a ledger that closes one block after another.                           *)
(*                                                                         *)
(* An invocation is atomic: a panic undoes it, so every check of a call is *)
(* a guard of its action and the order of its writes cannot be seen.       *)
(* Ledger time enters only through differences: how far an escrow is from  *)
(* its release_timestamp, how many ledgers ago a user last acted, whether  *)
(* the feed was already updated in this ledger.                            *)
(***************************************************************************)
EXTENDS Integers, Totals

CONSTANTS Users,
          Assets,
          NoTerms,               \* what get_escrow answers for an unused id
          Prices,                \* the spot prices that may be reported
          MinTwapSamples,        \* MIN_TWAP_SAMPLES
          MaxTwapDeviationBps,   \* MAX_TWAP_DEVIATION_BPS
          MinLedgerGap,          \* MIN_LEDGER_GAP
          Supply,                \* what a user holds of an asset at first
          MaxAmount,             \* bound on an amount
          MaxDelay,              \* bound on the time to a release
          MaxEscrows,            \* the deposits that are followed
          MaxSamples             \* bound on the price updates

ASSUME EscrowAssumption ==
    /\ Prices \subseteq Int
    /\ MinTwapSamples \in Nat \ {0}
    /\ MaxTwapDeviationBps \in Nat
    /\ MinLedgerGap \in Nat \ {0}
    /\ Supply \in Nat
    /\ MaxAmount \in Nat
    /\ MaxDelay \in Nat
    /\ MaxEscrows \in Nat
    /\ MaxSamples \in Nat
    /\ NoTerms \notin [depositor : Users, recipient : Users, amount : Nat, asset : Assets]

VARIABLES counter,    \* EscrowCounter
          terms,      \* terms[i]: the fields of EscrowRecord that never change
          left,       \* left[i]: release_timestamp - now, 0 once it is reached
          released,   \* the escrows with is_released
          refunded,   \* the escrows with is_refunded
          vault,      \* vault[a]: what the contract holds of a
          balance,    \* balance[a][u]: what u holds of a
          age,        \* age[u]: ledgers since UserActionLedger(u), at most the gap
          feed        \* PriceFeedState

recordVars == <<counter, terms, left, released, refunded>>
moneyVars == <<vault, balance>>
vars == <<recordVars, moneyVars, age, feed>>

Ids == 1..MaxEscrows

Terms == [depositor : Users, recipient : Users, amount : 1..MaxAmount, asset : Assets]

(* twap is cumulative_price / sample_count after every update; fresh says  *)
(* that last_ledger is the current ledger.                                 *)
Feed == [last : Nat, cumulative : Nat, samples : Nat, fresh : BOOLEAN, suspended : BOOLEAN]

TypeOK ==
    /\ counter \in 0..MaxEscrows
    /\ terms \in [Ids -> Terms \cup {NoTerms}]
    /\ left \in [Ids -> Nat]
    /\ released \subseteq Ids
    /\ refunded \subseteq Ids
    /\ vault \in [Assets -> Nat]
    /\ balance \in [Assets -> [Users -> Nat]]
    /\ age \in [Users -> 0..MinLedgerGap]
    /\ feed \in Feed

Init ==
    /\ counter = 0
    /\ terms = [i \in Ids |-> NoTerms]
    /\ left = [i \in Ids |-> 0]
    /\ released = {}
    /\ refunded = {}
    /\ vault = [a \in Assets |-> 0]
    /\ balance = [a \in Assets |-> [u \in Users |-> Supply]]
    /\ age = [u \in Users |-> MinLedgerGap]
    /\ feed = [last |-> 0, cumulative |-> 0, samples |-> 0, fresh |-> FALSE, suspended |-> FALSE]
-----------------------------------------------------------------------------
Abs(x) == IF x < 0 THEN -x ELSE x

Twap(f) == f.cumulative \div f.samples

DeviationBps(f) == (Abs(f.last - Twap(f)) * 10000) \div Twap(f)

Drifts(f) == f.samples >= MinTwapSamples /\ DeviationBps(f) > MaxTwapDeviationBps

(* validate_price_guard passes.                                            *)
ValidatePriceGuard == ~feed.suspended /\ ~Drifts(feed)

(* enforce_user_block_delay passes, and records the ledger.                *)
EnforceUserBlockDelay(user) ==
    /\ age[user] >= MinLedgerGap
    /\ age' = [age EXCEPT ![user] = 0]

(* The first update seeds the sum with the price it is about to add.       *)
Sampled(f, price) ==
    [f EXCEPT !.last = price,
              !.cumulative = (IF f.samples = 0 THEN price ELSE f.cumulative) + price,
              !.samples = f.samples + 1,
              !.fresh = TRUE]

(* update_price: anyone, once in a ledger.  Nothing lifts a suspension.    *)
UpdatePrice(price) ==
    /\ price > 0
    /\ ~feed.fresh
    /\ feed.samples < MaxSamples
    /\ LET f == Sampled(feed, price)
       IN  feed' = [f EXCEPT !.suspended = f.suspended \/ Drifts(f)]
    /\ UNCHANGED <<recordVars, moneyVars, age>>
-----------------------------------------------------------------------------
Exists(i) == i <= counter

(* No check on the amount.                                                 *)
PositiveUnchecked(amount) == TRUE

Positive(amount) == amount > 0

Deposit(from, amount, asset, recipient, delay) ==
    LET i == counter + 1
    IN  /\ i \in Ids
        /\ Positive(amount)
        /\ ValidatePriceGuard
        /\ EnforceUserBlockDelay(from)
        /\ delay > 0
        /\ balance[asset][from] >= amount
        /\ balance' = [balance EXCEPT ![asset][from] = @ - amount]
        /\ vault' = [vault EXCEPT ![asset] = @ + amount]
        /\ counter' = i
        /\ terms' = [terms EXCEPT ![i] = [depositor |-> from, recipient |-> recipient,
                                          amount |-> amount, asset |-> asset]]
        /\ left' = [left EXCEPT ![i] = delay]
        /\ UNCHANGED <<released, refunded, feed>>

(* A deposit whose escrow is not among Ids: of it only the guards and the  *)
(* restarted block delay matter to the others.  There is no bound on them. *)
DepositElsewhere(from) ==
    /\ ValidatePriceGuard
    /\ EnforceUserBlockDelay(from)
    /\ UNCHANGED <<recordVars, moneyVars, feed>>

(* token transfer out of the contract.                                     *)
TransferOut(asset, user, amount) ==
    /\ vault[asset] >= amount
    /\ vault' = [vault EXCEPT ![asset] = @ - amount]
    /\ balance' = [balance EXCEPT ![asset][user] = @ + amount]

(* The check of a refund forgotten by release; the timestamps do not make  *)
(* up for it.                                                              *)
UnreleasedOnly(i) == Exists(i) /\ i \notin released

Unsettled(i) == Exists(i) /\ i \notin released /\ i \notin refunded

(* The comparisons of the timestamps turned round, or left out.            *)
NotYetReached(i) == left[i] > 0
AnyTime(i) == TRUE

ReleaseReached(i) == left[i] = 0

(* release: anyone may call it, and it counts as an action of the          *)
(* depositor.                                                              *)
Release(i) ==
    /\ Unsettled(i)
    /\ ValidatePriceGuard
    /\ EnforceUserBlockDelay(terms[i].depositor)
    /\ ReleaseReached(i)
    /\ TransferOut(terms[i].asset, terms[i].recipient, terms[i].amount)
    /\ released' = released \cup {i}
    /\ UNCHANGED <<counter, terms, left, refunded, feed>>

RefundOpen(i) == left[i] > 0

(* refund, by the depositor: no price guard, no block delay.               *)
Refund(i) ==
    /\ Unsettled(i)
    /\ RefundOpen(i)
    /\ TransferOut(terms[i].asset, terms[i].depositor, terms[i].amount)
    /\ refunded' = refunded \cup {i}
    /\ UNCHANGED <<counter, terms, left, released, age, feed>>

(* The network closes a ledger d later.                                    *)
CloseLedger(d) ==
    /\ left' = [i \in Ids |-> IF left[i] > d THEN left[i] - d ELSE 0]
    /\ age' = [u \in Users |-> IF age[u] < MinLedgerGap THEN age[u] + 1 ELSE age[u]]
    /\ feed' = [feed EXCEPT !.fresh = FALSE]
    /\ UNCHANGED <<counter, terms, released, refunded, moneyVars>>

Next ==
    \/ \E from, recipient \in Users, asset \in Assets, amount \in 0..MaxAmount,
          delay \in 0..MaxDelay : Deposit(from, amount, asset, recipient, delay)
    \/ \E from \in Users : DepositElsewhere(from)
    \/ \E i \in Ids : Release(i)
    \/ \E i \in Ids : Refund(i)
    \/ \E price \in Prices : UpdatePrice(price)
    \/ \E d \in 1..MaxDelay : CloseLedger(d)

Spec == Init /\ [][Next]_vars

(* Ledgers close, and somebody keeps calling release for each escrow.      *)
Fairness ==
    /\ WF_vars(\E d \in 1..MaxDelay : CloseLedger(d))
    /\ \A i \in Ids : WF_vars(Release(i))

FairSpec == Spec /\ Fairness
-----------------------------------------------------------------------------
Unpaid(a) == {i \in 1..counter \ (released \cup refunded) : terms[i].asset = a}

(* Whatever was deposited, settled and reported, and in whatever order,    *)
(* the contract holds exactly the unsettled amounts of each asset, so that *)
(* no settlement of one escrow is paid with the money of another.          *)
Solvent ==
    \A a \in Assets :
        vault[a] = Total([i \in 1..counter |-> terms[i].amount], Unpaid(a))

(* The inductive invariant: an escrow has terms from its deposit on, and   *)
(* no other is settled.                                                    *)
DepositsHaveTerms == \A i \in Ids : Exists(i) => terms[i] \in Terms

SettledExist == \A i \in released \cup refunded : Exists(i)

IInv == TypeOK /\ DepositsHaveTerms /\ SettledExist

(* The escrow's promise: each deposit leaves once and whole, to the        *)
(* recipient at or after release_timestamp or to the depositor before it.  *)
Phase ==
    [i \in Ids |-> IF i \in released THEN "released"
                   ELSE IF i \in refunded THEN "refunded"
                   ELSE IF Exists(i) THEN "locked"
                   ELSE "none"]

Due == {i \in Ids : Exists(i) /\ left[i] = 0}

Promise == INSTANCE EscrowPromise WITH Amounts <- 1..MaxAmount, phase <- Phase, due <- Due

KeepsPromise == Promise!Spec

(* A due escrow can only be kept from its recipient for ever by a          *)
(* suspended feed (which nothing lifts, and a due escrow is no longer      *)
(* refunded) or by the depositor's own block delay, restarted again and    *)
(* again by deposits as soon as it has passed: not by one deposit or one   *)
(* release of another escrow, nor by other users.                          *)
DueIsReleased ==
    \A i \in Ids :
        <>[](Unsettled(i) /\ left[i] = 0 /\ ~feed.suspended)
            => []<>(Exists(i) /\ age[terms[i].depositor] = 0)

(* lib.rs, validate_price_guard: "price feed suspended: TWAP drift exceeds *)
(* 5% threshold".  A feed whose reports all lie within that threshold of   *)
(* each other is not suspended.                                            *)
SuspensionNeedsDrift ==
    feed.suspended =>
        \E p, q \in Prices : Abs(p - q) * 10000 > MaxTwapDeviationBps * q
=============================================================================
