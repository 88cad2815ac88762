------------------------------- MODULE Staking -------------------------------
(***************************************************************************)
(* The time-locked staking contract (contracts/contracts/staking/src/      *)
(* lib.rs): pools of one asset, positions with a lock, rewards by a        *)
(* per-share accumulator and a penalty for leaving early.                  *)
(*                                                                         *)
(* An invocation is atomic and a panic undoes it, so every check is a      *)
(* guard.  All pools here hold the same asset: pools of one asset share    *)
(* the contract's balance, out of which principal and rewards are paid.    *)
(* What the stakers hold themselves is left out: a transfer they cannot    *)
(* pay is a panic.  Amounts stay far below the width of i128, whose        *)
(* overflow is one too.                                                    *)
(***************************************************************************)
EXTENDS Naturals, FiniteSets, Totals

CONSTANTS Stakers,
          Amounts,           \* the amounts a call may name
          Rates,             \* the reward rates the admin may set
          Locks,             \* the lock durations a call may name
          MinLock, MaxLock,  \* MIN_LOCK_DURATION, MAX_LOCK_DURATION
          Precision,         \* FIXED_POINT_PRECISION
          RewardFund,        \* what the contract was funded with
          MaxStake,          \* bound on a position
          MaxEarly,          \* bound on what is withdrawn early in all
          MaxPools,          \* bound on the pools
          MaxTime            \* bound on the ledger's clock

ASSUME StakingAssumption ==
    /\ IsFiniteSet(Stakers)
    /\ Amounts \subseteq Nat
    /\ Rates \subseteq Nat
    /\ Locks \subseteq Nat
    /\ MinLock \in Nat \ {0}
    /\ MaxLock \in Nat
    /\ Precision \in Nat \ {0}
    /\ RewardFund \in Nat
    /\ MaxStake \in Nat
    /\ MaxEarly \in Nat
    /\ MaxPools \in Nat
    /\ MaxTime \in Nat

VARIABLES now,       \* the ledger's timestamp
          pool,      \* pool[p]: PoolInfo
          active,    \* the pools whose is_active is set
          count,     \* PoolCounter
          stakes,    \* stakes[p][u]: StakerInfo, amount 0 if there is none
          vault,     \* the contract's balance of the asset
          treasury,  \* the balance of the pools' treasury
          early      \* history: principal withdrawn before its lock ended

vars == <<now, pool, active, count, stakes, vault, treasury, early>>

Pools == 1..MaxPools

PoolInfo == [rate : Nat, staked : Nat, acc : Nat, updated : Nat]

(* until is lock_start + lock_duration: the code reads only their sum.     *)
StakerInfo == [amount : Nat, until : Nat, debt : Nat]

NoPool == [rate |-> 0, staked |-> 0, acc |-> 0, updated |-> 0]
NoStake == [amount |-> 0, until |-> 0, debt |-> 0]

TypeOK ==
    /\ now \in 0..MaxTime
    /\ pool \in [Pools -> PoolInfo]
    /\ active \subseteq Pools
    /\ count \in 0..MaxPools
    /\ stakes \in [Pools -> [Stakers -> StakerInfo]]
    /\ vault \in Nat
    /\ treasury \in Nat
    /\ early \in Nat

Init ==
    /\ now = 0
    /\ pool = [p \in Pools |-> NoPool]
    /\ active = {}
    /\ count = 0
    /\ stakes = [p \in Pools |-> [u \in Stakers |-> NoStake]]
    /\ vault = RewardFund
    /\ treasury = 0
    /\ early = 0
-----------------------------------------------------------------------------
(* update_pool: accrue since the last update, and restart the clock.       *)
Updated(q) ==
    [q EXCEPT !.acc = IF q.staked > 0
                        THEN @ + (q.rate * (now - q.updated) * Precision) \div q.staked
                        ELSE @,
              !.updated = now]

(* calculate_pending_reward.                                               *)
PendingReward(amount, debt, acc) ==
    LET reward == (amount * acc) \div Precision
    IN  IF amount > 0 /\ reward > debt THEN reward - debt ELSE 0

(* Rounded down, in the staker's favour.                                   *)
PenaltyRoundedDown(amount) == (amount * 1000) \div 10000

(* calculate_penalty: 10%, rounded up.                                     *)
Penalty(amount) == (amount * 1000 + 9999) \div 10000

Exists(p) == p <= count

CreatePool(rate) ==
    /\ count < MaxPools
    /\ count' = count + 1
    /\ pool' = [pool EXCEPT ![count + 1] =
                   [rate |-> rate, staked |-> 0, acc |-> 0, updated |-> now]]
    /\ active' = active \cup {count + 1}
    /\ UNCHANGED <<now, stakes, vault, treasury, early>>

DeactivatePool(p) ==
    /\ Exists(p)
    /\ active' = active \ {p}
    /\ UNCHANGED <<now, pool, count, stakes, vault, treasury, early>>

SetRewardRate(p, rate) ==
    /\ Exists(p)
    /\ pool' = [pool EXCEPT ![p] = [Updated(@) EXCEPT !.rate = rate]]
    /\ UNCHANGED <<now, active, count, stakes, vault, treasury, early>>
-----------------------------------------------------------------------------
(* The new lock alone, whatever is left of the old one.                    *)
LockUntilLatest(s, duration) == now + duration

(* A new position is locked from now; one that grows, for the longer of    *)
(* the rest of its lock and the requested duration.                        *)
LockUntil(s, duration) ==
    IF s.amount > 0 /\ s.until > now + duration THEN s.until ELSE now + duration

(* stake pays what is pending on the position it adds to.                  *)
Stake(u, p, amount, duration) ==
    LET q == Updated(pool[p])
        s == stakes[p][u]
        pending == PendingReward(s.amount, s.debt, q.acc)
    IN  /\ amount > 0
        /\ duration \in MinLock..MaxLock
        /\ Exists(p)
        /\ p \in active
        /\ s.amount + amount <= MaxStake
        /\ vault + amount >= pending
        /\ vault' = vault + amount - pending
        /\ stakes' = [stakes EXCEPT ![p][u] =
                         [amount |-> s.amount + amount, until |-> LockUntil(s, duration),
                          debt |-> q.acc]]
        /\ pool' = [pool EXCEPT ![p] = [q EXCEPT !.staked = @ + amount]]
        /\ UNCHANGED <<now, active, count, treasury, early>>

(* claim_rewards: the debt moves only when something is paid.              *)
ClaimRewards(u, p) ==
    LET q == Updated(pool[p])
        s == stakes[p][u]
        pending == PendingReward(s.amount, s.debt, q.acc)
    IN  /\ Exists(p)
        /\ s.amount > 0
        /\ vault >= pending
        /\ vault' = vault - pending
        /\ stakes' = [stakes EXCEPT ![p][u] =
                         [s EXCEPT !.debt = IF pending > 0 THEN q.acc ELSE s.debt]]
        /\ pool' = [pool EXCEPT ![p] = q]
        /\ UNCHANGED <<now, active, count, treasury, early>>

(* get_pending_rewards is a view that saves the pool it has updated.       *)
GetPendingRewards(p) ==
    /\ Exists(p)
    /\ pool' = [pool EXCEPT ![p] = Updated(@)]
    /\ UNCHANGED <<now, active, count, stakes, vault, treasury, early>>

(* A withdrawal that leaves the pool's total as it was.                    *)
TotalKept(q, amount) == q

(* sub_from_pool_staked.                                                   *)
SubFromPoolStaked(q, amount) == [q EXCEPT !.staked = @ - amount]

(* withdraw's two checks of the amount.                                    *)
Sufficient(s, amount) == amount > 0 /\ amount <= s.amount

(* withdraw: pending rewards, the penalty to the treasury if the lock has  *)
(* not ended, the rest to the staker; an empty position is removed.        *)
Withdraw(u, p, amount) ==
    LET q == Updated(pool[p])
        s == stakes[p][u]
        pending == PendingReward(s.amount, s.debt, q.acc)
        locked == now < s.until
        penalty == IF locked THEN Penalty(amount) ELSE 0
    IN  /\ Exists(p)
        /\ s.amount > 0
        /\ Sufficient(s, amount)
        /\ vault >= pending + amount
        /\ locked => early + amount <= MaxEarly
        /\ vault' = vault - pending - amount
        /\ treasury' = treasury + penalty
        /\ stakes' = [stakes EXCEPT ![p][u] =
                         IF s.amount = amount THEN NoStake
                         ELSE [amount |-> s.amount - amount, until |-> s.until,
                               debt |-> IF pending > 0 THEN q.acc ELSE s.debt]]
        /\ pool' = [pool EXCEPT ![p] = SubFromPoolStaked(q, amount)]
        /\ early' = IF locked THEN early + amount ELSE early
        /\ UNCHANGED <<now, active, count>>

(* The ledger's clock.                                                     *)
Tick ==
    /\ now < MaxTime
    /\ now' = now + 1
    /\ UNCHANGED <<pool, active, count, stakes, vault, treasury, early>>

Next ==
    \/ \E rate \in Rates : CreatePool(rate)
    \/ \E p \in Pools : DeactivatePool(p)
    \/ \E p \in Pools, rate \in Rates : SetRewardRate(p, rate)
    \/ \E u \in Stakers, p \in Pools, amount \in Amounts, lock \in Locks :
          Stake(u, p, amount, lock)
    \/ \E u \in Stakers, p \in Pools : ClaimRewards(u, p)
    \/ \E p \in Pools : GetPendingRewards(p)
    \/ \E u \in Stakers, p \in Pools, amount \in Amounts : Withdraw(u, p, amount)
    \/ Tick

Spec == Init /\ [][Next]_vars
-----------------------------------------------------------------------------
(* total_staked, the divisor of every reward, is the sum of the positions  *)
(* of its pool, through any mix of stakes, partial and full withdrawals.   *)
TotalsAddUp ==
    \A p \in Pools :
        pool[p].staked = Total([u \in Stakers |-> stakes[p][u].amount], Stakers)

(* stake's comment: "use the longer of existing remaining lock and the     *)
(* newly requested duration".  Nothing brings the end of a lock forward    *)
(* while the position lasts.                                               *)
LockNeverShortens ==
    [][\A p \in Pools, u \in Stakers :
          stakes[p][u].amount > 0 /\ stakes'[p][u].amount > 0 =>
              stakes'[p][u].until >= stakes[p][u].until]_vars

(* calculate_penalty rounds "to favour the protocol": the treasury has at  *)
(* least a tenth of all that left early, however the withdrawals were      *)
(* split.                                                                  *)
PenaltyCovers == treasury * 10 >= early

(* staking/src/test.rs, claim_rewards_transfers_and_resets_debt: "After    *)
(* claiming, pending should be 0."                                         *)
ClaimLeavesNothing ==
    [][\A p \in Pools, u \in Stakers :
          ClaimRewards(u, p) =>
              PendingReward(stakes'[p][u].amount, stakes'[p][u].debt, pool'[p].acc) = 0]_vars
=============================================================================
