--------------------------- MODULE ContractsProofs ---------------------------
(***************************************************************************)
(* The staking, governor, carbon oracle and payment registry contracts,    *)
(* for any members, amounts, locks, rates, proposals, prices and payments. *)
(***************************************************************************)
EXTENDS Staking, Governor, CarbonOracle, PaymentRegistry, Integers, TotalsProofs, TLAPS

(* The types the lock needs.  That total_staked never falls below 0 rests  *)
(* on TotalsAddUp, a sum over all stakers that is left to TLC; an          *)
(* accumulator that only divides by a positive total does not need it.     *)
LooseTypes ==
    /\ now \in Nat
    /\ pool \in [Pools -> [rate : Nat, staked : Int, acc : Nat, updated : Nat]]
    /\ \A p \in Pools : pool[p].updated <= now
    /\ stakes \in [Pools -> [Stakers -> StakerInfo]]

PenaltyInv ==
    /\ treasury \in Nat
    /\ early \in Nat
    /\ PenaltyCovers

(* calculate_penalty takes at least a tenth of any amount.                 *)
LEMMA PenaltyIsATenth ==
    ASSUME NEW amount \in Nat
    PROVE  Penalty(amount) \in Nat /\ Penalty(amount) * 10 >= amount
BY DEF Penalty

(* The treasury holds at least a tenth of all that was withdrawn before    *)
(* the end of its lock: calculate_penalty rounds up, and withdraw charges  *)
(* it on every early withdrawal and nothing spends it.                     *)
THEOREM TreasuryCovers == Spec => []PenaltyCovers
<1>1. Init => PenaltyInv
  BY DEF Init, PenaltyInv, PenaltyCovers
<1>2. PenaltyInv /\ [Next]_vars => PenaltyInv'
  <2> SUFFICES ASSUME PenaltyInv, [Next]_vars PROVE PenaltyInv'
    OBVIOUS
  <2>1. CASE UNCHANGED <<treasury, early>>
    BY <2>1 DEF PenaltyInv, PenaltyCovers
  <2>2. ASSUME NEW u \in Stakers, NEW p \in Pools, NEW amount \in Amounts,
               Withdraw(u, p, amount)
        PROVE  PenaltyInv'
    <3>1. amount \in Nat
      BY StakingAssumption
    <3>2. CASE now < stakes[p][u].until
      <4>1. treasury' = treasury + Penalty(amount) /\ early' = early + amount
        BY <2>2, <3>2 DEF Withdraw
      <4> QED
        BY <4>1, <3>1, PenaltyIsATenth DEF PenaltyInv, PenaltyCovers
    <3>3. CASE ~(now < stakes[p][u].until)
      <4>1. treasury' = treasury + 0 /\ early' = early
        BY <2>2, <3>3 DEF Withdraw
      <4> QED
        BY <4>1 DEF PenaltyInv, PenaltyCovers
    <3> QED
      BY <3>2, <3>3
  <2> QED
    BY <2>1, <2>2 DEF Next, vars, CreatePool, DeactivatePool, SetRewardRate, Stake,
                      ClaimRewards, GetPendingRewards, Tick
<1>3. PenaltyInv => PenaltyCovers
  BY DEF PenaltyInv
<1> QED
  BY <1>1, <1>2, <1>3, PTL DEF Spec

(* update_pool keeps a pool's types.                                       *)
LEMMA UpdatedTypes ==
    ASSUME now \in Nat,
           NEW q \in [rate : Nat, staked : Int, acc : Nat, updated : Nat],
           q.updated <= now
    PROVE  /\ Updated(q) \in [rate : Nat, staked : Int, acc : Nat, updated : Nat]
           /\ Updated(q).updated = now
<1>1. \A a, b, c \in Nat : a * b * c \in Nat
  OBVIOUS
<1>2. now - q.updated \in Nat
  OBVIOUS
<1>3. q.rate * (now - q.updated) * Precision \in Nat
  BY <1>1, <1>2, StakingAssumption
<1>4. ASSUME NEW x \in Nat, NEW k \in Int, k > 0
      PROVE  x \div k \in Nat
  BY <1>4
<1>5. q.staked > 0 => (q.rate * (now - q.updated) * Precision) \div q.staked \in Nat
  BY <1>3, <1>4
<1> DEFINE acc == IF q.staked > 0
                     THEN q.acc + (q.rate * (now - q.updated) * Precision) \div q.staked
                     ELSE q.acc
<1>6. acc \in Nat
  BY <1>5
<1>7. Updated(q) = [[q EXCEPT !.acc = acc] EXCEPT !.updated = now]
  BY DEF Updated
<1> HIDE DEF acc
<1> QED
  BY <1>6, <1>7

(* The positions, the pools and the clock keep their types.                *)
LEMMA LooseTypesHold == Spec => []LooseTypes
<1>1. Init => LooseTypes
  BY DEF Init, LooseTypes, NoStake, StakerInfo, NoPool
<1>2. LooseTypes /\ [Next]_vars => LooseTypes'
  <2> SUFFICES ASSUME LooseTypes, [Next]_vars PROVE LooseTypes'
    OBVIOUS
  <2> USE StakingAssumption
  <2> DEFINE Loose == [rate : Nat, staked : Int, acc : Nat, updated : Nat]
  <2>0. \A p \in Pools : Updated(pool[p]) \in Loose /\ Updated(pool[p]).updated = now
    BY UpdatedTypes DEF LooseTypes
  <2>1. CASE UNCHANGED vars
    BY <2>1 DEF LooseTypes, vars
  <2>2. ASSUME NEW rate \in Rates, CreatePool(rate) PROVE LooseTypes'
    <3> DEFINE fresh == [rate |-> rate, staked |-> 0, acc |-> 0, updated |-> now]
    <3>1. fresh \in Loose /\ fresh.updated <= now
      BY DEF LooseTypes
    <3>2. pool' = [pool EXCEPT ![count + 1] = fresh] /\ UNCHANGED <<now, stakes>>
      BY <2>2 DEF CreatePool
    <3> HIDE DEF fresh
    <3>3. \A r \in Pools : pool'[r] = IF r = count + 1 THEN fresh ELSE pool[r]
      BY <3>2 DEF LooseTypes
    <3>4. pool' \in [Pools -> Loose]
      BY <3>1, <3>2 DEF LooseTypes
    <3> QED
      BY <3>1, <3>2, <3>3, <3>4 DEF LooseTypes
  <2>3. ASSUME NEW p \in Pools, DeactivatePool(p) PROVE LooseTypes'
    BY <2>3 DEF LooseTypes, DeactivatePool
  <2>4. ASSUME NEW p \in Pools, NEW rate \in Rates, SetRewardRate(p, rate)
        PROVE  LooseTypes'
    <3> DEFINE q == [Updated(pool[p]) EXCEPT !.rate = rate]
    <3>1. q \in Loose /\ q.updated = now
      BY <2>0
    <3>2. pool' = [pool EXCEPT ![p] = q] /\ UNCHANGED <<now, stakes>>
      BY <2>4 DEF SetRewardRate
    <3> HIDE DEF q
    <3>3. pool' \in [Pools -> Loose] /\ \A r \in Pools : pool'[r].updated <= now
      BY <3>1, <3>2 DEF LooseTypes
    <3> QED
      BY <3>2, <3>3 DEF LooseTypes
  <2>5. ASSUME NEW u \in Stakers, NEW p \in Pools, NEW amount \in Amounts,
               NEW lock \in Locks, Stake(u, p, amount, lock)
        PROVE  LooseTypes'
    <3>1. LockUntil(stakes[p][u], lock) \in Nat
      BY DEF LooseTypes, StakerInfo, LockUntil
    <3>2. stakes' \in [Pools -> [Stakers -> StakerInfo]]
      BY <2>5, <2>0, <3>1 DEF LooseTypes, StakerInfo, Stake
    <3>3. pool' \in [Pools -> Loose]
      BY <2>5, <2>0 DEF LooseTypes, Stake
    <3>4. \A r \in Pools : pool'[r].updated <= now
      BY <2>5, <2>0 DEF LooseTypes, Stake
    <3> QED
      BY <2>5, <3>2, <3>3, <3>4 DEF LooseTypes, Stake
  <2>6. ASSUME NEW u \in Stakers, NEW p \in Pools, ClaimRewards(u, p)
        PROVE  LooseTypes'
    <3>2. stakes' \in [Pools -> [Stakers -> StakerInfo]]
      <4> DEFINE s == stakes[p][u]
                 acc == Updated(pool[p]).acc
                 d == IF PendingReward(s.amount, s.debt, acc) > 0 THEN acc ELSE s.debt
      <4>1. stakes' = [stakes EXCEPT ![p][u] = [s EXCEPT !.debt = d]]
        BY <2>6 DEF ClaimRewards
      <4>2. s \in StakerInfo /\ d \in Nat
        BY <2>0 DEF LooseTypes, StakerInfo
      <4> HIDE DEF d, s
      <4>3. [s EXCEPT !.debt = d] \in StakerInfo
        BY <4>2 DEF StakerInfo
      <4> QED
        BY <4>1, <4>3 DEF LooseTypes, s
    <3>3. pool' = [pool EXCEPT ![p] = Updated(pool[p])]
      BY <2>6 DEF ClaimRewards
    <3>4. \A r \in Pools : pool'[r].updated <= now
      BY <2>0, <3>3 DEF LooseTypes
    <3>5. pool' \in [Pools -> Loose] /\ now' = now
      BY <2>6, <2>0, <3>3 DEF LooseTypes, ClaimRewards
    <3> QED
      BY <3>2, <3>4, <3>5 DEF LooseTypes
  <2>7. ASSUME NEW p \in Pools, GetPendingRewards(p) PROVE LooseTypes'
    BY <2>7, <2>0 DEF LooseTypes, GetPendingRewards
  <2>8. ASSUME NEW u \in Stakers, NEW p \in Pools, NEW amount \in Amounts,
               Withdraw(u, p, amount)
        PROVE  LooseTypes'
    <3>2. stakes' \in [Pools -> [Stakers -> StakerInfo]]
      <4> DEFINE s == stakes[p][u]
                 acc == Updated(pool[p]).acc
                 d == IF PendingReward(s.amount, s.debt, acc) > 0 THEN acc ELSE s.debt
      <4>1. Updated(pool[p]).acc \in Nat /\ s \in StakerInfo /\ amount \in Nat
        BY <2>0 DEF LooseTypes
      <4>2. amount <= s.amount
        BY <2>8 DEF Withdraw, Sufficient
      <4>3. d \in Nat
        BY <4>1 DEF StakerInfo
      <4>4. stakes' = [stakes EXCEPT ![p][u] =
                          IF s.amount = amount THEN NoStake
                          ELSE [amount |-> s.amount - amount, until |-> s.until, debt |-> d]]
        BY <2>8 DEF Withdraw
      <4> HIDE DEF d
      <4>5. [amount |-> s.amount - amount, until |-> s.until, debt |-> d] \in StakerInfo
        BY <4>1, <4>2, <4>3 DEF StakerInfo
      <4>6. NoStake \in StakerInfo
        BY DEF NoStake, StakerInfo
      <4> HIDE DEF s
      <4> QED
        BY <4>4, <4>5, <4>6 DEF LooseTypes
    <3>3. pool' \in [Pools -> Loose]
      BY <2>8, <2>0 DEF LooseTypes, Withdraw, SubFromPoolStaked
    <3> QED
      BY <2>8, <2>0, <3>2, <3>3 DEF LooseTypes, Withdraw, SubFromPoolStaked
  <2>9. CASE Tick
    BY <2>9 DEF LooseTypes, Tick
  <2> QED
    BY <2>1, <2>2, <2>3, <2>4, <2>5, <2>6, <2>7, <2>8, <2>9 DEF Next
<1> QED
  BY <1>1, <1>2, PTL DEF Spec

(* No call brings the end of a lock forward while the position lasts:      *)
(* stake takes the later of the two ends, a claim and a partial withdrawal *)
(* keep it.                                                                *)
THEOREM LocksHold == Spec => LockNeverShortens
<1> DEFINE Longer == \A p \in Pools, u \in Stakers :
                        stakes[p][u].amount > 0 /\ stakes'[p][u].amount > 0 =>
                            stakes'[p][u].until >= stakes[p][u].until
<1>1. LooseTypes /\ [Next]_vars => [Longer]_vars
  <2> SUFFICES ASSUME LooseTypes, Next PROVE Longer
    OBVIOUS
  <2>1. CASE UNCHANGED stakes
    BY <2>1 DEF LooseTypes, StakerInfo
  <2>2. ASSUME NEW u \in Stakers, NEW p \in Pools, NEW amount \in Amounts,
               NEW lock \in Locks, Stake(u, p, amount, lock)
        PROVE  Longer
    <3>1. stakes[p][u].amount > 0 =>
              LockUntil(stakes[p][u], lock) >= stakes[p][u].until
      BY StakingAssumption DEF LooseTypes, StakerInfo, LockUntil
    <3> QED
      BY <2>2, <3>1 DEF LooseTypes, StakerInfo, Stake
  <2>3. ASSUME NEW u \in Stakers, NEW p \in Pools, ClaimRewards(u, p)
        PROVE  Longer
    BY <2>3 DEF LooseTypes, StakerInfo, ClaimRewards
  <2>4. ASSUME NEW u \in Stakers, NEW p \in Pools, NEW amount \in Amounts,
               Withdraw(u, p, amount)
        PROVE  Longer
    BY <2>4 DEF LooseTypes, StakerInfo, Withdraw, NoStake
  <2> QED
    BY <2>1, <2>2, <2>3, <2>4 DEF Next, CreatePool, DeactivatePool, SetRewardRate,
                                  GetPendingRewards, Tick
<1> QED
  BY <1>1, LooseTypesHold, PTL DEF Spec, LockNeverShortens
-----------------------------------------------------------------------------
(* No position is open in a pool that was not created yet, which           *)
(* create_pool needs: it writes a total of 0.                              *)
OnlyInPools ==
    /\ count \in 0..MaxPools
    /\ \A p \in Pools, u \in Stakers : p > count => stakes[p][u].amount = 0

TotalsInv == LooseTypes /\ OnlyInPools /\ TotalsAddUp

Held(p) == [u \in Stakers |-> stakes[p][u].amount]

(* Advancing the accumulator does not change what is staked.               *)
LEMMA UpdatedKeepsStaked ==
    ASSUME NEW q \in [rate : Nat, staked : Int, acc : Nat, updated : Nat]
    PROVE  Updated(q).staked = q.staked
<1> DEFINE acc == IF q.staked > 0
                     THEN q.acc + (q.rate * (now - q.updated) * Precision) \div q.staked
                     ELSE q.acc
<1>1. Updated(q) = [[q EXCEPT !.acc = acc] EXCEPT !.updated = now]
  BY DEF Updated
<1> HIDE DEF acc
<1> QED
  BY <1>1

(* A step that changes no position and no total.                           *)
LEMMA SameTotals ==
    ASSUME TotalsAddUp, \A p \in Pools : pool'[p].staked = pool[p].staked,
           \A p \in Pools, u \in Stakers : stakes'[p][u].amount = stakes[p][u].amount
    PROVE  TotalsAddUp'
<1>1. \A p \in Pools : Held(p)' = Held(p)
  BY DEF Held
<1> QED
  BY <1>1 DEF TotalsAddUp, Held

(* A step that changes one position and its pool's total by the same.      *)
LEMMA OneTotal ==
    ASSUME TotalsInv, stakes' \in [Pools -> [Stakers -> StakerInfo]],
           NEW p \in Pools, NEW u \in Stakers, NEW d \in Int,
           stakes'[p][u].amount = stakes[p][u].amount + d,
           pool'[p].staked = pool[p].staked + d,
           \A r \in Pools \ {p} : pool'[r].staked = pool[r].staked,
           \A r \in Pools \ {p} : stakes'[r] = stakes[r],
           \A v \in Stakers \ {u} : stakes'[p][v] = stakes[p][v]
    PROVE  TotalsAddUp'
<1> SUFFICES ASSUME NEW r \in Pools
             PROVE  pool'[r].staked = Total(Held(r)', Stakers)
  BY DEF TotalsAddUp, Held
<1>1. pool[r].staked = Total(Held(r), Stakers) /\ IsFiniteSet(Stakers)
  BY StakingAssumption DEF TotalsInv, TotalsAddUp, Held
<1>2. CASE r = p
  <2>1. \A v \in Stakers : Held(p)[v] \in Int /\ Held(p)'[v] \in Int
    BY DEF Held, TotalsInv, LooseTypes, StakerInfo
  <2>2. \A v \in Stakers \ {u} : Held(p)[v] = Held(p)'[v]
    BY DEF Held
  <2>3. Total(Held(p)', Stakers) = Total(Held(p), Stakers) + (Held(p)'[u] - Held(p)[u])
    BY <1>1, <2>1, <2>2, TotalChange
  <2>4. Held(p)'[u] = Held(p)[u] + d
    BY DEF Held
  <2>5. Held(p)'[u] - Held(p)[u] = d
    BY <2>1, <2>4
  <2> QED
    BY <1>1, <1>2, <2>3, <2>5
<1>3. CASE r # p
  <2>1. Held(r)' = Held(r)
    BY <1>3 DEF Held
  <2> QED
    BY <1>1, <1>3, <2>1
<1> QED
  BY <1>2, <1>3

(* The inductive invariant of the totals.                                  *)
LEMMA TotalsInvHolds == Spec => []TotalsInv
<1>1. Init => OnlyInPools /\ TotalsAddUp
  <2> SUFFICES ASSUME Init PROVE OnlyInPools /\ TotalsAddUp
    OBVIOUS
  <2>1. OnlyInPools
    BY StakingAssumption DEF Init, OnlyInPools, NoStake
  <2>2. \A p \in Pools : pool[p].staked = 0 /\ \A u \in Stakers : Held(p)[u] = 0
    BY DEF Init, NoPool, NoStake, Held
  <2>3. \A p \in Pools : Total(Held(p), Stakers) = 0
    BY <2>2, TotalZero, StakingAssumption
  <2> QED
    BY <2>1, <2>2, <2>3 DEF TotalsAddUp, Held
<1>2. TotalsInv /\ LooseTypes' /\ [Next]_vars => (OnlyInPools /\ TotalsAddUp)'
  <2> SUFFICES ASSUME TotalsInv, LooseTypes', [Next]_vars
               PROVE  OnlyInPools' /\ TotalsAddUp'
    OBVIOUS
  <2> USE StakingAssumption
  <2> DEFINE Loose == [rate : Nat, staked : Int, acc : Nat, updated : Nat]
  <2>0. /\ \A p \in Pools : pool[p] \in Loose /\ pool'[p] \in Loose
        /\ \A p \in Pools : Updated(pool[p]) \in Loose
        /\ \A p \in Pools : Updated(pool[p]).staked = pool[p].staked
        /\ pool \in [Pools -> Loose]
        /\ stakes \in [Pools -> [Stakers -> StakerInfo]]
        /\ stakes' \in [Pools -> [Stakers -> StakerInfo]]
        /\ count \in 0..MaxPools /\ TotalsAddUp
        /\ \A p \in Pools, u \in Stakers : p > count => stakes[p][u].amount = 0
    BY UpdatedTypes, UpdatedKeepsStaked DEF TotalsInv, LooseTypes, OnlyInPools
  <2>1. CASE UNCHANGED vars
    BY <2>0, <2>1, SameTotals DEF vars, OnlyInPools
  <2>2. ASSUME NEW rate \in Rates, CreatePool(rate)
        PROVE  OnlyInPools' /\ TotalsAddUp'
    <3>1. /\ count < MaxPools /\ count' = count + 1 /\ stakes' = stakes
          /\ pool' = [pool EXCEPT ![count + 1] =
                         [rate |-> rate, staked |-> 0, acc |-> 0, updated |-> now]]
      BY <2>2 DEF CreatePool
    <3>2. count + 1 \in Pools
      BY <2>0, <3>1 DEF Pools
    <3>3. pool[count + 1].staked = 0
      <4>1. \A u \in Stakers : Held(count + 1)[u] = 0
        BY <2>0, <3>2 DEF Held
      <4>2. Total(Held(count + 1), Stakers) = 0
        BY <4>1, TotalZero
      <4> QED
        BY <2>0, <3>2, <4>2 DEF TotalsAddUp, Held
    <3>4. \A p \in Pools : pool'[p].staked = pool[p].staked
      BY <2>0, <3>1, <3>2, <3>3
    <3>5. TotalsAddUp'
      BY <2>0, <3>1, <3>4, SameTotals
    <3>6. OnlyInPools'
      BY <2>0, <3>1 DEF OnlyInPools, Pools
    <3> QED
      BY <3>5, <3>6
  <2>3. ASSUME NEW p \in Pools, DeactivatePool(p)
        PROVE  OnlyInPools' /\ TotalsAddUp'
    BY <2>0, <2>3, SameTotals DEF DeactivatePool, OnlyInPools
  <2>4. ASSUME NEW p \in Pools, NEW rate \in Rates, SetRewardRate(p, rate)
        PROVE  OnlyInPools' /\ TotalsAddUp'
    <3>1. \A r \in Pools : pool'[r].staked = pool[r].staked
      BY <2>0, <2>4 DEF SetRewardRate
    <3> QED
      BY <2>0, <2>4, <3>1, SameTotals DEF SetRewardRate, OnlyInPools
  <2>5. ASSUME NEW u \in Stakers, NEW p \in Pools, NEW amount \in Amounts,
               NEW lock \in Locks, Stake(u, p, amount, lock)
        PROVE  OnlyInPools' /\ TotalsAddUp'
    <3>1. /\ p <= count /\ count' = count /\ amount \in Int
          /\ pool' = [pool EXCEPT ![p] = [Updated(pool[p]) EXCEPT !.staked = @ + amount]]
          /\ stakes' = [stakes EXCEPT ![p][u] =
                           [amount |-> stakes[p][u].amount + amount,
                            until |-> LockUntil(stakes[p][u], lock),
                            debt |-> Updated(pool[p]).acc]]
      BY <2>5 DEF Stake, Exists
    <3>2. /\ pool'[p].staked = pool[p].staked + amount
          /\ \A r \in Pools \ {p} : pool'[r].staked = pool[r].staked
      BY <2>0, <3>1
    <3>3. /\ stakes'[p][u].amount = stakes[p][u].amount + amount
          /\ \A r \in Pools \ {p} : stakes'[r] = stakes[r]
          /\ \A v \in Stakers \ {u} : stakes'[p][v] = stakes[p][v]
      BY <2>0, <3>1
    <3>4. TotalsAddUp'
      BY <2>0, <3>1, <3>2, <3>3, OneTotal
    <3>5. OnlyInPools'
      <4>0. p <= count
        BY <2>5 DEF Stake, Exists
      <4>1. \A r \in Pools : r > count => r # p
        BY <4>0 DEF TotalsInv, OnlyInPools, Pools
      <4>2. \A r \in Pools, v \in Stakers : r > count => stakes'[r][v].amount = 0
        BY <2>0, <3>3, <4>1
      <4> QED
        BY <2>0, <3>1, <4>2 DEF OnlyInPools
    <3> QED
      BY <3>4, <3>5
  <2>6. ASSUME NEW u \in Stakers, NEW p \in Pools, ClaimRewards(u, p)
        PROVE  OnlyInPools' /\ TotalsAddUp'
    <3> DEFINE s == stakes[p][u]
               acc == Updated(pool[p]).acc
               d == IF PendingReward(s.amount, s.debt, acc) > 0 THEN acc ELSE s.debt
    <3>1. /\ stakes' = [stakes EXCEPT ![p][u] = [stakes[p][u] EXCEPT !.debt = d]]
          /\ pool' = [pool EXCEPT ![p] = Updated(pool[p])] /\ count' = count
      BY <2>6 DEF ClaimRewards
    <3> HIDE DEF d
    <3>2. \A r \in Pools, v \in Stakers : stakes'[r][v].amount = stakes[r][v].amount
      BY <2>0, <3>1 DEF StakerInfo
    <3>3. \A r \in Pools : pool'[r].staked = pool[r].staked
      BY <2>0, <3>1
    <3> QED
      BY <2>0, <3>1, <3>2, <3>3, SameTotals DEF OnlyInPools
  <2>7. ASSUME NEW p \in Pools, GetPendingRewards(p)
        PROVE  OnlyInPools' /\ TotalsAddUp'
    <3>1. \A r \in Pools : pool'[r].staked = pool[r].staked
      BY <2>0, <2>7 DEF GetPendingRewards
    <3> QED
      BY <2>0, <2>7, <3>1, SameTotals DEF GetPendingRewards, OnlyInPools
  <2>8. ASSUME NEW u \in Stakers, NEW p \in Pools, NEW amount \in Amounts,
               Withdraw(u, p, amount)
        PROVE  OnlyInPools' /\ TotalsAddUp'
    <3> DEFINE s == stakes[p][u]
               acc == Updated(pool[p]).acc
               d == IF PendingReward(s.amount, s.debt, acc) > 0 THEN acc ELSE s.debt
               n == IF stakes[p][u].amount = amount THEN NoStake
                    ELSE [amount |-> stakes[p][u].amount - amount,
                          until |-> stakes[p][u].until, debt |-> d]
    <3>1. /\ stakes' = [stakes EXCEPT ![p][u] = n] /\ p <= count /\ count' = count
          /\ pool' = [pool EXCEPT ![p] = SubFromPoolStaked(Updated(pool[p]), amount)]
      BY <2>8 DEF Withdraw, Exists
    <3>2. amount \in Int /\ stakes[p][u].amount \in Int
      BY <2>0 DEF StakerInfo
    <3>3. n.amount = stakes[p][u].amount + (-amount)
      BY <3>2 DEF NoStake
    <3> HIDE DEF n
    <3>4. /\ stakes'[p][u].amount = stakes[p][u].amount + (-amount)
          /\ \A r \in Pools \ {p} : stakes'[r] = stakes[r]
          /\ \A v \in Stakers \ {u} : stakes'[p][v] = stakes[p][v]
      BY <2>0, <3>1, <3>3
    <3>5. /\ pool'[p].staked = pool[p].staked + (-amount)
          /\ \A r \in Pools \ {p} : pool'[r].staked = pool[r].staked
      BY <2>0, <3>1, <3>2 DEF SubFromPoolStaked
    <3>6. TotalsAddUp'
      <4>1. -amount \in Int
        BY <3>2
      <4> QED
        BY <2>0, <3>4, <3>5, <4>1, OneTotal
    <3>7. OnlyInPools'
      <4>1. \A r \in Pools : r > count => r # p
        BY <2>0, <3>1 DEF Pools
      <4>2. \A r \in Pools, v \in Stakers : r > count => stakes'[r][v].amount = 0
        BY <2>0, <3>4, <4>1
      <4> QED
        BY <2>0, <3>1, <4>2 DEF OnlyInPools
    <3> QED
      BY <3>6, <3>7
  <2>9. CASE Tick
    BY <2>0, <2>9, SameTotals DEF Tick, OnlyInPools
  <2> QED
    BY <2>1, <2>2, <2>3, <2>4, <2>5, <2>6, <2>7, <2>8, <2>9 DEF Next
<1>3. TotalsInv <=> LooseTypes /\ (OnlyInPools /\ TotalsAddUp)
  BY DEF TotalsInv
<1> QED
  BY <1>1, <1>2, <1>3, LooseTypesHold, PTL DEF Spec

(* total_staked is the sum of the positions of its pool, through any mix   *)
(* of stakes, claims, partial and full withdrawals: the rewards divide by  *)
(* what is really staked.                                                  *)
THEOREM TotalsHold == Spec => []TotalsAddUp
<1>1. TotalsInv => TotalsAddUp
  BY DEF TotalsInv
<1> QED
  BY <1>1, TotalsInvHolds, PTL

(* What is pending on a position is never negative.                        *)
LEMMA PendingRewardNat ==
    ASSUME NEW amount \in Nat, NEW debt \in Nat, NEW acc \in Nat
    PROVE  PendingReward(amount, debt, acc) \in Nat
<1>1. amount * acc \in Nat
  OBVIOUS
<1>2. (amount * acc) \div Precision \in Nat
  BY <1>1, StakingAssumption
<1> QED
  BY <1>2 DEF PendingReward

(* Positions, totals, the vault and the treasury stay natural numbers: no  *)
(* call of the staking contract drives one below zero.  That a total does  *)
(* not fall below zero rests on TotalsHold.                                *)
THEOREM StakingTypeCorrect == Spec => []TypeOK
<1> USE StakingAssumption
<1> DEFINE Rest == /\ now \in 0..MaxTime /\ active \subseteq Pools
                   /\ vault \in Nat /\ treasury \in Nat /\ early \in Nat
<1>1. Init => Rest
  BY DEF Init
<1>2. TotalsInv /\ Rest /\ [Next]_vars => Rest'
  <2> SUFFICES ASSUME TotalsInv, Rest, [Next]_vars PROVE Rest'
    OBVIOUS
  <2> DEFINE pay(p, u) == PendingReward(stakes[p][u].amount, stakes[p][u].debt,
                                        Updated(pool[p]).acc)
  <2>1. \A p \in Pools, u \in Stakers : pay(p, u) \in Nat
    <3> SUFFICES ASSUME NEW p \in Pools, NEW u \in Stakers PROVE pay(p, u) \in Nat
      OBVIOUS
    <3>1. stakes[p][u].amount \in Nat /\ stakes[p][u].debt \in Nat
      BY DEF TotalsInv, LooseTypes, StakerInfo
    <3>2. Updated(pool[p]).acc \in Nat
      BY UpdatedTypes DEF TotalsInv, LooseTypes
    <3> QED
      BY <3>1, <3>2, PendingRewardNat
  <2>2. ASSUME NEW rate \in Rates, CreatePool(rate) PROVE Rest'
    <3>1. active' = active \cup {count + 1} /\ UNCHANGED <<now, vault, treasury, early>>
      BY <2>2 DEF CreatePool
    <3>2. count + 1 \in Pools
      BY <2>2 DEF CreatePool, TotalsInv, OnlyInPools, Pools
    <3> QED
      BY <3>1, <3>2
  <2>3. ASSUME NEW p \in Pools, DeactivatePool(p) PROVE Rest'
    BY <2>3 DEF DeactivatePool
  <2>4. ASSUME NEW p \in Pools, NEW rate \in Rates, SetRewardRate(p, rate) PROVE Rest'
    BY <2>4 DEF SetRewardRate
  <2>5. ASSUME NEW u \in Stakers, NEW p \in Pools, NEW amount \in Amounts,
               NEW lock \in Locks, Stake(u, p, amount, lock)
        PROVE  Rest'
    <3>1. /\ vault + amount >= pay(p, u) /\ vault' = vault + amount - pay(p, u)
          /\ UNCHANGED <<now, active, treasury, early>>
      BY <2>5 DEF Stake
    <3>2. pay(p, u) \in Nat /\ amount \in Nat
      BY <2>1
    <3> HIDE DEF pay
    <3> QED
      BY <3>1, <3>2
  <2>6. ASSUME NEW u \in Stakers, NEW p \in Pools, ClaimRewards(u, p) PROVE Rest'
    <3>1. /\ vault >= pay(p, u) /\ vault' = vault - pay(p, u)
          /\ UNCHANGED <<now, active, treasury, early>>
      BY <2>6 DEF ClaimRewards
    <3>2. pay(p, u) \in Nat
      BY <2>1
    <3> HIDE DEF pay
    <3> QED
      BY <3>1, <3>2
  <2>7. ASSUME NEW p \in Pools, GetPendingRewards(p) PROVE Rest'
    BY <2>7 DEF GetPendingRewards
  <2>8. ASSUME NEW u \in Stakers, NEW p \in Pools, NEW amount \in Amounts,
               Withdraw(u, p, amount)
        PROVE  Rest'
    <3> DEFINE locked == now < stakes[p][u].until
    <3>1. /\ vault >= pay(p, u) + amount /\ vault' = vault - pay(p, u) - amount
          /\ treasury' = treasury + IF locked THEN Penalty(amount) ELSE 0
          /\ early' = IF locked THEN early + amount ELSE early
          /\ UNCHANGED <<now, active>>
      BY <2>8 DEF Withdraw
    <3>2. pay(p, u) \in Nat /\ amount \in Nat /\ Penalty(amount) \in Nat
      BY <2>1, PenaltyIsATenth
    <3> HIDE DEF pay, locked
    <3>3. vault' \in Nat
      BY <3>1, <3>2
    <3>4. treasury' \in Nat /\ early' \in Nat
      BY <3>1, <3>2
    <3> QED
      BY <3>1, <3>3, <3>4
  <2>9. CASE Tick
    BY <2>9 DEF Tick
  <2>10. CASE UNCHANGED vars
    BY <2>10 DEF vars
  <2> QED
    BY <2>2, <2>3, <2>4, <2>5, <2>6, <2>7, <2>8, <2>9, <2>10 DEF Next
<1>3. TotalsInv /\ Rest => TypeOK
  <2> SUFFICES ASSUME TotalsInv, Rest PROVE TypeOK
    OBVIOUS
  <2>1. \A p \in Pools : pool[p].staked \in Nat
    <3> SUFFICES ASSUME NEW p \in Pools PROVE pool[p].staked \in Nat
      OBVIOUS
    <3>1. \A u \in Stakers : Held(p)[u] \in Nat
      BY DEF Held, TotalsInv, LooseTypes, StakerInfo
    <3>2. Total(Held(p), Stakers) \in Nat
      BY <3>1, TotalNat
    <3> QED
      BY <3>2 DEF TotalsInv, TotalsAddUp, Held
  <2>2. pool \in [Pools -> PoolInfo]
    BY <2>1 DEF TotalsInv, LooseTypes, PoolInfo
  <2> QED
    BY <2>2 DEF TypeOK, TotalsInv, LooseTypes, OnlyInPools
<1> QED
  BY <1>1, <1>2, <1>3, TotalsInvHolds, PTL DEF Spec
-----------------------------------------------------------------------------
(* Before the migration version 2 stores only what register_payment        *)
(* accepted, and nothing was left out yet.                                 *)
BeforeMigration ==
    version = 1 =>
        /\ leftOut = {} /\ v2 = registered
        /\ \A id \in PaymentIds : registered[id] # NoRecord => id \in beforehand

RegistryInv == RegistryTypeOK /\ BeforeMigration /\ PaymentsSurviveUpgrade

(* No payment is lost or taken for another across the upgrade, but for an  *)
(* id the migration did not list and one that was registered before it.    *)
THEOREM UpgradeKeepsPayments == RegistrySpec => []PaymentsSurviveUpgrade
<1> USE RegistryAssumption
<1>1. RegistryInit => RegistryInv
  BY DEF RegistryInit, RegistryInv, RegistryTypeOK, BeforeMigration, PaymentsSurviveUpgrade,
         Records, Empty
<1>2. RegistryInv /\ [RegistryNext]_registryVars => RegistryInv'
  <2> SUFFICES ASSUME RegistryInv, [RegistryNext]_registryVars PROVE RegistryInv'
    OBVIOUS
  <2> USE DEF RegistryInv, RegistryTypeOK, Records
  <2>1. ASSUME NEW ids \in SUBSET PaymentIds, Migrate(ids) PROVE RegistryInv'
    <3>1. RegistryTypeOK' /\ BeforeMigration'
      BY <2>1 DEF Migrate, BeforeMigration
    <3>2. PaymentsSurviveUpgrade'
      BY <2>1 DEF Migrate, BeforeMigration, PaymentsSurviveUpgrade
    <3> QED
      BY <3>1, <3>2
  <2>2. ASSUME NEW id \in PaymentIds, NEW record \in PaymentRecords,
               RegisterPayment(id, record)
        PROVE  RegistryInv'
    <3>1. RegistryTypeOK' /\ BeforeMigration'
      BY <2>2 DEF RegisterPayment, BeforeMigration
    <3>2. PaymentsSurviveUpgrade'
      BY <2>2 DEF RegisterPayment, IsFree, PaymentsSurviveUpgrade
    <3> QED
      BY <3>1, <3>2
  <2>3. CASE UNCHANGED registryVars
    BY <2>3 DEF registryVars, BeforeMigration, PaymentsSurviveUpgrade
  <2> QED
    BY <2>1, <2>2, <2>3 DEF RegistryNext
<1>3. RegistryInv => PaymentsSurviveUpgrade
  BY DEF RegistryInv
<1> QED
  BY <1>1, <1>2, <1>3, PTL DEF RegistrySpec
-----------------------------------------------------------------------------
(* The history of the pending proposal and of the transactions that name   *)
(* it: the countdown and the time stood add up, a sender whose proposal    *)
(* still stands has its id, one whose proposal was replaced a smaller id.  *)
ClockAddsUp == pending # NoPending => stood = TimelockDelay - pending.wait

CallsRemember ==
    \A c \in CarbonCalls : carbonCall[c].kind # "none" =>
        /\ carbonCall[c].since = "standing" => pending # NoPending /\ carbonCall[c].id = pending.id
        /\ carbonCall[c].since = "replaced" => pending # NoPending /\ carbonCall[c].id < pending.id

CarbonInv == CarbonTypeOK /\ ClockAddsUp /\ CallsRemember

PendingProposal == [id : 1..MaxId, price : CarbonPrices, wait : 0..TimelockDelay]

(* The types the timelock rests on.                                        *)
LEMMA CarbonFacts ==
    ASSUME CarbonTypeOK
    PROVE  /\ pending # NoPending => pending \in PendingProposal
           /\ \A p \in PendingProposal : p # NoPending
           /\ \A c \in CarbonCalls : carbonCall[c] \in CarbonCall
           /\ NoCall \in CarbonCall
<1>1. \A p \in PendingProposal : p \in [id : Nat, price : Nat, wait : Nat]
  <2>1. CarbonPrices \subseteq Nat /\ 1..MaxId \subseteq Nat /\ 0..TimelockDelay \subseteq Nat
    BY CarbonAssumption
  <2> QED
    BY <2>1 DEF PendingProposal
<1>2. NoCall \in CarbonCall
  BY CarbonAssumption DEF CarbonCall, NoCall
<1>3. pending # NoPending => pending \in PendingProposal
  BY DEF CarbonTypeOK, PendingProposal
<1>4. \A c \in CarbonCalls : carbonCall[c] \in CarbonCall
  BY DEF CarbonTypeOK
<1> QED
  BY <1>1, <1>2, <1>3, <1>4, CarbonAssumption

(* The types of the calls, whatever became of their proposals.             *)
LEMMA FateTypes ==
    ASSUME NEW calls \in [CarbonCalls -> CarbonCall], NEW how \in {"replaced", "removed"}
    PROVE  /\ Fate(calls, how) \in [CarbonCalls -> CarbonCall]
           /\ \A c \in CarbonCalls :
                 /\ Fate(calls, how)[c].kind = calls[c].kind
                 /\ Fate(calls, how)[c].id = calls[c].id
                 /\ calls[c].kind # "none" =>
                       Fate(calls, how)[c].since =
                           IF calls[c].since = "removed" THEN "removed" ELSE how
BY DEF Fate, CarbonCall

(* A proposal replaces the pending update and starts its timelock.         *)
LEMMA ProposeCarbonInv ==
    ASSUME CarbonInv, NEW price \in CarbonPrices, ProposePriceUpdate(price)
    PROVE  CarbonInv'
<1> DEFINE id == IF pending = NoPending THEN 1 ELSE pending.id + 1
           n == [id |-> id, price |-> price, wait |-> TimelockDelay]
<1>1. /\ id <= MaxId /\ pending' = n /\ stood' = 0
      /\ carbonCall' = Fate(carbonCall, "replaced") /\ carbonPrice' = carbonPrice
  BY DEF ProposePriceUpdate, Deadline
<1>2. id \in 1..MaxId
  BY <1>1, CarbonFacts, CarbonAssumption DEF CarbonInv, PendingProposal
<1>3. pending # NoPending => pending.id < id /\ pending.id \in Nat
  BY CarbonFacts DEF CarbonInv, PendingProposal
<1> HIDE DEF id
<1>4. n \in PendingProposal /\ n # NoPending
  BY <1>2, CarbonFacts, CarbonAssumption DEF CarbonInv, PendingProposal
<1>5. CarbonTypeOK'
  BY <1>1, <1>4, FateTypes, CarbonAssumption DEF CarbonInv, CarbonTypeOK, PendingProposal
<1>6. ClockAddsUp'
  BY <1>1, CarbonAssumption DEF ClockAddsUp
<1>7. CallsRemember'
  <2> SUFFICES ASSUME NEW c \in CarbonCalls, carbonCall'[c].kind # "none"
               PROVE  /\ carbonCall'[c].since # "standing"
                      /\ carbonCall'[c].since = "replaced" => carbonCall'[c].id < id
    BY <1>1, <1>4 DEF CallsRemember
  <2>1. /\ carbonCall'[c].kind = carbonCall[c].kind /\ carbonCall'[c].id = carbonCall[c].id
        /\ carbonCall[c].kind # "none" =>
               carbonCall'[c].since = IF carbonCall[c].since = "removed" THEN "removed" ELSE "replaced"
    BY <1>1, FateTypes DEF CarbonInv, CarbonTypeOK
  <2>2. carbonCall'[c].since = "replaced" => carbonCall[c].id <= pending.id /\ pending # NoPending
    BY <2>1, CarbonFacts DEF CarbonInv, CallsRemember, CarbonCall, PendingProposal
  <2>3. carbonCall[c].id \in Nat
    BY CarbonFacts, CarbonAssumption DEF CarbonInv, CarbonCall
  <2> QED
    BY <1>2, <1>3, <2>1, <2>2, <2>3
<1> QED
  BY <1>5, <1>6, <1>7 DEF CarbonInv

(* A call is submitted with the id that is pending then.                   *)
LEMMA SubmitCarbonInv ==
    ASSUME CarbonInv, NEW c \in CarbonCalls, NEW kind \in {"execute", "cancel"}, Submit(c, kind)
    PROVE  CarbonInv'
<1> DEFINE n == [NoCall EXCEPT !.kind = kind, !.id = pending.id]
<1>1. /\ pending # NoPending /\ carbonCall' = [carbonCall EXCEPT ![c] = n]
      /\ UNCHANGED <<carbonPrice, pending, stood>>
  BY DEF Submit
<1>2. n \in CarbonCall /\ n.since = "standing" /\ n.id = pending.id
  <2>1. n = [kind |-> kind, id |-> pending.id, since |-> "standing"]
    <3>1. [NoCall EXCEPT !.kind = kind] = [kind |-> kind, id |-> 0, since |-> "standing"]
      BY DEF NoCall
    <3>2. n = [[kind |-> kind, id |-> 0, since |-> "standing"] EXCEPT !.id = pending.id]
      BY <3>1
    <3> HIDE DEF n
    <3> QED
      BY <3>2
  <2>2. pending.id \in 0..MaxId
    BY <1>1, CarbonFacts DEF CarbonInv, PendingProposal
  <2> HIDE DEF n
  <2> QED
    BY <2>1, <2>2 DEF CarbonCall
<1> HIDE DEF n
<1>3. CarbonTypeOK' /\ ClockAddsUp'
  BY <1>1, <1>2 DEF CarbonInv, CarbonTypeOK, ClockAddsUp
<1>4. CallsRemember'
  BY <1>1, <1>2 DEF CarbonInv, CarbonTypeOK, CallsRemember
<1> QED
  BY <1>3, <1>4 DEF CarbonInv

(* Executing or cancelling removes the pending update for all calls.       *)
LEMMA RemoveCarbonInv ==
    ASSUME CarbonInv, NEW c \in CarbonCalls, Remove(c), carbonPrice' \in CarbonPrices
    PROVE  CarbonInv'
<1> DEFINE calls == [carbonCall EXCEPT ![c] = NoCall]
<1>1. pending' = NoPending /\ stood' = 0 /\ carbonCall' = Fate(calls, "removed")
  BY DEF Remove
<1>2. calls \in [CarbonCalls -> CarbonCall]
  BY CarbonFacts DEF CarbonInv, CarbonTypeOK
<1> HIDE DEF calls
<1>3. CarbonTypeOK' /\ ClockAddsUp'
  BY <1>1, <1>2, FateTypes, CarbonAssumption DEF CarbonTypeOK, ClockAddsUp
<1>4. \A d \in CarbonCalls : carbonCall'[d].kind # "none" => carbonCall'[d].since = "removed"
  BY <1>1, <1>2, FateTypes
<1>5. CallsRemember'
  BY <1>4 DEF CallsRemember
<1> QED
  BY <1>3, <1>5 DEF CarbonInv

(* A refused call changes nothing but itself.                              *)
LEMMA RefuseCarbonInv ==
    ASSUME CarbonInv, NEW c \in CarbonCalls, Refuse(c)
    PROVE  CarbonInv'
<1>1. carbonCall' = [carbonCall EXCEPT ![c] = NoCall] /\ UNCHANGED <<carbonPrice, pending, stood>>
  BY DEF Refuse
<1>2. CarbonTypeOK' /\ ClockAddsUp'
  BY <1>1, CarbonFacts DEF CarbonInv, CarbonTypeOK, ClockAddsUp
<1>3. CallsRemember'
  BY <1>1 DEF CarbonInv, CarbonTypeOK, CallsRemember, NoCall
<1> QED
  BY <1>2, <1>3 DEF CarbonInv

(* Time only brings the end of a timelock nearer.                          *)
LEMMA TickCarbonInv ==
    ASSUME CarbonInv, CarbonTick
    PROVE  CarbonInv'
<1>1. /\ pending # NoPending /\ pending.wait > 0 /\ stood' = stood + 1
      /\ pending' = [pending EXCEPT !.wait = pending.wait - 1]
      /\ UNCHANGED <<carbonPrice, carbonCall>>
  BY DEF CarbonTick
<1>2. pending \in PendingProposal
  BY <1>1, CarbonFacts DEF CarbonInv
<1>3. /\ pending' \in PendingProposal /\ pending' # NoPending
      /\ pending'.id = pending.id /\ pending'.wait = pending.wait - 1
  BY <1>1, <1>2, CarbonFacts, CarbonAssumption DEF CarbonInv, PendingProposal
<1>4. stood' = TimelockDelay - pending'.wait
  BY <1>1, <1>2, <1>3, CarbonAssumption DEF CarbonInv, ClockAddsUp, PendingProposal
<1>5. stood' \in 0..TimelockDelay
  BY <1>3, <1>4, CarbonAssumption DEF PendingProposal
<1>6. CarbonTypeOK' /\ ClockAddsUp'
  BY <1>1, <1>3, <1>4, <1>5 DEF CarbonInv, CarbonTypeOK, ClockAddsUp, PendingProposal
<1>7. CallsRemember'
  BY <1>1, <1>3 DEF CarbonInv, CallsRemember
<1> QED
  BY <1>6, <1>7 DEF CarbonInv

(* The inductive invariant of the timelock.                                *)
LEMMA CarbonInvHolds == CarbonSpec => []CarbonInv
<1>1. CarbonInit => CarbonInv
  BY CarbonAssumption
     DEF CarbonInit, CarbonInv, CarbonTypeOK, ClockAddsUp, CallsRemember, CarbonCall, NoCall
<1>2. CarbonInv /\ [CarbonNext]_carbonVars => CarbonInv'
  <2> SUFFICES ASSUME CarbonInv, [CarbonNext]_carbonVars PROVE CarbonInv'
    OBVIOUS
  <2>1. ASSUME NEW price \in CarbonPrices, ProposePriceUpdate(price) PROVE CarbonInv'
    BY <2>1, ProposeCarbonInv
  <2>2. ASSUME NEW c \in CarbonCalls, Submit(c, "execute") \/ Submit(c, "cancel") PROVE CarbonInv'
    BY <2>2, SubmitCarbonInv
  <2>3. ASSUME NEW c \in CarbonCalls, ExecutePriceUpdate(c) PROVE CarbonInv'
    <3>1. CASE IsPending(carbonCall[c].id) /\ pending.wait = 0
      <4>1. carbonPrice' = pending.price /\ Remove(c) /\ pending # NoPending
        BY <2>3, <3>1 DEF ExecutePriceUpdate, IsPending
      <4>2. carbonPrice' \in CarbonPrices
        BY <4>1, CarbonFacts DEF CarbonInv, PendingProposal
      <4> QED
        BY <4>1, <4>2, RemoveCarbonInv
    <3>2. CASE ~(IsPending(carbonCall[c].id) /\ pending.wait = 0)
      BY <2>3, <3>2, RefuseCarbonInv DEF ExecutePriceUpdate
    <3> QED
      BY <3>1, <3>2
  <2>4. ASSUME NEW c \in CarbonCalls, EmergencyCancelProposedUpdate(c) PROVE CarbonInv'
    <3>1. CASE Remove(c) /\ UNCHANGED carbonPrice
      BY <3>1, RemoveCarbonInv DEF CarbonInv, CarbonTypeOK
    <3>2. CASE Refuse(c)
      BY <3>2, RefuseCarbonInv
    <3> QED
      BY <2>4, <3>1, <3>2 DEF EmergencyCancelProposedUpdate
  <2>5. CASE CarbonTick
    BY <2>5, TickCarbonInv
  <2>6. CASE UNCHANGED carbonVars
    BY <2>6 DEF carbonVars, CarbonInv, CarbonTypeOK, ClockAddsUp, CallsRemember
  <2> QED
    BY <2>1, <2>2, <2>3, <2>4, <2>5, <2>6 DEF CarbonNext
<1> QED
  BY <1>1, <1>2, PTL DEF CarbonSpec

(* The price only becomes one that was pending, unreplaced, for the whole  *)
(* timelock, and a transaction executes or cancels the proposal its sender *)
(* saw, unless that one was removed and its id used again.                 *)
THEOREM TimelockIsKept == CarbonSpec => TimelockHolds
<1> DEFINE Kept ==
       /\ carbonPrice' # carbonPrice =>
              pending # NoPending /\ stood = TimelockDelay /\ carbonPrice' = pending.price
       /\ pending # NoPending /\ pending' = NoPending =>
              \E c \in CarbonCalls : /\ carbonCall[c].kind # "none" /\ carbonCall'[c] = NoCall
                                     /\ carbonCall[c].since # "replaced"
<1>1. CarbonInv /\ [CarbonNext]_carbonVars => [Kept]_carbonVars
  <2> SUFFICES ASSUME CarbonInv, CarbonNext PROVE Kept
    OBVIOUS
  <2>0. ASSUME NEW c \in CarbonCalls, carbonCall[c].kind # "none",
               IsPending(carbonCall[c].id), Remove(c)
        PROVE  carbonCall'[c] = NoCall /\ carbonCall[c].since # "replaced"
    <3>1. carbonCall'[c] = NoCall
      BY <2>0 DEF Remove, Fate, CarbonInv, CarbonTypeOK, NoCall
    <3>2. carbonCall[c].since # "replaced"
      BY <2>0, CarbonFacts DEF IsPending, CarbonInv, CallsRemember, PendingProposal
    <3> QED
      BY <3>1, <3>2
  <2>1. ASSUME NEW price \in CarbonPrices, ProposePriceUpdate(price) PROVE Kept
    <3>1. CarbonInv'
      BY <2>1, ProposeCarbonInv
    <3>2. pending' # NoPending
      BY <2>1, CarbonAssumption, CarbonFacts
         DEF ProposePriceUpdate, Deadline, CarbonInv, PendingProposal
    <3> QED
      BY <2>1, <3>2 DEF ProposePriceUpdate
  <2>2. ASSUME NEW c \in CarbonCalls, Submit(c, "execute") \/ Submit(c, "cancel") PROVE Kept
    BY <2>2 DEF Submit
  <2>3. ASSUME NEW c \in CarbonCalls, ExecutePriceUpdate(c) PROVE Kept
    <3>1. CASE IsPending(carbonCall[c].id) /\ pending.wait = 0
      <4>1. carbonPrice' = pending.price /\ Remove(c) /\ carbonCall[c].kind = "execute"
        BY <2>3, <3>1 DEF ExecutePriceUpdate
      <4>2. pending # NoPending /\ stood = TimelockDelay
        BY <3>1, CarbonAssumption DEF IsPending, CarbonInv, ClockAddsUp
      <4> QED
        BY <2>0, <3>1, <4>1, <4>2
    <3>2. CASE ~(IsPending(carbonCall[c].id) /\ pending.wait = 0)
      BY <2>3, <3>2 DEF ExecutePriceUpdate, Refuse
    <3> QED
      BY <3>1, <3>2
  <2>4. ASSUME NEW c \in CarbonCalls, EmergencyCancelProposedUpdate(c) PROVE Kept
    <3>1. CASE IsPending(carbonCall[c].id)
      <4>1. carbonPrice' = carbonPrice /\ Remove(c) /\ carbonCall[c].kind = "cancel"
        BY <2>4, <3>1 DEF EmergencyCancelProposedUpdate
      <4> QED
        BY <2>0, <3>1, <4>1
    <3>2. CASE ~IsPending(carbonCall[c].id)
      BY <2>4, <3>2 DEF EmergencyCancelProposedUpdate, Refuse
    <3> QED
      BY <3>1, <3>2
  <2>5. CASE CarbonTick
    BY <2>5, TickCarbonInv, CarbonFacts, CarbonAssumption
       DEF CarbonTick, CarbonInv, PendingProposal
  <2> QED
    BY <2>1, <2>2, <2>3, <2>4, <2>5 DEF CarbonNext
<1> QED
  BY <1>1, CarbonInvHolds, PTL DEF CarbonSpec, TimelockHolds
-----------------------------------------------------------------------------
(* There are no ballots on a proposal that is not made yet, so that a new  *)
(* one starts from empty tallies.                                          *)
NoEarlyBallots ==
    \A i \in Ids : i > Len(proposals) => \A m \in Members : votes[i][m] = "NotVoted"

GovInv == GovTypeOK /\ NoEarlyBallots /\ EffectsFollowBallots

Side(i, side) == {m \in Members : votes[i][m] = side}

(* The votes cast are the sum of the weights of those who cast them.       *)
LEMMA CastIsTotal == \A i, side : Cast(i, side) = Total(weight[i], Side(i, side))
BY DEF Cast, Side

(* The types the ballots rest on.                                          *)
LEMMA GovFacts ==
    ASSUME GovTypeOK
    PROVE  /\ Len(proposals) \in Nat /\ DOMAIN proposals = 1..Len(proposals)
           /\ DOMAIN proposals \subseteq Ids
           /\ proposals \in [1..Len(proposals) -> Proposal]
           /\ IsFiniteSet(Members)
           /\ \A i \in Ids : \A side : IsFiniteSet(Side(i, side))
           /\ \A i \in Ids, m \in Members : weight[i][m] \in Nat
           /\ IsFiniteSet(Executed) /\ IsFiniteSet(PairsEnacted)
<1>1. /\ Len(proposals) \in Nat /\ DOMAIN proposals = 1..Len(proposals)
      /\ proposals \in [1..Len(proposals) -> Proposal]
      /\ Len(proposals) <= MaxProposals
  BY DEF GovTypeOK
<1>2. DOMAIN proposals \subseteq Ids
  BY <1>1, GovernorAssumption DEF Ids
<1>3. \A i \in Ids : \A side : IsFiniteSet(Side(i, side))
  <2>1. \A i \in Ids : \A side : Side(i, side) \subseteq Members
    BY DEF Side
  <2> QED
    BY <2>1, FS_Subset, GovernorAssumption
<1>4. IsFiniteSet(Executed) /\ IsFiniteSet(PairsEnacted)
  <2>1. IsFiniteSet(1..Len(proposals))
    BY <1>1, FS_Interval
  <2>2. Executed \subseteq 1..Len(proposals) /\ PairsEnacted \subseteq 1..Len(proposals)
    BY <1>1 DEF Executed, PairsEnacted
  <2> QED
    BY <2>1, <2>2, FS_Subset
<1>5. \A i \in Ids, m \in Members : weight[i][m] \in Nat
  BY DEF GovTypeOK
<1> QED
  BY <1>1, <1>2, <1>3, <1>4, <1>5, GovernorAssumption

(* A step that executes nothing keeps the effects.                         *)
LEMMA EffectsKept ==
    ASSUME GovInv, UNCHANGED <<enacted, feeBps, ammPairs>>,
           Executed' = Executed, PairsEnacted' = PairsEnacted,
           \A j \in Executed : /\ proposals'[j].action = proposals[j].action
                               /\ proposals'[j].value = proposals[j].value
    PROVE  EffectsAreEnacted'
<1>1. \A n \in DOMAIN enacted : enacted[n] \in Executed
  BY DEF GovInv, EffectsFollowBallots, EffectsAreEnacted
<1>2. FeeTurns' = FeeTurns
  BY <1>1 DEF FeeTurns
<1>3. \A n \in FeeTurns : proposals'[enacted[n]].value = proposals[enacted[n]].value
  BY <1>1 DEF FeeTurns
<1> QED
  BY <1>2, <1>3 DEF GovInv, EffectsFollowBallots, EffectsAreEnacted

(* A call that writes no proposal and no ballot.                           *)
LEMMA UnballotedGovInv ==
    ASSUME GovInv, UNCHANGED <<ballotVars, feeBps, ammPairs>>,
           voteStake' \in [Members -> Nat], executors' \subseteq Members
    PROVE  GovInv'
<1>1. GovTypeOK' /\ NoEarlyBallots'
  BY DEF GovInv, GovTypeOK, NoEarlyBallots, ballotVars
<1>2. \A i, side : Cast(i, side)' = Cast(i, side)
  BY DEF Cast, ballotVars
<1>3. TalliesAddUp'
  BY <1>2 DEF GovInv, EffectsFollowBallots, TalliesAddUp, ballotVars
<1>4. Executed' = Executed /\ PairsEnacted' = PairsEnacted
  BY DEF Executed, PairsEnacted, ballotVars
<1>5. DecisionsStand'
  BY <1>4 DEF GovInv, EffectsFollowBallots, DecisionsStand, Passed, ballotVars
<1>6. EffectsAreEnacted'
  BY <1>4, EffectsKept DEF ballotVars
<1> QED
  BY <1>1, <1>3, <1>5, <1>6 DEF GovInv, EffectsFollowBallots

(* A new proposal has no ballots.                                          *)
LEMMA ProposeGovInv ==
    ASSUME GovInv, NEW m \in Members, NEW action \in {"SetFeeBps", "AddAmmPair"},
           NEW value \in FeeValues, Propose(m, action, value)
    PROVE  GovInv'
<1> DEFINE n == Len(proposals)
           p == [proposer |-> m, action |-> action, value |-> value, state |-> "Pending",
                 for |-> 0, against |-> 0]
<1>1. /\ n < MaxProposals /\ proposals' = Append(proposals, p)
      /\ UNCHANGED <<voteStake, votes, weight, enacted, feeBps, ammPairs, executors>>
  BY DEF Propose
<1>2. p \in Proposal
  BY DEF Proposal
<1>3. /\ n \in Nat /\ DOMAIN proposals = 1..n /\ proposals \in [1..n -> Proposal]
      /\ DOMAIN proposals \subseteq Ids /\ proposals \in Seq(Proposal)
  BY GovFacts DEF GovInv, GovTypeOK
<1>4. /\ Len(proposals') = n + 1 /\ DOMAIN proposals' = 1..(n + 1)
      /\ \A i \in 1..n : proposals'[i] = proposals[i]
      /\ proposals'[n + 1] = p /\ proposals' \in Seq(Proposal)
  BY <1>1, <1>2, <1>3
<1>5. n + 1 \in Ids /\ n + 1 \notin 1..n /\ 1..(n + 1) = (1..n) \cup {n + 1}
  BY <1>1, <1>3, GovernorAssumption DEF Ids
<1> HIDE DEF n
<1>6. GovTypeOK'
  BY <1>1, <1>3, <1>4, GovernorAssumption DEF GovInv, GovTypeOK
<1>7. NoEarlyBallots'
  BY <1>1, <1>3, <1>4, GovernorAssumption DEF GovInv, NoEarlyBallots, n, Ids
<1>8. \A i, side : Cast(i, side)' = Cast(i, side)
  BY <1>1 DEF Cast
<1>9. TalliesAddUp'
  <2>1. \A m2 \in Members : votes[n + 1][m2] = "NotVoted"
    BY <1>3, <1>5 DEF GovInv, NoEarlyBallots, n
  <2>2. Side(n + 1, "For") = {} /\ Side(n + 1, "Against") = {}
    BY <2>1 DEF Side
  <2>3. Cast(n + 1, "For") = 0 /\ Cast(n + 1, "Against") = 0
    BY <2>2, CastIsTotal, RecursEmpty
  <2>4. \A i \in 1..n : proposals[i].for = Cast(i, "For") /\ proposals[i].against = Cast(i, "Against")
    BY <1>3 DEF GovInv, EffectsFollowBallots, TalliesAddUp
  <2> QED
    BY <1>4, <1>5, <1>8, <2>3, <2>4 DEF TalliesAddUp
<1>10. Executed' = Executed /\ PairsEnacted' = PairsEnacted
  BY <1>3, <1>4, <1>5 DEF Executed, PairsEnacted
<1>11. DecisionsStand'
  BY <1>1, <1>3, <1>4, <1>5, <1>10
     DEF GovInv, EffectsFollowBallots, DecisionsStand, Passed, Executed
<1>12. EffectsAreEnacted'
  <2>1. \A j \in Executed : proposals'[j] = proposals[j]
    BY <1>3, <1>4 DEF Executed
  <2> QED
    BY <1>1, <1>10, <2>1, EffectsKept
<1> QED
  BY <1>6, <1>7, <1>9, <1>11, <1>12 DEF GovInv, EffectsFollowBallots

(* A vote adds its weight to one side, once per voter.                     *)
LEMMA CastVoteGovInv ==
    ASSUME GovInv, NEW m \in Members, NEW i \in DOMAIN proposals, NEW support \in BOOLEAN,
           CastVote(m, i, support)
    PROVE  GovInv'
<1> DEFINE n == Len(proposals)
           side == IF support THEN "For" ELSE "Against"
           for == IF support THEN proposals[i].for + voteStake[m] ELSE proposals[i].for
           against == IF support THEN proposals[i].against ELSE proposals[i].against + voteStake[m]
           p == [proposer |-> proposals[i].proposer, action |-> proposals[i].action,
                 value |-> proposals[i].value, state |-> "Active", for |-> for, against |-> against]
<1>1. /\ n \in Nat /\ DOMAIN proposals = 1..n /\ proposals \in [1..n -> Proposal]
      /\ i \in 1..n /\ i \in Ids /\ proposals \in Seq(Proposal) /\ n <= MaxProposals
  BY GovFacts DEF GovInv, GovTypeOK
<1>2. /\ proposals[i].state \in {"Pending", "Active"} /\ votes[i][m] = "NotVoted"
      /\ votes' = [votes EXCEPT ![i][m] = side]
      /\ weight' = [weight EXCEPT ![i][m] = voteStake[m]]
      /\ UNCHANGED <<voteStake, enacted, feeBps, ammPairs, executors>>
  BY DEF CastVote, IsOpenForVotes
<1>3. /\ proposals[i] \in Proposal /\ voteStake[m] \in Nat
  BY <1>1 DEF GovInv, GovTypeOK
<1>4. p \in Proposal /\ for \in Nat /\ against \in Nat
  BY <1>3 DEF Proposal
<1>5. proposals' = [proposals EXCEPT ![i] = p]
  <2> DEFINE q1 == [proposals[i] EXCEPT !.for = for]
             q2 == [q1 EXCEPT !.against = against]
             q3 == [q2 EXCEPT !.state = IF q2.state = "Pending" THEN "Active" ELSE q2.state]
  <2>1. proposals' = [proposals EXCEPT ![i] = q3]
    BY <1>1 DEF CastVote
  <2>2. q1 = [proposals[i] EXCEPT !.for = for]
    OBVIOUS
  <2> HIDE DEF for, against, q1
  <2>3. q1 \in Proposal /\ q1 = [proposer |-> proposals[i].proposer, action |-> proposals[i].action,
                 value |-> proposals[i].value, state |-> proposals[i].state, for |-> for,
                 against |-> proposals[i].against]
    BY <1>3, <1>4, <2>2 DEF Proposal
  <2>4. q2 = [proposer |-> proposals[i].proposer, action |-> proposals[i].action,
                 value |-> proposals[i].value, state |-> proposals[i].state, for |-> for,
                 against |-> against]
    BY <2>3
  <2> HIDE DEF q2
  <2>5. q3 = p
    BY <1>2, <2>4
  <2> QED
    BY <2>1, <2>5
<1> HIDE DEF for, against
<1>6. /\ Len(proposals') = n /\ DOMAIN proposals' = 1..n /\ proposals' \in Seq(Proposal)
      /\ proposals'[i] = p /\ \A j \in 1..n : j # i => proposals'[j] = proposals[j]
  BY <1>1, <1>4, <1>5
<1>7. side \in {"For", "Against"}
  OBVIOUS
<1> HIDE DEF n, side
<1>8. GovTypeOK'
  <2>1. /\ votes' \in [Ids -> [Members -> {"NotVoted", "For", "Against"}]]
        /\ weight' \in [Ids -> [Members -> Nat]]
    BY <1>1, <1>2, <1>3, <1>7 DEF GovInv, GovTypeOK
  <2> QED
    BY <1>1, <1>2, <1>6, <2>1 DEF GovInv, GovTypeOK
<1>9. NoEarlyBallots'
  BY <1>1, <1>2, <1>6 DEF GovInv, GovTypeOK, NoEarlyBallots, n
<1>10. \A j \in 1..n, s \in {"For", "Against"} :
           Cast(j, s)' = Cast(j, s) + IF j = i /\ s = side THEN voteStake[m] ELSE 0
  <2> SUFFICES ASSUME NEW j \in 1..n, NEW s \in {"For", "Against"}
               PROVE  Cast(j, s)' = Cast(j, s) + IF j = i /\ s = side THEN voteStake[m] ELSE 0
    OBVIOUS
  <2>0. j \in Ids
    BY <1>1, GovFacts DEF GovInv
  <2>1. /\ IsFiniteSet(Side(j, s)) /\ \A v \in Members : weight[j][v] \in Nat
        /\ Cast(j, s) = Total(weight[j], Side(j, s))
        /\ Cast(j, s)' = Total(weight'[j], Side(j, s)')
    BY <2>0, GovFacts DEF GovInv, Cast, Side
  <2>2. /\ weight'[j] = IF j = i THEN [weight[j] EXCEPT ![m] = voteStake[m]] ELSE weight[j]
        /\ weight[j] \in [Members -> Nat]
    BY <1>1, <1>2, <2>0 DEF GovInv, GovTypeOK
  <2>3. \A v \in Members : votes'[j][v] = IF j = i /\ v = m THEN side ELSE votes[j][v]
    BY <1>1, <1>2, <2>0 DEF GovInv, GovTypeOK
  <2>4. j = i => m \notin Side(j, s)
    BY <1>2 DEF Side
  <2>5. \A v \in Side(j, s) : weight'[j][v] = weight[j][v]
    BY <2>2, <2>4 DEF Side
  <2>6. Total(weight'[j], Side(j, s)) = Total(weight[j], Side(j, s))
    BY <2>1, <2>5, TotalSame
  <2>7. Total(weight[j], Side(j, s)) \in Int
    <3>1. \A v \in Side(j, s) : weight[j][v] \in Int
      BY <2>1 DEF Side
    <3> QED
      BY <2>1, <3>1, TotalType
  <2>8. CASE j = i /\ s = side
    <3>1. Side(j, s)' = Side(j, s) \cup {m}
      BY <2>3, <2>8, <1>2, <1>7 DEF Side
    <3>2. weight'[j][m] = voteStake[m]
      BY <2>2, <2>8
    <3>3. \A v \in Side(j, s) \cup {m} : weight'[j][v] \in Int
      BY <1>3, <2>1, <2>5, <3>2 DEF Side
    <3>4. Total(weight'[j], Side(j, s) \cup {m}) = Total(weight'[j], Side(j, s)) + weight'[j][m]
      <4>1. IsFiniteSet(Side(j, s)) /\ m \notin Side(j, s)
        BY <2>1, <2>4, <2>8
      <4> QED
        BY <3>3, <4>1, TotalAdd
    <3> QED
      BY <2>1, <2>6, <2>8, <3>1, <3>2, <3>4
  <2>9. CASE ~(j = i /\ s = side)
    <3>1. Side(j, s)' = Side(j, s)
      BY <1>2, <1>7, <2>3, <2>9 DEF Side
    <3>2. Cast(j, s)' = Cast(j, s)
      BY <2>1, <2>6, <3>1
    <3> QED
      BY <2>1, <2>7, <2>9, <3>2
  <2> QED
    BY <2>8, <2>9
<1>11. TalliesAddUp'
  <2>1. \A j \in 1..n : proposals[j].for = Cast(j, "For") /\ proposals[j].against = Cast(j, "Against")
    BY <1>1 DEF GovInv, EffectsFollowBallots, TalliesAddUp
  <2>2. \A j \in 1..n : proposals[j].for \in Nat /\ proposals[j].against \in Nat
    BY <1>1 DEF Proposal
  <2>3. ASSUME NEW j \in 1..n
        PROVE  proposals'[j].for = Cast(j, "For")' /\ proposals'[j].against = Cast(j, "Against")'
    <3>1. CASE j = i
      BY <1>3, <1>6, <1>10, <2>1, <2>2, <3>1 DEF for, against, side
    <3>2. CASE j # i
      <4>1. Cast(j, "For")' = Cast(j, "For") + 0 /\ Cast(j, "Against")' = Cast(j, "Against") + 0
        BY <1>10, <3>2
      <4> QED
        BY <1>6, <2>1, <2>2, <3>2, <4>1
    <3> QED
      BY <3>1, <3>2
  <2> QED
    BY <1>6, <2>3 DEF TalliesAddUp
<1>12. Executed' = Executed /\ PairsEnacted' = PairsEnacted /\ i \notin Executed
  BY <1>1, <1>2, <1>6 DEF Executed, PairsEnacted
<1>13. DecisionsStand'
  BY <1>1, <1>2, <1>6, <1>12
     DEF GovInv, EffectsFollowBallots, DecisionsStand, Passed, Executed
<1>14. EffectsAreEnacted'
  <2>1. \A j \in Executed : proposals'[j] = proposals[j]
    BY <1>1, <1>6, <1>12 DEF Executed
  <2> QED
    BY <1>2, <1>12, <2>1, EffectsKept
<1> QED
  BY <1>8, <1>9, <1>11, <1>13, <1>14 DEF GovInv, EffectsFollowBallots

(* Execution follows the ballots that are counted.                         *)
LEMMA ExecuteGovInv ==
    ASSUME GovInv, NEW m \in Members, NEW i \in DOMAIN proposals, Execute(m, i)
    PROVE  GovInv'
<1> DEFINE n == Len(proposals)
           end == IF Passed(i) THEN "Executed" ELSE "Defeated"
           p == [proposals[i] EXCEPT !.state = end]
<1>1. /\ n \in Nat /\ DOMAIN proposals = 1..n /\ proposals \in [1..n -> Proposal]
      /\ i \in 1..n /\ i \in Ids /\ proposals \in Seq(Proposal) /\ n <= MaxProposals
      /\ proposals[i] \in Proposal
  BY GovFacts DEF GovInv, GovTypeOK
<1>2. /\ proposals[i].state = "Active" /\ proposals' = [proposals EXCEPT ![i] = p]
      /\ UNCHANGED <<voteStake, votes, weight, executors>>
      /\ feeBps' = IF Passed(i) /\ proposals[i].action = "SetFeeBps" THEN proposals[i].value ELSE feeBps
      /\ ammPairs' = IF Passed(i) /\ proposals[i].action = "AddAmmPair" THEN ammPairs + 1 ELSE ammPairs
      /\ enacted' = IF Passed(i) THEN Append(enacted, i) ELSE enacted
  BY DEF Execute, Defeat, Enact
<1>3. end \in {"Executed", "Defeated"}
  OBVIOUS
<1>4. /\ p \in Proposal /\ p.state = end /\ p.action = proposals[i].action
      /\ p.value = proposals[i].value /\ p.for = proposals[i].for /\ p.against = proposals[i].against
  <2> HIDE DEF end
  <2> QED
    BY <1>1, <1>3 DEF Proposal
<1> HIDE DEF n, p
<1>5. /\ Len(proposals') = n /\ DOMAIN proposals' = 1..n /\ proposals' \in Seq(Proposal)
      /\ proposals'[i] = p /\ \A j \in 1..n : j # i => proposals'[j] = proposals[j]
  BY <1>1, <1>2, <1>4 DEF n
<1>6. GovTypeOK' /\ NoEarlyBallots'
  <2>1. feeBps' \in FeeValues \cup {DefaultFee} /\ ammPairs' \in Nat
    BY <1>1, <1>2 DEF GovInv, GovTypeOK, Proposal
  <2>2. enacted' \in Seq(Ids)
    BY <1>1, <1>2 DEF GovInv, GovTypeOK
  <2> QED
    BY <1>1, <1>2, <1>5, <2>1, <2>2 DEF GovInv, GovTypeOK, NoEarlyBallots, n
<1>7. TalliesAddUp'
  <2>1. \A j, s : Cast(j, s)' = Cast(j, s)
    BY <1>2 DEF Cast
  <2> QED
    BY <1>1, <1>4, <1>5, <2>1 DEF GovInv, EffectsFollowBallots, TalliesAddUp
<1>8. i \notin Executed /\ Executed' = IF Passed(i) THEN Executed \cup {i} ELSE Executed
  BY <1>1, <1>2, <1>4, <1>5 DEF Executed
<1>9. DecisionsStand'
  BY <1>1, <1>4, <1>5, <1>8 DEF GovInv, EffectsFollowBallots, DecisionsStand, Passed, Executed
<1>10. \A j \in Executed : proposals'[j] = proposals[j] /\ j \in 1..n
  BY <1>1, <1>5, <1>8 DEF Executed
<1>11. EffectsAreEnacted'
  <2>1. PairsEnacted' = IF Passed(i) /\ proposals[i].action = "AddAmmPair"
                        THEN PairsEnacted \cup {i} ELSE PairsEnacted
    BY <1>4, <1>5, <1>8, <1>10 DEF PairsEnacted
  <2>2. IsFiniteSet(PairsEnacted) /\ i \notin PairsEnacted
        /\ ammPairs = Cardinality(PairsEnacted)
    BY <1>8, GovFacts DEF GovInv, EffectsFollowBallots, EffectsAreEnacted, PairsEnacted
  <2>3. Cardinality(PairsEnacted \cup {i}) = Cardinality(PairsEnacted) + 1
    BY <2>2, FS_AddElement
  <2>4. ammPairs' = Cardinality(PairsEnacted')
    BY <1>2, <2>1, <2>2, <2>3
  <2> DEFINE e == Len(enacted)
  <2>5. /\ e \in Nat /\ DOMAIN enacted = 1..e /\ enacted \in Seq(Ids)
        /\ Executed = {enacted[k] : k \in 1..e}
        /\ \A j, k \in 1..e : enacted[j] = enacted[k] => j = k
    BY DEF GovInv, GovTypeOK, EffectsFollowBallots, EffectsAreEnacted
  <2>6. CASE ~Passed(i)
    <3>1. Executed' = Executed /\ PairsEnacted' = PairsEnacted
      BY <1>8, <2>1, <2>6
    <3> QED
      BY <1>2, <1>10, <2>6, <3>1, EffectsKept
  <2>7. CASE Passed(i)
    <3>1. /\ Len(enacted') = e + 1 /\ DOMAIN enacted' = 1..(e + 1) /\ enacted'[e + 1] = i
          /\ \A k \in 1..e : enacted'[k] = enacted[k]
      BY <1>1, <1>2, <2>5, <2>7
    <3> HIDE DEF e
    <3>2. 1..(e + 1) = (1..e) \cup {e + 1} /\ e + 1 \notin 1..e /\ \A k \in 1..e : k < e + 1
      BY <2>5
    <3>3. Executed' = {enacted'[k] : k \in DOMAIN enacted'}
      BY <1>8, <2>5, <2>7, <3>1, <3>2
    <3>4. \A j, k \in DOMAIN enacted' : enacted'[j] = enacted'[k] => j = k
      <4>1. \A k \in 1..e : enacted[k] # i
        BY <1>8, <2>5
      <4> QED
        BY <2>5, <3>1, <3>2, <4>1
    <3>5. \A k \in 1..e : proposals'[enacted'[k]] = proposals[enacted[k]]
      BY <1>10, <2>5, <3>1
    <3>6. FeeTurns' = IF proposals[i].action = "SetFeeBps" THEN FeeTurns \cup {e + 1} ELSE FeeTurns
      <4>1. FeeTurns = {k \in 1..e : proposals[enacted[k]].action = "SetFeeBps"}
        BY <2>5 DEF FeeTurns
      <4>2. FeeTurns' = {k \in 1..(e + 1) : proposals'[enacted'[k]].action = "SetFeeBps"}
        BY <3>1 DEF FeeTurns
      <4>3. proposals'[enacted'[e + 1]].action = proposals[i].action
        BY <1>4, <1>5, <3>1
      <4> QED
        BY <3>2, <3>5, <4>1, <4>2, <4>3
    <3>7. FeeTurns \subseteq 1..e
      BY <2>5 DEF FeeTurns
    <3>8. /\ FeeTurns = {} => feeBps = DefaultFee
          /\ \A k \in FeeTurns : (\A j \in FeeTurns : j <= k) => feeBps = proposals[enacted[k]].value
      BY DEF GovInv, EffectsFollowBallots, EffectsAreEnacted
    <3>9. /\ FeeTurns' = {} => feeBps' = DefaultFee
          /\ \A k \in FeeTurns' :
                (\A j \in FeeTurns' : j <= k) => feeBps' = proposals'[enacted'[k]].value
      <4>1. CASE proposals[i].action = "SetFeeBps"
        <5>1. feeBps' = proposals[i].value /\ proposals'[enacted'[e + 1]].value = proposals[i].value
          BY <1>2, <1>4, <1>5, <2>7, <3>1, <4>1
        <5>2. \A k \in FeeTurns' : (\A j \in FeeTurns' : j <= k) => k = e + 1
          BY <2>5, <3>2, <3>6, <3>7, <4>1
        <5> QED
          BY <3>6, <4>1, <5>1, <5>2
      <4>2. CASE proposals[i].action # "SetFeeBps"
        <5>1. feeBps' = feeBps /\ FeeTurns' = FeeTurns
          BY <1>2, <3>6, <4>2
        <5> QED
          BY <3>5, <3>7, <3>8, <5>1
      <4> QED
        BY <4>1, <4>2
    <3> QED
      BY <2>4, <3>3, <3>4, <3>9 DEF EffectsAreEnacted
  <2> QED
    BY <2>6, <2>7
<1> QED
  BY <1>6, <1>7, <1>9, <1>11 DEF GovInv, EffectsFollowBallots

(* The inductive invariant of the ballots.                                 *)
LEMMA GovInvHolds == GovSpec => []GovInv
<1>1. GovInit => GovInv
  <2> SUFFICES ASSUME GovInit PROVE GovInv
    OBVIOUS
  <2>1. proposals = << >> /\ DOMAIN proposals = {} /\ Len(proposals) = 0
    BY DEF GovInit
  <2>2. GovTypeOK /\ NoEarlyBallots
    BY <2>1, GovernorAssumption DEF GovInit, GovTypeOK, NoEarlyBallots
  <2>3. Executed = {} /\ PairsEnacted = {}
    BY <2>1 DEF Executed, PairsEnacted
  <2>4. enacted = << >> /\ DOMAIN enacted = {} /\ FeeTurns = {}
    BY DEF GovInit, FeeTurns
  <2>5. EffectsFollowBallots
    BY <2>1, <2>3, <2>4, FS_EmptySet
       DEF GovInit, EffectsFollowBallots, TalliesAddUp, DecisionsStand, EffectsAreEnacted
  <2> QED
    BY <2>2, <2>5 DEF GovInv
<1>2. GovInv /\ [GovNext]_govVars => GovInv'
  <2> SUFFICES ASSUME GovInv, [GovNext]_govVars PROVE GovInv'
    OBVIOUS
  <2>0. voteStake \in [Members -> Nat] /\ executors \subseteq Members
    BY DEF GovInv, GovTypeOK
  <2>1. ASSUME NEW m \in Members, AddExecutor(m) \/ RemoveExecutor(m) PROVE GovInv'
    BY <2>0, <2>1, UnballotedGovInv DEF AddExecutor, RemoveExecutor
  <2>2. ASSUME NEW m \in Members, NEW amount \in VoteStakes, SetStake(m, amount) PROVE GovInv'
    <3>1. voteStake' \in [Members -> Nat]
      BY <2>0, <2>2, GovernorAssumption DEF SetStake
    <3> QED
      BY <2>0, <2>2, <3>1, UnballotedGovInv DEF SetStake
  <2>3. ASSUME NEW m \in Members, NEW action \in {"SetFeeBps", "AddAmmPair"},
               NEW value \in FeeValues, Propose(m, action, value)
        PROVE  GovInv'
    BY <2>3, ProposeGovInv
  <2>4. ASSUME NEW m \in Members, NEW i \in DOMAIN proposals, Execute(m, i) PROVE GovInv'
    BY <2>4, ExecuteGovInv
  <2>5. ASSUME NEW m \in Members, NEW i \in DOMAIN proposals, NEW support \in BOOLEAN,
               CastVote(m, i, support)
        PROVE  GovInv'
    BY <2>5, CastVoteGovInv
  <2>6. CASE UNCHANGED govVars
    BY <2>0, <2>6, UnballotedGovInv DEF govVars, ballotVars
  <2> QED
    BY <2>1, <2>2, <2>3, <2>4, <2>5, <2>6 DEF GovNext
<1> QED
  BY <1>1, <1>2, PTL DEF GovSpec

(* What governance has changed is what its ballots decided: the tallies    *)
(* are the stakes the votes were cast with, a decided proposal stays       *)
(* decided, and each executed proposal took effect exactly once and in the *)
(* order of execution, so that the fee is the latest one enacted, whatever *)
(* the admin does to stakes and executors meanwhile.                       *)
THEOREM BallotsDecide == GovSpec => []EffectsFollowBallots
<1>1. GovInv => EffectsFollowBallots
  BY DEF GovInv
<1> QED
  BY <1>1, GovInvHolds, PTL
=============================================================================
