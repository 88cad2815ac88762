---------------------------- MODULE EscrowProofs ----------------------------
(***************************************************************************)
(* The escrow contract keeps its types and its promise, for any number of  *)
(* users, assets, escrows and price reports.                               *)
(***************************************************************************)
EXTENDS Escrow, TotalsProofs, TLAPS

(* The inductive invariant holds of a new contract.                        *)
LEMMA InitIInv == Init => IInv
BY EscrowAssumption DEF Init, IInv, TypeOK, DepositsHaveTerms, SettledExist, Exists, Ids, Feed

(* A deposit keeps it.                                                     *)
LEMMA DepositIInv ==
    ASSUME IInv,
           NEW from \in Users, NEW recipient \in Users, NEW asset \in Assets,
           NEW amount \in 0..MaxAmount, NEW delay \in 0..MaxDelay,
           Deposit(from, amount, asset, recipient, delay)
    PROVE  IInv'
<1> DEFINE i == counter + 1
           t == [depositor |-> from, recipient |-> recipient, amount |-> amount, asset |-> asset]
<1> USE DEF IInv
<1>1. /\ counter \in Nat /\ i \in Ids /\ counter' = i /\ i \in 0..MaxEscrows
      /\ terms' = [terms EXCEPT ![i] = t]
      /\ left' = [left EXCEPT ![i] = delay]
      /\ released' = released /\ refunded' = refunded /\ feed' = feed
      /\ age' = [age EXCEPT ![from] = 0]
      /\ amount > 0 /\ balance[asset][from] >= amount
      /\ balance' = [balance EXCEPT ![asset][from] = @ - amount]
      /\ vault' = [vault EXCEPT ![asset] = @ + amount]
  BY EscrowAssumption DEF Deposit, TypeOK, EnforceUserBlockDelay, Ids, Positive
<1>2. t \in Terms
  BY <1>1, EscrowAssumption DEF Terms
<1>3. balance' \in [Assets -> [Users -> Nat]] /\ vault' \in [Assets -> Nat]
  <2>1. balance[asset][from] - amount \in Nat /\ vault[asset] + amount \in Nat
    BY <1>1, EscrowAssumption DEF TypeOK
  <2> QED BY <1>1, <2>1 DEF TypeOK
<1>4. TypeOK'
  BY <1>1, <1>2, <1>3, EscrowAssumption DEF TypeOK
<1>5. DepositsHaveTerms'
  BY <1>1, <1>2 DEF DepositsHaveTerms, TypeOK, Exists, Ids
<1>6. SettledExist'
  BY <1>1 DEF SettledExist, TypeOK, Exists, Ids
<1> QED BY <1>4, <1>5, <1>6

(* What either settlement does to the money.                               *)
LEMMA TransferOutTypes ==
    ASSUME IInv, NEW i \in Ids, Exists(i), NEW user \in Users,
           TransferOut(terms[i].asset, user, terms[i].amount)
    PROVE  vault' \in [Assets -> Nat] /\ balance' \in [Assets -> [Users -> Nat]]
<1> DEFINE a == terms[i].asset
           n == terms[i].amount
<1>1. a \in Assets /\ n \in Nat
  BY EscrowAssumption DEF IInv, DepositsHaveTerms, Terms
<1>2. vault[a] - n \in Nat /\ balance[a][user] + n \in Nat
  BY <1>1 DEF IInv, TypeOK, TransferOut
<1> QED BY <1>1, <1>2 DEF IInv, TypeOK, TransferOut

(* A release keeps it.                                                     *)
LEMMA ReleaseIInv ==
    ASSUME IInv, NEW i \in Ids, Release(i)
    PROVE  IInv'
<1>1. terms[i] \in Terms /\ Exists(i)
  BY DEF IInv, DepositsHaveTerms, Release, Unsettled
<1>2. terms[i].depositor \in Users /\ terms[i].recipient \in Users
  BY <1>1 DEF Terms
<1>3. vault' \in [Assets -> Nat] /\ balance' \in [Assets -> [Users -> Nat]]
  BY <1>1, <1>2, TransferOutTypes DEF Release
<1>4. age' \in [Users -> 0..MinLedgerGap]
  BY <1>2, EscrowAssumption DEF Release, EnforceUserBlockDelay, IInv, TypeOK
<1> QED BY <1>1, <1>3, <1>4
        DEF Release, IInv, TypeOK, DepositsHaveTerms, SettledExist, Exists

(* A refund keeps it.                                                      *)
LEMMA RefundIInv ==
    ASSUME IInv, NEW i \in Ids, Refund(i)
    PROVE  IInv'
<1>1. terms[i] \in Terms /\ Exists(i)
  BY DEF IInv, DepositsHaveTerms, Refund, Unsettled
<1>2. vault' \in [Assets -> Nat] /\ balance' \in [Assets -> [Users -> Nat]]
  BY <1>1, TransferOutTypes DEF Refund, Terms
<1> QED BY <1>1, <1>2
        DEF Refund, IInv, TypeOK, DepositsHaveTerms, SettledExist, Exists

(* A price update keeps it.                                                *)
LEMMA UpdatePriceIInv ==
    ASSUME IInv, NEW price \in Prices, UpdatePrice(price)
    PROVE  IInv'
<1> DEFINE f == Sampled(feed, price)
<1>1. price \in Nat /\ feed \in Feed
  BY EscrowAssumption DEF UpdatePrice, IInv, TypeOK
<1>2. f \in Feed
  <2> DEFINE sum == (IF feed.samples = 0 THEN price ELSE feed.cumulative) + price
             n == feed.samples + 1
  <2>1. sum \in Nat /\ n \in Nat
    BY <1>1 DEF Feed
  <2>2. f = [feed EXCEPT !.last = price, !.cumulative = sum, !.samples = n, !.fresh = TRUE]
    BY DEF Sampled
  <2> HIDE DEF sum, n, f
  <2> QED BY <1>1, <2>1, <2>2 DEF Feed
<1>3. feed' = [f EXCEPT !.suspended = f.suspended \/ Drifts(f)]
  BY DEF UpdatePrice
<1>4. (f.suspended \/ Drifts(f)) \in BOOLEAN
  BY <1>2 DEF Feed, Drifts
<1>5. feed' \in Feed
  <2> HIDE DEF f
  <2> QED BY <1>2, <1>3, <1>4 DEF Feed
<1> QED BY <1>5 DEF UpdatePrice, recordVars, moneyVars, IInv, TypeOK, DepositsHaveTerms,
                    SettledExist, Exists

(* Time passing keeps it.                                                  *)
LEMMA CloseLedgerIInv ==
    ASSUME IInv, NEW d \in 1..MaxDelay, CloseLedger(d)
    PROVE  IInv'
<1>1. left' \in [Ids -> Nat]
  BY DEF CloseLedger, IInv, TypeOK
<1>2. age' \in [Users -> 0..MinLedgerGap]
  BY EscrowAssumption DEF CloseLedger, IInv, TypeOK
<1>3. feed' \in Feed
  BY DEF CloseLedger, IInv, TypeOK, Feed
<1> QED BY <1>1, <1>2, <1>3 DEF CloseLedger, moneyVars, IInv, TypeOK, DepositsHaveTerms, SettledExist, Exists

(* Every step keeps it.                                                    *)
LEMMA NextIInv == IInv /\ [Next]_vars => IInv'
<1> SUFFICES ASSUME IInv, [Next]_vars PROVE IInv'
  OBVIOUS
<1>1. ASSUME NEW from \in Users, NEW recipient \in Users, NEW asset \in Assets,
             NEW amount \in 0..MaxAmount, NEW delay \in 0..MaxDelay,
             Deposit(from, amount, asset, recipient, delay)
      PROVE  IInv'
  BY <1>1, DepositIInv
<1>2. ASSUME NEW i \in Ids, Release(i) PROVE IInv'
  BY <1>2, ReleaseIInv
<1>3. ASSUME NEW i \in Ids, Refund(i) PROVE IInv'
  BY <1>3, RefundIInv
<1>4. ASSUME NEW price \in Prices, UpdatePrice(price) PROVE IInv'
  BY <1>4, UpdatePriceIInv
<1>5. ASSUME NEW d \in 1..MaxDelay, CloseLedger(d) PROVE IInv'
  BY <1>5, CloseLedgerIInv
<1>6. ASSUME NEW from \in Users, DepositElsewhere(from) PROVE IInv'
  BY <1>6, EscrowAssumption DEF DepositElsewhere, EnforceUserBlockDelay, recordVars, moneyVars, IInv,
     TypeOK, DepositsHaveTerms, SettledExist, Exists
<1>7. CASE UNCHANGED vars
  BY <1>7 DEF vars, recordVars, moneyVars, IInv, TypeOK, DepositsHaveTerms, SettledExist, Exists
<1> QED BY <1>1, <1>2, <1>3, <1>4, <1>5, <1>6, <1>7 DEF Next

(* The inductive invariant holds in every reachable state: every call of   *)
(* the contract leaves well-formed records behind.                         *)
THEOREM InvariantHolds == Spec => []IInv
BY InitIInv, NextIInv, PTL DEF Spec

(* Amounts, balances and the vault stay natural numbers: no call of        *)
(* deposit, release, refund or update_price makes one of them negative.    *)
THEOREM TypeCorrect == Spec => []TypeOK
<1>1. IInv => TypeOK
  BY DEF IInv
<1> QED BY <1>1, InvariantHolds, PTL
-----------------------------------------------------------------------------
(* A call of deposit locks the amount under an id never used before.       *)
LEMMA DepositLocks ==
    ASSUME IInv,
           NEW from \in Users, NEW recipient \in Users, NEW asset \in Assets,
           NEW amount \in 0..MaxAmount, NEW delay \in 0..MaxDelay,
           Deposit(from, amount, asset, recipient, delay)
    PROVE  Promise!Next
<1> DEFINE i == counter + 1
           t == [depositor |-> from, recipient |-> recipient, amount |-> amount, asset |-> asset]
<1>1. /\ counter \in Nat /\ i \in Ids /\ counter' = i
      /\ terms' = [terms EXCEPT ![i] = t]
      /\ left' = [left EXCEPT ![i] = delay] /\ delay > 0
      /\ released' = released /\ refunded' = refunded
      /\ amount > 0 /\ balance[asset][from] >= amount
      /\ balance' = [balance EXCEPT ![asset][from] = @ - amount]
  BY DEF Deposit, IInv, TypeOK, Positive
<1>2. t \in Promise!Terms
  BY <1>1, EscrowAssumption DEF Promise!Terms
<1>3. i \notin released /\ i \notin refunded
  BY <1>1 DEF IInv, SettledExist, Exists
<1>4. Phase[i] = "none" /\ Phase' = [Phase EXCEPT ![i] = "locked"]
  <2>1. ~Exists(i) /\ \A j \in Ids : Exists(j)' <=> Exists(j) \/ j = i
    BY <1>1 DEF Exists, Ids
  <2> HIDE DEF i
  <2> QED BY <1>1, <1>3, <2>1 DEF Phase
<1>5. Due' = Due
  BY <1>1 DEF Due, Exists, Ids, IInv, TypeOK
<1>6. Promise!Lock(i, t)
  BY <1>1, <1>4, <1>5 DEF Promise!Lock
<1> QED BY <1>1, <1>2, <1>6 DEF Promise!Next

(* A release of the contract is one of the promise.                        *)
LEMMA ReleaseReleases ==
    ASSUME IInv, NEW i \in Ids, Release(i)
    PROVE  Promise!Next
<1>1. Phase[i] = "locked" /\ Phase' = [Phase EXCEPT ![i] = "released"]
  BY DEF Phase, Release, Unsettled, Exists
<1>2. i \in Due /\ Due' = Due
  BY DEF Due, Release, ReleaseReached, Unsettled, Exists
<1>3. Promise!Release(i)
  BY <1>1, <1>2 DEF Promise!Release, Promise!Pay, Release, TransferOut
<1> QED BY <1>3 DEF Promise!Next

(* A refund of the contract is one of the promise.                         *)
LEMMA RefundRefunds ==
    ASSUME IInv, NEW i \in Ids, Refund(i)
    PROVE  Promise!Next
<1>1. Phase[i] = "locked" /\ Phase' = [Phase EXCEPT ![i] = "refunded"]
  BY DEF Phase, Refund, Unsettled, Exists
<1>2. i \notin Due /\ Due' = Due
  BY DEF Due, Refund, RefundOpen, Unsettled, Exists, IInv, TypeOK
<1>3. Promise!Refund(i)
  BY <1>1, <1>2 DEF Promise!Refund, Promise!Pay, Refund, TransferOut
<1> QED BY <1>3 DEF Promise!Next

(* A closed ledger is time passing in the promise.                         *)
LEMMA CloseLedgerPassesTime ==
    ASSUME IInv, NEW d \in 1..MaxDelay, CloseLedger(d)
    PROVE  Promise!Next
<1>1. Phase' = Phase /\ terms' = terms /\ balance' = balance
  BY DEF CloseLedger, moneyVars, Phase, Exists
<1>2. Due \subseteq Due'
  BY DEF Due, Exists, CloseLedger, IInv, TypeOK
<1>3. Due' \subseteq {i \in Ids : Phase[i] # "none"}
  BY DEF Due, Exists, CloseLedger, Phase
<1> QED BY <1>1, <1>2, <1>3 DEF Promise!Next, Promise!TimePasses

(* What leaves the deposits and the clock alone is a stutter.              *)
LEMMA UnchangedStutters ==
    ASSUME UNCHANGED <<recordVars, balance>>
    PROVE  UNCHANGED Promise!promiseVars
BY DEF recordVars, Promise!promiseVars, Phase, Due, Exists

(* Every step of the contract is a step of the promise or a stutter.       *)
LEMMA StepKeepsPromise ==
    IInv /\ [Next]_vars => [Promise!Next]_(Promise!promiseVars)
<1> SUFFICES ASSUME IInv, [Next]_vars
             PROVE  Promise!Next \/ UNCHANGED Promise!promiseVars
  OBVIOUS
<1>1. ASSUME NEW from \in Users, NEW recipient \in Users, NEW asset \in Assets,
             NEW amount \in 0..MaxAmount, NEW delay \in 0..MaxDelay,
             Deposit(from, amount, asset, recipient, delay)
      PROVE  Promise!Next
  BY <1>1, DepositLocks
<1>2. ASSUME NEW i \in Ids, Release(i) PROVE Promise!Next
  BY <1>2, ReleaseReleases
<1>3. ASSUME NEW i \in Ids, Refund(i) PROVE Promise!Next
  BY <1>3, RefundRefunds
<1>4. ASSUME NEW price \in Prices, UpdatePrice(price) PROVE UNCHANGED Promise!promiseVars
  BY <1>4, UnchangedStutters DEF UpdatePrice, recordVars, moneyVars
<1>5. ASSUME NEW d \in 1..MaxDelay, CloseLedger(d) PROVE Promise!Next
  BY <1>5, CloseLedgerPassesTime
<1>6. ASSUME NEW from \in Users, DepositElsewhere(from) PROVE UNCHANGED Promise!promiseVars
  BY <1>6, UnchangedStutters DEF DepositElsewhere, moneyVars
<1>7. CASE UNCHANGED vars
  BY <1>7, UnchangedStutters DEF vars, moneyVars
<1> QED BY <1>1, <1>2, <1>3, <1>4, <1>5, <1>6, <1>7 DEF Next

(* A new contract is a new promise.                                        *)
LEMMA InitKeepsPromise == Init => Promise!Init
BY EscrowAssumption DEF Init, Promise!Init, Phase, Due, Exists, Ids

(* The contract implements its promise: whatever is called in whatever     *)
(* ledger, a deposit is paid out once and whole, by release to the         *)
(* recipient at or after release_timestamp, or by refund to the depositor  *)
(* before it.                                                              *)
THEOREM ImplementsPromise == Spec => KeepsPromise
BY InvariantHolds, InitKeepsPromise, StepKeepsPromise, PTL DEF Spec, KeepsPromise, Promise!Spec
-----------------------------------------------------------------------------
(* The invariant of the sums: what is unpaid of each asset is in the vault.*)
SolventInv == IInv /\ Solvent

Amount == [i \in 1..counter |-> terms[i].amount]

(* The amounts of the escrows are natural numbers and their ids finitely   *)
(* many, so that they can be added up.                                     *)
LEMMA UnpaidIsFinite ==
    ASSUME IInv, NEW a \in Assets
    PROVE  /\ IsFiniteSet(Unpaid(a)) /\ counter \in Nat
           /\ \A i \in Unpaid(a) : Amount[i] \in Nat /\ i \in 1..counter
<1>1. counter \in Nat /\ \A i \in 1..counter : i \in Ids /\ Exists(i)
  BY EscrowAssumption DEF IInv, TypeOK, Ids, Exists
<1>2. IsFiniteSet(Unpaid(a))
  <2>1. IsFiniteSet(1..counter)
    BY <1>1, FS_Interval
  <2>2. Unpaid(a) \subseteq 1..counter
    BY DEF Unpaid
  <2> QED BY <2>1, <2>2, FS_Subset
<1>3. \A i \in 1..counter : terms[i].amount \in Nat
  BY <1>1, EscrowAssumption DEF IInv, DepositsHaveTerms, Terms
<1> QED BY <1>1, <1>2, <1>3 DEF Unpaid, Amount

(* Solvency, with the amounts as one function.                             *)
LEMMA SolventByAmount == Solvent <=> \A a \in Assets : vault[a] = Total(Amount, Unpaid(a))
BY DEF Solvent, Amount

(* A call that touches no record and no money.                             *)
LEMMA UnchangedSolvent ==
    ASSUME Solvent, UNCHANGED <<counter, terms, released, refunded, vault>>
    PROVE  Solvent'
<1>1. \A a \in Assets : Unpaid(a)' = Unpaid(a)
  BY DEF Unpaid
<1> QED BY <1>1 DEF Solvent

(* A deposit adds to the vault what it owes from then on.                  *)
LEMMA DepositSolvent ==
    ASSUME SolventInv, IInv',
           NEW from \in Users, NEW recipient \in Users, NEW asset \in Assets,
           NEW amount \in 0..MaxAmount, NEW delay \in 0..MaxDelay,
           Deposit(from, amount, asset, recipient, delay)
    PROVE  Solvent'
<1> DEFINE i == counter + 1
           t == [depositor |-> from, recipient |-> recipient, amount |-> amount, asset |-> asset]
<1>1. /\ counter \in Nat /\ i \in Ids /\ counter' = i
      /\ terms' = [terms EXCEPT ![i] = t]
      /\ released' = released /\ refunded' = refunded
      /\ vault' = [vault EXCEPT ![asset] = @ + amount]
      /\ terms \in [Ids -> Terms \cup {NoTerms}] /\ vault \in [Assets -> Nat]
      /\ amount \in Nat
  BY EscrowAssumption DEF Deposit, SolventInv, IInv, TypeOK, Positive
<1>2. i \notin released \cup refunded /\ i \notin 1..counter
  BY <1>1 DEF SolventInv, IInv, SettledExist, Exists
<1>3. terms'[i] = t /\ \A j \in 1..counter : terms'[j] = terms[j]
  BY <1>1, <1>2 DEF Ids
<1>4. 1..counter' = (1..counter) \cup {i}
  BY <1>1
<1>5. ASSUME NEW a \in Assets
      PROVE  vault'[a] = Total(Amount', Unpaid(a)')
  <2>1. /\ IsFiniteSet(Unpaid(a)) /\ vault[a] = Total(Amount, Unpaid(a))
        /\ \A j \in Unpaid(a) : Amount[j] \in Nat /\ j \in 1..counter
    BY UnpaidIsFinite, SolventByAmount DEF SolventInv
  <2>2. \A j \in Unpaid(a) : Amount'[j] = Amount[j]
    BY <1>3, <1>4, <2>1 DEF Amount
  <2>3. Total(Amount', Unpaid(a)) = Total(Amount, Unpaid(a))
    BY <2>1, <2>2, TotalSame
  <2>4. Amount'[i] = amount
    BY <1>3, <1>4 DEF Amount
  <2>5. CASE a = asset
    <3>1. Unpaid(a)' = Unpaid(a) \cup {i}
      BY <1>1, <1>2, <1>3, <1>4, <2>5 DEF Unpaid
    <3>2. Total(Amount', Unpaid(a) \cup {i}) = Total(Amount', Unpaid(a)) + Amount'[i]
      <4>1. i \notin Unpaid(a) /\ \A j \in Unpaid(a) \cup {i} : Amount'[j] \in Int
        BY <1>1, <1>2, <2>1, <2>2, <2>4
      <4> HIDE DEF i
      <4> QED BY <2>1, <4>1, TotalAdd
    <3>3. vault'[a] = vault[a] + amount
      BY <1>1, <2>5
    <3> QED BY <2>1, <2>3, <2>4, <3>1, <3>2, <3>3
  <2>6. CASE a # asset
    <3>1. Unpaid(a)' = Unpaid(a)
      BY <1>1, <1>2, <1>3, <1>4, <2>6 DEF Unpaid
    <3>2. vault'[a] = vault[a]
      BY <1>1, <2>6
    <3> QED BY <2>1, <2>3, <3>1, <3>2
  <2> QED BY <2>5, <2>6
<1>6. Solvent' <=> \A a \in Assets : vault'[a] = Total(Amount', Unpaid(a)')
  BY DEF Solvent, Amount
<1> QED BY <1>5, <1>6

(* A settlement of i, by release or by refund.                             *)
LEMMA SettlementSolvent ==
    ASSUME SolventInv, NEW i \in Ids, Unsettled(i), NEW user,
           TransferOut(terms[i].asset, user, terms[i].amount),
           counter' = counter, terms' = terms,
           released' \cup refunded' = (released \cup refunded) \cup {i}
    PROVE  Solvent'
<1>1. /\ terms[i] \in Terms /\ i \in 1..counter /\ vault \in [Assets -> Nat]
      /\ vault' = [vault EXCEPT ![terms[i].asset] = @ - terms[i].amount]
  BY EscrowAssumption
     DEF SolventInv, IInv, TypeOK, DepositsHaveTerms, Unsettled, Exists, Ids, TransferOut
<1>2. terms[i].amount \in Nat /\ terms[i].asset \in Assets
  BY <1>1, EscrowAssumption DEF Terms
<1>3. Amount' = Amount
  BY DEF Amount
<1>4. ASSUME NEW a \in Assets
      PROVE  vault'[a] = Total(Amount', Unpaid(a)')
  <2>1. /\ IsFiniteSet(Unpaid(a)) /\ vault[a] = Total(Amount, Unpaid(a))
        /\ \A j \in Unpaid(a) : Amount[j] \in Nat
    BY UnpaidIsFinite, SolventByAmount DEF SolventInv
  <2>2. CASE a = terms[i].asset
    <3>1. Unpaid(a)' = Unpaid(a) \ {i} /\ i \in Unpaid(a)
      BY <1>1, <2>2 DEF Unpaid, Unsettled
    <3>2. Total(Amount, Unpaid(a)) = Amount[i] + Total(Amount, Unpaid(a) \ {i})
      BY <2>1, <3>1, TotalAny
    <3>3. Total(Amount, Unpaid(a) \ {i}) \in Int
      BY <2>1, TotalType, FS_Subset
    <3>4. Amount[i] = terms[i].amount
      BY <1>1 DEF Amount
    <3>5. vault'[a] = vault[a] - terms[i].amount
      BY <1>1, <2>2
    <3>6. vault[a] = terms[i].amount + Total(Amount, Unpaid(a)')
      BY <2>1, <3>1, <3>2, <3>4
    <3>7. Total(Amount, Unpaid(a)') \in Int
      BY <3>1, <3>3
    <3> QED BY <1>2, <1>3, <3>5, <3>6, <3>7
  <2>3. CASE a # terms[i].asset
    <3>1. Unpaid(a)' = Unpaid(a)
      BY <1>1, <2>3 DEF Unpaid
    <3>2. vault'[a] = vault[a]
      BY <1>1, <1>2, <2>3
    <3> QED BY <1>3, <2>1, <3>1, <3>2
  <2> QED BY <2>2, <2>3
<1>5. Solvent' <=> \A a \in Assets : vault'[a] = Total(Amount', Unpaid(a)')
  BY DEF Solvent, Amount
<1> QED BY <1>4, <1>5

(* The inductive invariant of solvency.                                    *)
LEMMA SolventInvHolds == Spec => []SolventInv
<1>1. Init => SolventInv
  <2> SUFFICES ASSUME Init PROVE Solvent
    BY InitIInv DEF SolventInv
  <2>1. \A a \in Assets : Unpaid(a) = {} /\ vault[a] = 0
    BY DEF Init, Unpaid
  <2> QED BY <2>1, RecursEmpty DEF Solvent
<1>2. SolventInv /\ [Next]_vars => SolventInv'
  <2> SUFFICES ASSUME SolventInv, [Next]_vars PROVE SolventInv'
    OBVIOUS
  <2>1. IInv' /\ IInv
    BY NextIInv DEF SolventInv
  <2> SUFFICES Solvent'
    BY <2>1 DEF SolventInv
  <2>2. ASSUME NEW from \in Users, NEW recipient \in Users, NEW asset \in Assets,
               NEW amount \in 0..MaxAmount, NEW delay \in 0..MaxDelay,
               Deposit(from, amount, asset, recipient, delay)
        PROVE  Solvent'
    BY <2>1, <2>2, DepositSolvent
  <2>3. ASSUME NEW i \in Ids, Release(i) PROVE Solvent'
    <3>1. released' \cup refunded' = (released \cup refunded) \cup {i}
      BY <2>3 DEF Release
    <3> QED BY <2>3, <3>1, SettlementSolvent DEF Release
  <2>4. ASSUME NEW i \in Ids, Refund(i) PROVE Solvent'
    <3>1. released' \cup refunded' = (released \cup refunded) \cup {i}
      BY <2>4 DEF Refund
    <3> QED BY <2>4, <3>1, SettlementSolvent DEF Refund
  <2>5. ASSUME NEW price \in Prices, UpdatePrice(price) PROVE Solvent'
    BY <2>5, UnchangedSolvent DEF UpdatePrice, SolventInv, recordVars, moneyVars
  <2>6. ASSUME NEW d \in 1..MaxDelay, CloseLedger(d) PROVE Solvent'
    BY <2>6, UnchangedSolvent DEF CloseLedger, SolventInv, moneyVars
  <2>7. ASSUME NEW from \in Users, DepositElsewhere(from) PROVE Solvent'
    BY <2>7, UnchangedSolvent DEF DepositElsewhere, SolventInv, recordVars, moneyVars
  <2>8. CASE UNCHANGED vars
    BY <2>8, UnchangedSolvent DEF vars, SolventInv, recordVars, moneyVars
  <2> QED BY <2>2, <2>3, <2>4, <2>5, <2>6, <2>7, <2>8 DEF Next
<1> QED BY <1>1, <1>2, PTL DEF Spec

(* Whatever was deposited, settled and reported, and in whatever order,    *)
(* the contract holds exactly the unsettled amounts of each asset: no      *)
(* release or refund of one escrow is paid with the money of another.      *)
THEOREM AlwaysSolvent == Spec => []Solvent
<1>1. SolventInv => Solvent
  BY DEF SolventInv
<1> QED BY <1>1, SolventInvHolds, PTL

(* The token transfer of release and of refund never fails for lack of     *)
(* money: the vault holds what any unsettled escrow is owed.               *)
THEOREM SettlementIsFunded ==
    Spec => [](\A i \in Ids : Unsettled(i) => vault[terms[i].asset] >= terms[i].amount)
<1>1. ASSUME SolventInv, NEW i \in Ids, Unsettled(i)
      PROVE  vault[terms[i].asset] >= terms[i].amount
  <2> DEFINE a == terms[i].asset
  <2>1. i \in 1..counter /\ terms[i] \in Terms
    BY <1>1, EscrowAssumption
       DEF SolventInv, IInv, TypeOK, DepositsHaveTerms, Unsettled, Exists, Ids
  <2>2. a \in Assets /\ terms[i].amount \in Nat
    BY <2>1, EscrowAssumption DEF Terms
  <2>3. i \in Unpaid(a)
    BY <1>1, <2>1 DEF Unpaid, Unsettled
  <2>4. /\ IsFiniteSet(Unpaid(a)) /\ vault[a] = Total(Amount, Unpaid(a))
        /\ \A j \in Unpaid(a) : Amount[j] \in Nat
    BY <1>1, <2>2, UnpaidIsFinite, SolventByAmount DEF SolventInv
  <2>5. Total(Amount, Unpaid(a)) \in Nat /\ Amount[i] <= Total(Amount, Unpaid(a))
    BY <2>3, <2>4, TotalNat
  <2>6. Amount[i] = terms[i].amount
    BY <2>1 DEF Amount
  <2> QED BY <2>2, <2>4, <2>5, <2>6
<1>2. SolventInv => \A i \in Ids : Unsettled(i) => vault[terms[i].asset] >= terms[i].amount
  BY <1>1
<1> QED BY <1>2, SolventInvHolds, PTL
=============================================================================
