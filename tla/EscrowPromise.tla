--------------------------- MODULE EscrowPromise ---------------------------
(***************************************************************************)
(* What the escrow contract promises its users, with none of its means: an *)
(* amount a depositor locks leaves the escrow once, whole, to the          *)
(* recipient after its release time or to the depositor before it.         *)
(* There is no vault here, no price feed and no ledger.                    *)
(***************************************************************************)
EXTENDS Naturals

CONSTANTS Users, Assets, Ids, Amounts,
          NoTerms      \* the terms of an escrow that does not exist

VARIABLES phase,    \* phase[i]: the escrow's place in its life
          terms,    \* terms[i]: who locked how much of what for whom
          due,      \* the escrows whose release time has come
          balance   \* balance[a][u]: what u holds of a outside the escrow

promiseVars == <<phase, terms, due, balance>>

Terms == [depositor : Users, recipient : Users, amount : Amounts, asset : Assets]

Init ==
    /\ phase = [i \in Ids |-> "none"]
    /\ terms = [i \in Ids |-> NoTerms]
    /\ due = {}
    /\ balance \in [Assets -> [Users -> Nat]]

Lock(i, t) ==
    /\ phase[i] = "none"
    /\ balance[t.asset][t.depositor] >= t.amount
    /\ balance' = [balance EXCEPT ![t.asset][t.depositor] = @ - t.amount]
    /\ phase' = [phase EXCEPT ![i] = "locked"]
    /\ terms' = [terms EXCEPT ![i] = t]
    /\ UNCHANGED due

Pay(i, user, outcome) ==
    /\ phase[i] = "locked"
    /\ phase' = [phase EXCEPT ![i] = outcome]
    /\ balance' = [balance EXCEPT ![terms[i].asset][user] = @ + terms[i].amount]
    /\ UNCHANGED <<terms, due>>

Release(i) == i \in due /\ Pay(i, terms[i].recipient, "released")

Refund(i) == i \notin due /\ Pay(i, terms[i].depositor, "refunded")

(* The release times of some escrows come; none of them goes back.         *)
TimePasses ==
    /\ due \subseteq due'
    /\ due' \subseteq {i \in Ids : phase[i] # "none"}
    /\ UNCHANGED <<phase, terms, balance>>

Next ==
    \/ \E i \in Ids, t \in Terms : Lock(i, t)
    \/ \E i \in Ids : Release(i) \/ Refund(i)
    \/ TimePasses

Spec == Init /\ [][Next]_promiseVars
=============================================================================
