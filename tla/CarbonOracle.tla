---------------------------- MODULE CarbonOracle ----------------------------
(***************************************************************************)
(* The carbon oracle contract (contracts/contracts/carbon_oracle/src/      *)
(* lib.rs): one pending price behind a timelock.  An id is one more than   *)
(* that of the pending proposal, so ids restart once it is removed, while  *)
(* transactions that name an id may already be on their way.  Time counts  *)
(* down: wait is what is left until executable_at.                         *)
(***************************************************************************)
EXTENDS Naturals

CONSTANTS CarbonPrices,   \* prices the oracle may propose
          TimelockDelay,
          CarbonCalls,    \* execute and cancel transactions under way at once
          MaxId,          \* bound on the ids
          NoPending

ASSUME CarbonAssumption ==
    /\ CarbonPrices \subseteq Nat \ {0} /\ TimelockDelay \in Nat \ {0} /\ MaxId \in Nat
    /\ NoPending \notin [id : Nat, price : Nat, wait : Nat]

VARIABLES carbonPrice,  \* Price
          pending,      \* Proposal, or NoPending
          stood,        \* history: how long the pending proposal has stood
          carbonCall    \* carbonCall[c]: a transaction, as its sender meant it

carbonVars == <<carbonPrice, pending, stood, carbonCall>>

(* since: history, what has become of the proposal the sender saw.         *)
CarbonCall == [kind : {"none", "execute", "cancel"}, id : 0..MaxId,
               since : {"standing", "replaced", "removed"}]
NoCall == [kind |-> "none", id |-> 0, since |-> "standing"]

CarbonTypeOK ==
    /\ carbonPrice \in CarbonPrices
    /\ pending = NoPending
          \/ pending \in [id : 1..MaxId, price : CarbonPrices, wait : 0..TimelockDelay]
    /\ stood \in 0..TimelockDelay
    /\ carbonCall \in [CarbonCalls -> CarbonCall]

CarbonInit ==
    /\ carbonPrice \in CarbonPrices
    /\ pending = NoPending /\ stood = 0
    /\ carbonCall = [c \in CarbonCalls |-> NoCall]

(* Every sender's proposal is now what the step made of it.                *)
Fate(calls, how) ==
    [c \in CarbonCalls |->
        IF calls[c].kind = "none" \/ calls[c].since = "removed" THEN calls[c]
        ELSE [calls[c] EXCEPT !.since = how]]

(* The replacement runs on its predecessor's clock.                        *)
KeepDeadline == IF pending = NoPending THEN TimelockDelay ELSE pending.wait
Deadline == TimelockDelay

ProposePriceUpdate(price) ==
    LET id == IF pending = NoPending THEN 1 ELSE pending.id + 1 IN
    /\ id <= MaxId
    /\ pending' = [id |-> id, price |-> price, wait |-> Deadline]
    /\ stood' = 0
    /\ carbonCall' = Fate(carbonCall, "replaced")
    /\ UNCHANGED carbonPrice

(* Anybody may ask for the execution, the admin for the cancellation, of   *)
(* the proposal that is pending now.                                       *)
Submit(c, kind) ==
    /\ carbonCall[c] = NoCall /\ pending # NoPending
    /\ carbonCall' = [carbonCall EXCEPT ![c] = [NoCall EXCEPT !.kind = kind, !.id = pending.id]]
    /\ UNCHANGED <<carbonPrice, pending, stood>>

IsPending(id) == pending # NoPending /\ pending.id = id

Remove(c) ==
    /\ pending' = NoPending /\ stood' = 0
    /\ carbonCall' = Fate([carbonCall EXCEPT ![c] = NoCall], "removed")

Refuse(c) ==
    /\ carbonCall' = [carbonCall EXCEPT ![c] = NoCall]
    /\ UNCHANGED <<carbonPrice, pending, stood>>

ExecutePriceUpdate(c) ==
    /\ carbonCall[c].kind = "execute"
    /\ IF IsPending(carbonCall[c].id) /\ pending.wait = 0
       THEN carbonPrice' = pending.price /\ Remove(c)
       ELSE Refuse(c)

EmergencyCancelProposedUpdate(c) ==
    /\ carbonCall[c].kind = "cancel"
    /\ IF IsPending(carbonCall[c].id) THEN Remove(c) /\ UNCHANGED carbonPrice ELSE Refuse(c)

CarbonTick ==
    /\ pending # NoPending /\ pending.wait > 0
    /\ pending' = [pending EXCEPT !.wait = @ - 1]
    /\ stood' = stood + 1
    /\ UNCHANGED <<carbonPrice, carbonCall>>

CarbonNext ==
    \/ \E price \in CarbonPrices : ProposePriceUpdate(price)
    \/ \E c \in CarbonCalls : \/ Submit(c, "execute") \/ Submit(c, "cancel")
                              \/ ExecutePriceUpdate(c) \/ EmergencyCancelProposedUpdate(c)
    \/ CarbonTick

CarbonSpec == CarbonInit /\ [][CarbonNext]_carbonVars

-----------------------------------------------------------------------------
(* The price only becomes one that stood, unreplaced, for the whole delay; *)
(* and a transaction executes or cancels the proposal its sender saw, not  *)
(* one that replaced it.  The exception are ids that restarted: when the   *)
(* proposal was executed or cancelled meanwhile, another may bear its id.  *)
TimelockHolds ==
    [][/\ carbonPrice' # carbonPrice =>
              pending # NoPending /\ stood = TimelockDelay /\ carbonPrice' = pending.price
       /\ pending # NoPending /\ pending' = NoPending =>
              \E c \in CarbonCalls : /\ carbonCall[c].kind # "none" /\ carbonCall'[c] = NoCall
                                     /\ carbonCall[c].since # "replaced"]_carbonVars
=============================================================================
