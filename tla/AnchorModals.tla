---------------------------- MODULE AnchorModals ----------------------------
(***************************************************************************)
(* DepositModal and WithdrawModal, and the anchor endpoints behind them:   *)
(* the account is the caller's own, and what the anchor answers is checked *)
(* against what was asked before it is shown.                              *)
(***************************************************************************)
EXTENDS Naturals

CONSTANTS Accounts, Owned,  \* accounts, and those that are the caller's wallet
          Assets, Quantities,
          Bounds,           \* the sets of amounts that an anchor's minimum and maximum may allow
          Lookups,          \* requests in flight at once
          NoInfo

ASSUME ModalAssumption ==
    /\ Owned \subseteq Accounts /\ NoInfo \notin Accounts
    /\ Quantities \subseteq Nat /\ 0 \in Quantities
    /\ Bounds \subseteq SUBSET Quantities /\ Quantities \in Bounds

VARIABLES modal,    \* the modal: its kind, inputs, state and what it shows
          lookup    \* lookup[q]: a request in flight

modalVars == <<modal, lookup>>

(* asked: what a request was made with; late: history, an input changed    *)
(* while it was in flight.  to: the account the answer names, if it names  *)
(* one; within: the amounts its bounds allow, all when it advertises none. *)
Asked == [kind : {"deposit", "withdraw"}, account : Accounts, asset : Assets,
          amount : Quantities, late : BOOLEAN]
Info == [asked : Asked, to : Accounts \cup {NoInfo}, within : Bounds]

Modal == [kind : {"deposit", "withdraw"}, account : Accounts, asset : Assets,
          amount : Quantities, state : {"idle", "loading", "success", "error"},
          info : Info \cup {NoInfo}]

ASSUME NoInfoAssumption == NoInfo \notin Modal

ModalTypeOK == /\ modal = NoInfo \/ modal \in Modal
               /\ lookup \in [Lookups -> Asked \cup {NoInfo}]

ModalInit ==
    /\ modal = NoInfo
    /\ lookup = [q \in Lookups |-> NoInfo]

IsOpen == modal # NoInfo

Overtake == lookup' = [q \in Lookups |->
                          IF lookup[q] = NoInfo THEN NoInfo ELSE [lookup[q] EXCEPT !.late = TRUE]]

(* reset *)
Cleared(m) == [m EXCEPT !.state = "idle", !.info = NoInfo]

-----------------------------------------------------------------------------
(* The dashboard opens a modal on a wallet's public key.                   *)
OpenModal(kind, account, asset) ==
    /\ ~IsOpen
    /\ modal' = [kind |-> kind, account |-> account, asset |-> asset, amount |-> 0,
                 state |-> "idle", info |-> NoInfo]
    /\ UNCHANGED lookup

(* An answer that finds the modal closed is dropped.                       *)
CloseModal ==
    /\ IsOpen
    /\ modal' = NoInfo
    /\ lookup' = [q \in Lookups |-> NoInfo]

(* The selects are not disabled while loading.  The withdraw form is gone  *)
(* once it has an answer.                                                  *)
SelectAsset(a) ==
    /\ IsOpen /\ a # modal.asset /\ (modal.kind = "withdraw" => modal.state # "success")
    /\ modal' = Cleared([modal EXCEPT !.asset = a])
    /\ Overtake

EnterAmount(n) ==
    /\ IsOpen /\ modal.kind = "withdraw" /\ modal.state # "success" /\ n # modal.amount
    /\ modal' = IF modal.state = "error" THEN Cleared([modal EXCEPT !.amount = n])
                                         ELSE [modal EXCEPT !.amount = n]
    /\ Overtake

ChangeAsset ==
    /\ IsOpen /\ modal.kind = "deposit" /\ modal.state = "success"
    /\ modal' = Cleared(modal)
    /\ UNCHANGED lookup

NewWithdrawal ==
    /\ IsOpen /\ modal.kind = "withdraw" /\ modal.state = "success"
    /\ modal' = Cleared([modal EXCEPT !.amount = 0])
    /\ Overtake

(* handleFetch and handleSubmit.                                           *)
Fetch(q) ==
    /\ IsOpen /\ modal.state \in {"idle", "error"} /\ lookup[q] = NoInfo
    /\ IF modal.kind = "withdraw" /\ modal.amount = 0
       THEN modal' = [modal EXCEPT !.state = "error"] /\ UNCHANGED lookup
       ELSE /\ modal' = [modal EXCEPT !.state = "loading", !.info = NoInfo]
            /\ lookup' = [lookup EXCEPT ![q] =
                             [kind |-> modal.kind, account |-> modal.account,
                              asset |-> modal.asset, amount |-> modal.amount, late |-> FALSE]]

(* validateAccountOwnership *)
ValidateAccountOwnership(a) == a.account \in Owned

(* getDepositInfo takes whatever account the anchor echoes.                *)
TrustAnchor(a, to, within) == a.kind = "withdraw" => a.amount \in within

(* getDepositInfo and getWithdrawInfo: an answer that echoes another       *)
(* account, or advertises bounds the amount is outside of, is refused.  A  *)
(* deposit answer that names no account is taken as it is.                 *)
Reconciled(a, to, within) ==
    /\ a.kind = "deposit" => to \in {a.account, NoInfo}
    /\ a.kind = "withdraw" => a.amount \in within

(* The anchor answers, naming the account asked for, another one or none.  *)
Answered(q, to, within) ==
    /\ lookup[q] # NoInfo
    /\ lookup' = [lookup EXCEPT ![q] = NoInfo]
    /\ modal' = IF ValidateAccountOwnership(lookup[q]) /\ Reconciled(lookup[q], to, within)
                THEN [modal EXCEPT !.state = "success",
                                   !.info = [asked |-> lookup[q], to |-> to, within |-> within]]
                ELSE [modal EXCEPT !.state = "error"]

ModalNext ==
    \/ \E a \in Assets : SelectAsset(a)
    \/ \E n \in Quantities : EnterAmount(n)
    \/ \E kind \in {"deposit", "withdraw"}, account \in Accounts, asset \in Assets :
          OpenModal(kind, account, asset)
    \/ ChangeAsset \/ NewWithdrawal \/ CloseModal
    \/ \E q \in Lookups :
          \/ Fetch(q)
          \/ \E to \in Accounts \cup {NoInfo}, within \in Bounds : Answered(q, to, within)

ModalSpec == ModalInit /\ [][ModalNext]_modalVars

-----------------------------------------------------------------------------
(* Instructions on the screen are for the caller's own wallet, do not name *)
(* another account to credit, are within the bounds the anchor advertised  *)
(* with them, and are for the asset and the amount shown above them,       *)
(* unless an input was changed while their request was in flight, which    *)
(* neither modal prevents.                                                 *)
InstructionsMatchTheForm ==
    LET a == modal.info.asked IN
    IsOpen /\ modal.state = "success" =>
        /\ modal.account \in Owned
        /\ a.kind = "deposit" => modal.info.to \in {modal.account, NoInfo}
        /\ a.kind = "withdraw" => a.amount \in modal.info.within
        /\ ~a.late => a.asset = modal.asset /\ a.amount = modal.amount
=============================================================================
