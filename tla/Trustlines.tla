----------------------------- MODULE Trustlines -----------------------------
(***************************************************************************)
(* trustline.utils and WalletService.reconcileWallet: calls that look at   *)
(* an account on Horizon and act later on what they saw, while payments    *)
(* arrive and the issuer changes its mind.  One account, one asset.  A     *)
(* Stellar transaction carries the sequence number the caller loaded and   *)
(* the ledger refuses it when the account has moved on.                    *)
(***************************************************************************)
EXTENDS Naturals

CONSTANTS TrustCalls,    \* calls in flight at once
          MaxSequence    \* bound on the account's sequence number

ASSUME TrustAssumption == MaxSequence \in Nat

VARIABLES line,       \* "unfunded": no account yet; the trustline: "none", "open", "unauthorised"
          holding,    \* whether the account holds some of the asset
          limit,      \* the limit of the line: "default" or "custom"
          sequence,   \* the account's sequence number
          traded,     \* whether a Transaction row mentions the asset
          tcall,      \* tcall[c]: a call
          report      \* the last reconciliation report

ledgerVars == <<line, holding, limit, sequence>>
trustVars == <<line, holding, limit, sequence, traded, tcall, report>>

(* op: the call; seq: the sequence number it loaded; lim: the limit it was *)
(* given; saw: whether it read transactions of the asset.                  *)
TrustCall == [op : {"none", "ensure", "remove", "reconcile"},
              at : {"idle", "load", "submit", "recheck", "account"},
              seq : 0..MaxSequence, lim : {"default", "custom"}, saw : BOOLEAN]

IdleTrustCall == [op |-> "none", at |-> "idle", seq |-> 0, lim |-> "default", saw |-> FALSE]

Report == {"none", "in_sync", "drift_detected"}

TrustTypeOK ==
    /\ line \in {"unfunded", "none", "open", "unauthorised"}
    /\ holding \in BOOLEAN /\ limit \in {"default", "custom"}
    /\ sequence \in 0..MaxSequence /\ traded \in BOOLEAN
    /\ tcall \in [TrustCalls -> TrustCall] /\ report \in Report

TrustInit ==
    /\ line = "unfunded" /\ holding = FALSE /\ limit = "default" /\ sequence = 0
    /\ traded = FALSE /\ report = "none"
    /\ tcall = [c \in TrustCalls |-> IdleTrustCall]

Goto(c, at) == tcall' = [tcall EXCEPT ![c].at = at]
EndCall(c) == tcall' = [tcall EXCEPT ![c] = IdleTrustCall]

-----------------------------------------------------------------------------
(* checkTrustline decides what ensureTrustline and removeTrustline do: the *)
(* first goes on when the line is missing, the second when it is there and *)
(* an authorised one holds nothing.  Any other answer ends the call.       *)
HasLine == line \in {"open", "unauthorised"}

MayEnsure == line = "none"

MayRemove == HasLine /\ (line = "open" => ~holding)

EnsureTrustline(c, lim) ==
    /\ tcall[c].at = "idle" /\ MayEnsure
    /\ tcall' = [tcall EXCEPT ![c] = [IdleTrustCall EXCEPT !.op = "ensure", !.at = "load",
                                                           !.lim = lim]]
    /\ UNCHANGED <<traded, report>> /\ UNCHANGED ledgerVars

RemoveTrustline(c) ==
    /\ tcall[c].at = "idle" /\ MayRemove
    /\ tcall' = [tcall EXCEPT ![c] = [IdleTrustCall EXCEPT !.op = "remove", !.at = "load"]]
    /\ UNCHANGED <<traded, report>> /\ UNCHANGED ledgerVars

LoadSequence(c) ==
    /\ tcall[c].at = "load"
    /\ tcall' = [tcall EXCEPT ![c].at = "submit", ![c].seq = sequence]
    /\ UNCHANGED <<traded, report>> /\ UNCHANGED ledgerVars

(* submitChangeTrust and the second half of removeTrustline.  An asset may *)
(* need the issuer's authorisation; the ledger keeps a line that holds     *)
(* something; a ChangeTrust on a line that is there sets its limit.        *)
SubmitChangeTrust(c) ==
    LET r == tcall[c] IN
    /\ r.at = "submit" /\ r.seq = sequence /\ sequence < MaxSequence
    /\ sequence' = sequence + 1
    /\ \/ /\ r.op = "ensure"
          /\ line' \in IF HasLine THEN {line} ELSE {"open", "unauthorised"}
          /\ limit' = r.lim
          /\ Goto(c, "recheck")
       \/ /\ r.op = "remove" /\ HasLine /\ ~holding
          /\ line' = "none" /\ limit' = "default"
          /\ EndCall(c)
    /\ UNCHANGED <<holding, traded, report>>

(* Horizon refuses: a stale sequence number, the reserve, or a balance     *)
(* that arrived meanwhile.                                                 *)
SubmissionFails(c) ==
    /\ tcall[c].at = "submit"
    /\ EndCall(c)
    /\ UNCHANGED <<traded, report>> /\ UNCHANGED ledgerVars

(* ensureTrustline answers with what a second check finds.                 *)
RecheckTrustline(c) ==
    /\ tcall[c].at = "recheck"
    /\ EndCall(c)
    /\ UNCHANGED <<traded, report>> /\ UNCHANGED ledgerVars

(* ensureTrustlineBeforeTransfer passes and the transfer is recorded.      *)
TransferAsset ==
    /\ line = "open"
    /\ traded' = TRUE
    /\ UNCHANGED <<tcall, report>> /\ UNCHANGED ledgerVars

-----------------------------------------------------------------------------
(* reconcileWallet: the transactions, then the account.                    *)
Reconcile(c) ==
    /\ tcall[c].at = "idle"
    /\ tcall' = [tcall EXCEPT ![c] = [IdleTrustCall EXCEPT !.op = "reconcile", !.at = "account",
                                                           !.saw = traded]]
    /\ UNCHANGED <<traded, report>> /\ UNCHANGED ledgerVars

(* ON_CHAIN_ACCOUNT_NOT_FOUND before the account is funded,                *)
(* MISSING_TRUSTLINE for an asset the transactions mention, and            *)
(* STALE_LEDGER_STATE when a transaction is newer than the account.        *)
BuildReport(c) ==
    /\ tcall[c].at = "account"
    /\ \E stale \in BOOLEAN :
          /\ stale => tcall[c].saw
          /\ report' = IF line = "unfunded" \/ (tcall[c].saw /\ (line = "none" \/ stale))
                       THEN "drift_detected" ELSE "in_sync"
    /\ EndCall(c)
    /\ UNCHANGED traded /\ UNCHANGED ledgerVars

(* Horizon fails and the error goes to the caller.                         *)
ReconcileFails(c) ==
    /\ tcall[c].at = "account"
    /\ EndCall(c)
    /\ UNCHANGED <<traded, report>> /\ UNCHANGED ledgerVars

-----------------------------------------------------------------------------
(* The network: the first funding, payments in and out, and the issuer.    *)
FundAccount ==
    /\ line = "unfunded"
    /\ line' = "none"
    /\ UNCHANGED <<holding, limit, sequence, traded, tcall, report>>

PaymentMoves ==
    /\ line = "open"
    /\ holding' = ~holding
    /\ UNCHANGED <<line, limit, sequence, traded, tcall, report>>

IssuerAuthorises ==
    /\ HasLine
    /\ line' = IF line = "open" THEN "unauthorised" ELSE "open"
    /\ UNCHANGED <<holding, limit, sequence, traded, tcall, report>>

TrustNext ==
    \/ \E c \in TrustCalls :
          \/ \E lim \in {"default", "custom"} : EnsureTrustline(c, lim)
          \/ RemoveTrustline(c) \/ LoadSequence(c) \/ SubmitChangeTrust(c)
          \/ SubmissionFails(c) \/ RecheckTrustline(c)
          \/ Reconcile(c) \/ BuildReport(c) \/ ReconcileFails(c)
    \/ TransferAsset \/ FundAccount \/ PaymentMoves \/ IssuerAuthorises

TrustSpec == TrustInit /\ [][TrustNext]_trustVars

-----------------------------------------------------------------------------
(* trustline.utils.ts, ensureTrustline: "If the trustline already exists   *)
(* and is usable, this is a **no-op**": its submission leaves the limit of *)
(* such a line as it is.                                                   *)
EnsureIsNoOp ==
    [][\A c \in TrustCalls :
           /\ line = "open"
           /\ tcall[c].op = "ensure" /\ tcall[c].at = "submit" /\ tcall'[c].at = "recheck"
           => limit' = limit]_trustVars
=============================================================================
