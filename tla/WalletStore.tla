---------------------------- MODULE WalletStore -----------------------------
(***************************************************************************)
(* The wallet store of the web client and the controls of WalletSetup and  *)
(* the header that call it, against the wallets the server keeps.  Calls   *)
(* overlap (only the create buttons look at loading) and their answers may *)
(* arrive in any order or not at all.  A handler of the server is one step *)
(* here; how handlers interleave is the subject of Wallets.                *)
(***************************************************************************)
EXTENDS Naturals, FiniteSets

CONSTANTS StoreWallets,   \* wallets the user can have
          StoreCalls,     \* store operations in flight at once
          StoreLimit,     \* wallets per user, 5 in the code
          StoredKey,      \* the publicKey login left in localStorage
          NoKey

VARIABLES server,    \* the user's rows and their default on the server
          view,      \* the store: wallets, activeWalletId, publicKey, loading
          scall,     \* scall[c]: a store operation in flight
          settled    \* no call overlapped or was lost since a lone fetchWallets

storeViewVars == <<server, view, scall, settled>>

Key == StoreWallets \cup {NoKey}

(* rows, default: the answer to a list request.  alone: no other operation *)
(* was in flight at any time since the request was sent.                   *)
StoreCall == [op : {"none", "create", "switch", "remove", "list"},
              at : {"idle", "sent", "answered", "refused"},
              w : Key, rows : SUBSET StoreWallets, default : Key, alone : BOOLEAN]

NoStoreCall == [op |-> "none", at |-> "idle", w |-> NoKey, rows |-> {}, default |-> NoKey,
                alone |-> FALSE]

StoreTypeOK ==
    /\ server \in [rows : SUBSET StoreWallets, default : Key]
    /\ server.default \in server.rows \cup {NoKey}
    /\ view \in [wallets : SUBSET StoreWallets, active : Key, key : Key, loading : BOOLEAN]
    /\ view.active \in view.wallets \cup {NoKey}
    /\ scall \in [StoreCalls -> StoreCall]
    /\ settled \in BOOLEAN

StoreInit ==
    /\ server = [rows |-> {}, default |-> NoKey]
    /\ view = [wallets |-> {}, active |-> NoKey, key |-> NoKey, loading |-> FALSE]
    /\ scall = [c \in StoreCalls |-> NoStoreCall]
    /\ settled = FALSE

Busy == {c \in StoreCalls : scall[c].at # "idle"}

(* An operation starts: every other one notices that it is not alone.      *)
Send(c, op, w) ==
    /\ scall[c].at = "idle"
    /\ scall' = [d \in StoreCalls |->
                   IF d = c THEN [NoStoreCall EXCEPT !.op = op, !.at = "sent", !.w = w,
                                                     !.alone = (Busy = {})]
                   ELSE [scall[d] EXCEPT !.alone = FALSE]]
    /\ view' = [view EXCEPT !.loading = TRUE]
    /\ settled' = (settled /\ Busy = {})
    /\ UNCHANGED server

(* WalletSetup fetches the list when it is mounted.                        *)
FetchWallets(c) == Send(c, "list", NoKey)

(* The create button of the empty page, or of the add form below the limit. *)
CreateWallet(c) ==
    /\ ~view.loading /\ Cardinality(view.wallets) < StoreLimit
    /\ Send(c, "create", NoKey)

(* WalletSetup offers every wallet but the active one, the header all.     *)
SwitchWallet(c, w) ==
    /\ w \in view.wallets
    /\ Cardinality(view.wallets) > 1
    /\ Send(c, "switch", w)

RemoveWallet(c, w) ==
    /\ w \in view.wallets
    /\ Cardinality(view.wallets) > 1
    /\ Send(c, "remove", w)

(* The dashboard overwrites publicKey with the one login stored.           *)
LoadStoredKey ==
    /\ view' = [view EXCEPT !.key = StoredKey]
    /\ UNCHANGED <<server, scall, settled>>

-----------------------------------------------------------------------------
Answer(c, at) == scall' = [scall EXCEPT ![c].at = at]

ServeCreate(c) ==
    /\ scall[c].op = "create" /\ scall[c].at = "sent"
    /\ IF Cardinality(server.rows) < StoreLimit
         THEN /\ \E w \in StoreWallets \ server.rows :
                    server' = [rows |-> server.rows \cup {w},
                               default |-> IF server.rows = {} THEN w ELSE server.default]
              /\ Answer(c, "answered")
         ELSE Answer(c, "refused") /\ UNCHANGED server
    /\ UNCHANGED <<view, settled>>

ServeSwitch(c) ==
    LET w == scall[c].w IN
    /\ scall[c].op = "switch" /\ scall[c].at = "sent"
    /\ IF w \in server.rows
         THEN server' = [server EXCEPT !.default = w] /\ Answer(c, "answered")
         ELSE Answer(c, "refused") /\ UNCHANGED server
    /\ UNCHANGED <<view, settled>>

(* The last wallet is not deleted; the default goes to another.            *)
ServeRemove(c) ==
    LET w == scall[c].w IN
    /\ scall[c].op = "remove" /\ scall[c].at = "sent"
    /\ IF w \in server.rows /\ Cardinality(server.rows) > 1
         THEN /\ \E s \in server.rows \ {w} :
                    server' = [rows |-> server.rows \ {w},
                               default |-> IF server.default = w THEN s ELSE server.default]
              /\ Answer(c, "answered")
         ELSE Answer(c, "refused") /\ UNCHANGED server
    /\ UNCHANGED <<view, settled>>

ServeList(c) ==
    /\ scall[c].op = "list" /\ scall[c].at = "sent"
    /\ scall' = [scall EXCEPT ![c].at = "answered", ![c].rows = server.rows,
                              ![c].default = server.default]
    /\ UNCHANGED <<server, view, settled>>

(* The user's other devices work on the same wallets, and overlapping      *)
(* calls can leave them without a default.                                 *)
OtherDevice ==
    /\ \E rows \in SUBSET StoreWallets :
          /\ rows # {} /\ Cardinality(rows) <= StoreLimit
          /\ \E w \in rows \cup {NoKey} : server' = [rows |-> rows, default |-> w]
    /\ settled' = FALSE
    /\ UNCHANGED <<view, scall>>

-----------------------------------------------------------------------------
Finish(c) == scall' = [scall EXCEPT ![c] = NoStoreCall]

(* createWallet and removeWallet go on to fetchWallets.                    *)
ThenFetch(c) ==
    /\ scall[c].op \in {"create", "remove"} /\ scall[c].at = "answered"
    /\ scall' = [scall EXCEPT ![c] = [NoStoreCall EXCEPT !.op = "list", !.at = "sent",
                                                         !.alone = (Busy = {c})]]
    /\ view' = [view EXCEPT !.loading = TRUE]
    /\ UNCHANGED <<server, settled>>

(* A switch that only tells the server.                                    *)
LeaveActive(w) == view

SetActiveWalletId(w) == [view EXCEPT !.active = w, !.key = w]

Switched(c) ==
    LET w == scall[c].w IN
    /\ scall[c].op = "switch" /\ scall[c].at = "answered"
    /\ view' = [(IF w \in view.wallets THEN SetActiveWalletId(w) ELSE view)
                  EXCEPT !.loading = FALSE]
    /\ Finish(c)
    /\ UNCHANGED <<server, settled>>

(* The default, or the first of the list, becomes the active wallet.       *)
Fetched(c) ==
    LET r == scall[c] IN
    /\ r.op = "list" /\ r.at = "answered"
    /\ \E w \in Key :
          /\ w = r.default \/ (r.default = NoKey /\ w \in r.rows)
          /\ w = NoKey => r.rows = {}
          /\ view' = [wallets |-> r.rows, active |-> w, key |-> w, loading |-> FALSE]
    /\ Finish(c)
    /\ settled' = (settled \/ (r.alone /\ server = [rows |-> r.rows, default |-> r.default]))
    /\ UNCHANGED server

(* The operation was refused, or its request or answer was lost: only      *)
(* loading and an error message change.                                    *)
CallFails(c) ==
    /\ scall[c].at # "idle"
    /\ view' = [view EXCEPT !.loading = FALSE]
    /\ Finish(c)
    /\ settled' = (settled /\ scall[c].at # "answered" /\ scall[c].op # "list")
    /\ UNCHANGED server

StoreNext ==
    \/ \E c \in StoreCalls :
          \/ FetchWallets(c) \/ CreateWallet(c)
          \/ \E w \in StoreWallets : SwitchWallet(c, w) \/ RemoveWallet(c, w)
          \/ ServeCreate(c) \/ ServeSwitch(c) \/ ServeRemove(c) \/ ServeList(c)
          \/ ThenFetch(c) \/ Switched(c) \/ Fetched(c) \/ CallFails(c)
    \/ LoadStoredKey \/ OtherDevice

StoreSpec == StoreInit /\ [][StoreNext]_storeViewVars

-----------------------------------------------------------------------------
(* Once a fetchWallets ran alone, the page agrees with the server for as   *)
(* long as the user's calls do not overlap and none of their answers is    *)
(* lost: what it lists is what there is, and the active wallet is the one  *)
(* the server debits.  The public key shown is then the active wallet's,   *)
(* or the one login stored.                                                *)
PageFollowsServer ==
    /\ (settled /\ Busy = {}) => /\ view.wallets = server.rows
                                 /\ server.default \in {view.active, NoKey}
    /\ view.key \in {view.active, StoredKey}
=============================================================================
