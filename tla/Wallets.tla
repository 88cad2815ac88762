------------------------------- MODULE Wallets -------------------------------
(***************************************************************************)
(* WalletService for one user: the wallet rows, and the calls that create, *)
(* import, switch and delete them, interleaved at every await.  No call    *)
(* runs in a database transaction, so what a call read may be stale by the *)
(* time it writes.  A call may die between two awaits.                     *)
(*                                                                         *)
(* A wallet is named by its key pair; publicKey is unique in the schema.   *)
(* Aliases, multisig and freezing write columns that no step here reads.   *)
(***************************************************************************)
EXTENDS Naturals, FiniteSets

CONSTANTS Wallets,          \* key pairs a wallet row can hold
          WalletCalls,      \* requests in flight at once
          WalletLimit,      \* wallets per user, 5 in the code
          NoWallet

ASSUME WalletAssumption ==
    /\ IsFiniteSet(Wallets)
    /\ WalletLimit \in Nat \ {0, 1}
    /\ NoWallet \notin Wallets

VARIABLES rows,         \* the user's wallet rows
          defaults,     \* the rows with isDefault set
          sealed,       \* the rows with an encryptedSecret
          used,         \* the rows some Transaction refers to
          wcall,        \* wcall[c]: the request c is serving
          disturbed     \* whether two calls ever overlapped, or one died

walletVars == <<rows, defaults, sealed, used, wcall, disturbed>>

WalletStage == {"idle", "insert", "fund", "seal", "clear", "set", "count",
                "look", "other", "delete"}

(* op: the request; w: its wallet; s: the wallet it makes the default;     *)
(* first: whether it saw no wallet.                                        *)
WalletCall == [op : {"none", "create", "import", "switch", "delete"},
               at : WalletStage,
               w : Wallets \cup {NoWallet},
               s : Wallets \cup {NoWallet},
               first : BOOLEAN]

WalletTypeOK ==
    /\ rows \subseteq Wallets
    /\ defaults \subseteq rows
    /\ sealed \subseteq rows
    /\ used \subseteq rows
    /\ wcall \in [WalletCalls -> WalletCall]
    /\ disturbed \in BOOLEAN

IdleWalletCall == [op |-> "none", at |-> "idle", w |-> NoWallet, s |-> NoWallet,
                   first |-> FALSE]

WalletInit ==
    /\ rows = {} /\ defaults = {} /\ sealed = {} /\ used = {}
    /\ wcall = [c \in WalletCalls |-> IdleWalletCall]
    /\ disturbed = FALSE

Running == {c \in WalletCalls : wcall[c].at # "idle"}

WalletStep(c, r) == wcall' = [wcall EXCEPT ![c] = r]

WalletDone(c) == WalletStep(c, IdleWalletCall)

WalletGoto(c, at) == WalletStep(c, [wcall[c] EXCEPT !.at = at])

(* A request arrives; from its first read on it is one of the Running.     *)
WalletArrives(c, op, at, w) ==
    /\ wcall[c].at = "idle"
    /\ WalletStep(c, [IdleWalletCall EXCEPT !.op = op, !.at = at, !.w = w,
                                            !.s = IF op = "switch" THEN w ELSE NoWallet,
                                            !.first = (at = "insert" /\ rows = {})])
    /\ disturbed' = (disturbed \/ Running # {})
    /\ UNCHANGED <<rows, defaults, sealed, used>>

(* createWallet: a key pair from Keypair.random has no row, and no other   *)
(* call knows it; the limit is checked against the wallets read here.      *)
CreateWallet(c, w) ==
    /\ w \notin rows
    /\ \A d \in Running : w \notin {wcall[d].w, wcall[d].s}
    /\ Cardinality(rows) < WalletLimit
    /\ WalletArrives(c, "create", "insert", w)

(* importWallet: the key may be one the user already has.                  *)
ImportWallet(c, w) ==
    /\ Cardinality(rows) < WalletLimit
    /\ WalletArrives(c, "import", "insert", w)

(* The insert: it throws on a key that has a row.                          *)
InsertWallet(c) ==
    LET r == wcall[c] IN
    /\ r.at = "insert"
    /\ IF r.w \in rows
         THEN WalletDone(c) /\ UNCHANGED <<rows, defaults>>
         ELSE /\ rows' = rows \cup {r.w}
              /\ defaults' = IF r.first THEN defaults \cup {r.w} ELSE defaults
              /\ WalletStep(c, [r EXCEPT !.at = "fund", !.first = FALSE])
    /\ UNCHANGED <<sealed, used, disturbed>>

(* The testnet funding after the insert; if it throws, the row stays.      *)
FundWallet(c) ==
    /\ wcall[c].at = "fund"
    /\ \/ WalletDone(c)
       \/ wcall[c].op = "import" /\ WalletGoto(c, "seal")
    /\ UNCHANGED <<rows, defaults, sealed, used, disturbed>>

(* importWallet stores the encrypted secret in the row it created.         *)
SealWallet(c) ==
    /\ wcall[c].at = "seal"
    /\ sealed' = sealed \cup ({wcall[c].w} \cap rows)
    /\ WalletDone(c)
    /\ UNCHANGED <<rows, defaults, used, disturbed>>

(* setDefaultWallet: WalletOwnershipGuard and getWalletById find the row.  *)
SetDefaultWallet(c, w) ==
    /\ w \in rows
    /\ WalletArrives(c, "switch", "clear", w)

ClearDefault(c) ==
    /\ wcall[c].at = "clear"
    /\ defaults' = {}
    /\ WalletGoto(c, "set")
    /\ UNCHANGED <<rows, sealed, used, disturbed>>

(* The update throws when the row has gone; deleteWallet goes on to delete. *)
SetDefault(c) ==
    LET r == wcall[c] IN
    /\ r.at = "set"
    /\ defaults' = defaults \cup ({r.s} \cap rows)
    /\ IF r.op = "delete" /\ r.s \in rows THEN WalletGoto(c, "delete") ELSE WalletDone(c)
    /\ UNCHANGED <<rows, sealed, used, disturbed>>

DeleteWallet(c, w) ==
    /\ w \in rows
    /\ WalletArrives(c, "delete", "count", w)

CountWallets(c) ==
    /\ wcall[c].at = "count"
    /\ IF Cardinality(rows) <= 1 THEN WalletDone(c) ELSE WalletGoto(c, "look")
    /\ UNCHANGED <<rows, defaults, sealed, used, disturbed>>

(* A deletion that does not hand the default on.                           *)
DeleteAnyway(c) ==
    /\ wcall[c].at = "look"
    /\ WalletGoto(c, "delete")
    /\ UNCHANGED <<rows, defaults, sealed, used, disturbed>>

LookAtWallet(c) ==
    /\ wcall[c].at = "look"
    /\ WalletGoto(c, IF wcall[c].w \in defaults THEN "other" ELSE "delete")
    /\ UNCHANGED <<rows, defaults, sealed, used, disturbed>>

(* The default is handed to another wallet, when there is one.             *)
PickAnother(c) ==
    LET r == wcall[c] IN
    /\ r.at = "other"
    /\ \/ \E s \in rows \ {r.w} :
              WalletStep(c, [r EXCEPT !.at = "clear", !.s = s])
       \/ rows \subseteq {r.w} /\ WalletGoto(c, "delete")
    /\ UNCHANGED <<rows, defaults, sealed, used, disturbed>>

(* The delete throws for a row that has gone or that a transaction uses.   *)
RemoveWallet(c) ==
    LET gone == {wcall[c].w} \ used IN
    /\ wcall[c].at = "delete"
    /\ rows' = rows \ gone
    /\ defaults' = defaults \ gone
    /\ sealed' = sealed \ gone
    /\ WalletDone(c)
    /\ UNCHANGED <<used, disturbed>>

(* A transfer writes a Transaction row that refers to the wallet.          *)
UseWallet(w) ==
    /\ w \in rows
    /\ used' = used \cup {w}
    /\ UNCHANGED <<rows, defaults, sealed, wcall, disturbed>>

WalletCallDies(c) ==
    /\ c \in Running
    /\ WalletDone(c)
    /\ disturbed' = TRUE
    /\ UNCHANGED <<rows, defaults, sealed, used>>

WalletNext ==
    \/ \E c \in WalletCalls :
          \/ \E w \in Wallets : \/ CreateWallet(c, w) \/ ImportWallet(c, w)
                                \/ SetDefaultWallet(c, w) \/ DeleteWallet(c, w)
          \/ InsertWallet(c) \/ FundWallet(c) \/ SealWallet(c)
          \/ ClearDefault(c) \/ SetDefault(c)
          \/ CountWallets(c) \/ LookAtWallet(c) \/ PickAnother(c) \/ RemoveWallet(c)
          \/ WalletCallDies(c)
    \/ \E w \in Wallets : UseWallet(w)

WalletSpec == WalletInit /\ [][WalletNext]_walletVars

-----------------------------------------------------------------------------
(* When every call has run to its end before the next began, the user has  *)
(* exactly one default wallet and at most the limit, however the calls     *)
(* failed: deleteWallet must hand the default on before it deletes.        *)
OneDefaultWhenUndisturbed ==
    ~disturbed /\ Running = {} =>
        /\ rows # {} => Cardinality(defaults) = 1
        /\ Cardinality(rows) <= WalletLimit
=============================================================================
