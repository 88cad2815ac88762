--------------------------- MODULE AccountsProofs ---------------------------
(***************************************************************************)
(* The account services, for any wallets, documents, rows and challenges   *)
(* and any number of calls in flight.                                      *)
(***************************************************************************)
EXTENDS Wallets, KycDocuments, AuditTrail, Challenges, RemittanceApp,
        Integers, TotalsProofs, FiniteSetTheorems, TLAPS

(* One of the rows R is the default, or there is none.                     *)
HasDefault(R, D) == \E d \in R : D = {d}
InOrder(R, D) == HasDefault(R, D) \/ (R = {} /\ D = {})

(* What the call r, running alone, knows of the rows R and the defaults D. *)
Staged(r, R, D) ==
    /\ r.at = "insert" => InOrder(R, D) /\ (r.first <=> R = {}) /\ Cardinality(R) < WalletLimit
    /\ r.at \in {"fund", "seal", "count", "look", "other"} => HasDefault(R, D)
    /\ r.at \in {"look", "other"} => Cardinality(R) > 1
    /\ r.at = "other" => r.w \in D
    /\ r.at \in {"clear", "set"} => r.s \in R /\ (r.op = "delete" => r.s # r.w)
    /\ r.at = "set" => D = {}
    /\ r.at = "delete" => HasDefault(R, D) /\ r.w \notin D

Undisturbed ==
    ~disturbed =>
        /\ \A c, d \in Running : c = d
        /\ \A c \in Running : Staged(wcall[c], rows, defaults)
        /\ Running = {} => InOrder(rows, defaults)
        /\ Cardinality(rows) <= WalletLimit

CallsName == \A c \in Running : wcall[c].w \in Wallets

WalletInv == WalletTypeOK /\ CallsName /\ Undisturbed

(* Sets of wallets are finite, so the limit on them can be compared.       *)
LEMMA WalletRowsFinite ==
    ASSUME NEW R \in SUBSET Wallets
    PROVE  IsFiniteSet(R) /\ Cardinality(R) \in Nat
BY FS_Subset, FS_CardinalityType, WalletAssumption

(* The state of a call that is not running.                                *)
LEMMA WalletIdle ==
    IdleWalletCall \in WalletCall /\ IdleWalletCall.at = "idle"
BY DEF IdleWalletCall, WalletCall, WalletStage

(* A step of one call, which becomes r: what is left to show of it.        *)
LEMMA WalletOwnStep ==
    ASSUME WalletInv, NEW c \in WalletCalls, NEW r \in WalletCall,
           wcall' = [wcall EXCEPT ![c] = r],
           r.at # "idle" => r.w \in Wallets,
           rows' \subseteq Wallets, defaults' \subseteq rows', sealed' \subseteq rows',
           used' \subseteq rows', disturbed' \in BOOLEAN,
           ~disturbed' => /\ ~disturbed
                          /\ \A d \in Running : d = c
                          /\ r.at = "idle" => InOrder(rows', defaults')
                          /\ r.at # "idle" => Staged(r, rows', defaults')
                          /\ Cardinality(rows') <= WalletLimit
    PROVE  WalletInv'
<1>1. wcall' \in [WalletCalls -> WalletCall] /\ wcall'[c] = r
      /\ \A d \in WalletCalls : d # c => wcall'[d] = wcall[d]
  BY DEF WalletInv, WalletTypeOK
<1>2. WalletTypeOK'
  BY <1>1 DEF WalletTypeOK
<1>3. \A d \in Running' : d = c \/ d \in Running
  BY <1>1 DEF Running
<1>4. CallsName'
  BY <1>1, <1>3 DEF WalletInv, CallsName, Running
<1>5. Undisturbed'
  <2> SUFFICES ASSUME ~disturbed'
               PROVE  /\ \A d \in Running' : d = c
                      /\ c \in Running' => Staged(r, rows', defaults')
                      /\ Running' = {} => InOrder(rows', defaults')
                      /\ Cardinality(rows') <= WalletLimit
    BY <1>1 DEF Undisturbed, Staged, InOrder, HasDefault
  <2>1. \A d \in Running' : d = c
    BY <1>3
  <2>2. c \in Running' <=> r.at # "idle"
    BY <1>1 DEF Running
  <2> QED
    BY <2>1, <2>2
<1> QED
  BY <1>2, <1>4, <1>5 DEF WalletInv

(* A call that moves on and keeps its other fields.                        *)
LEMMA WalletMoves ==
    ASSUME NEW q \in WalletCall, NEW at \in WalletStage, NEW r, r = [q EXCEPT !.at = at]
    PROVE  /\ r \in WalletCall /\ r.at = at /\ r.w = q.w /\ r.s = q.s /\ r.op = q.op
           /\ r.first = q.first
BY DEF WalletCall

(* A call that arrives finds the wallets in order or disturbs them.        *)
LEMMA WalletArrivesInv ==
    ASSUME WalletInv, NEW c \in WalletCalls, NEW w \in Wallets,
           NEW op \in {"create", "import", "switch", "delete"}, NEW at \in WalletStage \ {"idle"},
           WalletArrives(c, op, at, w),
           Running = {} =>
               \/ at = "insert" /\ Cardinality(rows) < WalletLimit
               \/ at = "clear" /\ op = "switch" /\ w \in rows
               \/ at = "count" /\ w \in rows
    PROVE  WalletInv'
<1> DEFINE s == IF op = "switch" THEN w ELSE NoWallet
           first == (at = "insert" /\ rows = {})
           r == [IdleWalletCall EXCEPT !.op = op, !.at = at, !.w = w, !.s = s, !.first = first]
<1>1. /\ wcall' = [wcall EXCEPT ![c] = r] /\ disturbed' = (disturbed \/ Running # {})
      /\ rows' = rows /\ defaults' = defaults /\ sealed' = sealed /\ used' = used
  BY DEF WalletArrives, WalletStep
<1>2. s \in Wallets \cup {NoWallet} /\ first \in BOOLEAN
  OBVIOUS
<1>3. r \in WalletCall /\ r.op = op /\ r.at = at /\ r.w = w /\ r.s = s /\ (r.first <=> first)
  <2>1. r \in WalletCall /\ r.op = op /\ r.at = at /\ r.w = w /\ r.s = s /\ r.first = first
    <3>1. r = [IdleWalletCall EXCEPT !.op = op, !.at = at, !.w = w, !.s = s, !.first = first]
      OBVIOUS
    <3> HIDE DEF s, first, r
    <3> QED
      BY <1>2, <3>1, WalletIdle DEF WalletCall
  <2> QED
    BY <2>1
<1> HIDE DEF r
<1>4. ASSUME ~disturbed'
      PROVE  ~disturbed /\ Running = {} /\ Staged(r, rows, defaults) /\ Cardinality(rows) <= WalletLimit
  <2>1. ~disturbed /\ Running = {}
    BY <1>1, <1>4
  <2>2. InOrder(rows, defaults) /\ Cardinality(rows) <= WalletLimit
    BY <2>1 DEF WalletInv, Undisturbed
  <2>3. Staged(r, rows, defaults)
    BY <1>3, <2>1, <2>2 DEF Staged, InOrder, HasDefault
  <2> QED
    BY <2>1, <2>2, <2>3
<1> QED
  BY <1>1, <1>3, <1>4, WalletOwnStep DEF WalletInv, WalletTypeOK

(* createWallet: the insert makes the first wallet the default.            *)
LEMMA InsertWalletInv ==
    ASSUME WalletInv, NEW c \in WalletCalls, InsertWallet(c)
    PROVE  WalletInv'
<1> DEFINE q == wcall[c]
<1>1. q \in WalletCall /\ q.at = "insert" /\ q.w \in Wallets /\ c \in Running
  BY DEF WalletInv, WalletTypeOK, InsertWallet, CallsName, Running
<1>2. ~disturbed => /\ \A d \in Running : d = c
                    /\ InOrder(rows, defaults) /\ (q.first <=> rows = {})
                    /\ Cardinality(rows) < WalletLimit
  BY <1>1 DEF WalletInv, Undisturbed, Staged
<1>3. rows \subseteq Wallets /\ Cardinality(rows) \in Nat /\ IsFiniteSet(rows)
  BY WalletRowsFinite DEF WalletInv, WalletTypeOK
<1>4. CASE q.w \in rows
  <2>1. /\ wcall' = [wcall EXCEPT ![c] = IdleWalletCall]
        /\ UNCHANGED <<rows, defaults, sealed, used, disturbed>>
    BY <1>4 DEF InsertWallet, WalletDone, WalletStep
  <2>2. ~disturbed => Cardinality(rows) <= WalletLimit
    BY <1>2, <1>3, WalletAssumption
  <2> QED
    BY <1>2, <2>1, <2>2, WalletIdle, WalletOwnStep DEF WalletInv, WalletTypeOK
<1>5. CASE q.w \notin rows
  <2> DEFINE r == [q EXCEPT !.at = "fund", !.first = FALSE]
  <2>1. /\ wcall' = [wcall EXCEPT ![c] = r] /\ rows' = rows \cup {q.w}
        /\ defaults' = IF q.first THEN defaults \cup {q.w} ELSE defaults
        /\ UNCHANGED <<sealed, used, disturbed>>
    BY <1>5 DEF InsertWallet, WalletStep
  <2>2. r \in WalletCall /\ r.at = "fund" /\ r.w = q.w
    BY <1>1 DEF WalletCall, WalletStage
  <2> HIDE DEF r
  <2>3. Cardinality(rows') = Cardinality(rows) + 1
    BY <1>3, <1>5, <2>1, FS_AddElement
  <2>4. ~disturbed => HasDefault(rows', defaults')
    BY <1>2, <2>1 DEF InOrder, HasDefault
  <2>5. ~disturbed => Staged(r, rows', defaults') /\ Cardinality(rows') <= WalletLimit
    BY <1>2, <1>3, <2>2, <2>3, <2>4, WalletAssumption DEF Staged
  <2> QED
    BY <1>1, <1>2, <1>3, <2>1, <2>2, <2>5, WalletOwnStep DEF WalletInv, WalletTypeOK
<1> QED
  BY <1>4, <1>5

(* The steps that change no row: a call goes on, or ends.                  *)
LEMMA WalletGoesOn ==
    ASSUME WalletInv, NEW c \in WalletCalls, NEW at \in WalletStage, WalletGoto(c, at),
           UNCHANGED <<rows, defaults, used, disturbed>>, sealed' \subseteq rows,
           wcall[c].at # "idle", at # "idle",
           ~disturbed => \A r : /\ r.at = at /\ r.w = wcall[c].w /\ r.s = wcall[c].s
                                /\ r.op = wcall[c].op
                                => Staged(r, rows, defaults)
    PROVE  WalletInv'
<1> DEFINE q == wcall[c]
           r == [q EXCEPT !.at = at]
<1>1. wcall' = [wcall EXCEPT ![c] = r] /\ q \in WalletCall /\ c \in Running /\ q.w \in Wallets
  BY DEF WalletGoto, WalletStep, WalletInv, WalletTypeOK, CallsName, Running
<1>2. r \in WalletCall /\ r.at = at /\ r.w = q.w /\ r.s = q.s /\ r.op = q.op
  BY <1>1, WalletMoves
<1> HIDE DEF r
<1>3. ~disturbed => Staged(r, rows, defaults) /\ (\A d \in Running : d = c)
                    /\ Cardinality(rows) <= WalletLimit
  BY <1>1, <1>2 DEF WalletInv, Undisturbed
<1> QED
  BY <1>1, <1>2, <1>3, WalletOwnStep DEF WalletInv, WalletTypeOK

(* A call that ends leaves the wallets as they are.                        *)
LEMMA WalletEnds ==
    ASSUME WalletInv, NEW c \in WalletCalls, WalletDone(c),
           UNCHANGED <<rows, defaults, used, disturbed>>, sealed' \subseteq rows,
           wcall[c].at # "idle",
           ~disturbed => InOrder(rows, defaults)
    PROVE  WalletInv'
<1>1. wcall' = [wcall EXCEPT ![c] = IdleWalletCall] /\ c \in Running
  BY DEF WalletDone, WalletStep, Running
<1>2. ~disturbed => (\A d \in Running : d = c) /\ Cardinality(rows) <= WalletLimit
  BY <1>1 DEF WalletInv, Undisturbed
<1> QED
  BY <1>1, <1>2, WalletIdle, WalletOwnStep DEF WalletInv, WalletTypeOK

(* setDefault: between its two updates there is no default.                *)
LEMMA ClearDefaultInv ==
    ASSUME WalletInv, NEW c \in WalletCalls, ClearDefault(c)
    PROVE  WalletInv'
<1> DEFINE q == wcall[c]
           r == [q EXCEPT !.at = "set"]
<1>1. /\ wcall' = [wcall EXCEPT ![c] = r] /\ q \in WalletCall /\ c \in Running /\ q.w \in Wallets
      /\ q.at = "clear" /\ defaults' = {} /\ UNCHANGED <<rows, sealed, used, disturbed>>
  BY DEF ClearDefault, WalletGoto, WalletStep, WalletInv, WalletTypeOK, CallsName, Running
<1>2. r \in WalletCall /\ r.at = "set" /\ r.w = q.w /\ r.s = q.s /\ r.op = q.op
  BY <1>1, WalletMoves DEF WalletStage
<1> HIDE DEF r
<1>3. ~disturbed => Staged(r, rows, {}) /\ (\A d \in Running : d = c)
                    /\ Cardinality(rows) <= WalletLimit
  BY <1>1, <1>2 DEF WalletInv, Undisturbed, Staged
<1> QED
  BY <1>1, <1>2, <1>3, WalletOwnStep DEF WalletInv, WalletTypeOK

(* setDefault: the second update restores one.                             *)
LEMMA SetDefaultInv ==
    ASSUME WalletInv, NEW c \in WalletCalls, SetDefault(c)
    PROVE  WalletInv'
<1> DEFINE q == wcall[c]
           r == IF q.op = "delete" /\ q.s \in rows THEN [q EXCEPT !.at = "delete"]
                ELSE IdleWalletCall
<1>1. /\ wcall' = [wcall EXCEPT ![c] = r] /\ q \in WalletCall /\ c \in Running /\ q.w \in Wallets
      /\ q.at = "set" /\ defaults' = defaults \cup ({q.s} \cap rows)
      /\ UNCHANGED <<rows, sealed, used, disturbed>>
  BY DEF SetDefault, WalletGoto, WalletDone, WalletStep, WalletInv, WalletTypeOK, CallsName, Running
<1>2. /\ r \in WalletCall
      /\ \/ r.at = "idle"
         \/ r.at = "delete" /\ r.w = q.w /\ q.op = "delete"
  BY <1>1, WalletMoves, WalletIdle DEF WalletStage
<1> HIDE DEF r
<1>3. ~disturbed => /\ q.s \in rows /\ (q.op = "delete" => q.s # q.w) /\ defaults = {}
                    /\ (\A d \in Running : d = c) /\ Cardinality(rows) <= WalletLimit
  BY <1>1 DEF WalletInv, Undisturbed, Staged
<1>4. ~disturbed => defaults' = {q.s} /\ HasDefault(rows, defaults')
  BY <1>1, <1>3 DEF HasDefault
<1>5. ~disturbed => InOrder(rows, defaults')
  BY <1>4 DEF InOrder
<1>6. ~disturbed /\ r.at # "idle" => Staged(r, rows, defaults')
  BY <1>2, <1>3, <1>4 DEF Staged
<1> QED
  BY <1>1, <1>2, <1>3, <1>5, <1>6, WalletOwnStep DEF WalletInv, WalletTypeOK

(* deleteWallet: the successor it picks is another wallet.                 *)
LEMMA PickAnotherInv ==
    ASSUME WalletInv, NEW c \in WalletCalls, PickAnother(c)
    PROVE  WalletInv'
<1> DEFINE q == wcall[c]
<1>1. /\ q \in WalletCall /\ c \in Running /\ q.w \in Wallets /\ q.at = "other"
      /\ UNCHANGED <<rows, defaults, sealed, used, disturbed>>
  BY DEF PickAnother, WalletInv, WalletTypeOK, CallsName, Running
<1>2. ~disturbed => /\ \A d \in Running : d = c
                    /\ HasDefault(rows, defaults) /\ q.w \in defaults
                    /\ Cardinality(rows) > 1 /\ Cardinality(rows) <= WalletLimit
  BY <1>1 DEF WalletInv, Undisturbed, Staged
<1>3. ASSUME NEW s \in rows \ {q.w}, WalletStep(c, [q EXCEPT !.at = "clear", !.s = s])
      PROVE  WalletInv'
  <2> DEFINE r == [q EXCEPT !.at = "clear", !.s = s]
  <2>1. wcall' = [wcall EXCEPT ![c] = r] /\ s \in Wallets
    BY <1>3 DEF WalletStep, WalletInv, WalletTypeOK
  <2>2. r \in WalletCall /\ r.at = "clear" /\ r.w = q.w /\ r.s = s
    BY <1>1, <2>1 DEF WalletCall, WalletStage
  <2> HIDE DEF r
  <2>3. Staged(r, rows, defaults)
    BY <2>2 DEF Staged
  <2> QED
    BY <1>1, <1>2, <2>1, <2>2, <2>3, WalletOwnStep DEF WalletInv, WalletTypeOK
<1>4. ASSUME rows \subseteq {q.w}, WalletGoto(c, "delete")
      PROVE  WalletInv'
  <2>1. Cardinality(rows) <= 1
    <3>1. IsFiniteSet({q.w}) /\ Cardinality({q.w}) = 1
      BY FS_Singleton
    <3> QED
      BY <1>4, <3>1, FS_Subset
  <2>2. Cardinality(rows) \in Nat
    BY WalletRowsFinite DEF WalletInv, WalletTypeOK
  <2>3. disturbed
    BY <1>2, <2>1, <2>2 DEF WalletInv, WalletTypeOK
  <2> QED
    BY <1>1, <1>4, <2>3, WalletGoesOn DEF WalletInv, WalletTypeOK, WalletStage
<1> QED
  BY <1>3, <1>4 DEF PickAnother

(* deleteWallet: what it deletes is not the default any more.              *)
LEMMA RemoveWalletInv ==
    ASSUME WalletInv, NEW c \in WalletCalls, RemoveWallet(c)
    PROVE  WalletInv'
<1> DEFINE q == wcall[c]
           gone == {q.w} \ used
<1>1. /\ q \in WalletCall /\ c \in Running /\ q.w \in Wallets /\ q.at = "delete"
      /\ wcall' = [wcall EXCEPT ![c] = IdleWalletCall]
      /\ rows' = rows \ gone /\ defaults' = defaults \ gone /\ sealed' = sealed \ gone
      /\ UNCHANGED <<used, disturbed>>
  BY DEF RemoveWallet, WalletDone, WalletStep, WalletInv, WalletTypeOK, CallsName, Running
<1>2. ~disturbed => /\ \A d \in Running : d = c
                    /\ HasDefault(rows, defaults) /\ q.w \notin defaults
                    /\ Cardinality(rows) <= WalletLimit
  BY <1>1 DEF WalletInv, Undisturbed, Staged
<1>3. Cardinality(rows') <= Cardinality(rows) /\ Cardinality(rows) \in Nat /\ Cardinality(rows') \in Nat
  <2>1. rows \in SUBSET Wallets /\ rows' \in SUBSET rows
    BY <1>1 DEF WalletInv, WalletTypeOK
  <2> QED
    BY <2>1, WalletRowsFinite, FS_Subset
<1>4. ~disturbed => InOrder(rows', defaults')
  BY <1>1, <1>2 DEF InOrder, HasDefault
<1>5. ~disturbed => Cardinality(rows') <= WalletLimit
  BY <1>2, <1>3, WalletAssumption
<1>6. rows' \subseteq Wallets /\ defaults' \subseteq rows' /\ sealed' \subseteq rows' /\ used' \subseteq rows'
  BY <1>1 DEF WalletInv, WalletTypeOK
<1> QED
  BY <1>1, <1>2, <1>4, <1>5, <1>6, WalletIdle, WalletOwnStep DEF WalletInv, WalletTypeOK

(* The inductive invariant of the wallets.                                 *)
LEMMA WalletInvHolds == WalletSpec => []WalletInv
<1>1. WalletInit => WalletInv
  <2> SUFFICES ASSUME WalletInit PROVE WalletInv
    OBVIOUS
  <2>1. Cardinality(rows) = 0
    BY FS_EmptySet DEF WalletInit
  <2>2. Running = {} /\ WalletTypeOK
    BY WalletIdle DEF WalletInit, WalletTypeOK, Running
  <2> QED
    BY <2>1, <2>2, WalletAssumption DEF WalletInit, WalletInv, Undisturbed, CallsName, InOrder
<1>2. WalletInv /\ [WalletNext]_walletVars => WalletInv'
  <2> SUFFICES ASSUME WalletInv, [WalletNext]_walletVars PROVE WalletInv'
    OBVIOUS
  <2>0. sealed \subseteq rows /\ rows \subseteq Wallets /\ Cardinality(rows) \in Nat
    BY WalletRowsFinite DEF WalletInv, WalletTypeOK
  <2>1. ASSUME NEW c \in WalletCalls, NEW w \in Wallets,
               \/ CreateWallet(c, w) \/ ImportWallet(c, w)
               \/ SetDefaultWallet(c, w) \/ DeleteWallet(c, w)
        PROVE  WalletInv'
    <3>1. {"insert", "clear", "count"} \subseteq WalletStage \ {"idle"}
      BY DEF WalletStage
    <3>2. CASE CreateWallet(c, w)
      BY <3>1, <3>2, WalletArrivesInv DEF CreateWallet
    <3>3. CASE ImportWallet(c, w)
      BY <3>1, <3>3, WalletArrivesInv DEF ImportWallet
    <3>4. CASE SetDefaultWallet(c, w)
      BY <3>1, <3>4, WalletArrivesInv DEF SetDefaultWallet
    <3>5. CASE DeleteWallet(c, w)
      BY <3>1, <3>5, WalletArrivesInv DEF DeleteWallet
    <3> QED
      BY <2>1, <3>2, <3>3, <3>4, <3>5
  <2>2. ASSUME NEW c \in WalletCalls, InsertWallet(c) PROVE WalletInv'
    BY <2>2, InsertWalletInv
  <2>3. ASSUME NEW c \in WalletCalls, FundWallet(c) \/ SealWallet(c) PROVE WalletInv'
    <3>1. /\ wcall[c].at \in {"fund", "seal"} /\ c \in Running /\ sealed' \subseteq rows
          /\ UNCHANGED <<rows, defaults, used, disturbed>>
      BY <2>0, <2>3 DEF FundWallet, SealWallet, Running
    <3>2. ~disturbed => HasDefault(rows, defaults)
      BY <3>1 DEF WalletInv, Undisturbed, Staged
    <3>3. CASE WalletDone(c)
      BY <3>1, <3>2, <3>3, WalletEnds DEF InOrder
    <3>4. CASE WalletGoto(c, "seal")
      BY <3>1, <3>2, <3>4, WalletGoesOn DEF Staged, WalletStage
    <3> QED
      BY <2>3, <3>3, <3>4 DEF FundWallet, SealWallet
  <2>4. ASSUME NEW c \in WalletCalls, ClearDefault(c) PROVE WalletInv'
    BY <2>4, ClearDefaultInv
  <2>5. ASSUME NEW c \in WalletCalls, SetDefault(c) PROVE WalletInv'
    BY <2>5, SetDefaultInv
  <2>6. ASSUME NEW c \in WalletCalls, CountWallets(c) PROVE WalletInv'
    <3>1. /\ wcall[c].at = "count" /\ c \in Running
          /\ UNCHANGED <<rows, defaults, sealed, used, disturbed>>
      BY <2>6 DEF CountWallets, Running
    <3>2. ~disturbed => HasDefault(rows, defaults)
      BY <3>1 DEF WalletInv, Undisturbed, Staged
    <3>3. CASE Cardinality(rows) <= 1
      <4>1. WalletDone(c)
        BY <2>6, <3>3 DEF CountWallets
      <4> QED
        BY <2>0, <3>1, <3>2, <4>1, WalletEnds DEF InOrder
    <3>4. CASE ~(Cardinality(rows) <= 1)
      <4>1. WalletGoto(c, "look") /\ Cardinality(rows) > 1
        BY <2>0, <2>6, <3>4 DEF CountWallets
      <4> QED
        BY <2>0, <3>1, <3>2, <4>1, WalletGoesOn DEF Staged, WalletStage
    <3> QED
      BY <3>3, <3>4
  <2>7. ASSUME NEW c \in WalletCalls, LookAtWallet(c) PROVE WalletInv'
    <3>1. /\ wcall[c].at = "look" /\ c \in Running
          /\ UNCHANGED <<rows, defaults, sealed, used, disturbed>>
          /\ WalletGoto(c, IF wcall[c].w \in defaults THEN "other" ELSE "delete")
      BY <2>7 DEF LookAtWallet, Running
    <3>2. ~disturbed => HasDefault(rows, defaults) /\ Cardinality(rows) > 1
      BY <3>1 DEF WalletInv, Undisturbed, Staged
    <3>3. CASE wcall[c].w \in defaults
      BY <2>0, <3>1, <3>2, <3>3, WalletGoesOn DEF Staged, WalletStage
    <3>4. CASE wcall[c].w \notin defaults
      BY <2>0, <3>1, <3>2, <3>4, WalletGoesOn DEF Staged, WalletStage
    <3> QED
      BY <3>3, <3>4
  <2>8. ASSUME NEW c \in WalletCalls, PickAnother(c) PROVE WalletInv'
    BY <2>8, PickAnotherInv
  <2>9. ASSUME NEW c \in WalletCalls, RemoveWallet(c) PROVE WalletInv'
    BY <2>9, RemoveWalletInv
  <2>10. ASSUME NEW c \in WalletCalls, WalletCallDies(c) PROVE WalletInv'
    <3>1. /\ wcall' = [wcall EXCEPT ![c] = IdleWalletCall] /\ disturbed' = TRUE
          /\ UNCHANGED <<rows, defaults, sealed, used>>
      BY <2>10 DEF WalletCallDies, WalletDone, WalletStep
    <3> QED
      BY <3>1, WalletIdle, WalletOwnStep DEF WalletInv, WalletTypeOK
  <2>11. ASSUME NEW w \in Wallets, UseWallet(w) PROVE WalletInv'
    BY <2>11 DEF UseWallet, WalletInv, WalletTypeOK, CallsName, Undisturbed, Running, Staged
  <2>12. CASE UNCHANGED walletVars
    BY <2>12 DEF walletVars, WalletInv, WalletTypeOK, CallsName, Undisturbed, Running, Staged
  <2> QED
    BY <2>1, <2>2, <2>3, <2>4, <2>5, <2>6, <2>7, <2>8, <2>9, <2>10, <2>11, <2>12 DEF WalletNext
<1> QED
  BY <1>1, <1>2, PTL DEF WalletSpec

(* Calls of the wallet service that do not overlap leave exactly one       *)
(* default wallet and at most the limit, however each of them failed.      *)
THEOREM OneDefault == WalletSpec => []OneDefaultWhenUndisturbed
<1>1. WalletInv => OneDefaultWhenUndisturbed
  <2> SUFFICES ASSUME WalletInv, ~disturbed, Running = {}
               PROVE  /\ rows # {} => Cardinality(defaults) = 1
                      /\ Cardinality(rows) <= WalletLimit
    BY DEF OneDefaultWhenUndisturbed
  <2>1. InOrder(rows, defaults) /\ Cardinality(rows) <= WalletLimit
    BY DEF WalletInv, Undisturbed
  <2>2. \A d : Cardinality({d}) = 1
    BY FS_Singleton
  <2> QED
    BY <2>1, <2>2 DEF InOrder, HasDefault
<1> QED
  BY <1>1, WalletInvHolds, PTL
-----------------------------------------------------------------------------
(* What a confirm-upload request is about to hash, or to store, was        *)
(* measured by a HEAD, as long as no upload came in between.               *)
ConfirmsMeasured ==
    ~overwritten =>
        \A c \in Confirms : /\ confirm[c].at = "get" => object \in heldLegal
                            /\ confirm[c].at = "store" => confirm[c].doc \in heldLegal

KycInv == KycTypeOK /\ ConfirmsMeasured /\ ConfirmedDocumentWasMeasured

(* confirm-upload stores only what it has measured, but for an upload      *)
(* between its HEAD and its GET: the other requests in flight, and the     *)
(* other two endpoints that write the record, do not make it another.      *)
THEOREM ConfirmedIsMeasured == KycSpec => []ConfirmedDocumentWasMeasured
<1> USE KycAssumption
<1>1. KycInit => KycInv
  <2> SUFFICES ASSUME KycInit PROVE KycInv
    OBVIOUS
  <2>1. kyc \in KycRecord /\ kyc.source = "none"
    BY DEF KycInit, KycRecord, KycStatus, KycTier
  <2>2. confirm \in [Confirms -> [at : {"idle", "get", "store"}, doc : Documents \cup {NoDocument}]]
        /\ \A c \in Confirms : confirm[c].at = "idle"
    BY DEF KycInit, IdleConfirm
  <2> QED
    BY <2>1, <2>2 DEF KycInit, KycInv, KycTypeOK, ConfirmsMeasured, ConfirmedDocumentWasMeasured
<1>2. KycInv /\ [KycNext]_kycVars => KycInv'
  <2> SUFFICES ASSUME KycInv, [KycNext]_kycVars PROVE KycInv'
    OBVIOUS
  <2> USE DEF KycInv
  <2>0. {"PENDING"} \subseteq KycStatus
    BY DEF KycStatus
  <2>1. CASE GenerateUploadUrl \/ UrlExpires
    BY <2>1 DEF GenerateUploadUrl, UrlExpires, KycTypeOK, ConfirmsMeasured,
                ConfirmedDocumentWasMeasured
  <2>2. ASSUME NEW d \in Documents, PutObject(d) PROVE KycInv'
    <3>1. KycTypeOK'
      BY <2>2 DEF PutObject, KycTypeOK
    <3>2. ~overwritten' => ~overwritten /\ \A c \in Confirms : confirm[c].at # "get"
      BY <2>2 DEF PutObject
    <3> QED
      BY <2>2, <3>1, <3>2 DEF PutObject, ConfirmsMeasured, ConfirmedDocumentWasMeasured
  <2>3. ASSUME NEW c \in Confirms, NEW d \in Documents, HeadObject(c, d) PROVE KycInv'
    <3>1. KycTypeOK'
      BY <2>3 DEF HeadObject, KycTypeOK
    <3>2. ConfirmsMeasured'
      BY <2>3 DEF HeadObject, KycTypeOK, ConfirmsMeasured
    <3> QED
      BY <2>3, <3>1, <3>2 DEF HeadObject, ConfirmedDocumentWasMeasured
  <2>4. ASSUME NEW c \in Confirms, HashObject(c) PROVE KycInv'
    <3>1. KycTypeOK'
      BY <2>4 DEF HashObject, KycTypeOK, IdleConfirm
    <3>2. ConfirmsMeasured'
      BY <2>4 DEF HashObject, KycTypeOK, ConfirmsMeasured, IdleConfirm
    <3> QED
      BY <2>4, <3>1, <3>2 DEF HashObject, ConfirmedDocumentWasMeasured
  <2>5. ASSUME NEW c \in Confirms, StoreDocumentRef(c) PROVE KycInv'
    <3>1. /\ confirm[c].doc \in Documents \cup {NoDocument} /\ kyc \in KycRecord
          /\ confirm[c].at = "store"
          /\ confirm' = [confirm EXCEPT ![c] = IdleConfirm]
          /\ kyc' = [kyc EXCEPT !.ref = confirm[c].doc, !.status = "PENDING", !.source = "confirmed"]
          /\ UNCHANGED <<object, url, heldLegal, overwritten>>
      BY <2>5 DEF StoreDocumentRef, KycTypeOK
    <3>2. kyc' \in KycRecord /\ kyc'.ref = confirm[c].doc
      BY <2>0, <3>1 DEF KycRecord
    <3>3. KycTypeOK'
      BY <3>1, <3>2 DEF KycTypeOK, IdleConfirm
    <3>4. ConfirmsMeasured'
      BY <3>1 DEF KycTypeOK, ConfirmsMeasured, IdleConfirm
    <3>5. ConfirmedDocumentWasMeasured'
      BY <3>1, <3>2 DEF ConfirmsMeasured, ConfirmedDocumentWasMeasured
    <3> QED
      BY <3>3, <3>4, <3>5
  <2>6. ASSUME NEW d \in Documents \cup {NoDocument}, SubmitKyc(d) \/ PutCustomer(d) PROVE KycInv'
    <3>1. UNCHANGED <<object, url, confirm, heldLegal, overwritten>> /\ kyc \in KycRecord
      BY <2>6 DEF SubmitKyc, PutCustomer, KycTypeOK
    <3>2. /\ kyc' \in KycRecord
          /\ kyc'.source # "confirmed" \/ (kyc'.source = kyc.source /\ kyc'.ref = kyc.ref)
      <4>1. CASE SubmitKyc(d)
        BY <2>0, <3>1, <4>1 DEF SubmitKyc, KycRecord
      <4>2. CASE PutCustomer(d) /\ d = NoDocument
        BY <2>0, <3>1, <4>2 DEF PutCustomer, KycRecord
      <4>3. CASE PutCustomer(d) /\ d # NoDocument
        BY <2>0, <3>1, <4>3 DEF PutCustomer, KycRecord
      <4> QED
        BY <2>6, <4>1, <4>2, <4>3
    <3> QED
      BY <3>1, <3>2 DEF KycTypeOK, ConfirmsMeasured, ConfirmedDocumentWasMeasured
  <2>7. ASSUME NEW s \in KycStatus \ {"NONE"}, NEW t \in KycTier, UpdateKycRecord(s, t)
        PROVE  KycInv'
    <3>1. /\ UNCHANGED <<object, url, confirm, heldLegal, overwritten>> /\ kyc \in KycRecord
          /\ kyc' = [kyc EXCEPT !.status = s, !.tier = t]
      BY <2>7 DEF UpdateKycRecord, KycTypeOK
    <3>2. kyc' \in KycRecord /\ kyc'.ref = kyc.ref /\ kyc'.source = kyc.source
      BY <3>1 DEF KycRecord
    <3> QED
      BY <3>1, <3>2 DEF KycTypeOK, ConfirmsMeasured, ConfirmedDocumentWasMeasured
  <2>8. CASE UNCHANGED kycVars
    BY <2>8 DEF kycVars, KycTypeOK, ConfirmsMeasured, ConfirmedDocumentWasMeasured
  <2> QED
    BY <2>1, <2>2, <2>3, <2>4, <2>5, <2>6, <2>7, <2>8 DEF KycNext
<1>3. KycInv => ConfirmedDocumentWasMeasured
  BY DEF KycInv
<1> QED
  BY <1>1, <1>2, <1>3, PTL DEF KycSpec
-----------------------------------------------------------------------------
TrailInv == TrailTypeOK /\ ErasureIsComplete

(* The types the audit trail rests on.                                     *)
LEMMA TrailFacts ==
    ASSUME TrailTypeOK
    PROVE  /\ trail \in Seq(AuditRow) /\ Len(trail) \in Nat
           /\ DOMAIN trail = 1..Len(trail) /\ trail \in [1..Len(trail) -> AuditRow]
           /\ Len(trail) <= MaxRows /\ 0..MaxRows \subseteq Nat
BY AuditAssumption DEF TrailTypeOK

(* Appending a row keeps the trail's type.                                 *)
LEMMA AppendedTrail ==
    ASSUME NEW T \in Seq(AuditRow), Len(T) < MaxRows, NEW r \in AuditRow
    PROVE  /\ Append(T, r) \in Seq(AuditRow) /\ Len(Append(T, r)) <= MaxRows
           /\ Len(Append(T, r)) = Len(T) + 1 /\ Len(T) + 1 \in 0..MaxRows
           /\ \A i \in 1..Len(T) : Append(T, r)[i] = T[i]
BY AuditAssumption

(* A row written by the service itself is a row.                           *)
LEMMA DirectRowType ==
    ASSUME NEW u \in {"subject", "other", "pseudonym"}
    PROVE  DirectRow(u) \in AuditRow
BY AuditAssumption DEF DirectRow, AuditRow

(* The rows the erasure leaves: the subject's, renamed, and all others.    *)
LEMMA RenamedRow ==
    ASSUME NEW r \in AuditRow, NEW q, q = [r EXCEPT !.user = Moved(r.user)]
    PROVE  q \in AuditRow /\ (q = r \/ q = [r EXCEPT !.user = "pseudonym"])
<1>1. CASE r.user = "subject"
  BY <1>1 DEF Moved, AuditRow
<1>2. CASE r.user # "subject"
  <2>1. q = [r EXCEPT !.user = r.user]
    BY <1>2 DEF Moved
  <2> QED
    BY <2>1 DEF AuditRow
<1> QED
  BY <1>1, <1>2

(* Renaming the user in the trail keeps every row in its place.            *)
LEMMA RenamedTrail ==
    ASSUME TrailTypeOK, NEW T, T = [i \in 1..Len(trail) |-> [trail[i] EXCEPT !.user = Moved(@)]]
    PROVE  /\ T \in Seq(AuditRow) /\ Len(T) = Len(trail)
           /\ \A i \in 1..Len(trail) : T[i] = trail[i] \/ T[i] = [trail[i] EXCEPT !.user = "pseudonym"]
<1>1. \A i \in 1..Len(trail) :
         /\ T[i] \in AuditRow
         /\ T[i] = trail[i] \/ T[i] = [trail[i] EXCEPT !.user = "pseudonym"]
  <2> SUFFICES ASSUME NEW i \in 1..Len(trail)
               PROVE  /\ T[i] \in AuditRow
                      /\ T[i] = trail[i] \/ T[i] = [trail[i] EXCEPT !.user = "pseudonym"]
    OBVIOUS
  <2>1. trail[i] \in AuditRow /\ T[i] = [trail[i] EXCEPT !.user = Moved(trail[i].user)]
    BY TrailFacts
  <2> QED
    BY <2>1, RenamedRow
<1>2. T \in [1..Len(trail) -> AuditRow] /\ Len(trail) \in Nat
  BY <1>1, TrailFacts
<1> QED
  BY <1>1, <1>2

(* The erasure transaction: tombstone, unlinked rows, no secrets.          *)
LEMMA EraseSubjectInv ==
    ASSUME TrailInv, NEW e \in Erasers, EraseSubject(e)
    PROVE  TrailInv'
<1> DEFINE T == [i \in 1..Len(trail) |-> [trail[i] EXCEPT !.user = Moved(@)]]
<1>0. TrailTypeOK /\ ErasureIsComplete
  BY DEF TrailInv
<1>1. /\ trail' = Append(T, DirectRow("pseudonym")) /\ Len(trail) < MaxRows
      /\ owner' = [w \in OwnWallets |-> IF w \in Unseen(e) THEN "none" ELSE Moved(owner[w])]
      /\ secret' = secret \ (eraser[e].saw \cup Unseen(e))
      /\ transfers' = [w \in OwnWallets |-> Moved(transfers[w])]
      /\ subject' = FALSE /\ kycRow' = FALSE /\ tombstone' = TRUE /\ logger' = logger
      /\ eraser' = [eraser EXCEPT ![e] = [at |-> "done", saw |-> {}]]
      /\ \A w \in Unseen(e) : transfers[w] = "none"
  BY DEF EraseSubject, CanErase
<1>2. T \in Seq(AuditRow) /\ Len(T) = Len(trail)
  BY <1>0, RenamedTrail
<1> HIDE DEF T
<1>3. trail' \in Seq(AuditRow) /\ Len(trail') <= MaxRows
  BY <1>1, <1>2, AppendedTrail, DirectRowType
<1>4. owner' \in [OwnWallets -> Owner] /\ transfers' \in [OwnWallets -> Owner]
  BY <1>0, <1>1 DEF TrailTypeOK, Owner, Moved
<1>5. eraser' \in [Erasers -> [at : {"idle", "load", "commit", "done"}, saw : SUBSET OwnWallets]]
  BY <1>0, <1>1 DEF TrailTypeOK
<1>6. TrailTypeOK'
  BY <1>0, <1>1, <1>3, <1>4, <1>5 DEF TrailTypeOK
<1>7. ASSUME NEW w \in OwnWallets
      PROVE  /\ owner'[w] # "subject" /\ transfers'[w] # "subject"
             /\ transfers'[w] # "none" => owner'[w] = transfers'[w]
  <2>1. /\ owner'[w] = IF w \in Unseen(e) THEN "none" ELSE Moved(owner[w])
        /\ transfers'[w] = Moved(transfers[w])
        /\ transfers[w] # "none" => owner[w] = transfers[w]
    BY <1>0, <1>1 DEF ErasureIsComplete
  <2>2. w \in Unseen(e) => transfers'[w] = "none"
    BY <1>1, <2>1 DEF Moved
  <2> QED
    BY <2>1, <2>2 DEF Moved
<1>8. ErasureIsComplete'
  BY <1>1, <1>7 DEF ErasureIsComplete
<1> QED
  BY <1>6, <1>8 DEF TrailInv

(* The inductive invariant of the audit trail.                             *)
LEMMA TrailInvHolds == TrailSpec => []TrailInv
<1> USE AuditAssumption
<1>1. TrailInit => TrailInv
  <2> SUFFICES ASSUME TrailInit PROVE TrailInv
    OBVIOUS
  <2>1. trail \in Seq(AuditRow) /\ Len(trail) <= MaxRows
    BY DEF TrailInit
  <2>2. logger \in [Loggers -> [at : {"idle", "insert", "seal"}, row : 0..MaxRows]]
    BY DEF TrailInit
  <2>3. eraser \in [Erasers -> [at : {"idle", "load", "commit", "done"}, saw : SUBSET OwnWallets]]
    BY DEF TrailInit
  <2>4. owner \in [OwnWallets -> Owner] /\ transfers \in [OwnWallets -> Owner]
    BY DEF TrailInit, Owner
  <2>5. ErasureIsComplete
    BY DEF TrailInit, ErasureIsComplete
  <2> QED
    BY <2>1, <2>2, <2>3, <2>4, <2>5 DEF TrailInit, TrailInv, TrailTypeOK
<1>2. TrailInv /\ [TrailNext]_trailVars => TrailInv'
  <2> SUFFICES ASSUME TrailInv, [TrailNext]_trailVars PROVE TrailInv'
    OBVIOUS
  <2> USE DEF TrailInv
  <2>0. /\ trail \in Seq(AuditRow) /\ Len(trail) \in Nat /\ Len(trail) <= MaxRows
        /\ \A l \in Loggers : logger[l].row \in 0..MaxRows
    BY TrailFacts DEF TrailTypeOK
  <2>1. ASSUME NEW l \in Loggers, ReadPrevious(l) PROVE TrailInv'
    <3>1. PreviousHash \in 0..MaxRows
      BY <2>0 DEF PreviousHash
    <3> QED
      BY <2>1, <3>1 DEF ReadPrevious, accountVars, TrailTypeOK, ErasureIsComplete
  <2>2. ASSUME NEW l \in Loggers, SealEntry(l) PROVE TrailInv'
    BY <2>2 DEF SealEntry, UpdateAllowed, accountVars, TrailTypeOK, ErasureIsComplete
  <2>3. ASSUME NEW l \in Loggers, NEW u \in {"subject", "other"}, InsertEntry(l, u) PROVE TrailInv'
    <3> DEFINE r == [user |-> u, prev |-> logger[l].row, sealed |-> FALSE, chained |-> TRUE]
    <3>1. r \in AuditRow
      BY <2>0 DEF AuditRow
    <3>2. /\ trail' = Append(trail, r) /\ Len(trail) < MaxRows
          /\ logger' = [logger EXCEPT ![l] = [at |-> "seal", row |-> Len(trail) + 1]]
          /\ UNCHANGED eraser /\ UNCHANGED accountVars
      BY <2>3 DEF InsertEntry
    <3> HIDE DEF r
    <3>3. /\ trail' \in Seq(AuditRow) /\ Len(trail') <= MaxRows /\ Len(trail) + 1 \in 0..MaxRows
      BY <2>0, <3>1, <3>2, AppendedTrail
    <3> QED
      BY <3>2, <3>3 DEF accountVars, TrailTypeOK, ErasureIsComplete
  <2>4. ASSUME NEW u \in {"subject", "other"}, WriteAuditLog(u) PROVE TrailInv'
    <3>1. trail' \in Seq(AuditRow) /\ Len(trail') <= MaxRows
      BY <2>0, <2>4, AppendedTrail, DirectRowType DEF WriteAuditLog
    <3> QED
      BY <2>4, <3>1 DEF WriteAuditLog, accountVars, TrailTypeOK, ErasureIsComplete
  <2>5. ASSUME NEW w \in OwnWallets, AddWallet(w) PROVE TrailInv'
    <3>1. /\ subject /\ owner[w] = "none" /\ owner' = [owner EXCEPT ![w] = "subject"]
          /\ UNCHANGED <<trail, logger, subject, tombstone, secret, transfers, kycRow, eraser>>
      BY <2>5 DEF AddWallet, auditVars
    <3>2. TrailTypeOK'
      BY <3>1 DEF TrailTypeOK, Owner
    <3>3. ErasureIsComplete'
      BY <3>1 DEF TrailTypeOK, ErasureIsComplete
    <3> QED
      BY <3>2, <3>3
  <2>6. ASSUME NEW w \in OwnWallets, StoreSecret(w) PROVE TrailInv'
    BY <2>6 DEF StoreSecret, auditVars, TrailTypeOK, ErasureIsComplete
  <2>7. ASSUME NEW w \in OwnWallets, AddTransfer(w) PROVE TrailInv'
    <3>1. /\ subject /\ owner[w] = "subject" /\ transfers' = [transfers EXCEPT ![w] = "subject"]
          /\ UNCHANGED <<trail, logger, subject, tombstone, owner, secret, kycRow, eraser>>
      BY <2>7 DEF AddTransfer, auditVars
    <3>2. TrailTypeOK'
      BY <3>1 DEF TrailTypeOK, Owner
    <3>3. ErasureIsComplete'
      BY <3>1 DEF TrailTypeOK, ErasureIsComplete
    <3> QED
      BY <3>2, <3>3
  <2>8. CASE AddKycRecord
    BY <2>8 DEF AddKycRecord, auditVars, TrailTypeOK, ErasureIsComplete
  <2>9. ASSUME NEW e \in Erasers, BeginErase(e) PROVE TrailInv'
    <3>1. trail' \in Seq(AuditRow) /\ Len(trail') <= MaxRows
      BY <2>0, <2>9, AppendedTrail, DirectRowType DEF BeginErase
    <3>2. eraser' \in [Erasers -> [at : {"idle", "load", "commit", "done"}, saw : SUBSET OwnWallets]]
      BY <2>9 DEF BeginErase, TrailTypeOK
    <3> QED
      BY <2>9, <3>1, <3>2 DEF BeginErase, accountVars, TrailTypeOK, ErasureIsComplete
  <2>10. ASSUME NEW e \in Erasers, LoadSubject(e) \/ EraseFails(e) PROVE TrailInv'
    <3>1. eraser' \in [Erasers -> [at : {"idle", "load", "commit", "done"}, saw : SUBSET OwnWallets]]
      <4>1. CASE LoadSubject(e)
        BY <4>1 DEF LoadSubject, TrailTypeOK
      <4>2. CASE EraseFails(e)
        BY <4>2 DEF EraseFails, TrailTypeOK
      <4> QED
        BY <2>10, <4>1, <4>2
    <3>2. UNCHANGED auditVars /\ UNCHANGED accountVars
      BY <2>10 DEF LoadSubject, EraseFails
    <3> QED
      BY <3>1, <3>2 DEF auditVars, accountVars, TrailTypeOK, ErasureIsComplete
  <2>11. ASSUME NEW e \in Erasers, EraseSubject(e) PROVE TrailInv'
    BY <2>11, EraseSubjectInv
  <2>12. CASE UNCHANGED trailVars
    BY <2>12 DEF trailVars, TrailTypeOK, ErasureIsComplete
  <2> QED
    BY <2>1, <2>2, <2>3, <2>4, <2>5, <2>6, <2>7, <2>8, <2>9, <2>10, <2>11, <2>12 DEF TrailNext
<1> QED
  BY <1>1, <1>2, PTL DEF TrailSpec

(* Once eraseUser has written its tombstone, no wallet, transfer or KYC    *)
(* record names the subject, also when wallets were added after it had     *)
(* read the list, and no transfer is lost with its wallet.                 *)
THEOREM ErasureCompletes == TrailSpec => []ErasureIsComplete
<1>1. TrailInv => ErasureIsComplete
  BY DEF TrailInv
<1> QED
  BY <1>1, TrailInvHolds, PTL

(* No audit row is removed, reordered or changed, except by the erasure    *)
(* that renames the subject, however many log calls and erasures run at    *)
(* once.                                                                   *)
THEOREM AuditRowsStay == TrailSpec => AuditRowsAreImmutable
<1> DEFINE Stay ==
       /\ Len(trail') >= Len(trail)
       /\ \A i \in 1..Len(trail) :
             \/ trail'[i] = trail[i]
             \/ /\ tombstone' /\ ~tombstone
                /\ trail'[i] = [trail[i] EXCEPT !.user = "pseudonym"]
<1>1. TrailInv /\ [TrailNext]_trailVars => [Stay]_trailVars
  <2> SUFFICES ASSUME TrailInv, TrailNext PROVE Stay
    OBVIOUS
  <2>0. trail \in Seq(AuditRow) /\ Len(trail) \in Nat
    BY TrailFacts DEF TrailInv
  <2>1. CASE UNCHANGED trail
    BY <2>0, <2>1
  <2>2. ASSUME NEW r, trail' = Append(trail, r) PROVE Stay
    BY <2>0, <2>2
  <2>3. ASSUME NEW e \in Erasers, EraseSubject(e) PROVE Stay
    <3> DEFINE T == [i \in 1..Len(trail) |-> [trail[i] EXCEPT !.user = Moved(@)]]
    <3>1. trail' = Append(T, DirectRow("pseudonym")) /\ tombstone' /\ subject
      BY <2>3 DEF EraseSubject, CanErase
    <3>2. ~tombstone
      BY <3>1 DEF TrailInv, ErasureIsComplete
    <3>3. /\ T \in Seq(AuditRow) /\ Len(T) = Len(trail)
          /\ \A i \in 1..Len(trail) : T[i] = trail[i] \/ T[i] = [trail[i] EXCEPT !.user = "pseudonym"]
      BY RenamedTrail DEF TrailInv
    <3> HIDE DEF T
    <3>4. Len(trail') = Len(trail) + 1 /\ \A i \in 1..Len(trail) : trail'[i] = T[i]
      BY <2>0, <3>1, <3>3
    <3> QED
      BY <2>0, <3>1, <3>2, <3>3, <3>4
  <2>4. ASSUME NEW l \in Loggers, SealEntry(l) PROVE UNCHANGED trail
    BY <2>4 DEF SealEntry, UpdateAllowed
  <2> QED
    BY <2>1, <2>2, <2>3, <2>4
       DEF TrailNext, ReadPrevious, InsertEntry, WriteAuditLog, AddWallet, StoreSecret, AddTransfer,
           AddKycRecord, BeginErase, LoadSubject, EraseFails, auditVars
<1> QED
  BY <1>1, TrailInvHolds, PTL DEF TrailSpec, AuditRowsAreImmutable

-----------------------------------------------------------------------------
(* Challenges                                                              *)

(* A nonce that has earned a token, or whose request has marked it, is no  *)
(* longer "issued": it is used or it has expired.  IssueChallengeNonce     *)
(* draws a value that no request carries, so no request is ever late.  A   *)
(* pending passkey challenge has not been accepted yet.                    *)
AnchorInv ==
    /\ anchorNonce \in [Nonces -> {"none", "issued", "used"}]
    /\ tokenCall \in [TokenCalls -> [at : {"idle", "mark", "sign"},
                                     n : Nonces \cup {NoNonce}, late : BOOLEAN]]
    /\ tokens \in [Nonces -> Nat]
    /\ lateTokens = 0
    /\ \A n \in Nonces : tokens[n] > 0 => anchorNonce[n] # "issued"
    /\ \A t \in TokenCalls :
          /\ ~tokenCall[t].late
          /\ tokenCall[t].at # "idle" => tokenCall[t].n \in Nonces
          /\ tokenCall[t].at = "sign" => anchorNonce[tokenCall[t].n] # "issued"

PasskeyInv ==
    /\ pending \subseteq Nonces /\ spent \in [Nonces -> Nat]
    /\ \A n \in Nonces : spent[n] <= 1 /\ (n \in pending => spent[n] = 0)

(* Every step of the anchor's handlers keeps what is said of its nonces.   *)
LEMMA AnchorNonceStep ==
    ASSUME AnchorInv, AnchorNonceNext
    PROVE  AnchorInv'
<1>1. ASSUME NEW n \in Nonces, IssueChallengeNonce(n) PROVE AnchorInv'
  BY <1>1 DEF IssueChallengeNonce, AnchorInv
<1>2. ASSUME NEW n \in Nonces, AnchorNonceExpires(n) PROVE AnchorInv'
  BY <1>2 DEF AnchorNonceExpires, AnchorInv
<1>3. ASSUME NEW t \in TokenCalls, NEW n \in Nonces, ConsumeChallengeNonce(t, n) PROVE AnchorInv'
  <2>1. /\ anchorNonce[n] = "issued" /\ UNCHANGED <<anchorNonce, tokens, lateTokens>>
        /\ tokenCall' = [tokenCall EXCEPT ![t] = [at |-> "mark", n |-> n, late |-> tokens[n] > 0]]
    BY <1>3 DEF ConsumeChallengeNonce
  <2>2. (tokens[n] > 0) = FALSE
    BY <2>1 DEF AnchorInv
  <2>3. tokenCall' = [tokenCall EXCEPT ![t] = [at |-> "mark", n |-> n, late |-> FALSE]]
    BY <2>1, <2>2
  <2> QED
    BY <2>1, <2>3 DEF AnchorInv
<1>4. ASSUME NEW t \in TokenCalls, MarkNonceUsed(t) PROVE AnchorInv'
  BY <1>4 DEF MarkNonceUsed, AnchorInv
<1>5. ASSUME NEW t \in TokenCalls, GenerateToken(t) PROVE AnchorInv'
  <2>1. /\ tokenCall[t].at = "sign" /\ UNCHANGED anchorNonce
        /\ tokenCall' = [tokenCall EXCEPT ![t] = [at |-> "idle", n |-> NoNonce, late |-> FALSE]]
        /\ lateTokens' = 0
    BY <1>5 DEF GenerateToken, AnchorInv
  <2>2. \/ tokens' = tokens
        \/ tokens' = [tokens EXCEPT ![tokenCall[t].n] = @ + 1]
    BY <1>5 DEF GenerateToken
  <2>3. /\ tokens' \in [Nonces -> Nat]
        /\ \A n \in Nonces : tokens'[n] > 0 => anchorNonce[n] # "issued"
    BY <2>1, <2>2 DEF AnchorInv
  <2> QED
    BY <2>1, <2>3 DEF AnchorInv
<1> QED
  BY <1>1, <1>2, <1>3, <1>4, <1>5 DEF AnchorNonceNext

(* Every step of WebAuthnService keeps what is said of its challenges.     *)
LEMMA PasskeyStep ==
    ASSUME PasskeyInv, PasskeyNext
    PROVE  PasskeyInv'
<1>1. ASSUME NEW n \in Nonces, SaveChallenge(n) PROVE PasskeyInv'
  BY <1>1 DEF SaveChallenge, PasskeyInv
<1>2. ASSUME NEW n \in Nonces, ChallengeExpires(n) PROVE PasskeyInv'
  BY <1>2 DEF ChallengeExpires, PasskeyInv
<1>3. ASSUME NEW n \in Nonces, NEW ok \in BOOLEAN, ConsumeChallenge(n, ok) PROVE PasskeyInv'
  BY <1>3 DEF ConsumeChallenge, PasskeyInv
<1>4. CASE ApiRestarts
  BY <1>4 DEF ApiRestarts, PasskeyInv
<1> QED
  BY <1>1, <1>2, <1>3, <1>4 DEF PasskeyNext, VerifyRegistration, VerifyAuthentication

(* No anchor token goes to a request that began after the first token of   *)
(* its nonce, however many requests read the nonce before it was marked    *)
(* used and whenever it expires, and no passkey challenge is accepted      *)
(* twice.                                                                  *)
THEOREM ChallengesSpentOnce == ChallengeSpec => []ChallengesAreSpent
<1>1. ChallengeInit => AnchorInv /\ PasskeyInv
  BY DEF ChallengeInit, AnchorInv, PasskeyInv
<1>2. AnchorInv /\ PasskeyInv /\ [ChallengeNext]_challengeVars => (AnchorInv /\ PasskeyInv)'
  <2> SUFFICES ASSUME AnchorInv, PasskeyInv, [ChallengeNext]_challengeVars
               PROVE  AnchorInv' /\ PasskeyInv'
    OBVIOUS
  <2>1. UNCHANGED anchorNonceVars => AnchorInv'
    BY DEF anchorNonceVars, AnchorInv
  <2>2. UNCHANGED passkeyVars => PasskeyInv'
    BY DEF passkeyVars, PasskeyInv
  <2>3. CASE Sep10Next
    BY <2>1, <2>2, <2>3
       DEF Sep10Next, ClickLogin, LoginFails, FreighterConnected, GenerateChallenge, NonceExpires,
           SubmitChallenge, GetNonce, DelNonce, CheckSignatures
  <2>4. CASE AnchorNonceNext
    <3>1. UNCHANGED passkeyVars
      BY <2>4 DEF AnchorNonceNext, IssueChallengeNonce, AnchorNonceExpires, ConsumeChallengeNonce,
                  MarkNonceUsed, GenerateToken
    <3> QED
      BY <2>2, <2>4, <3>1, AnchorNonceStep
  <2>5. CASE PasskeyNext
    <3>1. UNCHANGED anchorNonceVars
      BY <2>5 DEF PasskeyNext, SaveChallenge, ChallengeExpires, VerifyRegistration,
                  VerifyAuthentication, ApiRestarts
    <3> QED
      BY <2>1, <2>5, <3>1, PasskeyStep
  <2>6. CASE UNCHANGED challengeVars
    BY <2>1, <2>2, <2>6 DEF challengeVars, anchorNonceVars, passkeyVars
  <2> QED
    BY <2>3, <2>4, <2>5, <2>6 DEF ChallengeNext
<1>3. AnchorInv /\ PasskeyInv => ChallengesAreSpent
  BY DEF AnchorInv, PasskeyInv, ChallengesAreSpent
<1> QED
  BY <1>1, <1>2, <1>3, PTL DEF ChallengeSpec

-----------------------------------------------------------------------------
(***************************************************************************)
(* The stand-alone application.  Replay is the value of a function chosen  *)
(* to satisfy its recursion: that there is one, and that two of them agree *)
(* where their transactions do, is shown by a least counterexample.        *)
(***************************************************************************)

(* g follows the balances through the first n of the transactions list.    *)
Follows(g, all, list, n) ==
    g = [m \in 0..n |-> IF m = 0 THEN Opening
                                 ELSE Charged(g[m - 1], all[list[Len(list) + 1 - m]])]

(* Replay is the last balance of a function that follows them all.         *)
LEMMA ReplayIsChosen ==
    ASSUME NEW all, NEW list
    PROVE  Replay(all, list) = (CHOOSE g : Follows(g, all, list, Len(list)))[Len(list)]
BY Zenon DEF Replay, Follows

(* The balances can be followed through any number of transactions.        *)
LEMMA FollowsExists ==
    ASSUME NEW all, NEW list, NEW n \in Nat
    PROVE  \E g : Follows(g, all, list, n)
<1> DEFINE C(b, m) == Charged(b, all[list[Len(list) + 1 - m]])
           B == {m \in 0..n : ~ \E g : Follows(g, all, list, m)}
<1>1. SUFFICES ASSUME B # {} PROVE FALSE
  OBVIOUS
<1>2. B \subseteq 0..n /\ B \subseteq Int
  OBVIOUS
<1> HIDE DEF B
<1>3. IsFiniteSet(0..n)
  <2>1. 0 \in Int /\ n \in Int
    OBVIOUS
  <2> QED
    BY <2>1, FS_Interval, Zenon
<1>f. IsFiniteSet(B)
  BY <1>2, <1>3, FS_Subset
<1>4. PICK m \in B : \A y \in B : m <= y
  BY <1>1, <1>2, <1>f, LeastExists
<1> USE DEF B
<1>5. CASE m = 0
  <2>1. Follows([k \in 0..0 |-> Opening], all, list, 0)
    BY DEF Follows
  <2> QED
    BY <1>5, <2>1
<1>6. CASE m # 0
  <2>1. m - 1 \in 0..n /\ m - 1 \notin B
    BY <1>4, <1>6
  <2>2. PICK g : Follows(g, all, list, m - 1)
    BY <2>1
  <2> DEFINE h == [k \in 0..m |-> IF k = m THEN C(g[m - 1], m) ELSE g[k]]
  <2>3. ASSUME NEW k \in 0..m PROVE h[k] = IF k = 0 THEN Opening ELSE C(h[k - 1], k)
    <3> HIDE DEF C
    <3>1. CASE k = m
      BY <1>6, <3>1
    <3>2. CASE k # m
      <4>1. k \in 0..(m - 1) /\ h[k] = g[k] /\ (k # 0 => h[k - 1] = g[k - 1])
        BY <3>2
      <4>2. g[k] = IF k = 0 THEN Opening ELSE C(g[k - 1], k)
        BY <2>2, <4>1 DEF Follows, C
      <4> QED
        BY <4>1, <4>2
    <3> QED
      BY <3>1, <3>2
  <2>4. Follows(h, all, list, m)
    BY <2>3 DEF Follows
  <2> QED
    BY <2>4
<1> QED
  BY <1>5, <1>6

(* The balances between the default wallet and the one Replay leads to.    *)
Ledger(g, all, list, n) ==
    /\ g[0] = Opening
    /\ \A m \in 1..n : g[m] = Charged(g[m - 1], all[list[n + 1 - m]])

(* There are such balances.                                                *)
LEMMA ReplayMeans ==
    ASSUME NEW all, NEW list, NEW n \in Nat, n = Len(list)
    PROVE  \E g : Ledger(g, all, list, n) /\ g[n] = Replay(all, list)
<1> DEFINE g == CHOOSE f : Follows(f, all, list, n)
<1>1. Follows(g, all, list, n)
  BY FollowsExists, Zenon
<1>2. Replay(all, list) = g[n]
  BY ReplayIsChosen
<1> HIDE DEF g
<1>3. \A m \in 0..n : g[m] = IF m = 0 THEN Opening ELSE Charged(g[m - 1], all[list[n + 1 - m]])
  BY <1>1, Zenon DEF Follows
<1>4. 0 \in 0..n /\ \A m \in 1..n : m \in 0..n /\ m # 0
  OBVIOUS
<1>5. g[0] = Opening /\ \A m \in 1..n : g[m] = Charged(g[m - 1], all[list[n + 1 - m]])
  BY <1>3, <1>4
<1> QED
  BY <1>2, <1>5 DEF Ledger

(* What a transaction does to the balances.                                *)
SameCharge(a, b) ==
    /\ a.kind = b.kind /\ a.source = b.source /\ a.amount = b.amount
    /\ a.dest = b.dest /\ a.credit = b.credit

(* ... and nothing else of it does.                                        *)
LEMMA ChargedSame ==
    ASSUME NEW a, NEW b, SameCharge(a, b), NEW balance
    PROVE  Charged(balance, a) = Charged(balance, b)
BY DEF SameCharge, Charged

(* Functions that agree at 0 and at each step after an agreement agree.    *)
LEMMA StepByStep ==
    ASSUME NEW n \in Nat, NEW g, NEW h, g[0] = h[0],
           \A m \in 1..n : g[m - 1] = h[m - 1] => g[m] = h[m]
    PROVE  g[n] = h[n]
<1> DEFINE B == {m \in 0..n : g[m] # h[m]}
<1>1. SUFFICES ASSUME B # {} PROVE FALSE
  OBVIOUS
<1>2. B \subseteq 0..n /\ B \subseteq Int
  OBVIOUS
<1> HIDE DEF B
<1>3. IsFiniteSet(0..n)
  <2>1. 0 \in Int /\ n \in Int
    OBVIOUS
  <2> QED
    BY <2>1, FS_Interval, Zenon
<1>4. IsFiniteSet(B)
  BY <1>2, <1>3, FS_Subset
<1>5. PICK m \in B : \A y \in B : m <= y
  BY <1>1, <1>2, <1>4, LeastExists
<1> USE DEF B
<1>6. m \in 1..n /\ m - 1 \in 0..n /\ m - 1 \notin B
  BY <1>5
<1> QED
  BY <1>5, <1>6

(* What changes in the submissions without changing what they charge does  *)
(* not matter.                                                             *)
LEMMA ReplayStays ==
    ASSUME NEW all, NEW all2, NEW list \in Seq(Nat),
           \A i \in 1..Len(list) : SameCharge(all2[list[i]], all[list[i]])
    PROVE  Replay(all2, list) = Replay(all, list)
<1>0. PICK n \in Nat : n = Len(list)
  OBVIOUS
<1>1. PICK g : Ledger(g, all, list, n) /\ g[n] = Replay(all, list)
  BY <1>0, ReplayMeans
<1>2. PICK h : Ledger(h, all2, list, n) /\ h[n] = Replay(all2, list)
  BY <1>0, ReplayMeans
<1>3. \A m \in 1..n : SameCharge(all2[list[n + 1 - m]], all[list[n + 1 - m]])
  BY <1>0
<1>4. ASSUME NEW m \in 1..n, g[m - 1] = h[m - 1] PROVE g[m] = h[m]
  <2> DEFINE a == all[list[n + 1 - m]]
             b == all2[list[n + 1 - m]]
  <2>1. g[m] = Charged(g[m - 1], a) /\ h[m] = Charged(h[m - 1], b) /\ SameCharge(b, a)
    BY <1>1, <1>2, <1>3 DEF Ledger
  <2> HIDE DEF a, b
  <2> QED
    BY <1>4, <2>1, ChargedSame
<1>5. g[n] = h[n]
  BY <1>1, <1>2, <1>4, StepByStep DEF Ledger
<1> QED
  BY <1>1, <1>2, <1>5

(* Recording a transaction charges it.                                     *)
LEMMA ReplayLonger ==
    ASSUME NEW all, NEW list \in Seq(Nat), NEW j \in Nat
    PROVE  Replay(all, <<j>> \o list) = Charged(Replay(all, list), all[j])
<1>0. PICK n \in Nat : n = Len(list)
  OBVIOUS
<1>1. PICK longer : longer = <<j>> \o list
  OBVIOUS
<1>2. /\ n + 1 \in Nat /\ n + 1 = Len(longer) /\ longer[1] = j
      /\ \A m \in 1..n : longer[(n + 1) + 1 - m] = list[n + 1 - m]
  BY <1>0, <1>1
<1>3. PICK g : Ledger(g, all, list, n) /\ g[n] = Replay(all, list)
  BY <1>0, ReplayMeans
<1>k. PICK k \in Nat : k = n + 1
  BY <1>2
<1>4. PICK h : Ledger(h, all, longer, k) /\ h[k] = Replay(all, longer)
  BY <1>2, <1>k, ReplayMeans
<1>5. ASSUME NEW m \in 1..n, g[m - 1] = h[m - 1] PROVE g[m] = h[m]
  <2>1. m \in 1..k /\ longer[k + 1 - m] = list[n + 1 - m]
    BY <1>2, <1>k
  <2> QED
    BY <1>3, <1>4, <1>5, <2>1 DEF Ledger
<1>6. g[n] = h[n]
  BY <1>3, <1>4, <1>5, StepByStep DEF Ledger
<1>7. h[k] = Charged(h[n], all[j])
  <2>1. k \in 1..k /\ k - 1 = n /\ k + 1 - k = 1
    BY <1>k
  <2> QED
    BY <1>2, <1>4, <2>1 DEF Ledger
<1> QED
  BY <1>1, <1>3, <1>4, <1>6, <1>7

(* With no transactions the wallet is the default one.                     *)
LEMMA ReplayNothing == \A all : Replay(all, <<>>) = Opening
<1> TAKE all
<1>1. 0 \in Nat /\ 0 = Len(<<>>)
  OBVIOUS
<1> QED
  BY <1>1, ReplayMeans DEF Ledger

(* A suffix, index by index.                                               *)
LEMMA SuffixMeans ==
    ASSUME NEW s \in Seq(Nat), NEW t \in Seq(Nat)
    PROVE  IsSuffix(s, t) <=>
              /\ Len(s) <= Len(t)
              /\ \A i \in 1..Len(s) : t[Len(t) - Len(s) + i] = s[i]
<1> DEFINE rs == Reverse(s)
           rt == Reverse(t)
<1>1. rs \in Seq(Nat) /\ Len(rs) = Len(s) /\ \A i \in 1..Len(s) : rs[i] = s[Len(s) - i + 1]
  BY DEF Reverse
<1>2. rt \in Seq(Nat) /\ Len(rt) = Len(t) /\ \A i \in 1..Len(t) : rt[i] = t[Len(t) - i + 1]
  BY DEF Reverse
<1> HIDE DEF rs, rt
<1>3. IsPrefix(rs, rt) <=> Len(rs) <= Len(rt) /\ \A i \in 1..Len(rs) : rs[i] = rt[i]
  <2> DEFINE p == SubSeq(rs, 1, Len(rs))
             q == SubSeq(rt, 1, Len(rs))
  <2>1. ASSUME Len(rs) <= Len(rt)
        PROVE  p = q <=> \A i \in 1..Len(rs) : rs[i] = rt[i]
    <3>1. p = [i \in 1..Len(rs) |-> rs[i]] /\ q = [i \in 1..Len(rs) |-> rt[i]]
      BY <1>1, <1>2, <2>1
    <3> HIDE DEF p, q
    <3> QED
      BY <3>1
  <2> QED
    BY <2>1 DEF IsPrefix
<1>4. IsSuffix(s, t) <=> IsPrefix(rs, rt)
  BY DEF IsSuffix, rs, rt
<1>5. ASSUME Len(s) <= Len(t)
      PROVE  (\A i \in 1..Len(rs) : rs[i] = rt[i]) <=>
             (\A i \in 1..Len(s) : t[Len(t) - Len(s) + i] = s[i])
  <2>1. ASSUME \A i \in 1..Len(rs) : rs[i] = rt[i], NEW i \in 1..Len(s)
        PROVE  t[Len(t) - Len(s) + i] = s[i]
    <3> DEFINE m == Len(s) - i + 1
    <3>1. m \in 1..Len(s) /\ m \in 1..Len(t) /\ Len(s) - m + 1 = i /\ Len(t) - m + 1 = Len(t) - Len(s) + i
      BY <1>5
    <3> HIDE DEF m
    <3> QED
      BY <1>1, <1>2, <2>1, <3>1
  <2>2. ASSUME \A i \in 1..Len(s) : t[Len(t) - Len(s) + i] = s[i], NEW i \in 1..Len(rs)
        PROVE  rs[i] = rt[i]
    <3> DEFINE m == Len(s) - i + 1
    <3>1. m \in 1..Len(s) /\ i \in 1..Len(t) /\ Len(t) - i + 1 = Len(t) - Len(s) + m
      BY <1>1, <1>5
    <3>2. rs[i] = s[m] /\ rt[i] = t[Len(t) - i + 1]
      BY <1>1, <1>2, <3>1
    <3> HIDE DEF m
    <3> QED
      BY <2>2, <3>1, <3>2
  <2> QED
    BY <2>1, <2>2
<1> QED
  BY <1>1, <1>2, <1>3, <1>4, <1>5

(* What the invariant needs of the types.                                  *)
Purse == [balance : [Currencies -> Int], trusted : SUBSET Currencies]
AppShape ==
    /\ stored \in Purse /\ shown \in [wallet : Purse, rows : Seq(Nat)]
    /\ jobs \in Seq(Job) /\ records \in Seq(Nat)
    /\ wizard \in WizardState

AppInv == AppShape /\ WalletFollowsRecords

(* The submissions that have settled, and so belong in the list.           *)
Recorded == {j \in DOMAIN jobs : jobs[j].done /\ jobs[j].kind # "toggle"}

(* No step forgets a submission or changes what it charges.                *)
JobsKept ==
    /\ DOMAIN jobs \subseteq DOMAIN jobs'
    /\ \A j \in DOMAIN jobs : SameCharge(jobs'[j], jobs[j])

(* Listed transactions are settled submissions.                            *)
LEMMA ListedAreJobs ==
    ASSUME AppInv
    PROVE  /\ Recorded = {records[i] : i \in 1..Len(records)}
           /\ \A i \in 1..Len(records) : records[i] \in DOMAIN jobs
           /\ Len(shown.rows) <= Len(records) /\ shown.rows \in Seq(Nat)
           /\ \A i \in 1..Len(shown.rows) :
                 /\ records[Len(records) - Len(shown.rows) + i] = shown.rows[i]
                 /\ shown.rows[i] \in DOMAIN jobs
<1>1. records \in Seq(Nat) /\ shown.rows \in Seq(Nat)
  BY DEF AppInv, AppShape
<1>2. Recorded = ToSet(records) /\ IsSuffix(shown.rows, records)
  BY DEF AppInv, WalletFollowsRecords, Recorded
<1>3. ToSet(records) = {records[i] : i \in 1..Len(records)}
  BY <1>1 DEF ToSet
<1>4. \A i \in 1..Len(records) : records[i] \in Recorded
  BY <1>2, <1>3
<1>5. Recorded \subseteq DOMAIN jobs
  BY DEF Recorded
<1>6. /\ Len(shown.rows) <= Len(records)
      /\ \A i \in 1..Len(shown.rows) : records[Len(records) - Len(shown.rows) + i] = shown.rows[i]
  BY <1>1, <1>2, SuffixMeans
<1>7. \A i \in 1..Len(shown.rows) : Len(records) - Len(shown.rows) + i \in 1..Len(records)
  BY <1>1, <1>6
<1>8. \A i \in 1..Len(shown.rows) : shown.rows[i] \in DOMAIN jobs
  BY <1>4, <1>5, <1>6, <1>7
<1> QED
  BY <1>1, <1>2, <1>3, <1>4, <1>5, <1>6, <1>8

(* What a step does to both lists' balances.                               *)
LEMMA BalancesStay ==
    ASSUME AppInv, JobsKept
    PROVE  /\ Replay(jobs', records) = stored.balance
           /\ \A j \in Nat : Replay(jobs', <<j>> \o records) = Charged(stored.balance, jobs'[j])
           /\ Replay(jobs', shown.rows) = shown.wallet.balance
<1>1. records \in Seq(Nat) /\ shown.rows \in Seq(Nat)
  BY DEF AppInv, AppShape
<1>2. \A i \in 1..Len(records) : SameCharge(jobs'[records[i]], jobs[records[i]])
  BY ListedAreJobs DEF JobsKept
<1>3. \A i \in 1..Len(shown.rows) : SameCharge(jobs'[shown.rows[i]], jobs[shown.rows[i]])
  BY ListedAreJobs DEF JobsKept
<1>4. Replay(jobs, records) = stored.balance /\ Replay(jobs, shown.rows) = shown.wallet.balance
  BY DEF AppInv, WalletFollowsRecords
<1>5. Replay(jobs', records) = Replay(jobs, records)
  BY <1>1, <1>2, ReplayStays
<1>7. ASSUME NEW j \in Nat
      PROVE  Replay(jobs', <<j>> \o records) = Charged(Replay(jobs', records), jobs'[j])
  BY <1>1, ReplayLonger
<1>6. Replay(jobs', shown.rows) = Replay(jobs, shown.rows)
  BY <1>1, <1>3, ReplayStays
<1> QED
  BY <1>4, <1>5, <1>6, <1>7

(* A page that has just been refreshed agrees with the storage.            *)
LEMMA RefreshedAgrees ==
    ASSUME AppShape', RefreshWallet, (stored.balance = Replay(jobs, records))',
           IsInjective(records)', (Recorded = ToSet(records))'
    PROVE  WalletFollowsRecords'
<1>1. shown' = [wallet |-> stored', rows |-> records'] /\ records' \in Seq(Nat)
  BY DEF AppShape, RefreshWallet
<1>2. shown'.wallet = stored' /\ shown'.rows = records'
  BY <1>1
<1>3. IsSuffix(records', records')
  BY <1>1, SuffixMeans
<1>4. \A i \in 1..(Len(records') - Len(records')) : FALSE
  BY <1>1
<1> QED
  BY <1>2, <1>3, <1>4 DEF WalletFollowsRecords, Recorded

(* A step that records nothing.                                            *)
LEMMA QuietStep ==
    ASSUME AppInv, AppShape', JobsKept, records' = records, stored'.balance = stored.balance,
           Recorded' = Recorded, shown' = shown \/ RefreshWallet
    PROVE  WalletFollowsRecords'
<1>1. (stored.balance = Replay(jobs, records))'
  BY BalancesStay
<1>2. IsInjective(records)' /\ (Recorded = ToSet(records))'
  BY DEF AppInv, WalletFollowsRecords, Recorded
<1>3. CASE RefreshWallet
  BY <1>1, <1>2, <1>3, RefreshedAgrees
<1>4. CASE shown' = shown
  <2>1. (shown.wallet.balance = Replay(jobs, shown.rows))'
    BY <1>4, BalancesStay
  <2>2. IsSuffix(shown.rows, records)'
    BY <1>4 DEF AppInv, WalletFollowsRecords
  <2>3. ASSUME NEW i \in 1..(Len(records) - Len(shown.rows)) PROVE jobs'[records[i]].kind = "transfer"
    <3>1. i \in 1..Len(records)
      <4>1. Len(records) \in Nat /\ Len(shown.rows) \in Nat
        BY DEF AppInv, AppShape
      <4> QED
        BY <4>1
    <3>2. records[i] \in DOMAIN jobs /\ jobs[records[i]].kind = "transfer"
      BY <3>1, ListedAreJobs DEF AppInv, WalletFollowsRecords
    <3> QED
      BY <3>2 DEF JobsKept, SameCharge
  <2> QED
    BY <1>1, <1>2, <1>4, <2>1, <2>2, <2>3 DEF WalletFollowsRecords, Recorded
<1> QED
  BY <1>3, <1>4

(* A step that settles submission j.                                       *)
LEMMA SettlingStep ==
    ASSUME AppInv, AppShape', JobsKept, NEW j \in DOMAIN jobs, j \notin Recorded,
           Recorded' = Recorded \cup {j}, records' = <<j>> \o records,
           stored'.balance = Charged(stored.balance, jobs'[j]),
           RefreshWallet \/ (shown' = shown /\ jobs'[j].kind = "transfer")
    PROVE  WalletFollowsRecords'
<1>0. /\ records \in Seq(Nat) /\ shown.rows \in Seq(Nat) /\ j \in Nat
      /\ records' \in Seq(Nat)
  BY DEF AppInv, AppShape
<1>r. /\ Len(records') = Len(records) + 1 /\ records'[1] = j
      /\ \A i \in 1..Len(records) : records'[i + 1] = records[i]
      /\ \A i \in 2..Len(records') : i - 1 \in 1..Len(records) /\ records'[i] = records[i - 1]
  BY <1>0
<1>1. (stored.balance = Replay(jobs, records))'
  BY <1>0, BalancesStay
<1>l. Recorded = {records[i] : i \in 1..Len(records)}
  BY ListedAreJobs
<1>2. IsInjective(records)'
  <2>1. \A a, b \in 1..Len(records) : records[a] = records[b] => a = b
    BY <1>0 DEF AppInv, WalletFollowsRecords, IsInjective
  <2>2. \A a \in 1..Len(records) : records[a] # j
    BY <1>l
  <2>3. ASSUME NEW a \in 1..Len(records'), NEW b \in 1..Len(records'), records'[a] = records'[b]
        PROVE  a = b
    <3>1. a \in Nat /\ b \in Nat /\ (a = 1 \/ a \in 2..Len(records')) /\ (b = 1 \/ b \in 2..Len(records'))
      BY <1>0, <1>r
    <3>2. CASE a = 1 /\ b = 1
      BY <3>2
    <3>3. CASE a = 1 /\ b \in 2..Len(records')
      BY <1>r, <2>2, <2>3, <3>3
    <3>4. CASE a \in 2..Len(records') /\ b = 1
      BY <1>r, <2>2, <2>3, <3>4
    <3>5. CASE a \in 2..Len(records') /\ b \in 2..Len(records')
      <4>1. /\ a - 1 \in 1..Len(records) /\ b - 1 \in 1..Len(records)
            /\ records[a - 1] = records[b - 1]
        BY <1>r, <2>3, <3>5
      <4>2. a - 1 = b - 1
        BY <2>1, <4>1
      <4> QED
        BY <3>1, <4>2
    <3> QED
      BY <3>1, <3>2, <3>3, <3>4, <3>5
  <2>4. DOMAIN records' = 1..Len(records')
    BY <1>0
  <2> QED
    BY <2>3, <2>4 DEF IsInjective
<1>3. (Recorded = ToSet(records))'
  <2>0. DOMAIN records' = 1..Len(records')
    BY <1>0
  <2>1. ToSet(records') = {records'[i] : i \in 1..Len(records')}
    BY <2>0, Zenon DEF ToSet
  <2>2. ASSUME NEW x \in ToSet(records') PROVE x \in Recorded \cup {j}
    <3>1. PICK i \in 1..Len(records') : x = records'[i]
      BY <2>1, <2>2
    <3>2. i = 1 \/ i \in 2..Len(records')
      BY <1>0, <1>r
    <3> QED
      BY <1>l, <1>r, <3>1, <3>2
  <2>3. ASSUME NEW x \in Recorded \cup {j} PROVE x \in ToSet(records')
    <3>1. CASE x = j
      <4>1. 1 \in 1..Len(records')
        BY <1>0, <1>r
      <4> QED
        BY <1>r, <2>1, <3>1, <4>1
    <3>2. CASE x \in Recorded
      <4>1. PICK i \in 1..Len(records) : x = records[i]
        BY <1>l, <3>2
      <4>2. i + 1 \in 1..Len(records')
        BY <1>0, <1>r
      <4> QED
        BY <1>r, <2>1, <4>1, <4>2
    <3> QED
      BY <2>3, <3>1, <3>2
  <2>4. Recorded' = ToSet(records')
    BY <2>2, <2>3
  <2> QED
    BY <2>4
<1>4. CASE RefreshWallet
  BY <1>1, <1>2, <1>3, <1>4, RefreshedAgrees
<1>5. CASE shown' = shown /\ jobs'[j].kind = "transfer"
  <2>1. (shown.wallet.balance = Replay(jobs, shown.rows))'
    BY <1>5, BalancesStay
  <2> DEFINE m == Len(records)
             n == Len(shown.rows)
  <2>m. m \in Nat /\ n \in Nat /\ n <= m
    BY <1>0, ListedAreJobs
  <2>2. IsSuffix(shown.rows, records')
    <3>1. ASSUME NEW i \in 1..n PROVE records'[Len(records') - n + i] = shown.rows[i]
      <4>1. records[m - n + i] = shown.rows[i]
        BY ListedAreJobs
      <4>2. m - n + i \in 1..m /\ Len(records') - n + i = (m - n + i) + 1
        BY <1>r, <2>m
      <4> QED
        BY <1>r, <4>1, <4>2
    <3>2. n <= Len(records')
      BY <1>r, <2>m
    <3> QED
      BY <1>0, <3>1, <3>2, SuffixMeans
  <2>3. ASSUME NEW i \in 1..(Len(records') - n) PROVE jobs'[records'[i]].kind = "transfer"
    <3>1. CASE i = 1
      BY <1>5, <1>r, <3>1
    <3>2. CASE i # 1
      <4>1. i \in 2..Len(records') /\ i - 1 \in 1..(m - n) /\ i - 1 \in 1..m
        BY <1>r, <2>m, <3>2
      <4>2. records[i - 1] \in DOMAIN jobs /\ jobs[records[i - 1]].kind = "transfer"
        BY <4>1, ListedAreJobs DEF AppInv, WalletFollowsRecords
      <4> QED
        BY <1>r, <4>1, <4>2 DEF JobsKept, SameCharge
    <3> QED
      BY <3>1, <3>2
  <2> QED
    BY <1>1, <1>2, <1>3, <1>5, <2>1, <2>2, <2>3 DEF WalletFollowsRecords, Recorded
<1> QED
  BY <1>4, <1>5

(* Quotes are natural numbers, so an edited form keeps its type.           *)
LEMMA WizardTypes ==
    /\ \A f \in WizardState : Requoted(f) \in WizardState
    /\ FreshWizard \in WizardState
<1>1. ASSUME NEW from \in Currencies, NEW to \in Currencies, NEW a \in SendAmounts
      PROVE  CalculateQuote(from, a, to) \in Nat
  <2>1. PerUsd(from) \in Nat \ {0} /\ PerUsd(to) \in Nat \ {0} /\ a \in Nat
    BY AppAssumption DEF PerUsd
  <2>2. a * PerUsd(to) \in Nat
    BY <2>1
  <2>3. (a * PerUsd(to)) \div PerUsd(from) \in Int
    BY <2>1, <2>2
  <2>4. GetFXRate(from, a, to) \in Int
    BY <2>1, <2>3 DEF GetFXRate
  <2> QED
    BY <2>1, <2>4 DEF CalculateQuote
<1>2. ASSUME NEW f \in WizardState PROVE Requoted(f) \in WizardState
  <2>1. CalculateQuote(f.source, f.amount, f.dest) \in Nat
    BY <1>1 DEF WizardState
  <2> QED
    BY <2>1 DEF Requoted, WizardState
<1>3. [step |-> 1, source |-> "USDC", amount |-> 1, dest |-> "NGN", quote |-> 0,
       phase |-> 0, receipt |-> FALSE] \in WizardState
  BY AppAssumption DEF WizardState
<1> QED
  BY <1>2, <1>3 DEF FreshWizard

(* The list all stands for the submissions some: the same ones, charging   *)
(* the same and settled alike.                                             *)
Alike(all, some) ==
    /\ all \in Seq(Job) /\ DOMAIN all = DOMAIN some
    /\ \A j \in DOMAIN some : SameCharge(all[j], some[j]) /\ all[j].done = some[j].done

(* Opening a tab only unmounts.                                            *)
LEMMA TabKeeps ==
    ASSUME NEW all \in Seq(Job), NEW tab, SetActiveTab(tab, all), wizard \in WizardState
    PROVE  Alike(jobs', all) /\ wizard' \in WizardState
<1>1. CASE tab = activeTab
  BY <1>1 DEF SetActiveTab, Alike, SameCharge
<1>2. CASE tab # activeTab
  <2>1. /\ jobs' = [j \in DOMAIN all |-> [all[j] EXCEPT !.live = FALSE]]
        /\ wizard' = FreshWizard
    BY <1>2 DEF SetActiveTab
  <2>2. DOMAIN all = 1..Len(all) /\ Len(all) \in Nat /\ \A j \in DOMAIN all : all[j] \in Job
    OBVIOUS
  <2>3. ASSUME NEW j \in DOMAIN all
        PROVE  /\ jobs'[j] \in Job /\ SameCharge(jobs'[j], all[j])
               /\ jobs'[j].done = all[j].done
    BY <2>1, <2>2 DEF Job, SameCharge
  <2>4. DOMAIN jobs' = DOMAIN all
    BY <2>1
  <2>5. jobs' \in Seq(Job)
    <3>1. jobs' = [j \in 1..Len(all) |-> jobs'[j]]
      BY <2>1, <2>2
    <3>2. jobs' \in [1..Len(all) -> Job]
      BY <2>2, <2>3, <3>1
    <3> QED
      BY <2>2, <3>2
  <2> QED
    BY <2>1, <2>3, <2>4, <2>5, WizardTypes DEF Alike
<1> QED
  BY <1>1, <1>2

(* Submissions that stay alike are kept, and the settled ones the same.    *)
LEMMA AlikeKeeps ==
    ASSUME AppShape, Alike(jobs', jobs)
    PROVE  JobsKept /\ Recorded' = Recorded
<1>1. JobsKept
  BY DEF Alike, JobsKept
<1>2. DOMAIN jobs' = DOMAIN jobs
      /\ \A j \in DOMAIN jobs : jobs'[j].done = jobs[j].done /\ jobs'[j].kind = jobs[j].kind
  BY DEF Alike, SameCharge
<1> QED
  BY <1>1, <1>2 DEF Recorded

(* A timer that has fired: the submission is done, and charges the same.   *)
LEMMA FinishedKeeps ==
    ASSUME AppShape, NEW j \in DOMAIN jobs
    PROVE  /\ Finished(j) \in Seq(Job) /\ DOMAIN Finished(j) = DOMAIN jobs
           /\ \A i \in DOMAIN jobs : SameCharge(Finished(j)[i], jobs[i])
           /\ \A i \in DOMAIN jobs : i # j => Finished(j)[i].done = jobs[i].done
           /\ Finished(j)[j].done = TRUE
<1>1. /\ jobs \in Seq(Job) /\ DOMAIN jobs = 1..Len(jobs) /\ Len(jobs) \in Nat
      /\ \A i \in DOMAIN jobs : jobs[i] \in Job
  BY DEF AppShape
<1> DEFINE job == [jobs[j] EXCEPT !.done = TRUE]
<1>2. Finished(j) = [jobs EXCEPT ![j] = job]
  BY DEF Finished
<1>3. job \in Job /\ SameCharge(job, jobs[j]) /\ job.done = TRUE
  BY <1>1 DEF Job, SameCharge
<1> HIDE DEF job
<1>4. \A i \in DOMAIN jobs : SameCharge(jobs[i], jobs[i])
  BY DEF SameCharge
<1>5. /\ DOMAIN Finished(j) = DOMAIN jobs /\ Finished(j)[j] = job
      /\ \A i \in DOMAIN jobs : i # j => Finished(j)[i] = jobs[i]
  BY <1>1, <1>2
<1>6. Finished(j) \in Seq(Job)
  BY <1>1, <1>2, <1>3
<1> QED
  BY <1>3, <1>4, <1>5, <1>6

(* Jobs that are like Finished(j), one by one.                             *)
LEMMA FiredKeeps ==
    ASSUME AppShape, NEW j \in DOMAIN jobs, Alike(jobs', Finished(j))
    PROVE  /\ JobsKept
           /\ jobs[j].kind = "toggle" => Recorded' = Recorded
           /\ jobs[j].kind # "toggle" => Recorded' = Recorded \cup {j}
<1>1. DOMAIN jobs' = DOMAIN jobs
  BY FinishedKeeps DEF Alike
<1>2. \A i \in DOMAIN jobs : SameCharge(jobs'[i], jobs[i])
  <2>1. \A a, b, c : SameCharge(a, b) /\ SameCharge(b, c) => SameCharge(a, c)
    BY DEF SameCharge
  <2> QED
    BY <2>1, FinishedKeeps DEF Alike
<1>3. /\ \A i \in DOMAIN jobs : i # j => jobs'[i].done = jobs[i].done
      /\ jobs'[j].done = TRUE
  BY FinishedKeeps DEF Alike
<1>4. \A i \in DOMAIN jobs : jobs'[i].kind = jobs[i].kind
  BY <1>2 DEF SameCharge
<1>5. JobsKept
  BY <1>1, <1>2 DEF JobsKept
<1> QED
  BY <1>1, <1>3, <1>4, <1>5 DEF Recorded

(* Charging a wallet leaves a wallet.                                      *)
LEMMA ChargedType ==
    ASSUME NEW balance \in [Currencies -> Int], NEW job \in Job
    PROVE  Charged(balance, job) \in [Currencies -> Int]
<1> DEFINE left == balance[job.source] - job.amount
           new == IF left < 0 THEN 0 ELSE left
           paid == [balance EXCEPT ![job.source] = new]
<1>1. job.source \in Currencies /\ job.dest \in Currencies /\ job.amount \in Int /\ job.credit \in Int
  BY DEF Job
<1>2. new \in Int
  BY <1>1
<1> HIDE DEF new
<1>3. paid \in [Currencies -> Int]
  BY <1>1, <1>2
<1>4. Charged(balance, job) = IF job.kind = "deposit" THEN [paid EXCEPT ![job.dest] = @ + job.credit]
                                                      ELSE paid
  BY DEF Charged, new
<1> HIDE DEF paid
<1> QED
  BY <1>1, <1>3, <1>4

(* A step that moves only the page: tabs, forms, a refresh.                *)
LEMMA PageStep ==
    ASSUME AppInv, Alike(jobs', jobs), stored' = stored, records' = records,
           shown' = shown \/ RefreshWallet, wizard' \in WizardState
    PROVE  AppInv'
<1>1. AppShape'
  BY DEF AppInv, AppShape, Alike, RefreshWallet
<1>2. WalletFollowsRecords'
  BY <1>1, QuietStep, AlikeKeeps DEF AppInv
<1> QED
  BY <1>1, <1>2 DEF AppInv

(* A submission starts its timer: nothing is recorded yet.                 *)
LEMMA TimerStep ==
    ASSUME AppInv, wizard' \in WizardState,
           NEW kind \in {"transfer", "deposit", "withdrawal", "toggle"},
           NEW source \in Currencies, NEW amount \in Int, NEW dest \in Currencies, NEW credit \in Int,
           StartTimer(kind, source, amount, dest, credit)
    PROVE  AppInv'
<1> DEFINE job == [kind |-> kind, done |-> FALSE, live |-> TRUE, phase |-> 1, source |-> source,
                   amount |-> amount, dest |-> dest, credit |-> credit]
<1>1. jobs \in Seq(Job) /\ DOMAIN jobs = 1..Len(jobs) /\ Len(jobs) \in Nat
  BY DEF AppInv, AppShape
<1>2. job \in Job /\ job.done = FALSE
  BY DEF Job
<1>3. jobs' = Append(jobs, job) /\ UNCHANGED <<stored, records, shown>>
  BY DEF StartTimer
<1> HIDE DEF job
<1>4. /\ jobs' \in Seq(Job) /\ DOMAIN jobs' = 1..(Len(jobs) + 1)
      /\ jobs'[Len(jobs) + 1] = job
      /\ \A j \in DOMAIN jobs : jobs'[j] = jobs[j]
  BY <1>1, <1>2, <1>3
<1>5. \A j \in DOMAIN jobs' : j \in DOMAIN jobs \/ j = Len(jobs) + 1
  BY <1>1, <1>4
<1>6. DOMAIN jobs \subseteq DOMAIN jobs'
  BY <1>1, <1>4
<1>7. JobsKept
  BY <1>4, <1>6 DEF JobsKept, SameCharge
<1>8. Recorded' = Recorded
  BY <1>2, <1>4, <1>5, <1>6 DEF Recorded
<1>9. AppShape'
  BY <1>3, <1>4 DEF AppInv, AppShape
<1> QED
  BY <1>3, <1>7, <1>8, <1>9, QuietStep DEF AppInv

(* A trustline toggle writes the wallet but no balance.                    *)
LEMMA ToggleStep ==
    ASSUME AppInv, NEW j \in DOMAIN jobs, ToggleFires(j)
    PROVE  AppInv'
<1>1. /\ jobs' = Finished(j) /\ records' = records /\ wizard' = wizard /\ RefreshWallet
      /\ jobs[j].kind = "toggle"
  BY DEF ToggleFires, Pending
<1>2. jobs[j].source \in Currencies
  <2>1. jobs[j] \in Job
    BY DEF AppInv, AppShape
  <2> QED
    BY <2>1 DEF Job
<1>3. stored' \in Purse /\ stored'.balance = stored.balance
  BY <1>2 DEF ToggleFires, ToggleTrustline, AppInv, AppShape, Purse
<1>4. AppShape /\ Finished(j) \in Seq(Job)
  BY FinishedKeeps DEF AppInv
<1>5. Alike(jobs', Finished(j))
  BY <1>1, <1>4 DEF Alike, SameCharge
<1>6. AppShape'
  BY <1>1, <1>3, <1>4 DEF AppShape, RefreshWallet
<1>7. JobsKept /\ Recorded' = Recorded
  BY <1>1, <1>4, <1>5, FiredKeeps
<1> QED
  BY <1>1, <1>3, <1>6, <1>7, QuietStep DEF AppInv

(* A transfer, a deposit or a withdrawal is recorded and charged.          *)
LEMMA AddStep ==
    ASSUME AppInv, NEW j \in DOMAIN jobs, AddTransaction(j), Alike(jobs', Finished(j)),
           ~jobs[j].done, jobs[j].kind # "toggle", wizard' \in WizardState,
           RefreshWallet \/ (shown' = shown /\ jobs[j].kind = "transfer")
    PROVE  AppInv'
<1>1. AppShape /\ jobs[j] \in Job /\ j \in Nat
  BY DEF AppInv, AppShape
<1>2. records' = <<j>> \o records /\ records' \in Seq(Nat)
  BY <1>1 DEF AddTransaction, AppShape
<1>3. Charged(stored.balance, jobs[j]) \in [Currencies -> Int]
  BY <1>1, ChargedType DEF AppShape, Purse
<1>4. stored' \in Purse /\ stored'.balance = Charged(stored.balance, jobs[j])
  BY <1>1, <1>3 DEF AddTransaction, AppShape, Purse
<1>5. AppShape'
  <2>1. shown' \in [wallet : Purse, rows : Seq(Nat)]
    <3>1. CASE RefreshWallet
      BY <1>2, <1>4, <3>1 DEF RefreshWallet
    <3>2. CASE shown' = shown
      BY <1>1, <3>2 DEF AppShape
    <3> QED
      BY <3>1, <3>2
  <2>2. jobs' \in Seq(Job)
    BY DEF Alike
  <2> QED
    BY <1>2, <1>4, <2>1, <2>2 DEF AppShape
<1>6. JobsKept /\ Recorded' = Recorded \cup {j} /\ j \notin Recorded
  BY <1>1, FiredKeeps DEF Recorded
<1>7. SameCharge(jobs'[j], jobs[j])
  BY <1>6 DEF JobsKept
<1>8. Charged(stored.balance, jobs'[j]) = Charged(stored.balance, jobs[j])
  BY <1>7, ChargedSame
<1>9. jobs'[j].kind = jobs[j].kind
  BY <1>7 DEF SameCharge
<1> QED
  BY <1>2, <1>4, <1>5, <1>6, <1>8, <1>9, SettlingStep DEF AppInv

(* Moving through the form keeps its type.                                 *)
LEMMA WizardMoves ==
    ASSUME NEW f \in WizardState
    PROVE  /\ [f EXCEPT !.step = 4, !.phase = 1] \in WizardState
           /\ [f EXCEPT !.step = 1, !.receipt = FALSE] \in WizardState
           /\ [f EXCEPT !.receipt = TRUE, !.phase = 4] \in WizardState
           /\ f.source \in Currencies /\ f.dest \in Currencies
           /\ f.amount \in Int /\ f.quote \in Int
<1>1. /\ f.source \in Currencies /\ f.dest \in Currencies /\ f.amount \in SendAmounts
      /\ f.quote \in Nat
  BY DEF WizardState
<1>2. f.amount \in Int /\ f.quote \in Int
  <2>1. SendAmounts \subseteq Nat
    BY AppAssumption
  <2>2. f.amount \in Nat /\ f.quote \in Nat
    BY <1>1, <2>1
  <2> QED
    BY <2>2
<1>3. \A g \in WizardState : /\ [g EXCEPT !.step = 4] \in WizardState
                             /\ [g EXCEPT !.step = 1] \in WizardState
  BY DEF WizardState
<1>4. \A g \in WizardState : /\ [g EXCEPT !.phase = 4] \in WizardState
                             /\ [g EXCEPT !.phase = 1] \in WizardState
  BY DEF WizardState
<1>5. \A g \in WizardState : /\ [g EXCEPT !.receipt = TRUE] \in WizardState
                             /\ [g EXCEPT !.receipt = FALSE] \in WizardState
  BY DEF WizardState
<1>6. /\ [f EXCEPT !.step = 4, !.phase = 1] = [[f EXCEPT !.step = 4] EXCEPT !.phase = 1]
      /\ [f EXCEPT !.step = 1, !.receipt = FALSE] = [[f EXCEPT !.step = 1] EXCEPT !.receipt = FALSE]
      /\ [f EXCEPT !.receipt = TRUE, !.phase = 4] = [[f EXCEPT !.receipt = TRUE] EXCEPT !.phase = 4]
  OBVIOUS
<1>7. [f EXCEPT !.step = 4, !.phase = 1] \in WizardState
  BY <1>3, <1>4, <1>6
<1>8. [f EXCEPT !.step = 1, !.receipt = FALSE] \in WizardState
  BY <1>3, <1>5, <1>6
<1>9. [f EXCEPT !.receipt = TRUE, !.phase = 4] \in WizardState
  BY <1>4, <1>5, <1>6
<1> QED
  BY <1>1, <1>2, <1>7, <1>8, <1>9

(* Every step of the application keeps the invariant.                      *)
LEMMA AppStep == AppInv /\ [AppNext]_appVars => AppInv'
<1> SUFFICES ASSUME AppInv, [AppNext]_appVars PROVE AppInv'
  OBVIOUS
<1>0. /\ jobs \in Seq(Job) /\ wizard \in WizardState
      /\ \A j \in DOMAIN jobs : jobs[j] \in Job
  BY DEF AppInv, AppShape
<1>same. jobs' = jobs => Alike(jobs', jobs)
  BY <1>0 DEF Alike, SameCharge
<1>1. CASE UNCHANGED appVars
  BY <1>0, <1>1, <1>same, PageStep DEF appVars
<1>2. ASSUME NEW tab, Navigate(tab) PROVE AppInv'
  BY <1>0, <1>2, TabKeeps, PageStep DEF Navigate
<1>3. CASE SyncHorizon
  BY <1>0, <1>3, <1>same, PageStep DEF SyncHorizon
<1>4. ASSUME NEW code \in TrustCodes, HandleToggleTrustline(code) PROVE AppInv'
  <2>1. code \in Currencies /\ 0 \in Int /\ wizard' = wizard
        /\ StartTimer("toggle", code, 0, code, 0)
    BY <1>4 DEF TrustCodes, HandleToggleTrustline
  <2> QED
    BY <1>0, <2>1, TimerStep
<1>5. ASSUME NEW f \in WizardState, EditWizard(f) PROVE AppInv'
  BY <1>5, <1>same, WizardTypes, PageStep DEF EditWizard
<1>6. CASE CorridorPanel
  <2>1. ASSUME NEW to \in Currencies PROVE [wizard EXCEPT !.dest = to] \in WizardState
    BY <1>0 DEF WizardState
  <2>2. ASSUME NEW from \in Currencies, NEW a \in SendAmounts
        PROVE  [wizard EXCEPT !.source = from, !.amount = a] \in WizardState
    BY <1>0 DEF WizardState
  <2>3. [wizard EXCEPT !.step = 2] \in WizardState
    BY <1>0 DEF WizardState
  <2> QED
    BY <1>2, <1>5, <1>6, <2>1, <2>2, <2>3 DEF CorridorPanel
<1>7. CASE RecipientPanel
  <2>1. \A step \in {1, 3} : [wizard EXCEPT !.step = step] \in WizardState
    BY <1>0 DEF WizardState
  <2> QED
    BY <1>5, <1>7, <2>1 DEF RecipientPanel
<1>8. CASE ReviewPanel
  <2>1. [wizard EXCEPT !.step = 2] \in WizardState
    BY <1>0 DEF WizardState
  <2>2. CASE HandleExecuteTransfer
    <3>1. /\ wizard' = [wizard EXCEPT !.step = 4, !.phase = 1]
          /\ StartTimer("transfer", wizard.source, wizard.amount, wizard.dest, wizard.quote)
      BY <2>2 DEF HandleExecuteTransfer
    <3>2. wizard' \in WizardState
      BY <1>0, <3>1, WizardMoves
    <3>3. /\ wizard.source \in Currencies /\ wizard.dest \in Currencies
          /\ wizard.amount \in Int /\ wizard.quote \in Int
      BY <1>0, WizardMoves
    <3> QED
      BY <3>1, <3>2, <3>3, TimerStep
  <2> QED
    BY <1>5, <1>8, <2>1, <2>2 DEF ReviewPanel
<1>9. CASE SettledPanel
  <2>1. [wizard EXCEPT !.step = 1, !.receipt = FALSE] \in WizardState
    BY <1>0, WizardMoves
  <2>2. ASSUME UNCHANGED <<stored, records>>, HandleTransactionSuccess(jobs) PROVE AppInv'
    BY <1>0, <2>2, TabKeeps, PageStep DEF HandleTransactionSuccess
  <2> QED
    BY <1>5, <1>9, <2>1, <2>2 DEF SettledPanel
<1>10. ASSUME UNCHANGED <<stored, records, jobs, shown, wizard>> PROVE AppInv'
  BY <1>0, <1>10, <1>same, PageStep
<1>11. CASE \/ \E panel \in {"deposit", "withdraw"} : SelectPanel(panel)
            \/ HandleVerifyAccount \/ VerifyFires \/ HandleUploadDoc \/ UploadFires
  BY <1>10, <1>11
  DEF SelectPanel, HandleVerifyAccount, VerifyFires, HandleUploadDoc, UploadFires, SetRails, SetUpload
<1>12. ASSUME NEW from \in Currencies \ {"XLM"}, NEW a \in AnchorAmounts, HandleExecuteDeposit(from, a)
       PROVE  AppInv'
  <2> DEFINE credit == IF from = "NGN" THEN a \div NgnPerUsd ELSE a
  <2>1. a \in Int /\ credit \in Int /\ "USDC" \in Currencies
    BY AppAssumption
  <2>2. wizard' = wizard /\ StartTimer("deposit", from, a, "USDC", credit)
    BY <1>12 DEF HandleExecuteDeposit, SetRails
  <2> HIDE DEF credit
  <2> QED
    BY <1>0, <2>1, <2>2, TimerStep
<1>13. ASSUME NEW a \in AnchorAmounts, HandleExecuteWithdrawal(a) PROVE AppInv'
  <2> DEFINE out == a \div NgnPerUsd
  <2>1. a \in Int /\ out \in Int /\ "USDC" \in Currencies /\ "NGN" \in Currencies
    BY AppAssumption
  <2>2. wizard' = wizard /\ StartTimer("withdrawal", "USDC", out, "NGN", a)
    BY <1>13 DEF HandleExecuteWithdrawal, SetRails
  <2> HIDE DEF out
  <2> QED
    BY <1>0, <2>1, <2>2, TimerStep
<1>14. ASSUME NEW j \in DOMAIN jobs, PhaseTimer(j) PROVE AppInv'
  <2>1. /\ jobs' = [jobs EXCEPT ![j].phase = @ + 1] /\ jobs[j].phase < 3
        /\ wizard' = (IF jobs[j].live THEN [wizard EXCEPT !.phase = jobs[j].phase + 1] ELSE wizard)
        /\ UNCHANGED <<stored, records, shown>>
    BY <1>14 DEF PhaseTimer
  <2>2. jobs[j].phase + 1 \in 1..3 /\ jobs[j] \in Job
    BY <1>0, <2>1 DEF Job
  <2> DEFINE job == [jobs[j] EXCEPT !.phase = @ + 1]
  <2>3. job \in Job /\ SameCharge(job, jobs[j]) /\ job.done = jobs[j].done
    BY <2>2 DEF Job, SameCharge
  <2>4. jobs' = [jobs EXCEPT ![j] = job]
    BY <2>1
  <2> HIDE DEF job
  <2>5. Alike(jobs', jobs)
    BY <1>0, <2>3, <2>4 DEF Alike, SameCharge
  <2>6. wizard' \in WizardState
    BY <1>0, <2>1, <2>2 DEF WizardState
  <2> QED
    BY <2>1, <2>5, <2>6, PageStep
<1>15. ASSUME NEW j \in DOMAIN jobs, TransferSettles(j) PROVE AppInv'
  <2>1. /\ jobs[j].kind = "transfer" /\ ~jobs[j].done /\ AddTransaction(j) /\ jobs' = Finished(j)
        /\ shown' = shown
        /\ wizard' = (IF jobs[j].live THEN [wizard EXCEPT !.receipt = TRUE, !.phase = 4] ELSE wizard)
    BY <1>15 DEF TransferSettles, Pending
  <2>2. wizard' \in WizardState
    BY <1>0, <2>1, WizardMoves
  <2>3. Finished(j) \in Seq(Job)
    BY FinishedKeeps DEF AppInv
  <2>4. Alike(jobs', Finished(j))
    BY <2>1, <2>3 DEF Alike, SameCharge
  <2> QED
    BY <2>1, <2>2, <2>4, AddStep
<1>16. ASSUME NEW j \in DOMAIN jobs, AnchorFires(j) PROVE AppInv'
  <2>1. /\ jobs[j].kind \in {"deposit", "withdrawal"} /\ ~jobs[j].done /\ AddTransaction(j)
        /\ RefreshWallet /\ SetActiveTab("history", Finished(j))
    BY <1>16 DEF AnchorFires, Pending, HandleTransactionSuccess
  <2>2. Finished(j) \in Seq(Job)
    BY FinishedKeeps DEF AppInv
  <2>3. Alike(jobs', Finished(j)) /\ wizard' \in WizardState
    BY <1>0, <2>1, <2>2, TabKeeps
  <2> QED
    BY <2>1, <2>3, AddStep
<1> QED
  BY <1>1, <1>2, <1>3, <1>4, <1>6, <1>7, <1>8, <1>9, <1>11, <1>12, <1>13, <1>14, <1>15, <1>16, ToggleStep
  DEF AppNext, TimerFires

(* Whatever timers outlive the tab that set them, in whatever order they   *)
(* fire, the stored and the shown wallet follow from the transactions      *)
(* beside them.                                                            *)
THEOREM WalletsAddUp == AppSpec => []WalletFollowsRecords
<1>1. AppInit => AppInv
  <2> SUFFICES ASSUME AppInit PROVE AppInv
    OBVIOUS
  <2>1. /\ stored = DefaultWallet /\ records = <<>> /\ jobs = <<>>
        /\ shown = [wallet |-> DefaultWallet, rows |-> <<>>] /\ wizard = FreshWizard
    BY DEF AppInit
  <2>2. DefaultWallet \in Purse /\ DefaultWallet.balance = Opening
    BY AppAssumption DEF DefaultWallet, Purse, TrustCodes
  <2>3. AppShape
    BY <2>1, <2>2, WizardTypes DEF AppShape
  <2>4. stored.balance = Replay(jobs, records) /\ shown.wallet.balance = Replay(jobs, shown.rows)
    BY <2>1, <2>2, ReplayNothing
  <2>5. IsSuffix(shown.rows, records) /\ Len(records) - Len(shown.rows) = 0
    <3>1. records \in Seq(Nat) /\ shown.rows = records /\ Len(records) = 0
      BY <2>1
    <3>2. \A s \in Seq(Nat) : IsSuffix(s, s)
      BY SuffixMeans
    <3>3. IsSuffix(shown.rows, records)
      BY <3>1, <3>2, Zenon
    <3>4. Len(records) - Len(shown.rows) = 0
      BY <3>1
    <3> QED
      BY <3>3, <3>4, Zenon
  <2>6. /\ IsInjective(records)
        /\ {j \in DOMAIN jobs : jobs[j].done /\ jobs[j].kind # "toggle"} = ToSet(records)
    BY <2>1 DEF IsInjective, ToSet
  <2> QED
    BY <2>3, <2>4, <2>5, <2>6 DEF AppInv, WalletFollowsRecords
<1>2. AppInv => WalletFollowsRecords
  BY DEF AppInv
<1> QED
  BY <1>1, <1>2, AppStep, PTL DEF AppSpec

=============================================================================
