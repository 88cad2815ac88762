---------------------------- MODULE ClientProofs ----------------------------
(***************************************************************************)
(* Theorems about the web client's wallet store and offline queue and the  *)
(* API's path routing, for every number of calls, wallets, drafts, tabs,   *)
(* paths and faults.                                                       *)
(***************************************************************************)
EXTENDS OfflineQueue, WalletStore, DexRouting, TotalsProofs, TLAPS

-----------------------------------------------------------------------------
(* Path routing                                                            *)

(* Rates, hops, slippages and tolls are natural numbers.                   *)
LEMMA DexTypes ==
    /\ PathRates \subseteq Nat /\ MaxHops \in Nat /\ Slippages \subseteq 0..1000
    /\ \A a \in SourceAmounts, h \in 0..MaxHops : Toll[a][h] \in Nat \ {0}
BY DexAssumption

(* A finite set of paths that is not empty has one of the highest rate.    *)
LEMMA BestPath ==
    ASSUME NEW S, IsFiniteSet(S), S # {}, S \subseteq Paths
    PROVE  /\ \E p \in S : Max({q.rate : q \in S}) = p.rate
           /\ Max({q.rate : q \in S}) \in Nat
<1> DEFINE HasBest(t) == \E x \in t : \A y \in t : y.rate <= x.rate
           B == {t \in SUBSET S : t # {} /\ ~HasBest(t)}
<1>0. \A p \in S : p.rate \in Nat
  BY DexTypes DEF Paths
<1>1. B = {}
  <2> SUFFICES ASSUME B # {} PROVE FALSE
    OBVIOUS
  <2>1. B \subseteq SUBSET S
    OBVIOUS
  <2> HIDE DEF B
  <2>2. PICK m \in B : \A t \in SUBSET m : t # m => t \notin B
    BY <2>1, SmallestSet
  <2> USE DEF B
  <2>3. PICK x \in m : TRUE
    OBVIOUS
  <2>4. CASE m = {x}
    BY <1>0, <2>4
  <2>5. CASE m # {x}
    <3>1. m \ {x} # {} /\ m \ {x} \in SUBSET m /\ m \ {x} # m /\ m \ {x} \in SUBSET S
      BY <2>3, <2>5
    <3>2. PICK z \in m \ {x} : \A y \in m \ {x} : y.rate <= z.rate
      BY <2>2, <3>1
    <3>3. \A y \in m : y.rate \in Nat
      BY <1>0
    <3>4. CASE z.rate <= x.rate
      <4>1. \A y \in m : y.rate <= x.rate
        BY <3>2, <3>3, <3>4
      <4> QED
        BY <4>1
    <3>5. CASE ~(z.rate <= x.rate)
      <4>1. \A y \in m : y.rate <= z.rate
        BY <3>2, <3>3, <3>5
      <4> QED
        BY <4>1
    <3> QED
      BY <3>4, <3>5
  <2> QED
    BY <2>4, <2>5
<1>2. PICK x \in S : \A y \in S : y.rate <= x.rate
  BY <1>1
<1> DEFINE R == {q.rate : q \in S}
<1>3. x.rate \in R /\ \A y \in R : x.rate >= y
  BY <1>0, <1>2
<1>4. Max(R) \in R
  <2> HIDE DEF R
  <2> QED
    BY <1>3 DEF Max
<1> QED
  BY <1>0, <1>4

(* A path that ranks first is within the toll of MaxHops hops of every     *)
(* other.                                                                  *)
LEMMA RankedIsNearBest ==
    ASSUME NEW a \in SourceAmounts, NEW S, S \subseteq Paths,
           NEW p \in RankedFirst(a, S), NEW b \in S
    PROVE  b.rate * Toll[a][0] <= p.rate * Toll[a][MaxHops]
<1>1. p \in Paths /\ b \in Paths /\ ~Better(a, b, p)
  BY DEF RankedFirst
<1>2. p.rate \in Nat /\ p.hops \in 0..MaxHops /\ b.rate \in Nat /\ b.hops \in 0..MaxHops
  BY <1>1, DexTypes DEF Paths
<1> DEFINE br == b.rate
           pr == p.rate
           bt == Toll[a][b.hops]
           pt == Toll[a][p.hops]
           least == Toll[a][0]
           most == Toll[a][MaxHops]
<1>3. bt \in Nat /\ pt \in Nat /\ least \in Nat /\ most \in Nat
  <2>1. 0 \in 0..MaxHops /\ MaxHops \in 0..MaxHops
    BY DexTypes
  <2> QED
    BY <1>2, <2>1, DexTypes
<1>4. least <= pt /\ bt <= most
  BY <1>2, DexAssumption
<1>5. ~(br * pt > pr * bt)
  BY <1>1 DEF Better
<1>6. br \in Nat /\ pr \in Nat
  BY <1>2
<1> HIDE DEF br, pr, bt, pt, least, most
<1>7. br * pt <= pr * bt
  BY <1>3, <1>5, <1>6
<1>8. br * least <= br * pt
  BY <1>3, <1>4, <1>6
<1>9. pr * bt <= pr * most
  BY <1>3, <1>4, <1>6
<1>10. br * least <= pr * most
  <2>1. /\ br * least \in Nat /\ br * pt \in Nat /\ pr * bt \in Nat /\ pr * most \in Nat
    BY <1>3, <1>6
  <2> QED
    BY <1>7, <1>8, <1>9, <2>1
<1> QED
  BY <1>10 DEF br, pr, least, most

(* Two paths that rank first have one rate.                                *)
LEMMA RankedAgree ==
    ASSUME NEW a \in SourceAmounts, NEW S, S \subseteq Paths,
           NEW p \in RankedFirst(a, S), NEW q \in RankedFirst(a, S)
    PROVE  p.rate = q.rate
<1>1. p \in Paths /\ q \in Paths /\ ~Better(a, p, q) /\ ~Better(a, q, p)
  BY DEF RankedFirst
<1>2. /\ p.rate \in Nat /\ p.hops \in 0..MaxHops
      /\ q.rate \in Nat /\ q.hops \in 0..MaxHops
  BY <1>1, DexTypes DEF Paths
<1>3. p.rate * Toll[a][q.hops] = q.rate * Toll[a][p.hops]
  <2> DEFINE l == p.rate * Toll[a][q.hops]
             r == q.rate * Toll[a][p.hops]
  <2>1. Toll[a][q.hops] \in Nat /\ Toll[a][p.hops] \in Nat
    BY <1>2, DexTypes
  <2>2. l \in Nat /\ r \in Nat
    BY <1>2, <2>1
  <2>3. ~(l > r) /\ ~(r > l)
    BY <1>1 DEF Better
  <2> HIDE DEF l, r
  <2>4. l = r
    BY <2>2, <2>3
  <2> QED
    BY <2>4 DEF l, r
<1> QED
  BY <1>1, <1>3, DexAssumption

(* Until the market or the amount changes, a ranked quote is the rate of a *)
(* path that ranks first and a current one the highest rate.               *)
DexInv ==
    /\ amount \in SourceAmounts
    /\ market \subseteq Paths /\ IsFiniteSet(market)
    /\ quote \in Quoted /\ (quote.from = "none" => quote = NoQuoted)
    /\ quote.from = "ranked" /\ ~moved =>
           \E q \in RankedFirst(amount, market) : quote.rate = q.rate
    /\ quote.from = "current" /\ ~moved => \E q \in market : quote.rate = q.rate
    /\ GuardHonoursQuote

(* The empty payment promises nothing.                                     *)
LEMMA NoPaymentFacts ==
    ASSUME payment' = NoPayment
    PROVE  GuardHonoursQuote'
BY DEF GuardHonoursQuote, NoPayment

(* A rate that the tolls bring to within b, and that is refused for b,     *)
(* tells that the tolls are further apart than the slippage allowed.       *)
LEMMA TollsTellApart ==
    ASSUME NEW p \in Nat, NEW b \in Nat, NEW least \in Nat \ {0}, NEW most \in Nat \ {0},
           NEW k \in Nat,
           b * least <= p * most, p * 1000 < b * k
    PROVE  1000 * least < k * most
<1>1. b > 0
  <2>1. b = 0 => b * k = 0
    OBVIOUS
  <2>2. p * 1000 >= 0
    OBVIOUS
  <2> QED
    BY <2>1, <2>2
<1>2. (b * least) * 1000 <= (p * most) * 1000
  <2> DEFINE l == b * least
             r == p * most
  <2>1. l \in Nat /\ r \in Nat /\ l <= r
    OBVIOUS
  <2> HIDE DEF l, r
  <2>2. l * 1000 <= r * 1000
    BY <2>1
  <2> QED
    BY <2>2 DEF l, r
<1>3. (p * 1000) * most < (b * k) * most
  <2> DEFINE l == p * 1000
             r == b * k
  <2>1. l \in Nat /\ r \in Nat /\ l < r
    OBVIOUS
  <2> HIDE DEF l, r
  <2>2. l * most < r * most
    BY <2>1
  <2> QED
    BY <2>2 DEF l, r
<1>4. b * (1000 * least) < b * (k * most)
  <2>1. /\ b * (1000 * least) = (b * least) * 1000
        /\ (p * most) * 1000 = (p * 1000) * most
        /\ b * (k * most) = (b * k) * most
    OBVIOUS
  <2>2. /\ b * (1000 * least) \in Nat /\ (p * most) * 1000 \in Nat /\ b * (k * most) \in Nat
    OBVIOUS
  <2> QED
    BY <1>2, <1>3, <2>1, <2>2
<1> DEFINE l == 1000 * least
           r == k * most
<1>5. l \in Nat /\ r \in Nat /\ b * l < b * r
  BY <1>4
<1> HIDE DEF l, r
<1>6. l < r
  <2>1. ASSUME r <= l PROVE b * r <= b * l
    BY <1>5, <2>1
  <2>2. b * r \in Nat /\ b * l \in Nat
    BY <1>5
  <2> QED
    BY <1>5, <2>1, <2>2
<1> QED
  BY <1>6 DEF l, r

(* Preparing a payment, accepted or refused.                               *)
LEMMA PrepareInv ==
    ASSUME DexInv, NEW s \in Slippages, PrepareGuardedPathPayment(s)
    PROVE  GuardHonoursQuote'
<1> DEFINE best == Max({q.rate : q \in market})
           least == Toll[amount][0]
           most == Toll[amount][MaxHops]
<1>1. PICK p \in RankedFirst(amount, market) :
        payment' = [outcome |-> IF CheckSlippage(quote.rate, p.rate, s) THEN "prepared"
                                                                       ELSE "refused",
                    path |-> p, best |-> best, amount |-> amount, slippage |-> s, of |-> quote]
  BY DEF PrepareGuardedPathPayment
<1>2. /\ market # {} /\ moved' = moved /\ quote # NoQuoted
      /\ market \subseteq Paths /\ IsFiniteSet(market) /\ p \in Paths
      /\ amount \in SourceAmounts /\ quote \in Quoted
  BY DEF PrepareGuardedPathPayment, DexInv, RankedFirst
<1>3. p.rate \in Nat /\ s \in 0..1000 /\ quote.rate \in Nat
  <2>1. p.rate \in PathRates
    BY <1>2 DEF Paths
  <2>2. quote.rate \in PathRates \cup {0}
    BY <1>2 DEF Quoted
  <2>3. PathRates \cup {0} \subseteq Nat
    BY DexTypes
  <2>4. s \in 0..1000
    BY DexTypes
  <2>5. p.rate \in Nat /\ quote.rate \in Nat
    BY <2>1, <2>2, <2>3, Zenon
  <2> QED
    BY <2>4, <2>5
<1>4. least \in Nat \ {0} /\ most \in Nat \ {0}
  <2>1. 0 \in 0..MaxHops /\ MaxHops \in 0..MaxHops
    BY DexTypes
  <2> QED
    BY <1>2, <2>1, DexTypes
<1>5. payment'.path = p /\ payment'.best = best /\ payment'.amount = amount
      /\ payment'.slippage = s /\ payment'.of = quote
  BY <1>1
<1>6. CASE CheckSlippage(quote.rate, p.rate, s)
  <2>1. PICK b \in market : best = b.rate
    BY <1>2, BestPath
  <2>2. best * least <= p.rate * most
    BY <1>2, <2>1, RankedIsNearBest
  <2>3. payment'.outcome = "prepared"
    BY <1>1, <1>6
  <2> HIDE DEF best
  <2> QED
    BY <1>5, <2>2, <2>3 DEF GuardHonoursQuote
<1>7. CASE ~CheckSlippage(quote.rate, p.rate, s)
  <2>1. payment'.outcome = "refused"
    BY <1>1, <1>7
  <2>2. quote.from \in {"ranked", "current"}
    BY <1>2 DEF DexInv, Quoted
  <2>3. ASSUME quote.from = "ranked", ~moved PROVE FALSE
    <3>1. PICK q \in RankedFirst(amount, market) : quote.rate = q.rate
      BY <2>3 DEF DexInv
    <3>2. quote.rate = p.rate
      BY <1>2, <3>1, RankedAgree
    <3>3. p.rate * 1000 >= p.rate * (1000 - s)
      BY <1>3
    <3> QED
      BY <1>7, <3>2, <3>3 DEF CheckSlippage
  <2>4. ASSUME quote.from = "current", ~moved PROVE 1000 * least < (1000 - s) * most
    <3>1. PICK b \in market : quote.rate = b.rate
      BY <2>4 DEF DexInv
    <3>2. quote.rate * least <= p.rate * most
      BY <1>2, <3>1, RankedIsNearBest
    <3> DEFINE k == 1000 - s
               pr == p.rate
               qr == quote.rate
    <3>3. k \in Nat /\ pr \in Nat /\ qr \in Nat
      BY <1>3
    <3>4. ~(pr * 1000 >= qr * k)
      BY <1>7 DEF CheckSlippage
    <3> HIDE DEF k, pr, qr, least, most
    <3>5. pr * 1000 < qr * k
      BY <3>3, <3>4
    <3>6. qr * least <= pr * most
      BY <3>2 DEF qr, pr
    <3>7. 1000 * least < k * most
      BY <1>4, <3>3, <3>5, <3>6, TollsTellApart
    <3> QED
      BY <3>7 DEF k
  <2> HIDE DEF least, most
  <2>5. ~moved => quote.from = "current" /\ 1000 * least < (1000 - s) * most
    BY <2>2, <2>3, <2>4
  <2> USE DEF least, most
  <2> QED
    BY <1>2, <1>5, <2>1, <2>5 DEF GuardHonoursQuote
<1> QED
  BY <1>6, <1>7

(* The inductive invariant of quoting and preparing.                       *)
LEMMA DexInvHolds == DexSpec => []DexInv
<1>1. DexInit => DexInv
  <2> SUFFICES ASSUME DexInit PROVE DexInv
    OBVIOUS
  <2>1. quote \in Quoted /\ quote.from = "none" /\ quote = NoQuoted
    BY DEF DexInit, NoQuoted, Quoted
  <2>2. GuardHonoursQuote
    BY DEF DexInit, NoPayment, GuardHonoursQuote
  <2>3. market \subseteq Paths /\ IsFiniteSet(market) /\ amount \in SourceAmounts
    BY FS_EmptySet DEF DexInit
  <2> QED
    BY <2>1, <2>2, <2>3 DEF DexInv
<1>2. DexInv /\ [DexNext]_dexVars => DexInv'
  <2> SUFFICES ASSUME DexInv, [DexNext]_dexVars PROVE DexInv'
    OBVIOUS
  <2>1. CASE FindOptimalPaths
    <3>1. PICK p \in RankedFirst(amount, market) : quote' = [rate |-> p.rate, from |-> "ranked"]
      BY <2>1 DEF FindOptimalPaths
    <3>2. p.rate \in PathRates
      BY DEF RankedFirst, DexInv, Paths
    <3>3. quote' \in Quoted /\ quote'.rate = p.rate /\ quote'.from = "ranked"
      BY <3>1, <3>2 DEF Quoted
    <3>4. GuardHonoursQuote' /\ market' = market /\ amount' = amount
      BY <2>1, NoPaymentFacts DEF FindOptimalPaths
    <3>5. RankedFirst(amount, market)' = RankedFirst(amount, market)
      BY <3>4 DEF RankedFirst, Better
    <3> QED
      BY <3>3, <3>4, <3>5 DEF DexInv
  <2>2. CASE FetchCurrentRate
    <3> DEFINE best == Max({p.rate : p \in market})
    <3>1. /\ market # {} /\ quote' = [rate |-> best, from |-> "current"]
          /\ market' = market /\ amount' = amount
      BY <2>2 DEF FetchCurrentRate
    <3>2. PICK b \in market : best = b.rate
      BY <3>1, BestPath DEF DexInv
    <3>3. best \in PathRates
      BY <3>2 DEF DexInv, Paths
    <3> HIDE DEF best
    <3>4. quote' \in Quoted /\ quote'.from = "current" /\ quote'.rate = b.rate
      BY <3>1, <3>2, <3>3 DEF Quoted
    <3>5. GuardHonoursQuote'
      BY <2>2, NoPaymentFacts DEF FetchCurrentRate
    <3> QED
      BY <3>1, <3>4, <3>5 DEF DexInv
  <2>3. CASE MarketMoves
    <3>1. PICK p \in Paths : market' = SymDiff(market, {p})
      BY <2>3 DEF MarketMoves
    <3>2. market' \subseteq market \cup {p}
      BY <3>1 DEF SymDiff
    <3>3. IsFiniteSet(market \cup {p})
      BY FS_AddElement DEF DexInv
    <3>4. market' \subseteq Paths /\ IsFiniteSet(market')
      BY <3>2, <3>3, FS_Subset DEF DexInv
    <3>5. GuardHonoursQuote' /\ quote' = quote /\ moved' /\ amount' = amount
      BY <2>3, NoPaymentFacts DEF MarketMoves
    <3> QED
      BY <3>4, <3>5 DEF DexInv
  <2>4. ASSUME NEW a \in SourceAmounts, ChangeAmount(a) PROVE DexInv'
    <3>1. GuardHonoursQuote' /\ quote' = quote /\ moved' /\ amount' = a /\ market' = market
      BY <2>4, NoPaymentFacts DEF ChangeAmount
    <3> QED
      BY <3>1 DEF DexInv
  <2>5. ASSUME NEW s \in Slippages, PrepareGuardedPathPayment(s) PROVE DexInv'
    <3>1. GuardHonoursQuote'
      BY <2>5, PrepareInv
    <3>2. UNCHANGED <<amount, market, quote, moved>>
      BY <2>5 DEF PrepareGuardedPathPayment
    <3>3. RankedFirst(amount, market)' = RankedFirst(amount, market)
      BY <3>2 DEF RankedFirst, Better
    <3> QED
      BY <3>1, <3>2, <3>3 DEF DexInv
  <2>6. CASE UNCHANGED dexVars
    <3>1. UNCHANGED <<amount, market, quote, moved, payment>>
      BY <2>6 DEF dexVars
    <3>2. RankedFirst(amount, market)' = RankedFirst(amount, market)
      BY <3>1 DEF RankedFirst, Better
    <3> QED
      BY <3>1, <3>2 DEF DexInv, GuardHonoursQuote
  <2> QED
    BY <2>1, <2>2, <2>3, <2>4, <2>5, <2>6 DEF DexNext
<1> QED
  BY <1>1, <1>2, PTL DEF DexSpec

(* For any rates, hops, amounts, tolls and slippages: the path of a        *)
(* prepared payment is near the best one for its amount, and while neither *)
(* market nor amount changed only a quote that ignored the hops can be     *)
(* refused, and only for a slippage below their toll.                      *)
THEOREM QuotesHonoured == DexSpec => []GuardHonoursQuote
<1>1. DexInv => GuardHonoursQuote
  BY DEF DexInv
<1> QED
  BY <1>1, DexInvHolds, PTL

-----------------------------------------------------------------------------
(* Wallet store                                                            *)

(* What the page shows is what the server has.                             *)
Agree(v, s) == v.wallets = s.rows /\ s.default \in {v.active, NoKey}

(* What a lone operation carries: one that is on its way or was refused    *)
(* has changed nothing, a switch that was answered has only moved the      *)
(* default, a list that was answered is the server's.                      *)
CallKnows(r, v, s) ==
    /\ r.op # "list" /\ r.at \in {"sent", "refused"} => Agree(v, s)
    /\ r.op = "switch" /\ r.at = "answered" =>
           v.wallets = s.rows /\ s.default = r.w /\ r.w \in s.rows
    /\ r.op = "list" /\ r.at = "answered" => r.rows = s.rows /\ r.default = s.default

StoreTypes ==
    /\ server \in [rows : SUBSET StoreWallets, default : Key]
    /\ view \in [wallets : SUBSET StoreWallets, active : Key, key : Key \cup {StoredKey},
                 loading : BOOLEAN]
    /\ scall \in [StoreCalls -> StoreCall]
    /\ settled \in BOOLEAN

AloneIsAlone ==
    \A c, d \in StoreCalls : scall[c].at # "idle" /\ scall[c].alone /\ d # c =>
                                 scall[d].at = "idle"

OneCallBusy ==
    \A c, d \in StoreCalls : scall[c].at # "idle" /\ scall[d].at # "idle" => c = d

SettledCalls ==
    settled => /\ OneCallBusy
               /\ \A c \in StoreCalls : CallKnows(scall[c], view, server)
               /\ (\A c \in StoreCalls : scall[c].at = "idle") => Agree(view, server)

StoreInv ==
    /\ StoreTypes /\ AloneIsAlone /\ SettledCalls
    /\ view.key \in {view.active, StoredKey}

(* The invariant gives the property.                                       *)
LEMMA StoreInvSuffices == StoreInv => PageFollowsServer
BY DEF StoreInv, SettledCalls, Agree, PageFollowsServer, Busy

(* An operation that is over is idle and knows nothing.                    *)
LEMMA NoStoreCallFacts ==
    /\ NoStoreCall \in StoreCall /\ NoStoreCall.at = "idle"
    /\ \A v, s : CallKnows(NoStoreCall, v, s)
BY DEF NoStoreCall, StoreCall, CallKnows, Key

(* One operation in flight moves on: it stays the only one if it was.      *)
LEMMA OneCallMoves ==
    ASSUME StoreInv, NEW c \in StoreCalls, scall[c].at # "idle",
           NEW r \in StoreCall, scall' = [scall EXCEPT ![c] = r],
           r.at # "idle" /\ r.alone => scall[c].alone \/ Busy = {c},
           server' \in [rows : SUBSET StoreWallets, default : Key],
           view' \in [wallets : SUBSET StoreWallets, active : Key, key : Key \cup {StoredKey},
                      loading : BOOLEAN],
           settled' \in BOOLEAN,
           view'.key \in {view'.active, StoredKey},
           settled' => /\ settled \/ scall[c].alone
                       /\ CallKnows(r, view', server')
                       /\ r.at = "idle" => Agree(view', server')
    PROVE  StoreInv'
<1>1. /\ scall' \in [StoreCalls -> StoreCall] /\ scall'[c] = r
      /\ \A d \in StoreCalls : d # c => scall'[d] = scall[d]
  BY DEF StoreInv, StoreTypes
<1>2. StoreTypes'
  BY <1>1 DEF StoreTypes
<1>3. scall[c].alone \/ Busy = {c} => \A d \in StoreCalls : d # c => scall[d].at = "idle"
  BY DEF StoreInv, AloneIsAlone, Busy
<1>4. AloneIsAlone'
  <2> SUFFICES ASSUME NEW e \in StoreCalls, NEW d \in StoreCalls,
                      scall'[e].at # "idle", scall'[e].alone, d # e
               PROVE  scall'[d].at = "idle"
    BY DEF AloneIsAlone
  <2>1. CASE e = c
    BY <1>1, <1>3, <2>1
  <2>2. CASE e # c
    <3>1. scall[e].at # "idle" /\ scall[e].alone
      BY <1>1, <2>2
    <3>2. scall[c].at = "idle"
      BY <2>2, <3>1 DEF StoreInv, AloneIsAlone
    <3> QED
      BY <3>2
  <2> QED
    BY <2>1, <2>2
<1>5. SettledCalls'
  <2> SUFFICES ASSUME settled' PROVE SettledCalls'
    BY DEF SettledCalls
  <2>1. \A d \in StoreCalls : d # c => scall[d].at = "idle"
    BY <1>3 DEF StoreInv, SettledCalls, OneCallBusy
  <2>2. \A d \in StoreCalls : d # c => scall'[d].at = "idle"
    BY <1>1, <2>1
  <2>3. OneCallBusy'
    BY <2>2 DEF OneCallBusy
  <2>4. \A d \in StoreCalls : CallKnows(scall'[d], view', server')
    <3> SUFFICES ASSUME NEW d \in StoreCalls PROVE CallKnows(scall'[d], view', server')
      OBVIOUS
    <3>1. CASE d = c
      BY <1>1, <3>1
    <3>2. CASE d # c
      BY <2>2, <3>2 DEF CallKnows
    <3> QED
      BY <3>1, <3>2
  <2>5. (\A d \in StoreCalls : scall'[d].at = "idle") => Agree(view', server')
    BY <1>1
  <2> QED
    BY <2>3, <2>4, <2>5 DEF SettledCalls
<1> QED
  BY <1>2, <1>4, <1>5 DEF StoreInv

(* A new operation: it is the only one, or nothing is settled any more.    *)
LEMMA SendInv ==
    ASSUME StoreInv, NEW c \in StoreCalls, NEW op \in {"create", "switch", "remove", "list"},
           NEW w \in Key, Send(c, op, w)
    PROVE  StoreInv'
<1> DEFINE r == [NoStoreCall EXCEPT !.op = op, !.at = "sent", !.w = w, !.alone = (Busy = {})]
<1>1. /\ r \in StoreCall /\ r.op = op /\ r.at = "sent" /\ r.alone = (Busy = {})
  BY DEF NoStoreCall, StoreCall, Key
<1>2. scall' = [d \in StoreCalls |-> IF d = c THEN r ELSE [scall[d] EXCEPT !.alone = FALSE]]
  BY DEF Send
<1>3. /\ scall[c].at = "idle" /\ view' = [view EXCEPT !.loading = TRUE]
      /\ settled' = (settled /\ Busy = {}) /\ server' = server
  BY DEF Send
<1> HIDE DEF r
<1>4. \A x \in StoreCall : /\ [x EXCEPT !.alone = FALSE] \in StoreCall
                           /\ [x EXCEPT !.alone = FALSE].at = x.at
                           /\ [x EXCEPT !.alone = FALSE].alone = FALSE
  BY DEF StoreCall
<1>5. /\ scall' \in [StoreCalls -> StoreCall] /\ scall'[c] = r
      /\ \A d \in StoreCalls : d # c => scall'[d].at = scall[d].at /\ scall'[d].alone = FALSE
  BY <1>1, <1>2, <1>4 DEF StoreInv, StoreTypes
<1>6. /\ view' \in [wallets : SUBSET StoreWallets, active : Key, key : Key \cup {StoredKey},
                    loading : BOOLEAN]
      /\ view'.wallets = view.wallets /\ view'.active = view.active /\ view'.key = view.key
  BY <1>3 DEF StoreInv, StoreTypes
<1>7. Busy = {} => \A d \in StoreCalls : scall[d].at = "idle"
  BY DEF Busy
<1>8. StoreTypes'
  BY <1>3, <1>5, <1>6 DEF StoreInv, StoreTypes
<1>9. AloneIsAlone'
  BY <1>1, <1>5, <1>7 DEF AloneIsAlone
<1>10. SettledCalls'
  <2> SUFFICES ASSUME settled' PROVE SettledCalls'
    BY DEF SettledCalls
  <2>1. Agree(view, server) /\ \A d \in StoreCalls : d # c => scall'[d].at = "idle"
    BY <1>3, <1>5, <1>7 DEF StoreInv, SettledCalls
  <2>2. Agree(view', server')
    BY <1>3, <1>6, <2>1 DEF Agree
  <2>3. \A d \in StoreCalls : CallKnows(scall'[d], view', server')
    <3> SUFFICES ASSUME NEW d \in StoreCalls PROVE CallKnows(scall'[d], view', server')
      OBVIOUS
    <3>1. scall'[d].at \in {"idle", "sent"}
      BY <1>1, <1>5, <2>1
    <3> QED
      BY <2>2, <3>1 DEF CallKnows
  <2>4. OneCallBusy'
    BY <2>1 DEF OneCallBusy
  <2> QED
    BY <2>2, <2>3, <2>4 DEF SettledCalls
<1> QED
  BY <1>6, <1>8, <1>9, <1>10 DEF StoreInv

(* The server answers or refuses one operation.                            *)
LEMMA ServeInv ==
    ASSUME StoreInv, NEW c \in StoreCalls,
           ServeCreate(c) \/ ServeSwitch(c) \/ ServeRemove(c) \/ ServeList(c)
    PROVE  StoreInv'
<1>0. /\ scall[c] \in StoreCall /\ scall[c].at = "sent" /\ view' = view /\ settled' = settled
      /\ settled => CallKnows(scall[c], view, server)
  BY DEF ServeCreate, ServeSwitch, ServeRemove, ServeList, StoreInv, StoreTypes, SettledCalls
<1>1. /\ view' \in [wallets : SUBSET StoreWallets, active : Key, key : Key \cup {StoredKey},
                    loading : BOOLEAN]
      /\ settled' \in BOOLEAN /\ view'.key \in {view'.active, StoredKey}
  BY <1>0 DEF StoreInv, StoreTypes
<1>2. ASSUME NEW at \in {"answered", "refused"}
      PROVE  LET r == [scall[c] EXCEPT !.at = at] IN
             /\ r \in StoreCall /\ r.at = at /\ r.op = scall[c].op /\ r.w = scall[c].w
             /\ r.alone = scall[c].alone
             /\ Answer(c, at) => scall' = [scall EXCEPT ![c] = r]
  <2>1. scall[c] \in StoreCall
    BY <1>0
  <2> QED
    BY <2>1 DEF Answer, StoreCall
<1>3. CASE server' = server /\ Answer(c, "refused") /\ scall[c].op # "list"
  <2> DEFINE r == [scall[c] EXCEPT !.at = "refused"]
  <2>1. /\ r \in StoreCall /\ r.at = "refused" /\ r.op = scall[c].op /\ r.w = scall[c].w
        /\ r.alone = scall[c].alone /\ scall' = [scall EXCEPT ![c] = r]
    BY <1>2, <1>3
  <2> HIDE DEF r
  <2>2. settled => CallKnows(r, view', server')
    BY <1>0, <1>3, <2>1 DEF CallKnows, Agree
  <2> QED
    BY <1>0, <1>1, <1>3, <2>1, <2>2, OneCallMoves DEF StoreInv, StoreTypes
<1>4. CASE /\ scall[c].op \in {"create", "remove"} /\ Answer(c, "answered")
           /\ server' \in [rows : SUBSET StoreWallets, default : Key]
  <2> DEFINE r == [scall[c] EXCEPT !.at = "answered"]
  <2>1. /\ r \in StoreCall /\ r.at = "answered" /\ r.op = scall[c].op
        /\ r.alone = scall[c].alone /\ scall' = [scall EXCEPT ![c] = r]
    BY <1>2, <1>4
  <2> HIDE DEF r
  <2>2. CallKnows(r, view', server')
    BY <1>4, <2>1 DEF CallKnows
  <2> QED
    BY <1>0, <1>1, <1>4, <2>1, <2>2, OneCallMoves
<1>5. CASE ServeCreate(c)
  <2>1. CASE Cardinality(server.rows) < StoreLimit
    <3>1. PICK w \in StoreWallets \ server.rows :
            server' = [rows |-> server.rows \cup {w},
                       default |-> IF server.rows = {} THEN w ELSE server.default]
      BY <1>5, <2>1 DEF ServeCreate
    <3>2. server' \in [rows : SUBSET StoreWallets, default : Key]
      BY <3>1 DEF StoreInv, StoreTypes, Key
    <3> QED
      BY <1>4, <1>5, <2>1, <3>2 DEF ServeCreate
  <2>2. CASE ~(Cardinality(server.rows) < StoreLimit)
    BY <1>3, <1>5, <2>2 DEF ServeCreate
  <2> QED
    BY <2>1, <2>2
<1>6. CASE ServeRemove(c)
  <2>1. CASE scall[c].w \in server.rows /\ Cardinality(server.rows) > 1
    <3>1. PICK s \in server.rows \ {scall[c].w} :
            server' = [rows |-> server.rows \ {scall[c].w},
                       default |-> IF server.default = scall[c].w THEN s ELSE server.default]
      BY <1>6, <2>1 DEF ServeRemove
    <3>2. server' \in [rows : SUBSET StoreWallets, default : Key]
      BY <3>1 DEF StoreInv, StoreTypes, Key
    <3> QED
      BY <1>4, <1>6, <2>1, <3>2 DEF ServeRemove
  <2>2. CASE ~(scall[c].w \in server.rows /\ Cardinality(server.rows) > 1)
    BY <1>3, <1>6, <2>2 DEF ServeRemove
  <2> QED
    BY <2>1, <2>2
<1>7. CASE ServeSwitch(c)
  <2>1. CASE scall[c].w \in server.rows
    <3> DEFINE r == [scall[c] EXCEPT !.at = "answered"]
    <3>1. server' = [server EXCEPT !.default = scall[c].w] /\ Answer(c, "answered")
          /\ scall[c].op = "switch"
      BY <1>7, <2>1 DEF ServeSwitch
    <3>2. /\ r \in StoreCall /\ r.at = "answered" /\ r.op = "switch" /\ r.w = scall[c].w
          /\ r.alone = scall[c].alone /\ scall' = [scall EXCEPT ![c] = r]
      BY <1>2, <3>1
    <3> HIDE DEF r
    <3>3. /\ server' \in [rows : SUBSET StoreWallets, default : Key]
          /\ server'.rows = server.rows /\ server'.default = scall[c].w
      BY <2>1, <3>1 DEF StoreInv, StoreTypes, Key
    <3>4. settled => CallKnows(r, view', server')
      BY <1>0, <2>1, <3>1, <3>2, <3>3 DEF CallKnows, Agree
    <3> QED
      BY <1>0, <1>1, <3>2, <3>3, <3>4, OneCallMoves
  <2>2. CASE scall[c].w \notin server.rows
    BY <1>3, <1>7, <2>2 DEF ServeSwitch
  <2> QED
    BY <2>1, <2>2
<1>8. CASE ServeList(c)
  <2> DEFINE r == [scall[c] EXCEPT !.at = "answered", !.rows = server.rows,
                                   !.default = server.default]
  <2>1. /\ server.rows \in SUBSET StoreWallets /\ server.default \in Key
        /\ server' = server /\ scall[c].op = "list"
        /\ scall \in [StoreCalls -> StoreCall]
    BY <1>8 DEF StoreInv, StoreTypes, ServeList
  <2>2. /\ r \in StoreCall /\ r.at = "answered" /\ r.op = "list" /\ r.rows = server.rows
        /\ r.default = server.default /\ r.alone = scall[c].alone
    BY <1>0, <2>1 DEF StoreCall
  <2>3. scall' = [scall EXCEPT ![c] = r]
    BY <1>0, <1>8, <2>1 DEF ServeList, StoreCall
  <2> HIDE DEF r
  <2>4. CallKnows(r, view', server')
    BY <2>1, <2>2 DEF CallKnows
  <2>5. server' \in [rows : SUBSET StoreWallets, default : Key]
    BY <2>1 DEF StoreInv, StoreTypes
  <2> QED
    BY <1>0, <1>1, <2>2, <2>3, <2>4, <2>5, OneCallMoves
<1> QED
  BY <1>5, <1>6, <1>7, <1>8

(* The store handles an answer: it goes on to a list request, moves the    *)
(* active wallet, takes over a list, or reports a failure.                 *)
LEMMA StoreStepInv ==
    ASSUME StoreInv, NEW c \in StoreCalls,
           ThenFetch(c) \/ Switched(c) \/ Fetched(c) \/ CallFails(c)
    PROVE  StoreInv'
<1>0. /\ scall[c] \in StoreCall /\ scall[c].at # "idle" /\ server' = server
      /\ server' \in [rows : SUBSET StoreWallets, default : Key]
      /\ settled => CallKnows(scall[c], view, server)
      /\ settled \in BOOLEAN
  BY DEF ThenFetch, Switched, Fetched, CallFails, StoreInv, StoreTypes, SettledCalls
<1>1. \A b \in BOOLEAN :
        /\ [view EXCEPT !.loading = b] \in
              [wallets : SUBSET StoreWallets, active : Key, key : Key \cup {StoredKey},
               loading : BOOLEAN]
        /\ [view EXCEPT !.loading = b].wallets = view.wallets
        /\ [view EXCEPT !.loading = b].active = view.active
        /\ [view EXCEPT !.loading = b].key = view.key
  BY DEF StoreInv, StoreTypes
<1>2. view.key \in {view.active, StoredKey}
  BY DEF StoreInv
<1>3. CASE ThenFetch(c)
  <2> DEFINE r == [NoStoreCall EXCEPT !.op = "list", !.at = "sent", !.alone = (Busy = {c})]
  <2>1. r \in StoreCall /\ r.op = "list" /\ r.at = "sent" /\ r.alone = (Busy = {c})
    BY DEF NoStoreCall, StoreCall, Key
  <2>2. /\ scall' = [scall EXCEPT ![c] = r] /\ view' = [view EXCEPT !.loading = TRUE]
        /\ settled' = settled
    BY <1>3 DEF ThenFetch
  <2> HIDE DEF r
  <2>3. CallKnows(r, view', server')
    BY <2>1 DEF CallKnows
  <2> QED
    BY <1>0, <1>1, <1>2, <2>1, <2>2, <2>3, OneCallMoves
<1>4. CASE CallFails(c)
  <2>1. /\ scall' = [scall EXCEPT ![c] = NoStoreCall] /\ view' = [view EXCEPT !.loading = FALSE]
        /\ settled' = (settled /\ scall[c].at # "answered" /\ scall[c].op # "list")
    BY <1>4 DEF CallFails, Finish
  <2>2. settled' => Agree(view', server')
    <3>1. scall[c].at \in {"idle", "sent", "answered", "refused"}
      BY <1>0 DEF StoreCall
    <3> QED
      BY <1>0, <1>1, <2>1, <3>1 DEF CallKnows, Agree
  <2> QED
    BY <1>0, <1>1, <1>2, <2>1, <2>2, NoStoreCallFacts, OneCallMoves
<1>5. CASE Switched(c)
  <2> DEFINE w == scall[c].w
             v == IF w \in view.wallets THEN SetActiveWalletId(w) ELSE view
  <2>1. /\ scall' = [scall EXCEPT ![c] = NoStoreCall] /\ view' = [v EXCEPT !.loading = FALSE]
        /\ settled' = settled /\ scall[c].op = "switch" /\ scall[c].at = "answered"
    BY <1>5 DEF Switched, Finish
  <2>2. w \in Key
    BY <1>0 DEF StoreCall
  <2>3. /\ v \in [wallets : SUBSET StoreWallets, active : Key, key : Key \cup {StoredKey},
                  loading : BOOLEAN]
        /\ v.wallets = view.wallets /\ v.key \in {v.active, StoredKey}
        /\ w \in view.wallets => v.active = w
    BY <1>2, <2>2 DEF SetActiveWalletId, StoreInv, StoreTypes
  <2> HIDE DEF v
  <2>4. /\ view' \in [wallets : SUBSET StoreWallets, active : Key, key : Key \cup {StoredKey},
                      loading : BOOLEAN]
        /\ view'.wallets = view.wallets /\ view'.key \in {view'.active, StoredKey}
        /\ w \in view.wallets => view'.active = w
    BY <2>1, <2>3
  <2>5. settled' => Agree(view', server')
    BY <1>0, <2>1, <2>4 DEF CallKnows, Agree
  <2> QED
    BY <1>0, <2>1, <2>4, <2>5, NoStoreCallFacts, OneCallMoves
<1>6. CASE Fetched(c)
  <2> DEFINE r == scall[c]
  <2>1. PICK w \in Key :
          /\ w = r.default \/ r.default = NoKey
          /\ view' = [wallets |-> r.rows, active |-> w, key |-> w, loading |-> FALSE]
    BY <1>6 DEF Fetched
  <2>2. /\ scall' = [scall EXCEPT ![c] = NoStoreCall] /\ r.op = "list" /\ r.at = "answered"
        /\ settled' = (settled \/ (r.alone /\ server = [rows |-> r.rows, default |-> r.default]))
    BY <1>6 DEF Fetched, Finish
  <2>3. r.rows \in SUBSET StoreWallets
    BY <1>0 DEF StoreCall
  <2>4. /\ view' \in [wallets : SUBSET StoreWallets, active : Key, key : Key \cup {StoredKey},
                      loading : BOOLEAN]
        /\ view'.wallets = r.rows /\ view'.active = w /\ view'.key = w
    BY <2>1, <2>3
  <2>5. settled' => r.rows = server.rows /\ r.default = server.default
    BY <1>0, <2>2 DEF CallKnows
  <2>6. settled' => Agree(view', server')
    BY <1>0, <2>1, <2>4, <2>5 DEF Agree
  <2>7. settled' \in BOOLEAN /\ (settled' => settled \/ r.alone)
    BY <1>0, <2>2
  <2> QED
    BY <1>0, <2>2, <2>4, <2>6, <2>7, NoStoreCallFacts, OneCallMoves
<1> QED
  BY <1>3, <1>4, <1>5, <1>6

(* The inductive invariant of the wallet store.                            *)
LEMMA StoreInvHolds == StoreSpec => []StoreInv
<1>1. StoreInit => StoreInv
  <2> SUFFICES ASSUME StoreInit PROVE StoreInv
    OBVIOUS
  <2>1. scall \in [StoreCalls -> StoreCall] /\ \A c \in StoreCalls : scall[c].at = "idle"
    BY NoStoreCallFacts DEF StoreInit
  <2>2. StoreTypes /\ view.key \in {view.active, StoredKey}
    BY <2>1 DEF StoreInit, StoreTypes, Key
  <2>3. AloneIsAlone /\ SettledCalls
    BY <2>1 DEF StoreInit, AloneIsAlone, SettledCalls
  <2> QED
    BY <2>2, <2>3 DEF StoreInv
<1>2. StoreInv /\ [StoreNext]_storeViewVars => StoreInv'
  <2> SUFFICES ASSUME StoreInv, [StoreNext]_storeViewVars PROVE StoreInv'
    OBVIOUS
  <2>1. ASSUME NEW c \in StoreCalls,
               \/ FetchWallets(c) \/ CreateWallet(c)
               \/ \E w \in StoreWallets : SwitchWallet(c, w) \/ RemoveWallet(c, w)
        PROVE  StoreInv'
    <3>1. \E op \in {"create", "switch", "remove", "list"} : \E w \in Key : Send(c, op, w)
      BY <2>1 DEF FetchWallets, CreateWallet, SwitchWallet, RemoveWallet, Key
    <3> QED
      BY <3>1, SendInv
  <2>2. ASSUME NEW c \in StoreCalls,
               ServeCreate(c) \/ ServeSwitch(c) \/ ServeRemove(c) \/ ServeList(c)
        PROVE  StoreInv'
    BY <2>2, ServeInv
  <2>3. ASSUME NEW c \in StoreCalls, ThenFetch(c) \/ Switched(c) \/ Fetched(c) \/ CallFails(c)
        PROVE  StoreInv'
    BY <2>3, StoreStepInv
  <2>4. CASE LoadStoredKey
    <3>1. /\ server' = server /\ scall' = scall /\ settled' = settled
          /\ view' = [view EXCEPT !.key = StoredKey]
      BY <2>4 DEF LoadStoredKey
    <3>2. /\ view' \in [wallets : SUBSET StoreWallets, active : Key, key : Key \cup {StoredKey},
                        loading : BOOLEAN]
          /\ view'.wallets = view.wallets /\ view'.active = view.active /\ view'.key = StoredKey
      BY <3>1 DEF StoreInv, StoreTypes
    <3>3. Agree(view, server) => Agree(view', server')
      BY <3>1, <3>2 DEF Agree
    <3>4. \A r : CallKnows(r, view, server) => CallKnows(r, view', server')
      BY <3>1, <3>2, <3>3 DEF CallKnows
    <3>5. SettledCalls'
      BY <3>1, <3>3, <3>4 DEF StoreInv, SettledCalls, OneCallBusy
    <3> QED
      BY <3>1, <3>2, <3>5 DEF StoreInv, StoreTypes, AloneIsAlone
  <2>5. CASE OtherDevice
    <3>1. /\ view' = view /\ scall' = scall /\ settled' = FALSE
          /\ server' \in [rows : SUBSET StoreWallets, default : Key]
      BY <2>5 DEF OtherDevice, Key
    <3> QED
      BY <3>1 DEF StoreInv, StoreTypes, AloneIsAlone, SettledCalls
  <2>6. CASE UNCHANGED storeViewVars
    <3>1. server' = server /\ view' = view /\ scall' = scall /\ settled' = settled
      BY <2>6 DEF storeViewVars
    <3> QED
      BY <3>1 DEF StoreInv, StoreTypes, AloneIsAlone, SettledCalls, OneCallBusy
  <2> QED
    BY <2>1, <2>2, <2>3, <2>4, <2>5, <2>6 DEF StoreNext
<1> QED
  BY <1>1, <1>2, PTL DEF StoreSpec

(* For any number of calls in flight and wallets: once a fetchWallets ran  *)
(* alone the page agrees with the server until calls overlap, an answer is *)
(* lost or another device acts, and the key shown is the active wallet's   *)
(* or the stored one.                                                      *)
THEOREM PageAgrees == StoreSpec => []PageFollowsServer
BY StoreInvHolds, StoreInvSuffices, PTL

-----------------------------------------------------------------------------
(* Offline queue                                                           *)

AtWork == {"post", "remove", "fail", "requeue"}
Current(r) == Head(r.todo)
Works(t, d) == tab[t].at \in AtWork /\ Current(tab[t]) = d

IsTab(r) == r = [at |-> r.at, todo |-> r.todo]

QueueTypes ==
    /\ status \in [Drafts -> DraftStatus] /\ accepted \in [Drafts -> 0..2]
    /\ tab = [t \in Tabs |-> tab[t]] /\ \A t \in Tabs : IsTab(tab[t])

(* A draft that was neither lost nor raced is in the hands of one tab at   *)
(* most, and once it was accepted that tab is removing it or it is gone.   *)
DraftInv(d) ==
    /\ status[d] = "delivered" => accepted[d] > 0
    /\ \A t \in Tabs : Works(t, d) /\ tab[t].at = "remove" => accepted[d] > 0
    /\ d \notin lost \cup raced =>
          /\ accepted[d] <= 1
          /\ \A t, u \in Tabs : Works(t, d) /\ Works(u, d) => t = u
          /\ \A t \in Tabs : Works(t, d) => /\ status[d] # "new"
                                            /\ tab[t].at # "remove" => accepted[d] = 0
          /\ accepted[d] > 0 => \/ status[d] \in {"delivered", "discarded"}
                                \/ \E t \in Tabs : Works(t, d) /\ tab[t].at = "remove"

QueueInv == QueueTypes /\ \A d \in Drafts : DraftInv(d)

(* The invariant gives the property.                                       *)
LEMMA QueueInvSuffices == QueueInv => SecondPostIsExplained
BY DEF QueueInv, QueueTypes, DraftInv, SecondPostIsExplained

(* Replacing one tab leaves the others alone.                              *)
LEMMA TabReplaced ==
    ASSUME QueueTypes, NEW t \in Tabs, NEW r, IsTab(r), tab' = [tab EXCEPT ![t] = r]
    PROVE  /\ tab' = [u \in Tabs |-> tab'[u]] /\ \A u \in Tabs : IsTab(tab'[u])
           /\ tab'[t] = r /\ \A u \in Tabs : u # t => tab'[u] = tab[u]
<1>1. tab' = [u \in Tabs |-> tab'[u]] /\ tab'[t] = r /\ \A u \in Tabs : u # t => tab'[u] = tab[u]
  BY DEF QueueTypes
<1>2. \A u \in Tabs : IsTab(tab'[u])
  BY <1>1 DEF QueueTypes
<1> QED
  BY <1>1, <1>2

(* A tab that moves on within a draft keeps the draft.                     *)
LEMMA TabMoves ==
    ASSUME QueueTypes, NEW t \in Tabs, NEW x, Goto(t, x)
    PROVE  /\ tab' = [u \in Tabs |-> tab'[u]] /\ \A u \in Tabs : IsTab(tab'[u])
           /\ tab'[t].at = x /\ Current(tab'[t]) = Current(tab[t])
           /\ \A u \in Tabs : u # t => tab'[u] = tab[u]
<1> DEFINE r == [tab[t] EXCEPT !.at = x]
<1>1. IsTab(tab[t])
  BY DEF QueueTypes
<1>2. IsTab(r) /\ r.at = x /\ r.todo = tab[t].todo
  BY <1>1 DEF IsTab
<1>3. tab' = [tab EXCEPT ![t] = r]
  BY DEF Goto, QueueTypes
<1> HIDE DEF r
<1>4. /\ tab' = [u \in Tabs |-> tab'[u]] /\ \A u \in Tabs : IsTab(tab'[u])
      /\ tab'[t] = r /\ \A u \in Tabs : u # t => tab'[u] = tab[u]
  BY <1>2, <1>3, TabReplaced
<1>5. Current(tab'[t]) = Current(tab[t])
  <2>1. tab'[t].todo = tab[t].todo
    BY <1>2, <1>4
  <2> QED
    BY <2>1 DEF Current
<1> QED
  BY <1>2, <1>4, <1>5

(* A tab that is done with a draft claims the next one or rests.           *)
LEMMA TabIsDone ==
    ASSUME QueueTypes, NEW t \in Tabs, NextDraft(t) \/ tab' = [tab EXCEPT ![t] = IdleTab]
    PROVE  /\ tab' = [u \in Tabs |-> tab'[u]] /\ \A u \in Tabs : IsTab(tab'[u])
           /\ tab'[t].at \in {"claim", "idle"}
           /\ \A u \in Tabs : u # t => tab'[u] = tab[u]
<1>1. IsTab(IdleTab) /\ IdleTab.at = "idle"
  BY DEF IsTab, IdleTab
<1>2. IsTab(AfterDraft(tab[t])) /\ AfterDraft(tab[t]).at \in {"claim", "idle"}
  <2> DEFINE rest == Tail(tab[t].todo)
             r == [at |-> "claim", todo |-> rest]
  <2>1. AfterDraft(tab[t]) = IF Len(tab[t].todo) > 1 THEN r ELSE IdleTab
    BY DEF AfterDraft
  <2> HIDE DEF rest
  <2>2. IsTab(r) /\ r.at = "claim"
    BY DEF IsTab
  <2> HIDE DEF r
  <2> QED
    BY <1>1, <2>1, <2>2
<1>3. \E r : IsTab(r) /\ r.at \in {"claim", "idle"} /\ tab' = [tab EXCEPT ![t] = r]
  BY <1>1, <1>2, Zenon DEF NextDraft
<1> QED
  BY <1>3, TabReplaced

(* How a status changes without a delivery.                                *)
Later(x, y) ==
    /\ y = "delivered" => x = "delivered"
    /\ x \in {"delivered", "discarded"} => y \in {"delivered", "discarded"}
    /\ x # "new" => y # "new"

(* A step that does not claim, post or remove draft d keeps what is known  *)
(* of it: nobody starts on it, and who removes it goes on or loses it.     *)
LEMMA DraftKept ==
    ASSUME NEW d \in Drafts, DraftInv(d), Later(status[d], status'[d]),
           accepted'[d] = accepted[d],
           d \in lost \cup raced => d \in lost' \cup raced',
           \A u \in Tabs : Works(u, d)' => Works(u, d) /\ (tab'[u].at = "remove" => tab[u].at = "remove"),
           \/ d \in lost' \cup raced'
           \/ \A u \in Tabs : Works(u, d) /\ tab[u].at = "remove" => Works(u, d)' /\ tab'[u].at = "remove"
    PROVE  DraftInv(d)'
<1>1. \A u \in Tabs : Works(u, d)' => Works(u, d) /\ (tab'[u].at = "remove" => tab[u].at = "remove")
  OBVIOUS
<1>2. \/ d \in lost' \cup raced'
      \/ \A u \in Tabs : Works(u, d) /\ tab[u].at = "remove" => Works(u, d)' /\ tab'[u].at = "remove"
  OBVIOUS
<1>3. d \notin lost' \cup raced' => d \notin lost \cup raced
  OBVIOUS
<1>4. status'[d] = "delivered" => accepted'[d] > 0
  BY DEF DraftInv, Later
<1>5. \A u \in Tabs : Works(u, d)' /\ tab'[u].at = "remove" => accepted'[d] > 0
  BY <1>1 DEF DraftInv
<1>6. ASSUME d \notin lost' \cup raced'
      PROVE  /\ accepted'[d] <= 1
             /\ \A t, u \in Tabs : Works(t, d)' /\ Works(u, d)' => t = u
             /\ accepted'[d] > 0 => \/ status'[d] \in {"delivered", "discarded"}
                                    \/ \E t \in Tabs : Works(t, d)' /\ tab'[t].at = "remove"
  BY <1>1, <1>2, <1>3, <1>6 DEF DraftInv, Later
<1>7. ASSUME d \notin lost' \cup raced', NEW t \in Tabs, Works(t, d)'
      PROVE  status'[d] # "new" /\ (tab'[t].at # "remove" => accepted'[d] = 0)
  <2>1. Works(t, d) /\ status[d] # "new" /\ (tab[t].at # "remove" => accepted[d] = 0)
    BY <1>1, <1>3, <1>7 DEF DraftInv
  <2>2. tab[t].at = "remove" => tab'[t].at = "remove"
    BY <1>2, <1>7, <2>1
  <2> QED
    BY <2>1, <2>2 DEF Later
<1> QED
  BY <1>4, <1>5, <1>6, <1>7 DEF DraftInv

(* A tab that steps leaves every draft it is not at work on as it was, and *)
(* its own as well unless it was removing it or is about to.               *)
LEMMA TabStep ==
    ASSUME QueueInv, NEW t \in Tabs, NEW d \in Drafts,
           \A u \in Tabs : u # t => tab'[u] = tab[u],
           tab'[t].at \in AtWork => tab[t].at \in AtWork /\ Current(tab'[t]) = Current(tab[t]),
           Works(t, d) => /\ tab'[t].at # "remove"
                          /\ tab[t].at # "remove" \/ d \in lost' \cup raced',
           Later(status[d], status'[d]), accepted'[d] = accepted[d],
           d \in lost \cup raced => d \in lost' \cup raced'
    PROVE  DraftInv(d)'
<1>1. \A u \in Tabs : u # t => (Works(u, d)' <=> Works(u, d)) /\ tab'[u].at = tab[u].at
  BY DEF Works
<1>2. Works(t, d)' => Works(t, d)
  BY DEF Works
<1>3. \A u \in Tabs : Works(u, d)' => Works(u, d) /\ (tab'[u].at = "remove" => tab[u].at = "remove")
  BY <1>1, <1>2
<1>4. \/ d \in lost' \cup raced'
      \/ \A u \in Tabs : Works(u, d) /\ tab[u].at = "remove" => Works(u, d)' /\ tab'[u].at = "remove"
  BY <1>1
<1>5. DraftInv(d)
  BY DEF QueueInv
<1> QED
  BY <1>3, <1>4, <1>5, DraftKept

(* A status that stays is a later one.                                     *)
LEMMA LaterStays == \A x : Later(x, x)
BY DEF Later

(* The steps of a drain that change no draft.                              *)
LEMMA DrainMovesInv ==
    ASSUME QueueInv, NEW t \in Tabs,
           \/ DrainQueue(t) \/ GetQueuedDrafts(t) \/ PostRefused(t) \/ PostUnreachable(t)
           \/ StorageFails(t) \/ ClaimFails(t) \/ SettleFails(t) \/ TabOpens(t) \/ RemoveFails(t)
    PROVE  QueueInv'
<1>0. QueueTypes
  BY DEF QueueInv
<1>1. /\ status' = status /\ accepted' = accepted /\ raced' = raced
      /\ lost' = lost \/ (tab[t].at = "remove" /\ lost' = lost \cup {Current(tab[t])})
  BY DEF DrainQueue, GetQueuedDrafts, PostRefused, PostUnreachable, StorageFails, ClaimFails,
         SettleFails, TabOpens, RemoveFails, storeVars, ghosts, Current
<1> DEFINE Moved ==
      /\ tab' = [u \in Tabs |-> tab'[u]] /\ \A u \in Tabs : IsTab(tab'[u])
      /\ \A u \in Tabs : u # t => tab'[u] = tab[u]
      /\ tab'[t].at # "remove"
      /\ tab'[t].at \in AtWork => tab[t].at \in AtWork /\ Current(tab'[t]) = Current(tab[t])
      /\ tab[t].at = "remove" => lost' = lost \cup {Current(tab[t])}
<1>2. Moved
  <2>1. ASSUME NEW x \in {"release", "stuck"}, Goto(t, x), tab[t].at \in {"idle", "release", "list"}
        PROVE  Moved
    BY <1>0, <2>1, TabMoves DEF AtWork
  <2>2. ASSUME NEW x \in {"fail", "requeue"}, Goto(t, x),
               tab[t].at = "post" \/ (tab[t].at = "remove" /\ lost' = lost \cup {Current(tab[t])})
        PROVE  Moved
    BY <1>0, <2>2, TabMoves DEF AtWork
  <2>3. CASE /\ NextDraft(t) \/ tab' = [tab EXCEPT ![t] = IdleTab]
             /\ tab[t].at \in {"list", "claim", "fail", "requeue", "closed"}
    BY <1>0, <2>3, TabIsDone DEF AtWork
  <2>4. CASE GetQueuedDrafts(t)
    <3> DEFINE pending == SelectSeq(drafts, LAMBDA d : status[d] = "pending")
               r == [at |-> "claim", todo |-> pending]
    <3>1. tab[t].at = "list" /\ tab' = [tab EXCEPT ![t] = IF pending = << >> THEN IdleTab ELSE r]
      BY <2>4 DEF GetQueuedDrafts
    <3> HIDE DEF pending
    <3>2. IsTab(r) /\ r.at = "claim"
      BY DEF IsTab
    <3> HIDE DEF r
    <3>3. CASE pending = << >>
      BY <2>3, <3>1, <3>3
    <3>4. CASE pending # << >>
      <4>1. tab' = [tab EXCEPT ![t] = r]
        BY <3>1, <3>4
      <4> QED
        BY <1>0, <3>1, <3>2, <4>1, TabReplaced DEF AtWork
    <3> QED
      BY <3>3, <3>4
  <2>5. CASE DrainQueue(t) \/ StorageFails(t)
    BY <2>1, <2>5 DEF DrainQueue, StorageFails
  <2>6. CASE PostRefused(t) \/ PostUnreachable(t) \/ RemoveFails(t)
    BY <2>2, <2>6 DEF PostRefused, PostUnreachable, RemoveFails, Current
  <2>7. CASE ClaimFails(t) \/ SettleFails(t) \/ TabOpens(t)
    BY <2>3, <2>7 DEF ClaimFails, SettleFails, TabOpens
  <2> QED
    BY <2>4, <2>5, <2>6, <2>7
<1>3. QueueTypes'
  BY <1>0, <1>1, <1>2 DEF QueueTypes
<1>4. ASSUME NEW d \in Drafts PROVE DraftInv(d)'
  <2>1. Works(t, d) => tab[t].at # "remove" \/ d \in lost' \cup raced'
    BY <1>2 DEF Works
  <2>2. d \in lost \cup raced => d \in lost' \cup raced'
    BY <1>1
  <2>3. Later(status[d], status'[d]) /\ accepted'[d] = accepted[d]
    BY <1>1, LaterStays
  <2> QED
    BY <1>2, <2>1, <2>2, <2>3, TabStep
<1> QED
  BY <1>3, <1>4 DEF QueueInv

(* Writing a status that is not a delivery over a stored draft.            *)
LEMMA PutIsLater ==
    ASSUME QueueTypes, NEW e, NEW s \in {"pending", "syncing", "failed", "discarded"},
           \/ PutStatus(e, s)
           \/ status' = [x \in Drafts |-> IF Stored(x) THEN s ELSE status[x]]
           \/ status' = [x \in Drafts |-> IF status[x] = "syncing" /\ x \notin locked
                                            THEN s ELSE status[x]]
    PROVE  /\ status' \in [Drafts -> DraftStatus]
           /\ \A d \in Drafts : Later(status[d], status'[d])
<1>1. \A d \in Drafts : status'[d] = status[d] \/ (Stored(d) /\ status'[d] = s)
  BY DEF PutStatus, QueueTypes, Stored
<1>2. status' \in [Drafts -> DraftStatus]
  BY DEF PutStatus, QueueTypes, Stored, DraftStatus
<1> QED
  BY <1>1, <1>2 DEF Later, Stored

(* The steps of a drain that write a status other than delivered.          *)
LEMMA DrainWritesInv ==
    ASSUME QueueInv, NEW t \in Tabs,
           ReleaseExpiredLocks(t) \/ MarkDraftFailed(t) \/ RequeueDraft(t)
    PROVE  QueueInv'
<1>0. QueueTypes
  BY DEF QueueInv
<1>1. /\ status' \in [Drafts -> DraftStatus]
      /\ \A d \in Drafts : Later(status[d], status'[d])
      /\ accepted' = accepted /\ raced' = raced /\ lost' = lost
  <2>1. CASE ReleaseExpiredLocks(t)
    BY <1>0, <2>1, PutIsLater DEF ReleaseExpiredLocks, ghosts
  <2>2. CASE MarkDraftFailed(t)
    BY <1>0, <2>2, PutIsLater DEF MarkDraftFailed, ghosts
  <2>3. CASE RequeueDraft(t)
    BY <1>0, <2>3, PutIsLater DEF RequeueDraft, ghosts
  <2> QED
    BY <2>1, <2>2, <2>3
<1>2. /\ tab' = [u \in Tabs |-> tab'[u]] /\ \A u \in Tabs : IsTab(tab'[u])
      /\ \A u \in Tabs : u # t => tab'[u] = tab[u]
      /\ tab'[t].at \notin AtWork /\ tab[t].at # "remove"
  <2>1. CASE ReleaseExpiredLocks(t)
    BY <1>0, <2>1, TabMoves DEF ReleaseExpiredLocks, AtWork
  <2>2. CASE MarkDraftFailed(t) \/ RequeueDraft(t)
    BY <1>0, <2>2, TabIsDone DEF MarkDraftFailed, RequeueDraft, AtWork
  <2> QED
    BY <2>1, <2>2
<1>3. QueueTypes'
  BY <1>0, <1>1, <1>2 DEF QueueTypes
<1>4. ASSUME NEW d \in Drafts PROVE DraftInv(d)'
  <2>1. /\ Works(t, d) => tab'[t].at # "remove" /\ (tab[t].at # "remove" \/ d \in lost' \cup raced')
        /\ tab'[t].at \in AtWork => tab[t].at \in AtWork /\ Current(tab'[t]) = Current(tab[t])
    BY <1>2 DEF AtWork
  <2>2. d \in lost \cup raced => d \in lost' \cup raced'
    BY <1>1
  <2> QED
    BY <1>1, <1>2, <2>1, <2>2, TabStep
<1> QED
  BY <1>3, <1>4 DEF QueueInv

(* The steps that leave every tab where it is.                             *)
LEMMA NoTabMovesInv ==
    ASSUME QueueInv,
           \/ \E t \in Tabs : (\E d \in Drafts : HandleDiscard(t, d)) \/ HandleClearAll(t)
           \/ \E d \in Drafts : QueueOfflineDraft(d) \/ LockExpires(d)
           \/ GoesOffline \/ GoesOnline \/ UNCHANGED queueVars
    PROVE  QueueInv'
<1>0. QueueTypes
  BY DEF QueueInv
<1>1. tab' = tab /\ accepted' = accepted /\ lost' = lost /\ raced' = raced
  BY DEF HandleDiscard, HandleClearAll, QueueOfflineDraft, LockExpires, GoesOffline, GoesOnline,
         queueVars, ghosts
<1>2. /\ status' \in [Drafts -> DraftStatus]
      /\ \A d \in Drafts : Later(status[d], status'[d])
  <2> DEFINE Goal == /\ status' \in [Drafts -> DraftStatus]
                     /\ \A d \in Drafts : Later(status[d], status'[d])
  <2>1. ASSUME NEW t \in Tabs, NEW e \in Drafts, HandleDiscard(t, e) PROVE Goal
    <3>1. PutStatus(e, "discarded")
      BY <2>1 DEF HandleDiscard, Gone, PutStatus
    <3> QED
      BY <1>0, <3>1, PutIsLater
  <2>2. ASSUME NEW t \in Tabs, HandleClearAll(t) PROVE Goal
    BY <1>0, <2>2, PutIsLater DEF HandleClearAll
  <2>3. ASSUME NEW e \in Drafts, QueueOfflineDraft(e) PROVE Goal
    <3>1. status' = [status EXCEPT ![e] = "pending"] /\ status[e] = "new"
      BY <2>3 DEF QueueOfflineDraft
    <3> QED
      BY <1>0, <3>1 DEF QueueTypes, DraftStatus, Later
  <2>4. CASE status' = status
    BY <1>0, <2>4, LaterStays DEF QueueTypes
  <2> QED
    BY <2>1, <2>2, <2>3, <2>4 DEF LockExpires, GoesOffline, GoesOnline, queueVars, storeVars
<1>3. ASSUME NEW d \in Drafts PROVE DraftInv(d)'
  <2>1. DraftInv(d) /\ \A u \in Tabs : Works(u, d)' <=> Works(u, d)
    BY <1>1 DEF QueueInv, Works
  <2> QED
    BY <1>1, <1>2, <2>1, DraftKept
<1>4. QueueTypes'
  BY <1>0, <1>1, <1>2 DEF QueueTypes
<1> QED
  BY <1>3, <1>4 DEF QueueInv

(* A claim of a draft that is pending and in nobody's hands finds one that *)
(* was never accepted; any other claim is a race.                          *)
LEMMA ClaimInv ==
    ASSUME QueueInv, NEW t \in Tabs, ClaimDraft(t)
    PROVE  QueueInv'
<1>0. QueueTypes
  BY DEF QueueInv
<1> DEFINE e == Current(tab[t])
<1>1. /\ tab[t].at = "claim" /\ PutStatus(e, "syncing") /\ Goto(t, "post")
      /\ accepted' = accepted /\ lost' = lost
      /\ raced' = IF status[e] # "pending" \/ BeingDelivered(t, e) THEN raced \cup {e} ELSE raced
  BY DEF ClaimDraft, Current
<1>2. /\ tab' = [u \in Tabs |-> tab'[u]] /\ \A u \in Tabs : IsTab(tab'[u])
      /\ tab'[t].at = "post" /\ Current(tab'[t]) = e
      /\ \A u \in Tabs : u # t => tab'[u] = tab[u]
  BY <1>0, <1>1, TabMoves
<1>3. /\ status' \in [Drafts -> DraftStatus]
      /\ \A d \in Drafts : Later(status[d], status'[d])
  BY <1>0, <1>1, PutIsLater
<1>4. QueueTypes'
  BY <1>0, <1>1, <1>2, <1>3 DEF QueueTypes
<1>5. \A d, u : u \in Tabs /\ u # t => (Works(u, d)' <=> Works(u, d)) /\ tab'[u].at = tab[u].at
  BY <1>2 DEF Works
<1>6. \A d : ~Works(t, d) /\ (Works(t, d)' => d = e)
  BY <1>1, <1>2 DEF Works, AtWork
<1>7. ASSUME NEW d \in Drafts PROVE DraftInv(d)'
  <2>0. DraftInv(d)
    BY DEF QueueInv
  <2>1. CASE d # e
    <3>1. \A u \in Tabs : (Works(u, d)' <=> Works(u, d)) /\ (Works(u, d) => tab'[u].at = tab[u].at)
      BY <1>5, <1>6, <2>1
    <3>2. d \in lost \cup raced => d \in lost' \cup raced'
      BY <1>1
    <3> QED
      BY <1>1, <1>3, <2>0, <3>1, <3>2, DraftKept
  <2>2. CASE d = e
    <3>1. status'[d] = "delivered" => accepted'[d] > 0
      BY <1>1, <1>3, <2>0 DEF Later, DraftInv
    <3>2. \A u \in Tabs : Works(u, d)' /\ tab'[u].at = "remove" => accepted'[d] > 0
      BY <1>1, <1>2, <1>5, <2>0 DEF DraftInv
    <3>3. ASSUME d \notin lost' \cup raced'
          PROVE  /\ accepted'[d] = 0 /\ status'[d] # "new"
                 /\ \A u \in Tabs : Works(u, d)' => u = t
      <4>1. status[d] = "pending" /\ ~BeingDelivered(t, d) /\ d \notin lost \cup raced
        BY <1>1, <2>2, <3>3
      <4>2. \A u \in Tabs : ~Works(u, d)
        BY <1>6, <4>1 DEF BeingDelivered, Works, AtWork, Current
      <4>3. accepted[d] \in 0..2
        BY <1>0 DEF QueueTypes
      <4>4. accepted[d] = 0
        BY <2>0, <4>1, <4>2, <4>3 DEF DraftInv
      <4>5. Later(status[d], status'[d])
        BY <1>3
      <4> QED
        BY <1>1, <1>5, <4>1, <4>2, <4>4, <4>5 DEF Later
    <3> QED
      BY <3>1, <3>2, <3>3 DEF DraftInv
  <2> QED
    BY <2>1, <2>2
<1> QED
  BY <1>4, <1>7 DEF QueueInv

(* The count of accepted POSTs stops at two.                               *)
LEMMA AcceptCounts ==
    ASSUME accepted \in [Drafts -> 0..2], NEW e, Accept(e)
    PROVE  /\ accepted' \in [Drafts -> 0..2]
           /\ \A d \in Drafts : d # e => accepted'[d] = accepted[d]
           /\ e \in Drafts => accepted'[e] = IF accepted[e] = 2 THEN 2 ELSE accepted[e] + 1
<1> DEFINE n == IF accepted[e] = 2 THEN 2 ELSE accepted[e] + 1
<1>1. accepted' = [accepted EXCEPT ![e] = n]
  BY DEF Accept
<1>2. e \in Drafts => n \in 0..2
  BY SMT
<1> HIDE DEF n
<1>3. /\ accepted' \in [Drafts -> 0..2]
      /\ e \in Drafts => accepted'[e] = n
  BY <1>1, <1>2
<1>4. \A d \in Drafts : d # e => accepted'[d] = accepted[d]
  BY <1>1
<1> QED
  BY <1>3, <1>4 DEF n

(* An accepted POST of a draft that one tab alone has in hand is the first *)
(* one, and the tab goes on to remove it, or the draft counts as lost.     *)
LEMMA AcceptInv ==
    ASSUME QueueInv, NEW t \in Tabs, tab[t].at = "post",
           Accept(Current(tab[t])), status' = status, raced' = raced,
           tab' = [u \in Tabs |-> tab'[u]], \A u \in Tabs : IsTab(tab'[u]),
           \A u \in Tabs : u # t => tab'[u] = tab[u],
           \/ lost' = lost /\ tab'[t].at = "remove" /\ Current(tab'[t]) = Current(tab[t])
           \/ /\ lost' = lost \cup {Current(tab[t])}
              /\ tab'[t].at \notin AtWork
                    \/ (tab'[t].at = "requeue" /\ Current(tab'[t]) = Current(tab[t]))
    PROVE  QueueInv'
<1>0. QueueTypes
  BY DEF QueueInv
<1> DEFINE e == Current(tab[t])
<1>1. /\ accepted' \in [Drafts -> 0..2]
      /\ \A d \in Drafts : d # e => accepted'[d] = accepted[d]
      /\ e \in Drafts => accepted'[e] = IF accepted[e] = 2 THEN 2 ELSE accepted[e] + 1
  BY <1>0, AcceptCounts DEF QueueTypes
<1>2. QueueTypes'
  BY <1>0, <1>1 DEF QueueTypes
<1>3. \A d, u : u \in Tabs /\ u # t => (Works(u, d)' <=> Works(u, d)) /\ tab'[u].at = tab[u].at
  BY DEF Works
<1>4. \A d : (Works(t, d)' => d = e) /\ (Works(t, d) <=> d = e)
  BY DEF Works, AtWork
<1>5. ASSUME NEW d \in Drafts PROVE DraftInv(d)'
  <2>0. DraftInv(d)
    BY DEF QueueInv
  <2>1. CASE d # e
    <3>1. \A u \in Tabs : (Works(u, d)' <=> Works(u, d)) /\ (Works(u, d) => tab'[u].at = tab[u].at)
      BY <1>3, <1>4, <2>1
    <3>2. d \in lost \cup raced => d \in lost' \cup raced'
      OBVIOUS
    <3> QED
      BY <1>1, <2>0, <2>1, <3>1, <3>2, LaterStays, DraftKept
  <2>2. CASE d = e
    <3>0. accepted[d] \in 0..2
      BY <1>0 DEF QueueTypes
    <3>1. accepted'[d] > 0
      BY <1>1, <2>2, <3>0
    <3>2. ASSUME d \notin lost' \cup raced'
          PROVE  /\ accepted'[d] = 1 /\ status'[d] # "new"
                 /\ Works(t, d)' /\ tab'[t].at = "remove"
                 /\ \A u \in Tabs : Works(u, d)' => u = t
      <4>1. d \notin lost \cup raced /\ tab'[t].at = "remove" /\ Current(tab'[t]) = e
        BY <2>2, <3>2
      <4>2. Works(t, d)'
        BY <2>2, <4>1 DEF Works, AtWork
      <4>3. accepted[d] = 0 /\ status[d] # "new" /\ \A u \in Tabs : Works(u, d) => u = t
        BY <1>4, <2>0, <2>2, <4>1 DEF DraftInv
      <4> QED
        BY <1>1, <1>3, <2>2, <4>1, <4>2, <4>3
    <3> QED
      BY <3>1, <3>2 DEF DraftInv
  <2> QED
    BY <2>1, <2>2
<1> QED
  BY <1>2, <1>5 DEF QueueInv

(* A draft that was accepted leaves the store as delivered, unless it was  *)
(* discarded before.                                                       *)
LEMMA RemoveInv ==
    ASSUME QueueInv, NEW t \in Tabs, RemoveDraft(t)
    PROVE  QueueInv'
<1>0. QueueTypes
  BY DEF QueueInv
<1> DEFINE e == Current(tab[t])
<1>1. /\ tab[t].at = "remove" /\ NextDraft(t)
      /\ status' = IF Stored(e) THEN [status EXCEPT ![e] = "delivered"] ELSE status
      /\ accepted' = accepted /\ lost' = lost /\ raced' = raced
  BY DEF RemoveDraft, Gone, ghosts, Current
<1>2. /\ tab' = [u \in Tabs |-> tab'[u]] /\ \A u \in Tabs : IsTab(tab'[u])
      /\ tab'[t].at \in {"claim", "idle"}
      /\ \A u \in Tabs : u # t => tab'[u] = tab[u]
  BY <1>0, <1>1, TabIsDone
<1>3. /\ status' \in [Drafts -> DraftStatus]
      /\ \A d \in Drafts : d # e => status'[d] = status[d]
      /\ e \in Drafts => status'[e] = IF Stored(e) THEN "delivered" ELSE status[e]
  BY <1>0, <1>1 DEF QueueTypes, DraftStatus
<1>4. QueueTypes'
  BY <1>0, <1>1, <1>2, <1>3 DEF QueueTypes
<1>5. \A d, u : u \in Tabs /\ u # t => (Works(u, d)' <=> Works(u, d)) /\ tab'[u].at = tab[u].at
  BY <1>2 DEF Works
<1>6. \A d : ~Works(t, d)' /\ (Works(t, d) <=> d = e)
  BY <1>1, <1>2 DEF Works, AtWork
<1>7. ASSUME NEW d \in Drafts PROVE DraftInv(d)'
  <2>0. DraftInv(d)
    BY DEF QueueInv
  <2>1. CASE d # e
    <3>1. \A u \in Tabs : (Works(u, d)' <=> Works(u, d)) /\ (Works(u, d) => tab'[u].at = tab[u].at)
      BY <1>5, <1>6, <2>1
    <3>2. Later(status[d], status'[d])
      BY <1>3, <2>1, LaterStays
    <3> QED
      BY <1>1, <2>0, <3>1, <3>2, DraftKept
  <2>2. CASE d = e
    <3>1. accepted[d] > 0
      BY <1>1, <1>6, <2>0, <2>2 DEF DraftInv
    <3>2. ASSUME d \notin lost' \cup raced'
          PROVE  /\ accepted[d] <= 1 /\ status'[d] \in {"delivered", "discarded"}
                 /\ \A u \in Tabs : ~Works(u, d)'
      <4>1. /\ accepted[d] <= 1 /\ status[d] # "new"
            /\ \A u \in Tabs : Works(u, d) => u = t
        BY <1>1, <1>6, <2>0, <2>2, <3>2 DEF DraftInv
      <4>2. status[d] \in DraftStatus
        BY <1>0 DEF QueueTypes
      <4>3. status'[d] \in {"delivered", "discarded"}
        BY <1>3, <2>2, <4>1, <4>2 DEF Stored, DraftStatus
      <4> QED
        BY <1>5, <1>6, <4>1, <4>3
    <3>3. \A u \in Tabs : Works(u, d)' /\ tab'[u].at = "remove" => accepted'[d] > 0
      BY <1>1, <3>1
    <3> QED
      BY <1>1, <3>1, <3>2, <3>3 DEF DraftInv
  <2> QED
    BY <2>1, <2>2
<1> QED
  BY <1>4, <1>7 DEF QueueInv

(* The inductive invariant of the offline queue.                           *)
LEMMA QueueInvHolds == QueueSpec => []QueueInv
<1>1. QueueInit => QueueInv
  <2> SUFFICES ASSUME QueueInit PROVE QueueInv
    OBVIOUS
  <2>1. IsTab(IdleTab) /\ IdleTab.at = "idle"
    BY DEF IsTab, IdleTab
  <2>2. /\ tab = [t \in Tabs |-> tab[t]]
        /\ \A t \in Tabs : IsTab(tab[t]) /\ tab[t].at = "idle"
    BY <2>1 DEF QueueInit
  <2>3. QueueTypes
    BY <2>2 DEF QueueInit, QueueTypes, DraftStatus
  <2>4. \A d \in Drafts : DraftInv(d)
    BY <2>2 DEF QueueInit, DraftInv, Works, AtWork
  <2> QED
    BY <2>3, <2>4 DEF QueueInv
<1>2. QueueInv /\ [QueueNext]_queueVars => QueueInv'
  <2> SUFFICES ASSUME QueueInv, [QueueNext]_queueVars PROVE QueueInv'
    OBVIOUS
  <2>0. QueueTypes
    BY DEF QueueInv
  <2>1. ASSUME NEW t \in Tabs, Drain(t) PROVE QueueInv'
    <3>1. CASE PostAccepted(t)
      <4>1. /\ tab[t].at = "post" /\ Accept(Current(tab[t])) /\ Goto(t, "remove")
            /\ status' = status /\ raced' = raced /\ lost' = lost
        BY <3>1 DEF PostAccepted, storeVars, Current
      <4> QED
        BY <2>0, <4>1, TabMoves, AcceptInv
    <3>2. CASE ~PostAccepted(t)
      BY <2>1, <3>2, DrainMovesInv, DrainWritesInv, ClaimInv, RemoveInv DEF Drain
    <3> QED
      BY <3>1, <3>2
  <2>2. ASSUME NEW t \in Tabs, QueueFaults(t) PROVE QueueInv'
    <3>1. CASE PostAnswerLost(t)
      <4>1. /\ tab[t].at = "post" /\ Accept(Current(tab[t])) /\ Goto(t, "requeue")
            /\ status' = status /\ raced' = raced /\ lost' = lost \cup {Current(tab[t])}
        BY <3>1 DEF PostAnswerLost, storeVars, Current
      <4> QED
        BY <2>0, <4>1, TabMoves, AcceptInv
    <3>2. CASE TabCloses(t)
      <4> DEFINE r == [at |-> "closed", todo |-> << >>]
      <4>1. IsTab(r) /\ r.at = "closed"
        BY DEF IsTab
      <4>2. tab' = [tab EXCEPT ![t] = r] /\ status' = status /\ raced' = raced
        BY <3>2 DEF TabCloses, storeVars
      <4> HIDE DEF r
      <4>3. /\ tab' = [u \in Tabs |-> tab'[u]] /\ \A u \in Tabs : IsTab(tab'[u])
            /\ tab'[t].at = "closed" /\ tab'[t].at \notin AtWork
            /\ \A u \in Tabs : u # t => tab'[u] = tab[u]
        BY <2>0, <4>1, <4>2, TabReplaced DEF AtWork
      <4>4. CASE tab[t].at = "post" /\ Accept(Current(tab[t])) /\ lost' = lost \cup {Current(tab[t])}
        BY <4>2, <4>3, <4>4, AcceptInv
      <4>5. CASE /\ accepted' = accepted
                 /\ \/ tab[t].at # "remove" /\ lost' = lost
                    \/ tab[t].at = "remove" /\ lost' = lost \cup {Current(tab[t])}
        <5>1. QueueTypes'
          BY <2>0, <4>2, <4>3, <4>5 DEF QueueTypes
        <5>2. ASSUME NEW d \in Drafts PROVE DraftInv(d)'
          <6>1. /\ Works(t, d) => /\ tab'[t].at # "remove"
                                  /\ tab[t].at # "remove" \/ d \in lost' \cup raced'
                /\ d \in lost \cup raced => d \in lost' \cup raced'
            BY <4>2, <4>3, <4>5 DEF Works
          <6>2. Later(status[d], status'[d]) /\ accepted'[d] = accepted[d]
            BY <4>2, <4>5, LaterStays
          <6> QED
            BY <4>3, <6>1, <6>2, TabStep
        <5> QED
          BY <5>1, <5>2 DEF QueueInv
      <4> QED
        BY <3>2, <4>4, <4>5 DEF TabCloses, Current
    <3> QED
      BY <2>2, <3>1, <3>2, DrainMovesInv DEF QueueFaults
  <2> QED
    BY <2>1, <2>2, NoTabMovesInv DEF QueueNext
<1> QED
  BY <1>1, <1>2, PTL DEF QueueSpec

(* For any number of tabs, drafts and faults: a draft reaches the server   *)
(* twice only if an accepted POST went unseen or a claim raced, and none   *)
(* is marked delivered that was never accepted.                            *)
THEOREM SecondPostsExplained == QueueSpec => []SecondPostIsExplained
BY QueueInvHolds, QueueInvSuffices, PTL
=============================================================================
