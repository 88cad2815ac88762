----------------------------- MODULE DexRouting -----------------------------
(***************************************************************************)
(* DexService: quoting a path payment and preparing it later, when the     *)
(* order books may have moved.  A rate is an integer number of units per   *)
(* unit of source.  rankPaths weighs a path by -ln(rate) + 0.001 per hop + *)
(* fee / sourceAmount, the fee being 50 stroops more for each hop: it      *)
(* compares the rates after each was divided by the toll of its hops,      *)
(* exp(hops * (0.001 + 0.000005 / sourceAmount)).                          *)
(***************************************************************************)
EXTENDS Naturals, FiniteSets, FiniteSetsExt

CONSTANTS PathRates,      \* rates a path can have
          MaxHops,        \* intermediate assets of a path
          SourceAmounts,  \* amounts a client may send
          Toll,           \* Toll[a][h]: the toll of h hops for amount a, to scale
          Slippages,      \* maxSlippagePct, in per mille
          NoPath

Paths == [rate : PathRates, hops : 0..MaxHops]

(* A toll grows with the hops.  Paths of different rates do not weigh the  *)
(* same: between those Horizon's order would decide, call by call.         *)
ASSUME DexAssumption ==
    /\ PathRates \subseteq Nat /\ MaxHops \in Nat /\ Slippages \subseteq 0..1000
    /\ Toll \in [SourceAmounts -> [0..MaxHops -> Nat \ {0}]]
    /\ \A a \in SourceAmounts, h \in 0..MaxHops : Toll[a][0] <= Toll[a][h] /\ Toll[a][h] <= Toll[a][MaxHops]
    /\ \A a \in SourceAmounts, p, q \in Paths :
          p.rate * Toll[a][q.hops] = q.rate * Toll[a][p.hops] => p.rate = q.rate

VARIABLES amount,     \* the sourceAmount the client asks with
          market,     \* the paths Horizon finds for it
          quote,      \* the rate the client was quoted, and by which call
          moved,      \* whether the market or the amount changed since the quote
          payment     \* what prepareGuardedPathPayment just did, and with what

dexVars == <<amount, market, quote, moved, payment>>

Quoted == [rate : PathRates \cup {0}, from : {"none", "ranked", "current"}]
NoQuoted == [rate |-> 0, from |-> "none"]

(* best: the highest rate there was; of: the quote it was held against.     *)
NoPayment == [outcome |-> "none", path |-> NoPath, best |-> 0, amount |-> 0, slippage |-> 0,
              of |-> NoQuoted]

DexTypeOK ==
    /\ amount \in SourceAmounts
    /\ market \subseteq Paths
    /\ quote \in Quoted
    /\ moved \in BOOLEAN
    /\ payment.outcome \in {"none", "prepared", "refused"}
    /\ payment.path \in Paths \cup {NoPath}

DexInit ==
    /\ amount \in SourceAmounts
    /\ market = {} /\ quote = NoQuoted /\ moved = FALSE /\ payment = NoPayment

(* bfWeight of p is below that of q.                                       *)
Better(a, p, q) == p.rate * Toll[a][q.hops] > q.rate * Toll[a][p.hops]

(* The first of rankPaths; paths of equal weight come in Horizon's order.  *)
RankedFirst(a, paths) == {p \in paths : \A q \in paths : ~Better(a, q, p)}

(* findOptimalPaths: the client takes the first path's effectiveRate.      *)
FindOptimalPaths ==
    /\ market # {}
    /\ \E p \in RankedFirst(amount, market) : quote' = [rate |-> p.rate, from |-> "ranked"]
    /\ moved' = FALSE /\ payment' = NoPayment
    /\ UNCHANGED <<amount, market>>

(* fetchCurrentRate: the highest rate of all, however many hops it takes.  *)
FetchCurrentRate ==
    /\ market # {}
    /\ quote' = [rate |-> Max({p.rate : p \in market}), from |-> "current"]
    /\ moved' = FALSE /\ payment' = NoPayment
    /\ UNCHANGED <<amount, market>>

(* A check that wants more than the minimum.                               *)
CheckStrictly(quoted, actual, s) == actual * 1000 > quoted * (1000 - s)

CheckSlippage(quoted, actual, s) == actual * 1000 >= quoted * (1000 - s)

(* prepareGuardedPathPayment finds the paths again.  (The destMin it adds  *)
(* is the minimum of the check times the amount.)                          *)
PrepareGuardedPathPayment(s) ==
    /\ quote # NoQuoted /\ market # {}
    /\ \E p \in RankedFirst(amount, market) :
          payment' = [outcome |-> IF CheckSlippage(quote.rate, p.rate, s) THEN "prepared"
                                                                         ELSE "refused",
                      path |-> p, best |-> Max({q.rate : q \in market}), amount |-> amount,
                      slippage |-> s, of |-> quote]
    /\ UNCHANGED <<amount, market, quote, moved>>

(* An offer appears or is taken.                                           *)
MarketMoves ==
    /\ \E p \in Paths : market' = SymDiff(market, {p})
    /\ moved' = TRUE /\ payment' = NoPayment
    /\ UNCHANGED <<amount, quote>>

(* The client turns to another amount with the quote it has.               *)
ChangeAmount(a) ==
    /\ a # amount
    /\ amount' = a
    /\ moved' = TRUE /\ payment' = NoPayment
    /\ UNCHANGED <<market, quote>>

DexNext ==
    \/ FindOptimalPaths \/ FetchCurrentRate \/ MarketMoves
    \/ \E a \in SourceAmounts : ChangeAmount(a)
    \/ \E s \in Slippages : PrepareGuardedPathPayment(s)

DexSpec == DexInit /\ [][DexNext]_dexVars

-----------------------------------------------------------------------------
(* The path of a prepared payment is worse than the best one by no more    *)
(* than the toll of MaxHops hops for that amount.  While neither market    *)
(* nor amount changed, a quote of findOptimalPaths is never refused, and   *)
(* one of fetchCurrentRate, which does not look at hops, only when that    *)
(* toll is more than the slippage allowed.                                 *)
GuardHonoursQuote ==
    LET least == Toll[payment.amount][0]
        most == Toll[payment.amount][MaxHops]
    IN  /\ payment.outcome = "prepared" => payment.best * least <= payment.path.rate * most
        /\ payment.outcome = "refused" /\ ~moved =>
               payment.of.from = "current" /\ 1000 * least < (1000 - payment.slippage) * most
=============================================================================
