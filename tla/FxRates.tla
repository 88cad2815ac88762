------------------------------ MODULE FxRates -------------------------------
(***************************************************************************)
(* AnchorService.getFxRate, its Redis cache and circuit breaker, under     *)
(* TransferSimulationService.simulate, which prices a path hop by hop.     *)
(*                                                                         *)
(* Time is the ages of things, advanced together by Tick and capped.  A    *)
(* rate is a number; two rates within Near of each other are within the    *)
(* 0.5 % the cache may keep.                                               *)
(***************************************************************************)
EXTENDS Integers, Sequences, FiniteSetsExt

CONSTANTS Simulations,  \* simulate calls in flight at once
          Path,         \* Path[s]: the currency pairs of simulation s, in order
          Rates,        \* Rates[p]: what the provider may quote for p
          MaxCacheAge,  \* ticks a rate stays fresh (30 s)
          CircuitReset, \* ticks the circuit stays open (60 s)
          FailureThreshold,
          NoRate

ASSUME FxAssumption ==
    /\ MaxCacheAge \in Nat /\ CircuitReset \in Nat \ {0} /\ FailureThreshold \in Nat \ {0}
    /\ \A s \in Simulations : Path[s] \in Seq(DOMAIN Rates) /\ Path[s] # << >>
    /\ \A p \in DOMAIN Rates : Rates[p] \subseteq Int

VARIABLES cache,    \* cache[p]: the Redis entry, or NoRate
          breaker,  \* breaker[p]: failures in a row, ticks since the circuit opened
          sim       \* sim[s]: a simulation

fxVars == <<cache, breaker, sim>>

PairSet == DOMAIN Rates
AllRates == UNION {Rates[p] : p \in PairSet}

(* An age of Stale or more is past MaxCacheAge, however much more.         *)
Stale == MaxCacheAge + 1

(* quote: history, what the provider answered when the entry was written.  *)
Entry == [rate : AllRates, quote : AllRates, age : 0..Stale]

(* hops: what getFxRate answered for the first pairs of the path; cached:  *)
(* what the call for the next pair read; entry: what it is about to write. *)
Simulation == [at : {"idle", "hop", "fetch", "write", "done"},
               hops : Seq(Entry \cup {NoRate}),
               cached : Entry \cup {NoRate}, entry : Entry \cup {NoRate}]

IdleSimulation == [at |-> "idle", hops |-> << >>, cached |-> NoRate, entry |-> NoRate]

FxTypeOK ==
    /\ cache \in [PairSet -> Entry \cup {NoRate}]
    /\ breaker \in [PairSet -> [failures : 0..FailureThreshold, open : 0..CircuitReset]]
    /\ \A s \in Simulations : sim[s] \in Simulation /\ Len(sim[s].hops) <= Len(Path[s])

FxInit ==
    /\ cache = [p \in PairSet |-> NoRate]
    /\ breaker = [p \in PairSet |-> [failures |-> 0, open |-> CircuitReset]]
    /\ sim = [s \in Simulations |-> IdleSimulation]

-----------------------------------------------------------------------------
Near(a, b) == a - b \in -1..1

IsCircuitOpen(p) == breaker[p].open < CircuitReset

Older(e) == IF e = NoRate THEN e ELSE [e EXCEPT !.age = IF @ = Stale THEN Stale ELSE @ + 1]

PairOf(s) == Path[s][Len(sim[s].hops) + 1]

(* The answer of getFxRate: the next hop, or the end of the path.          *)
Answer(s, e) ==
    LET hops == Append(sim[s].hops, e) IN
    sim' = [sim EXCEPT ![s] = [IdleSimulation EXCEPT
                !.at = IF Len(hops) = Len(Path[s]) THEN "done" ELSE "hop", !.hops = hops]]

(* simulate: the amount, the trustline and the path are checked without    *)
(* waiting; a blocked simulation prices no hop that matters.               *)
Simulate(s) ==
    /\ sim[s].at \in {"idle", "done"}
    /\ sim' = [sim EXCEPT ![s] = [IdleSimulation EXCEPT !.at = "hop"]]
    /\ UNCHANGED <<cache, breaker>>

(* readCache, then the breaker: an open circuit answers from the cache.    *)
GetFxRate(s) ==
    LET p == PairOf(s) IN
    /\ sim[s].at = "hop"
    /\ \/ /\ IsCircuitOpen(p)
          /\ Answer(s, cache[p])
       \/ /\ ~IsCircuitOpen(p)
          /\ sim' = [sim EXCEPT ![s].at = "fetch", ![s].cached = cache[p]]
    /\ UNCHANGED <<cache, breaker>>

(* Keep the cached rate whatever the provider says.                        *)
AlwaysKeepCached(cached, q) == IF cached # NoRate THEN cached.rate ELSE q

(* The cached rate is kept while the provider stays near it.               *)
KeepOrBust(cached, q) == IF cached # NoRate /\ Near(q, cached.rate) THEN cached.rate ELSE q

FetchSucceeds(s) ==
    LET p == PairOf(s) IN
    /\ sim[s].at = "fetch"
    /\ breaker' = [breaker EXCEPT ![p] = [failures |-> 0, open |-> CircuitReset]]
    /\ \E q \in Rates[p] :
          sim' = [sim EXCEPT ![s].at = "write", ![s].cached = NoRate,
                     ![s].entry = [rate |-> KeepOrBust(sim[s].cached, q), quote |-> q, age |-> 0]]
    /\ UNCHANGED cache

(* The provider does not quote the pair: no failure, and the old entry.    *)
FetchUnquoted(s) ==
    /\ sim[s].at = "fetch"
    /\ breaker' = [breaker EXCEPT ![PairOf(s)] = [failures |-> 0, open |-> CircuitReset]]
    /\ Answer(s, sim[s].cached)
    /\ UNCHANGED cache

(* The provider is unreachable.  At the threshold the circuit opens, and a *)
(* probe that fails opens it again.                                        *)
FetchFails(s) ==
    LET p == PairOf(s)
        f == breaker[p].failures IN
    /\ sim[s].at = "fetch"
    /\ breaker' = [breaker EXCEPT ![p] =
                      IF f + 1 >= FailureThreshold
                      THEN [failures |-> FailureThreshold, open |-> 0]
                      ELSE [@ EXCEPT !.failures = f + 1]]
    /\ Answer(s, sim[s].cached)
    /\ UNCHANGED cache

WriteCache(s) ==
    /\ sim[s].at = "write"
    /\ cache' = [cache EXCEPT ![PairOf(s)] = sim[s].entry]
    /\ Answer(s, sim[s].entry)
    /\ UNCHANGED breaker

(* Redis fails under getFxRate and simulate falls back to the static rate. *)
RateUnavailable(s) ==
    /\ sim[s].at \in {"hop", "write"}
    /\ Answer(s, NoRate)
    /\ UNCHANGED <<cache, breaker>>

(* The retention of an entry is longer than its freshness.                 *)
CacheExpires(p) ==
    /\ cache[p] # NoRate /\ cache[p].age = Stale
    /\ cache' = [cache EXCEPT ![p] = NoRate]
    /\ UNCHANGED <<breaker, sim>>

Tick ==
    /\ cache' = [p \in PairSet |-> Older(cache[p])]
    /\ breaker' = [p \in PairSet |-> [breaker[p] EXCEPT !.open =
                      IF @ = CircuitReset THEN @ ELSE @ + 1]]
    /\ sim' = [s \in Simulations |-> [sim[s] EXCEPT
                  !.cached = Older(@), !.entry = Older(@),
                  !.hops = [i \in DOMAIN @ |-> Older(@[i])]]]

FxNext ==
    \/ \E s \in Simulations :
          \/ Simulate(s) \/ GetFxRate(s) \/ FetchSucceeds(s) \/ FetchUnquoted(s)
          \/ FetchFails(s) \/ WriteCache(s) \/ RateUnavailable(s)
    \/ \E p \in PairSet : CacheExpires(p)
    \/ Tick

FxSpec == FxInit /\ [][FxNext]_fxVars

-----------------------------------------------------------------------------
Remaining(e) == MaxCacheAge - e.age

(* The expiry of the freshest hop.                                         *)
LatestExpiry(hops) == Max({Remaining(hops[i]) : i \in DOMAIN hops})

(* rateExpiresAt, as ticks from now: that of the hop that goes stale first.*)
RateExpiresAt(hops) == Min({Remaining(hops[i]) : i \in DOMAIN hops})

RateFresh(hops) == \A i \in DOMAIN hops : hops[i] # NoRate

(* A quote that has not expired is one the provider stands behind: every   *)
(* hop was confirmed no longer than MaxCacheAge ago, by an answer within   *)
(* 0.5 % of the rate used, whatever calls raced for the cache, the breaker *)
(* and the clock (getFxRate, simulate).                                    *)
LiveQuoteIsConfirmed ==
    \A s \in Simulations :
        LET hops == sim[s].hops IN
        sim[s].at = "done" /\ RateFresh(hops) /\ RateExpiresAt(hops) >= 0 =>
            \A i \in DOMAIN hops :
                hops[i].age <= MaxCacheAge /\ Near(hops[i].rate, hops[i].quote)
=============================================================================
