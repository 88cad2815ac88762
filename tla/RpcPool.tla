------------------------------- MODULE RpcPool -------------------------------
(***************************************************************************)
(* RpcClientService: the endpoints of one kind (Soroban or Horizon), what  *)
(* the API believes about each, and the two things that change it: the     *)
(* health poll, and the operations that are tried at one endpoint after    *)
(* the other.  Latencies and weights only order the routable endpoints, so *)
(* the order is free; a poll and an attempt take effect when their answer  *)
(* arrives.                                                                *)
(***************************************************************************)
EXTENDS Naturals, FiniteSets, FiniteSetsExt

CONSTANTS Endpoints,
          Operations,     \* operations in flight at once
          MaxBlockLag,    \* RPC_MAX_BLOCK_LAG
          MaxLedger       \* bound on the ledger's height, and on what is reported

VARIABLES believed,   \* believed[e]: the RpcEndpointState of e
          steady,     \* the endpoints that answer and keep up from now on
          ledger,     \* the height of the network's ledger
          todo        \* todo[o]: the ranked endpoints operation o has not tried

rpcVars == <<believed, steady, ledger, todo>>

(* height 0 is null.  failures stops at 2, the threshold for unhealthy.    *)
EndpointState == [status : {"healthy", "degraded", "unhealthy", "rate_limited"},
                  height : 0..MaxLedger, failures : 0..2, cooling : BOOLEAN]

RpcTypeOK ==
    /\ believed \in [Endpoints -> EndpointState]
    /\ steady \subseteq Endpoints
    /\ ledger \in 1..MaxLedger
    /\ todo \in [Operations -> SUBSET Endpoints]

RpcInit ==
    /\ believed = [e \in Endpoints |-> [status |-> "degraded", height |-> 0, failures |-> 0,
                                        cooling |-> FALSE]]
    /\ steady = {} /\ ledger = 1
    /\ todo = [o \in Operations |-> {}]

(* The highest block any endpoint ever reported, a dead one's included.    *)
HighestBlock == Max({believed[e].height : e \in Endpoints})

IsRoutable(e) ==
    /\ believed[e].status \in {"healthy", "degraded"}
    /\ ~believed[e].cooling
    /\ believed[e].height # 0 => HighestBlock - believed[e].height <= MaxBlockLag

MarkSuccess(s) == [s EXCEPT !.status = "healthy", !.failures = 0, !.cooling = FALSE]

MarkFailure(s, limited) ==
    LET failures == IF s.failures = 2 THEN 2 ELSE s.failures + 1 IN
    IF limited
      THEN [s EXCEPT !.status = "rate_limited", !.failures = failures, !.cooling = TRUE]
      ELSE [s EXCEPT !.status = IF failures >= 2 THEN "unhealthy" ELSE "degraded",
                     !.failures = failures]

(* A poll that leaves out what is not in rotation.                         *)
PollRoutable(e) ==
    /\ IsRoutable(e)
    /\ \/ \E h \in 1..MaxLedger :
             /\ e \in steady => h <= ledger /\ ledger - h <= MaxBlockLag
             /\ believed' = [believed EXCEPT ![e] = MarkSuccess([@ EXCEPT !.height = h])]
       \/ \E limited \in BOOLEAN :
             /\ e \notin steady
             /\ believed' = [believed EXCEPT ![e] = MarkFailure(@, limited)]
    /\ UNCHANGED <<steady, ledger, todo>>

(* pollEndpoint, of every endpoint, every RPC_HEALTH_INTERVAL_MS: the      *)
(* height, whatever number the endpoint answers, is stored before the      *)
(* endpoint is marked.                                                     *)
PollEndpoint(e) ==
    /\ \/ \E h \in 1..MaxLedger :
             /\ e \in steady => h <= ledger /\ ledger - h <= MaxBlockLag
             /\ believed' = [believed EXCEPT ![e] = MarkSuccess([@ EXCEPT !.height = h])]
       \/ \E limited \in BOOLEAN :
             /\ e \notin steady
             /\ believed' = [believed EXCEPT ![e] = MarkFailure(@, limited)]
    /\ UNCHANGED <<steady, ledger, todo>>

(* withEndpoint ranks the routable endpoints once, when it starts; without *)
(* any it throws.                                                          *)
RankHealthy(o) ==
    /\ todo[o] = {}
    /\ todo' = [todo EXCEPT ![o] = {e \in Endpoints : IsRoutable(e)}]
    /\ todo'[o] # {}
    /\ UNCHANGED <<believed, steady, ledger>>

OperationSucceeds(o, e) ==
    /\ e \in todo[o]
    /\ believed' = [believed EXCEPT ![e] = MarkSuccess(@)]
    /\ todo' = [todo EXCEPT ![o] = {}]
    /\ UNCHANGED <<steady, ledger>>

(* Any error counts against the endpoint, also one the operation earns by  *)
(* itself at an endpoint that works, such as an account that is not found. *)
OperationFails(o, e, limited) ==
    /\ e \in todo[o]
    /\ e \in steady => ~limited
    /\ believed' = [believed EXCEPT ![e] = MarkFailure(@, limited)]
    /\ todo' = [todo EXCEPT ![o] = @ \ {e}]
    /\ UNCHANGED <<steady, ledger>>

(* RPC_RATE_LIMIT_COOLDOWN_MS after the last 429.                          *)
CooldownEnds(e) ==
    /\ believed[e].cooling
    /\ believed' = [believed EXCEPT ![e].cooling = FALSE]
    /\ UNCHANGED <<steady, ledger, todo>>

BecomesSteady(e) ==
    /\ e \notin steady
    /\ steady' = steady \cup {e}
    /\ UNCHANGED <<believed, ledger, todo>>

LedgerCloses ==
    /\ ledger < MaxLedger
    /\ ledger' = ledger + 1
    /\ UNCHANGED <<believed, steady, todo>>

RpcNext ==
    \/ \E e \in Endpoints : PollEndpoint(e) \/ CooldownEnds(e) \/ BecomesSteady(e)
    \/ \E o \in Operations :
          \/ RankHealthy(o)
          \/ \E e \in Endpoints : \/ OperationSucceeds(o, e)
                                  \/ \E limited \in BOOLEAN : OperationFails(o, e, limited)
    \/ LedgerCloses

(* The monitor's interval polls every endpoint again and again.            *)
RpcFairness == \A e \in Endpoints : WF_rpcVars(PollEndpoint(e))

RpcSpec == RpcInit /\ [][RpcNext]_rpcVars /\ RpcFairness

-----------------------------------------------------------------------------
(* An endpoint that works and keeps within the allowed lag is back in      *)
(* rotation again and again, whatever happened to it before (429s, two     *)
(* failures in a row, a poll that found it behind) and whatever errors the *)
(* operations themselves earn, unless another endpoint has reported a      *)
(* block that does not exist: highestBlock keeps that for as long as no    *)
(* later poll of it succeeds, and everybody else lags behind it.           *)
SteadyEndpointReturns ==
    \A e \in Endpoints :
        (e \in steady) ~>
            IsRoutable(e) \/ \E f \in Endpoints \ {e} : believed[f].height > ledger
=============================================================================
