------------------------------ MODULE MCClient ------------------------------
(***************************************************************************)
(* The browser's offline queue and wallet store, and the API's RPC pool    *)
(* and path routing, share no state: one run checks them side by side, the *)
(* initial state choosing which one is in focus and steps.                 *)
(***************************************************************************)
EXTENDS OfflineQueue, WalletStore, RpcPool, DexRouting

CONSTANTS d1, d2, t1, t2, w1, w2, c1, c2, e1, e2, o1

(* 1: a whole unit or more, where a hop costs a thousandth; 0: a           *)
(* thousandth of a unit, where the fee makes it six.                       *)
MCToll == [a \in {0, 1} |-> [h \in 0..1 |-> IF h = 0 THEN 1000 ELSE IF a = 1 THEN 1001 ELSE 1006]]

VARIABLE focus

vars == <<queueVars, storeViewVars, rpcVars, dexVars, focus>>

ClientInit ==
    /\ QueueInit /\ StoreInit /\ RpcInit /\ DexInit
    /\ focus \in {"queue", "store", "rpc", "dex"}

ClientNext ==
    /\ UNCHANGED focus
    /\ \/ focus = "queue" /\ QueueNext /\ UNCHANGED <<storeViewVars, rpcVars, dexVars>>
       \/ focus = "store" /\ StoreNext /\ UNCHANGED <<queueVars, rpcVars, dexVars>>
       \/ focus = "rpc" /\ RpcNext /\ UNCHANGED <<queueVars, storeViewVars, dexVars>>
       \/ focus = "dex" /\ DexNext /\ UNCHANGED <<queueVars, storeViewVars, rpcVars>>

(* The fairness of OfflineQueue and RpcPool, for the one in focus.         *)
ClientFairness ==
    /\ \A t \in Tabs : WF_queueVars(focus = "queue" /\ Drain(t))
    /\ \A d \in Drafts : WF_queueVars(focus = "queue" /\ LockExpires(d))
    /\ \A e \in Endpoints : WF_rpcVars(focus = "rpc" /\ PollEndpoint(e))

ClientSpec == ClientInit /\ [][ClientNext]_vars /\ ClientFairness

(* Every variable of the four parts has its type.                          *)
ClientTypeOK == QueueTypeOK /\ StoreTypeOK /\ RpcTypeOK /\ DexTypeOK
=============================================================================
