----------------------------- MODULE RedisLock -----------------------------
(***************************************************************************)
(* RedisLockService: a lease per resource, taken with SET NX PX, extended  *)
(* by a heartbeat and released by compare-and-delete on a random token.    *)
(*                                                                         *)
(* A holder is named by its process.  A process acquires a resource only   *)
(* when the key is absent and releases before it acquires again, so its    *)
(* name identifies the token of its latest acquisition.                    *)
(***************************************************************************)
CONSTANTS Holders, Resources, Nobody

VARIABLES lock,    \* lock[x]: whose token the Redis key holds
          lost,    \* lost[h]: the closure's flag, set by a failed heartbeat
          lapsed   \* lapsed[x]: history, the holders whose last lease on x ran out

lockVars == <<lock, lost, lapsed>>

LockTypeOK ==
    /\ lock \in [Resources -> Holders \cup {Nobody}]
    /\ lost \in [Holders -> BOOLEAN]
    /\ lapsed \in [Resources -> SUBSET Holders]

LockInit ==
    /\ lock = [x \in Resources |-> Nobody]
    /\ lost = [h \in Holders |-> FALSE]
    /\ lapsed = [x \in Resources |-> {}]

(* The closure of an acquisition goes away, with its flag and its history. *)
Forget(h) ==
    /\ lost' = [lost EXCEPT ![h] = FALSE]
    /\ lapsed' = [x \in Resources |-> lapsed[x] \ {h}]

(* A SET without NX: it takes the key from whoever holds it.               *)
AcquireWithoutNX(h, x) ==
    /\ lock' = [lock EXCEPT ![x] = h]
    /\ Forget(h)

(* acquire, the SET NX that succeeds: a fresh token, lost = false.         *)
Acquire(h, x) ==
    /\ lock[x] = Nobody
    /\ lock' = [lock EXCEPT ![x] = h]
    /\ Forget(h)

(* The key's TTL runs out in Redis; its holder is not told.                *)
LeaseExpires(x) ==
    /\ lock[x] # Nobody
    /\ lapsed' = [lapsed EXCEPT ![x] = @ \cup {lock[x]}]
    /\ lock' = [lock EXCEPT ![x] = Nobody]
    /\ UNCHANGED lost

(* heartbeat: extend finds another token or none.  A successful extend     *)
(* only pushes the deadline back.                                          *)
HeartbeatFails(h, x) ==
    /\ lock[x] # h
    /\ ~lost[h]
    /\ lost' = [lost EXCEPT ![h] = TRUE]
    /\ UNCHANGED <<lock, lapsed>>

(* RELEASE_SCRIPT: delete the key only if it still holds this token.       *)
Release(h, x) ==
    /\ lock' = IF lock[x] = h THEN [lock EXCEPT ![x] = Nobody] ELSE lock
    /\ Forget(h)

(* release throws LockLostError.                                           *)
ReleaseThrows(h, x) == lost[h] /\ lock[x] # h
=============================================================================
