---------------------------- MODULE SendTransfer ----------------------------
(***************************************************************************)
(* TransactionService.sendTransfer: the idempotent POST /transactions/send.*)
(*                                                                         *)
(* Each request runs the method to its end, interleaved with the others at *)
(* every await: read the cached response, check the daily limit and the    *)
(* wallet, insert the row, enqueue the job, cache the response.  A request *)
(* may die between any two of these steps (process crash, or a store that  *)
(* rejects the call); a client's retry is another request with its key.    *)
(***************************************************************************)
EXTENDS TransferStore

CONSTANTS DailyLimit,     \* [Users -> Nat], getLimitForTier of the user's tier
          WalletOwners,   \* the users that have a wallet
          MaxDays         \* bound on the midnights that pass

ASSUME SendAssumption ==
    /\ DailyLimit \in [Users -> Nat]
    /\ WalletOwners \subseteq Users
    /\ MaxDays \in Nat

VARIABLES cache,  \* cache[k]: the response stored under idempotency:{k}
          rq,     \* rq[r]: where request r is, and the response it built
          days    \* midnights so far

sendVars == <<cache, rq, days>>

(* SendTransferResponse; status "NONE" stands for no response.             *)
Response == [tx : Requests, status : Status \cup {"NONE"}]
NoResponse == [tx |-> AnyRequest, status |-> "NONE"]

(* idle: not sent; admit, create, replay, enqueue, cache: the await it is  *)
(* at; done: answered; rejected: answered 403 or 404; dead: never answered.*)
Stage == {"idle", "admit", "create", "replay", "enqueue", "cache",
          "done", "rejected", "dead"}

RequestState == [pc : Stage, resp : Response]

SendTypeOK ==
    /\ cache \in [Keys -> Response]
    /\ rq \in [Requests -> RequestState]
    /\ days \in 0..MaxDays

SendInit ==
    /\ cache = [k \in Keys |-> NoResponse]
    /\ rq = [r \in Requests |-> [pc |-> "idle", resp |-> NoResponse]]
    /\ days = 0

Goto(r, stage) == rq' = [rq EXCEPT ![r].pc = stage]
GotoWith(r, stage, resp) == rq' = [rq EXCEPT ![r] = [pc |-> stage, resp |-> resp]]
-----------------------------------------------------------------------------
(* readCachedResponse: a hit is the answer, a miss goes on.                *)
ReadCachedResponse(r) ==
    /\ rq[r].pc = "idle"
    /\ IF cache[KeyOf[r]].status # "NONE"
         THEN GotoWith(r, "done", cache[KeyOf[r]])
         ELSE Goto(r, "admit")
    /\ UNCHANGED <<storeVars, cache, days>>

(* getDailySpent: the user's SUCCESS rows created today.                   *)
DailySpent(u) ==
    SumFunctionOnSet(AmountOf,
        {t \in today : rows[t].status = "SUCCESS" /\ UserOf[KeyOf[t]] = u})

Admissible(r) ==
    LET u == UserOf[KeyOf[r]]
    IN  DailySpent(u) + AmountOf[r] <= DailyLimit[u] /\ u \in WalletOwners

(* assertWithinDailyLimit, then the wallet lookup.                         *)
Admit(r) ==
    /\ rq[r].pc = "admit"
    /\ Goto(r, IF Admissible(r) THEN "create" ELSE "rejected")
    /\ UNCHANGED <<storeVars, cache, days>>

Insert(r) ==
    /\ rows' = [rows EXCEPT ![r] = PendingRow]
    /\ today' = today \cup {r}
    /\ GotoWith(r, "enqueue", [tx |-> r, status |-> "PENDING"])

(* An insert into a table without the unique index.                        *)
CreateRowNoConstraint(r) ==
    /\ rq[r].pc = "create"
    /\ Insert(r)
    /\ UNCHANGED <<jobs, cache, days>>

(* An upsert, which reopens the transaction the key already has.           *)
CreateRowUpsert(r) ==
    /\ rq[r].pc = "create"
    /\ IF RowsOf(KeyOf[r]) = {}
         THEN Insert(r)
         ELSE \E t \in RowsOf(KeyOf[r]) :
                 /\ rows' = [rows EXCEPT ![t] = PendingRow]
                 /\ GotoWith(r, "enqueue", [tx |-> t, status |-> "PENDING"])
                 /\ UNCHANGED today
    /\ UNCHANGED <<jobs, cache, days>>

(* transaction.create under the unique index on (userId, idempotencyKey):  *)
(* a second row for the key is refused with P2002.                         *)
CreateRow(r) ==
    /\ rq[r].pc = "create"
    /\ IF RowsOf(KeyOf[r]) = {}
         THEN Insert(r)
         ELSE Goto(r, "replay") /\ UNCHANGED <<rows, today>>
    /\ UNCHANGED <<jobs, cache, days>>

(* replayFromDb skips the enqueue it does for a winner that died.          *)
ReplayFromDbNoEnqueue(r) ==
    /\ rq[r].pc = "replay"
    /\ \E t \in RowsOf(KeyOf[r]) :
          GotoWith(r, "cache", [tx |-> t, status |-> rows[t].status])
    /\ UNCHANGED <<storeVars, cache, days>>

(* replayFromDb: the response names the existing row and its status now.   *)
ReplayFromDb(r) ==
    /\ rq[r].pc = "replay"
    /\ \E t \in RowsOf(KeyOf[r]) :
          GotoWith(r, "enqueue", [tx |-> t, status |-> rows[t].status])
    /\ UNCHANGED <<storeVars, cache, days>>

(* enqueueJob: this request's dto under the deterministic job id.          *)
EnqueueJob(r) ==
    /\ rq[r].pc = "enqueue"
    /\ AddJob(SendJob(KeyOf[r]), rq[r].resp.tx, r)
    /\ Goto(r, "cache")
    /\ UNCHANGED <<rows, today, cache, days>>

(* writeCachedResponse, and the answer to the client.                      *)
WriteCachedResponse(r) ==
    /\ rq[r].pc = "cache"
    /\ cache' = [cache EXCEPT ![KeyOf[r]] = rq[r].resp]
    /\ Goto(r, "done")
    /\ UNCHANGED <<storeVars, days>>

(* The request ends without an answer, leaving what it wrote so far.       *)
RequestDies(r) ==
    /\ rq[r].pc \in {"admit", "create", "replay", "enqueue", "cache"}
    /\ Goto(r, "dead")
    /\ UNCHANGED <<storeVars, cache, days>>

(* Midnight: no existing row counts towards the limit any more.  (One that *)
(* finds no row of the day is not a step.)                                 *)
NewDay ==
    /\ days < MaxDays
    /\ today # {}
    /\ days' = days + 1
    /\ today' = {}
    /\ UNCHANGED <<rows, jobs, cache, rq>>

(* The 24 h TTL of a cached response.  The row it names was created before *)
(* it was cached, so a midnight has passed.                                *)
CacheExpires(k) ==
    /\ cache[k].status # "NONE"
    /\ cache[k].tx \notin today
    /\ cache' = [cache EXCEPT ![k] = NoResponse]
    /\ UNCHANGED <<storeVars, rq, days>>

RequestStep(r) ==
    \/ ReadCachedResponse(r)
    \/ Admit(r)
    \/ CreateRow(r)
    \/ ReplayFromDb(r)
    \/ EnqueueJob(r)
    \/ WriteCachedResponse(r)

SendNext ==
    \/ \E r \in Requests : RequestStep(r) \/ RequestDies(r)
    \/ NewDay
    \/ \E k \in Keys : CacheExpires(k)
=============================================================================
