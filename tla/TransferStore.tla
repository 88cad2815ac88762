--------------------------- MODULE TransferStore ---------------------------
(***************************************************************************)
(* The two stores that the API and its queue workers share: the Postgres   *)
(* table Transaction (Prisma) and the Bull queue 'transactions' in Redis.  *)
(*                                                                         *)
(* A transaction is named by the POST /transactions/send request that      *)
(* inserted it, so the immutable columns (user, key, amount) are functions *)
(* of its name and a row holds only what the code updates.                 *)
(***************************************************************************)
EXTENDS Naturals, FiniteSets, FiniteSetsExt

CONSTANTS Requests,         \* the POST /transactions/send calls
          Keys,             \* (userId, Idempotency-Key) pairs
          Users,
          KeyOf,            \* [Requests -> Keys]
          UserOf,           \* [Keys -> Users]
          AmountOf,         \* [Requests -> Nat], the dto's amount in USD
          Workers,          \* processes that consume the queue
          MaxAttempts,      \* TRANSACTION_MAX_ATTEMPTS
          MaxStalledCount,  \* Bull's maxStalledCount
          MaxReplays,       \* bound on the replay jobs an admin adds
          NoWorker          \* owner of a job that is not active

ASSUME StoreAssumption ==
    /\ Requests # {}
    /\ KeyOf \in [Requests -> Keys]
    /\ UserOf \in [Keys -> Users]
    /\ AmountOf \in [Requests -> Nat]
    /\ MaxAttempts \in Nat \ {0}
    /\ MaxStalledCount \in Nat
    /\ MaxReplays \in Nat
    /\ NoWorker \notin Workers

VARIABLES rows,   \* rows[t]: the mutable columns of transaction t
          today,  \* the transactions whose createdAt lies in the current day
          jobs    \* jobs[j]: the Bull job j, state "none" before it is added

storeVars == <<rows, today, jobs>>
-----------------------------------------------------------------------------
(* enum TransactionStatus; "NONE" is the absence of a row.                 *)
Status == {"PENDING", "RETRYING", "SUCCESS", "FAILED", "PENDING_REVIEW"}

(* handleSendTransaction's list of the states it does not process again.   *)
Terminal == {"SUCCESS", "FAILED", "PENDING_REVIEW"}

(* riskScore against the two thresholds: null, < 0.5, [0.5, 0.8), >= 0.8.  *)
Score == {"null", "low", "medium", "high"}

(* hash is stellarTxHash: the number of the submission it names, 0 if null.*)
Row == [status : Status \cup {"NONE"}, score : Score, flagged : BOOLEAN, hash : Nat]

NoRow == [status |-> "NONE", score |-> "null", flagged |-> FALSE, hash |-> 0]

Exists(t) == rows[t].status # "NONE"

(* The row that holds an idempotency key, if there is one.                 *)
RowsOf(k) == {t \in Requests : Exists(t) /\ KeyOf[t] = k}

(* transaction.create: a PENDING row with the column defaults.             *)
PendingRow == [NoRow EXCEPT !.status = "PENDING"]
-----------------------------------------------------------------------------
(* Job ids: send:{userId}:{key}, and replay:{dlqJobId}:{now} numbered in   *)
(* the order they are added.                                               *)
SendJob(k) == <<"send", k>>
ReplayJob(n) == <<"replay", n>>
JobIds == {SendJob(k) : k \in Keys} \cup {ReplayJob(n) : n \in 1..MaxReplays}

JobState == {"none", "wait", "active", "delayed", "completed", "failed"}

(* tx is job.data.txId; req is the request whose dto the job carries.      *)
Job == [state : JobState, tx : Requests, req : Requests,
        attempts : Nat, stalls : Nat, owner : Workers \cup {NoWorker}]

AnyRequest == CHOOSE r \in Requests : TRUE

NoJob == [state |-> "none", tx |-> AnyRequest, req |-> AnyRequest,
          attempts |-> 0, stalls |-> 0, owner |-> NoWorker]

NewJob(t, r) == [NoJob EXCEPT !.state = "wait", !.tx = t, !.req = r]

(* queue.add without a jobId of its own: a second add is a second run.     *)
AddJobNoDedup(j, t, r) == jobs' = [jobs EXCEPT ![j] = NewJob(t, r)]

(* queue.add with a jobId: a no-op when a job of that id exists in any     *)
(* state, because the queue options keep finished jobs.                    *)
AddJob(j, t, r) ==
    jobs' = IF jobs[j].state = "none" THEN [jobs EXCEPT ![j] = NewJob(t, r)] ELSE jobs

StoreTypeOK ==
    /\ rows \in [Requests -> Row]
    /\ today \subseteq Requests
    /\ jobs \in [JobIds -> Job]

StoreInit ==
    /\ rows = [t \in Requests |-> NoRow]
    /\ today = {}
    /\ jobs = [j \in JobIds |-> NoJob]
=============================================================================
