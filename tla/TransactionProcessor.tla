------------------------ MODULE TransactionProcessor ------------------------
(***************************************************************************)
(* The consumers of the 'transactions' queue: TransactionProcessor, the    *)
(* Redis lock it takes, the dead-letter queue that collects exhausted jobs *)
(* and lets an admin replay them, and the POST :id/risk update that writes *)
(* the same rows.  Bull itself (stalled jobs, back-off, ownership) is      *)
(* external and modelled from how the code relies on it.                   *)
(*                                                                         *)
(* A worker runs handleSendTransaction to its end, interleaved with the    *)
(* others at every await.  Writes to the audit log swallow their errors    *)
(* and touch nothing here.                                                 *)
(***************************************************************************)
EXTENDS TransferStore

CONSTANTS MaxFaults,      \* bound on crashes, stalls, lapses and store errors
          MaxRiskUpdates  \* bound on the POST :id/risk calls

ASSUME ProcessorAssumption == MaxFaults \in Nat /\ MaxRiskUpdates \in Nat

VARIABLES wk,        \* wk[w]: where worker w is
          lock, lost, lapsed,  \* RedisLock on lock:escrow:{transaction.id}
          chain,     \* chain[t]: on-chain submissions made for t
          dlq,       \* the jobs in the dead-letter queue
          replays,   \* replay jobs added so far
          risk,      \* the updateRiskScore call in progress
          faults     \* faults so far

L == INSTANCE RedisLock WITH
        Holders <- Workers, Resources <- Requests, Nobody <- NoWorker

procVars == <<wk, lock, lost, lapsed, chain, dlq, replays, risk, faults>>
lockState == <<lock, lost, lapsed>>
-----------------------------------------------------------------------------
WorkerStage == {"idle", "load", "lock", "score", "submit", "settle",
                "markFailed", "release", "finish", "route"}

(* ok: the handler is returning rather than throwing; hash: the submission *)
(* this run made.                                                          *)
WorkerState == [pc : WorkerStage, job : JobIds, ok : BOOLEAN, hash : Nat]

AnyJob == SendJob(KeyOf[AnyRequest])
IdleWorker == [pc |-> "idle", job |-> AnyJob, ok |-> TRUE, hash |-> 0]

(* updateRiskScore between its findUnique and its update: tx, the flag of  *)
(* the body, and whether the status it read may be moved to PENDING_REVIEW.*)
RiskState == [pc : {"idle", "write"}, tx : Requests, flagged : BOOLEAN,
              hold : BOOLEAN, count : 0..MaxRiskUpdates]

NoRisk(n) == [pc |-> "idle", tx |-> AnyRequest, flagged |-> FALSE,
              hold |-> FALSE, count |-> n]

ProcTypeOK ==
    /\ wk \in [Workers -> WorkerState]
    /\ L!LockTypeOK
    /\ chain \in [Requests -> Nat]
    /\ dlq \subseteq JobIds
    /\ replays \in 0..MaxReplays
    /\ risk \in RiskState
    /\ faults \in 0..MaxFaults

ProcInit ==
    /\ wk = [w \in Workers |-> IdleWorker]
    /\ L!LockInit
    /\ chain = [t \in Requests |-> 0]
    /\ dlq = {}
    /\ replays = 0
    /\ risk = NoRisk(0)
    /\ faults = 0

JobOf(w) == jobs[wk[w].job]
Tx(w) == JobOf(w).tx

At(w, stage) == wk[w].pc = stage
GoTo(w, stage) == wk' = [wk EXCEPT ![w].pc = stage]
Leave(w, stage, ok) == wk' = [wk EXCEPT ![w] = [@ EXCEPT !.pc = stage, !.ok = ok]]
Rest(w) == wk' = [wk EXCEPT ![w] = IdleWorker]
Fault == faults < MaxFaults /\ faults' = faults + 1
Critical == {"score", "submit", "settle", "markFailed", "release"}
Decide(t, row) == rows' = [rows EXCEPT ![t] = row]

SideVars == <<today, dlq, replays, risk>>
-----------------------------------------------------------------------------
(* Bull hands a waiting job to an idle worker.                             *)
TakeJob(w, j) ==
    /\ At(w, "idle")
    /\ jobs[j].state = "wait"
    /\ jobs' = [jobs EXCEPT ![j] = [@ EXCEPT !.state = "active", !.owner = w]]
    /\ wk' = [wk EXCEPT ![w] = [IdleWorker EXCEPT !.pc = "load", !.job = j]]
    /\ UNCHANGED <<rows, lockState, chain, SideVars, faults>>

(* findUnique, and the early return for a row in a terminal state.  The    *)
(* row always exists: it is inserted before its job is added.              *)
LoadTransaction(w) ==
    /\ At(w, "load")
    /\ IF rows[Tx(w)].status \in Terminal
         THEN Leave(w, "finish", TRUE)
         ELSE GoTo(w, "lock")
    /\ UNCHANGED <<storeVars, lockState, chain, dlq, replays, risk, faults>>

(* No integrity check.                                                     *)
AmountUnchecked(w) == TRUE

(* assertTransactionAmountIntegrity on the job's amount and the row's.     *)
AmountIntact(w) == AmountOf[JobOf(w).req] = AmountOf[Tx(w)]

(* withLock acquires, and processTransaction starts with the row loaded    *)
(* before the lock; it throws at once if the amounts differ.               *)
AcquireLock(w) ==
    /\ At(w, "lock")
    /\ L!Acquire(w, Tx(w))
    /\ IF AmountIntact(w) THEN GoTo(w, "score") ELSE Leave(w, "release", FALSE)
    /\ UNCHANGED <<storeVars, chain, dlq, replays, risk, faults>>

(* LockNotAcquiredError swallowed: the job counts as done.                 *)
LockHeldSwallowed(w) ==
    /\ At(w, "lock")
    /\ lock[Tx(w)] # NoWorker
    /\ Leave(w, "finish", TRUE)
    /\ UNCHANGED <<storeVars, lockState, chain, dlq, replays, risk, faults>>

(* LockNotAcquiredError.                                                   *)
LockHeld(w) ==
    /\ At(w, "lock")
    /\ lock[Tx(w)] # NoWorker
    /\ Leave(w, "finish", FALSE)
    /\ UNCHANGED <<storeVars, lockState, chain, dlq, replays, risk, faults>>
-----------------------------------------------------------------------------
(* A hold written with a status the enum does not have.                    *)
ScoredOnHold(row, score) ==
    CASE score = "null"   -> [row EXCEPT !.status = "FAILED", !.score = "null", !.flagged = FALSE]
      [] score = "high"   -> [row EXCEPT !.status = "FAILED", !.score = "high", !.flagged = TRUE]
      [] score = "medium" -> [row EXCEPT !.status = "HOLD", !.score = "medium", !.flagged = TRUE]
      [] score = "low"    -> [row EXCEPT !.score = "low", !.flagged = FALSE]

(* The row runFraudCheck writes for each outcome of fraudService.score:    *)
(* "null" is the service failing.                                          *)
Scored(row, score) ==
    CASE score = "null"   -> [row EXCEPT !.status = "FAILED", !.score = "null", !.flagged = FALSE]
      [] score = "high"   -> [row EXCEPT !.status = "FAILED", !.score = "high", !.flagged = TRUE]
      [] score = "medium" -> [row EXCEPT !.status = "PENDING_REVIEW", !.score = "medium", !.flagged = TRUE]
      [] score = "low"    -> [row EXCEPT !.score = "low", !.flagged = FALSE]

(* runFraudCheck: score, persist, and go on only below both thresholds.    *)
RunFraudCheck(w, score) ==
    /\ At(w, "score")
    /\ Decide(Tx(w), Scored(rows[Tx(w)], score))
    /\ IF score = "low" THEN GoTo(w, "submit") ELSE Leave(w, "release", TRUE)
    /\ UNCHANGED <<jobs, lockState, chain, SideVars, faults>>

(* The update in runFraudCheck rejects: outside the try, so it propagates. *)
FraudUpdateFails(w) ==
    /\ At(w, "score")
    /\ Fault
    /\ Leave(w, "release", FALSE)
    /\ UNCHANGED <<storeVars, lockState, chain, dlq, replays, risk>>

(* processOnChain succeeds.                                                *)
ProcessOnChain(w) ==
    /\ At(w, "submit")
    /\ chain' = [chain EXCEPT ![Tx(w)] = @ + 1]
    /\ wk' = [wk EXCEPT ![w] = [@ EXCEPT !.pc = "settle", !.hash = chain[Tx(w)] + 1]]
    /\ UNCHANGED <<storeVars, lockState, dlq, replays, risk, faults>>

(* The error of processOnChain swallowed.                                  *)
OnChainFailsSwallowed(w) ==
    /\ At(w, "submit")
    /\ GoTo(w, "settle")
    /\ UNCHANGED <<storeVars, lockState, chain, dlq, replays, risk, faults>>

(* processOnChain throws before anything reaches the network.              *)
OnChainFails(w) ==
    /\ At(w, "submit")
    /\ GoTo(w, "markFailed")
    /\ UNCHANGED <<storeVars, lockState, chain, dlq, replays, risk, faults>>

(* The SUCCESS update.                                                     *)
MarkSuccess(w) ==
    /\ At(w, "settle")
    /\ Decide(Tx(w), [status |-> "SUCCESS", score |-> "low", flagged |-> FALSE,
                      hash |-> wk[w].hash])
    /\ Leave(w, "release", TRUE)
    /\ UNCHANGED <<jobs, lockState, chain, SideVars, faults>>

(* The SUCCESS update rejects: the catch block runs after a submission.    *)
SuccessUpdateFails(w) ==
    /\ At(w, "settle")
    /\ Fault
    /\ GoTo(w, "markFailed")
    /\ UNCHANGED <<storeVars, lockState, chain, dlq, replays, risk>>

(* The catch block: FAILED, and rethrow.                                   *)
MarkFailed(w) ==
    /\ At(w, "markFailed")
    /\ Decide(Tx(w), [rows[Tx(w)] EXCEPT !.status = "FAILED"])
    /\ Leave(w, "release", FALSE)
    /\ UNCHANGED <<jobs, lockState, chain, SideVars, faults>>

(* The FAILED update rejects too, and its error propagates instead.        *)
FailedUpdateFails(w) ==
    /\ At(w, "markFailed")
    /\ Fault
    /\ Leave(w, "release", FALSE)
    /\ UNCHANGED <<storeVars, lockState, chain, dlq, replays, risk>>

(* withLock's finally block.                                               *)
ReleaseLock(w) ==
    /\ At(w, "release")
    /\ L!Release(w, Tx(w))
    /\ Leave(w, "finish", wk[w].ok /\ ~L!ReleaseThrows(w, Tx(w)))
    /\ UNCHANGED <<storeVars, chain, dlq, replays, risk, faults>>
-----------------------------------------------------------------------------
(* The attempts and backoff options of the job.                            *)
Retry(tried) == IF tried < MaxAttempts THEN "delayed" ELSE "failed"

(* A listener that gives a job up one attempt too early.                   *)
ExhaustedEarly(tried) == tried + 1 >= MaxAttempts

(* routeFailedJobToDlq ignores a failure that has attempts left.           *)
Exhausted(tried) == tried >= MaxAttempts

(* Bull records the handler's result, unless the job was taken away from   *)
(* this worker as stalled.  A failed attempt is retried until attempts,    *)
(* and handed to the failed listener of this process.                      *)
FinishJob(w) ==
    /\ At(w, "finish")
    /\ LET j == wk[w].job
           mine == jobs[j].state = "active" /\ jobs[j].owner = w
           tried == jobs[j].attempts + 1
       IN \/ /\ ~mine
             /\ UNCHANGED jobs
             /\ Rest(w)
          \/ /\ mine /\ wk[w].ok
             /\ jobs' = [jobs EXCEPT ![j] = [@ EXCEPT !.state = "completed", !.owner = NoWorker]]
             /\ Rest(w)
          \/ /\ mine /\ ~wk[w].ok
             /\ jobs' = [jobs EXCEPT ![j] = [@ EXCEPT !.state = Retry(tried),
                                                   !.attempts = tried, !.owner = NoWorker]]
             /\ IF Exhausted(tried) THEN GoTo(w, "route") ELSE Rest(w)
    /\ UNCHANGED <<rows, lockState, chain, SideVars, faults>>

(* failedListener: routeFailedJobToDlq copies the job to the dead-letter   *)
(* queue.  It is fire-and-forget: a crash here, or a failed add, loses the *)
(* entry (WorkerCrash).                                                    *)
RouteFailedJobToDlq(w) ==
    /\ At(w, "route")
    /\ dlq' = dlq \cup {wk[w].job}
    /\ Rest(w)
    /\ UNCHANGED <<storeVars, lockState, chain, replays, risk, faults>>

(* Bull's back-off timer.                                                  *)
PromoteDelayed(j) ==
    /\ jobs[j].state = "delayed"
    /\ jobs' = [jobs EXCEPT ![j].state = "wait"]
    /\ UNCHANGED <<rows, today, procVars>>

(* Bull's stalled-job check takes an active job from its owner and, past   *)
(* maxStalledCount, fails it without counting an attempt (so that          *)
(* routeFailedJobToDlq returns at once).                                   *)
MoveStalled(j) ==
    /\ jobs[j].state = "active"
    /\ jobs' = [jobs EXCEPT ![j] =
                   [@ EXCEPT !.state = IF jobs[j].stalls < MaxStalledCount THEN "wait" ELSE "failed",
                             !.stalls = jobs[j].stalls + 1, !.owner = NoWorker]]

Orphaned(j) == ~ \E w \in Workers :
                  jobs[j].owner = w /\ wk[w].job = j /\ wk[w].pc # "idle"

(* ... because its owner died,                                             *)
StalledOrphan(j) ==
    /\ Orphaned(j)
    /\ MoveStalled(j)
    /\ UNCHANGED <<rows, today, procVars>>

(* ... or because a live owner did not renew in time.                      *)
StalledAlive(j) ==
    /\ ~Orphaned(j)
    /\ MoveStalled(j)
    /\ Fault
    /\ UNCHANGED <<rows, today, wk, lockState, chain, dlq, replays, risk>>

(* The process dies; its lease and its job are left behind.                *)
WorkerCrash(w) ==
    /\ ~At(w, "idle")
    /\ Fault
    /\ Rest(w)
    /\ L!Forget(w)
    /\ UNCHANGED <<storeVars, lock, chain, dlq, replays, risk>>
-----------------------------------------------------------------------------
Holding(w, t) == wk[w].pc \in Critical /\ Tx(w) = t /\ lock[t] = w

(* The lease of a dead worker always runs out; that of a live one only if  *)
(* its heartbeats are late or lost.                                        *)
OrphanLeaseExpires(t) ==
    /\ ~ \E w \in Workers : Holding(w, t)
    /\ L!LeaseExpires(t)
    /\ UNCHANGED <<storeVars, wk, chain, dlq, replays, risk, faults>>

LeaseLapses(t) ==
    /\ \E w \in Workers : Holding(w, t)
    /\ L!LeaseExpires(t)
    /\ Fault
    /\ UNCHANGED <<storeVars, wk, chain, dlq, replays, risk>>

Heartbeat(w) ==
    /\ wk[w].pc \in Critical
    /\ L!HeartbeatFails(w, Tx(w))
    /\ UNCHANGED <<storeVars, wk, chain, dlq, replays, risk, faults>>
-----------------------------------------------------------------------------
(* TransactionDlqService.replay: a new job with the original's data.       *)
ReplayDlq(j) ==
    /\ j \in dlq
    /\ replays < MaxReplays
    /\ replays' = replays + 1
    /\ AddJob(ReplayJob(replays + 1), jobs[j].tx, jobs[j].req)
    /\ UNCHANGED <<rows, today, wk, lockState, chain, dlq, risk, faults>>

(* updateRiskScore: the read,                                              *)
RiskRead(t, flagged) ==
    /\ risk.pc = "idle"
    /\ risk.count < MaxRiskUpdates
    /\ Exists(t)
    /\ risk' = [pc |-> "write", tx |-> t, flagged |-> flagged, count |-> risk.count + 1,
                hold |-> flagged /\ rows[t].status \in {"PENDING", "RETRYING"}]
    /\ UNCHANGED <<storeVars, wk, lockState, chain, dlq, replays, faults>>

(* ... and the update that relies on it.                                   *)
RiskWrite ==
    /\ risk.pc = "write"
    /\ LET t == risk.tx
           scored == [rows[t] EXCEPT !.score = IF risk.flagged THEN "high" ELSE "low",
                                     !.flagged = risk.flagged]
       IN Decide(t, IF risk.hold THEN [scored EXCEPT !.status = "PENDING_REVIEW"] ELSE scored)
    /\ risk' = NoRisk(risk.count)
    /\ UNCHANGED <<today, jobs, wk, lockState, chain, dlq, replays, faults>>
-----------------------------------------------------------------------------
(* A worker's own steps, taken as long as its process lives.               *)
WorkerStep(w) ==
    \/ LoadTransaction(w)
    \/ AcquireLock(w)
    \/ LockHeld(w)
    \/ \E score \in Score : RunFraudCheck(w, score)
    \/ ProcessOnChain(w)
    \/ OnChainFails(w)
    \/ MarkSuccess(w)
    \/ MarkFailed(w)
    \/ ReleaseLock(w)
    \/ FinishJob(w)
    \/ RouteFailedJobToDlq(w)

WorkerFault(w) ==
    \/ FraudUpdateFails(w)
    \/ SuccessUpdateFails(w)
    \/ FailedUpdateFails(w)
    \/ WorkerCrash(w)

ProcNext ==
    \/ \E w \in Workers : WorkerStep(w) \/ WorkerFault(w) \/ Heartbeat(w)
    \/ \E w \in Workers, j \in JobIds : TakeJob(w, j)
    \/ \E j \in JobIds : \/ PromoteDelayed(j)
                         \/ StalledOrphan(j)
                         \/ StalledAlive(j)
                         \/ ReplayDlq(j)
    \/ \E t \in Requests : OrphanLeaseExpires(t) \/ LeaseLapses(t)
    \/ \E t \in Requests, f \in BOOLEAN : RiskRead(t, f)
    \/ RiskWrite
=============================================================================
