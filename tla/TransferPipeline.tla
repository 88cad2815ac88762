-------------------------- MODULE TransferPipeline --------------------------
(***************************************************************************)
(* The transfer pipeline: POST /transactions/send (SendTransfer) feeding   *)
(* the queue workers (TransactionProcessor) through the Transaction table  *)
(* and the Bull queue (TransferStore).                                     *)
(***************************************************************************)
EXTENDS SendTransfer, TransactionProcessor

vars == <<storeVars, sendVars, procVars>>

Init == StoreInit /\ SendInit /\ ProcInit

Next ==
    \/ SendNext /\ UNCHANGED procVars
    \/ ProcNext /\ UNCHANGED sendVars

Spec == Init /\ [][Next]_vars

(* A live process goes on: a request in flight, a worker, Bull's timers    *)
(* (back-off, stalled check) and Redis' expiry of keys nobody extends.     *)
(* Clients, admins, midnights and faults owe nothing.                      *)
Fairness ==
    /\ \A r \in Requests : WF_vars(rq[r].pc # "idle" /\ RequestStep(r) /\ UNCHANGED procVars)
    /\ \A w \in Workers : /\ WF_vars(WorkerStep(w) /\ UNCHANGED sendVars)
                          /\ WF_vars(\E j \in JobIds : TakeJob(w, j) /\ UNCHANGED sendVars)
    /\ \A j \in JobIds : /\ WF_vars(PromoteDelayed(j) /\ UNCHANGED sendVars)
                         /\ WF_vars(StalledOrphan(j) /\ UNCHANGED sendVars)
    /\ \A t \in Requests : WF_vars(OrphanLeaseExpires(t) /\ UNCHANGED sendVars)

FairSpec == Spec /\ Fairness
-----------------------------------------------------------------------------
(* Every variable has its type.                                            *)
TypeOK == StoreTypeOK /\ SendTypeOK /\ ProcTypeOK

(* The unique index and replayFromDb together: an idempotency key never    *)
(* has two transactions, however many requests race to create one, and     *)
(* also once the 24 h TTL of the cached response has passed.               *)
OneRowPerKey ==
    \A t, u \in Requests : Exists(t) /\ Exists(u) /\ KeyOf[t] = KeyOf[u] => t = u

(* sendTransfer's crash-window promise: once any client has an answer, or  *)
(* one is cached for the next, the transaction it names exists under the   *)
(* client's key and its job is in the queue for that very transaction.     *)
Queued(k, resp) ==
    /\ Exists(resp.tx)
    /\ KeyOf[resp.tx] = k
    /\ jobs[SendJob(k)].state # "none"
    /\ jobs[SendJob(k)].tx = resp.tx

AcceptedIsQueued ==
    /\ \A k \in Keys : cache[k].status # "NONE" => Queued(k, cache[k])
    /\ \A r \in Requests : rq[r].pc = "done" => Queued(KeyOf[r], rq[r].resp)

(* A job that Bull counts as completed has decided its transaction: no     *)
(* transfer is dropped between the queue and the table, whatever crashes,  *)
(* stalls, replays and risk updates happen around it.                      *)
CompletedIsDecided ==
    \A j \in JobIds : jobs[j].state = "completed" => rows[jobs[j].tx].status \in Terminal

(* withLock: a worker in its critical section still holds the lease unless *)
(* that lease ran out, so no other worker's release ever frees it.         *)
LeaseIsStable ==
    \A w \in Workers :
        wk[w].pc \in Critical => lock[Tx(w)] = w \/ w \in lapsed[Tx(w)]

(* ... hence two workers process one transaction at the same time only     *)
(* after a lease ran out.                                                  *)
LockExclusion ==
    \A v, w \in Workers :
        /\ v # w
        /\ {wk[v].pc, wk[w].pc} \subseteq Critical
        /\ Tx(v) = Tx(w)
        => lapsed[Tx(w)] \cap {v, w} # {}

(* routeFailedJobToDlq: what the dead-letter queue offers for replay is a  *)
(* job Bull has given up, so a replay never runs beside its original.      *)
DlqIsExhausted ==
    \A j \in dlq : jobs[j].state = "failed" /\ jobs[j].attempts = MaxAttempts

(* A transaction recorded as SUCCESS names a submission that was made.     *)
SuccessIsOnChain ==
    \A t \in Requests : rows[t].status = "SUCCESS" => rows[t].hash \in 1..chain[t]

(* Retries with the same key but another amount: whatever was submitted,   *)
(* some job asked for the amount stored in the row and no other.           *)
SubmittedAmountIsApproved ==
    \A t \in Requests :
        chain[t] > 0 =>
            \E j \in JobIds : /\ jobs[j].state # "none"
                              /\ jobs[j].tx = t
                              /\ AmountOf[jobs[j].req] = AmountOf[t]

(* How far at-least-once delivery can go: every submission beyond the      *)
(* first is paid for by a fault or by an admin's replay, never by clients  *)
(* retrying or by Bull's own retries.                                      *)
SubmissionsAreBounded ==
    \A t \in Requests : chain[t] <= 1 + faults + replays

(* A decided transaction is never again open: only the two terminal states *)
(* and PENDING_REVIEW follow one another.                                  *)
DecidedStaysDecided ==
    [][\A t \in Requests : rows[t].status \in Terminal => rows'[t].status \in Terminal]_vars

(* Every answered transfer is eventually decided, or Bull has given its    *)
(* job up.                                                                 *)
AcceptedIsResolved ==
    \A r \in Requests :
        rq[r].pc = "done" ~>
            \/ rows[rq[r].resp.tx].status \in Terminal
            \/ jobs[SendJob(KeyOf[r])].state = "failed"

-----------------------------------------------------------------------------
(* The inductive strengthening of the invariants above, by part.           *)

(* A job in the queue is about an existing transaction, a send job about   *)
(* the one of its key.                                                     *)
JobsAreAboutRows ==
    /\ \A j \in JobIds : jobs[j].state # "none" => Exists(jobs[j].tx)
    /\ \A k \in Keys : jobs[SendJob(k)].state # "none" => KeyOf[jobs[SendJob(k)].tx] = k

(* What a request knows at each stage.                                     *)
RequestIsCoherent(r) ==
    /\ rq[r].pc \in {"enqueue", "cache", "done"} =>
          Exists(rq[r].resp.tx) /\ KeyOf[rq[r].resp.tx] = KeyOf[r]
    /\ rq[r].pc \in {"cache", "done"} => Queued(KeyOf[r], rq[r].resp)

RequestsAreCoherent == \A r \in Requests : RequestIsCoherent(r)

(* What a worker knows at each stage.                                      *)
WorkerIsCoherent(w) ==
    /\ wk[w].pc # "idle" => JobOf(w).state # "none"
    /\ wk[w].pc \in {"release", "finish"} /\ wk[w].ok => rows[Tx(w)].status \in Terminal
    /\ wk[w].pc = "settle" => wk[w].hash \in 1..chain[Tx(w)]
    /\ wk[w].pc = "route" => JobOf(w).state = "failed" /\ JobOf(w).attempts = MaxAttempts

WorkersAreCoherent == \A w \in Workers : WorkerIsCoherent(w)

(* A job with no attempts left is failed.                                  *)
AttemptsAreBounded ==
    \A j \in JobIds : /\ jobs[j].attempts <= MaxAttempts
                      /\ jobs[j].attempts = MaxAttempts => jobs[j].state = "failed"

(* A risk update in progress has its row.                                  *)
RiskHasRow == risk.pc = "write" => Exists(risk.tx)

IInv ==
    /\ TypeOK
    /\ OneRowPerKey
    /\ JobsAreAboutRows
    /\ RequestsAreCoherent
    /\ AcceptedIsQueued
    /\ WorkersAreCoherent
    /\ AttemptsAreBounded
    /\ RiskHasRow
    /\ CompletedIsDecided
    /\ LeaseIsStable
    /\ DlqIsExhausted
    /\ SuccessIsOnChain
-----------------------------------------------------------------------------
(* transaction.processor.ts: "skip re-processing if the transaction        *)
(* already reached a terminal state (e.g. job retried after                *)
(* SUCCESS/FAILED, or concurrent duplicate job that slipped through before *)
(* BullMQ deduplication kicked in)": nothing is submitted for a            *)
(* transaction that is already decided.                                    *)
NoSubmissionAfterDecision ==
    [][\A t \in Requests : chain'[t] # chain[t] => rows[t].status \notin Terminal]_vars

(* transaction.service.spec.ts: "expires key after 24 hours so a           *)
(* re-submission after TTL creates a new transaction": a request that goes *)
(* on to the insert when the answer an earlier one was given is no longer  *)
(* cached gets a transaction of its own.                                   *)
ResubmissionAfterTtlIsNew ==
    [][\A r \in Requests :
           /\ rq[r].pc = "create" /\ rq'[r].pc \notin {"create", "dead"}
           /\ cache[KeyOf[r]] = NoResponse
           /\ \E q \in Requests : KeyOf[q] = KeyOf[r] /\ rq[q].pc = "done"
           => Exists(r)']_vars

(* docs/api-reference.md: "Retry with same key returns 200 OK with         *)
(* original response".                                                     *)
RetriesGetTheOriginalResponse ==
    \A r, q \in Requests :
        /\ rq[r].pc = "done" /\ rq[q].pc = "done"
        /\ KeyOf[r] = KeyOf[q]
        => rq[r].resp = rq[q].resp

(* The KYC tier's daily limit: "NONE-tier user sends > $100/day" is        *)
(* answered 403 (TEST_STATUS.md), so what was sent today stays within it.  *)
DailyLimitHolds ==
    \A u \in Users : DailySpent(u) <= DailyLimit[u]
=============================================================================
