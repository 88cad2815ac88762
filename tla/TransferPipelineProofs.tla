----------------------- MODULE TransferPipelineProofs -----------------------
(***************************************************************************)
(* Proofs about TransferPipeline, for every set of requests, keys, users   *)
(* and workers and every bound.                                            *)
(***************************************************************************)
EXTENDS TransferPipeline, FiniteSetTheorems, TLAPS

(* Names of jobs: every key has its send job, replay jobs are others.      *)
LEMMA JobIdFacts ==
    /\ \A k \in Keys : SendJob(k) \in JobIds
    /\ \A n \in 1..MaxReplays : ReplayJob(n) \in JobIds
    /\ \A k, l \in Keys : SendJob(k) = SendJob(l) => k = l
    /\ \A k \in Keys, n \in 1..MaxReplays : SendJob(k) # ReplayJob(n)
  BY DEF JobIds, SendJob, ReplayJob

(* The constants that stand for absent values have their types.            *)
LEMMA NullFacts ==
    /\ AnyRequest \in Requests
    /\ NoRow \in Row /\ PendingRow \in Row
    /\ NoResponse \in Response
    /\ NoJob \in Job
    /\ \A t, r \in Requests : NewJob(t, r) \in Job
    /\ IdleWorker \in WorkerState
    /\ \A n \in 0..MaxRiskUpdates : NoRisk(n) \in RiskState
  <1>1. AnyRequest \in Requests
    BY StoreAssumption DEF AnyRequest
  <1>2. NoRow \in Row /\ PendingRow \in Row
    BY DEF NoRow, PendingRow, Row, Status, Score
  <1>3. NoResponse \in Response
    BY <1>1 DEF NoResponse, Response
  <1>4. NoJob \in Job /\ \A t, r \in Requests : NewJob(t, r) \in Job
    <2>1. NoJob \in Job
      BY <1>1, StoreAssumption DEF NoJob, Job, JobState
    <2>2. ASSUME NEW t \in Requests, NEW r \in Requests PROVE NewJob(t, r) \in Job
      BY <2>1 DEF NewJob, Job, JobState
    <2> QED BY <2>1, <2>2
  <1>5. IdleWorker \in WorkerState
    BY <1>1, JobIdFacts, StoreAssumption DEF IdleWorker, WorkerState, WorkerStage, AnyJob
  <1>6. \A n \in 0..MaxRiskUpdates : NoRisk(n) \in RiskState
    BY <1>1 DEF NoRisk, RiskState
  <1> QED BY <1>1, <1>2, <1>3, <1>4, <1>5, <1>6

(* Adding a job keeps the queue well typed.                                *)
LEMMA AddJobType ==
    ASSUME jobs \in [JobIds -> Job], NEW j \in JobIds, NEW t \in Requests,
           NEW r \in Requests, AddJob(j, t, r)
    PROVE  jobs' \in [JobIds -> Job]
  BY NullFacts DEF AddJob

(* The initial state has the types.                                        *)
LEMMA TypeInit == Init => TypeOK
  BY NullFacts, StoreAssumption, SendAssumption, ProcessorAssumption
  DEF Init, StoreInit, SendInit, ProcInit, TypeOK, StoreTypeOK, SendTypeOK,
      ProcTypeOK, L!LockInit, L!LockTypeOK, RequestState, Stage

(* The types of the request side.                                          *)
LEMMA SendTypeStep ==
    ASSUME TypeOK, SendNext, UNCHANGED procVars
    PROVE  TypeOK'
  <1> USE StoreAssumption, SendAssumption, NullFacts
  <1>1. ProcTypeOK'
    BY DEF TypeOK, ProcTypeOK, procVars, L!LockTypeOK
  <1>2. ASSUME NEW r \in Requests, ReadCachedResponse(r) PROVE StoreTypeOK' /\ SendTypeOK'
    <2>1. KeyOf[r] \in Keys /\ cache[KeyOf[r]] \in Response
      BY DEF TypeOK, SendTypeOK
    <2> QED
     BY <1>2, <2>1 DEF ReadCachedResponse, Goto, GotoWith, TypeOK, StoreTypeOK, SendTypeOK,
                storeVars, RequestState, Stage
  <1>3. ASSUME NEW r \in Requests, Admit(r) PROVE StoreTypeOK' /\ SendTypeOK'
    BY <1>3 DEF Admit, Goto, TypeOK, StoreTypeOK, SendTypeOK, storeVars, RequestState, Stage
  <1>4. ASSUME NEW r \in Requests, CreateRow(r) PROVE StoreTypeOK' /\ SendTypeOK'
    <2>1. CASE Insert(r)
      <3>1. [pc |-> "enqueue", resp |-> [tx |-> r, status |-> "PENDING"]] \in RequestState
        BY DEF RequestState, Response, Status, Stage
      <3> QED
        BY <1>4, <2>1, <3>1 DEF CreateRow, Insert, GotoWith, TypeOK, StoreTypeOK, SendTypeOK
    <2>2. CASE Goto(r, "replay") /\ UNCHANGED <<rows, today>>
      BY <1>4, <2>2 DEF CreateRow, Goto, TypeOK, StoreTypeOK, SendTypeOK, RequestState, Stage
    <2> QED BY <1>4, <2>1, <2>2 DEF CreateRow
  <1>5. ASSUME NEW r \in Requests, ReplayFromDb(r) PROVE StoreTypeOK' /\ SendTypeOK'
    BY <1>5 DEF ReplayFromDb, RowsOf, GotoWith, TypeOK, StoreTypeOK, SendTypeOK, storeVars,
                RequestState, Response, Row, Stage
  <1>6. ASSUME NEW r \in Requests, EnqueueJob(r) PROVE StoreTypeOK' /\ SendTypeOK'
    <2>1. rq[r].resp.tx \in Requests /\ SendJob(KeyOf[r]) \in JobIds
      BY JobIdFacts DEF TypeOK, SendTypeOK, RequestState, Response
    <2>2. jobs' \in [JobIds -> Job]
      BY <1>6, <2>1, AddJobType DEF EnqueueJob, TypeOK, StoreTypeOK
    <2> QED
      BY <1>6, <2>2 DEF EnqueueJob, Goto, TypeOK, StoreTypeOK, SendTypeOK, RequestState, Stage
  <1>7. ASSUME NEW r \in Requests, WriteCachedResponse(r) PROVE StoreTypeOK' /\ SendTypeOK'
    BY <1>7 DEF WriteCachedResponse, Goto, TypeOK, StoreTypeOK, SendTypeOK, storeVars,
                RequestState, Stage
  <1>8. ASSUME NEW r \in Requests, RequestDies(r) PROVE StoreTypeOK' /\ SendTypeOK'
    BY <1>8 DEF RequestDies, Goto, TypeOK, StoreTypeOK, SendTypeOK, storeVars,
                RequestState, Stage
  <1>9. ASSUME NewDay PROVE StoreTypeOK' /\ SendTypeOK'
    BY <1>9 DEF NewDay, TypeOK, StoreTypeOK, SendTypeOK
  <1>10. ASSUME NEW k \in Keys, CacheExpires(k) PROVE StoreTypeOK' /\ SendTypeOK'
    BY <1>10 DEF CacheExpires, TypeOK, StoreTypeOK, SendTypeOK, storeVars
  <1> QED
    BY <1>1, <1>2, <1>3, <1>4, <1>5, <1>6, <1>7, <1>8, <1>9, <1>10
    DEF SendNext, RequestStep, TypeOK

(* What a worker reads about its job has its type.                         *)
LEMMA WorkerFacts ==
    ASSUME TypeOK, NEW w \in Workers
    PROVE  /\ wk[w] \in WorkerState
           /\ wk[w].job \in JobIds
           /\ JobOf(w) \in Job
           /\ Tx(w) \in Requests
           /\ rows[Tx(w)] \in Row
           /\ chain[Tx(w)] \in Nat
  BY DEF TypeOK, StoreTypeOK, ProcTypeOK, WorkerState, JobOf, Tx, Job

(* The row that runFraudCheck writes is a row.                             *)
LEMMA ScoredType ==
    ASSUME NEW row \in Row, NEW score \in Score
    PROVE  Scored(row, score) \in Row
  BY DEF Scored, Row, Score, Status

(* Moving a worker keeps the workers well typed.                           *)
LEMMA MoveType ==
    ASSUME wk \in [Workers -> WorkerState], NEW w \in Workers, NEW stage \in WorkerStage,
           NEW ok \in BOOLEAN, GoTo(w, stage) \/ Leave(w, stage, ok) \/ Rest(w)
    PROVE  wk' \in [Workers -> WorkerState]
  <1>1. [wk[w] EXCEPT !.pc = stage] \in WorkerState
    BY DEF WorkerState
  <1>2. [wk[w] EXCEPT !.pc = stage, !.ok = ok] \in WorkerState
    BY DEF WorkerState
  <1>3. CASE GoTo(w, stage)
    BY <1>1, <1>3 DEF GoTo
  <1>4. CASE Leave(w, stage, ok)
    <2>1. wk' = [wk EXCEPT ![w] = [wk[w] EXCEPT !.pc = stage, !.ok = ok]]
      BY <1>4 DEF Leave, WorkerState
    <2> QED BY <1>2, <2>1
  <1>5. CASE Rest(w)
    BY <1>5, NullFacts DEF Rest
  <1> QED BY <1>3, <1>4, <1>5

(* Writing a row keeps the table well typed.                               *)
LEMMA DecideType ==
    ASSUME rows \in [Requests -> Row], NEW t \in Requests, NEW row \in Row, Decide(t, row)
    PROVE  rows' \in [Requests -> Row]
  BY DEF Decide

(* Changing what Bull records of a job keeps it a job.                     *)
LEMMA JobType ==
    ASSUME NEW job \in Job, NEW s \in JobState, NEW n \in Nat,
           NEW o \in Workers \cup {NoWorker}
    PROVE  /\ [job EXCEPT !.state = s] \in Job
           /\ [job EXCEPT !.state = s, !.owner = o] \in Job
           /\ [job EXCEPT !.state = s, !.attempts = n, !.owner = o] \in Job
           /\ [job EXCEPT !.state = s, !.stalls = n, !.owner = o] \in Job
  <1>1. [job EXCEPT !.state = s] \in Job
    BY DEF Job
  <1>2. [job EXCEPT !.state = s, !.owner = o] \in Job
    BY DEF Job
  <1>3. [job EXCEPT !.state = s, !.attempts = n, !.owner = o] \in Job
    BY DEF Job
  <1>4. [job EXCEPT !.state = s, !.stalls = n, !.owner = o] \in Job
    BY DEF Job
  <1> QED BY <1>1, <1>2, <1>3, <1>4

(* The lock's operations keep its types.                                   *)
LEMMA LockType ==
    ASSUME L!LockTypeOK, NEW w \in Workers, NEW t \in Requests,
           \/ L!Acquire(w, t)
           \/ L!Release(w, t)
           \/ L!LeaseExpires(t)
           \/ L!HeartbeatFails(w, t)
           \/ L!Forget(w) /\ UNCHANGED lock
    PROVE  L!LockTypeOK'
  BY DEF L!LockTypeOK, L!Acquire, L!Release, L!LeaseExpires, L!HeartbeatFails, L!Forget

(* A worker's own steps keep the types.                                    *)
LEMMA WorkerTypeStep ==
    ASSUME TypeOK, NEW w \in Workers, WorkerStep(w)
    PROVE  StoreTypeOK' /\ ProcTypeOK'
  <1> USE WorkerFacts
  <1> USE DEF TypeOK, StoreTypeOK, ProcTypeOK, storeVars, lockState, SideVars
  <1>m. ASSUME NEW stage \in WorkerStage, NEW ok \in BOOLEAN,
               GoTo(w, stage) \/ Leave(w, stage, ok) \/ Rest(w)
        PROVE  wk' \in [Workers -> WorkerState]
    BY <1>m, MoveType
  <1>s. {"lock", "score", "submit", "settle", "markFailed", "release", "finish", "route"}
           \subseteq WorkerStage
    BY DEF WorkerStage
  <1>l. UNCHANGED <<lock, lost, lapsed>> => L!LockTypeOK'
    BY DEF L!LockTypeOK
  <1>1. CASE LoadTransaction(w)
    <2>1. wk' \in [Workers -> WorkerState]
      BY <1>1, <1>m, <1>s DEF LoadTransaction
    <2> QED BY <1>1, <1>l, <2>1 DEF LoadTransaction
  <1>2. CASE AcquireLock(w)
    <2>1. wk' \in [Workers -> WorkerState]
      BY <1>2, <1>m, <1>s DEF AcquireLock
    <2>2. L!LockTypeOK'
      BY <1>2, LockType DEF AcquireLock
    <2> QED BY <1>2, <2>1, <2>2 DEF AcquireLock
  <1>3. CASE LockHeld(w)
    <2>1. wk' \in [Workers -> WorkerState]
      BY <1>3, <1>m, <1>s DEF LockHeld
    <2> QED BY <1>3, <1>l, <2>1 DEF LockHeld
  <1>4. ASSUME NEW score \in Score, RunFraudCheck(w, score)
        PROVE  StoreTypeOK' /\ ProcTypeOK'
    <2>1. wk' \in [Workers -> WorkerState]
      BY <1>4, <1>m, <1>s DEF RunFraudCheck
    <2>2. rows' \in [Requests -> Row]
      BY <1>4, ScoredType, DecideType DEF RunFraudCheck
    <2> QED BY <1>4, <1>l, <2>1, <2>2 DEF RunFraudCheck
  <1>5. CASE ProcessOnChain(w)
    <2>1. chain' \in [Requests -> Nat]
      BY <1>5 DEF ProcessOnChain
    <2>2. ASSUME NEW n \in Nat PROVE [wk[w] EXCEPT !.pc = "settle", !.hash = n] \in WorkerState
      BY DEF WorkerState, WorkerStage
    <2>3. wk' \in [Workers -> WorkerState]
      <3>1. chain[Tx(w)] + 1 \in Nat
        OBVIOUS
      <3> HIDE DEF TypeOK, StoreTypeOK, ProcTypeOK
      <3>2. [wk[w] EXCEPT !.pc = "settle", !.hash = chain[Tx(w)] + 1] \in WorkerState
        BY <2>2, <3>1
      <3> QED BY <1>5, <3>2 DEF ProcessOnChain, TypeOK, ProcTypeOK
    <2> QED BY <1>5, <1>l, <2>1, <2>3 DEF ProcessOnChain
  <1>6. CASE OnChainFails(w)
    <2>1. wk' \in [Workers -> WorkerState]
      BY <1>6, <1>m, <1>s DEF OnChainFails
    <2> QED BY <1>6, <1>l, <2>1 DEF OnChainFails
  <1>7. CASE MarkSuccess(w)
    <2>1. wk' \in [Workers -> WorkerState]
      BY <1>7, <1>m, <1>s DEF MarkSuccess
    <2>2. [status |-> "SUCCESS", score |-> "low", flagged |-> FALSE, hash |-> wk[w].hash] \in Row
      BY DEF Row, Status, Score, WorkerState
    <2>3. rows' \in [Requests -> Row]
      BY <1>7, <2>2, DecideType DEF MarkSuccess
    <2> QED BY <1>7, <1>l, <2>1, <2>3 DEF MarkSuccess
  <1>8. CASE MarkFailed(w)
    <2>1. wk' \in [Workers -> WorkerState]
      BY <1>8, <1>m, <1>s DEF MarkFailed
    <2>2. [rows[Tx(w)] EXCEPT !.status = "FAILED"] \in Row
      BY DEF Row, Status
    <2>3. rows' \in [Requests -> Row]
      BY <1>8, <2>2, DecideType DEF MarkFailed
    <2> QED BY <1>8, <1>l, <2>1, <2>3 DEF MarkFailed
  <1>9. CASE ReleaseLock(w)
    <2>1. (wk[w].ok /\ ~L!ReleaseThrows(w, Tx(w))) \in BOOLEAN
      OBVIOUS
    <2>2. wk' \in [Workers -> WorkerState]
      BY <1>9, <1>m, <1>s, <2>1 DEF ReleaseLock
    <2>3. L!LockTypeOK'
      BY <1>9, LockType DEF ReleaseLock
    <2> QED BY <1>9, <2>2, <2>3 DEF ReleaseLock
  <1>10. CASE FinishJob(w)
    <2>1. wk' \in [Workers -> WorkerState]
      BY <1>10, <1>m, <1>s DEF FinishJob
    <2>2. jobs' \in [JobIds -> Job]
      <3> DEFINE j == wk[w].job
                 tried == jobs[j].attempts + 1
      <3>1. tried \in Nat /\ Retry(tried) \in JobState /\ "completed" \in JobState
        BY DEF Job, Retry, JobState
      <3>2. [jobs[j] EXCEPT !.state = "completed", !.owner = NoWorker] \in Job
        BY <3>1, JobType
      <3>3. [jobs[j] EXCEPT !.state = Retry(tried), !.attempts = tried, !.owner = NoWorker] \in Job
        BY <3>1, JobType
      <3> QED BY <1>10, <3>2, <3>3 DEF FinishJob
    <2> QED BY <1>10, <1>l, <2>1, <2>2 DEF FinishJob
  <1>11. CASE RouteFailedJobToDlq(w)
    <2>1. wk' \in [Workers -> WorkerState]
      BY <1>11, <1>m, <1>s DEF RouteFailedJobToDlq
    <2> QED BY <1>11, <1>l, <2>1 DEF RouteFailedJobToDlq
  <1> QED
    BY <1>1, <1>2, <1>3, <1>4, <1>5, <1>6, <1>7, <1>8, <1>9, <1>10, <1>11 DEF WorkerStep

(* ... and so do the faults, Bull's own steps, the admin's and the risk    *)
(* update.                                                                 *)
LEMMA ProcTypeStep ==
    ASSUME TypeOK, ProcNext, UNCHANGED sendVars
    PROVE  TypeOK'
  <1> USE WorkerFacts
  <1> USE DEF TypeOK, StoreTypeOK, ProcTypeOK, storeVars, lockState, SideVars
  <1>send. SendTypeOK'
    BY DEF SendTypeOK, sendVars
  <1>lock. UNCHANGED <<lock, lost, lapsed>> => L!LockTypeOK'
    BY DEF L!LockTypeOK
  <1>faults. Fault => faults' \in 0..MaxFaults
    BY ProcessorAssumption DEF Fault
  <1>1. ASSUME NEW w \in Workers, WorkerStep(w) PROVE StoreTypeOK' /\ ProcTypeOK'
    BY <1>1, WorkerTypeStep
  <1>2. ASSUME NEW w \in Workers, WorkerFault(w) PROVE StoreTypeOK' /\ ProcTypeOK'
    <2>1. {"markFailed", "release"} \subseteq WorkerStage
      BY DEF WorkerStage
    <2>2. CASE FraudUpdateFails(w)
      <3>1. wk' \in [Workers -> WorkerState]
        BY <2>1, <2>2, MoveType DEF FraudUpdateFails
      <3> QED BY <1>lock, <1>faults, <2>2, <3>1 DEF FraudUpdateFails
    <2>3. CASE SuccessUpdateFails(w)
      <3>1. wk' \in [Workers -> WorkerState]
        BY <2>1, <2>3, MoveType DEF SuccessUpdateFails
      <3> QED BY <1>lock, <1>faults, <2>3, <3>1 DEF SuccessUpdateFails
    <2>4. CASE FailedUpdateFails(w)
      <3>1. wk' \in [Workers -> WorkerState]
        BY <2>1, <2>4, MoveType DEF FailedUpdateFails
      <3> QED BY <1>lock, <1>faults, <2>4, <3>1 DEF FailedUpdateFails
    <2>5. CASE WorkerCrash(w)
      <3>1. wk' \in [Workers -> WorkerState]
        BY <2>1, <2>5, MoveType DEF WorkerCrash
      <3>2. L!LockTypeOK'
        BY <2>5, LockType DEF WorkerCrash
      <3> QED BY <1>faults, <2>5, <3>1, <3>2 DEF WorkerCrash
    <2> QED BY <1>2, <2>2, <2>3, <2>4, <2>5 DEF WorkerFault
  <1>3. ASSUME NEW w \in Workers, Heartbeat(w) PROVE StoreTypeOK' /\ ProcTypeOK'
    <2>1. L!LockTypeOK'
      BY <1>3, LockType DEF Heartbeat
    <2> QED BY <1>3, <2>1 DEF Heartbeat
  <1>4. ASSUME NEW w \in Workers, NEW j \in JobIds, TakeJob(w, j)
        PROVE  StoreTypeOK' /\ ProcTypeOK'
    <2>1. "active" \in JobState
      BY DEF JobState
    <2>2. jobs' \in [JobIds -> Job]
      BY <1>4, <2>1, JobType DEF TakeJob
    <2>3. [IdleWorker EXCEPT !.pc = "load", !.job = j] \in WorkerState
      BY NullFacts DEF WorkerState, WorkerStage
    <2>4. wk' \in [Workers -> WorkerState]
      BY <1>4, <2>3 DEF TakeJob
    <2> QED BY <1>4, <1>lock, <2>2, <2>4 DEF TakeJob
  <1>5. ASSUME NEW j \in JobIds, PromoteDelayed(j) PROVE StoreTypeOK' /\ ProcTypeOK'
    <2>1. [jobs[j] EXCEPT !.state = "wait"] \in Job
      BY DEF Job, JobState
    <2>2. jobs' \in [JobIds -> Job]
      BY <1>5, <2>1 DEF PromoteDelayed
    <2> QED BY <1>5, <1>lock, <2>2 DEF PromoteDelayed, procVars
  <1>6. ASSUME NEW j \in JobIds, MoveStalled(j) PROVE jobs' \in [JobIds -> Job]
    <2> DEFINE s == IF jobs[j].stalls < MaxStalledCount THEN "wait" ELSE "failed"
    <2>1. s \in JobState /\ jobs[j].stalls + 1 \in Nat
      BY DEF JobState, Job
    <2>2. [jobs[j] EXCEPT !.state = s, !.stalls = jobs[j].stalls + 1, !.owner = NoWorker] \in Job
      BY <2>1, JobType
    <2> QED BY <1>6, <2>2 DEF MoveStalled
  <1>7. ASSUME NEW j \in JobIds, StalledOrphan(j) PROVE StoreTypeOK' /\ ProcTypeOK'
    BY <1>6, <1>7, <1>lock DEF StalledOrphan, procVars
  <1>8. ASSUME NEW j \in JobIds, StalledAlive(j) PROVE StoreTypeOK' /\ ProcTypeOK'
    BY <1>6, <1>8, <1>lock, <1>faults DEF StalledAlive
  <1>9. ASSUME NEW j \in JobIds, ReplayDlq(j) PROVE StoreTypeOK' /\ ProcTypeOK'
    <2>1. jobs[j].tx \in Requests /\ jobs[j].req \in Requests
      BY DEF Job
    <2>2. replays + 1 \in 1..MaxReplays /\ replays' \in 0..MaxReplays
      BY <1>9, StoreAssumption DEF ReplayDlq
    <2>3. jobs' \in [JobIds -> Job]
      BY <1>9, <2>1, <2>2, JobIdFacts, AddJobType DEF ReplayDlq
    <2> QED BY <1>9, <1>lock, <2>2, <2>3 DEF ReplayDlq
  <1>10. ASSUME NEW t \in Requests, OrphanLeaseExpires(t) \/ LeaseLapses(t)
         PROVE  StoreTypeOK' /\ ProcTypeOK'
    <2>1. L!LockTypeOK'
      BY <1>10 DEF OrphanLeaseExpires, LeaseLapses, L!LockTypeOK, L!LeaseExpires
    <2> QED BY <1>10, <1>faults, <2>1 DEF OrphanLeaseExpires, LeaseLapses
  <1>11. ASSUME NEW t \in Requests, NEW f \in BOOLEAN, RiskRead(t, f)
         PROVE  StoreTypeOK' /\ ProcTypeOK'
    <2>1. (f /\ rows[t].status \in {"PENDING", "RETRYING"}) \in BOOLEAN
      OBVIOUS
    <2>2. risk.count + 1 \in 0..MaxRiskUpdates
      BY <1>11, ProcessorAssumption DEF RiskRead, RiskState
    <2>3. risk' \in RiskState
      BY <1>11, <2>1, <2>2 DEF RiskRead, RiskState
    <2> QED BY <1>11, <1>lock, <2>3 DEF RiskRead
  <1>12. ASSUME RiskWrite PROVE StoreTypeOK' /\ ProcTypeOK'
    <2> DEFINE t == risk.tx
               scored == [rows[t] EXCEPT !.score = IF risk.flagged THEN "high" ELSE "low",
                                         !.flagged = risk.flagged]
    <2>1. t \in Requests /\ risk.flagged \in BOOLEAN /\ risk.count \in 0..MaxRiskUpdates
      BY DEF RiskState
    <2>2. scored \in Row
      <3>1. ASSUME NEW row \in Row, NEW s \in Score, NEW f \in BOOLEAN
            PROVE  [row EXCEPT !.score = s, !.flagged = f] \in Row
        BY DEF Row
      <3>2. rows[t] \in Row /\ (IF risk.flagged THEN "high" ELSE "low") \in Score
        BY <2>1 DEF Score
      <3> QED BY <2>1, <3>1, <3>2
    <2>3. [scored EXCEPT !.status = "PENDING_REVIEW"] \in Row
      BY <2>2 DEF Row, Status
    <2>4. rows' \in [Requests -> Row]
      BY <1>12, <2>1, <2>2, <2>3, DecideType DEF RiskWrite
    <2>5. risk' \in RiskState
      BY <1>12, <2>1, NullFacts DEF RiskWrite
    <2> QED BY <1>12, <1>lock, <2>4, <2>5 DEF RiskWrite
  <1> QED
    BY <1>send, <1>1, <1>2, <1>3, <1>4, <1>5, <1>7, <1>8, <1>9, <1>10, <1>11, <1>12
    DEF ProcNext

(* Every reachable state of the pipeline is well typed, whatever the       *)
(* requests, the keys, the workers and the bounds.                         *)
THEOREM TypeCorrect == Spec => []TypeOK
  <1>1. TypeOK /\ [Next]_vars => TypeOK'
    <2> SUFFICES ASSUME TypeOK, [Next]_vars PROVE TypeOK'
      OBVIOUS
    <2>1. CASE SendNext /\ UNCHANGED procVars
      BY <2>1, SendTypeStep
    <2>2. CASE ProcNext /\ UNCHANGED sendVars
      BY <2>2, ProcTypeStep
    <2>3. CASE UNCHANGED vars
      BY <2>3 DEF vars, storeVars, sendVars, procVars, TypeOK, StoreTypeOK, SendTypeOK,
                  ProcTypeOK, L!LockTypeOK
    <2> QED BY <2>1, <2>2, <2>3 DEF Next
  <1> QED BY <1>1, TypeInit, PTL DEF Spec

-----------------------------------------------------------------------------
(***************************************************************************)
(* The inductive invariant.  What the steps of one actor do to the state   *)
(* the others rely on is stated once: rows stay and stay decided, jobs     *)
(* keep their transaction, and only an insert makes a row.                 *)
(***************************************************************************)
RowsStay ==
    \A t \in Requests : /\ Exists(t) => Exists(t)'
                        /\ rows[t].status \in Terminal => rows'[t].status \in Terminal

NoNewRows == \A t \in Requests : Exists(t)' => Exists(t)

(* A job changes only in what Bull records of it, and a finished one not   *)
(* at all.                                                                 *)
JobsStay ==
    \A j \in JobIds :
        jobs[j].state # "none" =>
            /\ jobs'[j].state # "none"
            /\ jobs'[j].tx = jobs[j].tx /\ jobs'[j].req = jobs[j].req
            /\ jobs[j].state \in {"completed", "failed"} => jobs'[j] = jobs[j]

(* Writing a row that exists, without reopening it, keeps the rows.        *)
LEMMA DecideStays ==
    ASSUME rows \in [Requests -> Row], NEW t \in Requests, NEW row \in Row, Decide(t, row),
           Exists(t), row.status # "NONE",
           rows[t].status \in Terminal => row.status \in Terminal
    PROVE  RowsStay /\ NoNewRows
  BY DEF Decide, RowsStay, NoNewRows, Exists

(* runFraudCheck leaves a row open exactly when the score is low.          *)
LEMMA ScoredFacts ==
    ASSUME NEW row \in Row, NEW score \in Score
    PROVE  /\ score = "low" => Scored(row, score).status = row.status
           /\ score # "low" => Scored(row, score).status \in {"FAILED", "PENDING_REVIEW"}
           /\ Scored(row, score).hash = row.hash
  BY DEF Scored, Row, Score

(* A busy worker's job is in the queue and its transaction exists.         *)
LEMMA BusyFacts ==
    ASSUME IInv, NEW w \in Workers, wk[w].pc # "idle"
    PROVE  /\ JobOf(w).state # "none"
           /\ Exists(Tx(w))
  BY WorkerFacts DEF IInv, WorkersAreCoherent, WorkerIsCoherent, JobsAreAboutRows, JobOf, Tx

(* The workers insert no row and reopen none.                              *)
LEMMA ProcRows ==
    ASSUME IInv, ProcNext
    PROVE  RowsStay /\ NoNewRows
  <1> USE DEF storeVars, SideVars
  <1>0. TypeOK /\ rows \in [Requests -> Row]
    BY DEF IInv, TypeOK, StoreTypeOK
  <1>same. UNCHANGED rows => RowsStay /\ NoNewRows
    BY DEF RowsStay, NoNewRows, Exists
  <1>1. ASSUME NEW w \in Workers, NEW score \in Score, RunFraudCheck(w, score)
        PROVE  RowsStay /\ NoNewRows
    <2>1. Exists(Tx(w)) /\ rows[Tx(w)] \in Row /\ Tx(w) \in Requests
      BY <1>0, <1>1, BusyFacts, WorkerFacts DEF RunFraudCheck, At
    <2> DEFINE row == Scored(rows[Tx(w)], score)
    <2>2. row \in Row /\ row.status # "NONE" /\ (rows[Tx(w)].status \in Terminal => row.status \in Terminal)
      BY <2>1, ScoredType, ScoredFacts DEF Exists, Terminal
    <2>3. Decide(Tx(w), row)
      BY <1>1 DEF RunFraudCheck
    <2> HIDE DEF row
    <2> QED BY <1>0, <2>1, <2>2, <2>3, DecideStays
  <1>2. ASSUME NEW w \in Workers, MarkSuccess(w) \/ MarkFailed(w) PROVE RowsStay /\ NoNewRows
    <2>1. Exists(Tx(w)) /\ rows[Tx(w)] \in Row /\ Tx(w) \in Requests /\ wk[w] \in WorkerState
      BY <1>0, <1>2, BusyFacts, WorkerFacts DEF MarkSuccess, MarkFailed, At
    <2>2. ASSUME NEW row \in Row, Decide(Tx(w), row), row.status \in {"SUCCESS", "FAILED"}
          PROVE  RowsStay /\ NoNewRows
      BY <1>0, <2>1, <2>2, DecideStays DEF Terminal
    <2>3. CASE MarkSuccess(w)
      <3>1. [status |-> "SUCCESS", score |-> "low", flagged |-> FALSE, hash |-> wk[w].hash] \in Row
        BY <2>1 DEF Row, Status, Score, WorkerState
      <3> QED BY <2>2, <2>3, <3>1 DEF MarkSuccess
    <2>4. CASE MarkFailed(w)
      <3>1. /\ [rows[Tx(w)] EXCEPT !.status = "FAILED"] \in Row
            /\ [rows[Tx(w)] EXCEPT !.status = "FAILED"].status = "FAILED"
        BY <2>1 DEF Row, Status
      <3> QED BY <2>2, <2>4, <3>1 DEF MarkFailed
    <2> QED BY <1>2, <2>3, <2>4
  <1>3. ASSUME RiskWrite PROVE RowsStay /\ NoNewRows
    <2> DEFINE t == risk.tx
               scored == [rows[t] EXCEPT !.score = IF risk.flagged THEN "high" ELSE "low",
                                         !.flagged = risk.flagged]
               row == IF risk.hold THEN [scored EXCEPT !.status = "PENDING_REVIEW"] ELSE scored
    <2>1. t \in Requests /\ rows[t] \in Row /\ Exists(t) /\ Decide(t, row)
      BY <1>0, <1>3 DEF TypeOK, ProcTypeOK, RiskState, IInv, RiskHasRow, RiskWrite
    <2>2. row.status \in {rows[t].status, "PENDING_REVIEW"}
      BY <2>1 DEF Row
    <2>3. rows' = [rows EXCEPT ![t] = row]
      BY <2>1 DEF Decide
    <2> HIDE DEF row
    <2> QED BY <1>0, <2>1, <2>2, <2>3 DEF RowsStay, NoNewRows, Exists, Terminal
  <1>4. ASSUME NEW w \in Workers, WorkerStep(w) PROVE RowsStay /\ NoNewRows
    BY <1>same, <1>1, <1>2, <1>4
    DEF WorkerStep, LoadTransaction, AcquireLock, LockHeld, ProcessOnChain, OnChainFails,
        ReleaseLock, FinishJob, RouteFailedJobToDlq
  <1>5. ASSUME NEW w \in Workers, WorkerFault(w) \/ Heartbeat(w) PROVE UNCHANGED rows
    BY <1>5 DEF WorkerFault, FraudUpdateFails, SuccessUpdateFails, FailedUpdateFails,
                WorkerCrash, Heartbeat
  <1>6. ASSUME NEW w \in Workers, NEW j \in JobIds, TakeJob(w, j) PROVE UNCHANGED rows
    BY <1>6 DEF TakeJob
  <1>7. ASSUME NEW j \in JobIds,
               PromoteDelayed(j) \/ StalledOrphan(j) \/ StalledAlive(j) \/ ReplayDlq(j)
        PROVE  UNCHANGED rows
    BY <1>7 DEF PromoteDelayed, StalledOrphan, StalledAlive, ReplayDlq
  <1>8. ASSUME NEW t \in Requests, OrphanLeaseExpires(t) \/ LeaseLapses(t) PROVE UNCHANGED rows
    BY <1>8 DEF OrphanLeaseExpires, LeaseLapses
  <1>9. ASSUME NEW t \in Requests, NEW f \in BOOLEAN, RiskRead(t, f) PROVE UNCHANGED rows
    BY <1>9 DEF RiskRead
  <1> QED
    BY <1>same, <1>3, <1>4, <1>5, <1>6, <1>7, <1>8, <1>9 DEF ProcNext

(* What a step of the processor does to the queue: it touches no finished  *)
(* job, adds only replay jobs, each about an existing transaction, and     *)
(* completes a job only when its transaction is decided.                   *)
ProcJobsSafe ==
    /\ JobsStay
    /\ \A j \in JobIds :
          jobs[j].state = "none" /\ jobs'[j].state # "none" =>
              /\ Exists(jobs'[j].tx)
              /\ \A k \in Keys : j # SendJob(k)
    /\ \A j \in JobIds :
          jobs[j].state # "completed" /\ jobs'[j].state = "completed" =>
              jobs[j].state # "none" /\ rows[jobs[j].tx].status \in Terminal
    /\ AttemptsAreBounded'

(* What the worker side does to the jobs.                                  *)
LEMMA ProcJobs ==
    ASSUME IInv, ProcNext
    PROVE  ProcJobsSafe
  <1> USE DEF storeVars, SideVars
  <1>0. TypeOK /\ jobs \in [JobIds -> Job] /\ AttemptsAreBounded
    BY DEF IInv, TypeOK, StoreTypeOK
  <1>same. UNCHANGED jobs => ProcJobsSafe
    BY <1>0 DEF ProcJobsSafe, JobsStay, AttemptsAreBounded
  <1>new. ASSUME NEW j \in JobIds, NEW job \in Job, jobs' = [jobs EXCEPT ![j] = job],
                 jobs[j].state \in {"wait", "active", "delayed"},
                 job.tx = jobs[j].tx, job.req = jobs[j].req, job.state # "none",
                 job.state = "completed" => rows[job.tx].status \in Terminal,
                 \/ job.attempts < MaxAttempts
                 \/ job.attempts = MaxAttempts /\ job.state = "failed"
          PROVE  ProcJobsSafe
    <2>1. job.attempts \in Nat
      BY DEF Job
    <2> QED
      BY <1>0, <1>new, <2>1, StoreAssumption DEF ProcJobsSafe, JobsStay, AttemptsAreBounded
  <1>open. ASSUME NEW j \in JobIds, jobs[j].state # "failed"
           PROVE  jobs[j].attempts \in Nat /\ jobs[j].attempts < MaxAttempts
    <2>1. jobs[j].attempts \in Nat
      BY <1>0 DEF Job
    <2> QED BY <1>0, <1>open, <2>1, StoreAssumption DEF AttemptsAreBounded
  <1>1. ASSUME NEW w \in Workers, FinishJob(w) PROVE ProcJobsSafe
    <2> DEFINE j == wk[w].job
               tried == jobs[j].attempts + 1
               done == [jobs[j] EXCEPT !.state = "completed", !.owner = NoWorker]
               again == [jobs[j] EXCEPT !.state = Retry(tried), !.attempts = tried,
                                        !.owner = NoWorker]
    <2>1. j \in JobIds /\ jobs[j] \in Job /\ tried \in Nat
      BY <1>0, WorkerFacts DEF Job
    <2>2. Retry(tried) \in JobState /\ "completed" \in JobState
      BY DEF Retry, JobState
    <2>3. done \in Job /\ done.tx = jobs[j].tx /\ done.req = jobs[j].req /\ done.state = "completed"
             /\ done.attempts = jobs[j].attempts
      BY <2>1, <2>2, JobType DEF Job
    <2>4. again \in Job /\ again.tx = jobs[j].tx /\ again.req = jobs[j].req /\ again.state = Retry(tried)
             /\ again.attempts = tried
      BY <2>1, <2>2, JobType DEF Job
    <2>5. CASE UNCHANGED jobs
      BY <2>5, <1>same
    <2>6. CASE jobs[j].state = "active" /\ wk[w].ok /\ jobs' = [jobs EXCEPT ![j] = done]
      <3>1. rows[jobs[j].tx].status \in Terminal
        BY <1>1, <2>6 DEF FinishJob, At, IInv, WorkersAreCoherent, WorkerIsCoherent, Tx, JobOf
      <3>2. jobs[j].attempts < MaxAttempts
        BY <1>open, <2>1, <2>6
      <3> HIDE DEF done, j
      <3> QED BY <1>new, <2>1, <2>3, <2>6, <3>1, <3>2
    <2>7. CASE jobs[j].state = "active" /\ jobs' = [jobs EXCEPT ![j] = again]
      <3>1. jobs[j].attempts \in Nat /\ jobs[j].attempts < MaxAttempts
        BY <1>open, <2>1, <2>7
      <3>2. \/ tried < MaxAttempts /\ Retry(tried) = "delayed"
            \/ tried = MaxAttempts /\ Retry(tried) = "failed"
        BY <3>1, StoreAssumption DEF Retry
      <3> HIDE DEF again, j, tried
      <3> QED BY <1>new, <2>1, <2>4, <2>7, <3>2
    <2> QED BY <1>1, <2>5, <2>6, <2>7 DEF FinishJob
  <1>2. ASSUME NEW w \in Workers, NEW j \in JobIds, TakeJob(w, j) PROVE ProcJobsSafe
    <2> DEFINE job == [jobs[j] EXCEPT !.state = "active", !.owner = w]
    <2>1. jobs' = [jobs EXCEPT ![j] = job] /\ jobs[j].state = "wait" /\ jobs[j] \in Job
      BY <1>0, <1>2 DEF TakeJob
    <2>2. job \in Job /\ job.tx = jobs[j].tx /\ job.req = jobs[j].req /\ job.state = "active"
             /\ job.attempts = jobs[j].attempts
      BY <2>1 DEF Job, JobState
    <2>3. jobs[j].attempts < MaxAttempts
      BY <1>open, <2>1
    <2> HIDE DEF job
    <2> QED BY <1>new, <2>1, <2>2, <2>3
  <1>3. ASSUME NEW j \in JobIds, MoveStalled(j) PROVE ProcJobsSafe
    <2> DEFINE s == IF jobs[j].stalls < MaxStalledCount THEN "wait" ELSE "failed"
               job == [jobs[j] EXCEPT !.state = s, !.stalls = jobs[j].stalls + 1, !.owner = NoWorker]
    <2>1. jobs' = [jobs EXCEPT ![j] = job] /\ jobs[j].state = "active" /\ jobs[j] \in Job
      BY <1>0, <1>3 DEF MoveStalled
    <2>2. s \in {"wait", "failed"} /\ s \in JobState /\ jobs[j].stalls + 1 \in Nat
      BY <2>1 DEF JobState, Job
    <2>3. job \in Job /\ job.tx = jobs[j].tx /\ job.req = jobs[j].req /\ job.state = s
             /\ job.attempts = jobs[j].attempts
      BY <2>1, <2>2, JobType DEF Job
    <2>4. jobs[j].attempts < MaxAttempts
      BY <1>open, <2>1
    <2> HIDE DEF job, s
    <2> QED BY <1>new, <2>1, <2>2, <2>3, <2>4
  <1>4. ASSUME NEW j \in JobIds, PromoteDelayed(j) PROVE ProcJobsSafe
    <2> DEFINE job == [jobs[j] EXCEPT !.state = "wait"]
    <2>1. jobs' = [jobs EXCEPT ![j] = job] /\ jobs[j].state = "delayed" /\ jobs[j] \in Job
      BY <1>0, <1>4 DEF PromoteDelayed
    <2>2. job \in Job /\ job.tx = jobs[j].tx /\ job.req = jobs[j].req /\ job.state = "wait"
             /\ job.attempts = jobs[j].attempts
      BY <2>1 DEF Job, JobState
    <2>3. jobs[j].attempts < MaxAttempts
      BY <1>open, <2>1
    <2> HIDE DEF job
    <2> QED BY <1>new, <2>1, <2>2, <2>3
  <1>5. ASSUME NEW j \in JobIds, ReplayDlq(j) PROVE ProcJobsSafe
    <2> DEFINE i == ReplayJob(replays + 1)
               job == NewJob(jobs[j].tx, jobs[j].req)
    <2>1. i \in JobIds /\ \A k \in Keys : i # SendJob(k)
      <3>1. replays + 1 \in 1..MaxReplays
        BY <1>5, <1>0, StoreAssumption DEF ReplayDlq, TypeOK, ProcTypeOK
      <3> QED BY <3>1, JobIdFacts
    <2>2. jobs[j].state = "failed" /\ Exists(jobs[j].tx)
      BY <1>5 DEF ReplayDlq, IInv, DlqIsExhausted, JobsAreAboutRows
    <2>3. job.tx = jobs[j].tx /\ job.state = "wait" /\ job.attempts = 0
      BY DEF NewJob, NoJob
    <2>4. jobs' = jobs \/ (jobs[i].state = "none" /\ jobs' = [jobs EXCEPT ![i] = job])
      BY <1>5 DEF ReplayDlq, AddJob
    <2> HIDE DEF i, job
    <2> QED
      BY <1>0, <1>same, <2>1, <2>2, <2>3, <2>4, StoreAssumption
      DEF ProcJobsSafe, JobsStay, AttemptsAreBounded
  <1>6. ASSUME NEW w \in Workers, WorkerStep(w) PROVE ProcJobsSafe
    BY <1>same, <1>1, <1>6
    DEF WorkerStep, LoadTransaction, AcquireLock, LockHeld, RunFraudCheck, ProcessOnChain,
        OnChainFails, MarkSuccess, MarkFailed, ReleaseLock, RouteFailedJobToDlq
  <1>7. ASSUME NEW w \in Workers, WorkerFault(w) \/ Heartbeat(w) PROVE UNCHANGED jobs
    BY <1>7 DEF WorkerFault, FraudUpdateFails, SuccessUpdateFails, FailedUpdateFails,
                WorkerCrash, Heartbeat
  <1>8. ASSUME NEW t \in Requests, OrphanLeaseExpires(t) \/ LeaseLapses(t) PROVE UNCHANGED jobs
    BY <1>8 DEF OrphanLeaseExpires, LeaseLapses
  <1>9. ASSUME NEW t \in Requests, NEW f \in BOOLEAN, RiskRead(t, f) PROVE UNCHANGED jobs
    BY <1>9 DEF RiskRead
  <1>10. RiskWrite => UNCHANGED jobs
    BY DEF RiskWrite
  <1> QED
    BY <1>same, <1>2, <1>3, <1>4, <1>5, <1>6, <1>7, <1>8, <1>9, <1>10
    DEF ProcNext, StalledOrphan, StalledAlive

(* A processor step keeps what the requests rely on.                       *)
LEMMA ProcKeepsRequests ==
    ASSUME IInv, ProcNext, UNCHANGED sendVars, TypeOK'
    PROVE  OneRowPerKey' /\ JobsAreAboutRows' /\ RequestsAreCoherent' /\ AcceptedIsQueued'
  <1> USE ProcRows, ProcJobs, JobIdFacts, StoreAssumption
  <1>0. /\ \A j \in JobIds : jobs[j].tx \in Requests /\ jobs'[j].tx \in Requests
        /\ \A k \in Keys : cache[k].tx \in Requests
        /\ \A r \in Requests : rq[r].resp.tx \in Requests
        /\ cache' = cache /\ rq' = rq
    BY DEF IInv, TypeOK, StoreTypeOK, SendTypeOK, Job, Response, RequestState, sendVars
  <1>1. OneRowPerKey'
    BY DEF IInv, OneRowPerKey, NoNewRows
  <1>2. JobsAreAboutRows'
    BY <1>0 DEF IInv, JobsAreAboutRows, ProcJobsSafe, JobsStay, RowsStay
  <1>3. ASSUME NEW k \in Keys, NEW resp, resp.tx \in Requests, Queued(k, resp)
        PROVE  /\ Exists(resp.tx)'
               /\ KeyOf[resp.tx] = k
               /\ jobs'[SendJob(k)].state # "none"
               /\ jobs'[SendJob(k)].tx = resp.tx
    BY <1>3 DEF Queued, ProcJobsSafe, JobsStay, RowsStay
  <1>4. RequestsAreCoherent'
    <2>1. ASSUME NEW r \in Requests, rq[r].pc \in {"enqueue", "cache", "done"}
          PROVE  Exists(rq[r].resp.tx)' /\ KeyOf[rq[r].resp.tx] = KeyOf[r]
      BY <1>0, <2>1 DEF IInv, RequestsAreCoherent, RequestIsCoherent, RowsStay, Exists
    <2>2. ASSUME NEW r \in Requests, rq[r].pc \in {"cache", "done"}
          PROVE  Queued(KeyOf[r], rq[r].resp)'
      <3>1. Queued(KeyOf[r], rq[r].resp) /\ KeyOf[r] \in Keys
        BY <2>2 DEF IInv, RequestsAreCoherent, RequestIsCoherent
      <3> QED BY <1>0, <1>3, <3>1 DEF Queued, Exists
    <2> QED BY <1>0, <2>1, <2>2 DEF RequestsAreCoherent, RequestIsCoherent, Exists
  <1>5. AcceptedIsQueued'
    <2>1. ASSUME NEW k \in Keys, cache[k].status # "NONE" PROVE Queued(k, cache[k])'
      <3>1. Queued(k, cache[k])
        BY <2>1 DEF IInv, AcceptedIsQueued
      <3> QED BY <1>0, <1>3, <3>1 DEF Queued, Exists
    <2>2. ASSUME NEW r \in Requests, rq[r].pc = "done" PROVE Queued(KeyOf[r], rq[r].resp)'
      <3>1. Queued(KeyOf[r], rq[r].resp) /\ KeyOf[r] \in Keys
        BY <2>2 DEF IInv, AcceptedIsQueued
      <3> QED BY <1>0, <1>3, <3>1 DEF Queued, Exists
    <2> QED BY <1>0, <2>1, <2>2 DEF AcceptedIsQueued
  <1> QED BY <1>1, <1>2, <1>4, <1>5

(* The number of submissions only grows.                                   *)
ChainGrows == \A t \in Requests : chain[t] <= chain'[t]

(* Submissions are never taken back.                                       *)
LEMMA ProcChain ==
    ASSUME TypeOK, ProcNext
    PROVE  ChainGrows
  <1> USE DEF procVars
  <1>same. UNCHANGED chain => ChainGrows
    BY DEF ChainGrows, TypeOK, ProcTypeOK
  <1>1. ASSUME NEW w \in Workers, WorkerStep(w) PROVE ChainGrows
    <2>1. CASE ProcessOnChain(w)
      BY <2>1, WorkerFacts DEF ProcessOnChain, ChainGrows, TypeOK, ProcTypeOK
    <2> QED
      BY <1>1, <1>same, <2>1
      DEF WorkerStep, LoadTransaction, AcquireLock, LockHeld, RunFraudCheck, OnChainFails,
          MarkSuccess, MarkFailed, ReleaseLock, FinishJob, RouteFailedJobToDlq
  <1>2. ASSUME NEW w \in Workers, WorkerFault(w) \/ Heartbeat(w) PROVE UNCHANGED chain
    BY <1>2 DEF WorkerFault, FraudUpdateFails, SuccessUpdateFails, FailedUpdateFails,
                WorkerCrash, Heartbeat
  <1>3. ASSUME NEW w \in Workers, NEW j \in JobIds, TakeJob(w, j) PROVE UNCHANGED chain
    BY <1>3 DEF TakeJob
  <1>4. ASSUME NEW j \in JobIds,
               PromoteDelayed(j) \/ StalledOrphan(j) \/ StalledAlive(j) \/ ReplayDlq(j)
        PROVE  UNCHANGED chain
    BY <1>4 DEF PromoteDelayed, StalledOrphan, StalledAlive, ReplayDlq
  <1>5. ASSUME NEW t \in Requests, OrphanLeaseExpires(t) \/ LeaseLapses(t) PROVE UNCHANGED chain
    BY <1>5 DEF OrphanLeaseExpires, LeaseLapses
  <1>6. ASSUME NEW t \in Requests, NEW f \in BOOLEAN, RiskRead(t, f) PROVE UNCHANGED chain
    BY <1>6 DEF RiskRead
  <1>7. RiskWrite => UNCHANGED chain
    BY DEF RiskWrite
  <1> QED BY <1>same, <1>1, <1>2, <1>3, <1>4, <1>5, <1>6, <1>7 DEF ProcNext

(* A worker that does not move keeps what it knows.                        *)
LEMMA WorkerStays ==
    ASSUME IInv, TypeOK', RowsStay, JobsStay, ChainGrows, NEW v \in Workers, wk'[v] = wk[v]
    PROVE  WorkerIsCoherent(v)'
  <1>1. WorkerIsCoherent(v) /\ TypeOK
    BY DEF IInv, WorkersAreCoherent
  <1>2. /\ wk[v].job \in JobIds /\ Tx(v) \in Requests /\ wk[v].hash \in Nat
        /\ chain[Tx(v)] \in Nat /\ chain'[Tx(v)] \in Nat
    BY <1>1, WorkerFacts DEF WorkerState, TypeOK, ProcTypeOK
  <1>3. wk[v].pc # "idle" => JobOf(v)'.state # "none" /\ Tx(v)' = Tx(v)
    BY <1>1, <1>2 DEF WorkerIsCoherent, JobsStay, JobOf, Tx
  <1>4. wk[v].pc \in {"release", "finish"} /\ wk[v].ok => rows'[Tx(v)].status \in Terminal
    BY <1>1, <1>2 DEF WorkerIsCoherent, RowsStay
  <1>5. wk[v].pc = "settle" => wk[v].hash \in 1..chain'[Tx(v)]
    BY <1>1, <1>2 DEF WorkerIsCoherent, ChainGrows
  <1>6. wk[v].pc = "route" => JobOf(v)'.state = "failed" /\ JobOf(v)'.attempts = MaxAttempts
    BY <1>1, <1>2 DEF WorkerIsCoherent, JobsStay, JobOf
  <1> QED BY <1>3, <1>4, <1>5, <1>6 DEF WorkerIsCoherent

(* A worker's own step leads it to a stage it knows enough for.            *)
LEMMA ActorIsCoherent ==
    ASSUME IInv, TypeOK', RowsStay, JobsStay, NEW w \in Workers,
           WorkerStep(w) \/ WorkerFault(w)
    PROVE  WorkerIsCoherent(w)'
  <1> USE DEF At, GoTo, Leave, Rest, storeVars
  <1>0. /\ TypeOK /\ WorkerIsCoherent(w) /\ wk \in [Workers -> WorkerState]
        /\ wk[w] \in WorkerState /\ wk[w].job \in JobIds /\ Tx(w) \in Requests
        /\ chain[Tx(w)] \in Nat /\ chain \in [Requests -> Nat]
    BY WorkerFacts DEF IInv, WorkersAreCoherent, TypeOK, ProcTypeOK
  <1>1. wk[w].pc # "idle" => /\ jobs'[wk[w].job].state # "none"
                             /\ jobs'[wk[w].job].tx = Tx(w)
    BY <1>0 DEF WorkerIsCoherent, JobsStay, JobOf, Tx
  <1>rest. Rest(w) => WorkerIsCoherent(w)'
    BY <1>0 DEF WorkerIsCoherent, IdleWorker
  <1>move. ASSUME NEW stage \in {"lock", "score", "submit", "markFailed"}, GoTo(w, stage),
                  wk[w].pc # "idle"
           PROVE  WorkerIsCoherent(w)'
    BY <1>0, <1>1, <1>move DEF WorkerIsCoherent, JobOf, Tx, WorkerState
  <1>leave. ASSUME NEW stage \in {"release", "finish"}, NEW ok \in BOOLEAN, Leave(w, stage, ok),
                   wk[w].pc # "idle", ok => rows'[Tx(w)].status \in Terminal
            PROVE  WorkerIsCoherent(w)'
    <2>1. wk'[w].pc = stage /\ wk'[w].ok = ok /\ wk'[w].job = wk[w].job
      BY <1>0, <1>leave DEF WorkerState
    <2> QED BY <1>1, <1>leave, <2>1 DEF WorkerIsCoherent, JobOf, Tx
  <1>2. CASE LoadTransaction(w)
    BY <1>0, <1>2, <1>move, <1>leave DEF LoadTransaction
  <1>3. CASE AcquireLock(w)
    BY <1>0, <1>3, <1>move, <1>leave DEF AcquireLock
  <1>4. CASE LockHeld(w)
    BY <1>0, <1>4, <1>leave DEF LockHeld
  <1>5. ASSUME NEW score \in Score, RunFraudCheck(w, score) PROVE WorkerIsCoherent(w)'
    <2>1. CASE score = "low"
      BY <1>5, <1>move, <2>1 DEF RunFraudCheck
    <2>2. CASE score # "low"
      <3>1. Scored(rows[Tx(w)], score).status \in Terminal
        BY <1>0, <2>2, ScoredFacts, WorkerFacts DEF Terminal
      <3>2. rows'[Tx(w)] = Scored(rows[Tx(w)], score)
        BY <1>0, <1>5 DEF RunFraudCheck, Decide, TypeOK, StoreTypeOK
      <3> QED BY <1>5, <1>leave, <2>2, <3>1, <3>2 DEF RunFraudCheck
    <2> QED BY <2>1, <2>2
  <1>6. CASE ProcessOnChain(w)
    <2>1. /\ wk'[w].pc = "settle" /\ wk'[w].job = wk[w].job
          /\ wk'[w].hash = chain[Tx(w)] + 1
      BY <1>0, <1>6 DEF ProcessOnChain, WorkerState
    <2>2. chain'[Tx(w)] = chain[Tx(w)] + 1
      BY <1>0, <1>6 DEF ProcessOnChain
    <2>3. Tx(w)' = Tx(w)
      BY <1>1, <1>6, <2>1 DEF ProcessOnChain, Tx, JobOf
    <2>4. wk'[w].hash \in 1..chain'[Tx(w)']
      BY <1>0, <2>1, <2>2, <2>3
    <2> QED BY <1>1, <1>6, <2>1, <2>4 DEF ProcessOnChain, WorkerIsCoherent, JobOf
  <1>7. CASE OnChainFails(w)
    BY <1>7, <1>move DEF OnChainFails
  <1>8. CASE MarkSuccess(w)
    <2>1. rows'[Tx(w)].status = "SUCCESS"
      BY <1>0, <1>8 DEF MarkSuccess, Decide, TypeOK, StoreTypeOK
    <2> QED BY <1>8, <1>leave, <2>1 DEF MarkSuccess, Terminal
  <1>9. CASE MarkFailed(w)
    BY <1>9, <1>leave DEF MarkFailed
  <1>10. CASE ReleaseLock(w)
    <2> DEFINE ok == wk[w].ok /\ ~L!ReleaseThrows(w, Tx(w))
    <2>1. ok \in BOOLEAN /\ (ok => wk[w].ok)
      OBVIOUS
    <2>2. wk[w].ok => rows'[Tx(w)].status \in Terminal
      BY <1>0, <1>10 DEF ReleaseLock, WorkerIsCoherent
    <2>3. Leave(w, "finish", ok) /\ wk[w].pc # "idle"
      BY <1>10 DEF ReleaseLock
    <2> HIDE DEF ok
    <2> QED BY <1>leave, <2>1, <2>2, <2>3
  <1>11. CASE FinishJob(w)
    <2>1. CASE Rest(w)
      BY <1>rest, <2>1
    <2>2. CASE ~Rest(w)
      <3> DEFINE j == wk[w].job
                 tried == jobs[j].attempts + 1
      <3>1. /\ jobs[j].state = "active" /\ Exhausted(tried) /\ GoTo(w, "route")
            /\ jobs' = [jobs EXCEPT ![j] = [@ EXCEPT !.state = Retry(tried), !.attempts = tried,
                                                     !.owner = NoWorker]]
        BY <1>11, <2>2 DEF FinishJob
      <3>2. jobs[j] \in Job /\ jobs \in [JobIds -> Job] /\ jobs[j].attempts \in Nat
        BY <1>0 DEF TypeOK, StoreTypeOK, Job
      <3>3. tried = MaxAttempts
        BY <1>0, <3>1, <3>2, StoreAssumption DEF IInv, AttemptsAreBounded, Exhausted
      <3>4. Retry(tried) = "failed"
        BY <3>3, StoreAssumption DEF Retry
      <3>5. jobs'[j].state = "failed" /\ jobs'[j].attempts = MaxAttempts
        BY <1>0, <3>1, <3>2, <3>3, <3>4 DEF Job
      <3>6. wk'[w].pc = "route" /\ wk'[w].job = j
        BY <1>0, <3>1 DEF WorkerState
      <3> QED BY <3>5, <3>6 DEF WorkerIsCoherent, JobOf
    <2> QED BY <2>1, <2>2
  <1>12. CASE RouteFailedJobToDlq(w)
    BY <1>12, <1>rest DEF RouteFailedJobToDlq
  <1>13. CASE FraudUpdateFails(w)
    BY <1>13, <1>leave DEF FraudUpdateFails
  <1>14. CASE SuccessUpdateFails(w)
    BY <1>14, <1>move DEF SuccessUpdateFails
  <1>15. CASE FailedUpdateFails(w)
    BY <1>15, <1>leave DEF FailedUpdateFails
  <1>16. CASE WorkerCrash(w)
    BY <1>16, <1>rest DEF WorkerCrash
  <1> QED
    BY <1>2, <1>3, <1>4, <1>5, <1>6, <1>7, <1>8, <1>9, <1>10, <1>11, <1>12, <1>13, <1>14,
       <1>15, <1>16
    DEF WorkerStep, WorkerFault

(* A step of one worker does not move the others.                          *)
LEMMA OthersStay ==
    ASSUME TypeOK, NEW w \in Workers, WorkerStep(w) \/ WorkerFault(w),
           NEW v \in Workers, v # w
    PROVE  wk'[v] = wk[v]
  BY DEF TypeOK, ProcTypeOK, WorkerStep, WorkerFault, GoTo, Leave, Rest, LoadTransaction,
         AcquireLock, LockHeld, RunFraudCheck, ProcessOnChain, OnChainFails, MarkSuccess,
         MarkFailed, ReleaseLock, FinishJob, RouteFailedJobToDlq, FraudUpdateFails,
         SuccessUpdateFails, FailedUpdateFails, WorkerCrash

(* Every worker still knows what its stage promises.                       *)
LEMMA ProcWorkers ==
    ASSUME IInv, ProcNext, TypeOK'
    PROVE  WorkersAreCoherent'
  <1>0. TypeOK /\ RowsStay /\ JobsStay /\ ChainGrows /\ wk \in [Workers -> WorkerState]
    BY ProcRows, ProcJobs, ProcChain DEF IInv, ProcJobsSafe, TypeOK, ProcTypeOK
  <1>same. UNCHANGED wk => WorkersAreCoherent'
    BY <1>0, WorkerStays DEF WorkersAreCoherent
  <1>1. ASSUME NEW w \in Workers, WorkerStep(w) \/ WorkerFault(w) PROVE WorkersAreCoherent'
    <2>1. WorkerIsCoherent(w)'
      BY <1>0, <1>1, ActorIsCoherent
    <2>2. ASSUME NEW v \in Workers, v # w PROVE WorkerIsCoherent(v)'
      BY <1>0, <1>1, <2>2, OthersStay, WorkerStays
    <2> QED BY <2>1, <2>2 DEF WorkersAreCoherent
  <1>2. ASSUME NEW w \in Workers, NEW j \in JobIds, TakeJob(w, j) PROVE WorkersAreCoherent'
    <2>1. wk'[w] = [IdleWorker EXCEPT !.pc = "load", !.job = j]
      BY <1>0, <1>2 DEF TakeJob
    <2>2. wk'[w].pc = "load" /\ wk'[w].job = j
      BY <2>1 DEF IdleWorker
    <2>3. jobs'[j].state # "none"
      BY <1>0, <1>2 DEF TakeJob, JobsStay
    <2>4. WorkerIsCoherent(w)'
      BY <2>2, <2>3 DEF WorkerIsCoherent, JobOf
    <2>5. ASSUME NEW v \in Workers, v # w PROVE WorkerIsCoherent(v)'
      <3>1. wk'[v] = wk[v]
        BY <1>0, <1>2, <2>5 DEF TakeJob
      <3> QED BY <1>0, <3>1, WorkerStays
    <2> QED BY <2>4, <2>5 DEF WorkersAreCoherent
  <1>3. ASSUME NEW w \in Workers, Heartbeat(w) PROVE UNCHANGED wk
    BY <1>3 DEF Heartbeat
  <1>4. ASSUME NEW j \in JobIds,
               PromoteDelayed(j) \/ StalledOrphan(j) \/ StalledAlive(j) \/ ReplayDlq(j)
        PROVE  UNCHANGED wk
    BY <1>4 DEF PromoteDelayed, StalledOrphan, StalledAlive, ReplayDlq, procVars
  <1>5. ASSUME NEW t \in Requests, OrphanLeaseExpires(t) \/ LeaseLapses(t) PROVE UNCHANGED wk
    BY <1>5 DEF OrphanLeaseExpires, LeaseLapses
  <1>6. ASSUME NEW t \in Requests, NEW f \in BOOLEAN, RiskRead(t, f) PROVE UNCHANGED wk
    BY <1>6 DEF RiskRead
  <1>7. RiskWrite => UNCHANGED wk
    BY DEF RiskWrite
  <1> QED BY <1>same, <1>1, <1>2, <1>3, <1>4, <1>5, <1>6, <1>7 DEF ProcNext

(* The lease of a worker that keeps its stage: what the lock's operations  *)
(* may do to it.  Acquire needs a free key and Release compares tokens, so *)
(* neither takes a lease from another worker.                              *)
LEMMA LeaseStays ==
    ASSUME L!LockTypeOK, NEW w \in Workers, NEW t \in Requests,
           \/ L!Acquire(w, t)
           \/ L!Release(w, t)
           \/ L!LeaseExpires(t)
           \/ L!HeartbeatFails(w, t)
           \/ L!Forget(w) /\ UNCHANGED lock,
           NEW v \in Workers, NEW u \in Requests,
           v # w \/ L!LeaseExpires(t) \/ L!HeartbeatFails(w, t),
           lock[u] = v \/ v \in lapsed[u]
    PROVE  lock'[u] = v \/ v \in lapsed'[u]
  BY StoreAssumption
  DEF L!LockTypeOK, L!Acquire, L!Release, L!LeaseExpires, L!HeartbeatFails, L!Forget

(* A worker that is in its critical section after a step of its own was    *)
(* there before and left the lock alone, or has just acquired it.          *)
LEMMA ActorKeepsLease ==
    ASSUME IInv, JobsStay, NEW w \in Workers, WorkerStep(w) \/ WorkerFault(w),
           wk'[w].pc \in Critical
    PROVE  lock'[Tx(w)'] = w \/ w \in lapsed'[Tx(w)']
  <1> USE DEF At, GoTo, Leave, Rest, Critical, lockState
  <1>0. /\ TypeOK /\ wk \in [Workers -> WorkerState] /\ L!LockTypeOK
        /\ wk[w] \in WorkerState /\ wk[w].job \in JobIds /\ Tx(w) \in Requests
        /\ WorkerIsCoherent(w)
    BY WorkerFacts DEF IInv, WorkersAreCoherent, TypeOK, ProcTypeOK
  <1>1. wk'[w].job = wk[w].job /\ wk[w].pc # "idle" => Tx(w)' = Tx(w)
    BY <1>0 DEF WorkerIsCoherent, JobsStay, JobOf, Tx
  <1>rest. ~Rest(w)
    BY <1>0 DEF IdleWorker
  <1>same. ASSUME wk[w].pc \in Critical, UNCHANGED <<lock, lost, lapsed>>,
                  wk'[w].job = wk[w].job
           PROVE  lock'[Tx(w)'] = w \/ w \in lapsed'[Tx(w)']
    BY <1>1, <1>same DEF IInv, LeaseIsStable
  <1>move. ASSUME NEW stage, GoTo(w, stage) PROVE wk'[w].job = wk[w].job /\ wk'[w].pc = stage
    BY <1>0, <1>move DEF WorkerState
  <1>leave. ASSUME NEW stage, NEW ok, Leave(w, stage, ok)
            PROVE wk'[w].job = wk[w].job /\ wk'[w].pc = stage
    BY <1>0, <1>leave DEF WorkerState
  <1>2. CASE AcquireLock(w)
    <2>1. lock'[Tx(w)] = w
      BY <1>0, <1>2 DEF AcquireLock, L!Acquire, L!LockTypeOK
    <2>2. wk'[w].job = wk[w].job
      BY <1>2, <1>move, <1>leave DEF AcquireLock
    <2> QED BY <1>1, <1>2, <2>1, <2>2 DEF AcquireLock
  <1>3. CASE LoadTransaction(w) \/ LockHeld(w) \/ ReleaseLock(w)
    <2> HIDE DEF Leave
    <2>1. ASSUME NEW ok, Leave(w, "finish", ok) PROVE FALSE
      BY <1>leave, <2>1
    <2>2. CASE ReleaseLock(w)
      BY <2>1, <2>2 DEF ReleaseLock
    <2>3. CASE LoadTransaction(w) \/ LockHeld(w)
      BY <1>move, <2>1, <2>3 DEF LoadTransaction, LockHeld
    <2> QED BY <1>3, <2>2, <2>3
  <1>4. CASE FinishJob(w) \/ RouteFailedJobToDlq(w)
    BY <1>4, <1>move, <1>rest DEF FinishJob, RouteFailedJobToDlq
  <1>5. CASE ProcessOnChain(w)
    <2>1. wk'[w].job = wk[w].job
      BY <1>0, <1>5 DEF ProcessOnChain, WorkerState
    <2> QED BY <1>5, <1>same, <2>1 DEF ProcessOnChain
  <1>6. ASSUME NEW score \in Score, RunFraudCheck(w, score)
        PROVE  lock'[Tx(w)'] = w \/ w \in lapsed'[Tx(w)']
    BY <1>6, <1>same, <1>move, <1>leave DEF RunFraudCheck
  <1>7. CASE OnChainFails(w) \/ MarkSuccess(w) \/ MarkFailed(w)
    BY <1>7, <1>same, <1>move, <1>leave DEF OnChainFails, MarkSuccess, MarkFailed
  <1>8. CASE FraudUpdateFails(w) \/ SuccessUpdateFails(w) \/ FailedUpdateFails(w)
    BY <1>8, <1>same, <1>move, <1>leave
    DEF FraudUpdateFails, SuccessUpdateFails, FailedUpdateFails
  <1>9. CASE WorkerCrash(w)
    BY <1>9, <1>rest DEF WorkerCrash
  <1> QED
    BY <1>2, <1>3, <1>4, <1>5, <1>6, <1>7, <1>8, <1>9 DEF WorkerStep, WorkerFault

(* Every critical section still has its lease, or a lapse on record.       *)
LEMMA ProcLease ==
    ASSUME IInv, ProcNext
    PROVE  LeaseIsStable'
  <1> USE DEF lockState, procVars
  <1>0. TypeOK /\ JobsStay /\ L!LockTypeOK /\ wk \in [Workers -> WorkerState]
    BY ProcJobs DEF IInv, ProcJobsSafe, TypeOK, ProcTypeOK
  <1>1. ASSUME NEW v \in Workers, wk[v].pc \in Critical
        PROVE  /\ Tx(v) \in Requests
               /\ wk'[v] = wk[v] => Tx(v)' = Tx(v)
               /\ lock[Tx(v)] = v \/ v \in lapsed[Tx(v)]
    <2>1. wk[v].job \in JobIds /\ Tx(v) \in Requests
      BY <1>0, WorkerFacts
    <2>2. jobs[wk[v].job].state # "none"
      BY <1>0, <1>1, BusyFacts DEF Critical, JobOf
    <2> QED BY <1>0, <1>1, <2>1, <2>2 DEF IInv, LeaseIsStable, JobsStay, Tx, JobOf
  <1>same. UNCHANGED <<wk, lock, lapsed>> => LeaseIsStable'
    BY <1>1 DEF LeaseIsStable
  <1>2. ASSUME NEW w \in Workers, WorkerStep(w) \/ WorkerFault(w) PROVE LeaseIsStable'
    <2>1. wk'[w].pc \in Critical => lock'[Tx(w)'] = w \/ w \in lapsed'[Tx(w)']
      BY <1>0, <1>2, ActorKeepsLease
    <2>2. ASSUME NEW v \in Workers, v # w, wk'[v].pc \in Critical
          PROVE  lock'[Tx(v)'] = v \/ v \in lapsed'[Tx(v)']
      <3>1. wk'[v] = wk[v]
        BY <1>0, <1>2, <2>2, OthersStay
      <3>2. Tx(v) \in Requests /\ Tx(v)' = Tx(v) /\ (lock[Tx(v)] = v \/ v \in lapsed[Tx(v)])
        BY <1>1, <2>2, <3>1
      <3>3. Tx(w) \in Requests
        BY <1>0, WorkerFacts
      <3>4. \/ UNCHANGED <<lock, lapsed>>
            \/ L!Acquire(w, Tx(w))
            \/ L!Release(w, Tx(w))
            \/ L!Forget(w) /\ UNCHANGED lock
        BY <1>2 DEF WorkerStep, WorkerFault, LoadTransaction, AcquireLock, LockHeld,
              RunFraudCheck, ProcessOnChain, OnChainFails, MarkSuccess, MarkFailed,
              ReleaseLock, FinishJob, RouteFailedJobToDlq, FraudUpdateFails,
              SuccessUpdateFails, FailedUpdateFails, WorkerCrash
      <3> QED BY <1>0, <2>2, <3>2, <3>3, <3>4, LeaseStays
    <2> QED BY <2>1, <2>2 DEF LeaseIsStable
  <1>3. ASSUME NEW w \in Workers, NEW j \in JobIds, TakeJob(w, j) PROVE LeaseIsStable'
    <2>1. wk'[w].pc = "load" /\ \A v \in Workers : v # w => wk'[v] = wk[v]
      BY <1>0, <1>3 DEF TakeJob, IdleWorker
    <2> QED BY <1>1, <1>3, <2>1 DEF LeaseIsStable, TakeJob, Critical
  <1>4. ASSUME NEW w \in Workers, NEW t \in Requests, UNCHANGED wk,
               L!LeaseExpires(t) \/ L!HeartbeatFails(w, t)
        PROVE  LeaseIsStable'
    BY <1>0, <1>1, <1>4, LeaseStays DEF LeaseIsStable
  <1>5. ASSUME NEW w \in Workers, Heartbeat(w) PROVE LeaseIsStable'
    BY <1>0, <1>4, <1>5, WorkerFacts DEF Heartbeat
  <1>6. ASSUME NEW t \in Requests, OrphanLeaseExpires(t) \/ LeaseLapses(t) PROVE LeaseIsStable'
    <2>1. CASE Workers = {}
      BY <2>1 DEF LeaseIsStable
    <2>2. CASE Workers # {}
      BY <1>4, <1>6, <2>2 DEF OrphanLeaseExpires, LeaseLapses
    <2> QED BY <2>1, <2>2
  <1>7. ASSUME NEW j \in JobIds,
               PromoteDelayed(j) \/ StalledOrphan(j) \/ StalledAlive(j) \/ ReplayDlq(j)
        PROVE  UNCHANGED <<wk, lock, lapsed>>
    BY <1>7 DEF PromoteDelayed, StalledOrphan, StalledAlive, ReplayDlq
  <1>8. ASSUME NEW t \in Requests, NEW f \in BOOLEAN, RiskRead(t, f)
        PROVE  UNCHANGED <<wk, lock, lapsed>>
    BY <1>8 DEF RiskRead
  <1>9. RiskWrite => UNCHANGED <<wk, lock, lapsed>>
    BY DEF RiskWrite
  <1> QED BY <1>same, <1>2, <1>3, <1>5, <1>6, <1>7, <1>8, <1>9 DEF ProcNext

(* What the dead-letter queue holds, what SUCCESS rows name and what a     *)
(* risk update relies on survive a processor step.                         *)
LEMMA ProcDlq ==
    ASSUME IInv, ProcNext
    PROVE  DlqIsExhausted'
  <1>0. JobsStay /\ TypeOK /\ dlq \subseteq JobIds
    BY ProcJobs DEF IInv, ProcJobsSafe, TypeOK, ProcTypeOK
  <1>old. ASSUME NEW j \in dlq PROVE jobs'[j].state = "failed" /\ jobs'[j].attempts = MaxAttempts
    BY <1>0 DEF IInv, DlqIsExhausted, JobsStay
  <1>same. UNCHANGED dlq => DlqIsExhausted'
    BY <1>old DEF DlqIsExhausted
  <1>1. ASSUME NEW w \in Workers, WorkerStep(w) PROVE DlqIsExhausted'
    <2>1. CASE RouteFailedJobToDlq(w)
      <3>1. wk[w].job \in JobIds /\ JobOf(w).state = "failed" /\ JobOf(w).attempts = MaxAttempts
        BY <1>0, <2>1, WorkerFacts
        DEF RouteFailedJobToDlq, At, IInv, WorkersAreCoherent, WorkerIsCoherent
      <3>2. jobs'[wk[w].job].state = "failed" /\ jobs'[wk[w].job].attempts = MaxAttempts
        BY <1>0, <3>1 DEF JobsStay, JobOf
      <3> QED BY <1>old, <2>1, <3>2 DEF RouteFailedJobToDlq, DlqIsExhausted
    <2> QED
      BY <1>1, <1>same, <2>1
      DEF WorkerStep, LoadTransaction, AcquireLock, LockHeld, RunFraudCheck, ProcessOnChain,
          OnChainFails, MarkSuccess, MarkFailed, ReleaseLock, FinishJob, SideVars
  <1>2. ASSUME NEW w \in Workers, WorkerFault(w) \/ Heartbeat(w) PROVE UNCHANGED dlq
    BY <1>2 DEF WorkerFault, FraudUpdateFails, SuccessUpdateFails, FailedUpdateFails,
                WorkerCrash, Heartbeat
  <1>3. ASSUME NEW w \in Workers, NEW j \in JobIds, TakeJob(w, j) PROVE UNCHANGED dlq
    BY <1>3 DEF TakeJob, SideVars
  <1>4. ASSUME NEW j \in JobIds,
               PromoteDelayed(j) \/ StalledOrphan(j) \/ StalledAlive(j) \/ ReplayDlq(j)
        PROVE  UNCHANGED dlq
    BY <1>4 DEF PromoteDelayed, StalledOrphan, StalledAlive, ReplayDlq, procVars
  <1>5. ASSUME NEW t \in Requests, OrphanLeaseExpires(t) \/ LeaseLapses(t) PROVE UNCHANGED dlq
    BY <1>5 DEF OrphanLeaseExpires, LeaseLapses
  <1>6. ASSUME NEW t \in Requests, NEW f \in BOOLEAN, RiskRead(t, f) PROVE UNCHANGED dlq
    BY <1>6 DEF RiskRead
  <1>7. RiskWrite => UNCHANGED dlq
    BY DEF RiskWrite
  <1> QED BY <1>same, <1>1, <1>2, <1>3, <1>4, <1>5, <1>6, <1>7 DEF ProcNext

(* A SUCCESS row still names a submission that was made.                   *)
LEMMA ProcSuccess ==
    ASSUME IInv, ProcNext, TypeOK'
    PROVE  SuccessIsOnChain'
  <1> USE DEF storeVars, SideVars
  <1>0. TypeOK /\ ChainGrows /\ rows \in [Requests -> Row]
    BY ProcChain DEF IInv, TypeOK, StoreTypeOK
  <1>nat. ASSUME NEW t \in Requests
          PROVE  /\ chain[t] \in Nat /\ chain'[t] \in Nat /\ chain[t] <= chain'[t]
                 /\ rows[t] \in Row /\ rows[t].hash \in Nat
    BY <1>0 DEF ChainGrows, TypeOK, ProcTypeOK, Row
  <1>old. ASSUME NEW t \in Requests, rows[t].status = "SUCCESS"
          PROVE  rows[t].hash \in 1..chain'[t]
    <2>1. rows[t].hash \in 1..chain[t]
      BY <1>old DEF IInv, SuccessIsOnChain
    <2> QED BY <1>nat, <2>1
  <1>same. UNCHANGED rows => SuccessIsOnChain'
    BY <1>old DEF SuccessIsOnChain
  <1>new. ASSUME NEW t \in Requests, NEW row, rows' = [rows EXCEPT ![t] = row],
                 row.status = "SUCCESS" =>
                     \/ row.hash \in 1..chain[t]
                     \/ rows[t].status = "SUCCESS" /\ row.hash = rows[t].hash
          PROVE  SuccessIsOnChain'
    <2>1. row.hash \in 1..chain[t] => row.hash \in 1..chain'[t]
      BY <1>nat
    <2> QED BY <1>0, <1>old, <1>new, <2>1 DEF SuccessIsOnChain
  <1>1. ASSUME NEW w \in Workers, NEW score \in Score, RunFraudCheck(w, score)
        PROVE  SuccessIsOnChain'
    <2>1. Tx(w) \in Requests /\ rows[Tx(w)] \in Row
      BY <1>0, WorkerFacts
    <2> DEFINE row == Scored(rows[Tx(w)], score)
    <2>2. row.status = "SUCCESS" => rows[Tx(w)].status = "SUCCESS" /\ row.hash = rows[Tx(w)].hash
      BY <2>1, ScoredFacts
    <2>3. rows' = [rows EXCEPT ![Tx(w)] = row]
      BY <1>1 DEF RunFraudCheck, Decide
    <2> HIDE DEF row
    <2> QED BY <1>new, <2>1, <2>2, <2>3
  <1>2. ASSUME NEW w \in Workers, MarkSuccess(w) PROVE SuccessIsOnChain'
    <2>1. Tx(w) \in Requests /\ wk[w].hash \in 1..chain[Tx(w)]
      BY <1>0, <1>2, WorkerFacts
      DEF MarkSuccess, At, IInv, WorkersAreCoherent, WorkerIsCoherent
    <2> DEFINE row == [status |-> "SUCCESS", score |-> "low", flagged |-> FALSE,
                       hash |-> wk[w].hash]
    <2>2. rows' = [rows EXCEPT ![Tx(w)] = row] /\ row.hash = wk[w].hash
      BY <1>2 DEF MarkSuccess, Decide
    <2> HIDE DEF row
    <2> QED BY <1>new, <2>1, <2>2
  <1>3. ASSUME NEW w \in Workers, MarkFailed(w) PROVE SuccessIsOnChain'
    <2>1. Tx(w) \in Requests /\ rows[Tx(w)] \in Row
      BY <1>0, WorkerFacts
    <2> DEFINE row == [rows[Tx(w)] EXCEPT !.status = "FAILED"]
    <2>2. rows' = [rows EXCEPT ![Tx(w)] = row] /\ row.status = "FAILED"
      BY <1>3, <2>1 DEF MarkFailed, Decide, Row
    <2> HIDE DEF row
    <2> QED BY <1>new, <2>1, <2>2
  <1>4. ASSUME RiskWrite PROVE SuccessIsOnChain'
    <2> DEFINE t == risk.tx
               scored == [rows[t] EXCEPT !.score = IF risk.flagged THEN "high" ELSE "low",
                                         !.flagged = risk.flagged]
               row == IF risk.hold THEN [scored EXCEPT !.status = "PENDING_REVIEW"] ELSE scored
    <2>1. t \in Requests /\ rows[t] \in Row
      BY <1>0 DEF TypeOK, ProcTypeOK, RiskState
    <2>2. row.status = "SUCCESS" => rows[t].status = "SUCCESS" /\ row.hash = rows[t].hash
      BY <2>1 DEF Row
    <2>3. rows' = [rows EXCEPT ![t] = row]
      BY <1>4 DEF RiskWrite, Decide
    <2> HIDE DEF row, t
    <2> QED BY <1>new, <2>1, <2>2, <2>3
  <1>5. ASSUME NEW w \in Workers, WorkerStep(w) PROVE SuccessIsOnChain'
    BY <1>same, <1>1, <1>2, <1>3, <1>5
    DEF WorkerStep, LoadTransaction, AcquireLock, LockHeld, ProcessOnChain, OnChainFails,
        ReleaseLock, FinishJob, RouteFailedJobToDlq
  <1>6. ASSUME NEW w \in Workers, WorkerFault(w) \/ Heartbeat(w) PROVE UNCHANGED rows
    BY <1>6 DEF WorkerFault, FraudUpdateFails, SuccessUpdateFails, FailedUpdateFails,
                WorkerCrash, Heartbeat
  <1>7. ASSUME NEW w \in Workers, NEW j \in JobIds, TakeJob(w, j) PROVE UNCHANGED rows
    BY <1>7 DEF TakeJob
  <1>8. ASSUME NEW j \in JobIds,
               PromoteDelayed(j) \/ StalledOrphan(j) \/ StalledAlive(j) \/ ReplayDlq(j)
        PROVE  UNCHANGED rows
    BY <1>8 DEF PromoteDelayed, StalledOrphan, StalledAlive, ReplayDlq
  <1>9. ASSUME NEW t \in Requests, OrphanLeaseExpires(t) \/ LeaseLapses(t) PROVE UNCHANGED rows
    BY <1>9 DEF OrphanLeaseExpires, LeaseLapses
  <1>10. ASSUME NEW t \in Requests, NEW f \in BOOLEAN, RiskRead(t, f) PROVE UNCHANGED rows
    BY <1>10 DEF RiskRead
  <1> QED
    BY <1>same, <1>4, <1>5, <1>6, <1>7, <1>8, <1>9, <1>10 DEF ProcNext

(* The row of a risk update in progress is still there.                    *)
LEMMA ProcRisk ==
    ASSUME IInv, ProcNext
    PROVE  RiskHasRow'
  <1> USE DEF SideVars, procVars
  <1>0. TypeOK /\ RowsStay /\ risk \in RiskState /\ risk.tx \in Requests
    BY ProcRows DEF IInv, TypeOK, ProcTypeOK, RiskState
  <1>same. UNCHANGED risk => RiskHasRow'
    BY <1>0 DEF IInv, RiskHasRow, RowsStay, Exists
  <1>1. ASSUME NEW t \in Requests, NEW f \in BOOLEAN, RiskRead(t, f) PROVE RiskHasRow'
    BY <1>0, <1>1 DEF RiskRead, RiskHasRow, RowsStay, Exists
  <1>2. RiskWrite => RiskHasRow'
    BY DEF RiskWrite, RiskHasRow, NoRisk
  <1>3. ASSUME NEW w \in Workers, WorkerStep(w) \/ WorkerFault(w) \/ Heartbeat(w)
        PROVE  UNCHANGED risk
    BY <1>3 DEF WorkerStep, LoadTransaction, AcquireLock, LockHeld, RunFraudCheck,
                ProcessOnChain, OnChainFails, MarkSuccess, MarkFailed, ReleaseLock, FinishJob,
                RouteFailedJobToDlq, WorkerFault, FraudUpdateFails, SuccessUpdateFails,
                FailedUpdateFails, WorkerCrash, Heartbeat
  <1>4. ASSUME NEW w \in Workers, NEW j \in JobIds, TakeJob(w, j) PROVE UNCHANGED risk
    BY <1>4 DEF TakeJob
  <1>5. ASSUME NEW j \in JobIds,
               PromoteDelayed(j) \/ StalledOrphan(j) \/ StalledAlive(j) \/ ReplayDlq(j)
        PROVE  UNCHANGED risk
    BY <1>5 DEF PromoteDelayed, StalledOrphan, StalledAlive, ReplayDlq
  <1>6. ASSUME NEW t \in Requests, OrphanLeaseExpires(t) \/ LeaseLapses(t) PROVE UNCHANGED risk
    BY <1>6 DEF OrphanLeaseExpires, LeaseLapses
  <1> QED BY <1>same, <1>1, <1>2, <1>3, <1>4, <1>5, <1>6 DEF ProcNext

(* Every step of the processor keeps the invariant.                        *)
LEMMA ProcStep ==
    ASSUME IInv, ProcNext, UNCHANGED sendVars
    PROVE  IInv'
  <1>1. TypeOK'
    BY ProcTypeStep DEF IInv
  <1>2. ProcJobsSafe /\ RowsStay
    BY ProcJobs, ProcRows
  <1>3. CompletedIsDecided'
    <2>1. \A j \in JobIds : jobs[j].tx \in Requests
      BY DEF IInv, TypeOK, StoreTypeOK, Job
    <2> QED BY <1>2, <2>1 DEF IInv, CompletedIsDecided, ProcJobsSafe, JobsStay, RowsStay
  <1> QED
    BY <1>1, <1>2, <1>3, ProcKeepsRequests, ProcWorkers, ProcLease, ProcDlq, ProcSuccess,
       ProcRisk
    DEF IInv, ProcJobsSafe

-----------------------------------------------------------------------------
(* What a step of the request side does to the shared state.               *)
SendJobsSafe ==
    \A j \in JobIds :
        \/ jobs'[j] = jobs[j]
        \/ /\ jobs[j].state = "none"
           /\ jobs'[j].state = "wait"
           /\ jobs'[j].attempts = 0

(* A request inserts a row of its own and adds a job at most.              *)
LEMMA SendShared ==
    ASSUME TypeOK, SendNext
    PROVE  RowsStay /\ SendJobsSafe
           /\ \A t \in Requests : rows'[t] = rows[t] \/ rows'[t] = PendingRow
  <1> USE DEF storeVars
  <1>0. rows \in [Requests -> Row] /\ jobs \in [JobIds -> Job]
    BY DEF TypeOK, StoreTypeOK
  <1>same. UNCHANGED <<rows, jobs>> =>
              /\ RowsStay /\ SendJobsSafe
              /\ \A t \in Requests : rows'[t] = rows[t] \/ rows'[t] = PendingRow
    BY DEF RowsStay, SendJobsSafe, Exists
  <1>1. ASSUME NEW r \in Requests, CreateRow(r)
        PROVE  RowsStay /\ SendJobsSafe
               /\ \A t \in Requests : rows'[t] = rows[t] \/ rows'[t] = PendingRow
    <2>1. CASE RowsOf(KeyOf[r]) = {}
      <3>1. rows[r].status = "NONE"
        BY <2>1 DEF RowsOf, Exists
      <3>2. rows' = [rows EXCEPT ![r] = PendingRow] /\ UNCHANGED jobs
        BY <1>1, <2>1 DEF CreateRow, Insert
      <3>3. PendingRow.status = "PENDING"
        BY DEF PendingRow, NoRow
      <3> QED BY <1>0, <3>1, <3>2, <3>3 DEF RowsStay, SendJobsSafe, Exists, Terminal
    <2>2. CASE RowsOf(KeyOf[r]) # {}
      BY <1>1, <1>same, <2>2 DEF CreateRow
    <2> QED BY <2>1, <2>2
  <1>2. ASSUME NEW r \in Requests, EnqueueJob(r)
        PROVE  RowsStay /\ SendJobsSafe
               /\ \A t \in Requests : rows'[t] = rows[t] \/ rows'[t] = PendingRow
    <2> DEFINE job == NewJob(rq[r].resp.tx, r)
               j == SendJob(KeyOf[r])
    <2>1. job.state = "wait" /\ job.attempts = 0
      BY DEF NewJob, NoJob
    <2>2. jobs' = jobs \/ (jobs[j].state = "none" /\ jobs' = [jobs EXCEPT ![j] = job])
      BY <1>2 DEF EnqueueJob, AddJob
    <2>3. UNCHANGED rows
      BY <1>2 DEF EnqueueJob
    <2> HIDE DEF job, j
    <2> QED BY <1>0, <2>1, <2>2, <2>3 DEF RowsStay, SendJobsSafe, Exists
  <1> QED
    BY <1>same, <1>1, <1>2
    DEF SendNext, RequestStep, ReadCachedResponse, Admit, ReplayFromDb, WriteCachedResponse,
        RequestDies, NewDay, CacheExpires

(* A request step keeps what the workers rely on.                          *)
LEMMA SendKeepsWorkers ==
    ASSUME IInv, SendNext, UNCHANGED procVars, TypeOK'
    PROVE  /\ WorkersAreCoherent' /\ AttemptsAreBounded' /\ RiskHasRow'
           /\ CompletedIsDecided' /\ LeaseIsStable' /\ DlqIsExhausted' /\ SuccessIsOnChain'
  <1> USE DEF procVars
  <1>0. /\ TypeOK /\ RowsStay /\ SendJobsSafe
        /\ \A t \in Requests : rows'[t] = rows[t] \/ rows'[t] = PendingRow
    BY SendShared DEF IInv
  <1>1. JobsStay
    BY <1>0 DEF SendJobsSafe, JobsStay
  <1>2. ChainGrows
    BY <1>0 DEF ChainGrows, TypeOK, ProcTypeOK
  <1>3. WorkersAreCoherent'
    BY <1>0, <1>1, <1>2, WorkerStays DEF WorkersAreCoherent
  <1>4. AttemptsAreBounded'
    BY <1>0, StoreAssumption DEF SendJobsSafe, IInv, AttemptsAreBounded
  <1>5. RiskHasRow'
    BY <1>0 DEF IInv, RiskHasRow, RowsStay, Exists, TypeOK, ProcTypeOK, RiskState
  <1>6. CompletedIsDecided'
    <2>1. \A j \in JobIds : jobs[j].tx \in Requests
      BY <1>0 DEF TypeOK, StoreTypeOK, Job
    <2> QED BY <1>0, <2>1 DEF IInv, CompletedIsDecided, SendJobsSafe, RowsStay
  <1>7. LeaseIsStable'
    <2>1. ASSUME NEW w \in Workers, wk[w].pc \in Critical PROVE Tx(w)' = Tx(w)
      <3>1. wk[w].job \in JobIds /\ jobs[wk[w].job].state # "none"
        BY <1>0, <2>1, WorkerFacts, BusyFacts DEF Critical, JobOf
      <3> QED BY <1>1, <3>1 DEF JobsStay, Tx, JobOf
    <2> QED BY <2>1 DEF IInv, LeaseIsStable
  <1>8. DlqIsExhausted'
    BY <1>0, <1>1 DEF IInv, DlqIsExhausted, JobsStay, TypeOK, ProcTypeOK
  <1>9. SuccessIsOnChain'
    <2>1. PendingRow.status = "PENDING"
      BY DEF PendingRow, NoRow
    <2> QED BY <1>0, <2>1 DEF IInv, SuccessIsOnChain
  <1> QED BY <1>3, <1>4, <1>5, <1>6, <1>7, <1>8, <1>9

(* An answer stays queued.                                                 *)
LEMMA QueuedStays ==
    ASSUME RowsStay, JobsStay, NEW k \in Keys, NEW resp \in Response, Queued(k, resp)
    PROVE  /\ rows'[resp.tx].status # "NONE" /\ KeyOf[resp.tx] = k
           /\ jobs'[SendJob(k)].state # "none"
           /\ jobs'[SendJob(k)].tx = resp.tx
  BY JobIdFacts DEF RowsStay, JobsStay, Queued, Exists, Response

(* A request that does not move keeps what it knows.                       *)
LEMMA RequestStays ==
    ASSUME IInv, RowsStay, JobsStay, NEW r \in Requests, rq'[r] = rq[r]
    PROVE  RequestIsCoherent(r)'
  <1>1. /\ RequestIsCoherent(r) /\ rq[r].resp \in Response /\ rq[r].resp.tx \in Requests
        /\ KeyOf[r] \in Keys
    BY StoreAssumption
    DEF IInv, RequestsAreCoherent, TypeOK, SendTypeOK, RequestState, Response
  <1>2. Exists(rq[r].resp.tx) => rows'[rq[r].resp.tx].status # "NONE"
    BY <1>1 DEF RowsStay, Exists
  <1>3. rq[r].pc \in {"cache", "done"} => Queued(KeyOf[r], rq[r].resp)'
    BY <1>1, QueuedStays DEF RequestIsCoherent, Queued, Exists
  <1> QED BY <1>1, <1>2, <1>3 DEF RequestIsCoherent, Exists

(* The request side keeps what it relies on: the unique index makes the    *)
(* key's row unique, so the job a request finds under the deterministic id *)
(* is about the row it answers with.                                       *)
LEMMA SendKeepsRequests ==
    ASSUME IInv, SendNext, UNCHANGED procVars, TypeOK'
    PROVE  OneRowPerKey' /\ JobsAreAboutRows' /\ RequestsAreCoherent' /\ AcceptedIsQueued'
  <1> USE StoreAssumption
  <1> USE DEF storeVars, Goto, GotoWith
  <1> DEFINE Goal == OneRowPerKey' /\ JobsAreAboutRows' /\ RequestsAreCoherent'
                       /\ AcceptedIsQueued'
  <1>0. /\ TypeOK /\ RowsStay /\ SendJobsSafe /\ rows \in [Requests -> Row]
        /\ jobs \in [JobIds -> Job] /\ rq \in [Requests -> RequestState]
        /\ cache \in [Keys -> Response]
    BY SendShared DEF IInv, TypeOK, StoreTypeOK, SendTypeOK
  <1>1. JobsStay
    BY <1>0 DEF SendJobsSafe, JobsStay
  <1>2. ASSUME NEW r \in Requests
        PROVE  /\ RequestIsCoherent(r) /\ rq[r].resp \in Response
               /\ rq[r].resp.tx \in Requests /\ KeyOf[r] \in Keys
               /\ SendJob(KeyOf[r]) \in JobIds
    BY <1>0, JobIdFacts DEF IInv, RequestsAreCoherent, RequestState, Response
  <1>rows. UNCHANGED rows => OneRowPerKey'
    BY DEF IInv, OneRowPerKey, Exists
  <1>jobs. UNCHANGED jobs => JobsAreAboutRows'
    BY <1>0 DEF IInv, JobsAreAboutRows, RowsStay, Exists, Job
  <1>cache. ASSUME UNCHANGED cache
            PROVE  \A k \in Keys : cache'[k].status # "NONE" => Queued(k, cache[k])'
    <2>1. ASSUME NEW k \in Keys, cache[k].status # "NONE"
          PROVE  Queued(k, cache[k]) /\ cache[k] \in Response
      BY <1>0, <2>1 DEF IInv, AcceptedIsQueued
    <2> QED BY <1>0, <1>1, <1>cache, <2>1, QueuedStays DEF Queued, Exists
  <1>done. ASSUME RequestsAreCoherent',
                  \A k \in Keys : cache'[k].status # "NONE" => Queued(k, cache[k])'
           PROVE  AcceptedIsQueued'
    BY <1>done DEF RequestsAreCoherent, RequestIsCoherent, AcceptedIsQueued
  <1>one. ASSUME NEW r \in Requests, RequestIsCoherent(r)',
                 \A q \in Requests \ {r} : rq'[q] = rq[q]
          PROVE  RequestsAreCoherent'
    BY <1>0, <1>1, <1>one, RequestStays DEF RequestsAreCoherent
  <1>early. ASSUME NEW r \in Requests, UNCHANGED <<rows, jobs, cache>>,
                   NEW stage \in {"admit", "create", "replay", "rejected", "dead"},
                   Goto(r, stage)
            PROVE  Goal
    <2>1. rq'[r].pc = stage /\ \A q \in Requests \ {r} : rq'[q] = rq[q]
      BY <1>0, <1>early DEF RequestState
    <2>2. RequestsAreCoherent'
      BY <1>one, <2>1 DEF RequestIsCoherent
    <2> QED BY <1>early, <2>2, <1>rows, <1>jobs, <1>cache, <1>done
  <1>3. ASSUME NEW r \in Requests, ReadCachedResponse(r) PROVE Goal
    <2>1. CASE cache[KeyOf[r]].status # "NONE"
      <3>1. /\ rq'[r].pc = "done" /\ rq'[r].resp = cache[KeyOf[r]]
            /\ \A q \in Requests \ {r} : rq'[q] = rq[q]
            /\ UNCHANGED <<rows, jobs, cache>>
        BY <1>0, <1>3, <2>1 DEF ReadCachedResponse
      <3>2. Queued(KeyOf[r], cache[KeyOf[r]])
        BY <1>2, <2>1 DEF IInv, AcceptedIsQueued
      <3>3. RequestIsCoherent(r)'
        BY <3>1, <3>2 DEF RequestIsCoherent, Queued, Exists
      <3> QED BY <3>1, <3>3, <1>one, <1>rows, <1>jobs, <1>cache, <1>done
    <2>2. CASE cache[KeyOf[r]].status = "NONE"
      BY <1>3, <2>2, <1>early DEF ReadCachedResponse
    <2> QED BY <2>1, <2>2
  <1>4. ASSUME NEW r \in Requests, Admit(r) PROVE Goal
    <2>1. CASE Admissible(r)
      BY <1>4, <2>1, <1>early DEF Admit
    <2>2. CASE ~Admissible(r)
      BY <1>4, <2>2, <1>early DEF Admit
    <2> QED BY <2>1, <2>2
  <1>5. ASSUME NEW r \in Requests, CreateRow(r) PROVE Goal
    <2>1. CASE RowsOf(KeyOf[r]) = {}
      <3>1. /\ rows' = [rows EXCEPT ![r] = PendingRow] /\ UNCHANGED <<jobs, cache>>
            /\ rq' = [rq EXCEPT ![r] = [pc |-> "enqueue", resp |-> [tx |-> r, status |-> "PENDING"]]]
        BY <1>5, <2>1 DEF CreateRow, Insert
      <3>2. rows'[r].status = "PENDING" /\ \A t \in Requests \ {r} : rows'[t] = rows[t]
        BY <1>0, <3>1 DEF PendingRow, NoRow
      <3>3. OneRowPerKey'
        BY <2>1, <3>2 DEF IInv, OneRowPerKey, RowsOf, Exists
      <3>4. /\ rq'[r].pc = "enqueue" /\ rq'[r].resp.tx = r
            /\ \A q \in Requests \ {r} : rq'[q] = rq[q]
        BY <1>0, <3>1
      <3>5. RequestIsCoherent(r)'
        BY <3>2, <3>4 DEF RequestIsCoherent, Exists
      <3> QED BY <3>1, <3>3, <3>4, <3>5, <1>one, <1>jobs, <1>cache, <1>done
    <2>2. CASE RowsOf(KeyOf[r]) # {}
      BY <1>5, <2>2, <1>early DEF CreateRow
    <2> QED BY <2>1, <2>2
  <1>6. ASSUME NEW r \in Requests, ReplayFromDb(r) PROVE Goal
    <2>1. PICK t \in RowsOf(KeyOf[r]) :
             rq' = [rq EXCEPT ![r] = [pc |-> "enqueue", resp |-> [tx |-> t, status |-> rows[t].status]]]
      BY <1>6 DEF ReplayFromDb
    <2>2. t \in Requests /\ Exists(t) /\ KeyOf[t] = KeyOf[r] /\ UNCHANGED <<rows, jobs, cache>>
      BY <1>6 DEF RowsOf, ReplayFromDb
    <2>3. /\ rq'[r].pc = "enqueue" /\ rq'[r].resp.tx = t
          /\ \A q \in Requests \ {r} : rq'[q] = rq[q]
      BY <1>0, <2>1
    <2>4. RequestIsCoherent(r)'
      BY <2>2, <2>3 DEF RequestIsCoherent, Exists
    <2> QED BY <2>2, <2>3, <2>4, <1>one, <1>rows, <1>jobs, <1>cache, <1>done
  <1>7. ASSUME NEW r \in Requests, EnqueueJob(r) PROVE Goal
    <2> DEFINE t == rq[r].resp.tx
               j == SendJob(KeyOf[r])
               job == NewJob(t, r)
    <2>1. /\ t \in Requests /\ Exists(t) /\ KeyOf[t] = KeyOf[r] /\ j \in JobIds
          /\ UNCHANGED <<rows, cache>>
      BY <1>2, <1>7 DEF EnqueueJob, RequestIsCoherent
    <2>2. /\ rq'[r].pc = "cache" /\ rq'[r].resp = rq[r].resp
          /\ \A q \in Requests \ {r} : rq'[q] = rq[q]
      BY <1>0, <1>7 DEF EnqueueJob, RequestState
    <2>3. job.tx = t /\ job.state = "wait"
      BY DEF NewJob, NoJob
    <2>4. \/ jobs[j].state # "none" /\ jobs' = jobs
          \/ jobs[j].state = "none" /\ jobs' = [jobs EXCEPT ![j] = job]
      BY <1>7 DEF EnqueueJob, AddJob
    <2>5. jobs'[j].state # "none" /\ jobs'[j].tx = t
      <3>1. CASE jobs[j].state # "none" /\ jobs' = jobs
        <4>1. Exists(jobs[j].tx) /\ KeyOf[jobs[j].tx] = KeyOf[r] /\ jobs[j].tx \in Requests
          BY <1>0, <1>2, <2>1, <3>1 DEF IInv, JobsAreAboutRows, Job
        <4> QED BY <2>1, <3>1, <4>1 DEF IInv, OneRowPerKey
      <3>2. CASE jobs' = [jobs EXCEPT ![j] = job]
        <4> HIDE DEF j, job, t
        <4> QED BY <1>0, <2>1, <2>3, <3>2
      <3> QED BY <2>4, <3>1, <3>2
    <2>6. JobsAreAboutRows'
      <3>1. \A i \in JobIds : i # j => jobs'[i] = jobs[i]
        BY <1>0, <2>4
      <3>2. \A k \in Keys : SendJob(k) = j => k = KeyOf[r]
        BY <1>2, JobIdFacts
      <3> HIDE DEF j, t
      <3> QED
        BY <2>1, <2>5, <3>1, <3>2, JobIdFacts DEF IInv, JobsAreAboutRows, Exists
    <2>7. RequestIsCoherent(r)'
      BY <2>1, <2>2, <2>5 DEF RequestIsCoherent, Queued, Exists
    <2> QED BY <2>1, <2>2, <2>6, <2>7, <1>one, <1>rows, <1>cache, <1>done
  <1>8. ASSUME NEW r \in Requests, WriteCachedResponse(r) PROVE Goal
    <2>1. /\ rq'[r].pc = "done" /\ rq'[r].resp = rq[r].resp
          /\ \A q \in Requests \ {r} : rq'[q] = rq[q]
          /\ UNCHANGED <<rows, jobs>> /\ cache' = [cache EXCEPT ![KeyOf[r]] = rq[r].resp]
      BY <1>0, <1>8 DEF WriteCachedResponse, RequestState
    <2>2. Queued(KeyOf[r], rq[r].resp) /\ KeyOf[rq[r].resp.tx] = KeyOf[r]
             /\ Exists(rq[r].resp.tx)
      BY <1>2, <1>8 DEF WriteCachedResponse, RequestIsCoherent
    <2>3. RequestIsCoherent(r)'
      BY <2>1, <2>2 DEF RequestIsCoherent, Queued, Exists
    <2>4. ASSUME NEW k \in Keys, cache'[k].status # "NONE" PROVE Queued(k, cache[k])'
      <3>1. Queued(k, cache'[k])
        BY <1>0, <1>2, <2>1, <2>2, <2>4 DEF IInv, AcceptedIsQueued
      <3> QED BY <2>1, <3>1 DEF Queued, Exists
    <2> QED BY <2>1, <2>3, <2>4, <1>one, <1>rows, <1>jobs, <1>done
  <1>9. ASSUME NEW r \in Requests, RequestDies(r) PROVE Goal
    BY <1>9, <1>early DEF RequestDies
  <1>10. ASSUME NewDay PROVE Goal
    <2>1. UNCHANGED <<rows, jobs, cache, rq>>
      BY <1>10 DEF NewDay
    <2>2. RequestsAreCoherent'
      BY <1>0, <1>1, <2>1, RequestStays DEF RequestsAreCoherent
    <2> QED BY <2>1, <2>2, <1>rows, <1>jobs, <1>cache, <1>done
  <1>11. ASSUME NEW k \in Keys, CacheExpires(k) PROVE Goal
    <2>1. UNCHANGED <<rows, jobs, rq>> /\ cache' = [cache EXCEPT ![k] = NoResponse]
      BY <1>11 DEF CacheExpires
    <2>2. RequestsAreCoherent'
      BY <1>0, <1>1, <2>1, RequestStays DEF RequestsAreCoherent
    <2>3. ASSUME NEW l \in Keys, cache'[l].status # "NONE" PROVE Queued(l, cache[l])'
      <3>1. l # k /\ cache'[l] = cache[l]
        BY <1>0, <2>1, <2>3 DEF NoResponse
      <3>2. Queued(l, cache[l])
        BY <2>3, <3>1 DEF IInv, AcceptedIsQueued
      <3> QED BY <2>1, <3>1, <3>2 DEF Queued, Exists
    <2> QED BY <2>1, <2>2, <2>3, <1>rows, <1>jobs, <1>done
  <1> QED
    BY <1>3, <1>4, <1>5, <1>6, <1>7, <1>8, <1>9, <1>10, <1>11 DEF SendNext, RequestStep

(* Every step keeps the invariant.                                         *)
LEMMA InvariantStep == IInv /\ [Next]_vars => IInv'
  <1> SUFFICES ASSUME IInv, [Next]_vars PROVE IInv'
    OBVIOUS
  <1>1. CASE SendNext /\ UNCHANGED procVars
    <2>1. TypeOK'
      BY <1>1, SendTypeStep DEF IInv
    <2> QED BY <1>1, <2>1, SendKeepsRequests, SendKeepsWorkers DEF IInv
  <1>2. CASE ProcNext /\ UNCHANGED sendVars
    BY <1>2, ProcStep
  <1>3. CASE UNCHANGED vars
    <2>1. TypeOK'
      BY <1>3 DEF IInv, vars, storeVars, sendVars, procVars, TypeOK, StoreTypeOK, SendTypeOK,
                  ProcTypeOK, L!LockTypeOK
    <2> QED
      BY <1>3, <2>1
      DEF vars, storeVars, sendVars, procVars, IInv, OneRowPerKey, JobsAreAboutRows,
          RequestsAreCoherent, RequestIsCoherent, AcceptedIsQueued, Queued, WorkersAreCoherent,
          WorkerIsCoherent, AttemptsAreBounded, RiskHasRow, CompletedIsDecided, LeaseIsStable,
          DlqIsExhausted, SuccessIsOnChain, Exists, Tx, JobOf
  <1> QED BY <1>1, <1>2, <1>3 DEF Next

(* The inductive invariant holds before the first request.                 *)
LEMMA InvariantInit == Init => IInv
  <1> SUFFICES ASSUME Init PROVE IInv
    OBVIOUS
  <1>1. /\ \A t \in Requests : rows[t].status = "NONE"
        /\ \A j \in JobIds : jobs[j].state = "none" /\ jobs[j].attempts = 0
        /\ \A k \in Keys : cache[k].status = "NONE"
        /\ \A r \in Requests : rq[r].pc = "idle"
        /\ \A w \in Workers : wk[w].pc = "idle"
        /\ dlq = {} /\ risk.pc = "idle"
    BY DEF Init, StoreInit, SendInit, ProcInit, NoRow, NoJob, NoResponse, IdleWorker, NoRisk
  <1>2. TypeOK
    BY TypeInit
  <1>3. OneRowPerKey /\ JobsAreAboutRows /\ RequestsAreCoherent /\ AcceptedIsQueued
    BY <1>1, JobIdFacts
    DEF OneRowPerKey, JobsAreAboutRows, RequestsAreCoherent, RequestIsCoherent, AcceptedIsQueued,
        Exists
  <1>4. WorkersAreCoherent /\ RiskHasRow /\ CompletedIsDecided /\ LeaseIsStable
           /\ DlqIsExhausted /\ SuccessIsOnChain
    BY <1>1
    DEF WorkersAreCoherent, WorkerIsCoherent, RiskHasRow, CompletedIsDecided, LeaseIsStable,
        DlqIsExhausted, SuccessIsOnChain, Critical
  <1>5. AttemptsAreBounded
    BY <1>1, StoreAssumption DEF AttemptsAreBounded
  <1> QED BY <1>2, <1>3, <1>4, <1>5 DEF IInv

(* The inductive invariant holds in every reachable state.                 *)
THEOREM InvariantHolds == Spec => []IInv
  BY InvariantInit, InvariantStep, PTL DEF Spec

(* sendTransfer under any number of concurrent requests, retries and       *)
(* crashes: a key has one transaction, and whoever was answered has its    *)
(* transaction in the queue.                                               *)
THEOREM SendIsIdempotent == Spec => [](OneRowPerKey /\ AcceptedIsQueued)
  <1>1. IInv => OneRowPerKey /\ AcceptedIsQueued
    BY DEF IInv
  <1> QED BY <1>1, InvariantHolds, PTL

(* No transfer is dropped between the queue and the table, for any number  *)
(* of workers, attempts, stalls, crashes and replays.                      *)
THEOREM NoTransferIsDropped == Spec => []CompletedIsDecided
  <1>1. IInv => CompletedIsDecided
    BY DEF IInv
  <1> QED BY <1>1, InvariantHolds, PTL

(* withLock excludes every other worker from the transaction until a lease *)
(* runs out.                                                               *)
THEOREM LockExcludes == Spec => [](LeaseIsStable /\ LockExclusion)
  <1>1. IInv => LeaseIsStable /\ LockExclusion
    BY DEF IInv, LeaseIsStable, LockExclusion
  <1> QED BY <1>1, InvariantHolds, PTL

(* A replay from the dead-letter queue never runs beside its original.     *)
THEOREM DlqHoldsExhaustedJobs == Spec => []DlqIsExhausted
  <1>1. IInv => DlqIsExhausted
    BY DEF IInv
  <1> QED BY <1>1, InvariantHolds, PTL

(* Every SUCCESS row names a submission that was made.                     *)
THEOREM SuccessHasSubmission == Spec => []SuccessIsOnChain
  <1>1. IInv => SuccessIsOnChain
    BY DEF IInv
  <1> QED BY <1>1, InvariantHolds, PTL

(* A decided transaction is never open again.                              *)
THEOREM DecisionsAreFinal == Spec => DecidedStaysDecided
  <1>1. IInv /\ [Next]_vars =>
           [\A t \in Requests : rows[t].status \in Terminal => rows'[t].status \in Terminal]_vars
    <2> SUFFICES ASSUME IInv, Next
                 PROVE  \A t \in Requests : rows[t].status \in Terminal => rows'[t].status \in Terminal
      BY DEF vars
    <2>1. RowsStay
      BY ProcRows, SendShared DEF Next, IInv
    <2> QED BY <2>1 DEF RowsStay
  <1> QED BY <1>1, InvariantHolds, PTL DEF Spec, DecidedStaysDecided

-----------------------------------------------------------------------------
(***************************************************************************)
(* Amounts.  A worker past the integrity check runs a job that asks for    *)
(* the amount of its row, and jobs keep their data.                        *)
(***************************************************************************)
AmountsAreChecked ==
    \A w \in Workers :
        wk[w].pc \in {"score", "submit", "settle", "markFailed"} => AmountIntact(w)

AmountInv == IInv /\ AmountsAreChecked /\ SubmittedAmountIsApproved

(* What every step of the pipeline leaves to the others.                   *)
LEMMA StepFacts ==
    ASSUME IInv, Next
    PROVE  RowsStay /\ JobsStay /\ IInv'
  <1>1. IInv'
    BY InvariantStep
  <1>2. CASE ProcNext
    BY <1>1, <1>2, ProcRows, ProcJobs DEF ProcJobsSafe
  <1>3. CASE SendNext
    <2>1. RowsStay /\ SendJobsSafe
      BY <1>3, SendShared DEF IInv
    <2> QED BY <1>1, <2>1 DEF SendJobsSafe, JobsStay
  <1> QED BY <1>2, <1>3 DEF Next

(* A worker enters or stays in the checked stages only with equal amounts. *)
LEMMA ActorIsChecked ==
    ASSUME IInv, AmountsAreChecked, JobsStay, NEW w \in Workers, WorkerStep(w) \/ WorkerFault(w),
           wk'[w].pc \in {"score", "submit", "settle", "markFailed"}
    PROVE  AmountIntact(w)'
  <1> USE DEF At, GoTo, Leave, Rest
  <1>0. /\ TypeOK /\ wk \in [Workers -> WorkerState] /\ wk[w] \in WorkerState
        /\ wk[w].job \in JobIds /\ WorkerIsCoherent(w)
    BY WorkerFacts DEF IInv, WorkersAreCoherent, TypeOK, ProcTypeOK
  <1>1. ASSUME wk'[w].job = wk[w].job, wk[w].pc # "idle", AmountIntact(w)
        PROVE  AmountIntact(w)'
    BY <1>0, <1>1 DEF WorkerIsCoherent, JobsStay, JobOf, Tx, AmountIntact
  <1>rest. ~Rest(w)
    BY <1>0 DEF IdleWorker
  <1>move. ASSUME NEW stage, GoTo(w, stage) PROVE wk'[w].job = wk[w].job /\ wk'[w].pc = stage
    BY <1>0, <1>move DEF WorkerState
  <1>leave. ASSUME NEW stage \in {"release", "finish"}, NEW ok, Leave(w, stage, ok) PROVE FALSE
    BY <1>0, <1>leave DEF WorkerState
  <1> HIDE DEF GoTo, Leave, Rest
  <1>2. CASE AcquireLock(w)
    BY <1>1, <1>2, <1>move, <1>leave DEF AcquireLock
  <1>3. CASE LoadTransaction(w) \/ LockHeld(w) \/ MarkSuccess(w) \/ MarkFailed(w) \/ ReleaseLock(w)
    <2>1. CASE LoadTransaction(w)
      <3>1. Leave(w, "finish", TRUE) \/ GoTo(w, "lock")
        BY <2>1 DEF LoadTransaction
      <3>2. CASE GoTo(w, "lock")
        BY <3>2, <1>move
      <3> QED BY <3>1, <3>2, <1>leave
    <2>2. CASE ReleaseLock(w)
      <3>1. \E ok : Leave(w, "finish", ok)
        BY <2>2, Zenon DEF ReleaseLock
      <3> QED BY <3>1, <1>leave
    <2> QED BY <1>3, <2>1, <2>2, <1>leave DEF LockHeld, MarkSuccess, MarkFailed
  <1>4. CASE FraudUpdateFails(w) \/ FailedUpdateFails(w)
    BY <1>4, <1>leave DEF FraudUpdateFails, FailedUpdateFails
  <1>5. CASE FinishJob(w) \/ RouteFailedJobToDlq(w) \/ WorkerCrash(w)
    BY <1>5, <1>move, <1>rest DEF FinishJob, RouteFailedJobToDlq, WorkerCrash
  <1>6. ASSUME NEW score \in Score, RunFraudCheck(w, score) PROVE AmountIntact(w)'
    BY <1>1, <1>6, <1>move, <1>leave DEF RunFraudCheck, AmountsAreChecked
  <1>7. CASE OnChainFails(w) \/ SuccessUpdateFails(w)
    BY <1>1, <1>7, <1>move DEF OnChainFails, SuccessUpdateFails, AmountsAreChecked
  <1>8. CASE ProcessOnChain(w)
    <2>1. wk'[w].job = wk[w].job
      BY <1>0, <1>8 DEF ProcessOnChain, WorkerState
    <2> QED BY <1>1, <1>8, <2>1 DEF ProcessOnChain, AmountsAreChecked
  <1> QED
    BY <1>2, <1>3, <1>4, <1>5, <1>6, <1>7, <1>8 DEF WorkerStep, WorkerFault

(* Which steps move a worker or submit.                                    *)
LEMMA OnlyWorkersMove ==
    ASSUME Next
    PROVE  \/ \E w \in Workers : WorkerStep(w) \/ WorkerFault(w)
           \/ \E w \in Workers, j \in JobIds : TakeJob(w, j)
           \/ wk' = wk /\ chain' = chain
  BY DEF Next, ProcNext, procVars, Heartbeat, PromoteDelayed, StalledOrphan, StalledAlive,
         ReplayDlq, OrphanLeaseExpires, LeaseLapses, RiskRead, RiskWrite

(* The inductive invariant of the amounts.                                 *)
LEMMA AmountStep == AmountInv /\ [Next]_vars => AmountInv'
  <1> SUFFICES ASSUME AmountInv, [Next]_vars PROVE AmountInv'
    OBVIOUS
  <1>0. IInv /\ TypeOK /\ AmountsAreChecked /\ SubmittedAmountIsApproved
    BY DEF AmountInv, IInv
  <1>1. CASE UNCHANGED vars
    <2>1. IInv'
      BY <1>0, InvariantStep
    <2>2. wk' = wk /\ jobs' = jobs /\ chain' = chain
      BY <1>1 DEF vars, storeVars, procVars
    <2> QED
      BY <1>0, <2>1, <2>2
      DEF AmountInv, AmountsAreChecked, SubmittedAmountIsApproved, AmountIntact, JobOf, Tx
  <1>2. CASE Next
    <2>0. JobsStay /\ IInv'
      BY <1>0, <1>2, StepFacts
    <2>1. ASSUME NEW v \in Workers, wk'[v] = wk[v],
                 wk[v].pc \in {"score", "submit", "settle", "markFailed"}
          PROVE  AmountIntact(v)'
      <3>1. wk[v].job \in JobIds /\ JobOf(v).state # "none" /\ AmountIntact(v)
        BY <1>0, <2>1, WorkerFacts, BusyFacts DEF AmountsAreChecked
      <3> QED BY <2>0, <2>1, <3>1 DEF AmountIntact, JobsStay, JobOf, Tx
    <2>2. AmountsAreChecked'
      <3>1. ASSUME NEW w \in Workers, WorkerStep(w) \/ WorkerFault(w) PROVE AmountsAreChecked'
        BY <1>0, <2>0, <2>1, <3>1, ActorIsChecked, OthersStay DEF AmountsAreChecked
      <3>2. ASSUME NEW w \in Workers, NEW j \in JobIds, TakeJob(w, j) PROVE AmountsAreChecked'
        <4>1. /\ wk'[w] = [IdleWorker EXCEPT !.pc = "load", !.job = j]
              /\ \A v \in Workers : v # w => wk'[v] = wk[v]
          BY <1>0, <3>2 DEF TakeJob, TypeOK, ProcTypeOK
        <4>2. wk'[w].pc = "load"
          BY <4>1 DEF IdleWorker
        <4> QED BY <2>1, <4>1, <4>2 DEF AmountsAreChecked
      <3>3. CASE wk' = wk
        BY <2>1, <3>3 DEF AmountsAreChecked
      <3> QED BY <1>2, <3>1, <3>2, <3>3, OnlyWorkersMove
    <2>3. ASSUME NEW t \in Requests, chain'[t] > 0
          PROVE  \E j \in JobIds : /\ jobs[j].state # "none" /\ jobs[j].tx = t
                                   /\ AmountOf[jobs[j].req] = AmountOf[t]
      <3>1. CASE chain'[t] = chain[t]
        BY <1>0, <2>3, <3>1 DEF SubmittedAmountIsApproved
      <3>2. CASE chain'[t] # chain[t]
        <4>1. PICK w \in Workers : ProcessOnChain(w)
          BY <1>2, <3>2
          DEF Next, ProcNext, procVars, WorkerStep, WorkerFault, LoadTransaction, AcquireLock,
              LockHeld, RunFraudCheck, OnChainFails, MarkSuccess, MarkFailed, ReleaseLock,
              FinishJob, RouteFailedJobToDlq, FraudUpdateFails, SuccessUpdateFails,
              FailedUpdateFails, WorkerCrash, Heartbeat, TakeJob, PromoteDelayed, StalledOrphan,
              StalledAlive, ReplayDlq, OrphanLeaseExpires, LeaseLapses, RiskRead, RiskWrite
        <4>2. Tx(w) = t /\ wk[w].pc = "submit"
          BY <1>0, <3>2, <4>1, WorkerFacts DEF ProcessOnChain, At, TypeOK, ProcTypeOK
        <4>3. JobOf(w).state # "none" /\ wk[w].job \in JobIds /\ AmountIntact(w)
          BY <1>0, <4>2, BusyFacts, WorkerFacts DEF AmountsAreChecked
        <4> QED BY <4>2, <4>3 DEF AmountIntact, JobOf, Tx
      <3> QED BY <3>1, <3>2
    <2>4. SubmittedAmountIsApproved'
      BY <2>0, <2>3 DEF SubmittedAmountIsApproved, JobsStay
    <2> QED BY <2>0, <2>2, <2>4 DEF AmountInv
  <1> QED BY <1>1, <1>2

(* Whatever retries carry under a key, only the amount of the stored       *)
(* transaction is ever submitted, for any requests, keys and amounts.      *)
THEOREM AmountsAreApproved == Spec => []SubmittedAmountIsApproved
  <1>1. Init => AmountInv
    <2> SUFFICES ASSUME Init PROVE AmountInv
      OBVIOUS
    <2>1. IInv
      BY InvariantInit
    <2>2. (\A w \in Workers : wk[w].pc = "idle") /\ \A t \in Requests : chain[t] = 0
      BY DEF Init, ProcInit, IdleWorker
    <2> QED BY <2>1, <2>2 DEF AmountInv, AmountsAreChecked, SubmittedAmountIsApproved
  <1>2. AmountInv => SubmittedAmountIsApproved
    BY DEF AmountInv
  <1> QED BY <1>1, <1>2, AmountStep, PTL DEF Spec

-----------------------------------------------------------------------------
(***************************************************************************)
(* Submissions.  Each submission of a transaction is paid for by a permit: *)
(* the one its send job starts with, one per replay job, one per fault.  A *)
(* permit is in the hands of a worker that may still submit, or with a job *)
(* that may still be run; an open transaction is needed for the latter.    *)
(***************************************************************************)
Open(t) == rows[t].status \notin Terminal

(* Worker w may submit t without looking at the row again.                 *)
Armed(w, t) ==
    /\ Tx(w) = t
    /\ wk[w].pc \in {"lock", "score", "submit"} \/ (wk[w].pc = "load" /\ Open(t))

(* The permit of an active job is with its owner until a submission spent  *)
(* it or the run failed.                                                   *)
Carrying == {"load", "lock", "score", "submit", "settle"}
Carried(j) ==
    /\ jobs[j].owner \in Workers
    /\ wk[jobs[j].owner].job = j /\ wk[jobs[j].owner].pc \in Carrying

(* Job j may still be handed to a worker, and find t open.                 *)
Runnable(j, t) ==
    /\ Open(t)
    /\ \/ jobs[j].state = "none" /\ j = SendJob(KeyOf[t])
       \/ jobs[j].state \in {"wait", "delayed"} /\ jobs[j].tx = t
       \/ jobs[j].state = "active" /\ jobs[j].tx = t /\ ~Carried(j)

ArmedWorkers(t) == {w \in Workers : Armed(w, t)}
RunnableJobs(t) == {j \in JobIds : Runnable(j, t)}

PermitsCover(t) ==
    /\ IsFiniteSet(ArmedWorkers(t)) /\ IsFiniteSet(RunnableJobs(t))
    /\ chain[t] + Cardinality(ArmedWorkers(t)) + Cardinality(RunnableJobs(t))
          <= 1 + faults + replays

PermitInv == IInv /\ \A t \in Requests : PermitsCover(t)

(* How one step may move the permits of t: not at all; from a job to a     *)
(* worker or back; a new one with a fault or a replay; or spent.           *)
PermitStep(t) ==
    LET W == ArmedWorkers(t)
        J == RunnableJobs(t)
        same == chain'[t] = chain[t] /\ faults' + replays' >= faults + replays
    IN  \/ same /\ W' \subseteq W /\ J' \subseteq J
        \/ same /\ \E w, j : W' \subseteq W \cup {w} /\ J' \subseteq J \ {j} /\ j \in J
        \/ same /\ \E w, j : W' \subseteq W \ {w} /\ w \in W /\ J' \subseteq J \cup {j}
        \/ /\ chain'[t] = chain[t] /\ faults' + replays' >= faults + replays + 1
           /\ W' \subseteq W /\ \E j : J' \subseteq J \cup {j}
        \/ /\ chain'[t] = chain[t] + 1 /\ faults' + replays' >= faults + replays
           /\ \E w : W' \subseteq W \ {w} /\ w \in W /\ J' \subseteq J

(* Cardinalities of a set that loses or gains one element at most.         *)
LEMMA SetSizes ==
    ASSUME NEW S, IsFiniteSet(S), NEW T
    PROVE  /\ T \subseteq S => IsFiniteSet(T) /\ Cardinality(T) <= Cardinality(S)
           /\ \A x : T \subseteq S \cup {x} =>
                        IsFiniteSet(T) /\ Cardinality(T) <= Cardinality(S) + 1
           /\ \A x \in S : T \subseteq S \ {x} =>
                              IsFiniteSet(T) /\ Cardinality(T) + 1 <= Cardinality(S)
           /\ Cardinality(S) \in Nat /\ (IsFiniteSet(T) => Cardinality(T) \in Nat)
  <1>0. Cardinality(S) \in Nat /\ (IsFiniteSet(T) => Cardinality(T) \in Nat)
    BY FS_CardinalityType
  <1>1. T \subseteq S => IsFiniteSet(T) /\ Cardinality(T) <= Cardinality(S)
    BY FS_Subset
  <1>2. ASSUME NEW x, T \subseteq S \cup {x}
        PROVE  IsFiniteSet(T) /\ Cardinality(T) <= Cardinality(S) + 1
    <2>1. IsFiniteSet(S \cup {x}) /\ Cardinality(S \cup {x}) \in {Cardinality(S), Cardinality(S) + 1}
      BY FS_AddElement
    <2>2. IsFiniteSet(T) /\ Cardinality(T) <= Cardinality(S \cup {x}) /\ Cardinality(T) \in Nat
      BY <1>2, <2>1, FS_Subset, FS_CardinalityType
    <2> QED BY <1>0, <2>1, <2>2
  <1>3. ASSUME NEW x \in S, T \subseteq S \ {x}
        PROVE  IsFiniteSet(T) /\ Cardinality(T) + 1 <= Cardinality(S)
    <2>1. IsFiniteSet(S \ {x}) /\ Cardinality(S \ {x}) = Cardinality(S) - 1
      BY FS_RemoveElement
    <2>2. IsFiniteSet(T) /\ Cardinality(T) <= Cardinality(S \ {x}) /\ Cardinality(T) \in Nat
      BY <1>3, <2>1, FS_Subset, FS_CardinalityType
    <2> QED BY <1>0, <2>1, <2>2
  <1> QED BY <1>0, <1>1, <1>2, <1>3

(* Permits that move as allowed still cover the submissions.               *)
LEMMA PermitStepCovers ==
    ASSUME TypeOK, TypeOK', NEW t \in Requests, PermitsCover(t), PermitStep(t)
    PROVE  PermitsCover(t)'
  <1> DEFINE W == ArmedWorkers(t)
             J == RunnableJobs(t)
             W2 == ArmedWorkers(t)'
             J2 == RunnableJobs(t)'
             b == faults + replays
             b2 == faults' + replays'
  <1>0. /\ chain[t] \in Nat /\ chain'[t] \in Nat /\ b \in Nat /\ b2 \in Nat
    <2>1. chain[t] \in Nat /\ chain'[t] \in Nat
      BY DEF TypeOK, ProcTypeOK
    <2>2. faults \in Nat /\ replays \in Nat
      BY StoreAssumption, ProcessorAssumption DEF TypeOK, ProcTypeOK
    <2>3. faults' \in Nat /\ replays' \in Nat
      BY StoreAssumption, ProcessorAssumption DEF TypeOK, ProcTypeOK
    <2>4. b \in Nat
      BY <2>2
    <2>5. b2 \in Nat
      <3>1. \A m, n \in Nat : m + n \in Nat
        OBVIOUS
      <3> QED BY <2>3, <3>1, Zenon
    <2> QED BY <2>1, <2>4, <2>5
  <1>1. IsFiniteSet(W) /\ IsFiniteSet(J) /\ chain[t] + Cardinality(W) + Cardinality(J) <= 1 + b
    <2>1. faults \in Nat /\ replays \in Nat
      BY StoreAssumption, ProcessorAssumption DEF TypeOK, ProcTypeOK
    <2> QED BY <2>1 DEF PermitsCover
  <1>2. \/ chain'[t] = chain[t] /\ b2 >= b /\ W2 \subseteq W /\ J2 \subseteq J
        \/ chain'[t] = chain[t] /\ b2 >= b
             /\ \E w, j : W2 \subseteq W \cup {w} /\ J2 \subseteq J \ {j} /\ j \in J
        \/ chain'[t] = chain[t] /\ b2 >= b
             /\ \E w, j : W2 \subseteq W \ {w} /\ w \in W /\ J2 \subseteq J \cup {j}
        \/ chain'[t] = chain[t] /\ b2 >= b + 1 /\ W2 \subseteq W /\ \E j : J2 \subseteq J \cup {j}
        \/ chain'[t] = chain[t] + 1 /\ b2 >= b
             /\ \E w : W2 \subseteq W \ {w} /\ w \in W /\ J2 \subseteq J
    BY DEF PermitStep
  <1>3. SUFFICES /\ IsFiniteSet(W2) /\ IsFiniteSet(J2)
                 /\ chain'[t] + Cardinality(W2) + Cardinality(J2) <= 1 + b2
    <2>1. faults' \in Nat /\ replays' \in Nat
      BY StoreAssumption, ProcessorAssumption DEF TypeOK, ProcTypeOK
    <2> QED BY <2>1 DEF PermitsCover
  <1> DEFINE cw == Cardinality(W)
             cj == Cardinality(J)
             cw2 == Cardinality(W2)
             cj2 == Cardinality(J2)
             c == chain[t]
             c2 == chain'[t]
  <1> HIDE DEF W, J, W2, J2, b, b2
  <1>4. /\ IsFiniteSet(W2) /\ IsFiniteSet(J2)
        /\ \/ c2 = c /\ b2 >= b /\ cw2 <= cw /\ cj2 <= cj
           \/ c2 = c /\ b2 >= b /\ cw2 <= cw + 1 /\ cj2 + 1 <= cj
           \/ c2 = c /\ b2 >= b /\ cw2 + 1 <= cw /\ cj2 <= cj + 1
           \/ c2 = c /\ b2 >= b + 1 /\ cw2 <= cw /\ cj2 <= cj + 1
           \/ c2 = c + 1 /\ b2 >= b /\ cw2 + 1 <= cw /\ cj2 <= cj
    BY <1>1, <1>2, SetSizes
  <1>5. cw \in Nat /\ cj \in Nat /\ cw2 \in Nat /\ cj2 \in Nat /\ c \in Nat /\ c2 \in Nat
    BY <1>0, <1>1, <1>4, FS_CardinalityType
  <1>6. c + cw + cj <= 1 + b
    BY <1>1
  <1> HIDE DEF cw, cj, cw2, cj2, c, c2
  <1>7. c2 + cw2 + cj2 <= 1 + b2
    BY <1>0, <1>4, <1>5, <1>6
  <1> QED BY <1>4, <1>7 DEF cw2, cj2, c2

(* A worker that does not move gains no permit.                            *)
LEMMA ArmedStays ==
    ASSUME IInv, RowsStay, JobsStay, NEW t \in Requests, NEW v \in Workers, wk'[v] = wk[v],
           Armed(v, t)'
    PROVE  Armed(v, t)
  <1>1. wk[v].pc \in {"load", "lock", "score", "submit"}
    BY DEF Armed
  <1>2. JobOf(v).state # "none" /\ wk[v].job \in JobIds
    BY <1>1, BusyFacts, WorkerFacts DEF IInv
  <1>3. Tx(v)' = Tx(v)
    BY <1>2 DEF JobsStay, JobOf, Tx
  <1>4. Open(t)' => Open(t)
    BY DEF RowsStay, Open
  <1> QED BY <1>3, <1>4 DEF Armed

(* A job that does not change gains no permit, unless its owner drops it.  *)
LEMMA RunnableStays ==
    ASSUME RowsStay, NEW t \in Requests, NEW j \in JobIds, jobs'[j] = jobs[j],
           jobs[j].tx = t /\ Open(t)' /\ Carried(j) => Carried(j)', Runnable(j, t)'
    PROVE  Runnable(j, t)
  <1>1. Open(t)' /\ Open(t)
    BY DEF RowsStay, Open, Runnable
  <1> QED BY <1>1 DEF Runnable

(* Only the owner of a job, while it carries it, can drop it.              *)
LEMMA CarriedStays ==
    ASSUME NEW w, \A v \in Workers : v # w => wk'[v] = wk[v],
           NEW j \in JobIds, jobs'[j] = jobs[j], Carried(j),
           \/ j # wk[w].job \/ wk[w].pc \notin Carrying
           \/ wk'[w].job = wk[w].job /\ wk'[w].pc \in Carrying
    PROVE  Carried(j)'
  BY DEF Carried

(* A step of worker w that leaves the queue alone: the others gain no      *)
(* permit, and no job does but the one w carries for an open transaction.  *)
LEMMA WorkerPermits ==
    ASSUME IInv, RowsStay, JobsStay, NEW w \in Workers, jobs' = jobs,
           \A v \in Workers : v # w => wk'[v] = wk[v], NEW t \in Requests
    PROVE  /\ ArmedWorkers(t)' \subseteq ArmedWorkers(t) \cup {w}
           /\ RunnableJobs(t)' \subseteq RunnableJobs(t) \cup {wk[w].job}
           /\ ~Armed(w, t)' => ArmedWorkers(t)' \subseteq ArmedWorkers(t) \ {w}
           /\ \/ wk[w].pc \notin Carrying \/ Tx(w) # t \/ ~Open(t)'
              \/ wk'[w].job = wk[w].job /\ wk'[w].pc \in Carrying
              => RunnableJobs(t)' \subseteq RunnableJobs(t)
  <1>1. \A v \in Workers : v # w /\ Armed(v, t)' => Armed(v, t)
    BY ArmedStays
  <1>2. ASSUME NEW j \in JobIds, Runnable(j, t)', j # wk[w].job PROVE Runnable(j, t)
    BY <1>2, CarriedStays, RunnableStays
  <1>3. ASSUME NEW j \in JobIds, Runnable(j, t)', j = wk[w].job,
               \/ wk[w].pc \notin Carrying \/ Tx(w) # t \/ ~Open(t)'
               \/ wk'[w].job = wk[w].job /\ wk'[w].pc \in Carrying
        PROVE  Runnable(j, t)
    <2>1. jobs[j].tx = Tx(w)
      BY <1>3 DEF Tx, JobOf
    <2>2. ASSUME jobs[j].tx = t, Open(t)', Carried(j) PROVE Carried(j)'
      <3>1. wk[w].pc \notin Carrying \/ (wk'[w].job = wk[w].job /\ wk'[w].pc \in Carrying)
        BY <1>3, <2>1, <2>2
      <3> QED BY <1>3, <2>2, <3>1, CarriedStays
    <2> QED BY <1>3, <2>2, RunnableStays
  <1>4. ArmedWorkers(t)' \subseteq ArmedWorkers(t) \cup {w}
    BY <1>1 DEF ArmedWorkers
  <1>5. ~Armed(w, t)' => ArmedWorkers(t)' \subseteq ArmedWorkers(t) \ {w}
    BY <1>1 DEF ArmedWorkers
  <1>6. RunnableJobs(t)' \subseteq RunnableJobs(t) \cup {wk[w].job}
    BY <1>2 DEF RunnableJobs
  <1>7. ASSUME \/ wk[w].pc \notin Carrying \/ Tx(w) # t \/ ~Open(t)'
               \/ wk'[w].job = wk[w].job /\ wk'[w].pc \in Carrying
        PROVE  RunnableJobs(t)' \subseteq RunnableJobs(t)
    BY <1>2, <1>3, <1>7 DEF RunnableJobs
  <1> QED BY <1>4, <1>5, <1>6, <1>7

(* A step that moves no worker and leaves the queue alone.                 *)
LEMMA QuietPermits ==
    ASSUME IInv, RowsStay, JobsStay, jobs' = jobs, wk' = wk, NEW t \in Requests
    PROVE  /\ ArmedWorkers(t)' \subseteq ArmedWorkers(t)
           /\ RunnableJobs(t)' \subseteq RunnableJobs(t)
  <1>1. \A v \in Workers : Armed(v, t)' => Armed(v, t)
    BY ArmedStays
  <1>2. \A j \in JobIds : Carried(j) => Carried(j)'
    BY DEF Carried
  <1>3. \A j \in JobIds : Runnable(j, t)' => Runnable(j, t)
    BY <1>2, RunnableStays
  <1> QED BY <1>1, <1>3 DEF ArmedWorkers, RunnableJobs

(* Faults and replays are only ever added.                                 *)
LEMMA BudgetFacts ==
    ASSUME TypeOK
    PROVE  /\ faults \in Nat /\ replays \in Nat
           /\ faults' = faults /\ replays' = replays => faults' + replays' >= faults + replays
           /\ Fault /\ replays' = replays => faults' + replays' >= faults + replays + 1
           /\ faults' = faults /\ replays' = replays + 1 =>
                  faults' + replays' >= faults + replays + 1
  <1>1. faults \in Nat /\ replays \in Nat
    BY StoreAssumption, ProcessorAssumption DEF TypeOK, ProcTypeOK
  <1> QED BY <1>1 DEF Fault

(* A worker's own steps within a job.                                      *)
LEMMA WorkerPermitStep ==
    ASSUME IInv, RowsStay, JobsStay, NEW w \in Workers, WorkerStep(w) \/ WorkerFault(w),
           ~FinishJob(w), NEW t \in Requests
    PROVE  PermitStep(t)
  <1> USE DEF At, storeVars, SideVars
  <1> DEFINE j == wk[w].job
             more == faults' + replays' >= faults + replays
  <1>0. /\ TypeOK /\ wk \in [Workers -> WorkerState] /\ wk[w] \in WorkerState
        /\ Tx(w) \in Requests /\ chain \in [Requests -> Nat] /\ rows \in [Requests -> Row]
    BY WorkerFacts DEF IInv, TypeOK, StoreTypeOK, ProcTypeOK
  <1>1. jobs' = jobs /\ \A v \in Workers : v # w => wk'[v] = wk[v]
    BY <1>0, OthersStay
    DEF WorkerStep, WorkerFault, LoadTransaction, AcquireLock, LockHeld, RunFraudCheck,
        ProcessOnChain, OnChainFails, MarkSuccess, MarkFailed, ReleaseLock, RouteFailedJobToDlq,
        FraudUpdateFails, SuccessUpdateFails, FailedUpdateFails, WorkerCrash
  <1> DEFINE W == ArmedWorkers(t)
             J == RunnableJobs(t)
             W2 == ArmedWorkers(t)'
             J2 == RunnableJobs(t)'
  <1>2. /\ J2 \subseteq J \cup {j}
        /\ ~Armed(w, t)' => W2 \subseteq W \ {w}
        /\ W2 \subseteq W \cup {w}
    BY <1>1, WorkerPermits
  <1>3. \/ wk[w].pc \notin Carrying \/ Tx(w) # t \/ ~Open(t)'
        \/ wk'[w].job = wk[w].job /\ wk'[w].pc \in Carrying
        => J2 \subseteq J
    BY <1>1, WorkerPermits
  <1>4. wk'[w].job = wk[w].job => Tx(w)' = Tx(w)
    BY <1>1 DEF Tx, JobOf
  <1>5. /\ Armed(w, t) => w \in W
        /\ Armed(w, t)' => wk'[w].pc \in {"load", "lock", "score", "submit"}
        /\ wk[w].pc \in {"lock", "score", "submit"} /\ Tx(w) = t => Armed(w, t)
    BY DEF ArmedWorkers, Armed
  <1> HIDE DEF j, W, J, W2, J2
  <1>keep. ASSUME chain'[t] = chain[t], more, W2 \subseteq W, J2 \subseteq J PROVE PermitStep(t)
    BY <1>keep DEF PermitStep, W, J, W2, J2
  <1>back. ASSUME chain'[t] = chain[t], more, W2 \subseteq W \ {w}, w \in W PROVE PermitStep(t)
    BY <1>2, <1>back DEF PermitStep, W, J, W2, J2
  <1>drop. ASSUME chain' = chain, more, wk'[w].pc \notin Carrying,
                  wk[w].pc \notin {"load", "settle"} \/ rows'[Tx(w)].status \in Terminal
           PROVE  PermitStep(t)
    <2>1. ~Armed(w, t)'
      BY <1>5, <1>drop DEF Carrying
    <2>2. CASE wk[w].pc \in {"lock", "score", "submit"} /\ Tx(w) = t
      BY <1>2, <1>5, <1>back, <1>drop, <2>1, <2>2
    <2>3. CASE ~(wk[w].pc \in {"lock", "score", "submit"} /\ Tx(w) = t)
      <3>1. J2 \subseteq J
        BY <1>3, <1>drop, <2>3 DEF Carrying, Open
      <3> QED BY <1>2, <1>keep, <1>drop, <2>1, <3>1
    <2> QED BY <2>2, <2>3
  <1>pay. ASSUME chain' = chain, faults' + replays' >= faults + replays + 1, wk'[w].pc \notin Carrying
          PROVE  PermitStep(t)
    <2>1. ~Armed(w, t)'
      BY <1>5, <1>pay DEF Carrying
    <2>2. W2 \subseteq W
      BY <1>2, <2>1
    <2> QED BY <1>2, <1>pay, <2>2 DEF PermitStep, W, J, W2, J2
  <1>go. ASSUME NEW stage, GoTo(w, stage) PROVE wk'[w].pc = stage /\ wk'[w].job = wk[w].job
    BY <1>0, <1>go DEF GoTo, WorkerState
  <1>lv. ASSUME NEW stage, NEW ok, Leave(w, stage, ok) PROVE wk'[w].pc = stage
    BY <1>0, <1>lv DEF Leave, WorkerState
  <1>rest. Rest(w) => wk'[w].pc = "idle"
    BY <1>0 DEF Rest, IdleWorker
  <1>b. /\ faults' = faults /\ replays' = replays => more
        /\ Fault /\ replays' = replays => faults' + replays' >= faults + replays + 1
    BY <1>0, BudgetFacts
  <1> HIDE DEF more
  <1>6. CASE LoadTransaction(w)
    <2>1. chain' = chain /\ more /\ wk[w].pc = "load" /\ rows' = rows
      BY <1>b, <1>6 DEF LoadTransaction
    <2>2. CASE rows[Tx(w)].status \in Terminal
      <3>1. Leave(w, "finish", TRUE)
        BY <1>6, <2>2 DEF LoadTransaction
      <3>2. wk'[w].pc = "finish"
        BY <1>lv, <3>1
      <3> QED BY <1>drop, <2>1, <2>2, <3>2 DEF Carrying
    <2>3. CASE rows[Tx(w)].status \notin Terminal
      <3>1. wk'[w].pc = "lock" /\ wk'[w].job = wk[w].job
        BY <1>6, <1>go, <2>3 DEF LoadTransaction
      <3>2. J2 \subseteq J
        BY <1>3, <3>1 DEF Carrying
      <3>3. Armed(w, t)' => Armed(w, t)
        BY <1>4, <2>1, <2>3, <3>1 DEF Armed, Open
      <3> QED BY <1>2, <1>5, <1>keep, <2>1, <3>2, <3>3
    <2> QED BY <2>2, <2>3
  <1>7. CASE AcquireLock(w)
    <2>1. chain' = chain /\ more /\ wk[w].pc = "lock"
      BY <1>b, <1>7 DEF AcquireLock
    <2>2. CASE AmountIntact(w)
      <3>1. wk'[w].pc = "score" /\ wk'[w].job = wk[w].job
        BY <1>7, <1>go, <2>2 DEF AcquireLock
      <3>2. J2 \subseteq J
        BY <1>3, <3>1 DEF Carrying
      <3>3. Armed(w, t)' => Armed(w, t)
        BY <1>4, <2>1, <3>1 DEF Armed
      <3> QED BY <1>2, <1>5, <1>keep, <2>1, <3>2, <3>3
    <2>3. CASE ~AmountIntact(w)
      <3>1. Leave(w, "release", FALSE)
        BY <1>7, <2>3 DEF AcquireLock
      <3>2. wk'[w].pc = "release"
        BY <1>lv, <3>1
      <3> QED BY <1>drop, <2>1, <3>2 DEF Carrying
    <2> QED BY <2>2, <2>3
  <1>8. CASE LockHeld(w) \/ OnChainFails(w) \/ RouteFailedJobToDlq(w)
    <2>1. chain' = chain /\ more /\ wk[w].pc \in {"lock", "submit", "route"}
      BY <1>b, <1>8 DEF LockHeld, OnChainFails, RouteFailedJobToDlq
    <2>2. wk'[w].pc \in {"finish", "markFailed", "idle"}
      BY <1>8, <1>go, <1>lv, <1>rest DEF LockHeld, OnChainFails, RouteFailedJobToDlq
    <2> QED BY <1>drop, <2>1, <2>2 DEF Carrying
  <1>9. CASE ReleaseLock(w)
    <2>1. chain' = chain /\ more /\ wk[w].pc = "release"
      BY <1>b, <1>9 DEF ReleaseLock
    <2>2. \E ok : Leave(w, "finish", ok)
      BY <1>9, Zenon DEF ReleaseLock
    <2>3. wk'[w].pc = "finish"
      BY <1>lv, <2>2
    <2> QED BY <1>drop, <2>1, <2>3 DEF Carrying
  <1>10. CASE MarkSuccess(w) \/ MarkFailed(w)
    <2>1. chain' = chain /\ more /\ wk[w].pc \in {"settle", "markFailed"}
      BY <1>b, <1>10 DEF MarkSuccess, MarkFailed
    <2>2. wk'[w].pc = "release"
      BY <1>10, <1>lv DEF MarkSuccess, MarkFailed
    <2>3. MarkSuccess(w) => rows'[Tx(w)].status \in Terminal
      BY <1>0 DEF MarkSuccess, Decide, Terminal
    <2>4. MarkFailed(w) => wk[w].pc = "markFailed"
      BY DEF MarkFailed
    <2> QED BY <1>10, <1>drop, <2>1, <2>2, <2>3, <2>4 DEF Carrying
  <1>11. ASSUME NEW score \in Score, RunFraudCheck(w, score) PROVE PermitStep(t)
    <2>1. chain' = chain /\ more /\ wk[w].pc = "score"
      BY <1>b, <1>11 DEF RunFraudCheck
    <2>2. CASE score = "low"
      <3>1. wk'[w].pc = "submit" /\ wk'[w].job = wk[w].job
        BY <1>11, <1>go, <2>2 DEF RunFraudCheck
      <3>2. J2 \subseteq J
        BY <1>3, <3>1 DEF Carrying
      <3>3. Armed(w, t)' => Armed(w, t)
        BY <1>4, <2>1, <3>1 DEF Armed
      <3> QED BY <1>2, <1>5, <1>keep, <2>1, <3>2, <3>3
    <2>3. CASE score # "low"
      <3>1. Leave(w, "release", TRUE)
        BY <1>11, <2>3 DEF RunFraudCheck
      <3>2. wk'[w].pc = "release"
        BY <1>lv, <3>1
      <3> QED BY <1>drop, <2>1, <3>2 DEF Carrying
    <2> QED BY <2>2, <2>3
  <1>12. CASE ProcessOnChain(w)
    <2>1. /\ wk[w].pc = "submit" /\ wk'[w].pc = "settle" /\ wk'[w].job = wk[w].job
          /\ faults' = faults /\ replays' = replays
      BY <1>0, <1>12 DEF ProcessOnChain, WorkerState
    <2>2. chain' = [chain EXCEPT ![Tx(w)] = @ + 1]
      BY <1>12 DEF ProcessOnChain
    <2>3. J2 \subseteq J /\ ~Armed(w, t)'
      BY <1>3, <1>5, <2>1 DEF Carrying
    <2>4. CASE Tx(w) = t
      <3>1. chain'[t] = chain[t] + 1
        BY <1>0, <2>2, <2>4
      <3>2. w \in W
        BY <1>5, <2>1, <2>4
      <3>3. W2 \subseteq W \ {w} /\ more
        BY <1>2, <1>b, <2>1, <2>3
      <3> QED BY <2>3, <3>1, <3>2, <3>3 DEF PermitStep, W, J, W2, J2, more
    <2>5. CASE Tx(w) # t
      <3>1. chain'[t] = chain[t]
        BY <1>0, <2>2, <2>5
      <3> QED BY <1>2, <1>b, <1>keep, <2>1, <2>3, <3>1
    <2> QED BY <2>4, <2>5
  <1>13. CASE WorkerFault(w)
    <2>1. chain' = chain /\ Fault /\ replays' = replays
      BY <1>13 DEF WorkerFault, FraudUpdateFails, SuccessUpdateFails, FailedUpdateFails, WorkerCrash
    <2>2. wk'[w].pc \in {"release", "markFailed", "idle"}
      BY <1>13, <1>go, <1>lv, <1>rest
      DEF WorkerFault, FraudUpdateFails, SuccessUpdateFails, FailedUpdateFails, WorkerCrash
    <2> QED BY <1>b, <1>pay, <2>1, <2>2 DEF Carrying
  <1> QED
    BY <1>6, <1>7, <1>8, <1>9, <1>10, <1>11, <1>12, <1>13 DEF WorkerStep

(* A step that changes one job and moves no worker that carries one: only  *)
(* that job can gain a permit, and only a worker that moves.               *)
LEMMA JobPermits ==
    ASSUME IInv, RowsStay, JobsStay, NEW w, NEW j \in JobIds, NEW t \in Requests,
           \A i \in JobIds : i # j => jobs'[i] = jobs[i],
           \A v \in Workers : v # w => wk'[v] = wk[v],
           wk' = wk \/ (w \in Workers /\ wk[w].pc \notin Carrying)
    PROVE  /\ \A v \in Workers : v # w /\ Armed(v, t)' => Armed(v, t)
           /\ wk' = wk => \A v \in Workers : Armed(v, t)' => Armed(v, t)
           /\ \A i \in JobIds : i # j /\ Runnable(i, t)' => Runnable(i, t)
  <1>1. \A v \in Workers : wk'[v] = wk[v] /\ Armed(v, t)' => Armed(v, t)
    BY ArmedStays
  <1>2. ASSUME NEW i \in JobIds, i # j, Runnable(i, t)' PROVE Runnable(i, t)
    <2>1. CASE wk' = wk
      <3>1. Carried(i) => Carried(i)'
        BY <1>2, <2>1 DEF Carried
      <3> QED BY <1>2, <3>1, RunnableStays
    <2>2. CASE w \in Workers /\ wk[w].pc \notin Carrying
      <3>1. Carried(i) => Carried(i)'
        BY <1>2, <2>2, CarriedStays
      <3> QED BY <1>2, <3>1, RunnableStays
    <2> QED BY <2>1, <2>2
  <1> QED BY <1>1, <1>2

(* The ways in which the permits move, from what single workers and jobs   *)
(* gain.                                                                   *)
LEMMA PermitMoves ==
    ASSUME TypeOK, NEW t \in Requests, chain' = chain, NEW j \in JobIds,
           \A i \in JobIds : i # j /\ Runnable(i, t)' => Runnable(i, t),
           \A v \in Workers : Armed(v, t)' => Armed(v, t),
           \/ /\ faults' = faults /\ replays' = replays
              /\ Runnable(j, t)' => Runnable(j, t)
           \/ Fault /\ replays' = replays
           \/ faults' = faults /\ replays' = replays + 1
    PROVE  PermitStep(t)
  <1>1. ArmedWorkers(t)' \subseteq ArmedWorkers(t)
    BY DEF ArmedWorkers
  <1>2. RunnableJobs(t)' \subseteq RunnableJobs(t) \cup {j}
    BY DEF RunnableJobs
  <1>3. (Runnable(j, t)' => Runnable(j, t)) => RunnableJobs(t)' \subseteq RunnableJobs(t)
    BY DEF RunnableJobs
  <1>4. CASE /\ faults' = faults /\ replays' = replays
             /\ Runnable(j, t)' => Runnable(j, t)
    BY <1>1, <1>3, <1>4, BudgetFacts DEF PermitStep
  <1>5. CASE (Fault /\ replays' = replays) \/ (faults' = faults /\ replays' = replays + 1)
    <2>1. faults' + replays' >= faults + replays + 1
      BY <1>5, BudgetFacts
    <2> QED BY <1>1, <1>2, <2>1 DEF PermitStep
  <1> QED BY <1>4, <1>5

(* Bull recording a result gives no permit: a failed attempt goes back to  *)
(* the queue with the one that its run did not spend.                      *)
LEMMA FinishPermitStep ==
    ASSUME IInv, RowsStay, JobsStay, NEW w \in Workers, FinishJob(w), NEW t \in Requests
    PROVE  PermitStep(t)
  <1> USE DEF At, SideVars
  <1>j. PICK j \in JobIds : j = wk[w].job
    BY WorkerFacts DEF IInv
  <1> DEFINE mine == jobs[j].state = "active" /\ jobs[j].owner = w
  <1>0. /\ TypeOK /\ wk \in [Workers -> WorkerState] /\ wk[w] \in WorkerState
        /\ jobs \in [JobIds -> Job] /\ jobs[j] \in Job /\ wk[w].pc = "finish"
    BY WorkerFacts DEF IInv, TypeOK, StoreTypeOK, ProcTypeOK, FinishJob
  <1>1. rows' = rows /\ chain' = chain /\ faults' = faults /\ replays' = replays
    BY DEF FinishJob
  <1>2. (\A v \in Workers : v # w => wk'[v] = wk[v]) /\ wk'[w].pc \in {"idle", "route"}
    <2>1. Rest(w) \/ GoTo(w, "route")
      BY DEF FinishJob
    <2> QED BY <1>0, <2>1 DEF Rest, GoTo, IdleWorker, WorkerState
  <1>3. /\ \A i \in JobIds : i # j => jobs'[i] = jobs[i]
        /\ \/ jobs'[j] = jobs[j] /\ ~mine
           \/ mine /\ jobs'[j].state \in {"completed", "delayed", "failed"}
                /\ jobs'[j].tx = jobs[j].tx
    <2>1. CASE ~mine
      BY <1>j, <2>1 DEF FinishJob
    <2>2. CASE mine /\ wk[w].ok
      <3>1. jobs' = [jobs EXCEPT ![j] = [@ EXCEPT !.state = "completed", !.owner = NoWorker]]
        BY <1>j, <2>2 DEF FinishJob
      <3> QED BY <1>0, <2>2, <3>1 DEF Job
    <2>3. CASE mine /\ ~wk[w].ok
      <3>1. jobs' = [jobs EXCEPT ![j] =
                       [@ EXCEPT !.state = Retry(jobs[j].attempts + 1),
                                 !.attempts = jobs[j].attempts + 1, !.owner = NoWorker]]
        BY <1>j, <2>3 DEF FinishJob
      <3>2. Retry(jobs[j].attempts + 1) \in {"delayed", "failed"}
        BY DEF Retry
      <3> QED BY <1>0, <2>3, <3>1, <3>2 DEF Job
    <2> QED BY <2>1, <2>2, <2>3
  <1>4. \A v \in Workers : Armed(v, t)' => Armed(v, t)
    <2>1. \A v \in Workers : v # w /\ Armed(v, t)' => Armed(v, t)
      BY <1>2, ArmedStays
    <2>2. ~Armed(w, t)'
      BY <1>2 DEF Armed
    <2> QED BY <2>1, <2>2
  <1>5. \A i \in JobIds : i # j /\ Runnable(i, t)' => Runnable(i, t)
    BY <1>0, <1>2, <1>3, JobPermits DEF Carrying
  <1>6. Runnable(j, t)' => Runnable(j, t)
    <2>1. CASE jobs'[j] = jobs[j]
      <3>1. Carried(j) => Carried(j)'
        BY <1>0, <1>2, <2>1, CarriedStays DEF Carrying
      <3> QED BY <2>1, <3>1, RunnableStays
    <2>2. CASE mine /\ jobs'[j].state \in {"completed", "delayed", "failed"}
                 /\ jobs'[j].tx = jobs[j].tx
      <3>1. ~Carried(j)
        BY <1>0, <2>2 DEF Carried, Carrying
      <3> QED BY <1>1, <2>2, <3>1 DEF Runnable, Open
    <2> QED BY <1>3, <2>1, <2>2
  <1> QED BY <1>0, <1>1, <1>4, <1>5, <1>6, PermitMoves

(* A worker that takes a job takes its permit with it.                     *)
LEMMA TakePermitStep ==
    ASSUME IInv, RowsStay, JobsStay, NEW w \in Workers, NEW j \in JobIds, TakeJob(w, j),
           NEW t \in Requests
    PROVE  PermitStep(t)
  <1> USE DEF At, SideVars
  <1>0. /\ TypeOK /\ wk \in [Workers -> WorkerState] /\ jobs \in [JobIds -> Job] /\ jobs[j] \in Job
        /\ wk[w].pc = "idle" /\ jobs[j].state = "wait"
    BY DEF IInv, TypeOK, StoreTypeOK, ProcTypeOK, TakeJob
  <1>1. rows' = rows /\ chain' = chain /\ faults' = faults /\ replays' = replays
    BY DEF TakeJob
  <1>2. /\ \A v \in Workers : v # w => wk'[v] = wk[v]
        /\ wk'[w].pc = "load" /\ wk'[w].job = j
    BY <1>0 DEF TakeJob, IdleWorker
  <1>3. /\ \A i \in JobIds : i # j => jobs'[i] = jobs[i]
        /\ jobs'[j].state = "active" /\ jobs'[j].owner = w /\ jobs'[j].tx = jobs[j].tx
    BY <1>0 DEF TakeJob, Job
  <1>4. (\A v \in Workers : v # w /\ Armed(v, t)' => Armed(v, t))
        /\ \A i \in JobIds : i # j /\ Runnable(i, t)' => Runnable(i, t)
    BY <1>0, <1>2, <1>3, JobPermits DEF Carrying
  <1>5. ~Runnable(j, t)'
    BY <1>2, <1>3 DEF Runnable, Carried, Carrying
  <1>6. CASE jobs[j].tx = t /\ Open(t)
    <2>1. Runnable(j, t)
      BY <1>0, <1>6 DEF Runnable
    <2>2. j \in RunnableJobs(t) /\ RunnableJobs(t)' \subseteq RunnableJobs(t) \ {j}
      BY <1>4, <1>5, <2>1 DEF RunnableJobs
    <2>3. ArmedWorkers(t)' \subseteq ArmedWorkers(t) \cup {w}
      BY <1>4 DEF ArmedWorkers
    <2> QED BY <1>0, <1>1, <2>2, <2>3, BudgetFacts DEF PermitStep
  <1>7. CASE ~(jobs[j].tx = t /\ Open(t))
    <2>1. ~Armed(w, t)'
      BY <1>1, <1>2, <1>3, <1>7 DEF Armed, Tx, JobOf, Open
    <2> QED BY <1>0, <1>1, <1>4, <1>5, <2>1, PermitMoves
  <1> QED BY <1>6, <1>7

(* Bull's timers, the stalled check and an admin's replay.                 *)
LEMMA QueuePermitStep ==
    ASSUME IInv, RowsStay, JobsStay, NEW j \in JobIds,
           PromoteDelayed(j) \/ StalledOrphan(j) \/ StalledAlive(j), NEW t \in Requests
    PROVE  PermitStep(t)
  <1> USE DEF procVars
  <1>0. /\ TypeOK /\ jobs \in [JobIds -> Job] /\ jobs[j] \in Job
        /\ wk' = wk /\ rows' = rows /\ chain' = chain /\ replays' = replays
    BY DEF IInv, TypeOK, StoreTypeOK, PromoteDelayed, StalledOrphan, StalledAlive
  <1>1. /\ \A i \in JobIds : i # j => jobs'[i] = jobs[i]
        /\ jobs'[j].tx = jobs[j].tx
        /\ PromoteDelayed(j) => jobs[j].state = "delayed" /\ jobs'[j].state = "wait"
        /\ ~PromoteDelayed(j) => jobs[j].state = "active"
    <2>1. CASE PromoteDelayed(j)
      BY <1>0, <2>1 DEF PromoteDelayed, Job
    <2>2. CASE MoveStalled(j)
      <3> DEFINE new == IF jobs[j].stalls < MaxStalledCount THEN "wait" ELSE "failed"
      <3>1. jobs' = [jobs EXCEPT ![j] = [@ EXCEPT !.state = new, !.stalls = jobs[j].stalls + 1,
                                                  !.owner = NoWorker]]
        BY <2>2 DEF MoveStalled
      <3>2. jobs[j].state = "active"
        BY <2>2 DEF MoveStalled
      <3> HIDE DEF new
      <3> QED BY <1>0, <3>1, <3>2 DEF Job, PromoteDelayed
    <2> QED BY <2>1, <2>2 DEF StalledOrphan, StalledAlive
  <1>2. /\ \A v \in Workers : Armed(v, t)' => Armed(v, t)
        /\ \A i \in JobIds : i # j /\ Runnable(i, t)' => Runnable(i, t)
    BY <1>0, <1>1, JobPermits
  <1>3. CASE PromoteDelayed(j)
    <2>1. Runnable(j, t)' => Runnable(j, t)
      BY <1>0, <1>1, <1>3 DEF Runnable, Open
    <2>2. faults' = faults
      BY <1>3 DEF PromoteDelayed
    <2> QED BY <1>0, <1>2, <2>1, <2>2, PermitMoves
  <1>4. CASE StalledOrphan(j)
    <2>1. jobs[j].state = "active" /\ faults' = faults /\ ~Carried(j)
      BY <1>4 DEF StalledOrphan, MoveStalled, Orphaned, Carried, Carrying
    <2>2. Runnable(j, t)' => Runnable(j, t)
      <3>1. jobs'[j].state # "none"
        BY <2>1 DEF JobsStay
      <3> QED BY <1>0, <1>1, <2>1, <3>1 DEF Runnable, Open
    <2> QED BY <1>0, <1>2, <2>1, <2>2, PermitMoves
  <1>5. CASE StalledAlive(j)
    <2>1. Fault
      BY <1>5 DEF StalledAlive
    <2> QED BY <1>0, <1>2, <2>1, PermitMoves
  <1> QED BY <1>3, <1>4, <1>5

(* An admin's replay adds one job, and pays for it.                        *)
LEMMA ReplayPermitStep ==
    ASSUME IInv, RowsStay, JobsStay, NEW j \in JobIds, ReplayDlq(j), NEW t \in Requests
    PROVE  PermitStep(t)
  <1>0. /\ TypeOK /\ jobs \in [JobIds -> Job] /\ replays \in 0..MaxReplays /\ MaxReplays \in Nat
        /\ wk' = wk /\ chain' = chain /\ faults' = faults /\ replays' = replays + 1
        /\ replays < MaxReplays
    BY StoreAssumption DEF IInv, TypeOK, StoreTypeOK, ProcTypeOK, ReplayDlq
  <1>1. PICK n \in 1..MaxReplays : n = replays + 1
    BY <1>0
  <1>2. PICK k \in JobIds : k = ReplayJob(n)
    BY DEF JobIds
  <1>3. \A i \in JobIds : i # k => jobs'[i] = jobs[i]
    BY <1>0, <1>1, <1>2 DEF ReplayDlq, AddJob
  <1>4. /\ \A v \in Workers : Armed(v, t)' => Armed(v, t)
        /\ \A i \in JobIds : i # k /\ Runnable(i, t)' => Runnable(i, t)
    BY <1>0, <1>3, JobPermits
  <1> QED BY <1>0, <1>4, PermitMoves

(* A client's retries add no permit: the job of a key is there to be added *)
(* from the start, once.                                                   *)
LEMMA SendPermitStep ==
    ASSUME IInv, RowsStay, JobsStay, SendNext, UNCHANGED procVars, NEW t \in Requests
    PROVE  PermitStep(t)
  <1> USE DEF procVars, storeVars
  <1>0. TypeOK /\ jobs \in [JobIds -> Job] /\ RequestsAreCoherent
    BY DEF IInv, TypeOK, StoreTypeOK
  <1>1. CASE jobs' = jobs
    BY <1>0, <1>1, QuietPermits, BudgetFacts DEF PermitStep
  <1>2. CASE jobs' # jobs
    <2>1. PICK r \in Requests : EnqueueJob(r)
      BY <1>2
      DEF SendNext, RequestStep, RequestDies, NewDay, CacheExpires, ReadCachedResponse, Admit,
          CreateRow, ReplayFromDb, WriteCachedResponse
    <2>2. PICK j \in JobIds : j = SendJob(KeyOf[r])
      BY JobIdFacts, StoreAssumption
    <2> DEFINE u == rq[r].resp.tx
               job == NewJob(u, r)
    <2>3. /\ jobs[j].state = "none" /\ jobs' = [jobs EXCEPT ![j] = job] /\ rows' = rows
          /\ KeyOf[u] = KeyOf[r]
      BY <1>0, <1>2, <2>1, <2>2 DEF EnqueueJob, AddJob, RequestsAreCoherent, RequestIsCoherent
    <2>4. job.tx = u /\ job.state = "wait"
      BY DEF NewJob, NoJob
    <2> HIDE DEF u, job
    <2>5. jobs'[j] = job /\ \A i \in JobIds : i # j => jobs'[i] = jobs[i]
      BY <1>0, <2>3
    <2>6. /\ \A v \in Workers : Armed(v, t)' => Armed(v, t)
          /\ \A i \in JobIds : i # j /\ Runnable(i, t)' => Runnable(i, t)
      BY <2>5, JobPermits
    <2>7. Runnable(j, t)' => Runnable(j, t)
      BY <2>2, <2>3, <2>4, <2>5 DEF Runnable, Open
    <2> QED BY <1>0, <2>6, <2>7, PermitMoves
  <1> QED BY <1>1, <1>2

(* Every step of the pipeline moves the permits as allowed.                *)
LEMMA EveryPermitStep ==
    ASSUME IInv, [Next]_vars, NEW t \in Requests
    PROVE  PermitStep(t)
  <1> USE DEF storeVars, SideVars
  <1>0. TypeOK
    BY DEF IInv
  <1>1. CASE UNCHANGED vars
    <2>1. jobs' = jobs /\ rows' = rows /\ UNCHANGED procVars
      BY <1>1 DEF vars
    <2>2. RowsStay /\ JobsStay
      BY <2>1 DEF RowsStay, JobsStay, Exists
    <2> QED BY <1>0, <2>1, <2>2, QuietPermits, BudgetFacts DEF PermitStep, procVars
  <1>2. CASE Next
    <2>0. RowsStay /\ JobsStay
      BY <1>2, StepFacts
    <2>1. ASSUME UNCHANGED <<jobs, wk, chain, replays>>, faults' = faults \/ Fault
          PROVE  PermitStep(t)
      <3>1. faults' + replays' >= faults + replays
        <4>1. faults \in Nat /\ replays \in Nat /\ replays' = replays
              /\ (faults' = faults \/ faults' = faults + 1)
          BY <1>0, <2>1, BudgetFacts DEF Fault
        <4> QED BY <4>1
      <3> QED BY <2>0, <2>1, <3>1, QuietPermits DEF PermitStep
    <2>2. CASE SendNext /\ UNCHANGED procVars
      BY <2>0, <2>2, SendPermitStep
    <2>3. ASSUME NEW w \in Workers, WorkerStep(w) \/ WorkerFault(w) PROVE PermitStep(t)
      BY <2>0, <2>3, FinishPermitStep, WorkerPermitStep
    <2>4. ASSUME NEW w \in Workers, NEW j \in JobIds, TakeJob(w, j) PROVE PermitStep(t)
      BY <2>0, <2>4, TakePermitStep
    <2>5. ASSUME NEW j \in JobIds,
                 PromoteDelayed(j) \/ StalledOrphan(j) \/ StalledAlive(j) \/ ReplayDlq(j)
          PROVE  PermitStep(t)
      BY <2>0, <2>5, QueuePermitStep, ReplayPermitStep
    <2>6. CASE \/ \E w \in Workers : Heartbeat(w)
               \/ \E u \in Requests : OrphanLeaseExpires(u) \/ LeaseLapses(u)
               \/ \E u \in Requests, f \in BOOLEAN : RiskRead(u, f)
               \/ RiskWrite
      <3>1. UNCHANGED <<jobs, wk, chain, replays>> /\ (faults' = faults \/ Fault)
        BY <2>6 DEF Heartbeat, OrphanLeaseExpires, LeaseLapses, RiskRead, RiskWrite
      <3> QED BY <2>1, <3>1
    <2> QED BY <1>2, <2>2, <2>3, <2>4, <2>5, <2>6 DEF Next, ProcNext
  <1> QED BY <1>1, <1>2

(* Before anything happens the one permit of a transaction is its send     *)
(* job's.                                                                  *)
LEMMA PermitInit == Init => PermitInv
  <1> SUFFICES ASSUME Init, NEW t \in Requests PROVE PermitsCover(t)
    BY InvariantInit DEF PermitInv
  <1> DEFINE W == ArmedWorkers(t)
             J == RunnableJobs(t)
             s == SendJob(KeyOf[t])
  <1>1. chain[t] = 0 /\ faults = 0 /\ replays = 0
    BY DEF Init, ProcInit
  <1>2. (\A w \in Workers : wk[w].pc = "idle") /\ \A j \in JobIds : jobs[j].state = "none"
    BY DEF Init, ProcInit, StoreInit, IdleWorker, NoJob
  <1>3. W = {}
    BY <1>2 DEF ArmedWorkers, Armed
  <1>4. J \subseteq {s}
    BY <1>2 DEF RunnableJobs, Runnable
  <1>5. IsFiniteSet(W) /\ Cardinality(W) = 0
    BY <1>3, FS_EmptySet
  <1>6. IsFiniteSet({s}) /\ Cardinality({s}) = 1
    BY FS_Singleton
  <1>7. IsFiniteSet(J) /\ Cardinality(J) <= 1 /\ Cardinality(J) \in Nat
    BY <1>4, <1>6, FS_Subset, FS_CardinalityType
  <1> HIDE DEF W, J
  <1>8. chain[t] + Cardinality(W) + Cardinality(J) <= 1 + faults + replays
    BY <1>1, <1>5, <1>7
  <1> QED BY <1>5, <1>7, <1>8 DEF PermitsCover, W, J

(* At-least-once delivery at its worst: for any number of workers, clients *)
(* and retries, a transfer is submitted once, and once more for each fault *)
(* and each replay at most.                                                *)
THEOREM SubmissionsArePaidFor == Spec => []SubmissionsAreBounded
  <1>1. PermitInv /\ [Next]_vars => PermitInv'
    <2> SUFFICES ASSUME PermitInv, [Next]_vars PROVE PermitInv'
      OBVIOUS
    <2>1. IInv /\ IInv' /\ TypeOK /\ TypeOK'
      BY InvariantStep DEF PermitInv, IInv
    <2>2. \A t \in Requests : PermitsCover(t)'
      BY <2>1, EveryPermitStep, PermitStepCovers DEF PermitInv
    <2> QED BY <2>1, <2>2 DEF PermitInv
  <1>2. PermitInv => SubmissionsAreBounded
    <2> SUFFICES ASSUME PermitInv, NEW t \in Requests PROVE chain[t] <= 1 + faults + replays
      BY DEF SubmissionsAreBounded
    <2>1. TypeOK /\ PermitsCover(t)
      BY DEF PermitInv, IInv
    <2>2. chain[t] \in Nat /\ faults \in Nat /\ replays \in Nat
      BY <2>1, BudgetFacts DEF TypeOK, ProcTypeOK
    <2>3. Cardinality(ArmedWorkers(t)) \in Nat /\ Cardinality(RunnableJobs(t)) \in Nat
      BY <2>1, FS_CardinalityType DEF PermitsCover
    <2> QED BY <2>1, <2>2, <2>3 DEF PermitsCover
  <1> QED BY <1>1, <1>2, PermitInit, PTL DEF Spec

=============================================================================
