-------------------------- MODULE ComplianceAction --------------------------
(***************************************************************************)
(* ComplianceActionService: a freeze or clawback that needs the signatures *)
(* of several officers before it is pushed to the Rust worker.             *)
(*                                                                         *)
(* One action, and the calls made about it: the request that creates it,   *)
(* and any number of approve, reject and result calls, interleaved at      *)
(* every await.  A status is checked when the call loads the action and    *)
(* written later without a condition.  A call may die at any await.        *)
(***************************************************************************)
EXTENDS Naturals, FiniteSets

CONSTANTS Officers,
          Admins,      \* the officers assertAdmin lets through
          Requester,   \* who requests the action
          Calls,       \* the approve, reject and result calls
          CallerOf,    \* [Calls -> Officers]
          Required,    \* REQUIRED_COMPLIANCE_APPROVALS
          MaxDeaths    \* bound on the calls that die

ASSUME ComplianceAssumption ==
    /\ IsFiniteSet(Officers)
    /\ Admins \subseteq Officers
    /\ Requester \in Admins
    /\ CallerOf \in [Calls -> Officers]
    /\ Required \in Nat \ {0}
    /\ MaxDeaths \in Nat

VARIABLES status,     \* ComplianceAction.status, "NONE" before the insert
          approvals,  \* the officers with a ComplianceApproval row
          request,    \* where requestAction is
          call,       \* call[c]: where call c is
          pushes,     \* pushes[o]: jobs pushed by o's approvals
          queue,      \* jobs in the Redis list compliance_jobs
          received,   \* jobs the Rust worker decoded
          deaths      \* calls that died

actionVars == <<status, approvals>>
vars == <<status, approvals, request, call, pushes, queue, received, deaths>>

Status == {"PENDING_APPROVAL", "APPROVED", "EXECUTING", "EXECUTED", "FAILED", "REJECTED"}

(* The await a call is at.                                                 *)
Stage == {"idle", "check", "sign", "count", "approve", "push", "executing",
          "reject", "succeed", "fail", "done"}

TypeOK ==
    /\ status \in Status \cup {"NONE"}
    /\ approvals \subseteq Officers
    /\ request \in {"idle", "sign", "done"}
    /\ call \in [Calls -> Stage]
    /\ pushes \in [Officers -> Nat]
    /\ queue \in Nat
    /\ received \in Nat
    /\ deaths \in 0..MaxDeaths

Init ==
    /\ status = "NONE"
    /\ approvals = {}
    /\ request = "idle"
    /\ call = [c \in Calls |-> "idle"]
    /\ pushes = [o \in Officers |-> 0]
    /\ queue = 0
    /\ received = 0
    /\ deaths = 0

Move(c, stage) == call' = [call EXCEPT ![c] = stage]
-----------------------------------------------------------------------------
(* requestAction: insert the action,                                       *)
RequestAction ==
    /\ request = "idle"
    /\ status' = "PENDING_APPROVAL"
    /\ request' = "sign"
    /\ UNCHANGED <<approvals, call, pushes, queue, received, deaths>>

(* ... then the requester's own approval, refused by the unique index if   *)
(* the requester has meanwhile approved.                                   *)
SignRequest ==
    /\ request = "sign"
    /\ approvals' = approvals \cup {Requester}
    /\ request' = "done"
    /\ UNCHANGED <<status, call, pushes, queue, received, deaths>>
-----------------------------------------------------------------------------
(* approve: assertAdmin, loadAction, assertAwaitingApproval.               *)
LoadForApproval(c) ==
    /\ call[c] = "idle"
    /\ Move(c, IF CallerOf[c] \in Admins /\ status = "PENDING_APPROVAL" THEN "check" ELSE "done")
    /\ UNCHANGED <<actionVars, request, pushes, queue, received, deaths>>

(* The lookup of the officer's own approval.                               *)
CheckApproval(c) ==
    /\ call[c] = "check"
    /\ Move(c, IF CallerOf[c] \in approvals THEN "done" ELSE "sign")
    /\ UNCHANGED <<actionVars, request, pushes, queue, received, deaths>>

(* An upsert: the second of two concurrent calls of one officer goes on.   *)
CreateApprovalUpsert(c) ==
    /\ call[c] = "sign"
    /\ approvals' = approvals \cup {CallerOf[c]}
    /\ Move(c, "count")
    /\ UNCHANGED <<status, request, pushes, queue, received, deaths>>

(* complianceApproval.create under @@unique([actionId, officerId]).        *)
CreateApproval(c) ==
    /\ call[c] = "sign"
    /\ approvals' = approvals \cup {CallerOf[c]}
    /\ Move(c, IF CallerOf[c] \in approvals THEN "done" ELSE "count")
    /\ UNCHANGED <<status, request, pushes, queue, received, deaths>>

(* The thresholds of an off-by-one comparison, either way.                 *)
ReachesTooEarly(n) == n + 1 >= Required
ReachesTooLate(n) == n > Required

ReachesThreshold(n) == n >= Required

(* The count after the insert, and execute at the threshold.               *)
CountApprovals(c) ==
    /\ call[c] = "count"
    /\ Move(c, IF ReachesThreshold(Cardinality(approvals)) THEN "approve" ELSE "done")
    /\ UNCHANGED <<actionVars, request, pushes, queue, received, deaths>>

(* execute: APPROVED,                                                      *)
MarkApproved(c) ==
    /\ call[c] = "approve"
    /\ status' = "APPROVED"
    /\ Move(c, "push")
    /\ UNCHANGED <<approvals, request, pushes, queue, received, deaths>>

(* ... the push,                                                           *)
PushJob(c) ==
    /\ call[c] = "push"
    /\ pushes' = [pushes EXCEPT ![CallerOf[c]] = @ + 1]
    /\ queue' = queue + 1
    /\ Move(c, "executing")
    /\ UNCHANGED <<actionVars, request, received, deaths>>

(* ... and EXECUTING.                                                      *)
MarkExecuting(c) ==
    /\ call[c] = "executing"
    /\ status' = "EXECUTING"
    /\ Move(c, "done")
    /\ UNCHANGED <<approvals, request, pushes, queue, received, deaths>>
-----------------------------------------------------------------------------
(* reject: the same checks, then the update.                               *)
LoadForReject(c) ==
    /\ call[c] = "idle"
    /\ Move(c, IF CallerOf[c] \in Admins /\ status = "PENDING_APPROVAL" THEN "reject" ELSE "done")
    /\ UNCHANGED <<actionVars, request, pushes, queue, received, deaths>>

MarkRejected(c) ==
    /\ call[c] = "reject"
    /\ status' = "REJECTED"
    /\ Move(c, "done")
    /\ UNCHANGED <<approvals, request, pushes, queue, received, deaths>>

(* recordExecutionResult, for either outcome.                              *)
LoadForResult(c, outcome) ==
    /\ call[c] = "idle"
    /\ Move(c, IF status \in {"EXECUTING", "APPROVED"} THEN outcome ELSE "done")
    /\ UNCHANGED <<actionVars, request, pushes, queue, received, deaths>>

MarkResult(c) ==
    /\ call[c] \in {"succeed", "fail"}
    /\ status' = IF call[c] = "succeed" THEN "EXECUTED" ELSE "FAILED"
    /\ Move(c, "done")
    /\ UNCHANGED <<approvals, request, pushes, queue, received, deaths>>

(* A call dies, or a store rejects its step.                               *)
CallDies(c) ==
    /\ call[c] \notin {"idle", "done"}
    /\ deaths < MaxDeaths
    /\ deaths' = deaths + 1
    /\ Move(c, "done")
    /\ UNCHANGED <<actionVars, request, pushes, queue, received>>

RequestDies ==
    /\ request = "sign"
    /\ deaths < MaxDeaths
    /\ deaths' = deaths + 1
    /\ request' = "done"
    /\ UNCHANGED <<actionVars, call, pushes, queue, received>>
-----------------------------------------------------------------------------
(* The keys of the JSON that RedisComplianceExecutor pushes, and those the *)
(* worker's ComplianceJob cannot do without (an Option may be absent).     *)
PayloadKeys == {"actionId", "actionType", "targetAccount", "assetCode", "assetIssuer",
                "amount", "network"}
JobKeys == {"action_id", "action_type", "target_account", "asset_code"}

(* receive_compliance_job: BLPOP, then decode.  What does not decode is an *)
(* error of the loop, and the job is gone from the list.                   *)
ReceiveComplianceJob ==
    /\ queue > 0
    /\ queue' = queue - 1
    /\ received' = IF JobKeys \subseteq PayloadKeys THEN received + 1 ELSE received
    /\ UNCHANGED <<actionVars, request, call, pushes, deaths>>
-----------------------------------------------------------------------------
(* A call in flight goes on.                                               *)
CallStep(c) ==
    \/ CheckApproval(c)
    \/ CreateApproval(c)
    \/ CountApprovals(c)
    \/ MarkApproved(c)
    \/ PushJob(c)
    \/ MarkExecuting(c)
    \/ MarkRejected(c)
    \/ MarkResult(c)

(* A call names an action that exists.                                     *)
NewCall(c) ==
    /\ status # "NONE"
    /\ \/ LoadForApproval(c)
       \/ LoadForReject(c)
       \/ \E outcome \in {"succeed", "fail"} : LoadForResult(c, outcome)

Next ==
    \/ RequestAction
    \/ SignRequest
    \/ RequestDies
    \/ \E c \in Calls : NewCall(c)
    \/ \E c \in Calls : CallStep(c)
    \/ \E c \in Calls : CallDies(c)
    \/ ReceiveComplianceJob

Spec == Init /\ [][Next]_vars

(* A call in flight and the worker's loop go on; officers owe nothing.     *)
Fairness ==
    /\ WF_vars(SignRequest)
    /\ \A c \in Calls : WF_vars(CallStep(c))
    /\ WF_vars(ReceiveComplianceJob)

FairSpec == Spec /\ Fairness
-----------------------------------------------------------------------------
(* "Each sensitive operation requires the multi-sig approval of 2+         *)
(* compliance officers": nothing is pushed, and no status past approval is *)
(* written, before that many distinct officers have signed.                *)
QuorumBeforeDispatch ==
    \/ \E o \in Officers : pushes[o] > 0
    \/ status \in {"APPROVED", "EXECUTING", "EXECUTED", "FAILED"}
    => Cardinality(approvals) >= Required

(* Two concurrent calls of one officer dispatch at most once, and only an  *)
(* officer who signed dispatches at all.                                   *)
OneDispatchPerOfficer ==
    \A o \in Officers : pushes[o] <= (IF o \in approvals THEN 1 ELSE 0)

(* The inductive strengthening: what a call knows at each stage.           *)
CallersSigned ==
    \A c \in Calls :
        call[c] \in {"count", "approve", "push", "executing"} => CallerOf[c] \in approvals

CallersHaveQuorum ==
    \A c \in Calls :
        call[c] \in {"approve", "push", "executing", "succeed", "fail"} =>
            Cardinality(approvals) >= Required

(* A signature carries one call to execute, and that one has not pushed.   *)
OneSignerPerOfficer ==
    \A c \in Calls :
        call[c] \in {"count", "approve", "push"} =>
            /\ pushes[CallerOf[c]] = 0
            /\ \A d \in Calls : /\ call[d] \in {"count", "approve", "push"}
                                /\ CallerOf[c] = CallerOf[d]
                                => c = d

IInv ==
    /\ TypeOK
    /\ CallersSigned
    /\ CallersHaveQuorum
    /\ OneSignerPerOfficer
    /\ QuorumBeforeDispatch
    /\ OneDispatchPerOfficer

(* No quorum is lost to a race between approvers: once enough officers     *)
(* have signed by approve, the action is dispatched, unless a call died on *)
(* the way.  (The requester's own signature does not count here: it is     *)
(* written without a look at the others, so that it may complete a quorum  *)
(* that nobody dispatches.)                                                *)
QuorumIsDispatched ==
    Cardinality(approvals \ {Requester}) >= Required
        ~> (\E o \in Officers : pushes[o] > 0) \/ deaths > 0

(* compliance-action.service.ts, execute: "Idempotent - actions that       *)
(* already left the PENDING_APPROVAL state are not re-dispatched".         *)
NotRedispatched ==
    [][pushes' # pushes => \A o \in Officers : pushes[o] = 0]_vars

(* compliance-executor.ts: "Dispatches approved compliance actions to the  *)
(* Rust worker by pushing a JSON job onto the compliance_jobs Redis list": *)
(* a pushed job reaches the worker.                                        *)
DispatchIsReceived == queue > 0 ~> received > 0
=============================================================================
