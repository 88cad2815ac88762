----------------------- MODULE ComplianceActionProofs -----------------------
(***************************************************************************)
(* Proofs about ComplianceAction, for every finite set of officers, every  *)
(* set of calls and every threshold.                                       *)
(***************************************************************************)
EXTENDS ComplianceAction, FiniteSetTheorems, TLAPS

(* Signatures only accumulate, so a quorum once reached stays.             *)
LEMMA QuorumStays ==
    ASSUME TypeOK, approvals' \subseteq Officers, approvals \subseteq approvals'
    PROVE  /\ Cardinality(approvals) \in Nat
           /\ Cardinality(approvals') \in Nat
           /\ Cardinality(approvals) <= Cardinality(approvals')
  <1>1. IsFiniteSet(approvals) /\ IsFiniteSet(approvals')
    BY ComplianceAssumption, FS_Subset DEF TypeOK
  <1>2. Cardinality(approvals) <= Cardinality(approvals')
    BY <1>1, FS_Subset
  <1> QED BY <1>1, <1>2, FS_CardinalityType

(* Every step keeps the types.                                             *)
LEMMA TypeStep == TypeOK /\ [Next]_vars => TypeOK'
  <1> SUFFICES ASSUME TypeOK, [Next]_vars PROVE TypeOK'
    OBVIOUS
  <1> USE ComplianceAssumption DEF TypeOK, Move, actionVars, Stage, Status
  <1>1. CASE RequestAction
    BY <1>1 DEF RequestAction
  <1>2. CASE SignRequest
    BY <1>2 DEF SignRequest
  <1>3. CASE RequestDies
    BY <1>3 DEF RequestDies
  <1>4. ASSUME NEW c \in Calls, NewCall(c) PROVE TypeOK'
    BY <1>4 DEF NewCall, LoadForApproval, LoadForReject, LoadForResult
  <1>5. ASSUME NEW c \in Calls, CallStep(c) PROVE TypeOK'
    <2>1. CASE CheckApproval(c) \/ CountApprovals(c)
      BY <2>1 DEF CheckApproval, CountApprovals
    <2>2. CASE CreateApproval(c)
      BY <2>2 DEF CreateApproval
    <2>3. CASE MarkApproved(c) \/ MarkExecuting(c) \/ MarkRejected(c) \/ MarkResult(c)
      BY <2>3 DEF MarkApproved, MarkExecuting, MarkRejected, MarkResult
    <2>4. CASE PushJob(c)
      BY <2>4 DEF PushJob
    <2> QED BY <1>5, <2>1, <2>2, <2>3, <2>4 DEF CallStep
  <1>6. ASSUME NEW c \in Calls, CallDies(c) PROVE TypeOK'
    BY <1>6 DEF CallDies
  <1>7. CASE ReceiveComplianceJob
    BY <1>7 DEF ReceiveComplianceJob
  <1>8. CASE UNCHANGED vars
    BY <1>8 DEF vars
  <1> QED BY <1>1, <1>2, <1>3, <1>4, <1>5, <1>6, <1>7, <1>8 DEF Next

(* A step signs at most for the requester or for a call's officer, and     *)
(* never withdraws a signature.                                            *)
LEMMA SignaturesStay ==
    ASSUME TypeOK, Next
    PROVE  approvals \subseteq approvals'
  BY DEF Next, RequestAction, SignRequest, RequestDies, NewCall, LoadForApproval, LoadForReject,
         LoadForResult, CallStep, CheckApproval, CreateApproval, CountApprovals, MarkApproved,
         PushJob, MarkExecuting, MarkRejected, MarkResult, CallDies, ReceiveComplianceJob,
         actionVars

(* Every step keeps the inductive invariant.                               *)
LEMMA InvariantStep == IInv /\ [Next]_vars => IInv'
  <1> SUFFICES ASSUME IInv, [Next]_vars PROVE IInv'
    OBVIOUS
  <1> USE ComplianceAssumption
  <1>t. TypeOK /\ TypeOK'
    BY TypeStep DEF IInv
  <1>0. CASE UNCHANGED vars
    BY <1>0, <1>t DEF vars, IInv, CallersSigned, CallersHaveQuorum, OneSignerPerOfficer,
                 QuorumBeforeDispatch, OneDispatchPerOfficer
  <1> SUFFICES ASSUME Next PROVE IInv'
    BY <1>0
  <1>q. /\ approvals \subseteq approvals'
        /\ Cardinality(approvals) \in Nat
        /\ Cardinality(approvals') \in Nat
        /\ Cardinality(approvals) >= Required => Cardinality(approvals') >= Required
    <2>1. approvals \subseteq approvals' /\ approvals' \subseteq Officers
      BY <1>t, SignaturesStay DEF TypeOK
    <2> QED BY <1>t, <2>1, QuorumStays
  (* A step of one call, by what it does.                                  *)
  <1>call. ASSUME NEW c \in Calls, NEW stage \in Stage, Move(c, stage),
                  pushes' = pushes,
                  status' = status \/ (Cardinality(approvals') >= Required) \/ status' = "REJECTED",
                  stage \in {"count", "approve", "push", "executing"} => CallerOf[c] \in approvals',
                  stage \in {"approve", "push", "executing", "succeed", "fail"} =>
                      Cardinality(approvals') >= Required,
                  stage = "count" => CallerOf[c] \notin approvals,
                  stage = "approve" => call[c] = "count",
                  stage = "push" => call[c] = "approve"
           PROVE  IInv'
    <2>1. call'[c] = stage /\ \A d \in Calls \ {c} : call'[d] = call[d]
      BY <1>call, <1>t DEF Move, TypeOK
    <2>2. CallersSigned'
      BY <1>call, <1>q, <2>1 DEF IInv, CallersSigned
    <2>3. CallersHaveQuorum'
      BY <1>call, <1>q, <2>1 DEF IInv, CallersHaveQuorum
    <2>4. \A o \in Officers : pushes[o] \in Nat
      BY <1>t DEF TypeOK
    <2>5. OneSignerPerOfficer'
      BY <1>call, <2>1, <2>4 DEF IInv, OneSignerPerOfficer, CallersSigned, OneDispatchPerOfficer
    <2>6. QuorumBeforeDispatch'
      BY <1>call, <1>q DEF IInv, QuorumBeforeDispatch
    <2>7. OneDispatchPerOfficer'
      BY <1>call, <1>q, <2>4 DEF IInv, OneDispatchPerOfficer
    <2> QED BY <1>t, <2>2, <2>3, <2>5, <2>6, <2>7 DEF IInv
  (* A step of no call.                                                    *)
  <1>other. ASSUME UNCHANGED <<call, pushes>>, status' \in {status, "PENDING_APPROVAL"}
            PROVE  IInv'
    <2>1. \A o \in Officers : pushes[o] \in Nat
      BY <1>t DEF TypeOK
    <2>2. CallersSigned' /\ CallersHaveQuorum' /\ OneSignerPerOfficer'
      BY <1>other, <1>q DEF IInv, CallersSigned, CallersHaveQuorum, OneSignerPerOfficer
    <2>3. QuorumBeforeDispatch'
      BY <1>other, <1>q DEF IInv, QuorumBeforeDispatch
    <2>4. OneDispatchPerOfficer'
      BY <1>other, <1>q, <2>1 DEF IInv, OneDispatchPerOfficer
    <2> QED BY <1>t, <2>2, <2>3, <2>4 DEF IInv
  <1>1. CASE RequestAction \/ SignRequest \/ RequestDies \/ ReceiveComplianceJob
    BY <1>1, <1>other DEF RequestAction, SignRequest, RequestDies, ReceiveComplianceJob, actionVars
  <1>2. ASSUME NEW c \in Calls, NewCall(c) PROVE IInv'
    <2> DEFINE quorum == Cardinality(approvals') >= Required
    <2>1. status \in {"EXECUTING", "APPROVED"} => quorum
      BY <1>q DEF IInv, QuorumBeforeDispatch
    <2>2. pushes' = pushes /\ status' = status
      BY <1>2 DEF NewCall, LoadForApproval, LoadForReject, LoadForResult, actionVars
    <2>3. PICK stage \in {"check", "reject", "succeed", "fail", "done"} :
             Move(c, stage) /\ (stage \in {"succeed", "fail"} => quorum)
      BY <1>2, <2>1 DEF NewCall, LoadForApproval, LoadForReject, LoadForResult
    <2> QED BY <1>call, <2>2, <2>3 DEF Stage
  <1>3. ASSUME NEW c \in Calls, CallDies(c) PROVE IInv'
    BY <1>3, <1>call DEF CallDies, actionVars, Stage
  <1>4. ASSUME NEW c \in Calls, CallStep(c) PROVE IInv'
    <2>1. CASE CheckApproval(c)
      <3>1. PICK stage \in {"sign", "done"} : Move(c, stage)
        BY <2>1 DEF CheckApproval
      <3> QED BY <2>1, <3>1, <1>call DEF CheckApproval, actionVars, Stage
    <2>2. CASE CreateApproval(c)
      <3>1. PICK stage \in {"count", "done"} :
               Move(c, stage) /\ (stage = "count" => CallerOf[c] \notin approvals)
        BY <2>2 DEF CreateApproval
      <3> QED BY <2>2, <3>1, <1>call DEF CreateApproval, Stage
    <2>3. CASE CountApprovals(c)
      <3>1. PICK stage \in {"approve", "done"} :
               Move(c, stage) /\ (stage = "approve" => Cardinality(approvals) >= Required)
        BY <2>3 DEF CountApprovals, ReachesThreshold
      <3>2. CallerOf[c] \in approvals'
        BY <2>3, <1>q DEF CountApprovals, IInv, CallersSigned
      <3> QED BY <2>3, <3>1, <3>2, <1>call, <1>q DEF CountApprovals, actionVars, Stage
    <2>4. CASE MarkApproved(c)
      <3>1. CallerOf[c] \in approvals' /\ Cardinality(approvals') >= Required
        BY <2>4, <1>q DEF MarkApproved, IInv, CallersSigned, CallersHaveQuorum
      <3> QED BY <2>4, <3>1, <1>call DEF MarkApproved, Stage
    <2>5. CASE PushJob(c)
      <3> DEFINE o == CallerOf[c]
      <3>1. /\ call' = [call EXCEPT ![c] = "executing"] /\ UNCHANGED <<status, approvals>>
            /\ pushes' = [pushes EXCEPT ![o] = @ + 1] /\ call[c] = "push"
        BY <2>5 DEF PushJob, Move, actionVars
      <3>2. /\ o \in Officers /\ o \in approvals /\ Cardinality(approvals) >= Required
            /\ pushes[o] = 0
        BY <3>1 DEF IInv, CallersSigned, CallersHaveQuorum, OneSignerPerOfficer
      <3>3. pushes'[o] = 1 /\ \A p \in Officers : p # o => pushes'[p] = pushes[p]
        BY <1>t, <3>1, <3>2 DEF TypeOK
      <3>4. call'[c] = "executing" /\ \A d \in Calls : d # c => call'[d] = call[d]
        BY <1>t, <3>1 DEF TypeOK
      <3>5. CallersSigned' /\ CallersHaveQuorum'
        BY <3>1, <3>2, <3>4 DEF IInv, CallersSigned, CallersHaveQuorum
      <3>6. OneSignerPerOfficer'
        BY <3>1, <3>3, <3>4 DEF IInv, OneSignerPerOfficer
      <3>7. QuorumBeforeDispatch' /\ OneDispatchPerOfficer'
        BY <3>1, <3>2, <3>3 DEF IInv, QuorumBeforeDispatch, OneDispatchPerOfficer
      <3> QED BY <1>t, <3>5, <3>6, <3>7 DEF IInv
    <2>6. CASE MarkExecuting(c) \/ MarkResult(c)
      <3>1. Cardinality(approvals') >= Required
        BY <2>6, <1>q DEF MarkExecuting, MarkResult, IInv, CallersHaveQuorum
      <3> QED BY <2>6, <3>1, <1>call DEF MarkExecuting, MarkResult, Stage
    <2>7. CASE MarkRejected(c)
      BY <2>7, <1>call DEF MarkRejected, Stage
    <2> QED BY <1>4, <2>1, <2>2, <2>3, <2>4, <2>5, <2>6, <2>7 DEF CallStep
  <1> QED BY <1>1, <1>2, <1>3, <1>4 DEF Next

(* It holds before the first request.                                      *)
LEMMA InvariantInit == Init => IInv
  <1> SUFFICES ASSUME Init PROVE IInv
    OBVIOUS
  <1>1. TypeOK
    BY ComplianceAssumption DEF Init, TypeOK, Stage
  <1> QED
    BY <1>1, ComplianceAssumption
    DEF Init, IInv, CallersSigned, CallersHaveQuorum, OneSignerPerOfficer, QuorumBeforeDispatch,
        OneDispatchPerOfficer

(* No freeze or clawback is pushed, or marked as approved, executing or    *)
(* executed, without the signatures of Required distinct officers.         *)
THEOREM DispatchNeedsQuorum == Spec => []QuorumBeforeDispatch
  <1>1. IInv => QuorumBeforeDispatch
    BY DEF IInv
  <1> QED BY <1>1, InvariantInit, InvariantStep, PTL DEF Spec

(* However many calls an officer makes at once, one of them dispatches at  *)
(* most: the unique index on (actionId, officerId) bounds the re-dispatch. *)
THEOREM OfficersDispatchOnce == Spec => []OneDispatchPerOfficer
  <1>1. IInv => OneDispatchPerOfficer
    BY DEF IInv
  <1> QED BY <1>1, InvariantInit, InvariantStep, PTL DEF Spec

=============================================================================
