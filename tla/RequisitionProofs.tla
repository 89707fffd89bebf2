-------------------------- MODULE RequisitionProofs --------------------------
(***************************************************************************)
(* Proofs about purchase requisitions: their lifecycle drives the approval *)
(* engine only as the engine allows, so that everything proved of the      *)
(* engine holds of it; and what the lifecycle adds to it.  For any chain   *)
(* of stages, any people, any contents and any totals.                     *)
(***************************************************************************)
EXTENDS RequisitionLifecycle, WorkflowProofs

-----------------------------------------------------------------------------
(* The lifecycle implements the engine's specification *)

\* The columns of the requisition that the engine does not know.
Flags == po \in BOOLEAN /\ ordered \in BOOLEAN
           /\ selfAuthorized \in BOOLEAN /\ editing \in BOOLEAN /\ overtaken \subseteq Instances

\* A requisition on hold resumes in a status of the table's CHECK.
LEMMA ResumeType == ResumeTo \in Statuses
  BY RequisitionAssumption, ConstantsAssumption DEF ResumeTo

\* Every operation on the requisition is one of the engine's entry points, or
\* writes only the row itself.
LEMMA ReqStepImplements == TypeOK /\ [ReqNext]_reqVars => [Next]_vars
<1> SUFFICES ASSUME TypeOK, [ReqNext]_reqVars PROVE [Next]_vars
  OBVIOUS
<1>1. /\ {"DRAFT", "SUBMITTED", "APPROVED", "REJECTED", "CANCELLED", "ON_HOLD",
          "PARTIALLY_CONVERTED", "FULLY_CONVERTED"} \subseteq Statuses
      /\ status \in Statuses /\ version \in Versions
  BY RequisitionAssumption, ConstantsAssumption DEF TypeOK
<1>2. CASE submitRequisition
  <2>1. CASE selfAuthorize
    BY <1>1, <2>1 DEF selfAuthorize, lifecycleStep, Next
  <2>2. CASE ~selfAuthorize
    <3>1. PICK i \in Instances : startWorkflow(i, AmountOf[version])
      BY <1>2, <2>2 DEF submitRequisition
    <3>2. status' = "SUBMITTED"
      BY <1>2, <2>2 DEF submitRequisition
    <3>3. AmountOf[version] \in Amounts
      BY <1>1, RequisitionAssumption
    <3> QED
      BY <1>1, <3>1, <3>2, <3>3 DEF submit, Next
  <2> QED
    BY <2>1, <2>2
<1>3. CASE updateRead \/ createPurchaseOrder
  BY <1>3 DEF updateRead, createPurchaseOrder
<1>4. CASE updateWrite
  BY <1>1, <1>4 DEF updateWrite, lifecycleStep, Next
<1>5. CASE patchRequisition
  BY <1>5 DEF patchRequisition, Next
<1>6. CASE reopenRequisition
  BY <1>1, <1>6 DEF reopenRequisition, lifecycleStep, Next
<1>7. CASE cancelRequisition
  BY <1>1, <1>7 DEF cancelRequisition, withdraw, Next
<1>8. CASE holdRequisition
  BY <1>1, <1>8 DEF holdRequisition, lifecycleStep, Next
<1>9. CASE releaseRequisition
  BY <1>1, <1>9, ResumeType DEF releaseRequisition, lifecycleStep, Next
<1>10. CASE convertRequisition
  BY <1>1, <1>10 DEF convertRequisition, lifecycleStep, Next
<1>11. CASE reqEngineStep
  BY <1>11 DEF reqEngineStep, Next
<1>12. CASE UNCHANGED reqVars
  BY <1>12 DEF reqVars, vars
<1> QED
  BY <1>2, <1>3, <1>4, <1>5, <1>6, <1>7, <1>8, <1>9, <1>10, <1>11, <1>12 DEF ReqNext

\* The row stays well typed, hence every step of the lifecycle is the engine's.
LEMMA ReqEngineInvariant == ReqSpec => []EngineInv
<1>1. ReqInit => EngineInv
  BY InitInv DEF ReqInit
<1>2. EngineInv /\ [ReqNext]_reqVars => EngineInv'
  BY ReqStepImplements, NextInv DEF EngineInv
<1> QED
  BY <1>1, <1>2, PTL DEF ReqSpec

\* The requisition's lifecycle (submit, update, patch, reopen, cancel, hold,
\* release, convert) implements the specification of the approval engine.
THEOREM RequisitionImplementsEngine == ReqSpec => Spec
<1>1. ReqInit => Init
  BY DEF ReqInit
<1>2. EngineInv /\ [ReqNext]_reqVars => [Next]_vars
  BY ReqStepImplements DEF EngineInv
<1> QED
  BY <1>1, <1>2, ReqEngineInvariant, PTL DEF ReqSpec, Spec

-----------------------------------------------------------------------------
(* What a step does to one chain *)

\* A step of the lifecycle keeps the chain, or is the submission that opens it
\* for the content there is.
LEMMA ReqChainMoves ==
  ASSUME EngineInv, [ReqNext]_reqVars, NEW i \in Instances
  PROVE  \/ ChainKept(i)
         \/ /\ inst[i].status = "NONE" /\ status' = "SUBMITTED"
            /\ inst'[i].hash = version /\ version' = version
<1>1. inst \in [Instances -> Instance] /\ inst[i] \in Instance /\ NoInstance \in Instance
  BY NoInstanceType DEF EngineInv, TypeOK
<1>2. CASE submitRequisition
  <2>1. CASE selfAuthorize
    BY <2>1, EngineKeepsChain DEF selfAuthorize, engineVars
  <2>2. CASE ~selfAuthorize
    <3>1. PICK j \in Instances : startWorkflow(j, AmountOf[version])
      BY <1>2, <2>2 DEF submitRequisition
    <3>2. status' = "SUBMITTED"
      BY <1>2, <2>2 DEF submitRequisition
    <3>3. CASE j = i
      <4>1. inst'[i] = [NoInstance EXCEPT !.status = "RUNNING",
                          !.amount = AmountOf[version], !.hash = version]
        BY <1>1, <3>1, <3>3 DEF startWorkflow
      <4>2. inst'[i].hash = version /\ version' = version
        BY <1>1, <3>1, <4>1 DEF Instance, startWorkflow
      <4>3. inst[i].status = "NONE"
        BY <3>1, <3>3 DEF startWorkflow
      <4> QED
        BY <3>2, <4>2, <4>3
    <3>4. CASE j # i
      <4>1. inst'[i] = inst[i]
        BY <1>1, <3>1, <3>4 DEF startWorkflow
      <4> QED
        BY <4>1 DEF ChainKept
    <3> QED
      BY <3>3, <3>4
  <2> QED
    BY <2>1, <2>2
<1>3. CASE patchRequisition
  BY <1>3, EngineKeepsChain DEF patchRequisition
<1>4. CASE cancelRequisition
  BY <1>4, EngineKeepsChain DEF cancelRequisition
<1>5. CASE reqEngineStep
  BY <1>5, EngineKeepsChain DEF reqEngineStep
<1>6. CASE \/ updateRead \/ updateWrite \/ reopenRequisition \/ holdRequisition
           \/ releaseRequisition \/ convertRequisition \/ createPurchaseOrder
           \/ UNCHANGED reqVars
  <2>1. inst' = inst
    BY <1>6 DEF updateRead, updateWrite, reopenRequisition, holdRequisition,
         releaseRequisition, convertRequisition, createPurchaseOrder, reqVars, vars, engineVars
  <2> QED
    BY <2>1, EngineKeepsChain
<1> QED
  BY <1>2, <1>3, <1>4, <1>5, <1>6 DEF ReqNext

-----------------------------------------------------------------------------
(* A standing chain is of the content there is *)

\* No edit parts a chain that still stands from the content it was opened for,
\* but the update that overtook its submission.
StandingMatches ==
  \A i \in Instances :
    inst[i].status \in LiveInstance => inst[i].hash = version \/ i \in overtaken

\* The steps that write the content, and what they do to a chain.
LEMMA ContentMoves ==
  ASSUME EngineInv, [ReqNext]_reqVars, NEW i \in Instances
  PROVE  \/ version' = version /\ overtaken' = overtaken
         \/ /\ inst' = inst
            /\ overtaken' = overtaken \cup {j \in Instances : inst[j].status \in LiveInstance}
         \/ /\ overtaken' = overtaken
            /\ inst'[i].status = "CANCELLED"
                 \/ (inst'[i] = inst[i] /\ (inst[i].status \in LiveInstance => inst[i].hash = version'))
<1>1. CASE updateWrite
  BY <1>1 DEF updateWrite, engineVars
<1>2. CASE patchRequisition
  <2>1. PICK v \in Versions : editDocument(v)
    BY <1>2 DEF patchRequisition, edit
  <2>2. /\ version' = v /\ overtaken' = overtaken
        /\ inst'[i] = IF inst[i].status \in LiveInstance \cup {"EXECUTION_PENDING"}
                           /\ inst[i].hash # v
                      THEN [inst[i] EXCEPT !.status = "CANCELLED"] ELSE inst[i]
    BY <1>2, <2>1 DEF patchRequisition, editDocument, invalidateStaleApproval
  <2>3. inst[i] \in Instance
    BY DEF EngineInv, TypeOK
  <2> QED
    BY <2>2, <2>3 DEF Instance
<1>3. CASE reqEngineStep
  <2>1. ASSUME decide PROVE version' = version
    <3>1. PICK u \in Users, j \in Instances, s \in Steps :
            \/ approveTask(u, j, s)
            \/ \E d \in {"REJECTED", "RETURNED"} : rejectTask(u, j, s, d)
            \/ \E to \in Delegatees : delegateTask(u, j, s, to)
      BY <2>1 DEF decide
    <3> QED
      BY <3>1 DEF approveTask, rejectTask, delegateTask
  <2>2. ASSUME escalation \/ delegationChange PROVE version' = version
    BY <2>2 DEF escalation, escalationSelect, escalationUpdate, delegationChange
  <2>3. version' = version
    BY <1>3, <2>1, <2>2 DEF reqEngineStep
  <2> QED
    BY <1>3, <2>3 DEF reqEngineStep
<1>4. CASE submitRequisition
  BY <1>4 DEF submitRequisition, selfAuthorize, startWorkflow
<1>5. CASE cancelRequisition
  BY <1>5 DEF cancelRequisition, withdrawRunning
<1>6. CASE \/ updateRead \/ reopenRequisition \/ holdRequisition \/ releaseRequisition
           \/ convertRequisition \/ createPurchaseOrder \/ UNCHANGED reqVars
  BY <1>6 DEF updateRead, reopenRequisition, holdRequisition, releaseRequisition,
       convertRequisition, createPurchaseOrder, reqVars, vars
<1> QED
  BY <1>1, <1>2, <1>3, <1>4, <1>5, <1>6 DEF ReqNext

LEMMA StandingStays ==
  ASSUME EngineInv, StandingMatches, [ReqNext]_reqVars PROVE StandingMatches'
<1> SUFFICES ASSUME NEW i \in Instances, inst'[i].status \in LiveInstance
             PROVE  inst'[i].hash = version' \/ i \in overtaken'
  BY DEF StandingMatches
<1>1. CASE version' = version /\ overtaken' = overtaken
  BY <1>1, ReqChainMoves DEF ChainKept, StandingMatches
<1>2. CASE ~(version' = version /\ overtaken' = overtaken)
  <2>1. "CANCELLED" \notin LiveInstance
    BY DEF LiveInstance
  <2> QED
    BY <1>2, <2>1, ContentMoves
<1> QED
  BY <1>1, <1>2

\* invalidateStaleApproval, called with every PATCH: the last signature on a
\* chain that still stands approves the content the chain was opened for, over
\* every route of the requisition; only the unlocked updateRequisition can get
\* between them.
THEOREM ApprovalIsOfSubmitted == ReqSpec => ApprovedAsSubmitted
<1>1. ReqInit => StandingMatches
  BY DEF ReqInit, Init, NoInstance, StandingMatches, LiveInstance
<1>2. EngineInv /\ StandingMatches /\ [ReqNext]_reqVars => StandingMatches'
  BY StandingStays
<1>3. ASSUME EngineInv, StandingMatches, [ReqNext]_reqVars, NEW i \in Instances,
             inst[i].status \in LiveInstance, inst'[i].status \in FullySigned
      PROVE  (inst[i].hash = version /\ version' = version) \/ i \in overtaken
  <2>1. inst'[i] # inst[i] /\ inst'[i].status # "CANCELLED"
    BY <1>3 DEF LiveInstance, FullySigned
  <2>2. version' = version
    BY <1>3, <2>1, ContentMoves
  <2> QED
    BY <1>3, <2>2 DEF StandingMatches
<1>4. EngineInv /\ StandingMatches /\ [ReqNext]_reqVars =>
        [\A i \in Instances :
           inst[i].status \in LiveInstance /\ inst'[i].status \in FullySigned =>
             (inst[i].hash = version /\ version' = version) \/ i \in overtaken]_reqVars
  BY <1>3
<1> QED
  BY <1>1, <1>2, <1>4, ReqEngineInvariant, PTL DEF ReqSpec, ApprovedAsSubmitted

-----------------------------------------------------------------------------
(* Cancellation *)

\* A requisition becomes CANCELLED only through cancelRequisition.
LEMMA CancelledBy ==
  ASSUME EngineInv, [ReqNext]_reqVars, status' = "CANCELLED"
  PROVE  cancelRequisition \/ status = "CANCELLED"
<1>1. CASE reqEngineStep
  <2>1. CASE decide
    <3> PICK u \in Users, i \in Instances, s \in Steps :
          \/ approveTask(u, i, s)
          \/ \E d \in {"REJECTED", "RETURNED"} : rejectTask(u, i, s, d)
          \/ \E to \in Delegatees : delegateTask(u, i, s, to)
      BY <2>1 DEF decide
    <3>1. CASE approveTask(u, i, s)
      BY <3>1 DEF approveTask, completeWorkflow
    <3>2. ASSUME NEW d \in {"REJECTED", "RETURNED"}, rejectTask(u, i, s, d)
          PROVE  status = "CANCELLED"
      BY <3>2 DEF rejectTask
    <3>3. ASSUME NEW to \in Delegatees, delegateTask(u, i, s, to)
          PROVE  status = "CANCELLED"
      BY <3>3 DEF delegateTask
    <3> QED
      BY <3>1, <3>2, <3>3
  <2> QED
    BY <1>1, <2>1 DEF reqEngineStep, escalation, escalationSelect, escalationUpdate,
         delegationChange
<1>2. CASE patchRequisition
  <2>1. status' \in {status, "DRAFT"}
    BY <1>2 DEF patchRequisition, edit, editDocument, invalidateStaleApproval
  <2> QED
    BY <2>1
<1>3. CASE releaseRequisition
  BY <1>3 DEF releaseRequisition, ResumeTo
<1>4. CASE \/ submitRequisition \/ updateRead \/ updateWrite \/ reopenRequisition
           \/ holdRequisition \/ convertRequisition \/ createPurchaseOrder
           \/ UNCHANGED reqVars
  BY <1>4 DEF submitRequisition, selfAuthorize, updateRead, updateWrite, reopenRequisition,
       holdRequisition, convertRequisition, createPurchaseOrder, reqVars, vars
<1> QED
  BY <1>1, <1>2, <1>3, <1>4 DEF ReqNext

\* "Pending approvals are withdrawn": cancelRequisition stops every running
\* chain, and no other operation starts one for a cancelled requisition.
THEOREM CancelWithdraws == ReqSpec => []CancelStopsChains
<1>1. ReqInit => CancelStopsChains
  BY DEF ReqInit, Init, CancelStopsChains
<1>2. ASSUME EngineInv, CancelStopsChains, [ReqNext]_reqVars,
             status' = "CANCELLED", NEW i \in Instances
      PROVE  inst'[i].status # "RUNNING"
  <2>1. CASE cancelRequisition
    <3>1. inst'[i] = IF i \in Running THEN [inst[i] EXCEPT !.status = "CANCELLED"]
                                      ELSE inst[i]
      BY <2>1 DEF cancelRequisition, withdrawRunning
    <3>2. inst[i] \in Instance
      BY <1>2 DEF EngineInv, TypeOK
    <3> QED
      BY <3>1, <3>2 DEF Running, Instance
  <2>2. CASE status = "CANCELLED"
    BY <1>2, <2>2, ReqChainMoves DEF ChainKept, CancelStopsChains
  <2> QED
    BY <1>2, <2>1, <2>2, CancelledBy
<1>3. EngineInv /\ CancelStopsChains /\ [ReqNext]_reqVars => CancelStopsChains'
  BY <1>2 DEF CancelStopsChains
<1> QED
  BY <1>1, <1>3, ReqEngineInvariant, PTL DEF ReqSpec

-----------------------------------------------------------------------------
(* Approval and conversion *)

\* A complete chain stays complete: its amount is fixed and decisions are final.
LEMMA CompleteStays ==
  ASSUME EngineInv, [ReqNext]_reqVars, NEW i \in Instances, ChainComplete(i)
  PROVE  ChainComplete(i)'
<1>1. ChainKept(i)
  BY ReqChainMoves DEF ChainComplete
<1>2. [Next]_vars
  BY ReqStepImplements DEF EngineInv
<1>3. ASSUME NEW s \in Applicable(inst[i].amount) PROVE task'[i][s].status = "APPROVED"
  BY <1>2, NextFinal DEF ChainComplete, Applicable, Signed
<1>4. Applicable(inst'[i].amount) = Applicable(inst[i].amount)
  BY <1>1 DEF ChainKept
<1> QED
  BY <1>1, <1>3, <1>4 DEF ChainComplete, ChainKept

\* A requisition becomes APPROVED by the last signature on a chain or by the
\* submission of a final authority: releaseRequisition never resumes at
\* APPROVED, since no instance is ever COMPLETED.
LEMMA ApprovedBy ==
  ASSUME EngineInv, [ReqNext]_reqVars, status' = "APPROVED", status # "APPROVED"
  PROVE  selfAuthorized' = TRUE \/ \E i \in Instances : inst'[i].status \in FullySigned
<1>1. CASE submitRequisition
  BY <1>1 DEF submitRequisition
<1>2. CASE patchRequisition
  <2>1. status' \in {status, "DRAFT"}
    BY <1>2 DEF patchRequisition, edit, editDocument, invalidateStaleApproval
  <2> QED
    BY <2>1
<1>3. CASE releaseRequisition
  <2>1. \A i \in Instances : inst[i].status # "COMPLETED"
    BY DEF EngineInv, TypeOK, Instance, InstanceStatus, LiveInstance, FullySigned
  <2> QED
    BY <1>3, <2>1 DEF releaseRequisition, ResumeTo, LatestInstance
<1>4. CASE reqEngineStep
  <2>1. CASE decide
    <3>1. PICK u \in Users, i \in Instances, s \in Steps :
            \/ approveTask(u, i, s)
            \/ \E d \in {"REJECTED", "RETURNED"} : rejectTask(u, i, s, d)
            \/ \E to \in Delegatees : delegateTask(u, i, s, to)
      BY <2>1 DEF decide
    <3>2. completeWorkflow(i)
      BY <3>1 DEF approveTask, rejectTask, delegateTask
    <3>3. inst'[i].status \in {"APPROVED", "EXECUTION_PENDING"}
      BY <3>2 DEF completeWorkflow, EngineInv, TypeOK, Instance
    <3> QED
      BY <3>3 DEF FullySigned
  <2> QED
    BY <1>4, <2>1 DEF reqEngineStep, escalation, escalationSelect, escalationUpdate,
         delegationChange
<1>5. CASE \/ updateRead \/ updateWrite \/ reopenRequisition \/ holdRequisition
           \/ cancelRequisition \/ convertRequisition \/ createPurchaseOrder
           \/ UNCHANGED reqVars
  BY <1>5 DEF updateRead, updateWrite, reopenRequisition, holdRequisition,
       cancelRequisition, convertRequisition, createPurchaseOrder, reqVars, vars
<1> QED
  BY <1>1, <1>2, <1>3, <1>4, <1>5 DEF ReqNext

\* Lines are ordered only by convertRequisition, of an APPROVED requisition;
\* and a self-authorisation is never taken back.
LEMMA OrderedBy ==
  ASSUME [ReqNext]_reqVars
  PROVE  /\ ordered' = TRUE => ordered = TRUE \/ status = "APPROVED"
         /\ selfAuthorized = TRUE => selfAuthorized' = TRUE
  BY DEF ReqNext, submitRequisition, updateRead, updateWrite, patchRequisition,
       reopenRequisition, cancelRequisition, holdRequisition, releaseRequisition,
       convertRequisition, createPurchaseOrder, reqEngineStep, reqVars

LEMMA FlagsStay == Flags /\ [ReqNext]_reqVars => Flags'
  BY DEF Flags, ReqNext, submitRequisition, updateRead, updateWrite, patchRequisition,
     reopenRequisition, cancelRequisition, holdRequisition, releaseRequisition,
     convertRequisition, createPurchaseOrder, reqEngineStep, reqVars

\* purchase_requisitions: every route leaves a status of the table's CHECK, and
\* the engine's rows well formed.
THEOREM RequisitionTypes == ReqSpec => []ReqTypeOK
<1>1. ReqInit => Flags
  BY DEF ReqInit, Flags
<1>2. EngineInv /\ Flags => ReqTypeOK
  BY DEF EngineInv, Flags, ReqTypeOK
<1> QED
  BY <1>1, <1>2, FlagsStay, ReqEngineInvariant, PTL DEF ReqSpec

\* convertRequisition, releaseRequisition: nothing is ordered or approved but
\* on a complete chain or a final authority's own submission.
THEOREM ConversionIsBacked == ReqSpec => []ConversionBacked
<1> DEFINE Backed == selfAuthorized = TRUE \/ \E i \in Instances : ChainComplete(i)
           Inv == Flags /\ (ordered = TRUE \/ status = "APPROVED" => Backed)
<1>1. ReqInit => Inv
  BY DEF ReqInit, Init, Flags
<1>2. ASSUME EngineInv, Inv, [ReqNext]_reqVars PROVE Inv'
  <2>1. Flags'
    BY <1>2, FlagsStay
  <2>2. ASSUME Backed PROVE Backed'
    BY <1>2, <2>2, CompleteStays, OrderedBy
  <2>3. ASSUME status' = "APPROVED", status # "APPROVED" PROVE Backed'
    <3>1. EngineInv'
      BY <1>2, ReqStepImplements, NextInv DEF EngineInv
    <3>2. ASSUME NEW i \in Instances, inst'[i].status \in FullySigned
          PROVE  ChainComplete(i)'
      <4>1. ChainSigned'
        BY <3>1, InvImpliesSigned, PTL
      <4> QED
        BY <3>2, <4>1 DEF ChainSigned, ChainComplete, FullySigned
    <3> QED
      BY <1>2, <2>3, <3>2, ApprovedBy
  <2>4. ordered' = TRUE => ordered = TRUE \/ status = "APPROVED"
    BY <1>2, OrderedBy
  <2> QED
    BY <1>2, <2>1, <2>2, <2>3, <2>4
<1>3. Inv => ConversionBacked
  BY DEF ConversionBacked, Flags
<1> QED
  BY <1>1, <1>2, <1>3, ReqEngineInvariant, PTL DEF ReqSpec

-----------------------------------------------------------------------------
(* What an order rests on *)

\* A requisition is approved, and lines of it are ordered, only on signatures
\* for every stage that covers the total submitted, by different people other
\* than the requester who were each entitled to sign or were handed the task
\* by somebody who was; or by a final authority.
OrderedUnderControl ==
  ordered \/ status = "APPROVED" =>
    selfAuthorized \/ \E i \in Instances : EntirelySigned(i)

\* submitRequisition to convertRequisition: an order traces back to such a
\* chain over every route through hold, release, edit, cancel and reopen, and
\* whatever was delegated or escalated on the way.
THEOREM OrderedOnSignatures == ReqSpec => []OrderedUnderControl
<1>1. EngineInv /\ SignaturesEntitled /\ ConversionBacked => OrderedUnderControl
  <2> SUFFICES ASSUME EngineInv, SignaturesEntitled, NEW i \in Instances, ChainComplete(i)
               PROVE  EntirelySigned(i)
    BY DEF ConversionBacked, OrderedUnderControl
  <2> QED
    BY ApprovedIsEntirelySigned DEF ChainComplete
<1> QED
  BY <1>1, ReqEngineInvariant, RequisitionImplementsEngine, SignersAreEntitled,
     ConversionIsBacked, PTL

=============================================================================
