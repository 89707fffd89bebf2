------------------------ MODULE RequisitionLifecycle ------------------------
(***************************************************************************)
(* Purchase requisitions (apps/api/src/services/procurement.ts) on top of  *)
(* the approval engine: draft edits, submission, cancellation, reopening,  *)
(* hold and release, conversion to purchase orders.  The content (version) *)
(* is the header row with its totals, which is what computeMaterialHash    *)
(* hashes; lines that change and leave the header as it is do not show.    *)
(***************************************************************************)
EXTENDS Workflow

CONSTANTS
  FinalAuthority,  \* users who hold one of SELF_AUTHORIZE_ROLES
  AmountOf,        \* [Versions -> Amounts]: base_total of the lines
  Requesters       \* users who submit

ASSUME RequisitionAssumption ==
  /\ Requesters \subseteq Users /\ FinalAuthority \subseteq Users
  /\ AmountOf \in [Versions -> Amounts]
  /\ {"REJECTED", "CANCELLED", "ON_HOLD", "PARTIALLY_CONVERTED",
      "FULLY_CONVERTED"} \subseteq Statuses

VARIABLES
  po,              \* a purchase order names the requisition
  ordered,         \* every line has been ordered (ordered_qty = quantity)
  selfAuthorized,  \* audit log holds a self_authorized row
  editing,         \* an update request has seen DRAFT and not written yet
  overtaken        \* history: chains that were live when an update was written

reqVars == <<status, version, inst, task, active, cron, po, ordered,
             selfAuthorized, editing, overtaken>>

\* PR_TRANSITIONS, for the statuses some code path writes.
PR_TRANSITIONS ==
  [DRAFT |-> {"SUBMITTED", "ON_HOLD", "CANCELLED"},
   SUBMITTED |-> {"APPROVED", "REJECTED", "ON_HOLD", "CANCELLED"},
   APPROVED |-> {"ON_HOLD", "CANCELLED", "PARTIALLY_CONVERTED",
                 "FULLY_CONVERTED"},
   REJECTED |-> {"DRAFT", "CANCELLED"},
   ON_HOLD |-> {"DRAFT", "SUBMITTED", "APPROVED", "REJECTED", "CANCELLED",
                "PARTIALLY_CONVERTED", "FULLY_CONVERTED"},
   PARTIALLY_CONVERTED |-> {"ON_HOLD", "CANCELLED", "FULLY_CONVERTED"},
   FULLY_CONVERTED |-> {},
   CANCELLED |-> {}]

assertPrTransition(from, to) == from = to \/ to \in PR_TRANSITIONS[from]

-----------------------------------------------------------------------------
\* submitRequisition locks the DRAFT row and totals its lines inside the
\* transaction; a failed budget check refuses the submission.
submitRequisition ==
  /\ status = "DRAFT"
  /\ \E u \in Requesters :
       \/ /\ u \in FinalAuthority
          /\ selfAuthorize
          /\ selfAuthorized' = TRUE
       \/ /\ u \notin FinalAuthority
          /\ \E i \in Instances : startWorkflow(i, AmountOf[version])
          /\ status' = "SUBMITTED"
          /\ UNCHANGED selfAuthorized
  /\ UNCHANGED <<po, ordered, editing, overtaken>>

\* updateRequisition: SELECT ... AND status = 'DRAFT' takes no lock ...
updateRead ==
  /\ status = "DRAFT"
  /\ editing' = TRUE
  /\ UNCHANGED <<vars, po, ordered, selfAuthorized, overtaken>>

\* ... and the UPDATE and the new lines do not check the status again.
updateWrite ==
  /\ editing
  /\ version' \in Versions
  /\ ordered' = FALSE
  /\ editing' = FALSE
  /\ overtaken' = overtaken \cup {i \in Instances : inst[i].status \in LiveInstance}
  /\ UNCHANGED <<status, engineVars, po, selfAuthorized>>

\* PATCH through the record route (header fields), in any status.
patchRequisition ==
  /\ edit
  /\ UNCHANGED <<po, ordered, selfAuthorized, editing, overtaken>>

reopenRequisition ==
  /\ status = "REJECTED"
  /\ status' = "DRAFT"
  /\ UNCHANGED <<version, engineVars, po, ordered, selfAuthorized, editing, overtaken>>

\* Mutant: instances are closed as REJECTED and their tasks stay open.
cancelRequisition_Rejects ==
  /\ status \in {"DRAFT", "SUBMITTED"}
  /\ ~po
  /\ status' = "CANCELLED"
  /\ inst' = [i \in Instances |->
                IF i \in Running THEN [inst[i] EXCEPT !.status = "REJECTED"]
                                 ELSE inst[i]]
  /\ UNCHANGED <<version, task, active, cron, po, ordered, selfAuthorized, editing, overtaken>>

\* Mutant: only a SUBMITTED requisition's chains are withdrawn.
cancelRequisition_SubmittedOnly ==
  /\ status \in {"DRAFT", "SUBMITTED"}
  /\ ~po
  /\ status' = "CANCELLED"
  /\ IF status = "SUBMITTED" THEN withdrawRunning ELSE UNCHANGED <<version, engineVars>>
  /\ UNCHANGED <<po, ordered, selfAuthorized, editing, overtaken>>

\* Only RUNNING instances are withdrawn; an ESCALATED one is not.
cancelRequisition ==
  /\ status \in {"DRAFT", "SUBMITTED"}
  /\ ~po
  /\ status' = "CANCELLED"
  /\ withdrawRunning
  /\ UNCHANGED <<po, ordered, selfAuthorized, editing, overtaken>>

holdRequisition ==
  /\ assertPrTransition(status, "ON_HOLD")
  /\ status' = "ON_HOLD"
  /\ UNCHANGED <<version, engineVars, po, ordered, selfAuthorized, editing, overtaken>>

\* releaseRequisition resumes at APPROVED only when the latest instance is
\* 'COMPLETED', which no instance ever is.
LatestInstance ==
  {i \in Instances : /\ inst[i].status # "NONE"
                     /\ \A j \in Instances : j > i => inst[j].status = "NONE"}

ResumeTo ==
  IF po THEN IF ordered THEN "FULLY_CONVERTED" ELSE "PARTIALLY_CONVERTED"
  ELSE IF \E i \in LatestInstance : inst[i].status = "COMPLETED"
       THEN "APPROVED" ELSE "SUBMITTED"

releaseRequisition ==
  /\ status = "ON_HOLD"
  /\ assertPrTransition(status, ResumeTo)
  /\ status' = ResumeTo
  /\ UNCHANGED <<version, engineVars, po, ordered, selfAuthorized, editing, overtaken>>

\* Mutant: a submitted requisition can be converted.
convertRequisition_Submitted ==
  /\ status \in {"SUBMITTED", "APPROVED"}
  /\ ~ordered
  /\ po' = TRUE
  /\ ordered' = TRUE
  /\ status' = "FULLY_CONVERTED"
  /\ UNCHANGED <<version, engineVars, selfAuthorized, editing, overtaken>>

\* convertRequisition orders every outstanding line.
convertRequisition ==
  /\ status = "APPROVED"
  /\ ~ordered
  /\ po' = TRUE
  /\ ordered' = TRUE
  /\ status' = "FULLY_CONVERTED"
  /\ UNCHANGED <<version, engineVars, selfAuthorized, editing, overtaken>>

\* POST /orders takes a requisitionId and does not look at the requisition.
createPurchaseOrder ==
  /\ po' = TRUE
  /\ UNCHANGED <<vars, ordered, selfAuthorized, editing, overtaken>>

ReqInit ==
  /\ Init
  /\ po = FALSE /\ ordered = FALSE /\ selfAuthorized = FALSE /\ editing = FALSE
  /\ overtaken = {}

reqEngineStep ==
  /\ decide \/ escalation \/ delegationChange
  /\ UNCHANGED <<po, ordered, selfAuthorized, editing, overtaken>>

ReqNext ==
  \/ submitRequisition \/ updateRead \/ updateWrite \/ patchRequisition
  \/ reopenRequisition \/ cancelRequisition \/ holdRequisition
  \/ releaseRequisition \/ convertRequisition \/ createPurchaseOrder
  \/ reqEngineStep

ReqSpec == ReqInit /\ [][ReqNext]_reqVars

-----------------------------------------------------------------------------
(* Properties *)

\* Shape of the purchase_requisitions row; its status passes the CHECK of the
\* table over every route through submit, hold, release, cancel and convert.
ReqTypeOK ==
  /\ TypeOK
  /\ {po, ordered, selfAuthorized, editing} \subseteq BOOLEAN
  /\ overtaken \subseteq Instances

\* convertRequisition, releaseRequisition: a requisition is APPROVED and its
\* lines are ordered only on the strength of a complete chain of distinct
\* approvers or of a final authority's own submission, over every route it can
\* take through hold, release, cancel, reopen and edit.
ChainComplete(i) ==
  /\ inst[i].status # "NONE"
  /\ \A s \in Applicable(inst[i].amount) : task[i][s].status = "APPROVED"

ConversionBacked ==
  ordered \/ status = "APPROVED" =>
    selfAuthorized \/ \E i \in Instances : ChainComplete(i)

\* PATCH /:id: "A material edit after submission invalidates any standing
\* approval: the approver signed a snapshot that no longer matches this
\* document".  A chain that stands until its last signature approves the content
\* it was opened for, over every edit, hold, release, reopening, resubmission
\* and escalation in between.  An update that saw DRAFT before the submission
\* and is written after it does not invalidate: the chains it overtakes are the
\* only ones excepted.
ApprovedAsSubmitted ==
  [][\A i \in Instances :
       inst[i].status \in LiveInstance /\ inst'[i].status \in FullySigned =>
         (inst[i].hash = version /\ version' = version) \/ i \in overtaken]_reqVars

\* cancelRequisition: "Pending approvals are withdrawn": no chain keeps running
\* for a cancelled requisition, whatever was resubmitted, held or edited before
\* (an ESCALATED chain is not withdrawn and is left out).
CancelStopsChains ==
  status = "CANCELLED" => \A i \in Instances : inst[i].status # "RUNNING"
=============================================================================
