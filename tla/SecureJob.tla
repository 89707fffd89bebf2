----------------------------- MODULE SecureJob ------------------------------
(***************************************************************************)
(* A security printing job (apps/api/src/services/securityPrinting.ts):    *)
(* two-stage approval, issue of materials, production, quality control,    *)
(* reconciliation, packing, dispatch, and hold/resume across all of them.  *)
(* Every operation locks the job row (getSecureJob ... FOR UPDATE), so     *)
(* each is one step.  Left out: custody events, QR codes and the inventory *)
(* value journal (write only), waste and rework quantities (no guard reads *)
(* them), the level of the material store (an issue that is refused for    *)
(* want of stock is a step not taken), and who the two parties of a        *)
(* reconciliation are (one of them can always resolve it).                 *)
(***************************************************************************)
EXTENDS Integers, Sequences

CONSTANTS
  Users,
  Approvers,       \* holders of secure_job_approver
  Delegates,       \* users with an active delegation of that role
  FinalAuthority,  \* holders of one of SELF_AUTHORIZE_ROLES
  NoUser,
  Requirements,    \* the job's material lines
  Required,        \* [Requirements -> quantity_required]
  Planned,         \* quantity_planned
  MaxBatches,      \* bound on production runs
  MaxRecs          \* bound on reconciliations

ASSUME SecureAssumption ==
  /\ Approvers \subseteq Users /\ Delegates \subseteq Users
  /\ FinalAuthority \subseteq Users
  /\ NoUser \notin Users
  /\ Requirements # {} /\ Required \in [Requirements -> Nat \ {0}]
  /\ Planned \in Nat \ {0} /\ MaxBatches \in Nat /\ MaxRecs \in Nat

VARIABLES
  job,      \* the row of security_jobs, and whether a machine is assigned
  auth,     \* [Requirements -> quantity_authorized]
  issued,   \* [Requirements -> quantity_issued]
  task,     \* the open or decided approval task of each stage of WF-SEC
  batches,  \* secure_batches with the stock of their product batch
  recs      \* statuses of the secure_reconciliations

secureVars == <<job, auth, issued, task, batches, recs>>

RESUME_TARGETS ==
  {"APPROVED", "MATERIALS_AUTHORIZED", "MATERIALS_ISSUED", "IN_PRODUCTION",
   "QC", "RECONCILIATION", "PACKAGING", "IN_SECURE_STORAGE"}

\* Mutant: anything not yet delivered may be held.
HOLDABLE_STATUSES_Dispatched == RESUME_TARGETS \cup {"DISPATCHED"}

\* The source lists the same eight twice.
HOLDABLE_STATUSES == RESUME_TARGETS

ASSIGNABLE_STATUSES == {"APPROVED", "MATERIALS_AUTHORIZED", "MATERIALS_ISSUED"}
JobStatuses == RESUME_TARGETS \cup
  {"DRAFT", "SUBMITTED", "DISPATCHED", "DELIVERED", "ON_HOLD", "REJECTED",
   "CANCELLED"}

Verdicts == {"PASSED", "FAILED", "QUARANTINED"}

Batch == [good : 0..Planned, spoiled : 0..Planned, binned : BOOLEAN,
          qc : Verdicts \cup {"PENDING"}, stock : 0..Planned]

RecStatuses == {"IN_VESTIGATION", "RECONCILED", "CLOSED"}

Person == Users \cup {NoUser}

\* assignee: the user an open task was delegated to; NoUser: it is the role's.
Task == [status : {"NONE", "PENDING", "APPROVED", "REJECTED"}, by : Person,
         assignee : Person]

taskRow(status, u) == [status |-> status, by |-> u, assignee |-> NoUser]

-----------------------------------------------------------------------------
(* Creation, submission, approval *)

\* createSecureJob.  The operators are named here and nowhere else
\* (assignSecureOperator only records custody by one of them); a call that
\* names machines is refused, a DRAFT job being not ASSIGNABLE.
SecureInit ==
  /\ \E u \in Users, o \in BOOLEAN :
       job = [status |-> "DRAFT", requestedBy |-> u, approvedBy |-> NoUser,
              authorizedBy |-> NoUser, operator |-> o, machine |-> FALSE,
              produced |-> 0, dispatched |-> 0]
  /\ auth = [r \in Requirements |-> 0]
  /\ issued = [r \in Requirements |-> 0]
  /\ task = [s \in 1..2 |-> taskRow("NONE", NoUser)]
  /\ batches = <<>>
  /\ recs = <<>>

\* A final authority's submission is authorised in the same transaction and
\* opens no chain (selfAuthorizeSecureJob).
selfAuthorizeSecureJob(u) ==
  /\ job' = [job EXCEPT !.status = "MATERIALS_AUTHORIZED",
                        !.approvedBy = u, !.authorizedBy = u]
  /\ auth' = Required
  /\ UNCHANGED task

submitSecureJob(u) ==
  /\ job.status = "DRAFT"
  /\ IF u \in FinalAuthority
     THEN selfAuthorizeSecureJob(u)
     ELSE /\ job' = [job EXCEPT !.status = "SUBMITTED"]
          /\ task' = [s \in 1..2 |-> taskRow("PENDING", NoUser)]
          /\ UNCHANGED auth
  /\ UNCHANGED <<issued, batches, recs>>

\* Whose task it is: the user it was delegated to, or else the holders of the
\* role and those who act for one under a delegation.
addressed(u, s) ==
  /\ task[s].status = "PENDING"
  /\ \/ task[s].assignee = u
     \/ task[s].assignee = NoUser /\ u \in Approvers \cup Delegates

\* decideTask's own rules: the stages in order and one person per chain.  Its
\* refusal of the owner does not apply: security_printing.jobs has no
\* ownerColumn (entities.ts), so the requester may reject.
decidable(u, s) ==
  /\ addressed(u, s)
  /\ \A r \in 1..2 : r < s => task[r].status # "PENDING" /\ task[r].by # u

\* The DELEGATED decision, which neither rule above restrains.  The decided
\* row is not read again; the task of the stage is the new one.
delegateTask(u, s, d) ==
  /\ addressed(u, s)
  /\ task' = [task EXCEPT ![s].assignee = d]
  /\ UNCHANGED <<job, auth, issued, batches, recs>>

\* handleSecureJobTaskApproved asks for the role itself, whoever the task was
\* delegated to.
approveJob(u) ==
  /\ decidable(u, 1) /\ u \in Approvers
  /\ job.status = "SUBMITTED"
  /\ job.requestedBy # u
  /\ job' = [job EXCEPT !.status = "APPROVED", !.approvedBy = u]
  /\ task' = [task EXCEPT ![1] = taskRow("APPROVED", u)]
  /\ UNCHANGED <<auth, issued, batches, recs>>

authorizeMaterials(u) ==
  /\ decidable(u, 2) /\ u \in Approvers
  /\ job.status = "APPROVED"
  /\ job.approvedBy \notin {NoUser, u}
  /\ job' = [job EXCEPT !.status = "MATERIALS_AUTHORIZED", !.authorizedBy = u]
  /\ auth' = Required
  /\ task' = [task EXCEPT ![2] = taskRow("APPROVED", u)]
  /\ UNCHANGED <<issued, batches, recs>>

closeTasks(u, s) ==
  [r \in 1..2 |-> IF r = s THEN taskRow("REJECTED", u)
                  ELSE IF task[r].status = "PENDING"
                       THEN taskRow("REJECTED", NoUser)
                       ELSE task[r]]

\* rejectWorkflow writes REJECTED over whatever status the job has.
rejectJob(u, s) ==
  /\ decidable(u, s)
  /\ job' = [job EXCEPT !.status = "REJECTED"]
  /\ task' = closeTasks(u, s)
  /\ UNCHANGED <<auth, issued, batches, recs>>

-----------------------------------------------------------------------------
(* Materials, machine, production *)

\* Mutant: the line is compared with what was authorised, not what is left.
lineAllowed_Authorized(q, r) == q <= Required[r]

\* Mutant: what an earlier issue took is forgotten.
lineAllowed_Total(q, r) == q <= auth[r]

lineAllowed(q, r) == q <= auth[r] - issued[r]

\* Quantities of the lines of one call; 0: no line for the requirement.  All
\* that is authorised must be out when the call ends, or it is rolled back.
issueSecureMaterials(user, verifiedBy) ==
  /\ job.status = "MATERIALS_AUTHORIZED"
  /\ verifiedBy # user
  /\ \E q \in [Requirements -> UNION {0..Required[r] : r \in Requirements}] :
       /\ \E r \in Requirements : q[r] > 0
       /\ \A r \in Requirements : q[r] > 0 => lineAllowed(q[r], r)
       /\ \A r \in Requirements : issued[r] + q[r] >= auth[r]
       /\ issued' = [r \in Requirements |-> issued[r] + q[r]]
  /\ job' = [job EXCEPT !.status = "MATERIALS_ISSUED"]
  /\ UNCHANGED <<auth, task, batches, recs>>

assignSecureMachine ==
  /\ job.status \in ASSIGNABLE_STATUSES
  /\ job' = [job EXCEPT !.machine = TRUE]
  /\ UNCHANGED <<auth, issued, task, batches, recs>>

startSecureProduction ==
  /\ job.status = "MATERIALS_ISSUED"
  /\ job.machine /\ job.operator
  /\ job' = [job EXCEPT !.status = "IN_PRODUCTION"]
  /\ UNCHANGED <<auth, issued, task, batches, recs>>

\* The good output is received into the product batch, at the store's first
\* bin when the store has bins; the spoiled output is scrapped out of the same
\* batch, which post_inventory_move refuses below zero.
completeSecureProduction(good, spoiled, binned) ==
  /\ job.status = "IN_PRODUCTION"
  /\ good + spoiled <= Planned
  /\ spoiled <= good
  /\ Len(batches) < MaxBatches
  /\ batches' = Append(batches, [good |-> good, spoiled |-> spoiled,
                  binned |-> binned, qc |-> "PENDING", stock |-> good - spoiled])
  /\ job' = [job EXCEPT !.status = "QC", !.produced = @ + good]
  /\ UNCHANGED <<auth, issued, task, recs>>

-----------------------------------------------------------------------------
(* Quality control, reconciliation *)

judged(b, result) == IF b.qc = "PENDING" THEN [b EXCEPT !.qc = result] ELSE b

\* A verdict is accepted when the job has a batch, PENDING or not.
qcSecureJob(result) ==
  /\ job.status = "QC"
  /\ batches # <<>>
  /\ batches' = [k \in DOMAIN batches |-> judged(batches[k], result)]
  /\ job' = [job EXCEPT !.status = CASE result = "PASSED" -> "RECONCILIATION"
                                     [] result = "FAILED" -> "ON_HOLD"
                                     [] result = "QUARANTINED" -> "QC"]
  /\ UNCHANGED <<auth, issued, task, recs>>

\* The quantities are typed in, so any variance may result.
reconcileSecureJob(user, second) ==
  /\ job.status = "RECONCILIATION"
  /\ second # user
  /\ Len(recs) < MaxRecs
  /\ \E s \in {"RECONCILED", "IN_VESTIGATION"} : recs' = Append(recs, s)
  /\ UNCHANGED <<job, auth, issued, task, batches>>

\* In any status of the job, by one of the two who reconciled with any other
\* user as second checker; an unresolved answer leaves the row as it is.
resolveSecureReconciliation(user, second, k) ==
  /\ recs[k] = "IN_VESTIGATION"
  /\ second # user
  /\ recs' = [recs EXCEPT ![k] = "CLOSED"]
  /\ UNCHANGED <<job, auth, issued, task, batches>>

-----------------------------------------------------------------------------
(* Packing, dispatch, delivery *)

packageSecureJob ==
  /\ job.status = "RECONCILIATION"
  /\ \A k \in DOMAIN recs : recs[k] # "IN_VESTIGATION"
  /\ job' = [job EXCEPT !.status = "PACKAGING"]
  /\ UNCHANGED <<auth, issued, task, batches, recs>>

secureStorageSecureJob ==
  /\ job.status = "PACKAGING"
  /\ job' = [job EXCEPT !.status = "IN_SECURE_STORAGE"]
  /\ UNCHANGED <<auth, issued, task, batches, recs>>

\* post_inventory_move for an outgoing move that names no bin: it finds only
\* stock that was received without one.
movable(b) == b.good > 0 /\ b.stock >= b.good /\ ~b.binned

\* Mutant: every batch that was not failed goes out.
leaving_NotFailed == {k \in DOMAIN batches : batches[k].qc # "FAILED"}

leaving == {k \in DOMAIN batches : batches[k].qc = "PASSED"}

\* One move per PASSED batch; one refusal rolls the dispatch back.
dispatchSecureJob ==
  /\ job.status = "IN_SECURE_STORAGE"
  /\ leaving # {}
  /\ \A k \in leaving : movable(batches[k])
  /\ batches' = [k \in DOMAIN batches |->
                   IF k \in leaving
                   THEN [batches[k] EXCEPT !.stock = @ - batches[k].good]
                   ELSE batches[k]]
  /\ job' = [job EXCEPT !.status = "DISPATCHED", !.dispatched = job.produced]
  /\ UNCHANGED <<auth, issued, task, recs>>

deliverSecureJob ==
  /\ job.status = "DISPATCHED"
  /\ job' = [job EXCEPT !.status = "DELIVERED"]
  /\ UNCHANGED <<auth, issued, task, batches, recs>>

-----------------------------------------------------------------------------
(* Hold, resume, cancel *)

holdSecureJob ==
  /\ job.status \in HOLDABLE_STATUSES
  /\ job' = [job EXCEPT !.status = "ON_HOLD"]
  /\ UNCHANGED <<auth, issued, task, batches, recs>>

\* The caller names the status the job resumes at.
resumeSecureJob(toStatus) ==
  /\ job.status = "ON_HOLD"
  /\ job' = [job EXCEPT !.status = toStatus]
  /\ UNCHANGED <<auth, issued, task, batches, recs>>

\* The approval chain is left as it is.
cancelSecureJob ==
  /\ job.status \in {"DRAFT", "SUBMITTED", "ON_HOLD"}
  /\ job' = [job EXCEPT !.status = "CANCELLED"]
  /\ UNCHANGED <<auth, issued, task, batches, recs>>

-----------------------------------------------------------------------------
approval ==
  \E u \in Users :
    \/ submitSecureJob(u)
    \/ approveJob(u)
    \/ authorizeMaterials(u)
    \/ \E s \in 1..2 : rejectJob(u, s) \/ \E d \in Users : delegateTask(u, s, d)

production ==
  \/ \E u, v \in Users : issueSecureMaterials(u, v)
  \/ assignSecureMachine
  \/ startSecureProduction
  \/ \E g, s \in 0..Planned, b \in BOOLEAN : completeSecureProduction(g, s, b)

control ==
  \/ \E r \in Verdicts : qcSecureJob(r)
  \/ \E u, v \in Users : reconcileSecureJob(u, v)
  \/ \E u, v \in Users, k \in DOMAIN recs : resolveSecureReconciliation(u, v, k)

release ==
  \/ packageSecureJob \/ secureStorageSecureJob
  \/ dispatchSecureJob \/ deliverSecureJob

suspension ==
  \/ holdSecureJob
  \/ \E t \in RESUME_TARGETS : resumeSecureJob(t)
  \/ cancelSecureJob

SecureNext == approval \/ production \/ control \/ release \/ suspension

SecureSpec == SecureInit /\ [][SecureNext]_secureVars

-----------------------------------------------------------------------------
(* Properties *)

\* The rows have their types; quantity_produced is what the batches hold.
SecureTypeOK ==
  /\ job \in [status : JobStatuses, requestedBy : Users, approvedBy : Person,
              authorizedBy : Person, operator : BOOLEAN, machine : BOOLEAN,
              produced : 0..(MaxBatches * Planned),
              dispatched : 0..(MaxBatches * Planned)]
  /\ auth \in [Requirements -> Nat] /\ issued \in [Requirements -> Nat]
  /\ task \in [1..2 -> Task]
  /\ batches \in Seq(Batch) /\ recs \in Seq(RecStatuses)

\* Material leaves the store only under dual control, whatever statuses a job
\* is resumed at: the approver is not the requester and the authoriser is not
\* the approver, or one final authority signed for both
\* (handleSecureJobTaskApproved, selfAuthorizeSecureJob, issueSecureMaterials).
MaterialsUnderDualControl ==
  (\E r \in Requirements : issued[r] > 0) =>
    /\ job.approvedBy # NoUser /\ job.authorizedBy # NoUser
    /\ \/ job.approvedBy \notin {job.requestedBy, job.authorizedBy}
       \/ job.approvedBy = job.authorizedBy /\ job.approvedBy \in FinalAuthority

\* Over any number of holds and resumes the materials are issued in full and
\* once: nothing is out, or exactly the required quantities
\* (the remaining-quantity and fully-issued checks of issueSecureMaterials).
IssuedInFullOnce ==
  issued = [r \in Requirements |-> 0] \/ issued = Required

\* What leaves the store is every PASSED batch of a dispatched job and nothing
\* else; a batch that failed, is quarantined or was never judged stays in
\* stock even when its job is packed and dispatched (dispatchSecureJob).
OnlyPassedLeaves ==
  \A k \in DOMAIN batches :
    batches[k].stock = IF job.dispatched > 0 /\ batches[k].qc = "PASSED"
                       THEN 0 ELSE batches[k].good - batches[k].spoiled

\* Once a job is dispatched, delivered or cancelled, only a rejection of an
\* approval task that was left open can take it elsewhere, and such a task is
\* open only on a job that was cancelled while SUBMITTED or resumed past the
\* authorisation of its materials (rejectWorkflow, cancelSecureJob,
\* resumeSecureJob).
EndedUnlessTaskLeftOpen ==
  [][job.status \in {"DISPATCHED", "DELIVERED", "CANCELLED", "REJECTED"} =>
       \/ job'.status = job.status
       \/ job.status = "DISPATCHED" /\ job'.status = "DELIVERED"
       \/ /\ job'.status = "REJECTED"
          /\ job.authorizedBy = NoUser
          /\ task[2].status = "PENDING"]_secureVars
=============================================================================
