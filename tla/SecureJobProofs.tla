-------------------------- MODULE SecureJobProofs ---------------------------
(***************************************************************************)
(* Proofs about a security printing job, for any people, material lines,   *)
(* quantities, number of production runs and reconciliations.              *)
(***************************************************************************)
EXTENDS SecureJob, TLAPS

None == [r \in Requirements |-> 0]

\* A row of security_jobs.
JobRow ==
  [status : JobStatuses, requestedBy : Users, approvedBy : Person,
   authorizedBy : Person, operator : BOOLEAN, machine : BOOLEAN,
   produced : 0..(MaxBatches * Planned), dispatched : 0..(MaxBatches * Planned)]

\* Statuses no operation of securityPrinting.ts leaves except by delivery.
Ended == {"DISPATCHED", "DELIVERED", "CANCELLED", "REJECTED"}

\* Who signed for materials: approver and authoriser differ from each other
\* and from the requester in turn, or one final authority signed for both.
Dual ==
  /\ job.approvedBy # NoUser /\ job.authorizedBy # NoUser
  /\ \/ job.approvedBy \notin {job.requestedBy, job.authorizedBy}
     \/ job.approvedBy = job.authorizedBy /\ job.approvedBy \in FinalAuthority

\* The inductive invariant of the approval half: a status says nothing (a job
\* is resumed anywhere), so everything hangs on auth, the signatures and the
\* tasks.
SignatureInv ==
  /\ auth = None \/ (auth = Required /\ Dual)
  /\ issued = None \/ (issued = Required /\ auth = Required)
  /\ job.status \in {"DRAFT", "SUBMITTED"} =>
       auth = None /\ job.approvedBy = NoUser /\ job.authorizedBy = NoUser
  /\ job.status = "DRAFT" => task[1].status = "NONE" /\ task[2].status = "NONE"
  /\ task[1].status = "PENDING" => task[2].status = "PENDING"
  /\ task[2].status = "PENDING" => auth = None /\ job.authorizedBy = NoUser
  /\ job.approvedBy # NoUser /\ auth = None => job.approvedBy # job.requestedBy

\* The inductive invariant of the production half.
StockInv ==
  /\ job.dispatched > 0 => job.status \in Ended
  /\ \A k \in DOMAIN batches : batches[k].good <= job.produced
  /\ OnlyPassedLeaves

\* quantity_produced is bounded by the runs made.
BoundInv ==
  /\ Len(batches) <= MaxBatches
  /\ job.produced <= Len(batches) * Planned

SecureInv == SecureTypeOK /\ BoundInv /\ SignatureInv /\ StockInv

-----------------------------------------------------------------------------
(* Quantities *)

\* No material line asks for nothing, so authorised and unauthorised differ.
LEMMA RequiredIsSome == None # Required /\ \A r \in Requirements : None[r] # Required[r]
  BY SecureAssumption DEF None

\* One more run of at most Planned stays within one more times Planned.
LEMMA OneMoreRun ==
  ASSUME NEW n \in Nat, NEW p \in Nat, NEW g \in 0..Planned,
         p <= n * Planned, n + 1 <= MaxBatches
  PROVE  /\ p + g <= (n + 1) * Planned
         /\ p + g <= MaxBatches * Planned
<1>1. Planned \in Nat /\ MaxBatches \in Nat
  BY SecureAssumption
<1>2. (n + 1) * Planned = n * Planned + Planned
  BY <1>1
<1>3. (n + 1) * Planned <= MaxBatches * Planned
  <2>1. PICK d \in Nat : MaxBatches = (n + 1) + d
    <3>1. MaxBatches - (n + 1) \in Nat
      BY <1>1
    <3> QED
      BY <1>1, <3>1
  <2>2. MaxBatches * Planned = (n + 1) * Planned + d * Planned
    BY <1>1, <2>1
  <2>3. d * Planned \in Nat /\ (n + 1) * Planned \in Nat
    BY <1>1
  <2> QED
    BY <2>2, <2>3
<1>4. n * Planned \in Nat
  BY <1>1
<1> QED
  BY <1>1, <1>2, <1>3, <1>4

\* A function over the positions of a sequence, with values in S, is again a
\* sequence of that length: qcSecureJob and dispatchSecureJob update all the
\* batches of a job at once.
LEMMA RowByRow ==
  ASSUME NEW S, NEW n \in Nat, NEW t \in [1..n -> S]
  PROVE  t \in Seq(S) /\ Len(t) = n /\ DOMAIN t = 1..n
  OBVIOUS

-----------------------------------------------------------------------------
(* Initial state *)

\* createSecureJob: nothing is signed, authorised, issued or produced.
LEMMA SecureInitInv == SecureInit => SecureInv
<1> SUFFICES ASSUME SecureInit PROVE SecureInv
  OBVIOUS
<1>1. 0 * Planned = 0 /\ MaxBatches * Planned \in Nat
  BY SecureAssumption
<1>2. SecureTypeOK
  BY <1>1, SecureAssumption
     DEF SecureInit, SecureTypeOK, JobStatuses, Person, Batch, RecStatuses,
         taskRow, Task
<1>3. BoundInv
  BY <1>1, SecureAssumption DEF SecureInit, BoundInv
<1>4. SignatureInv
  BY RequiredIsSome DEF SecureInit, SignatureInv, None, taskRow
<1>5. StockInv
  BY DEF SecureInit, StockInv, OnlyPassedLeaves
<1> QED
  BY <1>2, <1>3, <1>4, <1>5 DEF SecureInv
-----------------------------------------------------------------------------
(* What the operations have in common *)

\* A step that only moves the job on: its status (never back to DRAFT or
\* SUBMITTED), its machine, or nothing of it.
movesOn ==
  /\ job' \in JobRow /\ job'.status \notin {"DRAFT", "SUBMITTED"}
  /\ job'.requestedBy = job.requestedBy /\ job'.operator = job.operator
  /\ job'.approvedBy = job.approvedBy /\ job'.authorizedBy = job.authorizedBy
  /\ job'.produced = job.produced /\ job'.dispatched = job.dispatched
  /\ UNCHANGED <<auth, issued, task, batches>>
  /\ recs' \in Seq(RecStatuses)

\* The operations after authorisation that touch neither signatures nor stock
\* all move a job on, each from a status that is not an end, or deliver it.
LEMMA RoutineOperations ==
  ASSUME SecureTypeOK,
         \/ assignSecureMachine \/ startSecureProduction
         \/ packageSecureJob \/ secureStorageSecureJob \/ deliverSecureJob
         \/ suspension
  PROVE  /\ movesOn
         /\ \/ job.status \notin Ended
            \/ job.status = "DISPATCHED" /\ job'.status = "DELIVERED"
<1> USE DEF SecureTypeOK, movesOn, JobRow, JobStatuses, RESUME_TARGETS, Ended
<1>1. CASE assignSecureMachine
  BY <1>1 DEF assignSecureMachine, ASSIGNABLE_STATUSES
<1>2. CASE startSecureProduction
  BY <1>2 DEF startSecureProduction
<1>3. CASE packageSecureJob
  BY <1>3 DEF packageSecureJob
<1>4. CASE secureStorageSecureJob
  BY <1>4 DEF secureStorageSecureJob
<1>5. CASE deliverSecureJob
  BY <1>5 DEF deliverSecureJob
<1>6. CASE suspension
  BY <1>6 DEF suspension, holdSecureJob, resumeSecureJob, cancelSecureJob,
              HOLDABLE_STATUSES
<1> QED
  BY <1>1, <1>2, <1>3, <1>4, <1>5, <1>6

\* Reconciling and resolving write the secure_reconciliations only.
LEMMA ReconcilingOperations ==
  ASSUME SecureTypeOK, NEW u \in Users, NEW v \in Users,
         \/ reconcileSecureJob(u, v)
         \/ \E k \in DOMAIN recs : resolveSecureReconciliation(u, v, k)
  PROVE  UNCHANGED <<job, auth, issued, task, batches>> /\ recs' \in Seq(RecStatuses)
<1>1. CASE reconcileSecureJob(u, v)
  BY <1>1 DEF reconcileSecureJob, SecureTypeOK, RecStatuses
<1>2. ASSUME NEW k \in DOMAIN recs, resolveSecureReconciliation(u, v, k)
      PROVE  UNCHANGED <<job, auth, issued, task, batches>> /\ recs' \in Seq(RecStatuses)
  BY <1>2 DEF resolveSecureReconciliation, SecureTypeOK, RecStatuses
<1> QED
  BY <1>1, <1>2

\* Delegating a stage changes whose task it is and nothing else.
LEMMA DelegatingOperation ==
  ASSUME SecureTypeOK, NEW u \in Users, NEW st \in 1..2, NEW d \in Users,
         delegateTask(u, st, d)
  PROVE  /\ UNCHANGED <<job, auth, issued, batches, recs>>
         /\ task' \in [1..2 -> Task]
         /\ \A w \in 1..2 : task'[w].status = task[w].status
  BY DEF delegateTask, SecureTypeOK, Task, Person

-----------------------------------------------------------------------------
(* Types and bounds *)

\* Every operation keeps the columns inside their CHECKs and quantity_produced
\* inside the runs made.
LEMMA StepType ==
  ASSUME SecureTypeOK, BoundInv, SecureNext
  PROVE  SecureTypeOK' /\ BoundInv'
<1> USE DEF JobRow
<1>0. /\ Required \in [Requirements -> Nat] /\ Planned \in Nat
      /\ NoUser \in Person /\ Users \subseteq Person
  BY SecureAssumption DEF Person
<1>1. ASSUME movesOn PROVE SecureTypeOK' /\ BoundInv'
  BY <1>1 DEF movesOn, SecureTypeOK, BoundInv
<1>2. CASE approval
  <2> PICK u \in Users :
        \/ submitSecureJob(u) \/ approveJob(u) \/ authorizeMaterials(u)
        \/ \E st \in 1..2 : rejectJob(u, st)
        \/ \E st \in 1..2, d \in Users : delegateTask(u, st, d)
    BY <1>2 DEF approval
  <2> USE DEF SecureTypeOK, BoundInv, JobStatuses, RESUME_TARGETS
  <2>1. CASE submitSecureJob(u)
    <3>1. CASE u \in FinalAuthority
      <4>1. /\ job' = [job EXCEPT !.status = "MATERIALS_AUTHORIZED",
                                  !.approvedBy = u, !.authorizedBy = u]
            /\ auth' = Required /\ UNCHANGED <<task, issued, batches, recs>>
        BY <2>1, <3>1 DEF submitSecureJob, selfAuthorizeSecureJob
      <4>2. job' \in JobRow /\ job'.produced = job.produced
        BY <1>0, <4>1
      <4>3. BoundInv'
        BY <4>1, <4>2
      <4>4. auth' \in [Requirements -> Nat]
        BY <1>0, <4>1
      <4> QED
        BY <4>1, <4>2, <4>3, <4>4
    <3>2. CASE u \notin FinalAuthority
      <4>1. /\ job' = [job EXCEPT !.status = "SUBMITTED"]
            /\ task' = [w \in 1..2 |-> taskRow("PENDING", NoUser)]
            /\ UNCHANGED <<auth, issued, batches, recs>>
        BY <2>1, <3>2 DEF submitSecureJob
      <4>2. job' \in JobRow /\ job'.produced = job.produced
        BY <4>1
      <4>3. task' \in [1..2 -> Task]
        BY <1>0, <4>1 DEF taskRow, Task
      <4> QED
        BY <4>1, <4>2, <4>3
    <3> QED
      BY <3>1, <3>2
  <2>2. CASE approveJob(u)
    BY <1>0, <2>2 DEF approveJob, taskRow, Task
  <2>3. CASE authorizeMaterials(u)
    BY <1>0, <2>3 DEF authorizeMaterials, taskRow, Task
  <2>4. ASSUME NEW st \in 1..2, rejectJob(u, st) PROVE SecureTypeOK' /\ BoundInv'
    <3>1. closeTasks(u, st) \in [1..2 -> Task]
      BY <1>0 DEF closeTasks, taskRow, Task
    <3> QED
      BY <3>1, <2>4 DEF rejectJob
  <2>5. ASSUME NEW st \in 1..2, NEW d \in Users, delegateTask(u, st, d)
        PROVE  SecureTypeOK' /\ BoundInv'
    BY <2>5, DelegatingOperation
  <2> QED
    BY <2>1, <2>2, <2>3, <2>4, <2>5
<1>3. CASE production
  <2>1. ASSUME NEW u \in Users, NEW v \in Users, issueSecureMaterials(u, v)
        PROVE  SecureTypeOK' /\ BoundInv'
    <3>1. UNION {0..Required[r] : r \in Requirements} \subseteq Nat
      BY <1>0
    <3>2. issued' \in [Requirements -> Nat]
      <4>1. PICK q \in [Requirements -> Nat] :
              issued' = [r \in Requirements |-> issued[r] + q[r]]
        BY <2>1, <3>1 DEF issueSecureMaterials
      <4> QED
        BY <4>1 DEF SecureTypeOK
    <3> QED
      BY <2>1, <3>2
         DEF issueSecureMaterials, SecureTypeOK, BoundInv, JobStatuses, RESUME_TARGETS
  <2>2. ASSUME NEW g \in 0..Planned, NEW x \in 0..Planned, NEW b \in BOOLEAN,
               completeSecureProduction(g, x, b)
        PROVE  SecureTypeOK' /\ BoundInv'
    <3>1. Len(batches) \in Nat /\ job.produced \in Nat
      BY DEF SecureTypeOK
    <3>2. /\ job.produced + g <= (Len(batches) + 1) * Planned
          /\ job.produced + g <= MaxBatches * Planned
      <4>1. job.produced <= Len(batches) * Planned /\ Len(batches) + 1 <= MaxBatches
        BY <2>2, <3>1, SecureAssumption DEF completeSecureProduction, BoundInv
      <4> QED
        BY <3>1, <4>1, OneMoreRun
    <3>3. [good |-> g, spoiled |-> x, binned |-> b, qc |-> "PENDING",
           stock |-> g - x] \in Batch
      BY <1>0, <2>2 DEF completeSecureProduction, Batch
    <3>4. batches' \in Seq(Batch) /\ Len(batches') = Len(batches) + 1
      BY <2>2, <3>3 DEF completeSecureProduction, SecureTypeOK
    <3>5. job' \in JobRow /\ job'.produced = job.produced + g
      <4>1. job.produced + g \in 0..(MaxBatches * Planned)
        BY <3>1, <3>2, SecureAssumption
      <4>2. "QC" \in JobStatuses
        BY DEF JobStatuses, RESUME_TARGETS
      <4> QED
        BY <2>2, <4>1, <4>2 DEF completeSecureProduction, SecureTypeOK
    <3>6. Len(batches) + 1 <= MaxBatches
      BY <2>2, <3>1, SecureAssumption DEF completeSecureProduction
    <3> QED
      BY <2>2, <3>2, <3>4, <3>5, <3>6 DEF completeSecureProduction, SecureTypeOK, BoundInv
  <2> QED
    BY <1>1, <1>3, <2>1, <2>2, RoutineOperations DEF production
<1>4. CASE control
  <2>1. ASSUME NEW v \in Verdicts, qcSecureJob(v) PROVE SecureTypeOK' /\ BoundInv'
    <3>1. ASSUME NEW k \in 1..Len(batches) PROVE judged(batches[k], v) \in Batch
      <4>1. batches[k] \in Batch
        BY DEF SecureTypeOK
      <4> QED
        BY <4>1 DEF judged, Batch
    <3>2. batches' \in Seq(Batch) /\ Len(batches') = Len(batches)
      <4>1. batches' \in [1..Len(batches) -> Batch] /\ Len(batches) \in Nat
        BY <2>1, <3>1 DEF qcSecureJob, SecureTypeOK
      <4> QED
        BY <4>1, RowByRow
    <3>3. job' \in JobRow /\ job'.produced = job.produced
      BY <2>1 DEF qcSecureJob, SecureTypeOK, Verdicts, JobStatuses, RESUME_TARGETS
    <3> QED
      BY <2>1, <3>2, <3>3 DEF qcSecureJob, SecureTypeOK, BoundInv
  <2> QED
    BY <1>4, <2>1, ReconcilingOperations DEF control, SecureTypeOK, BoundInv
<1>5. CASE dispatchSecureJob
  <2>1. ASSUME NEW k \in 1..Len(batches)
        PROVE  /\ batches[k] \in Batch
               /\ k \in leaving =>
                    [batches[k] EXCEPT !.stock = @ - batches[k].good] \in Batch
    <3>1. batches[k] \in Batch
      BY DEF SecureTypeOK
    <3>2. k \in leaving => batches[k].stock - batches[k].good \in 0..Planned
      BY <1>0, <1>5, <3>1 DEF dispatchSecureJob, movable, Batch
    <3> QED
      BY <3>1, <3>2 DEF Batch
  <2>2. batches' \in Seq(Batch) /\ Len(batches') = Len(batches)
    <3>1. batches' \in [1..Len(batches) -> Batch] /\ Len(batches) \in Nat
      BY <1>5, <2>1 DEF dispatchSecureJob, SecureTypeOK
    <3> QED
      BY <3>1, RowByRow
  <2>3. job' \in JobRow /\ job'.produced = job.produced
    BY <1>5 DEF dispatchSecureJob, SecureTypeOK, JobStatuses
  <2> QED
    BY <1>5, <2>2, <2>3 DEF dispatchSecureJob, SecureTypeOK, BoundInv
<1> QED
  BY <1>1, <1>2, <1>3, <1>4, <1>5, RoutineOperations DEF SecureNext, release

-----------------------------------------------------------------------------
(* Signatures and materials *)

\* With auth = None nothing can be issued, and once everything is out nothing
\* more can: an issue that the checks of issueSecureMaterials let through takes
\* the stock of issued material from none to all that is required.
LEMMA IssueIsInFull ==
  ASSUME SecureTypeOK, SignatureInv, NEW u \in Users, NEW v \in Users,
         issueSecureMaterials(u, v)
  PROVE  issued = None /\ auth = Required /\ issued' = Required
<1>0. /\ Required \in [Requirements -> Nat \ {0}] /\ None \in [Requirements -> Nat]
      /\ UNION {0..Required[r] : r \in Requirements} \subseteq Nat
  BY SecureAssumption DEF None
<1>1. PICK q \in [Requirements -> Nat] :
        /\ \E r \in Requirements : q[r] > 0
        /\ \A r \in Requirements : q[r] > 0 => q[r] <= auth[r] - issued[r]
        /\ \A r \in Requirements : issued[r] + q[r] >= auth[r]
        /\ issued' = [r \in Requirements |-> issued[r] + q[r]]
  BY <1>0 DEF issueSecureMaterials, lineAllowed
<1>2. PICK r \in Requirements : q[r] > 0 /\ q[r] <= auth[r] - issued[r]
  BY <1>1
<1>3. auth = Required
  <2>1. auth = None => auth[r] = 0
    BY DEF None
  <2> QED
    BY <1>2, <2>1 DEF SecureTypeOK, SignatureInv
<1>4. issued = None
  BY <1>2, <1>3 DEF SecureTypeOK, SignatureInv
<1>5. \A x \in Requirements : issued[x] + q[x] = Required[x]
  <2> TAKE x \in Requirements
  <2>1. issued[x] = 0 /\ Required[x] \in Nat /\ q[x] \in Nat
    BY <1>0, <1>4 DEF None
  <2> QED
    BY <1>1, <1>3, <2>1
<1> QED
  BY <1>0, <1>1, <1>3, <1>4, <1>5

\* No operation issues, authorises or signs out of turn.
LEMMA StepSignature ==
  ASSUME SecureTypeOK, SignatureInv, SecureNext
  PROVE  SignatureInv'
<1>1. ASSUME movesOn PROVE SignatureInv'
  BY <1>1 DEF movesOn, SignatureInv, Dual, None
<1>2. CASE approval
  <2> PICK u \in Users :
        \/ submitSecureJob(u) \/ approveJob(u) \/ authorizeMaterials(u)
        \/ \E st \in 1..2 : rejectJob(u, st)
        \/ \E st \in 1..2, d \in Users : delegateTask(u, st, d)
    BY <1>2 DEF approval
  <2>0. u # NoUser
    BY SecureAssumption
  <2>1. CASE submitSecureJob(u)
    <3>1. CASE u \in FinalAuthority
      <4>1. /\ job' = [job EXCEPT !.status = "MATERIALS_AUTHORIZED",
                                  !.approvedBy = u, !.authorizedBy = u]
            /\ auth' = Required /\ UNCHANGED <<task, issued>>
            /\ job.status = "DRAFT"
        BY <2>1, <3>1 DEF submitSecureJob, selfAuthorizeSecureJob
      <4>2. Dual'
        BY <2>0, <3>1, <4>1 DEF Dual, SecureTypeOK
      <4>3. task[2].status # "PENDING" /\ task[1].status # "PENDING"
        BY <4>1 DEF SignatureInv
      <4> QED
        BY <4>1, <4>2, <4>3, RequiredIsSome DEF SignatureInv, SecureTypeOK, None
    <3>2. CASE u \notin FinalAuthority
      BY <2>1, <3>2 DEF submitSecureJob, SignatureInv, Dual, SecureTypeOK, None,
                        taskRow
    <3> QED
      BY <3>1, <3>2
  <2>2. CASE approveJob(u)
    BY <2>0, <2>2, RequiredIsSome
       DEF approveJob, decidable, addressed, SignatureInv, Dual, SecureTypeOK,
           None, taskRow, Task
  <2>3. CASE authorizeMaterials(u)
    BY <2>0, <2>3, RequiredIsSome
       DEF authorizeMaterials, decidable, addressed, SignatureInv, Dual,
           SecureTypeOK, None, taskRow, Task
  <2>4. ASSUME NEW st \in 1..2, rejectJob(u, st) PROVE SignatureInv'
    BY <2>4 DEF rejectJob, closeTasks, SignatureInv, Dual, SecureTypeOK, None,
                taskRow, Task
  <2>5. ASSUME NEW st \in 1..2, NEW d \in Users, delegateTask(u, st, d)
        PROVE  SignatureInv'
    BY <2>5, DelegatingOperation DEF SignatureInv, Dual, None
  <2> QED
    BY <2>1, <2>2, <2>3, <2>4, <2>5
<1>3. CASE production
  <2>1. ASSUME NEW u \in Users, NEW v \in Users, issueSecureMaterials(u, v)
        PROVE  SignatureInv'
    BY <2>1, IssueIsInFull DEF issueSecureMaterials, SignatureInv, Dual, SecureTypeOK
  <2>2. ASSUME NEW g \in 0..Planned, NEW x \in 0..Planned, NEW b \in BOOLEAN,
               completeSecureProduction(g, x, b)
        PROVE  SignatureInv'
    BY <2>2 DEF completeSecureProduction, SignatureInv, Dual, SecureTypeOK, None
  <2> QED
    BY <1>1, <1>3, <2>1, <2>2, RoutineOperations DEF production
<1>4. CASE control
  <2>1. ASSUME NEW v \in Verdicts, qcSecureJob(v) PROVE SignatureInv'
    BY <2>1 DEF qcSecureJob, Verdicts, SignatureInv, Dual, SecureTypeOK, None
  <2> QED
    BY <1>4, <2>1, ReconcilingOperations DEF control, SignatureInv, Dual, None
<1>5. CASE dispatchSecureJob
  BY <1>5 DEF dispatchSecureJob, SignatureInv, Dual, SecureTypeOK, None
<1> QED
  BY <1>1, <1>2, <1>3, <1>4, <1>5, RoutineOperations DEF SecureNext, release

-----------------------------------------------------------------------------
(* Production and dispatch *)

\* A job is dispatched once, and afterwards no batch is made, judged or moved.
LEMMA StepStock ==
  ASSUME SecureTypeOK, StockInv, SecureNext
  PROVE  StockInv'
<1>0. /\ Len(batches) \in Nat /\ DOMAIN batches = 1..Len(batches)
      /\ \A k \in DOMAIN batches : batches[k] \in Batch
      /\ job.produced \in Nat /\ job.dispatched \in Nat
  BY DEF SecureTypeOK
<1>1. ASSUME UNCHANGED batches, job' \in JobRow,
             job'.produced = job.produced, job'.dispatched = job.dispatched,
             job.status \in Ended => job'.status \in Ended
      PROVE  StockInv'
  BY <1>0, <1>1 DEF StockInv, OnlyPassedLeaves
<1>2. CASE approval
  <2> PICK u \in Users :
        \/ submitSecureJob(u) \/ approveJob(u) \/ authorizeMaterials(u)
        \/ \E st \in 1..2 : rejectJob(u, st)
        \/ \E st \in 1..2, d \in Users : delegateTask(u, st, d)
    BY <1>2 DEF approval
  <2>1. CASE submitSecureJob(u)
    <3>1. job.status = "DRAFT" /\ batches' = batches
      BY <2>1 DEF submitSecureJob
    <3>2. job'.produced = job.produced /\ job'.dispatched = job.dispatched
      <4>1. \/ job' = [job EXCEPT !.status = "SUBMITTED"]
            \/ job' = [job EXCEPT !.status = "MATERIALS_AUTHORIZED",
                                 !.approvedBy = u, !.authorizedBy = u]
        BY <2>1 DEF submitSecureJob, selfAuthorizeSecureJob
      <4> QED
        BY <4>1 DEF SecureTypeOK
    <3>3. job.dispatched = 0
      BY <1>0, <3>1 DEF StockInv, Ended
    <3> QED
      BY <3>1, <3>2, <3>3 DEF StockInv, OnlyPassedLeaves
  <2>2. CASE approveJob(u)
    BY <1>0, <2>2 DEF approveJob, StockInv, OnlyPassedLeaves, SecureTypeOK, Ended
  <2>3. CASE authorizeMaterials(u)
    BY <1>0, <2>3 DEF authorizeMaterials, StockInv, OnlyPassedLeaves, SecureTypeOK, Ended
  <2>4. ASSUME NEW st \in 1..2, rejectJob(u, st) PROVE StockInv'
    BY <1>0, <2>4 DEF rejectJob, StockInv, OnlyPassedLeaves, SecureTypeOK, Ended
  <2>5. ASSUME NEW st \in 1..2, NEW d \in Users, delegateTask(u, st, d)
        PROVE  StockInv'
    BY <2>5, DelegatingOperation DEF StockInv, OnlyPassedLeaves
  <2> QED
    BY <2>1, <2>2, <2>3, <2>4, <2>5
<1>3. CASE production
  <2>1. ASSUME NEW u \in Users, NEW v \in Users, issueSecureMaterials(u, v)
        PROVE  StockInv'
    BY <1>0, <2>1 DEF issueSecureMaterials, StockInv, OnlyPassedLeaves, SecureTypeOK, Ended
  <2>2. ASSUME NEW g \in 0..Planned, NEW x \in 0..Planned, NEW b \in BOOLEAN,
               completeSecureProduction(g, x, b)
        PROVE  StockInv'
    <3>1. /\ job.dispatched = 0 /\ job'.dispatched = 0
          /\ job'.produced = job.produced + g /\ job'.status = "QC"
      BY <1>0, <2>2 DEF completeSecureProduction, StockInv, SecureTypeOK, Ended
    <3>2. /\ DOMAIN batches' = 1..(Len(batches) + 1)
          /\ \A k \in DOMAIN batches : batches'[k] = batches[k]
          /\ batches'[Len(batches) + 1] =
               [good |-> g, spoiled |-> x, binned |-> b, qc |-> "PENDING", stock |-> g - x]
      BY <1>0, <2>2 DEF completeSecureProduction, SecureTypeOK
    <3>3. ASSUME NEW k \in DOMAIN batches'
          PROVE  /\ batches'[k].good <= job'.produced
                 /\ batches'[k].stock = batches'[k].good - batches'[k].spoiled
      <4>1. CASE k \in DOMAIN batches
        BY <1>0, <3>1, <3>2, <4>1 DEF StockInv, OnlyPassedLeaves, Batch
      <4>2. CASE k = Len(batches) + 1
        BY <1>0, <3>1, <3>2, <4>2, SecureAssumption
      <4> QED
        BY <1>0, <3>2, <4>1, <4>2
    <3> QED
      BY <3>1, <3>3 DEF StockInv, OnlyPassedLeaves
  <2> QED
    BY <1>1, <1>3, <2>1, <2>2, RoutineOperations DEF production, movesOn, Ended
<1>4. CASE control
  <2>1. ASSUME NEW v \in Verdicts, qcSecureJob(v) PROVE StockInv'
    <3>1. /\ job.dispatched = 0 /\ job'.dispatched = 0 /\ job'.produced = job.produced
      BY <1>0, <2>1 DEF qcSecureJob, StockInv, SecureTypeOK, Ended
    <3>2. ASSUME NEW k \in DOMAIN batches
          PROVE  /\ batches'[k].good = batches[k].good
                 /\ batches'[k].spoiled = batches[k].spoiled
                 /\ batches'[k].stock = batches[k].stock
      BY <1>0, <2>1 DEF qcSecureJob, judged, Batch
    <3> QED
      BY <1>0, <2>1, <3>1, <3>2 DEF qcSecureJob, StockInv, OnlyPassedLeaves
  <2> QED
    BY <1>4, <2>1, ReconcilingOperations DEF control, StockInv, OnlyPassedLeaves
<1>5. CASE dispatchSecureJob
  <2>1. job.dispatched = 0
    BY <1>0, <1>5 DEF dispatchSecureJob, StockInv, Ended
  <2>2. PICK k \in DOMAIN batches : batches[k].good > 0
    BY <1>5 DEF dispatchSecureJob, leaving, movable
  <2>3. job.produced > 0
    BY <1>0, <2>2 DEF StockInv, Batch
  <2>4. job'.dispatched > 0 /\ job'.status = "DISPATCHED" /\ job'.produced = job.produced
    BY <1>0, <1>5, <2>3 DEF dispatchSecureJob, SecureTypeOK
  <2>5. ASSUME NEW j \in DOMAIN batches
        PROVE  /\ batches'[j].good = batches[j].good
               /\ batches'[j].stock = IF batches'[j].qc = "PASSED" THEN 0
                                      ELSE batches'[j].good - batches'[j].spoiled
    <3>1. batches[j].stock = batches[j].good - batches[j].spoiled
      BY <1>0, <2>1 DEF StockInv, OnlyPassedLeaves
    <3>2. CASE j \in leaving
      <4>1. batches'[j] = [batches[j] EXCEPT !.stock = @ - batches[j].good]
        BY <1>5, <3>2 DEF dispatchSecureJob
      <4>2. batches[j].stock - batches[j].good = 0
        BY <1>0, <1>5, <3>1, <3>2 DEF dispatchSecureJob, movable, Batch
      <4> QED
        BY <1>0, <3>2, <4>1, <4>2 DEF leaving, Batch
    <3>3. CASE j \notin leaving
      BY <1>5, <3>1, <3>3 DEF dispatchSecureJob, leaving
    <3> QED
      BY <3>2, <3>3
  <2> QED
    BY <1>0, <1>5, <2>4, <2>5 DEF dispatchSecureJob, StockInv, OnlyPassedLeaves, Ended
<1> QED
  BY <1>1, <1>2, <1>3, <1>4, <1>5, RoutineOperations DEF SecureNext, release, movesOn, Ended

-----------------------------------------------------------------------------
(* The theorems *)

\* Together: every operation of securityPrinting.ts keeps the invariant.
LEMMA SecureStep == SecureInv /\ [SecureNext]_secureVars => SecureInv'
<1> SUFFICES ASSUME SecureInv, [SecureNext]_secureVars PROVE SecureInv'
  OBVIOUS
<1>1. CASE SecureNext
  BY <1>1, StepType, StepSignature, StepStock DEF SecureInv
<1>2. CASE UNCHANGED secureVars
  BY <1>2 DEF secureVars, SecureInv, SecureTypeOK, BoundInv, SignatureInv, Dual,
              None, StockInv, OnlyPassedLeaves
<1> QED
  BY <1>1, <1>2

\* The invariant of securityPrinting.ts: types, bounds, signatures and stock.
THEOREM SecureInvariant == SecureSpec => []SecureInv
  BY SecureInitInv, SecureStep, PTL DEF SecureSpec

\* issueSecureMaterials: material leaves the store only under dual control,
\* whatever statuses a job was resumed at before.
THEOREM DualControl == SecureSpec => []MaterialsUnderDualControl
<1>1. SecureInv => MaterialsUnderDualControl
  BY DEF SecureInv, SignatureInv, Dual, MaterialsUnderDualControl, None
<1> QED
  BY <1>1, SecureInvariant, PTL

\* issueSecureMaterials: the materials go out in full and once.
THEOREM IssuedOnce == SecureSpec => []IssuedInFullOnce
<1>1. SecureInv => IssuedInFullOnce
  BY DEF SecureInv, SignatureInv, IssuedInFullOnce, None
<1> QED
  BY <1>1, SecureInvariant, PTL

\* dispatchSecureJob: what leaves is every PASSED batch and nothing else.
THEOREM PassedLeaves == SecureSpec => []OnlyPassedLeaves
<1>1. SecureInv => OnlyPassedLeaves
  BY DEF SecureInv, StockInv
<1> QED
  BY <1>1, SecureInvariant, PTL

\* An ended job moves again only through an approval task that was left open.
THEOREM EndsStay == SecureSpec => EndedUnlessTaskLeftOpen
<1> DEFINE Stay ==
      job.status \in {"DISPATCHED", "DELIVERED", "CANCELLED", "REJECTED"} =>
        \/ job'.status = job.status
        \/ job.status = "DISPATCHED" /\ job'.status = "DELIVERED"
        \/ /\ job'.status = "REJECTED"
           /\ job.authorizedBy = NoUser
           /\ task[2].status = "PENDING"
<1>1. ASSUME SecureInv, [SecureNext]_secureVars PROVE [Stay]_secureVars
  <2>1. CASE approval
    <3>1. ASSUME NEW u \in Users, NEW st \in 1..2, rejectJob(u, st) PROVE Stay
      <4>1. task[2].status = "PENDING"
        BY <1>1, <3>1 DEF rejectJob, decidable, addressed, SecureInv, SignatureInv
      <4> QED
        BY <1>1, <3>1, <4>1 DEF rejectJob, SecureInv, SecureTypeOK, SignatureInv
    <3> QED
      BY <2>1, <3>1 DEF approval, submitSecureJob, approveJob, authorizeMaterials,
                        delegateTask
  <2>2. CASE production
    <3>1. CASE assignSecureMachine \/ startSecureProduction
      BY <1>1, <3>1, RoutineOperations DEF SecureInv, Ended
    <3> QED
      BY <2>2, <3>1 DEF production, issueSecureMaterials, completeSecureProduction
  <2>3. CASE control
    BY <2>3 DEF control, qcSecureJob, reconcileSecureJob, resolveSecureReconciliation
  <2>4. CASE release
    <3>1. CASE packageSecureJob \/ secureStorageSecureJob \/ deliverSecureJob
      BY <1>1, <3>1, RoutineOperations DEF SecureInv, Ended
    <3> QED
      BY <2>4, <3>1 DEF release, dispatchSecureJob
  <2>5. CASE suspension
    BY <1>1, <2>5, RoutineOperations DEF SecureInv, Ended
  <2> QED
    BY <1>1, <2>1, <2>2, <2>3, <2>4, <2>5 DEF SecureNext
<1> QED
  BY <1>1, SecureInvariant, PTL DEF SecureSpec, EndedUnlessTaskLeftOpen
=============================================================================
