---------------------------- MODULE InvoiceProofs ----------------------------
(***************************************************************************)
(* Proofs about customer invoices: the record routes, the approval engine  *)
(* and the posting service on one row (CrudApproval), and the queue that   *)
(* fiscalises what was invoiced (EfrisQueue).  For any people, contents,   *)
(* stages, rows, workers and faults.                                       *)
(***************************************************************************)
EXTENDS CrudApproval, EfrisQueue, WorkflowProofs

-----------------------------------------------------------------------------
(* The record routes implement the engine's specification *)

\* What the submit requests in flight have read, and the flag on the row.
RequestsOK ==
  /\ glPosted \in BOOLEAN
  /\ reading \in [Submitters -> Versions \cup {NoVersion}]

\* postSalesInvoice leaves a status of the column's CHECK.
LEMMA SideEffectType ==
  ASSUME TypeOK, NEW u, NEW st \in Statuses, NEW self, runApprovalSideEffect(u, st, self)
  PROVE  status' \in Statuses
  BY CrudAssumption DEF runApprovalSideEffect

\* Every route is an entry point of the engine, or writes only the row.
LEMMA CrudStepImplements == TypeOK /\ RequestsOK /\ [CrudNext]_crudVars => [Next]_vars
<1> SUFFICES ASSUME TypeOK, RequestsOK, [CrudNext]_crudVars PROVE [Next]_vars
  OBVIOUS
<1>1. /\ {"DRAFT", "SUBMITTED", "APPROVED", "POSTED", "VOID"} \subseteq Statuses
      /\ status \in Statuses /\ version \in Versions
  BY CrudAssumption, ConstantsAssumption DEF TypeOK
<1>2. ASSUME NEW u \in Submitters, submitRead(u) \/ submitRollback(u) PROVE [Next]_vars
  BY <1>2 DEF submitRead, submitRollback
<1>3. ASSUME NEW u \in Submitters, submitWrite(u) PROVE [Next]_vars
  <2>1. CASE selfAuthorizeAndPost(u)
    <3>1. status' \in Statuses
      BY <1>1, <2>1, SideEffectType DEF selfAuthorizeAndPost
    <3> QED
      BY <1>1, <2>1, <3>1 DEF selfAuthorizeAndPost, lifecycleStep, engineVars, Next
  <2>2. CASE ~selfAuthorizeAndPost(u)
    <3>1. PICK i \in Instances : startWorkflow(i, AmountOf[reading[u]])
      BY <1>3, <2>2 DEF submitWrite
    <3>2. reading[u] \in Versions /\ status' = "SUBMITTED"
      BY <1>3, <2>2 DEF submitWrite, RequestsOK
    <3>3. AmountOf[reading[u]] \in Amounts
      BY <3>2, CrudAssumption
    <3> QED
      BY <1>1, <3>1, <3>2, <3>3 DEF submit, Next
  <2> QED
    BY <2>1, <2>2
<1>4. CASE patch
  BY <1>4 DEF patch, edit, Next
<1>5. CASE registerTransition
  BY <1>1, <1>5 DEF registerTransition, lifecycleStep, engineVars, Next
<1>6. CASE executeDocument
  <2>1. PICK u \in Users, i \in Instances :
          executeWorkflow(u, i) /\ runApprovalSideEffect(u, status, FALSE)
    BY <1>6 DEF executeDocument
  <2>2. status' \in Statuses
    BY <1>1, <2>1, SideEffectType
  <2> QED
    BY <2>1, <2>2 DEF execute, Next
<1>7. CASE postRoute
  <2>1. status' \in Statuses
    BY <1>1, <1>7, SideEffectType DEF postRoute
  <2> QED
    BY <1>1, <1>7, <2>1 DEF postRoute, lifecycleStep, engineVars, Next
<1>8. CASE engineStep
  BY <1>8 DEF engineStep, Next
<1>9. CASE UNCHANGED crudVars
  BY <1>9 DEF crudVars, vars
<1> QED
  BY <1>2, <1>3, <1>4, <1>5, <1>6, <1>7, <1>8, <1>9 DEF CrudNext

\* Requests in flight hold a content that the row once had.
LEMMA RequestsStayOK == TypeOK /\ RequestsOK /\ [CrudNext]_crudVars => RequestsOK'
<1> SUFFICES ASSUME TypeOK, RequestsOK, [CrudNext]_crudVars PROVE RequestsOK'
  OBVIOUS
<1>1. glPosted' \in BOOLEAN
  BY DEF RequestsOK, CrudNext, submitRead, submitWrite, submitRollback, patch,
     registerTransition, executeDocument, postRoute, engineStep, crudVars,
     selfAuthorizeAndPost, runApprovalSideEffect
<1>2. \/ reading' = reading
      \/ \E u \in Submitters, v \in {version, NoVersion} :
           reading' = [reading EXCEPT ![u] = v]
  BY DEF CrudNext, submitRead, submitWrite, submitRollback, patch,
     registerTransition, executeDocument, postRoute, engineStep, crudVars
<1>3. version \in Versions
  BY DEF TypeOK
<1> QED
  BY <1>1, <1>2, <1>3 DEF RequestsOK

\* The row, its chains and the requests are well formed at every moment.
LEMMA CrudEngineInvariant == CrudSpec => [](EngineInv /\ RequestsOK)
<1>1. CrudInit => EngineInv /\ RequestsOK
  BY InitInv DEF CrudInit, RequestsOK
<1>2. EngineInv /\ RequestsOK /\ [CrudNext]_crudVars => (EngineInv /\ RequestsOK)'
  BY CrudStepImplements, RequestsStayOK, NextInv DEF EngineInv
<1> QED
  BY <1>1, <1>2, PTL DEF CrudSpec

\* The routes over the row (submit, patch, void, execute, post, and the
\* engine's own steps) implement the specification of the approval engine.
THEOREM InvoiceImplementsEngine == CrudSpec => Spec
<1>1. CrudInit => Init
  BY DEF CrudInit
<1>2. EngineInv /\ RequestsOK /\ [CrudNext]_crudVars => [Next]_vars
  BY CrudStepImplements DEF EngineInv
<1> QED
  BY <1>1, <1>2, CrudEngineInvariant, PTL DEF CrudSpec, Spec

-----------------------------------------------------------------------------
(* Posting *)

\* The ledger is empty until gl_posted is set and holds one entry from then on.
LedgerOK ==
  /\ glPosted = FALSE => ledger = <<>>
  /\ glPosted = TRUE => \E p : ledger = <<p>>

\* An unposted row is APPROVED only on a complete chain, and never POSTED.
ApprovalBacked ==
  glPosted = FALSE =>
    /\ status # "POSTED"
    /\ status = "APPROVED" => \E i \in Instances : ChainComplete(i)

\* postSalesInvoice on a row of status st: nothing if it is posted, else an
\* entry, which takes a status the service accepts.
LEMMA SideEffectPosts ==
  ASSUME glPosted \in BOOLEAN, NEW u, NEW st, NEW self, runApprovalSideEffect(u, st, self)
  PROVE  \/ status' = st /\ glPosted' = glPosted /\ ledger' = ledger
         \/ /\ glPosted = FALSE /\ glPosted' = TRUE
            /\ \E p : ledger' = Append(ledger, p) /\ p.self = self
            /\ st \in {"APPROVED", "POSTED"}
<1>1. CASE glPosted = TRUE
  BY <1>1 DEF runApprovalSideEffect
<1>2. CASE glPosted = FALSE
  <2> DEFINE p == [version |-> version, by |-> u, self |-> self]
  <2>1. ledger' = Append(ledger, p) /\ p.self = self
    BY <1>2 DEF runApprovalSideEffect
  <2>2. glPosted' = TRUE /\ st \in PostFrom
    BY <1>2 DEF runApprovalSideEffect
  <2> HIDE DEF p
  <2> QED
    BY <1>2, <2>1, <2>2, CrudAssumption
<1> QED
  BY <1>1, <1>2

\* An entry is made once, by a final authority's submission or on a row that
\* was APPROVED or POSTED.
LEMMA LedgerMoves ==
  ASSUME RequestsOK, [CrudNext]_crudVars
  PROVE  \/ glPosted' = glPosted /\ ledger' = ledger
         \/ /\ glPosted = FALSE /\ glPosted' = TRUE
            /\ \E p : /\ ledger' = Append(ledger, p)
                      /\ p.self = TRUE \/ status \in {"APPROVED", "POSTED"}
<1>1. glPosted \in BOOLEAN
  BY DEF RequestsOK
<1>2. ASSUME NEW u \in Submitters, submitWrite(u), u \in FinalAuthority
      PROVE  runApprovalSideEffect(u, "APPROVED", TRUE)
  BY <1>2 DEF submitWrite, selfAuthorizeAndPost
<1>3. CASE executeDocument \/ postRoute
  <2>1. PICK u \in Users : runApprovalSideEffect(u, status, FALSE)
    BY <1>3 DEF executeDocument, postRoute
  <2> QED
    BY <1>1, <2>1, SideEffectPosts
<1>4. CASE \E u \in Submitters : submitWrite(u) /\ u \in FinalAuthority
  <2>1. PICK u \in Submitters : runApprovalSideEffect(u, "APPROVED", TRUE)
    BY <1>2, <1>4
  <2> QED
    BY <1>1, <2>1, SideEffectPosts
<1>5. CASE /\ ~executeDocument /\ ~postRoute
           /\ ~ \E u \in Submitters : submitWrite(u) /\ u \in FinalAuthority
  BY <1>5 DEF CrudNext, submitRead, submitWrite, submitRollback, patch,
     registerTransition, engineStep, crudVars
<1> QED
  BY <1>3, <1>4, <1>5

\* gl_posted and the ledger entry are written together.
LEMMA LedgerStaysOK ==
  ASSUME RequestsOK, LedgerOK, [CrudNext]_crudVars
  PROVE  LedgerOK'
<1>1. CASE glPosted' = glPosted /\ ledger' = ledger
  BY <1>1 DEF LedgerOK
<1>2. ASSUME NEW p, glPosted = FALSE, glPosted' = TRUE, ledger' = Append(ledger, p)
      PROVE  LedgerOK'
  <2>1. ledger' = <<p>>
    BY <1>2 DEF LedgerOK
  <2> QED
    BY <1>2, <2>1 DEF LedgerOK
<1> QED
  BY <1>1, <1>2, LedgerMoves

\* runApprovalSideEffect: whatever is submitted, approved, executed, posted by
\* hand, voided or edited, in any order, the invoice has one journal at most.
THEOREM InvoicePostedOnce == CrudSpec => []PostedAtMostOnce
<1>1. CrudInit => LedgerOK
  BY DEF CrudInit, LedgerOK
<1>2. RequestsOK /\ LedgerOK /\ [CrudNext]_crudVars => LedgerOK'
  BY LedgerStaysOK
<1>3. ASSUME RequestsOK, LedgerOK PROVE PostedAtMostOnce
  <2>1. CASE ledger = <<>>
    BY <2>1 DEF PostedAtMostOnce
  <2>2. ASSUME NEW p, ledger = <<p>> PROVE PostedAtMostOnce
    BY <2>2 DEF PostedAtMostOnce
  <2> QED
    BY <1>3, <2>1, <2>2 DEF RequestsOK, LedgerOK
<1> QED
  BY <1>1, <1>2, <1>3, CrudEngineInvariant, PTL DEF CrudSpec

\* The entry of an invoice is for a content of it, by a user.
LEMMA PostingsTyped ==
  ASSUME TypeOK, CrudTypeOK, [CrudNext]_crudVars
  PROVE  ledger' \in Seq(Posting) /\ Len(ledger') <= MaxPostings
<1>1. ASSUME NEW u \in Users, NEW st, NEW self \in BOOLEAN, runApprovalSideEffect(u, st, self)
      PROVE  ledger' \in Seq(Posting) /\ Len(ledger') <= MaxPostings
  <2> DEFINE p == [version |-> version, by |-> u, self |-> self]
  <2>1. p \in Posting
    BY DEF Posting, TypeOK
  <2>2. ledger' = ledger \/ (Len(ledger) < MaxPostings /\ ledger' = Append(ledger, p))
    BY <1>1 DEF runApprovalSideEffect
  <2>3. ledger \in Seq(Posting) /\ Len(ledger) <= MaxPostings /\ MaxPostings \in Nat
    BY CrudAssumption DEF CrudTypeOK
  <2> HIDE DEF p
  <2> QED
    BY <2>1, <2>2, <2>3
<1>2. CASE executeDocument \/ postRoute
  <2>1. PICK u \in Users : runApprovalSideEffect(u, status, FALSE)
    BY <1>2 DEF executeDocument, postRoute
  <2> QED
    BY <1>1, <2>1
<1>3. CASE \E u \in Submitters : submitWrite(u) /\ u \in FinalAuthority
  <2>1. PICK u \in Submitters : runApprovalSideEffect(u, "APPROVED", TRUE)
    BY <1>3 DEF submitWrite, selfAuthorizeAndPost
  <2>2. u \in Users
    BY CrudAssumption
  <2> QED
    BY <1>1, <2>1, <2>2
<1>4. CASE /\ ~executeDocument /\ ~postRoute
           /\ ~ \E u \in Submitters : submitWrite(u) /\ u \in FinalAuthority
  <2>1. ledger' = ledger
    BY <1>4 DEF CrudNext, submitRead, submitWrite, submitRollback, patch,
       registerTransition, engineStep, crudVars
  <2> QED
    BY <2>1 DEF CrudTypeOK
<1> QED
  BY <1>2, <1>3, <1>4

\* The invoice's row, its journals and the submit requests in flight keep their
\* types; the status always passes the CHECK of the column.
THEOREM InvoiceTypes == CrudSpec => []CrudTypeOK
<1>1. CrudInit /\ TypeOK /\ RequestsOK => CrudTypeOK
  BY CrudAssumption DEF CrudInit, CrudTypeOK, RequestsOK
<1>2. CrudTypeOK /\ (TypeOK /\ RequestsOK)' /\ [CrudNext]_crudVars => CrudTypeOK'
  BY PostingsTyped DEF CrudTypeOK, RequestsOK
<1>3. EngineInv => TypeOK
  BY DEF EngineInv
<1> QED
  BY <1>1, <1>2, <1>3, CrudEngineInvariant, PTL DEF CrudSpec

\* A complete chain stays complete: its amount is fixed and decisions are final.
LEMMA CompleteStays ==
  ASSUME EngineInv, [Next]_vars, NEW i \in Instances, ChainComplete(i)
  PROVE  ChainComplete(i)'
<1>1. ChainKept(i)
  BY OpenedChainKept DEF ChainComplete
<1>2. ASSUME NEW s \in Applicable(inst[i].amount) PROVE task'[i][s] = task[i][s]
  BY <1>2, NextFinal DEF ChainComplete, Applicable, Signed
<1>3. Applicable(inst'[i].amount) = Applicable(inst[i].amount)
  BY <1>1 DEF ChainKept
<1>4. inst'[i].status # "NONE"
  BY <1>1 DEF ChainKept, ChainComplete
<1> QED
  BY <1>2, <1>3, <1>4 DEF ChainComplete

\* A chain that counts as approved is complete.
LEMMA SignedIsComplete ==
  EngineInv => \A i \in Instances : inst[i].status \in FullySigned => ChainComplete(i)
<1> SUFFICES ASSUME EngineInv, NEW i \in Instances, inst[i].status \in FullySigned
             PROVE  ChainComplete(i)
  OBVIOUS
<1>1. ChainSigned
  BY InvImpliesSigned
<1>2. \A s \in Applicable(inst[i].amount) :
        task[i][s].status = "APPROVED" /\ task[i][s].decidedBy # Owner
  BY <1>1 DEF ChainSigned
<1> QED
  BY <1>1, <1>2 DEF ChainSigned, ChainComplete, FullySigned

\* The row becomes APPROVED by the last signature on a chain, or it is posted.
LEMMA RowApprovedBy ==
  ASSUME EngineInv, RequestsOK, [CrudNext]_crudVars, glPosted' = FALSE
  PROVE  \/ status' = status
         \/ status' \notin {"APPROVED", "POSTED"}
         \/ /\ status' = "APPROVED"
            /\ \E i \in Instances : inst'[i].status \in FullySigned
<1>1. glPosted \in BOOLEAN
  BY DEF RequestsOK
<1>2. CASE executeDocument \/ postRoute
  <2>1. PICK u \in Users : runApprovalSideEffect(u, status, FALSE)
    BY <1>2 DEF executeDocument, postRoute
  <2> QED
    BY <1>1, <2>1, SideEffectPosts
<1>3. ASSUME NEW u \in Submitters, submitWrite(u)
      PROVE  status' = "SUBMITTED"
  BY <1>1, <1>3 DEF submitWrite, selfAuthorizeAndPost, runApprovalSideEffect
<1>4. CASE engineStep
  <2>1. CASE decide
    <3>1. PICK u \in Users, i \in Instances, s \in Steps :
            \/ approveTask(u, i, s)
            \/ \E d \in {"REJECTED", "RETURNED"} : rejectTask(u, i, s, d)
            \/ \E to \in Delegatees : delegateTask(u, i, s, to)
      BY <2>1 DEF decide
    <3>2. status' = status \/ status' = "REJECTED" \/ completeWorkflow(i)
      BY <3>1 DEF approveTask, rejectTask, delegateTask
    <3>3. CASE completeWorkflow(i)
      <4>1. inst'[i].status \in {"APPROVED", "EXECUTION_PENDING"} /\ status' = "APPROVED"
        BY <3>3 DEF completeWorkflow, EngineInv, TypeOK, Instance
      <4> QED
        BY <4>1 DEF FullySigned
    <3> QED
      BY <3>2, <3>3
  <2> QED
    BY <1>4, <2>1 DEF engineStep, escalation, escalationSelect, escalationUpdate,
         delegationChange
<1>5. CASE patch
  <2>1. status' \in {status, "DRAFT"}
    BY <1>5 DEF patch, editDocument, invalidateStaleApproval
  <2> QED
    BY <2>1
<1>6. CASE registerTransition
  BY <1>6 DEF registerTransition
<1>7. CASE (\E u \in Submitters : submitRead(u) \/ submitRollback(u)) \/ UNCHANGED crudVars
  BY <1>7 DEF submitRead, submitRollback, vars, crudVars
<1> QED
  BY <1>2, <1>3, <1>4, <1>5, <1>6, <1>7 DEF CrudNext

\* Approval of an unposted row stays backed by a complete chain.
LEMMA ApprovalStaysBacked ==
  ASSUME EngineInv, RequestsOK, ApprovalBacked, [CrudNext]_crudVars
  PROVE  ApprovalBacked'
<1> SUFFICES ASSUME glPosted' = FALSE
             PROVE  /\ status' # "POSTED"
                    /\ status' = "APPROVED" => \E i \in Instances : ChainComplete(i)'
  BY DEF ApprovalBacked
<1>1. glPosted = FALSE
  BY LedgerMoves DEF RequestsOK
<1>2. [Next]_vars /\ EngineInv'
  BY CrudStepImplements, NextInv DEF EngineInv
<1>3. (\A i \in Instances : inst[i].status \in FullySigned => ChainComplete(i))'
  BY <1>2, SignedIsComplete, PTL
<1> QED
  BY <1>1, <1>2, <1>3, RowApprovedBy, CompleteStays DEF ApprovalBacked

\* postSalesInvoice: nothing reaches the ledger on a status alone.  A posting
\* that is not a final authority's own is backed by a chain every stage of
\* which was approved, by distinct people other than the owner.
THEOREM PostingIsBacked == CrudSpec => []PostingBacked
<1> DEFINE Inv == LedgerOK /\ ApprovalBacked /\ PostingBacked
<1>1. CrudInit => Inv
  BY DEF CrudInit, Init, LedgerOK, ApprovalBacked, PostingBacked
<1>2. ASSUME EngineInv, RequestsOK, Inv, [CrudNext]_crudVars PROVE Inv'
  <2>1. LedgerOK' /\ ApprovalBacked'
    BY <1>2, LedgerStaysOK, ApprovalStaysBacked
  <2>2. ASSUME NEW i \in Instances, ChainComplete(i) PROVE ChainComplete(i)'
    BY <1>2, <2>2, CrudStepImplements, CompleteStays DEF EngineInv
  <2>3. ASSUME ledger' = ledger PROVE PostingBacked'
    BY <1>2, <2>2, <2>3 DEF PostingBacked
  <2>4. ASSUME NEW p, glPosted = FALSE, ledger' = Append(ledger, p),
               p.self = TRUE \/ status \in {"APPROVED", "POSTED"}
        PROVE  PostingBacked'
    <3>1. ledger' = <<p>>
      BY <1>2, <2>4 DEF LedgerOK
    <3>2. p.self = TRUE \/ \E i \in Instances : ChainComplete(i)
      BY <1>2, <2>4 DEF ApprovalBacked
    <3> QED
      BY <2>2, <3>1, <3>2 DEF PostingBacked
  <2>5. PostingBacked'
    BY <1>2, <2>3, <2>4, LedgerMoves
  <2> QED
    BY <2>1, <2>5
<1> QED
  BY <1>1, <1>2, CrudEngineInvariant, PTL DEF CrudSpec

\* A journal of the document that is not a final authority's own rests on a
\* chain signed throughout by entitled people.
PostedUnderControl ==
  \A k \in DOMAIN ledger : ~ledger[k].self => \E i \in Instances : EntirelySigned(i)

\* postSalesInvoice: a journal traces back to signatures for every stage, by
\* different people other than the owner, each entitled to sign or handed the
\* task by somebody who was, over every route to the posting and whatever was
\* resubmitted, edited, delegated or escalated on the way.
THEOREM PostedOnSignatures == CrudSpec => []PostedUnderControl
<1>1. EngineInv /\ SignaturesEntitled /\ PostingBacked => PostedUnderControl
  <2> SUFFICES ASSUME EngineInv, SignaturesEntitled, NEW i \in Instances, ChainComplete(i)
               PROVE  EntirelySigned(i)
    BY DEF PostingBacked, PostedUnderControl
  <2> QED
    BY ApprovedIsEntirelySigned DEF ChainComplete
<1> QED
  BY <1>1, CrudEngineInvariant, InvoiceImplementsEngine, SignersAreEntitled,
     PostingIsBacked, PTL

-----------------------------------------------------------------------------
(* The rows and who holds them *)

TxnStatus == LiveStatuses \cup {"NONE", "FAILED", "CANCELLED"}
TxnRow == [doc : Docs \cup {None}, code : Codes \cup {None}, status : TxnStatus,
           enabled : BOOLEAN, attempts : Nat, due : BOOLEAN]
Claim == [row : Rows, attempts : Nat]
WorkerState == [pc : {"idle", "ready", "sent", "conflict"}, todo : SUBSET Claim]

\* Rows and workers are well typed, a worker at work has a claim, and a batch
\* claims a row once.
QueueOK ==
  /\ txn \in [Rows -> TxnRow]
  /\ worker \in [Workers -> WorkerState]
  /\ lock \in Workers \cup {None}
  /\ lockLosses \in Nat
  /\ \A w \in Workers :
       /\ worker[w].pc = "idle" <=> worker[w].todo = {}
       /\ \A c, d \in worker[w].todo : c.row = d.row => c = d

\* While no lock connection was lost, only the holder of the lock has claims,
\* and none of them is of a fiscalised row.
LockKept ==
  lockLosses = 0 =>
    \A w \in Workers : worker[w].todo # {} =>
      /\ lock = w
      /\ \A c \in worker[w].todo : txn[c.row].status # "FISCALIZED"

\* The row a worker is on is one of its claims.
LEMMA CurrentHeld ==
  ASSUME QueueOK, NEW w \in Workers, worker[w].pc # "idle"
  PROVE  current(w) \in worker[w].todo
<1> DEFINE S == {c.row : c \in worker[w].todo}
<1>1. worker[w].todo # {} /\ worker[w].todo \subseteq Claim
  BY DEF QueueOK, WorkerState
<1>2. S # {} /\ S \in SUBSET Nat
  BY <1>1, EfrisAssumption DEF Claim
<1>3. PICK s \in S : \A r \in S : s <= r
  BY <1>2, LeastNumber
<1>4. \E c \in worker[w].todo : \A d \in worker[w].todo : c.row <= d.row
  BY <1>3
<1> QED
  BY <1>4 DEF current

\* nextClaim drops the claim the worker was on, and gives the lock back with
\* the last one.
LEMMA NextClaimMoves ==
  ASSUME QueueOK, NEW w \in Workers, worker[w].pc # "idle", nextClaim(w)
  PROVE  /\ worker' \in [Workers -> WorkerState]
         /\ worker'[w].todo = worker[w].todo \ {current(w)}
         /\ worker'[w].pc = "idle" <=> worker'[w].todo = {}
         /\ \A v \in Workers \ {w} : worker'[v] = worker[v]
         /\ lock' = lock \/ (lock' = None /\ worker'[w].todo = {} /\ lock = w)
<1> DEFINE rest == worker[w].todo \ {current(w)}
<1>1. worker \in [Workers -> WorkerState] /\ worker[w] \in WorkerState
  BY DEF QueueOK
<1>2. rest \in SUBSET Claim
  BY <1>1 DEF WorkerState
<1>3. CASE rest = {}
  <2>1. worker' = [worker EXCEPT ![w] = idle] /\ idle \in WorkerState /\ idle.todo = {}
    BY <1>3 DEF nextClaim, idle, WorkerState
  <2>2. lock' = lock \/ (lock' = None /\ lock = w)
    BY <1>3 DEF nextClaim
  <2>3. idle.pc = "idle"
    BY DEF idle
  <2> QED
    BY <1>1, <1>3, <2>1, <2>2, <2>3
<1>4. CASE rest # {}
  <2> DEFINE x == [pc |-> "ready", todo |-> rest]
  <2>1. worker' = [worker EXCEPT ![w] = x] /\ lock' = lock
    BY <1>4 DEF nextClaim
  <2>2. x \in WorkerState /\ x.todo = rest /\ x.pc = "ready"
    BY <1>2 DEF WorkerState
  <2> HIDE DEF x
  <2> QED
    BY <1>1, <1>4, <2>1, <2>2
<1> QED
  BY <1>3, <1>4

\* A status a user or a claim may write over another: neither a fiscalised nor
\* a cancelled row moves, and none is fiscalised.
UserMove(r) ==
  \/ txn'[r].status = txn[r].status
  \/ /\ txn[r].status \notin {"FISCALIZED", "CANCELLED"}
     /\ txn'[r].status # "FISCALIZED"

\* A registration names a document and a code.
LEMMA NamedInBody ==
  \A r \in Rows : \A b \in Bodies[r] : b[1] \in Docs /\ b[2] \in Codes
  BY BodiesAssumption

\* What users do, and the passing of time, touches one row and no worker.
LEMMA UserMoves ==
  ASSUME QueueOK, NEW r \in Rows, users(r) \/ elapse(r)
  PROVE  /\ txn' \in [Rows -> TxnRow]
         /\ \A q \in Rows : UserMove(q)
         /\ UNCHANGED <<worker, lock, lockLosses>>
<1>1. txn \in [Rows -> TxnRow] /\ txn[r] \in TxnRow
  BY DEF QueueOK
<1>2. UNCHANGED <<worker, lock, lockLosses>>
  BY DEF users, register, sync, retryEfrisError, requeue, cancel, archiveEfrisError,
         setStatus, elapse
<1>3. ASSUME NEW x \in TxnRow, txn' = [txn EXCEPT ![r] = x],
             \/ x.status = txn[r].status
             \/ /\ txn[r].status \notin {"FISCALIZED", "CANCELLED"}
                /\ x.status # "FISCALIZED"
      PROVE  txn' \in [Rows -> TxnRow] /\ \A q \in Rows : UserMove(q)
  BY <1>1, <1>3 DEF UserMove
<1>4. CASE \E b \in Bodies[r] : register(r, b[1], b[2])
  <2>1. PICK d \in Docs, c \in Codes, st \in {"QUEUED", "PENDING"}, on \in BOOLEAN :
          /\ txn[r].status = "NONE"
          /\ txn' = [txn EXCEPT ![r] = [doc |-> d, code |-> c, status |-> st,
                                        enabled |-> on, attempts |-> 0, due |-> TRUE]]
    BY <1>4, NamedInBody DEF register
  <2> DEFINE x == [doc |-> d, code |-> c, status |-> st, enabled |-> on, attempts |-> 0,
                   due |-> TRUE]
  <2>2. x \in TxnRow /\ x.status = st
    BY DEF TxnRow, TxnStatus, LiveStatuses
  <2>3. txn' = [txn EXCEPT ![r] = x]
    BY <2>1
  <2> HIDE DEF x
  <2> QED
    BY <1>2, <1>3, <2>1, <2>2, <2>3
<1>5. CASE sync(r) \/ retryEfrisError(r)
  <2> DEFINE x == [txn[r] EXCEPT !.status = "QUEUED", !.enabled = TRUE, !.due = TRUE]
  <2>1. txn' = [txn EXCEPT ![r] = x] /\ txn[r].status \notin {"FISCALIZED", "CANCELLED"}
    BY <1>1, <1>5 DEF sync, retryEfrisError, requeue
  <2>2. x \in TxnRow /\ x.status = "QUEUED"
    BY <1>1 DEF TxnRow, TxnStatus, LiveStatuses
  <2> HIDE DEF x
  <2> QED
    BY <1>2, <1>3, <2>1, <2>2
<1>6. CASE setStatus(r, "CANCELLED", FALSE) /\ txn[r].status # "FISCALIZED"
  <2> DEFINE x == [txn[r] EXCEPT !.status = "CANCELLED", !.due = FALSE]
  <2>1. txn' = [txn EXCEPT ![r] = x]
    BY <1>1, <1>6 DEF setStatus
  <2>2. x \in TxnRow /\ x.status = "CANCELLED"
    BY <1>1 DEF TxnRow, TxnStatus
  <2> HIDE DEF x
  <2> QED
    BY <1>2, <1>3, <1>6, <2>1, <2>2
<1>7. CASE elapse(r)
  <2> DEFINE x == [txn[r] EXCEPT !.due = TRUE]
  <2>1. txn' = [txn EXCEPT ![r] = x]
    BY <1>1, <1>7 DEF elapse
  <2>2. x \in TxnRow /\ x.status = txn[r].status
    BY <1>1 DEF TxnRow
  <2> HIDE DEF x
  <2> QED
    BY <1>2, <1>3, <2>1, <2>2
<1>8. CASE txn' = txn
  BY <1>1, <1>2, <1>8 DEF UserMove
<1>9. CASE cancel(r) \/ archiveEfrisError(r)
  <2>1. (setStatus(r, "CANCELLED", FALSE) /\ txn[r].status # "FISCALIZED") \/ txn' = txn
    BY <1>9 DEF cancel, archiveEfrisError
  <2> QED
    BY <1>6, <1>8, <2>1
<1> QED
  BY <1>4, <1>5, <1>7, <1>9 DEF users

\* A tick claims rows that are neither fiscalised nor cancelled, each once,
\* and only when nobody holds the lock.
LEMMA DrainMoves ==
  ASSUME QueueOK, NEW w \in Workers, drainEfrisQueue(w)
  PROVE  /\ txn' \in [Rows -> TxnRow]
         /\ \A q \in Rows : UserMove(q)
         /\ worker' \in [Workers -> WorkerState]
         /\ \A v \in Workers \ {w} : worker'[v] = worker[v]
         /\ worker'[w].pc = "idle" <=> worker'[w].todo = {}
         /\ \A c, d \in worker'[w].todo : c.row = d.row => c = d
         /\ \A c \in worker'[w].todo : txn'[c.row].status = "PROCESSING"
         /\ lock = None /\ lock' = w /\ lockLosses' = lockLosses
<1> DEFINE T == {claimOf(r) : r \in claimed}
           x == [pc |-> "ready", todo |-> T]
<1>1. txn \in [Rows -> TxnRow] /\ worker \in [Workers -> WorkerState]
  BY DEF QueueOK
<1>2. claimed \subseteq Rows /\ claimed \subseteq claimable
  BY DEF claimed, claimable
<1>3. ASSUME NEW r \in Rows
      PROVE  /\ txn'[r] \in TxnRow /\ UserMove(r)
             /\ r \in claimed => txn'[r].status = "PROCESSING"
  <2>1. txn[r] \in TxnRow
    BY <1>1
  <2>2. txn'[r] = IF r \in claimed
                  THEN [txn[r] EXCEPT !.status = "PROCESSING", !.due = FALSE, !.attempts = @ + 1]
                  ELSE IF r \in claimable /\ txn[r].status = "PROCESSING"
                  THEN [txn[r] EXCEPT !.status = "QUEUED"]
                  ELSE txn[r]
    BY DEF drainEfrisQueue
  <2>3. CASE r \in claimed
    <3>1. txn'[r] = [txn[r] EXCEPT !.status = "PROCESSING", !.due = FALSE, !.attempts = @ + 1]
      BY <2>2, <2>3
    <3>2. txn[r].status \notin {"FISCALIZED", "CANCELLED"}
      BY <1>2, <2>3 DEF claimable
    <3>3. txn'[r] \in TxnRow /\ txn'[r].status = "PROCESSING"
      <4>1. txn[r].attempts + 1 \in Nat
        BY <2>1 DEF TxnRow
      <4>2. txn'[r] = [txn[r] EXCEPT !.status = "PROCESSING", !.due = FALSE,
                                     !.attempts = txn[r].attempts + 1]
        BY <3>1
      <4> QED
        BY <2>1, <4>1, <4>2 DEF TxnRow, TxnStatus, LiveStatuses
    <3> QED
      BY <3>2, <3>3 DEF UserMove
  <2>4. CASE r \notin claimed /\ r \in claimable /\ txn[r].status = "PROCESSING"
    <3>1. txn'[r] = [txn[r] EXCEPT !.status = "QUEUED"]
      BY <2>2, <2>4
    <3>2. txn'[r] \in TxnRow /\ txn'[r].status = "QUEUED"
      BY <2>1, <3>1 DEF TxnRow, TxnStatus, LiveStatuses
    <3> QED
      BY <2>4, <3>2 DEF UserMove
  <2>5. CASE r \notin claimed /\ ~(r \in claimable /\ txn[r].status = "PROCESSING")
    <3>1. txn'[r] = txn[r]
      BY <2>2, <2>5
    <3> QED
      BY <2>1, <2>5, <3>1 DEF UserMove
  <2> QED
    BY <2>3, <2>4, <2>5
<1>4. txn' \in [Rows -> TxnRow]
  <2>1. DOMAIN txn' = Rows /\ txn' = [r \in Rows |-> txn'[r]]
    BY DEF drainEfrisQueue
  <2> QED
    BY <1>3, <2>1
<1>5. \A r \in claimed : /\ claimOf(r) \in Claim /\ claimOf(r).row = r
  <2> SUFFICES ASSUME NEW r \in claimed PROVE claimOf(r) \in Claim /\ claimOf(r).row = r
    OBVIOUS
  <2>1. txn[r].attempts + 1 \in Nat /\ r \in Rows
    BY <1>1, <1>2 DEF TxnRow
  <2> QED
    BY <2>1 DEF claimOf, Claim
<1>6. x \in WorkerState /\ x.pc = "ready" /\ x.todo = T
  BY <1>5 DEF WorkerState
<1>7. worker' = [worker EXCEPT ![w] = x]
  BY DEF drainEfrisQueue
<1> HIDE DEF x
<1>8. /\ worker' \in [Workers -> WorkerState] /\ worker'[w] = x
      /\ \A v \in Workers \ {w} : worker'[v] = worker[v]
  BY <1>1, <1>6, <1>7
<1>9. ASSUME NEW c \in T, NEW d \in T, c.row = d.row PROVE c = d
  <2>1. PICK q \in claimed : c = claimOf(q)
    OBVIOUS
  <2>2. PICK r \in claimed : d = claimOf(r)
    OBVIOUS
  <2> QED
    BY <1>5, <1>9, <2>1, <2>2
<1>10. ASSUME NEW c \in T PROVE c.row \in claimed
  BY <1>5
<1>11. T # {}
  <2>1. claimable \in SUBSET Nat /\ claimable # {}
    BY EfrisAssumption DEF claimable, drainEfrisQueue
  <2>2. PICK r \in claimable : \A q \in claimable : r <= q
    BY <2>1, LeastNumber
  <2>3. {q \in claimable : q < r} = {}
    <3>1. \A q \in claimable : q \in Nat /\ r \in Nat /\ r <= q
      BY <2>1, <2>2
    <3>2. \A q \in claimable : ~(q < r)
      BY <3>1
    <3> QED
      BY <3>2
  <2>4. Cardinality({q \in claimable : q < r}) = 0 /\ 0 < Batch
    BY <2>3, FS_EmptySet, EfrisAssumption
  <2>5. r \in claimed
    BY <2>4 DEF claimed
  <2> QED
    BY <2>5
<1>12. lock = None /\ lock' = w /\ lockLosses' = lockLosses
  BY DEF drainEfrisQueue, tryAcquireWorkerLock
<1>13. \A c \in T : txn'[c.row].status = "PROCESSING"
  BY <1>2, <1>3, <1>10
<1> HIDE DEF T
<1> QED
  BY <1>3, <1>4, <1>6, <1>8, <1>9, <1>11, <1>12, <1>13

\* The worker moves on within the claim it is on: sent, or refused by the index.
SendMove(w) ==
  /\ worker[w].pc # "idle"
  /\ \E p \in {"sent", "conflict"} : worker' = [worker EXCEPT ![w].pc = p]
  /\ UNCHANGED <<txn, lock, lockLosses>>

\* The worker is done with the claim it is on, with an outcome st or none.
RecordMove(w, st) ==
  /\ worker[w].pc # "idle"
  /\ setStatus(current(w).row, st, FALSE) \/ txn' = txn
  /\ nextClaim(w)
  /\ UNCHANGED lockLosses

\* The kinds of steps there are, seen from the rows and their holders.
LEMMA QueueSteps ==
  ASSUME QueueOK, [EfrisNext]_efrisVars
  PROVE  \/ \E r \in Rows : users(r) \/ elapse(r)
         \/ \E w \in Workers : drainEfrisQueue(w) \/ SendMove(w) \/ crash(w)
         \/ \E w \in Workers, st \in {"FISCALIZED", "FAILED", "RETRYING"} : RecordMove(w, st)
         \/ loseLock
         \/ UNCHANGED <<txn, worker, lock, lockLosses>>
<1>1. ASSUME NEW w \in Workers, submitFiscalDocument(w) PROVE SendMove(w)
  BY <1>1 DEF submitFiscalDocument, SendMove
<1>2. ASSUME NEW w \in Workers, recordOutcome(w)
      PROVE  SendMove(w) \/ RecordMove(w, "FISCALIZED")
  BY <1>2 DEF recordOutcome, persistOutcome, SendMove, RecordMove
<1>3. ASSUME NEW w \in Workers, recordFailure(w)
      PROVE  RecordMove(w, "FAILED") \/ RecordMove(w, "RETRYING")
  <2>1. worker[w].pc # "idle" /\ nextClaim(w) /\ UNCHANGED lockLosses
    BY <1>3 DEF recordFailure
  <2>2. \/ \E st \in {"FAILED", "RETRYING"} : setStatus(current(w).row, st, FALSE)
        \/ txn' = txn
    BY <1>3 DEF recordFailure
  <2> QED
    BY <2>1, <2>2 DEF RecordMove
<1>4. ASSUME NEW w \in Workers, recordFailureFails(w) PROVE RecordMove(w, "FAILED")
  BY <1>4 DEF recordFailureFails, RecordMove
<1>5. ASSUME NEW x \in requests, uraIssue(x)
      PROVE  UNCHANGED <<txn, worker, lock, lockLosses>>
  BY <1>5 DEF uraIssue
<1>6. CASE UNCHANGED efrisVars
  BY <1>6 DEF efrisVars
<1> QED
  BY <1>1, <1>2, <1>3, <1>4, <1>5, <1>6 DEF EfrisNext, processRow

\* Sending keeps the claims of everybody.
LEMMA SendKeeps ==
  ASSUME QueueOK, NEW w \in Workers, SendMove(w)
  PROVE  /\ worker' \in [Workers -> WorkerState]
         /\ \A v \in Workers : /\ worker'[v].todo = worker[v].todo
                               /\ worker'[v].pc = "idle" <=> worker[v].pc = "idle"
<1>1. worker \in [Workers -> WorkerState] /\ worker[w] \in WorkerState
  BY DEF QueueOK
<1>2. PICK p \in {"sent", "conflict"} : worker' = [worker EXCEPT ![w].pc = p]
  BY DEF SendMove
<1> DEFINE x == [worker[w] EXCEPT !.pc = p]
<1>3. x \in WorkerState /\ x.pc = p /\ x.todo = worker[w].todo
  BY <1>1 DEF WorkerState
<1>4. worker' = [worker EXCEPT ![w] = x]
  BY <1>1, <1>2
<1> HIDE DEF x
<1> QED
  BY <1>1, <1>3, <1>4 DEF SendMove

\* Recording an outcome touches the row of the claim and no other.
LEMMA RecordKeeps ==
  ASSUME QueueOK, NEW w \in Workers, NEW st \in {"FISCALIZED", "FAILED", "RETRYING"},
         RecordMove(w, st)
  PROVE  /\ txn' \in [Rows -> TxnRow]
         /\ current(w) \in worker[w].todo /\ current(w).row \in Rows
         /\ \A q \in Rows \ {current(w).row} : txn'[q] = txn[q]
         /\ txn'[current(w).row].status \in {st, txn[current(w).row].status}
<1>1. txn \in [Rows -> TxnRow]
  BY DEF QueueOK
<1>2. current(w) \in worker[w].todo
  BY CurrentHeld DEF RecordMove
<1>3. current(w).row \in Rows
  BY <1>2 DEF QueueOK, WorkerState, Claim
<1> DEFINE r == current(w).row
           x == [txn[r] EXCEPT !.status = st, !.due = FALSE]
<1>4. x \in TxnRow /\ x.status = st
  <2>1. txn[r] \in TxnRow
    BY <1>1, <1>3
  <2>2. st \in TxnStatus
    BY DEF TxnStatus, LiveStatuses
  <2> HIDE DEF r
  <2> QED
    BY <2>1, <2>2 DEF TxnRow
<1>5. txn' = [txn EXCEPT ![r] = x] \/ txn' = txn
  BY <1>1, <1>3 DEF RecordMove, setStatus
<1> HIDE DEF x, r
<1>6. r \in Rows /\ r = current(w).row
  BY <1>3 DEF r
<1>7. txn' \in [Rows -> TxnRow] /\ (\A q \in Rows \ {r} : txn'[q] = txn[q])
        /\ txn'[r].status \in {st, txn[r].status}
  BY <1>1, <1>4, <1>5, <1>6
<1> QED
  BY <1>2, <1>3, <1>6, <1>7

\* A crash drops every claim of the worker, and its lock.
LEMMA CrashKeeps ==
  ASSUME QueueOK, NEW w \in Workers, crash(w)
  PROVE  /\ worker' \in [Workers -> WorkerState]
         /\ worker'[w].todo = {} /\ worker'[w].pc = "idle"
         /\ \A v \in Workers \ {w} : worker'[v] = worker[v]
         /\ lock' = IF lock = w THEN None ELSE lock
         /\ UNCHANGED <<txn, lockLosses>>
<1>1. worker \in [Workers -> WorkerState]
  BY DEF QueueOK
<1>2. idle \in WorkerState /\ idle.todo = {} /\ idle.pc = "idle"
  BY DEF idle, WorkerState
<1>3. worker' = [worker EXCEPT ![w] = idle]
  BY DEF crash
<1>4. lock' = (IF lock = w THEN None ELSE lock) /\ UNCHANGED <<txn, lockLosses>>
  BY DEF crash
<1> QED
  BY <1>1, <1>2, <1>3, <1>4

\* Rows, workers and claims stay well formed.
LEMMA QueueStaysOK == QueueOK /\ [EfrisNext]_efrisVars => QueueOK'
<1> SUFFICES ASSUME QueueOK, [EfrisNext]_efrisVars PROVE QueueOK'
  OBVIOUS
<1>1. CASE \E r \in Rows : users(r) \/ elapse(r)
  BY <1>1, UserMoves DEF QueueOK
<1>2. ASSUME NEW w \in Workers, drainEfrisQueue(w) PROVE QueueOK'
  <2>1. \A v \in Workers :
          /\ worker'[v].pc = "idle" <=> worker'[v].todo = {}
          /\ \A c, d \in worker'[v].todo : c.row = d.row => c = d
    BY <1>2, DrainMoves DEF QueueOK
  <2> QED
    BY <1>2, <2>1, DrainMoves DEF QueueOK
<1>3. ASSUME NEW w \in Workers, SendMove(w) PROVE QueueOK'
  <2>1. \A v \in Workers :
          /\ worker'[v].pc = "idle" <=> worker'[v].todo = {}
          /\ \A c, d \in worker'[v].todo : c.row = d.row => c = d
    BY <1>3, SendKeeps DEF QueueOK
  <2> QED
    BY <1>3, <2>1, SendKeeps DEF QueueOK, SendMove
<1>4. ASSUME NEW w \in Workers, crash(w) PROVE QueueOK'
  <2>1. \A v \in Workers :
          /\ worker'[v].pc = "idle" <=> worker'[v].todo = {}
          /\ \A c, d \in worker'[v].todo : c.row = d.row => c = d
    BY <1>4, CrashKeeps DEF QueueOK
  <2>2. lock' \in Workers \cup {None}
    BY <1>4, CrashKeeps DEF QueueOK
  <2> QED
    BY <1>4, <2>1, <2>2, CrashKeeps DEF QueueOK
<1>5. ASSUME NEW w \in Workers, NEW st \in {"FISCALIZED", "FAILED", "RETRYING"},
             RecordMove(w, st)
      PROVE  QueueOK'
  <2>1. worker[w].pc # "idle" /\ nextClaim(w) /\ lockLosses' = lockLosses
    BY <1>5 DEF RecordMove
  <2>2. /\ worker' \in [Workers -> WorkerState]
        /\ worker'[w].todo \subseteq worker[w].todo
        /\ worker'[w].pc = "idle" <=> worker'[w].todo = {}
        /\ \A v \in Workers \ {w} : worker'[v] = worker[v]
        /\ lock' \in {lock, None}
    BY <2>1, NextClaimMoves
  <2>3. \A v \in Workers :
          /\ worker'[v].pc = "idle" <=> worker'[v].todo = {}
          /\ \A c, d \in worker'[v].todo : c.row = d.row => c = d
    BY <2>2 DEF QueueOK
  <2>4. txn' \in [Rows -> TxnRow]
    BY <1>5, RecordKeeps
  <2> QED
    BY <2>1, <2>2, <2>3, <2>4 DEF QueueOK
<1>6. CASE loseLock
  BY <1>6 DEF loseLock, QueueOK
<1>7. CASE UNCHANGED <<txn, worker, lock, lockLosses>>
  BY <1>7 DEF QueueOK
<1> QED
  BY <1>1, <1>2, <1>3, <1>4, <1>5, <1>6, <1>7, QueueSteps

\* Claims pass from worker to worker only through the lock.
LEMMA LockStaysKept == QueueOK /\ LockKept /\ [EfrisNext]_efrisVars => LockKept'
<1> SUFFICES ASSUME QueueOK, LockKept, [EfrisNext]_efrisVars, lockLosses' = 0,
                    NEW v \in Workers, worker'[v].todo # {}
             PROVE  lock' = v /\ \A c \in worker'[v].todo : txn'[c.row].status # "FISCALIZED"
  BY DEF LockKept
<1>1. /\ lockLosses \in Nat /\ lock \in Workers \cup {None}
      /\ None \notin Workers
      /\ \A c \in worker[v].todo : c.row \in Rows
  BY EfrisAssumption DEF QueueOK, WorkerState, Claim
<1>2. ASSUME lockLosses = 0, worker[v].todo # {}
      PROVE  lock = v /\ \A c \in worker[v].todo : txn[c.row].status # "FISCALIZED"
  BY <1>2 DEF LockKept
<1>3. CASE \E r \in Rows : users(r) \/ elapse(r)
  BY <1>1, <1>2, <1>3, UserMoves DEF UserMove
<1>4. ASSUME NEW w \in Workers, drainEfrisQueue(w)
      PROVE  lock' = v /\ \A c \in worker'[v].todo : txn'[c.row].status # "FISCALIZED"
  <2>1. CASE v = w
    BY <1>4, <2>1, DrainMoves
  <2>2. CASE v # w
    BY <1>1, <1>2, <1>4, <2>2, DrainMoves
  <2> QED
    BY <2>1, <2>2
<1>5. ASSUME NEW w \in Workers, SendMove(w)
      PROVE  lock' = v /\ \A c \in worker'[v].todo : txn'[c.row].status # "FISCALIZED"
  BY <1>2, <1>5, SendKeeps DEF SendMove
<1>6. ASSUME NEW w \in Workers, crash(w)
      PROVE  lock' = v /\ \A c \in worker'[v].todo : txn'[c.row].status # "FISCALIZED"
  BY <1>2, <1>6, CrashKeeps
<1>7. ASSUME NEW w \in Workers, NEW st \in {"FISCALIZED", "FAILED", "RETRYING"},
             RecordMove(w, st)
      PROVE  lock' = v /\ \A c \in worker'[v].todo : txn'[c.row].status # "FISCALIZED"
  <2>1. worker[w].pc # "idle" /\ nextClaim(w) /\ lockLosses = 0
    BY <1>7 DEF RecordMove
  <2>2. worker[w].todo # {} /\ lock = w
    BY <2>1 DEF QueueOK, LockKept
  <2>3. v = w
    <3>1. CASE v # w
      <4>1. worker[v].todo # {}
        BY <2>1, <3>1, NextClaimMoves
      <4> QED
        BY <1>2, <2>1, <2>2, <3>1, <4>1
    <3> QED
      BY <3>1
  <2>4. worker'[w].todo = worker[w].todo \ {current(w)} /\ lock' = lock
    BY <2>1, <2>3, NextClaimMoves
  <2>5. ASSUME NEW c \in worker'[w].todo PROVE txn'[c.row].status # "FISCALIZED"
    <3>1. c \in worker[w].todo /\ c # current(w) /\ current(w) \in worker[w].todo
      BY <1>7, <2>4, RecordKeeps
    <3>2. c.row # current(w).row /\ c.row \in Rows
      BY <1>1, <2>3, <3>1 DEF QueueOK
    <3>3. txn'[c.row] = txn[c.row]
      BY <1>7, <3>2, RecordKeeps
    <3> QED
      BY <1>2, <2>1, <2>3, <3>1, <3>3
  <2> QED
    BY <2>2, <2>3, <2>4, <2>5
<1>8. CASE loseLock
  BY <1>1, <1>8 DEF loseLock
<1>9. CASE UNCHANGED <<txn, worker, lock, lockLosses>>
  BY <1>2, <1>9
<1> QED
  BY <1>3, <1>4, <1>5, <1>6, <1>7, <1>8, <1>9, QueueSteps

\* The queue and its lock at every moment.
LEMMA QueueInvariant == EfrisSpec => [](QueueOK /\ LockKept)
<1>1. EfrisInit => QueueOK /\ LockKept
  <2> SUFFICES ASSUME EfrisInit PROVE QueueOK /\ LockKept
    OBVIOUS
  <2>1. idle \in WorkerState /\ idle.todo = {} /\ idle.pc = "idle"
    BY DEF idle, WorkerState
  <2>2. \A w \in Workers : worker[w] = idle
    BY DEF EfrisInit
  <2>3. txn \in [Rows -> TxnRow]
    BY DEF EfrisInit, TxnRow, TxnStatus
  <2>4. worker \in [Workers -> WorkerState] /\ lock \in Workers \cup {None} /\ lockLosses \in Nat
    BY <2>1 DEF EfrisInit
  <2> QED
    BY <2>1, <2>2, <2>3, <2>4 DEF QueueOK, LockKept
<1> QED
  BY <1>1, QueueStaysOK, LockStaysKept, PTL DEF EfrisSpec

-----------------------------------------------------------------------------
(* What becomes of a fiscalised and of a cancelled row *)

\* The advisory lock: as long as no lock connection was lost, no late answer,
\* failure or user moves a fiscalised row.
THEOREM FiscalizedForGood == EfrisSpec => FiscalizedStays
<1>1. ASSUME QueueOK, LockKept, [EfrisNext]_efrisVars, NEW r \in Rows,
             txn[r].status = "FISCALIZED", lockLosses = 0
      PROVE  txn'[r].status = "FISCALIZED"
  <2>1. CASE \E q \in Rows : users(q) \/ elapse(q)
    BY <1>1, <2>1, UserMoves DEF UserMove
  <2>2. ASSUME NEW w \in Workers, drainEfrisQueue(w) PROVE txn'[r].status = "FISCALIZED"
    BY <1>1, <2>2, DrainMoves DEF UserMove
  <2>3. ASSUME NEW w \in Workers, NEW st \in {"FISCALIZED", "FAILED", "RETRYING"},
               RecordMove(w, st)
        PROVE  txn'[r].status = "FISCALIZED"
    <3>1. current(w) \in worker[w].todo
      BY <1>1, <2>3, RecordKeeps
    <3>2. current(w).row # r
      BY <1>1, <3>1 DEF LockKept
    <3> QED
      BY <1>1, <2>3, <3>2, RecordKeeps
  <2>4. CASE \/ \E w \in Workers : SendMove(w) \/ crash(w)
             \/ loseLock \/ UNCHANGED <<txn, worker, lock, lockLosses>>
    BY <1>1, <2>4 DEF SendMove, crash, loseLock
  <2> QED
    BY <1>1, <2>1, <2>2, <2>3, <2>4, QueueSteps
<1>2. QueueOK /\ LockKept /\ [EfrisNext]_efrisVars =>
        [\A r \in Rows : txn[r].status = "FISCALIZED" /\ lockLosses = 0 =>
           txn'[r].status = "FISCALIZED"]_efrisVars
  BY <1>1
<1> QED
  BY <1>2, QueueInvariant, PTL DEF EfrisSpec, FiscalizedStays

\* archiveEfrisError and cancelEfrisTransaction: no user and no new claim brings
\* a cancelled row back; only a worker that already held it may overwrite it.
THEOREM CancelledForGood == EfrisSpec => CancelledUnlessHeld
<1>1. ASSUME QueueOK, [EfrisNext]_efrisVars, NEW r \in Rows, txn[r].status = "CANCELLED",
             \A w \in Workers : \A c \in worker[w].todo : c.row # r
      PROVE  txn'[r].status = "CANCELLED"
  <2>1. CASE \E q \in Rows : users(q) \/ elapse(q)
    BY <1>1, <2>1, UserMoves DEF UserMove
  <2>2. ASSUME NEW w \in Workers, drainEfrisQueue(w) PROVE txn'[r].status = "CANCELLED"
    BY <1>1, <2>2, DrainMoves DEF UserMove
  <2>3. ASSUME NEW w \in Workers, NEW st \in {"FISCALIZED", "FAILED", "RETRYING"},
               RecordMove(w, st)
        PROVE  txn'[r].status = "CANCELLED"
    <3>1. current(w) \in worker[w].todo
      BY <1>1, <2>3, RecordKeeps
    <3> QED
      BY <1>1, <2>3, <3>1, RecordKeeps
  <2>4. CASE \/ \E w \in Workers : SendMove(w) \/ crash(w)
             \/ loseLock \/ UNCHANGED <<txn, worker, lock, lockLosses>>
    BY <1>1, <2>4 DEF SendMove, crash, loseLock
  <2> QED
    BY <1>1, <2>1, <2>2, <2>3, <2>4, QueueSteps
<1>2. QueueOK /\ [EfrisNext]_efrisVars =>
        [\A r \in Rows :
           txn[r].status = "CANCELLED"
             /\ (\A w \in Workers : \A c \in worker[w].todo : c.row # r)
             => txn'[r].status = "CANCELLED"]_efrisVars
  BY <1>1
<1> QED
  BY <1>2, QueueInvariant, PTL DEF EfrisSpec, CancelledUnlessHeld

-----------------------------------------------------------------------------
(* A document has one live row *)

\* What is not live is never due: a FAILED row's next attempt is at infinity.
DeadNotDue == \A r \in Rows : txn[r].due => txn[r].status \in LiveStatuses

\* uq_efris_doc_live: no two live rows of one document.
LiveOnce ==
  \A r, q \in Rows : r # q /\ txn[r].doc = txn[q].doc =>
    ~(txn[r].status \in LiveStatuses /\ txn[q].status \in LiveStatuses)

\* Row r stays the row of its document and code, and comes to life in no way.
Keeps(r) ==
  /\ txn'[r].doc = txn[r].doc /\ txn'[r].code = txn[r].code
  /\ txn'[r].attempts >= txn[r].attempts
  /\ txn[r].status # "NONE" => txn'[r].status # "NONE"
  /\ txn'[r].status \in LiveStatuses => txn[r].status \in LiveStatuses
  /\ txn'[r].due => txn'[r].status \in LiveStatuses

\* Row r is registered or comes to life again, the index permitting; no other
\* row moves.
Enters(r) ==
  /\ indexAdmits(r, txn'[r].doc) /\ txn'[r].status \in LiveStatuses
  /\ \/ txn[r].status = "NONE"
     \/ /\ txn'[r].doc = txn[r].doc /\ txn'[r].code = txn[r].code
        /\ txn'[r].attempts = txn[r].attempts
  /\ \A q \in Rows \ {r} : txn'[q] = txn[q]

\* One row written.
LEMMA RowWritten ==
  ASSUME QueueOK, DeadNotDue, NEW r \in Rows, NEW x \in TxnRow,
         txn' = [txn EXCEPT ![r] = x]
  PROVE  /\ txn'[r] = x /\ \A q \in Rows \ {r} : txn'[q] = txn[q]
         /\ Keeps(r) => \A q \in Rows : Keeps(q)
<1>1. txn \in [Rows -> TxnRow]
  BY DEF QueueOK
<1>2. txn'[r] = x /\ \A q \in Rows \ {r} : txn'[q] = txn[q]
  BY <1>1
<1>3. ASSUME NEW q \in Rows \ {r} PROVE Keeps(q)
  <2>1. txn'[q] = txn[q] /\ txn[q].attempts \in Nat
    BY <1>1, <1>2 DEF TxnRow
  <2> QED
    BY <2>1 DEF Keeps, DeadNotDue
<1> QED
  BY <1>2, <1>3

\* register, requeue, cancel, archive and the passing of time.
LEMMA UserRows ==
  ASSUME QueueOK, DeadNotDue, NEW r \in Rows, users(r) \/ elapse(r)
  PROVE  (\A q \in Rows : Keeps(q)) \/ Enters(r)
<1>1. txn \in [Rows -> TxnRow] /\ txn[r] \in TxnRow /\ txn[r].attempts \in Nat
  BY DEF QueueOK, TxnRow
<1>2. CASE \E b \in Bodies[r] : register(r, b[1], b[2])
  <2>1. PICK d \in Docs, c \in Codes, st \in {"QUEUED", "PENDING"}, on \in BOOLEAN :
          /\ txn[r].status = "NONE" /\ indexAdmits(r, d)
          /\ txn' = [txn EXCEPT ![r] = [doc |-> d, code |-> c, status |-> st,
                                        enabled |-> on, attempts |-> 0, due |-> TRUE]]
    BY <1>2, NamedInBody DEF register
  <2> DEFINE x == [doc |-> d, code |-> c, status |-> st, enabled |-> on, attempts |-> 0,
                   due |-> TRUE]
  <2>2. x \in TxnRow /\ x.status \in LiveStatuses /\ x.doc = d
    BY DEF TxnRow, TxnStatus, LiveStatuses
  <2>3. txn' = [txn EXCEPT ![r] = x]
    BY <2>1
  <2> HIDE DEF x
  <2> QED
    BY <2>1, <2>2, <2>3, RowWritten DEF Enters
<1>3. CASE sync(r) \/ retryEfrisError(r)
  <2> DEFINE x == [txn[r] EXCEPT !.status = "QUEUED", !.enabled = TRUE, !.due = TRUE]
  <2>1. txn' = [txn EXCEPT ![r] = x] /\ indexAdmits(r, txn[r].doc)
    BY <1>1, <1>3 DEF sync, retryEfrisError, requeue
  <2>2. /\ x \in TxnRow /\ x.status \in LiveStatuses /\ x.doc = txn[r].doc
        /\ x.code = txn[r].code /\ x.attempts = txn[r].attempts
    BY <1>1 DEF TxnRow, TxnStatus, LiveStatuses
  <2> HIDE DEF x
  <2> QED
    BY <2>1, <2>2, RowWritten DEF Enters
<1>4. CASE setStatus(r, "CANCELLED", FALSE)
  <2> DEFINE x == [txn[r] EXCEPT !.status = "CANCELLED", !.due = FALSE]
  <2>1. txn' = [txn EXCEPT ![r] = x]
    BY <1>1, <1>4 DEF setStatus
  <2>2. /\ x \in TxnRow /\ x.status = "CANCELLED" /\ x.doc = txn[r].doc /\ x.due = FALSE
        /\ x.code = txn[r].code /\ x.attempts = txn[r].attempts
    BY <1>1 DEF TxnRow, TxnStatus
  <2> HIDE DEF x
  <2>3. Keeps(r)
    BY <1>1, <2>1, <2>2, RowWritten DEF Keeps, LiveStatuses
  <2> QED
    BY <2>1, <2>2, <2>3, RowWritten
<1>5. CASE elapse(r)
  <2> DEFINE x == [txn[r] EXCEPT !.due = TRUE]
  <2>1. txn' = [txn EXCEPT ![r] = x] /\ txn[r].status \in {"PROCESSING", "RETRYING"}
    BY <1>1, <1>5 DEF elapse
  <2>2. /\ x \in TxnRow /\ x.status = txn[r].status /\ x.doc = txn[r].doc
        /\ x.code = txn[r].code /\ x.attempts = txn[r].attempts
    BY <1>1 DEF TxnRow
  <2> HIDE DEF x
  <2>3. Keeps(r)
    BY <1>1, <2>1, <2>2, RowWritten DEF Keeps, LiveStatuses
  <2> QED
    BY <2>1, <2>2, <2>3, RowWritten
<1>6. CASE txn' = txn
  <2>1. ASSUME NEW q \in Rows PROVE Keeps(q)
    <3>1. txn'[q] = txn[q] /\ txn[q].attempts \in Nat
      BY <1>1, <1>6 DEF TxnRow
    <3> QED
      BY <3>1 DEF Keeps, DeadNotDue
  <2> QED
    BY <2>1
<1>7. CASE cancel(r) \/ archiveEfrisError(r)
  <2>1. setStatus(r, "CANCELLED", FALSE) \/ txn' = txn
    BY <1>7 DEF cancel, archiveEfrisError
  <2> QED
    BY <1>4, <1>6, <2>1
<1> QED
  BY <1>2, <1>3, <1>5, <1>7 DEF users

\* efris_claim_fiscal_batch: what it claims or re-queues was live before.
LEMMA DrainRows ==
  ASSUME QueueOK, DeadNotDue, NEW w \in Workers, drainEfrisQueue(w)
  PROVE  /\ \A r \in Rows : Keeps(r)
         /\ \A r \in claimed : txn'[r].attempts = txn[r].attempts + 1
<1>1. ASSUME NEW r \in Rows
      PROVE  Keeps(r) /\ (r \in claimed => txn'[r].attempts = txn[r].attempts + 1)
  <2>1. txn[r] \in TxnRow /\ txn[r].attempts \in Nat
    BY DEF QueueOK, TxnRow
  <2>2. txn'[r] = IF r \in claimed
                  THEN [txn[r] EXCEPT !.status = "PROCESSING", !.due = FALSE, !.attempts = @ + 1]
                  ELSE IF r \in claimable /\ txn[r].status = "PROCESSING"
                  THEN [txn[r] EXCEPT !.status = "QUEUED"]
                  ELSE txn[r]
    BY DEF drainEfrisQueue
  <2>3. CASE r \in claimed
    <3>1. txn[r].status \in LiveStatuses
      BY <2>3 DEF claimed, claimable, DeadNotDue
    <3>2. /\ txn'[r].status = "PROCESSING" /\ txn'[r].due = FALSE
          /\ txn'[r].doc = txn[r].doc /\ txn'[r].code = txn[r].code
          /\ txn'[r].attempts = txn[r].attempts + 1
      BY <2>1, <2>2, <2>3 DEF TxnRow
    <3> QED
      BY <2>1, <3>1, <3>2 DEF Keeps
  <2>4. CASE r \notin claimed /\ r \in claimable /\ txn[r].status = "PROCESSING"
    <3>1. /\ txn'[r].status = "QUEUED" /\ txn'[r].doc = txn[r].doc
          /\ txn'[r].code = txn[r].code /\ txn'[r].attempts = txn[r].attempts
      BY <2>1, <2>2, <2>4 DEF TxnRow
    <3> QED
      BY <2>1, <2>4, <3>1 DEF Keeps, LiveStatuses
  <2>5. CASE r \notin claimed /\ ~(r \in claimable /\ txn[r].status = "PROCESSING")
    <3>1. txn'[r] = txn[r]
      BY <2>2, <2>5
    <3> QED
      BY <2>1, <2>5, <3>1 DEF Keeps, DeadNotDue
  <2> QED
    BY <2>3, <2>4, <2>5
<1> QED
  BY <1>1 DEF claimed, claimable

\* recordOutcome, recordFailure: FISCALIZED and RETRYING only as the index
\* admits, FAILED always, or nothing.
LEMMA RecordRows ==
  ASSUME QueueOK, DeadNotDue, NEW w \in Workers,
         recordOutcome(w) \/ recordFailure(w) \/ recordFailureFails(w)
  PROVE  (\A q \in Rows : Keeps(q)) \/ Enters(current(w).row)
<1> DEFINE r == current(w).row
<1>1. worker[w].pc # "idle"
  BY DEF recordOutcome, recordFailure, recordFailureFails
<1>2. r \in Rows
  BY <1>1, CurrentHeld DEF QueueOK, WorkerState, Claim
<1>3. \/ txn' = txn
      \/ setStatus(r, "FAILED", FALSE)
      \/ /\ indexAdmits(r, txn[r].doc)
         /\ \E st \in {"FISCALIZED", "RETRYING"} : setStatus(r, st, FALSE)
  <2>1. CASE recordOutcome(w)
    BY <2>1 DEF recordOutcome, persistOutcome
  <2>2. CASE recordFailure(w)
    BY <2>2 DEF recordFailure
  <2>3. CASE recordFailureFails(w)
    BY <2>3 DEF recordFailureFails
  <2> QED
    BY <2>1, <2>2, <2>3
<1> HIDE DEF r
<1>4. txn \in [Rows -> TxnRow] /\ txn[r] \in TxnRow /\ txn[r].attempts \in Nat
  BY <1>2 DEF QueueOK, TxnRow
<1>5. ASSUME NEW st \in {"FAILED", "FISCALIZED", "RETRYING"}, setStatus(r, st, FALSE),
             st = "FAILED" \/ indexAdmits(r, txn[r].doc)
      PROVE  (\A q \in Rows : Keeps(q)) \/ Enters(r)
  <2> DEFINE x == [txn[r] EXCEPT !.status = st, !.due = FALSE]
  <2>1. txn' = [txn EXCEPT ![r] = x]
    BY <1>2, <1>4, <1>5 DEF setStatus
  <2>2. /\ x \in TxnRow /\ x.status = st /\ x.doc = txn[r].doc /\ x.due = FALSE
        /\ x.code = txn[r].code /\ x.attempts = txn[r].attempts
    BY <1>4 DEF TxnRow, TxnStatus, LiveStatuses
  <2> HIDE DEF x
  <2>3. txn'[r] = x /\ \A q \in Rows \ {r} : txn'[q] = txn[q]
    BY <1>2, <2>1, <2>2, RowWritten
  <2>4. CASE st = "FAILED"
    <3>1. Keeps(r)
      BY <1>4, <2>2, <2>3, <2>4 DEF Keeps, LiveStatuses
    <3> QED
      BY <1>2, <2>1, <2>2, <3>1, RowWritten
  <2>5. CASE st # "FAILED"
    BY <1>5, <2>2, <2>3, <2>5 DEF Enters, LiveStatuses
  <2> QED
    BY <2>4, <2>5
<1>6. ASSUME txn' = txn PROVE \A q \in Rows : Keeps(q)
  <2>1. ASSUME NEW q \in Rows PROVE Keeps(q)
    <3>1. txn'[q] = txn[q] /\ txn[q].attempts \in Nat
      BY <1>4, <1>6 DEF TxnRow
    <3> QED
      BY <3>1 DEF Keeps, DeadNotDue
  <2> QED
    BY <2>1
<1>7. ASSUME setStatus(r, "FAILED", FALSE)
      PROVE  (\A q \in Rows : Keeps(q)) \/ Enters(r)
  <2>1. "FAILED" \in {"FAILED", "FISCALIZED", "RETRYING"}
    OBVIOUS
  <2> QED
    BY <1>5, <1>7, <2>1
<1>8. ASSUME NEW st \in {"FISCALIZED", "RETRYING"}, setStatus(r, st, FALSE),
             indexAdmits(r, txn[r].doc)
      PROVE  (\A q \in Rows : Keeps(q)) \/ Enters(r)
  <2>1. st \in {"FAILED", "FISCALIZED", "RETRYING"}
    OBVIOUS
  <2> QED
    BY <1>5, <1>8, <2>1
<1>9. (\A q \in Rows : Keeps(q)) \/ Enters(r)
  BY <1>3, <1>6, <1>7, <1>8
<1> QED
  BY <1>9 DEF r

\* Every step either brings no row to life, or one row as the index admits.
LEMMA RowMoves ==
  ASSUME QueueOK, DeadNotDue, [EfrisNext]_efrisVars
  PROVE  (\A q \in Rows : Keeps(q)) \/ \E r \in Rows : Enters(r)
<1>1. CASE txn' = txn
  <2>1. ASSUME NEW q \in Rows PROVE Keeps(q)
    <3>1. txn'[q] = txn[q] /\ txn[q].attempts \in Nat
      BY <1>1 DEF QueueOK, TxnRow
    <3> QED
      BY <3>1 DEF Keeps, DeadNotDue
  <2> QED
    BY <2>1
<1>2. CASE \E r \in Rows : users(r) \/ elapse(r)
  BY <1>2, UserRows
<1>3. CASE \E w \in Workers : drainEfrisQueue(w)
  BY <1>3, DrainRows
<1>4. ASSUME NEW w \in Workers,
             recordOutcome(w) \/ recordFailure(w) \/ recordFailureFails(w)
      PROVE  (\A q \in Rows : Keeps(q)) \/ \E r \in Rows : Enters(r)
  <2>1. current(w).row \in Rows
    <3>1. worker[w].pc # "idle"
      BY <1>4 DEF recordOutcome, recordFailure, recordFailureFails
    <3> QED
      BY <3>1, CurrentHeld DEF QueueOK, WorkerState, Claim
  <2> QED
    BY <1>4, <2>1, RecordRows
<1>5. CASE \/ \E w \in Workers : submitFiscalDocument(w) \/ crash(w)
           \/ \E x \in requests : uraIssue(x)
           \/ loseLock \/ UNCHANGED efrisVars
  <2>1. txn' = txn
    BY <1>5 DEF submitFiscalDocument, crash, uraIssue, loseLock, efrisVars
  <2> QED
    BY <1>1, <2>1
<1> QED
  BY <1>2, <1>3, <1>4, <1>5 DEF EfrisNext, processRow

\* The unique index is never run into by a claim, which does not look at it.
LEMMA LiveStaysOnce ==
  ASSUME QueueOK, DeadNotDue, LiveOnce, [EfrisNext]_efrisVars
  PROVE  DeadNotDue' /\ LiveOnce'
<1>1. CASE \A q \in Rows : Keeps(q)
  BY <1>1 DEF Keeps, DeadNotDue, LiveOnce
<1>2. ASSUME NEW r \in Rows, Enters(r) PROVE DeadNotDue' /\ LiveOnce'
  <2>1. \A q \in Rows \ {r} :
          /\ txn'[q] = txn[q]
          /\ txn[q].doc = txn'[r].doc => txn[q].status \notin LiveStatuses
    BY <1>2 DEF Enters, indexAdmits
  <2>2. DeadNotDue'
    BY <1>2, <2>1 DEF Enters, DeadNotDue
  <2>3. LiveOnce'
    <3> SUFFICES ASSUME NEW p \in Rows, NEW q \in Rows, p # q, txn'[p].doc = txn'[q].doc,
                        txn'[p].status \in LiveStatuses, txn'[q].status \in LiveStatuses
                 PROVE  FALSE
      BY DEF LiveOnce
    <3>1. CASE p = r
      BY <2>1, <3>1
    <3>2. CASE q = r
      BY <2>1, <3>2
    <3>3. CASE p # r /\ q # r
      BY <2>1, <3>3 DEF LiveOnce
    <3> QED
      BY <3>1, <3>2, <3>3
  <2> QED
    BY <2>2, <2>3
<1> QED
  BY <1>1, <1>2, RowMoves

LEMMA LiveInvariant == EfrisSpec => [](DeadNotDue /\ LiveOnce)
<1>1. EfrisInit => DeadNotDue /\ LiveOnce
  BY DEF EfrisInit, DeadNotDue, LiveOnce, LiveStatuses
<1>2. QueueOK /\ DeadNotDue /\ LiveOnce /\ [EfrisNext]_efrisVars => (DeadNotDue /\ LiveOnce)'
  BY LiveStaysOnce
<1> QED
  BY <1>1, <1>2, QueueInvariant, PTL DEF EfrisSpec

\* efris_claim_fiscal_batch re-queues and claims whole batches in one statement
\* that does not ask whether the unique index admits it.  It never runs into
\* the index, which would fail the tick for every company: at most one row of
\* a document is live, through re-queueing, late outcomes and lost locks.
THEOREM OneLiveRow == EfrisSpec => []LiveOnce
  BY LiveInvariant, PTL

-----------------------------------------------------------------------------
(* Claims and the lock *)

\* The advisory lock is held only by a worker that has claims to work off.
LockWorks == lock # None => worker[lock].todo # {}

\* The holder of the lock stays at work until it gives the lock back.
LEMMA LockWorksStays ==
  ASSUME QueueOK, LockWorks, [EfrisNext]_efrisVars PROVE LockWorks'
<1> SUFFICES ASSUME lock' # None PROVE worker'[lock'].todo # {}
  BY DEF LockWorks
<1>0. /\ lock \in Workers \cup {None} /\ None \notin Workers
      /\ lock # None => worker[lock].todo # {}
  BY EfrisAssumption DEF QueueOK, LockWorks
<1>1. CASE \E r \in Rows : users(r) \/ elapse(r)
  BY <1>0, <1>1, UserMoves
<1>2. ASSUME NEW w \in Workers, drainEfrisQueue(w) PROVE worker'[lock'].todo # {}
  <2>1. lock' = w /\ (worker'[w].pc = "idle" <=> worker'[w].todo = {})
    BY <1>2, DrainMoves
  <2>2. worker' = [worker EXCEPT ![w] = [pc |-> "ready", todo |-> {claimOf(r) : r \in claimed}]]
    BY <1>2 DEF drainEfrisQueue
  <2>3. worker'[w].pc = "ready"
    BY <2>2 DEF QueueOK
  <2> QED
    BY <2>1, <2>3
<1>3. ASSUME NEW w \in Workers, SendMove(w) PROVE worker'[lock'].todo # {}
  BY <1>0, <1>3, SendKeeps DEF SendMove
<1>4. ASSUME NEW w \in Workers, crash(w) PROVE worker'[lock'].todo # {}
  BY <1>0, <1>4, CrashKeeps
<1>5. ASSUME NEW w \in Workers, NEW st \in {"FISCALIZED", "FAILED", "RETRYING"},
             RecordMove(w, st)
      PROVE  worker'[lock'].todo # {}
  <2>1. worker[w].pc # "idle" /\ nextClaim(w)
    BY <1>5 DEF RecordMove
  <2>2. lock' = lock
    BY <1>0, <2>1, NextClaimMoves
  <2>3. CASE lock = w
    <3>1. worker'[w].todo # {}
      <4>1. worker[w].todo \ {current(w)} # {}
        BY <2>1, <2>2, <2>3 DEF nextClaim
      <4> QED
        BY <2>1, <4>1, NextClaimMoves
    <3> QED
      BY <2>2, <2>3, <3>1
  <2>4. CASE lock # w
    BY <1>0, <2>1, <2>2, <2>4, NextClaimMoves
  <2> QED
    BY <2>3, <2>4
<1>6. CASE loseLock \/ UNCHANGED <<txn, worker, lock, lockLosses>>
  BY <1>0, <1>6 DEF loseLock
<1> QED
  BY <1>1, <1>2, <1>3, <1>4, <1>5, <1>6, QueueSteps

\* A row that waits to be claimed is due; only a claim and a retry are put off.
WaitingDue == \A r \in Rows : txn[r].status \in {"PENDING", "QUEUED"} => txn[r].due = TRUE

\* What makes a row wait makes it due.
LEMMA WaitingStaysDue ==
  ASSUME QueueOK, WaitingDue, [EfrisNext]_efrisVars PROVE WaitingDue'
<1>1. txn \in [Rows -> TxnRow]
  BY DEF QueueOK
<1>2. ASSUME NEW r \in Rows, NEW x, txn' = [txn EXCEPT ![r] = x],
             x.status \in {"PENDING", "QUEUED"} => x.due = TRUE
      PROVE  WaitingDue'
  <2>1. txn'[r] = x /\ \A q \in Rows \ {r} : txn'[q] = txn[q]
    BY <1>1, <1>2
  <2> QED
    BY <1>2, <2>1 DEF WaitingDue
<1>3. CASE txn' = txn
  BY <1>3 DEF WaitingDue
<1>4. ASSUME NEW r \in Rows, NEW st \in {"CANCELLED", "FISCALIZED", "FAILED", "RETRYING"},
             setStatus(r, st, FALSE)
      PROVE  WaitingDue'
  <2> DEFINE x == [txn[r] EXCEPT !.status = st, !.due = FALSE]
  <2>1. txn' = [txn EXCEPT ![r] = x]
    BY <1>1, <1>4 DEF setStatus
  <2>2. x.status \notin {"PENDING", "QUEUED"}
    BY <1>1 DEF TxnRow
  <2> HIDE DEF x
  <2> QED
    BY <1>2, <2>1, <2>2
<1>5. ASSUME NEW r \in Rows, users(r) \/ elapse(r) PROVE WaitingDue'
  <2>1. CASE \E b \in Bodies[r] : register(r, b[1], b[2])
    <3>1. PICK d \in Docs, c \in Codes, st \in {"QUEUED", "PENDING"}, on \in BOOLEAN :
            txn' = [txn EXCEPT ![r] = [doc |-> d, code |-> c, status |-> st,
                                       enabled |-> on, attempts |-> 0, due |-> TRUE]]
      BY <2>1, NamedInBody DEF register
    <3> DEFINE x == [doc |-> d, code |-> c, status |-> st, enabled |-> on, attempts |-> 0,
                     due |-> TRUE]
    <3>2. txn' = [txn EXCEPT ![r] = x] /\ x.due = TRUE
      BY <3>1
    <3> HIDE DEF x
    <3> QED
      BY <1>2, <3>2
  <2>2. CASE sync(r) \/ retryEfrisError(r)
    <3> DEFINE x == [txn[r] EXCEPT !.status = "QUEUED", !.enabled = TRUE, !.due = TRUE]
    <3>1. txn' = [txn EXCEPT ![r] = x]
      BY <1>1, <2>2 DEF sync, retryEfrisError, requeue
    <3>2. x.due = TRUE
      BY <1>1 DEF TxnRow
    <3> HIDE DEF x
    <3> QED
      BY <1>2, <3>1, <3>2
  <2>3. CASE elapse(r)
    <3> DEFINE x == [txn[r] EXCEPT !.due = TRUE]
    <3>1. txn' = [txn EXCEPT ![r] = x]
      BY <1>1, <2>3 DEF elapse
    <3>2. x.due = TRUE
      BY <1>1 DEF TxnRow
    <3> HIDE DEF x
    <3> QED
      BY <1>2, <3>1, <3>2
  <2>4. CASE cancel(r) \/ archiveEfrisError(r)
    <3>1. setStatus(r, "CANCELLED", FALSE) \/ txn' = txn
      BY <2>4 DEF cancel, archiveEfrisError
    <3> QED
      BY <1>3, <1>4, <3>1
  <2> QED
    BY <1>5, <2>1, <2>2, <2>3, <2>4 DEF users
<1>6. ASSUME NEW w \in Workers, drainEfrisQueue(w) PROVE WaitingDue'
  <2> SUFFICES ASSUME NEW r \in Rows, txn'[r].status \in {"PENDING", "QUEUED"}
               PROVE  txn'[r].due = TRUE
    BY DEF WaitingDue
  <2>1. txn'[r] = IF r \in claimed
                  THEN [txn[r] EXCEPT !.status = "PROCESSING", !.due = FALSE, !.attempts = @ + 1]
                  ELSE IF r \in claimable /\ txn[r].status = "PROCESSING"
                  THEN [txn[r] EXCEPT !.status = "QUEUED"]
                  ELSE txn[r]
    BY <1>6 DEF drainEfrisQueue
  <2>2. txn[r] \in TxnRow
    BY <1>1
  <2>3. r \notin claimed
    BY <2>1, <2>2 DEF TxnRow
  <2>4. CASE r \in claimable /\ txn[r].status = "PROCESSING"
    BY <2>1, <2>2, <2>3, <2>4 DEF claimable, TxnRow
  <2>5. CASE ~(r \in claimable /\ txn[r].status = "PROCESSING")
    BY <2>1, <2>3, <2>5 DEF WaitingDue
  <2> QED
    BY <2>4, <2>5
<1>7. ASSUME NEW w \in Workers, NEW st \in {"FISCALIZED", "FAILED", "RETRYING"},
             RecordMove(w, st)
      PROVE  WaitingDue'
  <2>1. current(w).row \in Rows
    BY <1>7, RecordKeeps
  <2>2. setStatus(current(w).row, st, FALSE) \/ txn' = txn
    BY <1>7 DEF RecordMove
  <2> QED
    BY <1>3, <1>4, <2>1, <2>2
<1>8. CASE \/ \E w \in Workers : SendMove(w) \/ crash(w)
           \/ loseLock \/ UNCHANGED <<txn, worker, lock, lockLosses>>
  BY <1>3, <1>8 DEF SendMove, crash, loseLock
<1> QED
  BY <1>5, <1>6, <1>7, <1>8, QueueSteps

\* Every row of an enabled company that is not settled can be claimed, at once
\* or when its claim or backoff has run out, and the lock a claim needs is free
\* or held by a worker with rows to work off.
NothingStranded ==
  /\ \A r \in Rows :
       txn[r].status \in {"PENDING", "QUEUED", "PROCESSING", "RETRYING"} /\ txn[r].enabled =>
         \/ r \in claimable
         \/ txn[r].status \in {"PROCESSING", "RETRYING"} /\ ~txn[r].due
  /\ LockWorks

\* efris_claim_fiscal_batch and drainEfrisQueue leave no row where no tick
\* finds it and no lock behind: the lock is given back after the last row, also
\* when the failure of that row could not be written, and a crash takes it along.
THEOREM QueueMovesOn == EfrisSpec => []NothingStranded
<1>1. EfrisInit => LockWorks /\ WaitingDue
  BY DEF EfrisInit, LockWorks, WaitingDue
<1>2. QueueOK /\ LockWorks /\ WaitingDue /\ [EfrisNext]_efrisVars => (LockWorks /\ WaitingDue)'
  BY LockWorksStays, WaitingStaysDue
<1>3. LockWorks /\ WaitingDue => NothingStranded
  BY DEF WaitingDue, NothingStranded, claimable
<1> QED
  BY <1>1, <1>2, <1>3, QueueInvariant, PTL DEF EfrisSpec

\* A worker's claims are of registered rows, at attempts these have made.
ClaimsMade ==
  \A w \in Workers : \A c \in worker[w].todo :
    txn[c.row].status # "NONE" /\ c.attempts \in 1..txn[c.row].attempts

\* A registered row stays registered as what it is and its attempts only grow.
LEMMA RowsOnlyGrow ==
  ASSUME QueueOK, DeadNotDue, [EfrisNext]_efrisVars, NEW r \in Rows, txn[r].status # "NONE"
  PROVE  /\ txn'[r].status # "NONE" /\ txn'[r].attempts >= txn[r].attempts
         /\ txn'[r].doc = txn[r].doc /\ txn'[r].code = txn[r].code
<1>1. CASE \A q \in Rows : Keeps(q)
  BY <1>1 DEF Keeps
<1>2. ASSUME NEW q \in Rows, Enters(q)
      PROVE  /\ txn'[r].status # "NONE" /\ txn'[r].attempts >= txn[r].attempts
             /\ txn'[r].doc = txn[r].doc /\ txn'[r].code = txn[r].code
  <2>1. txn[r].attempts \in Nat
    BY DEF QueueOK, TxnRow
  <2>2. CASE r # q
    BY <1>2, <2>1, <2>2 DEF Enters
  <2>3. CASE r = q
    BY <1>2, <2>1, <2>3 DEF Enters, LiveStatuses
  <2> QED
    BY <2>2, <2>3
<1> QED
  BY <1>1, <1>2, RowMoves

\* Only a claim adds to what a worker holds.
LEMMA ClaimsMoves ==
  ASSUME QueueOK, [EfrisNext]_efrisVars, NEW v \in Workers
  PROVE  worker'[v].todo \subseteq worker[v].todo \/ drainEfrisQueue(v)
<1>1. CASE \E r \in Rows : users(r) \/ elapse(r)
  BY <1>1, UserMoves
<1>2. ASSUME NEW w \in Workers, drainEfrisQueue(w)
      PROVE  worker'[v].todo \subseteq worker[v].todo \/ drainEfrisQueue(v)
  <2>1. v = w \/ worker'[v] = worker[v]
    BY <1>2, DrainMoves
  <2> QED
    BY <1>2, <2>1
<1>3. ASSUME NEW w \in Workers, SendMove(w) PROVE worker'[v].todo = worker[v].todo
  BY <1>3, SendKeeps
<1>4. ASSUME NEW w \in Workers, crash(w) PROVE worker'[v].todo \subseteq worker[v].todo
  BY <1>4, CrashKeeps
<1>5. ASSUME NEW w \in Workers, NEW st \in {"FISCALIZED", "FAILED", "RETRYING"},
             RecordMove(w, st)
      PROVE  worker'[v].todo \subseteq worker[v].todo
  <2>1. worker[w].pc # "idle" /\ nextClaim(w)
    BY <1>5 DEF RecordMove
  <2> QED
    BY <2>1, NextClaimMoves
<1>6. CASE loseLock \/ UNCHANGED <<txn, worker, lock, lockLosses>>
  BY <1>6 DEF loseLock
<1> QED
  BY <1>1, <1>2, <1>3, <1>4, <1>5, <1>6, QueueSteps

\* A claim carries the attempt that the claiming statement counted.
LEMMA ClaimsStayMade ==
  ASSUME QueueOK, DeadNotDue, ClaimsMade, [EfrisNext]_efrisVars PROVE ClaimsMade'
<1> SUFFICES ASSUME NEW v \in Workers, NEW c \in worker'[v].todo
             PROVE  txn'[c.row].status # "NONE" /\ c.attempts \in 1..txn'[c.row].attempts
  BY DEF ClaimsMade
<1>1. QueueOK'
  BY QueueStaysOK
<1>2. c \in Claim /\ c.row \in Rows /\ c.attempts \in Nat
  BY <1>1 DEF QueueOK, WorkerState, Claim
<1>3. txn[c.row].attempts \in Nat /\ txn'[c.row].attempts \in Nat
  BY <1>1, <1>2 DEF QueueOK, TxnRow
<1>4. CASE c \in worker[v].todo
  <2>1. txn[c.row].status # "NONE" /\ c.attempts \in 1..txn[c.row].attempts
    BY <1>4 DEF ClaimsMade
  <2>2. txn'[c.row].status # "NONE" /\ txn'[c.row].attempts >= txn[c.row].attempts
    BY <1>2, <2>1, RowsOnlyGrow
  <2> QED
    BY <1>2, <1>3, <2>1, <2>2
<1>5. CASE drainEfrisQueue(v)
  <2>1. worker'[v].todo = {claimOf(r) : r \in claimed}
    <3>1. worker' = [worker EXCEPT ![v] = [pc |-> "ready", todo |-> {claimOf(r) : r \in claimed}]]
      BY <1>5 DEF drainEfrisQueue
    <3> QED
      BY <3>1 DEF QueueOK
  <2>2. PICK r \in claimed : c = claimOf(r)
    BY <2>1
  <2>3. c.row = r /\ c.attempts = txn[r].attempts + 1
    BY <2>2 DEF claimOf
  <2>4. txn'[r].attempts = txn[r].attempts + 1
    BY <1>5, DrainRows
  <2>5. txn'[c.row].status = "PROCESSING"
    BY <1>5, DrainMoves
  <2> QED
    BY <1>2, <1>3, <2>3, <2>4, <2>5
<1> QED
  BY <1>4, <1>5, ClaimsMoves

\* Errors are counted up by recordFailure and resolved one at a time.
LEMMA ErrorsCount ==
  ASSUME QueueOK, errors \in [Rows -> Nat], [EfrisNext]_efrisVars
  PROVE  errors' \in [Rows -> Nat]
<1>1. ASSUME NEW r \in Rows, users(r) \/ elapse(r) PROVE errors' \in [Rows -> Nat]
  <2>1. errors' = errors \/ (errors[r] > 0 /\ errors' = [errors EXCEPT ![r] = @ - 1])
    BY <1>1 DEF users, register, sync, retryEfrisError, requeue, cancel,
       archiveEfrisError, elapse
  <2>2. errors[r] > 0 => errors[r] - 1 \in Nat
    OBVIOUS
  <2> QED
    BY <2>1, <2>2
<1>2. ASSUME NEW w \in Workers, recordFailure(w) PROVE errors' \in [Rows -> Nat]
  <2>1. current(w).row \in Rows
    <3>1. worker[w].pc # "idle"
      BY <1>2 DEF recordFailure
    <3> QED
      BY <3>1, CurrentHeld DEF QueueOK, WorkerState, Claim
  <2>2. errors' = errors \/ errors' = [errors EXCEPT ![current(w).row] = @ + 1]
    BY <1>2 DEF recordFailure
  <2> QED
    BY <2>1, <2>2
<1>3. CASE \/ \E w \in Workers : \/ drainEfrisQueue(w) \/ submitFiscalDocument(w)
                                 \/ recordOutcome(w) \/ recordFailureFails(w) \/ crash(w)
           \/ \E x \in requests : uraIssue(x)
           \/ loseLock \/ UNCHANGED efrisVars
  <2>1. errors' = errors
    BY <1>3 DEF drainEfrisQueue, submitFiscalDocument, recordOutcome, persistOutcome,
       recordFailureFails, crash, uraIssue, loseLock, efrisVars
  <2> QED
    BY <2>1
<1> QED
  BY <1>1, <1>2, <1>3 DEF EfrisNext, processRow

\* efris_claim_fiscal_batch and its workers: whatever crashes and lost locks
\* leave behind, a worker holds only rows that were registered, at an attempt
\* counted on the row, which givesUp compares with max_attempts.
THEOREM EfrisTypes == EfrisSpec => []EfrisTypeOK
<1>1. EfrisInit => ClaimsMade /\ errors \in [Rows -> Nat]
  BY DEF EfrisInit, ClaimsMade, idle
<1>2. QueueOK /\ DeadNotDue /\ ClaimsMade /\ errors \in [Rows -> Nat] /\ [EfrisNext]_efrisVars
        => (ClaimsMade /\ errors \in [Rows -> Nat])'
  BY ClaimsStayMade, ErrorsCount
<1>3. QueueOK /\ ClaimsMade /\ errors \in [Rows -> Nat] => EfrisTypeOK
  <2> SUFFICES ASSUME QueueOK, ClaimsMade, errors \in [Rows -> Nat] PROVE EfrisTypeOK
    OBVIOUS
  <2>1. ASSUME NEW r \in Rows
        PROVE  /\ txn[r].doc \in Docs \cup {None} /\ txn[r].code \in Codes \cup {None}
               /\ txn[r].status \in LiveStatuses \cup {"NONE", "FAILED", "CANCELLED"}
               /\ txn[r].due \in BOOLEAN /\ txn[r].enabled \in BOOLEAN
               /\ txn[r].attempts \in Nat /\ errors[r] \in Nat
    BY DEF QueueOK, TxnRow, TxnStatus
  <2>2. ASSUME NEW w \in Workers
        PROVE  /\ worker[w].pc \in {"idle", "ready", "sent", "conflict"}
               /\ worker[w].pc = "idle" <=> worker[w].todo = {}
               /\ \A c \in worker[w].todo : c.row \in Rows
    BY DEF QueueOK, WorkerState, Claim
  <2> QED
    BY <2>1, <2>2 DEF EfrisTypeOK, ClaimsMade, QueueOK
<1> QED
  BY <1>1, <1>2, <1>3, QueueInvariant, LiveInvariant, PTL DEF EfrisSpec

-----------------------------------------------------------------------------
(* A document has one fiscal number, unless it is registered under another code *)

\* stableExchangeId hashes the document and its code and nothing of the attempt.
ExchangeId == [doc : Docs \cup {None}, code : Codes \cup {None}, nonce : {0}]

\* The number a fiscalised row carries.
Genuine ==
  /\ document \in [Rows -> {None} \cup ExchangeId]
  /\ \A r \in Rows : txn[r].status = "FISCALIZED" =>
       document[r] \in issued /\ registeredAs(r, document[r])

\* Every request is of a registration, and names nothing else.
Stable ==
  /\ issued \subseteq requests
  /\ \A x \in requests : x \in ExchangeId /\ \E r \in Rows : registeredAs(r, x)

LEMMA StableStays ==
  ASSUME QueueOK, DeadNotDue, ClaimsMade, Stable, [EfrisNext]_efrisVars
  PROVE  Stable'
<1>0. ASSUME NEW x, NEW r \in Rows, registeredAs(r, x) PROVE registeredAs(r, x)'
  BY <1>0, RowsOnlyGrow DEF registeredAs
<1>1. ASSUME NEW w \in Workers, submitFiscalDocument(w) PROVE Stable'
  <2> DEFINE r == current(w).row
             x == stableExchangeId(current(w))
  <2>1. worker[w].pc # "idle" /\ txn' = txn
    BY <1>1 DEF submitFiscalDocument
  <2>2. r \in Rows /\ txn[r].status # "NONE"
    BY <2>1, CurrentHeld DEF QueueOK, WorkerState, Claim, ClaimsMade
  <2>3. x \in ExchangeId /\ x.doc = txn[r].doc /\ x.code = txn[r].code
    BY <2>2 DEF stableExchangeId, ExchangeId, QueueOK, TxnRow
  <2>4. requests' = requests \cup {x} /\ issued' = issued
    BY <1>1 DEF submitFiscalDocument
  <2> HIDE DEF r, x
  <2>5. registeredAs(r, x)
    BY <2>2, <2>3 DEF registeredAs
  <2> QED
    BY <1>0, <2>2, <2>3, <2>4, <2>5 DEF Stable
<1>2. ASSUME NEW x \in requests, uraIssue(x) PROVE Stable'
  BY <1>0, <1>2 DEF uraIssue, Stable
<1>3. CASE UNCHANGED <<requests, issued>>
  BY <1>0, <1>3 DEF Stable
<1>4. \/ \E w \in Workers : submitFiscalDocument(w)
      \/ \E x \in requests : uraIssue(x)
      \/ UNCHANGED <<requests, issued>>
  BY DEF EfrisNext, users, register, sync, retryEfrisError, requeue, cancel,
     archiveEfrisError, elapse, drainEfrisQueue, processRow, recordOutcome,
     persistOutcome, recordFailure, recordFailureFails, crash, loseLock, efrisVars
<1> QED
  BY <1>1, <1>2, <1>3, <1>4

\* Only recordOutcome fiscalises a row, with the number it then carries.
LEMMA GenuineStays ==
  ASSUME QueueOK, DeadNotDue, ClaimsMade, Genuine, [EfrisNext]_efrisVars
  PROVE  Genuine'
<1> DEFINE Same == document' = document /\ issued \subseteq issued'
           SameRow(r) == txn'[r].doc = txn[r].doc /\ txn'[r].code = txn[r].code
           OfRow(r) == txn'[r].status = "FISCALIZED" =>
                         txn[r].status = "FISCALIZED" /\ SameRow(r)
<1>1. ASSUME Same, \A r \in Rows : OfRow(r) PROVE Genuine'
  BY <1>1 DEF Genuine, registeredAs
<1>2. ASSUME NEW r \in Rows, txn[r].status = "FISCALIZED" PROVE SameRow(r)
  BY <1>2, RowsOnlyGrow
<1>3. ASSUME Same, \A r \in Rows : UserMove(r) PROVE Genuine'
  BY <1>1, <1>2, <1>3 DEF UserMove
<1>4. ASSUME NEW r \in Rows, users(r) \/ elapse(r) PROVE Genuine'
  <2>1. Same
    BY <1>4 DEF users, register, sync, retryEfrisError, requeue, cancel,
       archiveEfrisError, elapse
  <2> QED
    BY <1>3, <1>4, <2>1, UserMoves
<1>5. ASSUME NEW w \in Workers, drainEfrisQueue(w) PROVE Genuine'
  <2>1. Same
    BY <1>5 DEF drainEfrisQueue
  <2> QED
    BY <1>3, <1>5, <2>1, DrainMoves
<1>6. ASSUME Same, txn' = txn PROVE Genuine'
  BY <1>1, <1>6
<1>7. ASSUME NEW w \in Workers, recordFailure(w) PROVE Genuine'
  <2>1. Same /\ worker[w].pc # "idle"
    BY <1>7 DEF recordFailure
  <2>2. PICK st \in {"FAILED", "RETRYING"} :
          setStatus(current(w).row, st, FALSE) \/ txn' = txn
    BY <1>7 DEF recordFailure
  <2>3. RecordMove(w, st)
    BY <1>7, <2>2 DEF RecordMove, recordFailure
  <2>4. ASSUME NEW r \in Rows PROVE UserMove(r) \/ txn'[r].status # "FISCALIZED"
    BY <2>3, RecordKeeps DEF UserMove
  <2> QED
    BY <1>1, <1>2, <2>1, <2>4 DEF UserMove
<1>8. ASSUME NEW w \in Workers, recordOutcome(w) PROVE Genuine'
  <2> DEFINE q == current(w).row
             x == stableExchangeId(current(w))
  <2>1. worker[w].pc # "idle" /\ x \in issued /\ issued' = issued
    BY <1>8 DEF recordOutcome, persistOutcome
  <2>2. CASE UNCHANGED <<txn, document>>
    BY <1>6, <2>1, <2>2
  <2>3. CASE document' = [document EXCEPT ![q] = x] /\ RecordMove(w, "FISCALIZED")
    <3>1. q \in Rows /\ \A r \in Rows \ {q} : txn'[r] = txn[r]
      BY <2>3, RecordKeeps
    <3>2. x.doc = txn[q].doc /\ x.code = txn[q].code
      BY DEF stableExchangeId
    <3>3. txn[q].status # "NONE"
      BY <2>1, CurrentHeld DEF QueueOK, WorkerState, Claim, ClaimsMade
    <3>4. SameRow(q) /\ txn'[q].status # "NONE"
      BY <3>1, <3>3, RowsOnlyGrow
    <3>5. x \in ExchangeId
      BY <3>1 DEF QueueOK, TxnRow, stableExchangeId, ExchangeId
    <3> HIDE DEF q, x
    <3>6. /\ document'[q] = x /\ \A r \in Rows \ {q} : document'[r] = document[r]
          /\ document' \in [Rows -> {None} \cup ExchangeId]
      BY <2>3, <3>1, <3>5 DEF Genuine
    <3> QED
      BY <2>1, <3>1, <3>2, <3>4, <3>6 DEF Genuine, registeredAs
  <2> QED
    BY <1>8, <2>2, <2>3 DEF recordOutcome, persistOutcome, RecordMove
<1>9. CASE \/ \E w \in Workers :
                submitFiscalDocument(w) \/ recordFailureFails(w) \/ crash(w)
           \/ \E x \in requests : uraIssue(x)
           \/ loseLock \/ UNCHANGED efrisVars
  <2>1. Same /\ txn' = txn
    BY <1>9 DEF submitFiscalDocument, recordFailureFails, crash, uraIssue, loseLock, efrisVars
  <2> QED
    BY <1>6, <2>1
<1> QED
  BY <1>4, <1>5, <1>7, <1>8, <1>9 DEF EfrisNext, processRow

\* stableExchangeId: every attempt, of whichever worker, crash or lock, sends
\* URA the identifier of the first request, so that a document gets a second
\* number only by a registration under another code, one of the two having
\* failed or been cancelled; the number a fiscalised row carries is its own.
THEOREM OneFiscalNumber == EfrisSpec => []OneFdnUnlessRecoded
<1> DEFINE Inv == ClaimsMade /\ Stable /\ Genuine
<1>1. EfrisInit => Inv
  BY DEF EfrisInit, ClaimsMade, idle, Stable, Genuine
<1>2. QueueOK /\ DeadNotDue /\ Inv /\ [EfrisNext]_efrisVars => Inv'
  BY ClaimsStayMade, StableStays, GenuineStays
<1>3. QueueOK /\ LiveOnce /\ Inv => OneFdnUnlessRecoded
  <2> SUFFICES ASSUME QueueOK, LiveOnce, Inv, NEW x \in issued, NEW y \in issued,
                      x.doc = y.doc, x # y
               PROVE  /\ x.code # y.code
                      /\ \E r, q \in Rows :
                           /\ registeredAs(r, x) /\ registeredAs(q, y)
                           /\ {"FAILED", "CANCELLED"} \cap {txn[r].status, txn[q].status} # {}
    BY DEF Genuine, OneFdnUnlessRecoded
  <2>1. x \in ExchangeId /\ y \in ExchangeId
    BY DEF Stable
  <2>2. x.code # y.code
    BY <2>1 DEF ExchangeId
  <2>3. PICK r \in Rows, q \in Rows : registeredAs(r, x) /\ registeredAs(q, y)
    BY DEF Stable
  <2>4. r # q /\ txn[r].doc = txn[q].doc
    BY <2>2, <2>3 DEF registeredAs
  <2>5. txn[r].status \in TxnStatus \ {"NONE"} /\ txn[q].status \in TxnStatus \ {"NONE"}
    BY <2>3 DEF registeredAs, QueueOK, TxnRow
  <2>6. txn[r].status \in {"FAILED", "CANCELLED"} \/ txn[q].status \in {"FAILED", "CANCELLED"}
    BY <2>4, <2>5 DEF LiveOnce, TxnStatus
  <2> QED
    BY <2>2, <2>3, <2>6
<1> QED
  BY <1>1, <1>2, <1>3, QueueInvariant, LiveInvariant, PTL DEF EfrisSpec

=============================================================================
