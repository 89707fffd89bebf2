---------------------------- MODULE CrudApproval ----------------------------
(***************************************************************************)
(* Documents driven through the generic record routes                      *)
(* (apps/api/src/routes/crudFactory.ts) whose approval posts to a ledger:  *)
(* customer invoices.  PATCH, submit, void, the execute step of the        *)
(* approval engine and the module's own post route all work on one row.    *)
(***************************************************************************)
EXTENDS Workflow, Sequences

CONSTANTS
  Submitters,      \* users who hold the submit permission
  FinalAuthority,  \* users who hold one of SELF_AUTHORIZE_ROLES
  AmountOf,        \* [Versions -> Amounts]: the total column of the content
  NoVersion,       \* no submit request in flight
  PostFrom,        \* statuses the posting service accepts (APPROVED, POSTED)
  MaxPostings      \* bound: postings followed

ASSUME CrudAssumption ==
  /\ Submitters \subseteq Users /\ FinalAuthority \subseteq Users
  /\ AmountOf \in [Versions -> Amounts]
  /\ NoVersion \notin Versions
  /\ {"POSTED", "VOID"} \subseteq Statuses
  /\ PostFrom \subseteq {"APPROVED", "POSTED"}
  /\ MaxPostings \in Nat

VARIABLES
  glPosted,  \* gl_posted
  ledger,    \* what was posted for the document, in order
  reading    \* content read by a submit request that has not written yet

crudVars == <<status, version, inst, task, active, cron, glPosted, ledger,
              reading>>

Posting == [version : Versions, by : Users, self : BOOLEAN]

-----------------------------------------------------------------------------
(* postSalesInvoice, run on a row whose status is st *)

\* Mutant: posting is not idempotent on gl_posted.
runApprovalSideEffect_NoGlCheck(u, st, self) ==
  /\ st \in PostFrom
  /\ Len(ledger) < MaxPostings
  /\ status' = "POSTED"
  /\ glPosted' = TRUE
  /\ ledger' = Append(ledger, [version |-> version, by |-> u, self |-> self])

\* Mutant: posting accepts any status.
runApprovalSideEffect_AnyStatus(u, st, self) ==
  IF glPosted
  THEN status' = st /\ UNCHANGED <<glPosted, ledger>>
  ELSE /\ Len(ledger) < MaxPostings
       /\ status' = "POSTED"
       /\ glPosted' = TRUE
       /\ ledger' = Append(ledger, [version |-> version, by |-> u, self |-> self])

runApprovalSideEffect(u, st, self) ==
  IF glPosted
  THEN status' = st /\ UNCHANGED <<glPosted, ledger>>
  ELSE /\ st \in PostFrom
       /\ Len(ledger) < MaxPostings
       /\ status' = "POSTED"
       /\ glPosted' = TRUE
       /\ ledger' = Append(ledger, [version |-> version, by |-> u, self |-> self])

\* The submit route reads the row without a lock ...
submitRead(u) ==
  /\ reading[u] = NoVersion
  /\ reading' = [reading EXCEPT ![u] = version]
  /\ UNCHANGED <<vars, glPosted, ledger>>

selfAuthorizeAndPost(u) ==
  /\ runApprovalSideEffect(u, "APPROVED", TRUE)
  /\ UNCHANGED <<version, inst, task, active, cron>>

\* ... then sets SUBMITTED whatever the status was, and starts the workflow with
\* the total of the row it read.  A final authority's submission is approved
\* and posted at once, with no chain.
submitWrite(u) ==
  /\ reading[u] # NoVersion
  /\ reading' = [reading EXCEPT ![u] = NoVersion]
  /\ \/ u \in FinalAuthority /\ selfAuthorizeAndPost(u)
     \/ /\ u \notin FinalAuthority
        /\ \E i \in Instances : startWorkflow(i, AmountOf[reading[u]])
        /\ status' = "SUBMITTED"
        /\ UNCHANGED <<glPosted, ledger>>

\* The request throws (no covering step, posting refused) and rolls back.
submitRollback(u) ==
  /\ reading[u] # NoVersion
  /\ reading' = [reading EXCEPT ![u] = NoVersion]
  /\ UNCHANGED <<vars, glPosted, ledger>>

\* PATCH /:id has no status guard: it edits a posted document too.
patch ==
  /\ \E v \in Versions : editDocument(v)
  /\ UNCHANGED <<glPosted, ledger, reading>>

\* POST /:id/void: an unconditional status write.
registerTransition ==
  /\ status' = "VOID"
  /\ UNCHANGED <<version, inst, task, active, cron, glPosted, ledger, reading>>

\* Mutant: the execute route does not ask who decided the tasks.
executeDocument_Anyone ==
  /\ \E u \in Users, i \in Instances :
       /\ inst[i].status = "EXECUTION_PENDING"
       /\ inst' = [inst EXCEPT ![i].status = "EXECUTED", ![i].executedBy = u]
       /\ runApprovalSideEffect(u, status, FALSE)
  /\ UNCHANGED <<version, task, active, cron, reading>>

executeDocument ==
  /\ \E u \in Users, i \in Instances :
       executeWorkflow(u, i) /\ runApprovalSideEffect(u, status, FALSE)
  /\ UNCHANGED reading

\* POST /invoices/:id/post.
postRoute ==
  /\ \E u \in Users : runApprovalSideEffect(u, status, FALSE)
  /\ UNCHANGED <<version, inst, task, active, cron, reading>>

CrudInit ==
  /\ Init
  /\ glPosted = FALSE
  /\ ledger = <<>>
  /\ reading = [u \in Submitters |-> NoVersion]

engineStep ==
  /\ decide \/ escalation \/ delegationChange
  /\ UNCHANGED <<glPosted, ledger, reading>>

CrudNext ==
  \/ \E u \in Submitters : submitRead(u) \/ submitWrite(u) \/ submitRollback(u)
  \/ patch \/ registerTransition \/ executeDocument \/ postRoute \/ engineStep

CrudSpec == CrudInit /\ [][CrudNext]_crudVars

-----------------------------------------------------------------------------
(* Properties *)

\* Shape of the row, the ledger it posts to and the submit requests in flight
\* (invoices table, crudFactory's submit route).
CrudTypeOK ==
  /\ TypeOK
  /\ glPosted \in BOOLEAN
  /\ ledger \in Seq(Posting) /\ Len(ledger) <= MaxPostings
  /\ reading \in [Submitters -> Versions \cup {NoVersion}]

\* gl_posted makes posting idempotent: however often the document is submitted,
\* approved, executed, posted by hand or self-authorized, one journal exists.
PostedAtMostOnce == Len(ledger) <= 1

\* Nothing reaches the ledger on a status alone: a posting that was not a final
\* authority's own is backed by some chain of the document every applicable
\* stage of which was approved, by distinct people other than the owner.
ChainComplete(i) ==
  /\ inst[i].status # "NONE"
  /\ \A s \in Applicable(inst[i].amount) : task[i][s].status = "APPROVED"
  /\ \A r, s \in Applicable(inst[i].amount) :
       r # s => task[i][r].decidedBy # task[i][s].decidedBy
  /\ Owner \notin {task[i][s].decidedBy : s \in Applicable(inst[i].amount)}

PostingBacked ==
  \A k \in DOMAIN ledger :
    ~ledger[k].self => \E i \in Instances : ChainComplete(i)
=============================================================================
