------------------------------ MODULE Workflow ------------------------------
(***************************************************************************)
(* The generic approval engine (apps/api/src/services/workflow.ts).        *)
(*                                                                         *)
(* One business document, its status column, its material content, and the *)
(* workflow_instances / approval_tasks rows that were ever opened for it.  *)
(* Every engine entry point runs in one database transaction that locks    *)
(* the rows it decides on, so each is one action.  The specification of    *)
(* this module leaves the document's own lifecycle open (lifecycleStep,    *)
(* any amount at submission); CrudApproval and RequisitionLifecycle fix it *)
(* and are shown to implement this specification.  The record routes on    *)
(* workflow_instances (registry.ts:267), with which an administrator can   *)
(* insert an instance or PATCH its columns other than status, are left     *)
(* out: they write rows no engine call has made.                           *)
(***************************************************************************)
EXTENDS Integers, FiniteSets

CONSTANTS
  Users,           \* people who hold an account
  NoUser,          \* SQL NULL in a user column
  Owner,           \* value of the entity's ownerColumn; NoUser if it has none
  Roles,           \* role codes that exist for the company
  RoleHolders,     \* [Roles -> SUBSET Users], ACTIVE unexpired user_roles
  Delegations,     \* delegations governance may activate
  Steps,           \* step_seq values of the configured chain
  ApproverRoles,   \* [Steps -> role codes the step names, first two of its list]
  ApproverUser,    \* [Steps -> Users \cup {NoUser}]
  AmountMin,       \* [Steps -> amount], Null where the step sets none
  AmountMax,       \* [Steps -> amount], Null where the step sets none
  Amounts,         \* amounts a submission may carry, Null allowed
  Versions,        \* material contents of the document (its hash)
  Instances,       \* bound: ids of the instances that may be opened
  Delegatees,      \* bound: users a task may be handed to
  Statuses,        \* CHECK constraint on the document's status column
  NeedsExecution   \* onApprove is 'post' or 'release'

Null == -1

VARIABLES
  status,   \* the document's status column
  version,  \* the document's material content
  inst,     \* workflow_instances
  task,     \* approval_tasks: task[i][s] is the last task of step s
  active,   \* delegations that are ACTIVE and inside their window
  cron      \* rows the escalation job has read and not yet updated

engineVars == <<inst, task, active, cron>>
vars == <<status, version, inst, task, active, cron>>

-----------------------------------------------------------------------------
(* Rows *)

OpenTask == {"PENDING", "ESCALATED"}
LiveInstance == {"RUNNING", "ESCALATED"}
Signed == {"APPROVED", "REJECTED", "RETURNED"}
FullySigned == {"APPROVED", "EXECUTION_PENDING", "EXECUTED"}

TaskStatus == OpenTask \cup Signed \cup {"NONE"}
InstanceStatus ==
  LiveInstance \cup FullySigned \cup {"NONE", "REJECTED", "CANCELLED"}

(* A chain of DELEGATED rows followed by the step's current row is kept as *)
(* the current row plus the users (handedBy) who decided the earlier ones. *)
Task == [status : TaskStatus, roles : SUBSET Roles,
         user : Users \cup {NoUser}, decidedBy : Users \cup {NoUser},
         handedBy : SUBSET Users]

Instance == [status : InstanceStatus, step : Nat, amount : Amounts,
             hash : Versions, executedBy : Users \cup {NoUser}]

Delegation == [delegate : Users, role : Roles, limit : Int,
               authorities : SUBSET [covers : BOOLEAN, max : Int]]

ASSUME ConstantsAssumption ==
  /\ NoUser \notin Users
  /\ Owner \in Users \cup {NoUser}
  /\ RoleHolders \in [Roles -> SUBSET Users]
  /\ Delegations \subseteq Delegation
  /\ Steps \subseteq Nat
  /\ \A s \in Steps : IsFiniteSet(ApproverRoles[s])
  /\ ApproverUser \in [Steps -> Users \cup {NoUser}]
  /\ AmountMin \in [Steps -> Int] /\ AmountMax \in [Steps -> Int]
  /\ Amounts \subseteq Int /\ Amounts # {}
  /\ Instances \subseteq Nat
  /\ Delegatees \subseteq Users
  /\ {"DRAFT", "SUBMITTED", "APPROVED"} \subseteq Statuses
  /\ NeedsExecution \in BOOLEAN

NoTask == [status |-> "NONE", roles |-> {}, user |-> NoUser,
           decidedBy |-> NoUser, handedBy |-> {}]

NoInstance == [status |-> "NONE", step |-> 1,
               amount |-> CHOOSE a \in Amounts : TRUE,
               hash |-> CHOOSE v \in Versions : TRUE, executedBy |-> NoUser]

-----------------------------------------------------------------------------
(* startWorkflow *)

\* steps.filter(amount_min / amount_max); a missing amount counts as 0.
Applicable(a) ==
  LET x == IF a = Null THEN 0 ELSE a
  IN  {s \in Steps : /\ AmountMin[s] = Null \/ x >= AmountMin[s]
                     /\ AmountMax[s] <= 0 \/ x <= AmountMax[s]}

ResolvedRoles(s) == ApproverRoles[s] \cap Roles

NewTask(s) == [NoTask EXCEPT !.status = "PENDING", !.roles = ResolvedRoles(s),
                             !.user = ApproverUser[s]]

\* Opens instance i for a submission of amount a.  Fails closed: no covering
\* step, or a step whose named roles do not exist, refuses the submission.
startWorkflow(i, a) ==
  /\ inst[i].status = "NONE"
  /\ \A j \in Instances : j < i => inst[j].status # "NONE"
  /\ Applicable(a) # {}
  /\ \A s \in Applicable(a) : ApproverRoles[s] = {} \/ ResolvedRoles(s) # {}
  /\ inst' = [inst EXCEPT ![i] = [NoInstance EXCEPT !.status = "RUNNING",
                                   !.amount = a, !.hash = version]]
  /\ task' = [task EXCEPT ![i] = [s \in Steps |->
                 IF s \in Applicable(a) THEN NewTask(s) ELSE NoTask]]
  /\ UNCHANGED <<version, active, cron>>

\* A submission by a final authority (SELF_AUTHORIZE_ROLES) opens no chain: the
\* document of an entity without a side effect is APPROVED at once.
selfAuthorize == status' = "APPROVED" /\ UNCHANGED <<version, engineVars>>

-----------------------------------------------------------------------------
(* decideTask *)

enforceDelegationLimits(d, a) ==
  /\ a = Null \/ d.limit = Null \/ a <= d.limit
  /\ \/ d.authorities = {}
     \/ \E x \in d.authorities :
          x.covers /\ (x.max = Null \/ a = Null \/ a <= x.max)

Holders(roles) == UNION {RoleHolders[r] : r \in roles}

\* Mutant: the delegation's ceiling and authorities are not looked at.
MayDecide_NoLimit(u, t, a) ==
  /\ t.user = NoUser \/ t.user = u
  /\ t.user # NoUser \/ t.roles # {}
  /\ \/ t.roles = {}
     \/ u \in Holders(t.roles)
     \/ \E d \in active : d.delegate = u /\ d.role \in t.roles

\* Direct assignee, holder of one of the step's roles, or delegate whose
\* delegation covers the amount (LIMIT 1 without ORDER BY: the row examined may
\* be any of the delegate's, hence the \E).  A task with neither assignee nor role is
\* decidable by nobody.
MayDecide(u, t, a) ==
  /\ t.user = NoUser \/ t.user = u
  /\ t.user # NoUser \/ t.roles # {}
  /\ \/ t.roles = {}
     \/ u \in Holders(t.roles)
     \/ \E d \in active : /\ d.delegate = u
                          /\ d.role \in t.roles
                          /\ enforceDelegationLimits(d, a)

Decidable(u, i, s) ==
  /\ task[i][s].status \in OpenTask
  /\ MayDecide(u, task[i][s], inst[i].amount)

\* Mutant: one person may sign several stages.
ChainAllows_SamePerson(u, i, s) ==
  /\ u # Owner
  /\ \A r \in Steps : r < s => task[i][r].status \notin OpenTask

\* Segregation of duties and stage order, checked for every decision that is
\* not a delegation.
ChainAllows(u, i, s) ==
  /\ u # Owner
  /\ \A r \in Steps : r < s => task[i][r].status \notin OpenTask
  /\ \A r \in Steps : r < s =>
       ~(task[i][r].decidedBy = u /\ task[i][r].status \in Signed)

completeWorkflow(i) ==
  /\ inst' = [inst EXCEPT ![i].status =
                IF NeedsExecution THEN "EXECUTION_PENDING" ELSE "APPROVED"]
  /\ status' = "APPROVED"

\* Mutant: the completion check counts PENDING tasks and forgets ESCALATED ones.
approveTask_PendingOnly(u, i, s) ==
  /\ Decidable(u, i, s)
  /\ ChainAllows(u, i, s)
  /\ task' = [task EXCEPT ![i][s] =
                 [task[i][s] EXCEPT !.status = "APPROVED", !.decidedBy = u]]
  /\ IF \E r \in Steps \ {s} : task[i][r].status = "PENDING"
     THEN /\ inst' = [inst EXCEPT ![i].step = @ + 1]
          /\ UNCHANGED status
     ELSE completeWorkflow(i)
  /\ UNCHANGED <<version, active, cron>>

approveTask(u, i, s) ==
  /\ Decidable(u, i, s)
  /\ ChainAllows(u, i, s)
  /\ task' = [task EXCEPT ![i][s] =
                 [task[i][s] EXCEPT !.status = "APPROVED", !.decidedBy = u]]
  /\ IF \E r \in Steps \ {s} : task[i][r].status \in OpenTask
     THEN /\ inst' = [inst EXCEPT ![i].step = @ + 1]
          /\ UNCHANGED status
     ELSE completeWorkflow(i)
  /\ UNCHANGED <<version, active, cron>>

\* REJECTED and RETURNED both end the chain (rejectWorkflow): every open task
\* of the instance is closed as REJECTED with no decider.
rejectTask(u, i, s, decision) ==
  /\ "REJECTED" \in Statuses
  /\ Decidable(u, i, s)
  /\ ChainAllows(u, i, s)
  /\ task' = [task EXCEPT ![i] = [r \in Steps |->
       IF r = s THEN [task[i][r] EXCEPT !.status = decision, !.decidedBy = u]
       ELSE IF task[i][r].status \in OpenTask
            THEN [task[i][r] EXCEPT !.status = "REJECTED"]
            ELSE task[i][r]]]
  /\ inst' = [inst EXCEPT ![i].status = "REJECTED"]
  /\ status' = "REJECTED"
  /\ UNCHANGED <<version, active, cron>>

\* Mutant: the delegatee's task still asks for the step's role.
delegateTask_KeepsRoles(u, i, s, to) ==
  /\ Decidable(u, i, s)
  /\ task' = [task EXCEPT ![i][s] =
                 [task[i][s] EXCEPT !.status = "PENDING", !.user = to,
                                    !.handedBy = task[i][s].handedBy \cup {u}]]
  /\ cron' = [cron EXCEPT !.rows = @ \ {<<i, s>>}]
  /\ UNCHANGED <<status, version, inst, active>>

\* DELEGATED: the row is closed in u's name and a fresh PENDING row of the same
\* step goes to the delegatee alone.  The owner may delegate.
delegateTask(u, i, s, to) ==
  /\ Decidable(u, i, s)
  /\ task' = [task EXCEPT ![i][s] =
                 [task[i][s] EXCEPT !.status = "PENDING", !.roles = {}, !.user = to,
                                    !.handedBy = task[i][s].handedBy \cup {u}]]
  /\ cron' = [cron EXCEPT !.rows = @ \ {<<i, s>>}]
  /\ UNCHANGED <<status, version, inst, active>>

-----------------------------------------------------------------------------
(* executeWorkflow, invalidateStaleApproval, withdrawal *)

Touched(i) == UNION {{task[i][s].decidedBy} \cup task[i][s].handedBy : s \in Steps}
Deciders(i) == Touched(i) \ {NoUser}

\* The instance half of executeWorkflow; the posting is the lifecycle's.
executeWorkflow(u, i) ==
  /\ NeedsExecution
  /\ inst[i].status = "EXECUTION_PENDING"
  /\ u \notin Deciders(i)
  /\ inst' = [inst EXCEPT ![i].status = "EXECUTED", ![i].executedBy = u]
  /\ UNCHANGED <<version, task, active, cron>>

\* Mutant: only RUNNING chains are looked for.
invalidateStaleApproval_Running(v) ==
  LET stale == {i \in Instances : inst[i].status = "RUNNING" /\ inst[i].hash # v}
  IN  /\ inst' = [i \in Instances |->
                    IF i \in stale THEN [inst[i] EXCEPT !.status = "CANCELLED"]
                                   ELSE inst[i]]
      /\ status' = IF stale = {} THEN status ELSE "DRAFT"

\* Runs with the edit that made the content v.  Tasks are left as they are.
invalidateStaleApproval(v) ==
  LET stale == {i \in Instances :
                  /\ inst[i].status \in LiveInstance \cup {"EXECUTION_PENDING"}
                  /\ inst[i].hash # v}
  IN  /\ inst' = [i \in Instances |->
                    IF i \in stale THEN [inst[i] EXCEPT !.status = "CANCELLED"]
                                   ELSE inst[i]]
      /\ status' = IF stale = {} THEN status ELSE "DRAFT"

editDocument(v) ==
  /\ version' = v
  /\ invalidateStaleApproval(v)
  /\ UNCHANGED <<task, active, cron>>

\* Every RUNNING instance is cancelled; the open tasks of one of them (the
\* first row returned) are closed.  Used by cancelRequisition.
Running == {i \in Instances : inst[i].status = "RUNNING"}

withdrawRunning ==
  /\ inst' = [i \in Instances |->
                IF i \in Running THEN [inst[i] EXCEPT !.status = "CANCELLED"]
                                 ELSE inst[i]]
  /\ \/ Running = {} /\ UNCHANGED task
     \/ \E i \in Running :
          task' = [task EXCEPT ![i] = [s \in Steps |->
                     IF task[i][s].status \in OpenTask
                     THEN [task[i][s] EXCEPT !.status = "REJECTED"]
                     ELSE task[i][s]]]
  /\ UNCHANGED <<version, active, cron>>

-----------------------------------------------------------------------------
(* approvalEscalation cron job and governance of delegations *)

PendingRows ==
  {r \in Instances \X Steps : task[r[1]][r[2]].status = "PENDING"}

\* SELECT without a lock: some of the PENDING rows are old enough.
escalationSelect ==
  /\ cron.rows = {} /\ cron.insts = {}
  /\ \E rows \in SUBSET PendingRows :
       /\ rows # {}
       /\ cron' = [rows |-> rows, insts |-> {r[1] : r \in rows}]
  /\ UNCHANGED <<status, version, inst, task, active>>

\* Mutant: the UPDATE does not check again that the row is PENDING.
Escalated_NoRecheck(i, s) == <<i, s>> \in cron.rows

\* The two UPDATEs: rows still PENDING are escalated, then RUNNING instances
\* of the selection with no PENDING task left.
Escalated(i, s) == <<i, s>> \in cron.rows /\ task[i][s].status = "PENDING"

escalationUpdate ==
  /\ cron.insts # {}
  /\ task' = [i \in Instances |-> [s \in Steps |->
                IF Escalated(i, s)
                THEN [task[i][s] EXCEPT !.status = "ESCALATED"]
                ELSE task[i][s]]]
  /\ inst' = [i \in Instances |->
                IF /\ i \in cron.insts
                   /\ inst[i].status = "RUNNING"
                   /\ \A s \in Steps : task[i][s].status = "PENDING"
                                         => Escalated(i, s)
                THEN [inst[i] EXCEPT !.status = "ESCALATED"]
                ELSE inst[i]]
  /\ cron' = [rows |-> {}, insts |-> {}]
  /\ UNCHANGED <<status, version, active>>

\* A delegation is activated, suspended, revoked or expires.
delegationChange ==
  /\ \E d \in Delegations :
       active' = IF d \in active THEN active \ {d} ELSE active \cup {d}
  /\ UNCHANGED <<status, version, inst, task, cron>>

-----------------------------------------------------------------------------
Init ==
  /\ status = "DRAFT"
  /\ version \in Versions
  /\ inst = [i \in Instances |-> NoInstance]
  /\ task = [i \in Instances |-> [s \in Steps |-> NoTask]]
  /\ active = {}
  /\ cron = [rows |-> {}, insts |-> {}]

decide ==
  \E u \in Users, i \in Instances, s \in Steps :
    \/ approveTask(u, i, s)
    \/ \E d \in {"REJECTED", "RETURNED"} : rejectTask(u, i, s, d)
    \/ \E to \in Delegatees : delegateTask(u, i, s, to)

\* Any write of the row by the document's own lifecycle.
lifecycleStep ==
  status' \in Statuses /\ version' \in Versions /\ UNCHANGED engineVars

submit ==
  \E i \in Instances, a \in Amounts :
    startWorkflow(i, a) /\ status' \in Statuses

execute ==
  \E u \in Users, i \in Instances :
    executeWorkflow(u, i) /\ status' \in Statuses

edit == \E v \in Versions : editDocument(v)

withdraw == withdrawRunning /\ status' \in Statuses

escalation == escalationSelect \/ escalationUpdate

Next ==
  \/ submit \/ decide \/ execute \/ edit \/ withdraw
  \/ escalation \/ delegationChange \/ lifecycleStep

\* What the engine promises whatever the document's own lifecycle does: the
\* rows change only as one of the entry points of workflow.ts changes them.
\* The lifecycle modules are checked to implement it.
Spec == Init /\ [][Next]_vars

-----------------------------------------------------------------------------
(* Properties *)

\* Shape of the rows: the CHECK constraints of the two tables, and the
\* escalation job only holding rows of existing instances.
TypeOK ==
  /\ status \in Statuses
  /\ version \in Versions
  /\ inst \in [Instances -> Instance]
  /\ task \in [Instances -> [Steps -> Task]]
  /\ active \subseteq Delegations
  /\ cron \in [rows : SUBSET (Instances \X Steps), insts : SUBSET Instances]

\* completeWorkflow: a chain counts as approved, awaiting execution or executed
\* only when every step that covers the amount was approved by a person, none
\* of them the owner of the document, and no two steps by the same person.
ChainSigned ==
  \A i \in Instances : inst[i].status \in FullySigned =>
    /\ \A s \in Applicable(inst[i].amount) :
         /\ task[i][s].status = "APPROVED"
         /\ task[i][s].decidedBy \in Users \ {Owner}
    /\ \A r, s \in Applicable(inst[i].amount) :
         r # s => task[i][r].decidedBy # task[i][s].decidedBy

\* "Approval stages are sequential": whenever a person has signed a stage, all
\* earlier stages of the chain were approved, whatever was delegated,
\* escalated, cancelled or resubmitted in between.
StagesInOrder ==
  \A i \in Instances : \A r, s \in Applicable(inst[i].amount) :
    (r < s /\ task[i][s].decidedBy # NoUser) => task[i][r].status = "APPROVED"

\* The comment on decideTask's lock: the "no PENDING left" check and the status
\* flip never come apart.  A chain still running has a task somebody can take,
\* and a chain that ended keeps none (a cancelled one may).
OpenTasksMatchInstance ==
  \A i \in Instances :
    LET open == {s \in Steps : task[i][s].status \in OpenTask}
    IN  /\ inst[i].status \in LiveInstance => open # {}
        /\ inst[i].status \in FullySigned \cup {"REJECTED", "NONE"} => open = {}

\* executeWorkflow: the executor neither signed nor delegated any task of the
\* chain, and can never do so afterwards.
ExecutorIndependent ==
  \A i \in Instances : inst[i].status = "EXECUTED" =>
    inst[i].executedBy \in Users \ Deciders(i)

\* A signature is by the step's assignee or role holder, by a delegate some
\* delegation of the role covers for the instance's amount, or on a task that
\* such a person handed over.
Entitled(u, s, a) ==
  \/ u = ApproverUser[s]
  \/ u \in Holders(ResolvedRoles(s))
  \/ \E d \in Delegations : /\ d.delegate = u /\ d.role \in ResolvedRoles(s)
                            /\ enforceDelegationLimits(d, a)

SignaturesEntitled ==
  \A i \in Instances, s \in Steps :
    task[i][s].decidedBy # NoUser =>
      \/ Entitled(task[i][s].decidedBy, s, inst[i].amount)
      \/ \E u \in task[i][s].handedBy : Entitled(u, s, inst[i].amount)

\* "Delegating to another user remains the documented escape hatch": the
\* earliest open stage of a running chain can always be brought to a user who
\* may approve it, directly or through one delegation.
EscapeHatch ==
  \A i \in Instances : inst[i].status \in LiveInstance =>
    \E s \in Steps, u \in Users :
      /\ Decidable(u, i, s)
      /\ \E to \in Delegatees \cup {u} : ChainAllows(to, i, s)

\* A decision is final: no later step of any actor rewrites a closed task.
DecisionsFinal ==
  [][\A i \in Instances, s \in Steps :
       task[i][s].status \in Signed => task'[i][s] = task[i][s]]_vars

-----------------------------------------------------------------------------
(* Inductive strengthening: what holds of one chain c and its tasks t.       *)

\* Tasks exist exactly for the stages that cover the amount of an open chain.
RowsMatch(c, t) ==
  \A s \in Steps : t[s].status = "NONE" <=>
                      (c.status = "NONE" \/ s \notin Applicable(c.amount))

\* Only closed tasks carry a decider, never the owner, and approvals always do.
DecidersRecorded(t) ==
  \A s \in Steps :
    /\ t[s].decidedBy # NoUser => t[s].status \in Signed /\ t[s].decidedBy # Owner
    /\ t[s].status = "APPROVED" => t[s].decidedBy # NoUser

\* Before a signed stage everything was approved, and by somebody else.
SignedInOrder(t) ==
  \A r, s \in Steps :
    (r < s /\ t[s].decidedBy # NoUser /\ t[r].status # "NONE") =>
      t[r].status = "APPROVED" /\ t[r].decidedBy # t[s].decidedBy

\* One refusal closes every task of the chain.
RefusalCloses(t) ==
  (\E s \in Steps : t[s].status \in {"REJECTED", "RETURNED"})
    => \A s \in Steps : t[s].status \notin OpenTask

\* The instance's status and the open tasks.
StatusMatches(c, t) ==
  /\ c.status \in FullySigned => \A s \in Steps : t[s].status \in {"APPROVED", "NONE"}
  /\ c.status = "REJECTED" => \A s \in Steps : t[s].status \notin OpenTask
  /\ c.status \in LiveInstance => \E s \in Steps : t[s].status \in OpenTask

\* Who executed a chain took no part in deciding it.
ExecutorOutside(c, t) ==
  c.status = "EXECUTED" =>
    /\ c.executedBy \in Users
    /\ \A s \in Steps : c.executedBy # t[s].decidedBy /\ c.executedBy \notin t[s].handedBy

ChainOK(c, t) ==
  /\ RowsMatch(c, t) /\ DecidersRecorded(t) /\ SignedInOrder(t)
  /\ RefusalCloses(t) /\ StatusMatches(c, t) /\ ExecutorOutside(c, t)

\* The inductive invariant of the engine: every chain, at every moment, is in
\* one of the shapes the lock on the task and the instance row preserves.
EngineInv == TypeOK /\ \A i \in Instances : ChainOK(inst[i], task[i])

=============================================================================
