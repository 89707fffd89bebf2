--------------------------- MODULE WorkflowProofs ---------------------------
(***************************************************************************)
(* Proofs about the approval engine, for any chain of stages, any people,  *)
(* roles, delegations and amounts.                                         *)
(***************************************************************************)
EXTENDS Workflow, FiniteSetTheorems, WellFoundedInduction, TLAPS

-----------------------------------------------------------------------------
(* Rows *)

\* A fresh instance row is well typed (there is some amount and some content).
LEMMA NoInstanceType ==
  ASSUME Versions # {}
  PROVE  NoInstance \in Instance
<1>1. (CHOOSE a \in Amounts : TRUE) \in Amounts
  BY ConstantsAssumption
<1>2. (CHOOSE v \in Versions : TRUE) \in Versions
  OBVIOUS
<1> QED
  BY <1>1, <1>2 DEF NoInstance, Instance, InstanceStatus

\* So are the empty task row and the row startWorkflow inserts.
LEMMA TaskRowTypes ==
  /\ NoTask \in Task
  /\ \A s \in Steps : NewTask(s) \in Task
<1>1. NoTask \in Task
  BY DEF NoTask, Task, TaskStatus
<1>2. ASSUME NEW s \in Steps PROVE NewTask(s) \in Task
  <2>1. ResolvedRoles(s) \in SUBSET Roles /\ ApproverUser[s] \in Users \cup {NoUser}
    BY ConstantsAssumption DEF ResolvedRoles
  <2> QED
    BY <2>1 DEF NewTask, NoTask, Task, TaskStatus, OpenTask
<1> QED
  BY <1>1, <1>2

-----------------------------------------------------------------------------
(* Type correctness *)

\* Every table keeps its shape: statuses stay inside the CHECK constraints and
\* no operation writes a dangling reference.
LEMMA InitType == Init => TypeOK
<1> SUFFICES ASSUME Init PROVE TypeOK
  OBVIOUS
<1>1. NoInstance \in Instance
  BY NoInstanceType DEF Init
<1>2. NoTask \in Task
  BY TaskRowTypes
<1> QED
  BY <1>1, <1>2, ConstantsAssumption DEF Init, TypeOK

\* startWorkflow inserts well-typed instance and task rows.
LEMMA SubmitType ==
  ASSUME TypeOK, NEW i \in Instances, NEW a \in Amounts, startWorkflow(i, a),
         status' \in Statuses
  PROVE  TypeOK'
<1>1. NoInstance \in Instance
  BY NoInstanceType DEF TypeOK
<1>2. [NoInstance EXCEPT !.status = "RUNNING", !.amount = a, !.hash = version]
        \in Instance
  BY <1>1 DEF Instance, InstanceStatus, LiveInstance, TypeOK
<1>3. [s \in Steps |-> IF s \in Applicable(a) THEN NewTask(s) ELSE NoTask]
        \in [Steps -> Task]
  BY TaskRowTypes
<1> QED
  BY <1>2, <1>3 DEF TypeOK, startWorkflow

\* decideTask, APPROVED: the task, the step counter and the final status keep
\* their types.
LEMMA ApproveType ==
  ASSUME TypeOK, NEW u \in Users, NEW i \in Instances, NEW s \in Steps,
         approveTask(u, i, s)
  PROVE  TypeOK'
<1>1. task[i][s] \in Task /\ inst[i] \in Instance
  BY DEF TypeOK
<1>2. [task[i][s] EXCEPT !.status = "APPROVED", !.decidedBy = u] \in Task
  BY <1>1 DEF Task, TaskStatus, Signed
<1>3. task' \in [Instances -> [Steps -> Task]]
  BY <1>2 DEF TypeOK, approveTask
<1>4. inst' \in [Instances -> Instance] /\ status' \in Statuses
  <2>1. CASE \E r \in Steps \ {s} : task[i][r].status \in OpenTask
    <3>1. [inst[i] EXCEPT !.step = @ + 1] \in Instance
      BY <1>1 DEF Instance
    <3> QED
      BY <2>1, <3>1 DEF TypeOK, approveTask
  <2>2. CASE ~ \E r \in Steps \ {s} : task[i][r].status \in OpenTask
    <3>1. \A st \in {"APPROVED", "EXECUTION_PENDING"} :
            [inst[i] EXCEPT !.status = st] \in Instance
      BY <1>1 DEF Instance, InstanceStatus, FullySigned
    <3> QED
      BY <2>2, <3>1, ConstantsAssumption DEF TypeOK, approveTask, completeWorkflow
  <2> QED
    BY <2>1, <2>2
<1> QED
  BY <1>3, <1>4 DEF TypeOK, approveTask

\* decideTask, REJECTED or RETURNED: so do the rows rejectWorkflow closes.
LEMMA RejectType ==
  ASSUME TypeOK, NEW u \in Users, NEW i \in Instances, NEW s \in Steps,
         NEW d \in {"REJECTED", "RETURNED"}, rejectTask(u, i, s, d)
  PROVE  TypeOK'
<1>1. \A r \in Steps : task[i][r] \in Task
  BY DEF TypeOK
<1>2. \A r \in Steps :
        /\ [task[i][r] EXCEPT !.status = d, !.decidedBy = u] \in Task
        /\ [task[i][r] EXCEPT !.status = "REJECTED"] \in Task
  BY <1>1 DEF Task, TaskStatus, Signed
<1>3. task' \in [Instances -> [Steps -> Task]]
  BY <1>1, <1>2 DEF TypeOK, rejectTask
<1>4. [inst[i] EXCEPT !.status = "REJECTED"] \in Instance
  BY DEF TypeOK, Instance, InstanceStatus
<1> QED
  BY <1>3, <1>4 DEF TypeOK, rejectTask

\* decideTask, DELEGATED: the row that goes to the delegatee is well typed.
LEMMA DelegateType ==
  ASSUME TypeOK, NEW u \in Users, NEW i \in Instances, NEW s \in Steps,
         NEW to \in Delegatees, delegateTask(u, i, s, to)
  PROVE  TypeOK'
<1>1. task[i][s] \in Task /\ to \in Users
  BY ConstantsAssumption DEF TypeOK
<1>2. [task[i][s] EXCEPT !.status = "PENDING", !.roles = {}, !.user = to,
                         !.handedBy = task[i][s].handedBy \cup {u}] \in Task
  BY <1>1 DEF Task, TaskStatus, OpenTask
<1>3. task' \in [Instances -> [Steps -> Task]]
  BY <1>2 DEF TypeOK, delegateTask
<1>4. cron' \in [rows : SUBSET (Instances \X Steps), insts : SUBSET Instances]
  BY DEF TypeOK, delegateTask
<1> QED
  BY <1>3, <1>4 DEF TypeOK, delegateTask

\* executeWorkflow records a user as executor.
LEMMA ExecuteType ==
  ASSUME TypeOK, NEW u \in Users, NEW i \in Instances, executeWorkflow(u, i),
         status' \in Statuses
  PROVE  TypeOK'
<1>1. [inst[i] EXCEPT !.status = "EXECUTED", !.executedBy = u] \in Instance
  BY DEF TypeOK, Instance, InstanceStatus, FullySigned
<1> QED
  BY <1>1 DEF TypeOK, executeWorkflow

\* invalidateStaleApproval writes CANCELLED and DRAFT, both in their CHECKs.
LEMMA EditType ==
  ASSUME TypeOK, NEW v \in Versions, editDocument(v)
  PROVE  TypeOK'
<1>1. \A i \in Instances : [inst[i] EXCEPT !.status = "CANCELLED"] \in Instance
  BY DEF TypeOK, Instance, InstanceStatus
<1> QED
  BY <1>1, ConstantsAssumption DEF TypeOK, editDocument, invalidateStaleApproval

\* cancelRequisition's withdrawal of running instances keeps the types.
LEMMA WithdrawType ==
  ASSUME TypeOK, withdrawRunning, status' \in Statuses
  PROVE  TypeOK'
<1>1. \A i \in Instances : [inst[i] EXCEPT !.status = "CANCELLED"] \in Instance
  BY DEF TypeOK, Instance, InstanceStatus
<1>2. ASSUME NEW i \in Instances, NEW s \in Steps
      PROVE  task[i][s] \in Task /\ [task[i][s] EXCEPT !.status = "REJECTED"] \in Task
  <2>1. task[i][s] \in Task
    BY DEF TypeOK
  <2> QED
    BY <2>1 DEF Task, TaskStatus, Signed
<1>3. task' \in [Instances -> [Steps -> Task]]
  <2>1. CASE task' = task
    BY <2>1 DEF TypeOK
  <2>2. ASSUME NEW i \in Running,
               task' = [task EXCEPT ![i] = [s \in Steps |->
                          IF task[i][s].status \in OpenTask
                          THEN [task[i][s] EXCEPT !.status = "REJECTED"]
                          ELSE task[i][s]]]
        PROVE  task' \in [Instances -> [Steps -> Task]]
    <3>1. i \in Instances
      BY DEF Running
    <3>2. [s \in Steps |-> IF task[i][s].status \in OpenTask
                            THEN [task[i][s] EXCEPT !.status = "REJECTED"]
                            ELSE task[i][s]] \in [Steps -> Task]
      BY <1>2, <3>1
    <3> QED
      BY <2>2, <3>1, <3>2 DEF TypeOK
  <2> QED
    BY <2>1, <2>2 DEF withdrawRunning
<1> QED
  BY <1>1, <1>3 DEF TypeOK, withdrawRunning

\* approvalEscalation selects existing rows and writes ESCALATED.
LEMMA EscalationType ==
  ASSUME TypeOK, escalation
  PROVE  TypeOK'
<1>1. CASE escalationSelect
  <2>1. PICK rows \in SUBSET PendingRows :
          cron' = [rows |-> rows, insts |-> {r[1] : r \in rows}]
    BY <1>1 DEF escalationSelect
  <2>2. rows \subseteq Instances \X Steps /\ {r[1] : r \in rows} \subseteq Instances
    BY DEF PendingRows
  <2> QED
    BY <1>1, <2>1, <2>2 DEF TypeOK, escalationSelect
<1>2. CASE escalationUpdate
  <2>1. ASSUME NEW i \in Instances, NEW s \in Steps
        PROVE  task[i][s] \in Task /\ [task[i][s] EXCEPT !.status = "ESCALATED"] \in Task
    <3>1. task[i][s] \in Task
      BY DEF TypeOK
    <3> QED
      BY <3>1 DEF Task, TaskStatus, OpenTask
  <2>2. \A i \in Instances : [inst[i] EXCEPT !.status = "ESCALATED"] \in Instance
    BY DEF TypeOK, Instance, InstanceStatus, LiveInstance
  <2> QED
    BY <1>2, <2>1, <2>2 DEF TypeOK, escalationUpdate
<1> QED
  BY <1>1, <1>2 DEF escalation

\* Every entry point of workflow.ts, and any lifecycle write, keeps the types.
LEMMA NextType == TypeOK /\ [Next]_vars => TypeOK'
<1> SUFFICES ASSUME TypeOK, [Next]_vars PROVE TypeOK'
  OBVIOUS
<1>1. CASE submit
  BY <1>1, SubmitType DEF submit
<1>2. CASE decide
  BY <1>2, ApproveType, RejectType, DelegateType DEF decide
<1>3. CASE execute
  BY <1>3, ExecuteType DEF execute
<1>4. CASE edit
  BY <1>4, EditType DEF edit
<1>5. CASE withdraw
  BY <1>5, WithdrawType DEF withdraw
<1>6. CASE escalation
  BY <1>6, EscalationType
<1>7. CASE delegationChange
  BY <1>7 DEF TypeOK, delegationChange
<1>8. CASE lifecycleStep
  BY <1>8 DEF TypeOK, lifecycleStep, engineVars
<1>9. CASE UNCHANGED vars
  BY <1>9 DEF TypeOK, vars
<1> QED
  BY <1>1, <1>2, <1>3, <1>4, <1>5, <1>6, <1>7, <1>8, <1>9 DEF Next

\* The CHECK constraints of workflow_instances and approval_tasks are never
\* violated, whatever the document's own lifecycle does.
THEOREM TypeCorrect == Spec => []TypeOK
  BY InitType, NextType, PTL DEF Spec

-----------------------------------------------------------------------------
(* One chain: what each operation does to an instance row c and its tasks t. *)

\* A stage is signed while it is open, in turn, by somebody new; the chain ends
\* exactly when no other task is open.
LEMMA ApproveKeepsChain ==
  ASSUME NEW c, NEW d, NEW t, NEW z, NEW u \in Users, NEW s \in Steps,
         ChainOK(c, t),
         \A r \in Steps : t[r].status \in TaskStatus,
         t[s].status \in OpenTask,
         u # Owner,
         \A r \in Steps : r < s => t[r].status \notin OpenTask,
         \A r \in Steps : r < s => ~(t[r].decidedBy = u /\ t[r].status \in Signed),
         \A r \in Steps \ {s} : z[r] = t[r],
         z[s].status = "APPROVED", z[s].decidedBy = u,
         d.amount = c.amount,
         \/ /\ \E r \in Steps \ {s} : t[r].status \in OpenTask
            /\ d.status = c.status
         \/ /\ \A r \in Steps \ {s} : t[r].status \notin OpenTask
            /\ d.status \in {"APPROVED", "EXECUTION_PENDING"}
  PROVE  ChainOK(d, z)
<1> USE DEF OpenTask, Signed, TaskStatus, LiveInstance, FullySigned
<1>1. Steps \subseteq Nat /\ NoUser \notin Users
  BY ConstantsAssumption
<1>2. c.status # "NONE" /\ c.status # "REJECTED" /\ c.status \notin FullySigned
  BY DEF ChainOK, RowsMatch, StatusMatches
<1>3. \A r \in Steps : t[r].status \notin {"REJECTED", "RETURNED"}
  BY DEF ChainOK, RefusalCloses
<1>4. \A r \in Steps : s < r => t[r].decidedBy = NoUser
  BY DEF ChainOK, SignedInOrder
<1>5. RowsMatch(d, z)
  BY <1>2 DEF ChainOK, RowsMatch
<1>6. DecidersRecorded(z)
  BY <1>1 DEF ChainOK, DecidersRecorded
<1>7. SignedInOrder(z)
  <2> SUFFICES ASSUME NEW r \in Steps, NEW x \in Steps, r < x,
                      z[x].decidedBy # NoUser, z[r].status # "NONE"
               PROVE  z[r].status = "APPROVED" /\ z[r].decidedBy # z[x].decidedBy
    BY DEF SignedInOrder
  <2>1. CASE x = s
    <3>1. z[r] = t[r] /\ t[r].status = "APPROVED"
      BY <1>1, <1>3, <2>1
    <3> QED
      BY <2>1, <3>1
  <2>2. CASE r = s
    BY <1>1, <1>4, <2>2
  <2>3. CASE x # s /\ r # s
    BY <2>3 DEF ChainOK, SignedInOrder
  <2> QED
    BY <2>1, <2>2, <2>3
<1>8. RefusalCloses(z)
  BY <1>3 DEF RefusalCloses
<1>9. StatusMatches(d, z)
  BY <1>2, <1>3 DEF StatusMatches
<1>10. ExecutorOutside(d, z)
  BY <1>2 DEF ExecutorOutside
<1> QED
  BY <1>5, <1>6, <1>7, <1>8, <1>9, <1>10 DEF ChainOK

\* A stage is refused in turn: every open task of the chain closes with it.
LEMMA RejectKeepsChain ==
  ASSUME NEW c, NEW d, NEW t, NEW z, NEW u \in Users, NEW s \in Steps,
         ChainOK(c, t),
         \A r \in Steps : t[r].status \in TaskStatus,
         t[s].status \in OpenTask,
         u # Owner,
         \A r \in Steps : r < s => t[r].status \notin OpenTask,
         \A r \in Steps : r < s => ~(t[r].decidedBy = u /\ t[r].status \in Signed),
         \A r \in Steps \ {s} :
           /\ z[r].decidedBy = t[r].decidedBy
           /\ z[r].status = IF t[r].status \in OpenTask THEN "REJECTED"
                            ELSE t[r].status,
         z[s].status \in {"REJECTED", "RETURNED"}, z[s].decidedBy = u,
         d.amount = c.amount, d.status = "REJECTED"
  PROVE  ChainOK(d, z)
<1> USE DEF OpenTask, Signed, TaskStatus, LiveInstance, FullySigned
<1>1. Steps \subseteq Nat /\ NoUser \notin Users
  BY ConstantsAssumption
<1>2. c.status # "NONE"
  BY DEF ChainOK, RowsMatch
<1>3. \A r \in Steps : t[r].status \notin {"REJECTED", "RETURNED"}
  BY DEF ChainOK, RefusalCloses
<1>4. \A r \in Steps : s < r => t[r].decidedBy = NoUser
  BY DEF ChainOK, SignedInOrder
<1>5. RowsMatch(d, z)
  BY <1>2 DEF ChainOK, RowsMatch
<1>6. DecidersRecorded(z)
  BY <1>1 DEF ChainOK, DecidersRecorded
<1>7. SignedInOrder(z)
  <2> SUFFICES ASSUME NEW r \in Steps, NEW x \in Steps, r < x,
                      z[x].decidedBy # NoUser, z[r].status # "NONE"
               PROVE  z[r].status = "APPROVED" /\ z[r].decidedBy # z[x].decidedBy
    BY DEF SignedInOrder
  <2>1. CASE x = s
    <3>1. r # s /\ t[r].status = "APPROVED"
      BY <1>1, <1>3, <2>1
    <3> QED
      BY <2>1, <3>1
  <2>2. CASE r = s
    BY <1>1, <1>4, <2>2
  <2>3. CASE x # s /\ r # s
    BY <2>3 DEF ChainOK, SignedInOrder
  <2> QED
    BY <2>1, <2>2, <2>3
<1>8. \A r \in Steps : z[r].status \notin OpenTask
  OBVIOUS
<1>9. RefusalCloses(z) /\ StatusMatches(d, z) /\ ExecutorOutside(d, z)
  BY <1>8 DEF RefusalCloses, StatusMatches, ExecutorOutside
<1> QED
  BY <1>5, <1>6, <1>7, <1>9 DEF ChainOK

\* Handing a task over and escalating it only move tasks among the open
\* statuses, and a live instance among the live ones.
LEMMA OpenMovesKeepChain ==
  ASSUME NEW c, NEW d, NEW t, NEW z, ChainOK(c, t),
         d.amount = c.amount, d.executedBy = c.executedBy,
         d.status = c.status \/ (c.status \in LiveInstance /\ d.status \in LiveInstance),
         \A r \in Steps :
           /\ z[r].decidedBy = t[r].decidedBy
           /\ \/ z[r].status = t[r].status /\ z[r].handedBy = t[r].handedBy
              \/ z[r].status \in OpenTask /\ t[r].status \in OpenTask
  PROVE  ChainOK(d, z)
<1> USE DEF OpenTask, Signed, LiveInstance, FullySigned
<1>1. RowsMatch(d, z)
  BY DEF ChainOK, RowsMatch
<1>2. DecidersRecorded(z)
  BY DEF ChainOK, DecidersRecorded
<1>3. SignedInOrder(z)
  BY DEF ChainOK, SignedInOrder
<1>4. RefusalCloses(z)
  BY DEF ChainOK, RefusalCloses
<1>5. StatusMatches(d, z)
  BY DEF ChainOK, StatusMatches
<1>6. ExecutorOutside(d, z)
  BY DEF ChainOK, ExecutorOutside, StatusMatches
<1> QED
  BY <1>1, <1>2, <1>3, <1>4, <1>5, <1>6 DEF ChainOK

\* A cancelled chain keeps its tasks, or has all its open ones closed.
LEMMA CancelKeepsChain ==
  ASSUME NEW c, NEW d, NEW t, NEW z, ChainOK(c, t),
         c.status # "NONE", d.status = "CANCELLED", d.amount = c.amount,
         \A r \in Steps : z[r].decidedBy = t[r].decidedBy,
         \/ \A r \in Steps : z[r].status = t[r].status
         \/ \A r \in Steps : z[r].status = IF t[r].status \in OpenTask
                                            THEN "REJECTED" ELSE t[r].status
  PROVE  ChainOK(d, z)
<1> USE DEF OpenTask, Signed, LiveInstance, FullySigned
<1>1. RowsMatch(d, z)
  BY DEF ChainOK, RowsMatch
<1>2. DecidersRecorded(z)
  BY DEF ChainOK, DecidersRecorded
<1>3. SignedInOrder(z)
  BY DEF ChainOK, SignedInOrder
<1>4. RefusalCloses(z)
  BY DEF ChainOK, RefusalCloses
<1>5. StatusMatches(d, z) /\ ExecutorOutside(d, z)
  BY DEF StatusMatches, ExecutorOutside
<1> QED
  BY <1>1, <1>2, <1>3, <1>4, <1>5 DEF ChainOK

\* Execution by somebody who decided nothing.
LEMMA ExecuteKeepsChain ==
  ASSUME NEW c, NEW d, NEW t, NEW u \in Users, ChainOK(c, t),
         c.status = "EXECUTION_PENDING", d.status = "EXECUTED",
         d.amount = c.amount, d.executedBy = u,
         \A s \in Steps : u # t[s].decidedBy /\ u \notin t[s].handedBy
  PROVE  ChainOK(d, t)
<1> USE DEF OpenTask, Signed, LiveInstance, FullySigned
<1>1. RowsMatch(d, t)
  BY DEF ChainOK, RowsMatch
<1>2. StatusMatches(d, t)
  BY DEF ChainOK, StatusMatches
<1>3. ExecutorOutside(d, t)
  BY DEF ExecutorOutside
<1> QED
  BY <1>1, <1>2, <1>3 DEF ChainOK

\* A chain starts with an open task for every stage that covers the amount.
LEMMA StartMakesChain ==
  ASSUME NEW d, NEW z, NEW a,
         Applicable(a) # {}, d.status = "RUNNING", d.amount = a,
         \A s \in Steps : z[s] = IF s \in Applicable(a) THEN NewTask(s) ELSE NoTask
  PROVE  ChainOK(d, z)
<1> USE DEF OpenTask, Signed, LiveInstance, FullySigned
<1>1. ASSUME NEW s \in Steps
      PROVE  /\ z[s].decidedBy = NoUser
             /\ z[s].status = IF s \in Applicable(a) THEN "PENDING" ELSE "NONE"
  <2>1. NewTask(s).decidedBy = NoUser /\ NewTask(s).status = "PENDING"
    BY DEF NewTask, NoTask
  <2>2. NoTask.decidedBy = NoUser /\ NoTask.status = "NONE"
    BY DEF NoTask
  <2> QED
    BY <2>1, <2>2
<1>2. Applicable(a) \subseteq Steps
  BY DEF Applicable
<1>3. RowsMatch(d, z)
  BY <1>1 DEF RowsMatch
<1>4. DecidersRecorded(z) /\ SignedInOrder(z)
  BY <1>1 DEF DecidersRecorded, SignedInOrder
<1>5. RefusalCloses(z)
  BY <1>1 DEF RefusalCloses
<1>6. StatusMatches(d, z) /\ ExecutorOutside(d, z)
  BY <1>1, <1>2 DEF StatusMatches, ExecutorOutside
<1> QED
  BY <1>3, <1>4, <1>5, <1>6 DEF ChainOK

-----------------------------------------------------------------------------
(* The inductive invariant *)

\* startWorkflow touches only the chain it opens.
LEMMA SubmitInv ==
  ASSUME EngineInv, NEW i \in Instances, NEW a \in Amounts, startWorkflow(i, a)
  PROVE  \A j \in Instances : ChainOK(inst[j], task[j])'
<1> SUFFICES ASSUME NEW j \in Instances PROVE ChainOK(inst'[j], task'[j])
  OBVIOUS
<1>1. CASE j # i
  <2>1. inst'[j] = inst[j] /\ task'[j] = task[j]
    BY <1>1 DEF startWorkflow, EngineInv, TypeOK
  <2> QED
    BY <2>1 DEF EngineInv
<1>2. CASE j = i
  <2>1. /\ inst'[i].status = "RUNNING" /\ inst'[i].amount = a
        /\ \A s \in Steps :
             task'[i][s] = IF s \in Applicable(a) THEN NewTask(s) ELSE NoTask
    BY DEF startWorkflow, EngineInv, TypeOK, NoInstance
  <2>2. Applicable(a) # {}
    BY DEF startWorkflow
  <2> QED
    BY <1>2, <2>1, <2>2, StartMakesChain
<1> QED
  BY <1>1, <1>2

\* decideTask touches only the chain of its task.
LEMMA ApproveInv ==
  ASSUME EngineInv, NEW u \in Users, NEW i \in Instances, NEW s \in Steps,
         approveTask(u, i, s)
  PROVE  \A j \in Instances : ChainOK(inst[j], task[j])'
<1> SUFFICES ASSUME NEW j \in Instances PROVE ChainOK(inst'[j], task'[j])
  OBVIOUS
<1>1. inst \in [Instances -> Instance] /\ task \in [Instances -> [Steps -> Task]]
  BY DEF EngineInv, TypeOK
<1>2. \A k \in Instances, r \in Steps :
        (k # i \/ r # s) => task'[k][r] = task[k][r]
  BY <1>1 DEF approveTask
<1>3. task'[i][s].status = "APPROVED" /\ task'[i][s].decidedBy = u
  BY <1>1 DEF approveTask, Task
<1>4. \A k \in Instances : k # i => inst'[k] = inst[k]
  BY <1>1 DEF approveTask, completeWorkflow
<1>5. CASE j # i
  <2>1. task'[j] = task[j]
    BY <1>1, <1>5 DEF approveTask
  <2> QED
    BY <1>4, <1>5, <2>1 DEF EngineInv
<1>6. CASE j = i
  <2>1. inst[i] \in Instance /\ \A r \in Steps : task[i][r].status \in TaskStatus
    BY <1>1 DEF Task
  <2>2. /\ task[i][s].status \in OpenTask
        /\ u # Owner
        /\ \A r \in Steps : r < s => task[i][r].status \notin OpenTask
        /\ \A r \in Steps : r < s =>
             ~(task[i][r].decidedBy = u /\ task[i][r].status \in Signed)
    BY DEF approveTask, Decidable, ChainAllows
  <2>3. inst'[i].amount = inst[i].amount
    BY <1>1, <2>1 DEF approveTask, completeWorkflow, Instance
  <2>4. \/ /\ \E r \in Steps \ {s} : task[i][r].status \in OpenTask
           /\ inst'[i].status = inst[i].status
        \/ /\ \A r \in Steps \ {s} : task[i][r].status \notin OpenTask
           /\ inst'[i].status \in {"APPROVED", "EXECUTION_PENDING"}
    BY <1>1, <2>1 DEF approveTask, completeWorkflow, Instance
  <2>5. \A r \in Steps \ {s} : task'[i][r] = task[i][r]
    BY <1>2
  <2>6. ChainOK(inst[i], task[i])
    BY DEF EngineInv
  <2> QED
    BY <1>3, <1>6, <2>1, <2>2, <2>3, <2>4, <2>5, <2>6, ApproveKeepsChain
<1> QED
  BY <1>5, <1>6

\* rejectWorkflow touches only the chain of its task.
LEMMA RejectInv ==
  ASSUME EngineInv, NEW u \in Users, NEW i \in Instances, NEW s \in Steps,
         NEW d \in {"REJECTED", "RETURNED"}, rejectTask(u, i, s, d)
  PROVE  \A j \in Instances : ChainOK(inst[j], task[j])'
<1> SUFFICES ASSUME NEW j \in Instances PROVE ChainOK(inst'[j], task'[j])
  OBVIOUS
<1>1. inst \in [Instances -> Instance] /\ task \in [Instances -> [Steps -> Task]]
  BY DEF EngineInv, TypeOK
<1>2. CASE j # i
  <2>1. inst'[j] = inst[j] /\ task'[j] = task[j]
    BY <1>1, <1>2 DEF rejectTask
  <2> QED
    BY <2>1 DEF EngineInv
<1>3. CASE j = i
  <2>1. inst[i] \in Instance /\ \A r \in Steps : task[i][r] \in Task
    BY <1>1
  <2>2. \A r \in Steps : task[i][r].status \in TaskStatus
    BY <2>1 DEF Task
  <2>3. /\ task[i][s].status \in OpenTask
        /\ u # Owner
        /\ \A r \in Steps : r < s => task[i][r].status \notin OpenTask
        /\ \A r \in Steps : r < s =>
             ~(task[i][r].decidedBy = u /\ task[i][r].status \in Signed)
    BY DEF rejectTask, Decidable, ChainAllows
  <2>4. \A r \in Steps : task'[i][r] =
          IF r = s THEN [task[i][r] EXCEPT !.status = d, !.decidedBy = u]
          ELSE IF task[i][r].status \in OpenTask
               THEN [task[i][r] EXCEPT !.status = "REJECTED"]
               ELSE task[i][r]
    BY <1>1 DEF rejectTask
  <2>5. task'[i][s].status \in {"REJECTED", "RETURNED"} /\ task'[i][s].decidedBy = u
    BY <2>1, <2>4 DEF Task
  <2>6. \A r \in Steps \ {s} :
          /\ task'[i][r].decidedBy = task[i][r].decidedBy
          /\ task'[i][r].status = IF task[i][r].status \in OpenTask
                                  THEN "REJECTED" ELSE task[i][r].status
    BY <2>1, <2>4 DEF Task
  <2>7. inst'[i].status = "REJECTED" /\ inst'[i].amount = inst[i].amount
    BY <1>1, <2>1 DEF rejectTask, Instance
  <2>8. ChainOK(inst[i], task[i])
    BY DEF EngineInv
  <2> QED
    BY <1>3, <2>2, <2>3, <2>5, <2>6, <2>7, <2>8, RejectKeepsChain
<1> QED
  BY <1>2, <1>3

\* A delegation reopens the same stage of the same chain.
LEMMA DelegateInv ==
  ASSUME EngineInv, NEW u \in Users, NEW i \in Instances, NEW s \in Steps,
         NEW to \in Delegatees, delegateTask(u, i, s, to)
  PROVE  \A j \in Instances : ChainOK(inst[j], task[j])'
<1> SUFFICES ASSUME NEW j \in Instances PROVE ChainOK(inst'[j], task'[j])
  OBVIOUS
<1>1. task \in [Instances -> [Steps -> Task]] /\ inst' = inst
  BY DEF EngineInv, TypeOK, delegateTask
<1>2. \A r \in Steps : (j # i \/ r # s) => task'[j][r] = task[j][r]
  BY <1>1 DEF delegateTask
<1>3. /\ task'[i][s].status = "PENDING" /\ task[i][s].status \in OpenTask
      /\ task'[i][s].decidedBy = task[i][s].decidedBy
  <2>1. task[i][s] \in Task
    BY <1>1
  <2> QED
    BY <1>1, <2>1 DEF delegateTask, Decidable, Task
<1>4. \A r \in Steps :
        /\ task'[j][r].decidedBy = task[j][r].decidedBy
        /\ \/ task'[j][r].status = task[j][r].status /\ task'[j][r].handedBy = task[j][r].handedBy
           \/ task'[j][r].status \in OpenTask /\ task[j][r].status \in OpenTask
  BY <1>2, <1>3 DEF OpenTask
<1> QED
  BY <1>1, <1>4, OpenMovesKeepChain DEF EngineInv

\* executeWorkflow changes only the instance it executes.
LEMMA ExecuteInv ==
  ASSUME EngineInv, NEW u \in Users, NEW i \in Instances, executeWorkflow(u, i)
  PROVE  \A j \in Instances : ChainOK(inst[j], task[j])'
<1> SUFFICES ASSUME NEW j \in Instances PROVE ChainOK(inst'[j], task'[j])
  OBVIOUS
<1>1. inst \in [Instances -> Instance] /\ task' = task
  BY DEF EngineInv, TypeOK, executeWorkflow
<1>2. CASE j # i
  <2>1. inst'[j] = inst[j]
    BY <1>1, <1>2 DEF executeWorkflow
  <2> QED
    BY <1>1, <2>1 DEF EngineInv
<1>3. CASE j = i
  <2>1. inst[i] \in Instance
    BY <1>1
  <2>2. /\ inst[i].status = "EXECUTION_PENDING" /\ inst'[i].status = "EXECUTED"
        /\ inst'[i].amount = inst[i].amount /\ inst'[i].executedBy = u
    BY <1>1, <2>1 DEF executeWorkflow, Instance
  <2>3. u # NoUser
    BY ConstantsAssumption
  <2>4. ASSUME NEW s \in Steps
        PROVE  u # task[i][s].decidedBy /\ u \notin task[i][s].handedBy
    <3>1. {task[i][s].decidedBy} \cup task[i][s].handedBy \subseteq Touched(i)
      BY DEF Touched
    <3>2. u \notin Touched(i)
      BY <2>3 DEF executeWorkflow, Deciders
    <3> QED
      BY <3>1, <3>2
  <2> QED
    BY <1>1, <1>3, <2>2, <2>4, ExecuteKeepsChain DEF EngineInv
<1> QED
  BY <1>2, <1>3

\* invalidateStaleApproval cancels instances and leaves their tasks.
LEMMA EditInv ==
  ASSUME EngineInv, NEW v \in Versions, editDocument(v)
  PROVE  \A j \in Instances : ChainOK(inst[j], task[j])'
<1> SUFFICES ASSUME NEW j \in Instances PROVE ChainOK(inst'[j], task'[j])
  OBVIOUS
<1>1. inst[j] \in Instance /\ task' = task
  BY DEF EngineInv, TypeOK, editDocument
<1>2. CASE inst'[j] = inst[j]
  BY <1>1, <1>2 DEF EngineInv
<1>3. CASE inst'[j] # inst[j]
  <2>1. /\ inst[j].status \in LiveInstance \cup {"EXECUTION_PENDING"}
        /\ inst'[j] = [inst[j] EXCEPT !.status = "CANCELLED"]
    BY <1>3 DEF editDocument, invalidateStaleApproval
  <2>2. /\ inst[j].status # "NONE" /\ inst'[j].status = "CANCELLED"
        /\ inst'[j].amount = inst[j].amount
    BY <1>1, <2>1 DEF Instance, LiveInstance
  <2> QED
    BY <1>1, <2>2, CancelKeepsChain DEF EngineInv
<1> QED
  BY <1>2, <1>3

\* withdrawRunning cancels every RUNNING instance and closes the tasks of one.
LEMMA WithdrawInv ==
  ASSUME EngineInv, withdrawRunning
  PROVE  \A j \in Instances : ChainOK(inst[j], task[j])'
<1> SUFFICES ASSUME NEW j \in Instances PROVE ChainOK(inst'[j], task'[j])
  OBVIOUS
<1>1. inst[j] \in Instance /\ task \in [Instances -> [Steps -> Task]]
  BY DEF EngineInv, TypeOK
<1>2. ChainOK(inst[j], task[j])
  BY DEF EngineInv
<1>3. CASE j \notin Running
  <2>1. inst'[j] = inst[j] /\ task'[j] = task[j]
    BY <1>1, <1>3 DEF withdrawRunning
  <2> QED
    BY <1>2, <2>1
<1>4. CASE j \in Running
  <2>1. inst'[j] = [inst[j] EXCEPT !.status = "CANCELLED"]
    BY <1>4 DEF withdrawRunning
  <2>2. /\ inst[j].status # "NONE" /\ inst'[j].status = "CANCELLED"
        /\ inst'[j].amount = inst[j].amount
    BY <1>1, <1>4, <2>1 DEF Instance, Running
  <2>3. CASE task'[j] = task[j]
    BY <1>2, <2>2, <2>3, CancelKeepsChain
  <2>4. CASE task'[j] # task[j]
    <3>1. \A s \in Steps : task'[j][s] =
            IF task[j][s].status \in OpenTask
            THEN [task[j][s] EXCEPT !.status = "REJECTED"] ELSE task[j][s]
      BY <1>1, <2>4 DEF withdrawRunning, Running
    <3>2. ASSUME NEW s \in Steps
          PROVE  /\ task'[j][s].decidedBy = task[j][s].decidedBy
                 /\ task'[j][s].status = IF task[j][s].status \in OpenTask
                                         THEN "REJECTED" ELSE task[j][s].status
      <4>1. task[j][s] \in Task
        BY <1>1
      <4> QED
        BY <3>1, <4>1 DEF Task
    <3> QED
      BY <1>2, <2>2, <3>2, CancelKeepsChain
  <2> QED
    BY <2>3, <2>4
<1> QED
  BY <1>3, <1>4

\* The escalation job's UPDATE statements re-check the status of every row.
LEMMA EscalationInv ==
  ASSUME EngineInv, escalation
  PROVE  \A j \in Instances : ChainOK(inst[j], task[j])'
<1>1. CASE escalationSelect
  BY <1>1 DEF escalationSelect, EngineInv
<1>2. CASE escalationUpdate
  <2> SUFFICES ASSUME NEW j \in Instances PROVE ChainOK(inst'[j], task'[j])
    OBVIOUS
  <2>1. inst[j] \in Instance /\ task[j] \in [Steps -> Task]
    BY DEF EngineInv, TypeOK
  <2>2. ASSUME NEW r \in Steps
        PROVE  /\ task'[j][r].decidedBy = task[j][r].decidedBy
               /\ task'[j][r].handedBy = task[j][r].handedBy
               /\ \/ task'[j][r].status = task[j][r].status
                  \/ task'[j][r].status \in OpenTask /\ task[j][r].status \in OpenTask
    <3>1. task[j][r] \in Task
      BY <2>1
    <3>2. task'[j][r] = IF Escalated(j, r)
                        THEN [task[j][r] EXCEPT !.status = "ESCALATED"] ELSE task[j][r]
      BY <1>2 DEF escalationUpdate
    <3> QED
      BY <3>1, <3>2 DEF Task, Escalated, OpenTask
  <2>3. \/ inst'[j] = inst[j]
        \/ /\ inst[j].status = "RUNNING"
           /\ inst'[j] = [inst[j] EXCEPT !.status = "ESCALATED"]
    BY <1>2 DEF escalationUpdate
  <2>4. /\ inst'[j].amount = inst[j].amount
        /\ inst'[j].executedBy = inst[j].executedBy
        /\ \/ inst'[j].status = inst[j].status
           \/ inst[j].status \in LiveInstance /\ inst'[j].status \in LiveInstance
    BY <2>1, <2>3 DEF Instance, LiveInstance
  <2>5. ChainOK(inst[j], task[j])
    BY DEF EngineInv
  <2> QED
    BY <2>2, <2>4, <2>5, OpenMovesKeepChain
<1> QED
  BY <1>1, <1>2 DEF escalation

\* Before anything is submitted there are no rows.
LEMMA InitInv == Init => EngineInv
<1> SUFFICES ASSUME Init, NEW i \in Instances PROVE ChainOK(inst[i], task[i])
  BY InitType DEF EngineInv
<1>1. inst[i].status = "NONE"
  BY DEF Init, NoInstance
<1>2. \A s \in Steps : task[i][s].status = "NONE" /\ task[i][s].decidedBy = NoUser
  BY DEF Init, NoTask
<1>3. RowsMatch(inst[i], task[i])
  BY <1>1, <1>2 DEF RowsMatch
<1>4. DecidersRecorded(task[i]) /\ SignedInOrder(task[i]) /\ RefusalCloses(task[i])
  BY <1>2 DEF DecidersRecorded, SignedInOrder, RefusalCloses
<1>5. StatusMatches(inst[i], task[i]) /\ ExecutorOutside(inst[i], task[i])
  BY <1>1 DEF StatusMatches, ExecutorOutside, FullySigned, LiveInstance
<1> QED
  BY <1>3, <1>4, <1>5 DEF ChainOK

\* The invariant is inductive over every entry point of workflow.ts.
LEMMA NextInv == EngineInv /\ [Next]_vars => EngineInv'
<1> SUFFICES ASSUME EngineInv, [Next]_vars
             PROVE  \A j \in Instances : ChainOK(inst[j], task[j])'
  BY NextType DEF EngineInv
<1>1. CASE submit
  BY <1>1, SubmitInv DEF submit
<1>2. CASE decide
  BY <1>2, ApproveInv, RejectInv, DelegateInv DEF decide
<1>3. CASE execute
  BY <1>3, ExecuteInv DEF execute
<1>4. CASE edit
  BY <1>4, EditInv DEF edit
<1>5. CASE withdraw
  BY <1>5, WithdrawInv DEF withdraw
<1>6. CASE escalation
  BY <1>6, EscalationInv
<1>7. CASE delegationChange
  BY <1>7 DEF delegationChange, EngineInv
<1>8. CASE lifecycleStep
  BY <1>8 DEF lifecycleStep, engineVars, EngineInv
<1>9. CASE UNCHANGED vars
  BY <1>9 DEF vars, EngineInv
<1> QED
  BY <1>1, <1>2, <1>3, <1>4, <1>5, <1>6, <1>7, <1>8, <1>9 DEF Next

\* The engine's inductive invariant holds of every document lifecycle.
THEOREM EngineInvariant == Spec => []EngineInv
  BY InitInv, NextInv, PTL DEF Spec

-----------------------------------------------------------------------------
(* What follows from it *)

\* When all stages of a chain are approved, each was by somebody else, none of
\* them the owner.
LEMMA ApprovedByOthers ==
  ASSUME EngineInv, NEW i \in Instances,
         \A s \in Applicable(inst[i].amount) : task[i][s].status = "APPROVED"
  PROVE  /\ \A s \in Applicable(inst[i].amount) : task[i][s].decidedBy \in Users \ {Owner}
         /\ \A r, s \in Applicable(inst[i].amount) :
              r # s => task[i][r].decidedBy # task[i][s].decidedBy
<1>1. Applicable(inst[i].amount) \subseteq Steps /\ Steps \subseteq Nat
  BY ConstantsAssumption DEF Applicable
<1>2. ChainOK(inst[i], task[i]) /\ task[i] \in [Steps -> Task]
  BY DEF EngineInv, TypeOK
<1>3. ASSUME NEW s \in Applicable(inst[i].amount)
      PROVE  task[i][s].decidedBy \in Users \ {Owner}
  <2>1. s \in Steps /\ task[i][s] \in Task
    BY <1>1, <1>2
  <2>2. task[i][s].decidedBy # NoUser /\ task[i][s].decidedBy # Owner
    BY <1>2, <2>1 DEF ChainOK, DecidersRecorded
  <2> QED
    BY <2>1, <2>2 DEF Task
<1>4. ASSUME NEW r \in Applicable(inst[i].amount), NEW s \in Applicable(inst[i].amount),
             r < s
      PROVE  task[i][r].decidedBy # task[i][s].decidedBy
  <2>1. r \in Steps /\ s \in Steps
    BY <1>1
  <2>2. task[i][s].decidedBy \in Users
    BY <1>3
  <2>3. task[i][s].decidedBy # NoUser /\ task[i][r].status # "NONE"
    BY <2>2, ConstantsAssumption
  <2> QED
    BY <1>2, <1>4, <2>1, <2>3 DEF ChainOK, SignedInOrder
<1> QED
  <2>1. \A r, s \in Nat : r # s => r < s \/ s < r
    OBVIOUS
  <2>2. Applicable(inst[i].amount) \subseteq Nat
    BY <1>1
  <2> QED
    BY <1>3, <1>4, <2>1, <2>2

\* completeWorkflow runs on a chain all of whose stages were signed.
LEMMA InvImpliesSigned == EngineInv => ChainSigned
<1> SUFFICES ASSUME EngineInv, NEW i \in Instances, inst[i].status \in FullySigned
             PROVE  /\ \A s \in Applicable(inst[i].amount) :
                         /\ task[i][s].status = "APPROVED"
                         /\ task[i][s].decidedBy \in Users \ {Owner}
                    /\ \A r, s \in Applicable(inst[i].amount) :
                         r # s => task[i][r].decidedBy # task[i][s].decidedBy
  BY DEF ChainSigned
<1>1. ChainOK(inst[i], task[i])
  BY DEF EngineInv
<1>2. ASSUME NEW s \in Applicable(inst[i].amount) PROVE task[i][s].status = "APPROVED"
  BY <1>1 DEF Applicable, ChainOK, RowsMatch, StatusMatches, FullySigned
<1> QED
  BY <1>2, ApprovedByOthers

\* decideTask's earlier-stage check makes every signature come in order.
LEMMA InvImpliesOrder == EngineInv => StagesInOrder
<1> SUFFICES ASSUME EngineInv, NEW i \in Instances,
                    NEW r \in Applicable(inst[i].amount),
                    NEW s \in Applicable(inst[i].amount),
                    r < s, task[i][s].decidedBy # NoUser
             PROVE  task[i][r].status = "APPROVED"
  BY DEF StagesInOrder
<1>1. r \in Steps /\ s \in Steps
  BY DEF Applicable
<1>2. ChainOK(inst[i], task[i])
  BY DEF EngineInv
<1>3. task[i][s].status # "NONE"
  BY <1>1, <1>2 DEF ChainOK, DecidersRecorded, Signed
<1>4. task[i][r].status # "NONE"
  BY <1>1, <1>2, <1>3 DEF ChainOK, RowsMatch
<1> QED
  BY <1>1, <1>2, <1>4 DEF ChainOK, SignedInOrder

\* The instance status and the open tasks agree.
LEMMA InvImpliesOpen == EngineInv => OpenTasksMatchInstance
<1> SUFFICES ASSUME EngineInv, NEW i \in Instances
             PROVE  /\ inst[i].status \in LiveInstance =>
                         \E s \in Steps : task[i][s].status \in OpenTask
                    /\ inst[i].status \in FullySigned \cup {"REJECTED", "NONE"} =>
                         \A s \in Steps : task[i][s].status \notin OpenTask
  BY DEF OpenTasksMatchInstance
<1>1. ChainOK(inst[i], task[i])
  BY DEF EngineInv
<1> QED
  BY <1>1 DEF ChainOK, StatusMatches, RowsMatch, OpenTask

\* The executor is none of the deciders.
LEMMA InvImpliesExecutor == EngineInv => ExecutorIndependent
<1> SUFFICES ASSUME EngineInv, NEW i \in Instances, inst[i].status = "EXECUTED"
             PROVE  inst[i].executedBy \in Users \ Deciders(i)
  BY DEF ExecutorIndependent
<1>1. ExecutorOutside(inst[i], task[i])
  BY DEF EngineInv, ChainOK
<1> QED
  BY <1>1 DEF ExecutorOutside, Deciders, Touched

\* completeWorkflow: an approved chain carries one signature per stage that
\* covers the amount, all by different people, none the owner's.
THEOREM ApprovedChainsAreSigned == Spec => []ChainSigned
  BY EngineInvariant, InvImpliesSigned, PTL

\* decideTask: stages are signed in order, whatever is delegated, escalated,
\* cancelled or edited in between.
THEOREM ApprovalIsSequential == Spec => []StagesInOrder
  BY EngineInvariant, InvImpliesOrder, PTL

\* decideTask: the last signature and the end of the chain never come apart.
THEOREM OpenTasksAgree == Spec => []OpenTasksMatchInstance
  BY EngineInvariant, InvImpliesOpen, PTL

\* executeWorkflow: whoever decided or delegated a task of the chain is never
\* the one who executed it.
THEOREM ExecutorsAreIndependent == Spec => []ExecutorIndependent
  BY EngineInvariant, InvImpliesExecutor, PTL

-----------------------------------------------------------------------------
(* Finality *)

\* No operation rewrites a closed task: each one changes open tasks only, and
\* startWorkflow only the rows of an instance that does not exist yet.
LEMMA NextFinal ==
  ASSUME EngineInv, [Next]_vars, NEW i \in Instances, NEW s \in Steps,
         task[i][s].status \in Signed
  PROVE  task'[i][s] = task[i][s]
<1>1. task \in [Instances -> [Steps -> Task]] /\ task[i][s].status \notin OpenTask
  BY DEF EngineInv, TypeOK, Signed, OpenTask
<1>2. inst[i].status # "NONE"
  BY DEF EngineInv, ChainOK, RowsMatch, Signed
<1>3. CASE submit
  <2>1. PICK j \in Instances, a \in Amounts : startWorkflow(j, a)
    BY <1>3 DEF submit
  <2>2. j # i
    BY <1>2, <2>1 DEF startWorkflow
  <2> QED
    BY <1>1, <2>1, <2>2 DEF startWorkflow
<1>4. CASE decide
  <2> SUFFICES ASSUME NEW u \in Users, NEW j \in Instances, NEW r \in Steps,
                      \/ approveTask(u, j, r)
                      \/ \E d \in {"REJECTED", "RETURNED"} : rejectTask(u, j, r, d)
                      \/ \E to \in Delegatees : delegateTask(u, j, r, to)
               PROVE  task'[i][s] = task[i][s]
    BY <1>4 DEF decide
  <2>1. j # i \/ r # s
    BY <1>1 DEF approveTask, rejectTask, delegateTask, Decidable
  <2>2. CASE approveTask(u, j, r)
    BY <1>1, <2>1, <2>2 DEF approveTask
  <2>3. CASE \E d \in {"REJECTED", "RETURNED"} : rejectTask(u, j, r, d)
    <3>1. CASE j # i
      BY <1>1, <2>3, <3>1 DEF rejectTask
    <3>2. CASE j = i
      <4>1. PICK d \in {"REJECTED", "RETURNED"} : rejectTask(u, i, r, d)
        BY <2>3, <3>2
      <4>2. r # s
        BY <2>1, <3>2
      <4> QED
        BY <1>1, <4>1, <4>2 DEF rejectTask
    <3> QED
      BY <3>1, <3>2
  <2>4. CASE \E to \in Delegatees : delegateTask(u, j, r, to)
    <3>1. PICK to \in Delegatees : delegateTask(u, j, r, to)
      BY <2>4
    <3> DEFINE x == [task[j][r] EXCEPT !.status = "PENDING", !.roles = {}, !.user = to,
                                       !.handedBy = task[j][r].handedBy \cup {u}]
    <3>2. task' = [task EXCEPT ![j][r] = x]
      BY <3>1 DEF delegateTask
    <3> HIDE DEF x
    <3> QED
      BY <1>1, <2>1, <3>2
  <2> QED
    BY <2>2, <2>3, <2>4
<1>5. CASE execute
  BY <1>5 DEF execute, executeWorkflow
<1>6. CASE edit
  BY <1>6 DEF edit, editDocument
<1>7. CASE withdraw
  <2>1. CASE task' = task
    BY <2>1
  <2>2. CASE task' # task
    <3>1. PICK j \in Running :
            task' = [task EXCEPT ![j] = [r \in Steps |->
                       IF task[j][r].status \in OpenTask
                       THEN [task[j][r] EXCEPT !.status = "REJECTED"]
                       ELSE task[j][r]]]
      BY <1>7, <2>2 DEF withdraw, withdrawRunning
    <3>2. CASE j = i
      BY <1>1, <3>1, <3>2
    <3>3. CASE j # i
      BY <1>1, <3>1, <3>3
    <3> QED
      BY <3>2, <3>3
  <2> QED
    BY <2>1, <2>2
<1>8. CASE escalation
  <2>1. ~Escalated(i, s)
    BY <1>1 DEF Escalated, OpenTask
  <2> QED
    BY <1>8, <2>1 DEF escalation, escalationSelect, escalationUpdate
<1>9. CASE delegationChange \/ lifecycleStep \/ UNCHANGED vars
  BY <1>9 DEF delegationChange, lifecycleStep, engineVars, vars
<1> QED
  BY <1>3, <1>4, <1>5, <1>6, <1>7, <1>8, <1>9 DEF Next

\* decideTask refuses closed tasks and no other step (rejection of the chain,
\* withdrawal, the escalation job, a resubmission) rewrites one.
THEOREM DecisionsAreFinal == Spec => DecisionsFinal
<1>1. EngineInv /\ [Next]_vars =>
        [\A i \in Instances, s \in Steps :
           task[i][s].status \in Signed => task'[i][s] = task[i][s]]_vars
  BY NextFinal
<1> QED
  BY <1>1, EngineInvariant, PTL DEF Spec, DecisionsFinal

-----------------------------------------------------------------------------
(* What a step does to one chain *)

\* The chain keeps the amount and the content it was opened for; it neither
\* starts nor comes back to running or to life.
ChainKept(i) ==
  /\ inst'[i].amount = inst[i].amount /\ inst'[i].hash = inst[i].hash
  /\ inst'[i].status = "NONE" <=> inst[i].status = "NONE"
  /\ inst'[i].status = "RUNNING" => inst[i].status = "RUNNING"
  /\ inst'[i].status \in LiveInstance => inst[i].status \in LiveInstance

\* Deciding, executing, escalating, editing and withdrawing open no chain.
LEMMA EngineKeepsChain ==
  ASSUME EngineInv, NEW i \in Instances,
         \/ decide \/ execute \/ escalation \/ delegationChange \/ edit
         \/ withdrawRunning \/ inst' = inst
  PROVE  ChainKept(i)
<1>1. /\ inst \in [Instances -> Instance] /\ inst[i] \in Instance
      /\ ChainOK(inst[i], task[i])
  BY DEF EngineInv, TypeOK
<1>2. ASSUME NEW x, inst'[i] = [inst[i] EXCEPT !.status = x],
             x \notin {"NONE", "RUNNING"}, inst[i].status # "NONE",
             x = "ESCALATED" => inst[i].status = "RUNNING"
      PROVE  ChainKept(i)
  BY <1>1, <1>2 DEF Instance, ChainKept, LiveInstance
<1>3. CASE decide
  <2>1. PICK u \in Users, j \in Instances, s \in Steps :
          \/ approveTask(u, j, s)
          \/ \E d \in {"REJECTED", "RETURNED"} : rejectTask(u, j, s, d)
          \/ \E to \in Delegatees : delegateTask(u, j, s, to)
    BY <1>3 DEF decide
  <2>2. task[j][s].status # "NONE"
    BY <2>1 DEF approveTask, rejectTask, delegateTask, Decidable, OpenTask
  <2>3. inst[j].status # "NONE"
    BY <2>2 DEF EngineInv, ChainOK, RowsMatch
  <2>4. CASE inst'[i] = inst[i]
    BY <2>4 DEF ChainKept
  <2>5. CASE inst'[i] # inst[i]
    <3>1. i = j
      BY <1>1, <2>1, <2>5 DEF approveTask, completeWorkflow, rejectTask, delegateTask
    <3>2. \/ inst'[i] = [inst[i] EXCEPT !.step = @ + 1]
          \/ \E x \in {"APPROVED", "EXECUTION_PENDING", "REJECTED"} :
               inst'[i] = [inst[i] EXCEPT !.status = x]
      BY <1>1, <2>1, <2>5, <3>1 DEF approveTask, completeWorkflow, rejectTask, delegateTask
    <3>3. CASE inst'[i] = [inst[i] EXCEPT !.step = @ + 1]
      BY <1>1, <3>3 DEF Instance, ChainKept
    <3> QED
      BY <1>2, <2>3, <3>1, <3>2, <3>3
  <2> QED
    BY <2>4, <2>5
<1>4. CASE escalation
  <2>1. \/ inst'[i] = inst[i]
        \/ inst[i].status = "RUNNING" /\ inst'[i] = [inst[i] EXCEPT !.status = "ESCALATED"]
    BY <1>4 DEF escalation, escalationSelect, escalationUpdate
  <2> QED
    BY <1>2, <2>1 DEF ChainKept
<1>5. CASE edit
  <2>1. PICK v \in Versions : editDocument(v)
    BY <1>5 DEF edit
  <2>2. \/ inst'[i] = inst[i]
        \/ /\ inst[i].status \in LiveInstance \cup {"EXECUTION_PENDING"}
           /\ inst'[i] = [inst[i] EXCEPT !.status = "CANCELLED"]
    BY <2>1 DEF editDocument, invalidateStaleApproval
  <2> QED
    BY <1>2, <2>2 DEF ChainKept, LiveInstance
<1>6. CASE withdrawRunning
  <2>1. \/ inst'[i] = inst[i]
        \/ inst[i].status = "RUNNING" /\ inst'[i] = [inst[i] EXCEPT !.status = "CANCELLED"]
    BY <1>6 DEF withdrawRunning, Running
  <2> QED
    BY <1>2, <2>1 DEF ChainKept
<1>7. CASE delegationChange \/ inst' = inst
  BY <1>7 DEF delegationChange, ChainKept
<1>8. CASE execute
  <2>1. PICK u \in Users, j \in Instances : executeWorkflow(u, j)
    BY <1>8 DEF execute
  <2>2. CASE i # j
    <3>1. inst'[i] = inst[i]
      BY <1>1, <2>1, <2>2 DEF executeWorkflow
    <3> QED
      BY <3>1 DEF ChainKept
  <2>3. CASE i = j
    <3>1. /\ inst[i].status = "EXECUTION_PENDING" /\ inst'[i].status = "EXECUTED"
          /\ inst'[i].amount = inst[i].amount /\ inst'[i].hash = inst[i].hash
      BY <1>1, <2>1, <2>3 DEF executeWorkflow, Instance
    <3> QED
      BY <3>1 DEF ChainKept, LiveInstance
  <2> QED
    BY <2>2, <2>3
<1> QED
  BY <1>3, <1>4, <1>5, <1>6, <1>7, <1>8

\* A chain that was opened keeps its amount and its content for good.
LEMMA OpenedChainKept ==
  ASSUME EngineInv, [Next]_vars, NEW i \in Instances, inst[i].status # "NONE"
  PROVE  ChainKept(i)
<1>1. CASE submit
  <2>1. PICK j \in Instances, a \in Amounts : startWorkflow(j, a)
    BY <1>1 DEF submit
  <2>2. j # i /\ inst \in [Instances -> Instance]
    BY <2>1 DEF startWorkflow, EngineInv, TypeOK
  <2>3. inst'[i] = inst[i]
    BY <2>1, <2>2 DEF startWorkflow
  <2> QED
    BY <2>3 DEF ChainKept
<1>2. CASE withdraw
  BY <1>2, EngineKeepsChain DEF withdraw
<1>3. CASE lifecycleStep \/ UNCHANGED vars
  BY <1>3, EngineKeepsChain DEF lifecycleStep, engineVars, vars
<1> QED
  BY <1>1, <1>2, <1>3, EngineKeepsChain DEF Next

-----------------------------------------------------------------------------
(* Who may sign *)

\* Inductive strengthening of SignaturesEntitled: a task stands as its stage
\* was configured, or was handed on by somebody entitled and now waits for a
\* delegatee alone; and whoever signed it was entitled, or got it that way.
Assigned(c, s, t) ==
  t.status # "NONE" =>
    \/ /\ t.roles = ResolvedRoles(s) /\ t.user = ApproverUser[s]
       /\ t.decidedBy # NoUser => Entitled(t.decidedBy, s, c.amount)
    \/ /\ t.roles = {} /\ t.user \in Delegatees
       /\ \E u \in t.handedBy : Entitled(u, s, c.amount)

AssignedInv == \A i \in Instances, s \in Steps : Assigned(inst[i], s, task[i][s])

\* A user whom decideTask accepts on a task that stands as configured is one
\* of the people the stage names.
LEMMA DecideEntitled ==
  ASSUME TypeOK, NEW u \in Users, NEW s \in Steps, NEW t \in Task, NEW a \in Amounts,
         t.roles = ResolvedRoles(s), t.user = ApproverUser[s], MayDecide(u, t, a)
  PROVE  Entitled(u, s, a)
<1>1. active \subseteq Delegations
  BY DEF TypeOK
<1>2. CASE t.roles = {}
  BY <1>2 DEF MayDecide, Entitled
<1>3. CASE t.roles # {}
  BY <1>1, <1>3 DEF MayDecide, Entitled
<1> QED
  BY <1>2, <1>3

\* What one step of the engine does to the assignment of one task: nothing, a
\* signature, a hand-over, or the rows of a new chain.
SameTask(i, s) ==
  /\ inst'[i].amount = inst[i].amount
  /\ task'[i][s].status # "NONE" => task[i][s].status # "NONE"
  /\ task'[i][s].roles = task[i][s].roles /\ task'[i][s].user = task[i][s].user
  /\ task'[i][s].decidedBy = task[i][s].decidedBy
  /\ task'[i][s].handedBy = task[i][s].handedBy

SignedTask(i, s) ==
  \E u \in Users :
    /\ Decidable(u, i, s)
    /\ inst'[i].amount = inst[i].amount
    /\ task'[i][s].roles = task[i][s].roles /\ task'[i][s].user = task[i][s].user
    /\ task'[i][s].decidedBy = u
    /\ task'[i][s].handedBy = task[i][s].handedBy

HandedTask(i, s) ==
  \E u \in Users, to \in Delegatees :
    /\ Decidable(u, i, s)
    /\ inst'[i].amount = inst[i].amount
    /\ task'[i][s].roles = {} /\ task'[i][s].user = to
    /\ task'[i][s].decidedBy = task[i][s].decidedBy
    /\ task'[i][s].handedBy = task[i][s].handedBy \cup {u}

FreshTask(i, s) ==
  /\ task'[i][s].status # "NONE" =>
       task'[i][s].roles = ResolvedRoles(s) /\ task'[i][s].user = ApproverUser[s]
  /\ task'[i][s].decidedBy = NoUser

\* A step that leaves the task and the amount of the instance alone.
LEMMA UntouchedTask ==
  ASSUME NEW i \in Instances, NEW s \in Steps,
         task'[i][s] = task[i][s], inst'[i].amount = inst[i].amount
  PROVE  SameTask(i, s)
  BY DEF SameTask

LEMMA TaskMoves ==
  ASSUME TypeOK, [Next]_vars, NEW i \in Instances, NEW s \in Steps
  PROVE  SameTask(i, s) \/ SignedTask(i, s) \/ HandedTask(i, s) \/ FreshTask(i, s)
<1>1. /\ inst \in [Instances -> Instance] /\ task \in [Instances -> [Steps -> Task]]
      /\ task[i][s] \in Task /\ inst[i] \in Instance
  BY DEF TypeOK
<1>2. CASE submit
  <2>1. PICK j \in Instances, a \in Amounts : startWorkflow(j, a)
    BY <1>2 DEF submit
  <2>2. CASE j = i
    <3>1. task'[i][s] = IF s \in Applicable(a) THEN NewTask(s) ELSE NoTask
      BY <1>1, <2>1, <2>2 DEF startWorkflow
    <3> QED
      BY <3>1 DEF NewTask, NoTask, FreshTask
  <2>3. CASE j # i
    BY <1>1, <2>1, <2>3, UntouchedTask DEF startWorkflow
  <2> QED
    BY <2>2, <2>3
<1>3. CASE decide
  <2>1. PICK u \in Users, j \in Instances, r \in Steps :
          \/ approveTask(u, j, r)
          \/ \E d \in {"REJECTED", "RETURNED"} : rejectTask(u, j, r, d)
          \/ \E to \in Delegatees : delegateTask(u, j, r, to)
    BY <1>3 DEF decide
  <2>2. CASE approveTask(u, j, r)
    <3>1. inst'[i].amount = inst[i].amount
      BY <1>1, <2>2 DEF approveTask, completeWorkflow, Instance
    <3>2. CASE j = i /\ r = s
      <4>1. task'[i][s] = [task[i][s] EXCEPT !.status = "APPROVED", !.decidedBy = u]
        BY <1>1, <2>2, <3>2 DEF approveTask
      <4>2. Decidable(u, i, s)
        BY <2>2, <3>2 DEF approveTask
      <4> QED
        BY <1>1, <3>1, <4>1, <4>2 DEF SignedTask, Task
    <3>3. CASE ~(j = i /\ r = s)
      <4>1. task'[i][s] = task[i][s]
        BY <1>1, <2>2, <3>3 DEF approveTask
      <4> QED
        BY <3>1, <4>1, UntouchedTask
    <3> QED
      BY <3>2, <3>3
  <2>3. CASE \E d \in {"REJECTED", "RETURNED"} : rejectTask(u, j, r, d)
    <3>1. PICK d \in {"REJECTED", "RETURNED"} : rejectTask(u, j, r, d)
      BY <2>3
    <3>2. inst'[i].amount = inst[i].amount
      BY <1>1, <3>1 DEF rejectTask, Instance
    <3>3. CASE j = i /\ r = s
      <4>1. task'[i][s] = [task[i][s] EXCEPT !.status = d, !.decidedBy = u]
        BY <1>1, <3>1, <3>3 DEF rejectTask
      <4>2. Decidable(u, i, s)
        BY <3>1, <3>3 DEF rejectTask
      <4> QED
        BY <1>1, <3>2, <4>1, <4>2 DEF SignedTask, Task
    <3>4. CASE j = i /\ r # s
      <4>1. task'[i][s] = IF task[i][s].status \in OpenTask
                          THEN [task[i][s] EXCEPT !.status = "REJECTED"] ELSE task[i][s]
        BY <1>1, <3>1, <3>4 DEF rejectTask
      <4> QED
        BY <1>1, <3>2, <4>1 DEF SameTask, Task, OpenTask
    <3>5. CASE j # i
      BY <1>1, <3>1, <3>2, <3>5, UntouchedTask DEF rejectTask
    <3> QED
      BY <3>3, <3>4, <3>5
  <2>4. CASE \E to \in Delegatees : delegateTask(u, j, r, to)
    <3>1. PICK to \in Delegatees : delegateTask(u, j, r, to)
      BY <2>4
    <3>2. inst' = inst
      BY <3>1 DEF delegateTask
    <3>3. CASE j = i /\ r = s
      <4>1. task'[i][s] = [task[i][s] EXCEPT !.status = "PENDING", !.roles = {}, !.user = to,
                             !.handedBy = task[i][s].handedBy \cup {u}]
        BY <1>1, <3>1, <3>3 DEF delegateTask
      <4>2. Decidable(u, i, s)
        BY <3>1, <3>3 DEF delegateTask
      <4> QED
        BY <1>1, <3>2, <4>1, <4>2 DEF HandedTask, Task
    <3>4. CASE ~(j = i /\ r = s)
      <4>1. task'[i][s] = task[i][s]
        BY <1>1, <3>1, <3>4 DEF delegateTask
      <4> QED
        BY <3>2, <4>1, UntouchedTask
    <3> QED
      BY <3>3, <3>4
  <2> QED
    BY <2>1, <2>2, <2>3, <2>4
<1>4. CASE execute
  <2>1. PICK u \in Users, j \in Instances : executeWorkflow(u, j)
    BY <1>4 DEF execute
  <2> QED
    BY <1>1, <2>1, UntouchedTask DEF executeWorkflow, Instance
<1>5. CASE edit
  <2>1. PICK v \in Versions : editDocument(v)
    BY <1>5 DEF edit
  <2>2. \/ inst'[i] = inst[i]
        \/ inst'[i] = [inst[i] EXCEPT !.status = "CANCELLED"]
    BY <2>1 DEF editDocument, invalidateStaleApproval
  <2> QED
    BY <1>1, <2>1, <2>2, UntouchedTask DEF editDocument, Instance
<1>6. CASE withdraw
  <2>1. \/ inst'[i] = inst[i]
        \/ inst'[i] = [inst[i] EXCEPT !.status = "CANCELLED"]
    BY <1>6 DEF withdraw, withdrawRunning
  <2>2. inst'[i].amount = inst[i].amount
    BY <1>1, <2>1 DEF Instance
  <2>3. \/ task'[i][s] = task[i][s]
        \/ /\ task[i][s].status \in OpenTask
           /\ task'[i][s] = [task[i][s] EXCEPT !.status = "REJECTED"]
    <3>1. CASE task' = task
      BY <3>1
    <3>2. CASE task' # task
      <4>1. PICK j \in Running :
              task' = [task EXCEPT ![j] = [r \in Steps |->
                         IF task[j][r].status \in OpenTask
                         THEN [task[j][r] EXCEPT !.status = "REJECTED"]
                         ELSE task[j][r]]]
        BY <1>6, <3>2 DEF withdraw, withdrawRunning
      <4>2. CASE j = i
        BY <1>1, <4>1, <4>2
      <4>3. CASE j # i
        BY <1>1, <4>1, <4>3
      <4> QED
        BY <4>2, <4>3
    <3> QED
      BY <3>1, <3>2
  <2> QED
    BY <1>1, <2>2, <2>3 DEF SameTask, Task, OpenTask
<1>7. CASE escalation
  <2>1. CASE escalationSelect
    BY <2>1, UntouchedTask DEF escalationSelect
  <2>2. CASE escalationUpdate
    <3>1. \/ inst'[i] = inst[i]
          \/ inst'[i] = [inst[i] EXCEPT !.status = "ESCALATED"]
      BY <2>2 DEF escalationUpdate
    <3>2. task'[i][s] = IF Escalated(i, s)
                        THEN [task[i][s] EXCEPT !.status = "ESCALATED"] ELSE task[i][s]
      BY <2>2 DEF escalationUpdate
    <3>3. inst'[i].amount = inst[i].amount
      BY <1>1, <3>1 DEF Instance
    <3> QED
      BY <1>1, <3>2, <3>3 DEF SameTask, Task, Escalated
  <2> QED
    BY <1>7, <2>1, <2>2 DEF escalation
<1>8. CASE delegationChange \/ lifecycleStep \/ UNCHANGED vars
  BY <1>8, UntouchedTask DEF delegationChange, lifecycleStep, engineVars, vars
<1> QED
  BY <1>2, <1>3, <1>4, <1>5, <1>6, <1>7, <1>8 DEF Next

\* Every assignment is kept as configured or handed on by somebody entitled.
LEMMA NextAssigned == EngineInv /\ AssignedInv /\ [Next]_vars => AssignedInv'
<1> SUFFICES ASSUME EngineInv, AssignedInv, [Next]_vars, NEW i \in Instances, NEW s \in Steps
             PROVE  Assigned(inst'[i], s, task'[i][s])
  BY DEF AssignedInv
<1> DEFINE a == inst[i].amount
           t == task[i][s]
<1>1. /\ TypeOK /\ t \in Task /\ a \in Amounts /\ Assigned(inst[i], s, t)
      /\ t.decidedBy # NoUser => t.status \notin OpenTask
  BY DEF EngineInv, TypeOK, AssignedInv, Instance, ChainOK, DecidersRecorded, Signed, OpenTask
<1>2. ASSUME NEW u \in Users, Decidable(u, i, s)
      PROVE  /\ t.status # "NONE"
             /\ Entitled(u, s, a) \/ \E v \in t.handedBy : Entitled(v, s, a)
             /\ t.roles = ResolvedRoles(s) /\ t.user = ApproverUser[s] => Entitled(u, s, a)
  <2>1. t.status \in OpenTask /\ MayDecide(u, t, a)
    BY <1>2 DEF Decidable
  <2>2. t.status # "NONE"
    BY <2>1 DEF OpenTask
  <2> QED
    BY <1>1, <2>1, <2>2, DecideEntitled DEF Assigned
<1>3. CASE SameTask(i, s)
  BY <1>1, <1>3 DEF SameTask, Assigned
<1>4. CASE SignedTask(i, s)
  BY <1>1, <1>2, <1>4 DEF SignedTask, Assigned
<1>5. CASE HandedTask(i, s)
  <2>1. PICK u \in Users, to \in Delegatees :
          /\ Decidable(u, i, s)
          /\ inst'[i].amount = a
          /\ task'[i][s].roles = {} /\ task'[i][s].user = to
          /\ task'[i][s].handedBy = t.handedBy \cup {u}
    BY <1>5 DEF HandedTask
  <2>2. \E v \in t.handedBy \cup {u} : Entitled(v, s, a)
    BY <1>2, <2>1
  <2> QED
    BY <2>1, <2>2 DEF Assigned
<1>6. CASE FreshTask(i, s)
  BY <1>6 DEF FreshTask, Assigned
<1> QED
  BY <1>1, <1>3, <1>4, <1>5, <1>6, TaskMoves

LEMMA InitAssigned == Init => AssignedInv
  BY DEF Init, AssignedInv, Assigned, NoTask

LEMMA AssignedHolds == Spec => [](EngineInv /\ AssignedInv)
  BY EngineInvariant, InitAssigned, NextAssigned, PTL DEF Spec

LEMMA InvImpliesEntitled == EngineInv /\ AssignedInv => SignaturesEntitled
<1> SUFFICES ASSUME EngineInv, AssignedInv, NEW i \in Instances, NEW s \in Steps,
                    task[i][s].decidedBy # NoUser
             PROVE  \/ Entitled(task[i][s].decidedBy, s, inst[i].amount)
                    \/ \E u \in task[i][s].handedBy : Entitled(u, s, inst[i].amount)
  BY DEF SignaturesEntitled
<1>1. task[i][s].status # "NONE"
  BY DEF EngineInv, ChainOK, DecidersRecorded, Signed
<1> QED
  BY <1>1 DEF AssignedInv, Assigned

\* decideTask: every signature on every chain is by an assignee, a role holder
\* or a delegate within the limits of a delegation, or on a task such a person
\* handed over, however delegations were activated and revoked meanwhile.
THEOREM SignersAreEntitled == Spec => []SignaturesEntitled
  BY AssignedHolds, InvImpliesEntitled, PTL

\* Every stage that covers the chain's amount was signed, by different people
\* other than the owner, each entitled to the stage or handed it by somebody
\* who was.
EntirelySigned(i) ==
  /\ \A s \in Applicable(inst[i].amount) :
       /\ task[i][s].status = "APPROVED"
       /\ task[i][s].decidedBy \in Users \ {Owner}
       /\ \E u \in {task[i][s].decidedBy} \cup task[i][s].handedBy :
            Entitled(u, s, inst[i].amount)
  /\ \A r, s \in Applicable(inst[i].amount) :
       r # s => task[i][r].decidedBy # task[i][s].decidedBy

\* What a document may conclude from a chain whose stages are all approved.
LEMMA ApprovedIsEntirelySigned ==
  ASSUME EngineInv, SignaturesEntitled, NEW i \in Instances,
         \A s \in Applicable(inst[i].amount) : task[i][s].status = "APPROVED"
  PROVE  EntirelySigned(i)
<1>1. /\ \A s \in Applicable(inst[i].amount) : task[i][s].decidedBy \in Users \ {Owner}
      /\ \A r, s \in Applicable(inst[i].amount) :
           r # s => task[i][r].decidedBy # task[i][s].decidedBy
  BY ApprovedByOthers
<1>2. ASSUME NEW s \in Applicable(inst[i].amount)
      PROVE  \E u \in {task[i][s].decidedBy} \cup task[i][s].handedBy :
               Entitled(u, s, inst[i].amount)
  <2>1. s \in Steps /\ task[i][s].decidedBy # NoUser
    BY <1>1, ConstantsAssumption DEF Applicable
  <2> QED
    BY <2>1 DEF SignaturesEntitled
<1> QED
  BY <1>1, <1>2 DEF EntirelySigned

-----------------------------------------------------------------------------
(* The escape hatch *)

\* Every stage of the configured chain names somebody who can open its task:
\* the assignee (who holds a role of the stage, if it has any), or a holder of
\* one of its roles.
Staffed ==
  \A s \in Steps : \E u \in Users :
    /\ ApproverUser[s] = NoUser \/ ApproverUser[s] = u
    /\ ApproverUser[s] # NoUser \/ ResolvedRoles(s) # {}
    /\ ResolvedRoles(s) = {} \/ u \in Holders(ResolvedRoles(s))

\* There are as many people to hand a task to, the owner apart, as stages.
EnoughDelegatees ==
  /\ IsFiniteSet(Delegatees) /\ IsFiniteSet(Steps)
  /\ Cardinality(Steps) <= Cardinality(Delegatees \ {Owner})

\* A set of numbers that is not empty has a least one.
LEMMA LeastNumber ==
  ASSUME NEW S \in SUBSET Nat, S # {}
  PROVE  \E s \in S : \A r \in S : s <= r
<1>1. PICK s \in S : \A r \in S : <<r, s>> \notin OpToRel(<, Nat)
  BY NatLessThanWellFounded, WFMin
<1>2. \A r \in S : r < s => <<r, s>> \in OpToRel(<, Nat)
  BY DEF OpToRel
<1>3. \A r \in S : ~(r < s)
  BY <1>1, <1>2
<1>4. \A r \in S : r \in Nat /\ s \in Nat
  OBVIOUS
<1> QED
  BY <1>3, <1>4

\* A non-empty set of stages has an earliest one.
LEMMA EarliestStage ==
  ASSUME NEW S \in SUBSET Steps, S # {}
  PROVE  \E s \in S : \A r \in S : ~(r < s)
<1>1. S \subseteq Nat
  BY ConstantsAssumption
<1>2. PICK s \in S : \A r \in S : s <= r
  BY <1>1, LeastNumber
<1> QED
  BY <1>1, <1>2

\* Somebody among the delegatees signed no other stage and is not the owner.
LEMMA FreeDelegatee ==
  ASSUME EnoughDelegatees, NEW s \in Steps, NEW f
  PROVE  \E to \in Delegatees \ {Owner} : \A r \in Steps \ {s} : f[r] # to
<1> DEFINE R == Steps \ {s}
           D == Delegatees \ {Owner}
           I == {f[r] : r \in R}
<1>1. IsFiniteSet(R) /\ Cardinality(R) = Cardinality(Steps) - 1
  BY FS_RemoveElement DEF EnoughDelegatees
<1>2. IsFiniteSet(D)
  BY FS_Subset DEF EnoughDelegatees
<1>3. IsFiniteSet(I) /\ Cardinality(I) <= Cardinality(R)
  <2>1. [r \in R |-> f[r]] \in Surjection(R, I)
    BY DEF Surjection
  <2> QED
    BY <1>1, <2>1, FS_Surjection
<1>4. ~(D \subseteq I)
  <2> SUFFICES ASSUME D \subseteq I PROVE FALSE
    OBVIOUS
  <2>1. Cardinality(D) <= Cardinality(I)
    BY <1>3, FS_Subset
  <2>2. /\ Cardinality(D) \in Nat /\ Cardinality(I) \in Nat
        /\ Cardinality(Steps) \in Nat
    BY <1>2, <1>3, FS_CardinalityType DEF EnoughDelegatees
  <2>3. Cardinality(Steps) <= Cardinality(D)
    BY DEF EnoughDelegatees
  <2> QED
    BY <1>1, <1>3, <2>1, <2>2, <2>3
<1> QED
  BY <1>4

LEMMA InvImpliesEscape ==
  ASSUME Staffed, EnoughDelegatees, EngineInv, AssignedInv
  PROVE  EscapeHatch
<1> SUFFICES ASSUME NEW i \in Instances, inst[i].status \in LiveInstance
             PROVE  \E s \in Steps, u \in Users :
                      /\ Decidable(u, i, s)
                      /\ \E to \in Delegatees \cup {u} : ChainAllows(to, i, s)
  BY DEF EscapeHatch
<1> DEFINE open == {s \in Steps : task[i][s].status \in OpenTask}
<1>1. open # {}
  BY DEF EngineInv, ChainOK, StatusMatches
<1>2. PICK s \in open : \A r \in open : ~(r < s)
  BY <1>1, EarliestStage
<1>3. s \in Steps /\ task[i][s].status \in OpenTask /\ task[i][s].status # "NONE"
  BY DEF OpenTask
<1>4. \E u \in Users : Decidable(u, i, s)
  <2>1. CASE /\ task[i][s].roles = ResolvedRoles(s)
             /\ task[i][s].user = ApproverUser[s]
    BY <1>3, <2>1 DEF Staffed, Decidable, MayDecide
  <2>2. CASE task[i][s].roles = {} /\ task[i][s].user \in Delegatees
    <3>1. task[i][s].user \in Users /\ task[i][s].user # NoUser
      BY <2>2, ConstantsAssumption
    <3> QED
      BY <1>3, <2>2, <3>1 DEF Decidable, MayDecide
  <2> QED
    BY <1>3, <2>1, <2>2 DEF AssignedInv, Assigned
<1>5. PICK to \in Delegatees \ {Owner} :
        \A r \in Steps \ {s} : task[i][r].decidedBy # to
  <2> DEFINE f == [r \in Steps |-> task[i][r].decidedBy]
  <2>1. \A r \in Steps \ {s} : f[r] = task[i][r].decidedBy
    OBVIOUS
  <2> HIDE DEF f
  <2>2. \E to \in Delegatees \ {Owner} : \A r \in Steps \ {s} : f[r] # to
    BY <1>3, FreeDelegatee
  <2> QED
    BY <2>1, <2>2
<1>6. ChainAllows(to, i, s)
  <2>1. \A r \in Steps : r < s => r # s /\ r \notin open
    BY <1>2, <1>3, ConstantsAssumption
  <2> QED
    BY <1>5, <2>1 DEF ChainAllows
<1> QED
  BY <1>3, <1>4, <1>5, <1>6

\* "Delegating to another user remains the documented escape hatch": in a
\* company whose stages are staffed and which has as many people to delegate
\* to as the chain has stages, no chain is ever stuck on segregation of duties.
THEOREM EscapeIsOpen ==
  ASSUME Staffed, EnoughDelegatees
  PROVE  Spec => []EscapeHatch
<1>1. EngineInv /\ AssignedInv => EscapeHatch
  BY InvImpliesEscape
<1> QED
  BY <1>1, AssignedHolds, PTL

=============================================================================
