---------------------------- MODULE ExpenseToPay ----------------------------
(***************************************************************************)
(* One expense from draft to bank reconciliation                           *)
(* (apps/api/src/services/expenses.ts): approval by the engine, accounting *)
(* verification, GL posting, payment vouchers, statement reconciliation.   *)
(* Every service call is one transaction that locks the row it decides on. *)
(* Amounts are whole units: the code's 0.005 rounding tolerance is left    *)
(* out.                                                                    *)
(***************************************************************************)
EXTENDS Workflow, FiniteSetsExt

CONSTANTS
  FinalAuthority,  \* users who may hold one of SELF_AUTHORIZE_ROLES (an
                   \* assignment can begin and end between submissions)
  AmountOf,        \* [Versions -> Amounts]: the amount column of the content
  Payments         \* bound: payment_requests rows followed

ASSUME ExpenseAssumption ==
  /\ Owner \in Users
  /\ FinalAuthority \subseteq Users
  /\ AmountOf \in [Versions -> Amounts \cap Nat]
  /\ IsFiniteSet(Payments)
  /\ {"REJECTED", "POSTED", "VOID"} \subseteq Statuses
  /\ NeedsExecution = FALSE   \* the entity has no onApprove

VARIABLES
  selfAuthorized,  \* audit log holds a self_authorized row
  verifiedBy,  \* verified_by; NoUser while accounting_verified is false
  postedBy,    \* posted_by; NoUser while gl_posted is false
  payStatus,   \* the expense's payment_status
  pay,         \* payment_requests
  recon        \* expense_payment_reconciliations, by payment_request_id

expenseVars == <<selfAuthorized, verifiedBy, postedBy, payStatus, pay, recon>>
allVars == <<status, version, inst, task, active, cron, selfAuthorized,
             verifiedBy, postedBy, payStatus, pay, recon>>

People == Users \cup {NoUser}
PayRequest == [status : {"NONE", "SUBMITTED", "APPROVED", "PAID", "REJECTED"},
               amount : Nat, requestedBy : People, approvedBy : People,
               paidBy : People]
Reconciliation == [status : {"NONE", "MATCHED", "VARIANCE", "APPROVED"},
                   reconciledBy : People, approvedBy : People]

NoRequest == [status |-> "NONE", amount |-> 0, requestedBy |-> NoUser,
              approvedBy |-> NoUser, paidBy |-> NoUser]
NoRecon == [status |-> "NONE", reconciledBy |-> NoUser, approvedBy |-> NoUser]

amount == AmountOf[version]
glPosted == postedBy # NoUser

\* SUM(amount) over the vouchers whose status is in S.
SumOf(S) ==
  MapThenSumSet(LAMBDA p : pay[p].amount, {p \in Payments : pay[p].status \in S})

Reserving == {"SUBMITTED", "APPROVED", "PAID"}

\* approval_tasks of the expense with status APPROVED and decided_by u.
isExpenseApprover(u) ==
  \E i \in Instances, s \in Steps :
    task[i][s].status = "APPROVED" /\ task[i][s].decidedBy = u

\* guard_ops_immutable, the BEFORE UPDATE trigger on the row.
guard_ops_immutable ==
  /\ status \in {"POSTED", "PAID"} => status' \in {status, "VOID"}
  /\ status = "VOID" => status' = "VOID"

-----------------------------------------------------------------------------
(* Draft, submission, approval *)

\* No lower bound on the new amount, zero included.
updateExpense ==
  /\ status = "DRAFT"
  /\ version' \in Versions
  /\ UNCHANGED <<status, engineVars, expenseVars>>

\* submitExpense: only the creator; the budget check is ExpenseBudget's.
submitExpense ==
  /\ status = "DRAFT"
  /\ \/ /\ Owner \in FinalAuthority
        /\ selfAuthorize
        /\ selfAuthorized' = TRUE
     \/ /\ \E i \in Instances : startWorkflow(i, amount)
        /\ status' = "SUBMITTED"
        /\ UNCHANGED selfAuthorized
  /\ UNCHANGED <<verifiedBy, postedBy, payStatus, pay, recon>>

\* A decision whose write of the status the trigger refuses rolls back.
expenseEngineStep ==
  /\ decide \/ escalation \/ delegationChange
  /\ guard_ops_immutable
  /\ UNCHANGED expenseVars

-----------------------------------------------------------------------------
(* Accounting *)

verifyExpenseForPosting(u) ==
  /\ status = "APPROVED"
  /\ verifiedBy = NoUser
  /\ ~glPosted
  /\ u # Owner
  /\ ~isExpenseApprover(u)
  /\ amount > 0
  /\ verifiedBy' = u
  /\ UNCHANGED <<vars, selfAuthorized, postedBy, payStatus, pay, recon>>

\* Mutant: posting does not wait for the accounting verification.
postExpense_Unverified(u) ==
  /\ status = "APPROVED"
  /\ ~glPosted
  /\ u \notin {verifiedBy, Owner}
  /\ status' = "POSTED"
  /\ postedBy' = u
  /\ UNCHANGED <<version, engineVars, selfAuthorized, verifiedBy, payStatus,
                 pay, recon>>

postExpense(u) ==
  /\ status = "APPROVED"
  /\ ~glPosted
  /\ verifiedBy # NoUser
  /\ u \notin {verifiedBy, Owner}
  /\ status' = "POSTED"
  /\ postedBy' = u
  /\ UNCHANGED <<version, engineVars, selfAuthorized, verifiedBy, payStatus,
                 pay, recon>>

\* Mutant: the void closes the approval tasks and leaves their instance running.
voidExpense_ClosesTasks ==
  /\ status # "VOID"
  /\ \A p \in Payments : pay[p].status \notin Reserving
  /\ ~glPosted
  /\ status' = "VOID"
  /\ task' = [i \in Instances |-> [s \in Steps |->
                [task[i][s] EXCEPT !.status = IF @ = "NONE" THEN @ ELSE "REJECTED"]]]
  /\ UNCHANGED <<version, inst, active, cron, expenseVars>>

\* Voiding a posted expense reverses its journal and marks financial_postings
\* REVERSED, which the append-only trigger refuses: the call rolls back.
voidExpense ==
  /\ status # "VOID"
  /\ \A p \in Payments : pay[p].status \notin Reserving
  /\ ~glPosted
  /\ status' = "VOID"
  /\ UNCHANGED <<version, engineVars, expenseVars>>

-----------------------------------------------------------------------------
(* Payment vouchers *)

\* Mutant: only paid vouchers count against the outstanding amount.
payExpense_IgnoresPending(u, p, a) ==
  /\ status \in {"APPROVED", "POSTED"}
  /\ glPosted
  /\ pay[p].status = "NONE"
  /\ a > 0 /\ a <= amount - SumOf({"PAID"})
  /\ pay' = [pay EXCEPT ![p] = [NoRequest EXCEPT !.status = "SUBMITTED",
                                !.amount = a, !.requestedBy = u]]
  /\ UNCHANGED <<vars, selfAuthorized, verifiedBy, postedBy, payStatus, recon>>

payExpense(u, p, a) ==
  /\ status \in {"APPROVED", "POSTED"}
  /\ glPosted
  /\ pay[p].status = "NONE"
  /\ a > 0 /\ a <= amount - SumOf(Reserving)
  /\ pay' = [pay EXCEPT ![p] = [NoRequest EXCEPT !.status = "SUBMITTED",
                                !.amount = a, !.requestedBy = u]]
  /\ UNCHANGED <<vars, selfAuthorized, verifiedBy, postedBy, payStatus, recon>>

\* Who may approve or reject a voucher; the expense's status is not looked at.
mayReview(u, p) ==
  /\ pay[p].status = "SUBMITTED"
  /\ u \notin {pay[p].requestedBy, Owner}
  /\ ~isExpenseApprover(u)

approveExpensePayment(u, p) ==
  /\ mayReview(u, p)
  /\ pay' = [pay EXCEPT ![p].status = "APPROVED", ![p].approvedBy = u]
  /\ UNCHANGED <<vars, selfAuthorized, verifiedBy, postedBy, payStatus, recon>>

rejectExpensePayment(u, p) ==
  /\ mayReview(u, p)
  /\ pay' = [pay EXCEPT ![p].status = "REJECTED"]
  /\ UNCHANGED <<vars, selfAuthorized, verifiedBy, postedBy, payStatus, recon>>

\* Mutant: the accounting verifier may execute the payment.
executeExpensePayment_Verifier(u, p) ==
  /\ pay[p].status = "APPROVED"
  /\ u \notin {pay[p].requestedBy, pay[p].approvedBy, Owner}
  /\ status # "VOID"
  /\ ~isExpenseApprover(u)
  /\ glPosted
  /\ pay[p].amount <= amount - SumOf({"PAID"})
  /\ pay' = [pay EXCEPT ![p].status = "PAID", ![p].paidBy = u]
  /\ payStatus' = IF SumOf({"PAID"}) + pay[p].amount >= amount
                  THEN "PAID" ELSE "PARTIALLY_PAID"
  /\ UNCHANGED <<vars, selfAuthorized, verifiedBy, postedBy, recon>>

executeExpensePayment(u, p) ==
  /\ pay[p].status = "APPROVED"
  /\ u \notin {pay[p].requestedBy, pay[p].approvedBy}
  /\ status # "VOID"
  /\ u \notin {Owner, verifiedBy}
  /\ ~isExpenseApprover(u)
  /\ glPosted
  /\ pay[p].amount <= amount - SumOf({"PAID"})
  /\ pay' = [pay EXCEPT ![p].status = "PAID", ![p].paidBy = u]
  /\ payStatus' = IF SumOf({"PAID"}) + pay[p].amount >= amount
                  THEN "PAID" ELSE "PARTIALLY_PAID"
  /\ UNCHANGED <<vars, selfAuthorized, verifiedBy, postedBy, recon>>

\* The statement amount equals the voucher's (MATCHED) or is explained.
reconcileExpensePayment(u, p) ==
  /\ pay[p].status = "PAID"
  /\ u # pay[p].paidBy
  /\ recon[p].status = "NONE"
  /\ \E st \in {"MATCHED", "VARIANCE"} :
       recon' = [recon EXCEPT ![p] = [NoRecon EXCEPT !.status = st,
                                                     !.reconciledBy = u]]
  /\ UNCHANGED <<vars, selfAuthorized, verifiedBy, postedBy, payStatus, pay>>

approveExpensePaymentReconciliation(u, p) ==
  /\ recon[p].status \in {"MATCHED", "VARIANCE"}
  /\ u # recon[p].reconciledBy
  /\ recon' = [recon EXCEPT ![p].status = "APPROVED", ![p].approvedBy = u]
  /\ UNCHANGED <<vars, selfAuthorized, verifiedBy, postedBy, payStatus, pay>>

-----------------------------------------------------------------------------
ExpenseInit ==
  /\ Init
  /\ selfAuthorized = FALSE
  /\ verifiedBy = NoUser /\ postedBy = NoUser
  /\ payStatus = "UNPAID"
  /\ pay = [p \in Payments |-> NoRequest]
  /\ recon = [p \in Payments |-> NoRecon]

ExpenseNext ==
  \/ updateExpense \/ submitExpense \/ expenseEngineStep \/ voidExpense
  \/ \E u \in Users : verifyExpenseForPosting(u) \/ postExpense(u)
  \/ \E u \in Users, p \in Payments :
       \/ \E a \in 1..amount : payExpense(u, p, a)
       \/ approveExpensePayment(u, p) \/ rejectExpensePayment(u, p)
       \/ executeExpensePayment(u, p) \/ reconcileExpensePayment(u, p)
       \/ approveExpensePaymentReconciliation(u, p)

ExpenseSpec == ExpenseInit /\ [][ExpenseNext]_allVars

-----------------------------------------------------------------------------
(* Properties *)

\* Shape of expense_transactions, payment_requests and the reconciliations:
\* every status written by the services passes the CHECK of its column.
ExpenseTypeOK ==
  /\ TypeOK
  /\ selfAuthorized \in BOOLEAN
  /\ verifiedBy \in People /\ postedBy \in People
  /\ payStatus \in {"UNPAID", "PARTIALLY_PAID", "PAID"}
  /\ pay \in [Payments -> PayRequest]
  /\ recon \in [Payments -> Reconciliation]

\* The vouchers of the expense settle one liability: due once posted, reserved
\* by vouchers that are not rejected, paid by executed ones.
Ledger == INSTANCE SettlementLedger WITH
  Payables <- {AmountOf[v] : v \in Versions} \ {0},
  due <- IF glPosted THEN amount ELSE 0,
  reserved <- SumOf(Reserving),
  paid <- SumOf({"PAID"})

\* payExpense, rejectExpensePayment and executeExpensePayment implement the
\* settlement of one payable, so its theorems hold of the vouchers.
SettlementSpec == Ledger!LedgerSpec

\* Cash left the company only after four separate hands: no executed voucher
\* was executed by its requester, its approver, the expense's creator, its
\* accounting verifier or one of its workflow approvers; and no voucher was
\* approved by its requester, the creator or a workflow approver.
DutiesSegregated ==
  \A p \in Payments :
    /\ pay[p].paidBy # NoUser =>
         /\ pay[p].paidBy \notin {Owner, verifiedBy, pay[p].requestedBy,
                                  pay[p].approvedBy}
         /\ ~isExpenseApprover(pay[p].paidBy)
         /\ NoUser \notin {verifiedBy, postedBy, pay[p].requestedBy,
                           pay[p].approvedBy}
    /\ pay[p].approvedBy # NoUser =>
         /\ pay[p].approvedBy \notin {Owner, pay[p].requestedBy}
         /\ ~isExpenseApprover(pay[p].approvedBy)

\* "Approval is not accounting verification ... is not GL posting": a posted
\* expense was verified by somebody else than its poster, creator and workflow
\* approvers, and approved by a complete chain unless it was
\* submitted by a final authority.
PostingControlled ==
  glPosted =>
    /\ verifiedBy \notin {NoUser, postedBy, Owner}
    /\ ~isExpenseApprover(verifiedBy)
    /\ \/ selfAuthorized
       \/ \E i \in Instances : /\ inst[i].status = "APPROVED"
                               /\ inst[i].amount = amount

=============================================================================
