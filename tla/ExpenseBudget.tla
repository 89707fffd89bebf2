---------------------------- MODULE ExpenseBudget ---------------------------
(***************************************************************************)
(* Budget reservation by expense submissions: several expenses charged to  *)
(* one GL account with an active budget (submitExpense, budgetPosition,    *)
(* createBudgetCommitment, the check_budget_available function and the     *)
(* trigger that releases a commitment).  The account is charged by these   *)
(* expenses only: other journals and hand-made commitments are outside.    *)
(***************************************************************************)
EXTENDS Integers, FiniteSets, FiniteSetsExt

CONSTANTS
  Expenses,     \* expenses on the account
  Amount,       \* [Expenses -> Nat]
  LineTotal,    \* SUM(budget_lines.amount) for the account
  HeaderTotal,  \* SUM(budgets.amount) over the same join
  Releasable    \* expenses whose commitment finance may release by hand

ASSUME BudgetAssumption ==
  /\ IsFiniteSet(Expenses)
  /\ Amount \in [Expenses -> Nat \ {0}]
  /\ LineTotal \in Nat \ {0}
  /\ HeaderTotal \in Nat /\ HeaderTotal >= LineTotal
  /\ Releasable \subseteq Expenses

VARIABLES
  expense,   \* status of each expense; CHECKED is a submit request between its
             \* first read of the budget and its lock of the budget row
  commit,    \* budget_commitments.amount while COMMITTED, 0 once RELEASED
  actual     \* posted debits of the account

budgetVars == <<expense, commit, actual>>

committed(S) == MapThenSumSet(LAMBDA e : commit[e], S)

\* budgetPosition's available: approved lines, less commitments, less actuals.
available == LineTotal - committed(Expenses) - actual

\* submitExpense up to the first check; nothing is locked but the expense.
submitCheck(e) ==
  /\ expense[e] = "DRAFT"
  /\ available >= Amount[e]
  /\ expense' = [expense EXCEPT ![e] = "CHECKED"]
  /\ UNCHANGED <<commit, actual>>

\* Mutant: the commitments of other documents are not deducted.
budgetAllows_ActualsOnly(e) == HeaderTotal - actual >= Amount[e]

\* check_budget_available answers ALLOW: the commitments of other documents
\* count against the budgets' header totals.
budgetAllows(e) ==
  HeaderTotal - committed(Expenses \ {e}) - actual >= Amount[e]

createBudgetCommitment(e) ==
  budgetAllows(e) /\ commit' = [commit EXCEPT ![e] = Amount[e]]

\* Rest of submitExpense, under the budget row's lock and the advisory lock.
\* A final authority's expense is APPROVED at once.
submitCommit(e) ==
  /\ expense[e] = "CHECKED"
  /\ createBudgetCommitment(e)
  /\ expense' \in {[expense EXCEPT ![e] = st] : st \in {"SUBMITTED", "APPROVED"}}
  /\ UNCHANGED actual

\* WARNING, BLOCK, or a failure of the workflow start: the request rolls back.
submitRollback(e) ==
  /\ expense[e] = "CHECKED"
  /\ expense' = [expense EXCEPT ![e] = "DRAFT"]
  /\ UNCHANGED <<commit, actual>>

\* Mutant: a rejection keeps the reservation.
decision_KeepsReservation(e) ==
  /\ expense[e] = "SUBMITTED"
  /\ \E st \in {"APPROVED", "REJECTED"} : expense' = [expense EXCEPT ![e] = st]
  /\ UNCHANGED <<commit, actual>>

\* completeWorkflow and rejectWorkflow write the status.
decision(e) ==
  /\ expense[e] = "SUBMITTED"
  /\ \/ /\ expense' = [expense EXCEPT ![e] = "APPROVED"]
        /\ UNCHANGED commit
     \/ /\ expense' = [expense EXCEPT ![e] = "REJECTED"]
        /\ commit' = [commit EXCEPT ![e] = 0]
  /\ UNCHANGED actual

\* postExpense debits the account; release_expense_budget_commitment frees the
\* commitment in the same transaction.
post(e) ==
  /\ expense[e] = "APPROVED"
  /\ expense' = [expense EXCEPT ![e] = "POSTED"]
  /\ actual' = actual + Amount[e]
  /\ commit' = [commit EXCEPT ![e] = 0]

void(e) ==
  /\ expense[e] \in {"DRAFT", "SUBMITTED", "APPROVED", "REJECTED"}
  /\ expense' = [expense EXCEPT ![e] = "VOID"]
  /\ commit' = [commit EXCEPT ![e] = 0]
  /\ UNCHANGED actual

\* POST /commitments/:id/release looks at neither the document nor its status.
releaseBudgetCommitment(e) ==
  /\ e \in Releasable
  /\ commit' = [commit EXCEPT ![e] = 0]
  /\ UNCHANGED <<expense, actual>>

BudgetInit ==
  /\ expense = [e \in Expenses |-> "DRAFT"]
  /\ commit = [e \in Expenses |-> 0]
  /\ actual = 0

BudgetNext ==
  \E e \in Expenses :
    \/ submitCheck(e) \/ submitCommit(e) \/ submitRollback(e)
    \/ decision(e) \/ post(e) \/ void(e) \/ releaseBudgetCommitment(e)

BudgetSpec == BudgetInit /\ [][BudgetNext]_budgetVars

-----------------------------------------------------------------------------
(* Properties *)

\* Shape of the expense statuses and of budget_commitments, whose amount is
\* never negative.
BudgetTypeOK ==
  /\ expense \in [Expenses -> {"DRAFT", "CHECKED", "SUBMITTED", "APPROVED",
                               "REJECTED", "POSTED", "VOID"}]
  /\ commit \in [Expenses -> Nat]
  /\ actual \in Nat

\* What the second check, made under the locks, guarantees however requests
\* interleave: commitments and actuals stay inside the budgets' totals.  Only
\* an expense whose reservation finance released by hand can overrun them,
\* once it is posted and by its own amount.
WithinBudget ==
  committed(Expenses) + actual
    <= HeaderTotal + MapThenSumSet(LAMBDA e : Amount[e],
                                   {e \in Releasable : expense[e] = "POSTED"})

\* No reservation leaks: an expense holds its commitment exactly while it is
\* submitted or approved (or until finance releases it), and its debit once
\* posted, never both.
ReservedExactlyOnce ==
  /\ \A e \in Expenses :
       \/ commit[e] = IF expense[e] \in {"SUBMITTED", "APPROVED"}
                      THEN Amount[e] ELSE 0
       \/ commit[e] = 0 /\ e \in Releasable
  /\ actual = MapThenSumSet(LAMBDA e : Amount[e],
                            {e \in Expenses : expense[e] = "POSTED"})
=============================================================================
