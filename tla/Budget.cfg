CONSTANTS
  Expenses <- MCExpenses
  Amount <- MCAmount
  LineTotal = 3
  HeaderTotal = 4
  Releasable = {3}
SPECIFICATION BudgetSpec
INVARIANTS
  WithinBudget
  ReservedExactlyOnce
CHECK_DEADLOCK FALSE
