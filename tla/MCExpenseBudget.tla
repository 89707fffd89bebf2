--------------------------- MODULE MCExpenseBudget --------------------------
(* Three expenses of 2, 2 and 1 on an account allocated 3 of a budget of 4. *)
EXTENDS ExpenseBudget, TLC

MCExpenses == 1..3
MCAmount == <<2, 2, 1>>
=============================================================================
