----------------------------- MODULE MCExpense ------------------------------
(* One expense for TLC: one approval stage, three contents, two vouchers.  *)
EXTENDS ExpenseToPay, TLC

\* ann claims, bob approves; cy and dan share the finance duties.
CONSTANTS ann, bob, cy, dan

MCUsers == {ann, bob, cy, dan}
MCRoles == {"manager"}
MCRoleHolders == [r \in MCRoles |-> {bob, ann}]
MCSteps == {1}
MCApproverRoles == <<{"manager"}>>
MCApproverUser == <<NoUser>>
MCAmountMin == <<Null>>
MCAmountMax == <<Null>>
MCVersions == 1..3
MCAmountOf == <<0, 1, 3>>

\* The values of the column's CHECK that a modelled operation writes.
MCStatuses == {"DRAFT", "SUBMITTED", "APPROVED", "REJECTED", "PAID", "POSTED",
               "VOID"}
=============================================================================
