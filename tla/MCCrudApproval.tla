--------------------------- MODULE MCCrudApproval ---------------------------
(* The record routes for TLC: a customer invoice with one approval stage   *)
(* (the default since migration 0204).                                     *)
EXTENDS CrudApproval, TLC

CONSTANTS ann, bob, cy   \* ann prepares, bob approves, cy submits and posts

MCUsers == {ann, bob, cy}
MCRoles == {"cfo"}
MCRoleHolders == [r \in MCRoles |-> {bob, ann}]
MCSteps == {1}
MCApproverRoles == <<{"cfo"}>>
MCApproverUser == <<NoUser>>
MCAmountMin == <<Null>>
MCAmountMax == <<Null>>
MCVersions == {1, 2}
MCAmountOf == <<1, 1>>

\* The values of the column's CHECK that a modelled operation writes.
InvoiceStatuses == {"DRAFT", "SUBMITTED", "APPROVED", "POSTED", "VOID"}
InvoicePostFrom == {"APPROVED", "POSTED"}
=============================================================================
