----------------------------- MODULE MCWorkflow -----------------------------
(* Small instances of the approval engine for TLC. *)
EXTENDS Workflow, TLC

CONSTANTS ann, bob, cy   \* ann prepares the document

MCUsers == {ann, bob, cy}

\* bob holds both roles, cy only the second; a delegation may give cy the first,
\* for amounts up to 1.
MCRoles == {"cfo", "md"}
MCRoleHolders == [r \in MCRoles |-> IF r = "cfo" THEN {bob} ELSE {bob, cy}]
MCDelegations == {[delegate |-> cy, role |-> "cfo", limit |-> 1,
                   authorities |-> {[covers |-> TRUE, max |-> Null]}]}

\* Two stages; the second signs only amounts of 2 and above, and also names a
\* role the company never created.
MCSteps == {1, 2}
MCApproverRoles == <<{"cfo"}, {"md", "board"}>>
MCApproverUser == [s \in MCSteps |-> NoUser]
MCAmountMin == <<Null, 2>>
MCAmountMax == <<0, Null>>
MCAmounts == {1, 2}
MCVersions == {1, 2}

\* The values of the column's CHECK that a modelled operation writes.
MCStatuses == {"DRAFT", "SUBMITTED", "APPROVED", "REJECTED"}
=============================================================================
