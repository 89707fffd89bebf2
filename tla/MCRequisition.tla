--------------------------- MODULE MCRequisition ----------------------------
(* Purchase requisitions for TLC: one stage, two contents, two rounds of   *)
(* approval.                                                               *)
EXTENDS RequisitionLifecycle, TLC

CONSTANTS ann, bob, max   \* ann requests, bob approves, max is final authority

MCUsers == {ann, bob, max}
MCRoles == {"manager"}
MCRoleHolders == [r \in MCRoles |-> {bob}]
MCSteps == {1}
MCApproverRoles == <<{"manager"}>>
MCApproverUser == <<NoUser>>
MCAmountMin == <<Null>>
MCAmountMax == <<Null>>
MCVersions == {1, 2}
MCAmountOf == <<1, 2>>

\* The values of the column's CHECK that a modelled operation writes.
MCStatuses == {"DRAFT", "SUBMITTED", "APPROVED", "REJECTED", "CANCELLED",
               "ON_HOLD", "PARTIALLY_CONVERTED", "FULLY_CONVERTED"}
=============================================================================
