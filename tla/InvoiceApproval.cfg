CONSTANTS
  ann = ann
  bob = bob
  cy = cy
  NoUser = NoUser
  NoVersion = 0
  Users <- MCUsers
  Owner = ann
  Roles <- MCRoles
  RoleHolders <- MCRoleHolders
  Delegations = {}
  Steps <- MCSteps
  ApproverRoles <- MCApproverRoles
  ApproverUser <- MCApproverUser
  AmountMin <- MCAmountMin
  AmountMax <- MCAmountMax
  Amounts = {1}
  AmountOf <- MCAmountOf
  Versions <- MCVersions
  Delegatees = {}
  Instances = {1, 2}
  Statuses <- InvoiceStatuses
  PostFrom <- InvoicePostFrom
  NeedsExecution = TRUE
  Submitters = {ann, cy}
  FinalAuthority = {cy}
  MaxPostings = 2
SPECIFICATION CrudSpec
INVARIANTS
  PostedAtMostOnce
  PostingBacked
PROPERTIES
  Spec
CHECK_DEADLOCK FALSE
