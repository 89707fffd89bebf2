CONSTANTS
  ann = ann
  bob = bob
  cy = cy
  dan = dan
  NoUser = NoUser
  Users <- MCUsers
  Owner = ann
  Roles <- MCRoles
  RoleHolders <- MCRoleHolders
  Delegations = {}
  Steps <- MCSteps
  ApproverRoles <- MCApproverRoles
  ApproverUser <- MCApproverUser
  AmountMin <- MCAmountMin
  AmountMax <- MCAmountMax
  Amounts = {0, 1, 3}
  AmountOf <- MCAmountOf
  Versions <- MCVersions
  Delegatees = {}
  Instances = {1}
  Statuses <- MCStatuses
  NeedsExecution = FALSE
  FinalAuthority = {ann}
  Payments = {1, 2}
SPECIFICATION ExpenseSpec
INVARIANTS
  DutiesSegregated
  PostingControlled
PROPERTIES
  SettlementSpec
  Spec
CHECK_DEADLOCK FALSE
