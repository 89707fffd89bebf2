CONSTANTS
  ann = ann
  bob = bob
  max = max
  NoUser = NoUser
  Users <- MCUsers
  Owner = ann
  Roles <- MCRoles
  RoleHolders <- MCRoleHolders
  Delegations = {}
  Steps <- MCSteps
  ApproverRoles <- MCApproverRoles
  ApproverUser <- MCApproverUser
  AmountMin <- MCAmountMin
  AmountMax <- MCAmountMax
  Amounts = {1, 2}
  AmountOf <- MCAmountOf
  Versions <- MCVersions
  Delegatees = {}
  Instances = {1, 2}
  Statuses <- MCStatuses
  NeedsExecution = FALSE
  Requesters = {ann, max}
  FinalAuthority = {max}
SPECIFICATION ReqSpec
INVARIANTS
  ConversionBacked
  CancelStopsChains
PROPERTIES
  ApprovedAsSubmitted
  Spec
CHECK_DEADLOCK FALSE
