CONSTANTS
  ann = ann
  bob = bob
  cy = cy
  NoUser = NoUser
  Users <- MCUsers
  Owner = ann
  Roles <- MCRoles
  RoleHolders <- MCRoleHolders
  Delegations <- MCDelegations
  Steps <- MCSteps
  ApproverRoles <- MCApproverRoles
  ApproverUser <- MCApproverUser
  AmountMin <- MCAmountMin
  AmountMax <- MCAmountMax
  Amounts <- MCAmounts
  Versions <- MCVersions
  Delegatees <- MCUsers
  Instances = {1}
  Statuses <- MCStatuses
  NeedsExecution = TRUE
SPECIFICATION Spec
INVARIANTS
  ChainSigned
  SignaturesEntitled
  EscapeHatch
  EngineInv
PROPERTIES
  DecisionsFinal
CHECK_DEADLOCK FALSE
