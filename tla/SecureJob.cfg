CONSTANTS
  ann = ann
  bob = bob
  max = max
  paper = paper
  foil = foil
  NoUser = NoUser
  Users <- MCUsers
  Approvers = {ann, bob}
  Delegates = {max}
  FinalAuthority = {max}
  Requirements <- MCRequirements
  Required <- MCRequired
  Planned = 2
  MaxBatches = 2
  MaxRecs = 1
SPECIFICATION SecureSpec
SYMMETRY Symmetry
INVARIANTS
  MaterialsUnderDualControl
  IssuedInFullOnce
  OnlyPassedLeaves
PROPERTIES
  EndedUnlessTaskLeftOpen
CHECK_DEADLOCK FALSE
