SPECIFICATION FairSpec
CONSTANTS
  n1 = n1
  n2 = n2
  NoHolder = NoHolder
  Nodes = {n1, n2}
  Slots = {1}
  LeaseDuration <- MCLeaseDuration
  MisconfiguredNodes = {n2}
  Steps = 1
  LeaseCanBeLost = TRUE
INVARIANTS
  TypeOK
  DrainOnlyWhileLeader
  WorkOnDrainedNode
  NilReturnMeansUncordoned
PROPERTIES
  WindowSpec
  RunReturns
