SPECIFICATION Spec
CONSTANTS
  n1 = n1
  n2 = n2
  NoHolder = NoHolder
  Nodes = {n1, n2}
  Slots = {1}
  LeaseDuration <- MCLeaseDuration
  MisconfiguredNodes = {}
  Steps = 2
  LeaseCanBeLost = FALSE
INVARIANT WorkKeepsLead
