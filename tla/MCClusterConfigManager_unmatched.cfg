SPECIFICATION ManagerSpec
CONSTANTS
  n1 = n1
  n2 = n2
  n3 = n3
  c1 = c1
  c2 = c2
  l1 = l1
  p1 = p1
  p2 = p2
  p3 = p3
  intel = intel
  id1 = id1
  v1 = v1
  v2 = v2
  None = None
  Nodes = {n1, n2}
  Configs = {c1, c2}
  Labels = {l1}
  Versions = {v1, v2}
  NodeLabels <- MCNodeLabels
  Bus <- MCBus
  Supported <- MCSupported
  Specs <- MCSpecs
  CacheLag = FALSE
  MaxEdits = 3
  MaxFaults = 0
INVARIANTS
  UnmatchedIsRemoved
CHECK_DEADLOCK FALSE
