SPECIFICATION FlowSpec
CONSTANTS
  a = a
  b = b
  vf1 = vf1
  vf2 = vf2
  vf3 = vf3
  None = None
  AutoPort = AutoPort
  NoPort = NoPort
  NoId = NoId
  NoFlow = NoFlow
  Values = {a, b}
  Ports = {1, 2}
  VFs = {vf1, vf2, vf3}
  VfIds = {0, 1}
  NoVf = NoVf
  VfIdOf <- MCVfIdOf
  PortOf <- MCPortOf
  Rules <- MCRules
  FlowIds = {1, 2, 3, 4}
  MaxEdits = 1
  MaxFaults = 0
INVARIANT
  RangesKept
CHECK_DEADLOCK FALSE
