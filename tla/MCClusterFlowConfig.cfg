SPECIFICATION ClusterFairSpec
CONSTANTS
  a = a
  eth = eth
  v1 = v1
  v2 = v2
  n1 = n1
  n2 = n2
  c1 = c1
  c2 = c2
  p1 = p1
  p2 = p2
  u = u
  None = None
  Configs = {c1, c2}
  Nodes = {n1, n2}
  Pods = {p1, p2}
  Labels = {a}
  Interfaces = {eth}
  Addresses = {v1, v2}
  RuleIds <- MCRuleIds
  UserRules = {u}
  Specs <- MCSpecs
  PodStates <- MCPodStates
  InitConfigs <- MCInitConfigs
  InitPods <- MCInitPods
  MaxEdits = 2
  MaxFaults = 1
  Faults = {"api", "conflict", "read", "refused", "restart"}
INVARIANTS
  RulesAreRecorded
  DeletedIsGone
  RestMeansReflected
PROPERTY
  ClusterRulesArrive
CHECK_DEADLOCK FALSE
