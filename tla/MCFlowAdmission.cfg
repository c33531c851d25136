SPECIFICATION AdmissionSpec
CONSTANTS
  x = x
  eth0 = eth0
  eth1 = eth1
  None = None
  Bad = Bad
  LongMAC = LongMAC
  Unknown = Unknown
  AutoPort = AutoPort
  Malformed = Malformed
  Addresses <- MCAddresses
  Interfaces <- MCInterfaces
  NodeRules <- MCNodeRules
  ClusterRules <- MCClusterRules
  Pods <- MCPods
INVARIANTS AdmittedFits RangesOrdered GeneratedIsAdmitted
PROPERTIES OnlyTheNodeRefuses
