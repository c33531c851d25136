SPECIFICATION DaemonFairSpec
CONSTANTS
  n1 = n1
  n2 = n2
  d1 = d1
  d2 = d2
  v0 = v0
  v1 = v1
  NoHolder = NoHolder
  None = None
  Factory = v0
  Versions = {v0, v1}
  Nodes = {n1}
  Devices = {d1}
  Slots = {1}
  Cfgs <- FwCfgs
  Skips = {TRUE, FALSE}
  MaxGen = 3
  MaxFaults = 2
  Faults = {"api", "prepare", "update", "reboot", "crash"}
  EditAnyTime = TRUE
  DeletesAllowed = TRUE
  RebootPrompt = TRUE
  LeaseDuration <- MCLeaseDuration
  Steps = 1
  LeaseCanBeLost = TRUE
INVARIANT UnfinishedIsPending
PROPERTIES
  FlashOnlyByLeader
  CordonIsTemporary
CHECK_DEADLOCK FALSE
