SPECIFICATION DaemonFairSpec
CONSTANTS
  n1 = n1
  n2 = n2
  d1 = d1
  d2 = d2
  v0 = v0
  v1 = v1
  NoHolder = NoHolder
  None = None
  Factory = v0
  Versions = {v0, v1}
  Nodes = {n1}
  Devices = {d1, d2}
  Slots = {1}
  Cfgs <- TwoDeviceCfgs
  Skips = {TRUE, FALSE}
  MaxGen = 4
  MaxFaults = 3
  Faults = {"api", "prepare", "update", "reboot"}
  EditAnyTime = FALSE
  DeletesAllowed = FALSE
  RebootPrompt = TRUE
  LeaseDuration <- MCLeaseDurations
  Steps = 2
  LeaseCanBeLost = FALSE
INVARIANTS
  SucceededMeansApplied
  RebootOnlyDrained
PROPERTIES
  FinishOnlyAfterReboot
  UpdatesComplete
CHECK_DEADLOCK FALSE
