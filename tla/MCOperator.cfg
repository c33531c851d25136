SPECIFICATION OperatorFairSpec
CONSTANTS
  r1 = r1
  r2 = r2
  labeler = labeler
  daemon = daemon
  n1 = n1
  n2 = n2
  p1 = p1
  p2 = p2
  a1 = a1
  a2 = a2
  account = account
  labelerSet = labelerSet
  daemonSet = daemonSet
  x = x
  y = y
  None = None
  NoReplica = NoReplica
  NoObject = NoObject
  Replicas <- MCReplicas
  Assets <- MCAssets
  Blocking <- MCBlocking
  Contents <- MCContents
  FileContent <- MCFileContent
  Objects <- MCObjects
  ObjectsOf <- MCObjectsOf
  AssetStarts <- MCAssetStarts
  Starts <- MCStarts
  Nodes <- MCNodes
  Pools <- MCPools
  Nads <- MCNads
  Specs <- MCSpecs
  Capacities <- MCCapacities
  InitNodes <- MCInitNodes
  MaxVFs = 2
  Retries = 2
CHECK_DEADLOCK FALSE
INVARIANTS DeployedIsWhole RestMeansCurrent
PROPERTIES NoNeedlessDeletion ResourcesArrive ControllersRun
