SPECIFICATION UpdateFairSpec
CONSTANTS
  d1 = d1
  d2 = d2
  u1 = u1
  u2 = u2
  uD = uD
  f1 = f1
  f2 = f2
  f3 = f3
  p1 = p1
  p2 = p2
  Factory = Factory
  None = None
  Devices = {d1, d2}
  Urls = {u1, u2, uD}
  Archives = {f1, f2, f3, p1, p2}
  Dirs = {1, 2}
  Layout <- MCLayout
  Wants <- MCWants
  InitWant <- MCInitWant
  InitServer <- MCServer
  Slots = {1, 2}
  Publications <- MCPublications
  MaxTrouble = 3
INVARIANTS
  OnlyAskedIsStored
  CurrentUsesItsOwn
  EndedMeansStored
PROPERTIES
  UpdatesEnd
CHECK_DEADLOCK FALSE
