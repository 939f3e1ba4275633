\* A firmware policy and a driver upgrade meet on one node; nothing fails.
SPECIFICATION OpSpec
CONSTANTS
  None = None
  n1 = n1
  c1 = c1
  p1 = p1
  Nodes = {n1}
  Crs = {c1}
  Versions = {1}
  Pods = {p1}
  PodSpec <- OneWorkload
  Selector <- SelectAll
  MaxParallel <- OneAtATime
  Specs <- FirmwareSpecs
  Edits = {}
  MaxGen = 0
  Lagging = {}
  Env = {}
  Policy = Policy
  KmdVersions = {1, 2}
  DriverSpecs <- KmdSpecs
  DriverEdits <- KmdUpgrade
  DriverMaxGen = 1
INVARIANTS CordonsApart
