\* The version is edited forth and back.
SPECIFICATION Spec
CONSTANTS
  None = None
  n1 = n1
  n2 = n2
  n3 = n3
  c1 = c1
  c2 = c2
  p1 = p1
  p2 = p2
  Nodes = {n1}
  Crs = {c1}
  Versions = {1, 2}
  Pods = {}
  PodSpec <- NoPods
  Selector <- SelectAll
  MaxParallel <- OneAtATime
  Specs <- DrainUpgrade
  Edits <- AnyEdits
  MaxGen = 2
  Lagging = {}
  Env = {}
INVARIANTS ReadyIsTrue
