\* A Job lookup that fails once.
SPECIFICATION Spec
CONSTANTS
  None = None
  n1 = n1
  n2 = n2
  n3 = n3
  c1 = c1
  c2 = c2
  p1 = p1
  p2 = p2
  Nodes = {n1}
  Crs = {c1}
  Versions = {1}
  Pods = {}
  PodSpec <- NoPods
  Selector <- SelectAll
  MaxParallel <- OneAtATime
  Specs <- DrainV1
  Edits <- NoEdits
  MaxGen = 0
  Lagging = {}
  Env = {"readerr"}
INVARIANTS FlashIsolated
