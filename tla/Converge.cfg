\* Every informer cache may trail; nothing fails and no Job expires (the first
\* day after the flashes).
SPECIFICATION FairSpec
CONSTANTS
  None = None
  n1 = n1
  n2 = n2
  n3 = n3
  c1 = c1
  c2 = c2
  p1 = p1
  p2 = p2
  Nodes = {n1, n2}
  Crs = {c1}
  Versions = {1}
  Pods = {p1}
  PodSpec <- OnePod
  Selector <- SelectAll
  MaxParallel <- OneAtATime
  Specs <- DrainV1
  Edits <- NoEdits
  MaxGen = 0
  Lagging = {"node", "job", "pod"}
  Env = {}
INVARIANTS ReadyIsTrue
PROPERTIES Converges
