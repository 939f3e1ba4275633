\* One CR upgrades two nodes, one with a workload under a disruption budget.
SPECIFICATION Spec
CONSTANTS
  None = None
  n1 = n1
  n2 = n2
  n3 = n3
  c1 = c1
  c2 = c2
  p1 = p1
  p2 = p2
  Nodes = {n1, n2}
  Crs = {c1}
  Versions = {1, 2}
  Pods = {p1, p2}
  PodSpec <- GuardedAndBare
  Selector <- SelectAll
  MaxParallel <- DefaultParallel
  Specs <- DrainUpgrade
  Edits <- ForwardEdits
  MaxGen = 1
  Lagging = {}
  Env = {"jobfail", "crash", "deadline", "writeerr"}
VIEW ReadyView
INVARIANTS TypeOK ParallelismBound FlashIsolated ReadyIsTrue
