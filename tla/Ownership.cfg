\* Two CRs and people with kubectl meet on one node; everything may fail.
SPECIFICATION Spec
CONSTANTS
  None = None
  n1 = n1
  n2 = n2
  n3 = n3
  c1 = c1
  c2 = c2
  p1 = p1
  p2 = p2
  Nodes = {n1}
  Crs = {c1, c2}
  Versions = {1}
  Pods = {p1}
  PodSpec <- GuardedPod
  Selector <- SelectAll
  MaxParallel <- OneAtATime
  Specs <- DrainOrNot
  Edits <- AnyEdits
  MaxGen = 1
  Lagging = {}
  Env = {"jobfail", "ttl", "delete", "skip", "cordon", "uncordon", "crash", "deadline", "readerr", "writeerr", "lostreply"}
VIEW ControlView
SYMMETRY CrSymmetry
INVARIANTS FlasherOwnsNode ClaimsAreCurrent OneFlashPerNode
PROPERTIES RefinesRollout
CHECK_DEADLOCK FALSE
