\* One CR flashes three nodes one at a time and every flash may fail.
SPECIFICATION MSpec
CONSTANTS
  None = None
  n1 = n1
  n2 = n2
  n3 = n3
  c1 = c1
  c2 = c2
  p1 = p1
  p2 = p2
  Nodes = {n1, n2, n3}
  Crs = {c1}
  Versions = {1}
  Pods = {}
  PodSpec <- NoPods
  Selector <- SelectAll
  MaxParallel <- OneAtATime
  Specs <- Switches
  Edits <- AnyEdits
  MaxGen = 1
  Lagging = {}
  Env = {"jobfail", "ttl", "crash", "writeerr"}
VIEW MetricsView
SYMMETRY NodeSymmetry
INVARIANTS BlastRadius SlotAccounting CountedOnce HistoryIsCurrent
PROPERTIES RefinesRollout
