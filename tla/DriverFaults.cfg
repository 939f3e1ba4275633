\* One node with a workload and a telemetry pod, one failure or intervention of any kind.
SPECIFICATION InstallOrUpgrade
CONSTANTS
  None = None
  Cr = Cr
  n1 = n1
  n2 = n2
  p1 = p1
  p2 = p2
  Nodes = {n1}
  Versions = {1, 2}
  Matched = {n1}
  Host = {}
  Pods = {p1, p2}
  PodSpec <- WorkloadAndTelemetry
  Specs <- InstallSpecs
  Edits <- InstallEdits
  MaxGen = 2
  Orders = {0}
  Env = {"cordon", "gate", "evict", "dswrite", "status", "clean", "uncordon", "ungate", "crash", "build", "badtag", "label", "pull", "skip", "human", "delete", "recreate"}
  MaxFaults = 1
INVARIANTS TypeOK ReadyIsLoaded DoneIsTrue GateHeldByCordon
PROPERTIES SwapOutOfService UpgradeLands
CHECK_DEADLOCK FALSE
