\* One node, nothing fails and nobody edits: matchLabels may be visited in two orders.
SPECIFICATION Spec
CONSTANTS
  None = None
  Cr = Cr
  n1 = n1
  n2 = n2
  p1 = p1
  p2 = p2
  Nodes = {n1}
  Versions = {1}
  Matched = {n1}
  Host = {}
  Pods = {}
  PodSpec <- NoPods
  Specs <- OneVersion
  Edits <- NoEdits
  MaxGen = 0
  Orders = {0, 1}
  Env = {}
  MaxFaults = 0
PROPERTIES TemplateFollowsSpec
