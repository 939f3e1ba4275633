\* A policy is installed, paused and upgraded, with a drain or without, on a node it manages and a host-managed one.
SPECIFICATION FromVersionOne
CONSTANTS
  None = None
  Cr = Cr
  n1 = n1
  n2 = n2
  p1 = p1
  p2 = p2
  Nodes = {n1, n2}
  Versions = {1, 2}
  Matched = {n1, n2}
  Host = {n2}
  Pods = {}
  PodSpec <- NoPods
  Specs <- UpgradeSpecs
  Edits <- UpgradeEdits
  MaxGen = 2
  Orders = {0}
  Env = {}
  MaxFaults = 0
INVARIANTS DoneIsTrue
PROPERTIES UpgradeLands
