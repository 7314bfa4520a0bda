\* Two overlapping calls: is one active command per node kept?
SPECIFICATION Spec
CONSTANTS
  n1 = n1
  h1 = h1
  Node = {n1}
  Key = {k1, k2}
  Hub = {h1}
  HubOf <- OnlyHub
  CmdId = {c1, c2}
  Worker = {w1, w2}
  TTL = {2}
  LeaseDuration = {1}
  MaxPull = 1
  RateWindow = 1
  RateMax = 2
  MaxLag = 0
  MaxTime = 3
  Connections = 2
SYMMETRY Identities
INVARIANT OneActivePerNode
