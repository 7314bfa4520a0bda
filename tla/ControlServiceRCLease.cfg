\* Two overlapping polls: is a running lease replaced?
SPECIFICATION Spec
CONSTANTS
  n1 = n1
  h1 = h1
  Node = {n1}
  Key = {k1, k2}
  Hub = {h1}
  HubOf <- OnlyHub
  CmdId = {c1, c2}
  Worker = {w1, w2}
  TTL = {2}
  LeaseDuration = {2}
  MaxPull = 1
  RateWindow = 1
  RateMax = 2
  MaxLag = 1
  MaxTime = 3
  Connections = 2
SYMMETRY Identities
PROPERTY LeaseHonoured
