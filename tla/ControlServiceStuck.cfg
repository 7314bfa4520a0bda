\* A delivered command that outlives its expiry.
SPECIFICATION DiligentSpec
CONSTANTS
  n1 = n1
  n2 = n2
  h1 = h1
  h2 = h2
  Node <- TwoNodes
  Key = {k1}
  Hub = {h1}
  HubOf <- SameHub
  CmdId = {c1, c2}
  Worker = {w1}
  TTL = {1, 2}
  LeaseDuration = {1}
  MaxPull = 2
  RateWindow = 1
  RateMax = 1
  MaxLag = 0
  MaxTime = 3
PROPERTIES DeliveredResolves
