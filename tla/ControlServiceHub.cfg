\* One hub polling for two nodes: queue order, the nodes as slots, and that no
\* command waits for ever.
SPECIFICATION FairSpec
CONSTANTS
  n1 = n1
  n2 = n2
  h1 = h1
  h2 = h2
  Node <- TwoNodes
  Key = {k1, k2}
  Hub = {h1}
  HubOf <- SameHub
  CmdId = {c1, c2}
  Worker = {w1}
  TTL = {2}
  LeaseDuration = {1}
  MaxPull = 2
  RateWindow = 0
  RateMax = 1
  MaxLag = 0
  MaxTime = 3
PROPERTIES PendingResolves ImplementsSlots OldestFirst
