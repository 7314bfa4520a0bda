\* One node, three commands: retries, rate limit, succession of commands, and
\* leases shorter and longer than a command lives.
SPECIFICATION Spec
CONSTANTS
  n1 = n1
  n2 = n2
  h1 = h1
  h2 = h2
  Node <- OneNode
  Key = {k1, k2, k3}
  Hub = {h1}
  HubOf <- OnlyHub
  CmdId = {c1, c2, c3}
  Worker = {w1, w2}
  TTL = {2}
  LeaseDuration = {1, 3}
  MaxPull = 1
  RateWindow = 1
  RateMax = 2
  MaxLag = 1
  MaxTime = 3
SYMMETRY Identities
INVARIANTS TypeOK OneActivePerNode LeaseMatchesStatus RateLimitHolds
PROPERTIES NeverRedelivered LeaseHonoured ReportsUnderLease NothingAfterExpiry
