SPECIFICATION FairSpec
CONSTANTS
    u1 = u1
    u2 = u2
    d1 = d1
    d2 = d2
    w1 = w1
    w2 = w2
    User = {u1, u2}
    Device = {d1, d2}
    Worker = {w1, w2}
INVARIANTS TypeOK BoundedClaims
PROPERTIES Provisioned
