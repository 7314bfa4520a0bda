SPECIFICATION FairSpec
CONSTANTS
    u1 = u1
    u2 = u2
    w1 = w1
    w2 = w2
    e1 = e1
    e2 = e2
    e3 = e3
    p1 = p1
    p2 = p2
    User = {u1, u2}
    Email = {e1, e2, e3}
    Password = {p1, p2}
    Worker = {w1, w2}
    Overlap = TRUE
PROPERTIES OneColumnAtATime
