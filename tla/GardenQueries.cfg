\* Two nodes, a chat prompt with room for one, two of three hubs with one name.
SPECIFICATION GardenSpec
CONSTANTS
    u1 = u1
    u2 = u2
    d1 = d1
    d2 = d2
    d3 = d3
    w1 = w1
    w2 = w2
    n1 = n1
    n2 = n2
    k1 = k1
    k2 = k2
    User = {u1, u2}
    Device = {d1, d2, d3}
    Worker = {w1}
    Node = {n1, n2}
    Key = {k1, k2}
    HubName <- TwoAlike
    NodeId <- NodeIds
    ChatLimit = 1
    Diligent = {}
SYMMETRY Alike
INVARIANT OwnersSeeTheirReadings
