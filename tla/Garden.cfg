SPECIFICATION FairGardenSpec
CONSTANTS
    u1 = u1
    u2 = u2
    d1 = d1
    d2 = d2
    d3 = d3
    w1 = w1
    w2 = w2
    n1 = n1
    n2 = n2
    k1 = k1
    k2 = k2
    User = {u1, u2}
    Device = {d1, d2}
    Worker = {w1, w2}
    Node = {n1}
    Key = {k1, k2}
    HubName <- NamesDiffer
    NodeId <- OneId
    ChatLimit = 1
    Diligent = {d1}
INVARIANTS GardenTypeOK TokensSurvive HubsAttributed
PROPERTIES ReadingsArrive NodesStay NodesPinned
