SPECIFICATION Spec
CONSTANTS
    r1 = r1
    r2 = r2
    i1 = i1
    n1 = n1
    n2 = n2
    noConn = noConn
    NoConn = noConn
    NodeIds = {n1, n2}
    PeerId <- MCPeerId
    ConnCap = 1
    NodeCap = 1
    Remotes = {r1}
    Inbound = {i1}
    ListenModes = {TRUE}
    HasRemoteList = TRUE
INVARIANTS
    ServingReachable
