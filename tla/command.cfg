SPECIFICATION FairSpec
CONSTANTS
    Kinds = {"ping", "delete", "list", "read", "http", "tcp", "udp"}
    Window = 1
    Faults <- MCFaults
    Chunks = 1
    Mtu = 2
    HeaderLen = 1
INVARIANTS
    TypeOK
    Understood
    OkMeansDone
    NeverStuck
PROPERTIES
    Pipes
    EndsArrive
    EndsLeave
