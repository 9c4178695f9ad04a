SPECIFICATION Spec
CONSTANTS
    Kinds = {"ping", "delete", "list"}
    Window = 1
    Faults <- MCFaults
    Chunks = 2
    Mtu = 2
    HeaderLen = 1
INVARIANTS
    DeleteDone
