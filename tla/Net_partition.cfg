SPECIFICATION Spec
CONSTANTS
    Peer = {n1}
    Known = {n1}
    MaxFd = 2
    MaxCalls = 2
    MaxIn = 1
    MaxPuts = 0
    Uses = {"send_msg"}
    NULL = NULL
INVARIANTS
    AlwaysDefined
CHECK_DEADLOCK FALSE
