SPECIFICATION FairSpec
CONSTANTS
    Peer = {n1, n2}
    Known = {n1}
    MaxFd = 3
    MaxCalls = 1
    MaxIn = 1
    MaxPuts = 0
    Uses = {"send_msg", "msg_source"}
    NULL = NULL
INVARIANTS
    TypeOK
    Addressed
PROPERTIES
    SourceRight
    EverybodyHeard
CHECK_DEADLOCK FALSE
