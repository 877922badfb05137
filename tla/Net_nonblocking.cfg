SPECIFICATION ThreadSpec
CONSTANTS
    Peer = {n1}
    Known = {n1}
    MaxFd = 2
    MaxCalls = 1
    MaxIn = 1
    MaxPuts = 0
    Uses = {"send_msg"}
    NULL = NULL
PROPERTIES
    NextMsgNowReturns
CHECK_DEADLOCK FALSE
