SPECIFICATION Spec
CONSTANTS
    Peer = {n1}
    Known = {}
    MaxFd = 2
    MaxCalls = 2
    MaxIn = 1
    MaxPuts = 1
    Uses = {"send_msg", "send_stream", "next_msg_same", "next_msg_from", "net_suspend",
            "net_resume", "setNodeAddr", "shutdown_server"}
    NULL = NULL
INVARIANTS
    Addressed
    NotForgotten
PROPERTIES
    InOrder
    StreamsHold
CHECK_DEADLOCK FALSE
