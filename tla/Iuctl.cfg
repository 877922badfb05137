SPECIFICATION FairSpec
CONSTANTS
    Server = {s1, s2}
    Client = {c1, c2}
    Inode = {i1}
    MaxMsgs = 3
    Faults = {"kill", "crash", "signal"}
    NULL = NULL
INVARIANTS
    TypeOK
    Paired
    RightReply
    NoLeftovers
PROPERTIES
    CommandsEnd
CHECK_DEADLOCK FALSE
