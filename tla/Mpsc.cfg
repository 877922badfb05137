CONSTANTS
    Producer = {p1, p2, p3}
    Job = {j1, j2}
    Node = {n1, n2, n3, n4}
    NULL = NULL
SPECIFICATION FairSpec
INVARIANTS
    TypeOK
    MemorySafe
    NoLeak
    ChainMends
    IInv
PROPERTIES
    RefinesTodoQueue
    EveryJobRuns
\* The queue may be destroyed, and is then gone.
CHECK_DEADLOCK FALSE
