SPECIFICATION FairSpec
CONSTANTS
    OutPorts = {1, 2}
    InPorts = 1
    KeyId = 0
    MaxOut <- OutLengths
    MaxIn <- InLengths
    Calls <- AllCalls
    NULL = NULL
INVARIANTS
    MemorySafe
PROPERTIES
    InOrder
    AnswersRight
    CallsReturn
    WriterReturns
\* The process may exit, the streams may be destroyed, or nothing more be put.
CHECK_DEADLOCK FALSE
