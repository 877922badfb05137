CONSTANTS
    Root = Root
    Child = {c1, c2}
    Item = {x, y}
    Node = {n1, n2, n3}
    NULL = NULL
SPECIFICATION FairSpec
INVARIANTS
    TypeOK
    MemorySafe
    NoLeak
PROPERTIES
    AnswersRight
    Swept
    RefinesStream
    CallsReturn
\* The program may exit, or the stream be destroyed.
CHECK_DEADLOCK FALSE
