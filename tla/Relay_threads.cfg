SPECIFICATION Spec
CONSTANTS
    Source = {1, 2}
    Sizes <- FileAndSome
    Leaving = {2}
    server_fd = 3
    target = 4
    CHUNK_SIZE = 2
    MaxItems <- Items
    MaxRefusals = 1
    Text = Text
    NULL = NULL
INVARIANTS
    OneListener
\* The sources may send nothing more, and the behaviour may end undefined.
CHECK_DEADLOCK FALSE
