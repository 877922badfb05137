SPECIFICATION Spec
CHECK_DEADLOCK FALSE
CONSTANTS
    Nid = {1, 2, 3}
    NUM_DATACENTERS = 3
    Nowhere = Nowhere
    Client = {2, 3}
    Server = 1
    Maintaining = {2, 3}
    Home <- Started
    Locations <- Says
    Asked <- Asks
    Known <- Begins
    Told <- Tells
    Kinds <- Sending
    MaxItems <- Items
    Destroying = {2}
    NULL = NULL
INVARIANTS
    Agree
    Sorted
    Kept
