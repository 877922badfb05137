SPECIFICATION FairSpec
CHECK_DEADLOCK FALSE
CONSTANTS
    Nid = {1, 2, 3}
    NUM_DATACENTERS = 3
    Nowhere = Nowhere
    Client = {2, 3}
    Server = 1
    Maintaining = {}
    Home <- Started
    Locations = {}
    Asked = {}
    Known <- Everybody
    Told = {}
    Kinds <- Sending
    MaxItems <- Items
    Destroying = {}
    NULL = NULL
PROPERTY
    Delivered
