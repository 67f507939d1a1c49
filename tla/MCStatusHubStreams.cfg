SPECIFICATION FairSpec
CONSTANTS
    Clients = {obs, browser}
    Capacity = 2
    MaxMessages = 4
PROPERTIES
    Streams
CHECK_DEADLOCK FALSE
