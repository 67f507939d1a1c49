SPECIFICATION FairPcSpec
CONSTANTS
    stadia = stadia
    dualshock4 = dualshock4
    backendIDs <- MCbackendIDs
    Readers = {r1, r2, r3}
    PacketCapacity = 1
    Devices = {left, right}
    Calls = {c1, c2, c3}
    Adapters = {left, right}
    SinkCapacity = 2
    MaxReports = 2
    Pressable = {"kFn1", "kDpadUp"}
    Lengths = {6, 7, 10, 11, 21, 22, 27, 28, 36, 37, 40, 41, 64}
    Clients = {obs, browser}
    Capacity = 2
    MaxMessages = 4
INVARIANTS
    NeverSendsOnClosed
    NewestInOrder
    PathsAreRead
    ShownIsThere
    LoopListensOnce
    ReadsAsWritten
PROPERTIES
    StreamsUnlessWedged
    ReadInTheEnd
    ReturnIsSeen
    OpenedIsRead
