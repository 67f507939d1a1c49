SPECIFICATION PartsSpec
CONSTANTS
    kKeyR = kKeyR
    kKeyF = kKeyF
    kKeyW = kKeyW
    kKeyD = kKeyD
    kKeyM = kKeyM
    kKeyN = kKeyN
    NoKey = NoKey
    ButtonKeys <- MCButtonKeys
    Slots = 3
    Width = 1920
    SWIPE_GESTURE_EDGE_MARGIN = 200
    Positions = {0, 199, 200, 1720, 1721}
    TOUCHPAD_SCROLL_THRESHOLD = 2
    Height = 5
    Ids = {1, 2}
    Builds <- MCBuilds
    Rates <- MCRates
    MaxRests = 2
    Settle = 1000
    MaxTouched = 4
    MaxAtOnce = 2
    Poses <- MCPoses
    Jolts <- MCJolts
    Hold = 1950
    MaxPoses = 2
    MaxJolts = 1
INVARIANTS
    TurnsAsMoved
    Enumerates
    SpeaksAsDescribed
    MovesAsTurned
    StillIsStill
    SticksPointWhereTheyAre
    PcSeesWhatIsHeld
    LeanReadsThePose
PROPERTIES
    IsRollover
    SwitchesAsMoved
