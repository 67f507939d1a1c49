SPECIFICATION MCSpec
CONSTANTS
    ModeCount = 3
    KeyButtons = {square}
    MouseButtons = {r2}
    GamepadButtons = {square}
    HybridButtons = {}
    kKeyM = keyM
    kKeyN = keyN
    kMouseButtonMiddle = middle
    Zones = {0, 1, 2}
    GyroAxes = {}
    ScrollAxes = {}
    Unset = unset
    Limit = 2
    MaxDelta = 1
    BootModes = {0}
    keyM = keyM
    keyN = keyN
    middle = middle
    r2 = r2
    square = square
    unset = unset
    AxisMin <- MCAxisMin
    AxisMax <- MCAxisMax
    MoveInputs <- MCMoveInputs
INVARIANTS
    ReportsTrackInputs
    NothingUnsaid
    NeverZeroedGamepad
