SPECIFICATION MCFairSpec
CONSTANTS
    ModeCount = 3
    KeyButtons = {mute}
    MouseButtons = {}
    GamepadButtons = {square}
    HybridButtons = {mute}
    kKeyM = keyM
    kKeyN = keyN
    kMouseButtonMiddle = middle
    Zones = {0}
    GyroAxes = {x}
    ScrollAxes = {}
    Unset = unset
    Limit = 1
    MaxDelta = 1
    BootModes = {2}
    keyM = keyM
    keyN = keyN
    middle = middle
    mute = mute
    square = square
    unset = unset
    x = x
    AxisMin <- MCAxisMin
    AxisMax <- MCAxisMax
    MoveInputs <- MCMoveInputs
INVARIANTS
    MovementConserved
PROPERTIES
    InputArrives
