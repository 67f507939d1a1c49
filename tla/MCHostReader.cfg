SPECIFICATION MCSysFairSpec
CONSTANTS
    ModeCount = 3
    KeyButtons = {square}
    MouseButtons = {}
    GamepadButtons = {}
    HybridButtons = {}
    kKeyM = keyM
    kKeyN = keyN
    kMouseButtonMiddle = middle
    Zones = {0}
    GyroAxes = {}
    ScrollAxes = {}
    Unset = unset
    Limit = 1
    MaxDelta = 1
    BootModes = {0}
    LastInstance = 1
    keyM = keyM
    keyN = keyN
    middle = middle
    square = square
    unset = unset
    Instances <- MCInstances
    AxisMin <- MCAxisMin
    AxisMax <- MCAxisMax
    MoveInputs <- MCMoveInputs
PROPERTIES
    ImplementsOutputReports
    PluggedInIsTaken
    HeldInputArrives
