SPECIFICATION TimedFairSpec
CONSTANTS
    ClockSize = 3
    kReportIntervalUs = 1
    kLateInputThresholdUs = 1
    Saturated = 2
    SequenceSize = 3
    MaxPass = 1
    Inputs = {pressed}
    NoInput = none
INVARIANTS
    NothingIsLeftBehind
    WindowIsTrue
PROPERTIES
    RateBound
    SequenceHasNoGap
    StatusArrives
