SPECIFICATION GyroSpec
CONSTANTS
    Rates <- MCRates
    MaxRests = 1
    Settle = 100
    MaxTouched = 2
INVARIANTS
    NeverAgainstTheTurn
