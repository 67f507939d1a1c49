SPECIFICATION FairSpec
CONSTANTS
    LastInstance = 1
    ModeCount = 2
    Instances <- MCInstances
INVARIANTS
    NotDeaf
    ListensToOne
    LampsAreTrue
PROPERTIES
    LightbarArrives
