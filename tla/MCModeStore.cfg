SPECIFICATION FairSpec
CONSTANTS
    ModeCount = 4
    Width = 4
    Bits <- MCBits
    ModeBits <- MCModeBits
    ChecksumBase <- MCChecksumBase
INVARIANTS
    NoForeignMode
PROPERTIES
    SwitchCompletes
    ImplementsRegister
