SPECIFICATION FlowFairSpec
CONSTANTS
    WordSize = 32
    ByteSize = 4
    LedSize = 2
    NumRegs = 3
    RamWords = 2
    RomWords = 4
    BitResult <- NoBits
    Calls <- MCCalls
    Binaries <- MCBinaries
    WordBits = 13
    PyBits = 16
    Draws <- MCDraws
    TurnsOfLoop = 2
    Programs <- MCPrograms
INVARIANTS
    HardwareRoundTrip
    HostRoundTrip
    ControlsOfFields
    BytesInPlace
    LogNamesWords
    ReferenceFollowsHardware
    FalseAlarms
PROPERTIES
    EndsOrSpins
CHECK_DEADLOCK FALSE
