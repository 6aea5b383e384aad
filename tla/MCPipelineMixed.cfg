SPECIFICATION RSpec
CONSTANTS
    WordSize = 32
    ByteSize = 4
    LedSize = 2
    NumRegs = 3
    RamWords = 2
    RomWords = 4
    BitResult <- MCBitResult
    NoRx = NoByte
    RxBytes = {}
    Programs <- MixedPrograms
    PowerUpRam <- TwoRams
    SwitchValues = {5}
    Enables = {TRUE}
INVARIANTS
    TypeOK
    NoLoadForwarding
    RedirectNotLost
PROPERTIES
    StallIsOneBubble
    ImplementsSlotIsa
