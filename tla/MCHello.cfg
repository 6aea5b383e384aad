SPECIFICATION RunFairSpec
CONSTANTS
    WordSize = 1024
    ByteSize = 256
    LedSize = 2
    NumRegs = 32
    RamWords = 2
    RomWords = 256
    BitResult <- MCBitResult
    NoRx = NoByte
    RxBytes = {}
    Programs <- Images
    PowerUpRam <- ZeroRam
    SwitchValues = {0}
    Enables = {TRUE}
    Width = 20
    Rows = 8
    TopBit = 9
INVARIANTS
    PrintsTheScreen
PROPERTIES
    ImplementsRV32I
    FinishesTheScreen
