SPECIFICATION RFairSpec
CONSTANTS
    WordSize = 32
    ByteSize = 4
    LedSize = 2
    NumRegs = 3
    RamWords = 2
    RomWords = 4
    BitResult <- MCBitResult
    NoRx = NoByte
    RxBytes = {}
    Programs <- LuiPrograms
    PowerUpRam <- ZeroRam
    SwitchValues = {5}
    Enables = {TRUE}
PROPERTIES
    ImplementsRV32I
