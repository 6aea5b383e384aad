SPECIFICATION RSpec
CONSTANTS
    WordSize = 32
    ByteSize = 4
    LedSize = 2
    NumRegs = 3
    RamWords = 2
    RomWords = 4
    BitResult <- MCBitResult
    NoRx = NoByte
    RxBytes = {}
    Programs <- SlotPrograms
    PowerUpRam <- TwoRams
    SwitchValues = {5}
    Enables = {TRUE}
PROPERTIES
    ImplementsRV32I
