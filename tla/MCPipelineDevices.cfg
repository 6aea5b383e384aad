SPECIFICATION RFairSpec
CONSTANTS
    WordSize = 32
    ByteSize = 4
    LedSize = 2
    NumRegs = 3
    RamWords = 2
    RomWords = 4
    BitResult <- MCBitResult
    NoRx = NoByte
    RxBytes = {1, 2}
    Programs <- DevicePrograms
    PowerUpRam <- ZeroRam
    SwitchValues = {5}
    Enables = {TRUE, FALSE}
PROPERTIES
    RxByteHandedOver
    ImplementsSlotIsa
    KeepsCompleting
