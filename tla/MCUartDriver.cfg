SPECIFICATION FairSpec
CONSTANTS
    WordSize = 32
    ByteSize = 16
    LedSize = 2
    NumRegs = 2
    RamWords = 1
    RomWords = 1
    BitResult <- MCBitResult
    RxBytes <- MCRxBytes
    NoRx <- MCNoRx
    LineEnds <- MCLineEnds
    MinGap = 2
    MaxLine = 2
INVARIANTS
    LinesAsTyped
    LineFitsBuffer
PROPERTIES
    AnswersTheLine
    NoOverrunWhileReading
    EveryLineAnswered
