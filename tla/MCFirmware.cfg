SPECIFICATION FairSpec
CONSTANTS
    CounterSize = 16
    NumThreads = 2
    Slice = 5
INVARIANTS
    FirmwareTypeOK
    MaskedInKernel
    StacksBalanced
    MainTakesASlot
    OwnPattern
PROPERTIES
    ImplementsRoundRobin
    SlotsTakeTurns
