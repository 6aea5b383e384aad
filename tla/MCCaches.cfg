SPECIFICATION CachesSpec
CONSTANTS
    ByteSize = 2
    Tags <- MCTags
    Indexes <- MCIndexes
    RamTag <- MCRamTag
    Cacheable <- MCCacheable
    StoreWords <- MCStoreWords
    PowerUpWords <- MCPowerUpWords
    ITags <- MCITags
    IIndexes <- MCIIndexes
    Rom <- MCRom
INVARIANTS
    Coherent
    LoadsReturnMemory
    FetchesAreTheRom
