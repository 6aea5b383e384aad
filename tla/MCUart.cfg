SPECIFICATION LinkFairSpec
CONSTANTS
    BaudDiv = 8
    DataBits = 2
    TxBytes <- AllBytes
    MaxSlips = 2
INVARIANTS
    LinkTypeOK
    AtMostOneFrameBehind
PROPERTIES
    BytesArriveIntact
    EveryByteArrives
    ImplementsTxPort
