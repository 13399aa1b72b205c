SPECIFICATION FairSpec
CONSTANTS
    b1 = b1
    nul = nul
    Byte <- MCByte
    Nul = nul
    N = 4
    FifoDepth = 3
    RxLevel = 2
    MaxBytes = 7
INVARIANTS
    TypeOK
    GetcHoldsOldest
PROPERTIES
    ImplementsLink
    EverythingIsRead
CHECK_DEADLOCK FALSE
