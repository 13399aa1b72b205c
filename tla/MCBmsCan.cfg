SPECIFICATION CanSpec
CONSTANTS
    Number <- MCNumber
    LimitSets <- MCLimitSets
    Samples <- MCSamples
    Ids = {0, 512, 536870912}
    OtherFrames <- MCOtherFrames
    IntMax <- MCIntMax
INVARIANTS
    NormalIsFounded
    ArrivesNearest
