SPECIFICATION Spec
CONSTANTS
    Number <- MCNumber
    LimitSets <- MCLimitSets
INVARIANTS
    NamedFaultIsPresent
    NormalIsAnswered
PROPERTIES
    ImplementsSafety
    LatchHolds
