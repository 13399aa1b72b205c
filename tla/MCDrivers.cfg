CONSTANTS
    WordMod = 6
    Scale = 2
    Rate = 2
    I2cTimeout = 2
    MaxBurst = 2
    SpiTimeout = 1
    MaxBytes = 2
    Percent = 2
SPECIFICATION Spec
INVARIANTS LeftAsFound OkReadIsFresh AnswersAreOwn TimeIsCharged
PROPERTY CallsReturn
CHECK_DEADLOCK FALSE
