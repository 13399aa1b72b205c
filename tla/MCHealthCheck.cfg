SPECIFICATION HealthSpec
CONSTANTS
    WdtWindow = 4
    AiPeriod = 2
    BmsPeriod = 4
    CliPause = 1
    WdtLoad = 8
    JobTicks <- MCJobTicks
    MaxSplits = 1
    Slow = {"AI", "BMS"}
INVARIANT AnswerIsTrue
