SPECIFICATION FairSpec
CONSTANTS
    WdtWindow = 4
    AiPeriod = 2
    BmsPeriod = 4
    CliPause = 1
    WdtLoad = 8
    JobTicks <- MCJobTicks
    MaxSplits = 1
    Slow = {"AI", "CLI", "BMS", "WDT"}
INVARIANTS
    FlagsAreBeats
    DetectionBound
    AlarmNeedsLoad
PROPERTIES
    FreezeRecovers
