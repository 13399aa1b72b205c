SPECIFICATION FairSpec
CONSTANTS
    Plans <- Everything
    JunkCount = 5
    MaxResets = 3
INVARIANT
    CountIsResets
PROPERTIES
    ReportIsTrue
    NoFailureForgotten
    TaskReasonKept
    FailureIsRecovered
