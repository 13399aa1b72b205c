SPECIFICATION Spec
CONSTANTS
    Plans <- Overflows
    JunkCount = 5
    MaxResets = 2
PROPERTY FirstReasonKept
