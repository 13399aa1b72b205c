CONSTANTS
    Letters <- MCLetters
    Words <- MCWords
    Depth = 1
    MaxLen = 3
SPECIFICATION Spec
INVARIANT EchoIsLine
PROPERTIES LossIsExplained DotsOutsideLine PromptReturns
