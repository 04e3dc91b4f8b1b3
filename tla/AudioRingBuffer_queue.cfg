SPECIFICATION Spec
CONSTANTS
    Capacity = 4
    Word = 8
    MaxBlock = 3
    MaxSamples = 10
    MainCalls <- MCMainCalls
    MainWaits = TRUE
INVARIANTS NoTornCopy PeekIsLatest
PROPERTY IsSampleQueue
