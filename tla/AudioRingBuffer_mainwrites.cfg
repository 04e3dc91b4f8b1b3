SPECIFICATION Spec
CONSTANTS
    Capacity = 4
    Word = 16
    MaxBlock = 3
    MaxSamples = 8
    MainCalls <- MCMainCalls
    MainWaits = FALSE
INVARIANT ReadableWithinCapacity
