SPECIFICATION Spec
CONSTANTS
    Files <- MCFiles
    Notes = {1, 2}
    Tempos = {1, 2}
    Interval = 2
    Jump = 2
    Drift = 1
    Plans <- MCPlans
INVARIANTS EachMessageOncePerPass RestsSilently PositionIsElapsed ClockKeepsTime
\* The application may make its last call and everything then settles.
CHECK_DEADLOCK FALSE
