SPECIFICATION Spec
CONSTANTS
    Ids <- MCIds
    None = None
    MaxDialogs = 3
    MaxSessions = 1
INVARIANT IdsUsedWhileValid
\* libVLC may have no dialog left to display.
CHECK_DEADLOCK FALSE
