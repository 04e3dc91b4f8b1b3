SPECIFICATION FairSpec
CONSTANTS
    audio = audio
    event1 = event1
    event2 = event2
    OutputCallbacks <- MCOutputCallbacks
    RouterCallbacks <- MCRouterCallbacks
    MaxSessions = 3
INVARIANTS
    DepthCountsScopes
    NoCallbackDuringTeardown
PROPERTY TeardownEnds
CHECK_DEADLOCK FALSE
