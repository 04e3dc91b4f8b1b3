SPECIFICATION Spec
CONSTANTS
    PlaylistSize = 2
    Modes <- MCEveryMode
    Plans <- MCSafetyPlans
INVARIANTS MediaIsCurrent AdvancesOncePerEnd
PROPERTIES ReplacedOnlyWhenStopped StopDropsRequests
\* The application may issue its last call and everything then settles.
CHECK_DEADLOCK FALSE
