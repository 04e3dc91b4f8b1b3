SPECIFICATION FairSpec
CONSTANTS
    PlaylistSize = 1
    Modes <- MCDefaultMode
    Plans <- MCStartStopPlans
PROPERTY PlayPlays
\* The application may issue its last call and everything then settles.
CHECK_DEADLOCK FALSE
