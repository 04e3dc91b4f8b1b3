SPECIFICATION FairSpec
CONSTANTS
    PlaylistSize = 2
    Modes <- MCDefaultMode
    Plans <- MCLivePlans
PROPERTIES PlayPlays PlayIndexPlays StopCompletes
\* The application may issue its last call and everything then settles.
CHECK_DEADLOCK FALSE
