SPECIFICATION Spec
CONSTANTS
    Size = 4
    PathOf <- MCPathOf
    Plans <- MCPlans
INVARIANTS MovesAreSplices ShuffleSkipsLoaded CachedMetadataIsOwn
PROPERTIES EditsKeepCurrentItem
\* The application may make its last call and everything then settles.
CHECK_DEADLOCK FALSE
