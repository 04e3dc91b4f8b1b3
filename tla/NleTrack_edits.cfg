SPECIFICATION Spec
CONSTANTS
    Clips = {a, b}
    SourceMarks <- MCSourceMarks
    RecordMarks <- MCRecordMarks
    Deltas <- MCDeltas
    Operations <- MCSoundOperations
    MaxCalls = 4
    Horizon = 8
    LabelledFrames <- MCLabelledFrames
SYMMETRY MCClips
INVARIANTS NoOverlap SearchAgrees
PROPERTIES RefusedChangesNothing ImplementsTimeline
\* The editor may stop calling.
CHECK_DEADLOCK FALSE
