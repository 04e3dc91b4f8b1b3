SPECIFICATION Spec
CONSTANTS
    Sizes = {1, 2}
    Formats = {"RGBA", "RGB10_A2"}
    Plans <- MCPlans
INVARIANTS FencesDeletedOnce SamplesFinishedFrame  ExposedIsLatest RendersAsAsked
\* The frames run out.
CHECK_DEADLOCK FALSE
