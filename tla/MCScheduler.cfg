\* Two program points, two values of the flags, at most one word kept on an
\* SVC stack: enough for every part of a context to differ between tasks.
\* The processor stops for good after an interrupt of an unknown id, so a
\* state without a successor is no error.
CONSTANTS
    Slice <- MCSlice
    Points = {p1, p2}
    Flags = {set, clear}
    MaxSvcDepth = 1
    Spurious = TRUE
SPECIFICATION FairSpec
INVARIANTS
    TypeOK
    SliceNotOverrun
    RunsInOwnContext
PROPERTIES
    ContextRestored
    FrameRefinement
    EveryTaskRuns
CHECK_DEADLOCK FALSE
