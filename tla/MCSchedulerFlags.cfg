CONSTANTS
    Slice <- MCSlice
    Points = {p1, p2}
    Flags = {set, clear}
    MaxSvcDepth = 1
    Spurious = FALSE
SPECIFICATION Spec
PROPERTIES
    FlagsRestored
