\* One process, one signal in the middle of a read.
SPECIFICATION Spec

CONSTANTS
    Proc = {p1}
    MaxLen = 2
    Retries = 2
    MaxSignals = 1

INVARIANT InsideBuffer
