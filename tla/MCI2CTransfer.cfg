SPECIFICATION FairSpec

CONSTANTS
    Proc = {p1, p2}
    MaxLen = 2
    Retries = 1
    MaxSignals = 1

INVARIANT TypeOK
INVARIANT WokenMeansMoved
INVARIANT HandlerHasBuffer
PROPERTY TransferReturns
PROPERTY BusFreed
\* The system really stops: a process that shares the device may sleep for ever,
\* and the model ends with a byte outside a buffer.
CHECK_DEADLOCK FALSE
