\* Mode 0, one SIGUSR1.  All processes may have exited, so a state without
\* a successor is no error.
CONSTANTS
    server = server
    driver = driver
    client = client
    Mode = 0
    Proc = {server, client}
    Value = {v1, v2}
    MainOps <- MCMainOps
    HandlerOps <- MCHandlerOps
    SigintProcs <- MCSigintProcs
    Kills <- MCKills
    MaxSignals = 1
    MaxCount = 1
SPECIFICATION FairSpec
INVARIANTS
    TypeOK
    Exclusion
    ReadsWhole
    CountExact
PROPERTIES
    RemovedMeansExit
    LockProgress
CHECK_DEADLOCK FALSE
