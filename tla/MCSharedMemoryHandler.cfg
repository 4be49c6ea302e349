\* Mode 1: the SIGCHLD handler on top of the server's own critical section.
CONSTANTS
    server = server
    driver = driver
    client = client
    Mode = 1
    Proc = {server, driver}
    Value = {v1, v2}
    MainOps <- MCMainOps
    HandlerOps <- MCHandlerOps
    SigintProcs <- MCSigintProcs
    Kills <- MCKills
    MaxSignals = 1
    MaxCount = 1
SPECIFICATION FairSpec
PROPERTIES
    HandlerReturns
CHECK_DEADLOCK FALSE
