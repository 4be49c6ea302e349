\* Mode 0: the server's SIGUSR1 handler writes while the client's child reads.
CONSTANTS
    server = server
    driver = driver
    client = client
    Mode = 0
    Proc = {server, client}
    Value = {v1, v2}
    MainOps <- MCMainOps
    HandlerOps <- MCHandlerOps
    SigintProcs <- MCSigintProcs
    Kills <- MCKills
    MaxSignals = 1
    MaxCount = 1
SPECIFICATION Spec
INVARIANTS
    MutualExclusion
CHECK_DEADLOCK FALSE
