SPECIFICATION FairSpec

CONSTANTS
    Server = Server
    Producer = Producer
    Child = {c1, c2, c3}
    MaxClients = 2

INVARIANT TypeOK
INVARIANT NeverUndercounts
INVARIANT ServingLimit
PROPERTY ExitCascade
PROPERTY FailedDriverEndsServer

CHECK_DEADLOCK FALSE
