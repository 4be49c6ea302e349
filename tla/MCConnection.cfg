CONSTANTS
    MaxValue = 4
    MaxClients = 3
    Cap = 3
    CapReply = 2
SPECIFICATION FairSpec
INVARIANTS
    TypeOK
    AgreedHandshake
    NoGreetingShown
    UpToDate
PROPERTIES
    LifetimeEnds
    SendCompletes
CHECK_DEADLOCK FALSE
