CONSTANTS
    SampleBytes = 2
    Container = 4
    FifoSize = 5
    ByteWrap = 5
    ShortWrap = 14
    Lengths = {0, 2, 3, 4, 6, 12, 16, 22}
    MaxWindow = 3
    DefaultWindow = 2
    NCoeffs = 2
    Channels = 2
    NoValue = NoValue
    NoWindow = NoValue
    Files <- MCFiles
SPECIFICATION FairSpec
INVARIANTS
    TypeOK
    NothingLeftBehind
    RegistersMapped
    InBounds
    CoefficientsOfOneLoad
    PublishedIsMeasured
PROPERTIES
    ReadReturns
CHECK_DEADLOCK FALSE
