SPECIFICATION SetupSpec
CONSTANTS
    Logon <- MCLogon
    UsizeMax = 63
    U32Max = 15
    OffsetLimit = 31
    StandardPage = 2
    HugePage = 4
    MaxWorkers = 3
    QueueHeader = 5
    CellSize = 3
INVARIANTS
    ValidatedMeansRepresentable
    PromisedHandlesAreFree
    FilesFitControlMessage
    EndpointsMatch
