SPECIFICATION ViewSpec
CONSTANTS
    U8Max = 3
    U16Max = 7
    SignatureSize = 2
    PacketSize = 8
    MaxStatic = 3
    MessageLength = {1, 4, 5}
    Lookup <- MCLookup
    MaxLookups = 2
    MaxInstructions = 2
    Key = {plain, reserved, loader}
    Reserved = {reserved}
    Loader = loader
INVARIANTS
    RuntimeViewIsConsistent
    MessageAgreesWithTransaction
    SanitizedCountsAreExact
    SanitizedIndexesInRange
    WritableCacheIsExact
