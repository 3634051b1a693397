SPECIFICATION FairDiscoverySpec
CONSTANTS
    Queue = {q1, q2}
    Name = {a, b}
    MaxFd = 2
    None = None
    Other = Other
    Explorer = {x}
    Type = {t1, t2}
    TypeOf <- MCTypeOf
INVARIANTS
    PublishedStaysDiscoverable
    NothingLeftBehind
    SchemaBelongsToQueue
    JoinsOnlySealedQueues
PROPERTIES
    PublishedStreamsAreFound
