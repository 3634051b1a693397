SPECIFICATION LaneSpec
CONSTANTS
    LanePublisher = {p1, p2}
    Subscriber = {s1, s2}
    Capacity = 2
    SubscriberSlots = 2
    MaxBatch = 3
    MaxCalls = 2
SYMMETRY Symmetry
INVARIANTS
    ReceivesExactlyWhatWasSent
    HeldMessageIsStable
