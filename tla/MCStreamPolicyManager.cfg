SPECIFICATION Spec
CONSTANTS
    Stream = {s1, s2, s3}
    ManagedName = {a, b}
    MaxHandles = 2
    MaxPolicies = 3
    Nil = Nil
SYMMETRY Symmetry
INVARIANTS
    LiveNamesUnique
    StreamsFollowPolicy
    EnabledStreamsArePublished
    NamesAreFreedAgain
