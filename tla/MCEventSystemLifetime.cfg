SPECIFICATION SystemSpec
CONSTANTS
    System = {s1, s2, s3}
    Stream = {t1, t2, t3}
    Name = {a}
    SlotsPerStream = 1
    MaxHandles = 2
    None = None
SYMMETRY Symmetry
CHECK_DEADLOCK FALSE
INVARIANTS
    LayoutKeptWhileInUse
    NothingLeftWhenDropped
PROPERTIES
    OnlyOwnersRemove
