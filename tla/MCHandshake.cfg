SPECIFICATION FairSpec
CONSTANTS
    Client = {c1, c2, c3}
    VersionOk = {c1, c3}
    LogonOk = {c1, c2}
    MsgLen = 3
    Timeout = 1
    Undecided = Undecided
    Reason = Reason
INVARIANTS
    NoStaleBuffer
    WaitIsBounded
PROPERTIES
    ImplementsOutcome
    EveryConnectionIsServed
