SPECIFICATION Spec
CONSTANTS
    Client = {c1, c2}
    VersionOk = {c1, c2}
    LogonOk = {c1}
    MsgLen = 2
    Timeout = 1
    Undecided = Undecided
    Reason = Reason
PROPERTIES
    RefusalCauseIsReturned
