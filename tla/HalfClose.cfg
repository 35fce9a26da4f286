CHECK_DEADLOCK FALSE
CONSTANTS
    Users = {u, v}
    LowUsers = {v}
    Talkers = {}
    MaxSocket = 2
    MaxId = 4
    MaxSends = 1
    MaxCalls = 1
    MaxWork = 2
    Size = 2
    None = None
SPECIFICATION MCSpec
PROPERTY HalfCloseIsClosed
