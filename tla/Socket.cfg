CHECK_DEADLOCK FALSE
CONSTANTS
    Users = {u, v}
    LowUsers = {v}
    Talkers = {4}
    MaxSocket = 2
    MaxId = 4
    MaxSends = 3
    MaxCalls = 2
    MaxWork = 3
    Size = 2
    None = None
SPECIFICATION MCSpec
INVARIANTS StreamIsWhole SentInOrder SendingExact DataWhileOpen
PROPERTY EveryMessageLeaves
