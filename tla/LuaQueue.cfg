CHECK_DEADLOCK FALSE
CONSTANTS
    A = A
    B = B
    Services = {A, B}
    Cos = {c1, c2, c3, c4}
    May <- ClientAndServer
    Calls <- ClientCalls
    Spent <- CallsOrOps
    MaxCalls <- FewCalls
    MaxOps <- FewOps
    Named = {}
    None = None
    Break = Break
    Gone = Gone
SPECIFICATION Spec
INVARIANT AssertionHolds
