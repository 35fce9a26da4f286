CHECK_DEADLOCK FALSE
CONSTANTS
    A = A
    B = B
    Services = {A, B}
    Cos = {c1, c2, c3, c4}
    May <- ClientAndForks
    Calls <- ClientCalls
    Spent <- Nothing
    MaxCalls <- FewCalls
    MaxOps <- FewForks
    Named = {}
    None = None
    Break = Break
    Gone = Gone
SPECIFICATION Spec
PROPERTY EveryCallIsAnswered
