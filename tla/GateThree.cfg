\* Three clients and two places: the gate refuses one
CONSTANTS
    Clients = {a, b, c}
    Newcomer = c
    Roles = {r}
    None = None
    MaxClient = 2
    Silence = 1
    MaxLogins = 2
    MaxSends = 3
SPECIFICATION MCSpec
INVARIANTS TypeOK ClientsAreCounted NoGhostSession OneSessionPerRole
