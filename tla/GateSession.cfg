CONSTANTS
    Clients = {a, b}
    Newcomer = b
    Roles = {r}
    None = None
    MaxClient = 2
    Silence = 1
    MaxLogins = 2
    MaxSends = 4
SPECIFICATION MCSpec
INVARIANTS ClientsAreCounted NoGhostSession OneSessionPerRole
PROPERTY SilentIsCleared
