SPECIFICATION JoinSpec
CONSTANTS
    Callers = {p1, p2}
    Tokens = {t1, t2, t3, bad}
    Malformed = {bad}
    NoToken = NoToken
    TTL = 4
    Refresh = 2
    StoreTime = 1
    JoinWindow = 2
    InstallCommands = 4
    InstallAttempts = 2
    JoinAttempts = 3
SYMMETRY Alike
INVARIANTS
    TokensOutliveJoins
    AttemptsCount
