SPECIFICATION Spec
CONSTANTS
    Callers = {p1, p2}
    TTL = 2
    Horizon = 6
    None = None
INVARIANTS
    HitsAreRecent
