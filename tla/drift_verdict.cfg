SPECIFICATION Spec
CONSTANTS
    Claims = {c1}
    Specs = {s1, s2}
    Versions = {1, 2}
    Rollbacks = FALSE
    None = None
    MaxEdits = 1
    MaxRestarts = 1
CHECK_DEADLOCK FALSE
PROPERTIES
    VerdictsKept
