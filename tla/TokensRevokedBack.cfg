CONSTANTS
    Cli = {c1, c2}
    Server = srv
    Faults = {}
    MaxTokens = 5
SPECIFICATION Spec
INVARIANT RevokedStays
CHECK_DEADLOCK FALSE
