CONSTANTS
    Cli = {c1}
    Server = srv
    Faults = {"save"}
    MaxTokens = 5
SPECIFICATION FairSpec
INVARIANTS TypeOK PrintedKept RevokedStays ConfigLoads RestartHonours ConfigReused
PROPERTY ServiceComesUp
