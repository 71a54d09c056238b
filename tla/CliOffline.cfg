CONSTANTS
    Handler = {h1, h2}
    Cli = {c1}
    NodeID = {n1, n2}
    Version = {v1, v2}
    Absent = Absent
    Free = Free
    Faults = {"save"}
    MaxOps = 3
    Offline = TRUE
SPECIFICATION CliSpec
INVARIANTS CliTypeOK AckedDurable SubFresh FileLoads
PROPERTIES ImplementsRegistry
