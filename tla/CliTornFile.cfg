CONSTANTS
    Handler = {h1}
    Cli = {c1}
    NodeID = {n1, n2}
    Version = {v1}
    Absent = Absent
    Free = Free
    Faults = {}
    MaxOps = 3
    Offline = FALSE
SPECIFICATION CliSpec
INVARIANT FileLoads
