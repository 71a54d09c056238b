CONSTANTS
    Handler = {h1, h2, h3}
    Cli = {}
    NodeID = {n1}
    Version = {v1}
    Absent = Absent
    Free = Free
    Faults = {"save", "read"}
    MaxOps = 2
SPECIFICATION FairSpec
INVARIANT TypeOK
PROPERTY RequestsFinish
