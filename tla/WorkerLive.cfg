CONSTANTS
    Handler = {h1, h2}
    NodeID = {n1}
    Version = {v1}
    Absent = Absent
    RegisterToken = {}
    SubscribeToken = {s1}
    Issued = {}
    Admin = Admin
    Faults = {"d1"}
    MaxOps = 2
SPECIFICATION FairSpec
INVARIANTS ListFresh PrintedStored
PROPERTY RequestsFinish
