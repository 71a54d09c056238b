CONSTANTS
    Handler = {h1, h2}
    NodeID = {n1, n2}
    Version = {v1}
    Absent = Absent
    RegisterToken = {r1}
    SubscribeToken = {}
    Issued = {r1}
    Admin = Admin
    Faults = {"d1", "drop"}
    MaxOps = 2
SPECIFICATION Spec
INVARIANTS TypeOK AnswersAuthorized DeleteHonest AuditTruthful UseRecorded ListFresh
PROPERTY ImplementsService
SYMMETRY Symmetry
