CONSTANTS
    NodeID = {1, 2}
    Absent = Absent
    Failed = Failed
    Payload <- MCPayload
    Format <- MCFormat
SPECIFICATION Spec
INVARIANTS AlwaysSubscribed
