CONSTANTS
    NodeID = {1, 2}
    Absent = Absent
    Failed = Failed
    Payload <- MCPayload
    Format <- MCFormat
SPECIFICATION Spec
INVARIANTS TypeOK AnswersAgree TablesAgree SubscriptionsAgree EveryProtocolOffered NamesUnique ReferencesResolve
