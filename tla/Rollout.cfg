CONSTANTS
    Own = Own
    Foreign = Foreign
    Typo = Typo
    NoID = NoID
    Torn = Torn
    MaxRuns = 2
    Registry = {Own, Foreign}
    Nothing = Nothing
    Broken = Broken
    Text <- MCText
    parsed <- MCparsed
    firstLine <- MCfirstLine
    random <- MCrandom
    Typed = {"quote", "slashes"}
    MaxInstalls = 2
SPECIFICATION Spec
INVARIANTS TypeOK SecretKnown CompleteMeansWorking PrintedTokensWork DoneMeansServing SubscribersServed
PROPERTIES DataKept PublishedStable
CHECK_DEADLOCK FALSE
