CONSTANTS
    Registry = {Own}
    Own = Own
    Nothing = Nothing
    Broken = Broken
    Text <- MCText
    parsed <- MCparsed
    firstLine <- MCfirstLine
    random <- MCrandom
    Typed <- MCTyped
    MaxInstalls = 2
SPECIFICATION InstallerSpec
PROPERTY PasswordsReused
CHECK_DEADLOCK FALSE
