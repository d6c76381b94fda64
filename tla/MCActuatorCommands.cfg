CONSTANTS
    Layout <- MCLayout
    Actions <- MCActions
    Unknown = Unknown
    ByteSize = 2
    MaxInFlight = 3

SPECIFICATION Spec

INVARIANTS
    TypeOK
    ClickHasItsEffect
    StatesCurrentWhenQuiet
