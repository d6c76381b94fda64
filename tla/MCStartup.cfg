CONSTANTS
    BootDelay = 1
    StateTimeout = 2
    PingTimeout = 3
    DrainDelay = 2
    WatchdogInterval = 3
    MaxCommands = 3
    MaxUntracked = 5

SPECIFICATION FairSpec

INVARIANTS
    TypeOK
    WarmupCoversCommands
    StoppedIsQuiet
    VerificationTracked
    DrainReturns
    RecoveryAhead
    WatchdogAlive

PROPERTIES
    UpdateRecovered
    WatchdogRecurs
