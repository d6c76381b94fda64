CONSTANTS
    BootDelay = 1
    StateTimeout = 1
    PingTimeout = 2
    DrainDelay = 1
    WatchdogInterval = 2
    MaxCommands = 3
    MaxUntracked = 2

SPECIFICATION FairSpec

PROPERTIES
    EveryUpdateRecovered
