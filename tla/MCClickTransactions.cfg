CONSTANTS
    lc = lc
    slc = slc
    d1 = d1
    d2 = d2
    Slots <- MCSlots
    LongSlots <- MCLongSlots
    CorrelationIds = {1, 2}
    Devices <- MCDevices
    Configs <- MCConfigs
    ClickTimeout = 1
    NoTransaction = NoTransaction
    NoKey = NoKey
    NoConfig = NoConfig

SPECIFICATION FairSpec

INVARIANTS
    TypeOK
    SlotsMatchPending

PROPERTIES
    LateConfirmNeverExecutes
    OnlyCurrentTargetsCommanded
    KeepsPromise
    NoLeak
