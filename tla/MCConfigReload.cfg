CONSTANTS
    a = a
    b = b
    c = c
    Devices <- MCDevices
    Configs <- MCConfigs
    Initial <- MCInitial
    Invalid = Invalid
    MaxReloads = 2

SPECIFICATION Spec

INVARIANTS
    TypeOK
    SubscriptionsReconciled
    SignalledFileActive
