CONSTANTS
    MaxBatch = 2
    MaxOutputs = 4
    MaxChain = 4

SPECIFICATION FairSpec

INVARIANTS
    TypeOK

PROPERTIES
    KeepsOrder
    OnlyLateOutputsDropped
    OutputsSettle
    StopEnds
