SPECIFICATION MCSpec
CONSTANTS
    MAX_TASKS = 2
    Quantums <- MCQuantums
    WorkUnits = {1}
    Loads = {2, 6}
    MaxDeficit = 1
INVARIANTS
    TypeOK
    ReadyIsQueued
    FullMeansNoFreeSlot
    KernelLosesNoTask
    KernelRunsOne
PROPERTIES
    DemotionByExpiry
