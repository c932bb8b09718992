SPECIFICATION UnkilledSpec
CONSTANTS
    MAX_TASKS = 3
    Quantums <- MCQuantums
    WorkUnits = {}
    Loads = {2, 6}
    MaxDeficit = 0
INVARIANTS
    PlacedOnce
PROPERTIES
    BestLevelRuns
    LifecycleSpec
    WorkCompletes
