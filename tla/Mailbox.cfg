SPECIFICATION MCSpec
CONSTANTS
    MAX_TASKS = 2
    Quantums <- MCQuantums
    WorkUnits = {1}
    Loads = {2}
    MaxDeficit = 0
    MAX_IPC_MESSAGES = 3
    MAX_THREADS_PER_TASK = 2
    Texts <- MCTexts
    Cut <- MCCut
    Invalid = Invalid
INVARIANTS
    CountIsValidSlots
PROPERTIES
    BoundedSpec
