SPECIFICATION MutexSpec
CONSTANTS
    MAX_TASKS = 3
    MAX_BLOCKED_QUEUE = 3
    Quantums <- MCQuantums
    WorkUnits = {1}
INVARIANTS
    WaitersBlocked
