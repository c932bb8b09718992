SPECIFICATION MCKernelSpec
CONSTANTS
    MAX_TASKS = 2
    Quantums <- MCQuantums
    WorkUnits = {}
    Loads = {6}
    MaxDeficit = 1
PROPERTIES
    KilledStaysDead
