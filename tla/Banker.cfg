SPECIFICATION Spec
CONSTANTS
    MAX_TASKS = 3
    Resources = {R1, R2}
    R1 = R1
    R2 = R2
    Total <- MCTotal
    Demands <- MCDemands
    Amounts <- MCAmounts
INVARIANTS
    Conserved
    IsSafeStateExact
    SafeUnlessOversized
PROPERTIES
    AllocatorSpec
