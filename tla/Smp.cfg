SPECIFICATION SmpSpec
CONSTANTS
    CPU1 = CPU1
    CPU2 = CPU2
    P1 = P1
    KERNEL = KERNEL
    CPUs = {CPU1, CPU2}
    TOTAL_PAGES = 3
    Pids = {KERNEL, P1}
    MAX_DISK_REQUESTS = 3
    Tracks = {0, 2, 3, 9}
    FAR = 6
INVARIANTS
    OneHolder
    NullMeansFull
PROPERTIES
    PoolSpec
    PassOverlooksNone
    LockReleased
