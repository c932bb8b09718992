SPECIFICATION Spec
CONSTANTS
    A = A
    B = B
    C = C
    Names = {A, B, C}
    Sizes = {0, 3}
    MAX_FILES = 2
    HEAP_MAX_SIZE = 20
    HEADER = 2
    SLACK = 1
    FILE_SIZE = 3
    DIRECTORY_SIZE = 4
INVARIANTS
    HeapTiled
    NothingLeaks
    SizesFit
    OutOfMemoryIsReal
PROPERTIES
    ExtentsSpec
    FileMapSpec
