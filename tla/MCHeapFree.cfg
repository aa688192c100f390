\* What heap_free says of a pointer that heap_alloc has returned.
SPECIFICATION HeapSpec
CONSTANTS
    H = 3
    Size = 20
    Count = {1, 3}
    Module <- Ramdisks
INVARIANT
    FreeAccepts
