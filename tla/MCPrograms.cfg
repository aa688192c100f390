\* Three tasks, two programs; a word of the bitmap of the pool covers three of them.
SPECIFICATION ProgramsSpec
CONSTANTS
    Bits = 18
    PoolWords = 2
    NFrames = 84
    Available <- MCAvailable
    Value = {stored}
    Task = {a, b, c}
    ls = ls
    sh = sh
    Program = {ls, sh}
    Initial = ls
    Sections <- MCSections
    Pointer <- MCPointer
    MaxUsed = 43
SYMMETRY TaskSymmetry
INVARIANTS
    PoolOwned
    WindowClosed
    Isolated
    StopExplained
PROPERTIES
    ImplementsPrivateMem
