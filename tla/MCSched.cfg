\* Three tasks that are created, sleep, wait for each other, read and end while
\* the clock ticks.
SPECIFICATION Spec
CONSTANTS
    Task = {t1, t2, t3}
    Idle = Idle
    Nil = Nil
    SIGSEGV = SIGSEGV
    Signal = {}
    NoSignal = NoSignal
    MaxPid = 3
    MaxTime = 1
    Tick = {0, 1}
    Leftover = {"none"}
SYMMETRY TaskSymmetry
INVARIANTS
    TypeOK
    QueueOrder
    CpuOwner
PROPERTIES
    ImplementsTaskLife
