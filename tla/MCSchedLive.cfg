\* Kills with any number, faults, waits and a fair timer. Liveness needs every state, so no symmetry, and
\* two task slots; heap blocks may hold an old entry point.
SPECIFICATION FairSpec
CONSTANTS
    Task = {t1, t2}
    Idle = Idle
    Nil = Nil
    SIGSEGV = SIGSEGV
    Signal = {SIGSEGV, NoSignal}
    NoSignal = NoSignal
    MaxPid = 3
    MaxTime = 2
    Tick = {0, 2}
    Leftover = {"none", "stale"}
INVARIANTS
    SignalFrame
PROPERTIES
    SignalKept
    NoEarlyWake
    WaitEnds
    NoStarvation
