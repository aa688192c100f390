\* A program that forks inside a signal handler.
SPECIFICATION Spec
CONSTANTS
    Task = {t1, t2}
    Idle = Idle
    Nil = Nil
    SIGSEGV = SIGSEGV
    Signal = {SIGSEGV}
    NoSignal = NoSignal
    MaxPid = 3
    MaxTime = 2
    Tick = {0,1}
    Leftover = {"none", "stale"}
SYMMETRY TaskSymmetry
INVARIANT
    SigreturnAllowed
