\* Standard files and the serial terminal: readers that are killed, in their handlers too, wait,
\* fork and exit, while keys keep coming.
SPECIFICATION TerminalFairSpec
CONSTANTS
    Task = {t1, t2}
    Idle = Idle
    Nil = Nil
    SIGSEGV = SIGSEGV
    Signal = {SIGSEGV}
    NoSignal = NoSignal
    MaxPid = 2
    MaxTime = 1
    Tick = {0, 1}
    Leftover = {"none"}
    Opens = {"ttyS0"}
    MaxLen = 2
INVARIANTS
    BusyReads
    NoOverrun
    HolderReads
PROPERTIES
    ReadsFull
    ReadReturns
