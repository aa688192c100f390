\* What memory.rst says of the copy to the user, for a key that interrupts another task.
SPECIFICATION TerminalSpec
CONSTANTS
    Task = {t1, t2}
    Idle = Idle
    Nil = Nil
    SIGSEGV = SIGSEGV
    Signal = {}
    NoSignal = NoSignal
    MaxPid = 2
    MaxTime = 0
    Tick = {0}
    Leftover = {"none"}
    Opens = {}
    MaxLen = 2
PROPERTY
    ReadDelivers
