------------------------------ MODULE Terminal ------------------------------
(***************************************************************************)
(* Reading from a terminal: a read system call leaves its buffer with the  *)
(* file and blocks, and the keyboard interrupt fills the buffer key by key *)
(* and lets the reader go (src/dev/tty.c, src/sys/vfs.c,                   *)
(* src/arch/x86/hw/ps2.c). The module adds the files and the terminals to  *)
(* the scheduler: it says which reads block and what completes them.       *)
(***************************************************************************)
EXTENDS Sched

CONSTANTS
    Opens,      \* the terminals that programs open by name
    MaxLen      \* bound: the longest read

ASSUME TerminalAssumption ==
    /\ Opens \subseteq {"tty0", "ttyS0"}
    /\ MaxLen \in Nat

VARIABLES
    holder,     \* tty->pending of each terminal
    op,         \* the read each file has left with its device: op_buf, op_len, op_res
    stored      \* how much of each file's last read lies in its reader's memory

ttyVars == <<holder, op, stored>>
allVars == <<vars, ttyVars>>

Tty == {"tty0", "ttyS0"}

\* A task's terminal files: the standard one it was created with, which knows
\* its task, and those that open returned, which do not.
File == Task \X ({"stdin"} \cup Opens)
Owner(f) == f[1]
Bound(f) == f[2] = "stdin"
TtyOf(f) == IF Bound(f) THEN "tty0" ELSE f[2]

NoFile == <<>>
NoOp   == [len |-> 0, got |-> 0, frame |-> "none"]
Op     == [len : 0..MaxLen, got : 0..MaxLen, frame : {"main", "sig"}]
Reading(f) == op[f] # NoOp

-----------------------------------------------------------------------------
\* The caller is marked busy and switched away from.
Block(t) == ReadBlock(t)

\* read of n bytes: vfs_read locks the file, tty_read the terminal. A lock that
\* is held panics. The count of the read is kept in the caller's frame.
Read(f, n) ==
    /\ UserRuns(Owner(f))
    /\ \/ /\ Reading(f) \/ holder[TtyOf(f)] # NoFile
          /\ Panic
          /\ UNCHANGED ttyVars
       \/ /\ ~Reading(f) /\ holder[TtyOf(f)] = NoFile
          /\ holder' = [holder EXCEPT ![TtyOf(f)] = f]
          /\ op' = [op EXCEPT ![f] = [len |-> n, got |-> 0, frame |-> esp0[Owner(f)]]]
          /\ stored' = [stored EXCEPT ![f] = 0]
          /\ Block(Owner(f))

\* Where a character can land. The interrupt keeps the address space of the
\* task it interrupts, and the copy goes through the kernel's: only over the
\* idle task, which runs in that one, does it reach the reader. Over another
\* task it writes into that task, or faults where that task has no page; so
\* does the plain copy of a file that knows no task, which over the idle task
\* always faults. A fault in the kernel is fatal.
Landing(f) ==
    IF current # Idle THEN {"elsewhere", "fault"}
    ELSE IF Bound(f) THEN {"reader"} ELSE {"fault"}

\* Mutant: any character completes the read.
Filled_Early(q, size) == q.got + size > 0

\* Mutant: the read completes one character too late.
Filled_Late(q, size) == q.got + size > q.len

\* The read has got what it asked for.
Filled(q, size) == q.got + size = q.len

\* Mutant: the file is unlocked, but the terminal keeps it.
Release_Held(f) ==
    /\ op' = [op EXCEPT ![f] = NoOp]
    /\ UNCHANGED holder
    /\ IF Bound(f) THEN ReadDone(Owner(f)) ELSE UNCHANGED vars

\* Mutant: the reader stays busy.
Release_NoWake(f) ==
    /\ op' = [op EXCEPT ![f] = NoOp]
    /\ holder' = [holder EXCEPT !["tty0"] = NoFile]
    /\ UNCHANGED vars

\* The file and the terminal are free again, and the reader, if the file knows
\* it, is no longer busy.
Release(f) ==
    /\ op' = [op EXCEPT ![f] = NoOp]
    /\ holder' = [holder EXCEPT !["tty0"] = NoFile]
    /\ IF Bound(f) THEN ReadDone(Owner(f)) ELSE UNCHANGED vars

\* The keyboard interrupt with a character, while a read is pending. (A
\* character that no read waits for is dropped.)
Key ==
    LET f    == holder["tty0"]
        q    == op[f]
        size == IF q.len = 0 THEN 0 ELSE 1
    IN  /\ ~halted /\ f # NoFile
        /\ \/ ~Reading(f) /\ Panic /\ UNCHANGED ttyVars
           \/ /\ Reading(f)
              /\ \E where \in IF size = 0 THEN {"reader"} ELSE Landing(f) :
                    \/ where = "fault" /\ Panic /\ UNCHANGED ttyVars
                    \/ /\ where # "fault"
                       /\ stored' = [stored EXCEPT ![f] = IF where = "reader" THEN @ + size ELSE @]
                       /\ \/ Filled(q, size) /\ Release(f)
                          \/ /\ ~Filled(q, size)
                             /\ op' = [op EXCEPT ![f].got = @ + size]
                             /\ UNCHANGED <<vars, holder>>

\* kill starts the handler of u over: a read it had begun in there loses its
\* count with the frame, and fills its buffer from the start again.
KillReader(t, u, s) ==
    /\ Kill(t, u, s)
    /\ op' = [f \in File |->
                IF Reading(f) /\ Owner(f) = u /\ op[f].frame = "sig" /\ CanEnterSignal(u)
                THEN [op[f] EXCEPT !.got = 0] ELSE op[f]]
    /\ stored' = [f \in File |-> IF op'[f] # op[f] THEN 0 ELSE stored[f]]
    /\ UNCHANGED holder

TerminalInit ==
    /\ Init
    /\ holder = [y \in Tty |-> NoFile]
    /\ op = [f \in File |-> NoOp]
    /\ stored = [f \in File |-> 0]

TerminalNext ==
    \/ CoreNext /\ UNCHANGED ttyVars
    \/ \E t, u \in Task, s \in Signal : KillReader(t, u, s)
    \/ \E f \in File, n \in 0..MaxLen : Read(f, n)
    \/ Key
    \/ Halted /\ UNCHANGED ttyVars

TerminalSpec == TerminalInit /\ [][TerminalNext]_allVars

\* Somebody keeps typing.
TerminalFairSpec == TerminalSpec /\ WF_allVars(Key)

-----------------------------------------------------------------------------
\* Every variable keeps its type.
TerminalTypeOK ==
    /\ holder \in [Tty -> File \cup {NoFile}]
    /\ op \in [File -> Op \cup {NoOp}]
    /\ stored \in [File -> 0..MaxLen]

\* A terminal and the file it serves belong together: the file has a read
\* pending, and its reader is alive and busy, so neither the file nor the frame
\* its count is kept in can go away under the interrupt.
HolderReads ==
    /\ \A y \in Tty : holder[y] # NoFile =>
        /\ TtyOf(holder[y]) = y
        /\ Reading(holder[y])
        /\ Owner(holder[y]) \in alive
        /\ "BUSY" \in flag[Owner(holder[y])]
    /\ \A f \in File : Reading(f) => holder[TtyOf(f)] = f

\* No task is left busy: the read that it is busy with is still pending. (A
\* keyboard file that was opened by name does not know its task, and leaves it
\* busy; this is said of programs that open none.)
BusyReads ==
    \A t \in alive : "BUSY" \in flag[t] => \E f \in File : Owner(f) = t /\ Reading(f)

\* No read gets more characters than its buffer holds, whatever restarts it.
NoOverrun == \A f \in File : Reading(f) => op[f].got < op[f].len \/ op[f].len = 0

\* A reader is let go only when the last character of its read arrives.
ReadsFull ==
    [][\A t \in alive \cap alive' :
        "BUSY" \in flag[t] /\ "BUSY" \notin flag'[t] =>
            \E f \in File : /\ Owner(f) = t /\ Reading(f)
                            /\ op[f].got = (IF op[f].len = 0 THEN 0 ELSE op[f].len - 1)]_allVars

\* Whoever reads from the keyboard gets an answer, if enough keys are hit and
\* nobody keeps killing it into a handler that starts its read over.
ReadReturns ==
    \A t \in Task :
        \/ []<><<\E u \in Task, s \in Signal : KillReader(u, t, s)>>_allVars
        \/ (holder["tty0"] # NoFile /\ Owner(holder["tty0"]) = t)
                ~> ("BUSY" \notin flag[t] \/ halted)

\* The copy to the user reaches the reader: what a completed read has counted
\* lies in the reader's buffer.
ReadDelivers ==
    [][\A f \in File : Reading(f) /\ Bound(f) /\ op'[f] = NoOp => stored'[f] = op[f].len]_allVars

\* A terminal blocks and lets go tasks only as the scheduler allows.
TerminalSchedules == Spec
=============================================================================
