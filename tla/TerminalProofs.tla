--------------------------- MODULE TerminalProofs ---------------------------
(***************************************************************************)
(* Theorems about Terminal for every set of tasks, of opened terminals and *)
(* every length of reads: a terminal never serves a file whose reader is   *)
(* gone or running, no buffer overruns, and the whole keeps to the         *)
(* scheduler's specification, so that what SchedProofs proves holds here.  *)
(***************************************************************************)
EXTENDS Terminal, SchedProofs

\* A task waits for one read at a time.
OneRead == \A f, g \in File : Reading(f) /\ Reading(g) /\ Owner(f) = Owner(g) => f = g

\* A read has stored no more than it has counted.
StoredCounted == \A f \in File : Reading(f) => stored[f] <= op[f].got

TermInv == TerminalTypeOK /\ HolderReads /\ OneRead /\ NoOverrun /\ StoredCounted

-----------------------------------------------------------------------------
\* Files of different terminals, or owners, differ; no file is NoFile, and no
\* pending read is NoOp.
LEMMA FileFacts ==
    /\ \A f \in File : Owner(f) \in Task /\ TtyOf(f) \in Tty /\ f # NoFile
    /\ \A q \in Op : q # NoOp
<1>1. \A f \in File : Owner(f) \in Task /\ TtyOf(f) \in Tty /\ f # NoFile
    <2> SUFFICES ASSUME NEW f \in File
                 PROVE  Owner(f) \in Task /\ TtyOf(f) \in Tty /\ f # NoFile
        OBVIOUS
    <2> DEFINE K == {"stdin"} \cup Opens
    <2>1. f \in Task \X K
        BY DEF File
    <2> HIDE DEF K
    <2>2. f[1] \in Task /\ f[2] \in K /\ f # <<>>
        BY <2>1
    <2> USE DEF K
    <2> QED
        BY <2>2, TerminalAssumption DEF Owner, TtyOf, Tty, NoFile, Bound
<1>2. \A q \in Op : q # NoOp
    BY DEF Op, NoOp
<1> QED
    BY <1>1, <1>2

\* The steps of the terminal are steps of the scheduler, or leave it alone.
LEMMA StepSchedules ==
    ASSUME TermInv, [TerminalNext]_allVars
    PROVE  [Next]_vars
<1>1. CASE CoreNext
    BY <1>1 DEF Next
<1>2. ASSUME NEW t \in Task, NEW u \in Task, NEW s \in Signal, KillReader(t, u, s)
      PROVE  Next
    BY <1>2 DEF KillReader, Next
<1>3. ASSUME NEW f \in File, NEW n \in 0..MaxLen, Read(f, n)
      PROVE  Next
    <2>1. Owner(f) \in Task
        BY FileFacts
    <2>2. CASE Panic
        BY <1>3, <2>2 DEF Read, UserRuns, DevicePanic, Next
    <2>3. CASE Block(Owner(f))
        BY <2>1, <2>3 DEF Block, Next
    <2> QED
        BY <1>3, <2>2, <2>3 DEF Read
<1>4. CASE Key
    <2>1. holder["tty0"] \in File
        BY <1>4 DEF Key, TermInv, TerminalTypeOK, Tty
    <2>2. Owner(holder["tty0"]) \in Task
        BY <2>1, FileFacts
    <2>3. CASE Panic
        BY <1>4, <2>3 DEF Key, DevicePanic, Next
    <2>4. CASE Release(holder["tty0"])
        BY <2>2, <2>4 DEF Release, Next
    <2>5. CASE UNCHANGED vars
        BY <2>5
    <2> QED
        BY <1>4, <2>3, <2>4, <2>5 DEF Key
<1>5. CASE Halted
    BY <1>5 DEF Next
<1>6. CASE UNCHANGED allVars
    BY <1>6 DEF allVars
<1> QED
    BY <1>1, <1>2, <1>3, <1>4, <1>5, <1>6 DEF TerminalNext

-----------------------------------------------------------------------------
(***************************************************************************)
(* A busy task stays alive and busy until its read is done.                *)
(***************************************************************************)

\* The switch takes neither a task it does not stop nor its BUSY flag away.
LEMMA SwitchKeepsBusy ==
    ASSUME SchedInv, NEW now, NEW fl, NEW wt, NEW dl, NEW ax,
           SwitchArgs(fl, wt, dl, ax), Switch(now, fl, wt, dl, ax),
           NEW u \in alive, "BUSY" \in fl[u], "STOP" \notin fl[u]
    PROVE  u \in alive' /\ "BUSY" \in flag'[u]
<1> DEFINE gone  == Stopped(fl)
           woken == Woken(now, fl, wt, dl, gone)
           ready == {t \in Listed \ gone : "BUSY" \notin fl[t] /\ ("WAIT" \in fl[t] => t \in woken)}
           to    == PickNext(ready)
           kept(x) == {f \in fl[x] : /\ f = "RUNNING" => x # current
                                     /\ f = "WAIT" => x \notin woken}
           switched == [x \in Slot |-> IF x = to THEN kept(x) \cup {"RUNNING"} ELSE kept(x)]
<1>1. flag' = Wipe(switched, gone, {}) /\ Reap(gone)
    <2>1. HandOver(fl, wt, dl, ax, gone, woken, to)
        <3>1. ready = Ready(fl, gone, woken)
            BY Zenon DEF Ready
        <3> HIDE DEF gone, woken, ready
        <3>2. gone = Stopped(fl) /\ woken = Woken(now, fl, wt, dl, gone)
            BY DEF gone, woken
        <3> QED
            BY <3>1, <3>2, SwitchHandsOver, Zenon
    <2> QED
        BY <2>1, Zenon DEF HandOver
<1> HIDE DEF to, woken, ready
<1>2. u \in Slot /\ u \notin gone
    BY DEF Stopped, SchedInv, TypeOK, TaskTypeOK, Slot
<1>3. flag'[u] = switched[u]
    BY <1>1, <1>2 DEF Wipe
<1>4. "BUSY" \in switched[u]
    BY <1>2
<1> QED
    BY <1>1, <1>2, <1>3, <1>4 DEF Reap

\* A busy task is not the one that runs, and none is left stopped.
LEMMA BusyNotCurrent ==
    ASSUME SchedInv, NEW u \in alive, "BUSY" \in flag[u]
    PROVE  u # current /\ "STOP" \notin flag[u] /\ u \in Slot
BY DEF SchedInv, CpuOwner, TypeOK, TaskTypeOK, Slot

\* The running task may hand the switch any flags of its own.
LEMMA RunningSwitchKeepsBusy ==
    ASSUME SchedInv, NEW t \in Task, UserRuns(t), NEW F \in SUBSET Flag, NEW now,
           NEW wt \in [Task -> {"none", "sleep", "pid"}], NEW dl \in [Task -> Nat],
           NEW ax \in [Task -> {0, -1}],
           Switch(now, [flag EXCEPT ![t] = F], wt, dl, ax),
           NEW u \in alive, "BUSY" \in flag[u]
    PROVE  u \in alive' /\ "BUSY" \in flag'[u]
<1>1. SwitchArgs([flag EXCEPT ![t] = F], wt, dl, ax)
    BY RunningArgs
<1>2. u # t /\ u \in Slot /\ "STOP" \notin flag[u]
    BY BusyNotCurrent DEF UserRuns
<1>3. [flag EXCEPT ![t] = F][u] = flag[u]
    BY <1>2 DEF SchedInv, TypeOK, TaskTypeOK
<1> QED
    BY <1>1, <1>2, <1>3, SwitchKeepsBusy

LEMMA StopCurrentKeepsBusy ==
    ASSUME SchedInv, NEW t \in Task, UserRuns(t), StopCurrent(t),
           NEW u \in alive, "BUSY" \in flag[u]
    PROVE  u \in alive' /\ "BUSY" \in flag'[u]
<1>1. CASE Panic
    BY <1>1 DEF Panic, listVars
<1>2. CASE ~Panic
    <2>1. Switch(systime, [flag EXCEPT ![t] = @ \cup {"STOP"}], waitType, deadline, eax)
        BY <1>2 DEF StopCurrent
    <2>2. flag[t] \cup {"STOP"} \in SUBSET Flag
        BY DEF SchedInv, TypeOK, TaskTypeOK, Slot, Flag
    <2> QED
        BY <2>1, <2>2, RunningSwitchKeepsBusy DEF SchedInv, TypeOK, TaskTypeOK
<1> QED
    BY <1>1, <1>2

LEMMA EnterSignalKeepsBusy ==
    ASSUME SchedInv, NEW t \in alive, EnterSignal(t), NEW u \in alive, "BUSY" \in flag[u]
    PROVE  "BUSY" \in flag'[u]
BY DEF EnterSignal, SchedInv, TypeOK, TaskTypeOK, Slot

\* Neither a handler without a part in reads nor a kill ends a read.
LEMMA BusyStays ==
    ASSUME SchedInv, NEW u \in alive, "BUSY" \in flag[u],
           CoreNext \/ \E t, v \in Task, s \in Signal : Kill(t, v, s)
    PROVE  u \in alive' /\ "BUSY" \in flag'[u]
<1> USE DEF SchedInv, TypeOK, TaskTypeOK
<1>1. ASSUME NEW d \in Tick, FirstTimerIrq(d) PROVE u \in alive' /\ "BUSY" \in flag'[u]
    BY <1>1 DEF FirstTimerIrq, listVars
<1>2. ASSUME NEW d \in Tick, TimerIrq(d) PROVE u \in alive' /\ "BUSY" \in flag'[u]
    <2>1. SwitchArgs(flag, waitType, deadline, eax)
        BY DEF CpuOwner, SwitchArgs
    <2> QED
        BY <1>2, <2>1, SwitchKeepsBusy, BusyNotCurrent DEF TimerIrq
<1>3. ASSUME NEW t \in Task, Exit(t) PROVE u \in alive' /\ "BUSY" \in flag'[u]
    BY <1>3, StopCurrentKeepsBusy DEF Exit
<1>4. ASSUME NEW t \in Task, PageFault(t) PROVE u \in alive' /\ "BUSY" \in flag'[u]
    <2>1. UserRuns(t) /\ t \in alive
        BY <1>4, SchedAssumption DEF PageFault, UserRuns, CpuOwner
    <2>2. CASE StopCurrent(t)
        BY <2>1, <2>2, StopCurrentKeepsBusy
    <2>3. CASE EnterSignal(t) /\ UNCHANGED listVars
        BY <2>1, <2>3, EnterSignalKeepsBusy DEF listVars
    <2> QED
        BY <1>4, <2>2, <2>3 DEF PageFault
<1>5. ASSUME NEW t \in Task, Execve(t) \/ SetSignal(t) \/ Sigreturn(t)
      PROVE  u \in alive' /\ "BUSY" \in flag'[u]
    BY <1>5 DEF Execve, SetSignal, Sigreturn, Panic, listVars
<1>6. ASSUME NEW t \in Task, NEW c \in Task, Fork(t, c) \/ Fexecve(t, c)
      PROVE  u \in alive' /\ "BUSY" \in flag'[u]
    <2>1. c \notin alive /\ Enable(c) /\ flag' = [flag EXCEPT ![c] = {}]
        BY <1>6 DEF Fork, Fexecve, NewTask
    <2> QED
        BY <2>1 DEF Enable, Slot
<1>7. ASSUME NEW t \in Task, NEW d \in 1..MaxTime, Nanosleep(t, d)
      PROVE  u \in alive' /\ "BUSY" \in flag'[u]
    <2> DEFINE wt == [waitType EXCEPT ![t] = "sleep"]
               dl == [deadline EXCEPT ![t] = systime + d]
    <2>1. UserRuns(t) /\ Switch(systime, [flag EXCEPT ![t] = @ \cup {"WAIT"}], wt, dl, Blocked(t))
        BY <1>7 DEF Nanosleep
    <2>2. flag[t] \cup {"WAIT"} \in SUBSET Flag
        BY DEF Slot, Flag
    <2>3. systime + d \in Nat
        BY SchedAssumption DEF SysTypeOK
    <2>4. wt \in [Task -> {"none", "sleep", "pid"}] /\ dl \in [Task -> Nat]
        BY <2>3
    <2> HIDE DEF wt, dl
    <2> QED
        BY <2>1, <2>2, <2>4, BlockedType, RunningSwitchKeepsBusy
<1>8. ASSUME NEW t \in Task, NEW p \in 0..MaxPid, Waitpid(t, p)
      PROVE  u \in alive' /\ "BUSY" \in flag'[u]
    <2> DEFINE wt == [waitType EXCEPT ![t] = "pid"]
               dl == [deadline EXCEPT ![t] = p]
    <2>1. UserRuns(t) /\ Switch(systime, [flag EXCEPT ![t] = {"WAIT"}], wt, dl, Blocked(t))
        BY <1>8 DEF Waitpid
    <2>2. wt \in [Task -> {"none", "sleep", "pid"}] /\ dl \in [Task -> Nat] /\ {"WAIT"} \in SUBSET Flag
        BY SchedAssumption DEF Flag
    <2> HIDE DEF wt, dl
    <2> QED
        BY <2>1, <2>2, BlockedType, RunningSwitchKeepsBusy
<1>9. ASSUME NEW t \in Task, NEW v \in Task, NEW s \in Signal, Kill(t, v, s)
      PROVE  u \in alive' /\ "BUSY" \in flag'[u]
    <2>1. v \in alive /\ UNCHANGED listVars
        BY <1>9, ListedIsAlive DEF Kill
    <2>2. CASE EnterSignal(v)
        BY <2>1, <2>2, EnterSignalKeepsBusy DEF listVars
    <2>3. CASE UNCHANGED flag
        BY <2>1, <2>3 DEF listVars
    <2> QED
        BY <1>9, <2>2, <2>3 DEF Kill
<1> QED
    BY <1>1, <1>2, <1>3, <1>4, <1>5, <1>6, <1>7, <1>8, <1>9, Zenon DEF CoreNext

-----------------------------------------------------------------------------
(***************************************************************************)
(* The invariant of the terminals.                                         *)
(***************************************************************************)

LEMMA TerminalInitInv == TerminalInit => TermInv
<1> SUFFICES ASSUME TerminalInit PROVE TermInv
    OBVIOUS
<1>1. TerminalTypeOK
    BY TerminalAssumption DEF TerminalInit, TerminalTypeOK
<1>2. \A f \in File : ~Reading(f)
    BY DEF TerminalInit, Reading
<1>3. \A y \in Tty : holder[y] = NoFile
    BY DEF TerminalInit
<1> QED
    BY <1>1, <1>2, <1>3 DEF TermInv, HolderReads, OneRead, NoOverrun, StoredCounted

\* A panic, and a handler without a part in reads, keep the invariant.
LEMMA SameTerminalsInv ==
    ASSUME TermInv, UNCHANGED ttyVars,
           \A u \in alive : "BUSY" \in flag[u] => u \in alive' /\ "BUSY" \in flag'[u]
    PROVE  TermInv'
<1>1. holder' = holder /\ op' = op /\ stored' = stored
    BY DEF ttyVars
<1>2. TerminalTypeOK' /\ OneRead' /\ NoOverrun' /\ StoredCounted'
    BY <1>1 DEF TermInv, TerminalTypeOK, OneRead, NoOverrun, StoredCounted, Reading
<1>3. HolderReads'
    BY <1>1 DEF TermInv, HolderReads, Reading
<1> QED
    BY <1>2, <1>3 DEF TermInv

LEMMA SameBusyInv ==
    ASSUME TermInv, UNCHANGED ttyVars, UNCHANGED <<alive, flag>>
    PROVE  TermInv'
BY SameTerminalsInv

LEMMA KillReaderInv ==
    ASSUME SchedInv, TermInv, NEW t \in Task, NEW u \in Task, NEW s \in Signal, KillReader(t, u, s)
    PROVE  TermInv'
<1> USE TerminalAssumption
<1>1. /\ Kill(t, u, s)
      /\ holder' = holder
      /\ op \in [File -> Op \cup {NoOp}] /\ stored \in [File -> 0..MaxLen]
    BY DEF KillReader, TermInv, TerminalTypeOK
<1>2. \A f \in File :
        \/ op'[f] = op[f] /\ stored'[f] = stored[f]
        \/ Reading(f) /\ op'[f] = [op[f] EXCEPT !.got = 0] /\ stored'[f] \in {0, stored[f]}
                      /\ (op'[f] # op[f] => stored'[f] = 0)
    BY <1>1 DEF KillReader
<1>3. \A f \in File : Reading(f) => op[f] \in Op
    BY <1>1 DEF Reading
<1>4. \A f \in File :
        /\ op'[f] \in Op \cup {NoOp}
        /\ Reading(f)' <=> Reading(f)
        /\ op'[f] = op[f] \/ (op'[f].got = 0 /\ op'[f].len = op[f].len /\ stored'[f] = 0)
        /\ stored'[f] \in 0..MaxLen
        /\ op'[f] = op[f] => stored'[f] = stored[f] \/ stored'[f] = 0
    <2> SUFFICES ASSUME NEW f \in File
                 PROVE  /\ op'[f] \in Op \cup {NoOp}
                        /\ Reading(f)' <=> Reading(f)
                        /\ op'[f] = op[f] \/ (op'[f].got = 0 /\ op'[f].len = op[f].len /\ stored'[f] = 0)
                        /\ stored'[f] \in 0..MaxLen
                        /\ op'[f] = op[f] => stored'[f] = stored[f] \/ stored'[f] = 0
        OBVIOUS
    <2>1. CASE op'[f] = op[f] /\ stored'[f] = stored[f]
        BY <1>1, <2>1 DEF Reading
    <2>2. CASE Reading(f) /\ op'[f] = [op[f] EXCEPT !.got = 0] /\ stored'[f] \in {0, stored[f]}
                          /\ (op'[f] # op[f] => stored'[f] = 0)
        <3>1. op[f] \in Op
            BY <1>3, <2>2
        <3>2. op'[f] \in Op /\ op'[f].got = 0 /\ op'[f].len = op[f].len
            BY <2>2, <3>1 DEF Op
        <3>3. op'[f] # NoOp
            BY <3>2, FileFacts
        <3> QED
            BY <1>1, <2>2, <3>2, <3>3 DEF Reading
    <2> QED
        BY <1>2, <2>1, <2>2
<1>5. TerminalTypeOK'
    <2>1. op' = [f \in File |-> op'[f]] /\ stored' = [f \in File |-> stored'[f]]
        BY DEF KillReader
    <2> QED
        BY <1>1, <1>4, <2>1 DEF TerminalTypeOK, TermInv
<1>6. \A v \in alive : "BUSY" \in flag[v] => v \in alive' /\ "BUSY" \in flag'[v]
    BY <1>1, BusyStays
<1>7. HolderReads'
    BY <1>1, <1>4, <1>6 DEF TermInv, HolderReads, TerminalTypeOK
<1>8. NoOverrun'
    <2> SUFFICES ASSUME NEW f \in File, Reading(f)'
                 PROVE  op'[f].got < op'[f].len \/ op'[f].len = 0
        BY DEF NoOverrun
    <2>1. Reading(f) /\ op[f] \in Op /\ (op[f].got < op[f].len \/ op[f].len = 0)
        BY <1>3, <1>4 DEF TermInv, NoOverrun
    <2> QED
        BY <1>4, <2>1 DEF Op
<1>9. StoredCounted'
    <2> SUFFICES ASSUME NEW f \in File, Reading(f)'
                 PROVE  stored'[f] <= op'[f].got
        BY DEF StoredCounted
    <2>1. Reading(f) /\ op[f] \in Op /\ stored[f] <= op[f].got
        BY <1>3, <1>4 DEF TermInv, StoredCounted
    <2> QED
        BY <1>4, <2>1 DEF Op
<1>10. OneRead'
    BY <1>4 DEF TermInv, OneRead
<1> QED
    BY <1>5, <1>7, <1>8, <1>9, <1>10 DEF TermInv

\* A caller that blocks is busy afterwards, and so are those that were.
LEMMA ReadBlockBusy ==
    ASSUME SchedInv, NEW t \in Task, ReadBlock(t)
    PROVE  /\ t \in alive' /\ "BUSY" \in flag'[t]
           /\ \A u \in alive : "BUSY" \in flag[u] => u \in alive' /\ "BUSY" \in flag'[u]
<1> DEFINE fl == [flag EXCEPT ![t] = @ \cup {"BUSY"}]
<1>1. UserRuns(t) /\ Switch(systime, fl, waitType, deadline, Blocked(t))
    BY DEF ReadBlock
<1>2. flag[t] \cup {"BUSY"} \in SUBSET Flag /\ t \in Slot
    BY DEF SchedInv, TypeOK, TaskTypeOK, Slot, Flag
<1>3. SwitchArgs(fl, waitType, deadline, Blocked(t))
    BY <1>1, <1>2, BlockedType, RunningArgs DEF SchedInv, TypeOK, TaskTypeOK
<1>4. t \in alive /\ "STOP" \notin flag[t]
    BY <1>1, <1>2, SchedAssumption DEF UserRuns, SchedInv, CpuOwner
<1>5. fl[t] = flag[t] \cup {"BUSY"}
    BY <1>2 DEF SchedInv, TypeOK, TaskTypeOK
<1>6. "BUSY" \in fl[t] /\ "STOP" \notin fl[t]
    BY <1>4, <1>5
<1>7. t \in alive' /\ "BUSY" \in flag'[t]
    BY <1>1, <1>3, <1>4, <1>6, SwitchKeepsBusy
<1>8. \A u \in alive : "BUSY" \in flag[u] => u \in alive' /\ "BUSY" \in flag'[u]
    BY <1>1, <1>2, BlockedType, RunningSwitchKeepsBusy DEF SchedInv, TypeOK, TaskTypeOK
<1> QED
    BY <1>7, <1>8

LEMMA ReadInv ==
    ASSUME SchedInv, TermInv, NEW f \in File, NEW n \in 0..MaxLen, Read(f, n)
    PROVE  TermInv'
<1> USE TerminalAssumption
<1>1. CASE Panic /\ UNCHANGED ttyVars
    BY <1>1, SameBusyInv DEF Panic, listVars
<1>2. CASE ~(Panic /\ UNCHANGED ttyVars)
    <2> DEFINE y == TtyOf(f)
               q == [len |-> n, got |-> 0, frame |-> esp0[Owner(f)]]
    <2>1. /\ ~Reading(f) /\ holder[y] = NoFile
          /\ holder' = [holder EXCEPT ![y] = f]
          /\ op' = [op EXCEPT ![f] = q]
          /\ stored' = [stored EXCEPT ![f] = 0]
          /\ ReadBlock(Owner(f))
        BY <1>2 DEF Read, Block
    <2>2. Owner(f) \in Task /\ y \in Tty /\ f # NoFile
        BY FileFacts
    <2>3. q \in Op /\ q.len = n /\ q.got = 0 /\ q # NoOp
        <3>1. esp0[Owner(f)] \in {"main", "sig"}
            BY <2>2 DEF SchedInv, TypeOK, TaskTypeOK
        <3>2. q \in Op
            BY <3>1 DEF Op
        <3> QED
            BY <3>2, FileFacts
    <2> HIDE DEF y, q
    <2>4. /\ holder \in [Tty -> File \cup {NoFile}]
          /\ op \in [File -> Op \cup {NoOp}]
          /\ stored \in [File -> 0..MaxLen]
        BY DEF TermInv, TerminalTypeOK
    <2>5. /\ op'[f] = q /\ stored'[f] = 0 /\ holder'[y] = f
          /\ \A g \in File : g # f => op'[g] = op[g] /\ stored'[g] = stored[g]
          /\ \A z \in Tty : z # y => holder'[z] = holder[z]
        BY <2>1, <2>2, <2>4
    <2>6. TerminalTypeOK'
        BY <2>1, <2>2, <2>3, <2>4 DEF TerminalTypeOK
    <2>7. /\ Owner(f) \in alive' /\ "BUSY" \in flag'[Owner(f)]
          /\ \A u \in alive : "BUSY" \in flag[u] => u \in alive' /\ "BUSY" \in flag'[u]
        BY <2>1, <2>2, ReadBlockBusy
    <2>8. HolderReads'
        <3>1. ASSUME NEW z \in Tty, holder'[z] # NoFile
              PROVE  /\ TtyOf(holder'[z]) = z
                     /\ op'[holder'[z]] # NoOp
                     /\ Owner(holder'[z]) \in alive'
                     /\ "BUSY" \in flag'[Owner(holder'[z])]
            <4>1. CASE z = y
                BY <2>3, <2>5, <2>7, <4>1 DEF y, Reading
            <4>2. CASE z # y
                <5>1. holder'[z] = holder[z] /\ holder[z] # NoFile /\ holder[z] \in File
                    BY <2>4, <2>5, <3>1, <4>2
                <5>2. /\ TtyOf(holder[z]) = z /\ Reading(holder[z])
                      /\ Owner(holder[z]) \in alive /\ "BUSY" \in flag[Owner(holder[z])]
                    BY <5>1 DEF TermInv, HolderReads
                <5>3. op'[holder[z]] = op[holder[z]]
                    BY <2>1, <2>5, <5>1, <5>2
                <5> QED
                    BY <2>7, <5>1, <5>2, <5>3 DEF Reading
            <4> QED
                BY <4>1, <4>2
        <3>2. ASSUME NEW g \in File, Reading(g)'
              PROVE  holder'[TtyOf(g)] = g
            <4>1. CASE g = f
                BY <2>5, <4>1 DEF y
            <4>2. CASE g # f
                <5>1. Reading(g)
                    BY <2>5, <3>2, <4>2 DEF Reading
                <5>2. holder[TtyOf(g)] = g /\ g # NoFile /\ TtyOf(g) \in Tty
                    BY <5>1, FileFacts DEF TermInv, HolderReads
                <5> QED
                    BY <2>1, <2>5, <5>2
            <4> QED
                BY <4>1, <4>2
        <3> QED
            BY <3>1, <3>2 DEF HolderReads, Reading
    <2>9. NoOverrun' /\ StoredCounted'
        <3>1. n \in Nat
            OBVIOUS
        <3>2. ASSUME NEW g \in File, Reading(g)'
              PROVE  (op'[g].got < op'[g].len \/ op'[g].len = 0) /\ stored'[g] <= op'[g].got
            <4>1. CASE g = f
                BY <2>3, <2>5, <3>1, <4>1
            <4>2. CASE g # f
                BY <2>5, <3>2, <4>2 DEF TermInv, NoOverrun, StoredCounted, Reading
            <4> QED
                BY <4>1, <4>2
        <3> QED
            BY <3>2 DEF NoOverrun, StoredCounted
    <2>10. OneRead'
        <3>1. Owner(f) = current
            BY <2>1 DEF ReadBlock, UserRuns
        <3>2. ASSUME NEW g \in File, Reading(g), Owner(g) = Owner(f)
              PROVE  FALSE
            <4>1. holder[TtyOf(g)] = g /\ g # NoFile /\ TtyOf(g) \in Tty
                BY <3>2, FileFacts DEF TermInv, HolderReads
            <4>2. Owner(g) \in alive /\ "BUSY" \in flag[Owner(g)]
                BY <4>1 DEF TermInv, HolderReads
            <4> QED
                BY <3>1, <3>2, <4>2, BusyNotCurrent
        <3>3. \A g \in File : g # f /\ Reading(g)' => Reading(g)
            BY <2>5 DEF Reading
        <3> QED
            BY <3>2, <3>3 DEF TermInv, OneRead
    <2> QED
        BY <2>6, <2>8, <2>9, <2>10 DEF TermInv
<1> QED
    BY <1>1, <1>2

\* A read that is done leaves the other terminals' readers busy: they are
\* other tasks.
LEMMA ReleaseInv ==
    ASSUME SchedInv, TermInv, NEW f \in File, f = holder["tty0"], Reading(f), Release(f),
           stored' \in [File -> 0..MaxLen], \A g \in File : g # f => stored'[g] = stored[g]
    PROVE  TermInv'
<1>1. /\ holder \in [Tty -> File \cup {NoFile}]
      /\ op \in [File -> Op \cup {NoOp}]
      /\ "tty0" \in Tty
    BY DEF TermInv, TerminalTypeOK, Tty
<1>2. /\ op' = [op EXCEPT ![f] = NoOp]
      /\ holder' = [holder EXCEPT !["tty0"] = NoFile]
    BY DEF Release
<1>3. /\ op'[f] = NoOp /\ holder'["tty0"] = NoFile
      /\ \A g \in File : g # f => op'[g] = op[g]
      /\ \A z \in Tty : z # "tty0" => holder'[z] = holder[z]
    BY <1>1, <1>2
<1>4. TerminalTypeOK'
    BY <1>1, <1>2 DEF TerminalTypeOK
<1>5. \A u \in alive : u # Owner(f) /\ "BUSY" \in flag[u] => u \in alive' /\ "BUSY" \in flag'[u]
    <2>1. UNCHANGED alive
        BY DEF Release, ReadDone, vars, listVars
    <2>2. flag' = flag \/ flag' = [flag EXCEPT ![Owner(f)] = @ \ {"BUSY"}]
        BY DEF Release, ReadDone, vars
    <2> QED
        BY <2>1, <2>2 DEF SchedInv, TypeOK, TaskTypeOK, Slot
<1>6. HolderReads'
    <2>1. ASSUME NEW z \in Tty, holder'[z] # NoFile
          PROVE  /\ TtyOf(holder'[z]) = z
                 /\ op'[holder'[z]] # NoOp
                 /\ Owner(holder'[z]) \in alive'
                 /\ "BUSY" \in flag'[Owner(holder'[z])]
        <3>1. z # "tty0" /\ holder'[z] = holder[z] /\ holder[z] # NoFile /\ holder[z] \in File
            BY <1>1, <1>3, <2>1
        <3>2. /\ TtyOf(holder[z]) = z /\ Reading(holder[z])
              /\ Owner(holder[z]) \in alive /\ "BUSY" \in flag[Owner(holder[z])]
            BY <3>1 DEF TermInv, HolderReads
        <3>3. holder[z] # f
            BY <1>1, <3>1, <3>2, FileFacts DEF TermInv, HolderReads
        <3>4. Owner(holder[z]) # Owner(f)
            BY <3>1, <3>2, <3>3 DEF TermInv, OneRead
        <3> QED
            BY <1>3, <1>5, <3>1, <3>2, <3>3, <3>4 DEF Reading
    <2>2. ASSUME NEW g \in File, Reading(g)'
          PROVE  holder'[TtyOf(g)] = g
        <3>1. g # f /\ Reading(g)
            BY <1>3, <2>2 DEF Reading
        <3>2. holder[TtyOf(g)] = g /\ TtyOf(g) \in Tty /\ TtyOf(g) # "tty0"
            BY <3>1, FileFacts DEF TermInv, HolderReads
        <3> QED
            BY <1>3, <3>2
    <2> QED
        BY <2>1, <2>2 DEF HolderReads, Reading
<1>7. OneRead' /\ NoOverrun' /\ StoredCounted'
    BY <1>3 DEF TermInv, OneRead, NoOverrun, StoredCounted, Reading
<1> QED
    BY <1>4, <1>6, <1>7 DEF TermInv

LEMMA KeyInv ==
    ASSUME SchedInv, TermInv, Key
    PROVE  TermInv'
<1> USE TerminalAssumption
<1> DEFINE f    == holder["tty0"]
           q    == op[f]
           size == IF q.len = 0 THEN 0 ELSE 1
<1>1. CASE Panic /\ UNCHANGED ttyVars
    BY <1>1, SameBusyInv DEF Panic, listVars
<1>2. CASE ~(Panic /\ UNCHANGED ttyVars)
    <2>1. PICK where \in IF size = 0 THEN {"reader"} ELSE Landing(f) :
            /\ Reading(f)
            /\ stored' = [stored EXCEPT ![f] = IF where = "reader" THEN @ + size ELSE @]
            /\ \/ Filled(q, size) /\ Release(f)
               \/ /\ ~Filled(q, size)
                  /\ op' = [op EXCEPT ![f].got = @ + size]
                  /\ UNCHANGED <<vars, holder>>
        BY <1>2 DEF Key
    <2>2. /\ holder \in [Tty -> File \cup {NoFile}]
          /\ op \in [File -> Op \cup {NoOp}]
          /\ stored \in [File -> 0..MaxLen]
          /\ f # NoFile /\ "tty0" \in Tty
        BY DEF Key, TermInv, TerminalTypeOK, Tty
    <2>3. f \in File /\ q \in Op /\ q # NoOp
        BY <2>1, <2>2 DEF Reading
    <2>4. /\ q.len \in 0..MaxLen /\ q.got \in 0..MaxLen
          /\ q.got < q.len \/ q.len = 0
          /\ stored[f] \in 0..MaxLen /\ stored[f] <= q.got
        BY <2>1, <2>2, <2>3 DEF Op, TermInv, NoOverrun, StoredCounted
    <2>5. size \in {0, 1} /\ (size = 1 => q.got < q.len)
        BY <2>4
    <2> DEFINE put == IF where = "reader" THEN stored[f] + size ELSE stored[f]
    <2>6. put \in 0..MaxLen /\ put <= q.got + size
        BY <2>4, <2>5
    <2>7. /\ stored' = [stored EXCEPT ![f] = put]
          /\ stored' \in [File -> 0..MaxLen]
          /\ stored'[f] = put
          /\ \A g \in File : g # f => stored'[g] = stored[g]
        BY <2>1, <2>2, <2>3, <2>6
    <2> HIDE DEF f, q, size, put
    <2>8. CASE Filled(q, size) /\ Release(f)
        BY <2>1, <2>3, <2>7, <2>8, ReleaseInv DEF f
    <2>9. CASE ~Filled(q, size) /\ op' = [op EXCEPT ![f].got = @ + size] /\ UNCHANGED <<vars, holder>>
        <3>1. /\ op'[f] = [q EXCEPT !.got = q.got + size]
              /\ \A g \in File : g # f => op'[g] = op[g]
            BY <2>2, <2>3, <2>9 DEF q
        <3>2. op'[f].got = q.got + size /\ op'[f].len = q.len /\ op'[f] \in Op
            BY <2>3, <2>4, <2>5, <3>1 DEF Op
        <3>3. op'[f] # NoOp
            BY <3>2, FileFacts
        <3>4. op' \in [File -> Op \cup {NoOp}]
            BY <2>2, <2>3, <2>9, <3>1, <3>2
        <3>5. TerminalTypeOK'
            BY <2>2, <2>7, <2>9, <3>4 DEF TerminalTypeOK
        <3>6. \A g \in File : op'[g] # NoOp <=> Reading(g)
            BY <2>1, <3>1, <3>3 DEF Reading
        <3>7. holder' = holder /\ alive' = alive /\ flag' = flag
            BY <2>9 DEF vars, listVars
        <3>8. HolderReads' /\ OneRead'
            BY <2>2, <3>6, <3>7 DEF TermInv, HolderReads, OneRead, Reading
        <3>9. q.got + size # q.len
            BY <2>9 DEF Filled
        <3>10. q.got + size < q.len \/ q.len = 0
            BY <2>4, <2>5, <3>9
        <3>11. ASSUME NEW g \in File, Reading(g)'
               PROVE  (op'[g].got < op'[g].len \/ op'[g].len = 0) /\ stored'[g] <= op'[g].got
            <4>1. CASE g = f
                BY <2>6, <2>7, <3>2, <3>10, <4>1
            <4>2. CASE g # f
                BY <2>7, <3>1, <3>6, <3>11, <4>2 DEF TermInv, NoOverrun, StoredCounted, Reading
            <4> QED
                BY <4>1, <4>2
        <3>12. NoOverrun' /\ StoredCounted'
            BY <3>11 DEF NoOverrun, StoredCounted
        <3> QED
            BY <3>5, <3>8, <3>12 DEF TermInv
    <2> QED
        BY <2>1, <2>8, <2>9
<1> QED
    BY <1>1, <1>2

\* Every step keeps the invariant of the terminals.
LEMMA TerminalNextInv ==
    ASSUME SchedInv, TermInv, [TerminalNext]_allVars
    PROVE  TermInv'
<1>1. CASE CoreNext /\ UNCHANGED ttyVars
    BY <1>1, BusyStays, SameTerminalsInv
<1>2. ASSUME NEW t \in Task, NEW u \in Task, NEW s \in Signal, KillReader(t, u, s)
      PROVE  TermInv'
    BY <1>2, KillReaderInv
<1>3. ASSUME NEW f \in File, NEW n \in 0..MaxLen, Read(f, n)
      PROVE  TermInv'
    BY <1>3, ReadInv
<1>4. CASE Key
    BY <1>4, KeyInv
<1>5. CASE Halted /\ UNCHANGED ttyVars
    BY <1>5, SameBusyInv DEF Halted, vars, listVars
<1>6. CASE UNCHANGED allVars
    BY <1>6, SameBusyInv DEF allVars, vars, listVars
<1> QED
    BY <1>1, <1>2, <1>3, <1>4, <1>5, <1>6 DEF TerminalNext

-----------------------------------------------------------------------------
(***************************************************************************)
(* Only a read makes a task busy.                                          *)
(***************************************************************************)

\* The switch makes no task busy.
LEMMA SwitchAddsNoBusy ==
    ASSUME SchedInv, NEW now, NEW fl, NEW wt, NEW dl, NEW ax,
           SwitchArgs(fl, wt, dl, ax), Switch(now, fl, wt, dl, ax),
           NEW u \in alive', "BUSY" \in flag'[u]
    PROVE  u \in alive /\ "BUSY" \in fl[u]
<1> DEFINE gone  == Stopped(fl)
           woken == Woken(now, fl, wt, dl, gone)
           ready == {t \in Listed \ gone : "BUSY" \notin fl[t] /\ ("WAIT" \in fl[t] => t \in woken)}
           to    == PickNext(ready)
           kept(x) == {f \in fl[x] : /\ f = "RUNNING" => x # current
                                     /\ f = "WAIT" => x \notin woken}
           switched == [x \in Slot |-> IF x = to THEN kept(x) \cup {"RUNNING"} ELSE kept(x)]
<1>1. flag' = Wipe(switched, gone, {}) /\ alive' = alive \ gone
    <2>1. HandOver(fl, wt, dl, ax, gone, woken, to)
        <3>1. ready = Ready(fl, gone, woken)
            BY Zenon DEF Ready
        <3> HIDE DEF gone, woken, ready
        <3>2. gone = Stopped(fl) /\ woken = Woken(now, fl, wt, dl, gone)
            BY DEF gone, woken
        <3> QED
            BY <3>1, <3>2, SwitchHandsOver, Zenon
    <2> QED
        BY <2>1, Zenon DEF HandOver, Reap
<1> HIDE DEF to, woken, ready
<1>2. u \in alive /\ u \in Slot /\ u \notin gone
    BY <1>1 DEF SchedInv, TypeOK, TaskTypeOK, Slot
<1>3. flag'[u] = switched[u]
    BY <1>1, <1>2 DEF Wipe
<1> QED
    BY <1>2, <1>3

\* Nor does the running task, with flags of its own but that one.
LEMMA RunningSwitchAddsNoBusy ==
    ASSUME SchedInv, NEW t \in Task, UserRuns(t), NEW F \in SUBSET Flag, "BUSY" \notin F, NEW now,
           NEW wt \in [Task -> {"none", "sleep", "pid"}], NEW dl \in [Task -> Nat],
           NEW ax \in [Task -> {0, -1}],
           Switch(now, [flag EXCEPT ![t] = F], wt, dl, ax),
           NEW u \in alive', "BUSY" \in flag'[u]
    PROVE  u \in alive /\ "BUSY" \in flag[u]
<1> DEFINE fl == [flag EXCEPT ![t] = F]
<1>1. SwitchArgs(fl, wt, dl, ax)
    BY RunningArgs
<1>2. u \in alive /\ "BUSY" \in fl[u]
    BY <1>1, SwitchAddsNoBusy
<1>3. t \in Slot /\ u \in Slot /\ flag \in [Slot -> SUBSET Flag]
    BY <1>2 DEF SchedInv, TypeOK, TaskTypeOK, Slot
<1> QED
    BY <1>2, <1>3

\* A task that ends makes none busy.
LEMMA StopCurrentAddsNoBusy ==
    ASSUME SchedInv, NEW t \in Task, UserRuns(t), StopCurrent(t),
           NEW u \in alive', "BUSY" \in flag'[u]
    PROVE  u \in alive /\ "BUSY" \in flag[u]
<1>1. CASE Panic
    BY <1>1 DEF Panic, listVars
<1>2. CASE ~Panic
    <2>1. Switch(systime, [flag EXCEPT ![t] = flag[t] \cup {"STOP"}], waitType, deadline, eax)
        BY <1>2 DEF StopCurrent
    <2>2. flag[t] \cup {"STOP"} \in SUBSET Flag /\ "BUSY" \notin flag[t] \cup {"STOP"}
        BY DEF SchedInv, CpuOwner, UserRuns, TypeOK, TaskTypeOK, Slot, Flag
    <2>3. /\ waitType \in [Task -> {"none", "sleep", "pid"}] /\ deadline \in [Task -> Nat]
          /\ eax \in [Task -> {0, -1}]
        BY DEF SchedInv, TypeOK, TaskTypeOK
    <2> QED
        BY <2>1, <2>2, <2>3, RunningSwitchAddsNoBusy
<1> QED
    BY <1>1, <1>2

\* A signal takes flags away.
LEMMA EnterSignalAddsNoBusy ==
    ASSUME SchedInv, NEW t \in alive, EnterSignal(t), NEW u \in Slot, "BUSY" \in flag'[u]
    PROVE  "BUSY" \in flag[u]
BY DEF EnterSignal, SchedInv, TypeOK, TaskTypeOK, Slot

\* No handler without a part in reads makes a task busy.
LEMMA BusyFromReads ==
    ASSUME SchedInv, NEW u \in alive', "BUSY" \in flag'[u],
           CoreNext \/ \E t, v \in Task, s \in Signal : Kill(t, v, s)
    PROVE  u \in alive /\ "BUSY" \in flag[u]
<1> USE DEF SchedInv, TypeOK, TaskTypeOK
<1>1. ASSUME NEW d \in Tick, FirstTimerIrq(d) PROVE u \in alive /\ "BUSY" \in flag[u]
    BY <1>1 DEF FirstTimerIrq, listVars
<1>2. ASSUME NEW d \in Tick, TimerIrq(d) PROVE u \in alive /\ "BUSY" \in flag[u]
    <2>1. SwitchArgs(flag, waitType, deadline, eax)
        BY DEF CpuOwner, SwitchArgs
    <2> QED
        BY <1>2, <2>1, SwitchAddsNoBusy DEF TimerIrq
<1>3. ASSUME NEW t \in Task, Exit(t) PROVE u \in alive /\ "BUSY" \in flag[u]
    BY <1>3, StopCurrentAddsNoBusy DEF Exit
<1>4. ASSUME NEW t \in alive, EnterSignal(t), UNCHANGED listVars
      PROVE  u \in alive /\ "BUSY" \in flag[u]
    BY <1>4, EnterSignalAddsNoBusy DEF listVars, Slot
<1>5. ASSUME NEW t \in Task, PageFault(t) PROVE u \in alive /\ "BUSY" \in flag[u]
    <2>1. UserRuns(t) /\ t \in alive
        BY <1>5, SchedAssumption DEF PageFault, UserRuns, CpuOwner
    <2> QED
        BY <1>4, <1>5, <2>1, StopCurrentAddsNoBusy DEF PageFault
<1>6. ASSUME NEW t \in Task, Execve(t) \/ SetSignal(t) \/ Sigreturn(t)
      PROVE  u \in alive /\ "BUSY" \in flag[u]
    BY <1>6 DEF Execve, SetSignal, Sigreturn, Panic, listVars
<1>7. ASSUME NEW t \in Task, NEW c \in Task, Fork(t, c) \/ Fexecve(t, c)
      PROVE  u \in alive /\ "BUSY" \in flag[u]
    <2>1. c \notin alive /\ Enable(c) /\ flag' = [flag EXCEPT ![c] = {}]
        BY <1>7 DEF Fork, Fexecve, NewTask
    <2> QED
        BY <2>1 DEF Enable, Slot
<1>8. ASSUME NEW t \in Task, NEW d \in 1..MaxTime, Nanosleep(t, d)
      PROVE  u \in alive /\ "BUSY" \in flag[u]
    <2> DEFINE wt == [waitType EXCEPT ![t] = "sleep"]
               dl == [deadline EXCEPT ![t] = systime + d]
               F  == flag[t] \cup {"WAIT"}
    <2>1. UserRuns(t) /\ Switch(systime, [flag EXCEPT ![t] = F], wt, dl, Blocked(t))
        BY <1>8 DEF Nanosleep
    <2>2. F \in SUBSET Flag /\ "BUSY" \notin F
        BY <2>1 DEF CpuOwner, UserRuns, Slot, Flag
    <2>3. systime + d \in Nat
        BY SchedAssumption DEF SysTypeOK
    <2>4. wt \in [Task -> {"none", "sleep", "pid"}] /\ dl \in [Task -> Nat]
        BY <2>3
    <2> HIDE DEF wt, dl, F
    <2> QED
        BY <2>1, <2>2, <2>4, BlockedType, RunningSwitchAddsNoBusy
<1>9. ASSUME NEW t \in Task, NEW p \in 0..MaxPid, Waitpid(t, p)
      PROVE  u \in alive /\ "BUSY" \in flag[u]
    <2> DEFINE wt == [waitType EXCEPT ![t] = "pid"]
               dl == [deadline EXCEPT ![t] = p]
    <2>1. UserRuns(t) /\ Switch(systime, [flag EXCEPT ![t] = {"WAIT"}], wt, dl, Blocked(t))
        BY <1>9 DEF Waitpid
    <2>2. wt \in [Task -> {"none", "sleep", "pid"}] /\ dl \in [Task -> Nat] /\ {"WAIT"} \in SUBSET Flag
        BY SchedAssumption DEF Flag
    <2> HIDE DEF wt, dl
    <2> QED
        BY <2>1, <2>2, BlockedType, RunningSwitchAddsNoBusy
<1>10. ASSUME NEW t \in Task, NEW v \in Task, NEW s \in Signal, Kill(t, v, s)
       PROVE  u \in alive /\ "BUSY" \in flag[u]
    <2>1. v \in alive /\ UNCHANGED listVars
        BY <1>10, ListedIsAlive DEF Kill
    <2>2. EnterSignal(v) \/ UNCHANGED flag
        BY <1>10 DEF Kill
    <2> QED
        BY <1>4, <2>1, <2>2 DEF listVars
<1> QED
    BY <1>1, <1>2, <1>3, <1>5, <1>6, <1>7, <1>8, <1>9, <1>10, Zenon DEF CoreNext

\* A blocking read makes only its caller busy.
LEMMA ReadBlockAddsOne ==
    ASSUME SchedInv, NEW t \in Task, ReadBlock(t), NEW u \in alive', u # t, "BUSY" \in flag'[u]
    PROVE  u \in alive /\ "BUSY" \in flag[u]
<1> DEFINE fl == [flag EXCEPT ![t] = flag[t] \cup {"BUSY"}]
<1>1. UserRuns(t) /\ Switch(systime, fl, waitType, deadline, Blocked(t))
    BY DEF ReadBlock
<1>2. flag[t] \cup {"BUSY"} \in SUBSET Flag
    BY DEF SchedInv, TypeOK, TaskTypeOK, Slot, Flag
<1>3. SwitchArgs(fl, waitType, deadline, Blocked(t))
    BY <1>1, <1>2, BlockedType, RunningArgs DEF SchedInv, TypeOK, TaskTypeOK
<1>4. u \in alive /\ "BUSY" \in fl[u]
    BY <1>1, <1>3, SwitchAddsNoBusy
<1> QED
    BY <1>4 DEF SchedInv, TypeOK, TaskTypeOK, Slot

-----------------------------------------------------------------------------
(***************************************************************************)
(* Who is busy has a read pending.                                         *)
(***************************************************************************)

\* Nothing to do with reads: no task becomes busy, and every read stays.
LEMMA SameReadsBusy ==
    ASSUME BusyReads,
           \A u \in alive' : "BUSY" \in flag'[u] => u \in alive /\ "BUSY" \in flag[u],
           \A f \in File : Reading(f) => op'[f] # NoOp
    PROVE  BusyReads'
BY DEF BusyReads, Reading

\* A kill restarts the count of a read, not the read.
LEMMA KillKeepsReads ==
    ASSUME TermInv, NEW t \in Task, NEW u \in Task, NEW s \in Signal, KillReader(t, u, s),
           NEW f \in File, Reading(f)
    PROVE  op'[f] # NoOp
<1>1. op[f] \in Op
    BY DEF TermInv, TerminalTypeOK, Reading
<1>2. op'[f] = op[f] \/ op'[f] = [op[f] EXCEPT !.got = 0]
    BY DEF KillReader
<1>3. [op[f] EXCEPT !.got = 0] \in Op
    BY <1>1, TerminalAssumption DEF Op
<1> QED
    BY <1>1, <1>2, <1>3, FileFacts

\* The file the keyboard serves knows its task, if programs open none by name.
LEMMA KeyboardBound ==
    ASSUME "tty0" \notin Opens, TermInv, holder["tty0"] # NoFile
    PROVE  holder["tty0"] \in File /\ Bound(holder["tty0"])
<1>1. holder["tty0"] \in File /\ TtyOf(holder["tty0"]) = "tty0"
    BY DEF TermInv, TerminalTypeOK, HolderReads, Tty
<1> DEFINE f == holder["tty0"]
           K == {"stdin"} \cup Opens
<1>2. f[2] \in K
    <2>1. f \in Task \X K
        BY <1>1 DEF File
    <2> HIDE DEF f, K
    <2> QED
        BY <2>1
<1> QED
    BY <1>1, <1>2 DEF TtyOf, Bound

\* A key lets its reader go, or leaves the read pending.
LEMMA KeyBusy ==
    ASSUME "tty0" \notin Opens, SchedInv, TermInv, BusyReads, Key
    PROVE  BusyReads'
<1> DEFINE f == holder["tty0"]
<1>1. f \in File /\ Bound(f)
    BY KeyboardBound DEF Key
<1>2. CASE UNCHANGED <<alive, flag>> /\ UNCHANGED op
    BY <1>2 DEF BusyReads, Reading
<1>3. CASE Reading(f) /\ Release(f)
    <2>1. op' = [op EXCEPT ![f] = NoOp] /\ ReadDone(Owner(f))
        BY <1>1, <1>3 DEF Release
    <2>2. /\ alive' = alive /\ flag' = [flag EXCEPT ![Owner(f)] = @ \ {"BUSY"}]
          /\ Owner(f) \in Slot
        BY <1>1, <2>1, FileFacts DEF ReadDone, listVars, Slot
    <2>3. ASSUME NEW u \in alive', "BUSY" \in flag'[u]
          PROVE  \E g \in File : Owner(g) = u /\ op'[g] # NoOp
        <3>1. u # Owner(f) /\ u \in alive /\ "BUSY" \in flag[u]
            BY <2>2, <2>3 DEF SchedInv, TypeOK, TaskTypeOK, Slot
        <3>2. PICK g \in File : Owner(g) = u /\ Reading(g)
            BY <3>1 DEF BusyReads
        <3>3. op'[g] = op[g]
            BY <2>1, <3>1, <3>2 DEF TermInv, TerminalTypeOK
        <3> QED
            BY <3>2, <3>3 DEF Reading
    <2> QED
        BY <2>3 DEF BusyReads, Reading
<1>4. CASE /\ Reading(f) /\ UNCHANGED vars
           /\ \E size \in {0, 1} : op' = [op EXCEPT ![f].got = @ + size]
    <2>1. PICK size \in {0, 1} : op' = [op EXCEPT ![f].got = @ + size]
        BY <1>4
    <2>2. op \in [File -> Op \cup {NoOp}] /\ op[f] \in Op
        BY <1>1, <1>4 DEF TermInv, TerminalTypeOK, Reading
    <2>3. op'[f].frame = op[f].frame /\ \A g \in File : g # f => op'[g] = op[g]
        BY <1>1, <2>1, <2>2 DEF Op
    <2>4. op'[f] # NoOp
        BY <2>2, <2>3 DEF Op, NoOp
    <2>5. alive' = alive /\ flag' = flag
        BY <1>4 DEF vars, listVars
    <2> QED
        BY <2>3, <2>4, <2>5, SameReadsBusy DEF Reading
<1>5. CASE Panic /\ UNCHANGED ttyVars
    BY <1>2, <1>5 DEF Panic, listVars, ttyVars
<1> QED
    BY <1>3, <1>4, <1>5 DEF Key

\* Every step leaves the busy tasks with a read.
LEMMA BusyNext ==
    ASSUME "tty0" \notin Opens, SchedInv, TermInv, BusyReads, [TerminalNext]_allVars
    PROVE  BusyReads'
<1>1. CASE CoreNext /\ UNCHANGED ttyVars
    BY <1>1, BusyFromReads, SameReadsBusy DEF ttyVars, Reading
<1>2. ASSUME NEW t \in Task, NEW u \in Task, NEW s \in Signal, KillReader(t, u, s)
      PROVE  BusyReads'
    <2>1. Kill(t, u, s)
        BY <1>2 DEF KillReader
    <2> QED
        BY <1>2, <2>1, BusyFromReads, KillKeepsReads, SameReadsBusy
<1>3. ASSUME NEW f \in File, NEW n \in 0..MaxLen, Read(f, n)
      PROVE  BusyReads'
    <2>1. CASE Panic /\ UNCHANGED ttyVars
        BY <2>1 DEF Panic, listVars, ttyVars, BusyReads, Reading
    <2>2. CASE ~(Panic /\ UNCHANGED ttyVars)
        <3>1. /\ op' = [op EXCEPT ![f] = [len |-> n, got |-> 0, frame |-> esp0[Owner(f)]]]
              /\ ReadBlock(Owner(f))
            BY <1>3, <2>2 DEF Read, Block
        <3>2. Owner(f) \in Task /\ esp0[Owner(f)] \in {"main", "sig"}
            BY FileFacts DEF SchedInv, TypeOK, TaskTypeOK
        <3>3. op'[f] # NoOp /\ \A g \in File : g # f => op'[g] = op[g]
            BY <3>1, <3>2 DEF NoOp, TermInv, TerminalTypeOK
        <3>4. \A u \in alive' : u # Owner(f) /\ "BUSY" \in flag'[u] => u \in alive /\ "BUSY" \in flag[u]
            BY <3>1, <3>2, ReadBlockAddsOne
        <3> QED
            BY <3>3, <3>4 DEF BusyReads, Reading
    <2> QED
        BY <2>1, <2>2
<1>4. CASE Key
    BY <1>4, KeyBusy
<1>5. CASE UNCHANGED <<vars, ttyVars>>
    BY <1>5 DEF vars, listVars, ttyVars, BusyReads, Reading
<1> QED
    BY <1>1, <1>2, <1>3, <1>4, <1>5 DEF TerminalNext, Halted, allVars

\* A step lets a reader go only with the last character of its read.
LetGoFull ==
    \A t \in alive \cap alive' :
        "BUSY" \in flag[t] /\ "BUSY" \notin flag'[t] =>
            \E f \in File : /\ Owner(f) = t /\ Reading(f)
                            /\ op[f].got = (IF op[f].len = 0 THEN 0 ELSE op[f].len - 1)

\* Every step lets readers go only like that.
LEMMA StepLetsGoFull ==
    ASSUME SchedInv, TermInv, [TerminalNext]_allVars
    PROVE  LetGoFull
<1>1. CASE CoreNext
    BY <1>1, BusyStays DEF LetGoFull
<1>2. ASSUME NEW t \in Task, NEW u \in Task, NEW s \in Signal, KillReader(t, u, s)
      PROVE  LetGoFull
    BY <1>2, BusyStays DEF LetGoFull, KillReader
<1>3. ASSUME NEW f \in File, NEW n \in 0..MaxLen, Read(f, n)
      PROVE  LetGoFull
    <2>1. CASE Panic
        BY <2>1 DEF Panic, LetGoFull
    <2>2. CASE ReadBlock(Owner(f))
        BY <2>2, FileFacts, ReadBlockBusy DEF LetGoFull
    <2> QED
        BY <1>3, <2>1, <2>2 DEF Read, Block
<1>4. CASE Key
    <2> DEFINE f == holder["tty0"]
               q == op[f]
               size == IF q.len = 0 THEN 0 ELSE 1
    <2>1. CASE UNCHANGED flag
        BY <2>1 DEF LetGoFull
    <2>2. CASE Reading(f) /\ Filled(q, size) /\ Release(f)
        <3>1. f \in File /\ q \in Op
            BY <1>4, <2>2 DEF Key, TermInv, TerminalTypeOK, Tty, Reading
        <3>2. q.got = IF q.len = 0 THEN 0 ELSE q.len - 1
            BY <2>2, <3>1, TerminalAssumption DEF Filled, Op
        <3>3. ASSUME NEW t \in alive, "BUSY" \in flag[t], "BUSY" \notin flag'[t]
              PROVE  t = Owner(f)
            BY <2>2, <3>3 DEF Release, ReadDone, vars, SchedInv, TypeOK, TaskTypeOK, Slot
        <3> QED
            BY <2>2, <3>1, <3>2, <3>3 DEF LetGoFull
    <2> QED
        BY <1>4, <2>1, <2>2 DEF Key, Panic, vars
<1>5. CASE UNCHANGED vars
    BY <1>5 DEF vars, LetGoFull
<1> QED
    BY <1>1, <1>2, <1>3, <1>4, <1>5 DEF TerminalNext, Halted, allVars

-----------------------------------------------------------------------------
(***************************************************************************)
(* The theorems.                                                           *)
(***************************************************************************)

\* The scheduler's invariant and the terminals' hold together: each needs the
\* other's, the one to know what the readers' flags are, the other to know
\* whose flag a key clears.
THEOREM TerminalInvariant == TerminalSpec => [](SchedInv /\ TermInv)
<1>1. TerminalInit => SchedInv /\ TermInv
    BY InitInv, TerminalInitInv DEF TerminalInit
<1>2. SchedInv /\ TermInv /\ [TerminalNext]_allVars => (SchedInv /\ TermInv)'
    BY StepSchedules, NextInv, TerminalNextInv
<1> QED
    BY <1>1, <1>2, PTL DEF TerminalSpec

\* The kernel with terminals behaves, for the scheduler's state, as Sched says:
\* a read blocks and a key wakes only the way x86_task_switch and task_nobusy
\* allow, and every theorem about Sched holds of it.
THEOREM TerminalRefinesSched == TerminalSpec => TerminalSchedules
<1>1. TerminalInit => Init
    BY DEF TerminalInit
<1>2. TermInv /\ [TerminalNext]_allVars => [Next]_vars
    BY StepSchedules
<1>3. TerminalSpec => []TermInv
    BY TerminalInvariant, PTL
<1> QED
    BY <1>1, <1>2, <1>3, PTL DEF TerminalSpec, TerminalSchedules, Spec

\* A terminal's pending file is never dangling: the assertions of tty_type
\* hold, and its reader is alive and busy.
THEOREM HoldersRead == TerminalSpec => []HolderReads
<1>1. TermInv => HolderReads
    BY DEF TermInv
<1> QED
    BY <1>1, TerminalInvariant, PTL

\* No key writes behind the end of a reader's buffer.
THEOREM NoBufferOverrun == TerminalSpec => []NoOverrun
<1>1. TermInv => NoOverrun
    BY DEF TermInv
<1> QED
    BY <1>1, TerminalInvariant, PTL

\* Every variable of the terminals keeps its type.
THEOREM TerminalTypeCorrect == TerminalSpec => []TerminalTypeOK
<1>1. TermInv => TerminalTypeOK
    BY DEF TermInv
<1> QED
    BY <1>1, TerminalInvariant, PTL

\* No reader is left busy without a read that a key can complete, in a system
\* whose programs read the keyboard through their standard file: whoever
\* vfs_read blocks, task_nobusy can let go.
THEOREM BusyTasksRead ==
    ASSUME "tty0" \notin Opens
    PROVE  TerminalSpec => []BusyReads
<1>1. TerminalInit => BusyReads
    <2> SUFFICES ASSUME TerminalInit, NEW t \in alive PROVE "BUSY" \notin flag[t]
        BY DEF BusyReads
    <2>1. Init
        BY DEF TerminalInit
    <2> QED
        BY <2>1 DEF Init, Slot
<1>2. SchedInv /\ TermInv /\ BusyReads /\ [TerminalNext]_allVars => BusyReads'
    BY BusyNext
<1> QED
    BY <1>1, <1>2, TerminalInvariant, PTL DEF TerminalSpec

\* tty_type lets a reader go with the last character of its read and no sooner,
\* whatever else happens to the reader in the meantime.
THEOREM ReadsComplete == TerminalSpec => ReadsFull
<1>1. SchedInv /\ TermInv /\ [TerminalNext]_allVars => [LetGoFull]_allVars
    BY StepLetsGoFull
<1>2. TerminalSpec => [][LetGoFull]_allVars
    BY <1>1, TerminalInvariant, PTL DEF TerminalSpec
<1> QED
    BY <1>2 DEF ReadsFull, LetGoFull
=============================================================================
