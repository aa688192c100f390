------------------------------- MODULE Sched -------------------------------
(***************************************************************************)
(* The x86 scheduler and the system calls that drive it                    *)
(* (src/arch/x86/task/task.c, task/fork.c, syscall.c, hw/pfault.c).        *)
(*                                                                         *)
(* The kernel runs on one processor and enters every handler through an    *)
(* interrupt gate, so a handler (timer interrupt, keyboard interrupt, page *)
(* fault, system call) runs to its end without being interrupted: it is    *)
(* one action here, including the x86_task_switch it may finish with.      *)
(* What interleaves is whole handlers, in any order the hardware and the   *)
(* running user program choose.                                            *)
(***************************************************************************)
EXTENDS Integers, FiniteSets

CONSTANTS
    Task,       \* the heap slots a struct x86_task may live in
    Idle,       \* x86_task_idle, static, never created and never destroyed
    Nil,        \* NULL, the end of the task list
    Signal,     \* the signal numbers programs send; sys_kill takes 0 for one too
    SIGSEGV,    \* the signal a page fault raises
    NoSignal,   \* pending_signal = 0
    MaxPid,     \* bound: task_enable hands out at most this many pids
    MaxTime,    \* bound: systime stops here, and no deadline lies beyond it
    Leftover,   \* what a reused heap block may hold where sigeip lies
    Tick        \* how far systime may advance at one timer interrupt

ASSUME SchedAssumption ==
    /\ Idle \notin Task
    /\ Nil \notin Task \cup {Idle}
    /\ NoSignal # SIGSEGV
    /\ Leftover \subseteq {"none", "stale"}
    /\ MaxPid \in Nat \ {0}
    /\ MaxTime \in Nat
    /\ Tick \subseteq Nat

VARIABLES
    alive,      \* the slots that hold a task that was enabled and not destroyed
    next,       \* t->next
    last,       \* x86_task_last
    lastPid,    \* x86_last_pid
    pid,        \* t->ctl->pid
    current,    \* x86_task_current
    flag,       \* t->flag, the set of its TASK_FLG_ bits
    waitType,   \* t->wait_type, "none" outside a wait, when nothing reads it
    deadline,   \* t->ctl->sleep_deadline, a time or the pid waited for; 0 outside a wait
    eax,        \* -1 while the main frame holds the result of an aborted wait
    pending,    \* t->ctl->pending_signal
    sigctx,     \* t->ctl->sigctx # NULL
    sigeip,     \* t->sigeip: 0, this program's entry point, or a leftover
    esp0,       \* which frame t->esp0 points to: the main one or sigctx
    inHandler,  \* the main frame was forked off inside a signal handler
    systime,    \* systime
    entry,      \* x86_tasking_entry
    halted      \* a panic has stopped the machine

listVars == <<alive, next, last, lastPid, pid>>
waitVars == <<waitType, deadline, eax>>
sigVars  == <<pending, sigctx, sigeip, esp0, inHandler>>
sysVars  == <<systime, entry, halted>>
vars     == <<listVars, current, flag, waitVars, sigVars, sysVars>>

Slot == Task \cup {Idle}
Flag == {"RUNNING", "STOP", "WAIT", "BUSY"}
Pid  == 1..MaxPid

-----------------------------------------------------------------------------
(***************************************************************************)
(* The task list.                                                          *)
(***************************************************************************)

\* The tasks a walk along next meets after x: those in every set that holds
\* x's successor and is closed under next.
After(x) ==
    LET closed == {S \in SUBSET Task :
                    \A y \in S \cup {x} : next[y] # Nil => next[y] \in S}
    IN  {t \in Task : \A S \in closed : t \in S}

\* The tasks a walk from x86_task_first meets: x86_task_idle heads the list.
Listed == After(Idle)

\* Mutant: x86_task_last is not moved to the new task.
Enable_KeepLast(t) ==
    /\ alive' = alive \cup {t}
    /\ lastPid' = lastPid + 1
    /\ pid' = [pid EXCEPT ![t] = lastPid + 1]
    /\ next' = [next EXCEPT ![t] = Nil, ![last] = t]
    /\ UNCHANGED last

\* task_enable: the next pid, no flags, linked behind x86_task_last.
Enable(t) ==
    /\ alive' = alive \cup {t}
    /\ lastPid' = lastPid + 1
    /\ pid' = [pid EXCEPT ![t] = lastPid + 1]
    /\ next' = [next EXCEPT ![t] = Nil, ![last] = t]
    /\ last' = t

\* f with the entries of the destroyed tasks wiped: a freed slot has no contents.
Wipe(f, gone, v) == [x \in DOMAIN f |-> IF x \in gone THEN v ELSE f[x]]

\* The links without the stopped tasks. Only the current task is ever stopped,
\* so no two of them are neighbours.
Unlinked(gone) ==
    Wipe([x \in Slot |-> IF next[x] \in gone THEN next[next[x]] ELSE next[x]], gone, Nil)

\* Mutant: x86_task_last is left at the destroyed task.
NewLast_Stale(gone) == last

NewLast(gone) == IF last \in gone THEN CHOOSE x \in Slot : next[x] = last ELSE last

\* The stopped tasks are unlinked and destroyed.
Reap(gone) ==
    /\ alive' = alive \ gone
    /\ next' = Unlinked(gone)
    /\ last' = NewLast(gone)
    /\ pid' = Wipe(pid, gone, 0)
    /\ pending' = Wipe(pending, gone, NoSignal)
    /\ sigctx' = Wipe(sigctx, gone, FALSE)
    /\ sigeip' = Wipe(sigeip, gone, "none")
    /\ esp0' = Wipe(esp0, gone, "main")
    /\ inHandler' = Wipe(inHandler, gone, FALSE)
    /\ UNCHANGED lastPid

-----------------------------------------------------------------------------
(***************************************************************************)
(* x86_task_switch. fl, wt, dl and ax are the flags, wait types, deadlines *)
(* and main frames as the handler that switches has left them; now is the  *)
(* time its walk compares deadlines with.                                  *)
(***************************************************************************)

Stopped(fl) == {t \in Listed : "STOP" \in fl[t]}

\* Mutant: the end of a task is noticed only by the walk that unlinks it.
PidGone_Missed(p, t, gone) == \E u \in gone : pid[u] = p /\ t \in After(u)

\* task_by_pid(p) finds nothing when the walk reaches t: the stopped tasks
\* that precede t are already unlinked, the later ones are not. Pid 0 finds
\* x86_task_idle.
PidGone(p, t, gone) ==
    /\ p # 0
    /\ \A u \in Listed : pid[u] = p => u \in gone /\ t \in After(u)

\* The waiting tasks whose wait the walk ends.
Woken(now, fl, wt, dl, gone) ==
    {t \in Listed \ gone :
        /\ "WAIT" \in fl[t]
        /\ \/ wt[t] = "sleep" /\ now >= dl[t]
           \/ wt[t] = "pid" /\ PidGone(dl[t], t, gone)}

\* Mutant: the search does not look at the flags.
PickNext_Any(ready) ==
    LET later == After(current)
    IN  IF later = {} THEN Idle ELSE CHOOSE t \in later : later \ {t} \subseteq After(t)

\* Mutant: the search takes the last ready task.
PickNext_Last(ready) ==
    LET later == ready \cap After(current)
    IN  IF later = {} THEN Idle ELSE CHOOSE t \in later : later \cap After(t) = {}

\* Mutant: the search begins at the head of the list each time.
PickNext_Head(ready) ==
    IF ready = {} THEN Idle ELSE CHOOSE t \in ready : ready \ {t} \subseteq After(t)

\* Round robin: the first ready task behind the current one. The idle task is
\* always ready, so a search that reaches the end of the list stops there.
PickNext(ready) ==
    LET later == ready \cap After(current)
    IN  IF later = {} THEN Idle ELSE CHOOSE t \in later : later \ {t} \subseteq After(t)

\* The tasks that may run after the walk.
Ready(fl, gone, woken) ==
    {t \in Listed \ gone : "BUSY" \notin fl[t] /\ ("WAIT" \in fl[t] => t \in woken)}

\* The stopped tasks are destroyed, the waits are over, and another task runs.
HandOver(fl, wt, dl, ax, gone, woken, to) ==
    LET kept(x) == {f \in fl[x] : /\ f = "RUNNING" => x # current
                                  /\ f = "WAIT" => x \notin woken}
        switched == [x \in Slot |-> IF x = to THEN kept(x) \cup {"RUNNING"} ELSE kept(x)]
    IN  /\ current' = to
        /\ flag' = Wipe(switched, gone, {})
        /\ waitType' = Wipe(wt, gone \cup woken, "none")
        /\ deadline' = Wipe(dl, gone \cup woken, 0)
        /\ eax' = Wipe(ax, gone, 0)
        /\ Reap(gone)

\* x86_task_switch: one pass over the list. (What it finds is bound, for TLC computes
\* a definition again wherever it is used.)
Switch(now, fl, wt, dl, ax) ==
    \E gone \in {Stopped(fl)} :
    \E woken \in {Woken(now, fl, wt, dl, gone)} :
    \E to \in {PickNext(Ready(fl, gone, woken))} : HandOver(fl, wt, dl, ax, gone, woken, to)

-----------------------------------------------------------------------------
(***************************************************************************)
(* Handlers.                                                               *)
(***************************************************************************)

\* panic_hlt: the machine stops for good.
Panic == /\ halted' = TRUE
         /\ UNCHANGED <<listVars, current, flag, waitVars, sigVars, systime, entry>>

UserRuns(t) == ~halted /\ ~entry /\ current = t /\ t \in Task

\* eax after the task has blocked with result 0: in the main frame unless the
\* task runs in its signal frame.
Blocked(t) == IF esp0[t] = "main" THEN [eax EXCEPT ![t] = 0] ELSE eax

\* hpet_timer_func moves the clock by what the counter has counted.
Advanced(d) == IF systime + d > MaxTime THEN MaxTime ELSE systime + d

\* The first timer interrupt only leaves the boot thread: nothing switches.
FirstTimerIrq(d) ==
    /\ ~halted /\ entry
    /\ entry' = FALSE
    /\ systime' = Advanced(d)
    /\ UNCHANGED <<listVars, current, flag, waitVars, sigVars, halted>>

TimerIrq(d) ==
    /\ ~halted /\ ~entry
    /\ systime' = Advanced(d)
    /\ Switch(Advanced(d), flag, waitType, deadline, eax)
    /\ UNCHANGED <<entry, halted>>

\* The current task is stopped: the switch destroys it, or panics over init.
StopCurrent(t) ==
    \/ pid[t] = 1 /\ Panic
    \/ /\ pid[t] # 1
       /\ Switch(systime, [flag EXCEPT ![t] = @ \cup {"STOP"}], waitType, deadline, eax)
       /\ UNCHANGED sysVars

Exit(t) == UserRuns(t) /\ StopCurrent(t)

\* Mutant: the entry point of an earlier program, or of the heap, is kept.
SetContext_KeepEip(t) ==
    /\ sigctx' = [sigctx EXCEPT ![t] = TRUE]
    /\ UNCHANGED sigeip

\* x86_task_set_context for a program that starts: it gets a signal context and
\* has no signal entry point yet.
SetContext(t) ==
    /\ sigctx' = [sigctx EXCEPT ![t] = TRUE]
    /\ sigeip' = [sigeip EXCEPT ![t] = "none"]

\* task_create clears the control block, task_enable lists the task.
NewTask(c, handler) ==
    /\ Enable(c)
    /\ flag' = [flag EXCEPT ![c] = {}]
    /\ waitType' = [waitType EXCEPT ![c] = "none"]
    /\ deadline' = [deadline EXCEPT ![c] = 0]
    /\ eax' = [eax EXCEPT ![c] = 0]
    /\ pending' = [pending EXCEPT ![c] = NoSignal]
    /\ esp0' = [esp0 EXCEPT ![c] = "main"]
    /\ inHandler' = [inHandler EXCEPT ![c] = handler]
    /\ UNCHANGED <<current, sysVars>>

InHandler(t) == esp0[t] = "sig" \/ inHandler[t]

\* fork: the child resumes from a copy of the caller's active frame, without a
\* signal context; its sigeip is never written, so it is what the heap had.
Fork(t, c) ==
    /\ UserRuns(t) /\ c \in Task \ alive /\ lastPid < MaxPid
    /\ NewTask(c, InHandler(t))
    /\ sigctx' = [sigctx EXCEPT ![c] = FALSE]
    /\ \E eip \in Leftover : sigeip' = [sigeip EXCEPT ![c] = eip]

\* fexecve: a new task that runs a program from its start.
Fexecve(t, c) ==
    /\ UserRuns(t) /\ c \in Task \ alive /\ lastPid < MaxPid
    /\ NewTask(c, FALSE)
    /\ SetContext(c)

\* execve of a file that exists, from the main frame. (A missing file changes
\* nothing; calling it from a signal handler is outside the model.)
Execve(t) ==
    /\ UserRuns(t) /\ esp0[t] = "main"
    /\ SetContext(t)
    /\ eax' = [eax EXCEPT ![t] = 0]
    /\ inHandler' = [inHandler EXCEPT ![t] = FALSE]
    /\ UNCHANGED <<listVars, current, flag, waitType, deadline, pending, esp0, sysVars>>

Nanosleep(t, d) ==
    /\ UserRuns(t) /\ systime + d <= MaxTime
    /\ Switch(systime,
              [flag EXCEPT ![t] = @ \cup {"WAIT"}],
              [waitType EXCEPT ![t] = "sleep"],
              [deadline EXCEPT ![t] = systime + d],
              Blocked(t))
    /\ UNCHANGED sysVars

Waitpid(t, p) ==
    /\ UserRuns(t)
    /\ Switch(systime,
              [flag EXCEPT ![t] = {"WAIT"}],
              [waitType EXCEPT ![t] = "pid"],
              [deadline EXCEPT ![t] = p],
              Blocked(t))
    /\ UNCHANGED sysVars

\* A read that the device will complete later: the task is busy until then.
ReadBlock(t) ==
    /\ UserRuns(t)
    /\ Switch(systime, [flag EXCEPT ![t] = @ \cup {"BUSY"}], waitType, deadline, Blocked(t))
    /\ UNCHANGED sysVars

\* The device's interrupt completes the read of t.
ReadDone(t) ==
    /\ ~halted /\ "BUSY" \in flag[t]
    /\ flag' = [flag EXCEPT ![t] = @ \ {"BUSY"}]
    /\ UNCHANGED <<listVars, current, waitVars, sigVars, sysVars>>

-----------------------------------------------------------------------------
(***************************************************************************)
(* Signals.                                                                *)
(***************************************************************************)

CanEnterSignal(t) == sigctx[t] /\ sigeip[t] # "none"

\* Mutant: the aborted wait still returns 0.
EnterSignal_NoError(t) ==
    /\ CanEnterSignal(t)
    /\ flag' = [flag EXCEPT ![t] = @ \ {"WAIT"}]
    /\ waitType' = [waitType EXCEPT ![t] = "none"]
    /\ deadline' = [deadline EXCEPT ![t] = 0]
    /\ esp0' = [esp0 EXCEPT ![t] = "sig"]
    /\ UNCHANGED eax

\* x86_task_enter_signal: a wait is aborted with result -1, in the frame the
\* task waits in; a signal frame is then started over.
EnterSignal(t) ==
    /\ CanEnterSignal(t)
    /\ eax' = IF "WAIT" \in flag[t] /\ esp0[t] = "main" THEN [eax EXCEPT ![t] = -1] ELSE eax
    /\ flag' = [flag EXCEPT ![t] = @ \ {"WAIT"}]
    /\ waitType' = [waitType EXCEPT ![t] = "none"]
    /\ deadline' = [deadline EXCEPT ![t] = 0]
    /\ esp0' = [esp0 EXCEPT ![t] = "sig"]

\* Mutant: the number is stored with the task that sends it.
Kill_Sender(t, u, s) ==
    /\ UserRuns(t) /\ u \in Listed
    /\ pending' = [pending EXCEPT ![t] = s]
    /\ EnterSignal(u) \/ (~CanEnterSignal(u) /\ UNCHANGED <<waitVars, flag, esp0>>)
    /\ UNCHANGED <<listVars, current, sigctx, sigeip, inHandler, sysVars>>

\* kill of the task u by t. The number is not looked at: with 0 the handler is entered
\* and no signal is pending. (A pid that no task has changes nothing.)
Kill(t, u, s) ==
    /\ UserRuns(t) /\ u \in Listed
    /\ pending' = [pending EXCEPT ![u] = s]
    /\ EnterSignal(u) \/ (~CanEnterSignal(u) /\ UNCHANGED <<waitVars, flag, esp0>>)
    /\ UNCHANGED <<listVars, current, sigctx, sigeip, inHandler, sysVars>>

\* signal: libc calls it once, when a program starts.
SetSignal(t) ==
    /\ UserRuns(t) /\ sigctx[t] /\ sigeip[t] # "handler"
    /\ sigeip' = [sigeip EXCEPT ![t] = "handler"]
    /\ UNCHANGED <<listVars, current, flag, waitVars, pending, sigctx, esp0, inHandler, sysVars>>

\* sigreturn: libc calls it where a handler ends. Its assertions panic. The
\* main frame resumes, and its program takes the result of the call it made.
Sigreturn(t) ==
    /\ UserRuns(t) /\ InHandler(t)
    /\ \/ /\ ~(sigctx[t] /\ pending[t] # NoSignal)
          /\ Panic
       \/ /\ sigctx[t] /\ pending[t] # NoSignal
          /\ pending' = [pending EXCEPT ![t] = NoSignal]
          /\ esp0' = [esp0 EXCEPT ![t] = "main"]
          /\ eax' = [eax EXCEPT ![t] = 0]
          /\ UNCHANGED <<listVars, current, flag, waitType, deadline, sigctx, sigeip, inHandler, sysVars>>

\* A fault raises SIGSEGV; with a signal pending, or no handler, it is fatal.
PageFault(t) ==
    /\ UserRuns(t)
    /\ \/ /\ pending[t] # NoSignal \/ ~CanEnterSignal(t)
          /\ StopCurrent(t)
       \/ /\ pending[t] = NoSignal
          /\ EnterSignal(t)
          /\ pending' = [pending EXCEPT ![t] = SIGSEGV]
          /\ UNCHANGED <<listVars, current, sigctx, sigeip, inHandler, sysVars>>

-----------------------------------------------------------------------------
\* After kernel_main: x86_task_init has made the idle task, task_fexecve has
\* enabled /bin/init with pid 1, and no timer interrupt has come yet.
Init ==
    \E t \in Task :
        /\ alive = {t}
        /\ next = [x \in Slot |-> IF x = Idle THEN t ELSE Nil]
        /\ last = t
        /\ lastPid = 1
        /\ pid = [x \in Task |-> IF x = t THEN 1 ELSE 0]
        /\ current = Idle
        /\ flag = [x \in Slot |-> {}]
        /\ waitType = [x \in Task |-> "none"]
        /\ deadline = [x \in Task |-> 0]
        /\ eax = [x \in Task |-> 0]
        /\ pending = [x \in Task |-> NoSignal]
        /\ sigctx = [x \in Task |-> x = t]
        /\ sigeip = [x \in Task |-> "none"]
        /\ esp0 = [x \in Task |-> "main"]
        /\ inHandler = [x \in Task |-> FALSE]
        /\ systime = 0
        /\ entry = TRUE
        /\ halted = FALSE

\* What a handler does that has no part in a read or a signal.
CoreNext ==
    \/ \E d \in Tick : FirstTimerIrq(d) \/ TimerIrq(d)
    \/ \E t \in Task :
        \/ Exit(t)
        \/ PageFault(t)
        \/ Execve(t)
        \/ SetSignal(t)
        \/ Sigreturn(t)
        \/ \E c \in Task : Fork(t, c) \/ Fexecve(t, c)
        \/ \E d \in 1..MaxTime : Nanosleep(t, d)
        \/ \E p \in 0..MaxPid : Waitpid(t, p)

\* A handler outside this module may find what it does not expect and panic.
DevicePanic == ~halted /\ Panic

\* panic_hlt never returns.
Halted == halted /\ UNCHANGED vars

Next ==
    \/ CoreNext
    \/ \E t, u \in Task, s \in Signal : Kill(t, u, s)
    \/ \E t \in Task : ReadBlock(t) \/ ReadDone(t)
    \/ DevicePanic
    \/ Halted

Spec == Init /\ [][Next]_vars

\* The timer keeps interrupting and its counter keeps counting.
Fairness == /\ WF_vars(\E d \in Tick : FirstTimerIrq(d))
            /\ WF_vars(\E d \in Tick \ {0} : TimerIrq(d))

FairSpec == Spec /\ Fairness

-----------------------------------------------------------------------------
\* Every variable keeps its type.
TaskTypeOK ==
    /\ alive \subseteq Task
    /\ next \in [Slot -> Task \cup {Nil}]
    /\ last \in alive \cup {Idle}
    /\ lastPid \in Pid
    /\ pid \in [Task -> 0..MaxPid]
    /\ current \in Slot
    /\ flag \in [Slot -> SUBSET Flag]
    /\ waitType \in [Task -> {"none", "sleep", "pid"}]
    /\ deadline \in [Task -> Nat]
    /\ eax \in [Task -> {0, -1}]
    /\ pending \in [Task -> Signal \cup {SIGSEGV, NoSignal}]
    /\ sigctx \in [Task -> BOOLEAN]
    /\ sigeip \in [Task -> {"none", "handler", "stale"}]
    /\ esp0 \in [Task -> {"main", "sig"}]
    /\ inHandler \in [Task -> BOOLEAN]

SysTypeOK ==
    /\ systime \in 0..MaxTime
    /\ entry \in BOOLEAN
    /\ halted \in BOOLEAN

TypeOK == TaskTypeOK /\ SysTypeOK

\* The idle task counts as pid 0.
Nr(x) == IF x = Idle THEN 0 ELSE pid[x]

\* The list, whatever was linked into it and unlinked from it: next leads from
\* the idle task through the living tasks in the order of their pids, skips
\* none of them, never reaches a destroyed one, and ends at x86_task_last.
QueueOrder ==
    /\ \A t \in alive : pid[t] \in 1..lastPid
    /\ \A t, u \in alive : pid[t] = pid[u] => t = u
    /\ \A x \in alive \cup {Idle} :
        IF x = last
        THEN next[x] = Nil /\ \A t \in alive : pid[t] <= Nr(x)
        ELSE /\ next[x] \in alive
             /\ Nr(x) < pid[next[x]]
             /\ \A t \in alive : pid[t] <= Nr(x) \/ pid[next[x]] <= pid[t]
    /\ \A x \in Task \ alive : next[x] = Nil

\* Every living task is on the list the switch and task_by_pid walk: none that
\* was enabled can be lost to the scheduler while other tasks exit around it.
AllListed == Listed = alive

\* The processor: only the task it runs is flagged RUNNING, and that task is
\* alive, not stopped, and not in the middle of a wait or a read. No task is
\* left stopped, so a stopped task never outlives the handler that stopped it.
CpuOwner ==
    /\ current \in alive \cup {Idle}
    /\ flag[current] \subseteq {"RUNNING"}
    /\ \A x \in Slot : "STOP" \notin flag[x] /\ ("RUNNING" \in flag[x] => x = current)
    /\ \A x \in Slot \ alive : flag[x] \subseteq {"RUNNING"}

\* A task in its signal frame owns one, entered it through the entry point its
\* own program set, never through a sigeip that fork left uninitialised or that
\* an earlier program set.
SignalFrame ==
    \A t \in alive :
        /\ sigctx[t] => sigeip[t] # "stale"
        /\ esp0[t] = "sig" => sigctx[t] /\ sigeip[t] = "handler"

\* A task in its signal frame has the signal it handles until it leaves the frame, as
\* sys_sigreturn asserts, however many kills and faults come meanwhile. The only
\* exception is a kill with the number 0, which sys_kill does not refuse.
SignalKept ==
    [][\A t \in alive' :
        esp0'[t] = "sig" /\ pending'[t] = NoSignal =>
            \/ esp0[t] = "sig" /\ pending[t] = NoSignal
            \/ \E u \in alive : Kill(u, t, NoSignal)]_vars

\* sys_sigreturn's assertions hold wherever libc's handler can reach it.
SigreturnAllowed ==
    \A t \in alive : InHandler(t) => sigctx[t] /\ pending[t] # NoSignal

\* A wait ends only when it should: its deadline has passed, the task it is for
\* is gone, or a signal starts the handler, which the wait's caller learns from
\* the -1 it gets.
NoEarlyWake ==
    [][\A t \in alive \cap alive' :
        "WAIT" \in flag[t] /\ "WAIT" \notin flag'[t] =>
            \/ waitType[t] = "sleep" /\ systime' >= deadline[t]
            \/ waitType[t] = "pid" /\ \A u \in alive' : pid'[u] # deadline[t]
            \/ esp0'[t] = "sig" /\ (esp0[t] = "main" => eax'[t] = -1)]_vars

\* Waits end: the walk meets a sleeping task at some tick after its deadline, and a
\* waiting one once the task it waits for is gone, whatever the other tasks do.
WaitEnds ==
    \A t \in Task :
        (/\ t \in alive /\ "WAIT" \in flag[t]
         /\ \/ waitType[t] = "sleep"
            \/ waitType[t] = "pid" /\ deadline[t] \in 1..lastPid /\ \A u \in alive : pid[u] # deadline[t])
            ~> ("WAIT" \notin flag[t] \/ halted)

\* Round robin starves nobody: a task that is neither waiting nor reading gets
\* the processor, however many tasks are forked, woken or killed meanwhile.
NoStarvation ==
    \A t \in Task :
        (t \in alive /\ flag[t] \cap {"WAIT", "BUSY"} = {}) ~> (current = t \/ halted)

\* The scheduler implements TaskLife: pids come in order and never again, only
\* the running task blocks or ends, and turns are taken in pid order.
lifeOf == [p \in Pid |->
    IF p > lastPid THEN "unborn"
    ELSE IF \A t \in alive : pid[t] # p THEN "gone"
    ELSE IF \E t \in alive : pid[t] = p /\ flag[t] \cap {"WAIT", "BUSY"} # {} THEN "blocked"
    ELSE "runnable"]
cpuOf == IF current = Idle THEN 0 ELSE pid[current]

Life == INSTANCE TaskLife WITH life <- lifeOf, cpu <- cpuOf

ImplementsTaskLife == Life!Spec
=============================================================================
