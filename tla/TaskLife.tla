----------------------------- MODULE TaskLife -----------------------------
(***************************************************************************)
(* What the scheduler promises, without its list, flags and handlers:      *)
(* tasks live once, under pids given out in order; a task leaves the       *)
(* processor by yielding, blocking or ending, and only then; and the       *)
(* processor goes round the runnable tasks in the order of their pids,     *)
(* with a turn of the idle task before each new round.                     *)
(***************************************************************************)
EXTENDS Integers

CONSTANT MaxPid

VARIABLES
    life,   \* what has become of each pid
    cpu     \* the pid that runs, 0 for the idle task

lifeVars == <<life, cpu>>

Pids == 1..MaxPid
State == {"unborn", "runnable", "blocked", "gone"}

Init == /\ life = [p \in Pids |-> IF p = 1 THEN "runnable" ELSE "unborn"]
        /\ cpu = 0

\* A running task starts another, under the next pid.
Spawn(p) ==
    /\ cpu # 0
    /\ life[p] = "unborn"
    /\ \A q \in Pids : q < p => life[q] # "unborn"
    /\ life' = [life EXCEPT ![p] = "runnable"]
    /\ UNCHANGED cpu

\* A device or a signal ends the wait of a task.
Unblock(p) ==
    /\ life[p] = "blocked"
    /\ life' = [life EXCEPT ![p] = "runnable"]
    /\ UNCHANGED cpu

\* The first runnable pid above the running one, or the idle task.
NextTurn(l) ==
    LET higher == {p \in Pids : p > cpu /\ l[p] = "runnable"}
    IN  IF higher = {} THEN 0 ELSE CHOOSE p \in higher : \A q \in higher : p <= q

\* The processor is given away: the running task meets its fate, the waits of
\* some tasks are over, and the next in turn runs. Only the running task can
\* block or end, and the first one, init, never ends.
Reschedule(fate, woken) ==
    /\ fate = "gone" => cpu # 1
    /\ woken \subseteq {p \in Pids : life[p] = "blocked"}
    /\ LET after == [p \in Pids |-> IF p = cpu THEN fate
                                    ELSE IF p \in woken THEN "runnable" ELSE life[p]]
       IN  life' = after /\ cpu' = NextTurn(after)

Next ==
    \/ \E p \in Pids : Spawn(p) \/ Unblock(p)
    \/ \E fate \in {"runnable", "blocked", "gone"}, woken \in SUBSET Pids :
            Reschedule(fate, woken)

Spec == Init /\ [][Next]_lifeVars
=============================================================================
