---------------------------- MODULE SchedProofs ----------------------------
(***************************************************************************)
(* Theorems about Sched for every set of task slots, every bound on pids   *)
(* and time, and every set of signals. The inductive invariant SchedInv    *)
(* joins the types, the order of the task list and the ownership of the    *)
(* processor: a switch keeps the processor's owner sound only because the  *)
(* list it searches holds exactly the living tasks, and unlinking keeps    *)
(* the list sound only because nothing but the current task is stopped.    *)
(***************************************************************************)
EXTENDS Sched, WellFoundedInduction, TLAPS

SchedInv == TypeOK /\ QueueOrder /\ CpuOwner /\ SignalFrame

-----------------------------------------------------------------------------
\* A set of naturals that is not empty has a least element.
LEMMA LeastNat ==
    ASSUME NEW S \in SUBSET Nat, S # {}
    PROVE  \E m \in S : \A n \in S : m <= n
<1> DEFINE R == {ss \in Nat \X Nat : ss[1] < ss[2]}
<1>1. R = OpToRel(<, Nat)
    BY DEF OpToRel
<1>2. IsWellFoundedOn(R, Nat)
    BY <1>1, NatLessThanWellFounded
<1>3. \A x, y \in Nat : <<y, x>> \notin R => x <= y
    OBVIOUS
<1> HIDE DEF R
<1>4. \E x \in S : \A y \in S : <<y, x>> \notin R
    BY <1>2, WFMin
<1>5. PICK x \in S : \A y \in S : <<y, x>> \notin R
    BY <1>4
<1>6. \A y \in S : x <= y
    BY <1>3, <1>5
<1> QED
    BY <1>6

\* Pids are naturals up to MaxPid, and the idle task's number is 0.
LEMMA NrType ==
    ASSUME TypeOK
    PROVE  \A x \in Slot : Nr(x) \in 0..MaxPid
BY SchedAssumption DEF TypeOK, TaskTypeOK, Nr, Slot

\* Among some slots there is one with the greatest number.
LEMMA Highest ==
    ASSUME TypeOK, NEW V \in SUBSET Slot, V # {}
    PROVE  \E v \in V : \A w \in V : Nr(w) <= Nr(v)
<1> DEFINE S == {n \in Nat : \E v \in V : n = MaxPid - Nr(v)}
<1>1. \A v \in V : Nr(v) \in 0..MaxPid /\ MaxPid - Nr(v) \in S
    BY NrType, SchedAssumption
<1>2. S \in SUBSET Nat /\ S # {}
    BY <1>1
<1>3. PICK m \in S : \A n \in S : m <= n
    BY <1>2, LeastNat
<1>4. PICK v \in V : m = MaxPid - Nr(v)
    BY <1>3
<1>5. \A w \in V : Nr(w) <= Nr(v)
    BY <1>1, <1>3, <1>4, SchedAssumption
<1> QED
    BY <1>5

\* Among some tasks there is one with the least pid.
LEMMA Lowest ==
    ASSUME TypeOK, NEW V \in SUBSET Task, V # {}
    PROVE  \E v \in V : \A w \in V : pid[v] <= pid[w]
<1> DEFINE S == {n \in Nat : \E v \in V : n = pid[v]}
<1>1. \A v \in V : pid[v] \in Nat /\ pid[v] \in S
    BY SchedAssumption DEF TypeOK, TaskTypeOK
<1>2. S \in SUBSET Nat /\ S # {}
    BY <1>1
<1>3. PICK m \in S : \A n \in S : m <= n
    BY <1>2, LeastNat
<1>4. PICK v \in V : m = pid[v]
    BY <1>3
<1>5. \A w \in V : pid[v] <= pid[w]
    BY <1>1, <1>3, <1>4
<1> QED
    BY <1>5

\* A walk along next from x meets the living tasks with higher numbers: the
\* sets closed under next are described by pids alone.
LEMMA WalkMeetsHigher ==
    ASSUME TypeOK, QueueOrder, NEW x \in alive \cup {Idle}
    PROVE  After(x) = {t \in alive : Nr(x) < pid[t]}
<1> DEFINE H == {t \in alive : Nr(x) < pid[t]}
<1> USE SchedAssumption
<1>1. /\ alive \subseteq Task
      /\ \A y \in alive : y \in Task /\ y # Idle /\ Nr(y) = pid[y] /\ pid[y] \in Nat
      /\ Nr(x) \in Nat
      /\ \A y \in alive : y # Nil
    BY DEF TypeOK, TaskTypeOK, Nr
<1>2. ASSUME NEW y \in H \cup {x}, next[y] # Nil
      PROVE  next[y] \in H
    <2>1. y \in alive \cup {Idle} /\ y # last /\ Nr(x) <= Nr(y) /\ Nr(y) \in Nat
        BY <1>1, <1>2 DEF QueueOrder
    <2>2. next[y] \in alive /\ Nr(y) < pid[next[y]]
        BY <2>1 DEF QueueOrder
    <2> QED
        BY <1>1, <2>1, <2>2
<1>3. After(x) \subseteq H
    BY <1>1, <1>2 DEF After
<1>4. ASSUME NEW t \in H, NEW S \in SUBSET Task,
             \A y \in S \cup {x} : next[y] # Nil => next[y] \in S,
             t \notin S
      PROVE  FALSE
    <2> DEFINE V == {y \in (S \cap H) \cup {x} : Nr(y) < pid[t]}
    <2>1. V \in SUBSET Slot /\ V # {}
        BY <1>1 DEF Slot
    <2>2. PICK v \in V : \A w \in V : Nr(w) <= Nr(v)
        BY <2>1, Highest
    <2>3. v \in alive \cup {Idle} /\ Nr(v) \in Nat /\ Nr(x) <= Nr(v) /\ Nr(v) < pid[t] /\ v \in S \cup {x}
        BY <1>1
    <2>4. v # last
        BY <1>1, <2>3 DEF QueueOrder
    <2>5. /\ next[v] \in alive
          /\ Nr(v) < pid[next[v]]
          /\ pid[t] <= Nr(v) \/ pid[next[v]] <= pid[t]
        BY <2>3, <2>4, <1>4 DEF QueueOrder
    <2>6. next[v] \in S \cap H /\ Nr(next[v]) = pid[next[v]]
        BY <1>1, <1>4, <2>3, <2>5
    <2>7. pid[next[v]] # pid[t]
        BY <1>4, <2>5, <2>6 DEF QueueOrder
    <2>8. next[v] \in V
        BY <1>1, <2>3, <2>5, <2>6, <2>7
    <2> QED
        BY <1>1, <2>2, <2>3, <2>5, <2>6, <2>8
<1>5. H \subseteq After(x)
    BY <1>1, <1>4 DEF After
<1> QED
    BY <1>3, <1>5

\* The walk from the head of the list meets exactly the living tasks.
LEMMA ListedIsAlive ==
    ASSUME TypeOK, QueueOrder
    PROVE  Listed = alive
<1>1. Idle \notin alive
    BY SchedAssumption DEF TypeOK, TaskTypeOK
<1>2. \A t \in alive : Nr(Idle) < pid[t]
    BY SchedAssumption DEF QueueOrder, Nr, TypeOK, TaskTypeOK
<1> QED
    BY <1>2, WalkMeetsHigher DEF Listed

-----------------------------------------------------------------------------
\* The search returns the idle task or one of the ready tasks.
LEMMA PickNextReady ==
    ASSUME TypeOK, QueueOrder, current \in alive \cup {Idle}, NEW ready \in SUBSET Task
    PROVE  PickNext(ready) = Idle \/ PickNext(ready) \in ready \cap alive
<1> DEFINE later == ready \cap After(current)
<1>1. CASE later = {}
    BY <1>1 DEF PickNext
<1>2. CASE later # {}
    <2>1. later \subseteq alive /\ alive \subseteq Task
        BY WalkMeetsHigher DEF TypeOK, TaskTypeOK
    <2>2. PICK t \in later : \A u \in later : pid[t] <= pid[u]
        BY <1>2, <2>1, Lowest
    <2>3. \A u \in later \ {t} : u \in alive /\ pid[u] # pid[t] /\ pid[u] \in Nat /\ pid[t] \in Nat
        BY <2>1 DEF QueueOrder, TypeOK, TaskTypeOK
    <2>4. t \in alive /\ t # Idle /\ Nr(t) = pid[t]
        BY <2>1, SchedAssumption DEF Nr
    <2>5. later \ {t} \subseteq After(t)
        BY <2>2, <2>3, <2>4, WalkMeetsHigher
    <2>6. PickNext(ready) \in later
        BY <1>2, <2>5 DEF PickNext
    <2> QED
        BY <2>1, <2>6
<1> QED
    BY <1>1, <1>2

\* Numbers tell the living tasks and the idle task apart.
LEMMA NrInjective ==
    ASSUME TypeOK, QueueOrder, NEW x \in alive \cup {Idle}, NEW y \in alive \cup {Idle},
           Nr(x) = Nr(y)
    PROVE  x = y
BY SchedAssumption DEF TypeOK, TaskTypeOK, QueueOrder, Nr

\* Wiping entries with a value of the range keeps a function's type.
LEMMA WipeType ==
    ASSUME NEW D, NEW R, NEW f \in [D -> R], NEW gone, NEW v \in R
    PROVE  Wipe(f, gone, v) \in [D -> R]
BY DEF Wipe

\* Destroying no task, or the current one, keeps the list in order.
LEMMA ReapKeepsOrder ==
    ASSUME TypeOK, QueueOrder, NEW gone \in SUBSET alive,
           \A t, u \in gone : t = u,
           Reap(gone)
    PROVE  /\ QueueOrder'
           /\ alive' = alive \ gone
           /\ lastPid' = lastPid
           /\ last' \in alive' \cup {Idle}
           /\ next' \in [Slot -> Task \cup {Nil}]
           /\ pid' \in [Task -> 0..MaxPid]
           /\ pending' \in [Task -> Signal \cup {SIGSEGV, NoSignal}]
           /\ sigctx' \in [Task -> BOOLEAN]
           /\ sigeip' \in [Task -> {"none", "handler", "stale"}]
           /\ esp0' \in [Task -> {"main", "sig"}]
           /\ inHandler' \in [Task -> BOOLEAN]
<1> USE SchedAssumption
<1>1. /\ alive \subseteq Task
      /\ next \in [Slot -> Task \cup {Nil}]
      /\ pid \in [Task -> 0..MaxPid]
      /\ last \in alive \cup {Idle}
      /\ DOMAIN next = Slot /\ DOMAIN pid = Task
      /\ \A y \in alive : y \in Task /\ y # Idle /\ y # Nil /\ Nr(y) = pid[y] /\ pid[y] \in Nat
      /\ Idle \notin Task /\ Idle \in Slot /\ Task \subseteq Slot
      /\ \A x \in alive \cup {Idle} : Nr(x) \in Nat /\ x \in Slot
    BY DEF TypeOK, TaskTypeOK, Nr, Slot
<1>2. /\ pending' \in [Task -> Signal \cup {SIGSEGV, NoSignal}]
      /\ sigctx' \in [Task -> BOOLEAN]
      /\ sigeip' \in [Task -> {"none", "handler", "stale"}]
      /\ esp0' \in [Task -> {"main", "sig"}]
      /\ inHandler' \in [Task -> BOOLEAN]
      /\ pid' \in [Task -> 0..MaxPid]
      /\ alive' = alive \ gone
      /\ lastPid' = lastPid
    <2>1. NoSignal \in Signal \cup {SIGSEGV, NoSignal} /\ FALSE \in BOOLEAN /\ 0 \in 0..MaxPid
          /\ "none" \in {"none", "handler", "stale"} /\ "main" \in {"main", "sig"}
        OBVIOUS
    <2> QED
        BY <2>1, WipeType DEF Reap, TypeOK, TaskTypeOK
<1>3. /\ pid' = [t \in Task |-> IF t \in gone THEN 0 ELSE pid[t]]
      /\ last' = NewLast(gone)
      /\ next' = [x \in Slot |-> IF x \in gone THEN Nil
                                 ELSE IF next[x] \in gone THEN next[next[x]] ELSE next[x]]
    BY <1>1 DEF Reap, Wipe, Unlinked
<1>4. /\ \A t \in alive' : pid'[t] = pid[t] /\ t \in alive /\ t \notin gone
      /\ \A x \in alive' \cup {Idle} : Nr(x)' = Nr(x) /\ x \in alive \cup {Idle} /\ x \notin gone
    BY <1>1, <1>2, <1>3 DEF Nr
<1>5. CASE gone = {}
    <2>1. next' = next /\ last' = last /\ pid' = pid /\ alive' = alive
        BY <1>1, <1>2, <1>3, <1>5 DEF NewLast
    <2> QED
        BY <1>1, <1>2, <2>1 DEF QueueOrder, Nr
<1>6. CASE gone # {}
    <2>1. PICK g : gone = {g}
        <3>1. PICK h : h \in gone
            BY <1>6
        <3>2. gone = {h}
            BY <3>1, Zenon
        <3> QED
            BY <3>2
    <2>2. g \in alive /\ g # Idle /\ Nr(g) = pid[g] /\ pid[g] \in Nat
        BY <1>1, <2>1
    <2>3. \A x \in Slot : next[x] = g => x \in alive \cup {Idle} /\ x # last /\ x # g /\ Nr(x) < pid[g]
        <3> SUFFICES ASSUME NEW x \in Slot, next[x] = g
                     PROVE  x \in alive \cup {Idle} /\ x # last /\ x # g /\ Nr(x) < pid[g]
            OBVIOUS
        <3>1. x \in alive \cup {Idle}
            BY <1>1, <2>2 DEF QueueOrder, Slot
        <3>2. x # last /\ Nr(x) < pid[g]
            BY <1>1, <2>2, <3>1 DEF QueueOrder
        <3> QED
            BY <2>2, <3>1, <3>2
    <2>4. next[g] # g
        BY <1>1, <2>2, <2>3
    <2>5. next' \in [Slot -> Task \cup {Nil}] /\ \A x \in Task \ alive' : next'[x] = Nil
        BY <1>1, <1>2, <1>3, <2>1, <2>2, <2>3 DEF QueueOrder
    <2>6. \E x \in alive \cup {Idle} : next[x] = g
        <3>1. g \in After(Idle)
            BY <2>2, ListedIsAlive DEF Listed
        <3> DEFINE S == {u \in Task : \E x \in alive \cup {Idle} : next[x] = u}
        <3>2. \A y \in S \cup {Idle} : next[y] # Nil => next[y] \in S
            BY <1>1 DEF QueueOrder, Slot
        <3>3. g \in S
            BY <3>1, <3>2 DEF After
        <3> QED
            BY <3>3
    <2>7. CASE last = g
        <3>1. next[last'] = g /\ last' \in Slot
            BY <1>1, <1>3, <2>1, <2>6, <2>7 DEF NewLast
        <3>2. last' \in alive' \cup {Idle} /\ Nr(last') < pid[g] /\ last' # g /\ last' # last
            BY <1>2, <2>1, <2>3, <3>1
        <3>3. next[g] = Nil /\ \A t \in alive : pid[t] <= pid[g]
            BY <2>2, <2>7 DEF QueueOrder
        <3>4. next'[last'] = Nil
            BY <1>1, <1>3, <2>1, <3>1, <3>2, <3>3
        <3>5. \A t \in alive' : pid[t] <= Nr(last')
            BY <1>1, <1>4, <2>1, <2>2, <3>1, <3>2, <3>3 DEF QueueOrder
        <3>6. ASSUME NEW x \in alive' \cup {Idle}, x # last'
              PROVE  next'[x] = next[x] /\ next[x] \in alive' /\ x # last
            <4>1. x # last /\ next[x] \in alive
                BY <1>1, <1>4, <2>1, <2>7 DEF QueueOrder
            <4>2. next[x] # g
                <5> SUFFICES ASSUME next[x] = g PROVE FALSE
                    OBVIOUS
                <5>1. Nr(x) < pid[g] /\ Nr(x) \in Nat /\ Nr(last') \in Nat
                    BY <1>1, <1>4, <2>3, <3>2
                <5>2. \A t \in alive : pid[t] <= Nr(x) \/ pid[g] <= pid[t]
                    BY <1>1, <1>4, <4>1 DEF QueueOrder
                <5>3. \A t \in alive : pid[t] <= Nr(last') \/ pid[g] <= pid[t]
                    BY <1>1, <1>4, <3>1, <3>2 DEF QueueOrder
                <5>4. Nr(x) <= Nr(last') /\ Nr(last') <= Nr(x)
                    BY <1>1, <1>4, <2>2, <3>2, <5>1, <5>2, <5>3, <3>6 DEF Nr
                <5>5. x = last'
                    BY <1>1, <1>4, <3>2, <3>6, <5>1, <5>4, NrInjective
                <5> QED
                    BY <3>6, <5>5
            <4> QED
                BY <1>1, <1>2, <1>3, <1>4, <2>1, <4>1, <4>2
        <3>7. QueueOrder'
            BY <1>1, <1>2, <1>4, <2>5, <3>2, <3>4, <3>5, <3>6 DEF QueueOrder
        <3> QED
            BY <1>2, <2>5, <3>2, <3>7
    <2>8. CASE last # g
        <3>1. last' = last /\ last' \in alive' \cup {Idle}
            BY <1>1, <1>2, <1>3, <2>1, <2>8 DEF NewLast
        <3>2. next[g] \in alive' /\ pid[g] < pid[next[g]]
              /\ \A t \in alive : pid[t] <= pid[g] \/ pid[next[g]] <= pid[t]
            BY <1>1, <1>2, <2>1, <2>2, <2>4, <2>8 DEF QueueOrder
        <3>3. next'[last'] = Nil /\ \A t \in alive' : pid'[t] <= Nr(last)'
            <4>1. next[last] = Nil /\ \A t \in alive : pid[t] <= Nr(last)
                BY <1>1 DEF QueueOrder
            <4>2. last \in Slot /\ last \notin gone /\ Nil \notin gone /\ Nr(last)' = Nr(last)
                BY <1>1, <1>4, <2>1, <2>2, <3>1
            <4> QED
                BY <1>3, <1>4, <3>1, <4>1, <4>2
        <3>4. ASSUME NEW x \in alive' \cup {Idle}, x # last
              PROVE  /\ next'[x] \in alive'
                     /\ Nr(x) < pid[next'[x]]
                     /\ \A t \in alive' : pid[t] <= Nr(x) \/ pid[next'[x]] <= pid[t]
            <4>1. /\ next[x] \in alive
                  /\ Nr(x) < pid[next[x]]
                  /\ \A t \in alive : pid[t] <= Nr(x) \/ pid[next[x]] <= pid[t]
                BY <1>4, <3>4 DEF QueueOrder
            <4>2. CASE next[x] = g
                <5>1. next'[x] = next[g]
                    BY <1>1, <1>3, <1>4, <2>1, <4>2
                <5>2. Nr(x) \in Nat /\ pid[next[g]] \in Nat /\ \A t \in alive : pid[t] \in Nat
                    BY <1>1, <1>4, <3>2, <1>2
                <5>3. \A t \in alive' : t \in alive /\ pid[t] # pid[g]
                    BY <1>2, <2>1, <2>2 DEF QueueOrder
                <5>4. \A t \in alive' : pid[t] <= Nr(x) \/ pid[next[g]] <= pid[t]
                    BY <2>2, <3>2, <4>1, <4>2, <5>2, <5>3
                <5> QED
                    BY <2>2, <3>2, <4>1, <4>2, <5>1, <5>2, <5>4
            <4>3. CASE next[x] # g
                BY <1>1, <1>2, <1>3, <1>4, <2>1, <4>1, <4>3
            <4> QED
                BY <4>2, <4>3
        <3>5. QueueOrder'
            BY <1>1, <1>2, <1>4, <2>5, <3>1, <3>3, <3>4 DEF QueueOrder
        <3> QED
            BY <1>2, <2>5, <3>1, <3>5
    <2> QED
        BY <2>7, <2>8
<1> QED
    BY <1>5, <1>6

-----------------------------------------------------------------------------
\* What a handler may hand to the switch: only the current task is flagged
\* RUNNING or, if it is a living task, STOP, and freed slots have no flags.
SwitchArgs(fl, wt, dl, ax) ==
    /\ fl \in [Slot -> SUBSET Flag]
    /\ wt \in [Task -> {"none", "sleep", "pid"}]
    /\ dl \in [Task -> Nat]
    /\ ax \in [Task -> {0, -1}]
    /\ \A x \in Slot : "RUNNING" \in fl[x] => x = current
    /\ \A x \in Slot : "STOP" \in fl[x] => x = current /\ x \in alive
    /\ \A x \in Slot \ alive : fl[x] \subseteq {"RUNNING"}

\* What a switch finds on its way, and what it does with it.
LEMMA SwitchHandsOver ==
    ASSUME NEW now, NEW fl, NEW wt, NEW dl, NEW ax, Switch(now, fl, wt, dl, ax),
           NEW gone, gone = Stopped(fl), NEW woken, woken = Woken(now, fl, wt, dl, gone),
           NEW to, to = PickNext(Ready(fl, gone, woken))
    PROVE  HandOver(fl, wt, dl, ax, gone, woken, to)
BY Zenon DEF Switch

\* A switch re-establishes the invariant from such arguments.
LEMMA SwitchKeepsInv ==
    ASSUME SchedInv, NEW now, NEW fl, NEW wt, NEW dl, NEW ax,
           SwitchArgs(fl, wt, dl, ax),
           Switch(now, fl, wt, dl, ax)
    PROVE  TaskTypeOK' /\ QueueOrder' /\ CpuOwner' /\ SignalFrame'
<1> USE SchedAssumption
<1> DEFINE gone  == Stopped(fl)
           woken == Woken(now, fl, wt, dl, gone)
           ready == {t \in Listed \ gone : "BUSY" \notin fl[t] /\ ("WAIT" \in fl[t] => t \in woken)}
           to    == PickNext(ready)
           kept(x) == {f \in fl[x] : /\ f = "RUNNING" => x # current
                                     /\ f = "WAIT" => x \notin woken}
           switched == [x \in Slot |-> IF x = to THEN kept(x) \cup {"RUNNING"} ELSE kept(x)]
<1>1. /\ TypeOK /\ TaskTypeOK /\ QueueOrder /\ CpuOwner /\ SignalFrame
      /\ alive \subseteq Task /\ Idle \notin Task
      /\ Listed = alive
    BY ListedIsAlive DEF SchedInv, TypeOK, TaskTypeOK
<1>2. /\ gone \in SUBSET alive
      /\ \A t, u \in gone : t = u
      /\ \A x \in alive : x \notin gone => "STOP" \notin fl[x]
    BY <1>1 DEF Stopped, SwitchArgs, Slot
<1>3. /\ current' = to
      /\ flag' = Wipe(switched, gone, {})
      /\ waitType' = Wipe(wt, gone \cup woken, "none")
      /\ deadline' = Wipe(dl, gone \cup woken, 0)
      /\ eax' = Wipe(ax, gone, 0)
      /\ Reap(gone)
    <2>1. HandOver(fl, wt, dl, ax, gone, woken, to)
        <3>1. ready = Ready(fl, gone, woken)
            BY Zenon DEF Ready
        <3> HIDE DEF gone, woken, ready
        <3>2. gone = Stopped(fl) /\ woken = Woken(now, fl, wt, dl, gone)
            BY DEF gone, woken
        <3> QED
            BY <3>1, <3>2, SwitchHandsOver, Zenon
    <2> QED
        BY <2>1, Zenon DEF HandOver
<1>4. ready \in SUBSET Task /\ \A t \in ready : t \in alive /\ t \notin gone
    BY <1>1
<1>5. to = Idle \/ to \in ready \cap alive
    BY <1>1, <1>4, PickNextReady DEF CpuOwner
<1> HIDE DEF to, woken, ready
<1>6. /\ QueueOrder'
      /\ alive' = alive \ gone
      /\ lastPid' = lastPid
      /\ last' \in alive' \cup {Idle}
      /\ next' \in [Slot -> Task \cup {Nil}]
      /\ pid' \in [Task -> 0..MaxPid]
      /\ pending' \in [Task -> Signal \cup {SIGSEGV, NoSignal}]
      /\ sigctx' \in [Task -> BOOLEAN]
      /\ sigeip' \in [Task -> {"none", "handler", "stale"}]
      /\ esp0' \in [Task -> {"main", "sig"}]
      /\ inHandler' \in [Task -> BOOLEAN]
    BY <1>1, <1>2, <1>3, ReapKeepsOrder
<1>7. to \in Slot /\ to \notin gone /\ (to # Idle => to \in alive')
    BY <1>1, <1>2, <1>4, <1>5, <1>6 DEF Slot
<1>8. switched \in [Slot -> SUBSET Flag]
    BY DEF SwitchArgs, Flag
<1>9. flag' \in [Slot -> SUBSET Flag]
    BY <1>3, <1>8, WipeType
<1>10. /\ waitType' \in [Task -> {"none", "sleep", "pid"}]
       /\ deadline' \in [Task -> Nat]
       /\ eax' \in [Task -> {0, -1}]
    BY <1>3, WipeType DEF SwitchArgs
<1>11. TaskTypeOK'
    BY <1>1, <1>2, <1>3, <1>6, <1>7, <1>9, <1>10 DEF TaskTypeOK
<1>12. \A x \in Slot : flag'[x] = IF x \in gone THEN {} ELSE switched[x]
    BY <1>3, <1>8 DEF Wipe
<1>13. CpuOwner'
    <2>1. current' \in alive' \cup {Idle}
        BY <1>3, <1>7
    <2>2. flag'[to] \subseteq {"RUNNING"}
        <3>1. flag'[to] = kept(to) \cup {"RUNNING"}
            BY <1>7, <1>12
        <3>2. CASE to = Idle
            BY <1>1, <3>1, <3>2 DEF SwitchArgs, Slot
        <3>3. CASE to \in ready \cap alive
            <4>1. "BUSY" \notin fl[to] /\ ("WAIT" \in fl[to] => to \in woken)
                BY <3>3 DEF ready
            <4>2. "STOP" \notin fl[to] /\ fl[to] \subseteq Flag
                BY <1>2, <1>7, <3>3 DEF SwitchArgs
            <4> QED
                BY <3>1, <4>1, <4>2 DEF Flag
        <3> QED
            BY <1>5, <3>2, <3>3
    <2>3. ASSUME NEW x \in Slot
          PROVE  "STOP" \notin flag'[x] /\ ("RUNNING" \in flag'[x] => x = to)
        <3>1. x \notin gone => "STOP" \notin fl[x]
            BY <1>2 DEF SwitchArgs
        <3>2. "RUNNING" \in kept(x) => FALSE
            BY DEF SwitchArgs
        <3>3. "STOP" \in kept(x) => "STOP" \in fl[x]
            OBVIOUS
        <3>4. CASE x \in gone
            BY <1>12, <3>4
        <3>5. CASE x \notin gone
            <4>1. flag'[x] = IF x = to THEN kept(x) \cup {"RUNNING"} ELSE kept(x)
                BY <1>12, <3>5
            <4> QED
                BY <3>1, <3>2, <3>3, <3>5, <4>1
        <3> QED
            BY <3>4, <3>5
    <2>4. ASSUME NEW x \in Slot \ alive'
          PROVE  flag'[x] \subseteq {"RUNNING"}
        <3>1. x \in gone \/ fl[x] \subseteq {"RUNNING"}
            BY <1>6 DEF SwitchArgs
        <3> QED
            BY <1>12, <3>1
    <2> QED
        BY <1>3, <2>1, <2>2, <2>3, <2>4 DEF CpuOwner
<1>14. SignalFrame'
    <2>1. \A t \in alive' : t \in alive /\ t \notin gone /\ t \in Task
        BY <1>1, <1>6
    <2>2. \A t \in alive' : /\ sigctx'[t] = sigctx[t] /\ sigeip'[t] = sigeip[t]
                            /\ esp0'[t] = esp0[t] /\ pending'[t] = pending[t]
        BY <1>1, <1>3, <2>1 DEF Reap, Wipe, TaskTypeOK
    <2> QED
        BY <1>1, <2>1, <2>2 DEF SignalFrame
<1> QED
    BY <1>6, <1>11, <1>13, <1>14

-----------------------------------------------------------------------------
\* The list depends on its own variables only.
LEMMA SameListOrdered ==
    ASSUME QueueOrder, UNCHANGED listVars
    PROVE  QueueOrder'
BY DEF QueueOrder, listVars, Nr

\* task_enable of a free slot keeps the list in order: the new pid is the
\* highest and the new task is behind the last one.
LEMMA EnableKeepsOrder ==
    ASSUME TypeOK, QueueOrder, NEW c \in Task \ alive, lastPid < MaxPid, Enable(c)
    PROVE  /\ QueueOrder'
           /\ alive' \subseteq Task
           /\ alive' = alive \cup {c}
           /\ next' \in [Slot -> Task \cup {Nil}]
           /\ last' \in alive' \cup {Idle}
           /\ lastPid' \in Pid
           /\ pid' \in [Task -> 0..MaxPid]
<1> USE SchedAssumption
<1>1. /\ alive \subseteq Task /\ last \in alive \cup {Idle} /\ lastPid \in Pid
      /\ next \in [Slot -> Task \cup {Nil}] /\ pid \in [Task -> 0..MaxPid]
      /\ c # Idle /\ c # last /\ Idle \notin alive /\ c \in Slot /\ Idle \in Slot
      /\ alive \subseteq Slot
    BY DEF TypeOK, TaskTypeOK, Slot
<1>2. /\ alive' = alive \cup {c} /\ lastPid' = lastPid + 1 /\ last' = c
      /\ pid' = [pid EXCEPT ![c] = lastPid + 1]
      /\ next' = [next EXCEPT ![c] = Nil, ![last] = c]
    BY DEF Enable
<1>3. lastPid \in Nat /\ lastPid + 1 \in 1..MaxPid
    BY <1>1 DEF Pid
<1>4. /\ pid' \in [Task -> 0..MaxPid] /\ lastPid' \in Pid
      /\ next' \in [Slot -> Task \cup {Nil}]
      /\ alive' \subseteq Task /\ last' \in alive' \cup {Idle}
    BY <1>1, <1>2, <1>3 DEF Pid
<1>5. /\ next'[c] = Nil /\ next'[last] = c /\ pid'[c] = lastPid + 1
      /\ \A x \in alive \cup {Idle} : x # last => next'[x] = next[x]
      /\ \A t \in alive : pid'[t] = pid[t]
    BY <1>1, <1>2
<1>6. \A t \in alive : pid[t] \in 1..lastPid
    BY DEF QueueOrder
<1>7. /\ \A x \in alive \cup {Idle} : Nr(x)' = Nr(x) /\ Nr(x) \in 0..lastPid
      /\ Nr(c)' = lastPid + 1
    BY <1>1, <1>2, <1>3, <1>5, <1>6 DEF Nr
<1>8. ASSUME NEW x \in alive' \cup {Idle}
      PROVE  IF x = last'
             THEN next'[x] = Nil /\ \A t \in alive' : pid'[t] <= Nr(x)'
             ELSE /\ next'[x] \in alive'
                  /\ Nr(x)' < pid'[next'[x]]
                  /\ \A t \in alive' : pid'[t] <= Nr(x)' \/ pid'[next'[x]] <= pid'[t]
    <2>1. CASE x = c
        BY <1>2, <1>3, <1>5, <1>6, <1>7, <2>1
    <2>2. CASE x = last
        <3>1. \A t \in alive : pid[t] <= Nr(last)
            BY <1>1 DEF QueueOrder
        <3> QED
            BY <1>1, <1>2, <1>3, <1>5, <1>6, <1>7, <2>2, <3>1
    <2>3. CASE x # c /\ x # last
        <3>1. x \in alive \cup {Idle}
            BY <1>2, <2>3
        <3>2. /\ next[x] \in alive
              /\ Nr(x) < pid[next[x]]
              /\ \A t \in alive : pid[t] <= Nr(x) \/ pid[next[x]] <= pid[t]
            BY <2>3, <3>1 DEF QueueOrder
        <3>3. next'[x] = next[x] /\ Nr(x)' = Nr(x) /\ pid'[next'[x]] = pid[next[x]]
              /\ Nr(x) \in Nat /\ pid[next[x]] \in 1..lastPid /\ x # last'
            <4>1. next'[x] = next[x] /\ x # last'
                BY <1>2, <1>5, <2>3, <3>1
            <4>3. Nr(x)' = Nr(x)
                BY <1>5, <3>1 DEF Nr
            <4>4. Nr(x) \in Nat
                BY <1>3, <1>7, <3>1
            <4>2. pid'[next[x]] = pid[next[x]] /\ pid[next[x]] \in 1..lastPid
                BY <1>5, <1>6, <3>2
            <4> QED
                BY <4>1, <4>2, <4>3, <4>4
        <3>4. ASSUME NEW t \in alive'
              PROVE  pid'[t] <= Nr(x) \/ pid[next[x]] <= pid'[t]
            <4>1. CASE t = c
                BY <1>3, <1>5, <3>3, <4>1
            <4>2. CASE t \in alive
                BY <1>5, <3>2, <4>2
            <4> QED
                BY <1>2, <4>1, <4>2
        <3>5. next'[x] \in alive' /\ Nr(x)' < pid'[next'[x]]
            BY <1>2, <3>2, <3>3
        <3> QED
            BY <3>3, <3>4, <3>5
    <2> QED
        BY <2>1, <2>2, <2>3
<1>9. /\ \A t \in alive' : pid'[t] \in 1..lastPid'
      /\ \A t, u \in alive' : pid'[t] = pid'[u] => t = u
    <2>1. \A t, u \in alive : pid[t] = pid[u] => t = u
        BY DEF QueueOrder
    <2>2. \A t \in alive : pid'[t] = pid[t] /\ pid[t] \in 1..lastPid /\ pid[t] # lastPid + 1
        BY <1>3, <1>5, <1>6
    <2>3. \A t \in alive' : pid'[t] \in 1..lastPid'
        BY <1>2, <1>3, <1>5, <2>2
    <2>4. \A t, u \in alive' : pid'[t] = pid'[u] => t = u
        BY <1>2, <1>5, <2>1, <2>2
    <2> QED
        BY <2>3, <2>4
<1>10. \A x \in Task \ alive' : next'[x] = Nil
    <2>1. \A x \in Task \ alive' : x \in Task \ alive /\ x # c /\ x # last /\ x \in Slot
        BY <1>1, <1>2 DEF Slot
    <2>2. \A x \in Task \ alive' : next'[x] = next[x]
        BY <1>1, <1>2, <2>1
    <2>3. \A x \in Task \ alive : next[x] = Nil
        BY DEF QueueOrder
    <2> QED
        BY <2>1, <2>2, <2>3
<1>11. QueueOrder'
    BY <1>8, <1>9, <1>10 DEF QueueOrder
<1> QED
    BY <1>2, <1>4, <1>11

\* The initial state satisfies the invariant.
LEMMA InitInv == Init => SchedInv
<1> SUFFICES ASSUME Init PROVE SchedInv
    OBVIOUS
<1> USE SchedAssumption
<1>1. PICK t \in Task :
        /\ alive = {t}
        /\ next = [x \in Slot |-> IF x = Idle THEN t ELSE Nil]
        /\ last = t
        /\ lastPid = 1
        /\ pid = [x \in Task |-> IF x = t THEN 1 ELSE 0]
        /\ current = Idle
        /\ flag = [x \in Slot |-> {}]
        /\ waitType = [x \in Task |-> "none"]
        /\ deadline = [x \in Task |-> 0]
        /\ eax = [x \in Task |-> 0]
        /\ pending = [x \in Task |-> NoSignal]
        /\ sigctx = [x \in Task |-> x = t]
        /\ sigeip = [x \in Task |-> "none"]
        /\ esp0 = [x \in Task |-> "main"]
        /\ inHandler = [x \in Task |-> FALSE]
        /\ systime = 0
        /\ entry = TRUE
        /\ halted = FALSE
    BY DEF Init
<1>2. TaskTypeOK
    <2>1. sigctx \in [Task -> BOOLEAN] /\ inHandler \in [Task -> BOOLEAN]
        BY <1>1
    <2>2. /\ next \in [Slot -> Task \cup {Nil}] /\ pid \in [Task -> 0..MaxPid]
          /\ flag \in [Slot -> SUBSET Flag] /\ current \in Slot /\ lastPid \in Pid
          /\ alive \subseteq Task /\ last \in alive \cup {Idle}
        BY <1>1 DEF Slot, Pid
    <2>3. /\ waitType \in [Task -> {"none", "sleep", "pid"}]
          /\ deadline \in [Task -> Nat]
          /\ eax \in [Task -> {0, -1}]
          /\ pending \in [Task -> Signal \cup {SIGSEGV, NoSignal}]
          /\ sigeip \in [Task -> {"none", "handler", "stale"}]
          /\ esp0 \in [Task -> {"main", "sig"}]
        BY <1>1
    <2> QED
        BY <2>1, <2>2, <2>3, Zenon DEF TaskTypeOK
<1>3. SysTypeOK
    <2>1. entry \in BOOLEAN /\ halted \in BOOLEAN
        BY <1>1
    <2>2. systime \in 0..MaxTime
        BY <1>1
    <2> QED
        BY <2>1, <2>2, Zenon DEF SysTypeOK
<1>4. QueueOrder
    BY <1>1 DEF QueueOrder, Nr, Slot
<1>5. CpuOwner
    BY <1>1 DEF CpuOwner, Slot
<1>6. SignalFrame
    BY <1>1 DEF SignalFrame
<1> QED
    BY <1>2, <1>3, <1>4, <1>5, <1>6 DEF SchedInv, TypeOK

-----------------------------------------------------------------------------
(***************************************************************************)
(* Each action keeps the invariant.                                        *)
(***************************************************************************)

\* The clock stays within its bound.
LEMMA AdvancedType ==
    ASSUME TypeOK, NEW d \in Tick
    PROVE  Advanced(d) \in 0..MaxTime
BY SchedAssumption DEF TypeOK, SysTypeOK, Advanced

\* What the current flags are, a handler may hand to the switch, with more
\* flags for the running task.
LEMMA RunningArgs ==
    ASSUME SchedInv, NEW t \in Task, UserRuns(t), NEW F \in SUBSET Flag,
           NEW wt \in [Task -> {"none", "sleep", "pid"}], NEW dl \in [Task -> Nat],
           NEW ax \in [Task -> {0, -1}]
    PROVE  SwitchArgs([flag EXCEPT ![t] = F], wt, dl, ax)
<1>1. t = current /\ t \in alive /\ t \in Slot /\ flag \in [Slot -> SUBSET Flag]
    BY SchedAssumption DEF SchedInv, TypeOK, TaskTypeOK, CpuOwner, UserRuns, Slot
<1>2. [flag EXCEPT ![t] = F] \in [Slot -> SUBSET Flag]
    BY <1>1
<1>3. /\ \A x \in Slot : x # t => [flag EXCEPT ![t] = F][x] = flag[x]
      /\ \A x \in Slot : "STOP" \notin flag[x] /\ ("RUNNING" \in flag[x] => x = current)
      /\ \A x \in Slot \ alive : flag[x] \subseteq {"RUNNING"}
    BY <1>1 DEF SchedInv, CpuOwner
<1> QED
    BY <1>1, <1>2, <1>3 DEF SwitchArgs

\* A handler that leaves the list and the processor alone, adds no flags and
\* keeps the signal fields in order keeps CpuOwner.
LEMMA FewerFlags ==
    ASSUME SchedInv, UNCHANGED <<listVars, current>>,
           flag' \in [Slot -> SUBSET Flag], \A x \in Slot : flag'[x] \subseteq flag[x]
    PROVE  CpuOwner'
BY DEF SchedInv, TypeOK, TaskTypeOK, CpuOwner, listVars

\* Panic, and the first timer interrupt, leave the tasks as they are.
LEMMA SameTasks ==
    ASSUME SchedInv, UNCHANGED <<listVars, current, flag, waitVars, sigVars>>
    PROVE  TaskTypeOK' /\ QueueOrder' /\ CpuOwner' /\ SignalFrame'
BY SameListOrdered
   DEF SchedInv, TypeOK, TaskTypeOK, CpuOwner, SignalFrame, listVars, waitVars, sigVars

LEMMA PanicInv ==
    ASSUME SchedInv, Panic
    PROVE  SchedInv'
<1>1. TaskTypeOK' /\ QueueOrder' /\ CpuOwner' /\ SignalFrame'
    BY SameTasks DEF Panic
<1>2. SysTypeOK'
    BY DEF SchedInv, TypeOK, SysTypeOK, Panic
<1> QED
    BY <1>1, <1>2 DEF SchedInv, TypeOK

LEMMA SameSysType ==
    ASSUME SchedInv, UNCHANGED sysVars
    PROVE  SysTypeOK'
BY DEF SchedInv, TypeOK, SysTypeOK, sysVars

LEMMA FirstTimerIrqInv ==
    ASSUME SchedInv, NEW d \in Tick, FirstTimerIrq(d)
    PROVE  SchedInv'
<1>1. TaskTypeOK' /\ QueueOrder' /\ CpuOwner' /\ SignalFrame'
    BY SameTasks DEF FirstTimerIrq
<1>2. systime' \in 0..MaxTime
    BY AdvancedType DEF FirstTimerIrq, SchedInv
<1>3. entry' \in BOOLEAN /\ halted' \in BOOLEAN
    BY DEF FirstTimerIrq, SchedInv, TypeOK, SysTypeOK
<1> QED
    BY <1>1, <1>2, <1>3 DEF SchedInv, TypeOK, SysTypeOK

LEMMA TimerIrqInv ==
    ASSUME SchedInv, NEW d \in Tick, TimerIrq(d)
    PROVE  SchedInv'
<1>1. SwitchArgs(flag, waitType, deadline, eax)
    BY DEF SchedInv, TypeOK, TaskTypeOK, CpuOwner, SwitchArgs
<1>2. TaskTypeOK' /\ QueueOrder' /\ CpuOwner' /\ SignalFrame'
    BY <1>1, SwitchKeepsInv DEF TimerIrq
<1>3. systime' \in 0..MaxTime
    BY AdvancedType DEF TimerIrq, SchedInv
<1>4. entry' \in BOOLEAN /\ halted' \in BOOLEAN
    BY DEF TimerIrq, SchedInv, TypeOK, SysTypeOK
<1> QED
    BY <1>2, <1>3, <1>4 DEF SchedInv, TypeOK, SysTypeOK

LEMMA StopCurrentInv ==
    ASSUME SchedInv, NEW t \in Task, UserRuns(t), StopCurrent(t)
    PROVE  SchedInv'
<1>1. CASE Panic
    BY <1>1, PanicInv
<1>2. CASE ~Panic
    <2>1. /\ Switch(systime, [flag EXCEPT ![t] = @ \cup {"STOP"}], waitType, deadline, eax)
          /\ UNCHANGED sysVars
        BY <1>2 DEF StopCurrent
    <2>2. flag[t] \cup {"STOP"} \in SUBSET Flag
        BY DEF SchedInv, TypeOK, TaskTypeOK, Slot, Flag
    <2>3. SwitchArgs([flag EXCEPT ![t] = @ \cup {"STOP"}], waitType, deadline, eax)
        BY <2>2, RunningArgs DEF SchedInv, TypeOK, TaskTypeOK
    <2>4. TaskTypeOK' /\ QueueOrder' /\ CpuOwner' /\ SignalFrame'
        BY <2>1, <2>3, SwitchKeepsInv
    <2> QED
        BY <2>1, <2>4, SameSysType DEF SchedInv, TypeOK
<1> QED
    BY <1>1, <1>2

LEMMA BlockedType ==
    ASSUME SchedInv, NEW t \in Task
    PROVE  Blocked(t) \in [Task -> {0, -1}]
BY DEF SchedInv, TypeOK, TaskTypeOK, Blocked

LEMMA NanosleepInv ==
    ASSUME SchedInv, NEW t \in Task, NEW d \in 1..MaxTime, Nanosleep(t, d)
    PROVE  SchedInv'
<1> DEFINE fl == [flag EXCEPT ![t] = @ \cup {"WAIT"}]
           wt == [waitType EXCEPT ![t] = "sleep"]
           dl == [deadline EXCEPT ![t] = systime + d]
<1>1. UserRuns(t) /\ Switch(systime, fl, wt, dl, Blocked(t)) /\ UNCHANGED sysVars
    BY DEF Nanosleep
<1>2. flag[t] \cup {"WAIT"} \in SUBSET Flag
    BY DEF SchedInv, TypeOK, TaskTypeOK, Slot, Flag
<1>3. systime + d \in Nat
    BY SchedAssumption DEF SchedInv, TypeOK, SysTypeOK
<1>4. wt \in [Task -> {"none", "sleep", "pid"}] /\ dl \in [Task -> Nat]
    BY <1>3 DEF SchedInv, TypeOK, TaskTypeOK
<1>5. SwitchArgs(fl, wt, dl, Blocked(t))
    BY <1>1, <1>2, <1>4, BlockedType, RunningArgs
<1>6. TaskTypeOK' /\ QueueOrder' /\ CpuOwner' /\ SignalFrame'
    BY <1>1, <1>5, SwitchKeepsInv
<1> QED
    BY <1>1, <1>6, SameSysType DEF SchedInv, TypeOK

LEMMA WaitpidInv ==
    ASSUME SchedInv, NEW t \in Task, NEW p \in 0..MaxPid, Waitpid(t, p)
    PROVE  SchedInv'
<1> DEFINE fl == [flag EXCEPT ![t] = {"WAIT"}]
           wt == [waitType EXCEPT ![t] = "pid"]
           dl == [deadline EXCEPT ![t] = p]
<1>1. UserRuns(t) /\ Switch(systime, fl, wt, dl, Blocked(t)) /\ UNCHANGED sysVars
    BY DEF Waitpid
<1>2. wt \in [Task -> {"none", "sleep", "pid"}] /\ dl \in [Task -> Nat] /\ {"WAIT"} \in SUBSET Flag
    BY SchedAssumption DEF SchedInv, TypeOK, TaskTypeOK, Flag
<1>3. SwitchArgs(fl, wt, dl, Blocked(t))
    BY <1>1, <1>2, BlockedType, RunningArgs
<1>4. TaskTypeOK' /\ QueueOrder' /\ CpuOwner' /\ SignalFrame'
    BY <1>1, <1>3, SwitchKeepsInv
<1> QED
    BY <1>1, <1>4, SameSysType DEF SchedInv, TypeOK

LEMMA ReadBlockInv ==
    ASSUME SchedInv, NEW t \in Task, ReadBlock(t)
    PROVE  SchedInv'
<1> DEFINE fl == [flag EXCEPT ![t] = @ \cup {"BUSY"}]
<1>1. UserRuns(t) /\ Switch(systime, fl, waitType, deadline, Blocked(t)) /\ UNCHANGED sysVars
    BY DEF ReadBlock
<1>2. flag[t] \cup {"BUSY"} \in SUBSET Flag
    BY DEF SchedInv, TypeOK, TaskTypeOK, Slot, Flag
<1>3. SwitchArgs(fl, waitType, deadline, Blocked(t))
    BY <1>1, <1>2, BlockedType, RunningArgs DEF SchedInv, TypeOK, TaskTypeOK
<1>4. TaskTypeOK' /\ QueueOrder' /\ CpuOwner' /\ SignalFrame'
    BY <1>1, <1>3, SwitchKeepsInv
<1> QED
    BY <1>1, <1>4, SameSysType DEF SchedInv, TypeOK

LEMMA ReadDoneInv ==
    ASSUME SchedInv, NEW t \in Task, ReadDone(t)
    PROVE  SchedInv'
<1>1. flag' \in [Slot -> SUBSET Flag] /\ \A x \in Slot : flag'[x] \subseteq flag[x]
    BY DEF SchedInv, TypeOK, TaskTypeOK, ReadDone
<1>2. TaskTypeOK'
    BY <1>1 DEF SchedInv, TypeOK, TaskTypeOK, ReadDone, listVars, waitVars, sigVars
<1>3. CpuOwner' /\ QueueOrder'
    BY <1>1, FewerFlags, SameListOrdered DEF ReadDone, SchedInv
<1>4. SignalFrame'
    BY DEF SchedInv, SignalFrame, ReadDone, listVars, sigVars
<1>5. UNCHANGED sysVars
    BY DEF ReadDone
<1> QED
    BY <1>2, <1>3, <1>4, <1>5, SameSysType DEF SchedInv, TypeOK

\* A new task joins the living ones with no flags, while the owner of the
\* processor keeps it.
LEMMA NewTaskInv ==
    ASSUME SchedInv, NEW c \in Task \ alive, lastPid < MaxPid, NEW h \in BOOLEAN, NewTask(c, h),
           sigctx' \in [Task -> BOOLEAN], sigeip' \in [Task -> {"none", "handler", "stale"}],
           \A x \in Task : x # c => sigctx'[x] = sigctx[x] /\ sigeip'[x] = sigeip[x],
           sigctx'[c] => sigeip'[c] # "stale"
    PROVE  SchedInv'
<1> USE SchedAssumption
<1>1. TypeOK /\ QueueOrder /\ Enable(c) /\ c \in Slot /\ c \notin alive /\ c # Idle
    BY DEF SchedInv, NewTask, Slot
<1>2. /\ QueueOrder'
      /\ alive' \subseteq Task
      /\ alive' = alive \cup {c}
      /\ next' \in [Slot -> Task \cup {Nil}]
      /\ last' \in alive' \cup {Idle}
      /\ lastPid' \in Pid
      /\ pid' \in [Task -> 0..MaxPid]
    BY <1>1, EnableKeepsOrder
<1>3. /\ flag' = [flag EXCEPT ![c] = {}] /\ flag' \in [Slot -> SUBSET Flag]
      /\ flag'[c] = {} /\ \A x \in Slot : x # c => flag'[x] = flag[x]
    BY <1>1 DEF TypeOK, TaskTypeOK, NewTask
<1>4. /\ waitType' \in [Task -> {"none", "sleep", "pid"}]
      /\ deadline' \in [Task -> Nat]
      /\ eax' \in [Task -> {0, -1}]
    BY <1>1 DEF TypeOK, TaskTypeOK, NewTask
<1>5. /\ pending' \in [Task -> Signal \cup {SIGSEGV, NoSignal}]
      /\ esp0' \in [Task -> {"main", "sig"}]
      /\ esp0'[c] = "main"
      /\ \A x \in Task : x # c => pending'[x] = pending[x] /\ esp0'[x] = esp0[x]
    BY <1>1 DEF TypeOK, TaskTypeOK, NewTask
<1>6. inHandler' \in [Task -> BOOLEAN]
    <2>1. inHandler \in [Task -> BOOLEAN]
        BY <1>1 DEF TypeOK, TaskTypeOK
    <2>2. inHandler' = [inHandler EXCEPT ![c] = h]
        BY DEF NewTask
    <2> QED
        BY <2>1, <2>2
<1>7. current' = current /\ current \in Slot /\ UNCHANGED sysVars
    BY <1>1 DEF TypeOK, TaskTypeOK, NewTask
<1>8. TaskTypeOK'
    BY <1>2, <1>3, <1>4, <1>5, <1>6, <1>7, Zenon DEF TaskTypeOK
<1>9. CpuOwner'
    <2>1. current \in alive \cup {Idle} /\ current # c
        BY <1>1 DEF SchedInv, CpuOwner
    <2>2. \A x \in Slot : "STOP" \notin flag'[x] /\ ("RUNNING" \in flag'[x] => x = current)
        BY <1>3 DEF SchedInv, CpuOwner
    <2>3. \A x \in Slot \ alive' : flag'[x] \subseteq {"RUNNING"}
        BY <1>2, <1>3 DEF SchedInv, CpuOwner
    <2>4. flag'[current'] \subseteq {"RUNNING"}
        BY <1>3, <1>7, <2>1 DEF SchedInv, CpuOwner
    <2> QED
        BY <1>2, <1>7, <2>1, <2>2, <2>3, <2>4 DEF CpuOwner
<1>10. SignalFrame'
    <2>1. \A t \in alive' : t \in Task /\ (t = c \/ (t \in alive /\ t # c))
        BY <1>1, <1>2
    <2>2. \A t \in alive : t # c => /\ sigctx'[t] = sigctx[t] /\ sigeip'[t] = sigeip[t]
                                    /\ pending'[t] = pending[t] /\ esp0'[t] = esp0[t]
        BY <1>1, <1>2, <1>5
    <2>3. \A t \in alive : /\ sigctx[t] => sigeip[t] # "stale"
                           /\ esp0[t] = "sig" => sigctx[t] /\ sigeip[t] = "handler"
        BY DEF SchedInv, SignalFrame
    <2>4. \A t \in alive : t # c =>
            /\ sigctx'[t] => sigeip'[t] # "stale"
            /\ esp0'[t] = "sig" => sigctx'[t] /\ sigeip'[t] = "handler"
        BY <2>2, <2>3
    <2>5. (sigctx'[c] => sigeip'[c] # "stale") /\ esp0'[c] # "sig"
        BY <1>5
    <2> QED
        BY <2>1, <2>4, <2>5 DEF SignalFrame
<1> QED
    BY <1>2, <1>7, <1>8, <1>9, <1>10, SameSysType DEF SchedInv, TypeOK

LEMMA ForkInv ==
    ASSUME SchedInv, NEW t \in Task, NEW c \in Task, Fork(t, c)
    PROVE  SchedInv'
<1>1. c \in Task \ alive /\ lastPid < MaxPid /\ NewTask(c, InHandler(t))
    BY DEF Fork
<1>2. InHandler(t) \in BOOLEAN
    BY DEF SchedInv, TypeOK, TaskTypeOK, InHandler
<1>3. sigctx' = [sigctx EXCEPT ![c] = FALSE] /\ sigctx \in [Task -> BOOLEAN]
    BY DEF Fork, SchedInv, TypeOK, TaskTypeOK
<1>4. sigctx' \in [Task -> BOOLEAN] /\ ~sigctx'[c] /\ \A x \in Task : x # c => sigctx'[x] = sigctx[x]
    BY <1>3
<1>5. PICK eip \in Leftover : sigeip' = [sigeip EXCEPT ![c] = eip]
    BY DEF Fork
<1>6. /\ sigeip' \in [Task -> {"none", "handler", "stale"}]
      /\ \A x \in Task : x # c => sigeip'[x] = sigeip[x]
    BY <1>5, SchedAssumption DEF SchedInv, TypeOK, TaskTypeOK
<1> QED
    BY <1>1, <1>2, <1>4, <1>6, NewTaskInv

LEMMA SetContextType ==
    ASSUME SchedInv, NEW c \in Task, SetContext(c)
    PROVE  /\ sigctx' \in [Task -> BOOLEAN]
           /\ sigeip' \in [Task -> {"none", "handler", "stale"}]
           /\ \A x \in Task : x # c => sigctx'[x] = sigctx[x] /\ sigeip'[x] = sigeip[x]
           /\ sigctx'[c] /\ sigeip'[c] = "none"
<1>1. sigctx' = [sigctx EXCEPT ![c] = TRUE] /\ sigctx \in [Task -> BOOLEAN]
    BY DEF SetContext, SchedInv, TypeOK, TaskTypeOK
<1>2. /\ sigeip' = [sigeip EXCEPT ![c] = "none"]
      /\ sigeip \in [Task -> {"none", "handler", "stale"}]
    BY DEF SetContext, SchedInv, TypeOK, TaskTypeOK
<1>3. sigctx' \in [Task -> BOOLEAN] /\ sigctx'[c] /\ \A x \in Task : x # c => sigctx'[x] = sigctx[x]
    BY <1>1
<1>4. /\ sigeip' \in [Task -> {"none", "handler", "stale"}] /\ sigeip'[c] = "none"
      /\ \A x \in Task : x # c => sigeip'[x] = sigeip[x]
    BY <1>2
<1> QED
    BY <1>3, <1>4

LEMMA FexecveInv ==
    ASSUME SchedInv, NEW t \in Task, NEW c \in Task, Fexecve(t, c)
    PROVE  SchedInv'
<1>1. c \in Task \ alive /\ lastPid < MaxPid /\ NewTask(c, FALSE) /\ SetContext(c)
    BY DEF Fexecve
<1>2. /\ sigctx' \in [Task -> BOOLEAN]
      /\ sigeip' \in [Task -> {"none", "handler", "stale"}]
      /\ \A x \in Task : x # c => sigctx'[x] = sigctx[x] /\ sigeip'[x] = sigeip[x]
      /\ sigctx'[c] /\ sigeip'[c] = "none"
    BY <1>1, SetContextType
<1>3. sigeip'[c] # "stale"
    BY <1>2
<1> QED
    BY <1>1, <1>2, <1>3, NewTaskInv

LEMMA ExecveInv ==
    ASSUME SchedInv, NEW t \in Task, Execve(t)
    PROVE  SchedInv'
<1>1. /\ UserRuns(t) /\ esp0[t] = "main" /\ SetContext(t)
      /\ eax' = [eax EXCEPT ![t] = 0] /\ inHandler' = [inHandler EXCEPT ![t] = FALSE]
      /\ UNCHANGED <<listVars, current, flag, waitType, deadline, pending, esp0, sysVars>>
    BY DEF Execve
<1>2. /\ sigctx' \in [Task -> BOOLEAN]
      /\ sigeip' \in [Task -> {"none", "handler", "stale"}]
      /\ \A x \in Task : x # t => sigctx'[x] = sigctx[x] /\ sigeip'[x] = sigeip[x]
      /\ sigctx'[t] /\ sigeip'[t] = "none"
    BY <1>1, SetContextType
<1>3. inHandler' \in [Task -> BOOLEAN]
    BY <1>1 DEF SchedInv, TypeOK, TaskTypeOK
<1>4. eax' \in [Task -> {0, -1}]
    BY <1>1 DEF SchedInv, TypeOK, TaskTypeOK
<1>5. TaskTypeOK'
    <2>1. /\ alive \subseteq Task /\ next \in [Slot -> Task \cup {Nil}] /\ last \in alive \cup {Idle}
          /\ lastPid \in Pid /\ pid \in [Task -> 0..MaxPid]
        BY DEF SchedInv, TypeOK, TaskTypeOK
    <2>2. /\ current \in Slot /\ flag \in [Slot -> SUBSET Flag]
          /\ waitType \in [Task -> {"none", "sleep", "pid"}] /\ deadline \in [Task -> Nat]
          /\ pending \in [Task -> Signal \cup {SIGSEGV, NoSignal}] /\ esp0 \in [Task -> {"main", "sig"}]
        BY DEF SchedInv, TypeOK, TaskTypeOK
    <2>3. /\ UNCHANGED <<alive, next, last, lastPid, pid>>
          /\ UNCHANGED <<current, flag, waitType, deadline, pending, esp0>>
        BY <1>1 DEF listVars
    <2> QED
        BY <1>2, <1>3, <1>4, <2>1, <2>2, <2>3, Zenon DEF TaskTypeOK, Slot, Pid
<1>6. CpuOwner' /\ QueueOrder'
    BY <1>1, SameListOrdered DEF SchedInv, CpuOwner, listVars
<1>7. SignalFrame'
    <2>1. alive' = alive /\ alive \subseteq Task
        BY <1>1 DEF SchedInv, TypeOK, TaskTypeOK, listVars
    <2>2. esp0' = esp0 /\ pending' = pending
        BY <1>1
    <2> QED
        BY <1>1, <1>2, <2>1, <2>2 DEF SchedInv, SignalFrame
<1> QED
    BY <1>1, <1>5, <1>6, <1>7, SameSysType DEF SchedInv, TypeOK

LEMMA SetSignalInv ==
    ASSUME SchedInv, NEW t \in Task, SetSignal(t)
    PROVE  SchedInv'
<1>1. /\ sigeip' = [sigeip EXCEPT ![t] = "handler"]
      /\ UNCHANGED <<listVars, current, flag, waitVars, pending, sigctx, esp0, inHandler, sysVars>>
    BY DEF SetSignal
<1>2. /\ sigeip' \in [Task -> {"none", "handler", "stale"}] /\ sigeip'[t] = "handler"
      /\ \A x \in Task : x # t => sigeip'[x] = sigeip[x]
    BY <1>1 DEF SchedInv, TypeOK, TaskTypeOK
<1>3. TaskTypeOK'
    BY <1>1, <1>2, Zenon DEF SchedInv, TypeOK, TaskTypeOK, Slot, Pid, listVars, waitVars
<1>4. CpuOwner' /\ QueueOrder'
    BY <1>1, SameListOrdered DEF SchedInv, CpuOwner, listVars
<1>5. SignalFrame'
    BY <1>1, <1>2 DEF SchedInv, TypeOK, TaskTypeOK, SignalFrame, listVars
<1> QED
    BY <1>1, <1>3, <1>4, <1>5, SameSysType DEF SchedInv, TypeOK

LEMMA SigreturnInv ==
    ASSUME SchedInv, NEW t \in Task, Sigreturn(t)
    PROVE  SchedInv'
<1>1. CASE Panic
    BY <1>1, PanicInv
<1>2. CASE ~Panic
    <2>1. /\ pending' = [pending EXCEPT ![t] = NoSignal]
          /\ esp0' = [esp0 EXCEPT ![t] = "main"]
          /\ eax' = [eax EXCEPT ![t] = 0]
          /\ UNCHANGED <<listVars, current, flag, waitType, deadline, sigctx, sigeip, inHandler, sysVars>>
        BY <1>2 DEF Sigreturn
    <2>2. /\ pending' \in [Task -> Signal \cup {SIGSEGV, NoSignal}]
          /\ \A x \in Task : x # t => pending'[x] = pending[x]
        BY <2>1 DEF SchedInv, TypeOK, TaskTypeOK
    <2>3. /\ esp0' \in [Task -> {"main", "sig"}] /\ esp0'[t] = "main"
          /\ \A x \in Task : x # t => esp0'[x] = esp0[x]
        BY <2>1 DEF SchedInv, TypeOK, TaskTypeOK
    <2>4. eax' \in [Task -> {0, -1}]
        BY <2>1 DEF SchedInv, TypeOK, TaskTypeOK
    <2>5. TaskTypeOK'
        BY <2>1, <2>2, <2>3, <2>4, Zenon DEF SchedInv, TypeOK, TaskTypeOK, Slot, Pid, listVars
    <2>6. CpuOwner' /\ QueueOrder'
        BY <2>1, SameListOrdered DEF SchedInv, CpuOwner, listVars
    <2>7. SignalFrame'
        BY <2>1, <2>2, <2>3 DEF SchedInv, TypeOK, TaskTypeOK, SignalFrame, listVars
    <2> QED
        BY <2>1, <2>5, <2>6, <2>7, SameSysType DEF SchedInv, TypeOK
<1> QED
    BY <1>1, <1>2

\* Entering the handler of a living task for a signal keeps the types and adds
\* no flags; only a task that owns an entry point of its own is moved.
LEMMA EnterSignalInv ==
    ASSUME SchedInv, NEW u \in alive, NEW s \in Signal \cup {SIGSEGV}, EnterSignal(u),
           pending' = [pending EXCEPT ![u] = s],
           UNCHANGED <<listVars, current, sigctx, sigeip, inHandler, sysVars>>
    PROVE  SchedInv'
<1> USE SchedAssumption
<1>1. TypeOK /\ QueueOrder /\ u \in Task /\ u \in Slot
    BY DEF SchedInv, TypeOK, TaskTypeOK, Slot
<1>2. flag' \in [Slot -> SUBSET Flag] /\ \A x \in Slot : flag'[x] \subseteq flag[x]
    BY <1>1 DEF EnterSignal, TypeOK, TaskTypeOK
<1>3. /\ waitType' \in [Task -> {"none", "sleep", "pid"}]
      /\ deadline' \in [Task -> Nat]
      /\ eax' \in [Task -> {0, -1}]
    BY <1>1 DEF EnterSignal, TypeOK, TaskTypeOK
<1>4. /\ esp0' \in [Task -> {"main", "sig"}]
      /\ \A x \in Task : x # u => esp0'[x] = esp0[x]
    BY <1>1 DEF EnterSignal, TypeOK, TaskTypeOK
<1>5. /\ pending' \in [Task -> Signal \cup {SIGSEGV, NoSignal}]
      /\ \A x \in Task : x # u => pending'[x] = pending[x]
    BY <1>1 DEF TypeOK, TaskTypeOK
<1>6. TaskTypeOK'
    BY <1>1, <1>2, <1>3, <1>4, <1>5, Zenon DEF TypeOK, TaskTypeOK, Slot, Pid, listVars
<1>7. CpuOwner' /\ QueueOrder'
    BY <1>1, <1>2, FewerFlags, SameListOrdered
<1>8. SignalFrame'
    <2>1. sigctx[u] /\ sigeip[u] = "handler"
        BY <1>1 DEF EnterSignal, CanEnterSignal, SchedInv, SignalFrame, TypeOK, TaskTypeOK
    <2> QED
        BY <1>1, <1>4, <1>5, <2>1 DEF SchedInv, TypeOK, TaskTypeOK, SignalFrame, listVars
<1> QED
    BY <1>6, <1>7, <1>8, SameSysType DEF SchedInv, TypeOK

LEMMA KillInv ==
    ASSUME SchedInv, NEW t \in Task, NEW u \in Task, NEW s \in Signal, Kill(t, u, s)
    PROVE  SchedInv'
<1>1. u \in alive
    BY ListedIsAlive DEF Kill, SchedInv
<1>2. /\ pending' = [pending EXCEPT ![u] = s]
      /\ UNCHANGED <<listVars, current, sigctx, sigeip, inHandler, sysVars>>
    BY DEF Kill
<1>3. CASE EnterSignal(u)
    BY <1>1, <1>2, <1>3, EnterSignalInv
<1>4. CASE ~EnterSignal(u)
    <2>1. UNCHANGED <<waitVars, flag, esp0>>
        BY <1>4 DEF Kill
    <2>2. /\ pending' \in [Task -> Signal \cup {SIGSEGV, NoSignal}]
          /\ \A x \in Task : x # u => pending'[x] = pending[x]
        BY <1>2, SchedAssumption DEF SchedInv, TypeOK, TaskTypeOK
    <2>3. TaskTypeOK'
        BY <1>2, <2>1, <2>2, Zenon DEF SchedInv, TypeOK, TaskTypeOK, Slot, Pid, listVars, waitVars
    <2>4. CpuOwner' /\ QueueOrder'
        BY <1>2, <2>1, SameListOrdered DEF SchedInv, CpuOwner, listVars
    <2>5. SignalFrame'
        BY <1>2, <2>1, <2>2 DEF SchedInv, TypeOK, TaskTypeOK, SignalFrame, listVars
    <2> QED
        BY <1>2, <2>3, <2>4, <2>5, SameSysType DEF SchedInv, TypeOK
<1> QED
    BY <1>3, <1>4

LEMMA PageFaultInv ==
    ASSUME SchedInv, NEW t \in Task, PageFault(t)
    PROVE  SchedInv'
<1>1. UserRuns(t) /\ t \in alive
    BY SchedAssumption DEF PageFault, UserRuns, SchedInv, CpuOwner
<1>2. CASE StopCurrent(t)
    BY <1>1, <1>2, StopCurrentInv
<1>3. CASE ~StopCurrent(t)
    <2>1. /\ EnterSignal(t)
          /\ pending' = [pending EXCEPT ![t] = SIGSEGV]
          /\ UNCHANGED <<listVars, current, sigctx, sigeip, inHandler, sysVars>>
        BY <1>3 DEF PageFault
    <2> QED
        BY <1>1, <2>1, EnterSignalInv
<1> QED
    BY <1>2, <1>3

\* A machine that stutters, or has panicked, changes nothing.
LEMMA StutterInv ==
    ASSUME SchedInv, UNCHANGED vars
    PROVE  SchedInv'
<1>1. TaskTypeOK' /\ QueueOrder' /\ CpuOwner' /\ SignalFrame'
    BY SameTasks DEF vars
<1>2. UNCHANGED sysVars
    BY DEF vars
<1> QED
    BY <1>1, <1>2, SameSysType DEF SchedInv, TypeOK

\* Every step keeps the invariant.
LEMMA NextInv == SchedInv /\ [Next]_vars => SchedInv'
<1> SUFFICES ASSUME SchedInv, [Next]_vars PROVE SchedInv'
    OBVIOUS
<1>1. CASE UNCHANGED vars
    BY <1>1, StutterInv
<1>2. CASE Next
    <2>1. ASSUME NEW d \in Tick, FirstTimerIrq(d) PROVE SchedInv'
        BY <2>1, FirstTimerIrqInv
    <2>2. ASSUME NEW d \in Tick, TimerIrq(d) PROVE SchedInv'
        BY <2>2, TimerIrqInv
    <2>3. ASSUME NEW t \in Task, Exit(t) PROVE SchedInv'
        BY <2>3, StopCurrentInv DEF Exit
    <2>4. ASSUME NEW t \in Task, PageFault(t) PROVE SchedInv'
        BY <2>4, PageFaultInv
    <2>5. ASSUME NEW t \in Task, Execve(t) PROVE SchedInv'
        BY <2>5, ExecveInv
    <2>6. ASSUME NEW t \in Task, SetSignal(t) PROVE SchedInv'
        BY <2>6, SetSignalInv
    <2>7. ASSUME NEW t \in Task, Sigreturn(t) PROVE SchedInv'
        BY <2>7, SigreturnInv
    <2>8. ASSUME NEW t \in Task, NEW c \in Task, Fork(t, c) PROVE SchedInv'
        BY <2>8, ForkInv
    <2>9. ASSUME NEW t \in Task, NEW c \in Task, Fexecve(t, c) PROVE SchedInv'
        BY <2>9, FexecveInv
    <2>10. ASSUME NEW t \in Task, NEW d \in 1..MaxTime, Nanosleep(t, d) PROVE SchedInv'
        BY <2>10, NanosleepInv
    <2>11. ASSUME NEW t \in Task, NEW p \in 0..MaxPid, Waitpid(t, p) PROVE SchedInv'
        BY <2>11, WaitpidInv
    <2>12. ASSUME NEW t \in Task, NEW u \in Task, NEW s \in Signal, Kill(t, u, s) PROVE SchedInv'
        BY <2>12, KillInv
    <2>13. ASSUME NEW t \in Task, ReadBlock(t) PROVE SchedInv'
        BY <2>13, ReadBlockInv
    <2>14. ASSUME NEW t \in Task, ReadDone(t) PROVE SchedInv'
        BY <2>14, ReadDoneInv
    <2>15. ASSUME Halted PROVE SchedInv'
        BY <2>15, StutterInv DEF Halted
    <2>16. ASSUME DevicePanic PROVE SchedInv'
        BY <2>16, PanicInv DEF DevicePanic
    <2> QED
        BY <1>2, <2>1, <2>2, <2>3, <2>4, <2>5, <2>6, <2>7, <2>8, <2>9, <2>10, <2>11, <2>12,
           <2>13, <2>14, <2>15, <2>16 DEF Next, CoreNext
<1> QED
    BY <1>1, <1>2

-----------------------------------------------------------------------------
(***************************************************************************)
(* The theorems.                                                           *)
(***************************************************************************)

\* The invariant holds in every state of every behaviour of the scheduler.
THEOREM Invariant == Spec => []SchedInv
<1>1. Init => SchedInv
    BY InitInv
<1>2. SchedInv /\ [Next]_vars => SchedInv'
    BY NextInv
<1> QED
    BY <1>1, <1>2, PTL DEF Spec

\* Every variable keeps its type: in particular pids never leave their range
\* and x86_task_last never points to a destroyed task.
THEOREM TypeCorrect == Spec => []TypeOK
<1>1. SchedInv => TypeOK
    BY DEF SchedInv
<1> QED
    BY <1>1, Invariant, PTL

\* However tasks are enabled and destroyed, the list runs through the living
\* tasks in the order of their pids and ends at x86_task_last.
THEOREM ListOrdered == Spec => []QueueOrder
<1>1. SchedInv => QueueOrder
    BY DEF SchedInv
<1> QED
    BY <1>1, Invariant, PTL

\* No living task is lost to the walks of x86_task_switch and task_by_pid, and
\* no destroyed task is met by them.
THEOREM NoTaskLost == Spec => []AllListed
<1>1. SchedInv => AllListed
    BY ListedIsAlive DEF SchedInv, AllListed
<1> QED
    BY <1>1, Invariant, PTL

\* The processor is only ever given to a living task that neither waits nor
\* reads, and no stopped task outlives the handler that stopped it.
THEOREM ProcessorOwned == Spec => []CpuOwner
<1>1. SchedInv => CpuOwner
    BY DEF SchedInv
<1> QED
    BY <1>1, Invariant, PTL

\* A handler runs only in a task whose own program set its entry point, whatever
\* number the signal has.
THEOREM HandlersOwned == Spec => []SignalFrame
<1>1. SchedInv => SignalFrame
    BY DEF SchedInv
<1> QED
    BY <1>1, Invariant, PTL

\* The signal frame of a task and its signal, after a step: a task that had a signal in
\* its frame keeps it or leaves the frame.
SameSignal(t) == esp0'[t] = esp0[t] /\ pending'[t] = pending[t]
Leaves(t) == esp0'[t] = "main"

\* A switch wipes the tasks that have ended, and leaves the others alone.
LEMMA SwitchKeepsSignals ==
    ASSUME NEW now, NEW fl, NEW wt, NEW dl, NEW ax, Switch(now, fl, wt, dl, ax), TypeOK, NEW t \in Task
    PROVE  SameSignal(t) \/ Leaves(t)
<1>1. pending' = Wipe(pending, Stopped(fl), NoSignal) /\ esp0' = Wipe(esp0, Stopped(fl), "main")
    <2>1. \E woken, to : HandOver(fl, wt, dl, ax, Stopped(fl), woken, to)
        BY Zenon DEF Switch
    <2> QED
        BY <2>1 DEF HandOver, Reap
<1>2. DOMAIN pending = Task /\ DOMAIN esp0 = Task
    BY DEF TypeOK, TaskTypeOK
<1> QED
    BY <1>1, <1>2 DEF Wipe, SameSignal, Leaves

LEMMA StopKeepsSignals ==
    ASSUME NEW u, StopCurrent(u), TypeOK, NEW t \in Task
    PROVE  SameSignal(t) \/ Leaves(t)
<1>1. CASE Panic
    BY <1>1 DEF Panic, SameSignal, sigVars
<1>2. CASE ~Panic
    BY <1>2, SwitchKeepsSignals DEF StopCurrent
<1> QED
    BY <1>1, <1>2

\* What a step does to a task's signal: nothing, or the task has left the frame, or there
\* is a new signal, or it was sent the number 0.
LEMMA SignalStep ==
    ASSUME SchedInv, [Next]_vars, NEW t \in alive', t \in Task
    PROVE  \/ SameSignal(t) \/ Leaves(t) \/ pending'[t] # NoSignal
           \/ \E u \in alive : Kill(u, t, NoSignal)
<1> DEFINE Goal == \/ SameSignal(t) \/ Leaves(t) \/ pending'[t] # NoSignal
                   \/ \E u \in alive : Kill(u, t, NoSignal)
<1> USE SchedAssumption
<1>0. TypeOK /\ pending \in [Task -> Signal \cup {SIGSEGV, NoSignal}] /\ esp0 \in [Task -> {"main", "sig"}]
      /\ \A u \in Task : UserRuns(u) => u \in alive
    BY DEF SchedInv, TypeOK, TaskTypeOK, CpuOwner, UserRuns
<1>1. ASSUME Panic \/ UNCHANGED vars PROVE Goal
    BY <1>1 DEF Panic, vars, sigVars, SameSignal
<1>2. ASSUME NEW d \in Tick, FirstTimerIrq(d) \/ TimerIrq(d) PROVE Goal
    <2>1. CASE FirstTimerIrq(d)
        BY <2>1 DEF FirstTimerIrq, sigVars, SameSignal
    <2> QED
        BY <1>0, <1>2, <2>1, SwitchKeepsSignals DEF TimerIrq
<1>3. ASSUME NEW u \in Task, Exit(u) PROVE Goal
    BY <1>0, <1>3, StopKeepsSignals DEF Exit
<1>4. ASSUME NEW u \in Task, PageFault(u) PROVE Goal
    <2>1. CASE StopCurrent(u)
        BY <1>0, <2>1, StopKeepsSignals
    <2>2. CASE EnterSignal(u) /\ pending' = [pending EXCEPT ![u] = SIGSEGV]
        BY <1>0, <2>2 DEF EnterSignal, SameSignal
    <2> QED
        BY <1>4, <2>1, <2>2 DEF PageFault
<1>5. ASSUME NEW u \in Task, Execve(u) \/ SetSignal(u) \/ ReadDone(u) PROVE Goal
    BY <1>5 DEF Execve, SetSignal, ReadDone, SetContext, sigVars, SameSignal
<1>6. ASSUME NEW u \in Task, Sigreturn(u) PROVE Goal
    <2>1. CASE pending' = [pending EXCEPT ![u] = NoSignal] /\ esp0' = [esp0 EXCEPT ![u] = "main"]
        BY <1>0, <2>1 DEF SameSignal, Leaves
    <2> QED
        BY <1>1, <1>6, <2>1 DEF Sigreturn
<1>7. ASSUME NEW u \in Task, NEW c \in Task, Fork(u, c) \/ Fexecve(u, c) PROVE Goal
    <2>1. pending' = [pending EXCEPT ![c] = NoSignal] /\ esp0' = [esp0 EXCEPT ![c] = "main"]
        BY <1>7 DEF Fork, Fexecve, NewTask
    <2> QED
        BY <1>0, <2>1 DEF SameSignal, Leaves
<1>8. ASSUME NEW u \in Task, NEW d \in 1..MaxTime, Nanosleep(u, d) PROVE Goal
    BY <1>0, <1>8, SwitchKeepsSignals DEF Nanosleep
<1>9. ASSUME NEW u \in Task, NEW p \in 0..MaxPid, Waitpid(u, p) PROVE Goal
    BY <1>0, <1>9, SwitchKeepsSignals DEF Waitpid
<1>10. ASSUME NEW u \in Task, ReadBlock(u) PROVE Goal
    BY <1>0, <1>10, SwitchKeepsSignals DEF ReadBlock
<1>11. ASSUME NEW u \in Task, NEW v \in Task, NEW s \in Signal, Kill(u, v, s) PROVE Goal
    <2>1. pending' = [pending EXCEPT ![v] = s] /\ u \in alive
        BY <1>0, <1>11 DEF Kill
    <2>2. CASE v = t
        BY <1>0, <1>11, <2>1, <2>2
    <2>3. CASE v # t
        <3>1. esp0'[t] = esp0[t]
            BY <1>0, <1>11, <2>3 DEF Kill, EnterSignal
        <3> QED
            BY <1>0, <2>1, <2>3, <3>1 DEF SameSignal
    <2> QED
        BY <2>2, <2>3
<1> HIDE DEF Goal
<1>12. Goal
    BY <1>1, <1>2, <1>3, <1>4, <1>5, <1>6, <1>7, <1>8, <1>9, <1>10, <1>11, Zenon
       DEF Next, CoreNext, DevicePanic, Halted
<1> QED
    BY <1>12 DEF Goal

\* Whatever is sent, and whatever faults or switches come while a handler runs, its signal
\* stays pending until it returns, as sys_sigreturn asserts, unless the number 0 is sent.
THEOREM SignalStaysPending == Spec => SignalKept
<1> DEFINE Body ==
        \A t \in alive' :
            esp0'[t] = "sig" /\ pending'[t] = NoSignal =>
                \/ esp0[t] = "sig" /\ pending[t] = NoSignal
                \/ \E u \in alive : Kill(u, t, NoSignal)
<1>1. SchedInv /\ [Next]_vars => Body
    <2> SUFFICES ASSUME SchedInv, [Next]_vars, NEW t \in alive', esp0'[t] = "sig", pending'[t] = NoSignal
                 PROVE  \/ esp0[t] = "sig" /\ pending[t] = NoSignal
                        \/ \E u \in alive : Kill(u, t, NoSignal)
        OBVIOUS
    <2>1. t \in Task
        BY NextInv DEF SchedInv, TypeOK, TaskTypeOK
    <2> QED
        BY <2>1, SignalStep DEF SameSignal, Leaves
<1> QED
    BY <1>1, Invariant, PTL DEF Spec, SignalKept

-----------------------------------------------------------------------------
(***************************************************************************)
(* What the handlers of Sched do to the lives of tasks: no wait ends       *)
(* before it should, and the whole implements TaskLife.                    *)
(***************************************************************************)

\* A task that waits or reads.
Waits(t) == flag[t] \cap {"WAIT", "BUSY"} # {}

\* The current task hands the processor over: all that its handler has changed
\* before it switches is its own, and it is not init that ends.
HandsOver(now, fl, wt, dl, ax) ==
    /\ SwitchArgs(fl, wt, dl, ax)
    /\ Switch(now, fl, wt, dl, ax)
    /\ systime' = now
    /\ \A u \in Task : u # current => fl[u] = flag[u] /\ wt[u] = waitType[u] /\ dl[u] = deadline[u]
    /\ "STOP" \in fl[current] => pid[current] # 1
    /\ current # Idle \/ fl[Idle] = flag[Idle]

\* Another task is born.
Bears(c) ==
    /\ c \in Task \ alive /\ lastPid < MaxPid /\ Enable(c)
    /\ flag' = [flag EXCEPT ![c] = {}]
    /\ current # Idle /\ UNCHANGED current

\* A signal ends the wait of a task, if it waits, and tells it so.
Interrupts(u) ==
    /\ u \in alive
    /\ flag' = [flag EXCEPT ![u] = @ \ {"WAIT"}]
    /\ esp0'[u] = "sig"
    /\ "WAIT" \in flag[u] /\ esp0[u] = "main" => eax'[u] = -1
    /\ UNCHANGED <<listVars, current>>

\* The lives of all tasks stay as they are.
Keeps == UNCHANGED <<listVars, current, flag>>

-----------------------------------------------------------------------------
\* A handler of the running task that switches hands the processor over.
LEMMA RunningHandsOver ==
    ASSUME SchedInv, NEW t \in Task, UserRuns(t), NEW F \in SUBSET Flag,
           NEW ty \in {"none", "sleep", "pid"}, NEW d \in Nat, NEW ax \in [Task -> {0, -1}],
           Switch(systime, [flag EXCEPT ![t] = F], [waitType EXCEPT ![t] = ty],
                  [deadline EXCEPT ![t] = d], ax),
           "STOP" \in F => pid[t] # 1, UNCHANGED sysVars
    PROVE  \E now, fl, wt, dl, xa : HandsOver(now, fl, wt, dl, xa)
<1> DEFINE fl == [flag EXCEPT ![t] = F]
           wt == [waitType EXCEPT ![t] = ty]
           dl == [deadline EXCEPT ![t] = d]
<1>1. /\ waitType \in [Task -> {"none", "sleep", "pid"}] /\ deadline \in [Task -> Nat]
      /\ flag \in [Slot -> SUBSET Flag] /\ t \in Slot
    BY DEF SchedInv, TypeOK, TaskTypeOK, Slot
<1>2. wt \in [Task -> {"none", "sleep", "pid"}] /\ dl \in [Task -> Nat]
    BY <1>1
<1>3. SwitchArgs(fl, wt, dl, ax)
    BY <1>2, RunningArgs
<1>4. t = current /\ current # Idle /\ systime' = systime
    BY SchedAssumption DEF UserRuns, sysVars
<1>5. \A u \in Task : u # current => fl[u] = flag[u] /\ wt[u] = waitType[u] /\ dl[u] = deadline[u]
    BY <1>1, <1>4 DEF Slot
<1>6. "STOP" \in fl[current] => pid[current] # 1
    BY <1>1, <1>4
<1>7. Switch(systime, fl, wt, dl, ax)
    OBVIOUS
<1>8. HandsOver(systime, fl, wt, dl, ax)
    BY <1>3, <1>4, <1>5, <1>6, <1>7 DEF HandsOver
<1> HIDE DEF fl, wt, dl
<1> QED
    BY <1>8

\* exit, and a fault that is fatal, hand it over, or panic over init.
LEMMA StopHandsOver ==
    ASSUME SchedInv, NEW t \in Task, UserRuns(t), StopCurrent(t)
    PROVE  Panic \/ \E now, fl, wt, dl, ax : HandsOver(now, fl, wt, dl, ax)
<1>1. SUFFICES ASSUME ~Panic PROVE \E now, fl, wt, dl, ax : HandsOver(now, fl, wt, dl, ax)
    OBVIOUS
<1>2. /\ pid[t] # 1 /\ UNCHANGED sysVars
      /\ Switch(systime, [flag EXCEPT ![t] = @ \cup {"STOP"}], waitType, deadline, eax)
    BY <1>1 DEF StopCurrent
<1>3. /\ waitType \in [Task -> {"none", "sleep", "pid"}] /\ deadline \in [Task -> Nat]
      /\ eax \in [Task -> {0, -1}] /\ flag[t] \cup {"STOP"} \in SUBSET Flag
    BY DEF SchedInv, TypeOK, TaskTypeOK, Slot, Flag
<1>4. [waitType EXCEPT ![t] = waitType[t]] = waitType /\ [deadline EXCEPT ![t] = deadline[t]] = deadline
    BY <1>3
<1>5. Switch(systime, [flag EXCEPT ![t] = flag[t] \cup {"STOP"}],
             [waitType EXCEPT ![t] = waitType[t]], [deadline EXCEPT ![t] = deadline[t]], eax)
    BY <1>2, <1>4
<1>6. waitType[t] \in {"none", "sleep", "pid"} /\ deadline[t] \in Nat
    BY <1>3
<1> QED
    BY <1>2, <1>3, <1>5, <1>6, RunningHandsOver

\* Every handler hands the processor over, bears a task, interrupts a wait, ends
\* a read, or leaves the lives of all tasks as they are.
LEMMA HandlersDo ==
    ASSUME SchedInv, [Next]_vars
    PROVE  \/ \E now, fl, wt, dl, ax : HandsOver(now, fl, wt, dl, ax)
           \/ \E c \in Task : Bears(c)
           \/ \E u \in Task : Interrupts(u)
           \/ \E t \in Task : ReadDone(t)
           \/ Keeps
<1> DEFINE Goal == \/ \E now, fl, wt, dl, ax : HandsOver(now, fl, wt, dl, ax)
                   \/ \E c \in Task : Bears(c)
                   \/ \E u \in Task : Interrupts(u)
                   \/ \E t \in Task : ReadDone(t)
                   \/ Keeps
<1>0. ASSUME Panic PROVE Goal
    BY <1>0 DEF Panic, Keeps
<1>1. ASSUME NEW d \in Tick, FirstTimerIrq(d) PROVE Goal
    BY <1>1 DEF FirstTimerIrq, Keeps
<1>2. ASSUME NEW d \in Tick, TimerIrq(d) PROVE Goal
    <2>1. SwitchArgs(flag, waitType, deadline, eax)
        BY DEF SchedInv, TypeOK, TaskTypeOK, CpuOwner, SwitchArgs
    <2>2. "STOP" \notin flag[current]
        BY DEF SchedInv, CpuOwner, TypeOK, TaskTypeOK
    <2>3. HandsOver(Advanced(d), flag, waitType, deadline, eax)
        BY <1>2, <2>1, <2>2 DEF TimerIrq, HandsOver
    <2> QED
        BY <2>3
<1>3. ASSUME NEW t \in Task, Exit(t) PROVE Goal
    BY <1>0, <1>3, StopHandsOver DEF Exit
<1>4. ASSUME NEW u \in alive, EnterSignal(u), UNCHANGED <<listVars, current>> PROVE Goal
    <2>1. u \in Task /\ esp0 \in [Task -> {"main", "sig"}] /\ eax \in [Task -> {0, -1}]
        BY DEF SchedInv, TypeOK, TaskTypeOK
    <2>2. esp0'[u] = "sig" /\ ("WAIT" \in flag[u] /\ esp0[u] = "main" => eax'[u] = -1)
        BY <1>4, <2>1 DEF EnterSignal
    <2>3. Interrupts(u)
        BY <1>4, <2>2 DEF EnterSignal, Interrupts
    <2> QED
        BY <2>1, <2>3
<1>5. ASSUME NEW t \in Task, PageFault(t) PROVE Goal
    <2>1. UserRuns(t) /\ t \in alive
        BY <1>5, SchedAssumption DEF PageFault, UserRuns, SchedInv, CpuOwner
    <2>2. CASE StopCurrent(t)
        BY <1>0, <2>1, <2>2, StopHandsOver
    <2>3. CASE ~StopCurrent(t)
        BY <1>4, <1>5, <2>1, <2>3 DEF PageFault
    <2> QED
        BY <2>2, <2>3
<1>6. ASSUME NEW t \in Task, Execve(t) \/ SetSignal(t) \/ Sigreturn(t) PROVE Goal
    BY <1>6 DEF Execve, SetSignal, Sigreturn, Panic, Keeps
<1>7. ASSUME NEW t \in Task, NEW c \in Task, Fork(t, c) \/ Fexecve(t, c) PROVE Goal
    BY <1>7, SchedAssumption DEF Fork, Fexecve, NewTask, Bears, UserRuns
<1>8. ASSUME NEW t \in Task, NEW d \in 1..MaxTime, Nanosleep(t, d) PROVE Goal
    <2>1. /\ flag[t] \cup {"WAIT"} \in SUBSET Flag /\ systime + d \in Nat
          /\ "STOP" \notin flag[t]
        BY SchedAssumption DEF SchedInv, CpuOwner, TypeOK, TaskTypeOK, SysTypeOK, Slot, Flag
    <2>2. \E now, fl, wt, dl, ax : HandsOver(now, fl, wt, dl, ax)
        BY <1>8, <2>1, BlockedType, RunningHandsOver DEF Nanosleep
    <2> QED
        BY <2>2
<1>9. ASSUME NEW t \in Task, NEW p \in 0..MaxPid, Waitpid(t, p) PROVE Goal
    <2>1. {"WAIT"} \in SUBSET Flag /\ p \in Nat
        BY SchedAssumption DEF Flag
    <2>2. \E now, fl, wt, dl, ax : HandsOver(now, fl, wt, dl, ax)
        BY <1>9, <2>1, BlockedType, RunningHandsOver DEF Waitpid
    <2> QED
        BY <2>2
<1>10. ASSUME NEW t \in Task, NEW u \in Task, NEW s \in Signal, Kill(t, u, s) PROVE Goal
    <2>1. u \in alive /\ UNCHANGED <<listVars, current>>
        BY <1>10, ListedIsAlive DEF Kill, SchedInv
    <2>2. CASE EnterSignal(u)
        BY <1>4, <2>1, <2>2
    <2>3. CASE UNCHANGED flag
        BY <2>1, <2>3 DEF Keeps
    <2> QED
        BY <1>10, <2>2, <2>3 DEF Kill
<1>11. ASSUME NEW t \in Task, ReadBlock(t) PROVE Goal
    <2>1. /\ waitType \in [Task -> {"none", "sleep", "pid"}] /\ deadline \in [Task -> Nat]
          /\ flag[t] \cup {"BUSY"} \in SUBSET Flag /\ "STOP" \notin flag[t]
        BY DEF SchedInv, CpuOwner, TypeOK, TaskTypeOK, Slot, Flag
    <2>2. [waitType EXCEPT ![t] = waitType[t]] = waitType /\ [deadline EXCEPT ![t] = deadline[t]] = deadline
        BY <2>1
    <2>3. waitType[t] \in {"none", "sleep", "pid"} /\ deadline[t] \in Nat
        BY <2>1
    <2>4. /\ UserRuns(t) /\ UNCHANGED sysVars
          /\ Switch(systime, [flag EXCEPT ![t] = flag[t] \cup {"BUSY"}],
                    [waitType EXCEPT ![t] = waitType[t]], [deadline EXCEPT ![t] = deadline[t]], Blocked(t))
        BY <1>11, <2>2 DEF ReadBlock
    <2>5. \E now, fl, wt, dl, ax : HandsOver(now, fl, wt, dl, ax)
        BY <2>1, <2>3, <2>4, BlockedType, RunningHandsOver
    <2> QED
        BY <2>5
<1>12. CASE Halted \/ UNCHANGED vars
    BY <1>12 DEF Halted, vars, Keeps
<1>13. CASE DevicePanic
    BY <1>0, <1>13 DEF DevicePanic
<1>14. CASE \E t \in Task : ReadDone(t)
    BY <1>14
<1> HIDE DEF Goal
<1>15. Goal
    BY <1>1, <1>2, <1>3, <1>5, <1>6, <1>7, <1>8, <1>9, <1>10, <1>11, <1>12, <1>13, <1>14, Zenon
       DEF Next, CoreNext, Goal
<1> QED
    BY <1>15 DEF Goal

-----------------------------------------------------------------------------
\* What a switch does to the tasks: the stopped one is gone, the waits of some
\* are over, and the first ready one behind the current task runs next.
SwitchDoes(now, fl, wt, dl, woken) ==
    /\ alive' = {t \in alive : "STOP" \notin fl[t]}
    /\ \A t \in alive' : pid'[t] = pid[t]
    /\ lastPid' = lastPid
    /\ \A t \in alive' : \A f \in {"WAIT", "BUSY"} :
            f \in flag'[t] <=> f \in fl[t] /\ (f = "WAIT" => t \notin woken)
    /\ \A t \in woken :
        \/ wt[t] = "sleep" /\ now >= dl[t]
        \/ wt[t] = "pid" /\ \A u \in alive' : pid'[u] # dl[t]
    /\ \/ /\ current' = Idle
          /\ \A t \in alive' : Nr(current) < pid[t] => Waits(t)'
       \/ /\ current' \in alive' /\ ~Waits(current)' /\ Nr(current) < pid[current']
          /\ \A t \in alive' : Nr(current) < pid[t] /\ ~Waits(t)' => pid[current'] <= pid[t]

\* The switch does that.
LEMMA SwitchEffect ==
    ASSUME SchedInv, NEW now, NEW fl, NEW wt, NEW dl, NEW ax,
           SwitchArgs(fl, wt, dl, ax),
           Switch(now, fl, wt, dl, ax)
    PROVE  \E woken : SwitchDoes(now, fl, wt, dl, woken)
<1> USE SchedAssumption
<1> DEFINE gone  == Stopped(fl)
           woken == Woken(now, fl, wt, dl, gone)
           ready == {t \in Listed \ gone : "BUSY" \notin fl[t] /\ ("WAIT" \in fl[t] => t \in woken)}
           to    == PickNext(ready)
           kept(x) == {f \in fl[x] : /\ f = "RUNNING" => x # current
                                     /\ f = "WAIT" => x \notin woken}
           switched == [x \in Slot |-> IF x = to THEN kept(x) \cup {"RUNNING"} ELSE kept(x)]
<1>1. /\ TypeOK /\ QueueOrder /\ current \in alive \cup {Idle}
      /\ alive \subseteq Task /\ alive \subseteq Slot
      /\ pid \in [Task -> 0..MaxPid]
      /\ Listed = alive
    BY ListedIsAlive DEF SchedInv, CpuOwner, TypeOK, TaskTypeOK, Slot
<1>2. gone = {t \in alive : "STOP" \in fl[t]}
    BY <1>1 DEF Stopped
<1>3. /\ current' = to
      /\ flag' = Wipe(switched, gone, {})
      /\ Reap(gone)
    <2>1. HandOver(fl, wt, dl, ax, gone, woken, to)
        <3>1. ready = Ready(fl, gone, woken)
            BY Zenon DEF Ready
        <3> HIDE DEF gone, woken, ready
        <3>2. gone = Stopped(fl) /\ woken = Woken(now, fl, wt, dl, gone)
            BY DEF gone, woken
        <3> QED
            BY <3>1, <3>2, SwitchHandsOver, Zenon
    <2> QED
        BY <2>1, Zenon DEF HandOver
<1> HIDE DEF to
<1>4. /\ alive' = alive \ gone
      /\ lastPid' = lastPid
      /\ pid' = Wipe(pid, gone, 0)
    BY <1>3 DEF Reap
<1>5. /\ alive' = {t \in alive : "STOP" \notin fl[t]}
      /\ \A t \in alive' : pid'[t] = pid[t]
    BY <1>1, <1>2, <1>4 DEF Wipe
<1>6. \A t \in alive' : flag'[t] = IF t = to THEN kept(t) \cup {"RUNNING"} ELSE kept(t)
    BY <1>1, <1>3, <1>4 DEF Wipe
<1>7. \A t \in alive' : \A f \in {"WAIT", "BUSY"} :
            f \in flag'[t] <=> f \in fl[t] /\ (f = "WAIT" => t \notin woken)
    BY <1>6
<1>8. ASSUME NEW t \in woken
      PROVE  \/ wt[t] = "sleep" /\ now >= dl[t]
             \/ wt[t] = "pid" /\ (\A u \in alive' : pid'[u] # dl[t])
    BY <1>1, <1>4, <1>5 DEF Woken, PidGone
<1>9. ready = {t \in alive' : ~Waits(t)'}
    BY <1>1, <1>4, <1>7 DEF Waits
<1> HIDE DEF woken, ready
<1> DEFINE later == ready \cap After(current)
<1>10. /\ later = {t \in ready : Nr(current) < pid[t]}
       /\ later \subseteq alive
    BY <1>1, <1>4, <1>9, WalkMeetsHigher
<1>11. CASE later = {}
    <2>1. current' = Idle
        BY <1>3, <1>11 DEF to, PickNext
    <2>2. \A t \in alive' : Nr(current) < pid[t] => Waits(t)'
        BY <1>9, <1>10, <1>11
    <2> QED
        BY <1>4, <1>5, <1>7, <1>8, <2>1, <2>2 DEF SwitchDoes
<1>12. CASE later # {}
    <2>1. PICK t \in later : \A u \in later : pid[t] <= pid[u]
        BY <1>1, <1>10, <1>12, Lowest
    <2>2. \A u \in later : /\ u \in alive /\ u # Idle /\ Nr(u) = pid[u] /\ pid[u] \in Nat
                           /\ After(u) = {v \in alive : pid[u] < pid[v]}
        BY <1>1, <1>10, WalkMeetsHigher DEF Nr
    <2>3. \A u, v \in later : pid[u] = pid[v] => u = v
        BY <1>1, <1>10 DEF QueueOrder
    <2>4. later \ {t} \subseteq After(t)
        BY <2>1, <2>2, <2>3
    <2>5. to \in later /\ later \ {to} \subseteq After(to)
        BY <1>12, <2>4 DEF to, PickNext
    <2>6. \A u \in later : pid[to] <= pid[u]
        BY <2>2, <2>5
    <2>7. /\ current' \in alive' /\ ~Waits(current)' /\ Nr(current) < pid[current']
          /\ \A u \in alive' : Nr(current) < pid[u] /\ ~Waits(u)' => pid[current'] <= pid[u]
        BY <1>3, <1>9, <1>10, <2>5, <2>6 DEF Waits
    <2> QED
        BY <1>4, <1>5, <1>7, <1>8, <2>7 DEF SwitchDoes
<1> QED
    BY <1>11, <1>12

-----------------------------------------------------------------------------
\* No step of a handler ends a wait too early.
WakesRightly ==
    \A t \in alive \cap alive' :
        "WAIT" \in flag[t] /\ "WAIT" \notin flag'[t] =>
            \/ waitType[t] = "sleep" /\ systime' >= deadline[t]
            \/ waitType[t] = "pid" /\ \A u \in alive' : pid'[u] # deadline[t]
            \/ esp0'[t] = "sig" /\ (esp0[t] = "main" => eax'[t] = -1)

\* A switch ends waits as it should: the current task does not wait, and the
\* walk wakes any other for the deadline or the pid it was blocked with.
LEMMA HandsOverWakes ==
    ASSUME SchedInv, NEW now, NEW fl, NEW wt, NEW dl, NEW ax, HandsOver(now, fl, wt, dl, ax)
    PROVE  WakesRightly
<1>1. PICK woken : SwitchDoes(now, fl, wt, dl, woken)
    BY SwitchEffect DEF HandsOver
<1>2. ASSUME NEW t \in alive \cap alive', "WAIT" \in flag[t], "WAIT" \notin flag'[t]
      PROVE  \/ waitType[t] = "sleep" /\ systime' >= deadline[t]
             \/ waitType[t] = "pid" /\ \A u \in alive' : pid'[u] # deadline[t]
    <2>1. t \in Task /\ t # current
        BY <1>2 DEF SchedInv, TypeOK, TaskTypeOK, CpuOwner
    <2>2. fl[t] = flag[t] /\ wt[t] = waitType[t] /\ dl[t] = deadline[t] /\ systime' = now
        BY <2>1 DEF HandsOver
    <2>3. t \in woken
        BY <1>1, <1>2, <2>2 DEF SwitchDoes
    <2> QED
        BY <1>1, <2>2, <2>3 DEF SwitchDoes
<1> QED
    BY <1>2 DEF WakesRightly

\* So does every handler.
LEMMA StepWakes ==
    ASSUME SchedInv, [Next]_vars
    PROVE  WakesRightly
<1>1. ASSUME NEW now, NEW fl, NEW wt, NEW dl, NEW ax, HandsOver(now, fl, wt, dl, ax)
      PROVE  WakesRightly
    BY <1>1, HandsOverWakes
<1>2. ASSUME NEW c \in Task, Bears(c) PROVE WakesRightly
    BY <1>2 DEF Bears, WakesRightly, SchedInv, TypeOK, TaskTypeOK, Slot
<1>3. ASSUME NEW u \in Task, Interrupts(u) PROVE WakesRightly
    BY <1>3 DEF Interrupts, WakesRightly, SchedInv, TypeOK, TaskTypeOK, Slot
<1>4. ASSUME NEW t \in Task, ReadDone(t) PROVE WakesRightly
    BY <1>4 DEF ReadDone, WakesRightly, SchedInv, TypeOK, TaskTypeOK, Slot
<1>5. CASE Keeps
    BY <1>5 DEF Keeps, WakesRightly
<1> QED
    BY <1>1, <1>2, <1>3, <1>4, <1>5, HandlersDo

\* Waits end rightly, whatever the number of tasks: nanosleep never before its
\* deadline, waitpid never before its task is destroyed, and either only with -1
\* when a signal cuts it short (x86_task_switch, x86_task_enter_signal).
THEOREM WaitsEndRightly == Spec => NoEarlyWake
<1>1. SchedInv /\ [Next]_vars => [WakesRightly]_vars
    BY StepWakes
<1>2. Spec => []SchedInv
    BY Invariant
<1>3. Spec => [][WakesRightly]_vars
    BY <1>1, <1>2, PTL DEF Spec
<1> QED
    BY <1>3 DEF NoEarlyWake, WakesRightly

-----------------------------------------------------------------------------
\* What the lives say of the tasks.
LivesMean ==
    /\ lifeOf \in [Pid -> {"unborn", "runnable", "blocked", "gone"}]
    /\ cpuOf = Nr(current)
    /\ \A t \in alive :
        /\ pid[t] \in Pid
        /\ lifeOf[pid[t]] = IF Waits(t) THEN "blocked" ELSE "runnable"
    /\ \A p \in Pid :
        \/ lifeOf[p] = "unborn" /\ lastPid < p
        \/ lifeOf[p] = "gone" /\ p <= lastPid /\ \A t \in alive : pid[t] # p
        \/ p <= lastPid /\ \E t \in alive : pid[t] = p

\* A pid is blocked when its task waits or reads, and runnable otherwise.
LEMMA LivesRead == SchedInv => LivesMean
<1> SUFFICES ASSUME SchedInv PROVE LivesMean
    OBVIOUS
<1> USE SchedAssumption
<1>1. /\ lastPid \in 1..MaxPid
      /\ \A t \in alive : pid[t] \in 1..lastPid
      /\ \A t, u \in alive : pid[t] = pid[u] => t = u
    BY DEF SchedInv, TypeOK, TaskTypeOK, QueueOrder, Pid
<1>2. \A p \in Pid : lifeOf[p] =
        IF p > lastPid THEN "unborn"
        ELSE IF \A t \in alive : pid[t] # p THEN "gone"
        ELSE IF \E t \in alive : pid[t] = p /\ Waits(t) THEN "blocked"
        ELSE "runnable"
    BY DEF lifeOf, Waits
<1>3. lifeOf \in [Pid -> {"unborn", "runnable", "blocked", "gone"}]
    BY DEF lifeOf
<1>4. cpuOf = Nr(current)
    BY DEF cpuOf, Nr
<1>5. ASSUME NEW t \in alive
      PROVE  pid[t] \in Pid /\ lifeOf[pid[t]] = IF Waits(t) THEN "blocked" ELSE "runnable"
    BY <1>1, <1>2 DEF Pid
<1>6. ASSUME NEW p \in Pid
      PROVE  \/ lifeOf[p] = "unborn" /\ lastPid < p
             \/ lifeOf[p] = "gone" /\ p <= lastPid /\ \A t \in alive : pid[t] # p
             \/ p <= lastPid /\ \E t \in alive : pid[t] = p
    BY <1>1, <1>2 DEF Pid
<1> QED
    BY <1>3, <1>4, <1>5, <1>6 DEF LivesMean

\* In both states of a step.
LEMMA LivesReadBoth ==
    ASSUME SchedInv, [Next]_vars
    PROVE  LivesMean /\ LivesMean' /\ SchedInv'
<1>1. SchedInv'
    BY NextInv
<1>2. (SchedInv => LivesMean)'
    BY LivesRead, PTL
<1> QED
    BY <1>1, <1>2, LivesRead

\* Two descriptions of lives are the same if they agree on every pid.
LEMMA SameLives ==
    ASSUME NEW D, NEW f, NEW g, f = [p \in D |-> f[p]], g = [p \in D |-> g[p]],
           \A p \in D : f[p] = g[p]
    PROVE  f = g
<1>1. [p \in D |-> f[p]] = [p \in D |-> g[p]]
    OBVIOUS
<1> QED
    BY <1>1

\* The turn a switch gives is the one that is next in TaskLife.
LEMMA TurnIsNext ==
    ASSUME SchedInv, [Next]_vars, NEW now, NEW fl, NEW wt, NEW dl, NEW woken,
           SwitchDoes(now, fl, wt, dl, woken)
    PROVE  cpuOf' = Life!NextTurn(lifeOf')
<1> USE SchedAssumption
<1> DEFINE higher == {p \in Pid : p > cpuOf /\ lifeOf'[p] = "runnable"}
<1>1. LivesMean /\ LivesMean' /\ SchedInv'
    BY LivesReadBoth
<1>2. Life!NextTurn(lifeOf') = IF higher = {} THEN 0 ELSE CHOOSE p \in higher : \A q \in higher : p <= q
    BY DEF Life!NextTurn, Life!Pids, Pid
<1>3. cpuOf = Nr(current) /\ cpuOf' = (Nr(current))'
    BY <1>1 DEF LivesMean
<1>4. \A t \in alive' : /\ pid'[t] = pid[t] /\ pid[t] \in Pid
                        /\ lifeOf'[pid[t]] = IF Waits(t)' THEN "blocked" ELSE "runnable"
    BY <1>1 DEF LivesMean, SwitchDoes
<1>5. \A p \in Pid : lifeOf'[p] = "runnable" => \E t \in alive' : pid[t] = p /\ ~Waits(t)'
    <2>1. \A p \in Pid : lifeOf'[p] = "runnable" => \E t \in alive' : pid'[t] = p
        BY <1>1 DEF LivesMean
    <2> QED
        BY <1>4, <2>1
<1>6. CASE current' = Idle /\ \A t \in alive' : Nr(current) < pid[t] => Waits(t)'
    <2>1. higher = {}
        BY <1>3, <1>5, <1>6 DEF Pid
    <2>2. cpuOf' = 0
        BY <1>3, <1>6 DEF Nr
    <2> QED
        BY <1>2, <2>1, <2>2
<1>7. CASE /\ current' \in alive' /\ ~Waits(current)' /\ Nr(current) < pid[current']
           /\ \A t \in alive' : Nr(current) < pid[t] /\ ~Waits(t)' => pid[current'] <= pid[t]
    <2>1. Idle \notin alive'
        BY <1>1 DEF SchedInv, TypeOK, TaskTypeOK
    <2>2. cpuOf' = pid[current']
        BY <1>3, <1>4, <1>7, <2>1 DEF Nr
    <2>3. pid[current'] \in higher
        <3>1. lifeOf'[pid[current']] = "runnable"
            BY <1>4, <1>7 DEF Waits
        <3> QED
            BY <1>3, <1>4, <1>7, <3>1 DEF Pid, Nr, SchedInv, TypeOK, TaskTypeOK
    <2>4. \A q \in higher : pid[current'] <= q
        BY <1>3, <1>5, <1>7 DEF Pid
    <2>5. \A p, q \in higher : p <= q /\ q <= p => p = q
        BY DEF Pid
    <2> QED
        BY <1>2, <2>2, <2>3, <2>4, <2>5
<1> QED
    BY <1>6, <1>7 DEF SwitchDoes

\* A handler that hands the processor over reschedules.
LEMMA HandsOverLife ==
    ASSUME SchedInv, [Next]_vars, NEW now, NEW fl, NEW wt, NEW dl, NEW ax,
           HandsOver(now, fl, wt, dl, ax)
    PROVE  Life!Next
<1> USE SchedAssumption
<1> DEFINE fate == IF current = Idle THEN "runnable" ELSE lifeOf'[cpuOf]
           up == {p \in Pid : lifeOf[p] = "blocked" /\ lifeOf'[p] = "runnable" /\ p # cpuOf}
           after == [p \in Pid |-> IF p = cpuOf THEN fate
                                   ELSE IF p \in up THEN "runnable" ELSE lifeOf[p]]
<1>1. LivesMean /\ LivesMean' /\ SchedInv'
    BY LivesReadBoth
<1>2. PICK woken : SwitchDoes(now, fl, wt, dl, woken)
    BY SwitchEffect DEF HandsOver
<1>3. /\ alive' \subseteq alive /\ lastPid' = lastPid
      /\ \A t \in alive' : pid'[t] = pid[t]
      /\ \A t \in alive : t \notin alive' => t = current
    BY <1>2 DEF SwitchDoes, HandsOver, SwitchArgs, SchedInv, TypeOK, TaskTypeOK, Slot
<1>4. /\ cpuOf = Nr(current) /\ cpuOf' = (Nr(current))'
      /\ current \in alive \cup {Idle}
      /\ current # Idle => cpuOf = pid[current] /\ cpuOf \in Pid /\ cpuOf <= lastPid
      /\ current = Idle => cpuOf = 0
    BY <1>1 DEF LivesMean, SchedInv, CpuOwner, Nr, QueueOrder, Pid
<1>5. \A t, u \in alive : pid[t] = pid[u] => t = u
    BY DEF SchedInv, QueueOrder
<1>6. ASSUME NEW p \in Pid, p # cpuOf
      PROVE  lifeOf'[p] = after[p]
    <2>1. CASE lastPid < p
        BY <1>1, <1>3, <1>6, <2>1 DEF LivesMean, Pid, SchedInv, TypeOK, TaskTypeOK
    <2>2. CASE p <= lastPid /\ \A t \in alive : pid[t] # p
        <3>1. lifeOf[p] = "gone"
            BY <1>1, <2>2 DEF LivesMean, Pid, SchedInv, TypeOK, TaskTypeOK
        <3>2. lifeOf'[p] = "gone"
            BY <1>1, <1>3, <2>2 DEF LivesMean, Pid, SchedInv, TypeOK, TaskTypeOK
        <3> QED
            BY <1>6, <3>1, <3>2
    <2>3. ASSUME NEW t \in alive, pid[t] = p
          PROVE  lifeOf'[p] = after[p]
        <3>1. t # current /\ t \in alive' /\ t \in Task
            BY <1>3, <1>4, <1>6, <2>3 DEF SchedInv, TypeOK, TaskTypeOK
        <3>2. fl[t] = flag[t]
            BY <3>1 DEF HandsOver
        <3>3. Waits(t)' => Waits(t)
            BY <1>2, <3>1, <3>2 DEF SwitchDoes, Waits
        <3>4. lifeOf[p] = IF Waits(t) THEN "blocked" ELSE "runnable"
            BY <1>1, <2>3 DEF LivesMean
        <3>5. lifeOf'[p] = IF Waits(t)' THEN "blocked" ELSE "runnable"
            BY <1>1, <1>3, <2>3, <3>1 DEF LivesMean
        <3> QED
            BY <1>6, <3>3, <3>4, <3>5
    <2> QED
        BY <2>1, <2>2, <2>3 DEF Pid, SchedInv, TypeOK, TaskTypeOK
<1>7. ASSUME NEW p \in Pid, p = cpuOf
      PROVE  lifeOf'[p] = after[p]
    BY <1>4, <1>7 DEF Pid
<1>8. lifeOf' = after
    <2>1. lifeOf' = [p \in Pid |-> lifeOf'[p]]
        BY <1>1 DEF LivesMean
    <2> QED
        BY <1>6, <1>7, <2>1, SameLives
<1>9. fate \in {"runnable", "blocked", "gone"}
    BY <1>1, <1>3, <1>4 DEF LivesMean, Pid, SchedInv, TypeOK, TaskTypeOK
<1>10. fate = "gone" => cpuOf # 1
    <2> SUFFICES ASSUME fate = "gone" PROVE cpuOf # 1
        OBVIOUS
    <2>1. current \in alive /\ cpuOf = pid[current] /\ lifeOf'[cpuOf] = "gone"
        BY <1>4
    <2>2. current \notin alive'
        BY <1>1, <1>3, <1>4, <2>1 DEF LivesMean
    <2>3. "STOP" \in fl[current]
        BY <1>2, <2>1, <2>2 DEF SwitchDoes
    <2> QED
        BY <2>1, <2>3 DEF HandsOver
<1>11. cpuOf' = Life!NextTurn(lifeOf')
    BY <1>2, TurnIsNext
<1>12. up \in SUBSET Life!Pids /\ up \subseteq {p \in Life!Pids : lifeOf[p] = "blocked"}
    BY DEF Life!Pids, Pid
<1>13. after = [p \in Life!Pids |-> IF p = cpuOf THEN fate
                                   ELSE IF p \in up THEN "runnable" ELSE lifeOf[p]]
    BY DEF Life!Pids, Pid
<1> HIDE DEF fate, up, after
<1>14. Life!Reschedule(fate, up)
    BY <1>8, <1>10, <1>11, <1>12, <1>13 DEF Life!Reschedule
<1> QED
    BY <1>9, <1>12, <1>14 DEF Life!Next

\* A life that changes in one pid is an EXCEPT.
LEMMA OneLife ==
    ASSUME LivesMean, LivesMean', NEW p \in Pid, NEW v,
           lifeOf'[p] = v, \A q \in Pid \ {p} : lifeOf'[q] = lifeOf[q]
    PROVE  lifeOf' = [lifeOf EXCEPT ![p] = v]
<1>1. lifeOf = [q \in Pid |-> lifeOf[q]] /\ lifeOf' = [q \in Pid |-> lifeOf'[q]]
    BY DEF LivesMean
<1>2. [lifeOf EXCEPT ![p] = v] = [q \in Pid |-> IF q = p THEN v ELSE lifeOf[q]]
    BY <1>1
<1>3. [q \in Pid |-> lifeOf'[q]] = [q \in Pid |-> IF q = p THEN v ELSE lifeOf[q]]
    OBVIOUS
<1> QED
    BY <1>1, <1>2, <1>3

\* fork and fexecve spawn the next pid.
LEMMA BearsLife ==
    ASSUME SchedInv, [Next]_vars, NEW c \in Task, Bears(c)
    PROVE  Life!Next
<1> USE SchedAssumption
<1> DEFINE n == lastPid + 1
<1>1. LivesMean /\ LivesMean' /\ SchedInv'
    BY LivesReadBoth
<1>2. /\ c \in Task \ alive /\ alive' = alive \cup {c} /\ lastPid' = n /\ n \in Pid /\ lastPid \in Pid
      /\ pid' = [pid EXCEPT ![c] = n] /\ flag' = [flag EXCEPT ![c] = {}]
      /\ pid \in [Task -> 0..MaxPid] /\ flag \in [Slot -> SUBSET Flag]
      /\ alive \subseteq Task
      /\ current # Idle /\ current' = current /\ current \in alive
      /\ \A t \in alive : pid[t] \in 1..lastPid
    BY DEF Bears, Enable, SchedInv, TypeOK, TaskTypeOK, CpuOwner, QueueOrder, Pid
<1>3. \A t \in alive : t # c /\ pid'[t] = pid[t] /\ flag'[t] = flag[t] /\ pid[t] # n
    BY <1>2 DEF Pid, Slot
<1>4. pid'[c] = n /\ ~Waits(c)'
    BY <1>2 DEF Waits, Slot
<1>5. lifeOf'[n] = "runnable"
    BY <1>1, <1>2, <1>4 DEF LivesMean
<1>6. ASSUME NEW q \in Pid \ {n}
      PROVE  lifeOf'[q] = lifeOf[q]
    <2>1. CASE lastPid < q
        <3>1. lifeOf[q] = "unborn"
            BY <1>1, <1>2, <2>1 DEF LivesMean, Pid
        <3>2. lastPid' < q
            BY <1>2, <1>6, <2>1 DEF Pid
        <3>3. lifeOf'[q] = "unborn"
            BY <1>1, <1>2, <3>2 DEF LivesMean, Pid
        <3> QED
            BY <3>1, <3>3
    <2>2. CASE q <= lastPid /\ \A t \in alive : pid[t] # q
        <3>1. lifeOf[q] = "gone"
            BY <1>1, <1>2, <2>2 DEF LivesMean, Pid
        <3>2. \A t \in alive' : pid'[t] # q
            BY <1>2, <1>3, <1>4, <1>6, <2>2
        <3>3. lifeOf'[q] = "gone"
            BY <1>1, <1>2, <2>2, <3>2 DEF LivesMean, Pid
        <3> QED
            BY <3>1, <3>3
    <2>3. ASSUME NEW t \in alive, pid[t] = q PROVE lifeOf'[q] = lifeOf[q]
        <3>1. Waits(t)' <=> Waits(t)
            BY <1>3 DEF Waits
        <3>2. lifeOf[q] = IF Waits(t) THEN "blocked" ELSE "runnable"
            BY <1>1, <2>3 DEF LivesMean
        <3>3. lifeOf'[q] = IF Waits(t)' THEN "blocked" ELSE "runnable"
            BY <1>1, <1>2, <1>3, <2>3 DEF LivesMean
        <3> QED
            BY <3>1, <3>2, <3>3
    <2> QED
        BY <1>2, <2>1, <2>2, <2>3 DEF Pid
<1>7. lifeOf' = [lifeOf EXCEPT ![n] = "runnable"]
    BY <1>1, <1>2, <1>5, <1>6, OneLife
<1>8. cpuOf # 0 /\ cpuOf' = cpuOf
    <2>1. cpuOf = pid[current] /\ cpuOf' = pid'[current]
        BY <1>2 DEF cpuOf
    <2> QED
        BY <1>2, <1>3, <2>1
<1>9. /\ lifeOf[n] = "unborn"
      /\ \A q \in Pid : q < n => lifeOf[q] # "unborn"
    <2>1. \A q \in Pid : lifeOf[q] = "unborn" <=> lastPid < q
        <3>1. \A t \in alive : lifeOf[pid[t]] # "unborn"
            BY <1>1 DEF LivesMean
        <3> QED
            BY <1>1, <1>2, <3>1 DEF LivesMean, Pid
    <2> QED
        BY <1>2, <2>1 DEF Pid
<1> HIDE DEF n
<1>10. Life!Spawn(n)
    BY <1>7, <1>8, <1>9 DEF Life!Spawn, Life!Pids, Pid
<1> QED
    BY <1>2, <1>10 DEF Life!Next, Life!Pids, Pid

\* When the list stays and only the flags of u lose something, u is unblocked
\* or nothing is to be seen.
LEMMA FewerWaitsLife ==
    ASSUME SchedInv, [Next]_vars, NEW u \in alive, UNCHANGED <<listVars, current>>,
           \A t \in alive \ {u} : flag'[t] = flag[t], flag'[u] \subseteq flag[u]
    PROVE  [Life!Next]_<<lifeOf, cpuOf>>
<1> USE SchedAssumption
<1>1. LivesMean /\ LivesMean'
    BY LivesReadBoth
<1>2. alive' = alive /\ pid' = pid /\ lastPid' = lastPid /\ current' = current
    BY DEF listVars
<1>3. cpuOf' = cpuOf
    BY <1>2 DEF cpuOf
<1>4. /\ pid[u] \in Pid /\ lastPid \in Pid
      /\ \A t \in alive : pid[t] = pid[u] => t = u
    BY <1>1 DEF LivesMean, SchedInv, QueueOrder, TypeOK, TaskTypeOK
<1>5. ASSUME NEW q \in Pid \ {pid[u]}
      PROVE  lifeOf'[q] = lifeOf[q]
    <2>1. CASE \A t \in alive : pid[t] # q
        BY <1>1, <1>2, <1>4, <2>1 DEF LivesMean, Pid
    <2>2. ASSUME NEW t \in alive, pid[t] = q PROVE lifeOf'[q] = lifeOf[q]
        BY <1>1, <1>2, <1>5, <2>2 DEF LivesMean, Waits
    <2> QED
        BY <2>1, <2>2
<1>6. /\ lifeOf[pid[u]] = IF Waits(u) THEN "blocked" ELSE "runnable"
      /\ lifeOf'[pid[u]] = IF Waits(u)' THEN "blocked" ELSE "runnable"
      /\ Waits(u)' => Waits(u)
    BY <1>1, <1>2 DEF LivesMean, Waits
<1>7. lifeOf' = [lifeOf EXCEPT ![pid[u]] = lifeOf'[pid[u]]]
    BY <1>1, <1>4, <1>5, OneLife
<1>8. CASE Waits(u) /\ ~Waits(u)'
    <2>1. Life!Unblock(pid[u])
        BY <1>3, <1>6, <1>7, <1>8 DEF Life!Unblock
    <2> QED
        BY <1>4, <2>1 DEF Life!Next, Life!Pids, Pid
<1>9. CASE Waits(u) <=> Waits(u)'
    <2>1. lifeOf'[pid[u]] = lifeOf[pid[u]]
        BY <1>6, <1>9
    <2>2. lifeOf' = lifeOf
        BY <1>1, <1>7, <2>1 DEF LivesMean
    <2> QED
        BY <1>3, <2>2
<1> QED
    BY <1>6, <1>8, <1>9

\* Every handler is a step of TaskLife or none.
LEMMA StepLife ==
    ASSUME SchedInv, [Next]_vars
    PROVE  [Life!Next]_<<lifeOf, cpuOf>>
<1>1. ASSUME NEW now, NEW fl, NEW wt, NEW dl, NEW ax, HandsOver(now, fl, wt, dl, ax)
      PROVE  Life!Next
    BY <1>1, HandsOverLife
<1>2. ASSUME NEW c \in Task, Bears(c) PROVE Life!Next
    BY <1>2, BearsLife
<1>3. ASSUME NEW u \in Task, Interrupts(u) PROVE [Life!Next]_<<lifeOf, cpuOf>>
    <2>1. /\ u \in alive /\ UNCHANGED <<listVars, current>>
          /\ \A t \in alive \ {u} : flag'[t] = flag[t]
          /\ flag'[u] \subseteq flag[u]
        BY <1>3 DEF Interrupts, SchedInv, TypeOK, TaskTypeOK, Slot
    <2> QED
        BY <2>1, FewerWaitsLife
<1>4. ASSUME NEW t \in Task, ReadDone(t) PROVE [Life!Next]_<<lifeOf, cpuOf>>
    <2>1. t \in alive
        BY <1>4 DEF ReadDone, SchedInv, CpuOwner, Slot
    <2>2. /\ UNCHANGED <<listVars, current>>
          /\ \A u \in alive \ {t} : flag'[u] = flag[u]
          /\ flag'[t] \subseteq flag[t]
        BY <1>4 DEF ReadDone, SchedInv, TypeOK, TaskTypeOK, Slot
    <2> QED
        BY <2>1, <2>2, FewerWaitsLife
<1>5. CASE Keeps
    <2>1. lifeOf' = lifeOf /\ cpuOf' = cpuOf
        BY <1>5 DEF Keeps, listVars, lifeOf, cpuOf
    <2> QED
        BY <2>1
<1> QED
    BY <1>1, <1>2, <1>3, <1>4, <1>5, HandlersDo

\* A machine that has booted has one task, init, that runs under pid 1.
LEMMA InitLife == Init => Life!Init
<1> SUFFICES ASSUME Init PROVE Life!Init
    OBVIOUS
<1>1. SchedInv
    BY InitInv
<1>2. LivesMean
    BY <1>1, LivesRead
<1>3. PICK t \in Task : /\ alive = {t} /\ lastPid = 1 /\ pid[t] = 1 /\ current = Idle
                        /\ flag = [x \in Slot |-> {}]
    BY DEF Init
<1>4. cpuOf = 0
    BY <1>3 DEF cpuOf
<1>5. ~Waits(t)
    BY <1>3 DEF Waits, Slot
<1>6. \A p \in Pid : lifeOf[p] = IF p = 1 THEN "runnable" ELSE "unborn"
    BY <1>2, <1>3, <1>5, SchedAssumption DEF LivesMean, Pid
<1>7. lifeOf = [p \in Pid |-> IF p = 1 THEN "runnable" ELSE "unborn"]
    BY <1>2, <1>6 DEF LivesMean
<1> QED
    BY <1>4, <1>7 DEF Life!Init, Life!Pids, Pid

\* The scheduler implements TaskLife for any number of slots and pids: through
\* every walk, unlinking and reuse of a slot, pids are given out in order and
\* live once, only the running task blocks or ends, and x86_task_switch gives
\* the turns in the order of the pids.
THEOREM SchedImplementsTaskLife == Spec => ImplementsTaskLife
<1>1. Init => Life!Init
    BY InitLife
<1>2. SchedInv /\ [Next]_vars => [Life!Next]_<<lifeOf, cpuOf>>
    BY StepLife
<1>3. Spec => []SchedInv
    BY Invariant
<1>4. Spec => Life!Init /\ [][Life!Next]_<<lifeOf, cpuOf>>
    BY <1>1, <1>2, <1>3, PTL DEF Spec
<1> QED
    BY <1>4 DEF ImplementsTaskLife, Life!Spec, Life!lifeVars
=============================================================================
