------------------------------ MODULE Programs ------------------------------
(***************************************************************************)
(* The memory of the programs: what fork, execve, fexecve, exit and the    *)
(* copies of other system calls do to address spaces                       *)
(* (src/arch/x86/task/fork.c, task.c, src/sys/elf.c, syscall.c). A system  *)
(* call is one step: nothing interrupts it.                                *)
(***************************************************************************)
EXTENDS AddrSpace

CONSTANTS
    Task,       \* the tasks that may live at the same time
    Program,    \* the programs in /bin
    Initial,    \* and the first of them, /bin/init
    Sections,   \* of each program, in the order of its file: the pages of a
                \* section, and whether the file holds what belongs there
    Pointer,    \* bound: the pages that programs write to or pass to system calls
    MaxUsed     \* bound: pages of memory in use while programs still run

None == Huge + 1

\* (Programs are linked to addresses below the kernel; elf_load does not look.)
ASSUME ProgramsAssumption ==
    /\ Initial \in Program /\ Pointer \subseteq UserPage /\ MaxUsed \in Nat
    /\ Sections \in [Program -> Seq([pages : Seq(UserPage), loaded : BOOLEAN])]

VARIABLES
    mem,        \* the memory
    space       \* the directory of each task

memVars == <<mem, space>>

\* The page of the user stack that a program starts with.
Stack == <<2, 0>>

-----------------------------------------------------------------------------
\* A section of elf_load: its pages are mapped where they are not yet, then
\* its contents are copied, if the file has any.
LoadSection(m, d, s, prog) ==
    LET mapped[n \in 0..Len(s.pages)] ==
            IF n = 0 THEN m ELSE MapNew(mapped[n - 1], d, s.pages[n], WR + US, TRUE)
        filled[n \in 0..Len(s.pages)] ==
            IF n = 0 THEN mapped[Len(s.pages)] ELSE ToUser(filled[n - 1], d, s.pages[n], prog)
    IN  IF s.loaded THEN filled[Len(s.pages)] ELSE mapped[Len(s.pages)]

ElfLoad(m, d, prog) ==
    LET loaded[n \in 0..Len(Sections[prog])] ==
            IF n = 0 THEN m ELSE LoadSection(loaded[n - 1], d, Sections[prog][n], prog)
    IN  loaded[Len(Sections[prog])]

\* task_fexecve: a space of its own for the program, and a stack.
Loaded(m, prog) ==
    LET r == CreateSpace(m)
        k == ElfLoad(CloneKernel(r.mem, r.space, MmKernel), r.space, prog)
        s == IF Running(k) THEN MapNew(k, r.space, Stack, WR + US, FALSE) ELSE k
    IN  [mem |-> IF Running(r.mem) THEN ToUser(s, r.space, Stack, prog) ELSE r.mem,
         space |-> r.space]

\* What the memory of a kernel that has stopped holds is of no interest.
Settled(m) ==
    IF Running(m) THEN m
    ELSE [m EXCEPT !.page = [p \in DOMAIN @ |-> Empty], !.data = [f \in Frame |-> Junk]]

\* A space for the child, unless the kernel stops on the way.
Child(t, m, d) ==
    /\ mem' = Settled(m)
    /\ space' = IF Running(m) THEN [space EXCEPT ![t] = d] ELSE space

Runs(t) == Running(mem) /\ space[t] # None /\ Cardinality(mem.used) <= MaxUsed
Free(t) == space[t] = None

\* The name of the program is copied from the caller's stack.
Fexecve(t, c, prog) ==
    /\ Runs(t) /\ Free(c)
    /\ LET k == FromUser(mem, space[t], Stack)
           r == Loaded(k, prog)
       IN  IF Running(k) THEN Child(c, r.mem, r.space) ELSE Child(c, k, None)

\* execve keeps the space: pages of the old program stay where the new one has none.
Execve(t, prog) ==
    /\ Runs(t)
    /\ LET k == FromUser(mem, space[t], Stack)
           e == IF Running(k) THEN ElfLoad(k, space[t], prog) ELSE k
       IN  mem' = Settled(IF Running(e) THEN ToUser(e, space[t], Stack, prog) ELSE e)
    /\ UNCHANGED space

Fork(t, c) ==
    /\ Runs(t) /\ Free(c)
    /\ LET r == CreateSpace(mem)
       IN  Child(c, IF Running(r.mem) THEN ForkSpace(r.mem, r.space, space[t]) ELSE r.mem, r.space)

\* What nobody can read again: neither the pages of an ended program nor its
\* tables are handed out a second time.
Forgotten(m, d) ==
    LET frames == {Translate(mem, d, v) : v \in {w \in UserPage : Mapped(mem, d, w)}}
        tables == {Table(mem, d, i) : i \in {j \in User \cup Kernel : TableHere(mem, d, j)}}
    IN  [m EXCEPT !.data = [f \in Frame |-> IF f \in frames THEN Junk ELSE @[f]],
                  !.page = [p \in DOMAIN @ |-> IF p \in tables THEN Empty ELSE @[p]]]

\* task_destroy of a task that has stopped. Init may not.
Exit(t) ==
    /\ Runs(t) /\ \E u \in Task \ {t} : ~Free(u)
    /\ mem' = Forgotten(DestroySpace(mem, space[t]), space[t])
    /\ space' = [space EXCEPT ![t] = None]

\* A system call that stores into the page v of its caller. One that reads does
\* the same but for the store.
CallStores(t, v, x) ==
    /\ Runs(t)
    /\ mem' = Settled(ToUser(mem, space[t], v, x))
    /\ UNCHANGED space

\* The program itself stores: the processor looks its page up.
Writes(t, v, x) ==
    /\ Runs(t)
    /\ Mapped(mem, space[t], v) /\ Has(Entry(mem, space[t], v), US) /\ Has(Entry(mem, space[t], v), WR)
    /\ mem' = Settled(Store(mem, At(Entry(mem, space[t], v)), x))
    /\ UNCHANGED space

\* hw_init has mapped the registers of a device, kernel_main has started init.
Boot == Loaded(MapPage(MmInit, MmKernel, <<3, 0>>, 0, WR), Initial)

ProgramsInit ==
    /\ mem = Boot.mem
    /\ \E t \in Task : space = [u \in Task |-> IF u = t THEN Boot.space ELSE None]

\* Whatever the reason, the kernel never runs again; or the bound is reached.
Stopped == ~(Running(mem) /\ Cardinality(mem.used) <= MaxUsed) /\ UNCHANGED memVars

ProgramsNext ==
    \/ \E t, c \in Task : Fork(t, c) \/ \E prog \in Program : Fexecve(t, c, prog)
    \/ \E t \in Task : Exit(t) \/ \E prog \in Program : Execve(t, prog)
    \/ \E t \in Task, v \in Pointer :
        \E x \in Value : CallStores(t, v, x) \/ Writes(t, v, x)
    \/ Stopped

ProgramsSpec == ProgramsInit /\ [][ProgramsNext]_memVars

-----------------------------------------------------------------------------
Alive == {t \in Task : ~Free(t)}
Spaces == {MmKernel} \cup {space[t] : t \in Alive}

\* The pages of the pool that a space consists of.
Parts(d) ==
    (IF d = MmKernel THEN {} ELSE {d}) \cup {Info(mem, d)}
    \cup {Table(mem, d, i) : i \in {j \in User \cup Kernel : TableHere(mem, d, j)}}

\* Every variable keeps its type.
ProgramsTypeOK ==
    /\ space \in [Task -> PoolPage \cup {None}]
    /\ mem.used \subseteq Frame /\ mem.taken \subseteq PoolPage
    /\ mem.last \in 0..PoolWords - 1
    /\ mem.data \in [Frame -> Value \cup Program \cup {Junk}]
    /\ \A p \in PoolPage \cup {MmKernel} : mem.page[p] \in [Index -> Nat]

\* While the kernel runs, the directories, table infos and page tables of all
\* spaces are different pages of the pool, and none of them is free.
PoolOwned ==
    /\ ProgramsTypeOK
    /\ Running(mem) =>
        /\ \A d \in Spaces : Parts(d) \subseteq mem.taken
        /\ \A d, e \in Spaces : d # e => Parts(d) \cap Parts(e) = {}
        /\ \A d \in Spaces : \A i, j \in User \cup Kernel :
               i # j /\ TableHere(mem, d, i) /\ TableHere(mem, d, j) => Table(mem, d, i) # Table(mem, d, j)

\* No window is left open: between system calls the kernel's own space maps no
\* user address, and all spaces agree on what the kernel maps.
WindowClosed ==
    Running(mem) =>
        /\ \A i \in User : mem.page[MmKernel][i] = 0 /\ Count(mem, MmKernel, i) = 0
        /\ \A t \in Alive, i \in Kernel :
            IF TableHere(mem, MmKernel, i)
            THEN \A j \in Index : Entry(mem, space[t], <<i, j>>) = Entry(mem, MmKernel, <<i, j>>)
            ELSE mem.page[space[t]][i] = mem.page[MmKernel][i]

\* A page table that came from a directory or a table info that was given back,
\* and still has some of its words: more entries are present than were counted.
Present(d, i) == {j \in Index : Has(mem.page[Table(mem, d, i)][j], PR)}
Leftover(d, i) == TableHere(mem, d, i) /\ Low(Count(mem, d, i)) < Cardinality(Present(d, i))
\* No page above the pool is left, so pages of the pool's 4 MiB are handed out.
WrappedRound == mem.base + Huge..NFrames - 1 \subseteq mem.used

\* The pages a program can reach with the processor.
Reach(t) == {v \in UserPage : Mapped(mem, space[t], v) /\ Has(Entry(mem, space[t], v), US)}

\* Programs are kept apart from each other and from the kernel's tables, as
\* long as neither leftovers nor pages of the pool come into their spaces.
Isolated ==
    Running(mem) =>
        /\ \A t, u \in Alive : \A v \in Reach(t), w \in Reach(u) :
            /\ Translate(mem, space[t], v) = Translate(mem, space[u], w)
            /\ Translate(mem, space[t], v) \in Private(mem)
            => t = u /\ v = w
        /\ \A t \in Alive : \A v \in Reach(t) :
            Translate(mem, space[t], v) \in Private(mem) \/ Leftover(space[t], v[1]) \/ WrappedRound

\* The reasons that the kernel has to stop. The pool must then have no page from
\* index_last on. Three more are allowed as they come, without their causes: an
\* address that the program has no page at, a page that is present though nobody
\* mapped it, and a page table under a program that is loaded ("shared"). It never finds a
\* count of pages at its limit, a directory entry that is a huge page, or a page of
\* the pool that is free already.
StopExplained ==
    \/ mem.bad \in {"", "address", "present", "shared"}
    \/ mem.bad = "pool" /\ \A p \in PoolPage \ mem.taken : p < mem.last * Bits

-----------------------------------------------------------------------------
\* What a program has in its pages, but for pages of the pool that it was given
\* because a table was not clean or the search for a page came round.
View(t) ==
    LET own == {v \in Reach(t) : Translate(mem, space[t], v) \in Private(mem)}
    IN  [v \in own |-> mem.data[Translate(mem, space[t], v)]]

Abstract ==
    INSTANCE PrivateMem WITH
        Page <- UserPage, Text <- Program,
        alive <- IF Running(mem) THEN Alive ELSE {},
        view <- [t \in Task |-> IF Running(mem) /\ ~Free(t) THEN View(t) ELSE [v \in {} |-> Junk]]

\* The memory of programs is as private as PrivateMem promises.
ImplementsPrivateMem == Abstract!PrivateSpec
=============================================================================
