------------------------------ MODULE PageMem ------------------------------
(***************************************************************************)
(* Physical pages and the pool that page directories and page tables come  *)
(* from (src/arch/x86/mm/phys.c, the first half of space.c). A handler     *)
(* does many of these steps in a row and nothing interrupts it, so each    *)
(* step maps the state of the memory to the next one, a record             *)
(*   used   the bits that are set in x86_physical_page_bitmap              *)
(*   hint   x86_physical_page_alloc_last, in pages                         *)
(*   base   where the 4 MiB page of x86_page_pool[0] begins                *)
(*   taken  the bits that are set in the bitmap of that pool               *)
(*   last   index_last of that pool                                        *)
(*   page   the words of the pages in the pool, and of mm_kernel           *)
(*   data   what programs have in the other pages                          *)
(*   bad    why the kernel has stopped, "" while it runs                   *)
(* A step that follows a panic changes nothing.                            *)
(***************************************************************************)
EXTENDS Integers, FiniteSets, FiniteSetsExt

CONSTANTS
    Bits,       \* bits in a word of the bitmaps: 32
    PoolWords,  \* words that describe a 4 MiB page: 32
    NFrames,    \* bound: pages of physical memory, at most X86_MM_PHYS_MAX
    Available,  \* the pages the boot loader calls available
    Value       \* what a program may keep in a page

ASSUME PageMemAssumption ==
    /\ Bits \in Nat \ {0} /\ PoolWords \in Nat \ {0} /\ NFrames \in Nat
    /\ Available \subseteq 0..NFrames - 1

Frame    == 0..NFrames - 1
Huge     == PoolWords * Bits
PoolPage == 0..Huge - 1
MmKernel == Huge   \* boot_page_directory, which is not in the pool
Junk     == "junk"

\* Directories, tables and table infos have entries 0..InfoEntry (1023): 0 is the
\* directory's own address, InfoEntry its table info, the user's entries precede
\* the kernel's.
User == {1, 2}
Kernel == {3, 4}
InfoEntry == 5
Index == 0..InfoEntry

\* A word is an address and 4 low bits: flags, or a count of pages.
PR == 1
WR == 2
US == 4
PS == 8
Word(at, low) == at * 16 + low
At(w)         == w \div 16
Low(w)        == w % 16
Has(w, bit)   == (w \div bit) % 2 = 1
Empty         == [i \in Index |-> 0]

\* MM_NADDR as an address, and the kernel's address of page p of the pool.
Naddr    == 2 * NFrames + Huge
Vaddr(p) == NFrames + p

Running(m) == m.bad = ""
Fail(m, why) == [m EXCEPT !.bad = why]
Check(m, cond, why) == IF Running(m) /\ ~cond THEN Fail(m, why) ELSE m
Put(m, p, i, w) == IF Running(m) THEN [m EXCEPT !.page[p][i] = w] ELSE m
PoolFrames(m) == m.base..m.base + Huge - 1

-----------------------------------------------------------------------------
(***************************************************************************)
(* phys.c.                                                                 *)
(***************************************************************************)

\* x86_mm_can_claim: what lies above the first 16 MiB, which are page 0 here.
CanClaim(f) == f > 0

\* x86_mm_phys_init: all pages are used but those that are added.
PhysInit == Frame \ {f \in Available : CanClaim(f)}

\* x86_mm_alloc_physical_page: the first free page from the word of the hint
\* on, else the first of all.
AllocFrame(m) ==
    LET free  == Frame \ m.used
        ahead == {f \in free : f >= (m.hint \div Bits) * Bits}
        f     == Min(IF ahead # {} THEN ahead ELSE free)
    IN  IF free = {} THEN [mem |-> m, frame |-> Naddr]
        ELSE [mem |-> [m EXCEPT !.used = @ \cup {f}, !.hint = f + 1], frame |-> f]

\* x86_mm_alloc_physical_page_huge: 4 MiB none of which is used. They are not
\* marked: only the hint moves behind them.
HugeFrames(used) ==
    {f \in Frame : f % Huge = 0 /\ f + Huge <= NFrames /\ (f..f + Huge - 1) \cap used = {}}
\* There is memory for the pool: nobody looks whether there was.
ASSUME HugeAssumption == HugeFrames(PhysInit) # {}

AllocHuge(m) ==
    LET f == Min(HugeFrames(m.used))
    IN  [m EXCEPT !.hint = f + Huge, !.base = f]

\* (mm_free_physical_page has one caller, mm_umap_range without MM_FLG_NOPHYS,
\* which nobody calls: a page of a program is never free again.)

-----------------------------------------------------------------------------
(***************************************************************************)
(* The pool.                                                               *)
(***************************************************************************)

\* Mutant: only the word index_last is searched.
PoolAlloc_OneWord(m) ==
    LET free == {p \in PoolPage \ m.taken : p \div Bits = m.last}
    IN  IF ~Running(m) \/ free = {} THEN [mem |-> Check(m, FALSE, "pool"), page |-> 0]
        ELSE [mem |-> [m EXCEPT !.taken = @ \cup {Min(free)}], page |-> Min(free)]

\* x86_page_pool_allocate: the first free page from the word index_last on.
\* Behind the last word the search goes on in index_last itself, which always
\* has a clear bit: the page that it returns lies beyond the pool, where
\* nothing is mapped, and the caller's first access to it is fatal. So neither
\* the words below index_last nor the other pools are ever searched.
PoolAlloc(m) ==
    LET free == {p \in PoolPage \ m.taken : p >= m.last * Bits}
    IN  IF ~Running(m) \/ free = {} THEN [mem |-> Check(m, FALSE, "pool"), page |-> 0]
        ELSE [mem  |-> [m EXCEPT !.taken = @ \cup {Min(free)}, !.last = Min(free) \div Bits],
              page |-> Min(free)]

\* x86_page_pool_free of a kernel address.
PoolFree(m, at) ==
    LET p == at - NFrames
    IN  IF ~Running(m) THEN m
        ELSE IF p \in PoolPage \cap m.taken THEN [m EXCEPT !.taken = @ \ {p}]
        ELSE Fail(m, "pool free")

-----------------------------------------------------------------------------
\* mm_init: the bitmaps; the pool is set up with its first page, the table
\* info of mm_kernel. Its 4 MiB page is mapped for the kernel. The contents of
\* the pool are what memory held.
MmInit ==
    LET m0 == [used |-> PhysInit, hint |-> 0, base |-> 0, taken |-> {}, last |-> 0, bad |-> "",
               page |-> [p \in PoolPage \cup {MmKernel} |-> Empty],
               data |-> [f \in Frame |-> Junk]]
        m1 == AllocHuge(m0)
        m2 == Put(m1, MmKernel, 4, Word(m1.base, PR + WR + PS))
        r  == PoolAlloc(m2)
    IN  Put(r.mem, MmKernel, InfoEntry, Word(Vaddr(r.page), 0))
=============================================================================
