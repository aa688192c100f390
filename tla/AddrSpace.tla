----------------------------- MODULE AddrSpace -----------------------------
(***************************************************************************)
(* Address spaces (src/arch/x86/mm/space.c, map.c, user.c): directories,   *)
(* page tables and their counts, and the window through which the kernel   *)
(* reaches the pages of a program. A space is named by the page of its     *)
(* directory; a page of a space by its entries <<pdi, pti>>.               *)
(***************************************************************************)
EXTENDS PageMem, Sequences

UserPage == User \X Index

\* The table info of space d, its word for pdi, and the page table it names.
Info(m, d)       == At(m.page[d][InfoEntry]) - NFrames
Count(m, d, i)   == m.page[Info(m, d)][i]
Table(m, d, i)   == At(Count(m, d, i)) - NFrames
Entry(m, d, v)   == m.page[Table(m, d, v[1])][v[2]]
TableHere(m, d, i) == Has(m.page[d][i], PR) /\ ~Has(m.page[d][i], PS)
Mapped(m, d, v)  == TableHere(m, d, v[1]) /\ Has(Entry(m, d, v), PR)

-----------------------------------------------------------------------------
(***************************************************************************)
(* map.c.                                                                  *)
(***************************************************************************)

\* The first page of a table: the table is taken from the pool as it is.
AddTable(m, d, v, w) ==
    LET r == PoolAlloc(m)
    IN  IF ~Running(r.mem) THEN r.mem
        ELSE Put(Put(Put(r.mem, Info(m, d), v[1], Word(Vaddr(r.page), 1)),
                     d, v[1], Word(m.base + r.page, PR + WR + US)),
                 r.page, v[2], w)

\* One more page of a table, counted whatever the entry held before.
AddEntry(m, d, v, w) ==
    LET k == Check(m, Low(Count(m, d, v[1])) # 15, "count")
    IN  Put(Put(k, Info(m, d), v[1], Count(m, d, v[1]) + 1), Table(m, d, v[1]), v[2], w)

\* A page of mm_map_range_pages and mm_map_range_linear.
MapPage(m, d, v, frame, flags) ==
    IF TableHere(m, d, v[1])
    THEN AddEntry(m, d, v, Word(frame, flags + PR))
    ELSE AddTable(Check(m, ~Has(m.page[d][v[1]], PS), "huge"), d, v, Word(frame, flags + PR))

\* A page of mm_map_range: physical memory is allocated in any case, and lost
\* where a page is there already. MM_NADDR, all ones, is mapped like a page.
MapNew(m, d, v, flags, merge) ==
    LET r == AllocFrame(m)
        w == IF r.frame = Naddr THEN Word(Naddr, 15) ELSE Word(r.frame, flags + PR)
    IN  IF ~Running(m) THEN m
        ELSE IF ~TableHere(m, d, v[1]) THEN AddTable(r.mem, d, v, w)
        ELSE IF ~Mapped(m, d, v) THEN AddEntry(r.mem, d, v, w)
        ELSE Check(r.mem, merge, "present")

\* Mutant: the empty table is freed but the directory goes on naming it.
UmapPage_Kept(m, d, v) ==
    LET k == Put(Put(m, Table(m, d, v[1]), v[2], 0), Info(m, d), v[1], Count(m, d, v[1]) - 1)
    IN  IF Low(Count(k, d, v[1])) # 0 THEN k
        ELSE PoolFree(Put(k, Info(m, d), v[1], 0), At(Count(m, d, v[1])))

\* A page of mm_umap_range with MM_FLG_NOPHYS: the last one takes the table along.
UmapPage(m, d, v) ==
    LET k == Put(Put(m, Table(m, d, v[1]), v[2], 0), Info(m, d), v[1], Count(m, d, v[1]) - 1)
    IN  IF Low(Count(k, d, v[1])) # 0 THEN k
        ELSE PoolFree(Put(Put(k, d, v[1], 0), Info(m, d), v[1], 0), At(Count(m, d, v[1])))

\* mm_translate of an address that lies in no huge page.
Translate(m, d, v) == IF Mapped(m, d, v) THEN At(Entry(m, d, v)) ELSE Naddr

-----------------------------------------------------------------------------
(***************************************************************************)
(* user.c: a page is mapped for the kernel at the address it has for its   *)
(* program, read or written there, and unmapped.                           *)
(***************************************************************************)

InWindow(m, v, frame) == UmapPage(MapPage(m, MmKernel, v, frame, WR), MmKernel, v)

\* Memory that belongs to programs.
Private(m) == (Available \ PoolFrames(m)) \ {0}

Data(m, frame) == IF frame \in Private(m) THEN m.data[frame] ELSE Junk

\* A write to page memory that is no program's. The model stops there.
Store(m, frame, x) ==
    IF ~Running(m) THEN m
    ELSE IF frame \in Private(m) THEN [m EXCEPT !.data[frame] = x] ELSE Fail(m, "shared")

\* mm_memcpy_user_to_kernel and mm_strncpy_user_to_kernel, from one page.
FromUser(m, d, v) ==
    LET k == Check(m, Mapped(m, d, v), "address")
    IN  IF Running(k) THEN InWindow(k, v, Translate(m, d, v)) ELSE k

\* Mutant: the window is opened in the caller's space.
ToUser_Direct(m, d, v, x) ==
    LET k == Check(m, Mapped(m, d, v), "address")
    IN  IF Running(k) THEN Store(MapPage(k, d, v, Translate(m, d, v), WR), Translate(m, d, v), x) ELSE k

\* mm_memcpy_kernel_to_user, into one page.
ToUser(m, d, v, x) ==
    LET k == Check(m, Mapped(m, d, v), "address")
    IN  IF Running(k) THEN Store(InWindow(k, v, Translate(m, d, v)), Translate(m, d, v), x) ELSE k

-----------------------------------------------------------------------------
(***************************************************************************)
(* space.c.                                                                *)
(***************************************************************************)

\* mm_create_space: a directory that knows its own address and its table info.
CreateSpace(m) ==
    LET d == PoolAlloc(m)
        i == PoolAlloc(d.mem)
        k == [i.mem EXCEPT !.page[d.page] = Empty, !.page[i.page] = Empty]
    IN  [mem   |-> IF Running(i.mem)
                   THEN Put(Put(k, d.page, 0, Word(m.base + d.page, 0)),
                            d.page, InfoEntry, Word(Vaddr(i.page), 0))
                   ELSE i.mem,
         space |-> d.page]

\* mm_destroy_space: neither the tables nor the pages they map are given back.
DestroySpace(m, d) == PoolFree(PoolFree(m, At(m.page[d][InfoEntry])), Vaddr(d))

\* Mutant: the kernel's page table is shared, not copied.
CloneEntry_Shared(m, dst, src, i) == Put(m, dst, i, m.page[src][i])

\* A kernel entry of mm_space_clone: a huge page is copied, and so is a table,
\* with its count.
CloneEntry(m, dst, src, i) ==
    LET r == PoolAlloc(m)
    IN  IF ~Has(m.page[src][i], PR) THEN m
        ELSE IF Has(m.page[src][i], PS) THEN Put(m, dst, i, m.page[src][i])
        ELSE IF ~Running(r.mem) THEN r.mem
        ELSE LET k == [r.mem EXCEPT !.page[r.page] = m.page[Table(m, src, i)]]
             IN  Put(Put(k, Info(m, dst), i, Word(Vaddr(r.page), Low(Count(m, src, i)))),
                     dst, i, Word(m.base + r.page, PR + WR + US))

\* Kernel is {3, 4}.
CloneKernel(m, dst, src) == CloneEntry(CloneEntry(m, dst, src, 3), dst, src, 4)

\* Mutant: the child gets the parent's page itself.
ForkPage_Shared(m, dst, src, v) == MapPage(m, dst, v, At(Entry(m, src, v)), WR + US)

\* A page of mm_space_fork: the same address, with a copy of what it holds.
ForkPage(m, dst, src, v) ==
    LET k == MapNew(m, dst, v, (IF Has(Entry(m, src, v), WR) THEN WR ELSE 0) + US, FALSE)
    IN  IF ~Running(k) THEN k
        ELSE ToUser(FromUser(k, src, v), dst, v, Data(m, At(Entry(m, src, v))))

\* The user's pages in the order of their addresses: User is {1, 2}.
Entries  == InfoEntry + 1
PageAt(n) == <<1 + (n - 1) \div Entries, (n - 1) % Entries>>

\* mm_space_fork copies what is mapped. A present entry is enough.
ForkSpace(m, dst, src) ==
    LET forked[n \in 0..2 * Entries] ==
            IF n = 0 THEN CloneKernel(m, dst, src)
            ELSE LET k == forked[n - 1]
                 IN  IF Running(k) /\ Mapped(k, src, PageAt(n)) THEN ForkPage(k, dst, src, PageAt(n)) ELSE k
    IN  forked[2 * Entries]
=============================================================================
