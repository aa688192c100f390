-------------------------- MODULE ProgramsProofs --------------------------
(***************************************************************************)
(* Theorems about Programs for every number of tasks, programs and pages:  *)
(* no page of the pool is ever used for two things, no window of a copy    *)
(* stays open, no page of a program is another's, the kernel stops only    *)
(* where it is known to, and programs find in their pages what PrivateMem  *)
(* promises. The invariants are about a memory and the set of spaces in    *)
(* it, so that they hold between any two steps of a handler.               *)
(***************************************************************************)
EXTENDS Programs, FiniteSetTheorems, WellFoundedInduction, TLAPS

\* What a page of a program may hold, and why the kernel may stop.
Cell == Value \cup Program \cup {Junk}
Reason == {"", "pool", "pool free", "count", "huge", "present", "address", "shared"}

Mem == [used : SUBSET Frame, hint : Nat, base : Frame, taken : SUBSET PoolPage, last : 0..PoolWords - 1,
        page : [PoolPage \cup {MmKernel} -> [Index -> Nat]], data : [Frame -> Cell], bad : Reason]

AnyPage == PoolPage \cup {MmKernel}
Tabled == User \cup Kernel

PresentIn(table) == {j \in Index : Has(table[j], PR)}

Row(m, d, i) ==
    \/ m.page[d][i] = 0 /\ Count(m, d, i) = 0
    \/ i \in Kernel /\ Has(m.page[d][i], PR) /\ Has(m.page[d][i], PS)
    \/ /\ TableHere(m, d, i) /\ Low(Count(m, d, i)) \in 1..15
       /\ i \in User => Low(Count(m, d, i)) <= Cardinality(PresentIn(m.page[Table(m, d, i)]))

\* The directories, table infos and tables of some spaces are in use, and no page is
\* two of them.
Owned(m, D) ==
    /\ D \subseteq PoolPage \cup {MmKernel}
    /\ \A d \in D : d \in m.taken \cup {MmKernel} /\ Info(m, d) \in m.taken
    /\ \A d, e \in D : Info(m, d) # e /\ (Info(m, d) = Info(m, e) => d = e)
    /\ \A d \in D, i \in Tabled : TableHere(m, d, i) =>
        /\ Table(m, d, i) \in m.taken
        /\ \A e \in D : Table(m, d, i) \notin {e, Info(m, e)}
        /\ \A e \in D, j \in Tabled :
               TableHere(m, e, j) /\ Table(m, d, i) = Table(m, e, j) => d = e /\ i = j
    /\ \A d \in D, i \in Tabled : Row(m, d, i)

Closed(m) == \A i \in User : m.page[MmKernel][i] = 0 /\ Count(m, MmKernel, i) = 0

Agrees(m, d, i) ==
    IF TableHere(m, MmKernel, i)
    THEN TableHere(m, d, i) /\ \A j \in Index : Entry(m, d, <<i, j>>) = Entry(m, MmKernel, <<i, j>>)
    ELSE m.page[d][i] = m.page[MmKernel][i]

\* No page of a program is named by two words, not even in pages of the pool that are
\* nobody's, or before it was allocated.
Distinct(m) ==
    \A p \in AnyPage, j \in Index : At(m.page[p][j]) \in Private(m) =>
        /\ At(m.page[p][j]) \in m.used
        /\ \A q \in AnyPage, l \in Index : At(m.page[q][l]) = At(m.page[p][j]) => q = p /\ l = j

\* Nor by what is copied into every space.
KernelPlain(m) ==
    \A i \in Kernel :
        /\ At(m.page[MmKernel][i]) \notin Private(m)
        /\ TableHere(m, MmKernel, i) => \A j \in Index : At(Entry(m, MmKernel, <<i, j>>)) \notin Private(m)

\* The search for a page has come round, or all pages between the pool and the hint are used.
Wrapped(m) == m.base + Huge..NFrames - 1 \subseteq m.used

Searched(m) ==
    /\ PhysInit \subseteq m.used /\ m.base % Huge = 0
    /\ \/ Wrapped(m)
       \/ m.base + Huge <= m.hint /\ \A f \in Frame : m.base + Huge <= f /\ f < m.hint => f \in m.used

Apart(m) == Distinct(m) /\ KernelPlain(m) /\ Searched(m)

\* A table counts no entry but pages of its program.
PrivateIn(m, table) == {j \in PresentIn(table) : At(table[j]) \in Private(m)}

Counted(m, d, i) ==
    TableHere(m, d, i) =>
        Wrapped(m) \/ Low(Count(m, d, i)) <= Cardinality(PrivateIn(m, m.page[Table(m, d, i)]))

Good(m, D) ==
    /\ MmKernel \in D /\ Owned(m, D) /\ Closed(m)
    /\ \A d \in D, i \in Kernel : Agrees(m, d, i)
    /\ Apart(m) /\ \A d \in D, i \in User : Counted(m, d, i)

\* Why the kernel stops.
Explained(m) ==
    \/ m.bad \in {"address", "present", "shared"}
    \/ m.bad = "pool" /\ \A p \in PoolPage \ m.taken : p < m.last * Bits

Safe(m, D) == m \in Mem /\ IF Running(m) THEN Good(m, D) ELSE Explained(m)

ProgramsInv ==
    /\ space \in [Task -> PoolPage \cup {None}]
    /\ Safe(mem, Spaces)
    /\ \A t, u \in Alive : space[t] = space[u] => t = u

-----------------------------------------------------------------------------
(***************************************************************************)
(* What programs find in their pages. A page v is space d's own if the     *)
(* entry there names a page of a program.                                  *)
(***************************************************************************)

Holds(m, d, v) == TableHere(m, d, v[1]) /\ At(Entry(m, d, v)) \in Private(m)
Seen(m, d, v)  == m.data[At(Entry(m, d, v))]

\* A word that names a page of a program is an entry for the user in a space that is alive.
Placed(m, D) ==
    \A p \in AnyPage, j \in Index : At(m.page[p][j]) \in Private(m) =>
        /\ Has(m.page[p][j], PR) /\ Has(m.page[p][j], US)
        /\ \E d \in D, i \in User : TableHere(m, d, i) /\ Table(m, d, i) = p

\* A page that is not in use holds what memory held at first.
Blanked(m) == \A f \in Private(m) \ m.used : m.data[f] = Junk

Neat(m, D) == Placed(m, D) /\ Blanked(m)

ProgramsTidy == ProgramsInv /\ (Running(mem) => Neat(mem, Spaces))

\* Nothing changes for space d at page v.
Stays(m, k, d, v) ==
    (Holds(k, d, v) <=> Holds(m, d, v)) /\ (Holds(m, d, v) => Seen(k, d, v) = Seen(m, d, v))


-----------------------------------------------------------------------------
(***************************************************************************)
(* Numbers and words.                                                      *)
(***************************************************************************)

\* The least of some naturals.
LEMMA LeastIn ==
    ASSUME NEW S \in SUBSET Nat, S # {}
    PROVE  Min(S) \in S /\ \A y \in S : Min(S) <= y
<1> DEFINE R == {ss \in Nat \X Nat : ss[1] < ss[2]}
<1>1. R = OpToRel(<, Nat)
    BY DEF OpToRel
<1>2. IsWellFoundedOn(R, Nat)
    BY <1>1, NatLessThanWellFounded
<1>3. \A x, y \in Nat : <<y, x>> \notin R => x <= y
    OBVIOUS
<1> HIDE DEF R
<1>4. \E x \in S : \A y \in S : <<y, x>> \notin R
    BY <1>2, WFMin
<1>5. \E x \in S : \A y \in S : x <= y
    BY <1>3, <1>4
<1> QED
    BY <1>5 DEF Min

\* What holds at first and is kept by each step of a loop, holds at its end.
LEMMA LoopKeeps ==
    ASSUME NEW S, NEW N \in Nat, NEW f, f[0] \in S,
           \A n \in 1..N : f[n - 1] \in S => f[n] \in S
    PROVE  f[N] \in S
<1> DEFINE B == {n \in 0..N : f[n] \notin S}
<1>1. SUFFICES ASSUME f[N] \notin S
               PROVE  FALSE
    OBVIOUS
<1>2. B \in SUBSET Nat /\ B # {}
    BY <1>1
<1> DEFINE R == {ss \in Nat \X Nat : ss[1] < ss[2]}
<1>3. R = OpToRel(<, Nat)
    BY DEF OpToRel
<1>4. IsWellFoundedOn(R, Nat)
    BY <1>3, NatLessThanWellFounded
<1>5. \A x, y \in Nat : y < x => <<y, x>> \in R
    OBVIOUS
<1> HIDE DEF R
<1>6. PICK x \in B : \A y \in B : <<y, x>> \notin R
    BY <1>2, <1>4, WFMin
<1>7. x # 0 /\ x \in 1..N /\ x - 1 \in 0..N
    BY <1>6
<1>8. x - 1 \notin B
    <2>1. x \in Nat /\ x - 1 \in Nat /\ x - 1 < x
        BY <1>7
    <2>2. <<x - 1, x>> \in R
        BY <1>5, <2>1
    <2> QED
        BY <1>6, <2>2
<1> QED
    BY <1>6, <1>7, <1>8

\* A loop whose steps stay in a set has a result.
HasLoop(S, N, b, F) ==
    \E f \in [0..N -> S] : f[0] = b /\ \A n \in 1..N : f[n] = F[<<n, f[n - 1]>>]

LEMMA LoopExists ==
    ASSUME NEW S, NEW N \in Nat, NEW b \in S, NEW F \in [(1..N) \X S -> S]
    PROVE  HasLoop(S, N, b, F)
<1> DEFINE Loop(M) == {f \in [0..M -> S] : f = [n \in 0..M |-> IF n = 0 THEN b ELSE F[<<n, f[n - 1]>>]]}
           h == [M \in 0..N |-> IF Loop(M) # {} THEN 1 ELSE 0]
<1>1. Loop(0) # {}
    <2>1. [n \in 0..0 |-> b] \in Loop(0)
        OBVIOUS
    <2> QED
        BY <2>1
<1>2. ASSUME NEW M \in 1..N, Loop(M - 1) # {}
      PROVE  Loop(M) # {}
    <2>1. PICK g \in [0..M - 1 -> S] : g = [n \in 0..M - 1 |-> IF n = 0 THEN b ELSE F[<<n, g[n - 1]>>]]
        BY <1>2
    <2> DEFINE f == [n \in 0..M |-> IF n = M THEN F[<<M, g[M - 1]>>] ELSE g[n]]
    <2>2. f \in [0..M -> S]
        BY <2>1
    <2>3. ASSUME NEW n \in 0..M
          PROVE  f[n] = IF n = 0 THEN b ELSE F[<<n, f[n - 1]>>]
        <3>1. CASE n = M
            <4>1. f[M] = F[<<M, g[M - 1]>>] /\ f[M - 1] = g[M - 1]
                OBVIOUS
            <4> HIDE DEF f
            <4>2. n # 0 /\ f[n] = F[<<n, f[n - 1]>>]
                BY <3>1, <4>1
            <4> QED
                BY <4>2
        <3>2. CASE n # M
            <4>1. n \in 0..M - 1 /\ f[n] = g[n] /\ (n # 0 => f[n - 1] = g[n - 1])
                BY <3>2
            <4>2. g[n] = IF n = 0 THEN b ELSE F[<<n, g[n - 1]>>]
                BY <2>1, <4>1
            <4> QED
                BY <4>1, <4>2
        <3> QED
            BY <3>1, <3>2
    <2>4. f = [n \in 0..M |-> IF n = 0 THEN b ELSE F[<<n, f[n - 1]>>]]
        BY <2>2, <2>3
    <2> QED
        BY <2>2, <2>4
<1> HIDE DEF Loop
<1>3. /\ h[0] = 1 /\ (h[N] = 1 <=> Loop(N) # {})
      /\ \A M \in 1..N : h[M - 1] = 1 => h[M] = 1
    <2>1. \A M \in 0..N : h[M] = 1 <=> Loop(M) # {}
        OBVIOUS
    <2>2. 0 \in 0..N /\ N \in 0..N /\ \A M \in 1..N : M - 1 \in 0..N /\ M \in 0..N
        OBVIOUS
    <2> HIDE DEF h
    <2> QED
        BY <1>1, <1>2, <2>1, <2>2
<1> HIDE DEF h
<1>4. h[N] = 1
    <2> DEFINE One == {1}
    <2>1. \A x : x \in One <=> x = 1
        OBVIOUS
    <2> HIDE DEF One
    <2>2. h[0] \in One /\ \A M \in 1..N : h[M - 1] \in One => h[M] \in One
        BY <1>3, <2>1
    <2>3. h[N] \in One
        BY <2>2, LoopKeeps
    <2> QED
        BY <2>1, <2>3
<1>5. PICK f \in [0..N -> S] : f = [n \in 0..N |-> IF n = 0 THEN b ELSE F[<<n, f[n - 1]>>]]
    BY <1>3, <1>4 DEF Loop
<1>6. f[0] = b /\ \A n \in 1..N : f[n] = F[<<n, f[n - 1]>>]
    <2>1. 0 \in 0..N /\ \A n \in 1..N : n \in 0..N /\ n # 0
        OBVIOUS
    <2> QED
        BY <1>5, <2>1
<1> QED
    BY <1>6 DEF HasLoop

\* A word and its parts.
LEMMA Words ==
    ASSUME NEW at \in Nat, NEW low \in 0..15
    PROVE  Word(at, low) \in Nat /\ At(Word(at, low)) = at /\ Low(Word(at, low)) = low
BY DEF Word, At, Low

LEMMA WordParts ==
    ASSUME NEW w \in Nat
    PROVE  /\ At(w) \in Nat /\ Low(w) \in 0..15
           /\ Low(w) # 15 => w + 1 \in Nat /\ At(w + 1) = At(w) /\ Low(w + 1) = Low(w) + 1
BY DEF At, Low

\* The flags that are looked at.
LEMMA Flags ==
    ASSUME NEW at \in Nat
    PROVE  /\ \A low \in {1, 3, 5, 7, 15} : Has(Word(at, low), PR)
           /\ \A low \in {1, 3, 5, 7} : ~Has(Word(at, low), PS)
           /\ Has(Word(at, 11), PR) /\ Has(Word(at, 11), PS)
           /\ \A low \in {5, 7, 15} : Has(Word(at, low), US)
           /\ ~Has(0, PR)
BY DEF Has, Word, PR, US, PS

\* The places in a space.
LEMMA Places ==
    /\ Index = 0..5 /\ InfoEntry = 5 /\ User = {1, 2} /\ Kernel = {3, 4}
    /\ Tabled \subseteq Index /\ 0 \notin Tabled /\ InfoEntry \notin Tabled
    /\ 0 \in Index /\ InfoEntry \in Index /\ User \subseteq Tabled /\ Kernel \subseteq Tabled
    /\ Tabled = User \cup Kernel /\ User \cap Kernel = {}
BY DEF Index, InfoEntry, User, Kernel, Tabled

LEMMA PoolSizes ==
    /\ Huge \in Nat \ {0} /\ PoolPage = 0..Huge - 1 /\ PoolPage \subseteq Nat /\ MmKernel = Huge
    /\ MmKernel \notin PoolPage /\ None \notin PoolPage \cup {MmKernel} /\ 0 \in PoolPage
    /\ NFrames \in Nat /\ Frame = 0..NFrames - 1 /\ Naddr \in Nat
    /\ \A p \in PoolPage : Vaddr(p) \in Nat /\ Vaddr(p) - NFrames = p
<1>1. Huge \in Nat \ {0}
    BY PageMemAssumption DEF Huge
<1> QED
    BY <1>1, PageMemAssumption DEF PoolPage, MmKernel, None, Frame, Naddr, Vaddr

\* The word of the bitmap that a page of the pool is in.
LEMMA WordOfPage ==
    ASSUME NEW p \in PoolPage
    PROVE  p \div Bits \in 0..PoolWords - 1
<1>1. /\ Bits \in Nat /\ Bits > 0 /\ PoolWords \in Nat /\ PoolWords > 0
      /\ p \in Nat /\ p < PoolWords * Bits
    BY PageMemAssumption, PoolSizes DEF Huge
<1>2. PICK q \in Nat : q = p \div Bits /\ q * Bits <= p
    BY <1>1
<1>3. ASSUME q >= PoolWords
      PROVE  FALSE
    <2>1. q * Bits >= PoolWords * Bits
        BY <1>1, <1>3
    <2> QED
        BY <1>1, <1>2, <2>1
<1> QED
    BY <1>1, <1>2, <1>3

-----------------------------------------------------------------------------
(***************************************************************************)
(* Single steps.                                                           *)
(***************************************************************************)

LEMMA MemTypes ==
    ASSUME NEW m \in Mem
    PROVE  /\ m.used \subseteq Frame /\ m.hint \in Nat /\ m.base \in Frame /\ m.base \in Nat
           /\ m.taken \subseteq PoolPage /\ m.last \in 0..PoolWords - 1
           /\ m.page \in [AnyPage -> [Index -> Nat]] /\ m.data \in [Frame -> Cell] /\ m.bad \in Reason
           /\ \A q \in AnyPage, j \in Index : m.page[q][j] \in Nat
<1>1. /\ m.used \subseteq Frame /\ m.hint \in Nat /\ m.base \in Frame
      /\ m.taken \subseteq PoolPage /\ m.last \in 0..PoolWords - 1
      /\ m.page \in [AnyPage -> [Index -> Nat]] /\ m.data \in [Frame -> Cell] /\ m.bad \in Reason
    BY DEF Mem, AnyPage
<1>2. m.base \in Nat
    BY <1>1, PoolSizes
<1>3. \A q \in AnyPage, j \in Index : m.page[q][j] \in Nat
    BY <1>1
<1> QED
    BY <1>1, <1>2, <1>3

\* What a write to a page leaves alone.
Alike(m, k) ==
    /\ k.used = m.used /\ k.hint = m.hint /\ k.base = m.base /\ k.data = m.data

\* Memory k is m but for one word.
IsPut(m, k, p, i, w) ==
    /\ k \in Mem /\ Running(k) /\ Alike(m, k) /\ k.taken = m.taken /\ k.last = m.last
    /\ k.page[p][i] = w
    /\ \A j \in Index : j # i => k.page[p][j] = m.page[p][j]
    /\ \A q \in AnyPage : q # p => k.page[q] = m.page[q]

LEMMA PutFields ==
    ASSUME NEW m \in Mem, Running(m), NEW p \in AnyPage, NEW i \in Index, NEW w \in Nat,
           NEW k, k = Put(m, p, i, w)
    PROVE  IsPut(m, k, p, i, w)
<1>1. k = [m EXCEPT !.page = [m.page EXCEPT ![p] = [m.page[p] EXCEPT ![i] = w]]]
    BY DEF Put
<1> DEFINE row == [m.page[p] EXCEPT ![i] = w]
           page == [m.page EXCEPT ![p] = row]
<1>2. m.page[p] \in [Index -> Nat]
    BY MemTypes
<1>3. row \in [Index -> Nat] /\ row[i] = w /\ \A j \in Index : j # i => row[j] = m.page[p][j]
    BY <1>2
<1>4. /\ page \in [AnyPage -> [Index -> Nat]] /\ page[p] = row
      /\ \A q \in AnyPage : q # p => page[q] = m.page[q]
    BY <1>3, MemTypes
<1> HIDE DEF row, page
<1>5. k = [m EXCEPT !.page = page]
    BY <1>1 DEF row, page
<1>6. k \in Mem /\ k.page = page /\ Alike(m, k) /\ k.taken = m.taken /\ k.last = m.last /\ k.bad = m.bad
    BY <1>4, <1>5 DEF Mem, AnyPage, Alike
<1> QED
    BY <1>3, <1>4, <1>6 DEF Running, IsPut

\* The kernel stops.
LEMMA FailFields ==
    ASSUME NEW m \in Mem, NEW why \in Reason \ {""}
    PROVE  /\ Fail(m, why) \in Mem /\ ~Running(Fail(m, why)) /\ Fail(m, why).bad = why
           /\ Fail(m, why).taken = m.taken /\ Fail(m, why).last = m.last
BY DEF Fail, Mem, Running

\* A page of the pool is taken, or there is none.
LEMMA PoolAllocFields ==
    ASSUME NEW m \in Mem, Running(m), NEW k, NEW p, k = PoolAlloc(m).mem, p = PoolAlloc(m).page
    PROVE  /\ k \in Mem /\ p \in PoolPage
           /\ ~Running(k) => Explained(k)
           /\ Running(k) => /\ p \notin m.taken /\ k.taken = m.taken \cup {p}
                            /\ k.page = m.page /\ Alike(m, k)
<1> DEFINE free == {q \in PoolPage \ m.taken : q >= m.last * Bits}
<1>1. CASE free = {}
    <2>1. k = Fail(m, "pool") /\ p = 0
        BY <1>1 DEF PoolAlloc, Check
    <2>2. "pool" \in Reason \ {""}
        BY DEF Reason
    <2> HIDE DEF free
    <2>3. k \in Mem /\ ~Running(k) /\ k.bad = "pool" /\ k.taken = m.taken /\ k.last = m.last
        <3> DEFINE f == Fail(m, "pool")
        <3>1. f \in Mem /\ ~Running(f) /\ f.bad = "pool" /\ f.taken = m.taken /\ f.last = m.last
            BY <2>2, FailFields
        <3> QED
            BY <2>1, <3>1, Zenon
    <2>4. \A q \in PoolPage \ k.taken : q < k.last * Bits
        <3>1. m.last * Bits \in Nat
            BY MemTypes, PageMemAssumption
        <3> QED
            BY <1>1, <2>3, <3>1, PoolSizes DEF free
    <2> QED
        BY <2>1, <2>3, <2>4, PoolSizes DEF Explained
<1>2. CASE free # {}
    <2>1. Min(free) \in free
        BY <1>2, LeastIn, PoolSizes
    <2>2. k = [m EXCEPT !.taken = m.taken \cup {Min(free)}, !.last = Min(free) \div Bits] /\ p = Min(free)
        BY <1>2 DEF PoolAlloc
    <2> HIDE DEF free
    <2>3. p \in PoolPage \ m.taken
        BY <2>1, <2>2 DEF free
    <2>4. p \div Bits \in 0..PoolWords - 1
        BY <2>3, WordOfPage
    <2>5. k = [m EXCEPT !.taken = m.taken \cup {p}, !.last = p \div Bits]
        BY <2>2
    <2>6. /\ k.taken = m.taken \cup {p} /\ k.page = m.page /\ Alike(m, k) /\ k.bad = m.bad
          /\ k.last = p \div Bits
        BY <2>5 DEF Alike, Mem
    <2>7. k \in Mem
        <3>1. m.taken \cup {p} \in SUBSET PoolPage
            BY <2>3, MemTypes
        <3> QED
            BY <2>4, <2>5, <3>1 DEF Mem
    <2> QED
        BY <2>3, <2>6, <2>7 DEF Running
<1> QED
    BY <1>1, <1>2

-----------------------------------------------------------------------------
(***************************************************************************)
(* What a change of some words does to the spaces.                         *)
(***************************************************************************)

\* Space e has the same table for i as before, if any.
Shape(m, k, e, i) ==
    /\ Info(k, e) = Info(m, e)
    /\ TableHere(k, e, i) => TableHere(m, e, i) /\ Table(k, e, i) = Table(m, e, i)

\* And nothing in it has changed, nor its count.
Same(m, k, e, i) ==
    /\ k.page[e][i] = m.page[e][i] /\ Info(k, e) = Info(m, e) /\ Count(k, e, i) = Count(m, e, i)
    /\ TableHere(m, e, i) => k.page[Table(m, e, i)] = m.page[Table(m, e, i)]

LEMMA SameMeans ==
    ASSUME NEW m, NEW k, NEW e, NEW i, Same(m, k, e, i)
    PROVE  /\ Shape(m, k, e, i) /\ (TableHere(k, e, i) <=> TableHere(m, e, i))
           /\ Row(m, e, i) => Row(k, e, i)
           /\ TableHere(m, e, i) => \A j \in Index : Entry(k, e, <<i, j>>) = Entry(m, e, <<i, j>>)
<1>1. /\ k.page[e][i] = m.page[e][i] /\ Info(k, e) = Info(m, e) /\ Count(k, e, i) = Count(m, e, i)
      /\ TableHere(m, e, i) => k.page[Table(m, e, i)] = m.page[Table(m, e, i)]
    BY DEF Same
<1>2. TableHere(k, e, i) <=> TableHere(m, e, i)
    BY <1>1 DEF TableHere
<1>3. Table(k, e, i) = Table(m, e, i)
    BY <1>1 DEF Table
<1>4. Row(m, e, i) => Row(k, e, i)
    BY <1>1, <1>2, <1>3 DEF Row
<1>5. ASSUME TableHere(m, e, i), NEW j \in Index
      PROVE  Entry(k, e, <<i, j>>) = Entry(m, e, <<i, j>>)
    BY <1>1, <1>3, <1>5 DEF Entry
<1> QED
    BY <1>1, <1>2, <1>3, <1>4, <1>5 DEF Shape

\* Two spaces go on agreeing.
LEMMA AgreesKept ==
    ASSUME NEW m, NEW k, NEW d, NEW i, Same(m, k, d, i), Same(m, k, MmKernel, i), Agrees(m, d, i)
    PROVE  Agrees(k, d, i)
<1>1. /\ k.page[d][i] = m.page[d][i] /\ k.page[MmKernel][i] = m.page[MmKernel][i]
      /\ TableHere(k, d, i) <=> TableHere(m, d, i)
      /\ TableHere(k, MmKernel, i) <=> TableHere(m, MmKernel, i)
    BY SameMeans DEF Same
<1>2. CASE TableHere(m, MmKernel, i)
    <2>1. TableHere(m, d, i) /\ \A j \in Index : Entry(m, d, <<i, j>>) = Entry(m, MmKernel, <<i, j>>)
        BY <1>2 DEF Agrees
    <2>2. \A j \in Index : /\ Entry(k, d, <<i, j>>) = Entry(m, d, <<i, j>>)
                           /\ Entry(k, MmKernel, <<i, j>>) = Entry(m, MmKernel, <<i, j>>)
        BY <1>2, <2>1, SameMeans
    <2> QED
        BY <1>1, <1>2, <2>1, <2>2 DEF Agrees
<1>3. CASE ~TableHere(m, MmKernel, i)
    BY <1>1, <1>3 DEF Agrees
<1> QED
    BY <1>2, <1>3

\* The tables are where they were, and their pages are still in use.
LEMMA OwnedStays ==
    ASSUME NEW D, NEW m, NEW k, Owned(m, D),
           \A e \in D : e \in k.taken \cup {MmKernel} /\ Info(m, e) \in k.taken,
           \A e \in D, j \in Tabled : /\ Shape(m, k, e, j) /\ Row(k, e, j)
                                      /\ TableHere(m, e, j) => Table(m, e, j) \in k.taken
    PROVE  Owned(k, D)
<1>1. \A e \in D : Info(k, e) = Info(m, e)
    BY Places DEF Shape
<1>2. \A e \in D, j \in Tabled : TableHere(k, e, j) =>
        TableHere(m, e, j) /\ Table(k, e, j) = Table(m, e, j)
    BY DEF Shape
<1>3. \A d \in D, i \in Tabled : TableHere(k, d, i) =>
        /\ Table(k, d, i) \in k.taken
        /\ \A e \in D : Table(k, d, i) \notin {e, Info(k, e)}
        /\ \A e \in D, j \in Tabled :
               TableHere(k, e, j) /\ Table(k, d, i) = Table(k, e, j) => d = e /\ i = j
    BY <1>1, <1>2 DEF Owned
<1>4. /\ D \subseteq PoolPage \cup {MmKernel}
      /\ \A d \in D : d \in k.taken \cup {MmKernel} /\ Info(k, d) \in k.taken
      /\ \A d, e \in D : Info(k, d) # e /\ (Info(k, d) = Info(k, e) => d = e)
    BY <1>1 DEF Owned
<1> QED
    BY <1>3, <1>4 DEF Owned

LEMMA OwnedKept ==
    ASSUME NEW D, NEW m, NEW k, Owned(m, D), m.taken \subseteq k.taken,
           \A e \in D, j \in Tabled : Shape(m, k, e, j) /\ Row(k, e, j)
    PROVE  Owned(k, D)
<1>1. \A e \in D : e \in k.taken \cup {MmKernel} /\ Info(m, e) \in k.taken
    BY DEF Owned
<1>2. \A e \in D, j \in Tabled : TableHere(m, e, j) => Table(m, e, j) \in k.taken
    BY DEF Owned
<1> QED
    BY <1>1, <1>2, OwnedStays

\* Where the words of a space and of its table info lie.
LEMMA OwnedPages ==
    ASSUME NEW D, NEW m \in Mem, Owned(m, D), NEW d \in D
    PROVE  /\ d \in AnyPage /\ Info(m, d) \in PoolPage /\ Info(m, d) \in AnyPage /\ Info(m, d) # d
           /\ \A i \in Tabled : TableHere(m, d, i) =>
                /\ Table(m, d, i) \in PoolPage /\ Table(m, d, i) \in AnyPage
                /\ Table(m, d, i) # d /\ Table(m, d, i) # Info(m, d)
<1>1. m.taken \subseteq PoolPage
    BY MemTypes
<1> QED
    BY <1>1 DEF Owned, AnyPage

\* A page that is nobody's may hold anything.
LEMMA OtherPage ==
    ASSUME NEW D, NEW m \in Mem, NEW k \in Mem, Owned(m, D), NEW p,
           p \notin m.taken, p # MmKernel,
           \A q \in AnyPage : q # p => k.page[q] = m.page[q],
           NEW e \in D, NEW i \in Tabled
    PROVE  Same(m, k, e, i)
<1>1. e # p /\ Info(m, e) # p /\ (TableHere(m, e, i) => Table(m, e, i) # p)
    BY DEF Owned
<1>2. /\ e \in AnyPage /\ Info(m, e) \in AnyPage
      /\ TableHere(m, e, i) => Table(m, e, i) \in AnyPage
    BY OwnedPages
<1>3. k.page[e] = m.page[e] /\ k.page[Info(m, e)] = m.page[Info(m, e)]
    BY <1>1, <1>2
<1>4. Info(k, e) = Info(m, e)
    BY <1>3 DEF Info
<1>5. Count(k, e, i) = Count(m, e, i)
    BY <1>3, <1>4 DEF Count
<1>6. TableHere(m, e, i) => k.page[Table(m, e, i)] = m.page[Table(m, e, i)]
    BY <1>1, <1>2
<1> QED
    BY <1>3, <1>4, <1>5, <1>6 DEF Same

\* Words that name no page of a program.
LEMMA PlainWords ==
    ASSUME NEW m \in Mem, NEW p \in PoolPage, NEW low \in 0..15
    PROVE  /\ At(Word(Vaddr(p), low)) \notin Private(m) /\ At(Word(m.base + p, low)) \notin Private(m)
           /\ 0 \notin Private(m) /\ At(0) \notin Private(m) /\ Naddr \notin Private(m)
           /\ Private(m) \subseteq Frame
<1>1. /\ m.base \in Nat /\ p \in Nat /\ Vaddr(p) \in Nat /\ NFrames \in Nat /\ Huge \in Nat
      /\ p <= Huge - 1
    BY PoolSizes, MemTypes
<1>2. m.base + p \in Nat
    BY <1>1
<1>3. At(Word(Vaddr(p), low)) = Vaddr(p) /\ At(Word(m.base + p, low)) = m.base + p
    BY <1>1, <1>2, Words
<1>4. Available \subseteq Frame /\ \A f \in Frame : f < NFrames
    BY PageMemAssumption DEF Frame
<1>5. Vaddr(p) \notin Private(m) /\ Naddr \notin Private(m) /\ Private(m) \subseteq Frame
    BY <1>1, <1>4 DEF Vaddr, Naddr, Private
<1>6. m.base + p \notin Private(m)
    BY <1>1 DEF Private, PoolFrames
<1>7. At(0) = 0 /\ 0 \notin Private(m)
    BY DEF At, Private
<1> QED
    BY <1>3, <1>5, <1>6, <1>7

\* No word names a page of a program that it did not name before.
Kept(m, k) ==
    /\ k.used = m.used /\ k.hint = m.hint /\ k.base = m.base
    /\ \A q \in AnyPage, j \in Index :
           At(k.page[q][j]) \in Private(m) => k.page[q][j] = m.page[q][j]

LEMMA KernelPlainKept ==
    ASSUME NEW m, NEW k, KernelPlain(m), k.base = m.base, \A i \in Kernel : Same(m, k, MmKernel, i)
    PROVE  KernelPlain(k)
<1>1. Private(k) = Private(m)
    BY DEF Private, PoolFrames
<1>2. \A i \in Kernel : /\ k.page[MmKernel][i] = m.page[MmKernel][i]
                        /\ TableHere(k, MmKernel, i) <=> TableHere(m, MmKernel, i)
                        /\ TableHere(m, MmKernel, i) =>
                              \A j \in Index : Entry(k, MmKernel, <<i, j>>) = Entry(m, MmKernel, <<i, j>>)
    BY SameMeans DEF Same
<1> QED
    BY <1>1, <1>2 DEF KernelPlain

LEMMA SearchedKept ==
    ASSUME NEW m, NEW k, Searched(m), k.used = m.used, k.hint = m.hint, k.base = m.base
    PROVE  Searched(k)
BY DEF Searched, Wrapped

LEMMA ApartKept ==
    ASSUME NEW m, NEW k, Apart(m), Kept(m, k), \A i \in Kernel : Same(m, k, MmKernel, i)
    PROVE  Apart(k)
<1>1. Private(k) = Private(m)
    BY DEF Kept, Private, PoolFrames
<1>2. Distinct(k)
    BY <1>1 DEF Apart, Distinct, Kept
<1>3. KernelPlain(k) /\ Searched(k)
    BY KernelPlainKept, SearchedKept DEF Apart, Kept
<1> QED
    BY <1>2, <1>3 DEF Apart

\* A count is still right when more pages are in use.
LEMMA CountedKept ==
    ASSUME NEW m, NEW k, NEW d, NEW i, Counted(m, d, i), Same(m, k, d, i),
           k.base = m.base, m.used \subseteq k.used
    PROVE  Counted(k, d, i)
<1>1. Private(k) = Private(m)
    BY DEF Private, PoolFrames
<1>2. Wrapped(m) => Wrapped(k)
    BY DEF Wrapped
<1>3. /\ TableHere(k, d, i) <=> TableHere(m, d, i)
      /\ Count(k, d, i) = Count(m, d, i) /\ Table(k, d, i) = Table(m, d, i)
      /\ TableHere(m, d, i) => k.page[Table(m, d, i)] = m.page[Table(m, d, i)]
    BY SameMeans DEF Same, Table
<1>4. \A t : PrivateIn(k, t) = PrivateIn(m, t)
    BY <1>1 DEF PrivateIn
<1> QED
    BY <1>2, <1>3, <1>4 DEF Counted

\* Nothing but pages that are nobody's, and nothing of the pool is given back.
LEMMA GoodGrows ==
    ASSUME NEW D, NEW m \in Mem, NEW k \in Mem, Good(m, D), m.taken \subseteq k.taken,
           k.base = m.base, m.used \subseteq k.used, Apart(k),
           \A e \in D, i \in Tabled : Same(m, k, e, i)
    PROVE  Good(k, D)
<1>1. Owned(k, D)
    <2>1. \A e \in D, i \in Tabled : Shape(m, k, e, i) /\ Row(k, e, i)
        BY SameMeans DEF Good, Owned
    <2> QED
        BY <2>1, OwnedKept DEF Good
<1>2. Closed(k)
    BY Places DEF Good, Closed, Same
<1>3. \A d \in D, i \in Kernel : Agrees(k, d, i)
    BY AgreesKept, Places DEF Good
<1>4. \A d \in D, i \in User : Counted(k, d, i)
    BY CountedKept, Places DEF Good
<1> QED
    BY <1>1, <1>2, <1>3, <1>4 DEF Good

LEMMA GoodKept ==
    ASSUME NEW D, NEW m \in Mem, NEW k \in Mem, Good(m, D), m.taken \subseteq k.taken, Kept(m, k),
           \A e \in D, i \in Tabled : Same(m, k, e, i)
    PROVE  Good(k, D)
<1>1. Apart(k)
    BY ApartKept, Places DEF Good
<1> QED
    BY <1>1, GoodGrows DEF Kept

\* One word is written, and what it names no other word does.
Fresh(m, w) ==
    At(w) \in Private(m) =>
        At(w) \in m.used /\ \A q \in AnyPage, j \in Index : At(m.page[q][j]) # At(w)

LEMMA DistinctKept ==
    ASSUME NEW m, NEW k, Distinct(m), NEW p \in AnyPage, NEW i \in Index, NEW w, Fresh(m, w),
           k.used = m.used, k.base = m.base, k.page[p][i] = w,
           \A q \in AnyPage, j \in Index : q # p \/ j # i =>
               (At(k.page[q][j]) \in Private(m) => At(k.page[q][j]) = At(m.page[q][j]))
    PROVE  Distinct(k)
<1>1. Private(k) = Private(m)
    BY DEF Private, PoolFrames
<1>2. ASSUME NEW q \in AnyPage, NEW j \in Index, At(k.page[q][j]) \in Private(m)
      PROVE  At(k.page[q][j]) \in m.used
    BY <1>2 DEF Distinct, Fresh
<1>3. ASSUME NEW q \in AnyPage, NEW j \in Index, At(k.page[q][j]) \in Private(m),
             NEW r \in AnyPage, NEW l \in Index, At(k.page[r][l]) = At(k.page[q][j])
      PROVE  r = q /\ l = j
    <2>1. CASE (q # p \/ j # i) /\ (r # p \/ l # i)
        BY <1>3, <2>1 DEF Distinct
    <2>2. CASE (q = p /\ j = i) /\ (r # p \/ l # i)
        BY <1>3, <2>2 DEF Fresh
    <2>3. CASE (q # p \/ j # i) /\ (r = p /\ l = i)
        BY <1>3, <2>3 DEF Fresh
    <2> QED
        BY <2>1, <2>2, <2>3
<1> QED
    BY <1>1, <1>2, <1>3 DEF Distinct

\* The entry of page v in space d is w now, in the table that it had or in a new one.
Adds(m, k, D, d, v, w) ==
    /\ Alike(m, k) /\ TableHere(k, d, v[1])
    /\ \A e \in D, j \in Tabled : e # d \/ j # v[1] => Same(m, k, e, j)
    /\ \E p \in AnyPage :
        /\ Table(k, d, v[1]) = p /\ k.page[p][v[2]] = w
        /\ IF TableHere(m, d, v[1])
           THEN Table(m, d, v[1]) = p /\ \A j \in Index : j # v[2] => k.page[p][j] = m.page[p][j]
           ELSE p \notin m.taken \cup {MmKernel}
        /\ \A q \in AnyPage, j \in Index : q # p \/ j # v[2] =>
               (At(k.page[q][j]) \in Private(m) => k.page[q][j] = m.page[q][j])

\* The words that name a new table p in space d, and the table itself, are written.
NamesTable(m, k, d, i, p) ==
    /\ \A q \in AnyPage \ {d, Info(m, d), p} : k.page[q] = m.page[q]
    /\ \A j \in Index \ {i} : /\ k.page[d][j] = m.page[d][j]
                              /\ k.page[Info(m, d)][j] = m.page[Info(m, d)][j]
    /\ Has(k.page[d][i], PR) /\ ~Has(k.page[d][i], PS)
    /\ \E n \in 1..15 :
        /\ k.page[Info(m, d)][i] = Word(Vaddr(p), n)
        /\ i \in User => n <= Cardinality(PresentIn(k.page[p]))

LEMMA AddsTable ==
    ASSUME NEW D, NEW m \in Mem, NEW k \in Mem, Owned(m, D), NEW d \in D, NEW i \in Tabled,
           ~TableHere(m, d, i), NEW p \in PoolPage \ m.taken, k.taken = m.taken \cup {p},
           NamesTable(m, k, d, i, p)
    PROVE  /\ Owned(k, D)
           /\ TableHere(k, d, i) /\ Table(k, d, i) = p /\ Info(k, d) = Info(m, d)
           /\ Count(k, d, i) = k.page[Info(m, d)][i]
           /\ \A e \in D, j \in Tabled : e # d \/ j # i => Same(m, k, e, j)
<1>1. /\ p # d /\ p # Info(m, d) /\ d # Info(m, d) /\ d \in AnyPage /\ Info(m, d) \in AnyPage
      /\ p \in AnyPage
    <2>1. p # MmKernel /\ p \in AnyPage
        BY PoolSizes DEF AnyPage
    <2>2. d \in m.taken \cup {MmKernel} /\ Info(m, d) \in m.taken
        BY DEF Owned
    <2> QED
        BY <2>1, <2>2, OwnedPages
<1>2. Info(k, d) = Info(m, d)
    BY Places DEF NamesTable, Info
<1>3. TableHere(k, d, i)
    BY DEF NamesTable, TableHere
<1>4. Count(k, d, i) = k.page[Info(m, d)][i]
    BY <1>2 DEF Count
<1>5. PICK n \in 1..15 : /\ k.page[Info(m, d)][i] = Word(Vaddr(p), n)
                         /\ i \in User => n <= Cardinality(PresentIn(k.page[p]))
    BY DEF NamesTable
<1>6. /\ At(Count(k, d, i)) = Vaddr(p) /\ Low(Count(k, d, i)) = n
    <2>1. Vaddr(p) \in Nat /\ n \in 0..15
        BY PoolSizes
    <2> QED
        BY <1>4, <1>5, <2>1, Words
<1>7. Table(k, d, i) = p
    BY <1>6, PoolSizes DEF Table
<1>8. Row(k, d, i)
    BY <1>3, <1>5, <1>6, <1>7 DEF Row
<1>9. ASSUME NEW e \in D, NEW j \in Tabled, e # d \/ j # i
      PROVE  Same(m, k, e, j)
    <2>1. CASE e = d
        <3>1. j # i /\ j \in Index /\ k.page[d][j] = m.page[d][j]
              /\ k.page[Info(m, d)][j] = m.page[Info(m, d)][j]
            BY <1>9, <2>1, Places DEF NamesTable
        <3>2. Count(k, d, j) = Count(m, d, j)
            BY <1>2, <3>1 DEF Count
        <3>3. ASSUME TableHere(m, d, j)
              PROVE  k.page[Table(m, d, j)] = m.page[Table(m, d, j)]
            <4>1. Table(m, d, j) \in AnyPage /\ Table(m, d, j) \notin {d, Info(m, d), p}
                BY <3>3, OwnedPages DEF Owned
            <4> QED
                BY <4>1 DEF NamesTable
        <3> QED
            BY <1>2, <2>1, <3>1, <3>2, <3>3 DEF Same
    <2>2. CASE e # d
        <3>1. /\ e \in AnyPage \ {d, Info(m, d), p}
              /\ Info(m, e) \in AnyPage \ {d, Info(m, d), p}
            <4>1. e \in m.taken \cup {MmKernel} /\ Info(m, e) \in m.taken
                BY DEF Owned
            <4>2. e # Info(m, d) /\ Info(m, e) # d /\ Info(m, e) # Info(m, d)
                BY <2>2 DEF Owned
            <4>3. e # p /\ Info(m, e) # p
                BY <4>1, PoolSizes
            <4> QED
                BY <2>2, <4>2, <4>3, OwnedPages
        <3>2. k.page[e] = m.page[e] /\ k.page[Info(m, e)] = m.page[Info(m, e)]
            BY <3>1 DEF NamesTable
        <3>3. Info(k, e) = Info(m, e)
            BY <3>2 DEF Info
        <3>4. Count(k, e, j) = Count(m, e, j)
            BY <3>2, <3>3 DEF Count
        <3>5. ASSUME TableHere(m, e, j)
              PROVE  k.page[Table(m, e, j)] = m.page[Table(m, e, j)]
            <4>1. Table(m, e, j) \in AnyPage /\ Table(m, e, j) \notin {d, Info(m, d), p}
                BY <3>5, OwnedPages DEF Owned
            <4> QED
                BY <4>1 DEF NamesTable
        <3> QED
            BY <3>2, <3>3, <3>4, <3>5 DEF Same
    <2> QED
        BY <2>1, <2>2
<1>10. \A e \in D : Info(k, e) = Info(m, e)
    BY <1>2, <1>9, Places DEF Same
<1>11. \A e \in D, j \in Tabled : e # d \/ j # i =>
        /\ Row(k, e, j) /\ (TableHere(k, e, j) <=> TableHere(m, e, j))
        /\ TableHere(m, e, j) => Table(k, e, j) = Table(m, e, j)
    BY <1>9, SameMeans DEF Owned, Shape
<1>12. Owned(k, D)
    <2>1. \A e \in D : e # p /\ Info(m, e) # p
        BY PoolSizes DEF Owned
    <2>2. \A e \in D, j \in Tabled : TableHere(m, e, j) => Table(m, e, j) # p
        BY DEF Owned
    <2>3. \A e \in D, j \in Tabled : Row(k, e, j)
        BY <1>8, <1>11
    <2>4. \A e \in D, j \in Tabled : TableHere(k, e, j) =>
            \/ e = d /\ j = i /\ Table(k, e, j) = p
            \/ (e # d \/ j # i) /\ TableHere(m, e, j) /\ Table(k, e, j) = Table(m, e, j)
        BY <1>7, <1>11
    <2>5. ASSUME NEW a \in D, NEW l \in Tabled, TableHere(k, a, l)
          PROVE  /\ Table(k, a, l) \in k.taken
                 /\ \A e \in D : Table(k, a, l) \notin {e, Info(k, e)}
        BY <1>10, <2>1, <2>4, <2>5 DEF Owned
    <2>6. ASSUME NEW a \in D, NEW l \in Tabled, TableHere(k, a, l), NEW e \in D, NEW j \in Tabled,
                 TableHere(k, e, j), Table(k, a, l) = Table(k, e, j)
          PROVE  a = e /\ l = j
        BY <2>2, <2>4, <2>6 DEF Owned
    <2>7. /\ \A e \in D : e \in k.taken \cup {MmKernel} /\ Info(k, e) \in k.taken
          /\ \A a, e \in D : Info(k, a) # e /\ (Info(k, a) = Info(k, e) => a = e)
          /\ D \subseteq PoolPage \cup {MmKernel}
        BY <1>10 DEF Owned
    <2> QED
        BY <2>3, <2>5, <2>6, <2>7 DEF Owned
<1> QED
    BY <1>2, <1>3, <1>4, <1>7, <1>9, <1>12

LEMMA IndexFinite == IsFiniteSet(Index) /\ Cardinality(Index) = 6
<1>1. IsFiniteSet(0..5) /\ Cardinality(0..5) = (IF 0 > 5 THEN 0 ELSE 5 - 0 + 1)
    <2>1. 0 \in Int /\ 5 \in Int
        OBVIOUS
    <2> QED
        BY <2>1, FS_Interval, Zenon
<1> QED
    BY <1>1, Places

\* One more entry of a table that was not present.
LEMMA PresentGrows ==
    ASSUME NEW t \in [Index -> Nat], NEW u \in [Index -> Nat], NEW j \in Index,
           ~Has(t[j], PR), Has(u[j], PR), \A l \in Index : l # j => u[l] = t[l]
    PROVE  /\ Cardinality(PresentIn(u)) = Cardinality(PresentIn(t)) + 1
           /\ Cardinality(PresentIn(t)) \in 0..5
<1>1. PresentIn(u) = PresentIn(t) \cup {j} /\ j \notin PresentIn(t)
    BY DEF PresentIn
<1>2. IsFiniteSet(Index) /\ Cardinality(Index) = 6
    BY IndexFinite
<1>3. PresentIn(t) \subseteq Index /\ PresentIn(u) \subseteq Index
    BY DEF PresentIn
<1>4. /\ IsFiniteSet(PresentIn(t)) /\ Cardinality(PresentIn(u)) <= 6
      /\ Cardinality(PresentIn(t)) \in Nat
    BY <1>2, <1>3, FS_Subset, FS_CardinalityType
<1>5. Cardinality(PresentIn(u)) = Cardinality(PresentIn(t)) + 1
    BY <1>1, <1>4, FS_AddElement
<1> QED
    BY <1>4, <1>5

\* And one that is: a table has at least this one.
LEMMA PresentSome ==
    ASSUME NEW u \in [Index -> Nat], NEW j \in Index, Has(u[j], PR)
    PROVE  Cardinality(PresentIn(u)) \in Nat /\ 1 <= Cardinality(PresentIn(u))
<1>1. IsFiniteSet(Index)
    BY IndexFinite
<1>2. {j} \subseteq PresentIn(u) /\ PresentIn(u) \subseteq Index
    BY DEF PresentIn
<1>3. IsFiniteSet(PresentIn(u)) /\ Cardinality(PresentIn(u)) \in Nat
    BY <1>1, <1>2, FS_Subset, FS_CardinalityType
<1>4. Cardinality({j}) = 1 /\ Cardinality({j}) <= Cardinality(PresentIn(u))
    BY <1>2, <1>3, FS_Subset, FS_Singleton
<1> QED
    BY <1>3, <1>4

\* The same of the entries that are pages of a program.
LEMMA PrivateGrows ==
    ASSUME NEW m, NEW k, k.base = m.base, NEW t \in [Index -> Nat], NEW u \in [Index -> Nat], NEW j \in Index,
           ~Has(t[j], PR), Has(u[j], PR), At(u[j]) \in Private(m), \A l \in Index : l # j => u[l] = t[l]
    PROVE  /\ Cardinality(PrivateIn(k, u)) = Cardinality(PrivateIn(m, t)) + 1
           /\ Cardinality(PrivateIn(m, t)) \in Nat
<1>1. Private(k) = Private(m)
    BY DEF Private, PoolFrames
<1>2. PrivateIn(k, u) = PrivateIn(m, t) \cup {j} /\ j \notin PrivateIn(m, t)
    BY <1>1 DEF PresentIn, PrivateIn
<1>3. IsFiniteSet(Index) /\ PrivateIn(m, t) \subseteq Index
    BY IndexFinite DEF PrivateIn, PresentIn
<1>4. IsFiniteSet(PrivateIn(m, t)) /\ Cardinality(PrivateIn(m, t)) \in Nat
    BY <1>3, FS_Subset, FS_CardinalityType
<1> QED
    BY <1>2, <1>4, FS_AddElement

LEMMA PrivateSome ==
    ASSUME NEW m, NEW u \in [Index -> Nat], NEW j \in Index, Has(u[j], PR), At(u[j]) \in Private(m)
    PROVE  Cardinality(PrivateIn(m, u)) \in Nat /\ 1 <= Cardinality(PrivateIn(m, u))
<1>1. IsFiniteSet(Index)
    BY IndexFinite
<1>2. {j} \subseteq PrivateIn(m, u) /\ PrivateIn(m, u) \subseteq Index
    BY DEF PresentIn, PrivateIn
<1>3. IsFiniteSet(PrivateIn(m, u)) /\ Cardinality(PrivateIn(m, u)) \in Nat
    BY <1>1, <1>2, FS_Subset, FS_CardinalityType
<1>4. Cardinality({j}) = 1 /\ Cardinality({j}) <= Cardinality(PrivateIn(m, u))
    BY <1>2, <1>3, FS_Subset, FS_Singleton
<1> QED
    BY <1>3, <1>4

\* mm_map_range where there is a table: one more entry is present, and counted.
LEMMA AddEntryGood ==
    ASSUME NEW D, NEW m \in Mem, Running(m), Good(m, D), NEW d \in D \ {MmKernel},
           NEW v \in UserPage, TableHere(m, d, v[1]), ~Mapped(m, d, v), NEW w \in Nat, Has(w, PR),
           Fresh(m, w), Wrapped(m) \/ At(w) \in Private(m),
           NEW k, k = AddEntry(m, d, v, w)
    PROVE  k \in Mem /\ Running(k) /\ Good(k, D) /\ Adds(m, k, D, d, v, w)
<1> DEFINE i == v[1]
           c == Count(m, d, i)
           p == Table(m, d, i)
           b == Info(m, d)
           n == Put(m, b, i, c + 1)
<1>1. /\ i \in User /\ i \in Tabled /\ i \in Index /\ v[2] \in Index /\ d # MmKernel
      /\ Owned(m, D) /\ MmKernel \in D /\ Apart(m)
    BY Places DEF UserPage, Good
<1>2. /\ d \in AnyPage /\ b \in AnyPage /\ p \in AnyPage /\ p # d /\ p # b /\ b # d
    BY <1>1, OwnedPages
<1>3. c \in Nat
    BY <1>1, <1>2, MemTypes DEF Count
<1>4. m.page[p] \in [Index -> Nat] /\ ~Has(m.page[p][v[2]], PR)
    BY <1>2, MemTypes DEF Mapped, Entry
<1>5. Low(c) \in 1..15 /\ Low(c) <= Cardinality(PresentIn(m.page[p]))
    <2>1. Row(m, d, i)
        BY <1>1 DEF Owned
    <2>2. m.page[d][i] # 0
        BY Flags DEF TableHere
    <2>3. i \notin Kernel
        BY <1>1, Places
    <2> QED
        BY <1>1, <2>1, <2>2, <2>3 DEF Row
<1> HIDE DEF c, p, b, i
<1>6. n \in Mem /\ Running(n) /\ n.taken = m.taken /\ n.page[b][i] = c + 1 /\ Alike(m, n)
      /\ (\A j \in Index : j # i => n.page[b][j] = m.page[b][j])
      /\ (\A q \in AnyPage : q # b => n.page[q] = m.page[q])
    <2>1. c + 1 \in Nat
        BY <1>3
    <2>2. IsPut(m, n, b, i, c + 1)
        BY <1>1, <1>2, <2>1, PutFields
    <2> HIDE DEF n
    <2> QED
        BY <2>2 DEF IsPut
<1>7. n.page[p] = m.page[p] /\ n.page[d] = m.page[d]
    BY <1>2, <1>6
<1> HIDE DEF n
<1> DEFINE u == [m.page[p] EXCEPT ![v[2]] = w]
<1>8. u \in [Index -> Nat] /\ u[v[2]] = w /\ \A l \in Index : l # v[2] => u[l] = m.page[p][l]
    BY <1>1, <1>4
<1> HIDE DEF u
<1>9. /\ Cardinality(PresentIn(u)) = Cardinality(PresentIn(m.page[p])) + 1
      /\ Cardinality(PresentIn(m.page[p])) \in 0..5
    BY <1>1, <1>4, <1>8, PresentGrows
<1>10. /\ Low(c) # 15 /\ c + 1 \in Nat /\ At(c + 1) = At(c) /\ Low(c + 1) = Low(c) + 1
       /\ Low(c + 1) \in 1..15 /\ Low(c + 1) <= Cardinality(PresentIn(u))
    <2>1. Low(c) \in 1..5 /\ Low(c) # 15
        BY <1>5, <1>9
    <2>2. c + 1 \in Nat /\ At(c + 1) = At(c) /\ Low(c + 1) = Low(c) + 1
        BY <1>3, <2>1, WordParts
    <2> QED
        BY <1>5, <1>9, <2>1, <2>2
<1>11. /\ k \in Mem /\ Running(k) /\ k.taken = m.taken /\ k.page[p] = u /\ Alike(m, k)
       /\ \A q \in AnyPage : q # p => k.page[q] = n.page[q]
    <2>1. k = Put(n, p, v[2], w)
        BY <1>10 DEF AddEntry, Check, n, c, b, p, i
    <2>2. /\ k \in Mem /\ Running(k) /\ k.taken = m.taken /\ k.page[p][v[2]] = w /\ Alike(n, k)
          /\ (\A j \in Index : j # v[2] => k.page[p][j] = n.page[p][j])
          /\ (\A q \in AnyPage : q # p => k.page[q] = n.page[q])
        <3>1. IsPut(n, k, p, v[2], w)
            BY <1>1, <1>2, <1>6, <2>1, PutFields
        <3> QED
            BY <1>6, <3>1 DEF IsPut
    <2>3. k.page[p] \in [Index -> Nat]
        BY <1>2, <2>2, MemTypes
    <2>4. \A j \in Index : k.page[p][j] = u[j]
        BY <1>7, <1>8, <2>2
    <2>5. k.page[p] = u
        BY <1>8, <2>3, <2>4
    <2>6. Alike(m, k)
        BY <1>6, <2>2 DEF Alike
    <2> QED
        BY <2>2, <2>5, <2>6
<1>12. k.page[d] = m.page[d] /\ k.page[b] = n.page[b]
    BY <1>2, <1>7, <1>11
<1>13. Info(k, d) = b
    BY <1>12 DEF Info, b
<1>14. Count(k, d, i) = c + 1
    BY <1>6, <1>12, <1>13 DEF Count
<1>15. Table(k, d, i) = p
    BY <1>10, <1>14 DEF Table, p, c, Count
<1>16. Shape(m, k, d, i) /\ Row(k, d, i)
    <2>1. TableHere(m, d, i) /\ TableHere(k, d, i)
        BY <1>12 DEF TableHere, i
    <2> QED
        BY <1>10, <1>11, <1>12, <1>13, <1>14, <1>15, <2>1 DEF Shape, Row, b, p
<1>17. ASSUME NEW e \in D, NEW j \in Tabled, e # d \/ j # i
       PROVE  Same(m, k, e, j)
    <2>1. /\ e \in AnyPage /\ Info(m, e) \in AnyPage /\ e # p /\ Info(m, e) # p /\ e # b
          /\ e # d => Info(m, e) # b
          /\ TableHere(m, e, j) =>
                Table(m, e, j) \in AnyPage /\ Table(m, e, j) # p /\ Table(m, e, j) # b
        <3>1. TableHere(m, d, i) /\ Owned(m, D) /\ d \in D
            BY <1>1 DEF i
        <3> QED
            BY <1>1, <1>17, <3>1, OwnedPages DEF Owned, p, b
    <2>2. k.page[e] = m.page[e]
        BY <1>6, <1>11, <2>1
    <2>3. Info(k, e) = Info(m, e)
        BY <1>13, <2>1, <2>2 DEF Info
    <2>4. Count(k, e, j) = Count(m, e, j)
        <3>1. CASE e = d
            <4>1. j \in Index /\ j # i
                BY <1>17, <3>1, Places
            <4>2. k.page[b][j] = m.page[b][j]
                BY <1>6, <1>12, <4>1
            <4> QED
                BY <1>13, <3>1, <4>2 DEF Count, b
        <3>2. CASE e # d
            BY <1>6, <1>11, <2>1, <2>3, <3>2 DEF Count
        <3> QED
            BY <3>1, <3>2
    <2>5. TableHere(m, e, j) => k.page[Table(m, e, j)] = m.page[Table(m, e, j)]
        BY <1>6, <1>11, <2>1
    <2> QED
        BY <2>2, <2>3, <2>4, <2>5 DEF Same
<1>18. Owned(k, D)
    <2>1. \A e \in D, j \in Tabled : Shape(m, k, e, j) /\ Row(k, e, j)
        BY <1>1, <1>16, <1>17, SameMeans DEF Owned
    <2> QED
        BY <1>1, <1>11, <2>1, OwnedKept
<1>19. Closed(k)
    BY <1>1, <1>17, Places DEF Good, Closed, Same
<1>20. ASSUME NEW e \in D, NEW j \in Kernel
       PROVE  Agrees(k, e, j)
    <2>1. j # i /\ j \in Tabled
        BY <1>1, Places
    <2> QED
        BY <1>1, <1>17, <2>1, AgreesKept DEF Good
<1>21. Apart(k)
    <2>1. k.used = m.used /\ k.hint = m.hint /\ k.base = m.base
        BY <1>11 DEF Alike
    <2>2. k.page[p][v[2]] = w
        BY <1>8, <1>11
    <2>3. ASSUME NEW q \in AnyPage, NEW j \in Index, q # p \/ j # v[2]
          PROVE  At(k.page[q][j]) = At(m.page[q][j])
        <3>1. CASE q = p
            BY <1>8, <1>11, <2>3, <3>1
        <3>2. CASE q # p /\ ~(q = b /\ j = i)
            BY <1>6, <1>11, <3>2
        <3>3. CASE q = b /\ j = i
            <4>1. m.page[b][i] = c
                BY DEF c, b, Count
            <4> QED
                BY <1>6, <1>10, <1>12, <3>3, <4>1
        <3> QED
            BY <3>1, <3>2, <3>3
    <2>4. Distinct(k)
        BY <1>1, <1>2, <2>1, <2>2, <2>3, DistinctKept DEF Apart
    <2>5. \A j \in Kernel : Same(m, k, MmKernel, j)
        BY <1>1, <1>17, Places
    <2>6. KernelPlain(k) /\ Searched(k)
        BY <1>1, <2>1, <2>5, KernelPlainKept, SearchedKept DEF Apart
    <2> QED
        BY <2>4, <2>6 DEF Apart
<1>22. ASSUME NEW e \in D, NEW j \in User
       PROVE  Counted(k, e, j)
    <2>1. k.used = m.used /\ k.base = m.base /\ j \in Tabled /\ Counted(m, e, j)
        BY <1>11, Places DEF Alike, Good
    <2>2. CASE e # d \/ j # i
        BY <1>17, <2>1, <2>2, CountedKept
    <2>3. CASE e = d /\ j = i
        <3>1. CASE Wrapped(m)
            BY <2>1, <3>1 DEF Wrapped, Counted
        <3>2. CASE ~Wrapped(m)
            <4>1. At(u[v[2]]) \in Private(m) /\ Has(u[v[2]], PR)
                BY <1>8, <3>2
            <4>2. /\ Cardinality(PrivateIn(k, u)) = Cardinality(PrivateIn(m, m.page[p])) + 1
                  /\ Cardinality(PrivateIn(m, m.page[p])) \in Nat
                BY <1>1, <1>4, <1>8, <2>1, <4>1, PrivateGrows
            <4>3. Low(c) <= Cardinality(PrivateIn(m, m.page[p]))
                <5>1. TableHere(m, d, i) /\ Counted(m, d, i)
                    BY <2>1, <2>3 DEF i
                <5> QED
                    BY <3>2, <5>1 DEF Counted, c, p
            <4>4. Low(c + 1) <= Cardinality(PrivateIn(k, u))
                BY <1>5, <1>10, <4>2, <4>3
            <4> QED
                BY <1>11, <1>14, <1>15, <2>3, <4>4 DEF Counted
        <3> QED
            BY <3>1, <3>2
    <2> QED
        BY <2>2, <2>3
<1>23. Adds(m, k, D, d, v, w)
    <2>1. ASSUME NEW q \in AnyPage, NEW j \in Index, q # p \/ j # v[2], At(k.page[q][j]) \in Private(m)
          PROVE  k.page[q][j] = m.page[q][j]
        <3>1. CASE q = p
            BY <1>8, <1>11, <2>1, <3>1
        <3>2. CASE q # p /\ ~(q = b /\ j = i)
            BY <1>6, <1>11, <3>2
        <3>3. CASE q = b /\ j = i
            <4>1. At(k.page[q][j]) = At(c)
                BY <1>10, <1>12, <1>6, <3>3
            <4>2. At(c) - NFrames \in PoolPage /\ At(c) \in Nat
                <5>1. TableHere(m, d, i) /\ d \in D
                    BY DEF i
                <5> QED
                    BY <1>1, <1>3, <5>1, OwnedPages, WordParts DEF c, Table
            <4>3. At(c) \notin Frame
                BY <4>2, PoolSizes
            <4>4. Private(m) \subseteq Frame
                BY PageMemAssumption DEF Private, Frame
            <4> QED
                BY <2>1, <4>1, <4>3, <4>4
        <3> QED
            BY <3>1, <3>2, <3>3
    <2>2. TableHere(m, d, v[1]) /\ TableHere(k, d, v[1])
        BY <1>12 DEF TableHere
    <2>3. Table(k, d, v[1]) = p /\ Table(m, d, v[1]) = p
        BY <1>15 DEF p, i
    <2>4. k.page[p][v[2]] = w /\ \A j \in Index : j # v[2] => k.page[p][j] = m.page[p][j]
        BY <1>8, <1>11
    <2>5. \A e \in D, j \in Tabled : e # d \/ j # v[1] => Same(m, k, e, j)
        BY <1>17 DEF i
    <2> QED
        BY <1>2, <1>11, <2>1, <2>2, <2>3, <2>4, <2>5 DEF Adds
<1> QED
    BY <1>1, <1>11, <1>18, <1>19, <1>20, <1>21, <1>22, <1>23 DEF Good

-----------------------------------------------------------------------------
(***************************************************************************)
(* map.c and user.c.                                                       *)
(***************************************************************************)

LEMMA AllocFrameFields ==
    ASSUME NEW m \in Mem, NEW k, NEW f, k = AllocFrame(m).mem, f = AllocFrame(m).frame
    PROVE  /\ k \in Mem /\ f \in Nat
           /\ k.taken = m.taken /\ k.page = m.page /\ k.bad = m.bad /\ k.last = m.last /\ k.data = m.data
<1> DEFINE free == Frame \ m.used
           ahead == {g \in free : g >= (m.hint \div Bits) * Bits}
           pick == IF ahead # {} THEN ahead ELSE free
           x == Min(pick)
<1>1. CASE free = {}
    <2>1. k = m /\ f = Naddr
        BY <1>1 DEF AllocFrame
    <2> QED
        BY <2>1, PoolSizes
<1>2. CASE free # {}
    <2>1. k = [m EXCEPT !.used = m.used \cup {x}, !.hint = x + 1] /\ f = x
        BY <1>2 DEF AllocFrame
    <2>2. pick \in SUBSET Nat /\ pick # {} /\ pick \subseteq Frame
        BY <1>2, PoolSizes
    <2>3. x \in pick
        BY <2>2, LeastIn
    <2> HIDE DEF pick, x
    <2>4. x \in Frame /\ x \in Nat
        BY <2>2, <2>3
    <2>5. m.used \cup {x} \in SUBSET Frame /\ x + 1 \in Nat
        BY <2>4, MemTypes
    <2>6. k \in Mem
        BY <2>1, <2>5 DEF Mem
    <2>7. k.taken = m.taken /\ k.page = m.page /\ k.bad = m.bad /\ k.last = m.last /\ k.data = m.data
        BY <2>1 DEF Mem
    <2> QED
        BY <2>1, <2>4, <2>6, <2>7
<1> QED
    BY <1>1, <1>2

LEMMA Multiples ==
    ASSUME NEW a \in Nat, NEW b \in Nat \ {0}
    PROVE  /\ \E q \in Nat : q = a \div b /\ q * b <= a /\ a < q * b + b
           /\ a % b = 0 => \E q \in Nat : a = q * b
<1>1. a \in Int /\ b \in Int /\ b \in Nat /\ b > 0
    OBVIOUS
<1>2. ASSUME a % b = 0
      PROVE  \E q \in Nat : a = q * b
    <2>1. a \in Int /\ b \in Int /\ b > 0 /\ a % b = 0
        BY <1>1, <1>2
    <2>2. \A x, y \in Int : y > 0 /\ x % y = 0 => \E q \in Int : x = q * y
        OBVIOUS
    <2>3. PICK q \in Int : a = q * b
        BY <2>1, <2>2
    <2>4. q \in Nat
        BY <1>1, <2>3
    <2> QED
        BY <2>3, <2>4
<1>3. \E q \in Nat : q = a \div b /\ q * b <= a /\ a < q * b + b
    BY <1>1
<1> QED
    BY <1>2, <1>3

LEMMA BelowMultiple ==
    ASSUME NEW c \in Nat, NEW q \in Nat, NEW b \in Nat, q * b < c * b + b
    PROVE  q * b <= c * b
<1>1. CASE q <= c
    <2>1. PICK e \in Nat : c = q + e
        BY <1>1
    <2>2. c * b = q * b + e * b /\ e * b >= 0
        BY <2>1
    <2> QED
        BY <2>2
<1>2. CASE q > c
    <2>1. PICK e \in Nat : q = c + 1 + e
        BY <1>2
    <2>2. q * b = c * b + b + e * b /\ e * b >= 0
        BY <2>1
    <2> QED
        BY <2>2
<1> QED
    BY <1>1, <1>2

\* A page is used that was not, and the search for pages has come round if it is one
\* of the pool's.
LEMMA AllocFrameFresh ==
    ASSUME NEW m \in Mem, Apart(m), NEW k, NEW f, k = AllocFrame(m).mem, f = AllocFrame(m).frame
    PROVE  /\ k.base = m.base /\ m.used \subseteq k.used /\ Apart(k)
           /\ Wrapped(k) \/ f \in Private(k)
           /\ f \in Private(k) => f \in k.used /\ f \notin m.used
<1> DEFINE free == Frame \ m.used
           start == (m.hint \div Bits) * Bits
           ahead == {g \in free : g >= start}
           pick == IF ahead # {} THEN ahead ELSE free
           x == Min(pick)
           top == m.base + Huge
<1>1. /\ m.used \subseteq Frame /\ m.hint \in Nat /\ m.base \in Nat /\ Huge \in Nat \ {0} /\ top \in Nat
      /\ NFrames \in Nat /\ Frame = 0..NFrames - 1 /\ Frame \subseteq Nat
    BY MemTypes, PoolSizes
<1>2. Searched(m) /\ Distinct(m) /\ KernelPlain(m)
    BY DEF Apart
<1>3. CASE free = {}
    <2>1. k = m /\ f = Naddr
        BY <1>3 DEF AllocFrame
    <2>2. Wrapped(m)
        BY <1>1, <1>3 DEF Wrapped
    <2>3. Naddr \notin Private(m)
        BY PoolSizes, PlainWords
    <2> QED
        BY <2>1, <2>2, <2>3
<1>4. CASE free # {}
    <2>1. k = [m EXCEPT !.used = m.used \cup {x}, !.hint = x + 1] /\ f = x
        BY <1>4 DEF AllocFrame
    <2>2. start \in Nat /\ start <= m.hint /\ \A q \in Nat : q * Bits <= m.hint => q * Bits <= start
        <3>1. Bits \in Nat \ {0}
            BY PageMemAssumption
        <3>2. PICK c \in Nat : c = m.hint \div Bits /\ c * Bits <= m.hint /\ m.hint < c * Bits + Bits
            BY <1>1, <3>1, Multiples
        <3>3. ASSUME NEW q \in Nat, q * Bits <= m.hint
              PROVE  q * Bits <= c * Bits
            <4>1. q * Bits \in Nat /\ c * Bits \in Nat
                BY <3>1, <3>2
            <4>2. q * Bits < c * Bits + Bits
                BY <1>1, <3>1, <3>2, <3>3, <4>1
            <4> QED
                BY <3>1, <4>2, BelowMultiple
        <3>4. start = c * Bits
            BY <3>2
        <3> QED
            BY <3>1, <3>2, <3>3, <3>4
    <2>3. pick \in SUBSET Nat /\ pick # {} /\ pick \subseteq free
        BY <1>1, <1>4
    <2>4. x \in pick /\ \A y \in pick : x <= y
        BY <2>3, LeastIn
    <2> HIDE DEF x, start, top
    <2>5. x \in Frame /\ x \in Nat /\ x \notin m.used
        BY <1>1, <2>3, <2>4
    <2>6. /\ k.used = m.used \cup {x} /\ k.hint = x + 1 /\ k.base = m.base /\ k.page = m.page
        BY <2>1 DEF Mem
    <2>7. Private(k) = Private(m) /\ (Wrapped(m) => Wrapped(k))
        BY <2>6 DEF Private, PoolFrames, Wrapped
    <2>8. x \in Available \ {0}
        BY <1>2, <2>5 DEF Searched, PhysInit, CanClaim
    <2>9. ASSUME ~Wrapped(m)
          PROVE  x \in Private(m) /\ top <= k.hint /\ \A g \in Frame : top <= g /\ g < k.hint => g \in k.used
        <3>1. top <= m.hint /\ \A g \in Frame : top <= g /\ g < m.hint => g \in m.used
            BY <1>2, <2>9 DEF Searched, top
        <3>2. top <= start
            <4>1. PICK q \in Nat : m.base = q * Huge
                <5>1. m.base % Huge = 0
                    BY <1>2 DEF Searched
                <5> QED
                    BY <1>1, <5>1, Multiples
            <4>2. PoolWords \in Nat /\ Bits \in Nat /\ Huge = PoolWords * Bits
                BY PageMemAssumption DEF Huge
            <4>3. top = ((q + 1) * PoolWords) * Bits /\ (q + 1) * PoolWords \in Nat
                BY <4>1, <4>2 DEF top
            <4> QED
                BY <2>2, <3>1, <4>3
        <3>3. ahead # {}
            <4>1. SUFFICES ASSUME ahead = {}
                           PROVE  FALSE
                OBVIOUS
            <4>2. ASSUME NEW g \in top..NFrames - 1
                  PROVE  g \in m.used
                <5>1. g \in Frame
                    BY <1>1 DEF top
                <5>2. CASE g < m.hint
                    BY <3>1, <5>1, <5>2
                <5>3. CASE g >= m.hint
                    BY <1>1, <2>2, <4>1, <5>1, <5>3
                <5> QED
                    BY <1>1, <5>1, <5>2, <5>3
            <4> QED
                BY <2>9, <4>2 DEF Wrapped, top
        <3>4. x >= start
            BY <2>4, <3>3
        <3>5. x \notin PoolFrames(m)
            BY <1>1, <2>2, <2>5, <3>2, <3>4 DEF PoolFrames, top
        <3>6. ASSUME NEW g \in Frame, top <= g, g < x + 1
              PROVE  g \in m.used \cup {x}
            <4>1. CASE g < m.hint
                BY <3>1, <3>6, <4>1
            <4>2. CASE g >= m.hint /\ g # x
                <5>1. g >= start /\ g < x
                    BY <1>1, <2>2, <2>5, <3>6, <4>2
                <5>2. g \notin pick
                    BY <1>1, <2>4, <2>5, <5>1
                <5> QED
                    BY <3>3, <5>1, <5>2
            <4> QED
                BY <1>1, <4>1, <4>2
        <3> QED
            BY <1>1, <2>2, <2>5, <2>6, <2>8, <3>2, <3>4, <3>5, <3>6 DEF Private
    <2>10. Searched(k)
        BY <1>2, <2>6, <2>7, <2>9 DEF Searched, top
    <2>11. Distinct(k)
        BY <1>2, <2>6, <2>7 DEF Distinct
    <2>12. KernelPlain(k)
        <3>1. \A i \in Kernel : Same(m, k, MmKernel, i)
            BY <2>6 DEF Same, Info, Count
        <3> QED
            BY <1>2, <2>6, <3>1, KernelPlainKept
    <2> QED
        BY <2>1, <2>5, <2>6, <2>7, <2>9, <2>10, <2>11, <2>12 DEF Apart
<1> QED
    BY <1>3, <1>4

\* Page p has become a table of d.
IsTable(m, k, d, v, w, p) ==
    /\ p \in PoolPage \ m.taken /\ k.taken = m.taken \cup {p} /\ Alike(m, k)
    /\ NamesTable(m, k, d, v[1], p)
    /\ k.page[d][v[1]] = Word(m.base + p, 7) /\ k.page[Info(m, d)][v[1]] = Word(Vaddr(p), 1)
    /\ k.page[p][v[2]] = w /\ \A j \in Index : j # v[2] => k.page[p][j] = m.page[p][j]

\* A new table, or none is left.
LEMMA AddTableEffect ==
    ASSUME NEW D, NEW m \in Mem, Running(m), Owned(m, D), NEW d \in D, NEW v \in Tabled \X Index,
           NEW w \in Nat, Has(w, PR), NEW k, k = AddTable(m, d, v, w)
    PROVE  \/ k \in Mem /\ ~Running(k) /\ Explained(k)
           \/ /\ k \in Mem /\ Running(k)
              /\ \E p : IsTable(m, k, d, v, w, p)
<1> DEFINE i == v[1]
           b == Info(m, d)
           n == PoolAlloc(m).mem
           p == PoolAlloc(m).page
           n1 == Put(n, b, i, Word(Vaddr(p), 1))
           n2 == Put(n1, d, i, Word(m.base + p, PR + WR + US))
           n3 == Put(n2, p, v[2], w)
<1>1. i \in Tabled /\ i \in Index /\ v[2] \in Index
    BY Places
<1>2. /\ n \in Mem /\ p \in PoolPage /\ (~Running(n) => Explained(n))
      /\ Running(n) => p \notin m.taken /\ n.taken = m.taken \cup {p} /\ n.page = m.page /\ Alike(m, n)
    BY PoolAllocFields
<1>3. k = IF ~Running(n) THEN n ELSE n3
    BY DEF AddTable
<1>4. CASE ~Running(n)
    BY <1>2, <1>3, <1>4
<1>5. CASE Running(n)
    <2>1. /\ d \in AnyPage /\ b \in AnyPage /\ p \in AnyPage /\ b # d /\ p # d /\ p # b
        <3>1. p # MmKernel /\ p \in AnyPage /\ p \notin m.taken
            BY <1>2, <1>5, PoolSizes DEF AnyPage
        <3>2. d \in m.taken \cup {MmKernel} /\ b \in m.taken
            BY DEF Owned
        <3>3. d \in AnyPage /\ b \in AnyPage /\ b # d
            BY OwnedPages
        <3> QED
            BY <3>1, <3>2, <3>3, Zenon
    <2>2. Word(Vaddr(p), 1) \in Nat /\ Word(m.base + p, PR + WR + US) \in Nat
        <3>1. Vaddr(p) \in Nat /\ m.base \in Nat /\ p \in Nat
            BY <1>2, PoolSizes, MemTypes
        <3>2. m.base + p \in Nat /\ PR + WR + US \in 0..15 /\ 1 \in 0..15
            BY <3>1 DEF PR, WR, US
        <3>3. Word(Vaddr(p), 1) \in Nat
            BY <3>1, <3>2, Words
        <3>4. Word(m.base + p, PR + WR + US) \in Nat
            BY <3>2, Words
        <3> QED
            BY <3>3, <3>4
    <2> HIDE DEF i, b, n, p, n1, n2, n3
    <2>3. IsPut(n, n1, b, i, Word(Vaddr(p), 1))
        BY <1>1, <1>2, <1>5, <2>1, <2>2, PutFields DEF n1
    <2>4. n1 \in Mem /\ Running(n1)
        BY <2>3 DEF IsPut
    <2>5. IsPut(n1, n2, d, i, Word(m.base + p, PR + WR + US))
        BY <1>1, <2>1, <2>2, <2>4, PutFields DEF n2
    <2>6. n2 \in Mem /\ Running(n2)
        BY <2>5 DEF IsPut
    <2>7. IsPut(n2, n3, p, v[2], w)
        BY <1>1, <2>1, <2>6, PutFields DEF n3
    <2>8. k = n3
        BY <1>3, <1>5
    <2>9. /\ k.page[b] = n1.page[b] /\ k.page[d] = n2.page[d] /\ n2.page[b] = n1.page[b]
          /\ n1.page[d] = n.page[d]
        BY <2>1, <2>3, <2>5, <2>7, <2>8 DEF IsPut
    <2>10. k.page[b][i] = Word(Vaddr(p), 1) /\ k.page[d][i] = Word(m.base + p, PR + WR + US)
        BY <2>3, <2>5, <2>9 DEF IsPut
    <2>11. k \in Mem /\ Running(k) /\ k.taken = m.taken \cup {p}
        BY <1>2, <1>5, <2>3, <2>5, <2>7, <2>8 DEF IsPut
    <2>12. \A j \in Index \ {i} : k.page[d][j] = m.page[d][j] /\ k.page[b][j] = m.page[b][j]
        BY <1>2, <1>5, <2>1, <2>3, <2>5, <2>9 DEF IsPut
    <2>13. \A q \in AnyPage \ {d, b, p} : k.page[q] = m.page[q]
        BY <1>2, <1>5, <2>3, <2>5, <2>7, <2>8 DEF IsPut
    <2>14. Has(k.page[d][i], PR) /\ ~Has(k.page[d][i], PS)
        <3>1. PR + WR + US = 7 /\ m.base + p \in Nat
            BY <1>2, PoolSizes, MemTypes DEF PR, WR, US
        <3> QED
            BY <2>10, <3>1, Flags
    <2>15. Cardinality(PresentIn(k.page[p])) \in Nat /\ 1 <= Cardinality(PresentIn(k.page[p]))
        <3>1. k.page[p][v[2]] = w /\ k.page[p] \in [Index -> Nat]
            BY <2>1, <2>7, <2>8, <2>11, MemTypes DEF IsPut
        <3> QED
            BY <1>1, <3>1, PresentSome
    <2>16. NamesTable(m, k, d, i, p)
        BY <2>10, <2>12, <2>13, <2>14, <2>15 DEF NamesTable, b
    <2>17. Alike(m, k)
        BY <1>2, <1>5, <2>3, <2>5, <2>7, <2>8 DEF IsPut, Alike
    <2>18. k.page[p][v[2]] = w /\ \A j \in Index : j # v[2] => k.page[p][j] = m.page[p][j]
        BY <1>2, <1>5, <2>1, <2>3, <2>5, <2>7, <2>8 DEF IsPut
    <2>19. k.page[d][i] = Word(m.base + p, 7)
        BY <2>10 DEF PR, WR, US
    <2>20. IsTable(m, k, d, v, w, p)
        BY <1>2, <1>5, <2>10, <2>11, <2>16, <2>17, <2>18, <2>19 DEF IsTable, i, b
    <2> QED
        BY <2>11, <2>20
<1> QED
    BY <1>4, <1>5

LEMMA TableDistinct ==
    ASSUME NEW D, NEW m \in Mem, NEW k, Owned(m, D), NEW d \in D, Distinct(m), NEW v \in Tabled \X Index,
           NEW w, Fresh(m, w), NEW p, IsTable(m, k, d, v, w, p)
    PROVE  /\ Distinct(k)
           /\ \A q \in AnyPage, j \in Index : q # p \/ j # v[2] =>
                  (At(k.page[q][j]) \in Private(m) => k.page[q][j] = m.page[q][j])
<1>1. /\ p \in AnyPage /\ p \in PoolPage /\ v[2] \in Index /\ k.used = m.used /\ k.base = m.base
      /\ k.page[p][v[2]] = w
    BY DEF IsTable, AnyPage, Alike
<1>2. /\ At(Word(m.base + p, 7)) \notin Private(m) /\ At(Word(Vaddr(p), 1)) \notin Private(m)
    <2>1. 7 \in 0..15 /\ 1 \in 0..15
        OBVIOUS
    <2> QED
        BY <1>1, <2>1, PlainWords
<1>3. ASSUME NEW q \in AnyPage, NEW j \in Index, q # p \/ j # v[2], At(k.page[q][j]) \in Private(m)
      PROVE  k.page[q][j] = m.page[q][j]
    <2>1. CASE q = p
        BY <1>3, <2>1 DEF IsTable
    <2>2. CASE q \in {d, Info(m, d)} /\ q # p
        BY <1>2, <1>3, <2>2 DEF IsTable, NamesTable
    <2>3. CASE q \notin {d, Info(m, d), p}
        BY <1>3, <2>3 DEF IsTable, NamesTable
    <2> QED
        BY <2>1, <2>2, <2>3
<1> QED
    BY <1>1, <1>3, DistinctKept

\* A user's page in a space that has no table for it.
LEMMA AddTableSafe ==
    ASSUME NEW D, NEW m \in Mem, Running(m), Good(m, D), NEW d \in D \ {MmKernel}, NEW v \in UserPage,
           ~TableHere(m, d, v[1]), NEW w \in Nat, Has(w, PR),
           Fresh(m, w), Wrapped(m) \/ At(w) \in Private(m), NEW k, k = AddTable(m, d, v, w)
    PROVE  Safe(k, D) /\ (Running(k) => Adds(m, k, D, d, v, w))
<1> DEFINE i == v[1]
<1>1. i \in User /\ i \in Tabled /\ v \in Tabled \X Index /\ Owned(m, D) /\ MmKernel \in D /\ Apart(m)
    BY Places DEF UserPage, Good
<1>2. \/ k \in Mem /\ ~Running(k) /\ Explained(k)
      \/ k \in Mem /\ Running(k) /\ \E p : IsTable(m, k, d, v, w, p)
    BY <1>1, AddTableEffect
<1> HIDE DEF i
<1>3. CASE k \in Mem /\ ~Running(k) /\ Explained(k)
    BY <1>3 DEF Safe
<1>4. ASSUME k \in Mem, Running(k), NEW p, IsTable(m, k, d, v, w, p)
      PROVE  Safe(k, D) /\ Adds(m, k, D, d, v, w)
    <2>1. /\ ~TableHere(m, d, i) /\ p \in PoolPage \ m.taken /\ k.taken = m.taken \cup {p}
          /\ NamesTable(m, k, d, i, p) /\ Alike(m, k)
        BY <1>4 DEF i, IsTable
    <2>2. /\ Owned(k, D)
          /\ TableHere(k, d, i) /\ Table(k, d, i) = p /\ Count(k, d, i) = k.page[Info(m, d)][i]
          /\ \A e \in D, j \in Tabled : e # d \/ j # i => Same(m, k, e, j)
        BY <1>1, <1>4, <2>1, AddsTable
    <2>3. Closed(k)
        BY <1>1, <2>2, Places DEF Good, Closed, Same
    <2>4. ASSUME NEW e \in D, NEW j \in Kernel
          PROVE  Agrees(k, e, j)
        <3>1. j # i /\ j \in Tabled
            BY <1>1, Places
        <3> QED
            BY <1>1, <2>2, <3>1, AgreesKept DEF Good
    <2>5. k.used = m.used /\ k.hint = m.hint /\ k.base = m.base
        BY <2>1 DEF Alike
    <2>6. Apart(k)
        <3>1. Distinct(k)
            BY <1>1, <1>4, TableDistinct DEF Apart
        <3>2. \A j \in Kernel : Same(m, k, MmKernel, j)
            BY <1>1, <2>2, Places
        <3>3. KernelPlain(k) /\ Searched(k)
            BY <1>1, <2>5, <3>2, KernelPlainKept, SearchedKept DEF Apart
        <3> QED
            BY <3>1, <3>3 DEF Apart
    <2>7. ASSUME NEW e \in D, NEW j \in User
          PROVE  Counted(k, e, j)
        <3>1. CASE e # d \/ j # i
            <4>1. Counted(m, e, j) /\ Same(m, k, e, j)
                BY <2>2, <3>1, Places DEF Good
            <4> QED
                BY <2>5, <4>1, CountedKept
        <3>2. CASE e = d /\ j = i
            <4>1. CASE Wrapped(m)
                BY <2>5, <4>1 DEF Wrapped, Counted
            <4>2. CASE At(w) \in Private(m)
                <5>1. k.page[p][v[2]] = w /\ v[2] \in Index /\ k.page[p] \in [Index -> Nat]
                    BY <1>1, <1>4, <2>1, MemTypes DEF IsTable, AnyPage
                <5>2. Private(k) = Private(m)
                    BY <2>5 DEF Private, PoolFrames
                <5>3. Cardinality(PrivateIn(k, k.page[p])) \in Nat /\ 1 <= Cardinality(PrivateIn(k, k.page[p]))
                    BY <4>2, <5>1, <5>2, PrivateSome
                <5>4. Low(Count(k, d, i)) = 1
                    <6>1. Count(k, d, i) = Word(Vaddr(p), 1)
                        BY <1>4, <2>2 DEF IsTable, i
                    <6>2. Vaddr(p) \in Nat /\ 1 \in 0..15
                        BY <2>1, PoolSizes
                    <6> QED
                        BY <6>1, <6>2, Words
                <5> QED
                    BY <2>2, <3>2, <5>3, <5>4 DEF Counted
            <4> QED
                BY <4>1, <4>2
        <3> QED
            BY <3>1, <3>2
    <2>8. Safe(k, D)
        BY <1>1, <1>4, <2>2, <2>3, <2>4, <2>6, <2>7 DEF Safe, Good
    <2>9. Adds(m, k, D, d, v, w)
        <3>1. p \in AnyPage /\ p \notin m.taken \cup {MmKernel}
            BY <2>1, PoolSizes DEF AnyPage
        <3>2. /\ k.page[p][v[2]] = w
              /\ \A q \in AnyPage, j \in Index : q # p \/ j # v[2] =>
                     (At(k.page[q][j]) \in Private(m) => k.page[q][j] = m.page[q][j])
            BY <1>1, <1>4, TableDistinct DEF IsTable, Apart
        <3>3. TableHere(k, d, v[1]) /\ Table(k, d, v[1]) = p
            BY <2>2 DEF i
        <3>4. \A e \in D, j \in Tabled : e # d \/ j # v[1] => Same(m, k, e, j)
            BY <2>2 DEF i
        <3> QED
            BY <2>1, <3>1, <3>2, <3>3, <3>4 DEF Adds
    <2> QED
        BY <2>8, <2>9
<1> QED
    BY <1>2, <1>3, <1>4

\* What x86_mm_alloc_physical_page gives to mm_map_range: memory n, and the word w to map.
Allocates(m, n, w) ==
    /\ n \in Mem /\ Running(n) /\ n.page = m.page /\ n.taken = m.taken /\ n.data = m.data
    /\ n.base = m.base /\ m.used \subseteq n.used
    /\ w \in Nat /\ Has(w, PR) /\ Has(w, US) /\ Fresh(n, w) /\ (Wrapped(n) \/ At(w) \in Private(n))
    /\ At(w) \in Private(m) => At(w) \notin m.used

Maps(m, n, w, d, v, merge) ==
    IF ~TableHere(m, d, v[1]) THEN AddTable(n, d, v, w)
    ELSE IF ~Mapped(m, d, v) THEN AddEntry(n, d, v, w)
    ELSE Check(n, merge, "present")

LEMMA MapNewMeans ==
    ASSUME NEW D, NEW m \in Mem, Running(m), Good(m, D), NEW d, NEW v,
           NEW flags \in {US, WR + US}, NEW merge
    PROVE  \E n, w : /\ Allocates(m, n, w) /\ Good(n, D)
                     /\ MapNew(m, d, v, flags, merge) = Maps(m, n, w, d, v, merge)
<1> DEFINE n == AllocFrame(m).mem
           f == AllocFrame(m).frame
           w == IF f = Naddr THEN Word(Naddr, 15) ELSE Word(f, flags + PR)
<1>1. /\ n \in Mem /\ f \in Nat /\ n.taken = m.taken /\ n.page = m.page /\ n.bad = m.bad
      /\ n.data = m.data
    BY AllocFrameFields
<1>2. flags + PR \in {5, 7} /\ Naddr \in Nat
    BY PoolSizes DEF US, WR, PR
<1>3. w \in Nat /\ At(w) = f /\ Has(w, PR) /\ Has(w, US)
    <2>1. CASE f = Naddr
        <3>1. w = Word(Naddr, 15) /\ 15 \in 0..15
            BY <2>1
        <3> HIDE DEF w
        <3> QED
            BY <1>2, <2>1, <3>1, Words, Flags
    <2>2. CASE f # Naddr
        <3>1. w = Word(f, flags + PR) /\ flags + PR \in 0..15
            BY <1>2, <2>2
        <3> HIDE DEF w, f
        <3> QED
            BY <1>1, <1>2, <3>1, Words, Flags
    <2> QED
        BY <2>1, <2>2
<1>4. /\ n.base = m.base /\ m.used \subseteq n.used /\ Apart(n)
      /\ Wrapped(n) \/ f \in Private(n)
      /\ f \in Private(n) => f \in n.used /\ f \notin m.used
    BY AllocFrameFresh DEF Good
<1>5. MapNew(m, d, v, flags, merge) = Maps(m, n, w, d, v, merge)
    BY DEF MapNew, Maps
<1> HIDE DEF n, f, w
<1>6. Private(n) = Private(m)
    BY <1>4 DEF Private, PoolFrames
<1>7. Fresh(n, w)
    <2>1. \A q \in AnyPage, j \in Index : At(n.page[q][j]) \in Private(m) => At(n.page[q][j]) \in m.used
        BY <1>1 DEF Good, Apart, Distinct
    <2> QED
        BY <1>3, <1>4, <1>6, <2>1 DEF Fresh
<1>8. Running(n) /\ Good(n, D)
    <2>1. \A e \in D, i \in Tabled : Same(m, n, e, i)
        BY <1>1 DEF Same, Info, Count
    <2> QED
        BY <1>1, <1>4, <2>1, GoodGrows DEF Running
<1>9. Allocates(m, n, w)
    BY <1>1, <1>3, <1>4, <1>6, <1>7, <1>8 DEF Allocates
<1> QED
    BY <1>5, <1>8, <1>9

\* mm_map_range
LEMMA MapNewSafe ==
    ASSUME NEW D, NEW m, Safe(m, D), NEW d \in D \ {MmKernel}, NEW v \in UserPage,
           NEW flags \in {US, WR + US}, NEW merge
    PROVE  Safe(MapNew(m, d, v, flags, merge), D)
<1>1. CASE ~Running(m)
    BY <1>1 DEF MapNew
<1>2. CASE Running(m)
    <2>1. m \in Mem /\ Good(m, D)
        BY <1>2 DEF Safe
    <2>2. PICK n, w : /\ Allocates(m, n, w) /\ Good(n, D)
                      /\ MapNew(m, d, v, flags, merge) = Maps(m, n, w, d, v, merge)
        BY <1>2, <2>1, MapNewMeans
    <2>3. /\ n \in Mem /\ Running(n) /\ w \in Nat /\ Has(w, PR) /\ Fresh(n, w)
          /\ Wrapped(n) \/ At(w) \in Private(n)
          /\ TableHere(n, d, v[1]) <=> TableHere(m, d, v[1])
          /\ Mapped(n, d, v) <=> Mapped(m, d, v)
        BY <2>2 DEF Allocates, TableHere, Mapped, Entry, Table, Count, Info
    <2>4. CASE ~TableHere(m, d, v[1])
        BY <2>2, <2>3, <2>4, AddTableSafe DEF Maps
    <2>5. CASE TableHere(m, d, v[1]) /\ ~Mapped(m, d, v)
        <3>1. AddEntry(n, d, v, w) \in Mem /\ Running(AddEntry(n, d, v, w)) /\ Good(AddEntry(n, d, v, w), D)
            BY <2>2, <2>3, <2>5, AddEntryGood
        <3> QED
            BY <2>2, <2>5, <3>1 DEF Safe, Maps
    <2>6. CASE TableHere(m, d, v[1]) /\ Mapped(m, d, v)
        <3>1. Safe(n, D)
            BY <2>2, <2>3 DEF Safe
        <3>2. Safe(Fail(n, "present"), D)
            <4> DEFINE x == Fail(n, "present")
            <4>1. x \in Mem /\ ~Running(x) /\ x.bad = "present"
                BY <2>3, FailFields DEF Reason
            <4> HIDE DEF x
            <4> QED
                BY <4>1 DEF Safe, Explained, x
        <3> QED
            BY <2>2, <2>3, <2>6, <3>1, <3>2 DEF Check, Maps
    <2> QED
        BY <2>4, <2>5, <2>6
<1> QED
    BY <1>1, <1>2

-----------------------------------------------------------------------------
\* Nothing happens to the memory of a kernel that has stopped.
LEMMA StoppedStays ==
    ASSUME NEW m, ~Running(m)
    PROVE  /\ \A p, i, w : Put(m, p, i, w) = m
           /\ \A cond, why : Check(m, cond, why) = m
           /\ \A at : PoolFree(m, at) = m
           /\ PoolAlloc(m).mem = m /\ PoolAlloc(m).page = 0
           /\ \A d, v, w : AddTable(m, d, v, w) = m /\ AddEntry(m, d, v, w) = m
           /\ \A d, v : UmapPage(m, d, v) = m
           /\ \A d, v, f, flags : MapPage(m, d, v, f, flags) = m
<1>1. \A p, i, w : Put(m, p, i, w) = m
    BY DEF Put
<1>2. \A cond, why : Check(m, cond, why) = m
    BY DEF Check
<1>3. \A at : PoolFree(m, at) = m
    BY DEF PoolFree
<1>4. PoolAlloc(m).mem = m /\ PoolAlloc(m).page = 0
    BY <1>2 DEF PoolAlloc
<1>5. \A d, v, w : AddTable(m, d, v, w) = m /\ AddEntry(m, d, v, w) = m
    BY <1>1, <1>2, <1>4 DEF AddTable, AddEntry
<1>6. ASSUME NEW d, NEW v
      PROVE  UmapPage(m, d, v) = m
    BY <1>1, <1>3 DEF UmapPage
<1>7. \A d, v, f, flags : MapPage(m, d, v, f, flags) = m
    BY <1>2, <1>5 DEF MapPage
<1> QED
    BY <1>1, <1>2, <1>3, <1>4, <1>5, <1>6, <1>7

\* The page of a table is given back.
LEMMA PoolFreeFields ==
    ASSUME NEW m \in Mem, Running(m), NEW p \in m.taken, NEW at, at - NFrames = p,
           NEW k, k = PoolFree(m, at)
    PROVE  k \in Mem /\ Running(k) /\ Alike(m, k) /\ k.taken = m.taken \ {p} /\ k.page = m.page
<1>1. p \in PoolPage \cap m.taken
    BY MemTypes
<1>2. k = [m EXCEPT !.taken = m.taken \ {p}]
    BY <1>1 DEF PoolFree
<1>3. m.taken \ {p} \in SUBSET PoolPage
    BY MemTypes
<1> QED
    BY <1>2, <1>3 DEF Mem, Alike, Running

\* The last page of a table is unmapped.
LEMMA UmapLast ==
    ASSUME NEW m \in Mem, Running(m), NEW d \in AnyPage, NEW v \in UserPage, NEW b \in AnyPage,
           NEW p \in m.taken, b = Info(m, d), p # d, p # b, d # b,
           m.page[b][v[1]] = Word(Vaddr(p), 1), NEW k, k = UmapPage(m, d, v)
    PROVE  /\ k \in Mem /\ Running(k) /\ k.taken = m.taken \ {p}
           /\ k.page[d][v[1]] = 0 /\ k.page[b][v[1]] = 0
           /\ \A j \in Index : j # v[1] => k.page[d][j] = m.page[d][j] /\ k.page[b][j] = m.page[b][j]
           /\ \A q \in AnyPage \ {d, b, p} : k.page[q] = m.page[q]
           /\ Alike(m, k) /\ k.page[p][v[2]] = 0
           /\ \A j \in Index : j # v[2] => k.page[p][j] = m.page[p][j]
<1> DEFINE i == v[1]
           n1 == Put(m, p, v[2], 0)
           n2 == Put(n1, b, i, Word(Vaddr(p), 0))
           n3 == Put(n2, d, i, 0)
           n4 == Put(n3, b, i, 0)
<1>1. /\ i \in Index /\ v[2] \in Index /\ i # InfoEntry /\ InfoEntry \in Index
      /\ p \in AnyPage /\ p \in PoolPage /\ 0 \in Nat
    <2>1. i \in User /\ v[2] \in Index
        BY DEF UserPage
    <2> QED
        BY <2>1, Places, MemTypes DEF AnyPage
<1>2. Count(m, d, i) = Word(Vaddr(p), 1) /\ Count(m, d, i) - 1 = Word(Vaddr(p), 0)
    <2>1. Vaddr(p) \in Nat
        BY <1>1, PoolSizes
    <2> QED
        BY <2>1 DEF Count, Word
<1>3. /\ Vaddr(p) \in Nat /\ Vaddr(p) - NFrames = p
      /\ At(Word(Vaddr(p), 1)) = Vaddr(p)
      /\ Word(Vaddr(p), 0) \in Nat /\ Low(Word(Vaddr(p), 0)) = 0
    <2>1. Vaddr(p) \in Nat /\ Vaddr(p) - NFrames = p /\ 0 \in 0..15 /\ 1 \in 0..15
        BY <1>1, PoolSizes
    <2> QED
        BY <2>1, Words
<1>4. Table(m, d, i) = p
    BY <1>2, <1>3 DEF Table
<1> HIDE DEF i, n1, n2, n3, n4
<1>5. IsPut(m, n1, p, v[2], 0)
    BY <1>1, PutFields DEF n1
<1>6. n1 \in Mem /\ Running(n1)
    BY <1>5 DEF IsPut
<1>7. IsPut(n1, n2, b, i, Word(Vaddr(p), 0))
    BY <1>1, <1>3, <1>6, PutFields DEF n2
<1>8. n2 \in Mem /\ Running(n2)
    BY <1>7 DEF IsPut
<1>9. IsPut(n2, n3, d, i, 0)
    BY <1>1, <1>8, PutFields DEF n3
<1>10. n3 \in Mem /\ Running(n3)
    BY <1>9 DEF IsPut
<1>11. IsPut(n3, n4, b, i, 0)
    BY <1>1, <1>10, PutFields DEF n4
<1>12. n4 \in Mem /\ Running(n4) /\ n4.taken = m.taken
    BY <1>5, <1>7, <1>9, <1>11 DEF IsPut
<1>13. n2.page[d] = m.page[d] /\ n2.page[b][i] = Word(Vaddr(p), 0)
    BY <1>5, <1>7 DEF IsPut
<1>14. Low(Count(n2, d, i)) = 0
    <2>1. Info(n2, d) = b
        BY <1>13 DEF Info
    <2> QED
        BY <1>3, <1>13, <2>1 DEF Count
<1>15. k = PoolFree(n4, Vaddr(p))
    <2>1. n2 = Put(Put(m, Table(m, d, v[1]), v[2], 0), Info(m, d), v[1], Count(m, d, v[1]) - 1)
        BY <1>2, <1>4 DEF n1, n2, i
    <2>2. n4 = Put(Put(n2, d, v[1], 0), Info(m, d), v[1], 0)
        BY DEF n3, n4, i
    <2> QED
        BY <1>2, <1>3, <1>14, <2>1, <2>2 DEF UmapPage, i
<1>16. k \in Mem /\ Running(k) /\ k.taken = m.taken \ {p} /\ k.page = n4.page /\ Alike(n4, k)
    BY <1>3, <1>12, <1>15, PoolFreeFields
<1>17. n4.page[d] = n3.page[d] /\ n3.page[b] = n2.page[b] /\ n1.page[b] = m.page[b]
    BY <1>5, <1>9, <1>11 DEF IsPut
<1>18. k.page[d][i] = 0 /\ k.page[b][i] = 0
    BY <1>9, <1>11, <1>16, <1>17 DEF IsPut
<1>19. \A j \in Index : j # i => k.page[d][j] = m.page[d][j] /\ k.page[b][j] = m.page[b][j]
    BY <1>7, <1>9, <1>11, <1>13, <1>16, <1>17 DEF IsPut
<1>20. \A q \in AnyPage \ {d, b, p} : k.page[q] = m.page[q]
    BY <1>5, <1>7, <1>9, <1>11, <1>16 DEF IsPut
<1>21. Alike(m, k)
    BY <1>5, <1>7, <1>9, <1>11, <1>16 DEF IsPut, Alike
<1>22. k.page[p] = n1.page[p]
    BY <1>1, <1>7, <1>9, <1>11, <1>16 DEF IsPut
<1>23. k.page[p][v[2]] = 0 /\ \A j \in Index : j # v[2] => k.page[p][j] = m.page[p][j]
    BY <1>5, <1>22 DEF IsPut
<1> QED
    BY <1>16, <1>18, <1>19, <1>20, <1>21, <1>23 DEF i

\* The spaces of D are as before, and no word names a page of a program that it did not.
Untouched(m, k, D) ==
    Kept(m, k) /\ k.data = m.data /\ \A e \in D, j \in Tabled : Same(m, k, e, j)

\* The window is closed again: the memory is as before, but for pages that are nobody's.
LEMMA InWindowSafe ==
    ASSUME NEW D, NEW m, Running(m), Safe(m, D), NEW v \in UserPage, NEW frame \in Nat
    PROVE  /\ Safe(InWindow(m, v, frame), D)
           /\ Running(InWindow(m, v, frame)) => Untouched(m, InWindow(m, v, frame), D)
<1> DEFINE i == v[1]
           b == Info(m, MmKernel)
           w == Word(frame, 3)
           n == AddTable(m, MmKernel, v, w)
           k == UmapPage(n, MmKernel, v)
<1>1. m \in Mem /\ Good(m, D) /\ Owned(m, D) /\ MmKernel \in D
    BY DEF Safe, Good
<1>2. i \in User /\ i \in Tabled /\ v \in Tabled \X Index /\ i \in Index
    BY Places DEF UserPage
<1>3. m.page[MmKernel][i] = 0 /\ m.page[b][i] = 0
    BY <1>1, <1>2 DEF Good, Closed, Count
<1>4. ~TableHere(m, MmKernel, i) /\ ~Has(m.page[MmKernel][i], PS)
    <2>1. ~Has(0, PS)
        BY DEF Has, PS
    <2> QED
        BY <1>3, <2>1, Flags DEF TableHere
<1>5. InWindow(m, v, frame) = k
    <2>1. WR + PR = 3
        BY DEF WR, PR
    <2>2. Check(m, ~Has(m.page[MmKernel][v[1]], PS), "huge") = m
        BY <1>4 DEF Check
    <2> QED
        BY <1>4, <2>1, <2>2 DEF InWindow, MapPage
<1>6. w \in Nat /\ Has(w, PR)
    <2>1. 3 \in 0..15
        OBVIOUS
    <2> QED
        BY <2>1, Words, Flags
<1> HIDE DEF i, b, w, n, k
<1>7. \/ n \in Mem /\ ~Running(n) /\ Explained(n)
      \/ n \in Mem /\ Running(n) /\ \E p : IsTable(m, n, MmKernel, v, w, p)
    BY <1>1, <1>2, <1>6, AddTableEffect DEF n
<1>8. CASE n \in Mem /\ ~Running(n) /\ Explained(n)
    BY <1>5, <1>8, StoppedStays DEF Safe, k
<1>9. ASSUME n \in Mem, Running(n), NEW p, IsTable(m, n, MmKernel, v, w, p)
      PROVE  Safe(k, D) /\ Untouched(m, k, D)
    <2>0. /\ p \in PoolPage \ m.taken /\ n.taken = m.taken \cup {p} /\ NamesTable(m, n, MmKernel, i, p)
          /\ n.page[b][i] = Word(Vaddr(p), 1) /\ Alike(m, n)
          /\ \A j \in Index : j # v[2] => n.page[p][j] = m.page[p][j]
        BY <1>9 DEF IsTable, i, b
    <2>1. /\ MmKernel \in AnyPage /\ b \in AnyPage /\ b # MmKernel /\ p \in n.taken
          /\ p # MmKernel /\ p # b
        <3>1. MmKernel \in AnyPage /\ b \in AnyPage /\ b # MmKernel
            BY <1>1, OwnedPages DEF b
        <3>2. b \in m.taken
            BY <1>1 DEF Owned, b
        <3> QED
            BY <1>9, <2>0, <3>1, <3>2, PoolSizes
    <2>2. b = Info(n, MmKernel)
        BY <1>1, <1>2, <1>4, <1>9, <2>0, AddsTable DEF b
    <2>3. /\ k \in Mem /\ Running(k) /\ k.taken = n.taken \ {p}
          /\ k.page[MmKernel][i] = 0 /\ k.page[b][i] = 0
          /\ \A j \in Index : j # i => /\ k.page[MmKernel][j] = n.page[MmKernel][j]
                                       /\ k.page[b][j] = n.page[b][j]
          /\ \A q \in AnyPage \ {MmKernel, b, p} : k.page[q] = n.page[q]
          /\ Alike(n, k) /\ k.page[p][v[2]] = 0
          /\ \A j \in Index : j # v[2] => k.page[p][j] = n.page[p][j]
        BY <1>9, <2>0, <2>1, <2>2, UmapLast DEF k, i
    <2>4. k.taken = m.taken
        BY <1>9, <2>0, <2>3
    <2>5. \A j \in Index : /\ k.page[MmKernel][j] = m.page[MmKernel][j]
                           /\ k.page[b][j] = m.page[b][j]
        BY <1>3, <1>9, <2>0, <2>3 DEF NamesTable, b
    <2>6. k.page[MmKernel] = m.page[MmKernel] /\ k.page[b] = m.page[b]
        <3>1. /\ k.page[MmKernel] \in [Index -> Nat] /\ m.page[MmKernel] \in [Index -> Nat]
              /\ k.page[b] \in [Index -> Nat] /\ m.page[b] \in [Index -> Nat]
            BY <1>1, <2>1, <2>3, MemTypes
        <3> QED
            BY <2>5, <3>1
    <2>7. \A q \in AnyPage : q # p => k.page[q] = m.page[q]
        BY <1>9, <2>0, <2>3, <2>6 DEF NamesTable, b
    <2>8. \A e \in D, j \in Tabled : Same(m, k, e, j)
        BY <1>1, <1>9, <2>0, <2>1, <2>3, <2>7, OtherPage
    <2>9. Kept(m, k)
        <3>1. k.used = m.used /\ k.hint = m.hint /\ k.base = m.base
            BY <2>0, <2>3 DEF Alike
        <3>2. At(0) \notin Private(m)
            BY <1>1, <2>0, PlainWords
        <3>3. \A j \in Index : k.page[p][j] = 0 \/ k.page[p][j] = m.page[p][j]
            BY <2>0, <2>3
        <3> QED
            BY <2>7, <3>1, <3>2, <3>3 DEF Kept
    <2>10. Good(k, D)
        BY <1>1, <2>3, <2>4, <2>8, <2>9, GoodKept
    <2>11. k.data = m.data
        BY <2>0, <2>3 DEF Alike
    <2> QED
        BY <2>3, <2>8, <2>9, <2>10, <2>11 DEF Safe, Untouched
<1> QED
    BY <1>5, <1>7, <1>8, <1>9

\* The kernel stops with one of the reasons that it may have at any time.
LEMMA FailSafe ==
    ASSUME NEW m \in Mem, NEW D, NEW why \in {"address", "present", "shared"}
    PROVE  Safe(Fail(m, why), D)
<1> DEFINE x == Fail(m, why)
<1>1. x \in Mem /\ ~Running(x) /\ x.bad = why
    BY FailFields DEF Reason
<1> HIDE DEF x
<1> QED
    BY <1>1 DEF Safe, Explained, x

\* Changes to what programs have in their pages.
LEMMA DataSafe ==
    ASSUME NEW m, NEW k, NEW D, Safe(m, D), k \in Mem,
           k.page = m.page, k.taken = m.taken, k.last = m.last, k.bad = m.bad,
           k.used = m.used, k.hint = m.hint, k.base = m.base
    PROVE  Safe(k, D)
<1>1. CASE Running(m)
    <2>1. Good(m, D) /\ m \in Mem
        BY <1>1 DEF Safe
    <2>2. \A e \in D, i \in Tabled : Same(m, k, e, i)
        BY DEF Same, Info, Count
    <2>3. Good(k, D)
        BY <2>1, <2>2, GoodKept DEF Kept
    <2> QED
        BY <1>1, <2>3 DEF Safe, Running
<1>2. CASE ~Running(m)
    BY <1>2 DEF Safe, Explained, Running
<1> QED
    BY <1>1, <1>2

LEMMA StoreSafe ==
    ASSUME NEW D, NEW m, Safe(m, D), NEW frame, NEW x \in Cell
    PROVE  Safe(Store(m, frame, x), D)
<1>1. CASE ~Running(m)
    BY <1>1 DEF Store
<1>2. CASE Running(m) /\ frame \notin Private(m)
    BY <1>2, FailSafe DEF Store, Safe
<1>3. CASE Running(m) /\ frame \in Private(m)
    <2> DEFINE k == [m EXCEPT !.data = [m.data EXCEPT ![frame] = x]]
    <2>1. m \in Mem /\ m.data \in [Frame -> Cell]
        BY MemTypes DEF Safe
    <2>2. [m.data EXCEPT ![frame] = x] \in [Frame -> Cell]
        BY <2>1
    <2>3. k \in Mem
        BY <2>1, <2>2 DEF Mem
    <2>4. /\ k.page = m.page /\ k.taken = m.taken /\ k.last = m.last /\ k.bad = m.bad
          /\ k.used = m.used /\ k.hint = m.hint /\ k.base = m.base
        BY <2>1 DEF Mem
    <2>5. Store(m, frame, x) = k
        BY <1>3 DEF Store
    <2> HIDE DEF k
    <2> QED
        BY <2>3, <2>4, <2>5, DataSafe
<1> QED
    BY <1>1, <1>2, <1>3

\* The page that a mapped address stands for.
LEMMA TranslateNat ==
    ASSUME NEW D, NEW m \in Mem, Owned(m, D), NEW d \in D, NEW v \in UserPage, Mapped(m, d, v)
    PROVE  Entry(m, d, v) \in Nat /\ Translate(m, d, v) = At(Entry(m, d, v)) /\ Translate(m, d, v) \in Nat
<1>1. v[1] \in Tabled /\ v[2] \in Index /\ TableHere(m, d, v[1])
    BY Places DEF UserPage, Mapped
<1>2. Table(m, d, v[1]) \in AnyPage
    BY <1>1, OwnedPages
<1>3. Entry(m, d, v) \in Nat
    BY <1>1, <1>2, MemTypes DEF Entry
<1> QED
    BY <1>3, WordParts DEF Translate

\* mm_memcpy_user_to_kernel
LEMMA FromUserSafe ==
    ASSUME NEW D, NEW m, Safe(m, D), NEW d \in D, NEW v \in UserPage
    PROVE  /\ Safe(FromUser(m, d, v), D)
           /\ Running(FromUser(m, d, v)) =>
                Running(m) /\ Mapped(m, d, v) /\ Untouched(m, FromUser(m, d, v), D)
<1>1. CASE ~Running(m)
    BY <1>1, StoppedStays DEF FromUser
<1>2. CASE Running(m) /\ ~Mapped(m, d, v)
    <2>1. Check(m, Mapped(m, d, v), "address") = Fail(m, "address")
        BY <1>2 DEF Check
    <2>2. "address" \in {"address", "present", "shared"} /\ m \in Mem
        BY DEF Safe
    <2>3. ~Running(Fail(m, "address"))
        BY <2>2, FailFields DEF Reason
    <2> QED
        BY <2>1, <2>2, <2>3, FailSafe DEF FromUser
<1>3. CASE Running(m) /\ Mapped(m, d, v)
    <2>1. Check(m, Mapped(m, d, v), "address") = m
        BY <1>3 DEF Check
    <2>2. Translate(m, d, v) \in Nat
        BY <1>3, TranslateNat DEF Safe, Good
    <2> QED
        BY <1>3, <2>1, <2>2, InWindowSafe DEF FromUser
<1> QED
    BY <1>1, <1>2, <1>3

\* mm_memcpy_kernel_to_user
LEMMA ToUserSafe ==
    ASSUME NEW D, NEW m, Safe(m, D), NEW d \in D, NEW v \in UserPage, NEW x \in Cell
    PROVE  Safe(ToUser(m, d, v, x), D)
<1>1. CASE ~Running(m)
    BY <1>1, StoppedStays DEF ToUser
<1>2. CASE Running(m) /\ ~Mapped(m, d, v)
    <2>1. Check(m, Mapped(m, d, v), "address") = Fail(m, "address")
        BY <1>2 DEF Check
    <2>2. "address" \in {"address", "present", "shared"} /\ m \in Mem
        BY DEF Safe
    <2>3. ~Running(Fail(m, "address"))
        BY <2>2, FailFields DEF Reason
    <2> QED
        BY <2>1, <2>2, <2>3, FailSafe DEF ToUser
<1>3. CASE Running(m) /\ Mapped(m, d, v)
    <2>1. Check(m, Mapped(m, d, v), "address") = m
        BY <1>3 DEF Check
    <2>2. Translate(m, d, v) \in Nat
        BY <1>3, TranslateNat DEF Safe, Good
    <2>3. Safe(InWindow(m, v, Translate(m, d, v)), D)
        BY <1>3, <2>2, InWindowSafe
    <2> QED
        BY <1>3, <2>1, <2>3, StoreSafe DEF ToUser
<1> QED
    BY <1>1, <1>2, <1>3

-----------------------------------------------------------------------------
(***************************************************************************)
(* space.c. A space that is not one of D yet is made of pages of its own.  *)
(***************************************************************************)

NewSpace(m, D, d) ==
    /\ m \in Mem /\ Running(m) /\ Good(m, D) /\ Owned(m, D \cup {d}) /\ d \in PoolPage \ D
    /\ \A i \in User : m.page[d][i] = 0

LEMMA SameTwice ==
    ASSUME NEW m, NEW y, NEW k, NEW e, NEW i, Same(m, y, e, i), Same(y, k, e, i)
    PROVE  Same(m, k, e, i)
<1>1. /\ k.page[e][i] = m.page[e][i] /\ Info(k, e) = Info(m, e) /\ Count(k, e, i) = Count(m, e, i)
      /\ TableHere(y, e, i) <=> TableHere(m, e, i)
      /\ Table(y, e, i) = Table(m, e, i)
    BY SameMeans DEF Same, Table
<1> QED
    BY <1>1 DEF Same

LEMMA UntouchedTwice ==
    ASSUME NEW D, NEW m, NEW y, NEW k, Untouched(m, y, D), Untouched(y, k, D)
    PROVE  Untouched(m, k, D)
<1>1. Private(y) = Private(m)
    BY DEF Untouched, Kept, Private, PoolFrames
<1>2. Kept(m, k)
    BY <1>1 DEF Untouched, Kept
<1>3. \A e \in D, j \in Tabled : Same(m, k, e, j)
    BY SameTwice DEF Untouched
<1> QED
    BY <1>2, <1>3 DEF Untouched

\* mm_create_space
LEMMA CreateSpaceMakes ==
    ASSUME NEW D, NEW m \in Mem, Running(m), Good(m, D),
           NEW k, NEW d, k = CreateSpace(m).mem, d = CreateSpace(m).space
    PROVE  /\ k \in Mem /\ d \in PoolPage
           /\ ~Running(k) => Explained(k)
           /\ Running(k) => /\ NewSpace(k, D, d) /\ \A i \in Kernel : k.page[d][i] = 0
                            /\ Untouched(m, k, D)
<1> DEFINE n == PoolAlloc(m).mem
           o == PoolAlloc(n).mem
           p == PoolAlloc(n).page
           x == [o EXCEPT !.page[d] = Empty, !.page[p] = Empty]
           x1 == Put(x, d, 0, Word(m.base + d, 0))
           x2 == Put(x1, d, InfoEntry, Word(Vaddr(p), 0))
<1>1. d = PoolAlloc(m).page /\ k = IF Running(o) THEN x2 ELSE o
    BY DEF CreateSpace
<1>2. /\ n \in Mem /\ d \in PoolPage /\ (~Running(n) => Explained(n))
      /\ Running(n) => d \notin m.taken /\ n.taken = m.taken \cup {d} /\ n.page = m.page /\ Alike(m, n)
    BY <1>1, PoolAllocFields
<1>3. CASE ~Running(n)
    <2>1. o = n
        BY <1>3, StoppedStays
    <2> QED
        BY <1>1, <1>2, <1>3, <2>1
<1>4. CASE Running(n)
    <2>1. /\ o \in Mem /\ p \in PoolPage /\ (~Running(o) => Explained(o))
          /\ Running(o) => p \notin n.taken /\ o.taken = n.taken \cup {p} /\ o.page = n.page /\ Alike(n, o)
        BY <1>2, <1>4, PoolAllocFields
    <2>2. CASE ~Running(o)
        BY <1>1, <1>2, <2>1, <2>2
    <2>3. CASE Running(o)
        <3> HIDE DEF n, o, p, x, x1, x2
        <3>1. /\ d \in PoolPage \ m.taken /\ p \in PoolPage \ m.taken /\ p # d
              /\ o.taken = m.taken \cup {d, p} /\ o.page = m.page
              /\ d \in AnyPage /\ p \in AnyPage /\ d # MmKernel /\ p # MmKernel
              /\ Alike(m, n) /\ Alike(n, o)
            BY <1>2, <1>4, <2>1, <2>3, PoolSizes DEF AnyPage
        <3>2. /\ x \in Mem /\ Running(x) /\ x.taken = o.taken
              /\ x.page[d] = Empty /\ x.page[p] = Empty
              /\ \A q \in AnyPage \ {d, p} : x.page[q] = m.page[q]
              /\ Alike(o, x)
            <4> DEFINE g == [o.page EXCEPT ![d] = Empty, ![p] = Empty]
            <4>1. Empty \in [Index -> Nat] /\ o.page \in [AnyPage -> [Index -> Nat]]
                BY <2>1, MemTypes DEF Empty
            <4>2. /\ g \in [AnyPage -> [Index -> Nat]] /\ g[d] = Empty /\ g[p] = Empty
                  /\ \A q \in AnyPage \ {d, p} : g[q] = m.page[q]
                BY <3>1, <4>1
            <4>3. x = [o EXCEPT !.page = g]
                BY DEF x
            <4> HIDE DEF g
            <4>4. x \in Mem /\ x.page = g /\ x.taken = o.taken /\ x.bad = o.bad /\ Alike(o, x)
                BY <2>1, <4>2, <4>3 DEF Mem, AnyPage, Alike
            <4> QED
                BY <2>3, <4>2, <4>4 DEF Running
        <3>3. Word(m.base + d, 0) \in Nat /\ Word(Vaddr(p), 0) \in Nat /\ At(Word(Vaddr(p), 0)) = Vaddr(p)
            <4>1. m.base \in Nat /\ d \in Nat /\ Vaddr(p) \in Nat /\ 0 \in 0..15
                BY <3>1, MemTypes, PoolSizes
            <4>2. m.base + d \in Nat
                BY <4>1
            <4> QED
                BY <4>1, <4>2, Words
        <3>4. IsPut(x, x1, d, 0, Word(m.base + d, 0))
            BY <3>1, <3>2, <3>3, Places, PutFields DEF x1
        <3>5. x1 \in Mem /\ Running(x1)
            BY <3>4 DEF IsPut
        <3>6. IsPut(x1, x2, d, InfoEntry, Word(Vaddr(p), 0))
            BY <3>1, <3>3, <3>5, Places, PutFields DEF x2
        <3>7. k = x2
            BY <1>1, <2>3
        <3>8. k \in Mem /\ Running(k) /\ k.taken = m.taken \cup {d, p}
            BY <3>1, <3>2, <3>4, <3>6, <3>7 DEF IsPut
        <3>9. \A q \in AnyPage \ {d, p} : k.page[q] = m.page[q]
            BY <3>2, <3>4, <3>6, <3>7 DEF IsPut
        <3>10. /\ k.page[d][InfoEntry] = Word(Vaddr(p), 0) /\ k.page[p] = Empty
               /\ \A i \in Tabled : k.page[d][i] = 0
            BY <3>1, <3>2, <3>4, <3>6, <3>7, Places DEF IsPut, Empty
        <3>11. Info(k, d) = p
            BY <3>1, <3>3, <3>10, PoolSizes DEF Info
        <3>12. \A e \in D, i \in Tabled : Same(m, k, e, i)
            <4> DEFINE y == [m EXCEPT !.page = [m.page EXCEPT ![p] = k.page[p]]]
            <4>1. y \in Mem /\ y.page = [m.page EXCEPT ![p] = k.page[p]] /\ y.taken = m.taken
                <5>1. k.page[p] \in [Index -> Nat] /\ m.page \in [AnyPage -> [Index -> Nat]]
                    BY <3>1, <3>8, MemTypes
                <5>2. [m.page EXCEPT ![p] = k.page[p]] \in [AnyPage -> [Index -> Nat]]
                    BY <3>1, <5>1
                <5> QED
                    BY <5>2 DEF Mem, AnyPage
            <4> HIDE DEF y
            <4>2. /\ \A q \in AnyPage : q # p => y.page[q] = m.page[q]
                  /\ \A q \in AnyPage : q # d => k.page[q] = y.page[q]
                <5>1. m.page \in [AnyPage -> [Index -> Nat]]
                    BY MemTypes
                <5> QED
                    BY <3>1, <3>9, <4>1, <5>1
            <4>3. \A e \in D, i \in Tabled : Same(m, y, e, i)
                BY <3>1, <4>1, <4>2, OtherPage DEF Good
            <4>4. Owned(y, D)
                <5>1. \A e \in D, i \in Tabled : Shape(m, y, e, i) /\ Row(y, e, i)
                    BY <4>3, SameMeans DEF Good, Owned
                <5> QED
                    BY <4>1, <5>1, OwnedKept DEF Good
            <4>5. \A e \in D, i \in Tabled : Same(y, k, e, i)
                <5>1. Owned(y, D) /\ d \notin y.taken /\ d # MmKernel
                    BY <3>1, <4>1, <4>4
                <5>2. y \in Mem /\ k \in Mem /\ \A q \in AnyPage : q # d => k.page[q] = y.page[q]
                    BY <3>8, <4>1, <4>2
                <5> QED
                    BY <5>1, <5>2, OtherPage
            <4> QED
                BY <4>3, <4>5, SameTwice
        <3>13. Kept(m, k) /\ k.data = m.data
            <4>1. k.used = m.used /\ k.hint = m.hint /\ k.base = m.base /\ k.data = m.data
                BY <3>1, <3>2, <3>4, <3>6, <3>7 DEF Alike, IsPut
            <4>2. \A j \in Index : Empty[j] = 0
                BY DEF Empty
            <4>3. \A j \in Index : k.page[d][j] \in {0, Word(m.base + d, 0), Word(Vaddr(p), 0)}
                BY <3>2, <3>4, <3>6, <3>7, <4>2, Places DEF IsPut
            <4>4. \A j \in Index : k.page[p][j] = 0
                BY <3>10, <4>2
            <4>5. /\ At(0) \notin Private(m) /\ At(Word(m.base + d, 0)) \notin Private(m)
                  /\ At(Word(Vaddr(p), 0)) \notin Private(m)
                <5>1. 0 \in 0..15
                    OBVIOUS
                <5> QED
                    BY <3>1, <5>1, PlainWords
            <4>6. ASSUME NEW q \in AnyPage, NEW j \in Index, At(k.page[q][j]) \in Private(m)
                  PROVE  q \notin {d, p}
                BY <4>3, <4>4, <4>5, <4>6
            <4> QED
                BY <3>9, <4>1, <4>6 DEF Kept
        <3>14. Good(k, D)
            BY <3>1, <3>8, <3>12, <3>13, GoodKept
        <3>15. \A e \in D : /\ e # d /\ e # p /\ Info(k, e) # d /\ Info(k, e) # p
                            /\ \A i \in Tabled : TableHere(k, e, i) => Table(k, e, i) # d /\ Table(k, e, i) # p
            <4>1. \A e \in D : e # d /\ e # p /\ Info(m, e) # d /\ Info(m, e) # p
                BY <3>1 DEF Good, Owned
            <4>2. \A e \in D, i \in Tabled : TableHere(m, e, i) => Table(m, e, i) # d /\ Table(m, e, i) # p
                BY <3>1 DEF Good, Owned
            <4>3. \A e \in D, i \in Tabled : /\ Info(k, e) = Info(m, e)
                                             /\ TableHere(k, e, i) => /\ TableHere(m, e, i)
                                                                     /\ Table(k, e, i) = Table(m, e, i)
                BY <3>12, SameMeans DEF Shape
            <4> QED
                BY <4>1, <4>2, <4>3, Places
        <3>16. \A i \in Tabled : ~TableHere(k, d, i) /\ Count(k, d, i) = 0 /\ Row(k, d, i)
            BY <3>10, <3>11, Flags, Places DEF TableHere, Count, Row, Empty
        <3>17. Owned(k, D \cup {d})
            <4>1. Owned(k, D)
                BY <3>14 DEF Good
            <4>2. ASSUME NEW a \in D \cup {d}
                  PROVE  /\ a \in k.taken \cup {MmKernel} /\ Info(k, a) \in k.taken
                         /\ a \in PoolPage \cup {MmKernel}
                BY <3>1, <3>8, <3>11, <4>1 DEF Owned
            <4>3. ASSUME NEW a \in D \cup {d}, NEW e \in D \cup {d}
                  PROVE  Info(k, a) # e /\ (Info(k, a) = Info(k, e) => a = e)
                BY <3>1, <3>11, <3>15, <4>1 DEF Owned
            <4>4. ASSUME NEW a \in D \cup {d}, NEW i \in Tabled, TableHere(k, a, i)
                  PROVE  /\ a \in D
                         /\ Table(k, a, i) \in k.taken
                         /\ \A e \in D \cup {d} : Table(k, a, i) \notin {e, Info(k, e)}
                         /\ \A e \in D \cup {d}, j \in Tabled :
                                TableHere(k, e, j) /\ Table(k, a, i) = Table(k, e, j) => a = e /\ i = j
                <5>1. a \in D
                    BY <3>16, <4>4
                <5> QED
                    BY <3>11, <3>15, <3>16, <4>1, <4>4, <5>1 DEF Owned
            <4>5. \A a \in D \cup {d}, i \in Tabled : Row(k, a, i)
                BY <3>16, <4>1 DEF Owned
            <4> QED
                BY <4>2, <4>3, <4>4, <4>5 DEF Owned
        <3>18. d \notin D
            BY <3>15
        <3>19. \A i \in Kernel \cup User : k.page[d][i] = 0
            BY <3>10, Places
        <3> QED
            BY <3>1, <3>8, <3>12, <3>13, <3>17, <3>18, <3>19, <3>14 DEF NewSpace, Untouched
    <2> QED
        BY <2>2, <2>3
<1> QED
    BY <1>3, <1>4

\* What a copy of entry i promises.
IsClone(m, k, D, d, i) ==
    /\ NewSpace(k, D, d) /\ Agrees(k, d, i) /\ Untouched(m, k, D)
    /\ \A j \in Kernel \ {i} : /\ m.page[d][j] = 0 => k.page[d][j] = 0
                               /\ Agrees(m, d, j) => Agrees(k, d, j)

\* All but one entry of the new space is as before.
LEMMA CloneRest ==
    ASSUME NEW D, NEW m, NEW d, NewSpace(m, D, d), NEW i \in Kernel, NEW k \in Mem, Running(k),
           m.taken \subseteq k.taken, Kept(m, k), k.data = m.data, Owned(k, D \cup {d}), Agrees(k, d, i),
           \A e \in D \cup {d}, j \in Tabled : e # d \/ j # i => Same(m, k, e, j)
    PROVE  IsClone(m, k, D, d, i)
<1>1. /\ \A e \in D, j \in Tabled : Same(m, k, e, j)
      /\ \A j \in Tabled \ {i} : Same(m, k, d, j)
    BY DEF NewSpace
<1>2. Good(k, D)
    BY <1>1, GoodKept DEF NewSpace
<1>3. ASSUME NEW j \in Kernel \ {i}
      PROVE  /\ m.page[d][j] = 0 => k.page[d][j] = 0
             /\ Agrees(m, d, j) => Agrees(k, d, j)
    <2>1. Same(m, k, d, j) /\ Same(m, k, MmKernel, j)
        BY <1>1, Places DEF NewSpace, Good
    <2> QED
        BY <2>1, AgreesKept DEF Same
<1>4. \A j \in User : k.page[d][j] = 0
    BY <1>1, Places DEF NewSpace, Same
<1> QED
    BY <1>1, <1>2, <1>3, <1>4 DEF IsClone, NewSpace, Untouched

\* A kernel entry of mm_space_clone.
LEMMA CloneEntryMakes ==
    ASSUME NEW D, NEW m, NEW d, NewSpace(m, D, d), NEW s \in D, NEW i \in Kernel, m.page[d][i] = 0,
           NEW k, k = CloneEntry(m, d, s, i)
    PROVE  /\ k \in Mem
           /\ ~Running(k) => Explained(k)
           /\ Running(k) => IsClone(m, k, D, d, i)
<1>1. /\ i \in Tabled /\ i \in Index /\ i # InfoEntry /\ InfoEntry \in Index
      /\ m \in Mem /\ Running(m) /\ Good(m, D) /\ Owned(m, D) /\ Owned(m, D \cup {d})
      /\ d \in D \cup {d} /\ s \in D \cup {d} /\ s # d /\ MmKernel \in D /\ MmKernel # d /\ i \notin User
    BY Places DEF NewSpace, Good
<1>2. /\ d \in AnyPage /\ Info(m, d) \in AnyPage /\ Info(m, d) # d
      /\ s \in AnyPage
    BY <1>1, OwnedPages
<1>3. Agrees(m, s, i) /\ Row(m, s, i)
    BY <1>1 DEF Good, Owned
<1>4. ~TableHere(m, d, i)
    BY Flags DEF TableHere
<1>5. CASE ~Has(m.page[s][i], PR)
    <2>1. k = m
        BY <1>5 DEF CloneEntry
    <2>2. ~TableHere(m, s, i) /\ m.page[s][i] = 0
        BY <1>3, <1>5 DEF TableHere, Row
    <2>3. Agrees(m, d, i)
        BY <1>3, <2>2 DEF Agrees
    <2> QED
        BY <1>1, <2>1, <2>3 DEF IsClone, Untouched, Kept, Same
<1>6. CASE Has(m.page[s][i], PR) /\ Has(m.page[s][i], PS)
    <2> DEFINE w == m.page[s][i]
    <2>1. w \in Nat /\ k = Put(m, d, i, w)
        BY <1>1, <1>2, <1>6, MemTypes DEF CloneEntry
    <2>2. w = m.page[MmKernel][i] /\ ~TableHere(m, MmKernel, i) /\ Has(w, PR) /\ Has(w, PS)
        BY <1>3, <1>6 DEF Agrees, TableHere
    <2> HIDE DEF w
    <2>3. IsPut(m, k, d, i, w)
        BY <1>1, <1>2, <2>1, PutFields
    <2>4. /\ k \in Mem /\ Running(k) /\ k.taken = m.taken /\ k.page[d][i] = w
          /\ \A j \in Index : j # i => k.page[d][j] = m.page[d][j]
          /\ \A q \in AnyPage : q # d => k.page[q] = m.page[q]
        BY <2>3 DEF IsPut
    <2>5. Info(k, d) = Info(m, d)
        BY <1>1, <2>4 DEF Info
    <2>6. ASSUME NEW e \in D \cup {d}, NEW j \in Tabled, e # d \/ j # i
          PROVE  Same(m, k, e, j)
        <3>1. /\ e \in AnyPage /\ Info(m, e) \in AnyPage /\ Info(m, e) # d
              /\ TableHere(m, e, j) => Table(m, e, j) \in AnyPage /\ Table(m, e, j) # d
            <4>1. /\ e \in AnyPage /\ Info(m, e) \in AnyPage
                  /\ TableHere(m, e, j) => Table(m, e, j) \in AnyPage
                BY <1>1, OwnedPages
            <4>2. Info(m, e) # d /\ (TableHere(m, e, j) => Table(m, e, j) # d)
                BY <1>1 DEF Owned
            <4> QED
                BY <4>1, <4>2
        <3>2. k.page[Info(m, e)] = m.page[Info(m, e)]
            BY <2>4, <3>1
        <3>3. k.page[e][j] = m.page[e][j] /\ Info(k, e) = Info(m, e)
            <4>1. CASE e = d
                BY <2>4, <2>5, <2>6, <4>1, Places
            <4>2. CASE e # d
                <5>1. k.page[e] = m.page[e]
                    BY <2>4, <3>1, <4>2
                <5> QED
                    BY <5>1 DEF Info
            <4> QED
                BY <4>1, <4>2
        <3> QED
            BY <2>4, <3>1, <3>2, <3>3 DEF Same, Count
    <2>7. Shape(m, k, d, i) /\ Row(k, d, i)
        BY <2>2, <2>4, <2>5 DEF Shape, Row, TableHere
    <2>8. Owned(k, D \cup {d})
        <3>1. \A e \in D \cup {d}, j \in Tabled : Shape(m, k, e, j) /\ Row(k, e, j)
            BY <1>1, <2>6, <2>7, SameMeans DEF Owned
        <3> QED
            BY <1>1, <2>4, <3>1, OwnedKept
    <2>9. Agrees(k, d, i)
        <3>1. k.page[MmKernel] = m.page[MmKernel]
            BY <1>1, <2>4 DEF AnyPage
        <3> QED
            BY <2>2, <2>4, <3>1 DEF Agrees, TableHere
    <2>10. Kept(m, k) /\ k.data = m.data
        <3>1. At(w) \notin Private(m)
            BY <1>1, <2>2 DEF Good, Apart, KernelPlain
        <3>2. \A q \in AnyPage, j \in Index : k.page[q][j] \in {m.page[q][j], w}
            BY <2>4
        <3> QED
            BY <2>3, <3>1, <3>2 DEF Kept, IsPut, Alike
    <2> QED
        BY <2>4, <2>6, <2>8, <2>9, <2>10, CloneRest
<1>7. CASE TableHere(m, s, i)
    <2> DEFINE n == PoolAlloc(m).mem
               p == PoolAlloc(m).page
               c == Count(m, s, i)
               t == m.page[Table(m, s, i)]
               x == [n EXCEPT !.page[p] = t]
               x1 == Put(x, Info(m, d), i, Word(Vaddr(p), Low(c)))
               x2 == Put(x1, d, i, Word(m.base + p, PR + WR + US))
    <2>1. k = IF ~Running(n) THEN n ELSE x2
        BY <1>7 DEF CloneEntry, TableHere
    <2>2. /\ n \in Mem /\ p \in PoolPage /\ (~Running(n) => Explained(n))
          /\ Running(n) => p \notin m.taken /\ n.taken = m.taken \cup {p} /\ n.page = m.page /\ Alike(m, n)
        BY <1>1, PoolAllocFields
    <2>3. CASE ~Running(n)
        BY <2>1, <2>2, <2>3
    <2>4. CASE Running(n)
        <3>1. p \in PoolPage \ m.taken /\ p \in AnyPage /\ p # d /\ p # Info(m, d)
            <4>1. d \in m.taken /\ Info(m, d) \in m.taken
                BY <1>1 DEF Owned
            <4> QED
                BY <2>2, <2>4, <4>1 DEF AnyPage
        <3>2. t \in [Index -> Nat] /\ c \in Nat /\ Low(c) \in 1..15
            <4>1. Table(m, s, i) \in AnyPage /\ Info(m, s) \in AnyPage
                BY <1>1, <1>7, OwnedPages
            <4>2. m.page[s][i] # 0 /\ ~(Has(m.page[s][i], PR) /\ Has(m.page[s][i], PS))
                BY <1>7, Flags DEF TableHere
            <4> QED
                BY <1>1, <1>3, <4>1, <4>2, MemTypes DEF Count, Row
        <3>3. Word(Vaddr(p), Low(c)) \in Nat /\ Word(m.base + p, 7) \in Nat /\ m.base + p \in Nat
            <4>1. Vaddr(p) \in Nat /\ m.base \in Nat /\ p \in Nat /\ 7 \in 0..15
                BY <1>1, <3>1, PoolSizes, MemTypes
            <4>2. m.base + p \in Nat /\ Low(c) \in 0..15
                BY <3>2, <4>1
            <4>3. Word(Vaddr(p), Low(c)) \in Nat
                BY <4>1, <4>2, Words
            <4>4. Word(m.base + p, 7) \in Nat
                BY <4>1, <4>2, Words
            <4> QED
                BY <4>2, <4>3, <4>4
        <3>4. PR + WR + US = 7
            BY DEF PR, WR, US
        <3> HIDE DEF n, p, c, t, x, x1, x2
        <3>5. /\ x \in Mem /\ Running(x) /\ x.taken = n.taken /\ x.page[p] = t
              /\ \A q \in AnyPage : q # p => x.page[q] = m.page[q]
              /\ Alike(n, x)
            <4> DEFINE g == [n.page EXCEPT ![p] = t]
            <4>1. n.page \in [AnyPage -> [Index -> Nat]]
                BY <2>2, MemTypes
            <4>2. /\ g \in [AnyPage -> [Index -> Nat]] /\ g[p] = t
                  /\ \A q \in AnyPage : q # p => g[q] = n.page[q]
                BY <3>1, <3>2, <4>1
            <4>3. x = [n EXCEPT !.page = g]
                BY DEF x
            <4> HIDE DEF g
            <4>4. x \in Mem /\ x.page = g /\ x.taken = n.taken /\ x.bad = n.bad /\ Alike(n, x)
                BY <2>2, <4>2, <4>3 DEF Mem, AnyPage, Alike
            <4> QED
                BY <2>2, <2>4, <4>2, <4>4 DEF Running
        <3>6. IsPut(x, x1, Info(m, d), i, Word(Vaddr(p), Low(c)))
            BY <1>1, <1>2, <3>3, <3>5, PutFields DEF x1
        <3>7. x1 \in Mem /\ Running(x1)
            BY <3>6 DEF IsPut
        <3>8. IsPut(x1, x2, d, i, Word(m.base + p, 7))
            BY <1>1, <1>2, <3>3, <3>4, <3>7, PutFields DEF x2
        <3>9. k = x2
            BY <2>1, <2>4
        <3>10. k \in Mem /\ Running(k) /\ k.taken = m.taken \cup {p}
            BY <2>2, <2>4, <3>5, <3>6, <3>8, <3>9 DEF IsPut
        <3>11. k.page[p] = t /\ \A q \in AnyPage \ {d, Info(m, d), p} : k.page[q] = m.page[q]
            BY <1>2, <3>1, <3>5, <3>6, <3>8, <3>9 DEF IsPut
        <3>12. /\ k.page[d][i] = Word(m.base + p, 7) /\ k.page[Info(m, d)][i] = Word(Vaddr(p), Low(c))
               /\ \A j \in Index \ {i} : /\ k.page[d][j] = m.page[d][j]
                                         /\ k.page[Info(m, d)][j] = m.page[Info(m, d)][j]
            <4>1. k.page[Info(m, d)] = x1.page[Info(m, d)] /\ x1.page[d] = x.page[d]
                BY <1>2, <3>6, <3>8, <3>9 DEF IsPut
            <4>2. x.page[d] = m.page[d] /\ x.page[Info(m, d)] = m.page[Info(m, d)]
                BY <1>2, <3>1, <3>5
            <4> QED
                BY <3>6, <3>8, <3>9, <4>1, <4>2 DEF IsPut
        <3>13. NamesTable(m, k, d, i, p)
            <4>1. Has(k.page[d][i], PR) /\ ~Has(k.page[d][i], PS)
                BY <3>3, <3>12, Flags
            <4> QED
                BY <1>1, <3>2, <3>11, <3>12, <4>1 DEF NamesTable
        <3>14. /\ Owned(k, D \cup {d}) /\ TableHere(k, d, i) /\ Table(k, d, i) = p
               /\ \A e \in D \cup {d}, j \in Tabled : e # d \/ j # i => Same(m, k, e, j)
            BY <1>1, <1>4, <3>1, <3>10, <3>13, AddsTable
        <3>15. Agrees(k, d, i)
            <4>1. TableHere(m, MmKernel, i) /\ \A j \in Index : Entry(m, s, <<i, j>>) = Entry(m, MmKernel, <<i, j>>)
                BY <1>3, <1>7 DEF Agrees, TableHere
            <4>2. \A j \in Index : Entry(k, d, <<i, j>>) = Entry(m, s, <<i, j>>)
                BY <3>11, <3>14 DEF Entry, t
            <4>3. Same(m, k, MmKernel, i)
                BY <1>1, <3>14
            <4>4. /\ TableHere(k, MmKernel, i)
                  /\ \A j \in Index : Entry(k, MmKernel, <<i, j>>) = Entry(m, MmKernel, <<i, j>>)
                BY <4>1, <4>3, SameMeans
            <4> QED
                BY <3>14, <4>1, <4>2, <4>4 DEF Agrees
        <3>16. Kept(m, k) /\ k.data = m.data
            <4>1. k.used = m.used /\ k.hint = m.hint /\ k.base = m.base /\ k.data = m.data
                BY <2>2, <2>4, <3>5, <3>6, <3>8, <3>9 DEF Alike, IsPut
            <4>2. /\ At(Word(m.base + p, 7)) \notin Private(m)
                  /\ At(Word(Vaddr(p), Low(c))) \notin Private(m)
                <5>1. 7 \in 0..15 /\ Low(c) \in 0..15
                    BY <3>2
                <5> QED
                    BY <1>1, <3>1, <5>1, PlainWords
            <4>3. \A j \in Index : At(t[j]) \notin Private(m)
                <5>1. TableHere(m, MmKernel, i) /\ \A j \in Index : Entry(m, s, <<i, j>>) = Entry(m, MmKernel, <<i, j>>)
                    BY <1>3, <1>7 DEF Agrees, TableHere
                <5>2. \A j \in Index : t[j] = Entry(m, s, <<i, j>>)
                    BY DEF t, Entry
                <5> QED
                    BY <1>1, <5>1, <5>2 DEF Good, Apart, KernelPlain
            <4>4. ASSUME NEW q \in AnyPage, NEW j \in Index, At(k.page[q][j]) \in Private(m)
                  PROVE  k.page[q][j] = m.page[q][j]
                <5>1. CASE q = p
                    BY <3>11, <4>3, <4>4, <5>1
                <5>2. CASE q \in {d, Info(m, d)}
                    BY <3>12, <4>2, <4>4, <5>2
                <5>3. CASE q \notin {d, Info(m, d), p}
                    BY <3>11, <5>3
                <5> QED
                    BY <5>1, <5>2, <5>3
            <4> QED
                BY <4>1, <4>4 DEF Kept
        <3> QED
            BY <3>10, <3>14, <3>15, <3>16, CloneRest
    <2> QED
        BY <2>3, <2>4
<1> QED
    BY <1>5, <1>6, <1>7 DEF TableHere

\* Space d has no table for the user's pages.
Bare(m, d) == \A i \in User : m.page[d][i] = 0

\* mm_space_clone of what the kernel maps.
LEMMA CloneKernelSafe ==
    ASSUME NEW D, NEW m, NEW d, NewSpace(m, D, d), NEW s \in D, \A i \in Kernel : m.page[d][i] = 0
    PROVE  /\ Safe(CloneKernel(m, d, s), D \cup {d})
           /\ Running(CloneKernel(m, d, s)) =>
                Untouched(m, CloneKernel(m, d, s), D) /\ Bare(CloneKernel(m, d, s), d)
<1> DEFINE n == CloneEntry(m, d, s, 3)
           k == CloneEntry(n, d, s, 4)
<1>1. 3 \in Kernel /\ 4 \in Kernel /\ 4 \in Kernel \ {3} /\ 3 \in Kernel \ {4} /\ \A i \in Kernel : i \in {3, 4}
    BY Places
<1>2. n \in Mem /\ (~Running(n) => Explained(n)) /\ (Running(n) => IsClone(m, n, D, d, 3))
    BY <1>1, CloneEntryMakes
<1>3. CloneKernel(m, d, s) = k
    BY DEF CloneKernel
<1>4. CASE ~Running(n)
    <2> HIDE DEF n
    <2>1. PoolAlloc(n).mem = n /\ Put(n, d, 4, n.page[s][4]) = n
        BY <1>4, StoppedStays
    <2>2. k = n
        BY <1>4, <2>1 DEF CloneEntry
    <2> QED
        BY <1>2, <1>3, <1>4, <2>2 DEF Safe
<1>5. CASE Running(n)
    <2>1. NewSpace(n, D, d) /\ Agrees(n, d, 3) /\ n.page[d][4] = 0 /\ Untouched(m, n, D)
        BY <1>1, <1>2, <1>5 DEF IsClone
    <2> HIDE DEF n
    <2>2. k \in Mem /\ (~Running(k) => Explained(k)) /\ (Running(k) => IsClone(n, k, D, d, 4))
        BY <1>1, <2>1, CloneEntryMakes
    <2> HIDE DEF k
    <2>3. CASE Running(k)
        <3>1. NewSpace(k, D, d) /\ \A i \in Kernel : Agrees(k, d, i)
            BY <1>1, <2>1, <2>2, <2>3 DEF IsClone
        <3>2. Good(k, D \cup {d})
            <4>1. \A i \in User : Counted(k, d, i)
                BY <3>1, Flags DEF NewSpace, Counted, TableHere
            <4> QED
                BY <3>1, <4>1 DEF NewSpace, Good
        <3>3. Untouched(m, k, D)
            BY <2>1, <2>2, <2>3, UntouchedTwice DEF IsClone
        <3>4. Bare(k, d)
            BY <3>1 DEF NewSpace, Bare
        <3> QED
            BY <1>3, <2>2, <2>3, <3>2, <3>3, <3>4 DEF Safe
    <2> QED
        BY <1>3, <2>2, <2>3 DEF Safe
<1> QED
    BY <1>4, <1>5

-----------------------------------------------------------------------------
(***************************************************************************)
(* Loops over pages.                                                       *)
(***************************************************************************)

\* A page of mm_space_fork.
LEMMA ForkPageSafe ==
    ASSUME NEW D, NEW m, Safe(m, D), NEW dst \in D \ {MmKernel}, NEW src \in D, NEW v \in UserPage
    PROVE  Safe(ForkPage(m, dst, src, v), D)
<1> DEFINE flags == (IF Has(Entry(m, src, v), WR) THEN WR ELSE 0) + US
           x == Data(m, At(Entry(m, src, v)))
           k == MapNew(m, dst, v, flags, FALSE)
<1>1. flags \in {US, WR + US}
    BY DEF WR, US
<1>2. x \in Cell
    <2>1. m.data \in [Frame -> Cell]
        BY MemTypes DEF Safe
    <2>2. Private(m) \subseteq Frame
        BY PageMemAssumption DEF Private, Frame
    <2> QED
        BY <2>1, <2>2 DEF Data, Cell
<1> HIDE DEF flags, x
<1>3. Safe(k, D)
    BY <1>1, MapNewSafe
<1>4. ForkPage(m, dst, src, v) = IF ~Running(k) THEN k ELSE ToUser(FromUser(k, src, v), dst, v, x)
    BY DEF ForkPage, k, flags, x
<1> HIDE DEF k
<1>5. Safe(ToUser(FromUser(k, src, v), dst, v, x), D)
    BY <1>2, <1>3, FromUserSafe, ToUserSafe
<1> QED
    BY <1>3, <1>4, <1>5

\* The loops of elf_load over the pages of a section.
Mapping(m, d, s) ==
    LET mapped[n \in 0..Len(s.pages)] ==
            IF n = 0 THEN m ELSE MapNew(mapped[n - 1], d, s.pages[n], WR + US, TRUE)
    IN  mapped[Len(s.pages)]

Filling(m, d, s, prog) ==
    LET filled[n \in 0..Len(s.pages)] ==
            IF n = 0 THEN m ELSE ToUser(filled[n - 1], d, s.pages[n], prog)
    IN  filled[Len(s.pages)]

\* Whatever their steps keep, the loops keep.
LEMMA MappingIn ==
    ASSUME NEW S, NEW m \in S, NEW d, NEW s, s.pages \in Seq(UserPage),
           \A k \in S, v \in UserPage : MapNew(k, d, v, WR + US, TRUE) \in S
    PROVE  Mapping(m, d, s) \in S
<1> DEFINE N == Len(s.pages)
           F == [x \in (1..N) \X S |-> MapNew(x[2], d, s.pages[x[1]], WR + US, TRUE)]
           f == CHOOSE f : f = [n \in 0..N |-> IF n = 0 THEN m ELSE MapNew(f[n - 1], d, s.pages[n], WR + US, TRUE)]
<1>1. N \in Nat /\ \A n \in 1..N : s.pages[n] \in UserPage
    OBVIOUS
<1>2. m \in S /\ \A n \in 1..N, k \in S : MapNew(k, d, s.pages[n], WR + US, TRUE) \in S
    BY <1>1
<1> HIDE DEF N
<1>3. F \in [(1..N) \X S -> S] /\ \A n \in 1..N, k \in S : F[<<n, k>>] = MapNew(k, d, s.pages[n], WR + US, TRUE)
    BY <1>2
<1> HIDE DEF F
<1>4. PICK g \in [0..N -> S] : g[0] = m /\ \A n \in 1..N : g[n] = F[<<n, g[n - 1]>>]
    <2>1. N \in Nat /\ m \in S /\ F \in [(1..N) \X S -> S]
        BY <1>1, <1>2, <1>3
    <2>2. HasLoop(S, N, m, F)
        BY <2>1, LoopExists
    <2> QED
        BY <2>2 DEF HasLoop
<1>5. g = [n \in 0..N |-> IF n = 0 THEN m ELSE MapNew(g[n - 1], d, s.pages[n], WR + US, TRUE)]
    <2>1. ASSUME NEW n \in 0..N, n # 0
          PROVE  g[n] = MapNew(g[n - 1], d, s.pages[n], WR + US, TRUE)
        <3>1. n \in 1..N /\ n - 1 \in 0..N
            BY <1>1, <2>1
        <3>2. g[n - 1] \in S
            BY <1>4, <3>1
        <3> QED
            BY <1>3, <1>4, <3>1, <3>2
    <2> QED
        BY <1>4, <2>1
<1>6. f = [n \in 0..N |-> IF n = 0 THEN m ELSE MapNew(f[n - 1], d, s.pages[n], WR + US, TRUE)]
    BY <1>5
<1>7. Mapping(m, d, s) = f[N]
    BY DEF Mapping, N
<1> HIDE DEF f
<1>8. f[0] = m /\ \A n \in 1..N : f[n] = MapNew(f[n - 1], d, s.pages[n], WR + US, TRUE)
    <2>1. 0 \in 0..N /\ \A n \in 1..N : n \in 0..N /\ n # 0
        BY <1>1
    <2> QED
        BY <1>6, <2>1
<1>9. f[N] \in S
    <2>1. N \in Nat /\ f[0] \in S /\ \A n \in 1..N : f[n - 1] \in S => f[n] \in S
        BY <1>1, <1>2, <1>8
    <2> QED
        BY <2>1, LoopKeeps
<1> QED
    BY <1>7, <1>9

LEMMA FillingIn ==
    ASSUME NEW S, NEW m \in S, NEW d, NEW s, s.pages \in Seq(UserPage), NEW prog,
           \A k \in S, v \in UserPage : ToUser(k, d, v, prog) \in S
    PROVE  Filling(m, d, s, prog) \in S
<1> DEFINE N == Len(s.pages)
           F == [x \in (1..N) \X S |-> ToUser(x[2], d, s.pages[x[1]], prog)]
           f == CHOOSE f : f = [n \in 0..N |-> IF n = 0 THEN m ELSE ToUser(f[n - 1], d, s.pages[n], prog)]
<1>1. N \in Nat /\ \A n \in 1..N : s.pages[n] \in UserPage
    OBVIOUS
<1>2. m \in S /\ \A n \in 1..N, k \in S : ToUser(k, d, s.pages[n], prog) \in S
    BY <1>1
<1> HIDE DEF N
<1>3. F \in [(1..N) \X S -> S] /\ \A n \in 1..N, k \in S : F[<<n, k>>] = ToUser(k, d, s.pages[n], prog)
    BY <1>2
<1> HIDE DEF F
<1>4. PICK g \in [0..N -> S] : g[0] = m /\ \A n \in 1..N : g[n] = F[<<n, g[n - 1]>>]
    <2>1. N \in Nat /\ m \in S /\ F \in [(1..N) \X S -> S]
        BY <1>1, <1>2, <1>3
    <2>2. HasLoop(S, N, m, F)
        BY <2>1, LoopExists
    <2> QED
        BY <2>2 DEF HasLoop
<1>5. g = [n \in 0..N |-> IF n = 0 THEN m ELSE ToUser(g[n - 1], d, s.pages[n], prog)]
    <2>1. ASSUME NEW n \in 0..N, n # 0
          PROVE  g[n] = ToUser(g[n - 1], d, s.pages[n], prog)
        <3>1. n \in 1..N /\ n - 1 \in 0..N
            BY <1>1, <2>1
        <3>2. g[n - 1] \in S
            BY <1>4, <3>1
        <3> QED
            BY <1>3, <1>4, <3>1, <3>2
    <2> QED
        BY <1>4, <2>1
<1>6. f = [n \in 0..N |-> IF n = 0 THEN m ELSE ToUser(f[n - 1], d, s.pages[n], prog)]
    BY <1>5
<1>7. Filling(m, d, s, prog) = f[N]
    BY DEF Filling, N
<1> HIDE DEF f
<1>8. f[0] = m /\ \A n \in 1..N : f[n] = ToUser(f[n - 1], d, s.pages[n], prog)
    <2>1. 0 \in 0..N /\ \A n \in 1..N : n \in 0..N /\ n # 0
        BY <1>1
    <2> QED
        BY <1>6, <2>1
<1>9. f[N] \in S
    <2>1. N \in Nat /\ f[0] \in S /\ \A n \in 1..N : f[n - 1] \in S => f[n] \in S
        BY <1>1, <1>2, <1>8
    <2> QED
        BY <2>1, LoopKeeps
<1> QED
    BY <1>7, <1>9

\* What the pages of a program and its contents do to space d, S is closed under.
KeepsLoading(S, d, prog) ==
    \A k \in S, v \in UserPage :
        MapNew(k, d, v, WR + US, TRUE) \in S /\ ToUser(k, d, v, prog) \in S

LEMMA LoadSectionIn ==
    ASSUME NEW S, NEW m \in S, NEW d, NEW s, s.pages \in Seq(UserPage), NEW prog, KeepsLoading(S, d, prog)
    PROVE  LoadSection(m, d, s, prog) \in S
<1> DEFINE k == Mapping(m, d, s)
<1>1. k \in S
    BY MappingIn DEF KeepsLoading
<1>2. Filling(k, d, s, prog) \in S
    <2> HIDE DEF k
    <2> QED
        BY <1>1, FillingIn DEF KeepsLoading
<1>3. LoadSection(m, d, s, prog) = IF s.loaded THEN Filling(k, d, s, prog) ELSE k
    BY DEF LoadSection, Mapping, Filling
<1> HIDE DEF k
<1> QED
    BY <1>1, <1>2, <1>3

\* elf_load
LEMMA ElfLoadIn ==
    ASSUME NEW S, NEW m \in S, NEW d, NEW prog \in Program, KeepsLoading(S, d, prog)
    PROVE  ElfLoad(m, d, prog) \in S
<1> DEFINE N == Len(Sections[prog])
           F == [x \in (1..N) \X S |-> LoadSection(x[2], d, Sections[prog][x[1]], prog)]
           f == CHOOSE f : f = [n \in 0..N |-> IF n = 0 THEN m ELSE LoadSection(f[n - 1], d, Sections[prog][n], prog)]
<1>1. N \in Nat /\ \A n \in 1..N : Sections[prog][n].pages \in Seq(UserPage)
    <2>1. Sections[prog] \in Seq([pages : Seq(UserPage), loaded : BOOLEAN])
        BY ProgramsAssumption
    <2>2. ASSUME NEW R, NEW q \in Seq(R)
          PROVE  Len(q) \in Nat /\ \A n \in 1..Len(q) : q[n] \in R
        OBVIOUS
    <2>3. \A s \in [pages : Seq(UserPage), loaded : BOOLEAN] : s.pages \in Seq(UserPage)
        OBVIOUS
    <2> QED
        BY <2>1, <2>2, <2>3
<1>2. m \in S /\ \A n \in 1..N, k \in S : LoadSection(k, d, Sections[prog][n], prog) \in S
    BY <1>1, LoadSectionIn
<1> HIDE DEF N
<1>3. F \in [(1..N) \X S -> S] /\ \A n \in 1..N, k \in S : F[<<n, k>>] = LoadSection(k, d, Sections[prog][n], prog)
    BY <1>2
<1> HIDE DEF F
<1>4. PICK g \in [0..N -> S] : g[0] = m /\ \A n \in 1..N : g[n] = F[<<n, g[n - 1]>>]
    <2>1. N \in Nat /\ m \in S /\ F \in [(1..N) \X S -> S]
        BY <1>1, <1>2, <1>3
    <2>2. HasLoop(S, N, m, F)
        BY <2>1, LoopExists
    <2> QED
        BY <2>2 DEF HasLoop
<1>5. g = [n \in 0..N |-> IF n = 0 THEN m ELSE LoadSection(g[n - 1], d, Sections[prog][n], prog)]
    <2>1. ASSUME NEW n \in 0..N, n # 0
          PROVE  g[n] = LoadSection(g[n - 1], d, Sections[prog][n], prog)
        <3>1. n \in 1..N /\ n - 1 \in 0..N
            BY <1>1, <2>1
        <3>2. g[n - 1] \in S
            BY <1>4, <3>1
        <3> QED
            BY <1>3, <1>4, <3>1, <3>2
    <2> QED
        BY <1>4, <2>1
<1>6. f = [n \in 0..N |-> IF n = 0 THEN m ELSE LoadSection(f[n - 1], d, Sections[prog][n], prog)]
    BY <1>5
<1>7. ElfLoad(m, d, prog) = f[N]
    BY DEF ElfLoad, N
<1> HIDE DEF f
<1>8. f[0] = m /\ \A n \in 1..N : f[n] = LoadSection(f[n - 1], d, Sections[prog][n], prog)
    <2>1. 0 \in 0..N /\ \A n \in 1..N : n \in 0..N /\ n # 0
        BY <1>1
    <2> QED
        BY <1>6, <2>1
<1>9. f[N] \in S
    <2>1. N \in Nat /\ f[0] \in S /\ \A n \in 1..N : f[n - 1] \in S => f[n] \in S
        BY <1>1, <1>2, <1>8
    <2> QED
        BY <2>1, LoopKeeps
<1> QED
    BY <1>7, <1>9

LEMMA ElfLoadSafe ==
    ASSUME NEW D, NEW m, Safe(m, D), NEW d \in D \ {MmKernel}, NEW prog \in Program
    PROVE  Safe(ElfLoad(m, d, prog), D)
<1> DEFINE S == {k \in Mem : Safe(k, D)}
<1>1. \A k : k \in S <=> Safe(k, D)
    BY DEF Safe
<1> HIDE DEF S
<1>2. KeepsLoading(S, d, prog)
    <2>1. WR + US \in {US, WR + US} /\ prog \in Cell
        BY DEF Cell
    <2> QED
        BY <1>1, <2>1, MapNewSafe, ToUserSafe DEF KeepsLoading
<1> QED
    BY <1>1, <1>2, ElfLoadIn

\* The pages of mm_space_fork's loop.
LEMMA PageAtType ==
    ASSUME NEW n \in 1..2 * Entries
    PROVE  PageAt(n) \in UserPage
<1>1. Entries = 6 /\ n \in 1..12
    BY DEF Entries, InfoEntry
<1>2. 1 + (n - 1) \div 6 \in {1, 2} /\ (n - 1) % 6 \in 0..5
    BY <1>1
<1> QED
    BY <1>1, <1>2 DEF PageAt, UserPage, User, Index, InfoEntry

\* mm_space_fork
ForkLoop(f, m, dst, src) ==
    /\ f[0] = CloneKernel(m, dst, src) /\ ForkSpace(m, dst, src) = f[2 * Entries]
    /\ \A n \in 1..2 * Entries :
        f[n] = IF Running(f[n - 1]) /\ Mapped(f[n - 1], src, PageAt(n))
               THEN ForkPage(f[n - 1], dst, src, PageAt(n)) ELSE f[n - 1]

LEMMA ForkLoops ==
    ASSUME NEW D, NEW m, NEW dst \in D \ {MmKernel}, NEW src \in D, Safe(CloneKernel(m, dst, src), D)
    PROVE  \E f : ForkLoop(f, m, dst, src) /\ \A n \in 0..2 * Entries : Safe(f[n], D)
<1> DEFINE N == 2 * Entries
           b == CloneKernel(m, dst, src)
           S == {k \in Mem : Safe(k, D)}
           G(k, n) == IF Running(k) /\ Mapped(k, src, PageAt(n)) THEN ForkPage(k, dst, src, PageAt(n)) ELSE k
           F == [x \in (1..N) \X S |-> G(x[2], x[1])]
           f == CHOOSE f : f = [n \in 0..N |-> IF n = 0 THEN b ELSE G(f[n - 1], n)]
<1>1. N \in Nat /\ \A n \in 1..N : PageAt(n) \in UserPage
    BY PageAtType DEF Entries, InfoEntry
<1>2. /\ b \in S
      /\ \A k : k \in S <=> Safe(k, D)
      /\ \A n \in 1..N, k \in S : G(k, n) \in S
    <2>1. \A k : k \in S <=> Safe(k, D)
        BY DEF Safe
    <2> HIDE DEF S, N
    <2>2. \A n \in 1..N, k \in S : ForkPage(k, dst, src, PageAt(n)) \in S
        BY <1>1, <2>1, ForkPageSafe
    <2> QED
        BY <2>1, <2>2
<1>3. ForkSpace(m, dst, src) = f[N]
    BY DEF ForkSpace
<1> HIDE DEF N, S, G, b
<1>4. F \in [(1..N) \X S -> S] /\ \A n \in 1..N, k \in S : F[<<n, k>>] = G(k, n)
    BY <1>2
<1> HIDE DEF F
<1>5. PICK g \in [0..N -> S] : g[0] = b /\ \A n \in 1..N : g[n] = F[<<n, g[n - 1]>>]
    <2>1. N \in Nat /\ b \in S /\ F \in [(1..N) \X S -> S]
        BY <1>1, <1>2, <1>4
    <2>2. HasLoop(S, N, b, F)
        BY <2>1, LoopExists
    <2> QED
        BY <2>2 DEF HasLoop
<1>6. g = [n \in 0..N |-> IF n = 0 THEN b ELSE G(g[n - 1], n)]
    <2>1. ASSUME NEW n \in 0..N, n # 0
          PROVE  g[n] = G(g[n - 1], n)
        <3>1. n \in 1..N /\ n - 1 \in 0..N
            BY <1>1, <2>1
        <3>2. g[n - 1] \in S
            BY <1>5, <3>1
        <3> QED
            BY <1>4, <1>5, <3>1, <3>2
    <2> QED
        BY <1>5, <2>1
<1>7. f = [n \in 0..N |-> IF n = 0 THEN b ELSE G(f[n - 1], n)]
    BY <1>6
<1> HIDE DEF f
<1>8. f[0] = b /\ \A n \in 1..N : f[n] = G(f[n - 1], n)
    <2>1. 0 \in 0..N /\ \A n \in 1..N : n \in 0..N /\ n # 0
        BY <1>1
    <2> QED
        BY <1>7, <2>1
<1>9. ASSUME NEW M \in 0..N
      PROVE  Safe(f[M], D)
    <2>1. M \in Nat /\ f[0] \in S /\ \A n \in 1..M : f[n - 1] \in S => f[n] \in S
        BY <1>1, <1>2, <1>8
    <2>2. f[M] \in S
        BY <2>1, LoopKeeps
    <2> QED
        BY <1>2, <2>2
<1>10. ForkLoop(f, m, dst, src)
    BY <1>3, <1>8 DEF ForkLoop, N, G, b
<1> QED
    BY <1>9, <1>10 DEF N

LEMMA ForkSpaceSafe ==
    ASSUME NEW D, NEW m, NEW dst \in D \ {MmKernel}, NEW src \in D, Safe(CloneKernel(m, dst, src), D)
    PROVE  Safe(ForkSpace(m, dst, src), D)
<1>1. PICK f : ForkLoop(f, m, dst, src) /\ \A n \in 0..2 * Entries : Safe(f[n], D)
    BY ForkLoops
<1>2. 2 * Entries \in 0..2 * Entries
    BY DEF Entries, InfoEntry
<1> QED
    BY <1>1, <1>2 DEF ForkLoop

-----------------------------------------------------------------------------
(***************************************************************************)
(* The handlers.                                                           *)
(***************************************************************************)

\* task_fexecve, whatever the memory it starts from.
LEMMA LoadedSafe ==
    ASSUME NEW D, NEW m, Safe(m, D), NEW prog \in Program, NEW r, r = Loaded(m, prog)
    PROVE  /\ r.space \in PoolPage /\ Safe(r.mem, D \cup {r.space})
           /\ Running(r.mem) => r.space \notin D
<1> DEFINE c == CreateSpace(m)
           d == c.space
           E == D \cup {d}
           b == CloneKernel(c.mem, d, MmKernel)
           k == ElfLoad(b, d, prog)
           s == IF Running(k) THEN MapNew(k, d, Stack, WR + US, FALSE) ELSE k
           x == ToUser(s, d, Stack, prog)
<1>1. r = [mem |-> IF Running(c.mem) THEN x ELSE c.mem, space |-> d]
    BY DEF Loaded
<1>2. m \in Mem
    BY DEF Safe
<1>3. CASE ~Running(m)
    <2>1. PoolAlloc(m).mem = m /\ PoolAlloc(m).page = 0
        BY <1>3, StoppedStays
    <2>2. c.mem = m /\ d = 0
        BY <1>3, <2>1 DEF CreateSpace
    <2> HIDE DEF c, d, x
    <2>3. r.mem = m /\ r.space = 0
        BY <1>1, <1>3, <2>2
    <2> QED
        BY <1>3, <2>3, PoolSizes DEF Safe
<1>4. CASE Running(m)
    <2> HIDE DEF c
    <2>1. /\ c.mem \in Mem /\ d \in PoolPage /\ (~Running(c.mem) => Explained(c.mem))
          /\ Running(c.mem) => NewSpace(c.mem, D, d) /\ \A i \in Kernel : c.mem.page[d][i] = 0
        BY <1>4, CreateSpaceMakes DEF Safe, c
    <2> HIDE DEF d, x
    <2>2. CASE ~Running(c.mem)
        BY <1>1, <2>1, <2>2 DEF Safe
    <2>3. CASE Running(c.mem)
        <3>1. MmKernel \in D /\ d \notin D
            BY <2>1, <2>3 DEF NewSpace, Good
        <3> HIDE DEF E, b, k, s
        <3>2. Safe(b, E)
            BY <2>1, <2>3, <3>1, CloneKernelSafe DEF b, E
        <3>3. d \in E /\ d \in E \ {MmKernel} /\ Stack \in UserPage /\ prog \in Cell /\ WR + US \in {US, WR + US}
            BY <3>1 DEF E, Stack, UserPage, User, Index, InfoEntry, Cell
        <3>4. Safe(k, E)
            BY <3>2, <3>3, ElfLoadSafe DEF k
        <3>5. Safe(s, E)
            BY <3>3, <3>4, MapNewSafe DEF s
        <3>6. Safe(x, E)
            BY <3>3, <3>5, ToUserSafe DEF x
        <3>7. r.mem = x /\ r.space = d
            BY <1>1, <2>3
        <3> QED
            BY <2>1, <3>1, <3>6, <3>7 DEF E
    <2> QED
        BY <2>2, <2>3
<1> QED
    BY <1>3, <1>4

\* A kernel that has stopped may hold anything.
LEMMA SettledSafe ==
    ASSUME NEW D, NEW m, Safe(m, D)
    PROVE  Safe(Settled(m), D)
<1>1. CASE Running(m)
    BY <1>1 DEF Settled
<1>2. CASE ~Running(m)
    <2> DEFINE page == [p \in DOMAIN m.page |-> Empty]
               data == [f \in Frame |-> Junk]
               k == [m EXCEPT !.page = page, !.data = data]
    <2>1. m \in Mem /\ Explained(m)
        BY <1>2 DEF Safe
    <2>2. page \in [PoolPage \cup {MmKernel} -> [Index -> Nat]] /\ data \in [Frame -> Cell]
        <3>1. DOMAIN m.page = PoolPage \cup {MmKernel}
            BY <2>1 DEF Mem
        <3>2. Empty \in [Index -> Nat] /\ Junk \in Cell
            BY DEF Empty, Cell
        <3> QED
            BY <3>1, <3>2
    <2>3. Settled(m) = k
        BY <1>2 DEF Settled
    <2> HIDE DEF page, data
    <2>4. k \in Mem /\ k.bad = m.bad /\ k.taken = m.taken /\ k.last = m.last
        BY <2>1, <2>2 DEF Mem
    <2> HIDE DEF k
    <2> QED
        BY <1>2, <2>1, <2>3, <2>4 DEF Safe, Explained, Running
<1> QED
    BY <1>1, <1>2

\* A task that runs has a space.
LEMMA RunsIn ==
    ASSUME ProgramsInv, NEW t \in Task, Runs(t)
    PROVE  /\ Running(mem) /\ t \in Alive /\ space[t] \in PoolPage
           /\ space[t] \in Spaces /\ space[t] \in Spaces \ {MmKernel}
<1>1. space[t] \in PoolPage /\ space[t] # None
    BY DEF Runs, ProgramsInv
<1>2. t \in Alive /\ space[t] \in Spaces
    BY <1>1 DEF Alive, Spaces, Free
<1> QED
    BY <1>1, <1>2, PoolSizes DEF Runs

\* Steps that leave the spaces alone.
LEMMA SpacesStay ==
    ASSUME ProgramsInv, NEW m, Safe(m, Spaces), mem' = m \/ mem' = Settled(m), space' = space
    PROVE  ProgramsInv'
<1>1. Alive' = Alive /\ Spaces' = Spaces
    BY DEF Alive, Spaces, Free
<1>2. Safe(mem', Spaces)
    BY SettledSafe
<1>3. Safe(mem, Spaces)'
    BY <1>1, <1>2 DEF Safe, Good, Owned, Closed, Agrees, Explained, Row, Mem, Running, TableHere, Table,
                      Info, Count, Entry
<1>4. \A t, u \in Alive' : space'[t] = space'[u] => t = u
    BY <1>1 DEF ProgramsInv
<1> QED
    BY <1>3, <1>4 DEF ProgramsInv

\* A space for a child, or the kernel has stopped.
LEMMA ChildInv ==
    ASSUME ProgramsInv, NEW t \in Task, Free(t), NEW m, NEW d, Child(t, m, d), m \in Mem,
           ~Running(m) => Explained(m),
           Running(m) => d \in PoolPage \ Spaces /\ Safe(m, Spaces \cup {d})
    PROVE  ProgramsInv'
<1>1. CASE ~Running(m)
    <2>1. Safe(m, Spaces) /\ mem' = Settled(m) /\ space' = space
        BY <1>1 DEF Safe, Child
    <2> QED
        BY <2>1, SpacesStay
<1>2. CASE Running(m)
    <2>1. mem' = m /\ space' = [space EXCEPT ![t] = d] /\ space \in [Task -> PoolPage \cup {None}]
        BY <1>2 DEF Child, Settled, ProgramsInv
    <2>2. d \in PoolPage /\ d # None /\ d \notin Spaces /\ space[t] = None
        BY <1>2, PoolSizes DEF Free
    <2>3. space' \in [Task -> PoolPage \cup {None}] /\ space'[t] = d /\ \A u \in Task \ {t} : space'[u] = space[u]
        BY <2>1, <2>2
    <2>4. Alive' = Alive \cup {t} /\ t \notin Alive
        BY <2>2, <2>3 DEF Alive, Free
    <2>5. Spaces' = Spaces \cup {d}
        <3>1. \A u \in Alive : u # t /\ u \in Task
            BY <2>4 DEF Alive
        <3>2. Spaces' = {MmKernel} \cup {space'[u] : u \in Alive \cup {t}}
            BY <2>4 DEF Spaces
        <3>3. \A u \in Alive : space'[u] = space[u]
            BY <2>3, <3>1
        <3>4. Spaces = {MmKernel} \cup {space[u] : u \in Alive}
            BY DEF Spaces
        <3> QED
            BY <2>3, <3>2, <3>3, <3>4
    <2>6. Safe(mem, Spaces)'
        <3>1. Safe(mem', Spaces')
            BY <1>2, <2>1, <2>5
        <3> QED
            BY <3>1 DEF Safe, Good, Owned, Closed, Agrees, Explained, Row, Mem, Running, TableHere, Table,
                        Info, Count, Entry
    <2>7. ASSUME NEW a \in Alive', NEW u \in Alive', space'[a] = space'[u]
          PROVE  a = u
        <3>1. \A x \in Alive : x # t /\ space'[x] = space[x] /\ space[x] # d
            BY <2>2, <2>3, <2>4 DEF Alive, Spaces
        <3> QED
            BY <2>3, <2>4, <2>7, <3>1 DEF ProgramsInv
    <2> QED
        BY <2>3, <2>6, <2>7 DEF ProgramsInv
<1> QED
    BY <1>1, <1>2

LEMMA FexecveInv ==
    ASSUME ProgramsInv, NEW t \in Task, NEW c \in Task, NEW prog \in Program, Fexecve(t, c, prog)
    PROVE  ProgramsInv'
<1> DEFINE k == FromUser(mem, space[t], Stack)
           r == Loaded(k, prog)
<1>1. Runs(t) /\ Free(c) /\ IF Running(k) THEN Child(c, r.mem, r.space) ELSE Child(c, k, None)
    BY DEF Fexecve
<1>2. Stack \in UserPage
    BY DEF Stack, UserPage, User, Index, InfoEntry
<1>3. Safe(k, Spaces)
    BY <1>1, <1>2, RunsIn, FromUserSafe DEF ProgramsInv
<1> HIDE DEF k
<1>4. r.space \in PoolPage /\ Safe(r.mem, Spaces \cup {r.space}) /\ (Running(r.mem) => r.space \notin Spaces)
    BY <1>3, LoadedSafe
<1> HIDE DEF r
<1>5. CASE Running(k)
    <2>1. Child(c, r.mem, r.space) /\ Free(c)
        BY <1>1, <1>5
    <2>2. /\ r.mem \in Mem /\ (~Running(r.mem) => Explained(r.mem))
          /\ Running(r.mem) => r.space \in PoolPage \ Spaces /\ Safe(r.mem, Spaces \cup {r.space})
        BY <1>4 DEF Safe
    <2> QED
        BY <2>1, <2>2, ChildInv
<1>6. CASE ~Running(k)
    <2>1. Child(c, k, None) /\ Free(c) /\ k \in Mem /\ Explained(k)
        BY <1>1, <1>3, <1>6 DEF Safe
    <2> QED
        BY <1>6, <2>1, ChildInv
<1> QED
    BY <1>5, <1>6

LEMMA ExecveInv ==
    ASSUME ProgramsInv, NEW t \in Task, NEW prog \in Program, Execve(t, prog)
    PROVE  ProgramsInv'
<1> DEFINE k == FromUser(mem, space[t], Stack)
           e == IF Running(k) THEN ElfLoad(k, space[t], prog) ELSE k
           x == IF Running(e) THEN ToUser(e, space[t], Stack, prog) ELSE e
<1>1. Runs(t) /\ mem' = Settled(x) /\ space' = space
    BY DEF Execve, memVars
<1>2. Stack \in UserPage /\ prog \in Cell
    BY DEF Stack, UserPage, User, Index, InfoEntry, Cell
<1>3. space[t] \in Spaces /\ space[t] \in Spaces \ {MmKernel} /\ Safe(mem, Spaces)
    BY <1>1, RunsIn DEF ProgramsInv
<1>4. Safe(k, Spaces)
    BY <1>2, <1>3, FromUserSafe
<1> HIDE DEF k
<1>5. Safe(e, Spaces)
    BY <1>3, <1>4, ElfLoadSafe
<1> HIDE DEF e
<1>6. Safe(x, Spaces)
    BY <1>2, <1>3, <1>5, ToUserSafe
<1> QED
    BY <1>1, <1>6, SpacesStay

LEMMA ForkInv ==
    ASSUME ProgramsInv, NEW t \in Task, NEW c \in Task, Fork(t, c)
    PROVE  ProgramsInv'
<1> DEFINE n == CreateSpace(mem).mem
           d == CreateSpace(mem).space
           k == ForkSpace(n, d, space[t])
           x == IF Running(n) THEN k ELSE n
<1>1. Runs(t) /\ Free(c) /\ Child(c, x, d)
    BY DEF Fork
<1>2. /\ space[t] \in Spaces /\ Running(mem) /\ mem \in Mem /\ Good(mem, Spaces)
    BY <1>1, RunsIn DEF ProgramsInv, Safe
<1>3. /\ n \in Mem /\ d \in PoolPage /\ (~Running(n) => Explained(n))
      /\ Running(n) => NewSpace(n, Spaces, d) /\ \A i \in Kernel : n.page[d][i] = 0
    BY <1>2, CreateSpaceMakes
<1> HIDE DEF n, d
<1>4. CASE ~Running(n)
    <2>1. x = n
        BY <1>4
    <2> HIDE DEF x
    <2> QED
        BY <1>1, <1>3, <1>4, <2>1, ChildInv
<1>5. CASE Running(n)
    <2>1. /\ d \in PoolPage \ Spaces /\ d \in (Spaces \cup {d}) \ {MmKernel} /\ space[t] \in Spaces \cup {d}
        BY <1>2, <1>3, <1>5, PoolSizes DEF NewSpace
    <2>2. Safe(CloneKernel(n, d, space[t]), Spaces \cup {d})
        BY <1>2, <1>3, <1>5, CloneKernelSafe
    <2>3. Safe(k, Spaces \cup {d})
        BY <2>1, <2>2, ForkSpaceSafe
    <2>4. x = k
        BY <1>5
    <2> HIDE DEF x, k
    <2>5. x \in Mem /\ (~Running(x) => Explained(x))
        BY <2>3, <2>4 DEF Safe
    <2> QED
        BY <1>1, <2>1, <2>3, <2>4, <2>5, ChildInv
<1> QED
    BY <1>4, <1>5

LEMMA StoresInv ==
    ASSUME ProgramsInv, NEW t \in Task, NEW v \in UserPage, NEW x \in Value,
           CallStores(t, v, x) \/ Writes(t, v, x)
    PROVE  ProgramsInv'
<1>1. Runs(t) /\ space' = space /\ Safe(mem, Spaces) /\ x \in Cell
    BY DEF CallStores, Writes, ProgramsInv, Cell
<1>2. space[t] \in Spaces
    BY <1>1, RunsIn
<1>3. Safe(ToUser(mem, space[t], v, x), Spaces)
    BY <1>1, <1>2, ToUserSafe
<1>4. Safe(Store(mem, At(Entry(mem, space[t], v)), x), Spaces)
    BY <1>1, StoreSafe
<1>5. CASE CallStores(t, v, x)
    BY <1>1, <1>3, <1>5, SpacesStay DEF CallStores
<1>6. CASE Writes(t, v, x)
    BY <1>1, <1>4, <1>6, SpacesStay DEF Writes
<1> QED
    BY <1>5, <1>6

\* What of memory m was space d's is forgotten.
Destroyed(m, k, D, d) ==
    /\ Kept(m, k) /\ \A e \in D \ {d}, i \in Tabled : Same(m, k, e, i)
    /\ \A i \in User : TableHere(m, d, i) => k.page[Table(m, d, i)] = Empty
    /\ \A f \in Frame :
        \/ k.data[f] = m.data[f]
        \/ k.data[f] = Junk /\ \E v \in UserPage : Mapped(m, d, v) /\ Translate(m, d, v) = f

\* task_destroy: a space is given back, and what its tables and pages hold is forgotten.
LEMMA DestroySafe ==
    ASSUME NEW D, Running(mem), Safe(mem, D), NEW d \in D \ {MmKernel},
           NEW k, k = Forgotten(DestroySpace(mem, d), d)
    PROVE  Running(k) /\ Safe(k, D \ {d}) /\ Destroyed(mem, k, D, d)
<1> DEFINE b == Info(mem, d)
           n == PoolFree(mem, At(mem.page[d][InfoEntry]))
           o == PoolFree(n, Vaddr(d))
           tables == {Table(mem, d, i) : i \in {j \in User \cup Kernel : TableHere(mem, d, j)}}
           frames == {Translate(mem, d, v) : v \in {w \in UserPage : Mapped(mem, d, w)}}
           page == [p \in DOMAIN o.page |-> IF p \in tables THEN Empty ELSE o.page[p]]
           data == [f \in Frame |-> IF f \in frames THEN Junk ELSE o.data[f]]
<1>1. mem \in Mem /\ Good(mem, D) /\ Owned(mem, D) /\ MmKernel \in D
    BY DEF Safe, Good
<1>2. d \in mem.taken /\ b \in mem.taken /\ b # d /\ d \in PoolPage
    BY <1>1, MemTypes DEF Owned
<1>3. \A e \in D \ {d} :
        /\ e \in (mem.taken \ {b, d}) \cup {MmKernel} /\ e \notin tables /\ e # d /\ e # b
        /\ Info(mem, e) \in mem.taken \ {b, d} /\ Info(mem, e) \notin tables
        /\ \A i \in Tabled : TableHere(mem, e, i) =>
               Table(mem, e, i) \in mem.taken \ {b, d} /\ Table(mem, e, i) \notin tables
    <2>1. ASSUME NEW p \in tables
          PROVE  \E i \in Tabled : TableHere(mem, d, i) /\ p = Table(mem, d, i)
        BY Places
    <2> HIDE DEF tables
    <2>2. ASSUME NEW e \in D \ {d}
          PROVE  e \notin tables /\ Info(mem, e) \notin tables
        BY <1>1, <2>1 DEF Owned
    <2>3. ASSUME NEW e \in D \ {d}, NEW i \in Tabled, TableHere(mem, e, i)
          PROVE  Table(mem, e, i) \notin tables /\ Table(mem, e, i) \in mem.taken \ {b, d}
        BY <1>1, <2>1, <2>3 DEF Owned
    <2>4. ASSUME NEW e \in D \ {d}
          PROVE  /\ e \in (mem.taken \ {b, d}) \cup {MmKernel} /\ e # d /\ e # b
                 /\ Info(mem, e) \in mem.taken \ {b, d}
        BY <1>1 DEF Owned
    <2> QED
        BY <2>2, <2>3, <2>4
<1>4. n \in Mem /\ Running(n) /\ n.taken = mem.taken \ {b} /\ n.page = mem.page /\ Alike(mem, n)
    <2>1. At(mem.page[d][InfoEntry]) - NFrames = b
        BY DEF Info
    <2> HIDE DEF b
    <2> QED
        BY <1>1, <1>2, <2>1, PoolFreeFields
<1> HIDE DEF n
<1>5. o \in Mem /\ Running(o) /\ o.taken = mem.taken \ {b, d} /\ o.page = mem.page /\ Alike(mem, o)
    <2>1. d \in n.taken /\ Vaddr(d) - NFrames = d
        BY <1>2, <1>4, PoolSizes
    <2>2. o \in Mem /\ Running(o) /\ o.taken = n.taken \ {d} /\ o.page = n.page /\ Alike(n, o)
        BY <1>4, <2>1, PoolFreeFields
    <2> QED
        BY <1>4, <2>2 DEF Alike
<1>6. k = [o EXCEPT !.data = data, !.page = page]
    BY DEF Forgotten, DestroySpace, n
<1> HIDE DEF o, tables, frames, b
<1>7. /\ page \in [PoolPage \cup {MmKernel} -> [Index -> Nat]] /\ data \in [Frame -> Cell]
      /\ \A q \in AnyPage : q \notin tables => page[q] = mem.page[q]
      /\ \A q \in AnyPage : q \in tables => page[q] = Empty
    <2>1. o.page \in [AnyPage -> [Index -> Nat]] /\ o.data \in [Frame -> Cell] /\ DOMAIN o.page = AnyPage
        BY <1>5, MemTypes
    <2>2. Empty \in [Index -> Nat] /\ Junk \in Cell
        BY DEF Empty, Cell
    <2> QED
        BY <1>5, <2>1, <2>2 DEF AnyPage
<1> HIDE DEF page, data
<1>8. k \in Mem /\ Running(k) /\ k.taken = mem.taken \ {b, d} /\ k.page = page
    <2>1. k \in Mem
        BY <1>5, <1>6, <1>7 DEF Mem
    <2>2. k.bad = o.bad /\ k.taken = o.taken /\ k.page = page
        BY <1>5, <1>6 DEF Mem
    <2> QED
        BY <1>5, <2>1, <2>2 DEF Running
<1>9. ASSUME NEW e \in D \ {d}, NEW i \in Tabled
      PROVE  Same(mem, k, e, i)
    <2>1. /\ e \in AnyPage /\ Info(mem, e) \in AnyPage
          /\ TableHere(mem, e, i) => Table(mem, e, i) \in AnyPage
        BY <1>1, OwnedPages
    <2>2. k.page[e] = mem.page[e] /\ k.page[Info(mem, e)] = mem.page[Info(mem, e)]
        BY <1>3, <1>7, <1>8, <2>1
    <2>3. Info(k, e) = Info(mem, e)
        BY <2>2 DEF Info
    <2>4. Count(k, e, i) = Count(mem, e, i)
        BY <2>2, <2>3 DEF Count
    <2>5. TableHere(mem, e, i) => k.page[Table(mem, e, i)] = mem.page[Table(mem, e, i)]
        BY <1>3, <1>7, <1>8, <2>1
    <2> QED
        BY <2>2, <2>3, <2>4, <2>5 DEF Same
<1>10. Owned(k, D \ {d})
    <2>1. Owned(mem, D \ {d})
        BY <1>1 DEF Owned
    <2>2. \A e \in D \ {d} : e \in k.taken \cup {MmKernel} /\ Info(mem, e) \in k.taken
        BY <1>3, <1>8
    <2>3. \A e \in D \ {d}, i \in Tabled :
            /\ Shape(mem, k, e, i) /\ Row(k, e, i)
            /\ TableHere(mem, e, i) => Table(mem, e, i) \in k.taken
        BY <1>3, <1>8, <1>9, <2>1, SameMeans DEF Owned
    <2> QED
        BY <2>1, <2>2, <2>3, OwnedStays
<1>11. Closed(k)
    BY <1>1, <1>9, Places DEF Good, Closed, Same
<1>12. \A e \in D \ {d}, i \in Kernel : Agrees(k, e, i)
    BY <1>1, <1>9, AgreesKept, Places DEF Good
<1>13. Kept(mem, k)
    <2>1. k.used = mem.used /\ k.hint = mem.hint /\ k.base = mem.base
        BY <1>5, <1>6 DEF Mem, Alike
    <2>2. At(0) \notin Private(mem)
        BY <1>1, <1>2, PlainWords
    <2>3. \A q \in AnyPage, j \in Index : k.page[q][j] \in {0, mem.page[q][j]}
        BY <1>7, <1>8 DEF Empty
    <2> QED
        BY <2>1, <2>2, <2>3 DEF Kept
<1>14. Apart(k)
    <2>1. \A i \in Kernel : Same(mem, k, MmKernel, i)
        BY <1>1, <1>9, Places
    <2> QED
        BY <1>1, <1>13, <2>1, ApartKept DEF Good
<1>15. \A e \in D \ {d}, i \in User : Counted(k, e, i)
    BY <1>1, <1>9, <1>13, CountedKept, Places DEF Good, Kept
<1>16. \A i \in User : TableHere(mem, d, i) => k.page[Table(mem, d, i)] = Empty
    <2> SUFFICES ASSUME NEW i \in User, TableHere(mem, d, i)
                 PROVE  k.page[Table(mem, d, i)] = Empty
        OBVIOUS
    <2>1. Table(mem, d, i) \in tables
        BY DEF tables
    <2>2. Table(mem, d, i) \in AnyPage
        BY <1>1, OwnedPages, Places
    <2> QED
        BY <1>7, <1>8, <2>1, <2>2
<1>17. ASSUME NEW f \in Frame
       PROVE  \/ k.data[f] = mem.data[f]
              \/ k.data[f] = Junk /\ \E v \in UserPage : Mapped(mem, d, v) /\ Translate(mem, d, v) = f
    <2>1. k.data = data /\ o.data = mem.data
        BY <1>5, <1>6, <1>7 DEF Mem, Alike
    <2>2. data[f] = IF f \in frames THEN Junk ELSE o.data[f]
        BY DEF data
    <2>3. f \in frames => \E v \in UserPage : Mapped(mem, d, v) /\ Translate(mem, d, v) = f
        BY DEF frames
    <2> QED
        BY <2>1, <2>2, <2>3
<1>18. Destroyed(mem, k, D, d)
    BY <1>9, <1>13, <1>16, <1>17 DEF Destroyed
<1> QED
    BY <1>1, <1>8, <1>10, <1>11, <1>12, <1>14, <1>15, <1>18 DEF Safe, Good

LEMMA ExitInv ==
    ASSUME ProgramsInv, NEW t \in Task, Exit(t)
    PROVE  ProgramsInv'
<1> DEFINE d == space[t]
           k == Forgotten(DestroySpace(mem, d), d)
<1>1. Runs(t) /\ mem' = k /\ space' = [space EXCEPT ![t] = None]
    BY DEF Exit
<1>2. /\ Running(mem) /\ Safe(mem, Spaces) /\ d \in Spaces \ {MmKernel} /\ t \in Alive
      /\ space \in [Task -> PoolPage \cup {None}]
    BY <1>1, RunsIn DEF ProgramsInv
<1>3. Running(k) /\ Safe(k, Spaces \ {d})
    <2> HIDE DEF d
    <2> QED
        BY <1>2, DestroySafe
<1> HIDE DEF k
<1>4. space' \in [Task -> PoolPage \cup {None}] /\ space'[t] = None /\ \A u \in Task \ {t} : space'[u] = space[u]
    BY <1>1, <1>2
<1>5. Alive' = Alive \ {t}
    BY <1>4 DEF Alive, Free
<1>6. \A u \in Alive \ {t} : u \in Task \ {t} /\ space[u] # d
    BY <1>2 DEF Alive, ProgramsInv
<1>7. Spaces' = Spaces \ {d}
    <2>1. Spaces' = {MmKernel} \cup {space'[u] : u \in Alive \ {t}}
        BY <1>5 DEF Spaces
    <2>2. \A u \in Alive \ {t} : space'[u] = space[u]
        BY <1>4, <1>6
    <2>3. Spaces = {MmKernel} \cup {space[u] : u \in Alive} /\ d # MmKernel
        BY <1>2 DEF Spaces
    <2>4. \A x : x \in Spaces' <=> x \in Spaces \ {d}
        BY <1>2, <1>6, <2>1, <2>2, <2>3
    <2> QED
        BY <2>4
<1>8. Safe(mem, Spaces)'
    <2>1. Safe(mem', Spaces')
        BY <1>1, <1>3, <1>7
    <2> QED
        BY <2>1 DEF Safe, Good, Owned, Closed, Agrees, Explained, Row, Mem, Running, TableHere, Table,
                    Info, Count, Entry
<1>9. ASSUME NEW a \in Alive', NEW u \in Alive', space'[a] = space'[u]
      PROVE  a = u
    BY <1>4, <1>5, <1>6, <1>9 DEF ProgramsInv
<1> QED
    BY <1>4, <1>8, <1>9 DEF ProgramsInv

-----------------------------------------------------------------------------
(***************************************************************************)
(* The start, and all behaviours.                                          *)
(***************************************************************************)

\* Programs have stored nothing yet, and no word names a page of one.
Unused(m) ==
    /\ \A q \in AnyPage, j \in Index : At(m.page[q][j]) \notin Private(m)
    /\ \A f \in Frame : m.data[f] = Junk

\* The kernel's own space after mm_init: nothing but its own 4 MiB is mapped.
LEMMA MmInitSafe ==
    /\ Safe(MmInit, {MmKernel})
    /\ Running(MmInit) => /\ MmInit.page[MmKernel][3] = 0
                          /\ \A q \in PoolPage, j \in Index : MmInit.page[q][j] = 0
                          /\ Unused(MmInit)
<1> DEFINE m0 == [used |-> PhysInit, hint |-> 0, base |-> 0, taken |-> {}, last |-> 0, bad |-> "",
                  page |-> [p \in PoolPage \cup {MmKernel} |-> Empty],
                  data |-> [f \in Frame |-> Junk]]
           g == Min(HugeFrames(PhysInit))
           m1 == AllocHuge(m0)
           m2 == Put(m1, MmKernel, 4, Word(m1.base, PR + WR + PS))
           n == PoolAlloc(m2).mem
           p == PoolAlloc(m2).page
           k == Put(n, MmKernel, InfoEntry, Word(Vaddr(p), 0))
<1>1. MmInit = k
    BY DEF MmInit
<1>2. g \in Frame /\ g % Huge = 0 /\ g + Huge \in Nat
    <2>1. HugeFrames(PhysInit) \in SUBSET Nat /\ HugeFrames(PhysInit) # {} /\ HugeFrames(PhysInit) \subseteq Frame
        BY HugeAssumption, PoolSizes DEF HugeFrames
    <2>2. g \in HugeFrames(PhysInit)
        BY <2>1, LeastIn
    <2> HIDE DEF g
    <2>3. g \in Frame /\ g % Huge = 0
        BY <2>2 DEF HugeFrames
    <2> QED
        BY <2>3, PoolSizes
<1> HIDE DEF g
<1>3. /\ m1 \in Mem /\ Running(m1) /\ m1.taken = {}
      /\ m1.page = [q \in PoolPage \cup {MmKernel} |-> Empty]
      /\ m1.used = PhysInit /\ m1.hint = g + Huge /\ m1.base = g
      /\ m1.data = [f \in Frame |-> Junk]
    <2>1. /\ m1 = [m0 EXCEPT !.hint = g + Huge, !.base = g]
        BY DEF AllocHuge, g
    <2>2. /\ Empty \in [Index -> Nat] /\ Junk \in Cell /\ "" \in Reason /\ 0 \in 0..PoolWords - 1
          /\ g + Huge \in Nat /\ PhysInit \subseteq Frame
        BY <1>2, PageMemAssumption, PoolSizes DEF Empty, Cell, Reason, PhysInit
    <2>3. m1 = [used |-> PhysInit, hint |-> g + Huge, base |-> g, taken |-> {}, last |-> 0, bad |-> "",
                page |-> [q \in PoolPage \cup {MmKernel} |-> Empty],
                data |-> [f \in Frame |-> Junk]]
        BY <2>1
    <2> HIDE DEF m1
    <2>4. m1 \in Mem
        BY <1>2, <2>2, <2>3 DEF Mem
    <2> QED
        BY <2>3, <2>4 DEF Running
<1> HIDE DEF m1
<1>4. MmKernel \in AnyPage /\ 4 \in Index /\ InfoEntry \in Index /\ InfoEntry # 4 /\ 4 \in Kernel
    BY Places DEF AnyPage
<1>5. PR + WR + PS = 11 /\ Word(m1.base, 11) \in Nat /\ Has(Word(m1.base, 11), PR) /\ Has(Word(m1.base, 11), PS)
    <2>1. m1.base \in Nat /\ 11 \in 0..15
        BY <1>3, MemTypes
    <2>2. PR + WR + PS = 11
        BY DEF PR, WR, PS
    <2> QED
        BY <2>1, <2>2, Words, Flags
<1>6. IsPut(m1, m2, MmKernel, 4, Word(m1.base, 11))
    BY <1>3, <1>4, <1>5, PutFields
<1> HIDE DEF m2
<1>7. /\ m2 \in Mem /\ Running(m2) /\ m2.taken = {}
    BY <1>3, <1>6 DEF IsPut
<1>8. /\ n \in Mem /\ p \in PoolPage /\ (~Running(n) => Explained(n))
      /\ Running(n) => n.taken = {p} /\ n.page = m2.page /\ Alike(m2, n)
    BY <1>7, PoolAllocFields
<1> HIDE DEF n, p
<1>9. CASE ~Running(n)
    BY <1>1, <1>8, <1>9, StoppedStays DEF Safe
<1>10. CASE Running(n)
    <2>1. Word(Vaddr(p), 0) \in Nat /\ At(Word(Vaddr(p), 0)) - NFrames = p
        <3>1. Vaddr(p) \in Nat /\ Vaddr(p) - NFrames = p /\ 0 \in 0..15
            BY <1>8, PoolSizes
        <3> QED
            BY <3>1, Words
    <2>2. IsPut(n, k, MmKernel, InfoEntry, Word(Vaddr(p), 0))
        BY <1>4, <1>8, <1>10, <2>1, PutFields
    <2> HIDE DEF k
    <2>3. /\ k \in Mem /\ Running(k) /\ k.taken = {p}
          /\ k.page[MmKernel][InfoEntry] = Word(Vaddr(p), 0)
        BY <1>8, <1>10, <2>2 DEF IsPut
    <2>4. Info(k, MmKernel) = p /\ p # MmKernel
        BY <1>8, <2>1, <2>3, PoolSizes DEF Info
    <2>5. /\ k.page[MmKernel][4] = Word(m1.base, 11)
          /\ \A i \in Tabled : i # 4 => k.page[MmKernel][i] = 0
        <3>1. \A i \in Tabled : i \in Index /\ i # InfoEntry
            BY Places
        <3>2. n.page[MmKernel][4] = Word(m1.base, 11) /\ \A i \in Index : i # 4 => n.page[MmKernel][i] = 0
            BY <1>3, <1>6, <1>8, <1>10 DEF IsPut, Empty
        <3> QED
            BY <1>4, <2>2, <3>1, <3>2 DEF IsPut
    <2>6. k.page[p] = Empty
        BY <1>3, <1>6, <1>8, <1>10, <2>2, <2>4 DEF IsPut, AnyPage
    <2>7. \A i \in Tabled : Count(k, MmKernel, i) = 0
        BY <2>4, <2>6, Places DEF Count, Empty
    <2>8. \A i \in Tabled : ~TableHere(k, MmKernel, i) /\ Row(k, MmKernel, i)
        <3>1. ~TableHere(k, MmKernel, 4) /\ Row(k, MmKernel, 4)
            BY <1>4, <1>5, <2>5 DEF TableHere, Row
        <3>2. ASSUME NEW i \in Tabled, i # 4
              PROVE  ~TableHere(k, MmKernel, i) /\ Row(k, MmKernel, i)
            BY <2>5, <2>7, <3>2, Flags DEF TableHere, Row
        <3> QED
            BY <3>1, <3>2
    <2>9. Owned(k, {MmKernel})
        BY <1>8, <2>3, <2>4, <2>8 DEF Owned
    <2>10. Closed(k)
        BY <2>5, <2>7, Places DEF Closed
    <2>11. \A i \in Kernel : Agrees(k, MmKernel, i)
        BY DEF Agrees
    <2>12. \A q \in PoolPage, j \in Index : k.page[q][j] = 0
        <3>1. \A q \in PoolPage : q \in AnyPage /\ q # MmKernel
            BY PoolSizes DEF AnyPage
        <3> QED
            BY <1>3, <1>6, <1>8, <1>10, <2>2, <3>1 DEF IsPut, Empty, AnyPage
    <2>13. k.used = PhysInit /\ k.hint = g + Huge /\ k.base = g
        BY <1>3, <1>6, <1>8, <1>10, <2>2 DEF Alike, IsPut
    <2>14. \A q \in AnyPage, j \in Index : At(k.page[q][j]) \notin Private(k)
        <3>1. \A j \in Index : k.page[MmKernel][j] \in {0, Word(m1.base, 11), Word(Vaddr(p), 0)}
            BY <1>3, <1>4, <1>6, <1>8, <1>10, <2>2 DEF IsPut, Empty
        <3>2. At(0) \notin Private(k) /\ At(Word(Vaddr(p), 0)) \notin Private(k)
            <4>1. 0 \in 0..15
                OBVIOUS
            <4> QED
                BY <1>8, <2>3, <4>1, PlainWords
        <3>3. At(Word(m1.base, 11)) \notin Private(k)
            <4>1. 0 \in PoolPage /\ 11 \in 0..15
                BY PoolSizes
            <4>2. At(Word(k.base + 0, 11)) \notin Private(k)
                BY <2>3, <4>1, PlainWords
            <4>3. k.base + 0 = m1.base
                BY <1>3, <2>3, <2>13, MemTypes
            <4> QED
                BY <4>2, <4>3
        <3> QED
            BY <2>12, <3>1, <3>2, <3>3 DEF AnyPage
    <2>15. Searched(k)
        <3>1. Huge \in Nat /\ g \in Nat /\ \A f \in Frame : f \in Nat
            BY <1>2, PoolSizes
        <3> QED
            BY <1>2, <2>13, <3>1 DEF Searched
    <2>16. Apart(k)
        <3>1. KernelPlain(k)
            BY <2>8, <2>14, Places DEF KernelPlain, AnyPage
        <3> QED
            BY <2>14, <2>15, <3>1 DEF Apart, Distinct
    <2>17. \A i \in User : Counted(k, MmKernel, i)
        BY <2>8, Places DEF Counted
    <2>18. k.page[MmKernel][3] = 0
        BY <2>5, Places
    <2>19. Good(k, {MmKernel})
        BY <2>9, <2>10, <2>11, <2>16, <2>17 DEF Good
    <2>20. Unused(k)
        <3>1. k.data = [f \in Frame |-> Junk]
            BY <1>3, <1>6, <1>8, <1>10, <2>2 DEF Alike, IsPut
        <3> QED
            BY <2>14, <3>1 DEF Unused
    <2> QED
        BY <1>1, <2>3, <2>12, <2>18, <2>19, <2>20 DEF Safe
<1> QED
    BY <1>9, <1>10

\* hw_init maps the registers of a device for the kernel.
LEMMA DeviceSafe ==
    /\ Safe(MapPage(MmInit, MmKernel, <<3, 0>>, 0, WR), {MmKernel})
    /\ Running(MapPage(MmInit, MmKernel, <<3, 0>>, 0, WR)) => Unused(MapPage(MmInit, MmKernel, <<3, 0>>, 0, WR))
<1> DEFINE m == MmInit
           D == {MmKernel}
           v == <<3, 0>>
           k == MapPage(m, MmKernel, v, 0, WR)
           w == Word(0, 3)
<1>1. /\ Safe(m, D)
      /\ Running(m) => /\ m.page[MmKernel][3] = 0 /\ \A q \in PoolPage, j \in Index : m.page[q][j] = 0
                       /\ Unused(m)
    BY MmInitSafe
<1> HIDE DEF m
<1>2. CASE ~Running(m)
    <2>1. k = m
        BY <1>2, StoppedStays
    <2> QED
        BY <1>1, <2>1 DEF m
<1>3. CASE Running(m)
    <2>1. m \in Mem /\ Good(m, D) /\ Owned(m, D) /\ MmKernel \in D
        BY <1>1, <1>3 DEF Safe, Good
    <2>2. v \in Tabled \X Index /\ v[1] = 3 /\ 3 \in Tabled /\ 3 \in Kernel /\ w \in Nat /\ Has(w, PR) /\ WR + PR = 3
        <3>1. 0 \in Nat /\ 3 \in 0..15
            OBVIOUS
        <3>2. w \in Nat /\ Has(w, PR)
            BY <3>1, Words, Flags
        <3> QED
            BY <3>2, Places DEF WR, PR
    <2>3. ~TableHere(m, MmKernel, v[1]) /\ ~Has(m.page[MmKernel][v[1]], PS)
        <3>1. ~Has(0, PS) /\ ~Has(0, PR)
            BY DEF Has, PS, PR
        <3> QED
            BY <1>1, <1>3, <2>2, <3>1 DEF TableHere
    <2>4. k = AddTable(m, MmKernel, v, w)
        <3>1. Check(m, ~Has(m.page[MmKernel][v[1]], PS), "huge") = m
            BY <2>3 DEF Check
        <3> QED
            BY <2>2, <2>3, <3>1 DEF MapPage
    <2> HIDE DEF v, k, w, D
    <2>5. \/ k \in Mem /\ ~Running(k) /\ Explained(k)
          \/ k \in Mem /\ Running(k) /\ \E p : IsTable(m, k, MmKernel, v, w, p)
        BY <1>3, <2>1, <2>2, <2>4, AddTableEffect
    <2>6. CASE k \in Mem /\ ~Running(k) /\ Explained(k)
        BY <2>6 DEF Safe, k, D, m, v
    <2>7. ASSUME k \in Mem, Running(k), NEW p, IsTable(m, k, MmKernel, v, w, p)
          PROVE  Safe(k, D) /\ Unused(k)
        <3>1. /\ ~TableHere(m, MmKernel, 3) /\ p \in PoolPage \ m.taken /\ k.taken = m.taken \cup {p}
              /\ NamesTable(m, k, MmKernel, 3, p) /\ Alike(m, k) /\ p \in PoolPage /\ v[2] \in Index
            BY <2>2, <2>3, <2>7 DEF IsTable
        <3>2. /\ Owned(k, D) /\ Table(k, MmKernel, 3) = p
              /\ \A e \in D, j \in Tabled : e # MmKernel \/ j # 3 => Same(m, k, e, j)
            BY <2>1, <2>2, <2>7, <3>1, AddsTable
        <3>3. Closed(k)
            BY <2>1, <2>2, <3>2, Places DEF Good, Closed, Same
        <3>4. \A e \in D, i \in Kernel : Agrees(k, e, i)
            BY DEF Agrees, D
        <3>5. /\ k.used = m.used /\ k.hint = m.hint /\ k.base = m.base /\ Private(k) = Private(m)
            BY <3>1 DEF Alike, Private, PoolFrames
        <3>6. At(w) \notin Private(m) /\ At(0) \notin Private(m) /\ At(Word(m.base + p, 7)) \notin Private(m)
            <4>1. 0 \in Nat /\ 3 \in 0..15 /\ 7 \in 0..15
                OBVIOUS
            <4>2. At(w) = 0
                BY <4>1, Words DEF w
            <4> QED
                BY <2>1, <3>1, <4>1, <4>2, PlainWords
        <3>7. Distinct(k)
            <4>1. Fresh(m, w)
                BY <3>6 DEF Fresh
            <4> QED
                BY <2>1, <2>2, <2>7, <4>1, TableDistinct DEF Good, Apart
        <3>8. KernelPlain(k)
            <4>1. \A j \in Index : k.page[p][j] \in {0, w}
                BY <1>1, <1>3, <2>7, <3>1 DEF IsTable
            <4>2. At(k.page[MmKernel][3]) \notin Private(k)
                BY <2>2, <2>7, <3>5, <3>6 DEF IsTable
            <4>3. \A j \in Index : At(Entry(k, MmKernel, <<3, j>>)) \notin Private(k)
                BY <3>2, <3>5, <3>6, <4>1 DEF Entry
            <4>4. ASSUME NEW i \in Kernel, i # 3
                  PROVE  /\ At(k.page[MmKernel][i]) \notin Private(k)
                         /\ TableHere(k, MmKernel, i) =>
                                \A j \in Index : At(Entry(k, MmKernel, <<i, j>>)) \notin Private(k)
                <5>1. Same(m, k, MmKernel, i)
                    BY <2>1, <3>2, <4>4, Places
                <5>2. /\ k.page[MmKernel][i] = m.page[MmKernel][i]
                      /\ TableHere(k, MmKernel, i) <=> TableHere(m, MmKernel, i)
                      /\ TableHere(m, MmKernel, i) =>
                            \A j \in Index : Entry(k, MmKernel, <<i, j>>) = Entry(m, MmKernel, <<i, j>>)
                    BY <5>1, SameMeans DEF Same
                <5>3. KernelPlain(m)
                    BY <2>1 DEF Good, Apart
                <5> QED
                    BY <3>5, <5>2, <5>3 DEF KernelPlain
            <4> QED
                BY <4>2, <4>3, <4>4 DEF KernelPlain
        <3>9. Apart(k)
            BY <2>1, <3>5, <3>7, <3>8, SearchedKept DEF Good, Apart
        <3>10. ASSUME NEW e \in D, NEW i \in User
               PROVE  Counted(k, e, i)
            <4>1. Counted(m, e, i) /\ Same(m, k, e, i)
                BY <2>1, <3>2, <3>10, Places DEF Good
            <4> QED
                BY <3>5, <4>1, CountedKept
        <3>11. Good(k, D)
            BY <2>1, <3>2, <3>3, <3>4, <3>9, <3>10 DEF Good
        <3>12. Unused(k)
            <4>1. Unused(m) /\ k.data = m.data
                BY <1>1, <1>3, <3>1 DEF Alike
            <4>2. Fresh(m, w)
                BY <3>6 DEF Fresh
            <4>3. \A q \in AnyPage, j \in Index : q # p \/ j # v[2] =>
                    (At(k.page[q][j]) \in Private(m) => k.page[q][j] = m.page[q][j])
                BY <2>1, <2>2, <2>7, <4>2, TableDistinct DEF Good, Apart
            <4>4. k.page[p][v[2]] = w
                BY <2>7 DEF IsTable
            <4> QED
                BY <3>5, <3>6, <4>1, <4>3, <4>4 DEF Unused
        <3> QED
            BY <2>7, <3>11, <3>12 DEF Safe
    <2> QED
        BY <2>5, <2>6, <2>7 DEF k, D, m, v
<1> QED
    BY <1>2, <1>3

LEMMA BootInv ==
    ASSUME ProgramsInit
    PROVE  ProgramsInv
<1> DEFINE r == Boot
           d == r.space
<1>1. mem = r.mem /\ \E t \in Task : space = [u \in Task |-> IF u = t THEN d ELSE None]
    BY DEF ProgramsInit
<1>2. d \in PoolPage /\ Safe(r.mem, {MmKernel} \cup {d}) /\ (Running(r.mem) => d \notin {MmKernel})
    <2> DEFINE k == MapPage(MmInit, MmKernel, <<3, 0>>, 0, WR)
    <2>1. Safe(k, {MmKernel}) /\ Initial \in Program /\ r = Loaded(k, Initial)
        BY DeviceSafe, ProgramsAssumption DEF Boot
    <2> HIDE DEF k, r
    <2> QED
        BY <2>1, LoadedSafe
<1> HIDE DEF r
<1>3. PICK t \in Task : space = [u \in Task |-> IF u = t THEN d ELSE None]
    BY <1>1
<1>4. d # None /\ None # MmKernel
    BY <1>2, PoolSizes
<1>5. space \in [Task -> PoolPage \cup {None}] /\ space[t] = d /\ \A u \in Task \ {t} : space[u] = None
    BY <1>2, <1>3
<1>6. Alive = {t}
    BY <1>4, <1>5 DEF Alive, Free
<1>7. Spaces = {MmKernel} \cup {d}
    BY <1>5, <1>6 DEF Spaces
<1>8. \A a, u \in Alive : a = u
    BY <1>6
<1> QED
    BY <1>1, <1>2, <1>5, <1>7, <1>8 DEF ProgramsInv

LEMMA ProgramsInvStep ==
    ASSUME ProgramsInv, [ProgramsNext]_memVars
    PROVE  ProgramsInv'
<1>1. ASSUME NEW t \in Task, NEW c \in Task, Fork(t, c)
      PROVE  ProgramsInv'
    BY <1>1, ForkInv
<1>2. ASSUME NEW t \in Task, NEW c \in Task, NEW prog \in Program, Fexecve(t, c, prog)
      PROVE  ProgramsInv'
    BY <1>2, FexecveInv
<1>3. ASSUME NEW t \in Task, Exit(t)
      PROVE  ProgramsInv'
    BY <1>3, ExitInv
<1>4. ASSUME NEW t \in Task, NEW prog \in Program, Execve(t, prog)
      PROVE  ProgramsInv'
    BY <1>4, ExecveInv
<1>5. ASSUME NEW t \in Task, NEW v \in Pointer, NEW x \in Value, CallStores(t, v, x) \/ Writes(t, v, x)
      PROVE  ProgramsInv'
    BY <1>5, StoresInv, ProgramsAssumption
<1>6. ASSUME UNCHANGED memVars
      PROVE  ProgramsInv'
    <2>1. mem' = mem /\ space' = space /\ Safe(mem, Spaces)
        BY <1>6 DEF memVars, ProgramsInv
    <2> QED
        BY <2>1, SpacesStay
<1>7. CASE Stopped
    BY <1>6, <1>7 DEF Stopped
<1> QED
    BY <1>1, <1>2, <1>3, <1>4, <1>5, <1>6, <1>7 DEF ProgramsNext

\* The invariant: between two system calls, and so all the time, the memory of a
\* running kernel is good for the spaces of all tasks, each task has a space of
\* its own, and a kernel that has stopped has a reason.
THEOREM ProgramsInvariant == ProgramsSpec => []ProgramsInv
<1>1. ProgramsInit => ProgramsInv
    BY BootInv
<1>2. ProgramsInv /\ [ProgramsNext]_memVars => ProgramsInv'
    BY ProgramsInvStep
<1> QED
    BY <1>1, <1>2, PTL DEF ProgramsSpec

\* Directories, table infos and page tables of all spaces are different pages
\* of the pool, none of them free, whatever fork, execve and exit have done
\* (x86_page_pool_allocate and its callers in space.c and map.c).
THEOREM PoolNeverShared == ProgramsSpec => []PoolOwned
<1>1. ProgramsInv => PoolOwned
    <2> SUFFICES ASSUME ProgramsInv
                 PROVE  PoolOwned
        OBVIOUS
    <2>1. mem \in Mem /\ space \in [Task -> PoolPage \cup {None}]
        BY DEF ProgramsInv, Safe
    <2>2. ProgramsTypeOK
        BY <2>1, MemTypes DEF ProgramsTypeOK, Cell, AnyPage
    <2>3. ASSUME Running(mem)
          PROVE  /\ \A d \in Spaces : Parts(d) \subseteq mem.taken
                 /\ \A d, e \in Spaces : d # e => Parts(d) \cap Parts(e) = {}
                 /\ \A d \in Spaces : \A i, j \in User \cup Kernel :
                        i # j /\ TableHere(mem, d, i) /\ TableHere(mem, d, j)
                            => Table(mem, d, i) # Table(mem, d, j)
        <3>1. Owned(mem, Spaces) /\ Tabled = User \cup Kernel
            BY <2>3, Places DEF ProgramsInv, Safe, Good
        <3>2. ASSUME NEW d \in Spaces, NEW p \in Parts(d)
              PROVE  \/ p = d /\ d # MmKernel
                     \/ p = Info(mem, d)
                     \/ \E i \in Tabled : TableHere(mem, d, i) /\ p = Table(mem, d, i)
            BY <3>1, <3>2 DEF Parts
        <3>3. ASSUME NEW d \in Spaces
              PROVE  Parts(d) \subseteq mem.taken
            BY <3>1, <3>2 DEF Owned
        <3>4. ASSUME NEW d \in Spaces, NEW e \in Spaces, d # e
              PROVE  Parts(d) \cap Parts(e) = {}
            <4>1. SUFFICES ASSUME NEW p \in Parts(d), p \in Parts(e)
                           PROVE  FALSE
                OBVIOUS
            <4> QED
                BY <3>1, <3>2, <3>4, <4>1 DEF Owned
        <3>5. ASSUME NEW d \in Spaces, NEW i \in Tabled, NEW j \in Tabled, i # j,
                     TableHere(mem, d, i), TableHere(mem, d, j)
              PROVE  Table(mem, d, i) # Table(mem, d, j)
            BY <3>1, <3>5 DEF Owned
        <3> QED
            BY <3>1, <3>3, <3>4, <3>5
    <2> QED
        BY <2>2, <2>3 DEF PoolOwned
<1> QED
    BY <1>1, ProgramsInvariant, PTL

\* Between system calls the kernel's own space maps no user address: whatever
\* window mm_memcpy_user_to_kernel and its like opened is closed. And all spaces
\* agree on what the kernel maps (user.c, mm_space_clone).
THEOREM NoWindowOpen == ProgramsSpec => []WindowClosed
<1>1. ProgramsInv => WindowClosed
    <2> SUFFICES ASSUME ProgramsInv, Running(mem)
                 PROVE  /\ \A i \in User : mem.page[MmKernel][i] = 0 /\ Count(mem, MmKernel, i) = 0
                        /\ \A t \in Alive, i \in Kernel :
                            IF TableHere(mem, MmKernel, i)
                            THEN \A j \in Index : Entry(mem, space[t], <<i, j>>) = Entry(mem, MmKernel, <<i, j>>)
                            ELSE mem.page[space[t]][i] = mem.page[MmKernel][i]
        BY DEF WindowClosed
    <2>1. Good(mem, Spaces) /\ \A t \in Alive : space[t] \in Spaces
        BY DEF ProgramsInv, Safe, Spaces
    <2>2. \A t \in Alive, i \in Kernel : Agrees(mem, space[t], i)
        BY <2>1 DEF Good
    <2> QED
        BY <2>1, <2>2 DEF Good, Closed, Agrees
<1> QED
    BY <1>1, ProgramsInvariant, PTL

\* The kernel stops where a program passes an address it has no page at, where
\* the pool has no page left from index_last on, or where a new table was not
\* clean; never over a count of pages, a directory entry that is a huge page, or
\* a page of the pool that is free already.
THEOREM StopsExplained == ProgramsSpec => []StopExplained
<1>1. ProgramsInv => StopExplained
    BY DEF ProgramsInv, Safe, Explained, Running, StopExplained
<1> QED
    BY <1>1, ProgramsInvariant, PTL

\* A page that a program reaches and that is not its own was left over in a table.
LEMMA LeftOver ==
    ASSUME NEW m \in Mem, NEW d, NEW v \in UserPage, Counted(m, d, v[1]), ~Wrapped(m),
           Mapped(m, d, v), Table(m, d, v[1]) \in AnyPage, At(Entry(m, d, v)) \notin Private(m),
           Low(Count(m, d, v[1])) \in Nat
    PROVE  Low(Count(m, d, v[1])) < Cardinality(PresentIn(m.page[Table(m, d, v[1])]))
<1> DEFINE table == m.page[Table(m, d, v[1])]
           own == PrivateIn(m, table)
           all == PresentIn(table)
<1>1. v[2] \in Index /\ IsFiniteSet(Index)
    BY IndexFinite DEF UserPage
<1>2. v[2] \in all /\ v[2] \notin own /\ own \subseteq all /\ all \subseteq Index
    BY <1>1 DEF Mapped, Entry, PresentIn, PrivateIn
<1>3. Low(Count(m, d, v[1])) <= Cardinality(own)
    BY DEF Counted, Mapped
<1> HIDE DEF own, all
<1>4. IsFiniteSet(all) /\ own # all
    BY <1>1, <1>2, FS_Subset
<1>5. Cardinality(own) \in Nat /\ Cardinality(all) \in Nat /\ Cardinality(own) < Cardinality(all)
    BY <1>2, <1>4, FS_Subset, FS_CardinalityType
<1> QED
    BY <1>3, <1>5 DEF all

\* No page of a program is reached by another, nor twice by the same; and what a
\* program reaches that is no page of a program came with a table that was not
\* clean, or when the search for pages came round (mm_map_range, mm_space_fork,
\* x86_mm_alloc_physical_page).
THEOREM ProgramsIsolated == ProgramsSpec => []Isolated
<1>1. ProgramsInv => Isolated
    <2> SUFFICES ASSUME ProgramsInv, Running(mem)
                 PROVE  Isolated
        BY DEF Isolated
    <2>1. /\ mem \in Mem /\ Good(mem, Spaces) /\ Owned(mem, Spaces) /\ Apart(mem)
          /\ \A t \in Alive : space[t] \in Spaces
        BY DEF ProgramsInv, Safe, Good, Spaces
    <2>2. ASSUME NEW t \in Alive, NEW v \in Reach(t)
          PROVE  /\ v \in UserPage /\ v = <<v[1], v[2]>> /\ v[1] \in User /\ v[1] \in Tabled /\ v[2] \in Index
                 /\ Mapped(mem, space[t], v) /\ TableHere(mem, space[t], v[1])
                 /\ Table(mem, space[t], v[1]) \in AnyPage
                 /\ Translate(mem, space[t], v) = At(mem.page[Table(mem, space[t], v[1])][v[2]])
                 /\ Entry(mem, space[t], v) = mem.page[Table(mem, space[t], v[1])][v[2]]
        <3>1. v \in UserPage /\ Mapped(mem, space[t], v)
            BY <2>2 DEF Reach
        <3>2. v = <<v[1], v[2]>> /\ v[1] \in User /\ v[2] \in Index /\ TableHere(mem, space[t], v[1])
            BY <3>1 DEF UserPage, Mapped
        <3>3. v[1] \in Tabled
            BY <3>2, Places
        <3>4. Table(mem, space[t], v[1]) \in AnyPage
            BY <2>1, <3>2, <3>3, OwnedPages
        <3>5. Translate(mem, space[t], v) = At(Entry(mem, space[t], v))
            BY <2>1, <3>1, TranslateNat
        <3> QED
            BY <3>1, <3>2, <3>3, <3>4, <3>5 DEF Entry
    <2>3. ASSUME NEW t \in Alive, NEW u \in Alive, NEW v \in Reach(t), NEW w \in Reach(u),
                 Translate(mem, space[t], v) = Translate(mem, space[u], w),
                 Translate(mem, space[t], v) \in Private(mem)
          PROVE  t = u /\ v = w
        <3> DEFINE p == Table(mem, space[t], v[1])
                   q == Table(mem, space[u], w[1])
        <3>1. /\ p \in AnyPage /\ q \in AnyPage /\ v[2] \in Index /\ w[2] \in Index
              /\ At(mem.page[p][v[2]]) \in Private(mem)
              /\ At(mem.page[q][w[2]]) = At(mem.page[p][v[2]])
            BY <2>2, <2>3
        <3> HIDE DEF p, q
        <3>2. q = p /\ w[2] = v[2]
            BY <2>1, <3>1 DEF Apart, Distinct
        <3>3. space[t] = space[u] /\ v[1] = w[1]
            <4>1. /\ space[t] \in Spaces /\ space[u] \in Spaces /\ v[1] \in Tabled /\ w[1] \in Tabled
                  /\ TableHere(mem, space[t], v[1]) /\ TableHere(mem, space[u], w[1])
                BY <2>1, <2>2
            <4> QED
                BY <2>1, <3>2, <4>1 DEF Owned, p, q
        <3>4. t = u
            BY <3>3 DEF ProgramsInv
        <3>5. v = <<v[1], v[2]>> /\ w = <<w[1], w[2]>>
            BY <2>2
        <3> QED
            BY <3>2, <3>3, <3>4, <3>5
    <2>4. ASSUME NEW t \in Alive, NEW v \in Reach(t),
                 Translate(mem, space[t], v) \notin Private(mem), ~WrappedRound
          PROVE  Leftover(space[t], v[1])
        <3>1. ~Wrapped(mem)
            BY <2>4 DEF Wrapped, WrappedRound
        <3>2. Counted(mem, space[t], v[1]) /\ Row(mem, space[t], v[1])
            BY <2>1, <2>2 DEF Good, Owned
        <3>3. Low(Count(mem, space[t], v[1])) \in Nat
            <4>1. mem.page[space[t]][v[1]] # 0 /\ ~Has(mem.page[space[t]][v[1]], PS)
                BY <2>2, Flags DEF TableHere
            <4>2. Low(Count(mem, space[t], v[1])) \in 1..15
                BY <2>2, <3>2, <4>1 DEF Row
            <4> QED
                BY <4>2
        <3>4. At(Entry(mem, space[t], v)) \notin Private(mem)
            BY <2>2, <2>4
        <3>5. Low(Count(mem, space[t], v[1])) < Cardinality(PresentIn(mem.page[Table(mem, space[t], v[1])]))
            BY <2>1, <2>2, <3>1, <3>2, <3>3, <3>4, LeftOver
        <3> QED
            BY <2>2, <3>5 DEF Leftover, Present, PresentIn
    <2> QED
        BY <2>3, <2>4 DEF Isolated
<1> QED
    BY <1>1, ProgramsInvariant, PTL

-----------------------------------------------------------------------------
(***************************************************************************)
(* What each step does to the pages that programs have.                    *)
(***************************************************************************)

LEMMA PagePlaces ==
    ASSUME NEW v \in UserPage
    PROVE  v = <<v[1], v[2]>> /\ v[1] \in User /\ v[1] \in Tabled /\ v[2] \in Index
BY Places DEF UserPage

LEMMA SameStays ==
    ASSUME NEW m, NEW k, NEW d, NEW v \in UserPage, Same(m, k, d, v[1]), k.base = m.base, k.data = m.data
    PROVE  Stays(m, k, d, v)
<1>1. v = <<v[1], v[2]>> /\ v[2] \in Index
    BY PagePlaces
<1>2. Private(k) = Private(m)
    BY DEF Private, PoolFrames
<1>3. TableHere(k, d, v[1]) <=> TableHere(m, d, v[1])
    BY SameMeans
<1>4. TableHere(m, d, v[1]) => Entry(k, d, v) = Entry(m, d, v)
    <2>1. TableHere(m, d, v[1]) => \A j \in Index : Entry(k, d, <<v[1], j>>) = Entry(m, d, <<v[1], j>>)
        BY SameMeans
    <2> QED
        BY <1>1, <2>1
<1> QED
    BY <1>2, <1>3, <1>4 DEF Stays, Holds, Seen

LEMMA StaysTwice ==
    ASSUME NEW m, NEW y, NEW k, NEW d, NEW v, Stays(m, y, d, v), Stays(y, k, d, v)
    PROVE  Stays(m, k, d, v)
BY DEF Stays

\* Words are where they were.
LEMMA PlacedKept ==
    ASSUME NEW D, NEW m, NEW k, Placed(m, D), k.base = m.base,
           \A q \in AnyPage, j \in Index : At(k.page[q][j]) \in Private(m) => k.page[q][j] = m.page[q][j],
           \A e \in D, j \in User : Same(m, k, e, j)
    PROVE  Placed(k, D)
<1> SUFFICES ASSUME NEW p \in AnyPage, NEW j \in Index, At(k.page[p][j]) \in Private(k)
             PROVE  /\ Has(k.page[p][j], PR) /\ Has(k.page[p][j], US)
                    /\ \E d \in D, i \in User : TableHere(k, d, i) /\ Table(k, d, i) = p
    BY DEF Placed
<1>1. Private(k) = Private(m)
    BY DEF Private, PoolFrames
<1>2. k.page[p][j] = m.page[p][j]
    BY <1>1
<1>3. /\ Has(k.page[p][j], PR) /\ Has(k.page[p][j], US)
      /\ \E d \in D, i \in User : TableHere(m, d, i) /\ Table(m, d, i) = p
    BY <1>1, <1>2 DEF Placed
<1>4. \A d \in D, i \in User : TableHere(m, d, i) => TableHere(k, d, i) /\ Table(k, d, i) = Table(m, d, i)
    BY SameMeans DEF Shape
<1> QED
    BY <1>3, <1>4

LEMMA UntouchedStays ==
    ASSUME NEW D, NEW m, NEW k, Untouched(m, k, D)
    PROVE  /\ \A d \in D, v \in UserPage : Stays(m, k, d, v)
           /\ Neat(m, D) => Neat(k, D)
<1>1. /\ k.used = m.used /\ k.base = m.base /\ k.data = m.data /\ \A e \in D, j \in Tabled : Same(m, k, e, j)
      /\ \A q \in AnyPage, j \in Index : At(k.page[q][j]) \in Private(m) => k.page[q][j] = m.page[q][j]
    BY DEF Untouched, Kept
<1>2. \A d \in D, v \in UserPage : Stays(m, k, d, v)
    BY <1>1, SameStays, PagePlaces
<1>3. ASSUME Neat(m, D)
      PROVE  Neat(k, D)
    <2>1. Placed(k, D)
        BY <1>1, <1>3, PlacedKept, Places DEF Neat
    <2> QED
        BY <1>1, <1>3, <2>1 DEF Neat, Blanked, Private, PoolFrames
<1> QED
    BY <1>2, <1>3

\* Where the entry of a page lies.
LEMMA EntryPlaces ==
    ASSUME NEW D, NEW m \in Mem, Owned(m, D), NEW d \in D, NEW v \in UserPage, TableHere(m, d, v[1])
    PROVE  /\ Table(m, d, v[1]) \in AnyPage /\ Table(m, d, v[1]) \in m.taken
           /\ Entry(m, d, v) = m.page[Table(m, d, v[1])][v[2]]
           /\ Entry(m, d, v) \in Nat
<1>1. v[1] \in Tabled /\ v[2] \in Index
    BY PagePlaces
<1>2. Table(m, d, v[1]) \in AnyPage /\ Table(m, d, v[1]) \in m.taken
    BY <1>1, OwnedPages DEF Owned
<1> QED
    BY <1>1, <1>2, MemTypes DEF Entry

\* No page is held twice.
LEMMA HeldOnce ==
    ASSUME NEW D, NEW m \in Mem, Good(m, D), NEW d \in D, NEW v \in UserPage, NEW e \in D, NEW u \in UserPage,
           Holds(m, d, v), TableHere(m, e, u[1]), At(Entry(m, e, u)) = At(Entry(m, d, v))
    PROVE  e = d /\ u = v
<1> DEFINE p == Table(m, d, v[1])
           q == Table(m, e, u[1])
<1>1. /\ TableHere(m, d, v[1]) /\ At(Entry(m, d, v)) \in Private(m)
      /\ v = <<v[1], v[2]>> /\ u = <<u[1], u[2]>> /\ v[2] \in Index /\ u[2] \in Index
      /\ v[1] \in Tabled /\ u[1] \in Tabled /\ Owned(m, D) /\ Distinct(m)
    BY PagePlaces DEF Holds, Good, Apart
<1>2. /\ p \in AnyPage /\ q \in AnyPage /\ At(m.page[p][v[2]]) \in Private(m)
      /\ At(m.page[q][u[2]]) = At(m.page[p][v[2]])
    BY <1>1, EntryPlaces
<1> HIDE DEF p, q
<1>3. q = p /\ u[2] = v[2]
    BY <1>1, <1>2 DEF Distinct
<1>4. e = d /\ u[1] = v[1]
    BY <1>1, <1>3 DEF Owned, p, q
<1> QED
    BY <1>1, <1>3, <1>4

\* What a program holds is present, for the user.
LEMMA HoldsMapped ==
    ASSUME NEW D, NEW m \in Mem, Owned(m, D), Placed(m, D), NEW d \in D, NEW v \in UserPage, Holds(m, d, v)
    PROVE  Mapped(m, d, v) /\ Has(Entry(m, d, v), US) /\ Translate(m, d, v) = At(Entry(m, d, v))
<1>1. TableHere(m, d, v[1]) /\ At(Entry(m, d, v)) \in Private(m) /\ v[2] \in Index
    BY PagePlaces DEF Holds
<1>2. Table(m, d, v[1]) \in AnyPage /\ Entry(m, d, v) = m.page[Table(m, d, v[1])][v[2]]
    BY <1>1, EntryPlaces
<1>3. Has(Entry(m, d, v), PR) /\ Has(Entry(m, d, v), US)
    BY <1>1, <1>2 DEF Placed
<1> QED
    BY <1>1, <1>3 DEF Mapped, Translate

\* The entry of a page is new.
LEMMA AddsMakes ==
    ASSUME NEW D, NEW m \in Mem, Good(m, D), Neat(m, D), NEW d \in D, NEW v \in UserPage,
           NEW w, Has(w, PR), Has(w, US), At(w) \in Private(m) => m.data[At(w)] = Junk,
           NEW k, Adds(m, k, D, d, v, w)
    PROVE  /\ Neat(k, D)
           /\ \A e \in D, u \in UserPage : e # d \/ u # v => Stays(m, k, e, u)
           /\ Holds(k, d, v) => Seen(k, d, v) = Junk
<1>1. /\ Owned(m, D) /\ Placed(m, D) /\ Blanked(m) /\ v = <<v[1], v[2]>>
      /\ v[1] \in User /\ v[1] \in Tabled /\ v[2] \in Index
    BY PagePlaces DEF Good, Neat
<1>2. PICK p \in AnyPage :
        /\ Table(k, d, v[1]) = p /\ k.page[p][v[2]] = w
        /\ IF TableHere(m, d, v[1])
           THEN Table(m, d, v[1]) = p /\ \A j \in Index : j # v[2] => k.page[p][j] = m.page[p][j]
           ELSE p \notin m.taken \cup {MmKernel}
        /\ \A q \in AnyPage, j \in Index : q # p \/ j # v[2] =>
               (At(k.page[q][j]) \in Private(m) => k.page[q][j] = m.page[q][j])
    BY DEF Adds
<1>3. /\ k.used = m.used /\ k.base = m.base /\ k.data = m.data /\ TableHere(k, d, v[1])
      /\ \A e \in D, j \in Tabled : e # d \/ j # v[1] => Same(m, k, e, j)
    BY DEF Adds, Alike
<1>4. Private(k) = Private(m)
    BY <1>3 DEF Private, PoolFrames
<1>5. \A e \in D, i \in User : TableHere(m, e, i) => TableHere(k, e, i) /\ Table(k, e, i) = Table(m, e, i)
    <2> SUFFICES ASSUME NEW e \in D, NEW i \in User, TableHere(m, e, i)
                 PROVE  TableHere(k, e, i) /\ Table(k, e, i) = Table(m, e, i)
        OBVIOUS
    <2>1. CASE e = d /\ i = v[1]
        BY <1>2, <1>3, <2>1
    <2>2. CASE e # d \/ i # v[1]
        <3>1. Same(m, k, e, i)
            BY <1>3, <2>2, Places
        <3> QED
            BY <3>1, SameMeans DEF Shape
    <2> QED
        BY <2>1, <2>2
<1>6. Placed(k, D)
    <2> SUFFICES ASSUME NEW q \in AnyPage, NEW j \in Index, At(k.page[q][j]) \in Private(k)
                 PROVE  /\ Has(k.page[q][j], PR) /\ Has(k.page[q][j], US)
                        /\ \E e \in D, i \in User : TableHere(k, e, i) /\ Table(k, e, i) = q
        BY DEF Placed
    <2>1. CASE q = p /\ j = v[2]
        BY <1>1, <1>2, <1>3, <2>1
    <2>2. CASE q # p \/ j # v[2]
        <3>1. k.page[q][j] = m.page[q][j]
            BY <1>2, <1>4, <2>2
        <3>2. /\ Has(k.page[q][j], PR) /\ Has(k.page[q][j], US)
              /\ \E e \in D, i \in User : TableHere(m, e, i) /\ Table(m, e, i) = q
            BY <1>1, <1>4, <3>1 DEF Placed
        <3> QED
            BY <1>5, <3>2
    <2> QED
        BY <2>1, <2>2
<1>7. ASSUME NEW u \in UserPage, u[1] = v[1], u # v
      PROVE  Stays(m, k, d, u)
    <2>1. u[2] \in Index /\ u[2] # v[2]
        BY <1>1, <1>7, PagePlaces
    <2>2. CASE TableHere(m, d, v[1])
        <3>1. k.page[p][u[2]] = m.page[p][u[2]] /\ Table(m, d, u[1]) = p /\ Table(k, d, u[1]) = p
            BY <1>2, <1>7, <2>1, <2>2
        <3>2. Entry(k, d, u) = Entry(m, d, u)
            BY <3>1 DEF Entry
        <3> QED
            BY <1>3, <1>4, <1>7, <2>2, <3>2 DEF Stays, Holds, Seen
    <2>3. CASE ~TableHere(m, d, v[1])
        <3>1. p \notin m.taken
            BY <1>2, <2>3
        <3>2. At(k.page[p][u[2]]) \notin Private(m)
            <4>1. SUFFICES ASSUME At(k.page[p][u[2]]) \in Private(m)
                           PROVE  FALSE
                OBVIOUS
            <4>2. At(m.page[p][u[2]]) \in Private(m)
                BY <1>2, <2>1, <4>1
            <4>3. \E e \in D, i \in User : TableHere(m, e, i) /\ Table(m, e, i) = p
                BY <1>1, <2>1, <4>2 DEF Placed
            <4> QED
                BY <1>1, <3>1, <4>3, Places DEF Owned
        <3>3. ~Holds(k, d, u)
            BY <1>2, <1>4, <1>7, <3>2 DEF Holds, Entry
        <3> QED
            BY <1>7, <2>3, <3>3 DEF Stays, Holds
    <2> QED
        BY <2>2, <2>3
<1>8. ASSUME NEW e \in D, NEW u \in UserPage, e # d \/ u # v
      PROVE  Stays(m, k, e, u)
    <2>1. CASE e = d /\ u[1] = v[1]
        BY <1>7, <1>8, <2>1
    <2>2. CASE e # d \/ u[1] # v[1]
        <3>1. Same(m, k, e, u[1])
            BY <1>3, <2>2, PagePlaces
        <3> QED
            BY <1>3, <3>1, SameStays
    <2> QED
        BY <2>1, <2>2
<1>9. Holds(k, d, v) => Seen(k, d, v) = Junk
    <2>1. Entry(k, d, v) = w
        BY <1>2 DEF Entry
    <2> QED
        BY <1>3, <1>4, <2>1 DEF Holds, Seen
<1>10. Blanked(k)
    BY <1>1, <1>3, <1>4 DEF Blanked
<1> QED
    BY <1>6, <1>8, <1>9, <1>10 DEF Neat

\* Space d may have got page v, with what nobody stored.
Gets(m, k, D, d, v) ==
    /\ Neat(k, D)
    /\ \A e \in D, u \in UserPage : e # d \/ u # v => Stays(m, k, e, u)
    /\ IF Holds(m, d, v) THEN Stays(m, k, d, v) ELSE Holds(k, d, v) => Seen(k, d, v) = Junk

\* mm_map_range
LEMMA MapNewMakes ==
    ASSUME NEW D, NEW m, Safe(m, D), Running(m), Neat(m, D), NEW d \in D \ {MmKernel}, NEW v \in UserPage,
           NEW flags \in {US, WR + US}, NEW merge \in BOOLEAN, NEW k, k = MapNew(m, d, v, flags, merge), Running(k)
    PROVE  Gets(m, k, D, d, v)
<1>1. m \in Mem /\ Good(m, D) /\ Owned(m, D)
    BY DEF Safe, Good
<1>2. PICK n, w : Allocates(m, n, w) /\ Good(n, D) /\ k = Maps(m, n, w, d, v, merge)
    BY <1>1, MapNewMeans
<1>3. /\ n \in Mem /\ Running(n) /\ w \in Nat /\ Has(w, PR) /\ Has(w, US) /\ Fresh(n, w)
      /\ Wrapped(n) \/ At(w) \in Private(n)
      /\ n.page = m.page /\ n.data = m.data /\ n.base = m.base /\ m.used \subseteq n.used
      /\ At(w) \in Private(m) => At(w) \notin m.used
      /\ \A e, u : TableHere(n, e, u[1]) <=> TableHere(m, e, u[1])
      /\ \A e, u : Entry(n, e, u) = Entry(m, e, u)
      /\ \A e, i : Table(n, e, i) = Table(m, e, i)
    BY <1>2 DEF Allocates, TableHere, Entry, Table, Count, Info
<1>4. Private(n) = Private(m)
    BY <1>3 DEF Private, PoolFrames
<1>5. \A e \in D, u \in UserPage : Stays(m, n, e, u)
    BY <1>3, <1>4 DEF Stays, Holds, Seen
<1>6. Neat(n, D)
    <2>1. Placed(n, D)
        <3>1. \A e, i : TableHere(n, e, i) <=> TableHere(m, e, i)
            BY <1>3 DEF TableHere
        <3> QED
            BY <1>3, <1>4, <3>1 DEF Neat, Placed
    <2> QED
        BY <1>3, <1>4, <2>1 DEF Neat, Blanked
<1>7. At(w) \in Private(n) => n.data[At(w)] = Junk
    BY <1>3, <1>4 DEF Neat, Blanked
<1>8. ASSUME ~Mapped(m, d, v), Adds(n, k, D, d, v, w)
      PROVE  Gets(m, k, D, d, v)
    <2>1. ~Holds(m, d, v)
        BY <1>1, <1>8, HoldsMapped DEF Neat
    <2>2. /\ Neat(k, D)
          /\ \A e \in D, u \in UserPage : e # d \/ u # v => Stays(n, k, e, u)
          /\ Holds(k, d, v) => Seen(k, d, v) = Junk
        BY <1>2, <1>3, <1>6, <1>7, <1>8, AddsMakes
    <2> QED
        BY <1>5, <2>1, <2>2, StaysTwice DEF Gets
<1>9. CASE ~TableHere(m, d, v[1])
    <2>1. k = AddTable(n, d, v, w)
        BY <1>2, <1>9 DEF Maps
    <2>2. Adds(n, k, D, d, v, w)
        BY <1>2, <1>3, <1>9, <2>1, AddTableSafe
    <2> QED
        BY <1>8, <1>9, <2>2 DEF Mapped
<1>10. CASE TableHere(m, d, v[1]) /\ ~Mapped(m, d, v)
    <2>1. k = AddEntry(n, d, v, w) /\ TableHere(n, d, v[1]) /\ ~Mapped(n, d, v)
        BY <1>2, <1>3, <1>10 DEF Maps, Mapped
    <2>2. Adds(n, k, D, d, v, w)
        BY <1>2, <1>3, <2>1, AddEntryGood
    <2> QED
        BY <1>8, <1>10, <2>2
<1>11. CASE TableHere(m, d, v[1]) /\ Mapped(m, d, v)
    <2>1. k = Check(n, merge, "present")
        BY <1>2, <1>11 DEF Maps
    <2>2. ~Running(Fail(n, "present"))
        BY <1>3, FailFields DEF Reason
    <2>3. k = n
        BY <2>1, <2>2 DEF Check
    <2> QED
        BY <1>5, <1>6, <2>3 DEF Gets, Stays
<1> QED
    BY <1>9, <1>10, <1>11

\* Page v of space d holds x now, everything else what it held.
Stores(m, k, D, d, v, x) ==
    /\ Neat(k, D)
    /\ \A e \in D, u \in UserPage : e # d \/ u # v => Stays(m, k, e, u)
    /\ Holds(m, d, v) /\ Holds(k, d, v) /\ Seen(k, d, v) = x

LEMMA StoreMakes ==
    ASSUME NEW D, NEW m, Safe(m, D), Neat(m, D), NEW d \in D, NEW v \in UserPage, Mapped(m, d, v), NEW x \in Cell,
           Running(m), NEW k, k = Store(m, At(Entry(m, d, v)), x), Running(k)
    PROVE  Stores(m, k, D, d, v, x)
<1> DEFINE f == At(Entry(m, d, v))
<1>1. m \in Mem /\ Good(m, D) /\ Owned(m, D) /\ Placed(m, D) /\ Blanked(m) /\ TableHere(m, d, v[1])
    BY DEF Safe, Good, Neat, Mapped
<1>2. f \in Private(m)
    <2>1. ~Running(Fail(m, "shared"))
        BY <1>1, FailFields DEF Reason
    <2> QED
        BY <2>1 DEF Store
<1>3. Holds(m, d, v)
    BY <1>1, <1>2 DEF Holds
<1>4. k = [m EXCEPT !.data[f] = x] /\ m.data \in [Frame -> Cell] /\ f \in Frame
    <2>1. f \in Available
        BY <1>2 DEF Private
    <2> QED
        BY <1>1, <1>2, <2>1, MemTypes, PageMemAssumption DEF Store, Frame
<1> HIDE DEF f
<1>5. /\ k.page = m.page /\ k.used = m.used /\ k.base = m.base /\ k.data[f] = x
      /\ \A g \in Frame : g # f => k.data[g] = m.data[g]
    BY <1>1, <1>4 DEF Mem
<1>6. /\ \A e, i : TableHere(k, e, i) <=> TableHere(m, e, i)
      /\ \A e, i : Table(k, e, i) = Table(m, e, i)
      /\ \A e, u : Entry(k, e, u) = Entry(m, e, u)
      /\ Private(k) = Private(m)
    BY <1>5 DEF TableHere, Entry, Table, Count, Info, Private, PoolFrames
<1>7. \A e, u : Holds(k, e, u) <=> Holds(m, e, u)
    BY <1>6 DEF Holds
<1>8. ASSUME NEW e \in D, NEW u \in UserPage, e # d \/ u # v, Holds(m, e, u)
      PROVE  Seen(k, e, u) = Seen(m, e, u)
    <2>1. At(Entry(m, e, u)) # f
        BY <1>1, <1>3, <1>8, HeldOnce DEF Holds, f
    <2>2. At(Entry(m, e, u)) \in Frame
        BY <1>8, PageMemAssumption DEF Holds, Private, Frame
    <2> QED
        BY <1>5, <1>6, <2>1, <2>2 DEF Seen
<1>9. Placed(k, D)
    BY <1>1, <1>5, <1>6 DEF Placed
<1>10. Blanked(k)
    <2>1. f \in m.used
        <3>1. v[2] \in Index /\ Table(m, d, v[1]) \in AnyPage /\ f = At(m.page[Table(m, d, v[1])][v[2]])
            BY <1>1, PagePlaces, EntryPlaces DEF f
        <3> QED
            BY <1>1, <1>2, <3>1 DEF Good, Apart, Distinct
    <2>2. \A g \in Private(m) : g \in Frame
        BY PageMemAssumption DEF Private, Frame
    <2> QED
        BY <1>1, <1>5, <1>6, <2>1, <2>2 DEF Blanked
<1>11. Seen(k, d, v) = x
    BY <1>5, <1>6 DEF Seen, f
<1> QED
    BY <1>3, <1>7, <1>8, <1>9, <1>10, <1>11 DEF Stores, Stays, Neat

\* mm_memcpy_kernel_to_user
LEMMA ToUserMakes ==
    ASSUME NEW D, NEW m, Safe(m, D), Running(m), Neat(m, D), NEW d \in D, NEW v \in UserPage, NEW x \in Cell,
           NEW k, k = ToUser(m, d, v, x), Running(k)
    PROVE  Stores(m, k, D, d, v, x)
<1> DEFINE n == InWindow(m, v, Translate(m, d, v))
<1>1. m \in Mem /\ Good(m, D) /\ Owned(m, D)
    BY DEF Safe, Good
<1>2. Mapped(m, d, v)
    <2>1. ~Running(Fail(m, "address"))
        BY <1>1, FailFields DEF Reason
    <2> QED
        BY <2>1 DEF ToUser, Check
<1>3. Entry(m, d, v) \in Nat /\ Translate(m, d, v) = At(Entry(m, d, v)) /\ Translate(m, d, v) \in Nat
    BY <1>1, <1>2, TranslateNat
<1>4. k = Store(n, At(Entry(m, d, v)), x)
    BY <1>2, <1>3 DEF ToUser, Check
<1>5. Safe(n, D) /\ (Running(n) => Untouched(m, n, D))
    BY <1>3, InWindowSafe
<1> HIDE DEF n
<1>6. Running(n)
    BY <1>4 DEF Store
<1>7. Neat(n, D) /\ \A e \in D, u \in UserPage : Stays(m, n, e, u)
    BY <1>5, <1>6, UntouchedStays
<1>8. Entry(n, d, v) = Entry(m, d, v) /\ Mapped(n, d, v)
    <2>1. Same(m, n, d, v[1]) /\ v = <<v[1], v[2]>> /\ v[2] \in Index /\ TableHere(m, d, v[1])
        BY <1>2, <1>5, <1>6, PagePlaces DEF Untouched, Mapped
    <2>2. TableHere(n, d, v[1]) /\ Entry(n, d, <<v[1], v[2]>>) = Entry(m, d, <<v[1], v[2]>>)
        BY <2>1, SameMeans
    <2> QED
        BY <1>2, <2>1, <2>2 DEF Mapped
<1>9. Stores(n, k, D, d, v, x)
    BY <1>4, <1>5, <1>6, <1>7, <1>8, StoreMakes
<1> QED
    BY <1>7, <1>9, StaysTwice DEF Stores, Stays

\* Space d may have more pages than it had; what is new in its pages is of a program's
\* file, or what memory held at first.
Fills(m, k, D, d) ==
    /\ Neat(k, D)
    /\ \A e \in D, u \in UserPage : e # d => Stays(m, k, e, u)
    /\ \A u \in UserPage : Holds(m, d, u) => Holds(k, d, u)
    /\ \A u \in UserPage : Holds(k, d, u) =>
        \/ Seen(k, d, u) \in Program \cup {Junk}
        \/ Holds(m, d, u) /\ Seen(k, d, u) = Seen(m, d, u)

LEMMA FillsFirst ==
    ASSUME NEW D, NEW m, Neat(m, D), NEW d
    PROVE  Fills(m, m, D, d)
BY DEF Fills, Stays

LEMMA FillsMore ==
    ASSUME NEW D, NEW m, NEW y, NEW d \in D, Fills(m, y, D, d), NEW k, NEW v \in UserPage,
           Gets(y, k, D, d, v) \/ \E x \in Program : Stores(y, k, D, d, v, x)
    PROVE  Fills(m, k, D, d)
<1>1. /\ Neat(k, D) /\ \A e \in D, u \in UserPage : e # d \/ u # v => Stays(y, k, e, u)
    BY DEF Gets, Stores
<1>2. \A e \in D, u \in UserPage : e # d => Stays(m, k, e, u)
    BY <1>1, StaysTwice DEF Fills
<1>3. ASSUME NEW u \in UserPage, Stays(y, k, d, u)
      PROVE  /\ Holds(m, d, u) => Holds(k, d, u)
             /\ Holds(k, d, u) => \/ Seen(k, d, u) \in Program \cup {Junk}
                                  \/ Holds(m, d, u) /\ Seen(k, d, u) = Seen(m, d, u)
    BY <1>3 DEF Fills, Stays
<1>4. \/ Stays(y, k, d, v)
      \/ ~Holds(y, d, v) /\ (Holds(k, d, v) => Seen(k, d, v) = Junk)
      \/ Holds(k, d, v) /\ Seen(k, d, v) \in Program
    <2>1. CASE Gets(y, k, D, d, v)
        BY <2>1 DEF Gets
    <2>2. CASE \E x \in Program : Stores(y, k, D, d, v, x)
        BY <2>2 DEF Stores
    <2> QED
        BY <2>1, <2>2
<1>5. /\ Holds(m, d, v) => Holds(k, d, v)
      /\ Holds(k, d, v) => \/ Seen(k, d, v) \in Program \cup {Junk}
                           \/ Holds(m, d, v) /\ Seen(k, d, v) = Seen(m, d, v)
    <2>1. CASE Stays(y, k, d, v)
        BY <1>3, <2>1
    <2>2. CASE ~Holds(y, d, v) /\ (Holds(k, d, v) => Seen(k, d, v) = Junk)
        BY <2>2 DEF Fills
    <2>3. CASE Holds(k, d, v) /\ Seen(k, d, v) \in Program
        BY <2>3
    <2> QED
        BY <1>4, <2>1, <2>2, <2>3
<1>6. \A u \in UserPage :
        /\ Holds(m, d, u) => Holds(k, d, u)
        /\ Holds(k, d, u) => \/ Seen(k, d, u) \in Program \cup {Junk}
                             \/ Holds(m, d, u) /\ Seen(k, d, u) = Seen(m, d, u)
    BY <1>1, <1>3, <1>5
<1> QED
    BY <1>1, <1>2, <1>6 DEF Fills

\* elf_load
LEMMA ElfLoadMakes ==
    ASSUME NEW D, NEW m, Safe(m, D), Running(m) => Neat(m, D), NEW d \in D \ {MmKernel}, NEW prog \in Program,
           NEW k, k = ElfLoad(m, d, prog), Running(k)
    PROVE  Running(m) /\ Fills(m, k, D, d)
<1> DEFINE P(x) == Running(x) => Running(m) /\ Fills(m, x, D, d)
           S == {x \in Mem : Safe(x, D) /\ P(x)}
<1>1. \A x : x \in S <=> Safe(x, D) /\ P(x)
    BY DEF Safe
<1>2. m \in S
    BY <1>1, FillsFirst
<1> HIDE DEF S
<1>3. ASSUME NEW x \in S, NEW v \in UserPage
      PROVE  MapNew(x, d, v, WR + US, TRUE) \in S /\ ToUser(x, d, v, prog) \in S
    <2> DEFINE a == MapNew(x, d, v, WR + US, TRUE)
               b == ToUser(x, d, v, prog)
    <2>1. Safe(x, D) /\ P(x) /\ WR + US \in {US, WR + US} /\ prog \in Cell
        BY <1>1 DEF Cell
    <2>2. Safe(a, D) /\ Safe(b, D)
        BY <2>1, MapNewSafe, ToUserSafe
    <2>3. CASE ~Running(x)
        <3>1. a = x
            BY <2>3 DEF MapNew
        <3>2. b = x
            BY <2>3, StoppedStays DEF ToUser
        <3> QED
            BY <3>1, <3>2
    <2>4. CASE Running(x)
        <3>1. Fills(m, x, D, d) /\ Neat(x, D) /\ Running(m)
            BY <2>1, <2>4 DEF Fills
        <3> HIDE DEF a, b
        <3>2. ASSUME Running(a)
              PROVE  Fills(m, a, D, d)
            <4>1. Gets(x, a, D, d, v)
                BY <2>1, <2>4, <3>1, <3>2, MapNewMakes DEF a
            <4> QED
                BY <3>1, <4>1, FillsMore
        <3>3. ASSUME Running(b)
              PROVE  Fills(m, b, D, d)
            <4>1. Stores(x, b, D, d, v, prog)
                BY <2>1, <2>4, <3>1, <3>3, ToUserMakes DEF b
            <4> QED
                BY <3>1, <4>1, FillsMore
        <3> QED
            BY <1>1, <2>2, <3>1, <3>2, <3>3 DEF a, b
    <2> QED
        BY <2>3, <2>4
<1>4. k \in S
    BY <1>2, <1>3, ElfLoadIn DEF KeepsLoading
<1> QED
    BY <1>1, <1>4

\* A space that holds nothing yet does not disturb.
LEMMA NeatMore ==
    ASSUME NEW D, NEW m, NEW d, Neat(m, D)
    PROVE  Neat(m, D \cup {d})
BY DEF Neat, Placed

\* Space d has what the kernel maps, and nothing of its own.
Clones(m, k, D, d) ==
    /\ Neat(k, D \cup {d})
    /\ \A e \in D, u \in UserPage : Stays(m, k, e, u)
    /\ \A u \in UserPage : ~Holds(k, d, u)

LEMMA CloneKernelMakes ==
    ASSUME NEW D, NEW m, NEW d, NewSpace(m, D, d), \A i \in Kernel : m.page[d][i] = 0, Neat(m, D), NEW s \in D,
           NEW k, k = CloneKernel(m, d, s)
    PROVE  Safe(k, D \cup {d}) /\ (Running(k) => Clones(m, k, D, d))
<1>1. Safe(k, D \cup {d}) /\ (Running(k) => Untouched(m, k, D) /\ Bare(k, d))
    BY CloneKernelSafe
<1>2. ASSUME Running(k)
      PROVE  Clones(m, k, D, d)
    <2>1. Neat(k, D) /\ \A e \in D, u \in UserPage : Stays(m, k, e, u)
        BY <1>1, <1>2, UntouchedStays
    <2>2. ASSUME NEW u \in UserPage
          PROVE  ~Holds(k, d, u)
        <3>1. k.page[d][u[1]] = 0
            BY <1>1, <1>2, PagePlaces DEF Bare
        <3> QED
            BY <3>1, Flags DEF Holds, TableHere
    <2> QED
        BY <2>1, <2>2, NeatMore DEF Clones
<1> QED
    BY <1>1, <1>2

\* Space d is new in memory k, and all that its pages hold is of a program's file, or
\* what memory held at first.
Starts(m, k, D, d) ==
    /\ Neat(k, D \cup {d})
    /\ \A e \in D, u \in UserPage : Stays(m, k, e, u)
    /\ \A u \in UserPage : Holds(k, d, u) => Seen(k, d, u) \in Program \cup {Junk}

\* task_fexecve
LEMMA LoadedMakes ==
    ASSUME NEW D, NEW m, Safe(m, D), Running(m), Neat(m, D), NEW prog \in Program,
           NEW r, r = Loaded(m, prog), Running(r.mem)
    PROVE  Starts(m, r.mem, D, r.space)
<1> DEFINE c == CreateSpace(m)
           d == c.space
           E == D \cup {d}
           b == CloneKernel(c.mem, d, MmKernel)
           k == ElfLoad(b, d, prog)
           s == IF Running(k) THEN MapNew(k, d, Stack, WR + US, FALSE) ELSE k
           x == ToUser(s, d, Stack, prog)
<1>1. r = [mem |-> IF Running(c.mem) THEN x ELSE c.mem, space |-> d]
    BY DEF Loaded
<1>2. Running(c.mem) /\ r.mem = x /\ r.space = d
    <2> HIDE DEF c, d, x
    <2> QED
        BY <1>1
<1>3. m \in Mem /\ Good(m, D)
    BY DEF Safe
<1>4. /\ NewSpace(c.mem, D, d) /\ \A i \in Kernel : c.mem.page[d][i] = 0
      /\ Untouched(m, c.mem, D)
    <2> HIDE DEF d
    <2> DEFINE n == c.mem
    <2>1. n = CreateSpace(m).mem /\ d = CreateSpace(m).space
        BY DEF d
    <2> HIDE DEF n
    <2> QED
        BY <1>2, <1>3, <2>1, CreateSpaceMakes DEF n
<1> HIDE DEF c, d, E, b, k, s, x
<1>5. MmKernel \in D /\ d \notin D /\ d \in E /\ d \in E \ {MmKernel} /\ Stack \in UserPage /\ prog \in Cell
      /\ WR + US \in {US, WR + US}
    BY <1>4 DEF NewSpace, Good, E, Stack, UserPage, User, Index, InfoEntry, Cell
<1>6. Neat(c.mem, D) /\ \A e \in D, u \in UserPage : Stays(m, c.mem, e, u)
    BY <1>4, UntouchedStays
<1>7. Safe(b, E) /\ (Running(b) => Clones(c.mem, b, D, d))
    BY <1>4, <1>5, <1>6, CloneKernelMakes DEF b, E
<1>8. Running(b) => /\ Neat(b, E) /\ \A e \in D, u \in UserPage : Stays(m, b, e, u)
                    /\ \A u \in UserPage : ~Holds(b, d, u)
    BY <1>6, <1>7, StaysTwice DEF Clones, E
<1>9. Safe(k, E) /\ (Running(k) => Running(b) /\ Fills(b, k, E, d))
    BY <1>5, <1>7, <1>8, ElfLoadSafe, ElfLoadMakes DEF k
<1>10. Safe(s, E) /\ (Running(s) => Running(k) /\ Fills(b, s, E, d))
    <2>1. Safe(s, E)
        BY <1>5, <1>9, MapNewSafe DEF s
    <2>2. ASSUME Running(s)
          PROVE  Running(k) /\ Fills(b, s, E, d)
        <3>1. Running(k) /\ s = MapNew(k, d, Stack, WR + US, FALSE)
            BY <2>2 DEF s
        <3>2. Fills(b, k, E, d) /\ Neat(k, E) /\ FALSE \in BOOLEAN
            BY <1>9, <3>1 DEF Fills
        <3>3. Gets(k, s, E, d, Stack)
            BY <1>5, <1>9, <2>2, <3>1, <3>2, MapNewMakes
        <3> QED
            BY <1>5, <3>1, <3>2, <3>3, FillsMore
    <2> QED
        BY <2>1, <2>2
<1>11. Running(b) /\ Fills(b, x, E, d)
    <2>1. Running(x)
        BY <1>2
    <2>2. Running(s)
        <3>1. ~Running(s) => x = s
            BY StoppedStays DEF ToUser, x
        <3> QED
            BY <2>1, <3>1
    <2>3. Fills(b, s, E, d) /\ Neat(s, E) /\ Running(b)
        BY <1>9, <1>10, <2>2 DEF Fills
    <2>4. Stores(s, x, E, d, Stack, prog)
        BY <1>5, <1>10, <2>1, <2>2, <2>3, ToUserMakes DEF x
    <2> QED
        BY <1>5, <2>3, <2>4, FillsMore
<1>12. \A e \in D : e \in E /\ e # d
    BY <1>5 DEF E
<1>13. \A e \in D, u \in UserPage : Stays(m, x, e, u)
    BY <1>8, <1>11, <1>12, StaysTwice DEF Fills
<1>14. \A u \in UserPage : Holds(x, d, u) => Seen(x, d, u) \in Program \cup {Junk}
    BY <1>8, <1>11 DEF Fills
<1> QED
    BY <1>2, <1>11, <1>13, <1>14 DEF Starts, Fills, E

\* Page v of space dst is a copy of that of src, or as memory was at first.
Copies(m, k, D, dst, src, v) ==
    /\ Neat(k, D)
    /\ \A e \in D, u \in UserPage : e # dst \/ u # v => Stays(m, k, e, u)
    /\ Holds(k, dst, v)
    /\ Seen(k, dst, v) = IF Holds(m, src, v) THEN Seen(m, src, v) ELSE Junk

\* A page of mm_space_fork.
LEMMA ForkPageMakes ==
    ASSUME NEW D, NEW m, Safe(m, D), Running(m), Neat(m, D), NEW dst \in D \ {MmKernel}, NEW src \in D,
           NEW v \in UserPage, Mapped(m, src, v), NEW y, y = ForkPage(m, dst, src, v), Running(y)
    PROVE  Copies(m, y, D, dst, src, v)
<1> DEFINE flags == (IF Has(Entry(m, src, v), WR) THEN WR ELSE 0) + US
           x == Data(m, At(Entry(m, src, v)))
           k == MapNew(m, dst, v, flags, FALSE)
           n == FromUser(k, src, v)
<1>1. flags \in {US, WR + US} /\ FALSE \in BOOLEAN
    BY DEF WR, US
<1>2. x \in Cell
    <2>1. m.data \in [Frame -> Cell]
        BY MemTypes DEF Safe
    <2>2. Private(m) \subseteq Frame
        BY PageMemAssumption DEF Private, Frame
    <2> QED
        BY <2>1, <2>2 DEF Data, Cell
<1>3. x = IF Holds(m, src, v) THEN Seen(m, src, v) ELSE Junk
    BY DEF Data, Holds, Seen, Mapped
<1>4. y = IF ~Running(k) THEN k ELSE ToUser(n, dst, v, x)
    BY DEF ForkPage
<1> HIDE DEF flags, x
<1>5. Safe(k, D)
    BY <1>1, MapNewSafe
<1>6. Running(k) /\ y = ToUser(n, dst, v, x)
    <2> HIDE DEF k, n
    <2> QED
        BY <1>4
<1>7. Gets(m, k, D, dst, v)
    <2>1. Running(MapNew(m, dst, v, flags, FALSE))
        BY <1>6
    <2> HIDE DEF k
    <2>2. Gets(m, MapNew(m, dst, v, flags, FALSE), D, dst, v)
        BY <1>1, <2>1, MapNewMakes
    <2> QED
        BY <2>2 DEF k
<1> HIDE DEF k
<1>8. Safe(n, D) /\ (Running(n) => Untouched(k, n, D))
    BY <1>5, FromUserSafe
<1> HIDE DEF n
<1>9. Running(n)
    <2>1. ~Running(n) => y = n
        BY <1>6, StoppedStays DEF ToUser
    <2> QED
        BY <2>1
<1>10. Neat(n, D) /\ \A e \in D, u \in UserPage : Stays(k, n, e, u)
    BY <1>7, <1>8, <1>9, UntouchedStays DEF Gets
<1>11. Stores(n, y, D, dst, v, x)
    BY <1>2, <1>6, <1>8, <1>9, <1>10, ToUserMakes
<1>12. \A e \in D, u \in UserPage : e # dst \/ u # v => Stays(m, y, e, u)
    BY <1>7, <1>10, <1>11, StaysTwice DEF Gets, Stores
<1> QED
    BY <1>3, <1>11, <1>12 DEF Copies, Stores

LEMMA PageAtAll ==
    ASSUME NEW v \in UserPage
    PROVE  \E n \in 1..2 * Entries : PageAt(n) = v
<1>1. v = <<v[1], v[2]>> /\ v[1] \in {1, 2} /\ v[2] \in 0..5 /\ Entries = 6
    BY DEF UserPage, User, Index, InfoEntry, Entries
<1> DEFINE n == (v[1] - 1) * 6 + v[2] + 1
<1>2. n \in 1..12 /\ 1 + (n - 1) \div 6 = v[1] /\ (n - 1) % 6 = v[2]
    <2>1. CASE v[1] = 1
        BY <1>1, <2>1
    <2>2. CASE v[1] = 2
        BY <1>1, <2>2
    <2> QED
        BY <1>1, <2>1, <2>2
<1> HIDE DEF n
<1>3. n \in 1..2 * Entries /\ PageAt(n) = v
    BY <1>1, <1>2 DEF PageAt
<1> QED
    BY <1>3

\* Space dst has, of the first n pages of src, all that src holds, and nothing else that
\* anybody stored.
Copied(m, k, D, dst, src, n) ==
    /\ Neat(k, D)
    /\ \A e \in D, u \in UserPage : e # dst => Stays(m, k, e, u)
    /\ \A i \in 1..n : Holds(m, src, PageAt(i)) => Holds(k, dst, PageAt(i))
    /\ \A u \in UserPage : Holds(k, dst, u) =>
        Seen(k, dst, u) = IF Holds(m, src, u) THEN Seen(m, src, u) ELSE Junk

\* One more page.
LEMMA CopiedMore ==
    ASSUME NEW D, NEW m, NEW k \in Mem, Owned(k, D), NEW dst \in D, NEW src \in D, src # dst, NEW n \in 1..2 * Entries,
           Copied(m, k, D, dst, src, n - 1), NEW y,
           \/ ~Mapped(k, src, PageAt(n)) /\ y = k
           \/ Copies(k, y, D, dst, src, PageAt(n))
    PROVE  Copied(m, y, D, dst, src, n)
<1> DEFINE v == PageAt(n)
<1>1. v \in UserPage /\ n \in 1..12 /\ \A i \in 1..n - 1 : i \in 1..2 * Entries /\ PageAt(i) \in UserPage
    <2>1. Entries = 6
        BY DEF Entries, InfoEntry
    <2>2. \A i \in 1..n - 1 : i \in 1..2 * Entries
        BY <2>1
    <2> QED
        BY <2>1, <2>2, PageAtType
<1>2. \A i \in 1..n : i \in 1..n - 1 \/ i = n
    BY <1>1
<1>3. Stays(m, k, src, v)
    BY <1>1 DEF Copied
<1> HIDE DEF v
<1>4. CASE ~Mapped(k, src, v) /\ y = k
    <2>1. ~Holds(k, src, v)
        BY <1>1, <1>4, HoldsMapped DEF Copied, Neat
    <2>2. ~Holds(m, src, v)
        BY <1>3, <2>1 DEF Stays
    <2>3. \A i \in 1..n : Holds(m, src, PageAt(i)) => Holds(y, dst, PageAt(i))
        BY <1>2, <1>4, <2>2 DEF Copied, v
    <2> QED
        BY <1>4, <2>3 DEF Copied
<1>5. CASE Copies(k, y, D, dst, src, v)
    <2>1. \A e \in D, u \in UserPage : e # dst => Stays(m, y, e, u)
        BY <1>5, StaysTwice DEF Copied, Copies
    <2>2. \A u \in UserPage : u # v => Stays(k, y, dst, u)
        BY <1>5 DEF Copies
    <2>3. \A i \in 1..n : Holds(m, src, PageAt(i)) => Holds(y, dst, PageAt(i))
        <3> SUFFICES ASSUME NEW i \in 1..n, Holds(m, src, PageAt(i))
                     PROVE  Holds(y, dst, PageAt(i))
            OBVIOUS
        <3>1. CASE PageAt(i) = v
            BY <1>5, <3>1 DEF Copies
        <3>2. CASE PageAt(i) # v
            <4>1. i \in 1..n - 1 /\ PageAt(i) \in UserPage
                BY <1>1, <1>2, <3>2 DEF v
            <4>2. Holds(k, dst, PageAt(i))
                BY <4>1 DEF Copied
            <4> QED
                BY <2>2, <3>2, <4>1, <4>2 DEF Stays
        <3> QED
            BY <3>1, <3>2
    <2>4. ASSUME NEW u \in UserPage, Holds(y, dst, u)
          PROVE  Seen(y, dst, u) = IF Holds(m, src, u) THEN Seen(m, src, u) ELSE Junk
        <3>1. CASE u = v
            BY <1>3, <1>5, <3>1 DEF Copies, Stays
        <3>2. CASE u # v
            BY <2>2, <2>4, <3>2 DEF Copied, Stays
        <3> QED
            BY <3>1, <3>2
    <2> QED
        BY <1>5, <2>1, <2>3, <2>4 DEF Copied, Copies
<1> QED
    BY <1>4, <1>5 DEF v

\* mm_space_fork into a space that was just created.
LEMMA ForkSpaceMakes ==
    ASSUME NEW D, NEW m, NEW dst, NewSpace(m, D, dst), \A i \in Kernel : m.page[dst][i] = 0, Neat(m, D),
           NEW src \in D, NEW k, k = ForkSpace(m, dst, src), Running(k)
    PROVE  Copied(m, k, D \cup {dst}, dst, src, 2 * Entries)
<1> DEFINE E == D \cup {dst}
           b == CloneKernel(m, dst, src)
           N == 2 * Entries
<1>1. /\ MmKernel \in D /\ dst \notin D /\ dst \in E \ {MmKernel} /\ src \in E /\ src # dst
      /\ N \in Nat /\ N = 12
    BY DEF NewSpace, Good, Entries, InfoEntry
<1>2. Safe(b, E) /\ (Running(b) => Clones(m, b, D, dst))
    BY CloneKernelMakes
<1>3. PICK f : ForkLoop(f, m, dst, src) /\ \A n \in 0..N : Safe(f[n], E)
    <2>1. Safe(CloneKernel(m, dst, src), E)
        BY <1>2
    <2> HIDE DEF E, b
    <2>2. \E f : ForkLoop(f, m, dst, src) /\ \A n \in 0..2 * Entries : Safe(f[n], E)
        BY <1>1, <2>1, ForkLoops
    <2> QED
        BY <2>2
<1>4. /\ f[0] = b /\ k = f[N]
      /\ \A n \in 1..N : f[n] = IF Running(f[n - 1]) /\ Mapped(f[n - 1], src, PageAt(n))
                                THEN ForkPage(f[n - 1], dst, src, PageAt(n)) ELSE f[n - 1]
    BY <1>3 DEF ForkLoop
<1> DEFINE P(n) == Running(f[n]) => Running(b) /\ Copied(b, f[n], E, dst, src, n)
<1>5. P(0)
    BY <1>2, <1>4 DEF Copied, Clones, Stays
<1> HIDE DEF b
<1>6. ASSUME NEW n \in 1..N, P(n - 1)
      PROVE  P(n)
    <2> DEFINE y == f[n - 1]
               z == f[n]
    <2>1. n - 1 \in 0..N /\ n \in 1..2 * Entries /\ Safe(y, E) /\ PageAt(n) \in UserPage
        <3>1. n - 1 \in 0..N /\ n \in 1..2 * Entries
            BY <1>1
        <3> QED
            BY <1>3, <3>1, PageAtType
    <2>2. z = IF Running(y) /\ Mapped(y, src, PageAt(n)) THEN ForkPage(y, dst, src, PageAt(n)) ELSE y
        BY <1>4
    <2>3. Running(y) => Running(b) /\ Copied(b, y, E, dst, src, n - 1)
        BY <1>6
    <2> HIDE DEF y, z, E, N
    <2>4. ASSUME Running(z)
          PROVE  Running(b) /\ Copied(b, z, E, dst, src, n)
        <3>1. Running(y)
            BY <2>2, <2>4
        <3>2. /\ Running(b) /\ Copied(b, y, E, dst, src, n - 1) /\ Neat(y, E)
              /\ y \in Mem /\ Owned(y, E)
            BY <2>1, <2>3, <3>1 DEF Copied, Safe, Good
        <3>3. CASE ~Mapped(y, src, PageAt(n))
            BY <1>1, <2>1, <2>2, <3>2, <3>3, CopiedMore
        <3>4. CASE Mapped(y, src, PageAt(n))
            <4>1. z = ForkPage(y, dst, src, PageAt(n))
                BY <2>2, <3>1, <3>4
            <4>2. Copies(y, z, E, dst, src, PageAt(n))
                BY <1>1, <2>1, <2>4, <3>1, <3>2, <3>4, <4>1, ForkPageMakes
            <4> QED
                BY <1>1, <2>1, <3>2, <4>2, CopiedMore
        <3> QED
            BY <3>3, <3>4
    <2> QED
        BY <2>4 DEF z
<1>7. P(N)
    <2> DEFINE g == [n \in 0..N |-> IF P(n) THEN 1 ELSE 0]
    <2> HIDE DEF P, N
    <2>1. /\ \A n \in 0..N : g[n] \in {1} <=> P(n)
          /\ \A n \in 1..N : n \in 0..N /\ n - 1 \in 0..N
          /\ 0 \in 0..N /\ N \in 0..N
        BY <1>1
    <2>2. g[0] \in {1} /\ \A n \in 1..N : g[n - 1] \in {1} => g[n] \in {1}
        BY <1>5, <1>6, <2>1
    <2> HIDE DEF g
    <2>3. g[N] \in {1}
        BY <1>1, <2>2, LoopKeeps
    <2> QED
        BY <2>1, <2>3
<1>8. Running(b) /\ Copied(b, k, E, dst, src, N)
    BY <1>4, <1>7
<1>9. /\ \A e \in D, u \in UserPage : Stays(m, b, e, u)
      /\ \A e \in D : e \in E /\ e # dst
    BY <1>1, <1>2, <1>8 DEF Clones, b
<1>10. \A u \in UserPage : Stays(m, b, src, u)
    BY <1>9
<1>11. \A i \in 1..N : PageAt(i) \in UserPage
    BY PageAtType
<1>12. \A e \in E, u \in UserPage : e # dst => Stays(m, k, e, u)
    BY <1>8, <1>9, StaysTwice DEF Copied
<1> HIDE DEF E, N
<1>13. /\ Neat(k, E)
       /\ \A i \in 1..N : Holds(m, src, PageAt(i)) => Holds(k, dst, PageAt(i))
       /\ \A u \in UserPage : Holds(k, dst, u) =>
            Seen(k, dst, u) = IF Holds(m, src, u) THEN Seen(m, src, u) ELSE Junk
    BY <1>8, <1>10, <1>11 DEF Copied, Stays
<1> QED
    BY <1>12, <1>13 DEF Copied, E, N

\* Space dst is new in memory k: a copy of src, but for pages that hold what memory held at
\* first.
Forked(m, k, D, dst, src) ==
    /\ Neat(k, D \cup {dst})
    /\ \A e \in D, u \in UserPage : Stays(m, k, e, u)
    /\ \A u \in UserPage : Holds(m, src, u) => Holds(k, dst, u)
    /\ \A u \in UserPage : Holds(k, dst, u) =>
        Seen(k, dst, u) = IF Holds(m, src, u) THEN Seen(m, src, u) ELSE Junk

LEMMA ForkMakes ==
    ASSUME NEW D, NEW m, Safe(m, D), Running(m), Neat(m, D), NEW src \in D,
           NEW c, NEW d, c = CreateSpace(m).mem, d = CreateSpace(m).space, Running(c),
           NEW k, k = ForkSpace(c, d, src), Running(k)
    PROVE  Forked(m, k, D, d, src)
<1>1. m \in Mem /\ Good(m, D)
    BY DEF Safe
<1>2. NewSpace(c, D, d) /\ (\A i \in Kernel : c.page[d][i] = 0) /\ Untouched(m, c, D)
    BY <1>1, CreateSpaceMakes
<1>3. Neat(c, D) /\ \A e \in D, u \in UserPage : Stays(m, c, e, u)
    BY <1>2, UntouchedStays
<1>4. Copied(c, k, D \cup {d}, d, src, 2 * Entries)
    BY <1>2, <1>3, ForkSpaceMakes
<1>5. d \notin D
    BY <1>2 DEF NewSpace
<1>6. \A e \in D, u \in UserPage : Stays(m, k, e, u)
    BY <1>3, <1>4, <1>5, StaysTwice DEF Copied
<1>7. ASSUME NEW u \in UserPage, Holds(m, src, u)
      PROVE  Holds(k, d, u)
    <2>1. Holds(c, src, u)
        BY <1>3, <1>7 DEF Stays
    <2>2. PICK n \in 1..2 * Entries : PageAt(n) = u
        BY PageAtAll
    <2> QED
        BY <1>4, <2>1, <2>2 DEF Copied
<1>8. ASSUME NEW u \in UserPage, Holds(k, d, u)
      PROVE  Seen(k, d, u) = IF Holds(m, src, u) THEN Seen(m, src, u) ELSE Junk
    BY <1>3, <1>4, <1>8 DEF Copied, Stays
<1> QED
    BY <1>4, <1>6, <1>7, <1>8 DEF Forked, Copied

\* task_destroy
LEMMA DestroyMakes ==
    ASSUME NEW D, NEW m \in Mem, Good(m, D), Neat(m, D), NEW d \in D \ {MmKernel}, NEW k, Destroyed(m, k, D, d)
    PROVE  /\ Neat(k, D \ {d})
           /\ \A e \in D \ {d}, u \in UserPage : Stays(m, k, e, u)
<1>1. /\ k.used = m.used /\ k.base = m.base /\ Owned(m, D) /\ Placed(m, D) /\ Blanked(m) /\ MmKernel \in D
      /\ \A q \in AnyPage, j \in Index : At(k.page[q][j]) \in Private(m) => k.page[q][j] = m.page[q][j]
      /\ \A e \in D \ {d}, i \in Tabled : Same(m, k, e, i)
    BY DEF Destroyed, Kept, Good, Neat
<1>2. Private(k) = Private(m) /\ \A f \in Private(m) : f \in Frame
    BY <1>1, PageMemAssumption DEF Private, PoolFrames, Frame
<1>3. Placed(k, D \ {d})
    <2> SUFFICES ASSUME NEW q \in AnyPage, NEW j \in Index, At(k.page[q][j]) \in Private(k)
                 PROVE  /\ Has(k.page[q][j], PR) /\ Has(k.page[q][j], US)
                        /\ \E e \in D \ {d}, i \in User : TableHere(k, e, i) /\ Table(k, e, i) = q
        BY DEF Placed
    <2>1. k.page[q][j] = m.page[q][j]
        BY <1>1, <1>2
    <2>2. Has(k.page[q][j], PR) /\ Has(k.page[q][j], US)
        BY <1>1, <1>2, <2>1 DEF Placed
    <2>3. PICK e \in D, i \in User : TableHere(m, e, i) /\ Table(m, e, i) = q
        BY <1>1, <1>2, <2>1 DEF Placed
    <2>4. e # d
        <3>1. SUFFICES ASSUME e = d
                       PROVE  FALSE
            OBVIOUS
        <3>2. k.page[q][j] = 0
            BY <2>3, <3>1 DEF Destroyed, Empty
        <3>3. At(0) \notin Private(m)
            <4>1. d \in PoolPage
                BY <1>1 DEF Owned
            <4> QED
                BY <4>1, PlainWords
        <3> QED
            BY <1>2, <3>2, <3>3
    <2>5. TableHere(k, e, i) /\ Table(k, e, i) = q
        <3>1. Same(m, k, e, i)
            BY <1>1, <2>4, Places
        <3> QED
            BY <2>3, <3>1, SameMeans DEF Shape
    <2> QED
        BY <2>2, <2>4, <2>5
<1>4. Blanked(k)
    BY <1>1, <1>2 DEF Blanked, Destroyed
<1>5. ASSUME NEW e \in D \ {d}, NEW u \in UserPage
      PROVE  Stays(m, k, e, u)
    <2>1. Same(m, k, e, u[1]) /\ u = <<u[1], u[2]>> /\ u[2] \in Index
        BY <1>1, PagePlaces
    <2>2. TableHere(k, e, u[1]) <=> TableHere(m, e, u[1])
        BY <2>1, SameMeans
    <2>3. TableHere(m, e, u[1]) => Entry(k, e, u) = Entry(m, e, u)
        <3>1. TableHere(m, e, u[1]) => \A j \in Index : Entry(k, e, <<u[1], j>>) = Entry(m, e, <<u[1], j>>)
            BY <2>1, SameMeans
        <3> QED
            BY <2>1, <3>1
    <2>4. ASSUME Holds(m, e, u)
          PROVE  k.data[At(Entry(m, e, u))] = m.data[At(Entry(m, e, u))]
        <3> DEFINE f == At(Entry(m, e, u))
        <3>1. f \in Frame
            BY <1>2, <2>4 DEF Holds
        <3>2. ASSUME NEW v \in UserPage, Mapped(m, d, v), Translate(m, d, v) = f
              PROVE  FALSE
            <4>1. TableHere(m, d, v[1]) /\ At(Entry(m, d, v)) = f
                BY <3>2 DEF Mapped, Translate
            <4> QED
                BY <2>4, <4>1, HeldOnce
        <3> HIDE DEF f
        <3> QED
            BY <3>1, <3>2 DEF Destroyed, f
    <2> QED
        BY <1>2, <2>2, <2>3, <2>4 DEF Stays, Holds, Seen
<1> QED
    BY <1>3, <1>4, <1>5 DEF Neat

-----------------------------------------------------------------------------
(***************************************************************************)
(* The memory of programs is as private as PrivateMem promises.            *)
(***************************************************************************)

OwnPages(m, d) == {v \in UserPage : Holds(m, d, v)}
Contents(m, d) == [v \in OwnPages(m, d) |-> Seen(m, d, v)]

\* The state of PrivateMem.
Life == IF Running(mem) THEN Alive ELSE {}
Views == [t \in Task |-> IF Running(mem) /\ ~Free(t) THEN View(t) ELSE [v \in {} |-> Junk]]

LEMMA ContentsStay ==
    ASSUME NEW m, NEW k, NEW d, \A u \in UserPage : Stays(m, k, d, u)
    PROVE  Contents(k, d) = Contents(m, d)
<1>1. OwnPages(k, d) = OwnPages(m, d) /\ \A u \in OwnPages(m, d) : Seen(k, d, u) = Seen(m, d, u)
    BY DEF OwnPages, Stays
<1> QED
    BY <1>1 DEF Contents

\* View is what a program holds: whatever names a page of its own is present, for the user.
LEMMA ViewMeans ==
    ASSUME NEW D, NEW m \in Mem, Owned(m, D), Placed(m, D), NEW d \in D
    PROVE  LET reach == {v \in UserPage : Mapped(m, d, v) /\ Has(Entry(m, d, v), US)}
               own == {v \in reach : Translate(m, d, v) \in Private(m)}
           IN  [v \in own |-> m.data[Translate(m, d, v)]] = Contents(m, d)
<1> DEFINE reach == {v \in UserPage : Mapped(m, d, v) /\ Has(Entry(m, d, v), US)}
           own == {v \in reach : Translate(m, d, v) \in Private(m)}
<1>1. own = OwnPages(m, d)
    <2>1. ASSUME NEW v \in own
          PROVE  v \in OwnPages(m, d)
        BY DEF OwnPages, Holds, Mapped, Translate
    <2>2. ASSUME NEW v \in OwnPages(m, d)
          PROVE  v \in own
        BY HoldsMapped DEF OwnPages, Holds
    <2> QED
        BY <2>1, <2>2
<1>2. ASSUME NEW v \in OwnPages(m, d)
      PROVE  m.data[Translate(m, d, v)] = Seen(m, d, v)
    BY HoldsMapped DEF OwnPages, Seen
<1> HIDE DEF own
<1>3. [v \in own |-> m.data[Translate(m, d, v)]] = Contents(m, d)
    BY <1>1, <1>2 DEF Contents
<1> QED
    BY <1>3 DEF own

LEMMA ViewsNow ==
    ASSUME ProgramsTidy, Running(mem)
    PROVE  /\ Life = Alive
           /\ Views = [t \in Task |-> IF t \in Alive THEN Contents(mem, space[t]) ELSE [v \in {} |-> Junk]]
<1>1. /\ mem \in Mem /\ Owned(mem, Spaces) /\ Placed(mem, Spaces)
      /\ \A t \in Alive : t \in Task /\ space[t] \in Spaces
    BY DEF ProgramsTidy, ProgramsInv, Safe, Good, Neat, Alive, Spaces
<1>2. ASSUME NEW t \in Alive
      PROVE  View(t) = Contents(mem, space[t])
    BY <1>1, ViewMeans DEF View, Reach
<1>3. \A t \in Task : ~Free(t) <=> t \in Alive
    BY DEF Alive
<1> QED
    BY <1>2, <1>3 DEF Life, Views

LEMMA ViewsNext ==
    ASSUME ProgramsInv', Running(mem'), Neat(mem', Spaces')
    PROVE  /\ Life' = Alive'
           /\ Views' = [t \in Task |-> IF t \in Alive' THEN Contents(mem', space'[t]) ELSE [v \in {} |-> Junk]]
<1>1. Safe(mem', Spaces')
    BY DEF ProgramsInv, Safe, Good, Owned, Closed, Agrees, Explained, Row, Mem, Running, TableHere, Table,
           Info, Count, Entry
<1>2. /\ mem' \in Mem /\ Owned(mem', Spaces') /\ Placed(mem', Spaces')
      /\ \A t \in Alive' : t \in Task /\ space'[t] \in Spaces'
    BY <1>1 DEF Safe, Good, Neat, Alive, Spaces
<1>3. ASSUME NEW t \in Alive'
      PROVE  View(t)' = Contents(mem', space'[t])
    <2> DEFINE d == space'[t]
    <2>1. d \in Spaces'
        BY <1>2
    <2>2. LET reach == {v \in UserPage : Mapped(mem', d, v) /\ Has(Entry(mem', d, v), US)}
              own == {v \in reach : Translate(mem', d, v) \in Private(mem')}
          IN  [v \in own |-> mem'.data[Translate(mem', d, v)]] = Contents(mem', d)
        <3> HIDE DEF d
        <3> QED
            BY <1>2, <2>1, ViewMeans
    <2> QED
        BY <2>2 DEF View, Reach, Mapped, Translate, Private, PoolFrames, Entry, Table, Count, Info, TableHere
<1>4. \A t \in Task : ~Free(t)' <=> t \in Alive'
    BY DEF Alive
<1> QED
    BY <1>3, <1>4 DEF Life, Views, Running

\* When the kernel has stopped, all programs have ended.
LEMMA ViewsStopped ==
    ASSUME ~Running(mem')
    PROVE  Life' = {} /\ Views' = [t \in Task |-> [v \in {} |-> Junk]]
BY DEF Life, Views, Running

LEMMA TidyNext ==
    ASSUME ProgramsInv', Running(mem') => Neat(mem', Spaces')
    PROVE  ProgramsTidy'
BY DEF ProgramsTidy, Neat, Placed, Blanked, Running, TableHere, Table, Count, Info, Private, PoolFrames

\* The actions of PrivateMem, of that state.
LEMMA StepsMean ==
    ASSUME NEW t \in Task, NEW c \in Task
    PROVE  /\ Abstract!Start(c) <=>
                /\ Life # {} /\ c \notin Life /\ Life' = Life \cup {c} /\ Views' = [Views EXCEPT ![c] = Views'[c]]
                /\ DOMAIN Views'[c] \subseteq UserPage /\ Abstract!Range(Views'[c]) \subseteq Program \cup {Junk}
           /\ Abstract!Copy(t, c) <=>
                /\ t \in Life /\ c \notin Life /\ Life' = Life \cup {c} /\ Views' = [Views EXCEPT ![c] = Views'[c]]
                /\ DOMAIN Views[t] \subseteq DOMAIN Views'[c] /\ DOMAIN Views'[c] \subseteq UserPage
                /\ \A v \in DOMAIN Views'[c] :
                       Views'[c][v] = IF v \in DOMAIN Views[t] THEN Views[t][v] ELSE Junk
           /\ Abstract!Replace(t) <=>
                /\ t \in Life /\ Life' = Life /\ Views' = [Views EXCEPT ![t] = Views'[t]]
                /\ DOMAIN Views[t] \subseteq DOMAIN Views'[t]
                /\ \A v \in DOMAIN Views'[t] :
                    \/ Views'[t][v] \in Program \cup {Junk}
                    \/ v \in DOMAIN Views[t] /\ Views'[t][v] = Views[t][v]
           /\ Abstract!End(t) <=>
                t \in Life /\ Life' = Life \ {t} /\ Views' = [Views EXCEPT ![t] = [v \in {} |-> Junk]]
           /\ Abstract!Halt <=> Life' = {} /\ Views' = [u \in Task |-> [v \in {} |-> Junk]]
           /\ \A v, x : Abstract!Write(t, v, x) <=>
                /\ t \in Life /\ v \in DOMAIN Views[t] /\ Views' = [Views EXCEPT ![t][v] = x]
                /\ Life' = Life
<1>1. Abstract!Blank = Junk
    BY DEF Abstract!Blank, Junk
<1>2. Abstract!Start(c) <=>
        /\ Life # {} /\ c \notin Life /\ Life' = Life \cup {c} /\ Views' = [Views EXCEPT ![c] = Views'[c]]
        /\ DOMAIN Views'[c] \subseteq UserPage /\ Abstract!Range(Views'[c]) \subseteq Program \cup {Junk}
    BY <1>1 DEF Abstract!Start, Abstract!Touches, Abstract!Fresh, Life, Views
<1>3. Abstract!Copy(t, c) <=>
        /\ t \in Life /\ c \notin Life /\ Life' = Life \cup {c} /\ Views' = [Views EXCEPT ![c] = Views'[c]]
        /\ DOMAIN Views[t] \subseteq DOMAIN Views'[c] /\ DOMAIN Views'[c] \subseteq UserPage
        /\ \A v \in DOMAIN Views'[c] :
               Views'[c][v] = IF v \in DOMAIN Views[t] THEN Views[t][v] ELSE Junk
    BY <1>1 DEF Abstract!Copy, Abstract!Touches, Life, Views
<1>4. Abstract!Replace(t) <=>
        /\ t \in Life /\ Life' = Life /\ Views' = [Views EXCEPT ![t] = Views'[t]]
        /\ DOMAIN Views[t] \subseteq DOMAIN Views'[t]
        /\ \A v \in DOMAIN Views'[t] :
            \/ Views'[t][v] \in Program \cup {Junk}
            \/ v \in DOMAIN Views[t] /\ Views'[t][v] = Views[t][v]
    BY <1>1 DEF Abstract!Replace, Abstract!Touches, Life, Views
<1>5. Abstract!End(t) <=>
        t \in Life /\ Life' = Life \ {t} /\ Views' = [Views EXCEPT ![t] = [v \in {} |-> Junk]]
    BY <1>1 DEF Abstract!End, Abstract!Nothing, Life, Views
<1>6. Abstract!Halt <=> Life' = {} /\ Views' = [u \in Task |-> [v \in {} |-> Junk]]
    BY <1>1 DEF Abstract!Halt, Abstract!Nothing, Life, Views
<1>7. ASSUME NEW v, NEW x
      PROVE  Abstract!Write(t, v, x) <=>
                /\ t \in Life /\ v \in DOMAIN Views[t] /\ Views' = [Views EXCEPT ![t][v] = x]
                /\ Life' = Life
    BY DEF Abstract!Write, Life, Views
<1> QED
    BY <1>2, <1>3, <1>4, <1>5, <1>6, <1>7

\* A task without a space gets one, and nobody else's pages change.
LEMMA ChildViews ==
    ASSUME ProgramsTidy, ProgramsInv', Running(mem), NEW c \in Task, Free(c), NEW d \in PoolPage \ Spaces,
           space' = [space EXCEPT ![c] = d], Running(mem'), Neat(mem', Spaces \cup {d}),
           \A e \in Spaces, u \in UserPage : Stays(mem, mem', e, u)
    PROVE  /\ Neat(mem', Spaces') /\ c \notin Life /\ Life' = Life \cup {c}
           /\ Views' = [Views EXCEPT ![c] = Contents(mem', d)]
           /\ \A t \in Life : t \in Task /\ Views[t] = Contents(mem, space[t])
<1>1. /\ space \in [Task -> PoolPage \cup {None}] /\ d # None /\ space[c] = None
      /\ \A t \in Alive : t \in Task /\ space[t] \in Spaces
    BY PoolSizes DEF ProgramsTidy, ProgramsInv, Free, Alive, Spaces
<1>2. space'[c] = d /\ \A u \in Task \ {c} : space'[u] = space[u]
    BY <1>1
<1>3. Alive' = Alive \cup {c} /\ c \notin Alive
    BY <1>1, <1>2 DEF Alive, Free
<1>4. Spaces' = Spaces \cup {d}
    <2>1. \A u \in Alive : u # c /\ u \in Task
        BY <1>3 DEF Alive
    <2>2. Spaces' = {MmKernel} \cup {space'[u] : u \in Alive \cup {c}}
        BY <1>3 DEF Spaces
    <2>3. Spaces = {MmKernel} \cup {space[u] : u \in Alive}
        BY DEF Spaces
    <2> QED
        BY <1>2, <2>1, <2>2, <2>3
<1>5. /\ Life = Alive
      /\ Views = [t \in Task |-> IF t \in Alive THEN Contents(mem, space[t]) ELSE [v \in {} |-> Junk]]
    BY ViewsNow
<1>6. /\ Life' = Alive'
      /\ Views' = [t \in Task |-> IF t \in Alive' THEN Contents(mem', space'[t]) ELSE [v \in {} |-> Junk]]
    BY <1>4, ViewsNext
<1>7. \A t \in Alive : t # c /\ Contents(mem', space'[t]) = Contents(mem, space[t])
    BY <1>1, <1>2, <1>3, ContentsStay
<1>8. Views' = [Views EXCEPT ![c] = Contents(mem', d)]
    BY <1>2, <1>3, <1>5, <1>6, <1>7
<1> QED
    BY <1>1, <1>3, <1>4, <1>5, <1>6, <1>8

\* The pages of one task change.
LEMMA TaskViews ==
    ASSUME ProgramsTidy, ProgramsInv', Running(mem), NEW t \in Task, ~Free(t),
           space' = space, Running(mem'), Neat(mem', Spaces),
           \A e \in Spaces, u \in UserPage : e # space[t] => Stays(mem, mem', e, u)
    PROVE  /\ Neat(mem', Spaces') /\ t \in Life /\ Life' = Life
           /\ Views[t] = Contents(mem, space[t])
           /\ Views' = [Views EXCEPT ![t] = Contents(mem', space[t])]
<1>1. /\ \A u \in Alive : u \in Task /\ space[u] \in Spaces /\ (space[u] = space[t] => u = t)
      /\ t \in Alive /\ Alive' = Alive /\ Spaces' = Spaces
    BY DEF ProgramsTidy, ProgramsInv, Free, Alive, Spaces
<1>2. /\ Life = Alive
      /\ Views = [u \in Task |-> IF u \in Alive THEN Contents(mem, space[u]) ELSE [v \in {} |-> Junk]]
    BY ViewsNow
<1>3. /\ Life' = Alive'
      /\ Views' = [u \in Task |-> IF u \in Alive' THEN Contents(mem', space'[u]) ELSE [v \in {} |-> Junk]]
    BY <1>1, ViewsNext
<1>4. \A u \in Alive : u # t => Contents(mem', space[u]) = Contents(mem, space[u])
    BY <1>1, ContentsStay
<1>5. Views' = [Views EXCEPT ![t] = Contents(mem', space[t])]
    BY <1>1, <1>2, <1>3, <1>4
<1> QED
    BY <1>1, <1>2, <1>3, <1>5

\* What every step of Programs is to PrivateMem.
Promised ==
    /\ Running(mem') => Neat(mem', Spaces')
    /\ Abstract!PrivateNext \/ (Life' = Life /\ Views' = Views)

LEMMA StoppedPromised ==
    ASSUME ~Running(mem')
    PROVE  Promised
<1>1. Life' = {} /\ Views' = [t \in Task |-> [v \in {} |-> Junk]]
    BY ViewsStopped
<1>2. CASE Task = {}
    <2>1. Life = {} /\ Views = [t \in Task |-> [v \in {} |-> Junk]]
        BY <1>2 DEF Life, Views, Alive
    <2> QED
        BY <1>1, <2>1 DEF Promised
<1>3. ASSUME NEW t \in Task
      PROVE  Promised
    <2>1. Abstract!Halt
        BY <1>1, StepsMean
    <2> QED
        BY <2>1 DEF Promised, Abstract!PrivateNext
<1> QED
    BY <1>2, <1>3

LEMMA SettledRuns ==
    ASSUME NEW m \in Mem, Running(Settled(m))
    PROVE  Running(m) /\ Settled(m) = m
BY DEF Settled, Running, Mem

LEMMA ForkPromised ==
    ASSUME ProgramsTidy, NEW t \in Task, NEW c \in Task, Fork(t, c)
    PROVE  Promised
<1> DEFINE n == CreateSpace(mem).mem
           d == CreateSpace(mem).space
           k == ForkSpace(n, d, space[t])
           x == IF Running(n) THEN k ELSE n
<1>1. CASE ~Running(mem')
    BY <1>1, StoppedPromised
<1>2. CASE Running(mem')
    <2>1. Runs(t) /\ Free(c) /\ mem' = Settled(x) /\ space' = IF Running(x) THEN [space EXCEPT ![c] = d] ELSE space
        BY DEF Fork, Child
    <2>2. /\ ProgramsInv /\ ProgramsInv' /\ Safe(mem, Spaces) /\ Running(mem) /\ Neat(mem, Spaces)
          /\ space[t] \in Spaces /\ t \in Alive
        BY <2>1, RunsIn, ForkInv DEF ProgramsTidy, ProgramsInv
    <2>3. mem \in Mem /\ Good(mem, Spaces)
        BY <2>2 DEF Safe
    <2> HIDE DEF n, d, k
    <2>4. /\ n \in Mem
          /\ Running(n) => NewSpace(n, Spaces, d) /\ \A i \in Kernel : n.page[d][i] = 0
        BY <2>2, <2>3, CreateSpaceMakes DEF n, d
    <2>5. Running(n) => k \in Mem
        <3>1. Running(n) => /\ Safe(CloneKernel(n, d, space[t]), Spaces \cup {d})
                            /\ d \in (Spaces \cup {d}) \ {MmKernel} /\ space[t] \in Spaces \cup {d}
            BY <2>2, <2>4, CloneKernelSafe, PoolSizes DEF NewSpace
        <3>2. Running(n) => Safe(k, Spaces \cup {d})
            BY <3>1, ForkSpaceSafe DEF k
        <3> QED
            BY <3>2 DEF Safe
    <2>6. x \in Mem /\ Running(x) /\ mem' = x
        BY <1>2, <2>1, <2>4, <2>5, SettledRuns
    <2>7. Running(n) /\ Running(k) /\ mem' = k /\ space' = [space EXCEPT ![c] = d]
        BY <2>1, <2>6
    <2> HIDE DEF x
    <2>8. Forked(mem, k, Spaces, d, space[t])
        BY <2>2, <2>7, ForkMakes DEF n, d, k
    <2>9. /\ Neat(mem', Spaces') /\ c \notin Life /\ Life' = Life \cup {c}
          /\ Views' = [Views EXCEPT ![c] = Contents(mem', d)]
          /\ \A u \in Life : u \in Task /\ Views[u] = Contents(mem, space[u])
        BY <2>1, <2>2, <2>4, <2>7, <2>8, ChildViews DEF Forked, NewSpace
    <2>10. t \in Life /\ Views[t] = Contents(mem, space[t]) /\ Views'[c] = Contents(k, d)
        <3>1. t \in Life
            BY <2>2 DEF Life
        <3>2. c \in DOMAIN Views
            BY DEF Views
        <3> QED
            BY <2>9, <2>7, <3>1, <3>2
    <2>11. /\ DOMAIN Contents(mem, space[t]) \subseteq DOMAIN Contents(k, d) /\ DOMAIN Contents(k, d) \subseteq UserPage
          /\ \A v \in DOMAIN Contents(k, d) : Contents(k, d)[v] =
                 IF v \in DOMAIN Contents(mem, space[t]) THEN Contents(mem, space[t])[v] ELSE Junk
        BY <2>8 DEF Forked, Contents, OwnPages
    <2>12. Abstract!Copy(t, c)
        <3>1. Views' = [Views EXCEPT ![c] = Views'[c]]
            BY <2>9, <2>10, <2>7
        <3>2. /\ DOMAIN Views[t] \subseteq DOMAIN Views'[c] /\ DOMAIN Views'[c] \subseteq UserPage
              /\ \A v \in DOMAIN Views'[c] : Views'[c][v] = IF v \in DOMAIN Views[t] THEN Views[t][v] ELSE Junk
            BY <2>10, <2>11
        <3> QED
            BY <2>9, <2>10, <3>1, <3>2, StepsMean
    <2> QED
        BY <2>9, <2>12 DEF Promised, Abstract!PrivateNext
<1> QED
    BY <1>1, <1>2

\* A program is loaded into a space only while the kernel runs.
LEMMA LoadedRuns ==
    ASSUME NEW m, NEW prog, Running(Loaded(m, prog).mem)
    PROVE  Running(m)
<1> DEFINE c == CreateSpace(m)
           x == Loaded(m, prog).mem
<1>1. SUFFICES ASSUME ~Running(m)
               PROVE  FALSE
    OBVIOUS
<1>2. PoolAlloc(m).mem = m
    BY <1>1, StoppedStays
<1>3. c.mem = m
    BY <1>1, <1>2 DEF CreateSpace
<1>4. ~Running(c.mem) => x = c.mem
    <2> HIDE DEF c
    <2> QED
        BY DEF Loaded, c
<1> HIDE DEF c
<1> QED
    BY <1>1, <1>3, <1>4

LEMMA FexecvePromised ==
    ASSUME ProgramsTidy, NEW t \in Task, NEW c \in Task, NEW prog \in Program, Fexecve(t, c, prog)
    PROVE  Promised
<1> DEFINE k == FromUser(mem, space[t], Stack)
           r == Loaded(k, prog)
<1>1. CASE ~Running(mem')
    BY <1>1, StoppedPromised
<1>2. CASE Running(mem')
    <2>1. Runs(t) /\ Free(c) /\ IF Running(k) THEN Child(c, r.mem, r.space) ELSE Child(c, k, None)
        BY DEF Fexecve
    <2>2. /\ ProgramsInv /\ ProgramsInv' /\ Safe(mem, Spaces) /\ Running(mem) /\ Neat(mem, Spaces)
          /\ space[t] \in Spaces /\ t \in Alive /\ Stack \in UserPage
        BY <2>1, RunsIn, FexecveInv DEF ProgramsTidy, ProgramsInv, Stack, UserPage, User, Index, InfoEntry
    <2>3. Safe(k, Spaces) /\ (Running(k) => Untouched(mem, k, Spaces))
        BY <2>2, FromUserSafe
    <2> HIDE DEF k
    <2>4. r.space \in PoolPage /\ Safe(r.mem, Spaces \cup {r.space}) /\ (Running(r.mem) => r.space \notin Spaces)
        BY <2>3, LoadedSafe
    <2> HIDE DEF r
    <2>5. k \in Mem /\ r.mem \in Mem
        BY <2>3, <2>4 DEF Safe
    <2>6. Running(k) /\ Running(r.mem) /\ mem' = r.mem /\ space' = [space EXCEPT ![c] = r.space]
        <3>1. Running(k)
            BY <1>2, <2>1, <2>5, SettledRuns DEF Child
        <3> QED
            BY <1>2, <2>1, <2>5, <3>1, SettledRuns DEF Child
    <2>7. Neat(k, Spaces) /\ \A e \in Spaces, u \in UserPage : Stays(mem, k, e, u)
        BY <2>2, <2>3, <2>6, UntouchedStays
    <2>8. Starts(k, r.mem, Spaces, r.space)
        BY <2>3, <2>6, <2>7, LoadedMakes DEF r
    <2>9. \A e \in Spaces, u \in UserPage : Stays(mem, r.mem, e, u)
        BY <2>7, <2>8, StaysTwice DEF Starts
    <2> DEFINE d == r.space
    <2>10. /\ Neat(mem', Spaces') /\ c \notin Life /\ Life' = Life \cup {c}
           /\ Views' = [Views EXCEPT ![c] = Contents(mem', d)]
        <3>1. d \in PoolPage \ Spaces /\ space' = [space EXCEPT ![c] = d] /\ Neat(mem', Spaces \cup {d})
            BY <2>4, <2>6, <2>8 DEF Starts
        <3> HIDE DEF d
        <3> QED
            BY <1>2, <2>1, <2>2, <2>6, <2>9, <3>1, ChildViews
    <2>11. Views'[c] = Contents(r.mem, d) /\ Life # {}
        <3>1. Life = Alive
            BY <2>2 DEF Life
        <3>2. c \in DOMAIN Views
            BY DEF Views
        <3> QED
            BY <2>2, <2>6, <2>10, <3>1, <3>2
    <2>12. DOMAIN Contents(r.mem, d) \subseteq UserPage /\ Abstract!Range(Contents(r.mem, d)) \subseteq Program \cup {Junk}
        BY <2>8 DEF Starts, Contents, OwnPages, Abstract!Range
    <2> HIDE DEF d
    <2>13. Abstract!Start(c)
        <3>1. Views' = [Views EXCEPT ![c] = Views'[c]]
            BY <2>6, <2>10, <2>11
        <3> QED
            BY <2>10, <2>11, <2>12, <3>1, StepsMean
    <2> QED
        BY <2>10, <2>13 DEF Promised, Abstract!PrivateNext
<1> QED
    BY <1>1, <1>2

LEMMA ExecvePromised ==
    ASSUME ProgramsTidy, NEW t \in Task, NEW prog \in Program, Execve(t, prog)
    PROVE  Promised
<1> DEFINE d == space[t]
           k == FromUser(mem, d, Stack)
           e == IF Running(k) THEN ElfLoad(k, d, prog) ELSE k
           x == IF Running(e) THEN ToUser(e, d, Stack, prog) ELSE e
<1>1. CASE ~Running(mem')
    BY <1>1, StoppedPromised
<1>2. CASE Running(mem')
    <2>1. Runs(t) /\ mem' = Settled(x) /\ space' = space
        BY DEF Execve, memVars
    <2>2. /\ ProgramsInv /\ ProgramsInv' /\ Safe(mem, Spaces) /\ Running(mem) /\ Neat(mem, Spaces)
          /\ d \in Spaces /\ d \in Spaces \ {MmKernel} /\ t \in Alive /\ Stack \in UserPage /\ prog \in Cell
          /\ ~Free(t)
        BY <2>1, RunsIn, ExecveInv DEF ProgramsTidy, ProgramsInv, Stack, UserPage, User, Index, InfoEntry, Cell, Alive
    <2>3. Safe(k, Spaces) /\ (Running(k) => Untouched(mem, k, Spaces))
        <3> HIDE DEF d
        <3> QED
            BY <2>2, FromUserSafe
    <2> HIDE DEF d, k
    <2>4. Safe(e, Spaces)
        BY <2>2, <2>3, ElfLoadSafe
    <2> HIDE DEF e
    <2>5. Safe(x, Spaces)
        BY <2>2, <2>4, ToUserSafe
    <2>6. Running(x) /\ mem' = x
        BY <1>2, <2>1, <2>5, SettledRuns DEF Safe
    <2>7. Running(e) /\ x = ToUser(e, d, Stack, prog)
        BY <2>6 DEF x
    <2>8. Running(k) /\ e = ElfLoad(k, d, prog)
        BY <2>7 DEF e
    <2> HIDE DEF x
    <2>9. Neat(k, Spaces) /\ \A f \in Spaces, u \in UserPage : Stays(mem, k, f, u)
        BY <2>2, <2>3, <2>8, UntouchedStays
    <2>10. Fills(k, e, Spaces, d)
        BY <2>2, <2>3, <2>7, <2>8, <2>9, ElfLoadMakes
    <2>11. Fills(k, x, Spaces, d)
        <3>1. Stores(e, x, Spaces, d, Stack, prog)
            BY <2>2, <2>4, <2>6, <2>7, <2>10, ToUserMakes DEF Fills
        <3> QED
            BY <2>2, <2>10, <3>1, FillsMore
    <2>12. Fills(mem, x, Spaces, d)
        <3>1. \A f \in Spaces, u \in UserPage : f # d => Stays(mem, x, f, u)
            BY <2>9, <2>11, StaysTwice DEF Fills
        <3>2. \A u \in UserPage : Stays(mem, k, d, u)
            BY <2>2, <2>9
        <3> QED
            BY <2>11, <3>1, <3>2 DEF Fills, Stays
    <2>13. /\ Neat(mem', Spaces') /\ t \in Life /\ Life' = Life
           /\ Views[t] = Contents(mem, d) /\ Views' = [Views EXCEPT ![t] = Contents(mem', d)]
        BY <1>2, <2>1, <2>2, <2>6, <2>12, TaskViews DEF Fills, d
    <2>14. Views'[t] = Contents(x, d)
        <3>1. t \in DOMAIN Views
            BY DEF Views
        <3> QED
            BY <2>6, <2>13, <3>1
    <2>15. /\ DOMAIN Contents(mem, d) \subseteq DOMAIN Contents(x, d)
           /\ \A v \in DOMAIN Contents(x, d) :
                \/ Contents(x, d)[v] \in Program \cup {Junk}
                \/ v \in DOMAIN Contents(mem, d) /\ Contents(x, d)[v] = Contents(mem, d)[v]
        BY <2>12 DEF Fills, Contents, OwnPages
    <2>16. Abstract!Replace(t)
        <3>1. Views' = [Views EXCEPT ![t] = Views'[t]]
            BY <2>6, <2>13, <2>14
        <3>2. /\ DOMAIN Views[t] \subseteq DOMAIN Views'[t]
              /\ \A v \in DOMAIN Views'[t] :
                    \/ Views'[t][v] \in Program \cup {Junk}
                    \/ v \in DOMAIN Views[t] /\ Views'[t][v] = Views[t][v]
            BY <2>13, <2>14, <2>15
        <3> QED
            BY <2>13, <3>1, <3>2, StepsMean
    <2> QED
        BY <2>13, <2>16 DEF Promised, Abstract!PrivateNext
<1> QED
    BY <1>1, <1>2

LEMMA StoresPromised ==
    ASSUME ProgramsTidy, NEW t \in Task, NEW v \in UserPage, NEW x \in Value,
           CallStores(t, v, x) \/ Writes(t, v, x)
    PROVE  Promised
<1> DEFINE d == space[t]
           k == IF CallStores(t, v, x) THEN ToUser(mem, d, v, x) ELSE Store(mem, At(Entry(mem, d, v)), x)
<1>1. CASE ~Running(mem')
    BY <1>1, StoppedPromised
<1>2. CASE Running(mem')
    <2>1. Runs(t) /\ mem' = Settled(k) /\ space' = space
        BY DEF CallStores, Writes
    <2>2. /\ ProgramsInv /\ ProgramsInv' /\ Safe(mem, Spaces) /\ Running(mem) /\ Neat(mem, Spaces)
          /\ d \in Spaces /\ t \in Alive /\ ~Free(t) /\ x \in Cell
        BY <2>1, RunsIn, StoresInv DEF ProgramsTidy, ProgramsInv, Cell, Alive
    <2>3. ~CallStores(t, v, x) => Mapped(mem, d, v)
        BY DEF Writes
    <2> HIDE DEF d
    <2>4. Safe(k, Spaces)
        BY <2>2, ToUserSafe, StoreSafe
    <2>5. Running(k) /\ mem' = k
        BY <1>2, <2>1, <2>4, SettledRuns DEF Safe
    <2>6. Stores(mem, k, Spaces, d, v, x)
        <3>1. CASE CallStores(t, v, x)
            BY <2>2, <2>5, <3>1, ToUserMakes
        <3>2. CASE ~CallStores(t, v, x)
            BY <2>2, <2>3, <2>5, <3>2, StoreMakes
        <3> QED
            BY <3>1, <3>2
    <2> HIDE DEF k
    <2>7. /\ Neat(mem', Spaces') /\ t \in Life /\ Life' = Life
          /\ Views[t] = Contents(mem, d) /\ Views' = [Views EXCEPT ![t] = Contents(mem', d)]
        BY <1>2, <2>1, <2>2, <2>5, <2>6, TaskViews DEF Stores, d
    <2>8. v \in DOMAIN Contents(mem, d) /\ Contents(mem', d) = [Contents(mem, d) EXCEPT ![v] = x]
        <3>1. \A u \in UserPage : u # v => Stays(mem, k, d, u)
            BY <2>2, <2>6 DEF Stores
        <3>2. OwnPages(k, d) = OwnPages(mem, d) /\ v \in OwnPages(mem, d)
            BY <2>6, <3>1 DEF Stores, Stays, OwnPages
        <3>3. \A u \in OwnPages(mem, d) : Seen(k, d, u) = IF u = v THEN x ELSE Seen(mem, d, u)
            BY <2>6, <3>1 DEF Stores, Stays, OwnPages
        <3> QED
            BY <2>5, <3>2, <3>3 DEF Contents
    <2>9. Abstract!Write(t, v, x)
        <3>1. Views' = [Views EXCEPT ![t][v] = x] /\ v \in DOMAIN Views[t]
            BY <2>7, <2>8
        <3> QED
            BY <2>7, <3>1, StepsMean
    <2> QED
        BY <2>7, <2>9 DEF Promised, Abstract!PrivateNext
<1> QED
    BY <1>1, <1>2

LEMMA ExitPromised ==
    ASSUME ProgramsTidy, NEW t \in Task, Exit(t)
    PROVE  Promised
<1> DEFINE d == space[t]
           k == Forgotten(DestroySpace(mem, d), d)
<1>1. Runs(t) /\ mem' = k /\ space' = [space EXCEPT ![t] = None]
    BY DEF Exit
<1>2. /\ ProgramsInv /\ ProgramsInv' /\ Safe(mem, Spaces) /\ Running(mem) /\ Neat(mem, Spaces)
      /\ d \in Spaces \ {MmKernel} /\ t \in Alive /\ space \in [Task -> PoolPage \cup {None}]
    BY <1>1, RunsIn, ExitInv DEF ProgramsTidy, ProgramsInv
<1>3. Running(k) /\ Destroyed(mem, k, Spaces, d)
    <2> HIDE DEF d
    <2> QED
        BY <1>2, DestroySafe
<1> HIDE DEF k
<1>4. Neat(k, Spaces \ {d}) /\ \A e \in Spaces \ {d}, u \in UserPage : Stays(mem, k, e, u)
    <2> HIDE DEF d
    <2> QED
        BY <1>2, <1>3, DestroyMakes DEF Safe
<1>5. space'[t] = None /\ \A u \in Task \ {t} : space'[u] = space[u]
    BY <1>1, <1>2
<1>6. Alive' = Alive \ {t} /\ \A u \in Alive : u \in Task /\ space[u] \in Spaces
    BY <1>5 DEF Alive, Free, Spaces
<1>7. \A u \in Alive \ {t} : u \in Task \ {t} /\ space[u] # d
    BY <1>2, <1>6 DEF ProgramsInv
<1>8. Spaces' = Spaces \ {d}
    <2>1. Spaces' = {MmKernel} \cup {space'[u] : u \in Alive \ {t}}
        BY <1>6 DEF Spaces
    <2>2. \A u \in Alive \ {t} : space'[u] = space[u]
        BY <1>5, <1>7
    <2>3. Spaces = {MmKernel} \cup {space[u] : u \in Alive}
        BY DEF Spaces
    <2>4. d # MmKernel
        BY <1>2
    <2> QED
        BY <1>7, <2>1, <2>2, <2>3, <2>4
<1>9. /\ Life = Alive
      /\ Views = [u \in Task |-> IF u \in Alive THEN Contents(mem, space[u]) ELSE [v \in {} |-> Junk]]
    BY <1>2, ViewsNow
<1>10. /\ Life' = Alive' /\ Neat(mem', Spaces')
       /\ Views' = [u \in Task |-> IF u \in Alive' THEN Contents(mem', space'[u]) ELSE [v \in {} |-> Junk]]
    BY <1>1, <1>2, <1>3, <1>4, <1>8, ViewsNext
<1>11. \A u \in Alive \ {t} : Contents(mem', space'[u]) = Contents(mem, space[u])
    BY <1>1, <1>4, <1>5, <1>6, <1>7, ContentsStay
<1>12. Views' = [Views EXCEPT ![t] = [v \in {} |-> Junk]]
    BY <1>6, <1>9, <1>10, <1>11
<1>13. Abstract!End(t)
    BY <1>2, <1>6, <1>9, <1>10, <1>12, StepsMean
<1> QED
    BY <1>10, <1>13 DEF Promised, Abstract!PrivateNext

LEMMA StandsPromised ==
    ASSUME ProgramsTidy, UNCHANGED memVars
    PROVE  Promised
<1>1. mem' = mem /\ space' = space
    BY DEF memVars
<1>2. Alive' = Alive /\ Spaces' = Spaces
    BY <1>1 DEF Alive, Free, Spaces
<1>3. Running(mem') => Neat(mem', Spaces')
    BY <1>1, <1>2 DEF ProgramsTidy
<1>4. Life' = Life
    BY <1>1, <1>2 DEF Life, Running
<1>5. Views' = Views
    BY <1>1 DEF Views, View, Reach, Free, Running, Mapped, Translate, Private, PoolFrames, Entry, Table, Count, Info, TableHere
<1> QED
    BY <1>3, <1>4, <1>5 DEF Promised

\* kernel_main: init's pages hold what its file says, or what memory held at first.
LEMMA BootPromised ==
    ASSUME ProgramsInit
    PROVE  ProgramsTidy /\ Abstract!PrivateInit
<1> DEFINE k == MapPage(MmInit, MmKernel, <<3, 0>>, 0, WR)
           r == Loaded(k, Initial)
           d == r.space
<1>1. ProgramsInv
    BY BootInv
<1>2. mem = r.mem /\ \E t \in Task : space = [u \in Task |-> IF u = t THEN d ELSE None]
    BY DEF ProgramsInit, Boot
<1>3. Safe(k, {MmKernel}) /\ (Running(k) => Unused(k)) /\ Initial \in Program
    BY DeviceSafe, ProgramsAssumption
<1> HIDE DEF k
<1>4. d \in PoolPage
    BY <1>3, LoadedSafe
<1>5. Running(k) => Neat(k, {MmKernel})
    BY <1>3, PageMemAssumption DEF Unused, Neat, Placed, Blanked, Private, Frame
<1>6. Running(mem) => Starts(k, mem, {MmKernel}, d)
    <2>1. SUFFICES ASSUME Running(r.mem)
                   PROVE  Starts(k, r.mem, {MmKernel}, d)
        BY <1>2
    <2>2. Running(k)
        BY <2>1, LoadedRuns
    <2> HIDE DEF r
    <2> QED
        BY <1>3, <1>5, <2>1, <2>2, LoadedMakes DEF r
<1> HIDE DEF r, d
<1>7. PICK t \in Task : space = [u \in Task |-> IF u = t THEN d ELSE None]
    BY <1>2
<1>8. Alive = {t} /\ space[t] = d /\ Spaces = {MmKernel} \cup {d}
    <2>1. d # None /\ space[t] = d /\ \A u \in Task \ {t} : space[u] = None
        BY <1>4, <1>7, PoolSizes
    <2>2. Alive = {t}
        BY <2>1 DEF Alive, Free
    <2> QED
        BY <2>1, <2>2 DEF Spaces
<1>9. ProgramsTidy
    BY <1>1, <1>6, <1>8 DEF ProgramsTidy, Starts
<1>10. CASE ~Running(mem)
    <2>1. Life = {} /\ Views = [u \in Task |-> [v \in {} |-> Junk]]
        BY <1>10 DEF Life, Views
    <2>2. /\ Life \in {{}, {t}} /\ DOMAIN Views = Task
          /\ \A u \in Task : IF u \in Life THEN Abstract!Fresh(Views[u]) ELSE Views[u] = Abstract!Nothing
        BY <2>1 DEF Abstract!Nothing, Abstract!Blank, Junk
    <2> QED
        BY <1>9, <2>2 DEF Abstract!PrivateInit, Life, Views
<1>11. CASE Running(mem)
    <2>1. /\ Life = {t}
          /\ Views = [u \in Task |-> IF u \in {t} THEN Contents(mem, space[u]) ELSE [v \in {} |-> Junk]]
        BY <1>8, <1>9, <1>11, ViewsNow
    <2>2. Views[t] = Contents(mem, d) /\ \A u \in Task : u # t => Views[u] = [v \in {} |-> Junk]
        BY <1>8, <2>1
    <2>3. Abstract!Fresh(Contents(mem, d))
        BY <1>6, <1>11 DEF Starts, Contents, OwnPages, Abstract!Fresh, Abstract!Range, Abstract!Blank, Junk
    <2>4. /\ Life \in {{}, {t}} /\ DOMAIN Views = Task
          /\ \A u \in Task : IF u \in Life THEN Abstract!Fresh(Views[u]) ELSE Views[u] = Abstract!Nothing
        BY <2>1, <2>2, <2>3 DEF Abstract!Nothing, Abstract!Blank, Junk
    <2> QED
        BY <1>9, <2>4 DEF Abstract!PrivateInit, Life, Views
<1> QED
    BY <1>10, <1>11

LEMMA StepPromised ==
    ASSUME ProgramsTidy, [ProgramsNext]_memVars
    PROVE  Promised
<1>1. ASSUME NEW t \in Task, NEW c \in Task, Fork(t, c)
      PROVE  Promised
    BY <1>1, ForkPromised
<1>2. ASSUME NEW t \in Task, NEW c \in Task, NEW prog \in Program, Fexecve(t, c, prog)
      PROVE  Promised
    BY <1>2, FexecvePromised
<1>3. ASSUME NEW t \in Task, Exit(t)
      PROVE  Promised
    BY <1>3, ExitPromised
<1>4. ASSUME NEW t \in Task, NEW prog \in Program, Execve(t, prog)
      PROVE  Promised
    BY <1>4, ExecvePromised
<1>5. ASSUME NEW t \in Task, NEW v \in Pointer, NEW x \in Value, CallStores(t, v, x) \/ Writes(t, v, x)
      PROVE  Promised
    BY <1>5, StoresPromised, ProgramsAssumption
<1>6. ASSUME UNCHANGED memVars
      PROVE  Promised
    BY <1>6, StandsPromised
<1>7. CASE Stopped
    BY <1>6, <1>7 DEF Stopped
<1> QED
    BY <1>1, <1>2, <1>3, <1>4, <1>5, <1>6, <1>7 DEF ProgramsNext

LEMMA TidyStep ==
    ASSUME ProgramsTidy, [ProgramsNext]_memVars
    PROVE  ProgramsTidy'
<1>1. ProgramsInv'
    BY ProgramsInvStep DEF ProgramsTidy
<1>2. Running(mem') => Neat(mem', Spaces')
    BY StepPromised DEF Promised
<1> QED
    BY <1>1, <1>2, TidyNext

\* Whatever fork, execve, exit and the programs' own stores have done to a
\* running kernel, an entry of a program's table that names one of its pages is
\* a present user entry, and a page that no table names holds what memory held
\* when the machine was switched on: x86_page_map_user clears nothing, and
\* mm_space_release gives no page back.
THEOREM ProgramsStayTidy == ProgramsSpec => []ProgramsTidy
<1>1. ProgramsInit => ProgramsTidy
    BY BootPromised
<1>2. ProgramsTidy /\ [ProgramsNext]_memVars => ProgramsTidy'
    BY TidyStep
<1> QED
    BY <1>1, <1>2, PTL DEF ProgramsSpec

\* The memory of a program is its own: mm_space_fork gives the child a copy of
\* every page of its parent, elf_load leaves in a program's pages only what its
\* file says, what was there before execve, or what memory held at first, and
\* no handler and no store of one program changes what another one finds.
THEOREM ProgramsArePrivate == ProgramsSpec => ImplementsPrivateMem
<1>1. ProgramsInit => Abstract!PrivateInit
    BY BootPromised
<1>2. ProgramsTidy /\ [ProgramsNext]_memVars => [Abstract!PrivateNext]_<<Life, Views>>
    BY StepPromised DEF Promised
<1> QED
    BY <1>1, <1>2, ProgramsStayTidy, PTL
    DEF ProgramsSpec, ImplementsPrivateMem, Abstract!PrivateSpec, Abstract!privateVars, Life, Views
=============================================================================
