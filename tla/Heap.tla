-------------------------------- MODULE Heap --------------------------------
(***************************************************************************)
(* The kernel heap (src/sys/heap.c): one region of memory that is cut into *)
(* blocks. A header lies in front of each block and links it to its        *)
(* neighbours. Memory is counted in words; a header takes H of them, and   *)
(* what lies in memory is a header where one was written and nobody has    *)
(* written over it since.                                                  *)
(*                                                                         *)
(* heap_realloc is not modelled: nothing in the kernel calls it.           *)
(***************************************************************************)
EXTENDS Integers, FiniteSets

CONSTANTS
    H,          \* sizeof(struct heap_block)
    Size,       \* the length of the region that hw_init adds
    Count,      \* the lengths that are allocated
    Module      \* where the initial ramdisk may lie: [start, len]

ASSUME HeapAssumption ==
    /\ H \in Nat \ {0}
    /\ Size \in Nat /\ Size > H
    /\ Count \subseteq Nat \ {0}
    /\ Module \subseteq [start : Nat, len : Nat \ {0}]

VARIABLES
    block,      \* the headers that lie in memory, by their address
    live,       \* what has been allocated and not freed: [at, len]
    module,     \* the ramdisk, or None before it was taken out of the heap
    halted      \* "invalid": heap_free has panicked

heapVars == <<block, live, module, halted>>

Null == -1
None == [start |-> 0, len |-> 0]
Base == 0
Data(b) == b + H

Header == [used : BOOLEAN, magic : BOOLEAN, size : Int, prev : Int, next : Int]

\* Two ranges of memory, [at, len], have a word in common.
Overlap(a, b) == a.at < b.at + b.len /\ b.at < a.at + a.len

Head(b)  == [at |-> b, len |-> H]
Body(b)  == [at |-> Data(b), len |-> block[b].size]
Block(a) == a.at - H
Owned(a) == [at |-> Block(a), len |-> H + a.len]

\* The blocks from the base on, along next.
Chain ==
    LET closed == {S \in SUBSET DOMAIN block :
                    /\ Base \in S
                    /\ \A b \in S : block[b].next \in S \cup {Null}}
    IN  {b \in DOMAIN block : \A S \in closed : b \in S}

\* No two allocations share memory, and no allocation or its header lies in a
\* free block or under another header. Where this has failed the programs
\* write over each other and over the heap, and anything may follow.
Intact ==
    LET chain == Chain IN
    \A a \in live :
        /\ \A c \in live : a # c => ~Overlap(Owned(a), Owned(c))
        /\ \A b \in chain :
            /\ b # Block(a) => ~Overlap(Owned(a), Head(b))
            /\ ~block[b].used => ~Overlap(Owned(a), Body(b))

Running == halted = "no" /\ Intact

-----------------------------------------------------------------------------
\* Headers that something has been written over are gone.
Written(m, range) == [b \in {c \in DOMAIN m : ~Overlap(Head(c), range)} |-> m[b]]

Put(m, b, h) ==
    LET w == Written(m, Head(b)) IN [c \in DOMAIN w \cup {b} |-> IF c = b THEN h ELSE w[c]]

Fits(count) == {b \in Chain : ~block[b].used /\ block[b].size >= count}

\* The block is large enough for another header behind the allocation.
Splits(b, count) == block[b].size >= count + H

\* Mutant: the rest of a block is one header longer than it is.
Rest_Long(b, count) ==
    [used |-> FALSE, magic |-> TRUE, size |-> block[b].size - count,
     prev |-> b, next |-> block[b].next]

\* The header of what is left behind an allocation.
Rest(b, count) ==
    [used |-> FALSE, magic |-> TRUE, size |-> block[b].size - count - H,
     prev |-> b, next |-> block[b].next]

\* heap_alloc: the first free block that is long enough is cut, or taken whole
\* and called as long as the allocation. The block behind the rest keeps its
\* prev. (If no block is long enough, NULL is returned and nothing changes.)
Alloc(count) ==
    /\ Running /\ Fits(count) # {}
    /\ LET b     == CHOOSE b \in Fits(count) : \A c \in Fits(count) : b <= c
           rest  == Data(b) + count
           taken == [block[b] EXCEPT !.used = TRUE, !.size = count]
       IN  /\ block' = Written(
                IF Splits(b, count)
                THEN Put(Put(block, rest, Rest(b, count)), b, [taken EXCEPT !.next = rest])
                ELSE Put(block, b, taken),
                [at |-> Data(b), len |-> count])
           /\ live' = live \cup {[at |-> Data(b), len |-> count]}
    /\ UNCHANGED <<module, halted>>

\* Block b takes in the one behind it.
Join(m, b) ==
    LET n == m[b].next
        f == m[n].next
        joined == [m EXCEPT ![b].size = @ + m[n].size + H, ![b].next = f, ![n].magic = FALSE]
    IN  IF f = Null THEN joined ELSE [joined EXCEPT ![f].prev = b]

\* The header that a link leads to is still there.
Lies(m, b) == b = Null \/ b \in DOMAIN m

FreeBlock(m, b) == b # Null /\ ~m[b].used

\* Block b and the one behind it, and the one behind that, are headers.
Joinable(m, b) == m[b].next \in DOMAIN m /\ Lies(m, m[m[b].next].next)

\* Mutant: a free block in front is not looked for.
JoinPrev_Never(m, b) == m

\* The block in front takes in what follows it, if it is free.
JoinPrev(m, b) == IF FreeBlock(m, m[b].prev) THEN Join(m, m[b].prev) ELSE m

JoinNext(m, b) == IF FreeBlock(m, m[b].next) THEN Join(m, b) ELSE m

\* Every header that heap_free goes through on its way is one.
Followable(m, b) ==
    /\ Lies(m, m[b].next) /\ Lies(m, m[b].prev)
    /\ FreeBlock(m, m[b].next) => Joinable(m, b)
    /\ FreeBlock(m, m[b].prev) => Joinable(JoinNext(m, b), m[b].prev)

\* heap_free: with its magic gone the pointer is invalid; else the block is
\* free, takes in a free block behind it and is taken in by one in front of it.
\* A link to a header that was written over can do anything.
Free(a) ==
    LET b == Block(a)
        m == [block EXCEPT ![b].used = FALSE]
        valid == block[b].magic /\ block[b].used
    IN  /\ Running /\ a \in live
        /\ \/ /\ ~valid
              /\ halted' = "invalid"
              /\ UNCHANGED <<block, live>>
           \/ /\ valid /\ ~Followable(m, b)
              /\ halted' = "wild"
              /\ UNCHANGED <<block, live>>
           \/ /\ valid /\ Followable(m, b)
              /\ block' = JoinPrev(JoinNext(m, b), b)
              /\ live' = live \ {a}
              /\ UNCHANGED halted
        /\ UNCHANGED module

\* heap_remove_region, called once, before anything is allocated, for the
\* ramdisk (hw_init). The lengths are unsigned: where the ramdisk does not lie well
\* inside the region they wrap around, or the base moves onto memory without
\* a header; those cases are outside the model.
RemoveRegion(r) ==
    LET alloced == r.start - H
        end     == r.start + r.len
    IN  /\ Running /\ DOMAIN block = {Base} /\ ~block[Base].used
        /\ r.start >= Base + 2 * H /\ end + H <= Base + block[Base].size
        /\ module' = r
        /\ block' = [b \in {Base, alloced, end} |->
             CASE b = Base ->
                    [block[Base] EXCEPT !.size = alloced - Base - H, !.next = alloced]
               [] b = alloced ->
                    [used |-> TRUE, magic |-> TRUE, size |-> r.len, prev |-> Base, next |-> end]
               [] b = end ->
                    [used |-> FALSE, magic |-> TRUE, size |-> block[Base].size - end - H,
                     prev |-> alloced, next |-> Null]]
        /\ UNCHANGED <<live, halted>>

-----------------------------------------------------------------------------
\* heap_add_region.
HeapInit ==
    /\ block = [b \in {Base} |-> [used |-> FALSE, magic |-> TRUE, size |-> Size - H,
                                  prev |-> Null, next |-> Null]]
    /\ live = {}
    /\ module = None
    /\ halted = "no"

Stopped == ~Running /\ UNCHANGED heapVars

HeapNext ==
    \/ \E count \in Count : Alloc(count)
    \/ \E a \in live : Free(a)
    \/ \E r \in Module : RemoveRegion(r)
    \/ Stopped

HeapSpec == HeapInit /\ [][HeapNext]_heapVars

-----------------------------------------------------------------------------
\* Every variable keeps its type.
HeapTypeOK ==
    /\ \A b \in DOMAIN block : b \in 0..Size - H /\ block[b] \in Header
    /\ live \subseteq [at : 0..Size, len : Count]
    /\ module \in Module \cup {None}
    /\ halted \in {"no", "invalid", "wild"}

\* The link back of a block does not lead to the one in front of it, and what
\* stands where it leads does not look used: heap_free goes that way.
Astray(b) ==
    LET p == block[b].prev
    IN  /\ p # Null
        /\ p \in DOMAIN block => ~block[p].used
        /\ ~(p \in Chain /\ block[p].next = b)

\* Every link back in the chain is true.
LinkedBack == \A b \in Chain : block[b].next # Null => block[block[b].next].prev = b

\* No free block follows another.
Coalesced ==
    \A b \in Chain : ~block[b].used /\ block[b].next # Null => block[block[b].next].used

InUse == {Body(b) : b \in {c \in Chain : block[c].used}}
Excluded == IF module = None THEN {} ELSE {[at |-> module.start, len |-> module.len]}

\* Every allocation is in the chain, and every block of the chain has its magic.
Whole == live \cup Excluded \subseteq InUse /\ \A b \in Chain : block[b].magic

\* The chain runs through the region in order, from its base to its end, and holds
\* the ramdisk; no block that nobody holds stays used. (An allocation can be lost
\* from the chain: see GoodUnlessAstray.)
ChainSound ==
    /\ HeapTypeOK
    /\ Running =>
        /\ \A b \in Chain :
            /\ block[b].size >= 0
            /\ Data(b) + block[b].size <= (IF block[b].next = Null THEN Size ELSE block[b].next)
        /\ Excluded \subseteq InUse /\ InUse \subseteq live \cup Excluded

\* Only a link back that is no longer true, followed, lets the heap go wrong: every
\* other step leaves no two allocations share memory, loses none from the chain and
\* accepts what is freed. While all links back are true, what frees leaves them
\* true and joins what can be joined. (An allocation that cuts a block may
\* leave the link back of the block behind it wrong.)
GoodUnlessAstray ==
    [][Running /\ Whole =>
        \/ \E a \in live : Astray(Block(a)) /\ Free(a)
        \/ /\ halted' = "no" /\ Intact' /\ Whole'
           /\ LinkedBack /\ live' \subseteq live => LinkedBack' /\ (Coalesced => Coalesced')]_heapVars

\* What the ramdisk was loaded into, and the header that keeps it out of the
\* heap, is never handed out.
ModuleKept ==
    Running /\ module # None =>
        \A a \in live : ~Overlap(Owned(a), [at |-> module.start - H, len |-> H + module.len])

\* heap_free takes back whatever was allocated: no pointer that heap_alloc has
\* returned is invalid.
FreeAccepts == halted # "invalid"
=============================================================================
