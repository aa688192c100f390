----------------------------- MODULE HeapProofs -----------------------------
(***************************************************************************)
(* Theorems about Heap for every region, every set of lengths and every    *)
(* place of the ramdisk: the chain runs through the region in order        *)
(* whatever heap_free does through links back that are no longer true, the *)
(* ramdisk is never handed out, and only such a link lets the heap go      *)
(* wrong.                                                                  *)
(***************************************************************************)
EXTENDS Heap, WellFoundedInduction, TLAPS

-----------------------------------------------------------------------------
(***************************************************************************)
(* The inductive invariant. It is about a memory m and the headers S of    *)
(* its chain, so that it can be followed through the steps of heap_free.   *)
(***************************************************************************)
ChainOf(m) ==
    LET closed == {S \in SUBSET DOMAIN m : Base \in S /\ \A b \in S : m[b].next \in S \cup {Null}}
    IN  {b \in DOMAIN m : \A S \in closed : b \in S}

\* Links lead forwards and links back lead backwards, also those of headers that are
\* no longer in the chain.
Headers(m) ==
    \A b \in DOMAIN m :
        /\ b \in 0..Size - H /\ m[b] \in Header
        /\ m[b].next = Null \/ m[b].next > b
        /\ m[b].prev >= Null /\ m[b].prev < b

Limit(m, b) == IF m[b].next = Null THEN Size ELSE m[b].next

\* The chain begins at the base, is linked, and leaves out none of its blocks.
GoodChain(m, S) ==
    /\ S \subseteq DOMAIN m /\ Base \in S
    /\ \A b \in S : m[b].next \in S \cup {Null}
    /\ \A b \in S \ {Base} : \E c \in S : m[c].next = b
    /\ \A b \in S : m[b].size >= 0 /\ Data(b) + m[b].size <= Limit(m, b)
    /\ \A b, c \in S : b < c => m[b].next # Null /\ m[b].next <= c

\* A set of headers that the links do not leave and in which no link jumps over b.
NoLinkOver(m, R, b) ==
    \A x \in R :
        /\ m[x].next \in DOMAIN m => m[x].next \in R
        /\ x < b => m[x].next # Null /\ m[x].next <= b

\* However wrong the link back of a block is: whoever follows the links from there
\* meets the block and does not jump over it.
Met(m, S, b) ==
    \E R \in SUBSET DOMAIN m :
        /\ S \subseteq R
        /\ m[b].prev \in DOMAIN m => m[b].prev \in R
        /\ NoLinkOver(m, R, b)

\* The header that keeps the ramdisk out of the heap.
Wall == module.start - H

\* The ramdisk is in the chain, and no link in either direction crosses it.
Sided(m, S) ==
    module # None =>
        /\ module \in Module /\ module.start >= 2 * H
        /\ Wall \in S /\ m[Wall].used /\ m[Wall].size = module.len
        /\ \A x \in DOMAIN m :
            /\ x < Wall => m[x].next # Null /\ m[x].next <= Wall
            /\ x > Wall => m[x].prev >= Wall

Memory(m, S) ==
    /\ Headers(m) /\ GoodChain(m, S) /\ Sided(m, S)
    /\ \A b \in S : m[b].magic => Met(m, S, b)

\* An allocation that was lost from the chain has lost its magic, so that it is never
\* freed; what is used in the chain is allocated, or is the ramdisk.
Held(m, S, l) ==
    /\ \A a \in l :
        /\ Block(a) \in DOMAIN m /\ m[Block(a)].used /\ m[Block(a)].size = a.len
        /\ Block(a) \notin S => ~m[Block(a)].magic
        /\ module # None => Block(a) # Wall
    /\ \A b \in S : m[b].used =>
        \/ [at |-> Data(b), len |-> m[b].size] \in l
        \/ module # None /\ b = Wall

\* No allocation lies where the ramdisk does.
ModuleApart ==
    module # None =>
        \A a \in live : ~Overlap(Owned(a), [at |-> Wall, len |-> H + module.len])

HeapInv ==
    /\ live \subseteq [at : 0..Size, len : Count]
    /\ module \in Module \cup {None}
    /\ halted \in {"no", "invalid", "wild"}
    /\ Memory(block, Chain) /\ Held(block, Chain, live) /\ ModuleApart

-----------------------------------------------------------------------------
(***************************************************************************)
(* The chain.                                                              *)
(***************************************************************************)
LEMMA LeastHeader ==
    ASSUME NEW T \in SUBSET Nat, T # {}
    PROVE  \E x \in T : \A y \in T : x <= y
<1> DEFINE R == {ss \in Nat \X Nat : ss[1] < ss[2]}
<1>1. R = OpToRel(<, Nat)
    BY DEF OpToRel
<1>2. IsWellFoundedOn(R, Nat)
    BY <1>1, NatLessThanWellFounded
<1>3. PICK x \in T : \A y \in T : ~(<<y, x>> \in R)
    BY <1>2, WFMin
<1>4. ASSUME NEW y \in T, y < x
      PROVE  FALSE
    <2>1. <<y, x>> \in Nat \X Nat /\ <<y, x>>[1] < <<y, x>>[2]
        BY <1>4
    <2>2. <<y, x>> \in R
        BY <2>1
    <2> QED
        BY <1>3, <2>2
<1> QED
    <2>1. T \subseteq Nat
        OBVIOUS
    <2> QED
        BY <1>4, <2>1

\* A good chain is the chain.
LEMMA ChainIs ==
    ASSUME NEW m, NEW S, Headers(m), GoodChain(m, S)
    PROVE  ChainOf(m) = S
<1> DEFINE closed == {T \in SUBSET DOMAIN m : Base \in T /\ \A b \in T : m[b].next \in T \cup {Null}}
<1>1. S \in closed
    BY DEF GoodChain
<1>2. ASSUME NEW T \in closed
      PROVE  S \subseteq T
    <2> SUFFICES ASSUME S \ T # {}
                 PROVE  FALSE
        OBVIOUS
    <2>1. S \subseteq Nat
        BY DEF GoodChain, Headers
    <2>2. PICK b \in S \ T : \A y \in S \ T : b <= y
        BY <2>1, LeastHeader
    <2>3. b # Base
        BY <1>2, <2>2
    <2>4. PICK c \in S : m[c].next = b
        BY <2>2, <2>3 DEF GoodChain
    <2>5. c < b /\ b # Null
        BY <2>1, <2>2, <2>4 DEF Headers, GoodChain, Null
    <2>6. c \in T
        BY <2>1, <2>2, <2>5
    <2> QED
        BY <1>2, <2>2, <2>4, <2>5, <2>6
<1> QED
    BY <1>1, <1>2 DEF ChainOf, GoodChain

LEMMA ChainIsOf == Chain = ChainOf(block)
BY DEF Chain, ChainOf

LEMMA ChainNextIsOf == Chain' = ChainOf(block')
BY DEF Chain, ChainOf

-----------------------------------------------------------------------------
(***************************************************************************)
(* Joining a block with the one behind it.                                 *)
(***************************************************************************)
\* What Join changes.
LEMMA JoinFields ==
    ASSUME NEW m, Headers(m), NEW q \in DOMAIN m, m[q].next \in DOMAIN m,
           Lies(m, m[m[q].next].next)
    PROVE  /\ DOMAIN Join(m, q) = DOMAIN m
           /\ \A x \in DOMAIN m : Join(m, q)[x] \in Header /\ Join(m, q)[x].used = m[x].used
           /\ \A x \in DOMAIN m \ {m[q].next} : Join(m, q)[x].magic = m[x].magic
           /\ ~Join(m, q)[m[q].next].magic
           /\ \A x \in DOMAIN m \ {q} :
                Join(m, q)[x].size = m[x].size /\ Join(m, q)[x].next = m[x].next
           /\ Join(m, q)[q].size = m[q].size + m[m[q].next].size + H
           /\ Join(m, q)[q].next = m[m[q].next].next
           /\ \A x \in DOMAIN m \ {m[m[q].next].next} : Join(m, q)[x].prev = m[x].prev
           /\ m[m[q].next].next # Null => Join(m, q)[m[m[q].next].next].prev = q
<1> DEFINE n == m[q].next
           f == m[n].next
           j == [m EXCEPT ![q].size = @ + m[n].size + H, ![q].next = f, ![n].magic = FALSE]
<1>1. /\ \A x \in DOMAIN m : x \in Int /\ m[x] \in Header
      /\ n # q /\ n # Null /\ f # q /\ f # n /\ H \in Int /\ Null \notin DOMAIN m
    BY HeapAssumption DEF Headers, Header, Null, Lies
<1>2. /\ DOMAIN j = DOMAIN m
      /\ \A x \in DOMAIN m : x \notin {q, n} => j[x] = m[x]
      /\ j[q] = [m[q] EXCEPT !.size = m[q].size + m[n].size + H, !.next = f]
      /\ j[n] = [m[n] EXCEPT !.magic = FALSE]
    BY <1>1
<1>3. /\ m[q].size + m[n].size + H \in Int /\ f \in Int
      /\ n \in DOMAIN m /\ q \in Int
    BY <1>1 DEF Header
<1>4. CASE f = Null
    <2>1. Join(m, q) = j
        BY <1>4 DEF Join
    <2>2. f \notin DOMAIN m
        BY <1>1, <1>4
    <2> HIDE DEF n, f, j
    <2> SUFFICES ASSUME NEW x \in DOMAIN m
                 PROVE  /\ j[x] \in Header
                        /\ j[x].used = m[x].used
                        /\ x # n => j[x].magic = m[x].magic
                        /\ x = n => ~j[x].magic
                        /\ x # q => j[x].size = m[x].size /\ j[x].next = m[x].next
                        /\ x = q => j[x].size = m[q].size + m[n].size + H /\ j[x].next = f
                        /\ x # f => j[x].prev = m[x].prev
                        /\ x = f => j[x].prev = q
        BY <1>2, <1>3, <1>4, <2>1 DEF n, f
    <2>3. CASE x = q
        BY <1>1, <1>2, <1>3, <2>2, <2>3 DEF Header
    <2>4. CASE x = n
        BY <1>1, <1>2, <2>2, <2>4 DEF Header
    <2>5. CASE x \notin {q, n}
        BY <1>1, <1>2, <2>2, <2>5
    <2> QED
        BY <2>3, <2>4, <2>5
<1>5. CASE f # Null
    <2>1. Join(m, q) = [j EXCEPT ![f].prev = q]
        BY <1>5 DEF Join
    <2>2. f \in DOMAIN m
        BY <1>5 DEF Lies
    <2> DEFINE k == [j EXCEPT ![f].prev = q]
    <2>3. /\ DOMAIN k = DOMAIN m
          /\ \A x \in DOMAIN m : x \notin {q, n, f} => k[x] = m[x]
          /\ k[q] = [m[q] EXCEPT !.size = m[q].size + m[n].size + H, !.next = f]
          /\ k[n] = [m[n] EXCEPT !.magic = FALSE]
          /\ k[f] = [m[f] EXCEPT !.prev = q]
        BY <1>1, <1>2, <2>2
    <2> HIDE DEF n, f, j, k
    <2> SUFFICES ASSUME NEW x \in DOMAIN m
                 PROVE  /\ k[x] \in Header
                        /\ k[x].used = m[x].used
                        /\ x # n => k[x].magic = m[x].magic
                        /\ x = n => ~k[x].magic
                        /\ x # q => k[x].size = m[x].size /\ k[x].next = m[x].next
                        /\ x = q => k[x].size = m[q].size + m[n].size + H /\ k[x].next = f
                        /\ x # f => k[x].prev = m[x].prev
                        /\ x = f => k[x].prev = q
        BY <1>3, <2>1, <2>2, <2>3 DEF n, f, k
    <2>4. CASE x = q
        BY <1>1, <1>3, <2>3, <2>4 DEF Header
    <2>5. CASE x = n
        BY <1>1, <2>3, <2>5 DEF Header
    <2>6. CASE x = f
        BY <1>1, <1>3, <2>3, <2>6 DEF Header
    <2>7. CASE x \notin {q, n, f}
        BY <1>1, <2>3, <2>7
    <2> QED
        BY <2>4, <2>5, <2>6, <2>7
<1> QED
    BY <1>4, <1>5

\* The chain without the block that Join(m, q) takes in, if q is in the chain: a stray q
\* changes none of its links.
Joined(m, S, q) == IF q \in S THEN S \ {m[q].next} ELSE S

\* Join keeps a sound memory sound, wherever its block lies.
LEMMA JoinMemory ==
    ASSUME NEW m, NEW S, Memory(m, S), NEW q \in DOMAIN m, m[q].next \in DOMAIN m,
           Lies(m, m[m[q].next].next), module # None => Wall \notin {q, m[q].next}
    PROVE  Memory(Join(m, q), Joined(m, S, q))
<1> DEFINE n == m[q].next
           f == m[n].next
           j == Join(m, q)
           T == Joined(m, S, q)
<1>1. /\ DOMAIN j = DOMAIN m
      /\ \A x \in DOMAIN m : j[x] \in Header /\ j[x].used = m[x].used
      /\ \A x \in DOMAIN m \ {n} : j[x].magic = m[x].magic
      /\ ~j[n].magic
      /\ \A x \in DOMAIN m \ {q} : j[x].size = m[x].size /\ j[x].next = m[x].next
      /\ j[q].size = m[q].size + m[n].size + H /\ j[q].next = f
      /\ \A x \in DOMAIN m \ {f} : j[x].prev = m[x].prev
      /\ f # Null => j[f].prev = q
    <2>1. Headers(m)
        BY DEF Memory
    <2> QED
        BY <2>1, JoinFields
<1>2. /\ \A x \in DOMAIN m : x \in 0..Size - H /\ x \in Int /\ m[x] \in Header
      /\ \A x \in DOMAIN m : m[x].next = Null \/ m[x].next > x
      /\ \A x \in DOMAIN m : m[x].prev >= Null /\ m[x].prev < x
      /\ \A x \in DOMAIN m : m[x].size \in Int /\ m[x].next \in Int /\ m[x].prev \in Int
      /\ n \in DOMAIN m /\ n # Null /\ n > q /\ (f = Null \/ (f \in DOMAIN m /\ f > n))
      /\ H \in Int /\ H > 0 /\ Size \in Int /\ Null = -1
      /\ S \subseteq DOMAIN m /\ T \subseteq S
    BY HeapAssumption DEF Memory, Headers, Header, GoodChain, Lies, Null, Joined
<1> HIDE DEF n, f, j
<1>3. Headers(j)
    BY <1>1, <1>2 DEF Headers
<1>4. ASSUME q \in S
      PROVE  GoodChain(j, T)
    <2>1. T = S \ {n} /\ n \in S /\ f \in S \cup {Null}
        BY <1>2, <1>4 DEF Joined, Memory, GoodChain, n, f
    <2>2. T \subseteq DOMAIN j /\ Base \in T
        BY <1>1, <1>2, <2>1 DEF Memory, GoodChain, Base, Headers
    <2>3. ASSUME NEW b \in T
          PROVE  j[b].next \in T \cup {Null}
        <3>1. CASE b = q
            BY <1>1, <1>2, <1>4, <2>1, <3>1
        <3>2. CASE b # q
            <4>1. m[b].next \in S \cup {Null} /\ j[b].next = m[b].next
                BY <1>1, <1>2, <3>2 DEF Memory, GoodChain
            <4>2. b < q => m[b].next # Null /\ m[b].next <= q
                BY <1>2, <1>4 DEF Memory, GoodChain
            <4>3. q < b => n <= b
                BY <1>2, <1>4 DEF Memory, GoodChain, n
            <4>4. m[b].next # n
                BY <1>2, <2>1, <3>2, <4>1, <4>2, <4>3
            <4> QED
                BY <2>1, <4>1, <4>4
        <3> QED
            BY <3>1, <3>2
    <2>4. ASSUME NEW b \in T \ {Base}
          PROVE  \E c \in T : j[c].next = b
        <3>1. PICK c \in S : m[c].next = b
            BY <1>2, <2>1 DEF Memory, GoodChain
        <3>2. CASE c = n
            BY <1>1, <1>2, <1>4, <2>1, <3>1, <3>2 DEF f
        <3>3. CASE c # n
            BY <1>1, <1>2, <1>4, <2>1, <3>1, <3>3 DEF n
        <3> QED
            BY <3>2, <3>3
    <2>5. ASSUME NEW b \in T
          PROVE  j[b].size >= 0 /\ Data(b) + j[b].size <= Limit(j, b)
        <3>1. CASE b = q
            <4>1. /\ m[q].size >= 0 /\ q + H + m[q].size <= n
                  /\ m[n].size >= 0 /\ n + H + m[n].size <= (IF f = Null THEN Size ELSE f)
                BY <1>2, <1>4, <2>1 DEF Memory, GoodChain, Limit, Data, n, f
            <4> QED
                BY <1>1, <1>2, <3>1, <4>1 DEF Limit, Data
        <3>2. CASE b # q
            BY <1>1, <1>2, <3>2 DEF Memory, GoodChain, Limit, Data
        <3> QED
            BY <3>1, <3>2
    <2>6. ASSUME NEW b \in T, NEW c \in T, b < c
          PROVE  j[b].next # Null /\ j[b].next <= c
        <3>1. m[b].next # Null /\ m[b].next <= c
            BY <1>2, <2>6 DEF Memory, GoodChain
        <3>2. CASE b = q
            <4>1. n < c
                BY <1>2, <2>1, <3>1, <3>2 DEF n
            <4>2. f # Null /\ f <= c
                BY <1>2, <2>1, <4>1 DEF Memory, GoodChain, f
            <4> QED
                BY <1>1, <3>2, <4>2
        <3>3. CASE b # q
            BY <1>1, <1>2, <3>1, <3>3
        <3> QED
            BY <3>2, <3>3
    <2> QED
        BY <2>2, <2>3, <2>4, <2>5, <2>6 DEF GoodChain
<1>5. ASSUME q \notin S
      PROVE  GoodChain(j, T)
    <2>1. T = S /\ \A b \in S : j[b].next = m[b].next /\ j[b].size = m[b].size
        BY <1>1, <1>2, <1>5 DEF Joined
    <2> QED
        BY <1>1, <2>1 DEF Memory, GoodChain, Limit
<1>6. Sided(j, T)
    <2> SUFFICES ASSUME module # None
                 PROVE  Sided(j, T)
        BY DEF Sided
    <2>1. /\ module \in Module /\ module.start >= 2 * H
          /\ Wall \in S /\ m[Wall].used /\ m[Wall].size = module.len
          /\ \A x \in DOMAIN m : x < Wall => m[x].next # Null /\ m[x].next <= Wall
          /\ \A x \in DOMAIN m : x > Wall => m[x].prev >= Wall
        BY DEF Memory, Sided
    <2>2. Wall # q /\ Wall # n /\ Wall \in T /\ Wall \in Int
        BY <1>2, <2>1 DEF Joined, n
    <2>3. j[Wall].used /\ j[Wall].size = module.len
        BY <1>1, <1>2, <2>1, <2>2
    <2>4. q < Wall => n < Wall /\ f # Null /\ f <= Wall
        BY <1>2, <2>1, <2>2 DEF n, f
    <2>5. ASSUME NEW x \in DOMAIN j
          PROVE  /\ x < Wall => j[x].next # Null /\ j[x].next <= Wall
                 /\ x > Wall => j[x].prev >= Wall
        BY <1>1, <1>2, <2>1, <2>2, <2>4
    <2> QED
        BY <2>1, <2>2, <2>3, <2>5 DEF Sided
<1>7. ASSUME NEW b \in T, j[b].magic
      PROVE  Met(j, T, b)
    <2>1. b \in S /\ m[b].magic /\ b # n /\ b \in DOMAIN m
        BY <1>1, <1>2, <1>7
    <2>2. PICK R \in SUBSET DOMAIN m :
                /\ S \subseteq R
                /\ m[b].prev \in DOMAIN m => m[b].prev \in R
                /\ NoLinkOver(m, R, b)
        BY <2>1 DEF Memory, Met
    <2>3. /\ \A x \in R : m[x].next \in DOMAIN m => m[x].next \in R
          /\ \A x \in R : x < b => m[x].next # Null /\ m[x].next <= b
        BY <2>2 DEF NoLinkOver
    <2> DEFINE Q == IF b = f THEN R \cup {q} ELSE R
    <2>4. Q \in SUBSET DOMAIN j /\ T \subseteq Q
        BY <1>1, <1>2, <2>2
    <2>5. j[b].prev \in DOMAIN j => j[b].prev \in Q
        BY <1>1, <1>2, <2>1, <2>2
    <2>6. ASSUME NEW x \in Q
          PROVE  /\ j[x].next \in DOMAIN j => j[x].next \in Q
                 /\ x < b => j[x].next # Null /\ j[x].next <= b
        <3>1. CASE x = q /\ b = f
            BY <1>1, <1>2, <2>1, <2>2, <3>1
        <3>2. CASE x = q /\ b # f
            <4>1. q \in R /\ n \in R
                BY <1>2, <2>3, <3>2 DEF n
            <4>2. f \in DOMAIN m => f \in R
                BY <2>3, <4>1 DEF f
            <4>3. q < b => n < b
                BY <1>2, <2>1, <2>3, <4>1 DEF n
            <4>4. q < b => f # Null /\ f <= b
                BY <2>3, <4>1, <4>3 DEF f
            <4> QED
                BY <1>1, <3>2, <4>2, <4>4
        <3>3. CASE x # q
            BY <1>1, <2>2, <2>3, <3>3
        <3> QED
            BY <3>1, <3>2, <3>3
    <2>7. NoLinkOver(j, Q, b)
        BY <2>6 DEF NoLinkOver
    <2> QED
        BY <2>4, <2>5, <2>7 DEF Met
<1> QED
    BY <1>3, <1>4, <1>5, <1>6, <1>7 DEF Memory, j

\* What is allocated stays held when a free block is joined with the one behind it:
\* an allocation that is taken in loses its magic.
LEMMA JoinHeld ==
    ASSUME NEW m, NEW S, Memory(m, S), NEW l, Held(m, S, l),
           NEW q \in DOMAIN m, ~m[q].used, m[q].next \in DOMAIN m,
           Lies(m, m[m[q].next].next)
    PROVE  Held(Join(m, q), Joined(m, S, q), l)
<1> DEFINE n == m[q].next
           j == Join(m, q)
           T == Joined(m, S, q)
<1>1. /\ DOMAIN j = DOMAIN m
      /\ \A x \in DOMAIN m : j[x].used = m[x].used
      /\ \A x \in DOMAIN m \ {n} : j[x].magic = m[x].magic
      /\ ~j[n].magic
      /\ \A x \in DOMAIN m \ {q} : j[x].size = m[x].size
    <2>1. Headers(m)
        BY DEF Memory
    <2> QED
        BY <2>1, JoinFields
<1>2. T \subseteq S /\ S \subseteq DOMAIN m /\ (S \ T) \subseteq {n}
    BY DEF Joined, Memory, GoodChain
<1> HIDE DEF n, j, T
<1>3. ASSUME NEW a \in l
      PROVE  /\ Block(a) \in DOMAIN j /\ j[Block(a)].used /\ j[Block(a)].size = a.len
             /\ Block(a) \notin T => ~j[Block(a)].magic
             /\ module # None => Block(a) # Wall
    <2>1. /\ Block(a) \in DOMAIN m /\ m[Block(a)].used /\ m[Block(a)].size = a.len
          /\ Block(a) \notin S => ~m[Block(a)].magic
          /\ module # None => Block(a) # Wall
        BY DEF Held
    <2>2. Block(a) # q
        BY <2>1
    <2> QED
        BY <1>1, <1>2, <2>1, <2>2
<1>4. ASSUME NEW b \in T, j[b].used
      PROVE  \/ [at |-> Data(b), len |-> j[b].size] \in l
             \/ module # None /\ b = Wall
    <2>1. b \in S /\ m[b].used /\ b # q /\ j[b].size = m[b].size
        BY <1>1, <1>2, <1>4
    <2> QED
        BY <2>1 DEF Held
<1> QED
    BY <1>3, <1>4 DEF Held, j, T

\* Of the ramdisk's header and a block that is not used.
LEMMA NotWall ==
    ASSUME NEW m, NEW S, Memory(m, S), NEW b \in DOMAIN m, ~m[b].used
    PROVE  module # None => b # Wall
BY DEF Memory, Sided

-----------------------------------------------------------------------------
(***************************************************************************)
(* heap_free.                                                              *)
(***************************************************************************)
NextChain(m, S, b) == IF FreeBlock(m, m[b].next) THEN S \ {m[b].next} ELSE S
PrevChain(m, S, b) == IF FreeBlock(m, m[b].prev) THEN Joined(m, S, m[b].prev) ELSE S

\* The block takes in a free one behind it.
LEMMA NextStep ==
    ASSUME NEW m, NEW S, Memory(m, S), NEW l, Held(m, S, l), NEW b \in S, ~m[b].used,
           NEW k, k = JoinNext(m, b)
    PROVE  /\ Memory(k, NextChain(m, S, b)) /\ Held(k, NextChain(m, S, b), l)
           /\ DOMAIN k = DOMAIN m /\ b \in NextChain(m, S, b)
           /\ \A x \in DOMAIN m : k[x].used <=> m[x].used
           /\ (k[b].magic <=> m[b].magic) /\ k[b].prev = m[b].prev
<1>1. /\ b \in DOMAIN m /\ m[b].next \in S \cup {Null}
      /\ m[b].next = Null \/ (m[b].next > b /\ m[b].next \in DOMAIN m)
      /\ b \in Int /\ Headers(m) /\ S \subseteq DOMAIN m
    BY HeapAssumption DEF Memory, GoodChain, Headers
<1>2. CASE ~FreeBlock(m, m[b].next)
    BY <1>1, <1>2 DEF JoinNext, NextChain
<1>3. CASE FreeBlock(m, m[b].next)
    <2> DEFINE n == m[b].next
               f == m[n].next
    <2>1. n \in S /\ n \in DOMAIN m /\ n # b /\ ~m[n].used
        BY <1>1, <1>3 DEF FreeBlock
    <2>2. Lies(m, f) /\ f # b
        BY <1>1, <2>1, HeapAssumption DEF Memory, GoodChain, Lies, Headers, Null
    <2>3. k = Join(m, b) /\ NextChain(m, S, b) = Joined(m, S, b)
        BY <1>3 DEF JoinNext, NextChain, Joined
    <2>4. module # None => Wall \notin {b, n}
        BY <1>1, <2>1, NotWall
    <2>5. Memory(k, NextChain(m, S, b))
        BY <1>1, <2>1, <2>2, <2>3, <2>4, JoinMemory
    <2>6. Held(k, NextChain(m, S, b), l)
        BY <1>1, <2>1, <2>2, <2>3, JoinHeld
    <2>7. /\ DOMAIN k = DOMAIN m
          /\ \A x \in DOMAIN m : k[x].used = m[x].used
          /\ \A x \in DOMAIN m \ {n} : k[x].magic = m[x].magic
          /\ \A x \in DOMAIN m \ {f} : k[x].prev = m[x].prev
        BY <1>1, <2>1, <2>2, <2>3, JoinFields
    <2> QED
        BY <1>1, <1>3, <2>1, <2>2, <2>5, <2>6, <2>7 DEF NextChain
<1> QED
    BY <1>2, <1>3

\* The block in front, or what the link back leads to, takes it in.
LEMMA PrevStep ==
    ASSUME NEW m, NEW S, Memory(m, S), NEW l, Held(m, S, l), NEW b \in S, ~m[b].used, m[b].magic,
           FreeBlock(m, m[b].prev) => m[b].prev \in DOMAIN m /\ Joinable(m, m[b].prev),
           NEW k, k = JoinPrev(m, b)
    PROVE  Memory(k, PrevChain(m, S, b)) /\ Held(k, PrevChain(m, S, b), l)
<1>1. CASE ~FreeBlock(m, m[b].prev)
    BY <1>1 DEF JoinPrev, PrevChain
<1>2. CASE FreeBlock(m, m[b].prev)
    <2> DEFINE p == m[b].prev
               n == m[p].next
    <2>1. /\ p \in DOMAIN m /\ n \in DOMAIN m /\ Lies(m, m[n].next) /\ ~m[p].used
          /\ k = Join(m, p) /\ PrevChain(m, S, b) = Joined(m, S, p)
        BY <1>2 DEF Joinable, FreeBlock, JoinPrev, PrevChain
    <2>2. /\ b \in DOMAIN m /\ b \in Int /\ p \in Int /\ p < b /\ n > p /\ n \in Int
        BY <2>1, HeapAssumption DEF Memory, GoodChain, Headers, Null
    <2>3. n <= b
        <3>1. PICK R \in SUBSET DOMAIN m :
                    /\ S \subseteq R
                    /\ m[b].prev \in DOMAIN m => m[b].prev \in R
                    /\ NoLinkOver(m, R, b)
            BY DEF Memory, Met
        <3> QED
            BY <2>1, <2>2, <3>1 DEF NoLinkOver
    <2>4. module # None => Wall \notin {p, n}
        <3>1. SUFFICES ASSUME module # None
                       PROVE  Wall # p /\ Wall # n
            OBVIOUS
        <3>2. Wall # p /\ Wall # b /\ Wall \in Int
            BY <2>1, <2>2, <3>1, NotWall DEF Memory, Sided, GoodChain, Headers
        <3>3. b > Wall => p >= Wall
            BY <2>2, <3>1 DEF Memory, Sided
        <3> QED
            BY <2>2, <2>3, <3>2, <3>3
    <2> QED
        BY <2>1, <2>4, JoinMemory, JoinHeld
<1> QED
    BY <1>1, <1>2

Freed(b) == [block EXCEPT ![b].used = FALSE]

\* The allocation is given up: nothing else changes, and it was in the chain.
LEMMA FreedMemory ==
    ASSUME HeapInv, NEW a \in live, block[Block(a)].magic
    PROVE  /\ Block(a) \in Chain /\ ~Freed(Block(a))[Block(a)].used
           /\ DOMAIN Freed(Block(a)) = DOMAIN block
           /\ \A x \in DOMAIN block \ {Block(a)} : Freed(Block(a))[x] = block[x]
           /\ /\ Freed(Block(a))[Block(a)].magic = block[Block(a)].magic
              /\ Freed(Block(a))[Block(a)].prev = block[Block(a)].prev
              /\ Freed(Block(a))[Block(a)].next = block[Block(a)].next
           /\ Memory(Freed(Block(a)), Chain) /\ Held(Freed(Block(a)), Chain, live \ {a})
<1> DEFINE b == Block(a)
           m == Freed(b)
           S == Chain
<1>1. /\ b \in DOMAIN block /\ block[b].used /\ block[b].size = a.len /\ b \in S
      /\ module # None => b # Wall
      /\ S \subseteq DOMAIN block /\ b \in Int
    BY HeapAssumption DEF HeapInv, Held, Memory, GoodChain, Headers
<1>2. /\ DOMAIN m = DOMAIN block
      /\ \A x \in DOMAIN block \ {b} : m[x] = block[x]
      /\ m[b] = [block[b] EXCEPT !.used = FALSE]
    BY <1>1 DEF Freed
<1>3. /\ ~m[b].used /\ m[b].magic = block[b].magic /\ m[b].size = block[b].size
      /\ m[b].prev = block[b].prev /\ m[b].next = block[b].next /\ m[b] \in Header
    <2>1. block[b] \in Header
        BY <1>1 DEF HeapInv, Memory, Headers
    <2> QED
        BY <1>2, <2>1 DEF Header
<1>4. \A x \in DOMAIN block :
        /\ m[x].magic = block[x].magic /\ m[x].size = block[x].size
        /\ m[x].prev = block[x].prev /\ m[x].next = block[x].next /\ m[x] \in Header
    BY <1>2, <1>3 DEF HeapInv, Memory, Headers
<1> HIDE DEF b, m, S
<1>5. Headers(m)
    BY <1>2, <1>4 DEF HeapInv, Memory, Headers
<1>6. GoodChain(m, S)
    BY <1>1, <1>2, <1>4 DEF HeapInv, Memory, GoodChain, Limit, S
<1>7. Sided(m, S)
    BY <1>1, <1>2, <1>4 DEF HeapInv, Memory, Sided, S
<1>8. ASSUME NEW c \in S, m[c].magic
      PROVE  Met(m, S, c)
    <2>1. Met(block, S, c)
        BY <1>1, <1>4, <1>8 DEF HeapInv, Memory, S
    <2> QED
        BY <1>1, <1>2, <1>4, <2>1 DEF Met, NoLinkOver
<1>9. ASSUME NEW c \in live \ {a}
      PROVE  /\ Block(c) \in DOMAIN m /\ m[Block(c)].used /\ m[Block(c)].size = c.len
             /\ Block(c) \notin S => ~m[Block(c)].magic
             /\ module # None => Block(c) # Wall
    <2>1. /\ Block(c) \in DOMAIN block /\ block[Block(c)].used /\ block[Block(c)].size = c.len
          /\ Block(c) \notin S => ~block[Block(c)].magic
          /\ module # None => Block(c) # Wall
        BY DEF HeapInv, Held, S
    <2>2. Block(c) # b
        <3>1. SUFFICES ASSUME Block(c) = b
                       PROVE  c = a
            OBVIOUS
        <3>2. c.len = a.len
            BY <1>1, <2>1, <3>1
        <3>3. /\ c \in [at : 0..Size, len : Count] /\ a \in [at : 0..Size, len : Count]
              /\ c.at - H = a.at - H
            BY <3>1 DEF HeapInv, Block, b
        <3>4. c.at = a.at
            BY <3>3, HeapAssumption
        <3> QED
            BY <3>2, <3>3, <3>4
    <2> QED
        BY <1>2, <1>4, <2>1, <2>2
<1>10. ASSUME NEW c \in S, m[c].used
       PROVE  \/ [at |-> Data(c), len |-> m[c].size] \in live \ {a}
              \/ module # None /\ c = Wall
    <2>1. c # b /\ block[c].used /\ m[c].size = block[c].size
        BY <1>1, <1>2, <1>3, <1>10
    <2>2. c \in Int
        BY <1>1, HeapAssumption DEF HeapInv, Memory, Headers
    <2>3. \/ [at |-> Data(c), len |-> block[c].size] \in live
          \/ module # None /\ c = Wall
        BY <1>10, <2>1 DEF HeapInv, Held, S
    <2>4. [at |-> Data(c), len |-> block[c].size] # a
        BY <1>1, <2>1, <2>2, HeapAssumption DEF Data, Block, b
    <2> QED
        BY <2>1, <2>3, <2>4
<1> QED
    BY <1>1, <1>2, <1>3, <1>5, <1>6, <1>7, <1>8, <1>9, <1>10 DEF Memory, Held, b, m, S

\* A call that only stops the kernel.
LEMMA HeapStays ==
    ASSUME HeapInv, UNCHANGED <<block, live, module>>, halted' \in {"no", "invalid", "wild"}
    PROVE  HeapInv'
<1>1. Chain' = Chain /\ Wall' = Wall
    BY DEF Chain, Wall
<1> DEFINE S == Chain
<1>2. S = Chain /\ S' = S
    BY <1>1
<1> HIDE DEF S
<1>3. Memory(block, S)'
    <2>1. Headers(block)' /\ GoodChain(block, S)'
        BY <1>2 DEF HeapInv, Memory, Headers, GoodChain, Limit
    <2>2. Sided(block, S)'
        BY <1>1, <1>2 DEF HeapInv, Memory, Sided
    <2>3. (\A b \in S : block[b].magic => Met(block, S, b))'
        BY <1>2 DEF HeapInv, Memory, Met, NoLinkOver
    <2> QED
        BY <2>1, <2>2, <2>3 DEF Memory
<1>4. Held(block, S, live)'
    BY <1>1, <1>2 DEF HeapInv, Held
<1>5. ModuleApart'
    BY <1>1 DEF HeapInv, ModuleApart
<1>6. Memory(block, Chain)' /\ Held(block, Chain, live)'
    BY <1>2, <1>3, <1>4 DEF S
<1> QED
    BY <1>5, <1>6 DEF HeapInv

LEMMA FreeKeeps ==
    ASSUME HeapInv, NEW a \in live, Free(a)
    PROVE  HeapInv'
<1> DEFINE b == Block(a)
<1>1. UNCHANGED module /\ halted' \in {"no", "invalid", "wild"}
    BY DEF Free, HeapInv
<1>2. CASE UNCHANGED <<block, live>>
    BY <1>1, <1>2, HeapStays DEF HeapInv
<1>3. CASE /\ block[b].magic /\ Followable(Freed(b), b)
           /\ block' = JoinPrev(JoinNext(Freed(b), b), b)
           /\ live' = live \ {a}
    <2> DEFINE m == Freed(b)
               k == JoinNext(m, b)
               S == Chain
               T == NextChain(m, S, b)
               l == live \ {a}
    <2>1. /\ Memory(m, S) /\ Held(m, S, l) /\ b \in S /\ ~m[b].used /\ m[b].magic
        BY <1>3, FreedMemory
    <2>2. b \in DOMAIN m
        BY <2>1 DEF Memory, GoodChain
    <2>3. k = JoinNext(m, b) /\ T = NextChain(m, S, b)
        OBVIOUS
    <2>4. /\ Followable(m, b) /\ block' = JoinPrev(k, b) /\ live' = l
        BY <1>3
    <2> HIDE DEF b, m, k, S, T, l
    <2>5. /\ Memory(k, T) /\ Held(k, T, l)
          /\ DOMAIN k = DOMAIN m /\ b \in T
          /\ \A x \in DOMAIN m : k[x].used <=> m[x].used
          /\ (k[b].magic <=> m[b].magic) /\ k[b].prev = m[b].prev
        <3>1. /\ Memory(k, NextChain(m, S, b)) /\ Held(k, NextChain(m, S, b), l)
              /\ DOMAIN k = DOMAIN m /\ b \in NextChain(m, S, b)
            BY <2>1, <2>3, NextStep
        <3>2. /\ \A x \in DOMAIN m : k[x].used <=> m[x].used
              /\ (k[b].magic <=> m[b].magic) /\ k[b].prev = m[b].prev
            BY <2>1, <2>3, NextStep
        <3> QED
            BY <2>3, <3>1, <3>2
    <2>6. FreeBlock(k, k[b].prev) => k[b].prev \in DOMAIN k /\ Joinable(k, k[b].prev)
        BY <2>2, <2>3, <2>4, <2>5 DEF Followable, FreeBlock, Lies
    <2>7. ~k[b].used /\ k[b].magic
        BY <2>1, <2>2, <2>5
    <2>8. Memory(block', PrevChain(k, T, b)) /\ Held(block', PrevChain(k, T, b), l)
        BY <2>4, <2>5, <2>6, <2>7, PrevStep
    <2>9. Chain' = PrevChain(k, T, b)
        BY <2>8, ChainIs, ChainNextIsOf DEF Memory
    <2>10. /\ live' \subseteq [at : 0..Size, len : Count] /\ ModuleApart'
        BY <1>1, <1>3 DEF HeapInv, ModuleApart, Wall
    <2>11. Memory(block, Chain)' /\ Held(block, Chain, live)'
        BY <1>1, <2>4, <2>8, <2>9
           DEF Memory, Headers, GoodChain, Sided, Held, Met, NoLinkOver, Wall, Limit
    <2> QED
        BY <1>1, <2>10, <2>11 DEF HeapInv
<1> QED
    BY <1>2, <1>3 DEF Free, Freed

-----------------------------------------------------------------------------
(***************************************************************************)
(* heap_alloc.                                                             *)
(***************************************************************************)
Taken(b, count) == [block[b] EXCEPT !.used = TRUE, !.size = count]

\* What is left of the headers when block b has been cut, with its rest behind it.
LEMMA CutFields ==
    ASSUME Headers(block), NEW b \in DOMAIN block, NEW count \in Nat \ {0},
           NEW rest, rest = Data(b) + count,
           NEW n, n = Written(Put(Put(block, rest, Rest(b, count)), b,
                                  [Taken(b, count) EXCEPT !.next = rest]),
                              [at |-> Data(b), len |-> count])
    PROVE  /\ rest \in Int /\ rest >= b + H + 1
           /\ DOMAIN n = {c \in DOMAIN block : c + H <= b \/ c >= rest + H} \cup {b, rest}
           /\ \A c \in DOMAIN n \ {b, rest} : n[c] = block[c]
           /\ /\ n[b].used /\ n[b].size = count /\ n[b].next = rest
              /\ n[b].prev = block[b].prev /\ (n[b].magic <=> block[b].magic) /\ n[b] \in Header
           /\ /\ ~n[rest].used /\ n[rest].size = block[b].size - count - H
              /\ n[rest].next = block[b].next /\ n[rest].prev = b
              /\ n[rest].magic /\ n[rest] \in Header
<1>1. /\ \A c \in DOMAIN block : c \in Int
      /\ b \in Int /\ H \in Int /\ H > 0 /\ count \in Int /\ count > 0
      /\ rest = b + H + count /\ rest \in Int
    BY HeapAssumption DEF Headers, Data
<1> DEFINE u == Put(block, rest, Rest(b, count))
           w == Put(u, b, [Taken(b, count) EXCEPT !.next = rest])
<1>2. /\ DOMAIN u = {c \in DOMAIN block : c + H <= rest \/ c >= rest + H} \cup {rest}
      /\ \A c \in DOMAIN u \ {rest} : u[c] = block[c]
      /\ u[rest] = Rest(b, count)
    <2>1. /\ DOMAIN Written(block, Head(rest)) = {c \in DOMAIN block : ~Overlap(Head(c), Head(rest))}
          /\ \A c \in DOMAIN Written(block, Head(rest)) : Written(block, Head(rest))[c] = block[c]
        BY DEF Written
    <2>2. \A c \in DOMAIN block : ~Overlap(Head(c), Head(rest)) <=> c + H <= rest \/ c >= rest + H
        BY <1>1 DEF Overlap, Head
    <2> QED
        BY <2>1, <2>2 DEF Put
<1>3. /\ DOMAIN w = {c \in DOMAIN u : c + H <= b \/ c >= b + H} \cup {b}
      /\ \A c \in DOMAIN w \ {b} : w[c] = u[c]
      /\ w[b] = [Taken(b, count) EXCEPT !.next = rest]
    <2>1. /\ DOMAIN Written(u, Head(b)) = {c \in DOMAIN u : ~Overlap(Head(c), Head(b))}
          /\ \A c \in DOMAIN Written(u, Head(b)) : Written(u, Head(b))[c] = u[c]
        BY DEF Written
    <2>2. \A c \in DOMAIN u : c \in Int
        BY <1>1, <1>2
    <2>3. \A c \in DOMAIN u : ~Overlap(Head(c), Head(b)) <=> c + H <= b \/ c >= b + H
        BY <1>1, <2>2 DEF Overlap, Head
    <2> HIDE DEF u
    <2> QED
        BY <2>1, <2>3 DEF Put
<1> HIDE DEF u, w
<1>4. \A c \in DOMAIN w : c \in Int
    BY <1>1, <1>2, <1>3
<1>5. /\ DOMAIN n = {c \in DOMAIN w : ~Overlap(Head(c), [at |-> Data(b), len |-> count])}
      /\ \A c \in DOMAIN n : n[c] = w[c]
    BY DEF Written, u, w
<1>6. \A c \in DOMAIN w :
        ~Overlap(Head(c), [at |-> Data(b), len |-> count]) <=> c <= b \/ c >= rest
    BY <1>1, <1>4 DEF Overlap, Head, Data
<1>7. DOMAIN n = {c \in DOMAIN block : c + H <= b \/ c >= rest + H} \cup {b, rest}
    <2>1. ASSUME NEW c
          PROVE  c \in DOMAIN n <=>
                    c \in {x \in DOMAIN block : x + H <= b \/ x >= rest + H} \cup {b, rest}
        <3>1. c \in DOMAIN n <=> c \in DOMAIN w /\ (c <= b \/ c >= rest)
            BY <1>5, <1>6
        <3>2. c \in DOMAIN w <=> c = b \/ (c \in DOMAIN u /\ (c + H <= b \/ c >= b + H))
            BY <1>3
        <3>3. c \in DOMAIN u <=> c = rest \/ (c \in DOMAIN block /\ (c + H <= rest \/ c >= rest + H))
            BY <1>2
        <3> QED
            BY <1>1, <3>1, <3>2, <3>3
    <2> QED
        BY <2>1
<1>8. \A c \in DOMAIN n \ {b, rest} : n[c] = block[c]
    BY <1>2, <1>3, <1>5
<1>9. n[b] = [Taken(b, count) EXCEPT !.next = rest] /\ n[rest] = Rest(b, count)
    BY <1>1, <1>2, <1>3, <1>5, <1>7
<1>10. block[b] \in Header /\ block[b].size \in Int /\ block[b].next \in Int
    BY DEF Headers, Header
<1>11. /\ n[b].used /\ n[b].size = count /\ n[b].next = rest
       /\ n[b].prev = block[b].prev /\ (n[b].magic <=> block[b].magic) /\ n[b] \in Header
    BY <1>1, <1>9, <1>10 DEF Taken, Header
<1>12. /\ ~n[rest].used /\ n[rest].size = block[b].size - count - H
       /\ n[rest].next = block[b].next /\ n[rest].prev = b
       /\ n[rest].magic /\ n[rest] \in Header
    <2>1. /\ block[b].size - count - H \in Int
          /\ n[rest] = Rest(b, count)
        BY <1>1, <1>9, <1>10
    <2>2. /\ ~Rest(b, count).used /\ Rest(b, count).size = block[b].size - count - H
          /\ Rest(b, count).next = block[b].next /\ Rest(b, count).prev = b
          /\ Rest(b, count).magic
        BY DEF Rest
    <2>3. Rest(b, count) \in Header
        BY <1>1, <1>10, <2>1 DEF Rest, Header
    <2> QED
        BY <2>1, <2>2, <2>3
<1> QED
    BY <1>1, <1>7, <1>8, <1>11, <1>12

\* And when it has been taken whole.
LEMMA TakenFields ==
    ASSUME Headers(block), NEW b \in DOMAIN block, NEW count \in Nat \ {0},
           NEW n, n = Written(Put(block, b, Taken(b, count)), [at |-> Data(b), len |-> count])
    PROVE  /\ DOMAIN n = {c \in DOMAIN block : c + H <= b \/ c >= Data(b) + count} \cup {b}
           /\ \A c \in DOMAIN n \ {b} : n[c] = block[c]
           /\ n[b].used /\ n[b].size = count /\ n[b].next = block[b].next
           /\ n[b].prev = block[b].prev /\ (n[b].magic <=> block[b].magic) /\ n[b] \in Header
<1>1. /\ \A c \in DOMAIN block : c \in Int
      /\ b \in Int /\ H \in Int /\ H > 0 /\ count \in Int /\ count > 0
    BY HeapAssumption DEF Headers
<1> DEFINE w == Put(block, b, Taken(b, count))
<1>2. /\ DOMAIN w = {c \in DOMAIN block : c + H <= b \/ c >= b + H} \cup {b}
      /\ \A c \in DOMAIN w \ {b} : w[c] = block[c]
      /\ w[b] = Taken(b, count)
    <2>1. /\ DOMAIN Written(block, Head(b)) = {c \in DOMAIN block : ~Overlap(Head(c), Head(b))}
          /\ \A c \in DOMAIN Written(block, Head(b)) : Written(block, Head(b))[c] = block[c]
        BY DEF Written
    <2>2. \A c \in DOMAIN block : ~Overlap(Head(c), Head(b)) <=> c + H <= b \/ c >= b + H
        BY <1>1 DEF Overlap, Head
    <2> QED
        BY <2>1, <2>2 DEF Put
<1> HIDE DEF w
<1>3. /\ DOMAIN n = {c \in DOMAIN w : ~Overlap(Head(c), [at |-> Data(b), len |-> count])}
      /\ \A c \in DOMAIN n : n[c] = w[c]
    BY DEF Written, w
<1>4. \A c \in DOMAIN w :
        ~Overlap(Head(c), [at |-> Data(b), len |-> count]) <=> c <= b \/ c >= b + H + count
    BY <1>1, <1>2 DEF Overlap, Head, Data
<1>5. DOMAIN n = {c \in DOMAIN block : c + H <= b \/ c >= b + H + count} \cup {b}
    <2>1. ASSUME NEW c
          PROVE  c \in DOMAIN n <=>
                    c \in {x \in DOMAIN block : x + H <= b \/ x >= b + H + count} \cup {b}
        <3>1. c \in DOMAIN n <=> c \in DOMAIN w /\ (c <= b \/ c >= b + H + count)
            BY <1>3, <1>4
        <3>2. c \in DOMAIN w <=> c = b \/ (c \in DOMAIN block /\ (c + H <= b \/ c >= b + H))
            BY <1>2
        <3> QED
            BY <1>1, <3>1, <3>2
    <2> QED
        BY <2>1
<1>6. (\A c \in DOMAIN n \ {b} : n[c] = block[c]) /\ n[b] = Taken(b, count)
    BY <1>2, <1>3, <1>5
<1>7. /\ n[b].used /\ n[b].size = count /\ n[b].next = block[b].next
      /\ n[b].prev = block[b].prev /\ (n[b].magic <=> block[b].magic) /\ n[b] \in Header
    <2>1. block[b] \in Header
        BY DEF Headers
    <2> QED
        BY <1>1, <1>6, <2>1 DEF Taken, Header
<1> QED
    BY <1>5, <1>6, <1>7 DEF Data

\* The blocks of the chain and the allocations lie before a free block or behind its end.
LEMMA AroundFree ==
    ASSUME HeapInv, NEW b \in Chain, ~block[b].used
    PROVE  /\ \A c \in Chain \ {b} : c + H <= b \/ c >= Data(b) + block[b].size
           /\ Intact => \A a \in live :
                /\ Block(a) # b
                /\ a.at + a.len <= b \/ Block(a) >= Data(b) + block[b].size
<1> DEFINE S == Chain
<1>1. /\ \A c \in S : c \in Int /\ block[c].size \in Int /\ block[c].next \in Int
      /\ \A c \in S : c >= 0
      /\ \A c \in S : block[c].size >= 0 /\ c + H + block[c].size <= Limit(block, c)
      /\ \A c, d \in S : c < d => block[c].next # Null /\ block[c].next <= d
      /\ H \in Int /\ H > 0 /\ b \in DOMAIN block
    BY HeapAssumption DEF HeapInv, Memory, Headers, GoodChain, Header, Data
<1>2. ASSUME NEW c \in S \ {b}
      PROVE  c + H <= b \/ c >= Data(b) + block[b].size
    <2>1. CASE c < b
        BY <1>1, <2>1 DEF Limit
    <2>2. CASE c > b
        BY <1>1, <2>2 DEF Limit, Data
    <2> QED
        BY <1>1, <2>1, <2>2
<1>3. ASSUME Intact, NEW a \in live
      PROVE  /\ Block(a) # b
             /\ a.at + a.len <= b \/ Block(a) >= Data(b) + block[b].size
    <2>1. Block(a) # b
        BY DEF HeapInv, Held
    <2>2. ~Overlap(Owned(a), Head(b)) /\ ~Overlap(Owned(a), Body(b))
        BY <1>3, <2>1 DEF Intact
    <2>3. a.at \in Int /\ a.len \in Int /\ a.len > 0
        <3>1. a \in [at : 0..Size, len : Count]
            BY DEF HeapInv
        <3>2. a.at \in 0..Size /\ a.len \in Nat \ {0}
            BY <3>1, HeapAssumption
        <3> QED
            BY <3>2, HeapAssumption
    <2> QED
        BY <1>1, <2>1, <2>2, <2>3 DEF Overlap, Owned, Head, Body, Block, Data
<1> QED
    BY <1>2, <1>3

\* A memory that is sound stays sound when a free block of the chain is cut.
LEMMA CutMemory ==
    ASSUME HeapInv, NEW b \in Chain, ~block[b].used, NEW count \in Nat \ {0},
           block[b].size >= count + H,
           NEW rest \in Int, rest = Data(b) + count,
           NEW n,
           DOMAIN n = {c \in DOMAIN block : c + H <= b \/ c >= rest + H} \cup {b, rest},
           \A c \in DOMAIN n \ {b, rest} : n[c] = block[c],
           n[b].size = count, n[b].next = rest, n[b].prev = block[b].prev,
           n[b].magic <=> block[b].magic, n[b] \in Header,
           ~n[rest].used, n[rest].size = block[b].size - count - H,
           n[rest].next = block[b].next, n[rest].prev = b, n[rest] \in Header
    PROVE  Memory(n, Chain \cup {rest})
<1> DEFINE S == Chain
           T == S \cup {rest}
           m == block
           f == m[b].next
<1>1. /\ Headers(m) /\ GoodChain(m, S) /\ Sided(m, S)
      /\ \A c \in S : m[c].magic => Met(m, S, c)
      /\ b \in DOMAIN m /\ S \subseteq DOMAIN m
    BY DEF HeapInv, Memory, GoodChain
<1>2. /\ \A c \in DOMAIN m : /\ c \in 0..Size - H /\ c \in Int /\ m[c] \in Header
                             /\ m[c].size \in Int /\ m[c].next \in Int /\ m[c].prev \in Int
                             /\ m[c].next = Null \/ m[c].next > c
                             /\ m[c].prev >= Null /\ m[c].prev < c
      /\ H \in Int /\ H > 0 /\ Size \in Int /\ Null = -1 /\ count \in Int /\ count > 0
      /\ rest = b + H + count
    BY <1>1, HeapAssumption DEF Headers, Header, Data, Null
<1>3. /\ m[b].size >= 0 /\ b + H + m[b].size <= (IF f = Null THEN Size ELSE f)
      /\ f \in S \cup {Null} /\ f \in Int
    BY <1>1, <1>2 DEF GoodChain, Limit, Data
<1>4. /\ rest + H <= Size /\ (f # Null => rest + H <= f)
      /\ rest > b /\ rest # Null /\ rest \notin S
    <2>1. /\ rest + H <= Size /\ (f # Null => rest + H <= f) /\ rest > b /\ rest # Null
        BY <1>1, <1>2, <1>3
    <2>2. \A c \in S : b < c => f # Null /\ f <= c
        BY <1>1 DEF GoodChain
    <2> QED
        BY <1>1, <1>2, <2>1, <2>2
<1>5. \A c \in S \ {b} : c + H <= b \/ c >= rest + H
    BY <1>1, <1>2, <1>3, AroundFree DEF Data
<1>6. /\ T \subseteq DOMAIN n /\ b # rest
      /\ \A c \in S \ {b} : n[c] = m[c]
    BY <1>1, <1>2, <1>4, <1>5
<1>7. n[b].prev = m[b].prev /\ (n[b].magic <=> m[b].magic)
    OBVIOUS
<1>8. n[rest].size = m[b].size - count - H /\ n[rest].next = f
    OBVIOUS
<1>9. \A c \in DOMAIN n : /\ c \in Int /\ c # Null
                          /\ c \notin {b, rest} => c \in DOMAIN m /\ n[c] = m[c]
    BY <1>1, <1>2, <1>4
<1> HIDE DEF S, T, m, f
<1>10. Headers(n)
    BY <1>1, <1>2, <1>3, <1>4, <1>7, <1>8, <1>9 DEF Headers
<1>11. GoodChain(n, T)
    <2>1. /\ Base \in S
          /\ \A c \in S : m[c].next \in S \cup {Null}
          /\ \A c \in S \ {Base} : \E d \in S : m[d].next = c
          /\ \A c \in S : m[c].size >= 0 /\ Data(c) + m[c].size <= Limit(m, c)
          /\ \A c, d \in S : c < d => m[c].next # Null /\ m[c].next <= d
        BY <1>1 DEF GoodChain
    <2>2. Base \in T /\ \A c \in T : n[c].next \in T \cup {Null}
        BY <1>3, <1>6, <1>7, <1>8, <2>1 DEF T
    <2>3. ASSUME NEW c \in T \ {Base}
          PROVE  \E d \in T : n[d].next = c
        <3>1. CASE c = rest
            BY <1>7, <3>1, b \in T DEF T, S
        <3>2. CASE c # rest
            <4>1. PICK d \in S : m[d].next = c
                BY <2>1, <3>2 DEF T
            <4>2. CASE d = b
                BY <1>8, <4>1, <4>2, rest \in T DEF T, f
            <4>3. CASE d # b
                BY <1>6, <4>1, <4>3 DEF T
            <4> QED
                BY <4>2, <4>3
        <3> QED
            BY <3>1, <3>2
    <2>4. ASSUME NEW c \in T
          PROVE  n[c].size >= 0 /\ Data(c) + n[c].size <= Limit(n, c)
        <3>1. CASE c = b
            BY <1>1, <1>2, <1>4, <1>7, <3>1 DEF Limit, Data
        <3>2. CASE c = rest
            BY <1>1, <1>2, <1>3, <1>8, <3>2 DEF Limit, Data, m, f
        <3>3. CASE c \notin {b, rest}
            BY <1>6, <2>1, <3>3 DEF Limit, T
        <3> QED
            BY <3>1, <3>2, <3>3
    <2>5. ASSUME NEW c \in T, NEW d \in T, c < d
          PROVE  n[c].next # Null /\ n[c].next <= d
        <3>1. \A x \in S : b < x => f # Null /\ f <= x
            BY <2>1 DEF S, f
        <3>2. d # rest => d \in S /\ d \in DOMAIN m
            BY <1>1 DEF T
        <3>3. CASE c = b
            <4>1. n[c].next = rest
                BY <3>3
            <4>2. d # rest => rest <= d
                BY <1>1, <1>2, <1>3, <1>4, <2>5, <3>1, <3>2, <3>3
            <4> QED
                BY <1>4, <4>1, <4>2
        <3>4. CASE c = rest
            BY <1>1, <1>2, <1>4, <1>8, <2>5, <3>1, <3>2, <3>4
        <3>5. CASE c \notin {b, rest} /\ d # rest
            BY <1>6, <2>1, <2>5, <3>2, <3>5 DEF T
        <3>6. CASE c \notin {b, rest} /\ d = rest
            <4>1. c \in S /\ c \in DOMAIN m /\ c < b
                BY <1>1, <1>2, <1>4, <1>5, <2>5, <3>6 DEF T
            <4>2. m[c].next # Null /\ m[c].next <= b
                BY <2>1, <4>1 DEF S
            <4> QED
                BY <1>1, <1>2, <1>4, <1>6, <3>6, <4>1, <4>2
        <3> QED
            BY <3>3, <3>4, <3>5, <3>6
    <2> QED
        BY <1>6, <2>2, <2>3, <2>4, <2>5 DEF GoodChain
<1>12. Sided(n, T)
    <2> SUFFICES ASSUME module # None
                 PROVE  Sided(n, T)
        BY DEF Sided
    <2>1. /\ module \in Module /\ module.start >= 2 * H
          /\ Wall \in S /\ m[Wall].used /\ m[Wall].size = module.len
          /\ \A x \in DOMAIN m : x < Wall => m[x].next # Null /\ m[x].next <= Wall
          /\ \A x \in DOMAIN m : x > Wall => m[x].prev >= Wall
        BY <1>1 DEF Sided
    <2>2. Wall # b /\ Wall # rest /\ Wall \in T /\ Wall \in Int
        BY <1>1, <1>2, <1>4, <2>1 DEF T, m
    <2>3. n[Wall].used /\ n[Wall].size = module.len
        BY <1>6, <2>1, <2>2
    <2>4. b < Wall => f # Null /\ f <= Wall
        BY <1>1, <2>1 DEF f
    <2>5. ASSUME NEW x \in DOMAIN n
          PROVE  /\ x < Wall => n[x].next # Null /\ n[x].next <= Wall
                 /\ x > Wall => n[x].prev >= Wall
        <3>1. CASE x = b
            <4>1. n[x].next = rest /\ n[x].prev = m[x].prev /\ x \in DOMAIN m
                BY <1>1, <1>7, <3>1
            <4>2. x < Wall => rest <= Wall
                BY <1>1, <1>2, <1>3, <1>4, <2>2, <2>4, <3>1
            <4> QED
                BY <1>4, <2>1, <4>1, <4>2
        <3>2. CASE x = rest
            BY <1>1, <1>2, <1>3, <1>4, <1>8, <2>2, <2>4, <3>2
        <3>3. CASE x \notin {b, rest}
            BY <1>9, <2>1, <3>3
        <3> QED
            BY <3>1, <3>2, <3>3
    <2> QED
        BY <2>1, <2>2, <2>3, <2>5 DEF Sided
<1>13. ASSUME NEW c \in T, n[c].magic
       PROVE  Met(n, T, c)
    <2>1. CASE c = rest
        <3>1. T \in SUBSET DOMAIN n /\ n[c].prev \in T
            BY <1>6, <1>8, <2>1 DEF T, S
        <3>2. NoLinkOver(n, T, c)
            BY <1>6, <1>9, <1>11 DEF NoLinkOver, GoodChain
        <3> QED
            BY <3>1, <3>2 DEF Met
    <2>2. CASE c # rest
        <3>1. c \in S /\ m[c].magic /\ c \in DOMAIN m
            BY <1>1, <1>6, <1>7, <1>13, <2>2 DEF T
        <3>2. PICK R \in SUBSET DOMAIN m :
                    /\ S \subseteq R
                    /\ m[c].prev \in DOMAIN m => m[c].prev \in R
                    /\ NoLinkOver(m, R, c)
            BY <1>1, <3>1 DEF Met
        <3>3. /\ \A x \in R : m[x].next \in DOMAIN m => m[x].next \in R
              /\ \A x \in R : x < c => m[x].next # Null /\ m[x].next <= c
            BY <3>2 DEF NoLinkOver
        <3> DEFINE Q == (R \cap DOMAIN n) \cup {rest}
        <3>4. Q \in SUBSET DOMAIN n /\ T \subseteq Q
            BY <1>6, <3>2 DEF T
        <3>5. n[c].prev \in DOMAIN n => n[c].prev \in Q
            BY <1>1, <1>4, <1>6, <1>7, <1>9, <2>2, <3>1, <3>2 DEF T
        <3>6. b < c => f # Null /\ f <= c
            BY <1>1, <3>1 DEF GoodChain, S, f
        <3>7. ASSUME NEW x \in Q
              PROVE  /\ n[x].next \in DOMAIN n => n[x].next \in Q
                     /\ x < c => n[x].next # Null /\ n[x].next <= c
            <4>1. CASE x = b
                <5>1. n[x].next = rest
                    BY <4>1
                <5>2. x < c => rest <= c
                    BY <1>1, <1>2, <1>3, <1>4, <3>1, <3>6, <4>1
                <5> QED
                    BY <1>4, <5>1, <5>2
            <4>2. CASE x = rest
                BY <1>1, <1>2, <1>3, <1>4, <1>8, <1>9, <3>1, <3>2, <3>6, <4>2
            <4>3. CASE x \notin {b, rest}
                BY <1>1, <1>9, <3>2, <3>3, <4>3
            <4> QED
                BY <4>1, <4>2, <4>3
        <3>8. NoLinkOver(n, Q, c)
            BY <3>7 DEF NoLinkOver
        <3> QED
            BY <3>4, <3>5, <3>8 DEF Met
    <2> QED
        BY <2>1, <2>2
<1> QED
    BY <1>10, <1>11, <1>12, <1>13 DEF Memory, T, S

\* And when it is taken whole.
LEMMA TakenMemory ==
    ASSUME HeapInv, NEW b \in Chain, ~block[b].used, NEW count \in Nat \ {0},
           block[b].size >= count,
           NEW n,
           DOMAIN n = {c \in DOMAIN block : c + H <= b \/ c >= Data(b) + count} \cup {b},
           \A c \in DOMAIN n \ {b} : n[c] = block[c],
           n[b].size = count, n[b].next = block[b].next, n[b].prev = block[b].prev,
           n[b].magic <=> block[b].magic, n[b] \in Header
    PROVE  Memory(n, Chain)
<1> DEFINE S == Chain
           m == block
<1>1. /\ Headers(m) /\ GoodChain(m, S) /\ Sided(m, S)
      /\ \A c \in S : m[c].magic => Met(m, S, c)
      /\ b \in DOMAIN m /\ S \subseteq DOMAIN m
    BY DEF HeapInv, Memory, GoodChain
<1>2. /\ \A c \in DOMAIN m : c \in Int /\ m[c].size \in Int /\ m[c].next \in Int
      /\ H \in Int /\ H > 0 /\ Size \in Int /\ Null = -1 /\ count \in Int /\ count > 0
    BY <1>1, HeapAssumption DEF Headers, Header, Null
<1>3. S \subseteq DOMAIN n /\ DOMAIN n \subseteq DOMAIN m
    <2>1. \A c \in S \ {b} : c + H <= b \/ c >= Data(b) + m[b].size
        BY AroundFree
    <2>2. \A c \in S \ {b} : c + H <= b \/ c >= Data(b) + count
        BY <1>1, <1>2, <2>1 DEF Data
    <2> QED
        BY <1>1, <2>2
<1>4. \A c \in DOMAIN n :
        /\ n[c].next = m[c].next /\ n[c].prev = m[c].prev
        /\ (n[c].magic <=> m[c].magic) /\ n[c] \in Header
        /\ c # b => n[c] = m[c]
    BY <1>1, <1>3 DEF Headers
<1> HIDE DEF S, m
<1>5. Headers(n)
    BY <1>1, <1>3, <1>4 DEF Headers
<1>6. GoodChain(n, S)
    <2>1. \A c \in S : m[c].size >= 0 /\ Data(c) + m[c].size <= Limit(m, c)
        BY <1>1 DEF GoodChain
    <2>2. ASSUME NEW c \in S
          PROVE  n[c].size >= 0 /\ Data(c) + n[c].size <= Limit(n, c)
        <3>1. Limit(n, c) = Limit(m, c)
            BY <1>3, <1>4 DEF Limit
        <3>2. CASE c = b
            <4>1. count <= m[b].size /\ b \in Int /\ Limit(m, b) \in Int
                BY <1>1, <1>2 DEF m, Limit
            <4>2. Data(b) + m[b].size <= Limit(m, b)
                BY <2>1 DEF S
            <4> QED
                BY <1>1, <1>2, <3>1, <3>2, <4>1, <4>2 DEF Data
        <3>3. CASE c # b
            BY <1>3, <1>4, <2>1, <3>1, <3>3
        <3> QED
            BY <3>2, <3>3
    <2> QED
        BY <1>1, <1>3, <1>4, <2>2 DEF GoodChain
<1>7. Sided(n, S)
    <2>1. module # None => Wall # b
        BY <1>1 DEF Sided, m
    <2> QED
        BY <1>1, <1>3, <1>4, <2>1 DEF Sided
<1>8. ASSUME NEW c \in S, n[c].magic
      PROVE  Met(n, S, c)
    <2>1. PICK R \in SUBSET DOMAIN m :
                /\ S \subseteq R
                /\ m[c].prev \in DOMAIN m => m[c].prev \in R
                /\ NoLinkOver(m, R, c)
        BY <1>1, <1>3, <1>4, <1>8 DEF Met
    <2> DEFINE Q == R \cap DOMAIN n
    <2>2. Q \in SUBSET DOMAIN n /\ S \subseteq Q /\ (n[c].prev \in DOMAIN n => n[c].prev \in Q)
        BY <1>3, <1>4, <2>1
    <2>3. NoLinkOver(n, Q, c)
        BY <1>3, <1>4, <2>1 DEF NoLinkOver
    <2> QED
        BY <2>2, <2>3 DEF Met
<1> QED
    BY <1>5, <1>6, <1>7, <1>8 DEF Memory, S

\* What is allocated lies outside what heap_alloc writes, and the new allocation
\* lies outside the ramdisk.
LEMMA AllocHeld ==
    ASSUME HeapInv, Intact, NEW b \in Chain, ~block[b].used, NEW count \in Count,
           block[b].size >= count, NEW n, NEW T,
           \A c \in DOMAIN block : c + H <= b \/ c >= Data(b) + block[b].size =>
                c \in DOMAIN n /\ n[c] = block[c],
           Chain \subseteq T, \A c \in T \ Chain : ~n[c].used,
           b \in DOMAIN n, n[b].used, n[b].size = count
    PROVE  LET new == [at |-> Data(b), len |-> count]
           IN  /\ Held(n, T, live \cup {new})
               /\ new \in [at : 0..Size, len : Count]
               /\ module # None => ~Overlap(Owned(new), [at |-> Wall, len |-> H + module.len])
<1> DEFINE new == [at |-> Data(b), len |-> count]
<1>1. /\ b \in DOMAIN block /\ b \in 0..Size /\ b \in Int /\ b >= 0
      /\ block[b].size \in Int /\ block[b].next \in Int
      /\ Data(b) + block[b].size <= Limit(block, b)
      /\ Chain \subseteq DOMAIN block
      /\ \A c \in DOMAIN block : c \in Int /\ c <= Size - H
    BY HeapAssumption DEF HeapInv, Memory, Headers, GoodChain, Header
<1>2. /\ H \in Int /\ H > 0 /\ Size \in Int /\ count \in Int /\ count > 0
      /\ Data(b) = b + H /\ Data(b) \in Int /\ Block(new) = b
    BY <1>1, HeapAssumption DEF Data, Block
<1>3. \A c \in Chain \ {b} : c + H <= b \/ c >= Data(b) + block[b].size
    BY AroundFree
<1>4. module # None => Block(new) # Wall
    BY <1>2, NotWall, <1>1 DEF HeapInv
<1>5. ASSUME NEW a \in live \cup {new}
      PROVE  /\ Block(a) \in DOMAIN n /\ n[Block(a)].used /\ n[Block(a)].size = a.len
             /\ Block(a) \notin T => ~n[Block(a)].magic
             /\ module # None => Block(a) # Wall
    <2>1. CASE a = new
        BY <1>2, <1>4, <2>1
    <2>2. CASE a \in live
        <3>1. /\ Block(a) \in DOMAIN block /\ block[Block(a)].used /\ block[Block(a)].size = a.len
              /\ Block(a) \notin Chain => ~block[Block(a)].magic
              /\ module # None => Block(a) # Wall
            BY <2>2 DEF HeapInv, Held
        <3>2. a.at + a.len <= b \/ Block(a) >= Data(b) + block[b].size
            BY <2>2, AroundFree
        <3>3. a \in [at : 0..Size, len : Count]
            BY <2>2 DEF HeapInv
        <3>4. a.at \in 0..Size /\ a.len \in Nat \ {0}
            BY <3>3, HeapAssumption
        <3>5. Block(a) + H <= b \/ Block(a) >= Data(b) + block[b].size
            BY <1>1, <1>2, <3>2, <3>4 DEF Block
        <3> QED
            BY <3>1, <3>5
    <2> QED
        BY <2>1, <2>2
<1>6. ASSUME NEW c \in T, n[c].used
      PROVE  \/ [at |-> Data(c), len |-> n[c].size] \in live \cup {new}
             \/ module # None /\ c = Wall
    <2>1. c \in Chain
        BY <1>6
    <2>2. CASE c # b
        <3>1. n[c] = block[c] /\ block[c].used
            BY <1>1, <1>3, <1>6, <2>1, <2>2
        <3> QED
            BY <2>1, <3>1 DEF HeapInv, Held
    <2> QED
        BY <2>2
<1>7. Held(n, T, live \cup {new})
    BY <1>5, <1>6 DEF Held
<1>8. new \in [at : 0..Size, len : Count]
    BY <1>1, <1>2
<1>9. ASSUME module # None
      PROVE  ~Overlap(Owned(new), [at |-> Wall, len |-> H + module.len])
    <2>1. /\ module \in Module /\ Wall \in Chain /\ block[Wall].used /\ block[Wall].size = module.len
          /\ Wall < b => block[Wall].next <= b /\ Data(Wall) + block[Wall].size <= block[Wall].next
          /\ block[Wall].next \in Int
        BY <1>1, <1>9 DEF HeapInv, Memory, Sided, GoodChain, Limit, Headers, Header
    <2>2. Wall # b /\ Wall \in Int /\ module.len \in Nat
        BY <1>1, <2>1, HeapAssumption
    <2>3. Wall + H <= b \/ Wall >= Data(b) + block[b].size
        BY <1>3, <2>1, <2>2
    <2> QED
        BY <1>1, <1>2, <2>1, <2>2, <2>3 DEF Overlap, Owned, Data
<1> QED
    BY <1>7, <1>8, <1>9

\* What a cut and a block taken whole have in common.
AllocChain(b, count) == IF Splits(b, count) THEN Chain \cup {Data(b) + count} ELSE Chain

LEMMA AllocEffect ==
    ASSUME HeapInv, Running, NEW count \in Count, Alloc(count)
    PROVE  \E b \in Chain :
            /\ ~block[b].used /\ block[b].size >= count
            /\ live' = live \cup {[at |-> Data(b), len |-> count]}
            /\ UNCHANGED <<module, halted>>
            /\ Memory(block', AllocChain(b, count))
            /\ Held(block', AllocChain(b, count), live')
            /\ live' \subseteq [at : 0..Size, len : Count] /\ ModuleApart'
            /\ \A c \in Chain \ {b} : block'[c] = block[c]
            /\ block'[b].used /\ block'[b].size = count
            /\ block[b].magic => block'[b].magic
            /\ \A c \in AllocChain(b, count) \ Chain : ~block'[c].used /\ block'[c].magic
<1>1. PICK b \in Fits(count) :
        /\ block' = Written(
                IF Splits(b, count)
                THEN Put(Put(block, Data(b) + count, Rest(b, count)), b,
                         [Taken(b, count) EXCEPT !.next = Data(b) + count])
                ELSE Put(block, b, Taken(b, count)),
                [at |-> Data(b), len |-> count])
        /\ live' = live \cup {[at |-> Data(b), len |-> count]}
    <2> DEFINE fits == Fits(count)
    <2>1. fits \subseteq Nat /\ fits # {}
        BY HeapAssumption DEF Alloc, Fits, HeapInv, Memory, Headers, GoodChain
    <2> DEFINE b == CHOOSE b \in fits : \A c \in fits : b <= c
    <2>2. \E x \in fits : \A c \in fits : x <= c
        BY <2>1, LeastHeader
    <2>3. b \in fits
        BY <2>2
    <2> QED
        BY <2>3 DEF Alloc, Taken
<1>2. /\ b \in Chain /\ ~block[b].used /\ block[b].size >= count
      /\ count \in Nat \ {0} /\ Intact /\ UNCHANGED <<module, halted>>
      /\ Headers(block) /\ Chain \subseteq DOMAIN block /\ b \in DOMAIN block
    BY <1>1, HeapAssumption DEF Fits, Running, Alloc, HeapInv, Memory, GoodChain
<1>3. /\ \A c \in DOMAIN block : c \in Int
      /\ H \in Int /\ H > 0 /\ count \in Int /\ count > 0 /\ Data(b) = b + H
      /\ block[b].size \in Int
    BY <1>2, HeapAssumption DEF Headers, Header, Data
<1>4. \A c \in Chain \ {b} : c + H <= b \/ c >= Data(b) + block[b].size
    BY <1>2, AroundFree
<1> DEFINE new == [at |-> Data(b), len |-> count]
           T == AllocChain(b, count)
<1>5. /\ Memory(block', T)
      /\ \A c \in DOMAIN block : c + H <= b \/ c >= Data(b) + block[b].size =>
                c \in DOMAIN block' /\ block'[c] = block[c]
      /\ Chain \subseteq T /\ b \in DOMAIN block'
      /\ \A c \in T \ Chain : ~block'[c].used /\ block'[c].magic
      /\ block'[b].used /\ block'[b].size = count /\ (block[b].magic => block'[b].magic)
    <2>1. CASE Splits(b, count)
        <3> DEFINE rest == Data(b) + count
        <3>1. /\ block' = Written(Put(Put(block, rest, Rest(b, count)), b,
                                      [Taken(b, count) EXCEPT !.next = rest]),
                                  [at |-> Data(b), len |-> count])
              /\ T = Chain \cup {rest} /\ block[b].size >= count + H
            BY <1>1, <2>1 DEF Splits, AllocChain
        <3> HIDE DEF rest, T
        <3>2. /\ rest \in Int /\ rest >= b + H + 1
              /\ DOMAIN block' = {c \in DOMAIN block : c + H <= b \/ c >= rest + H} \cup {b, rest}
              /\ \A c \in DOMAIN block' \ {b, rest} : block'[c] = block[c]
              /\ /\ block'[b].used /\ block'[b].size = count /\ block'[b].next = rest
                 /\ block'[b].prev = block[b].prev /\ (block'[b].magic <=> block[b].magic)
                 /\ block'[b] \in Header
              /\ /\ ~block'[rest].used /\ block'[rest].size = block[b].size - count - H
                 /\ block'[rest].next = block[b].next /\ block'[rest].prev = b
                 /\ block'[rest].magic /\ block'[rest] \in Header
            BY <1>2, <3>1, CutFields DEF rest
        <3>3. Memory(block', T)
            BY <1>2, <3>1, <3>2, CutMemory DEF rest
        <3>4. ASSUME NEW c \in DOMAIN block, c + H <= b \/ c >= Data(b) + block[b].size
              PROVE  c \in DOMAIN block' /\ block'[c] = block[c]
            <4>1. block[b].size >= count + H /\ rest = b + H + count
                BY <1>3, <3>1 DEF rest
            <4>2. c \in Int /\ b \in Int /\ (c + H <= b \/ c >= b + H + block[b].size)
                BY <1>2, <1>3, <3>4
            <4>3. (c + H <= b \/ c >= rest + H) /\ c # b /\ c # rest
                BY <1>3, <4>1, <4>2
            <4> QED
                BY <3>2, <4>3
        <3> QED
            BY <3>1, <3>2, <3>3, <3>4
    <2>2. CASE ~Splits(b, count)
        <3>1. /\ block' = Written(Put(block, b, Taken(b, count)), [at |-> Data(b), len |-> count])
              /\ T = Chain
            BY <1>1, <2>2 DEF AllocChain
        <3> HIDE DEF T
        <3>2. /\ DOMAIN block' = {c \in DOMAIN block : c + H <= b \/ c >= Data(b) + count} \cup {b}
              /\ \A c \in DOMAIN block' \ {b} : block'[c] = block[c]
              /\ block'[b].used /\ block'[b].size = count /\ block'[b].next = block[b].next
              /\ block'[b].prev = block[b].prev /\ (block'[b].magic <=> block[b].magic)
              /\ block'[b] \in Header
            BY <1>2, <3>1, TakenFields
        <3>3. Memory(block', T)
            BY <1>2, <3>1, <3>2, TakenMemory
        <3>4. ASSUME NEW c \in DOMAIN block, c + H <= b \/ c >= Data(b) + block[b].size
              PROVE  c \in DOMAIN block' /\ block'[c] = block[c]
            <4>1. (c + H <= b \/ c >= Data(b) + count) /\ c # b
                BY <1>2, <1>3, <3>4
            <4> QED
                BY <3>2, <4>1
        <3> QED
            BY <3>1, <3>2, <3>3, <3>4
    <2> QED
        BY <2>1, <2>2
<1>6. /\ Held(block', T, live')
      /\ new \in [at : 0..Size, len : Count]
      /\ module # None => ~Overlap(Owned(new), [at |-> Wall, len |-> H + module.len])
    BY <1>1, <1>2, <1>5, AllocHeld
<1>7. live' \subseteq [at : 0..Size, len : Count]
    BY <1>1, <1>6 DEF HeapInv
<1>8. ModuleApart'
    BY <1>1, <1>2, <1>6 DEF HeapInv, ModuleApart, Wall, Overlap, Owned, Block
<1>9. \A c \in Chain \ {b} : block'[c] = block[c]
    BY <1>2, <1>4, <1>5
<1> QED
    BY <1>1, <1>2, <1>5, <1>6, <1>7, <1>8, <1>9

LEMMA AllocKeeps ==
    ASSUME HeapInv, Running, NEW count \in Count, Alloc(count)
    PROVE  HeapInv'
<1>1. PICK b \in Chain :
        /\ UNCHANGED <<module, halted>>
        /\ Memory(block', AllocChain(b, count))
        /\ Held(block', AllocChain(b, count), live')
        /\ live' \subseteq [at : 0..Size, len : Count] /\ ModuleApart'
    BY AllocEffect
<1>2. Chain' = AllocChain(b, count)
    BY <1>1, ChainIs, ChainNextIsOf DEF Memory
<1>3. Memory(block, Chain)' /\ Held(block, Chain, live)'
    BY <1>1, <1>2 DEF Memory, Headers, GoodChain, Sided, Held, Met, NoLinkOver, Wall, Limit
<1> QED
    BY <1>1, <1>3 DEF HeapInv

-----------------------------------------------------------------------------
(***************************************************************************)
(* heap_remove_region.                                                     *)
(***************************************************************************)
LEMMA RemoveEffect ==
    ASSUME HeapInv, NEW r \in Module, RemoveRegion(r)
    PROVE  /\ HeapInv' /\ live = {} /\ module = None /\ module' = r /\ UNCHANGED <<live, halted>>
           /\ Chain' = {Base, r.start - H, r.start + r.len}
           /\ block[Base].magic => \A c \in Chain' : block'[c].magic
           /\ /\ block'[Base].next = r.start - H /\ block'[r.start - H].next = r.start + r.len
              /\ block'[r.start + r.len].next = Null
              /\ block'[r.start - H].prev = Base /\ block'[r.start + r.len].prev = r.start - H
           /\ block'[r.start - H].used /\ block'[r.start - H].size = r.len
           /\ ~block'[Base].used /\ ~block'[r.start + r.len].used
<1> DEFINE alloced == r.start - H
           end == r.start + r.len
           S == {Base, alloced, end}
           n == block'
<1>1. /\ DOMAIN block = {Base} /\ ~block[Base].used
      /\ r.start >= Base + 2 * H /\ end + H <= Base + block[Base].size
      /\ module' = r /\ UNCHANGED <<live, halted>>
    BY DEF RemoveRegion
<1>2. live = {} /\ module = None
    <2>1. \A a \in live : Block(a) = Base /\ block[Base].used
        BY <1>1 DEF HeapInv, Held
    <2>2. module # None => Wall = Base /\ block[Base].used
        BY <1>1 DEF HeapInv, Memory, Sided, GoodChain
    <2> QED
        BY <1>1, <2>1, <2>2
<1>3. /\ H \in Int /\ H > 0 /\ Size \in Int /\ Base = 0 /\ Null = -1
      /\ r.start \in Int /\ r.len \in Int /\ r.len > 0
      /\ block[Base] \in Header /\ block[Base].magic \in BOOLEAN /\ block[Base].size \in Int
      /\ block[Base].size + H <= Size
      /\ block[Base].prev = Null
      /\ r.start >= 2 * H /\ end + H <= block[Base].size
    <2>1. r \in [start : Nat, len : Nat \ {0}]
        BY HeapAssumption
    <2>2. r.start \in Nat /\ r.len \in Nat \ {0}
        BY <2>1
    <2>3. block[Base] \in Header /\ block[Base].prev >= Null /\ block[Base].prev < Base
        BY <1>1 DEF HeapInv, Memory, Headers
    <2>4. block[Base].next \in DOMAIN block \cup {Null} /\ (block[Base].next = Null \/ block[Base].next > Base)
        BY <1>1 DEF HeapInv, Memory, Headers, GoodChain
    <2>5. block[Base].next = Null
        BY <1>1, <2>4 DEF Base
    <2>6. Base + H + block[Base].size <= Size
        BY <1>1, <2>5 DEF HeapInv, Memory, GoodChain, Limit, Data
    <2> QED
        BY <1>1, <2>2, <2>3, <2>6, HeapAssumption DEF Header, Base, Null
<1>4. /\ alloced >= H /\ alloced \in Int /\ end \in Int /\ end > alloced
      /\ alloced # Base /\ end # Base /\ end # alloced
    BY <1>1, <1>3
<1>5. /\ DOMAIN n = S
      /\ n[Base] = [block[Base] EXCEPT !.size = alloced - Base - H, !.next = alloced]
      /\ n[alloced] = [used |-> TRUE, magic |-> TRUE, size |-> r.len, prev |-> Base, next |-> end]
      /\ n[end] = [used |-> FALSE, magic |-> TRUE, size |-> block[Base].size - end - H,
                   prev |-> alloced, next |-> Null]
    BY <1>4 DEF RemoveRegion
<1> HIDE DEF alloced, end, S, n
<1>6. /\ n[Base].used = FALSE /\ (n[Base].magic <=> block[Base].magic)
      /\ n[Base].size = alloced - Base - H /\ n[Base].prev = Null /\ n[Base].next = alloced
      /\ n[Base] \in Header
    <2>1. alloced - Base - H \in Int
        BY <1>3, <1>4
    <2> QED
        BY <1>1, <1>3, <1>4, <1>5, <2>1 DEF Header
<1>7. /\ n[alloced].used /\ n[alloced].magic
      /\ n[alloced].size = r.len /\ n[alloced].prev = Base /\ n[alloced].next = end
      /\ n[alloced] \in Header
    BY <1>3, <1>4, <1>5 DEF Header
<1>8. /\ ~n[end].used /\ n[end].magic
      /\ n[end].size = block[Base].size - end - H /\ n[end].prev = alloced /\ n[end].next = Null
      /\ n[end] \in Header
    BY <1>3, <1>4, <1>5 DEF Header
<1>9. end = alloced + H + r.len /\ end + H + H <= Size /\ end + H <= block[Base].size
    BY <1>1, <1>3 DEF alloced, end
<1>10. Headers(n)
    <2>1. \A c \in S : c \in 0..Size - H
        BY <1>3, <1>4, <1>9 DEF S
    <2>2. \A c \in S : n[c] \in Header /\ (n[c].next = Null \/ n[c].next > c)
        BY <1>3, <1>4, <1>6, <1>7, <1>8 DEF S
    <2>3. \A c \in S : n[c].prev >= Null /\ n[c].prev < c
        BY <1>3, <1>4, <1>6, <1>7, <1>8 DEF S
    <2> QED
        BY <1>5, <2>1, <2>2, <2>3 DEF Headers
<1>11. GoodChain(n, S)
    <2>1. S \subseteq DOMAIN n /\ Base \in S /\ \A c \in S : n[c].next \in S \cup {Null}
        BY <1>5, <1>6, <1>7, <1>8 DEF S
    <2>2. \A c \in S \ {Base} : \E d \in S : n[d].next = c
        BY <1>6, <1>7 DEF S
    <2>3. \A c \in S : n[c].size >= 0 /\ Data(c) + n[c].size <= Limit(n, c)
        BY <1>3, <1>4, <1>6, <1>7, <1>8, <1>9 DEF S, Data, Limit
    <2>4. \A c, d \in S : c < d => n[c].next # Null /\ n[c].next <= d
        BY <1>3, <1>4, <1>6, <1>7, <1>8 DEF S
    <2> QED
        BY <2>1, <2>2, <2>3, <2>4 DEF GoodChain
<1>12. Chain' = S
    BY <1>10, <1>11, ChainIs, ChainNextIsOf DEF n
<1>13. Sided(block, S)'
    <2>1. Wall' = alloced /\ module'.start >= 2 * H /\ module'.len = r.len
        BY <1>1, <1>3 DEF Wall, alloced
    <2>2. /\ alloced \in S /\ n[alloced].used /\ n[alloced].size = r.len
          /\ \A x \in S : x < alloced => n[x].next # Null /\ n[x].next <= alloced
          /\ \A x \in S : x > alloced => n[x].prev >= alloced
        BY <1>3, <1>4, <1>6, <1>7, <1>8 DEF S
    <2> QED
        BY <1>1, <1>5, <2>1, <2>2 DEF Sided, S, n
<1>14. \A c \in S : Met(n, S, c)
    <2>1. ASSUME NEW c \in S
          PROVE  /\ S \in SUBSET DOMAIN n /\ S \subseteq S
                 /\ n[c].prev \in DOMAIN n => n[c].prev \in S
                 /\ NoLinkOver(n, S, c)
        BY <1>5, <1>11 DEF NoLinkOver, GoodChain
    <2> QED
        BY <2>1 DEF Met
<1>15. Held(block, S, live)'
    <2>1. Wall' = alloced /\ module' # None
        BY <1>1, <1>3 DEF Wall, alloced, None
    <2>2. \A c \in S : n[c].used => c = alloced
        BY <1>6, <1>8 DEF S
    <2> QED
        BY <1>1, <1>2, <2>1, <2>2 DEF Held, n, S
<1>16. Memory(block, Chain)' /\ Held(block, Chain, live)'
    BY <1>10, <1>11, <1>12, <1>13, <1>14, <1>15
       DEF Memory, Headers, GoodChain, Sided, Held, Met, NoLinkOver, Limit, n, S, alloced, end
<1>17. HeapInv'
    BY <1>1, <1>2, <1>16 DEF HeapInv, ModuleApart
<1> QED
    BY <1>1, <1>2, <1>6, <1>7, <1>8, <1>12, <1>17 DEF n, S, alloced, end

-----------------------------------------------------------------------------
(***************************************************************************)
(* The theorems.                                                           *)
(***************************************************************************)
LEMMA HeapInitInv == HeapInit => HeapInv
<1> SUFFICES ASSUME HeapInit
             PROVE  HeapInv
    OBVIOUS
<1>1. /\ DOMAIN block = {Base}
      /\ block[Base] = [used |-> FALSE, magic |-> TRUE, size |-> Size - H,
                        prev |-> Null, next |-> Null]
      /\ live = {} /\ module = None /\ halted = "no"
    BY DEF HeapInit
<1>2. H \in Int /\ H > 0 /\ Size \in Int /\ Size > H /\ Base = 0 /\ Null = -1
    BY HeapAssumption DEF Base, Null
<1>3. /\ block[Base] \in Header /\ block[Base].size = Size - H
      /\ block[Base].prev = Null /\ block[Base].next = Null /\ ~block[Base].used
    BY <1>1, <1>2 DEF Header
<1>4. Headers(block)
    <2>1. Base \in 0..Size - H
        BY <1>2
    <2>2. block[Base].prev >= Null /\ block[Base].prev < Base
        BY <1>2, <1>3
    <2> QED
        BY <1>1, <1>3, <2>1, <2>2 DEF Headers
<1>5. GoodChain(block, {Base})
    BY <1>1, <1>2, <1>3 DEF GoodChain, Limit, Data
<1>6. Chain = {Base}
    BY <1>4, <1>5, ChainIs, ChainIsOf
<1>7. Met(block, {Base}, Base)
    <2>1. NoLinkOver(block, {Base}, Base)
        BY <1>1, <1>2, <1>3 DEF NoLinkOver
    <2> QED
        BY <1>1, <2>1 DEF Met
<1>8. Memory(block, Chain)
    BY <1>1, <1>4, <1>5, <1>6, <1>7 DEF Memory, Sided
<1> QED
    BY <1>1, <1>3, <1>6, <1>8 DEF HeapInv, Held, ModuleApart

LEMMA HeapNextInv == HeapInv /\ [HeapNext]_heapVars => HeapInv'
<1> SUFFICES ASSUME HeapInv, [HeapNext]_heapVars
             PROVE  HeapInv'
    OBVIOUS
<1>1. ASSUME NEW count \in Count, Alloc(count)
      PROVE  HeapInv'
    BY <1>1, AllocKeeps DEF Alloc
<1>2. ASSUME NEW a \in live, Free(a)
      PROVE  HeapInv'
    BY <1>2, FreeKeeps
<1>3. ASSUME NEW r \in Module, RemoveRegion(r)
      PROVE  HeapInv'
    BY <1>3, RemoveEffect
<1>4. CASE UNCHANGED heapVars
    BY <1>4 DEF heapVars, HeapInv, Memory, Headers, GoodChain, Sided, Held, Met, NoLinkOver,
                ModuleApart, Wall, Chain, Limit
<1> QED
    BY <1>1, <1>2, <1>3, <1>4 DEF HeapNext, Stopped

\* Whatever is allocated and freed: from anywhere that a link back may lead, following
\* the links does not jump over the block, so that heap_free never joins across it.
THEOREM HeapInvariant == HeapSpec => []HeapInv
<1>1. HeapInit => HeapInv
    BY HeapInitInv
<1>2. HeapInv /\ [HeapNext]_heapVars => HeapInv'
    BY HeapNextInv
<1> QED
    BY <1>1, <1>2, PTL DEF HeapSpec

\* The chain runs through the region in order, from the base to the end, holds the
\* ramdisk, and what it holds as used is allocated or the ramdisk: also after heap_free
\* has followed links back that were no longer true.
THEOREM HeapChainSound == HeapSpec => []ChainSound
<1>1. ASSUME HeapInv
      PROVE  ChainSound
    <2>1. HeapTypeOK
        BY <1>1 DEF HeapInv, HeapTypeOK, Memory, Headers
    <2>2. \A b \in Chain :
            /\ block[b].size >= 0
            /\ Data(b) + block[b].size <= (IF block[b].next = Null THEN Size ELSE block[b].next)
        BY <1>1 DEF HeapInv, Memory, GoodChain, Limit
    <2>3. Excluded \subseteq InUse
        <3>1. CASE module = None
            BY <3>1 DEF Excluded
        <3>2. CASE module # None
            <4>1. Wall \in Chain /\ block[Wall].used /\ block[Wall].size = module.len /\ module \in Module
                BY <1>1, <3>2 DEF HeapInv, Memory, Sided
            <4>2. module \in [start : Nat, len : Nat \ {0}]
                BY <4>1, HeapAssumption
            <4>3. Body(Wall) = [at |-> module.start, len |-> module.len]
                BY <4>1, <4>2, HeapAssumption DEF Body, Data, Wall
            <4> QED
                BY <3>2, <4>1, <4>3 DEF Excluded, InUse
        <3> QED
            BY <3>1, <3>2
    <2>4. InUse \subseteq live \cup Excluded
        <3> SUFFICES ASSUME NEW b \in Chain, block[b].used
                     PROVE  Body(b) \in live \cup Excluded
            BY DEF InUse
        <3>1. CASE Body(b) \in live
            BY <3>1
        <3>2. CASE module # None /\ b = Wall
            <4>1. block[Wall].size = module.len /\ module \in Module
                BY <1>1, <3>2 DEF HeapInv, Memory, Sided
            <4>2. module \in [start : Nat, len : Nat \ {0}]
                BY <4>1, HeapAssumption
            <4>3. Body(b) = [at |-> module.start, len |-> module.len]
                BY <3>2, <4>1, <4>2, HeapAssumption DEF Body, Data, Wall
            <4> QED
                BY <3>2, <4>3 DEF Excluded
        <3> QED
            BY <1>1, <3>1, <3>2 DEF HeapInv, Held, Body
    <2> QED
        BY <2>1, <2>2, <2>3, <2>4 DEF ChainSound
<1> QED
    BY <1>1, HeapInvariant, PTL

\* heap_alloc never hands out what the ramdisk was loaded into, nor its header.
THEOREM HeapModuleKept == HeapSpec => []ModuleKept
<1>1. HeapInv => ModuleKept
    BY DEF HeapInv, ModuleApart, ModuleKept, Wall
<1> QED
    BY <1>1, HeapInvariant, PTL

-----------------------------------------------------------------------------
(***************************************************************************)
(* Only a link back that is no longer true lets the heap go wrong.         *)
(***************************************************************************)
\* In order, the chain's allocations are apart from each other and from all else in it.
LEMMA WholeIntact == HeapInv /\ Whole => Intact
<1> SUFFICES ASSUME HeapInv, Whole
             PROVE  Intact
    OBVIOUS
<1>1. /\ \A b \in Chain : b \in Int /\ block[b].size \in Int /\ block[b].next \in Int
      /\ \A b \in Chain : block[b].size >= 0 /\ b + H + block[b].size <= Limit(block, b)
      /\ \A b, c \in Chain : b < c => block[b].next # Null /\ block[b].next <= c
      /\ H \in Int /\ H > 0
    BY HeapAssumption DEF HeapInv, Memory, Headers, GoodChain, Header, Data
<1>2. \A b, c \in Chain : b < c => b + H + block[b].size <= c
    BY <1>1 DEF Limit
<1>3. ASSUME NEW a \in live
      PROVE  /\ Block(a) \in Chain /\ block[Block(a)].used
             /\ a.at = Block(a) + H /\ a.len = block[Block(a)].size
    <2>1. PICK b \in Chain : block[b].used /\ Body(b) = a
        BY DEF Whole, InUse
    <2>2. a.at = b + H /\ a.len = block[b].size /\ Block(a) = b
        BY <1>1, <2>1 DEF Body, Data, Block
    <2> QED
        BY <2>1, <2>2
<1>4. ASSUME NEW a \in live, NEW c \in live, a # c
      PROVE  ~Overlap(Owned(a), Owned(c))
    <2>1. /\ a \in [at : 0..Size, len : Count] /\ c \in [at : 0..Size, len : Count]
        BY DEF HeapInv
    <2>2. Block(a) # Block(c)
        BY <1>3, <1>4, <2>1
    <2>3. Block(a) < Block(c) \/ Block(c) < Block(a)
        BY <1>1, <1>3, <2>2
    <2> QED
        BY <1>1, <1>2, <1>3, <2>3 DEF Overlap, Owned
<1>5. ASSUME NEW a \in live, NEW b \in Chain, b # Block(a)
      PROVE  ~Overlap(Owned(a), Head(b)) /\ ~Overlap(Owned(a), Body(b))
    <2>1. Block(a) < b \/ b < Block(a)
        BY <1>1, <1>3, <1>5
    <2> QED
        BY <1>1, <1>2, <1>3, <2>1 DEF Overlap, Owned, Head, Body, Data
<1> QED
    BY <1>3, <1>4, <1>5 DEF Intact

\* The blocks of the chain that are free in front of a free one.
FreePairs(m, S) == {c \in S : ~m[c].used /\ m[c].next # Null /\ ~m[m[c].next].used}

\* Every link back is true.
LinkedOf(m, S) == \A c \in S : m[c].next # Null => m[m[c].next].prev = c

\* Joining a block of the chain with a free one behind it.
LEMMA JoinLinks ==
    ASSUME NEW m, NEW S, Memory(m, S), NEW q \in S, m[q].next \in S, ~m[m[q].next].used
    PROVE  /\ \A c \in S \ {m[q].next} : /\ Join(m, q)[c].used <=> m[c].used
                                         /\ Join(m, q)[c].magic <=> m[c].magic
           /\ \A c \in S \ {m[q].next, q} : /\ Join(m, q)[c].size = m[c].size
                                            /\ Join(m, q)[c].next = m[c].next
           /\ LinkedOf(m, S) => LinkedOf(Join(m, q), S \ {m[q].next})
           /\ \A c \in FreePairs(Join(m, q), S \ {m[q].next}) :
                \/ c = q /\ m[q].next \in FreePairs(m, S)
                \/ c # q /\ c \in FreePairs(m, S) /\ Join(m, q)[c].next = m[c].next
<1> DEFINE n == m[q].next
           j == Join(m, q)
           f == m[n].next
           T == S \ {n}
<1>1. /\ S \subseteq DOMAIN m /\ f \in S \cup {Null} /\ Headers(m) /\ Null \notin DOMAIN m
      /\ n \in S /\ ~m[n].used /\ q # n /\ f # n /\ \A c \in S : m[c].next \in S \cup {Null}
    BY HeapAssumption DEF Memory, GoodChain, Headers, Null
<1>2. /\ DOMAIN j = DOMAIN m
      /\ \A x \in DOMAIN m : j[x].used = m[x].used
      /\ \A x \in DOMAIN m \ {n} : j[x].magic = m[x].magic
      /\ \A x \in DOMAIN m \ {q} : j[x].size = m[x].size /\ j[x].next = m[x].next
      /\ j[q].next = f
      /\ \A x \in DOMAIN m \ {f} : j[x].prev = m[x].prev
      /\ f # Null => j[f].prev = q
    <2>1. q \in DOMAIN m /\ m[q].next \in DOMAIN m /\ Lies(m, m[m[q].next].next)
        BY <1>1 DEF Lies
    <2> QED
        BY <1>1, <2>1, JoinFields
<1> HIDE DEF f, n, j
<1>3. ASSUME LinkedOf(m, S), NEW c \in T, j[c].next # Null
      PROVE  j[j[c].next].prev = c
    <2>1. CASE c = q
        BY <1>2, <1>3, <2>1
    <2>2. CASE c # q
        <3>1. j[c].next = m[c].next /\ m[c].next \in S /\ m[m[c].next].prev = c
            BY <1>1, <1>2, <1>3, <2>2 DEF LinkedOf
        <3>2. m[c].next # f
            BY <1>1, <1>3, <3>1 DEF LinkedOf, f
        <3> QED
            BY <1>1, <1>2, <3>1, <3>2
    <2> QED
        BY <2>1, <2>2
<1>4. ASSUME NEW c \in FreePairs(j, T)
      PROVE  \/ c = q /\ n \in FreePairs(m, S)
             \/ c # q /\ c \in FreePairs(m, S) /\ j[c].next = m[c].next
    <2>1. c \in T /\ ~j[c].used /\ j[c].next # Null /\ ~j[j[c].next].used
        BY DEF FreePairs
    <2>2. CASE c = q
        BY <1>1, <1>2, <2>1, <2>2 DEF FreePairs, f
    <2>3. CASE c # q
        BY <1>1, <1>2, <2>1, <2>3 DEF FreePairs
    <2> QED
        BY <2>2, <2>3
<1> QED
    BY <1>1, <1>2, <1>3, <1>4 DEF LinkedOf, n, j

\* What heap_free leaves of the chain's allocations and links, first behind the block.
LEMMA NextLinks ==
    ASSUME NEW m, NEW S, Memory(m, S), NEW b \in S, ~m[b].used,
           NEW k, k = JoinNext(m, b), NEW T, T = NextChain(m, S, b)
    PROVE  /\ T \subseteq S /\ \A c \in S \ T : ~m[c].used
           /\ \A c \in T : /\ (k[c].used <=> m[c].used) /\ (k[c].magic <=> m[c].magic)
                           /\ m[c].used => k[c].size = m[c].size
                           /\ c # b => k[c].next = m[c].next
           /\ LinkedOf(m, S) => LinkedOf(k, T)
           /\ (\A c \in FreePairs(m, S) : c = b \/ m[c].next = b)
                => \A c \in FreePairs(k, T) : k[c].next = b
<1>1. /\ m[b].next \in S \cup {Null}
      /\ \A c \in S : c \in Int /\ c # Null /\ (m[c].next = Null \/ m[c].next > c)
    BY HeapAssumption DEF Memory, GoodChain, Headers, Null
<1>2. CASE ~FreeBlock(m, m[b].next)
    <2>1. k = m /\ T = S
        BY <1>2 DEF JoinNext, NextChain
    <2>2. b \notin FreePairs(m, S)
        BY <1>2 DEF FreePairs, FreeBlock
    <2> QED
        BY <2>1, <2>2
<1>3. CASE FreeBlock(m, m[b].next)
    <2>1. PICK d \in S : /\ d = m[b].next /\ d # Null /\ ~m[d].used
                         /\ k = Join(m, b) /\ T = S \ {d}
        BY <1>1, <1>3 DEF FreeBlock, JoinNext, NextChain
    <2>2. d > b /\ m[d].next # b
        BY <1>1, <2>1
    <2>3. /\ \A c \in T : (k[c].used <=> m[c].used) /\ (k[c].magic <=> m[c].magic)
          /\ \A c \in T \ {b} : k[c].size = m[c].size /\ k[c].next = m[c].next
          /\ LinkedOf(m, S) => LinkedOf(k, T)
          /\ \A c \in FreePairs(k, T) :
                \/ c = b /\ d \in FreePairs(m, S)
                \/ c # b /\ c \in FreePairs(m, S) /\ k[c].next = m[c].next
        <3>1. m[b].next \in S /\ ~m[m[b].next].used
            BY <2>1
        <3>2. /\ \A c \in S \ {m[b].next} : /\ Join(m, b)[c].used <=> m[c].used
                                            /\ Join(m, b)[c].magic <=> m[c].magic
              /\ \A c \in S \ {m[b].next, b} : /\ Join(m, b)[c].size = m[c].size
                                               /\ Join(m, b)[c].next = m[c].next
              /\ LinkedOf(m, S) => LinkedOf(Join(m, b), S \ {m[b].next})
              /\ \A c \in FreePairs(Join(m, b), S \ {m[b].next}) :
                    \/ c = b /\ m[b].next \in FreePairs(m, S)
                    \/ c # b /\ c \in FreePairs(m, S) /\ Join(m, b)[c].next = m[c].next
            BY <3>1, JoinLinks
        <3> QED
            BY <2>1, <3>2
    <2>4. ASSUME \A c \in FreePairs(m, S) : c = b \/ m[c].next = b, NEW c \in FreePairs(k, T)
          PROVE  k[c].next = b
        BY <1>1, <2>2, <2>3, <2>4
    <2> QED
        BY <2>1, <2>3, <2>4
<1> QED
    BY <1>2, <1>3

\* Then in front of it.
LEMMA PrevLinks ==
    ASSUME NEW m, NEW S, Memory(m, S), NEW b \in S, ~m[b].used,
           FreeBlock(m, m[b].prev) => m[b].prev \in S /\ m[m[b].prev].next = b,
           NEW k, k = JoinPrev(m, b), NEW T, T = PrevChain(m, S, b)
    PROVE  /\ T \subseteq S /\ \A c \in S \ T : ~m[c].used
           /\ \A c \in T : /\ (k[c].used <=> m[c].used) /\ (k[c].magic <=> m[c].magic)
                           /\ m[c].used => k[c].size = m[c].size
           /\ LinkedOf(m, S) =>
                /\ LinkedOf(k, T)
                /\ (\A c \in FreePairs(m, S) : m[c].next = b) => FreePairs(k, T) = {}
<1> DEFINE p == m[b].prev
<1>1. \A c \in S : c \in Int /\ c # Null /\ (m[c].next = Null \/ m[c].next > c)
    BY HeapAssumption DEF Memory, GoodChain, Headers, Null
<1>2. ASSUME LinkedOf(m, S), NEW c \in FreePairs(m, S), m[c].next = b
      PROVE  c = p /\ FreeBlock(m, p)
    BY <1>1, <1>2 DEF LinkedOf, FreePairs, FreeBlock
<1>3. CASE ~FreeBlock(m, p)
    <2>1. k = m /\ T = S
        BY <1>3 DEF JoinPrev, PrevChain
    <2> QED
        BY <1>2, <1>3, <2>1
<1>4. CASE FreeBlock(m, p)
    <2>1. p \in S /\ m[p].next = b /\ ~m[p].used /\ k = Join(m, p) /\ T = S \ {b}
        BY <1>4 DEF FreeBlock, JoinPrev, PrevChain, Joined
    <2>2. b \notin FreePairs(m, S) \/ m[b].next # b
        BY <1>1 DEF Null
    <2> HIDE DEF p
    <2>3. /\ \A c \in T : (k[c].used <=> m[c].used) /\ (k[c].magic <=> m[c].magic)
          /\ \A c \in T \ {p} : k[c].size = m[c].size
          /\ LinkedOf(m, S) => LinkedOf(k, T)
          /\ \A c \in FreePairs(k, T) :
                \/ c = p /\ b \in FreePairs(m, S)
                \/ c # p /\ c \in FreePairs(m, S) /\ k[c].next = m[c].next
        BY <2>1, JoinLinks
    <2> QED
        BY <1>2, <2>1, <2>2, <2>3
<1> QED
    BY <1>3, <1>4

LEMMA FreeGood ==
    ASSUME HeapInv, Running, Whole, NEW a \in live, Free(a), ~Astray(Block(a))
    PROVE  halted' = "no" /\ Whole' /\ (LinkedBack => LinkedBack' /\ (Coalesced => Coalesced'))
<1> DEFINE b == Block(a)
           m == Freed(b)
           k == JoinNext(m, b)
           n == JoinPrev(k, b)
           S == Chain
           T == NextChain(m, S, b)
           U == PrevChain(k, T, b)
           l == live \ {a}
<1>1. block[b].used /\ block[b].magic
    <2>1. PICK c \in Chain : block[c].used /\ Body(c) = a
        BY DEF Whole, InUse
    <2>2. c \in Int
        BY HeapAssumption DEF HeapInv, Memory, GoodChain, Headers
    <2>3. b = c
        BY <2>1, <2>2, HeapAssumption DEF Body, Data, Block
    <2> QED
        BY <2>1, <2>3 DEF Whole
<1>2. /\ b \in S /\ ~m[b].used /\ m[b].magic /\ DOMAIN m = DOMAIN block
      /\ \A x \in DOMAIN block \ {b} : m[x] = block[x]
      /\ m[b].prev = block[b].prev /\ m[b].next = block[b].next
      /\ Memory(m, S) /\ Held(m, S, l)
    BY <1>1, FreedMemory
<1>3. /\ S \subseteq DOMAIN m /\ \A x \in S : m[x].next \in S \cup {Null}
      /\ \A x \in DOMAIN m : x \in Int /\ x # Null /\ m[x].prev < x
                             /\ (m[x].next = Null \/ m[x].next > x)
    BY <1>2, HeapAssumption DEF Memory, GoodChain, Headers, Null
<1>4. FreeBlock(m, m[b].prev) => m[b].prev \in S /\ m[m[b].prev].next = b
    BY <1>2, <1>3 DEF Astray, FreeBlock
<1>5. Lies(m, m[b].next) /\ Lies(m, m[b].prev) /\ (FreeBlock(m, m[b].next) => Joinable(m, b))
    <2>1. m[b].prev = Null \/ m[b].prev \in DOMAIN m
        BY <1>2, <1>3 DEF Astray
    <2> QED
        BY <1>2, <1>3, <2>1 DEF Lies, FreeBlock, Joinable
<1>6. (block' = n /\ live' = l /\ halted' = halted) \/ ~Followable(m, b)
    BY <1>1 DEF Free, Freed
<1>7. k = JoinNext(m, b) /\ T = NextChain(m, S, b) /\ n = JoinPrev(k, b) /\ U = PrevChain(k, T, b)
    OBVIOUS
<1> HIDE DEF k, n, T, U, m, S
<1>8. /\ Memory(k, T) /\ Held(k, T, l) /\ b \in T /\ DOMAIN k = DOMAIN m
      /\ k[b].prev = m[b].prev /\ \A x \in DOMAIN m : k[x].used <=> m[x].used
    BY <1>2, <1>7, NextStep
<1>9. /\ T \subseteq S /\ \A c \in S \ T : ~m[c].used
      /\ \A c \in T : /\ (k[c].used <=> m[c].used) /\ (k[c].magic <=> m[c].magic)
                      /\ m[c].used => k[c].size = m[c].size
                      /\ c # b => k[c].next = m[c].next
      /\ LinkedOf(m, S) => LinkedOf(k, T)
      /\ (\A c \in FreePairs(m, S) : c = b \/ m[c].next = b)
           => \A c \in FreePairs(k, T) : k[c].next = b
    BY <1>2, <1>7, NextLinks
<1>10. FreeBlock(k, k[b].prev) => k[b].prev \in T /\ k[k[b].prev].next = b
    <2> SUFFICES ASSUME FreeBlock(k, k[b].prev)
                 PROVE  k[b].prev \in T /\ k[k[b].prev].next = b
        OBVIOUS
    <2> DEFINE p == m[b].prev
    <2>1. p # Null /\ p \in DOMAIN m /\ ~m[p].used
        BY <1>5, <1>8 DEF FreeBlock, Lies
    <2>2. p \in S /\ m[p].next = b /\ p < b
        BY <1>2, <1>3, <1>4, <2>1 DEF FreeBlock
    <2>3. p \in T
        BY <1>2, <1>3, <1>7, <2>2 DEF NextChain
    <2> QED
        BY <1>2, <1>3, <1>8, <1>9, <2>2, <2>3
<1>11. FreeBlock(k, k[b].prev) => k[b].prev \in DOMAIN k /\ Joinable(k, k[b].prev)
    BY <1>8, <1>10 DEF Memory, GoodChain, Joinable, Lies
<1>12. Followable(m, b)
    BY <1>5, <1>7, <1>8, <1>11 DEF Followable, FreeBlock, Lies
<1>13. block' = n /\ live' = l /\ halted' = "no" /\ module' = module
    BY <1>6, <1>12 DEF Running, Free
<1>14. ~k[b].used /\ k[b].magic
    BY <1>2, <1>8, <1>9
<1>15. Memory(n, U) /\ Held(n, U, l)
    BY <1>7, <1>8, <1>11, <1>14, PrevStep
<1>16. Chain' = U
    BY <1>13, <1>15, ChainIs, ChainNextIsOf DEF Memory
<1>17. /\ U \subseteq T /\ \A c \in T \ U : ~k[c].used
       /\ \A c \in U : /\ (n[c].used <=> k[c].used) /\ (n[c].magic <=> k[c].magic)
                       /\ k[c].used => n[c].size = k[c].size
       /\ LinkedOf(k, T) =>
            /\ LinkedOf(n, U)
            /\ (\A c \in FreePairs(k, T) : k[c].next = b) => FreePairs(n, U) = {}
    BY <1>7, <1>8, <1>10, <1>14, PrevLinks
<1>18. \A c \in U : /\ c \in S /\ (n[c].used <=> m[c].used) /\ (n[c].magic <=> m[c].magic)
                    /\ m[c].used => n[c].size = m[c].size
    BY <1>9, <1>17
<1>19. \A c \in S : m[c].used => c \in U
    BY <1>9, <1>17
<1>20. Whole'
    <2>1. \A c \in U : n[c].magic
        BY <1>2, <1>3, <1>18 DEF Whole, S
    <2>2. ASSUME NEW r \in l \cup Excluded
          PROVE  r \in InUse'
        <3>1. PICK c \in S : block[c].used /\ Body(c) = r
            BY DEF Whole, InUse, S, l
        <3>2. c # b
            <4>1. r \in l => r # Body(b)
                <5>1. block[b].size = a.len
                    BY DEF HeapInv, Held
                <5>2. a \in [at : 0..Size, len : Count]
                    BY DEF HeapInv
                <5>3. a = [at |-> Data(b), len |-> block[b].size]
                    BY <5>1, <5>2, HeapAssumption DEF Data, Block
                <5> QED
                    BY <5>3 DEF Body
            <4>2. r \in Excluded => r # Body(b)
                <5>1. ASSUME module # None
                      PROVE  b # Wall /\ module.start \in Int
                    <6>1. module \in [start : Nat, len : Nat \ {0}]
                        BY <5>1, HeapAssumption DEF HeapInv
                    <6> QED
                        BY <5>1, <6>1 DEF HeapInv, Held
                <5> QED
                    BY <1>2, <1>3, <5>1, HeapAssumption DEF Excluded, Body, Data, Wall
            <4> QED
                BY <3>1, <4>1, <4>2
        <3>3. m[c] = block[c]
            BY <1>2, <1>3, <3>1, <3>2
        <3>4. c \in U /\ n[c].used /\ n[c].size = block[c].size
            BY <1>18, <1>19, <3>1, <3>3
        <3> QED
            BY <1>13, <1>16, <3>1, <3>4 DEF InUse, Body
    <2>3. Excluded' = Excluded
        BY <1>13 DEF Excluded
    <2> QED
        BY <1>13, <1>16, <2>1, <2>2, <2>3 DEF Whole
<1>21. ASSUME LinkedBack
       PROVE  LinkedBack' /\ (Coalesced => Coalesced')
    <2>1. \A c \in S : m[c].next = block[c].next /\ m[c].prev = block[c].prev
        BY <1>2, <1>3
    <2>2. LinkedOf(m, S)
        BY <1>3, <1>21, <2>1, <1>2 DEF LinkedOf, LinkedBack, S
    <2>3. LinkedOf(n, U)
        BY <1>9, <1>17, <2>2
    <2>4. ASSUME Coalesced
          PROVE  \A c \in FreePairs(m, S) : c = b \/ m[c].next = b
        BY <1>2, <1>3, <2>1, <2>4 DEF Coalesced, FreePairs, S
    <2>5. Coalesced => FreePairs(n, U) = {}
        BY <1>9, <1>17, <2>2, <2>4
    <2> QED
        BY <1>13, <1>16, <2>3, <2>5 DEF LinkedOf, FreePairs, LinkedBack, Coalesced
<1> QED
    BY <1>13, <1>20, <1>21

LEMMA AllocGood ==
    ASSUME HeapInv, Running, Whole, NEW count \in Count, Alloc(count)
    PROVE  halted' = "no" /\ Whole' /\ ~(live' \subseteq live)
<1>1. PICK b \in Chain :
        /\ ~block[b].used
        /\ live' = live \cup {[at |-> Data(b), len |-> count]}
        /\ UNCHANGED <<module, halted>>
        /\ Memory(block', AllocChain(b, count))
        /\ \A c \in Chain \ {b} : block'[c] = block[c]
        /\ block'[b].used /\ block'[b].size = count
        /\ block[b].magic => block'[b].magic
        /\ \A c \in AllocChain(b, count) \ Chain : ~block'[c].used /\ block'[c].magic
    BY AllocEffect
<1>2. Chain' = AllocChain(b, count) /\ Chain \subseteq Chain'
    BY <1>1, ChainIs, ChainNextIsOf DEF Memory, AllocChain
<1>3. \A c \in Chain' : block'[c].magic
    BY <1>1, <1>2 DEF Whole
<1>4. ASSUME NEW r \in live' \cup Excluded'
      PROVE  r \in InUse'
    <2>1. CASE r = [at |-> Data(b), len |-> count]
        BY <1>1, <1>2, <2>1 DEF InUse, Body
    <2>2. CASE r \in live \cup Excluded
        <3>1. PICK c \in Chain : block[c].used /\ Body(c) = r
            BY <2>2 DEF Whole, InUse
        <3> QED
            BY <1>1, <1>2, <3>1 DEF InUse, Body
    <2> QED
        BY <1>1, <2>1, <2>2 DEF Excluded
<1>5. [at |-> Data(b), len |-> count] \notin live
    <2> SUFFICES ASSUME [at |-> Data(b), len |-> count] \in live
                 PROVE  FALSE
        OBVIOUS
    <2>1. b \in Int
        BY HeapAssumption DEF HeapInv, Memory, GoodChain, Headers
    <2>2. Block([at |-> Data(b), len |-> count]) = b
        BY <2>1, HeapAssumption DEF Block, Data
    <2> QED
        BY <1>1, <2>2 DEF HeapInv, Held
<1> QED
    BY <1>1, <1>3, <1>4, <1>5 DEF Whole, Running

LEMMA RemoveGood ==
    ASSUME HeapInv, Running, Whole, NEW r \in Module, RemoveRegion(r)
    PROVE  halted' = "no" /\ Whole' /\ LinkedBack' /\ Coalesced'
<1> DEFINE alloced == r.start - H
           end == r.start + r.len
<1>1. /\ live' = {} /\ module' = r /\ halted' = "no"
      /\ Chain' = {Base, alloced, end}
      /\ \A c \in Chain' : block'[c].magic
      /\ /\ block'[Base].next = alloced /\ block'[alloced].next = end /\ block'[end].next = Null
         /\ block'[alloced].prev = Base /\ block'[end].prev = alloced
      /\ block'[alloced].used /\ block'[alloced].size = r.len
    <2>1. block[Base].magic
        BY DEF Whole, HeapInv, Memory, GoodChain
    <2> QED
        BY <2>1, RemoveEffect DEF Running
<1>2. Excluded' \subseteq {[at |-> r.start, len |-> r.len]} /\ Data(alloced) = r.start
    <2>1. r.start \in Nat
        BY HeapAssumption
    <2> QED
        BY <1>1, <2>1, HeapAssumption DEF Excluded, Data
<1> HIDE DEF alloced, end
<1>3. Whole'
    BY <1>1, <1>2 DEF Whole, InUse, Body
<1>4. LinkedBack'
    BY <1>1 DEF LinkedBack
<1>5. Coalesced'
    BY <1>1 DEF Coalesced
<1> QED
    BY <1>1, <1>3, <1>4, <1>5

\* Every other step of heap_alloc, heap_free and heap_remove_region keeps allocations
\* apart and in the chain, and while all links back are true frees join what can be
\* joined and leave them true.
THEOREM HeapGoodUnlessAstray == HeapSpec => GoodUnlessAstray
<1>1. (HeapInv /\ Whole => Intact)'
    BY WholeIntact, PTL
<1>2. ASSUME HeapInv, HeapInv', [HeapNext]_heapVars
      PROVE  [Running /\ Whole =>
                \/ \E a \in live : Astray(Block(a)) /\ Free(a)
                \/ /\ halted' = "no" /\ Intact' /\ Whole'
                   /\ LinkedBack /\ live' \subseteq live
                        => LinkedBack' /\ (Coalesced => Coalesced')]_heapVars
    <2> SUFFICES ASSUME HeapNext, Running, Whole,
                        ~\E a \in live : Astray(Block(a)) /\ Free(a)
                 PROVE  /\ halted' = "no" /\ Whole'
                        /\ LinkedBack /\ live' \subseteq live
                             => LinkedBack' /\ (Coalesced => Coalesced')
        BY <1>1, <1>2
    <2>1. ASSUME NEW count \in Count, Alloc(count)
          PROVE  halted' = "no" /\ Whole' /\ ~(live' \subseteq live)
        BY <1>2, <2>1, AllocGood
    <2>2. ASSUME NEW a \in live, Free(a)
          PROVE  halted' = "no" /\ Whole' /\ (LinkedBack => LinkedBack' /\ (Coalesced => Coalesced'))
        BY <1>2, <2>2, FreeGood
    <2>3. ASSUME NEW r \in Module, RemoveRegion(r)
          PROVE  halted' = "no" /\ Whole' /\ LinkedBack' /\ Coalesced'
        BY <1>2, <2>3, RemoveGood
    <2> QED
        BY <2>1, <2>2, <2>3 DEF HeapNext, Stopped
<1> QED
    BY <1>2, HeapInvariant, PTL DEF HeapSpec, GoodUnlessAstray
=============================================================================
