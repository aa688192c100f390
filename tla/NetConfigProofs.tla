-------------------------- MODULE NetConfigProofs --------------------------
(***************************************************************************)
(* Theorems about NetConfig for every set of configuration files and any   *)
(* number of slots: what the loop of net_load_config has put in the tables *)
(* is what the lines it has read describe, however headings, masks and     *)
(* foreign interfaces follow each other.                                   *)
(***************************************************************************)
EXTENDS NetConfig, FiniteSetTheorems, TLAPS

-----------------------------------------------------------------------------
\* A legal text is an address.
LEMMA AtonType ==
    ASSUME NEW text \in Numbers, Legal(text)
    PROVE  Aton(text) \in Address
<1>1. \A i \in 1..4 : text[i] \in Nat
    BY DEF Legal, Numbers
<1>2. \A i \in 1..4 : text[i] % 256 \in 0..255
    BY <1>1
<1> QED
    BY <1>2 DEF Aton, Address

\* The mask a line leaves behind fits in its byte.
LEMMA MaskOfType ==
    ASSUME ConfigTypeOK, NEW l \in Line
    PROVE  MaskOf(l) \in 0..255
<1>1. l.mask \in Nat \cup {None} /\ mask \in 0..255
    BY DEF ConfigTypeOK, Line
<1> QED
    BY <1>1 DEF MaskOf

\* Appending a member to a sequence.
LEMMA AppendType ==
    ASSUME NEW S, NEW s \in Seq(S), NEW e \in S
    PROVE  /\ Append(s, e) \in Seq(S) /\ Len(Append(s, e)) = Len(s) + 1
           /\ Append(s, e)[Len(s) + 1] = e
           /\ \A i \in 1..Len(s) : Append(s, e)[i] = s[i]
OBVIOUS

\* Reading a line, or closing the file, keeps the types.
LEMMA ReadLineType ==
    ASSUME ConfigTypeOK, ReadLine
    PROVE  ConfigTypeOK'
<1>1. This \in Line /\ line < Len(file) /\ line' \in 0..Len(file)
    BY DEF ConfigTypeOK, ReadLine, This, AtEnd
<1>2. file' \in Seq(Line) /\ reading' \in BOOLEAN /\ line' \in 0..Len(file')
    BY <1>1 DEF ConfigTypeOK, ReadLine
<1>3. CASE Heading
    BY <1>2, <1>3 DEF ConfigTypeOK, Heading
<1>4. CASE Inet
    <2> DEFINE a == [addr |-> Aton(This.addr), mask |-> MaskOf(This)]
    <2>1. InetOk
        BY <1>4 DEF ReadLine, LineOk, Inet
    <2>2. This.addr \in Numbers
        BY <1>1 DEF Line
    <2>3. a \in Inaddr /\ mask' \in 0..255 /\ addrs' = Append(addrs, a)
        BY <1>1, <1>4, <2>1, <2>2, AtonType, MaskOfType DEF InetOk, Inet, Inaddr
    <2> HIDE DEF a
    <2>4. addrs' \in Seq(Inaddr) /\ Len(addrs') <= AddrSlots
        BY <2>1, <2>3, AppendType, ConfigAssumption DEF ConfigTypeOK, InetOk
    <2> QED
        BY <1>2, <1>4, <2>3, <2>4 DEF ConfigTypeOK, Inet
<1>5. CASE RouteTo
    <2> DEFINE r == [addr |-> Aton(This.addr), mask |-> MaskOf(This), via |-> Aton(This.via)]
    <2>1. RouteOk
        BY <1>5 DEF ReadLine, LineOk, RouteTo
    <2>2. This.addr \in Numbers /\ This.via \in Numbers
        BY <1>1, <2>1 DEF Line, RouteOk
    <2>3. r \in Route /\ mask' \in 0..255 /\ routes' = Append(routes, r)
        BY <1>1, <1>5, <2>1, <2>2, AtonType, MaskOfType DEF RouteOk, RouteTo, Route
    <2> HIDE DEF r
    <2>4. routes' \in Seq(Route) /\ Len(routes') <= RouteSlots
        BY <2>1, <2>3, AppendType, ConfigAssumption DEF ConfigTypeOK, RouteOk
    <2> QED
        BY <1>2, <1>5, <2>3, <2>4 DEF ConfigTypeOK, RouteTo
<1>6. CASE Skip
    BY <1>2, <1>6 DEF ConfigTypeOK, Skip
<1> QED
    BY <1>3, <1>4, <1>5, <1>6 DEF ReadLine

\* At first every variable has its type.
LEMMA ConfigInitType == ConfigInit => ConfigTypeOK
<1> SUFFICES ASSUME ConfigInit PROVE ConfigTypeOK
    OBVIOUS
<1>1. file \in ConfigFile /\ line = 0 /\ mask = 0
    BY DEF ConfigInit
<1>4. file \in Seq(Line) /\ line \in 0..Len(file) /\ mask \in 0..255
    BY <1>1, ConfigAssumption
<1>2. <<>> \in Seq(Inaddr) /\ <<>> \in Seq(Route) /\ Len(<<>>) = 0
    OBVIOUS
<1>3. addrs = <<>> /\ routes = <<>> /\ reading \in BOOLEAN /\ iface \in BOOLEAN
    BY Zenon DEF ConfigInit
<1> QED
    BY <1>2, <1>3, <1>4, ConfigAssumption DEF ConfigTypeOK

\* Every step keeps the types.
LEMMA ConfigNextType == ConfigTypeOK /\ [ConfigNext]_configVars => ConfigTypeOK'
<1> SUFFICES ASSUME ConfigTypeOK, [ConfigNext]_configVars PROVE ConfigTypeOK'
    OBVIOUS
<1>1. CASE ReadLine
    BY <1>1, ReadLineType
<1>2. CASE CloseFile
    <2>1. <<>> \in Seq(Line) /\ Len(<<>>) = 0
        OBVIOUS
    <2>2. reading' \in BOOLEAN /\ iface' \in BOOLEAN /\ file' = <<>> /\ line' = 0 /\ mask' = 0
        BY <1>2, Zenon DEF CloseFile
    <2> QED
        BY <1>2, <2>1, <2>2 DEF CloseFile, ConfigTypeOK
<1>3. CASE UNCHANGED configVars
    BY <1>3 DEF configVars, ConfigTypeOK
<1> QED
    BY <1>1, <1>2, <1>3 DEF ConfigNext

\* Every variable keeps its type.
THEOREM ConfigTypeCorrect == ConfigSpec => []ConfigTypeOK
BY ConfigInitType, ConfigNextType, PTL DEF ConfigSpec

-----------------------------------------------------------------------------
\* The curr_iface of the next line is that of the nearest heading above it.
HeadingFollowed == iface <=> UnderHeading(line + 1)

\* mask is the one that the lines read so far carry.
MaskFollowed == MaskWritten(line, mask)

ConfigInv ==
    /\ ConfigTypeOK
    /\ reading => HeadingFollowed /\ MaskFollowed
    /\ ConfigUnderstood

\* The described lines up to a line are numbers, finitely many.
LEMMA DescribedFinite ==
    ASSUME NEW kind, NEW n \in Nat
    PROVE  /\ Described(kind, n) \subseteq 1..n
           /\ IsFiniteSet(Described(kind, n))
           /\ Cardinality(Described(kind, n)) \in Nat
<1>1. Described(kind, n) \subseteq 1..n
    BY DEF Described
<1>2. IsFiniteSet(1..n)
    BY FS_Interval
<1>3. IsFiniteSet(Described(kind, n))
    BY <1>1, <1>2, FS_Subset
<1> QED
    BY <1>1, <1>3, FS_CardinalityType

\* One more line adds itself to the described lines, or nothing.
LEMMA DescribedGrows ==
    ASSUME NEW kind, NEW n \in Nat
    PROVE  Described(kind, n + 1) =
               IF file[n + 1].kind = kind /\ UnderHeading(n + 1)
               THEN Described(kind, n) \cup {n + 1} ELSE Described(kind, n)
<1>1. \A i : i \in 1..n + 1 <=> i \in 1..n \/ i = n + 1
    OBVIOUS
<1> QED
    BY <1>1 DEF Described

\* A described line adds one to the number of described lines.
LEMMA DescribedCount ==
    ASSUME NEW kind, NEW n \in Nat, file[n + 1].kind = kind, UnderHeading(n + 1)
    PROVE  Cardinality(Described(kind, n + 1)) = Cardinality(Described(kind, n)) + 1
<1>1. n + 1 \notin Described(kind, n)
    BY DescribedFinite
<1>2. Described(kind, n + 1) = Described(kind, n) \cup {n + 1}
    BY DescribedGrows
<1> QED
    BY <1>1, <1>2, DescribedFinite, FS_AddElement

\* Up to an earlier line there are no more of them.
LEMMA DescribedMonotone ==
    ASSUME NEW kind, NEW n \in Nat, NEW i \in Described(kind, n)
    PROVE  /\ i \in 1..n
           /\ Cardinality(Described(kind, i)) \in 1..Cardinality(Described(kind, n))
<1>1. i \in 1..n /\ i \in Described(kind, i) /\ Described(kind, i) \subseteq Described(kind, n)
    BY DEF Described
<1>2. Cardinality(Described(kind, i)) <= Cardinality(Described(kind, n))
    BY <1>1, DescribedFinite, FS_Subset
<1>3. Cardinality(Described(kind, i)) # 0
    BY <1>1, DescribedFinite, FS_EmptySet
<1> QED
    BY <1>1, <1>2, <1>3, DescribedFinite

\* A heading starts afresh, any other line changes nothing about the heading.
LEMMA UnderNext ==
    ASSUME NEW n \in Nat
    PROVE  UnderHeading(n + 2) <=>
               IF file[n + 1].kind = "iface" THEN file[n + 1].name = "eth0" ELSE UnderHeading(n + 1)
<1>1. CASE file[n + 1].kind = "iface"
    <2>1. UnderHeading(n + 2) => file[n + 1].name = "eth0"
        <3>1. SUFFICES ASSUME NEW h \in 1..n + 1, file[h].name = "eth0",
                              \A j \in h + 1..n + 1 : file[j].kind # "iface"
                       PROVE  h = n + 1
            BY DEF UnderHeading
        <3> QED
            BY <1>1, <3>1
    <2>2. ASSUME file[n + 1].name = "eth0" PROVE UnderHeading(n + 2)
        <3>1. n + 1 \in 1..(n + 2) - 1 /\ (n + 1) + 1..(n + 2) - 1 = {}
            OBVIOUS
        <3> QED
            BY <1>1, <2>2, <3>1 DEF UnderHeading
    <2> QED
        BY <1>1, <2>1, <2>2
<1>2. CASE file[n + 1].kind # "iface"
    <2>1. ASSUME UnderHeading(n + 2) PROVE UnderHeading(n + 1)
        <3>1. PICK h \in 1..n + 1 : /\ file[h].kind = "iface" /\ file[h].name = "eth0"
                                    /\ \A j \in h + 1..n + 1 : file[j].kind # "iface"
            BY <2>1 DEF UnderHeading
        <3>2. h \in 1..n
            BY <1>2, <3>1
        <3> QED
            BY <3>1, <3>2 DEF UnderHeading
    <2>2. ASSUME UnderHeading(n + 1) PROVE UnderHeading(n + 2)
        <3>1. PICK h \in 1..n : /\ file[h].kind = "iface" /\ file[h].name = "eth0"
                                /\ \A j \in h + 1..n : file[j].kind # "iface"
            BY <2>2 DEF UnderHeading
        <3>2. \A j \in h + 1..n + 1 : file[j].kind # "iface"
            BY <1>2, <3>1
        <3> QED
            BY <3>1, <3>2 DEF UnderHeading
    <2> QED
        BY <1>2, <2>1, <2>2
<1> QED
    BY <1>1, <1>2

-----------------------------------------------------------------------------
\* The lines that are described and carry a mask.
Carry(n) == {j \in Described("inet", n) \cup Described("route", n) : file[j].mask # None}

\* What MaskWritten says, in terms of these lines.
LEMMA MaskWrittenIs ==
    ASSUME NEW i, NEW m
    PROVE  MaskWritten(i, m) <=>
               \/ Carry(i) = {} /\ m = 0
               \/ \E j \in Carry(i) : (\A k \in Carry(i) : k <= j) /\ m = file[j].mask % 256
BY DEF MaskWritten, Carry

\* The mask behind a described line is the one it carries or inherits.
LEMMA MaskGoesOn ==
    ASSUME ConfigTypeOK, line < Len(file), UnderHeading(line + 1), MaskFollowed,
           This.kind \in {"inet", "route"}
    PROVE  MaskWritten(line + 1, MaskOf(This))
<1> DEFINE i == line + 1
<1>1. line \in Nat /\ This = file[i] /\ i \in Nat
    BY DEF ConfigTypeOK, This
<1>2. i \in Described("inet", i) \cup Described("route", i)
    BY <1>1, DescribedGrows
<1>3. ASSUME NEW kind
      PROVE  /\ Described(kind, line) \subseteq 1..line /\ Described(kind, i) \subseteq 1..i
             /\ Described(kind, i) \ {i} = Described(kind, line)
    <2>1. Described(kind, line) \subseteq 1..line /\ Described(kind, i) \subseteq 1..i
        BY <1>1, DescribedFinite
    <2>2. Described(kind, i) = Described(kind, line) \cup {i} \/ Described(kind, i) = Described(kind, line)
        BY <1>1, DescribedGrows
    <2>3. i \notin Described(kind, line)
        BY <1>1, <2>1
    <2> QED
        BY <2>1, <2>2, <2>3
<1>4. CASE This.mask = None
    <2>1. \A j : j \in Carry(i) <=> j \in Carry(line)
        BY <1>1, <1>3, <1>4 DEF Carry
    <2>2. Carry(i) = Carry(line)
        BY <2>1
    <2> QED
        BY <1>4, <2>2, MaskWrittenIs DEF MaskFollowed, MaskOf
<1>5. CASE This.mask # None
    <2>1. i \in Carry(i)
        BY <1>1, <1>2, <1>5 DEF Carry
    <2>2. \A k \in Carry(i) : k <= i
        BY <1>1, <1>3 DEF Carry
    <2> QED
        BY <1>1, <1>5, <2>1, <2>2, MaskWrittenIs DEF MaskOf
<1> QED
    BY <1>4, <1>5

\* A line that is not described leaves the masks as they are.
LEMMA MaskStays ==
    ASSUME ConfigTypeOK, MaskFollowed,
           This.kind \in {"inet", "route"} => ~UnderHeading(line + 1)
    PROVE  MaskWritten(line + 1, mask)
<1>1. line \in Nat /\ This = file[line + 1]
    BY DEF ConfigTypeOK, This
<1>2. /\ Described("inet", line + 1) = Described("inet", line)
      /\ Described("route", line + 1) = Described("route", line)
    BY <1>1, DescribedGrows
<1>3. Carry(line + 1) = Carry(line)
    BY <1>2 DEF Carry
<1> QED
    BY <1>3, MaskWrittenIs DEF MaskFollowed

-----------------------------------------------------------------------------
\* Where a described line lies in its table, and what it says there.
AddrsUnderstood(n, as) ==
    /\ Len(as) = Cardinality(Described("inet", n))
    /\ \A i \in Described("inet", n) :
          LET a == as[Cardinality(Described("inet", i))]
          IN  a.addr = Aton(file[i].addr) /\ MaskWritten(i, a.mask)
RoutesUnderstood(n, rs) ==
    /\ Len(rs) = Cardinality(Described("route", n))
    /\ \A i \in Described("route", n) :
          LET r == rs[Cardinality(Described("route", i))]
          IN  /\ r.addr = Aton(file[i].addr) /\ r.via = Aton(file[i].via)
              /\ MaskWritten(i, r.mask)

\* A line that is not of the kind leaves the table as it is.
LEMMA TableStays ==
    ASSUME NEW n \in Nat, NEW t
    PROVE  /\ AddrsUnderstood(n, t) /\ ~(file[n + 1].kind = "inet" /\ UnderHeading(n + 1))
                => AddrsUnderstood(n + 1, t)
           /\ RoutesUnderstood(n, t) /\ ~(file[n + 1].kind = "route" /\ UnderHeading(n + 1))
                => RoutesUnderstood(n + 1, t)
BY DescribedGrows DEF AddrsUnderstood, RoutesUnderstood

\* A line of the kind adds its entry at the end.
LEMMA AddrsGrow ==
    ASSUME NEW n \in Nat, NEW S, NEW t \in Seq(S), NEW e \in S, AddrsUnderstood(n, t),
           file[n + 1].kind = "inet", UnderHeading(n + 1),
           e.addr = Aton(file[n + 1].addr), MaskWritten(n + 1, e.mask)
    PROVE  AddrsUnderstood(n + 1, Append(t, e))
<1> DEFINE D(k) == Described("inet", k)
           c(k) == Cardinality(Described("inet", k))
<1>1. c(n + 1) = c(n) + 1 /\ c(n) \in Nat /\ Len(t) = c(n)
    BY DescribedCount, DescribedFinite DEF AddrsUnderstood
<1>2. Len(Append(t, e)) = c(n + 1)
    BY <1>1, AppendType
<1>3. ASSUME NEW i \in D(n + 1)
      PROVE  LET a == Append(t, e)[c(i)]
             IN  a.addr = Aton(file[i].addr) /\ MaskWritten(i, a.mask)
    <2>1. CASE i = n + 1
        <3>1. Append(t, e)[c(i)] = e
            BY <1>1, <2>1, AppendType
        <3> QED
            BY <2>1, <3>1
    <2>2. CASE i # n + 1
        <3>1. i \in D(n)
            BY <1>3, <2>2, DescribedGrows
        <3>2. c(i) \in 1..Len(t)
            BY <1>1, <3>1, DescribedMonotone
        <3>3. Append(t, e)[c(i)] = t[c(i)]
            BY <3>2, AppendType
        <3> QED
            BY <3>1, <3>3 DEF AddrsUnderstood
    <2> QED
        BY <2>1, <2>2
<1> QED
    BY <1>2, <1>3 DEF AddrsUnderstood

\* The same for a route.
LEMMA RoutesGrow ==
    ASSUME NEW n \in Nat, NEW S, NEW t \in Seq(S), NEW e \in S, RoutesUnderstood(n, t),
           file[n + 1].kind = "route", UnderHeading(n + 1),
           e.addr = Aton(file[n + 1].addr), e.via = Aton(file[n + 1].via),
           MaskWritten(n + 1, e.mask)
    PROVE  RoutesUnderstood(n + 1, Append(t, e))
<1> DEFINE D(k) == Described("route", k)
           c(k) == Cardinality(Described("route", k))
<1>1. c(n + 1) = c(n) + 1 /\ c(n) \in Nat /\ Len(t) = c(n)
    BY DescribedCount, DescribedFinite DEF RoutesUnderstood
<1>2. Len(Append(t, e)) = c(n + 1)
    BY <1>1, AppendType
<1>3. ASSUME NEW i \in D(n + 1)
      PROVE  LET r == Append(t, e)[c(i)]
             IN  /\ r.addr = Aton(file[i].addr) /\ r.via = Aton(file[i].via)
                 /\ MaskWritten(i, r.mask)
    <2>1. CASE i = n + 1
        <3>1. Append(t, e)[c(i)] = e
            BY <1>1, <2>1, AppendType
        <3> QED
            BY <2>1, <3>1
    <2>2. CASE i # n + 1
        <3>1. i \in D(n)
            BY <1>3, <2>2, DescribedGrows
        <3>2. c(i) \in 1..Len(t)
            BY <1>1, <3>1, DescribedMonotone
        <3>3. Append(t, e)[c(i)] = t[c(i)]
            BY <3>2, AppendType
        <3> QED
            BY <3>1, <3>3 DEF RoutesUnderstood
    <2> QED
        BY <2>1, <2>2
<1> QED
    BY <1>2, <1>3 DEF RoutesUnderstood

-----------------------------------------------------------------------------
\* ConfigUnderstood in terms of the two tables.
LEMMA UnderstoodIs ==
    ConfigUnderstood <=>
        (reading => /\ \A i \in 1..line : file[i].kind # "empty"
                    /\ AddrsUnderstood(line, addrs)
                    /\ RoutesUnderstood(line, routes))
BY Zenon DEF ConfigUnderstood, AddrsUnderstood, RoutesUnderstood

\* The same of the next state.
LEMMA UnderstoodNext ==
    ConfigUnderstood' <=>
        (reading => /\ \A i \in 1..line : file[i].kind # "empty"
                    /\ AddrsUnderstood(line, addrs)
                    /\ RoutesUnderstood(line, routes))'
BY UnderstoodIs, PTL

\* As long as the file is the same one, its lines mean the same.
LEMMA SameFile ==
    ASSUME file' = file
    PROVE  /\ MaskWritten(line, mask)' <=> MaskWritten(line', mask')
           /\ AddrsUnderstood(line, addrs)' <=> AddrsUnderstood(line', addrs')
           /\ RoutesUnderstood(line, routes)' <=> RoutesUnderstood(line', routes')
           /\ UnderHeading(line + 1)' <=> UnderHeading(line' + 1)
<1>1. \A k, n : Described(k, n)' = Described(k, n)
    BY DEF Described, UnderHeading
<1>2. \A i, m : MaskWritten(i, m)' <=> MaskWritten(i, m)
    BY <1>1 DEF MaskWritten
<1> QED
    BY <1>1, <1>2 DEF AddrsUnderstood, RoutesUnderstood, MaskWritten, UnderHeading

\* Reading a line keeps the invariant.
LEMMA ReadLineInv ==
    ASSUME ConfigInv, ReadLine
    PROVE  ConfigInv'
<1>1. /\ line \in Nat /\ line < Len(file) /\ This = file[line + 1] /\ This \in Line
      /\ This.kind # "empty"
    BY DEF ConfigInv, ConfigTypeOK, ReadLine, AtEnd, This
<1>2. ConfigTypeOK /\ HeadingFollowed /\ MaskFollowed /\ ConfigUnderstood
    BY DEF ConfigInv, ReadLine
<1>3. ConfigTypeOK'
    BY <1>2, ReadLineType
<1>4. file' = file /\ line' = line + 1 /\ reading
    BY DEF ReadLine
<1>5. \A i \in 1..line' : file'[i].kind # "empty"
    <2>1. \A i \in 1..line : file[i].kind # "empty"
        BY <1>2, <1>4, UnderstoodIs
    <2> QED
        BY <1>1, <1>4, <2>1
<1>6. AddrsUnderstood(line, addrs) /\ RoutesUnderstood(line, routes)
    BY <1>2, <1>4, UnderstoodIs
<1>7. HeadingFollowed'
    <2>1. UnderHeading(line + 2) <=>
              IF This.kind = "iface" THEN This.name = "eth0" ELSE UnderHeading(line + 1)
        BY <1>1, UnderNext
    <2>2. iface' <=> IF This.kind = "iface" THEN This.name = "eth0" ELSE iface
        <3>1. CASE Heading
            BY <3>1 DEF Heading
        <3>2. CASE Inet \/ RouteTo \/ Skip
            BY <3>2 DEF Inet, RouteTo, Skip
        <3> QED
            BY <3>1, <3>2 DEF ReadLine
    <2>3. UnderHeading(line + 2) <=> iface'
        BY <1>2, <2>1, <2>2 DEF HeadingFollowed
    <2>4. UnderHeading(line + 2) <=> UnderHeading(line + 1)'
        <3>1. line' + 1 = line + 2
            BY <1>1, <1>4
        <3> QED
            BY <1>4, <3>1, SameFile
    <2> QED
        BY <2>3, <2>4 DEF HeadingFollowed
<1>8. /\ MaskWritten(line + 1, mask')
      /\ AddrsUnderstood(line + 1, addrs')
      /\ RoutesUnderstood(line + 1, routes')
    <2>1. CASE Heading \/ Skip
        <3>1. This.kind \in {"inet", "route"} => ~UnderHeading(line + 1)
            BY <1>2, <2>1 DEF Heading, Skip, HeadingFollowed
        <3>2. mask' = mask /\ addrs' = addrs /\ routes' = routes
            BY <2>1 DEF Heading, Skip
        <3> QED
            BY <1>1, <1>2, <1>6, <3>1, <3>2, MaskStays, TableStays
    <2>2. CASE Inet
        <3>1. This.kind = "inet" /\ UnderHeading(line + 1)
            BY <1>2, <2>2 DEF Inet, HeadingFollowed
        <3>2. MaskWritten(line + 1, mask')
            BY <1>1, <1>2, <2>2, <3>1, MaskGoesOn DEF Inet
        <3> DEFINE e == [addr |-> Aton(This.addr), mask |-> mask']
        <3>3. addrs' = Append(addrs, e) /\ routes' = routes /\ addrs' \in Seq(Inaddr)
            BY <1>3, <2>2 DEF Inet, ConfigTypeOK
        <3>4. InetOk /\ This.addr \in Numbers
            BY <1>1, <3>1, <2>2 DEF ReadLine, LineOk, Inet, Line
        <3>5. e \in Inaddr /\ addrs \in Seq(Inaddr)
            BY <1>2, <1>3, <3>4, AtonType DEF InetOk, ConfigTypeOK, Inaddr
        <3>6. e.addr = Aton(file[line + 1].addr) /\ e.mask = mask'
            BY <1>1
        <3> HIDE DEF e
        <3>7. AddrsUnderstood(line + 1, Append(addrs, e))
            BY <1>1, <1>6, <3>1, <3>2, <3>5, <3>6, AddrsGrow
        <3>8. RoutesUnderstood(line + 1, routes)
            BY <1>1, <1>6, <3>1, TableStays
        <3> QED
            BY <3>2, <3>3, <3>7, <3>8
    <2>3. CASE RouteTo
        <3>1. This.kind = "route" /\ UnderHeading(line + 1)
            BY <1>2, <2>3 DEF RouteTo, HeadingFollowed
        <3>2. MaskWritten(line + 1, mask')
            BY <1>1, <1>2, <2>3, <3>1, MaskGoesOn DEF RouteTo
        <3> DEFINE e == [addr |-> Aton(This.addr), mask |-> mask', via |-> Aton(This.via)]
        <3>3. routes' = Append(routes, e) /\ addrs' = addrs
            BY <2>3 DEF RouteTo
        <3>4. RouteOk /\ This.addr \in Numbers
            BY <1>1, <3>1, <2>3 DEF ReadLine, LineOk, RouteTo, Line
        <3>5. This.via \in Numbers
            BY <1>1, <3>4 DEF RouteOk, Line
        <3>6. e \in Route /\ routes \in Seq(Route)
            BY <1>2, <1>3, <3>4, <3>5, AtonType DEF RouteOk, ConfigTypeOK, Route
        <3>7. e.addr = Aton(file[line + 1].addr) /\ e.via = Aton(file[line + 1].via) /\ e.mask = mask'
            BY <1>1
        <3> HIDE DEF e
        <3>8. RoutesUnderstood(line + 1, Append(routes, e))
            BY <1>1, <1>6, <3>1, <3>2, <3>6, <3>7, RoutesGrow
        <3>9. AddrsUnderstood(line + 1, addrs)
            BY <1>1, <1>6, <3>1, TableStays
        <3> QED
            BY <3>2, <3>3, <3>8, <3>9
    <2> QED
        BY <2>1, <2>2, <2>3 DEF ReadLine
<1>9. MaskFollowed' /\ ConfigUnderstood'
    <2>1. /\ MaskWritten(line, mask)' <=> MaskWritten(line + 1, mask')
          /\ AddrsUnderstood(line, addrs)' <=> AddrsUnderstood(line + 1, addrs')
          /\ RoutesUnderstood(line, routes)' <=> RoutesUnderstood(line + 1, routes')
        BY <1>4, SameFile
    <2>2. (reading => /\ \A i \in 1..line : file[i].kind # "empty"
                      /\ AddrsUnderstood(line, addrs)
                      /\ RoutesUnderstood(line, routes))'
        BY <1>5, <1>8, <2>1
    <2> QED
        BY <1>8, <2>1, <2>2, UnderstoodNext DEF MaskFollowed
<1> QED
    BY <1>3, <1>7, <1>9 DEF ConfigInv

\* The tables hold what the lines read so far describe, and nothing else.
THEOREM ConfigRight == ConfigSpec => []ConfigUnderstood
<1>1. ConfigInit => ConfigInv
    <2> SUFFICES ASSUME ConfigInit PROVE ConfigInv
        OBVIOUS
    <2>1. ConfigTypeOK
        BY ConfigInitType
    <2>2. line = 0 /\ mask = 0 /\ ~iface /\ addrs = <<>> /\ routes = <<>>
        BY DEF ConfigInit
    <2>3. \A kind : Described(kind, 0) = {}
        BY DEF Described
    <2>4. HeadingFollowed
        BY <2>2 DEF HeadingFollowed, UnderHeading
    <2>5. MaskFollowed
        BY <2>2, <2>3 DEF MaskFollowed, MaskWritten
    <2>6. AddrsUnderstood(0, <<>>) /\ RoutesUnderstood(0, <<>>)
        BY <2>3, FS_EmptySet DEF AddrsUnderstood, RoutesUnderstood
    <2> QED
        BY <2>1, <2>2, <2>4, <2>5, <2>6, UnderstoodIs DEF ConfigInv
<1>2. ConfigInv /\ [ConfigNext]_configVars => ConfigInv'
    <2> SUFFICES ASSUME ConfigInv, [ConfigNext]_configVars PROVE ConfigInv'
        OBVIOUS
    <2>1. CASE ReadLine
        BY <2>1, ReadLineInv
    <2>2. CASE CloseFile
        <3>1. ConfigTypeOK'
            BY <2>2, ConfigNextType DEF ConfigInv, ConfigNext
        <3> QED
            BY <2>2, <3>1 DEF CloseFile, ConfigInv, ConfigUnderstood
    <2>3. CASE UNCHANGED configVars
        <3>1. ConfigTypeOK'
            BY <2>3, ConfigNextType DEF ConfigInv
        <3>2. ConfigUnderstood'
            BY <2>3, SameFile, UnderstoodIs, UnderstoodNext DEF ConfigInv, configVars
        <3>3. reading' => HeadingFollowed' /\ MaskFollowed'
            BY <2>3, SameFile DEF ConfigInv, configVars, HeadingFollowed, MaskFollowed
        <3> QED
            BY <3>1, <3>2, <3>3 DEF ConfigInv
    <2> QED
        BY <2>1, <2>2, <2>3 DEF ConfigNext
<1>3. ConfigInv => ConfigUnderstood
    BY DEF ConfigInv
<1> QED
    BY <1>1, <1>2, <1>3, PTL DEF ConfigSpec
=============================================================================
