----------------------------- MODULE ArpProofs -----------------------------
(***************************************************************************)
(* Theorems about Arp for every set of configuration files and gateways,   *)
(* every number of slots and every number of packets. Each step of the     *)
(* composition is one of the driver's module or leaves its state alone, so *)
(* that what is proved of the driver holds with ARP on top of it.          *)
(***************************************************************************)
EXTENDS Arp, Rtl8139Proofs, NetConfigProofs, WellFoundedInduction

-----------------------------------------------------------------------------
\* What the kernel does with a packet is what the driver's module allows.
LEMMA HandlePacketUsesDriver ==
    ASSUME HandlePacket
    PROVE  Handle \/ CallerPanics
<1>1. Running /\ phase = "acked"
    BY DEF HandlePacket
<1>2. CASE Ignore
    BY <1>1, <1>2 DEF Ignore, Handle, cardVars, driverVars
<1>3. CASE GotPacket /\ Reply
    BY <1>1, <1>3 DEF Reply, Handle, CallerPanics
<1>4. ASSUME GotPacket, NEW g, Resolve(g)
      PROVE  Handle \/ CallerPanics
    BY <1>1, <1>4 DEF Resolve, Handle, CallerPanics, cardVars, driverVars
<1> QED
    BY <1>2, <1>3, <1>4 DEF HandlePacket

\* A step of the composition is a step of the driver and its card, or none.
LEMMA StepUsesDriver ==
    ASSUME [ArpNext]_netVars
    PROVE  [RtlNext]_rtlVars
<1>1. CASE LoadConfig
    BY <1>1 DEF LoadConfig, RtlNext
<1>2. CASE PostConfig
    BY <1>2 DEF PostConfig, RtlNext
<1>3. CASE PostConfigDone
    BY <1>3 DEF PostConfigDone, RtlNext
<1>4. CASE HandlePacket
    BY <1>4, HandlePacketUsesDriver DEF RtlNext
<1>5. CASE RingDone
    BY <1>5 DEF RingDone, RtlNext
<1>6. CASE PacketArrives
    BY <1>6 DEF PacketArrives, RtlNext
<1>7. CASE (IrqEnter \/ Branch \/ CardSends) /\ UNCHANGED arpVars
    BY <1>7 DEF RtlNext
<1>8. CASE Waits /\ UNCHANGED arpVars
    BY <1>8 DEF RtlNext
<1>9. CASE UNCHANGED netVars
    BY <1>9 DEF netVars
<1> QED
    BY <1>1, <1>2, <1>3, <1>4, <1>5, <1>6, <1>7, <1>8, <1>9 DEF ArpNext

\* ARP uses the driver only as the driver's module says: while the kernel
\* boots, and in the interrupt handler for a packet that was received.
THEOREM ArpRefinesDriver == ArpSpec => ArpUsesDriver
<1>1. ArpInit => RtlInit
    BY DEF ArpInit
<1>2. [ArpNext]_netVars => [RtlNext]_rtlVars
    BY StepUsesDriver
<1> QED
    BY <1>1, <1>2, PTL DEF ArpSpec, ArpUsesDriver, RtlSpec

\* A step of the composition reads a line, closes the file, or leaves the
\* tables alone.
LEMMA StepConfigures ==
    ASSUME [ArpNext]_netVars
    PROVE  [ConfigNext]_configVars
<1>1. CASE LoadConfig
    BY <1>1 DEF LoadConfig
<1>2. CASE PostConfig
    BY <1>2 DEF PostConfig
<1>3. CASE HandlePacket
    BY <1>3 DEF HandlePacket, Ignore, Reply, Resolve, arpVars
<1>4. CASE PacketArrives
    BY <1>4 DEF PacketArrives
<1>5. CASE UNCHANGED arpVars
    BY <1>5 DEF arpVars
<1> QED
    BY <1>1, <1>2, <1>3, <1>4, <1>5 DEF ArpNext, PostConfigDone, RingDone, netVars

\* The tables are filled as NetConfig says, and then stay as they are.
THEOREM ArpConfigures == ArpSpec => ConfigSpec
<1>1. ArpInit => ConfigInit
    BY DEF ArpInit
<1>2. [ArpNext]_netVars => [ConfigNext]_configVars
    BY StepConfigures
<1> QED
    BY <1>1, <1>2, PTL DEF ArpSpec, ConfigSpec

\* Whatever the network does, the tables hold what the lines describe.
THEOREM TablesRight == ArpSpec => []ConfigUnderstood
BY ArpConfigures, ConfigRight, PTL

-----------------------------------------------------------------------------
\* Some indices have a least one.
LEMMA LeastIndex ==
    ASSUME NEW n \in Nat, NEW S \in SUBSET (1..n), S # {}
    PROVE  FirstRoute(S) \in S
<1> DEFINE Less == {ss \in Nat \X Nat : ss[1] < ss[2]}
<1>1. IsWellFoundedOn(Less, Nat)
    <2>1. Less = OpToRel(<, Nat)
        BY DEF OpToRel
    <2> QED
        BY <2>1, NatLessThanWellFounded
<1>2. S \subseteq Nat /\ \A x, y \in Nat : <<y, x>> \notin Less => x <= y
    OBVIOUS
<1> HIDE DEF Less
<1>3. PICK x \in S : \A y \in S : <<y, x>> \notin Less
    BY <1>1, <1>2, WFMin
<1>4. \A y \in S : x <= y
    BY <1>2, <1>3
<1> QED
    BY <1>4 DEF FirstRoute

\* Nothing is asked for before the tables are complete, nor handled before
\* interrupts are on or the packet has come.
BootOrder ==
    /\ reading => asked = 0 /\ phase = "boot"
    /\ phase = "boot" => cbrPrev = 0
    /\ cbrPrev <= cbr

ArpInv ==
    /\ RtlTypeOK /\ ConfigTypeOK /\ ArpTypeOK
    /\ BootOrder
    /\ ResolvedByGateway

\* The driver's part of a step of ARP, for what the invariant needs of it.
LEMMA HandledAs ==
    ASSUME ArpInv, HandlePacket
    PROVE  /\ UNCHANGED <<configVars, asked, waiting, ring, cbr, cbrPrev>>
           /\ phase = "acked" /\ phase' \in {"acked", "handled"}
           /\ \/ resolved' = resolved
              \/ \E g \in Gateway :
                    /\ waiting /\ RoutesOver(g) # {}
                    /\ \E k \in DOMAIN ring : ring[k] = <<"answer", g>>
                    /\ resolved' = resolved \cup {FirstRoute(RoutesOver(g))}
<1>1. phase = "acked"
    BY DEF HandlePacket
<1>2. CASE Ignore
    BY <1>1, <1>2 DEF Ignore, arpVars, postVars, cardVars
<1>3. CASE Reply
    BY <1>1, <1>3 DEF Reply, arpVars, postVars, cardVars, recvVars, CallerPanics, Panic
<1>4. ASSUME GotPacket, NEW p, p = ring[cbrPrev + 1], p[1] = "answer", waiting, Resolve(p[2])
      PROVE  /\ UNCHANGED <<configVars, asked, waiting, ring, cbr, cbrPrev>>
             /\ phase' \in {"acked", "handled"}
             /\ \/ resolved' = resolved
                \/ \E g \in Gateway :
                      /\ waiting /\ RoutesOver(g) # {}
                      /\ \E k \in DOMAIN ring : ring[k] = <<"answer", g>>
                      /\ resolved' = resolved \cup {FirstRoute(RoutesOver(g))}
    <2>1. cbrPrev + 1 \in DOMAIN ring /\ p \in Packet
        BY <1>4 DEF ArpInv, ArpTypeOK, RtlTypeOK, GotPacket
    <2>2. PICK g \in Gateway : p = <<"answer", g>>
        BY <1>4, <2>1 DEF Packet
    <2>3. p[2] = g
        BY <2>2
    <2>4. CASE RoutesOver(g) = {} /\ CallerPanics /\ UNCHANGED arpVars
        BY <1>1, <2>4 DEF CallerPanics, Panic, arpVars, postVars, cardVars, recvVars
    <2>5. CASE RoutesOver(g) # {}
        BY <1>4, <2>1, <2>2, <2>3, <2>5 DEF Resolve, cardVars
    <2> QED
        BY <1>4, <2>3, <2>4, <2>5 DEF Resolve
<1> QED
    BY <1>1, <1>2, <1>3, <1>4 DEF HandlePacket

\* A packet's arrival, or a damaged one, adds to the ring only at its end.
LEMMA ArrivesAs ==
    ASSUME ArpInv, PacketArrives
    PROVE  /\ UNCHANGED <<configVars, asked, waiting, resolved, phase, cbrPrev, accepted>>
           /\ ring' \in Seq(Packet) /\ Len(ring') = cbr' /\ cbr <= cbr'
           /\ \A k \in DOMAIN ring : k \in DOMAIN ring' /\ ring'[k] = ring[k]
<1>1. ring \in Seq(Packet) /\ Len(ring) = cbr
    BY DEF ArpInv, ArpTypeOK
<1>2. UNCHANGED <<configVars, asked, waiting, resolved, phase, cbrPrev, accepted>>
    BY DEF PacketArrives, CardReceives, recvVars, driverVars
<1>3. CASE cbr' = cbr
    BY <1>1, <1>2, <1>3 DEF PacketArrives
<1>4. CASE cbr' = cbr + 1
    <2>1. PICK p \in Packet : ring' = Append(ring, p)
        BY <1>1, <1>4 DEF PacketArrives
    <2> QED
        BY <1>1, <1>2, <1>4, <2>1, AppendType
<1> QED
    BY <1>3, <1>4 DEF PacketArrives, CardReceives

\* Every other step leaves the packets and what was learnt from them alone.
LEMMA OthersAs ==
    ASSUME ArpInv, [ArpNext]_netVars, ~HandlePacket, ~PacketArrives
    PROVE  /\ UNCHANGED <<ring, resolved, cbr>>
           /\ asked' \in {asked, asked + 1} /\ (asked' # asked => PostConfig)
           /\ waiting' \in {waiting, TRUE}
           /\ UNCHANGED configVars \/ LoadConfig
<1>1. CASE LoadConfig
    BY <1>1 DEF LoadConfig, postVars, rtlVars, cardVars, CallerPanics, Panic
<1>2. CASE PostConfig
    BY <1>2 DEF PostConfig, BootSend, CallerPanics, Panic, cardVars, rtlVars
<1>3. CASE UNCHANGED arpVars /\ UNCHANGED cbr
    BY <1>3 DEF arpVars, postVars
<1>4. CASE PostConfigDone \/ RingDone
    BY <1>3, <1>4 DEF PostConfigDone, RingDone, IrqEnable, RecvDone, cardVars
<1>5. CASE (IrqEnter \/ Branch \/ CardSends) /\ UNCHANGED arpVars
    BY <1>3, <1>5 DEF IrqEnter, Branch, CardSends, Transmit, RecvOk, TransmitOk, RecvErr, Unhandled,
        Panic, cardVars
<1>6. CASE Waits /\ UNCHANGED arpVars
    BY <1>3, <1>6 DEF Waits, rtlVars, cardVars
<1>7. CASE UNCHANGED netVars
    BY <1>3, <1>7 DEF netVars, rtlVars, cardVars
<1> QED
    BY <1>1, <1>2, <1>4, <1>5, <1>6, <1>7 DEF ArpNext

\* Routes that are in the table stay there as they are.
LEMMA RoutesStay ==
    ASSUME ConfigTypeOK, [ConfigNext]_configVars
    PROVE  Len(routes) <= Len(routes') /\ \A i \in DOMAIN routes : routes'[i] = routes[i]
<1>1. CASE UNCHANGED routes
    BY <1>1 DEF ConfigTypeOK
<1>2. CASE ReadLine /\ RouteTo
    <2>1. PICK r : routes' = Append(routes, r)
        BY <1>2 DEF RouteTo
    <2>2. routes \in Seq(Route) /\ routes' \in Seq(Route)
        BY ConfigNextType DEF ConfigTypeOK
    <2> QED
        BY <2>1, <2>2
<1> QED
    BY <1>1, <1>2 DEF ConfigNext, ReadLine, Heading, Inet, Skip, CloseFile, configVars

\* The order of booting, step by step.
LEMMA BootOrderStep ==
    ASSUME ArpInv, [ArpNext]_netVars
    PROVE  BootOrder'
<1>1. BootOrder /\ cbr \in Nat /\ cbrPrev \in Nat
    BY DEF ArpInv, RtlTypeOK
<1>2. CASE HandlePacket
    BY <1>1, <1>2, HandledAs DEF BootOrder, configVars
<1>3. CASE PacketArrives
    <2>1. cbr' \in Nat /\ cbr <= cbr'
        BY <1>1, <1>3, ArrivesAs DEF PacketArrives, CardReceives
    <2> QED
        BY <1>1, <1>3, <2>1, ArrivesAs DEF BootOrder, configVars
<1>4. CASE LoadConfig
    BY <1>1, <1>4 DEF BootOrder, LoadConfig, ConfigNext, ReadLine, CloseFile, postVars, rtlVars, recvVars, cardVars,
        CallerPanics, Panic, configVars
<1>5. CASE PostConfig
    BY <1>1, <1>5 DEF BootOrder, PostConfig, BootSend, CallerPanics, Panic, recvVars, cardVars, rtlVars, configVars
<1>6. CASE PostConfigDone \/ RingDone
    BY <1>1, <1>6 DEF BootOrder, PostConfigDone, RingDone, IrqEnable, RecvDone, cardVars, arpVars, postVars, configVars
<1>7. CASE (IrqEnter \/ Branch \/ CardSends) /\ UNCHANGED arpVars
    BY <1>1, <1>7 DEF BootOrder, IrqEnter, Branch, CardSends, Transmit, RecvOk, TransmitOk, RecvErr, Unhandled,
        Entered, Panic, recvVars, cardVars, arpVars, postVars, configVars
<1>8. CASE (Waits /\ UNCHANGED arpVars) \/ UNCHANGED netVars
    BY <1>1, <1>8 DEF BootOrder, Waits, netVars, rtlVars, recvVars, cardVars, arpVars, postVars, configVars
<1> QED
    BY <1>2, <1>3, <1>4, <1>5, <1>6, <1>7, <1>8 DEF ArpNext

\* The types, step by step.
LEMMA ArpTypeStep ==
    ASSUME ArpInv, RtlTypeOK', [ArpNext]_netVars
    PROVE  ArpTypeOK'
<1>1. ArpTypeOK /\ ConfigTypeOK /\ [ConfigNext]_configVars
    BY StepConfigures DEF ArpInv
<1>2. ConfigTypeOK' /\ Len(routes) <= Len(routes') /\ Len(routes) \in Nat /\ Len(routes') \in Nat
    BY <1>1, ConfigNextType, RoutesStay DEF ConfigTypeOK
<1>3. DOMAIN routes \subseteq DOMAIN routes'
    BY <1>1, <1>2 DEF ConfigTypeOK
<1>4. CASE HandlePacket
    <2>1. UNCHANGED <<configVars, asked, waiting, ring, cbr>>
        BY <1>4, HandledAs
    <2>2. resolved' \subseteq DOMAIN routes
        <3>1. \A g \in Gateway : RoutesOver(g) # {} => FirstRoute(RoutesOver(g)) \in DOMAIN routes
            <4>1. Len(routes) \in Nat /\ DOMAIN routes = 1..Len(routes)
                BY <1>1 DEF ConfigTypeOK
            <4>2. ASSUME NEW g \in Gateway, RoutesOver(g) # {}
                  PROVE  FirstRoute(RoutesOver(g)) \in RoutesOver(g)
                BY <4>1, <4>2, LeastIndex DEF RoutesOver
            <4> QED
                BY <4>2 DEF RoutesOver
        <3> QED
            BY <1>1, <1>4, <3>1, HandledAs DEF ArpTypeOK
    <2> QED
        BY <1>1, <1>2, <2>1, <2>2 DEF ArpTypeOK, configVars
<1>5. CASE PacketArrives
    BY <1>1, <1>2, <1>5, ArrivesAs DEF ArpTypeOK, configVars
<1>6. CASE ~HandlePacket /\ ~PacketArrives
    <2>1. UNCHANGED <<ring, resolved, cbr>> /\ waiting' \in BOOLEAN
        BY <1>1, <1>6, OthersAs DEF ArpTypeOK
    <2>2. asked' \in 0..Len(routes')
        <3>1. CASE asked' = asked
            BY <1>1, <1>2, <3>1 DEF ArpTypeOK
        <3>2. CASE PostConfig
            BY <1>1, <1>2, <3>2 DEF ArpTypeOK, PostConfig, configVars
        <3> QED
            BY <1>6, <3>1, <3>2, OthersAs
    <2> QED
        BY <1>1, <1>2, <1>3, <2>1, <2>2 DEF ArpTypeOK
<1> QED
    BY <1>4, <1>5, <1>6

\* Where an address comes from, step by step.
LEMMA ResolvedStep ==
    ASSUME ArpInv, [ArpNext]_netVars
    PROVE  ResolvedByGateway'
<1>1. ResolvedByGateway /\ ConfigTypeOK /\ [ConfigNext]_configVars /\ resolved \subseteq DOMAIN routes
    BY StepConfigures DEF ArpInv, ArpTypeOK
<1>2. \A i \in resolved : routes'[i] = routes[i]
    BY <1>1, RoutesStay
<1>3. CASE HandlePacket
    <2>1. UNCHANGED <<routes, waiting, ring>>
        BY <1>3, HandledAs DEF configVars
    <2>2. ASSUME NEW i \in resolved' \ resolved
          PROVE  waiting /\ \E k \in DOMAIN ring : ring[k] = <<"answer", routes[i].via>>
        <3>1. PICK g \in Gateway :
                  /\ waiting /\ RoutesOver(g) # {} /\ i = FirstRoute(RoutesOver(g))
                  /\ \E k \in DOMAIN ring : ring[k] = <<"answer", g>>
            BY <1>3, <2>2, HandledAs
        <3>2. Len(routes) \in Nat /\ DOMAIN routes = 1..Len(routes)
            BY <1>1 DEF ConfigTypeOK
        <3>3. RoutesOver(g) \in SUBSET (1..Len(routes))
            BY <3>2 DEF RoutesOver
        <3>4. i \in RoutesOver(g)
            BY <3>1, <3>2, <3>3, LeastIndex
        <3> QED
            BY <3>1, <3>4 DEF RoutesOver
    <2> QED
        BY <1>1, <2>1, <2>2 DEF ResolvedByGateway
<1>4. CASE PacketArrives
    <2>1. UNCHANGED <<routes, waiting, resolved>> /\ \A k \in DOMAIN ring : k \in DOMAIN ring' /\ ring'[k] = ring[k]
        BY <1>4, ArrivesAs DEF configVars
    <2> QED
        BY <1>1, <2>1 DEF ResolvedByGateway
<1>5. CASE ~HandlePacket /\ ~PacketArrives
    <2>1. UNCHANGED <<ring, resolved>> /\ (waiting => waiting')
        <3>1. waiting \in BOOLEAN
            BY DEF ArpInv, ArpTypeOK
        <3> QED
            BY <1>5, <3>1, OthersAs
    <2> QED
        BY <1>1, <1>2, <2>1 DEF ResolvedByGateway
<1> QED
    BY <1>3, <1>4, <1>5

\* The inductive invariant of ARP, with the driver's types underneath.
THEOREM ArpInvariant == ArpSpec => []ArpInv
<1>1. ArpInit => ArpInv
    <2> SUFFICES ASSUME ArpInit PROVE ArpInv
        OBVIOUS
    <2>1. RtlTypeOK
        BY RtlInitInv DEF ArpInit, RtlInv
    <2>2. ConfigTypeOK
        BY ConfigInitType DEF ArpInit
    <2>3. resolved = {} /\ ring = <<>> /\ asked = 0 /\ waiting = FALSE
        BY Zenon DEF ArpInit
    <2>4. cbr = 0 /\ cbrPrev = 0 /\ phase = "boot"
        BY DEF ArpInit, RtlInit
    <2>5. ArpTypeOK
        <3>1. Len(routes) \in Nat /\ <<>> \in Seq(Packet) /\ Len(<<>>) = 0
            BY <2>2 DEF ConfigTypeOK
        <3>2. waiting \in BOOLEAN
            BY <2>3, Zenon
        <3> QED
            BY <2>2, <2>3, <2>4, <3>1, <3>2 DEF ArpTypeOK
    <2> QED
        BY <2>1, <2>2, <2>3, <2>4, <2>5 DEF ArpInv, BootOrder, ResolvedByGateway
<1>2. ArpInv /\ RtlTypeOK' /\ [ArpNext]_netVars => ArpInv'
    BY ArpTypeStep, BootOrderStep, ResolvedStep DEF ArpInv, ArpTypeOK
<1>3. ArpSpec => []RtlTypeOK
    BY ArpRefinesDriver, RtlTypeCorrect, PTL DEF ArpUsesDriver
<1> QED
    BY <1>1, <1>2, <1>3, PTL DEF ArpSpec

\* Every variable keeps its type.
THEOREM ArpTypeCorrect == ArpSpec => []ArpTypeOK
<1>1. ArpInv => ArpTypeOK
    BY DEF ArpInv
<1> QED
    BY <1>1, ArpInvariant, PTL

\* A route gets an address only from an answer of its own gateway.
THEOREM ResolvedRight == ArpSpec => []ResolvedByGateway
<1>1. ArpInv => ResolvedByGateway
    BY DEF ArpInv
<1> QED
    BY <1>1, ArpInvariant, PTL

-----------------------------------------------------------------------------
(***************************************************************************)
(* How many packets are sent. Each near route pays for one, and each       *)
(* request for one: while a packet is handled it may already have been     *)
(* paid out, before that it has not.                                       *)
(***************************************************************************)
RequestsIn(n) == {k \in 1..cbr : k <= n /\ ring[k] = <<"request">>}
HandledUpTo   == IF phase = "handled" /\ GotPacket THEN cbrPrev + 1 ELSE cbrPrev

Paid == accepted <= Cardinality(Requests) + Cardinality(RequestsIn(HandledUpTo))

\* What the counts count.
Counted ==
    /\ IsFiniteSet(Requests) /\ Cardinality(Requests) \in Nat
    /\ IsFiniteSet(RequestsIn(HandledUpTo)) /\ Cardinality(RequestsIn(HandledUpTo)) \in Nat
    /\ HandledUpTo \in Nat

\* The requests asked for, and those received, are finitely many.
LEMMA RequestsFinite == ArpInv => Counted
<1> SUFFICES ASSUME ArpInv PROVE Counted
    OBVIOUS
<1>1. asked \in Nat /\ cbr \in Nat /\ cbrPrev \in Nat
    BY DEF ArpInv, ArpTypeOK, RtlTypeOK, ConfigTypeOK
<1>2. IsFiniteSet(1..asked) /\ IsFiniteSet(1..cbr)
    BY <1>1, FS_Interval
<1>3. Requests \subseteq 1..asked /\ RequestsIn(HandledUpTo) \subseteq 1..cbr
    BY DEF Requests, RequestsIn
<1>4. IsFiniteSet(Requests) /\ IsFiniteSet(RequestsIn(HandledUpTo))
    BY <1>2, <1>3, FS_Subset
<1>5. HandledUpTo \in Nat
    BY <1>1 DEF HandledUpTo
<1> QED
    BY <1>4, <1>5, FS_CardinalityType DEF Counted

\* A step that sends nothing and forgets nothing.
LEMMA NothingSent ==
    ASSUME ArpInv, ArpInv', Paid, accepted' = accepted, cbr <= cbr',
           \A k \in 1..cbr : ring'[k] = ring[k],
           HandledUpTo <= HandledUpTo',
           Requests \subseteq Requests'
    PROVE  Paid'
<1>1. Counted
    BY RequestsFinite
<1>2. Counted'
    BY RequestsFinite, PTL
<1>3. Cardinality(Requests) <= Cardinality(Requests')
    BY <1>2, FS_Subset DEF Counted
<1>4. RequestsIn(HandledUpTo) \subseteq RequestsIn(HandledUpTo)'
    BY <1>1, <1>2 DEF RequestsIn, Counted, ArpInv, RtlTypeOK
<1>5. Cardinality(RequestsIn(HandledUpTo)) <= Cardinality(RequestsIn(HandledUpTo)')
    BY <1>2, <1>4, FS_Subset DEF Counted
<1>6. accepted \in Nat
    BY DEF ArpInv, RtlTypeOK
<1> QED
    BY <1>1, <1>2, <1>3, <1>5, <1>6 DEF Paid, Counted

\* With the same tables the same routes are asked for.
LEMMA SameRequests ==
    ASSUME UNCHANGED configVars, asked' = asked
    PROVE  Requests' = Requests
BY DEF Requests, Near, Unsupported, TriesFirst, SameSubnet, configVars

\* A packet that is handled: only a request is replied to.
LEMMA HandlePacketPaid ==
    ASSUME ArpInv, ArpInv', Paid, HandlePacket
    PROVE  Paid'
<1>1. /\ UNCHANGED <<configVars, asked, ring, cbr, cbrPrev>> /\ phase = "acked"
      /\ cbr \in Nat /\ cbrPrev \in Nat /\ accepted \in Nat
    BY HandledAs DEF ArpInv, RtlTypeOK
<1>2. Requests' = Requests
    BY <1>1, SameRequests
<1>3. HandledUpTo = cbrPrev /\ HandledUpTo' \in {cbrPrev, cbrPrev + 1}
    BY <1>1 DEF HandledUpTo, GotPacket
<1>4. CASE accepted' = accepted
    BY <1>1, <1>2, <1>3, <1>4, NothingSent
<1>5. CASE GotPacket /\ ring[cbrPrev + 1] = <<"request">> /\ Reply /\ accepted' # accepted
    <2>1. accepted' = accepted + 1 /\ phase' = "handled"
        BY <1>5 DEF Reply, Tx, CallerPanics, Panic, driverVars
    <2>2. HandledUpTo' = cbrPrev + 1
        BY <1>1, <1>5, <2>1 DEF HandledUpTo, GotPacket
    <2>3. /\ RequestsIn(HandledUpTo)' = RequestsIn(HandledUpTo) \cup {cbrPrev + 1}
          /\ cbrPrev + 1 \notin RequestsIn(HandledUpTo)
        BY <1>1, <1>3, <1>5, <2>2 DEF RequestsIn, GotPacket
    <2>4. Counted
        BY RequestsFinite
    <2>5. Cardinality(RequestsIn(HandledUpTo)') = Cardinality(RequestsIn(HandledUpTo)) + 1
        BY <2>3, <2>4, FS_AddElement DEF Counted
    <2> QED
        BY <1>1, <1>2, <2>1, <2>4, <2>5 DEF Paid, Counted
<1>6. CASE Ignore
    BY <1>4, <1>6 DEF Ignore, driverVars
<1>7. ASSUME NEW g, Resolve(g) PROVE accepted' = accepted
    BY <1>7 DEF Resolve, CallerPanics, Panic, driverVars
<1> QED
    BY <1>4, <1>5, <1>6, <1>7 DEF HandlePacket

\* A route that is gone through: only a near one is asked for.
LEMMA PostConfigPaid ==
    ASSUME ArpInv, ArpInv', Paid, PostConfig
    PROVE  Paid'
<1>1. /\ asked \in Nat /\ asked' = asked + 1 /\ UNCHANGED <<configVars, ring>>
      /\ cbr \in Nat /\ cbrPrev \in Nat /\ accepted \in Nat
    BY DEF PostConfig, ArpInv, ArpTypeOK, ConfigTypeOK, RtlTypeOK
<1>2. UNCHANGED <<cbr, cbrPrev, phase>>
    BY DEF PostConfig, BootSend, CallerPanics, Panic, recvVars, cardVars, rtlVars
<1>3. Requests' = IF Near(routes[asked + 1].via) THEN Requests \cup {asked + 1} ELSE Requests
    <2>1. \A via : Near(via)' <=> Near(via)
        BY <1>1 DEF Near, Unsupported, TriesFirst, SameSubnet, configVars
    <2>2. Requests' = {i \in 1..asked + 1 : Near(routes[i].via)}
        BY <1>1, <2>1 DEF Requests, configVars
    <2> QED
        BY <1>1, <2>2 DEF Requests
<1>4. HandledUpTo' = HandledUpTo /\ RequestsIn(HandledUpTo)' = RequestsIn(HandledUpTo)
    BY <1>1, <1>2 DEF HandledUpTo, GotPacket, RequestsIn
<1>5. CASE accepted' = accepted
    <2>1. Requests \subseteq Requests' /\ HandledUpTo <= HandledUpTo'
        BY <1>3, <1>4, RequestsFinite DEF Counted
    <2> QED
        BY <1>1, <1>2, <1>5, <2>1, NothingSent
<1>6. CASE accepted' = accepted + 1 /\ Near(routes[asked + 1].via)
    <2>1. asked + 1 \notin Requests /\ Requests' = Requests \cup {asked + 1}
        BY <1>1, <1>3, <1>6 DEF Requests
    <2>2. Counted
        BY RequestsFinite
    <2>3. Cardinality(Requests') = Cardinality(Requests) + 1
        BY <2>1, <2>2, FS_AddElement DEF Counted
    <2> QED
        BY <1>1, <1>4, <1>6, <2>2, <2>3 DEF Paid, Counted
<1> QED
    BY <1>1, <1>5, <1>6 DEF PostConfig, BootSend, Tx, CallerPanics, Panic, driverVars, rtlVars

\* No step gives away more than was paid for.
LEMMA PaidStep ==
    ASSUME ArpInv, ArpInv', Paid, [ArpNext]_netVars
    PROVE  Paid'
<1>1. cbr \in Nat /\ cbrPrev \in Nat /\ HandledUpTo \in Nat
    BY RequestsFinite DEF ArpInv, RtlTypeOK, Counted
<1>2. ASSUME UNCHANGED <<configVars, asked, ring, accepted, cbr>>, HandledUpTo <= HandledUpTo'
      PROVE  Paid'
    BY <1>1, <1>2, SameRequests, NothingSent
<1>3. CASE LoadConfig
    <2>1. UNCHANGED <<ring, asked, accepted, cbr, cbrPrev, phase>>
        BY <1>3 DEF LoadConfig, CallerPanics, Panic, rtlVars, recvVars, cardVars, driverVars, postVars
    <2>2. UNCHANGED configVars \/ asked = 0
        BY <1>3 DEF LoadConfig, ConfigNext, ReadLine, CloseFile, ArpInv, BootOrder
    <2>3. HandledUpTo' = HandledUpTo
        BY <2>1 DEF HandledUpTo, GotPacket
    <2>4. CASE asked = 0
        <3>1. Requests \subseteq Requests'
            BY <2>4 DEF Requests
        <3> QED
            BY <1>1, <2>1, <2>3, <3>1, NothingSent
    <2> QED
        BY <1>1, <1>2, <2>1, <2>2, <2>3, <2>4
<1>4. CASE PacketArrives
    <2>1. UNCHANGED <<phase, cbrPrev>> /\ cbr <= cbr'
        BY <1>4, ArrivesAs
    <2>2. cbr' \in Nat
        BY DEF ArpInv, RtlTypeOK
    <2>3. HandledUpTo <= HandledUpTo'
        BY <1>1, <2>1, <2>2 DEF HandledUpTo, GotPacket
    <2>4. Requests' = Requests
        BY <1>4, ArrivesAs, SameRequests
    <2>5. DOMAIN ring = 1..cbr
        BY DEF ArpInv, ArpTypeOK
    <2> QED
        BY <1>4, <2>1, <2>3, <2>4, <2>5, ArrivesAs, NothingSent
<1>5. CASE RingDone
    <2>1. HandledUpTo <= HandledUpTo'
        <3>1. HandledUpTo <= cbr
            BY <1>1 DEF HandledUpTo, GotPacket, ArpInv, BootOrder
        <3>2. HandledUpTo' = cbr
            BY <1>5 DEF RingDone, RecvDone, HandledUpTo, cardVars
        <3> QED
            BY <3>1, <3>2
    <2> QED
        BY <1>2, <1>5, <2>1 DEF RingDone, RecvDone, cardVars, driverVars, arpVars, postVars
<1>6. ASSUME UNCHANGED <<accepted, cbr, cbrPrev>>, UNCHANGED arpVars,
             phase # "handled" \/ phase' = "handled"
      PROVE  Paid'
    <2>1. HandledUpTo <= HandledUpTo'
        BY <1>1, <1>6 DEF HandledUpTo, GotPacket
    <2> QED
        BY <1>2, <1>6, <2>1 DEF arpVars, postVars
<1>7. CASE PostConfigDone
    BY <1>6, <1>7 DEF PostConfigDone, IrqEnable, cardVars, driverVars
<1>8. CASE (IrqEnter \/ Branch) /\ UNCHANGED arpVars
    BY <1>6, <1>8 DEF IrqEnter, Branch, RecvOk, TransmitOk, RecvErr, Unhandled, Entered, Panic,
        cardVars, driverVars, recvVars
<1>9. CASE CardSends /\ UNCHANGED arpVars
    BY <1>6, <1>9 DEF CardSends, Transmit, driverVars, recvVars
<1>10. CASE (Waits /\ UNCHANGED arpVars) \/ UNCHANGED netVars
    BY <1>6, <1>10 DEF Waits, netVars, rtlVars, cardVars, driverVars, recvVars
<1> QED
    BY <1>3, <1>4, <1>5, <1>7, <1>8, <1>9, <1>10, HandlePacketPaid, PostConfigPaid DEF ArpNext

\* A request is answered at most once, for every sequence of packets.
THEOREM AnswersOnce == ArpSpec => []AnsweredOnce
<1>1. ArpInit => Paid
    <2> SUFFICES ASSUME ArpInit PROVE Paid
        OBVIOUS
    <2>1. accepted = 0 /\ cbr = 0 /\ asked = 0
        BY DEF ArpInit, RtlInit
    <2>2. Requests = {} /\ RequestsIn(HandledUpTo) = {}
        BY <2>1 DEF Requests, RequestsIn
    <2> QED
        BY <2>1, <2>2, FS_EmptySet DEF Paid
<1>2. ArpInv /\ ArpInv' /\ Paid /\ [ArpNext]_netVars => Paid'
    BY PaidStep
<1>3. ArpInv /\ Paid => AnsweredOnce
    <2> SUFFICES ASSUME ArpInv, Paid PROVE AnsweredOnce
        OBVIOUS
    <2> DEFINE R == {k \in 1..cbr : k <= cbrPrev + 1 /\ ring[k] = <<"request">>}
    <2>1. Counted /\ cbr \in Nat /\ cbrPrev \in Nat /\ accepted \in Nat
        BY RequestsFinite DEF ArpInv, RtlTypeOK
    <2>2. IsFiniteSet(1..cbr) /\ R \subseteq 1..cbr
        BY <2>1, FS_Interval
    <2>3. IsFiniteSet(R) /\ Cardinality(R) \in Nat
        BY <2>2, FS_Subset, FS_CardinalityType
    <2>4. RequestsIn(HandledUpTo) \subseteq R
        BY <2>1 DEF RequestsIn, HandledUpTo
    <2>5. Cardinality(RequestsIn(HandledUpTo)) <= Cardinality(R)
        BY <2>3, <2>4, FS_Subset
    <2> QED
        BY <2>1, <2>3, <2>5 DEF Paid, AnsweredOnce, Counted
<1> QED
    BY <1>1, <1>2, <1>3, ArpInvariant, PTL DEF ArpSpec
=============================================================================
