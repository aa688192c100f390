-------------------------------- MODULE Arp --------------------------------
(***************************************************************************)
(* Address resolution over one network card: the kernel asks for the       *)
(* address of every configured gateway while it boots, and its interrupt   *)
(* handler answers requests and stores answers (src/dev/net.c,             *)
(* src/net/arp.c). The module says when the driver of Rtl8139 sends.       *)
(***************************************************************************)
EXTENDS Rtl8139, NetConfig

CONSTANT Gateway   \* the addresses that answer on the network

ASSUME ArpAssumption == Gateway \subseteq Address /\ RouteSlots + RingSize <= MaxSend

VARIABLES
    asked,      \* how many routes net_post_config has gone through
    waiting,    \* the card's flag NET_ARP_WAITING
    resolved,   \* the routes whose dst_hwaddr is known
    ring        \* the packets in the receive ring

postVars == <<asked, waiting, resolved, ring>>
arpVars  == <<configVars, postVars>>
netVars  == <<rtlVars, arpVars>>

Packet == {<<"request">>, <<"other">>} \cup {<<"answer", g>> : g \in Gateway}

-----------------------------------------------------------------------------
\* net_load_config, before interrupts are enabled.
LoadConfig ==
    /\ Running /\ phase = "boot"
    /\ \/ ConfigNext /\ UNCHANGED rtlVars
       \/ reading /\ ~AtEnd /\ ~LineOk /\ CallerPanics /\ UNCHANGED configVars
    /\ UNCHANGED postVars

\* NET_SAME_SUBNET, for the masks that net_inaddr_mask knows.
SameSubnet(a, via) == \A i \in 1..a.mask \div 8 : a.addr[i] = via[i]

\* The addresses are tried in order until one matches; a mask that is not of
\* whole bytes, or too long, panics.
TriesFirst(via, j) == \A k \in 1..j - 1 : ~SameSubnet(addrs[k], via)
Unsupported(via) ==
    \E j \in DOMAIN addrs : addrs[j].mask \notin {0, 8, 16, 24, 32} /\ TriesFirst(via, j)
Near(via) == ~Unsupported(via) /\ \E j \in DOMAIN addrs : SameSubnet(addrs[j], via)

\* One turn of net_post_config: a route whose gateway is in the subnet of an
\* address of the card is asked for, and the request must be accepted.
PostConfig ==
    /\ Running /\ phase = "boot" /\ ~reading /\ asked < Len(routes)
    /\ asked' = asked + 1
    /\ LET via == routes[asked'].via
       IN  \/ Unsupported(via) /\ CallerPanics /\ UNCHANGED waiting
           \/ /\ Near(via)
              /\ waiting' = TRUE
              /\ IF used = Buffer THEN CallerPanics ELSE BootSend
           \/ /\ ~Unsupported(via) /\ ~Near(via)
              /\ UNCHANGED <<rtlVars, waiting>>
    /\ UNCHANGED <<configVars, resolved, ring>>

PostConfigDone ==
    /\ ~reading /\ asked = Len(routes)
    /\ IrqEnable
    /\ UNCHANGED arpVars

FirstRoute(is) == CHOOSE i \in is : \A j \in is : i <= j

\* Mutant: the gateway is not compared.
RoutesOver_Any(g) == DOMAIN routes

RoutesOver(g) == {i \in DOMAIN routes : routes[i].via = g}

\* net_route_resolve: the first route over the gateway gets the address; an
\* answer that no route is for panics.
Resolve(g) ==
    \/ /\ RoutesOver(g) = {}
       /\ CallerPanics
       /\ UNCHANGED arpVars
    \/ /\ RoutesOver(g) # {}
       /\ resolved' = resolved \cup {FirstRoute(RoutesOver(g))}
       /\ phase' = "handled"
       /\ UNCHANGED <<driverVars, cbrPrev, status, cardVars, halted, configVars, asked, waiting, ring>>

\* arp_reply: the reply must be accepted.
Reply ==
    /\ IF used = Buffer THEN CallerPanics
       ELSE /\ Tx
            /\ phase' = "handled"
            /\ UNCHANGED <<cbrPrev, status, isr, cbr, wire, halted>>
    /\ UNCHANGED arpVars

\* Mutant: a packet of no interest ends the interrupt at once.
Ignore_Early ==
    /\ phase' = "idle"
    /\ UNCHANGED <<driverVars, cbrPrev, status, cardVars, halted, arpVars>>

Ignore ==
    /\ phase' = "handled"
    /\ UNCHANGED <<driverVars, cbrPrev, status, cardVars, halted, arpVars>>

\* rtl8139_recv hands the first packet behind cbr_prev to net_handle_packet.
HandlePacket ==
    /\ Running /\ phase = "acked"
    /\ IF ~GotPacket THEN Ignore
       ELSE LET p == ring[cbrPrev + 1]
            IN  \/ p = <<"request">> /\ Reply
                \/ p[1] = "answer" /\ waiting /\ Resolve(p[2])
                \/ p[1] = "answer" /\ ~waiting /\ Ignore
                \/ p = <<"other">> /\ Ignore

\* Mutant: cbr_prev is not moved.
RingDone_Again ==
    /\ Running /\ phase = "handled"
    /\ phase' = "idle"
    /\ UNCHANGED <<driverVars, cbrPrev, status, cardVars, halted, arpVars>>

RingDone == RecvDone /\ UNCHANGED arpVars

\* A packet arrives, or a damaged one that leaves nothing in the ring.
PacketArrives ==
    /\ CardReceives
    /\ IF cbr' = cbr THEN UNCHANGED ring ELSE \E p \in Packet : ring' = Append(ring, p)
    /\ UNCHANGED <<configVars, asked, waiting, resolved>>

-----------------------------------------------------------------------------
\* The driver is set up, the file is not read and nothing has been asked for.
ArpInit ==
    /\ RtlInit
    /\ ConfigInit
    /\ asked = 0
    /\ waiting = FALSE
    /\ resolved = {}
    /\ ring = <<>>

ArpNext ==
    \/ LoadConfig \/ PostConfig \/ PostConfigDone
    \/ HandlePacket \/ RingDone
    \/ PacketArrives
    \/ (IrqEnter \/ Branch \/ CardSends) /\ UNCHANGED arpVars
    \/ Waits /\ UNCHANGED arpVars

ArpSpec == ArpInit /\ [][ArpNext]_netVars

-----------------------------------------------------------------------------
\* Every variable keeps its type.
ArpTypeOK ==
    /\ ConfigTypeOK
    /\ asked \in 0..Len(routes)
    /\ waiting \in BOOLEAN
    /\ resolved \subseteq DOMAIN routes
    /\ ring \in Seq(Packet) /\ Len(ring) = cbr

Requests == {i \in 1..asked : Near(routes[i].via)}

\* A request is answered at most once, although the driver looks at the same
\* ring again at every interrupt and finds packets that came in between.
AnsweredOnce ==
    accepted <= Cardinality(Requests)
                + Cardinality({k \in 1..cbr : k <= cbrPrev + 1 /\ ring[k] = <<"request">>})

\* A route gets an address only from an answer of its own gateway, and only
\* after some gateway was asked for.
ResolvedByGateway ==
    \A i \in resolved :
        /\ waiting
        /\ \E k \in DOMAIN ring : ring[k] = <<"answer", routes[i].via>>

\* ARP uses the driver only as its module says: in the boot thread, and in the
\* handler for a packet that was received.
ArpUsesDriver == RtlSpec
=============================================================================
