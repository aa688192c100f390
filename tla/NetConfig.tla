----------------------------- MODULE NetConfig -----------------------------
(***************************************************************************)
(* The configuration of the network (net_load_config, src/dev/net.c): the  *)
(* kernel reads /etc/network.conf line by line while it boots and fills    *)
(* the card's addresses and the route table. A line is a record of what    *)
(* its parser finds in it; an address is the numbers between its dots.     *)
(***************************************************************************)
EXTENDS Integers, Sequences, FiniteSets

CONSTANTS
    None,         \* what a line leaves out
    ConfigFile,   \* the files there may be
    AddrSlots,    \* net_priv.inaddrs: 4 in the code
    RouteSlots    \* s_routes: 32 in the code

Kind    == {"iface", "inet", "route", "other", "empty"}
Numbers == Seq(Nat)

Line == [kind : Kind,
         name : STRING \cup {None},      \* between the brackets, if they are closed
         addr : Numbers,
         mask : Nat \cup {None},         \* behind the first slash
         via  : Numbers \cup {None}]     \* behind the first blank

ASSUME ConfigAssumption ==
    /\ AddrSlots \in Nat /\ RouteSlots \in Nat
    /\ None \notin Nat
    /\ ConfigFile \subseteq Seq(Line)

VARIABLES
    reading,   \* net_load_config is in its loop
    file,      \* the lines of the file it reads
    line,      \* how many of them it has read
    iface,     \* curr_iface is the card, not NULL
    mask,      \* the local of this name, which lives from line to line
    addrs,     \* inaddrs of the card
    routes     \* s_routes

configVars == <<reading, file, line, iface, mask, addrs, routes>>

Address == [1..4 -> 0..255]
Inaddr  == [addr : Address, mask : 0..255]
Route   == [addr : Address, mask : 0..255, via : Address]

-----------------------------------------------------------------------------
\* inet_aton: four numbers, each cut to a byte.
Aton(text) == [i \in 1..4 |-> text[i] % 256]

\* inet_aton asserts the three dots, and its callers that the address is not 0.
Legal(text) == Len(text) >= 4 /\ \E i \in 1..4 : text[i] % 256 # 0

\* Mutant: a line without a mask is for one host.
MaskOf_Host(l) == IF l.mask = None THEN 32 ELSE l.mask % 256

\* What mask holds behind an inet or route line.
MaskOf(l) == IF l.mask = None THEN mask ELSE l.mask % 256

\* vfs_gets returns 0 for an empty line, as it would at the end.
AtEnd == line < Len(file) => file[line + 1].kind = "empty"

\* The line that vfs_gets returns next.
This == file[line + 1]

\* What the assertions, net_inaddr_add and net_route_add demand of it: a free
\* slot, and a route's mask of whole bytes.
HeadOk  == This.name # None
InetOk  == Legal(This.addr) /\ Len(addrs) < AddrSlots
RouteOk ==
    /\ This.via # None /\ Legal(This.via) /\ Legal(This.addr)
    /\ MaskOf(This) % 8 = 0
    /\ Len(routes) < RouteSlots

LineOk ==
    /\ This.kind = "iface" => HeadOk
    /\ This.kind = "inet" /\ iface => InetOk
    /\ This.kind = "route" /\ iface => RouteOk

Heading ==
    /\ This.kind = "iface"
    /\ iface' = (This.name = "eth0")
    /\ UNCHANGED <<mask, addrs, routes>>

Inet ==
    /\ This.kind = "inet" /\ iface
    /\ mask' = MaskOf(This)
    /\ addrs' = Append(addrs, [addr |-> Aton(This.addr), mask |-> mask'])
    /\ UNCHANGED <<iface, routes>>

RouteTo ==
    /\ This.kind = "route" /\ iface
    /\ mask' = MaskOf(This)
    /\ routes' = Append(routes,
                    [addr |-> Aton(This.addr), mask |-> mask', via |-> Aton(This.via)])
    /\ UNCHANGED <<iface, addrs>>

Skip ==
    /\ This.kind = "other" \/ (This.kind # "iface" /\ ~iface)
    /\ UNCHANGED <<iface, mask, addrs, routes>>

ReadLine ==
    /\ reading /\ ~AtEnd /\ LineOk
    /\ line' = line + 1
    /\ Heading \/ Inet \/ RouteTo \/ Skip
    /\ UNCHANGED <<reading, file>>

\* The loop ends; what is left of it is in addrs and routes.
CloseFile ==
    /\ reading /\ AtEnd
    /\ reading' = FALSE
    /\ file' = <<>> /\ line' = 0 /\ iface' = FALSE /\ mask' = 0
    /\ UNCHANGED <<addrs, routes>>

\* net_init clears the routes, net_register the addresses.
ConfigInit ==
    /\ reading = TRUE
    /\ file \in ConfigFile
    /\ line = 0
    /\ iface = FALSE
    /\ mask = 0
    /\ addrs = <<>>
    /\ routes = <<>>

ConfigNext == ReadLine \/ CloseFile

ConfigSpec == ConfigInit /\ [][ConfigNext]_configVars

-----------------------------------------------------------------------------
\* Every variable keeps its type, and the tables their length.
ConfigTypeOK ==
    /\ reading \in BOOLEAN
    /\ file \in Seq(Line)
    /\ line \in 0..Len(file)
    /\ iface \in BOOLEAN
    /\ mask \in 0..255
    /\ addrs \in Seq(Inaddr) /\ Len(addrs) <= AddrSlots
    /\ routes \in Seq(Route) /\ Len(routes) <= RouteSlots

\* Line i stands under the heading of the card.
UnderHeading(i) ==
    \E h \in 1..i - 1 :
        /\ file[h].kind = "iface" /\ file[h].name = "eth0"
        /\ \A j \in h + 1..i - 1 : file[j].kind # "iface"

Described(kind, upto) == {i \in 1..upto : file[i].kind = kind /\ UnderHeading(i)}

\* The mask that line i carries, or else the nearest line before it that does.
MaskWritten(i, m) ==
    LET carry == {j \in Described("inet", i) \cup Described("route", i) : file[j].mask # None}
    IN  \/ carry = {} /\ m = 0
        \/ \E j \in carry : (\A k \in carry : k <= j) /\ m = file[j].mask % 256

\* While the file is read: the tables hold, in the order of the file, exactly
\* the addresses and routes that it describes under the card's headings up to
\* the first empty line, each with the mask it carries or inherits.
ConfigUnderstood ==
    reading =>
        /\ \A i \in 1..line : file[i].kind # "empty"
        /\ Len(addrs) = Cardinality(Described("inet", line))
        /\ \A i \in Described("inet", line) :
              LET a == addrs[Cardinality(Described("inet", i))]
              IN  a.addr = Aton(file[i].addr) /\ MaskWritten(i, a.mask)
        /\ Len(routes) = Cardinality(Described("route", line))
        /\ \A i \in Described("route", line) :
              LET r == routes[Cardinality(Described("route", i))]
              IN  /\ r.addr = Aton(file[i].addr) /\ r.via = Aton(file[i].via)
                  /\ MaskWritten(i, r.mask)
=============================================================================
