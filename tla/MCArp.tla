------------------------------- MODULE MCArp -------------------------------
EXTENDS Arp

NearGate == <<10, 0, 1, 1>>
FarGate  == <<10, 0, 9, 1>>
Gateways == {NearGate, FarGate}

Heading_(name) == [kind |-> "iface", name |-> name, addr |-> <<>>, mask |-> None, via |-> None]
Inet_(a, m)    == [kind |-> "inet", name |-> None, addr |-> a, mask |-> m, via |-> None]
Route_(m, v)   == [kind |-> "route", name |-> None, addr |-> <<10, 0, 0, 0>>, mask |-> m, via |-> v]
Only(k)        == [kind |-> k, name |-> None, addr |-> <<>>, mask |-> None, via |-> None]

Heads == {Heading_("eth0"), Heading_("eth1"), Heading_(None)}
Insides ==
    { Inet_(<<10, 0, 1, 2>>, 24), Inet_(<<10, 0, 257, 2>>, None), Inet_(<<10, 0>>, 8),
      Route_(16, NearGate), Route_(None, FarGate), Route_(20, NearGate),
      Heading_("eth0"), Heading_("eth1"), Only("empty"), Only("other") }

\* Files of up to four lines, the first of which is a heading; and files that
\* have as many routes near the card as it has buffers, and one more, and more
\* addresses and routes than there are slots.
Repeat(l, n)  == [i \in 1..n |-> l]
Near_(n)      == <<Heading_("eth0"), Inet_(<<10, 0, 1, 2>>, 24)>> \o Repeat(Route_(16, NearGate), n)
Crowded       == {Near_(5), Near_(RouteSlots + 1),
                  <<Heading_("eth0")>> \o Repeat(Inet_(<<10, 0, 1, 2>>, 24), AddrSlots + 1)}
Files ==
    {<<>>} \cup Crowded
    \cup UNION {{<<h>> \o s : h \in Heads, s \in [1..n -> Insides]} : n \in 0..3}
=============================================================================
