------------------------------- MODULE Paths -------------------------------
(***************************************************************************)
(* Paths and the mount table (src/sys/vfs.c). A string is the sequence of  *)
(* its components, what lies between its slashes: "/bin/ls" is             *)
(* <<"", "bin", "ls">>, "/" is <<"", "">> and "" is <<"">>.                *)
(***************************************************************************)
EXTENDS Integers, Sequences, SequencesExt, FiniteSets

CONSTANTS
    Longer,   \* pairs of components: the second is the first and one more character
    Shorter   \* what each component is without its first character

ASSUME LongerAssumption == \A pair \in Longer : pair[2] # ""
ASSUME ShorterAssumption == Shorter \in [DOMAIN Shorter -> STRING]

Root == <<"", "">>

From(p, n) == SubSeq(p, n, Len(p))
Begins(c, d) == c = d \/ c = "" \/ <<c, d>> \in Longer
\* strncmp(p, q, strlen(p)) = 0
PrefixOf(p, q) ==
    /\ Len(p) <= Len(q) /\ \A i \in 1..Len(p) - 1 : p[i] = q[i]
    /\ Begins(p[Len(p)], q[Len(p)])
\* p + 1: the slash in front, or the first character of a path that has none
Skip(p) == IF p[1] = "" THEN Tail(p) ELSE <<Shorter[p[1]]>> \o Tail(p)

-----------------------------------------------------------------------------
Relative(p) == IF p[1] = "" /\ Len(p) > 1 THEN Tail(p) ELSE p

\* vfs_components_match: the leading components that agree. (If all of both do, it
\* reads on behind the strings; it is then at least this many.)
ComponentsMatch(p, dst) ==
    LET a == Relative(p)
        b == Relative(dst)
    IN  IF dst = Root THEN 1
        ELSE Cardinality({n \in 1..Len(a) : n <= Len(b) /\ \A i \in 1..n : a[i] = b[i]})

\* Where the search for slashes leaves the path: behind the first one after its
\* first character, however deep the mount point is. Nothing if there is none.
BehindSlash(p) == From(Skip(p), 2)

NoMatch == [mount |-> 0, rel |-> <<>>, best |-> 0, root |-> FALSE]

\* vfs_lookup_file for the i-th mount, after the ones before it. An exact match is
\* final; the root only counts until another mount matches as well.
LookupStep(path, mounts, found, i) ==
    LET m     == ComponentsMatch(path, mounts[i].dst)
        exact == mounts[i].dst = path
        isRoot == mounts[i].dst = Root
    IN  IF found.best = 10000 THEN found
        ELSE IF exact THEN [mount |-> i, rel |-> <<"">>, best |-> 10000, root |-> found.root]
        ELSE IF m > found.best \/ (m >= found.best /\ found.root)
        THEN [mount |-> i, rel |-> IF isRoot THEN Skip(path) ELSE BehindSlash(path), best |-> m, root |-> isRoot]
        ELSE found

LookupFile(mounts, path) ==
    FoldLeft(LAMBDA found, i : LookupStep(path, mounts, found, i), NoMatch, [i \in 1..Len(mounts) |-> i])
=============================================================================
