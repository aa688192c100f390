----------------------------- MODULE OpenFiles -----------------------------
(***************************************************************************)
(* What programs may expect of their descriptors: each belongs to one      *)
(* task and stands for a thing of a tree that nothing changes, opens at    *)
(* its beginning in the lowest free place, and moves on only when its own  *)
(* task reads, never beyond the end.                                       *)
(***************************************************************************)
EXTENDS Integers, Sequences, FiniteSetsExt

CONSTANTS Task, NFds

VARIABLES
    tree,   \* the length of every thing: bytes of a file, entries of a directory
    table,  \* the descriptors of each task: <<>>, or a thing and how much of it was read
    live    \* the tasks that live

openVars == <<tree, table, live>>

Places  == 0..NFds - 1
Closed  == [fd \in Places |-> <<>>]
Console == <<<<"device", <<"tty0">>>>, 0>>
Start   == [fd \in Places |-> IF fd \in {0, 1} THEN Console ELSE <<>>]

OpenFilesInit ==
    \E t \in Task : live = {t} /\ table = [u \in Task |-> IF u = t THEN Start ELSE Closed]

Opens(t) ==
    LET free == {fd \in Places : table[t][fd] = <<>>}
        new  == table'[t][Min(free)]
    IN  /\ t \in live /\ free # {} /\ UNCHANGED <<tree, live>>
        /\ new \in (DOMAIN tree) \X {0}
        /\ table' = [table EXCEPT ![t][Min(free)] = new]

Reads(t, fd) ==
    /\ t \in live /\ table[t][fd] # <<>> /\ UNCHANGED <<tree, live>>
    /\ \E n \in table[t][fd][2] + 1..tree[table[t][fd][1]] : table' = [table EXCEPT ![t][fd][2] = n]

Closes(t, fd) ==
    /\ t \in live /\ UNCHANGED <<tree, live>> /\ table' = [table EXCEPT ![t][fd] = <<>>]

Begins(c) ==
    /\ live # {} /\ c \notin live /\ live' = live \cup {c}
    /\ table' = [table EXCEPT ![c] = Start] /\ UNCHANGED tree

Ends(t) ==
    /\ t \in live /\ live' = live \ {t}
    /\ table' = [table EXCEPT ![t] = Closed] /\ UNCHANGED tree

\* The kernel stops, and every task with it.
Halts == live' = {} /\ table' = [t \in Task |-> Closed] /\ UNCHANGED tree

OpenFilesNext ==
    \/ Halts
    \/ \E t \in Task : Begins(t) \/ Ends(t) \/ Opens(t)
    \/ \E t \in Task, fd \in Places : Reads(t, fd) \/ Closes(t, fd)

OpenFilesSpec == OpenFilesInit /\ [][OpenFilesNext]_openVars
=============================================================================
