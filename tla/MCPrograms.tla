----------------------------- MODULE MCPrograms -----------------------------
(* An instance of Programs for TLC. *)
EXTENDS Programs, TLC

CONSTANTS ls, sh

\* Tasks differ only in their names.
TaskSymmetry == Permutations(Task)

\* ls is a page of code and data, sh has a page of uninitialised data besides.
MCSections ==
    (ls :> << [pages |-> <<<<1, 0>>>>, loaded |-> TRUE] >>) @@
    (sh :> << [pages |-> <<<<1, 0>>>>, loaded |-> TRUE], [pages |-> <<<<1, 1>>>>, loaded |-> FALSE] >>)

MCPointer == {<<1, 1>>, <<2, 0>>}
MCAvailable == {35} \cup 36..83
=============================================================================
