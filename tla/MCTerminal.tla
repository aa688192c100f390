----------------------------- MODULE MCTerminal -----------------------------
(* Instances of Terminal for TLC. *)
EXTENDS Terminal, TLC

\* Slots differ only in where the heap put them.
TaskSymmetry == Permutations(Task)
=============================================================================
