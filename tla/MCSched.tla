------------------------------ MODULE MCSched ------------------------------
(* Instances of Sched for TLC. *)
EXTENDS Sched, TLC

\* Slots differ only in where the heap put them.
TaskSymmetry == Permutations(Task)
=============================================================================
