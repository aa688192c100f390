------------------------------- MODULE MCHeap -------------------------------
(* Instances of Heap for TLC. *)
EXTENDS Heap

\* Room for blocks in front of the ramdisk and behind it.
Ramdisks == {[start |-> 12, len |-> 1]}
=============================================================================
