------------------------------ MODULE MCHeap ------------------------------
(* Heap as TLC checks it: all its constants are numbers. *)
EXTENDS Heap
=============================================================================
