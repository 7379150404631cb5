---------------------------- MODULE MCShmAlloc ----------------------------
(* ShmAlloc as TLC checks it. *)
EXTENDS ShmAlloc, TLC

CONSTANTS t1, t2

Threads == {t1, t2}
Symmetry == Permutations(Threads)
=============================================================================
