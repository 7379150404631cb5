--------------------------- MODULE MCKernelPages ---------------------------
(* Instances of KernelPages for TLC. *)
EXTENDS KernelPages, TLC

CONSTANTS p1, p2, t1, t2, t3

ThreeThreads == t1 :> p1 @@ t2 :> p1 @@ t3 :> p2
=============================================================================
