----------------------------- MODULE MCMemory -----------------------------
(* Instances of Memory for TLC. Addresses are in half pages. *)
EXTENDS Memory, TLC

CONSTANTS p1, p2, s1, s2, s3, s4

Symmetry == Permutations({p1, p2}) \cup Permutations({s1, s2, s3, s4})

\* Heap and shared memory apart, all in whole pages; the second segment would reach
\* the kernel and is refused.
AlignedHeaps == {<<2, 4>>, <<2, 6>>}
AlignedShms == {<<6, 2>>, <<8, 2>>}
TouchedPages == {0, 4, 6}

\* A heap that starts inside a page and a segment that ends inside one.
UnalignedHeaps == {<<3, 5>>}
UnalignedShms == {<<6, 3>>}
TouchedHeap == {3, 4}
TouchedShm == {6, 8}
=============================================================================
