------------------------------- MODULE Heap --------------------------------
(***************************************************************************)
(* The heap allocator of Grapes: kmalloc and kfree in the kernel           *)
(* (kernel/mem/heap.c) and malloc and free in programs (library/gc/mem.c). *)
(* The two files differ in how memory is obtained and given back, and in   *)
(* what heap_contract makes of end_addr: KernelHeap chooses.               *)
(*                                                                         *)
(* Addresses are relative to start_addr and counted in small units.  A     *)
(* block is named by the address of its header; its footer points back to  *)
(* the header, so the block that ends at an address can be found.          *)
(***************************************************************************)
EXTENDS Integers, Sequences, FiniteSets, SequencesExt

CONSTANTS
    KernelHeap,  \* TRUE: kernel/mem/heap.c, FALSE: library/gc/mem.c
    PAGE,        \* size of a page (0x1000)
    HEADER,      \* size of a header (12)
    OVER,        \* size of a header and a footer (20)
    InitSize,    \* size of a new heap
    MinSize,     \* HEAP_MIN_SIZE
    MaxSize,     \* max_end
    IdxSize,     \* bytes reserved for the index of holes
    PtrSize,     \* size of an entry of the index (4)
    Sizes        \* arguments of heap_alloc; sz + OVER does not wrap around

ASSUME HeapAssumption ==
    /\ KernelHeap \in BOOLEAN
    /\ {PAGE, HEADER, OVER, InitSize, MinSize, MaxSize, IdxSize, PtrSize} \subseteq Nat \ {0}
    /\ InitSize % PAGE = 0 /\ MinSize % PAGE = 0 /\ InitSize <= MaxSize /\ OVER < InitSize
    /\ Sizes \subseteq Nat

VARIABLES
    blk,      \* blk[a]: size and is_hole of the block whose header is at a
    idx,      \* idx[0..idxused-1]: headers of holes
    end,      \* end_addr
    mapped,   \* memory is accessible below this address
    used,     \* used[a]: what the program asked for and has not freed
    want,     \* the argument of the heap_alloc in progress, or -1
    fault     \* "none", or how the heap was damaged

vars == <<blk, idx, end, mapped, used, want, fault>>

\* "access": memory that is not mapped was accessed.  "garbage": something that
\* is not a footer was used as one.  "index": the index of holes was overrun.
HeapFaults == {"none", "access", "garbage", "index"}

\* What the size of a hole reads when the footer was written over it: the magic
\* number or an address, both more than any heap holds.
Clobbered == MaxSize + 1

Block(size, hole) == [size |-> size, hole |-> hole]
Ends(b, a) == a + b[a].size

Without(f, S) == [a \in DOMAIN f \ S |-> f[a]]
With(f, a, v) == [x \in DOMAIN f \cup {a} |-> IF x = a THEN v ELSE f[x]]

-----------------------------------------------------------------------------
(* The index of holes, sorted by size *)

\* Where heapIdx_insert puts a hole of this size: before the first that is not smaller.
Position(i, b, size) ==
    CHOOSE n \in 1..(Len(i) + 1) :
        /\ \A j \in 1..(n - 1) : b[i[j]].size < size
        /\ n <= Len(i) => b[i[n]].size >= size

\* Faulty variant: at the front, whatever the sizes.
InsertInFront(i, b, e) == <<e>> \o i

heapIdx_insert(i, b, e) ==
    LET n == Position(i, b, b[e].size)
    IN  IF \/ Len(i) + PtrSize >= IdxSize
           \/ \E j \in 1..(n - 1) : i[j] = e
        THEN i
        ELSE InsertAt(i, n, e)

heapIdx_remove(i, e) ==
    IF \E j \in 1..Len(i) : i[j] = e
    THEN RemoveAt(i, CHOOSE j \in 1..Len(i) : i[j] = e /\ \A l \in 1..(j - 1) : i[l] # e)
    ELSE i

Overrun(i) == Len(i) * PtrSize > IdxSize

-----------------------------------------------------------------------------

\* heap_create
Init ==
    /\ blk = [a \in {0} |-> Block(InitSize, TRUE)]
    /\ idx = <<0>>
    /\ end = InitSize
    /\ mapped = InitSize
    /\ used = [a \in {} |-> 0]
    /\ want = -1
    /\ fault = "none"

Damage(f) == fault' = f /\ UNCHANGED <<blk, idx, end, mapped, used, want>>

\* The block whose footer lies just below address e.
EndsAt(b, e) == {a \in DOMAIN b : Ends(b, a) = e \/ (b[a].size = Clobbered /\ e = end)}

\* heap_alloc is called.
heap_alloc(sz) ==
    /\ fault = "none" /\ want = -1
    /\ want' = sz
    /\ UNCHANGED <<blk, idx, end, mapped, used, fault>>

\* Faulty variant: header and footer are forgotten.
BigEnoughBare(j) == blk[idx[j]].size >= want

BigEnough(j) == blk[idx[j]].size >= want + OVER
Fits == {j \in 1..Len(idx) : BigEnough(j)}

\* Faulty variant: the page for the part that does not fill one is forgotten.
QuantityRoundedDown == (want \div PAGE) * PAGE

Quantity == (want \div PAGE) * PAGE + PAGE

NoRoom(newEnd) == newEnd > MaxSize

\* No hole is big enough: heap_expand, then heap_alloc calls itself again; or
\* max_end is reached and heap_alloc returns 0.
heap_expand ==
    LET newEnd == end + Quantity
        last == CHOOSE a \in EndsAt(blk, end) : TRUE
        grown == blk[last].hole
        hole == IF grown THEN last ELSE end
        b == With(blk, hole, Block(IF grown THEN blk[last].size + Quantity ELSE Quantity, TRUE))
        i == IF grown THEN heapIdx_remove(idx, last) ELSE idx
    IN  /\ fault = "none" /\ want # -1 /\ Fits = {}
        /\ IF NoRoom(newEnd)
           THEN want' = -1 /\ UNCHANGED <<blk, idx, end, mapped, used, fault>>
           ELSE IF EndsAt(blk, end) = {} THEN Damage("garbage")
           ELSE /\ blk' = b
                /\ idx' = heapIdx_insert(i, b, hole)
                /\ end' = newEnd
                /\ mapped' = IF mapped > newEnd THEN mapped ELSE newEnd
                /\ fault' = IF Overrun(idx') THEN "index" ELSE "none"
                /\ UNCHANGED <<used, want>>

\* The first hole of the index that is big enough is taken; what is left of it
\* becomes a hole of its own if that is useful.  Header and footer that are written
\* where a clobbered size says are written outside the heap.
TakeHole ==
    LET loc == idx[CHOOSE n \in Fits : \A l \in Fits : n <= l]
        newsize == want + OVER
        split == blk[loc].size > newsize + OVER
        rest == loc + newsize
        i == heapIdx_remove(idx, loc)
        b1 == With(blk, loc, Block(IF split THEN newsize ELSE blk[loc].size, FALSE))
        b == IF split THEN With(b1, rest, Block(blk[loc].size - newsize, TRUE)) ELSE b1
    IN  /\ fault = "none" /\ want # -1 /\ Fits # {}
        /\ IF Ends(blk, loc) > mapped THEN Damage("access")
           ELSE /\ blk' = b
                /\ idx' = IF split THEN heapIdx_insert(i, b, rest) ELSE i
                /\ used' = With(used, loc, want)
                /\ want' = -1
                /\ fault' = IF Overrun(idx') THEN "index" ELSE "none"
                /\ UNCHANGED <<end, mapped>>

\* Whole pages heap_contract gives back: as many as leave MinSize in the heap and
\* a last hole of more than nothing.
Contraction(size) ==
    CHOOSE q \in 0..size :
        /\ q % PAGE = 0
        /\ ~(end - q > MinSize /\ size - q > PAGE)
        /\ \A r \in 0..(q - 1) : r % PAGE = 0 => end - r > MinSize /\ size - r > PAGE

\* Faulty variant: a freed block is not joined with its neighbours.
FreeAlone(a) ==
    LET b == With(blk, a, Block(blk[a].size, TRUE))
    IN  /\ fault = "none" /\ want = -1 /\ a \in DOMAIN used
        /\ blk' = b
        /\ idx' = heapIdx_insert(idx, b, a)
        /\ used' = Without(used, {a})
        /\ UNCHANGED <<end, mapped, want, fault>>

\* What heap_contract makes of the last hole when it leaves it this size: a footer that
\* does not fit behind the header is written over the header's size.
Remainder(size) == Block(IF size < OVER THEN Clobbered ELSE size, TRUE)

(***************************************************************************)
(* heap_free of the block at a, ignored if the pointer is above end_addr:  *)
(* it is joined with a hole on its left and one on its right; the header   *)
(* on its right is read even when there is none.  A large last hole makes  *)
(* heap_contract give pages back; in the kernel the loop that unmaps them  *)
(* leaves end_addr one page too low.  When what is left of the hole does   *)
(* not even hold its header, that is given back too: the library faults    *)
(* when it writes it, the kernel when it next looks at the index.          *)
(***************************************************************************)
heap_free(a) ==
    LET left == {l \in EndsAt(blk, a) : blk[l].hole}
        header == IF left = {} THEN a ELSE CHOOSE l \in left : TRUE
        next == Ends(blk, a)
        right == {r \in DOMAIN blk : r = next /\ blk[r].hole}
        foot == IF right = {} THEN next ELSE Ends(blk, next)
        size == foot - header
        b1 == With(Without(blk, right \cup {a}), header, Block(size, TRUE))
        i0 == IF left = {} THEN idx ELSE heapIdx_remove(idx, header)
        i1 == heapIdx_insert(IF right = {} THEN i0 ELSE heapIdx_remove(i0, next), b1, header)
        q == IF foot = end /\ size >= 2 * PAGE /\ end > MinSize THEN Contraction(size) ELSE 0
        b2 == With(b1, header, Remainder(size - q))
    IN  /\ fault = "none" /\ want = -1 /\ a \in DOMAIN used
        /\ IF a + HEADER > end
           THEN used' = Without(used, {a}) /\ UNCHANGED <<blk, idx, end, mapped, want, fault>>
           ELSE IF next >= mapped \/ foot > mapped \/ size - q < HEADER THEN Damage("access")
           ELSE /\ blk' = IF q = 0 THEN b1 ELSE b2
                /\ idx' = IF q = 0 THEN i1 ELSE heapIdx_insert(heapIdx_remove(i1, header), b2, header)
                /\ end' = IF q = 0 THEN end ELSE IF KernelHeap THEN end - q - PAGE ELSE end - q
                /\ mapped' = IF q = 0 THEN mapped ELSE end - q
                /\ used' = Without(used, {a})
                /\ fault' = IF Overrun(i1) THEN "index" ELSE "none"
                /\ UNCHANGED want

Halted == fault # "none" /\ UNCHANGED vars

Next ==
    \/ \E sz \in Sizes : heap_alloc(sz)
    \/ heap_expand
    \/ TakeHole
    \/ \E a \in DOMAIN used : heap_free(a)
    \/ Halted

Spec == Init /\ [][Next]_vars

\* A call of heap_alloc goes on until it returns.
FairSpec == Spec /\ WF_vars(heap_expand \/ TakeHole)

-----------------------------------------------------------------------------
(* Properties *)

\* Blocks, index and sizes keep their types.
TypeOK ==
    /\ DOMAIN blk \subseteq 0..MaxSize
    /\ \A a \in DOMAIN blk : blk[a] \in [size : 1..Clobbered, hole : BOOLEAN]
    /\ idx \in Seq(DOMAIN blk)
    /\ end \in 0..MaxSize /\ mapped \in 0..MaxSize
    /\ DOMAIN used \subseteq DOMAIN blk
    /\ want \in Sizes \cup {-1}
    /\ fault \in HeapFaults

(***************************************************************************)
(* The blocks tile the heap: one starts at start_addr, each other one      *)
(* starts where one ends, the last one ends at end_addr, and none is       *)
(* smaller than a header and a footer.  This is what the arithmetic on     *)
(* headers and footers in heap_free and heap_expand relies on.  Freed      *)
(* neighbours are always joined: no two holes touch.  (Types included.)    *)
(***************************************************************************)
BlocksTile ==
    /\ TypeOK
    /\ fault = "none" =>
          /\ 0 \in DOMAIN blk
          /\ \A a \in DOMAIN blk :
               /\ blk[a].size >= OVER
               /\ Ends(blk, a) = end \/ Ends(blk, a) \in DOMAIN blk
               /\ Ends(blk, a) <= end
               /\ \A c \in DOMAIN blk : c > a => c >= Ends(blk, a)
               /\ blk[a].hole /\ Ends(blk, a) \in DOMAIN blk => ~blk[Ends(blk, a)].hole

\* The index lists every hole once, in order of size; heap_alloc takes the first
\* that is big enough, so it takes a smallest one.
IndexListsHoles == fault = "none" =>
    /\ \A a \in DOMAIN blk : blk[a].hole <=> \E j \in 1..Len(idx) : idx[j] = a
    /\ \A i, j \in 1..Len(idx) : i < j => idx[i] # idx[j] /\ blk[idx[i]].size <= blk[idx[j]].size

\* What a program holds is a block of its own, at least as big as it asked for,
\* in accessible memory; and what it has freed is part of a hole again.
AllocationsFit == fault = "none" =>
    /\ \A a \in DOMAIN used :
          ~blk[a].hole /\ blk[a].size >= used[a] + OVER /\ Ends(blk, a) <= mapped
    /\ \A a \in DOMAIN blk : blk[a].hole \/ a \in DOMAIN used

\* heap_alloc returns: growing the heap by whole pages ends with a hole that is big
\* enough or at max_end.
AllocReturns == (want # -1) ~> (want = -1 \/ fault # "none")

\* end_addr is where the last block ends, also after heap_contract.
EndIsLastBlock == fault = "none" => \E a \in DOMAIN blk : Ends(blk, a) = end

\* heap_free "frees a block previously allocated on the heap" and accesses nothing
\* but the heap for it.
FreeStaysInHeap == fault # "access"

\* The heap makes only a "USEFUL new hole": also what heap_contract leaves of the last
\* one has room for a header, whose size is what the hole occupies, and a footer.
ContractLeavesHole ==
    fault = "none" => \A a \in DOMAIN blk : blk[a].hole => blk[a].size >= OVER /\ Ends(blk, a) <= mapped

\* The index of holes stays in the memory reserved for it.
IndexInBounds == fault # "index"

=============================================================================
