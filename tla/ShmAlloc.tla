------------------------------ MODULE ShmAlloc ------------------------------
(***************************************************************************)
(* How the threads of one program share out its shared memory space        *)
(* (library/gc/shm.c): a list of blocks in order of address, guarded by a  *)
(* mutex that is polled (library/std/mutex.c), and the kernel's list of    *)
(* the segments that are mapped there (shm_create and shm_delete,          *)
(* kernel/ipc/shm.c).                                                      *)
(*                                                                         *)
(* A shm_block is named by its start, which never changes; malloc and free *)
(* of the structures themselves are left out.                              *)
(***************************************************************************)
EXTENDS Integers, Sequences, SequencesExt, FiniteSets

CONSTANTS
    Thread,    \* the threads of the program
    Base,      \* where the space starts (0x80000000)
    Space,     \* its size (0x50000000)
    PAGE,      \* size of a page (0x1000)
    MaxLen,    \* shm_create refuses this length and more (0x10000000)
    Sizes,     \* arguments of shm_alloc and shm_allocNew
    MaxSegs    \* bound on the segments mapped at a time

ASSUME ShmAssumption ==
    /\ {Base, Space, PAGE, MaxLen} \subseteq Nat \ {0}
    /\ Sizes \subseteq Nat \ {0}
    /\ Space % PAGE = 0 /\ Base % PAGE = 0

VARIABLES
    blocks,   \* the list of blocks: start, size, is_hole; empty before shm_init
    tMutex,   \* TRUE: locked
    segs,     \* the kernel's segments of the process, newest first: start, len
    mine,     \* what the program was given and has not given back: start |-> size
    at        \* at[t]: where thread t is: step, call, size, p

vars == <<blocks, tMutex, segs, mine, at>>

Idle == [step |-> "idle", call |-> "none", size |-> 0, p |-> 0]
Steps == {"idle", "lockAlloc", "search", "split", "lockFree", "free", "create", "delete"}
Calls == {"none", "shm_alloc", "shm_free", "shm_allocNew", "shm_freeDel"}

Go(t, step) == at' = [at EXCEPT ![t].step = step]

Init ==
    /\ blocks = <<>>
    /\ tMutex = FALSE
    /\ segs = <<>>
    /\ mine = [a \in {} |-> 0]
    /\ at = [t \in Thread |-> Idle]

RoundUp(size) == IF size % PAGE # 0 THEN (size \div PAGE) * PAGE + PAGE ELSE size

Give(a, size) == mine' = [x \in DOMAIN mine \cup {a} |-> IF x = a THEN size ELSE mine[x]]
TakeBack(a) == mine' = [x \in DOMAIN mine \ {a} |-> mine[x]]

-----------------------------------------------------------------------------
(* Calls of the program *)

CallAlloc(t, call, size) ==
    /\ at[t].step = "idle"
    /\ at' = [at EXCEPT ![t] = [step |-> "lockAlloc", call |-> call, size |-> size, p |-> 0]]
    /\ UNCHANGED <<blocks, tMutex, segs, mine>>

shm_alloc(t, size) == CallAlloc(t, "shm_alloc", size)

\* shm_allocNew rounds the size itself: shm_create gets the rounded one.
shm_allocNew(t, size) == Len(segs) < MaxSegs /\ CallAlloc(t, "shm_allocNew", RoundUp(size))

HasSegment(a) == \E i \in 1..Len(segs) : segs[i].start = a

CallFree(t, call, a, step) ==
    /\ at[t].step = "idle"
    /\ at' = [at EXCEPT ![t] = [step |-> step, call |-> call, size |-> 0, p |-> a]]
    /\ TakeBack(a)
    /\ UNCHANGED <<blocks, tMutex, segs>>

shm_free(t, a) == ~HasSegment(a) /\ CallFree(t, "shm_free", a, "lockFree")

\* Faulty variant: the spot is freed, the segment stays mapped.
FreeDelWithoutDelete(t, a) == HasSegment(a) /\ CallFree(t, "shm_freeDel", a, "lockFree")

shm_freeDel(t, a) == HasSegment(a) /\ CallFree(t, "shm_freeDel", a, "delete")

-----------------------------------------------------------------------------
(* The mutex: a thread that finds it locked sleeps for a millisecond and tries again *)

\* Faulty variant: the old value is not looked at.
LockRegardless(t, step, next) ==
    /\ at[t].step = step
    /\ tMutex' = TRUE
    /\ Go(t, next)
    /\ UNCHANGED <<blocks, segs, mine>>

mutex_lock(t, step, next) ==
    /\ at[t].step = step
    /\ ~tMutex
    /\ tMutex' = TRUE
    /\ Go(t, next)
    /\ UNCHANGED <<blocks, segs, mine>>

-----------------------------------------------------------------------------
(* shm_alloc with the mutex held *)

shm_init == <<[start |-> Base, size |-> Space, hole |-> TRUE]>>

\* The hole closest in size to what is asked for, the first of them.
Closest(b, size) ==
    LET Fit == {i \in 1..Len(b) : b[i].hole /\ b[i].size >= size}
    IN  {i \in Fit : \A j \in Fit : b[i].size < b[j].size \/ (b[i].size = b[j].size /\ i <= j)}

Search(t) ==
    LET b == IF blocks = <<>> THEN shm_init ELSE blocks
        size == RoundUp(at[t].size)
        block == Closest(b, size)
    IN  /\ at[t].step = "search"
        /\ blocks' = b
        /\ IF block # {}
           THEN /\ at' = [at EXCEPT ![t].step = "split", ![t].p = b[CHOOSE i \in block : TRUE].start]
                /\ UNCHANGED tMutex
           ELSE /\ tMutex' = FALSE
                /\ at' = [at EXCEPT ![t] = IF @.call = "shm_alloc" THEN Idle
                                           ELSE [@ EXCEPT !.step = "create"]]
        /\ UNCHANGED <<segs, mine>>

Split(i, size) ==
    LET new == [start |-> blocks[i].start + size, size |-> blocks[i].size - size, hole |-> TRUE]
        b == [blocks EXCEPT ![i].hole = FALSE]
    IN  IF blocks[i].size > size THEN InsertAt([b EXCEPT ![i].size = size], i + 1, new) ELSE b

\* The block is split and marked, the mutex released and block->start returned.
TakeBlock(t) ==
    LET size == RoundUp(at[t].size)
    IN  /\ at[t].step = "split"
        /\ \E i \in 1..Len(blocks) :
             blocks[i].start = at[t].p /\ blocks' = Split(i, size)
        /\ tMutex' = FALSE
        /\ IF at[t].call = "shm_alloc"
           THEN Give(at[t].p, size) /\ at' = [at EXCEPT ![t] = Idle]
           ELSE Go(t, "create") /\ UNCHANGED mine
        /\ UNCHANGED segs

\* shm_allocNew asks the kernel for a segment at what shm_alloc returned, 0 included.
Create(t) ==
    /\ at[t].step = "create"
    /\ IF at[t].size >= MaxLen
       THEN /\ at' = [at EXCEPT ![t].step = "lockFree", ![t].call = "shm_free"]
            /\ UNCHANGED <<segs, mine>>
       ELSE /\ segs' = <<[start |-> at[t].p, len |-> at[t].size]>> \o segs
            /\ at' = [at EXCEPT ![t] = Idle]
            /\ IF at[t].p # 0 THEN Give(at[t].p, at[t].size) ELSE UNCHANGED mine
    /\ UNCHANGED <<blocks, tMutex>>

-----------------------------------------------------------------------------
(* shm_free with the mutex held, and shm_delete *)

unify(b, i) ==
    IF i \in 1..(Len(b) - 1) /\ b[i].hole /\ b[i + 1].hole
    THEN RemoveAt([b EXCEPT ![i].size = @ + b[i + 1].size], i + 1)
    ELSE b

\* Faulty variant: only the block after is joined.
FreedForward(b, i) == unify([b EXCEPT ![i].hole = TRUE], i)

Freed(b, i) == unify(unify([b EXCEPT ![i].hole = TRUE], i), i - 1)

FirstAt(b, a) == {i \in 1..Len(b) : b[i].start = a /\ \A j \in 1..(i - 1) : b[j].start # a}

Free(t) ==
    /\ at[t].step = "free"
    /\ blocks' = IF FirstAt(blocks, at[t].p) = {} THEN blocks
                 ELSE Freed(blocks, CHOOSE i \in FirstAt(blocks, at[t].p) : TRUE)
    /\ tMutex' = FALSE
    /\ at' = [at EXCEPT ![t] = Idle]
    /\ UNCHANGED <<segs, mine>>

shm_delete(t) ==
    /\ at[t].step = "delete"
    /\ segs' = IF FirstAt(segs, at[t].p) = {} THEN segs
               ELSE RemoveAt(segs, CHOOSE i \in FirstAt(segs, at[t].p) : TRUE)
    /\ Go(t, "lockFree")
    /\ UNCHANGED <<blocks, tMutex, mine>>

-----------------------------------------------------------------------------

Next == \E t \in Thread :
    \/ \E size \in Sizes : shm_alloc(t, size) \/ shm_allocNew(t, size)
    \/ \E a \in DOMAIN mine : shm_free(t, a) \/ shm_freeDel(t, a)
    \/ mutex_lock(t, "lockAlloc", "search")
    \/ Search(t)
    \/ TakeBlock(t)
    \/ Create(t)
    \/ mutex_lock(t, "lockFree", "free")
    \/ Free(t)
    \/ shm_delete(t)

Spec == Init /\ [][Next]_vars

-----------------------------------------------------------------------------
(* Properties *)

Extent == Base..(Base + Space)

\* Blocks, segments and threads keep their types.
TypeOK ==
    /\ blocks \in Seq([start : Extent, size : 0..Space, hole : BOOLEAN])
    /\ tMutex \in BOOLEAN
    /\ segs \in Seq([start : {0} \cup Extent, len : 1..(Space + MaxLen)])
    /\ DOMAIN mine \subseteq Extent
    /\ at \in [Thread -> [step : Steps, call : Calls, size : Nat, p : {0} \cup Extent]]

\* The list of blocks tiles the space of shared memory, from its start to its end:
\* shm_alloc, shm_free and unify lose no address and give none to two blocks.  shm_free
\* joins what it frees with a hole on either side: no two holes touch.  (Types included.)
BlocksTile ==
    /\ TypeOK
    /\ blocks # <<>> =>
          /\ blocks[1].start = Base
          /\ \A i \in 1..(Len(blocks) - 1) :
               /\ blocks[i].start + blocks[i].size = blocks[i + 1].start
               /\ ~(blocks[i].hole /\ blocks[i + 1].hole)
          /\ blocks[Len(blocks)].start + blocks[Len(blocks)].size = Base + Space

\* Whatever the program was given is a used block of that size, and a used block
\* that was not given to the program is in the hands of a thread that is about to
\* return it or to free it: nothing is given twice and nothing is lost.
GivenOnce ==
    \A i \in 1..Len(blocks) :
        LET a == blocks[i].start
            InHand == {t \in Thread : at[t].p = a /\ at[t].step \in {"create", "delete", "lockFree", "free"}}
        IN  IF blocks[i].hole THEN a \notin DOMAIN mine /\ InHand = {}
            ELSE IF a \in DOMAIN mine THEN mine[a] = blocks[i].size /\ InHand = {}
            ELSE Cardinality(InHand) = 1

\* The segments the kernel has mapped in the space of shared memory never overlap:
\* a spot is free for the next shm_allocNew only once its segment is unmapped.
SegmentsDisjoint ==
    \A i, j \in 1..Len(segs) : i < j =>
        \/ segs[i].start < Base \/ segs[j].start < Base
        \/ segs[i].start + segs[i].len <= segs[j].start
        \/ segs[j].start + segs[j].len <= segs[i].start

\* shm_allocNew maps its segment in the spot that shm_alloc returned: every segment
\* is in the space of shared memory.
SegmentsInSpace == \A i \in 1..Len(segs) : segs[i].start >= Base

=============================================================================
