------------------------------ MODULE Objects ------------------------------
(***************************************************************************)
(* Objects and descriptors of the Grapes kernel (ipc/object.c) and mapped  *)
(* memory segments (mem/seg.c, ipc/shm.c), as operators on a record k of   *)
(* kernel tables:                                                          *)
(*   k.desc[p]   p->objects: the descriptors of process p, newest first    *)
(*   k.next[p]   p->next_objdesc                                           *)
(*   k.live      the objects that are allocated                            *)
(*   k.owner[o]  o->owner;  k.refs[o]  o->descriptors                      *)
(*   k.maps[p]   p->pagedir->mappedSegs: shared segments, newest first     *)
(*   k.segs      the segments that are allocated                           *)
(*   k.cnt[s]    s->mappings                                               *)
(*   k.fault     "none", or why the kernel can no longer be trusted        *)
(* Page tables and frames are not part of these tables.                    *)
(***************************************************************************)
EXTENDS Integers, Sequences, FiniteSets

CONSTANTS
    Proc,    \* processes
    Obj,     \* addresses kmalloc can give to a struct object
    Seg,     \* addresses kmalloc can give to a struct segment
    Map,     \* addresses kmalloc can give to a struct segment_map
    Null     \* the null pointer

(***************************************************************************)
(* Undefined behaviour ends a run of the model.  "rm": objdesc_rm corrupted*)
(* the list of descriptors.  "param": an invalid parameter of a request was*)
(* dereferenced.  "get": request_get dereferenced a null request.  "uaf":  *)
(* freed memory was used.                                                  *)
(***************************************************************************)
Faults == {"none", "rm", "param", "get", "uaf"}

Fail(k, f) == [k EXCEPT !.fault = f]

-----------------------------------------------------------------------------
(* Descriptors *)

HasObj(k, p, o) == \E i \in 1..Len(k.desc[p]) : k.desc[p][i].obj = o
HasId(k, p, id) == \E i \in 1..Len(k.desc[p]) : k.desc[p][i].id = id

objdesc_get(k, p, o) ==
    IF HasObj(k, p, o)
    THEN k.desc[p][CHOOSE i \in 1..Len(k.desc[p]) : k.desc[p][i].obj = o].id
    ELSE -1

objdesc_read(k, p, id) ==
    IF HasId(k, p, id)
    THEN k.desc[p][CHOOSE i \in 1..Len(k.desc[p]) : k.desc[p][i].id = id].obj
    ELSE Null

objdesc_add(k, p, o) ==
    IF HasObj(k, p, o) THEN k
    ELSE [k EXCEPT !.desc[p] = <<[id |-> k.next[p], obj |-> o]>> \o @,
                   !.next[p] = @ + 1,
                   !.refs[o] = @ + 1]

\* Faulty variant: the object's count of descriptors is not decremented.
RmKeepsCount(k, p, id) ==
    IF Head(k.desc[p]).id = id THEN [k EXCEPT !.desc[p] = Tail(@)] ELSE Fail(k, "rm")

(***************************************************************************)
(* The head of the list is unlinked properly.  For any other element the   *)
(* code unlinks it and then decrements and frees the element AFTER it,     *)
(* which stays linked; after the last element it dereferences null.        *)
(***************************************************************************)
objdesc_rm(k, p, id) ==
    IF Head(k.desc[p]).id = id
    THEN [k EXCEPT !.desc[p] = Tail(@), !.refs[Head(k.desc[p]).obj] = @ - 1]
    ELSE Fail(k, "rm")

-----------------------------------------------------------------------------
(* Objects.  busy: the objects whose mutex is locked or that hold a request *)

obj_delete(k, o, busy) ==
    IF k.refs[o] > 0 \/ o \in busy THEN k ELSE [k EXCEPT !.live = @ \ {o}]

\* Faulty variant: only the owner's closing frees an object.
ReleasedByOwnerOnly(k, p, o, busy) ==
    IF k.owner[o] # p THEN k
    ELSE IF k.refs[o] > 0 THEN [k EXCEPT !.owner[o] = Null] ELSE obj_delete(k, o, busy)

\* Faulty variant: the owner's closing frees an object others can still use.
ReleasedAtOnce(k, p, o, busy) == IF k.owner[o] = p THEN [k EXCEPT !.live = @ \ {o}] ELSE k

\* What obj_closeP does to object o once the descriptor of p is removed.
Released(k, p, o, busy) ==
    IF k.owner[o] = p
    THEN IF k.refs[o] > 0 THEN [k EXCEPT !.owner[o] = Null] ELSE obj_delete(k, o, busy)
    ELSE IF k.refs[o] = 0 /\ k.owner[o] = Null THEN obj_delete(k, o, busy) ELSE k

obj_closeP(k, p, id, busy) ==
    LET o == objdesc_read(k, p, id)
        k1 == objdesc_rm(k, p, id)
    IN  IF o = Null THEN k
        ELSE IF k1.fault # "none" THEN k1
        ELSE Released(k1, p, o, busy)

(***************************************************************************)
(* obj_closeall closes the head until the list is empty.  A process has one*)
(* descriptor per object, so the closings touch different objects and the  *)
(* result can be written object by object.                                 *)
(***************************************************************************)
obj_closeall(k, p, busy) ==
    LET mine == {o \in Obj : HasObj(k, p, o)}
        refs == [o \in Obj |-> IF o \in mine THEN k.refs[o] - 1 ELSE k.refs[o]]
        gone == {o \in mine : refs[o] = 0 /\ o \notin busy /\ k.owner[o] \in {p, Null}}
        orphan == {o \in mine : refs[o] > 0 /\ k.owner[o] = p}
    IN  [k EXCEPT !.desc[p] = <<>>,
                  !.refs = refs,
                  !.live = @ \ gone,
                  !.owner = [o \in Obj |-> IF o \in orphan THEN Null ELSE k.owner[o]]]

\* obj_createP: o is the address kmalloc returned.
obj_createP(k, p, o) ==
    objdesc_add([k EXCEPT !.live = @ \cup {o}, !.owner[o] = p, !.refs[o] = 0], p, o)

-----------------------------------------------------------------------------
(* Segments *)

Mapped(k, m) == \E p \in Proc : \E i \in 1..Len(k.maps[p]) : k.maps[p][i].map = m
SegOf(k, m) ==
    LET p == CHOOSE q \in Proc : \E i \in 1..Len(k.maps[q]) : k.maps[q][i].map = m
        i == CHOOSE j \in 1..Len(k.maps[p]) : k.maps[p][j].map = m
    IN  k.maps[p][i].seg

\* Faulty variant: the mapping is not counted.
MapUncounted(k, s, p, m, pos) ==
    [k EXCEPT !.maps[p] = <<[map |-> m, seg |-> s, start |-> pos]>> \o @]

\* seg_map of a shared segment: m is the address kmalloc returned.
seg_map(k, s, p, m, pos) ==
    [k EXCEPT !.maps[p] = <<[map |-> m, seg |-> s, start |-> pos]>> \o @,
              !.cnt[s] = @ + 1]

seg_unmap(k, m) ==
    IF ~Mapped(k, m) \/ SegOf(k, m) \notin k.segs THEN Fail(k, "uaf")
    ELSE LET p == CHOOSE q \in Proc : \E i \in 1..Len(k.maps[q]) : k.maps[q][i].map = m
             i == CHOOSE j \in 1..Len(k.maps[p]) : k.maps[p][j].map = m
             s == SegOf(k, m)
         IN  [k EXCEPT !.maps[p] = SubSeq(@, 1, i - 1) \o SubSeq(@, i + 1, Len(@)),
                       !.cnt[s] = @ - 1,
                       !.segs = IF k.cnt[s] = 1 THEN @ \ {s} ELSE @]

\* The newest shared segment that process p mapped at offset pos, or null.
shmseg_getByOff(k, p, pos) ==
    LET here == {i \in 1..Len(k.maps[p]) : k.maps[p][i].start = pos}
    IN  IF here = {} THEN Null
        ELSE k.maps[p][CHOOSE i \in here : \A j \in here : i <= j].map

(***************************************************************************)
(* pagedir_delete unmaps every segment of the process.                     *)
(***************************************************************************)
unmapall(k, p) ==
    LET n == [s \in Seg |-> Cardinality({i \in 1..Len(k.maps[p]) : k.maps[p][i].seg = s})]
    IN  IF \E s \in Seg : n[s] > 0 /\ (s \notin k.segs \/ k.cnt[s] < n[s]) THEN Fail(k, "uaf")
        ELSE [k EXCEPT !.maps[p] = <<>>,
                       !.cnt = [s \in Seg |-> k.cnt[s] - n[s]],
                       !.segs = {s \in @ : n[s] = 0 \/ k.cnt[s] > n[s]}]

=============================================================================
