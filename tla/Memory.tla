------------------------------- MODULE Memory -------------------------------
(***************************************************************************)
(* User memory of the Grapes kernel: frames of physical memory (mem/       *)
(* paging.c, lib/bitset.c), the page tables of the processes, private      *)
(* segments (mem/seg.c) and shared ones (ipc/shm.c), and page faults.      *)
(* Page tables themselves and the kernel's own memory are left out.        *)
(*                                                                         *)
(* The kernel's tables are a record M, changed by operators:               *)
(*   M.used      frames marked in the bitset                               *)
(*   M.pt[p][v]  the page v of process p: frame (0: none) and rw           *)
(*   M.seg[s]    the segment at address s: kind, writable, len, mappings,  *)
(*               and the frames of a shared one                            *)
(*   M.maps[p]   p->pagedir->mappedSegs, newest first                      *)
(*   M.heapseg[p] the segment of p->heapseg, or Null                       *)
(*   M.fault     "none", or why the kernel can no longer be trusted        *)
(***************************************************************************)
EXTENDS Integers, Sequences, FiniteSets, SequencesExt, FiniteSetsExt

CONSTANTS
    Proc,      \* processes
    Seg,       \* addresses kmalloc can give to a struct segment
    NFrames,   \* frames of physical memory: 1..NFrames; frame 0 is the kernel's
    PAGE,      \* size of a page (0x1000)
    NPages,    \* pages of an address space
    CodeAt,    \* page of a program's read-only segment
    Heaps,     \* arguments start and end of process_setheapseg
    Shms,      \* arguments offset and len of shm_create
    MaxShm,    \* shm_create refuses this length and more (0x10000000)
    Spots,     \* where request_mapShm maps a shared segment
    MaxMaps,   \* bound on the segments a process maps at a time
    Touched,   \* addresses programs access
    Null

ASSUME MemoryAssumption ==
    /\ {NFrames, PAGE, NPages, MaxShm, MaxMaps} \subseteq Nat \ {0}
    /\ Null \notin Seg \cup Proc
    /\ CodeAt \in 0..(NPages - 1)
    /\ Touched \subseteq 0..(NPages * PAGE - 1)

VARIABLES
    M,     \* the kernel's tables
    cur,   \* the process whose page directory is in use, "boot" or Null
    tlb    \* tlb[v]: the frame the processor has cached for page v, or 0

vars == <<M, cur, tlb>>

Frame == 1..NFrames
Pages == 0..(NPages - 1)
PageOf(a) == a \div PAGE
NoPage == [frame |-> 0, rw |-> FALSE]
NoSeg == [kind |-> "none", writable |-> FALSE, len |-> 0, mappings |-> 0, frames |-> <<>>]
NoTlb == [v \in Pages |-> 0]

\* "oom": frame_alloc found no frame and marked one that does not exist.
\* "index": shmseg_handleFault went past the end of the array of frames.
Faults == {"none", "oom", "index"}

Init ==
    /\ M = [used |-> {}, pt |-> [p \in Proc |-> [v \in Pages |-> NoPage]],
            seg |-> [s \in Seg |-> NoSeg], maps |-> [p \in Proc |-> <<>>],
            heapseg |-> [p \in Proc |-> Null], fault |-> "none"]
    /\ cur = "boot"
    /\ tlb = NoTlb

-----------------------------------------------------------------------------
(* Frames and pages *)

\* The state after frame_alloc, which returns FirstFree(m).
frame_alloc(m) ==
    IF m.used = Frame THEN [m EXCEPT !.fault = "oom"]
    ELSE [m EXCEPT !.used = @ \cup {Min(Frame \ @)}]
FirstFree(m) == IF m.used = Frame THEN 0 ELSE Min(Frame \ m.used)

page_map(m, p, v, f, rw) == [m EXCEPT !.pt[p][v] = [frame |-> f, rw |-> rw]]

\* The pages the loops over a segment visit: one address per page size.
Visited(start, len) == {PageOf(start + i * PAGE) : i \in {j \in 0..NPages : j * PAGE < len}}

page_unmap(m, p, V) == [m EXCEPT !.pt[p] = [v \in Pages |-> IF v \in V THEN NoPage ELSE @[v]]]

page_unmapFree(m, p, V) ==
    [page_unmap(m, p, V) EXCEPT !.used = @ \ {m.pt[p][v].frame : v \in V}]

-----------------------------------------------------------------------------
(* Segments *)

\* seg_map
Mapping(m, s, p, start, len) ==
    [m EXCEPT !.maps[p] = <<[seg |-> s, start |-> start, len |-> len]>> \o @,
              !.seg[s].mappings = @ + 1]

\* simpleseg_make and its seg_map
MapSimple(m, s, p, start, len, writable) ==
    Mapping([m EXCEPT !.seg[s] = [NoSeg EXCEPT !.kind = "simple", !.writable = writable, !.len = len]],
            s, p, start, len)

\* shmseg_make: one slot for every full page
MakeShm(m, s, len) ==
    [m EXCEPT !.seg[s] = [NoSeg EXCEPT !.kind = "shm", !.writable = TRUE, !.len = len,
                                       !.frames = [i \in 1..(len \div PAGE) |-> 0]]]

\* Faulty variant: the pages of a shared segment are freed with a mapping of it.
UnmapFreesAll(m, p, sm) == page_unmapFree(m, p, Visited(sm.start, sm.len))

\* simpleseg_unmap and shmseg_unmap
SegUnmap(m, p, sm) ==
    IF m.seg[sm.seg].kind = "simple"
    THEN page_unmapFree(m, p, Visited(sm.start, sm.len))
    ELSE page_unmap(m, p, Visited(sm.start, sm.len))

\* Faulty variant: the frames of the segment are not freed.
DeleteKeepsFrames(m, s) == [m EXCEPT !.seg[s] = NoSeg]

\* simpleseg_delete does nothing, shmseg_delete frees the frames.
SegDelete(m, s) ==
    [m EXCEPT !.used = @ \ {m.seg[s].frames[i] : i \in 1..Len(m.seg[s].frames)},
              !.seg[s] = NoSeg]

seg_unmap(m, p, sm) ==
    LET m1 == SegUnmap(m, p, sm)
        m2 == [m1 EXCEPT !.maps[p] = RemoveFirst(@, sm), !.seg[sm.seg].mappings = @ - 1]
    IN  IF m2.seg[sm.seg].mappings = 0 THEN SegDelete(m2, sm.seg) ELSE m2

\* pagedir_delete unmaps the segments one after the other; process_delete has
\* freed the rest of the process.
pagedir_delete(m, p) ==
    LET m1 == FoldLeft(LAMBDA acc, sm : seg_unmap(acc, p, sm), m, m.maps[p])
    IN  [m1 EXCEPT !.heapseg[p] = Null, !.pt[p] = [v \in Pages |-> NoPage]]

-----------------------------------------------------------------------------
(* System calls of the current process *)

Running == M.fault = "none" /\ cur \in Proc
FreeSegs == {s \in Seg : M.seg[s].kind = "none"}

\* At boot, elf_load maps a program's segment and copies its contents there: the kernel's
\* writes raise page faults that give it a frame.
elf_load(p) ==
    /\ M.fault = "none" /\ cur = "boot" /\ M.maps[p] = <<>>
    /\ \E s \in FreeSegs :
         LET m1 == MapSimple(M, s, p, CodeAt * PAGE, PAGE, FALSE)
         IN  M' = frame_alloc(page_map(m1, p, CodeAt, FirstFree(m1), FALSE))
    /\ UNCHANGED <<cur, tlb>>

HeapMap(p) == CHOOSE sm \in Range(M.maps[p]) : sm.seg = M.heapseg[p]

RoundUp(len) == IF len % PAGE # 0 THEN (len \div PAGE) * PAGE + PAGE ELSE len

\* Faulty variant: a smaller segment keeps the pages it no longer covers.
ResizeKeepsPages(p, sm, len) ==
    LET pos == CHOOSE i \in 1..Len(M.maps[p]) : M.maps[p][i] = sm
    IN  [M EXCEPT !.maps[p][pos].len = RoundUp(len), !.seg[sm.seg].len = RoundUp(len)]

simpleseg_resize(p, sm, len) ==
    LET new == RoundUp(len)
        pos == CHOOSE i \in 1..Len(M.maps[p]) : M.maps[p][i] = sm
        m1 == IF new < sm.len THEN page_unmapFree(M, p, Visited(sm.start + new, sm.len - new)) ELSE M
    IN  [m1 EXCEPT !.maps[p][pos].len = new, !.seg[sm.seg].len = new]

process_setheapseg(start, end) ==
    /\ Running
    /\ IF M.heapseg[cur] # Null /\ HeapMap(cur).start = start
       THEN M' = simpleseg_resize(cur, HeapMap(cur), end - start)
       ELSE LET m1 == IF M.heapseg[cur] = Null THEN M ELSE seg_unmap(M, cur, HeapMap(cur)) IN
            \E s \in {x \in Seg : m1.seg[x].kind = "none"} :
               M' = [MapSimple(m1, s, cur, start, end - start, TRUE) EXCEPT !.heapseg[cur] = s]
    /\ UNCHANGED <<cur, tlb>>

\* shmseg_getByOff: the newest shared segment of p that starts at pos, if there is one.
ShmsAt(p, pos) == {i \in 1..Len(M.maps[p]) : M.seg[M.maps[p][i].seg].kind = "shm" /\ M.maps[p][i].start = pos}

\* The kernel's part of every address space, and everything above it.
KernelAt == NPages * PAGE

\* A segment may be created where there is one already.
shm_create(pos, len) ==
    /\ Running
    /\ IF pos >= KernelAt \/ len >= MaxShm \/ pos + len >= KernelAt THEN UNCHANGED M
       ELSE /\ Len(M.maps[cur]) < MaxMaps
            /\ \E s \in FreeSegs : M' = Mapping(MakeShm(M, s, len), s, cur, pos, len)
    /\ UNCHANGED <<cur, tlb>>

shm_delete(pos) ==
    /\ Running
    /\ M' = IF ShmsAt(cur, pos) = {} THEN M
            ELSE seg_unmap(M, cur, M.maps[cur][Min(ShmsAt(cur, pos))])
    /\ UNCHANGED <<cur, tlb>>

\* request_mapShm: the current process maps a segment that another one shares, at
\* any place and as often as it is sent.
request_mapShm(p, pos) ==
    /\ Running /\ p # cur /\ Len(M.maps[cur]) < MaxMaps
    /\ \E sm \in Range(M.maps[p]) :
         /\ M.seg[sm.seg].kind = "shm"
         /\ M' = Mapping(M, sm.seg, cur, pos, M.seg[sm.seg].len)
    /\ UNCHANGED <<cur, tlb>>

\* request_answer: a segment that another process shares is unmapped again, which
\* need not be the newest one at its place.
request_answer ==
    /\ Running
    /\ \E sm \in Range(M.maps[cur]) :
         /\ M.seg[sm.seg].kind = "shm"
         /\ \E p \in Proc \ {cur} : \E x \in Range(M.maps[p]) : x.seg = sm.seg
         /\ M' = seg_unmap(M, cur, sm)
    /\ UNCHANGED <<cur, tlb>>

-----------------------------------------------------------------------------
(* Page faults, context switches, the end of a process *)

Covers(sm, a) == sm.start <= a /\ a < sm.start + sm.len

\* The newest segment of p at address a, as paging_fault looks for it.
SegAt(m, p, a) ==
    LET i == Min({j \in 1..Len(m.maps[p]) : Covers(m.maps[p][j], a)}) IN m.maps[p][i]

HasSeg(m, p, a) == \E sm \in Range(m.maps[p]) : Covers(sm, a)

shmseg_handleFault(m, p, a) ==
    LET sm == SegAt(m, p, a)
        i == (PageOf(a) * PAGE - sm.start) \div PAGE + 1
        m1 == frame_alloc(m)
        f == FirstFree(m)
    IN  IF i \notin 1..Len(m.seg[sm.seg].frames) THEN [m EXCEPT !.fault = "index"]
        ELSE IF m.seg[sm.seg].frames[i] # 0
        THEN page_map(m, p, PageOf(a), m.seg[sm.seg].frames[i], TRUE)
        ELSE IF m1.fault # "none" THEN m1
        ELSE page_map([m1 EXCEPT !.seg[sm.seg].frames[i] = f], p, PageOf(a), f, TRUE)

simpleseg_handleFault(m, p, a) ==
    LET m1 == frame_alloc(m)
        w == m.seg[SegAt(m, p, a).seg].writable
    IN  IF m1.fault # "none" THEN m1 ELSE page_map(m1, p, PageOf(a), FirstFree(m), w)

\* handle_fault returns 0: the page is given a frame.
FaultHandled(a, write) ==
    /\ HasSeg(M, cur, a)
    /\ M.pt[cur][PageOf(a)].frame = 0
    /\ write => M.seg[SegAt(M, cur, a).seg].writable

\* A program touches address a: the translation is cached if there is one.
Access(a, write) ==
    LET pg == M.pt[cur][PageOf(a)]
    IN  /\ Running
        /\ pg.frame # 0 /\ (write => pg.rw)
        /\ tlb[PageOf(a)] = 0
        /\ tlb' = [tlb EXCEPT ![PageOf(a)] = pg.frame]
        /\ UNCHANGED <<M, cur>>

NoTranslation(a, write) ==
    LET pg == M.pt[cur][PageOf(a)]
    IN  /\ Running
        /\ \/ tlb[PageOf(a)] = 0 /\ pg.frame = 0
           \/ pg.frame # 0 /\ write /\ ~pg.rw

paging_fault(a, write) ==
    /\ NoTranslation(a, write)
    /\ FaultHandled(a, write)
    /\ M' = IF M.seg[SegAt(M, cur, a).seg].kind = "shm" THEN shmseg_handleFault(M, cur, a)
            ELSE simpleseg_handleFault(M, cur, a)
    /\ UNCHANGED <<cur, tlb>>

Ends(p) ==
    /\ M' = pagedir_delete(M, p)
    /\ cur' = Null
    /\ tlb' = NoTlb

\* A page fault nobody handles ends the process.
UnhandledFault(a, write) ==
    /\ NoTranslation(a, write)
    /\ ~FaultHandled(a, write)
    /\ Ends(cur)

process_exit == Running /\ Ends(cur)

\* Faulty variant: the directory changes without a load of cr3.
SwitchKeepsCache(p) ==
    /\ M.fault = "none" /\ p # cur
    /\ M.maps[p] # <<>>
    /\ cur = "boot" => \A q \in Proc : M.maps[q] # <<>>
    /\ cur' = p
    /\ UNCHANGED <<M, tlb>>

\* After the boot the scheduler switches between the processes that are left.
\* Loading cr3 empties the processor's cache of translations.
pagedir_switch(p) ==
    /\ M.fault = "none" /\ p # cur
    /\ M.maps[p] # <<>>
    /\ cur = "boot" => \A q \in Proc : M.maps[q] # <<>>
    /\ cur' = p
    /\ tlb' = NoTlb
    /\ UNCHANGED M

\* tasking_switch panics when no process is left.
Halted ==
    /\ M.fault # "none" \/ (cur = Null /\ \A p \in Proc : M.maps[p] = <<>>)
    /\ UNCHANGED vars

Next ==
    \/ \E p \in Proc : elf_load(p) \/ pagedir_switch(p)
    \/ \E h \in Heaps : process_setheapseg(h[1], h[2])
    \/ \E x \in Shms : shm_create(x[1], x[2]) \/ shm_delete(x[1])
    \/ \E p \in Proc, pos \in Spots : request_mapShm(p, pos)
    \/ request_answer
    \/ \E a \in Touched, write \in BOOLEAN :
          Access(a, write) \/ paging_fault(a, write) \/ UnhandledFault(a, write)
    \/ process_exit
    \/ Halted

Spec == Init /\ [][Next]_vars

-----------------------------------------------------------------------------
(* Properties *)

\* Tables, page tables and the cache keep their types.
TypeOK ==
    /\ M.used \subseteq Frame
    /\ M.pt \in [Proc -> [Pages -> [frame : 0..NFrames, rw : BOOLEAN]]]
    /\ \A s \in Seg : M.seg[s].kind \in {"none", "simple", "shm"} /\ M.seg[s].mappings \in Nat
    /\ M.heapseg \in [Proc -> Seg \cup {Null}]
    /\ M.fault \in Faults
    /\ cur \in Proc \cup {Null, "boot"}
    /\ tlb \in [Pages -> 0..NFrames]

\* The mapped pages of private segments, and the slots of shared ones.
SegKind(p, v) == M.seg[SegAt(M, p, v * PAGE).seg].kind
Private == {<<p, v>> \in Proc \X Pages :
              M.pt[p][v].frame # 0 /\ HasSeg(M, p, v * PAGE) /\ SegKind(p, v) = "simple"}
Slots == UNION {{<<s, i>> : i \in {j \in 1..Len(M.seg[s].frames) : M.seg[s].frames[j] # 0}} : s \in Seg}
PrivateFrame(x) == M.pt[x[1]][x[2]].frame
SlotFrame(x) == M.seg[x[1]].frames[x[2]]

\* A frame of physical memory belongs to one private page or to one page of one
\* shared segment: processes share memory only through shared segments.  (Types
\* included.)
FramesExclusive ==
    /\ TypeOK
    /\ M.fault = "none" =>
          /\ \A x, y \in Private : PrivateFrame(x) = PrivateFrame(y) => x = y
          /\ \A x, y \in Slots : SlotFrame(x) = SlotFrame(y) => x = y
          /\ \A x \in Private, y \in Slots : PrivateFrame(x) # SlotFrame(y)

\* page_unmap leaves translations in the processor's cache, but a process never reaches
\* a private page of another one through them: a frame that is freed and given again
\* before the next switch stays with the process that runs.
PrivateStaysPrivate == M.fault = "none" =>
    \A v \in Pages : tlb[v] # 0 =>
        /\ cur \in Proc
        /\ \A x \in Private : PrivateFrame(x) = tlb[v] => x[1] = cur

\* The bitset marks exactly the frames that are in use: resizing, unmapping and
\* process exit lose none and free none that is still used.
FramesAccounted == M.fault = "none" =>
    M.used = {PrivateFrame(x) : x \in Private} \cup {SlotFrame(x) : x \in Slots}

\* The page v of segment map sm shows frame f: any frame if the segment is private, the
\* one all processes have there if it is shared.
Shows(sm, v, f) ==
    M.seg[sm.seg].kind = "shm" => f = M.seg[sm.seg].frames[(v * PAGE - sm.start) \div PAGE + 1]

\* A page that is mapped shows memory of a segment that its process still maps there,
\* and the segment's own frame if it is shared, however segments were created and
\* mapped over each other, unmapped in another order, resized, and freed by others:
\* unmapping leaves no page of a segment behind.
PagesBacked == M.fault = "none" =>
    \A p \in Proc, v \in Pages : M.pt[p][v].frame # 0 =>
        \E sm \in Range(M.maps[p]) : Covers(sm, v * PAGE) /\ Shows(sm, v, M.pt[p][v].frame)

\* "Create a shared memory segment at offset": what a program finds at an address is
\* the segment created or mapped there last.
NewestSegmentShown == M.fault = "none" =>
    \A p \in Proc, v \in Pages : M.pt[p][v].frame # 0 =>
        HasSeg(M, p, v * PAGE) /\ Shows(SegAt(M, p, v * PAGE), v, M.pt[p][v].frame)

\* simpleseg_unmap "frees all the allocated pages": no frame is marked when no
\* process is left.
AllFramesFreed ==
    M.fault = "none" /\ (\A p \in Proc : M.maps[p] = <<>>) => M.used = {}

\* shmseg_handleFault stays inside the segment's array of frames.
ShmFramesInBounds == M.fault # "index"

\* A program reaches a page only through the page table: once page_unmap has
\* cleared an entry, the processor has no translation of it either.
UnmappedIsUnreachable ==
    \A v \in Pages : tlb[v] # 0 => cur \in Proc /\ M.pt[cur][v].frame = tlb[v]

=============================================================================
