---------------------------- MODULE KernelPages ----------------------------
(***************************************************************************)
(* The pages of the Grapes kernel and the lock that guards them:           *)
(*   mem.c     kmalloc_page takes a page from a small reserve that         *)
(*             get_free_pages keeps full, kfree_page gives one back        *)
(*   sys.c     cli and sti count how often the "global system mutex" is    *)
(*             taken; the last sti turns interrupts on                     *)
(*   paging.c  pagedir_getPage makes a missing page table out of such a    *)
(*             page; get_free_pages calls it, and it calls kmalloc_page    *)
(*   seg.c     simpleseg_handleFault gives a frame to a page of a segment  *)
(*   task.c    process_new and tasking_updateKernelPagetable keep the      *)
(*             kernel's page tables in the directory of every process      *)
(*                                                                         *)
(* An interrupt gate turns interrupts off without counting it, so the      *)
(* outermost sti of a handler turns them on inside it and the timer may    *)
(* switch to another thread from there on.  The model has one step per     *)
(* access to shared memory; a timer interrupt may fall between any two     *)
(* steps of a thread whose interrupts are on.                              *)
(*                                                                         *)
(* A process has a directory and one page table of the segment its threads *)
(* fault in (those of its image, made by elf_load before any thread runs,  *)
(* are left out).  The kernel's tables are those of the area get_free_pages*)
(* searches, numbered 1..AreaTables from the bottom, and HeapTables,       *)
(* reached when the kernel heap grows; those of its image are always there.*)
(***************************************************************************)
EXTENDS Integers, Sequences, FiniteSets, FiniteSetsExt

CONSTANTS
    Thread, Proc,  \* threads and processes
    ProcOf,        \* the process of every thread
    Boot,          \* the context of kmain, before any thread runs
    Kernel,        \* the kernel's own directory, kernel_pagedir
    Page,          \* the pages of a process's segment
    KEEP,          \* FREEPAGESTOKEEP
    AreaTables,    \* how many page tables the area of free pages has
    PerTable,      \* how many pages a kernel page table maps (1024)
    HeapTables,    \* page tables of the kernel heap that are not there at boot
    NFrames        \* frames of physical memory

ASSUME KernelPagesAssumption ==
    /\ ProcOf \in [Thread -> Proc]
    /\ Boot \notin Thread /\ Kernel \notin Proc
    /\ KEEP \in Nat /\ KEEP >= 2
    /\ {AreaTables, PerTable, NFrames} \subseteq Nat \ {0}
    /\ HeapTables \subseteq Nat \ (0..AreaTables)
    /\ NFrames >= KEEP
    /\ IsFiniteSet(Page) /\ IsFiniteSet(HeapTables)

Context == Thread \cup {Boot}
Dir == Proc \cup {Kernel}
KTable == (1..AreaTables) \cup HeapTables

\* Virtual pages of the kernel: the reserve made by the boot allocator (negative),
\* and the area that get_free_pages searches from the top.
BootPage == (1 - KEEP)..(-1)
AreaPage == 1..(AreaTables * PerTable)
Virt == BootPage \cup AreaPage
TableOf(v) == (v - 1) \div PerTable + 1

Frame == 1..NFrames
Garbage == -1   \* what a page holds before it is cleared

VARIABLES
    if_locks,   \* the count of cli, static in sys.c
    IF_,        \* IF_[c]: the interrupt flag of context c
    cur,        \* the context that runs
    at,         \* at[c]: where context c is
    locked,     \* static in get_free_pages
    freepages,  \* the reserve, freepagecount pages
    frames,     \* the frames that are allocated
    kmap,       \* kmap[v]: the frame of the kernel's page v, or 0
    ktab,       \* ktab[i]: the page that holds kernel table i, or 0
    kphys,      \* kphys[d][i]: entry i of directory d: none, absent (flags 0) or present
    linked,     \* the processes in the list of processes
    dpage,      \* dpage[p]: the page of the directory of p, or 0
    utab,       \* utab[p]: the page of the user table of p (tables[]), or 0
    uphys,      \* uphys[p]: its entry in the directory of p (tablesPhysical[])
    mem,        \* mem[f]: the entries of the user table in frame f
    fault       \* "none", or how the kernel came to an end

pages == <<locked, freepages, frames, kmap, ktab, kphys>>
user == <<dpage, utab, uphys, mem>>
vars == <<if_locks, IF_, cur, at, pages, linked, user, fault>>

\* "panic": a page of the kernel was not there when it was used.  "reserve": the
\* reserve was empty.  "area": no virtual page is left.  "frames": no frame is left.
\* "garbage": a page table was used before it was cleared.  "twice": a frame was given
\* to two owners.  "idle": no process is left.
KernelFaults == {"none", "panic", "reserve", "area", "frames", "garbage", "twice", "idle"}

\* What a kmalloc_page in progress is for: the table or directory of the process, or
\* kernel table idx.
Calls == [for : {"utab", "dir"}, idx : {0}] \cup [for : {"ktab"}, idx : KTable]
For(what) == [for |-> what, idx |-> 0]
ForKernel(i) == [for |-> "ktab", idx |-> i]

\* pc and the calls of kmalloc_page in progress, innermost first; p: the process they
\* are for; dir: the directory that is loaded; virt: what kmalloc_page returned; page,
\* table and frame: of the fault; made: it took a page for a table (not in the code); heap
\* and back: the heap's table that is made, and where its caller goes on.
Idle(pc, p, dir) ==
    [pc |-> pc, call |-> <<>>, p |-> p, dir |-> dir, virt |-> 0, page |-> 0, table |-> 0,
     frame |-> 0, made |-> FALSE, heap |-> 0, back |-> "none"]
At(pc, t) == Idle(pc, ProcOf[t], ProcOf[t])

Init ==
    /\ if_locks = 1
    /\ IF_ = [c \in Context |-> FALSE]
    /\ cur = Boot
    /\ at = [c \in Context |-> IF c = Boot THEN Idle("next", Kernel, Kernel) ELSE At("new", c)]
    /\ locked = FALSE
    /\ freepages = [n \in 1..(KEEP - 1) |-> [virt |-> -n, phys |-> n]]
    /\ frames = 1..(KEEP - 1)
    /\ kmap = [v \in Virt |-> IF v < 0 THEN -v ELSE 0]
    /\ ktab = [i \in KTable |-> 0]
    /\ kphys = [d \in Dir |-> [i \in KTable |-> "none"]]
    /\ linked = {}
    /\ dpage = [p \in Proc |-> 0]
    /\ utab = [p \in Proc |-> 0]
    /\ uphys = [p \in Proc |-> [frame |-> 0, present |-> FALSE]]
    /\ mem = [f \in Frame |-> [a \in Page |-> 0]]
    /\ fault = "none"

-----------------------------------------------------------------------------

Runs(c, pc) == fault = "none" /\ cur = c /\ at[c].pc = pc
Goto(c, pc) == at' = [at EXCEPT ![c].pc = pc]
Stop(f) ==
    /\ fault' = f
    /\ UNCHANGED <<if_locks, IF_, cur, at, pages, linked, user>>

\* The kernel can use its page v in the directory that is loaded.
Reaches(c, v) == v < 0 \/ kphys[at[c].dir][TableOf(v)] = "present"

FreeFrames == Frame \ frames
FirstFree == Min(FreeFrames)

-----------------------------------------------------------------------------
(* sys.c: cli and sti *)

cli(c) ==
    /\ IF_' = [IF_ EXCEPT ![c] = FALSE]
    /\ if_locks' = if_locks + 1

\* Faulty variant: interrupts come on whatever the count.
StiAlways(c) ==
    /\ if_locks' = IF if_locks > 0 THEN if_locks - 1 ELSE 0
    /\ IF_' = [IF_ EXCEPT ![c] = TRUE]

sti(c) ==
    /\ if_locks' = IF if_locks > 0 THEN if_locks - 1 ELSE 0
    /\ IF_' = [IF_ EXCEPT ![c] = @ \/ if_locks' = 0]

-----------------------------------------------------------------------------
(* mem.c: kmalloc_page *)

\* The call of cli, and whether get_free_pages is running already (lines 29-30).
Cli(c) ==
    /\ Runs(c, "cli")
    /\ cli(c)
    /\ Goto(c, IF locked THEN "take" ELSE "fill")
    /\ locked' = TRUE
    /\ UNCHANGED <<cur, freepages, frames, kmap, ktab, kphys, linked, user, fault>>

\* The page get_free_pages finds: the highest that is not mapped.  A table that is
\* missing has no mapped page, so it is made when the search comes to its last page.
Unmapped == {v \in AreaPage : kmap[v] = 0}
Found == Max(Unmapped)

\* The search reads every table from the top down to that of the page it finds.
SearchReaches(c) == \A i \in TableOf(Found)..AreaTables : ktab[i] # 0 => Reaches(c, ktab[i])

FillTo(c, n) ==
    /\ Runs(c, "fill")
    /\ IF Len(freepages) >= n
       THEN /\ Goto(c, "take")
            /\ locked' = FALSE
            /\ UNCHANGED <<if_locks, IF_, cur, freepages, frames, kmap, ktab, kphys, linked, user, fault>>
       ELSE IF Unmapped = {} THEN Stop("area")
       ELSE IF ~SearchReaches(c) THEN Stop("panic")
       ELSE IF ktab[TableOf(Found)] = 0
       THEN /\ at' = [at EXCEPT ![c].call = <<ForKernel(TableOf(Found))>> \o @, ![c].pc = "cli"]
            /\ UNCHANGED <<if_locks, IF_, cur, pages, linked, user, fault>>
       ELSE IF FreeFrames = {} THEN Stop("frames")
       ELSE /\ freepages' = Append(freepages, [virt |-> Found, phys |-> FirstFree])
            /\ frames' = frames \cup {FirstFree}
            /\ kmap' = [kmap EXCEPT ![Found] = FirstFree]
            /\ UNCHANGED <<if_locks, IF_, cur, at, locked, ktab, kphys, linked, user, fault>>

\* Faulty variant: the reserve is filled only once it is empty.
FillWhenEmpty(c) == IF freepages = <<>> THEN FillTo(c, KEEP) ELSE FillTo(c, 1)

\* The loop of get_free_pages, one round (lines 31-50).
Fill(c) == FillTo(c, KEEP)

\* What kmalloc_page does when left is what remains of the reserve.
TakePage(c, left) ==
    LET got == freepages[Len(freepages)]
        call == Head(at[c].call)
        p == at[c].p
    IN  /\ Runs(c, "take")
        /\ IF freepages = <<>> THEN Stop("reserve")
           ELSE /\ freepages' = left
                /\ at' = [at EXCEPT ![c].virt = got.virt, ![c].made = TRUE, ![c].pc = "sti"]
                /\ IF call.for = "utab"
                   THEN /\ uphys' = [uphys EXCEPT ![p] = [frame |-> got.phys, present |-> FALSE]]
                        /\ \E g \in {0, Garbage} : mem' = [mem EXCEPT ![got.phys] = [a \in Page |-> g]]
                   ELSE UNCHANGED <<uphys, mem>>
                /\ IF call.for = "ktab"
                   THEN kphys' = [kphys EXCEPT ![Kernel][call.idx] = "absent"]
                   ELSE UNCHANGED kphys
                /\ UNCHANGED <<if_locks, IF_, cur, locked, frames, kmap, ktab, linked, dpage, utab, fault>>

\* Faulty variant: freepagecount is not decremented.
TakeKeeps(c) == TakePage(c, freepages)

\* Lines 57-59: the last page of the reserve; its frame goes to *phys, which is the
\* entry of the directory when the page becomes a page table.
Take(c) == TakePage(c, SubSeq(freepages, 1, Len(freepages) - 1))

Sti(c) ==
    /\ Runs(c, "sti")
    /\ sti(c)
    /\ Goto(c, "store")
    /\ UNCHANGED <<cur, pages, linked, user, fault>>

-----------------------------------------------------------------------------
(* paging.c: the rest of pagedir_getPage when it makes a table, and of         *)
(* pagedir_new, after kmalloc_page has returned                                *)

\* The caller of the kmalloc_page that ends: get_free_pages, or the code that needed
\* the table.
Return(c, call) ==
    at' = [at EXCEPT ![c].call = Tail(@),
                     ![c].pc = IF Len(at[c].call) > 1 THEN "fill"
                               ELSE IF call.for = "utab" THEN "check" ELSE "grown",
                     ![c].virt = 0,
                     ![c].table = IF call.for = "utab" THEN utab[at[c].p] ELSE @]

\* Line 159: tables[] gets the page.
Store(c) ==
    LET call == Head(at[c].call)
        p == at[c].p
    IN  /\ Runs(c, "store")
        /\ utab' = IF call.for = "utab" THEN [utab EXCEPT ![p] = at[c].virt] ELSE utab
        /\ ktab' = IF call.for = "ktab" THEN [ktab EXCEPT ![call.idx] = at[c].virt] ELSE ktab
        /\ dpage' = IF call.for = "dir" THEN [dpage EXCEPT ![p] = at[c].virt] ELSE dpage
        /\ Goto(c, CASE call.for = "utab" -> "memset"
                     [] call.for = "ktab" -> "update"
                     [] call.for = "dir" -> "copy")
        /\ UNCHANGED <<if_locks, IF_, cur, locked, freepages, frames, kmap, kphys, linked, uphys, mem, fault>>

\* Lines 160-161: tasking_updateKernelPagetable copies the kernel's entry, as it is at
\* this point, to the directory of every process in the list.
Update(c) ==
    LET i == Head(at[c].call).idx IN
    /\ Runs(c, "update")
    /\ kphys' = [d \in Dir |-> IF d \in linked THEN [kphys[d] EXCEPT ![i] = kphys[Kernel][i]] ELSE kphys[d]]
    /\ Goto(c, "memset")
    /\ UNCHANGED <<if_locks, IF_, cur, locked, freepages, frames, kmap, ktab, linked, user, fault>>

\* Line 162: the table is cleared, if the directory that is loaded maps its page.
Memset(c) ==
    LET call == Head(at[c].call)
        v == IF call.for = "utab" THEN utab[at[c].p] ELSE ktab[call.idx]
    IN  /\ Runs(c, "memset")
        /\ IF ~Reaches(c, v) THEN Stop("panic")
           ELSE /\ mem' = IF call.for = "utab" THEN [mem EXCEPT ![kmap[v]] = [a \in Page |-> 0]] ELSE mem
                /\ Goto(c, "flags")
                /\ UNCHANGED <<if_locks, IF_, cur, pages, linked, dpage, utab, uphys, fault>>

\* Lines 163-164: the entry of the directory becomes present, and getPage returns.
Flags(c) ==
    LET call == Head(at[c].call) IN
    /\ Runs(c, "flags")
    /\ IF call.for = "utab"
       THEN uphys' = [uphys EXCEPT ![at[c].p].present = TRUE] /\ UNCHANGED kphys
       ELSE kphys' = [kphys EXCEPT ![Kernel][call.idx] = "present"] /\ UNCHANGED uphys
    /\ Return(c, call)
    /\ UNCHANGED <<if_locks, IF_, cur, locked, freepages, frames, kmap, ktab, linked, dpage, utab, mem, fault>>

-----------------------------------------------------------------------------
(* seg.c: simpleseg_handleFault, from the interrupt to its iret *)

\* The processor finds no frame for the page in the directory of the process.
Missing(p, a) == uphys[p].present => mem[uphys[p].frame][a] = 0

\* Faulty variant: a trap gate and a stub without cli, which leave interrupts on.
FaultThroughTrapGate(t, a) ==
    /\ Runs(t, "user")
    /\ Missing(ProcOf[t], a)
    /\ at' = [at EXCEPT ![t] = [At("get", t) EXCEPT !.page = a]]
    /\ UNCHANGED <<if_locks, IF_, cur, pages, linked, user, fault>>

\* Thread t uses page a: vector 14 is an interrupt gate, and its stub begins with the
\* instruction cli, not the counting function.
Fault(t, a) ==
    /\ Runs(t, "user")
    /\ Missing(ProcOf[t], a)
    /\ IF_' = [IF_ EXCEPT ![t] = FALSE]
    /\ at' = [at EXCEPT ![t] = [At("get", t) EXCEPT !.page = a]]
    /\ UNCHANGED <<if_locks, cur, pages, linked, user, fault>>

\* The processor walks a table that was never cleared.
WildAccess(t, a) ==
    /\ Runs(t, "user")
    /\ ~Missing(ProcOf[t], a)
    /\ mem[uphys[ProcOf[t]].frame][a] = Garbage
    /\ Stop("garbage")

\* pagedir_getPage, lines 156-159: the table is there, or has to be made.
GetPage(t) ==
    LET p == ProcOf[t] IN
    /\ Runs(t, "get")
    /\ at' = IF utab[p] # 0 THEN [at EXCEPT ![t].pc = "check", ![t].table = utab[p]]
             ELSE [at EXCEPT ![t].pc = "cli", ![t].call = <<For("utab")>>]
    /\ UNCHANGED <<if_locks, IF_, cur, pages, linked, user, fault>>

Entry(t) == mem[kmap[at[t].table]][at[t].page]

\* Lines 82-84 of seg.c, with what is done about a page that has a frame.
CheckOr(t, otherwise) ==
    /\ Runs(t, "check")
    /\ IF ~Reaches(t, at[t].table) THEN Stop("panic")
       ELSE /\ Goto(t, IF Entry(t) # 0 THEN otherwise ELSE "firstFree")
            /\ UNCHANGED <<if_locks, IF_, cur, pages, linked, user, fault>>

\* Faulty variant: a page that was mapped meanwhile is looked up again.
CheckAgain(t) == CheckOr(t, "get")

\* A page that has a frame is not this handler's business.
Check(t) == CheckOr(t, "unhandled")

\* frame_alloc, line 18.
FrameFirstFree(t) ==
    /\ Runs(t, "firstFree")
    /\ IF FreeFrames = {} THEN Stop("frames")
       ELSE /\ at' = [at EXCEPT ![t].frame = FirstFree, ![t].pc = "set"]
            /\ UNCHANGED <<if_locks, IF_, cur, pages, linked, user, fault>>

\* frame_alloc, line 19.
FrameSet(t) ==
    /\ Runs(t, "set")
    /\ IF at[t].frame \in frames THEN Stop("twice")
       ELSE /\ frames' = frames \cup {at[t].frame}
            /\ Goto(t, "map")
            /\ UNCHANGED <<if_locks, IF_, cur, locked, freepages, kmap, ktab, kphys, linked, user, fault>>

\* page_map leaves a page that was mapped meanwhile as it is.
PageMap(t) ==
    /\ Runs(t, "map")
    /\ mem' = IF Entry(t) = 0 THEN [mem EXCEPT ![kmap[at[t].table]][at[t].page] = at[t].frame] ELSE mem
    /\ Goto(t, "iret")
    /\ UNCHANGED <<if_locks, IF_, cur, pages, linked, dpage, utab, uphys, fault>>

Iret(t) ==
    /\ Runs(t, "iret")
    /\ at' = [at EXCEPT ![t] = At("user", t)]
    /\ IF_' = [IF_ EXCEPT ![t] = TRUE]
    /\ UNCHANGED <<if_locks, cur, pages, linked, user, fault>>

-----------------------------------------------------------------------------
(* The end of a process: thread_exit_stackJmp and process_delete, between a    *)
(* cli and an sti.                                                             *)

Alive == {t \in Thread : at[t].pc \notin {"new", "dead"}}

\* simpleseg_unmap and pagedir_delete: the frames of the segment, the table, the
\* directory; then the next thread runs.
ProcessExit(t) ==
    LET p == ProcOf[t]
        rest == {u \in Alive : ProcOf[u] # p}
        table == IF utab[p] = 0 THEN {} ELSE {mem[kmap[utab[p]]][a] : a \in Page} \ {0}
        mine == {utab[p], dpage[p]} \ {0}
    IN  /\ fault = "none" /\ cur = t /\ at[t].pc \in {"user", "unhandled"}
        /\ IF Garbage \in table THEN Stop("garbage")
           ELSE /\ kmap' = [v \in Virt |-> IF v \in mine THEN 0 ELSE kmap[v]]
                /\ frames' = frames \ (table \cup {kmap[v] : v \in mine})
                /\ mem' = [f \in Frame |-> IF utab[p] # 0 /\ f = kmap[utab[p]] THEN [a \in Page |-> 0] ELSE mem[f]]
                /\ utab' = [utab EXCEPT ![p] = 0]
                /\ dpage' = [dpage EXCEPT ![p] = 0]
                /\ uphys' = [uphys EXCEPT ![p] = [frame |-> 0, present |-> FALSE]]
                /\ linked' = linked \ {p}
                /\ at' = [c \in Context |-> IF c # Boot /\ at[c].p = p THEN At("dead", c) ELSE at[c]]
                /\ IF_' = [c \in Context |-> c # Boot /\ at[c].p # p /\ IF_[c]]
                /\ IF rest = {} THEN fault' = "idle" /\ UNCHANGED cur
                   ELSE cur' \in rest /\ UNCHANGED fault
                /\ UNCHANGED <<if_locks, locked, freepages, ktab, kphys>>

-----------------------------------------------------------------------------
(* The kernel heap grows into a page table that is not there yet: heap_expand  *)
(* asks pagedir_getPage for it, and then uses the memory.                      *)

Grow(c, i) ==
    /\ fault = "none" /\ cur = c /\ at[c].pc \in {"user", "next", "link", "load"}
    /\ ktab[i] = 0
    /\ IF_' = [IF_ EXCEPT ![c] = FALSE]
    /\ at' = [at EXCEPT ![c].call = <<ForKernel(i)>>, ![c].pc = "cli", ![c].heap = i,
                         ![c].back = IF c = Boot THEN at[c].pc ELSE "iret"]
    /\ UNCHANGED <<if_locks, cur, pages, linked, user, fault>>

Grown(c) ==
    /\ Runs(c, "grown")
    /\ IF kphys[at[c].dir][at[c].heap] # "present" THEN Stop("panic")
       ELSE /\ at' = [at EXCEPT ![c].pc = at[c].back, ![c].heap = 0, ![c].back = "none", ![c].virt = 0]
            /\ UNCHANGED <<if_locks, IF_, cur, pages, linked, user, fault>>

-----------------------------------------------------------------------------
(* kmain: process_new and elf_load for every module, then sti and the first    *)
(* switch                                                                      *)

\* process_new up to pagedir_new's kmalloc_page.
ProcessNew(p) ==
    /\ Runs(Boot, "next")
    /\ dpage[p] = 0
    /\ at' = [at EXCEPT ![Boot].pc = "cli", ![Boot].call = <<For("dir")>>, ![Boot].p = p]
    /\ UNCHANGED <<if_locks, IF_, cur, pages, linked, user, fault>>

\* Lines 93-102 of paging.c: the kernel's tables go into the new directory.
CopyTables ==
    LET p == at[Boot].p IN
    /\ Runs(Boot, "copy")
    /\ kphys' = [kphys EXCEPT ![p] = kphys[Kernel]]
    /\ at' = [at EXCEPT ![Boot].pc = "link", ![Boot].call = <<>>, ![Boot].virt = 0]
    /\ UNCHANGED <<if_locks, IF_, cur, locked, freepages, frames, kmap, ktab, linked, user, fault>>

\* The process is put in the list at the end of process_new, and elf_load calls cli and
\* switches to its directory.
LinkProcess ==
    /\ Runs(Boot, "link")
    /\ linked' = linked \cup {at[Boot].p}
    /\ at' = [at EXCEPT ![Boot].pc = "load", ![Boot].dir = at[Boot].p]
    /\ cli(Boot)
    /\ UNCHANGED <<cur, pages, user, fault>>

\* elf_load switches back to kernel_pagedir and calls sti, which leaves kmain's count;
\* thread_new creates the threads.
Loaded ==
    LET p == at[Boot].p IN
    /\ Runs(Boot, "load")
    /\ if_locks' = if_locks - 1
    /\ at' = [c \in Context |-> IF c = Boot THEN Idle("next", Kernel, Kernel)
                               ELSE IF ProcOf[c] = p THEN At("user", c) ELSE at[c]]
    /\ IF_' = [c \in Context |-> IF c = Boot THEN if_locks' = 0 ELSE IF_[c] \/ ProcOf[c] = p]
    /\ UNCHANGED <<cur, pages, linked, user, fault>>

\* The last lines of kmain: sti and tasking_switch.
Start ==
    /\ Runs(Boot, "next")
    /\ linked = Proc
    /\ sti(Boot)
    /\ cur' \in Thread
    /\ UNCHANGED <<at, pages, linked, user, fault>>

-----------------------------------------------------------------------------

\* The timer, or another interrupt, while interrupts are on: another thread runs.
Switch(t) ==
    /\ fault = "none" /\ cur \in Thread /\ IF_[cur]
    /\ t \in Alive \ {cur}
    /\ cur' = t
    /\ UNCHANGED <<if_locks, IF_, at, pages, linked, user, fault>>

Halted == fault # "none" /\ UNCHANGED vars

\* The steps of context c inside the kernel.
PageStep(c) == \/ Cli(c) \/ Fill(c) \/ Take(c) \/ Sti(c) \/ Store(c)
               \/ Update(c) \/ Memset(c) \/ Flags(c) \/ Grown(c)
HandlerStep(t) == \/ GetPage(t) \/ Check(t) \/ FrameFirstFree(t) \/ FrameSet(t)
                  \/ PageMap(t) \/ Iret(t)
                  \/ at[t].pc = "unhandled" /\ ProcessExit(t)
BootStep == \/ \E p \in Proc : ProcessNew(p)
            \/ CopyTables \/ LinkProcess \/ Loaded \/ Start

Next ==
    \/ \E c \in Context : PageStep(c) \/ \E i \in HeapTables : Grow(c, i)
    \/ \E t \in Thread : \/ HandlerStep(t) \/ ProcessExit(t) \/ Switch(t)
                         \/ \E a \in Page : Fault(t, a) \/ WildAccess(t, a)
    \/ BootStep
    \/ Halted

Spec == Init /\ [][Next]_vars

\* The scheduler comes back to every thread, and a thread whose turn comes again and
\* again goes on with its handler: a turn lasts from one tick to the next.
FairSpec ==
    /\ Spec
    /\ \A t \in Thread : SF_vars(PageStep(t) \/ HandlerStep(t)) /\ SF_vars(Switch(t))

-----------------------------------------------------------------------------
(* Properties *)

InHandler(t) == at[t].pc \notin {"new", "user", "dead"}

Position ==
    [pc : {"new", "next", "user", "get", "cli", "fill", "take", "sti", "store", "update", "memset",
           "flags", "check", "unhandled", "firstFree", "set", "map", "iret", "grown", "copy",
           "link", "load", "dead"},
     call : Seq(Calls), p : Dir, dir : Dir, virt : Virt \cup {0}, page : Page \cup {0},
     table : Virt \cup {0}, frame : Frame \cup {0}, made : BOOLEAN, heap : HeapTables \cup {0},
     back : {"none", "next", "link", "load", "iret"}]

\* The lock, the reserve, the directories and the contexts keep their types.
TypeOK ==
    /\ if_locks \in Nat
    /\ IF_ \in [Context -> BOOLEAN]
    /\ cur \in Context
    /\ at \in [Context -> Position]
    /\ locked \in BOOLEAN
    /\ freepages \in Seq([virt : Virt, phys : Frame])
    /\ frames \subseteq Frame
    /\ kmap \in [Virt -> Frame \cup {0}]
    /\ ktab \in [KTable -> Virt \cup {0}]
    /\ kphys \in [Dir -> [KTable -> {"none", "absent", "present"}]]
    /\ linked \subseteq Proc
    /\ dpage \in [Proc -> Virt \cup {0}]
    /\ utab \in [Proc -> Virt \cup {0}]
    /\ uphys \in [Proc -> [frame : Frame \cup {0}, present : BOOLEAN]]
    /\ mem \in [Frame -> [Page -> Frame \cup {0, Garbage}]]
    /\ fault \in KernelFaults

\* How many kmalloc_page calls of context c are between their cli and their sti.
Holds(c) == Len(at[c].call) - (IF at[c].call # <<>> /\ at[c].pc \notin {"fill", "take", "sti"} THEN 1 ELSE 0)

(***************************************************************************)
(* The global mutex guards the reserve: if_locks is 1 while kmain runs (2  *)
(* in elf_load), plus the kmalloc_page calls in progress, all of them of   *)
(* the context that runs; interrupts are never on while it is not 0; and   *)
(* get_free_pages is never entered by two contexts.  (Types included.)     *)
(***************************************************************************)
LockGuardsReserve ==
    /\ TypeOK
    /\ fault = "none" =>
          /\ if_locks = (IF cur # Boot THEN 0 ELSE IF at[Boot].dir = Kernel THEN 1 ELSE 2) + Holds(cur)
          /\ \A c \in Context \ {cur} : Holds(c) = 0
          /\ IF_[cur] => if_locks = 0
          /\ locked => Holds(cur) > 0

\* The kernel's pages somebody holds: in the reserve, just taken, or as a page table
\* or directory.
Owners(v) ==
    {<<"reserve", n>> : n \in {m \in 1..Len(freepages) : freepages[m].virt = v}}
    \cup {<<"taken", c>> : c \in {d \in Context : at[d].pc \in {"sti", "store"} /\ at[d].virt = v}}
    \cup {<<"dir", p>> : p \in {q \in Proc : dpage[q] = v}}
    \cup {<<"utab", p>> : p \in {q \in Proc : utab[q] = v}}
    \cup {<<"ktab", i>> : i \in {j \in KTable : ktab[j] = v}}

(***************************************************************************)
(* kmalloc_page never gives a page that somebody still holds, and every    *)
(* page that is held is mapped: whatever the interleaving of handlers that *)
(* make page tables, processes that end and give theirs back, and the      *)
(* reserve that takes a page for a table of its own while it is filled.    *)
(***************************************************************************)
PageGivenOnce ==
    fault = "none" => \A v \in Virt : Cardinality(Owners(v)) <= 1 /\ (Owners(v) # {} => kmap[v] # 0)

(***************************************************************************)
(* kmalloc_page finds a page in the reserve even when it is called from    *)
(* get_free_pages, which then does not fill it (freepagecount is unsigned  *)
(* and would wrap around).                                                 *)
(***************************************************************************)
ReserveNotEmpty == fault # "reserve" /\ \A c \in Context : at[c].pc = "take" => freepages # <<>>

(***************************************************************************)
(* A handler is interrupted only once it has taken a page for a page       *)
(* table: one that finds its tables in place ends before another begins.   *)
(***************************************************************************)
InterruptedOnlyAfterTable ==
    fault = "none" => \A t \in Thread \ {cur} : InHandler(t) => at[t].made

\* Every page fault comes to an end: the thread goes on or its process ends.
EveryFaultEnds == \A t \in Thread : at[t].pc = "get" ~> (~InHandler(t) \/ fault # "none")

(***************************************************************************)
(* "we use cli and sti as a global system mutex ... interrupt handling":   *)
(* no two threads are in interrupt handlers at the same time.              *)
(***************************************************************************)
HandlersExclusive == Cardinality({t \in Thread : InHandler(t)}) <= 1

(***************************************************************************)
(* tasking_updateKernelPagetable "updates the page directories of all the  *)
(* processes": a page table the kernel can use is there in each of them.   *)
(***************************************************************************)
KernelTablesPresent ==
    \A p \in linked, i \in KTable : kphys[Kernel][i] = "present" => kphys[p][i] = "present"

(***************************************************************************)
(* A fault of a program inside its segment ends the process only if two    *)
(* threads of it raced for the page table: one of the two was interrupted  *)
(* after kmalloc_page gave it the page for it, or both made a table, and   *)
(* the directory has the one and the processor the other.  A process with  *)
(* one thread is never ended (simpleseg_handleFault returning 1 for a page *)
(* that has a frame) by what the others do.                                *)
(***************************************************************************)
EndedOnlyByTableRace ==
    \A t \in Thread : at[t].pc = "unhandled" =>
        LET p == ProcOf[t] IN
        \E u \in Thread \ {t} :
            /\ ProcOf[u] = p
            /\ \/ at[t].made
               \/ InHandler(u) /\ at[u].made
               \/ kmap[utab[p]] # uphys[p].frame

\* "Can allocate and map a frame if necessary": the fault of a program inside its
\* segment is handled, whatever other threads do; its process is not ended for it.
LegitFaultHandled == \A t \in Thread : at[t].pc # "unhandled"

\* frame_alloc gives a frame to one owner.
FrameGivenOnce == fault # "twice"
=============================================================================
