# Grapes in TLA+

Grapes is a small microkernel for x86 with a C library for its programs and a
manager program that registers services. This directory holds TLA+ models of its
parts, the TLC configurations that check them, and TLAPS proofs about the
scheduler. Paths below are those of the repository (`src/kernel`, `src/library`,
`src/modules`, `doc`).

## The system

| Part | State | Operations | Talks to |
|---|---|---|---|
| Scheduler (`kernel/task/sched.c`, `task.c`) | run queues by privilege, current thread, threads and processes | switch, block, wake, create, exit | timer, interrupts, IPC |
| Timer (`timer.c`) | ticks and uptime, sorted list of sleepers | tick, sleep, wake those due | scheduler |
| Interrupts (`idt.c`) | lists of threads that wait for an IRQ | handle an IRQ or an exception, wait for an IRQ, enter a system call | scheduler |
| Kernel pages (`mem/mem.c`), global lock (`core/sys.c`) | a reserve of pages, the count of `cli` | take a page, refill, give back; lock, unlock | paging, process creation and exit |
| Objects (`ipc/object.c`) | objects with owner and count, descriptor list of each process | create, close, look up | requests, process exit |
| Requests (`ipc/request.c`) | one request per object, its mutex, the thread that waits for it | send, take, answer, map shared memory | objects, scheduler, segments |
| Shared memory (`ipc/shm.c`), segments (`mem/seg.c`) | segments, their maps and mapping counts | create, delete, map, unmap, resize, fault | paging, requests |
| Paging (`mem/paging.c`) | bitset of frames, page tables, the TLB | map, unmap, fault, switch | segments |
| Heaps (`mem/heap.c`, `library/gc/mem.c`) | blocks with header and footer, index of holes | allocate, free, expand, contract | paging, heap segment |
| Shared memory spots (`library/gc/shm.c`) | list of blocks under a mutex | allocate, free, with or without a segment | kernel segments |
| Server loop (`library/gc/server.c`), calls (`library/gm`) | handlers of an object, parameters being mapped | get, dispatch, map, call, answer, release | requests, spots |
| Manager (`modules/manager`), test service (`modules/test`) | list of services | open, register, log | server loop, each other |

What is hard: threads are preempted by the timer and sleep inside system calls
(`request_get`, `mutex_lock`, `request`), so a call goes on with pointers that
other calls may have invalidated; objects and segments are counted by hand and
closed from several processes in any order; both heaps keep redundant structure
(headers, footers, index, end address) that a long series of calls must keep
consistent; clocks wrap and sizes are rounded. `PROJECT.json` lists these hazards
line by line.

## Modules

In `Sched`, `Objects`, `Ipc` and `Memory` an action is a whole kernel handler up to
the point where it puts its thread to sleep; the rest of the call is an action of its
own. Handlers run behind interrupt gates, but an interrupt gate does not count as a
`cli`, so the `sti` at the end of `kmalloc_page` turns interrupts on inside the
handler that called it. `KernelPages` looks at this with one step per access to
memory: its property `InterruptedOnlyAfterTable` says that a handler is interrupted
only after it took a page for a page table. The four modules describe the kernel
between such events, and `KernelPages` what happens around them.

Undefined behaviour (a use after free, a null dereference, a write outside a table)
ends the behaviour in a state whose `fault` names it; properties about the structure
are stated for `fault = "none"`, and that a fault cannot happen is a property where it
holds. Type invariants other than those of `Sched` are the first conjunct of a
structural invariant of the same module.

- **Sched** - `queue`, `sleeping` and `irq_wakeup` are the linked lists as
  sequences, `tick` and `uptime` the clock, `kpc` says which handler is between
  two of its steps. Waking in the interrupt handlers is one step per thread, as in
  their loops. An exception (`idt_isrHandler`) ends its thread or its process.
  `BootQueue` and `BootProc` are the threads `kmain` loads.
- **Objects** - operators on the record `k` of kernel tables: descriptor lists,
  counts, owners, segment maps. A list keeps the order of the code, newest first.
- **Ipc** - the calls of `request.c` and `object.c` on those tables, with `lock`
  (`busyMutex`), `rq` (the request of an object), `wakeup` (`wakeupOnRq`) and `th`
  (where a thread sleeps). `gets` counts deliveries and is not in the code.
- **Rpc** - what IPC promises a caller, without tables: an object has a slot that is
  free, asked or taken; a caller waits until its request is answered.
- **Heap** - blocks by address, the index as a sequence of addresses, the end, what
  is mapped and what callers hold. `KernelHeap` selects `kernel/mem/heap.c` or
  `library/gc/mem.c`, which differ in `heap_contract` and in who maps pages. A hole
  too small for its footer has a size that was overwritten (`Clobbered`).
- **ShmAlloc** - the list of blocks, the mutex, the kernel's segments, and where
  each thread is in its call.
- **Memory** - frames in use, page tables as functions from pages, segments and their
  maps, and a TLB that keeps translations until the address space changes. The TLB and
  the translation (`Access`, `NoTranslation`) are the processor's and not in the code.
  Segments may be created and mapped over each other, as the kernel lets programs do.
- **KernelPages** - the reserve of `kmalloc_page`, the count of `cli` and the interrupt
  flag of each context, the kernel's page tables in every directory, the page table of
  each process, and where each thread is in its page fault. `kmain`, which creates the
  processes, is a context of its own. The search of `get_free_pages` for a page is one
  step, because interrupts are off in it; a page taken for a table holds garbage until
  it is cleared.
- **Services** - programs with a main thread that calls and, for some, a second thread
  in `srv_handle`; the manager is one of them. Every object is one slot; `srv` is where
  a server is in `srv_handle`, `methods` what it has handlers for (servers start with
  those of `objsrv_init` and add theirs before they serve), `cl` where a thread is in a
  call, also for calls a method makes (the test service logs, the manager opens a
  resource of a service). `spots` is the shared memory space of a process; a call that
  finds it full goes on with a segment at address 0, except `c_logSvc`, which returns.
  `known` and `due` are history and not in the code.

`Services` takes from `Ipc` that an object holds one request and that a sender waits
for it to be free; `Ipc` and `Memory` look at the same segments, once as counts and
pointers and once as pages and frames. Each `MC` module gives an instance its
threads, processes and calls. Definitions marked "Faulty variant" are plausible
mistakes; putting one in place of the definition after it makes TLC violate the
property that is meant to catch it.

## Runs

| Run | Instance | Shows |
|---|---|---|
| `sched` | 3 threads, 2 processes of different privilege, 2 IRQs, 8-value clock, fair | queues and waiting lists sound, no thread lost, sleepers sorted and woken in time, highest priority first; every sleeper wakes whose time the clock can show, every runnable thread runs unless a more privileged one keeps the processor |
| `ipc_clients` | server, client with 2 threads, requests and messages | mutex and request agree, sleepers match requests, counts exact, implements `Rpc` |
| `ipc_single` | one thread per process, 3 objects, objects as parameters and answers | no object leaked or used after it was freed |
| `ipc_shm` | 2 segments, 3 maps, blocking requests, receivers that map once | mapping counts exact |
| `heap_library` | pages of 6 units, heap of 6 to 24, sizes 1, 4, 5 | blocks tile the heap, index lists the holes by size, neighbours joined, allocation ends |
| `shm_alloc` | 2 threads | blocks tile the space, a spot is given once, segments never overlap |
| `memory` | 2 processes, 5 pages each, aligned segments, up to 4 mapped at a time | frames exclusive and accounted for, a mapped page shows a segment that covers it, no stale translation reaches a private page of another process |
| `kernel_pages` | 3 threads in 2 processes, reserve of 2, two tables of 3 pages, one heap table, 10 frames, fair | the lock guards the reserve, no page given twice, reserve never empty when used, handlers interrupted only after making a table, every page fault ends, a fault inside a segment ends its process only after a race of its threads for the page table |
| `services` | 2 programs, one of them a service, 1 spot, fair | every spot free or held once, a registered service is found, every request answered, the manager's object freed after everything it can handle |

Bounds are named constants. Three threads are the fewest for a running, a queued and
a waiting one; two threads per process the fewest that race inside a call. The clock
width is small so that it wraps; `MSEC` and `WORD` have a common divisor, as 1000 and
2^32 have, so that there are times the clock never shows; of the two sleeping times one
ends exactly when the clock ticks and one between two ticks. The heap spans several pages
so that it expands, also twice in one allocation, and contracts; its sizes are such that
contraction leaves at least a header and a footer (with `MaxSize` 30 it would not, which
is the subject of `MCHeap_smallhole`). One spot makes a leak show at the next request. In
`KernelPages` two threads of one process race for a page table and the third is in a
process that can end meanwhile; two area tables of three pages make `get_free_pages` need a table while it
fills the reserve, and `NFrames` suffices for most behaviours (running out ends one).
`MaxDesc` bounds descriptor numbers, `MaxGets` the delivery count, `MaxSegs` the
segments of `ShmAlloc`, `MaxMaps` those a process of `Memory` maps at a time.
`shm_create` refuses lengths from `MaxShm` on.

Two runs assume something of programs. `ipc_shm` takes `MapOnceSpec`: a receiver maps
each parameter once before it answers, and leaves unmapping to `request_answer`; senders
make blocking requests and may exit at any time. `services` has callers that pass shared
memory to other processes only, and messages with memory only for methods the manager
has, as the library's calls do. What happens otherwise is shown by `MCIpc_remap`,
`MCIpc_shmdel`, `MCServices_own` and `MCServices_unhandled`, below.

Fairness: in `Sched` the timer, which has the highest priority of the interrupt
controller, keeps firing (strong) and a handler that started goes on (weak). In
`Heap` the allocation in progress goes on. In `KernelPages` the scheduler comes back
to every thread and a thread that gets the processor again and again goes on with its
handler (both strong: another thread may run at any moment, but a turn lasts until the
next tick). In `Services` threads that are awake run (weak), as `EveryThreadRuns` shows
for threads no more privileged one displaces; weak is all a thread gets that polls a
mutex, so a service whose own calls are overtaken for ever may leave its caller
waiting, and `EveryRequestAnswered` says that this is the only way.

### Where code and documents disagree

Three runs expect a violation and have a finding each in `PROJECT.json`:

- `sched_exit`: `process_exit` leaves freed threads in kernel lists, against "cleaning
  up everything" (`doc/syscalls.txt:10`).
- `ipc_receivers`: a thread that waited in `request_get` gets a request that another
  thread took meanwhile, against the result -3 of `request_get` (`doc/syscalls.txt:63`).
- `pages_tables`: a page table the kernel makes for itself is copied to the
  directories of the processes before its entry is marked present, and never again
  (`kernel/task/task.c:48`: "Updates the page directories of all the processes").

More configurations reproduce other disagreements, and what the passing runs leave out;
each checks one property and TLC finds it violated. They are kept as regression
instances for fixes and are not part of the list of runs.

| Configuration | Property | What happens | Line of code or document |
|---|---|---|---|
| `MCSched_wrap` | `EverySleeperWakes` | a wake-up time the wrapping clock never shows | `doc/syscalls.txt:9` |
| `MCIpc_waiters` | `ReceiverRemembered` | a second receiver makes the kernel forget the first | `kernel/ipc/request.c:19` |
| `MCIpc_shmdel` | `SentMemoryKept` | memory of a message is gone when its sender deletes it, as `c_registerSvc` does | `doc/objects-requests.txt:20` |
| `MCIpc_remap` | `MappedSegmentsAllocated` | a parameter mapped twice: its segment is freed while mapped | `kernel/mem/seg.c:19` |
| `MCIpc_close` | `CloseRemovesDescriptor` | only the newest descriptor is removed properly | `doc/syscalls.txt:56` |
| `MCIpc_orphan` | `OwnerCloseFailsRequests` | a request to a closed object is not failed (a TODO of the code) | `kernel/ipc/object.h:37` |
| `MCIpc_params` | `PendingObjectsKept` | a descriptor passed can be closed before it is used | `doc/objects-requests.txt:22` |
| `MCHeap_smallhole` | `ContractLeavesHole` | contraction leaves a hole too small for its footer | `library/gc/mem.c:202` |
| `MCHeap_contract` | `EndIsLastBlock` | the end of the kernel heap is one page low after a contraction | `kernel/mem/heap.c:123` |
| `MCHeap_lastblock` | `FreeStaysInHeap` | freeing the last block reads behind it | `kernel/mem/heap.c:194` |
| `MCHeap_index` | `IndexInBounds` | the bound compares a count with bytes | `kernel/mem/heap.c:9` |
| `MCShmAlloc_full` | `SegmentsInSpace` | a segment at address 0 when the space is full | `include/gc/shm.h:13` |
| `MCMemory_unaligned` | `AllFramesFreed` | the last page of an unaligned segment is not freed | `kernel/mem/seg.c:69` |
| `MCMemory_partpage` | `ShmFramesInBounds` | the array of frames is rounded down | `kernel/ipc/shm.c:50` |
| `MCMemory_overlap` | `NewestSegmentShown` | pages of a segment stay where another one is created over it | `doc/syscalls.txt:16` |
| `MCMemory_tlb` | `UnmappedIsUnreachable` | no TLB entry is invalidated | `kernel/mem/paging.c:180` |
| `MCKernelPages_lock` | `HandlersExclusive` | the lock is given up inside an interrupt handler | `kernel/core/sys.h:18` |
| `MCKernelPages_fault` | `LegitFaultHandled` | two threads fault on one page, and the later one ends their process | `kernel/mem/seg.c:78` |
| `MCKernelPages_frame` | `FrameGivenOnce` | a frame found free by two interrupted handlers | `kernel/mem/paging.c:18` |
| `MCServices_own` | `LocalMemoryKept` | memory of a caller in the same process is freed by server and caller | `library/gc/server.c:60` |
| `MCServices_unhandled` | `ObjectFreedAgain` | an unhandled message with memory blocks the loop | `include/gc/server.h:80` |
| `MCServices_resource` | `ResourceReachesService` | the separator of `file:root` is overwritten by the digit 0 | `doc/manager.txt:12` |
| `MCServices_odd` | `EveryRequestAnswered` | manager and service wait for each other when `open` calls a service that logs | `modules/manager/main.c:74` |

## Proofs

`SchedProofs` proves, for any sets of threads, processes and IRQs, any privileges and
any clock width and frequency satisfying the assumptions of `Sched`:

- `SchedulerSafe`: types, `RunQueuesSound`, `NoThreadLost` and `WaitersSound` always
  hold;
- `SleepersAlwaysSorted`: the list of sleepers is always sorted;
- `TimerWakesAllDue`: when the timer handler ends, nobody who is due is left.

The four invariants of `SchedulerSafe` are inductive only together: that
`thread_wakeUp` puts no thread in a queue twice needs that a thread in a waiting list
is not runnable (`WaitersSound`), that in turn needs that only the current thread can
start to wait, and the current thread is in no queue (`RunQueuesSound`). The proof has
lemmas on what enqueuing, dequeuing and inserting do to a sequence, one lemma per
action, and combines them in `InvariantStep`. Sortedness follows from where
`InsertSleeper` inserts; `TimerWakesAllDue` from sortedness, because the loop stops
at the first sleeper that is not due.

`idt_isrHandler`, which ends a thread or a process from inside an exception, is one of
the actions of the proof.

Only model-checked: all other modules, the refinement of `Rpc`, and liveness, which
is outside what TLAPS proves.

## Not modelled

- `malloc` called by two threads at once: the library heap has no lock, and each of
  its operations would have to be split at every access.
- `srv_create`, `srv_delete`, `srv_handleAll`, `checkIfHandlesMany` and
  `c_handleCheckA`: no program of the repository uses them.
- The boot allocator of `kmalloc` and the mapping `paging_init` sets up: they run once,
  before anything else.
- Wrap of sizes near 2^32.
- GDT, text output, strings, the ELF format; contents of memory and registers.

## Plan

1. `IpcProofs`: `MutexGuardsRequest`, `RequesterMatchesRequest` and
   `WaiterMatchesObject` as an inductive invariant, then the refinement of `Rpc`.
2. `KernelPagesProofs`: `LockGuardsReserve` with `InterruptedOnlyAfterTable`.
3. `HeapProofs` and `ShmAllocProofs`: `BlocksTile`, `GivenOnce`; `MemoryProofs`:
   `FramesExclusive`; `SwitchToHighest` for the scheduler.
4. Composition of `Services` with `Ipc` instead of one slot per object; two threads in
   the library heap.
