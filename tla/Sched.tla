------------------------------- MODULE Sched -------------------------------
(***************************************************************************)
(* Threads of the Grapes kernel: the run queues (task/sched.c), context    *)
(* switches, thread and process life time (task/task.c), sleeping threads  *)
(* and the clock (task/timer.c), and interrupt dispatch (task/idt.c).      *)
(*                                                                         *)
(* The kernel runs with interrupts disabled, so a system call is one step. *)
(* The interrupt handlers contain loops that wake one thread per iteration;*)
(* each iteration is a step, and kpc says where in the kernel the CPU is.  *)
(* While kpc is "irq" or "timer" nothing else can happen.                  *)
(***************************************************************************)
EXTENDS Integers, Sequences, FiniteSets

CONSTANTS
    Thread,      \* addresses kmalloc can give to a struct thread
    Proc,        \* processes created by kmain, one per boot module
    Privilege,   \* privilege level of each process (PL_* in task.h)
    BootQueue,   \* the modules' first threads, in the order kmain loads them
    BootProc,    \* the process of each of them
    Irq,         \* interrupt request lines in use; 0 is the timer
    SleepTimes,  \* arguments of thread_sleep
    Frequency,   \* timer interrupts per second (30 in kmain)
    MSEC,        \* milliseconds per second (1000 in the code)
    WORD,        \* number of values of a uint32_t (2^32 in the code)
    Idle,        \* idle_thread
    Null         \* the null pointer

Priorities == 0..3
PL_DRIVER == 1
PL_SERVICE == 2

ASSUME NullAssumption == Null \notin Thread /\ Idle \notin Thread /\ Null # Idle
ASSUME ProcAssumption == Null \notin Proc /\ Privilege \in [Proc -> Priorities]
ASSUME BootAssumption ==
    /\ BootQueue \in [Priorities -> Seq(Thread)]
    /\ BootProc \in [Thread -> Proc \cup {Null}]
    /\ \A q, r \in Priorities : \A i \in 1..Len(BootQueue[q]), j \in 1..Len(BootQueue[r]) :
          BootQueue[q][i] = BootQueue[r][j] => q = r /\ i = j
    /\ \A q \in Priorities : \A i \in 1..Len(BootQueue[q]) :
          LET p == BootProc[BootQueue[q][i]] IN p # Null /\ Privilege[p] = q
    /\ \A t \in Thread : BootProc[t] # Null =>
          \E q \in Priorities : \E i \in 1..Len(BootQueue[q]) : BootQueue[q][i] = t
ASSUME ClockAssumption ==
    /\ Frequency \in Nat \ {0} /\ MSEC \in Nat \ {0} /\ WORD \in Nat \ {0}
    /\ SleepTimes \subseteq Nat
    /\ Irq \subseteq Nat /\ 0 \in Irq

VARIABLES
    queue,       \* queue[]/last[]/queue_next of sched.c, one sequence per priority
    current,     \* current_thread
    process,     \* th->process; Null when the struct thread is not allocated
    state,       \* th->state
    sleeping,    \* sleeping_threads of timer.c, in list order
    irq_wakeup,  \* irq_wakeup[] of idt.c, in list order
    tick,        \* interrupts since the last full second
    uptime,      \* seconds since boot
    kpc,         \* where the CPU is: see KernelPoints
    irqno,       \* the interrupt being handled
    doSwitch,    \* local of idt_irqHandler
    fault        \* "none", or why the kernel can no longer be trusted

vars == <<queue, current, process, state, sleeping, irq_wakeup, tick, uptime,
          kpc, irqno, doSwitch, fault>>
clockVars == <<tick, uptime>>
irqVars == <<irqno, doSwitch>>

(***************************************************************************)
(* "run": interrupts enabled, current executes (user code or the idle      *)
(* loop).  "switch": interrupts enabled, on the temporary stack, about to  *)
(* call tasking_switch (end of kmain and of thread_exit2).  "irq": in the  *)
(* wake-up loop of idt_irqHandler.  "timer": in the wake-up loop of        *)
(* timer_wakeUpSleepingThreads.                                            *)
(***************************************************************************)
KernelPoints == {"run", "switch", "irq", "timer"}

(***************************************************************************)
(* "panic": the kernel halted.  "dangling": a list the kernel still walks  *)
(* names a struct thread that was freed; what follows is undefined, so the *)
(* model stops there.                                                      *)
(***************************************************************************)
Faults == {"none", "panic", "dangling"}

Processes == {process[t] : t \in Thread} \ {Null}
Priority(t) == Privilege[process[t]]
ThreadsOf(p) == {t \in Thread : process[t] = p}

\* Linked lists, one per priority or per interrupt line: thread t stands in list
\* a of f, and no thread stands in the lists of f twice.
Holds(f, a, t) == \E i \in 1..Len(f[a]) : f[a][i] = t
NoRepeat(f) ==
    \A a, b \in DOMAIN f : \A i \in 1..Len(f[a]), j \in 1..Len(f[b]) :
        f[a][i] = f[b][j] => a = b /\ i = j

InQueue(t) == \E q \in Priorities : Holds(queue, q, t)
IsSleeping(t) == \E i \in 1..Len(sleeping) : sleeping[i].thread = t
WaitsIrq(t) == \E n \in Irq : Holds(irq_wakeup, n, t)

(***************************************************************************)
(* At the end of kmain: tasking_init enqueued the idle thread before       *)
(* idle_thread was assigned, so it stands in the kernel priority queue;    *)
(* elf_exec enqueued one thread per module; no thread is current.          *)
(***************************************************************************)
Init ==
    /\ queue = [BootQueue EXCEPT ![0] = <<Idle>> \o @]
    /\ current = Null
    /\ process = BootProc
    /\ state = [t \in Thread |-> "RUNNING"]
    /\ sleeping = <<>>
    /\ irq_wakeup = [n \in Irq |-> <<>>]
    /\ tick = 0 /\ uptime = 0
    /\ kpc = "switch"
    /\ irqno = 0 /\ doSwitch = FALSE
    /\ fault = "none"

-----------------------------------------------------------------------------
(* sched.c *)

\* Faulty variant: the new last element replaces the whole list.
EnqueueReplaces(q, t) ==
    IF t = Idle THEN q ELSE [q EXCEPT ![Priority(t)] = <<t>>]

\* Faulty variant: the thread goes to the front of its queue.
EnqueueInFront(q, t) ==
    IF t = Idle THEN q ELSE [q EXCEPT ![Priority(t)] = <<t>> \o @]

sched_enqueue(q, t) ==
    IF t = Idle THEN q ELSE [q EXCEPT ![Priority(t)] = Append(@, t)]

\* Faulty variant: the highest-numbered non-empty queue.
LastQueue(q) ==
    CHOOSE i \in Priorities : q[i] # <<>> /\ \A j \in Priorities : j > i => q[j] = <<>>

\* The queue sched_dequeue pops from: the lowest-numbered non-empty one.
NextQueue(q) ==
    CHOOSE i \in Priorities : q[i] # <<>> /\ \A j \in Priorities : j < i => q[j] = <<>>

(* task.c *)

\* Faulty variant: a thread that went to sleep is enqueued too.
SwitchRequeuesAll(q, st) ==
    LET q1 == IF current # Null THEN sched_enqueue(q, current) ELSE q
    IN  /\ kpc' = "run"
        /\ IF \A i \in Priorities : q1[i] = <<>>
           THEN current' = Idle /\ queue' = q1
           ELSE /\ current' = Head(q1[NextQueue(q1)])
                /\ queue' = [q1 EXCEPT ![NextQueue(q1)] = Tail(@)]
        /\ UNCHANGED fault

(***************************************************************************)
(* tasking_switch, from run queues q and thread states st: the outgoing    *)
(* thread goes back to its queue if it still runs, and the next thread is  *)
(* popped; the idle thread runs when the queues are empty.                 *)
(***************************************************************************)
tasking_switch(q, st) ==
    LET requeue == current # Null /\ (current \in Thread => st[current] = "RUNNING")
        q1 == IF requeue THEN sched_enqueue(q, current) ELSE q
    IN  IF Processes = {}
        THEN fault' = "panic" /\ UNCHANGED <<queue, current, kpc>>
        ELSE /\ kpc' = "run"
             /\ IF \A i \in Priorities : q1[i] = <<>>
                THEN current' = Idle /\ queue' = q1
                ELSE /\ current' = Head(q1[NextQueue(q1)])
                     /\ queue' = [q1 EXCEPT ![NextQueue(q1)] = Tail(@)]
             /\ UNCHANGED fault

thread_wakeUp(t) ==
    IF state[t] = "WAKEWAIT"
    THEN state' = [state EXCEPT ![t] = "RUNNING"] /\ queue' = sched_enqueue(queue, t)
    ELSE UNCHANGED <<state, queue>>

\* Faulty variant: the state of the thread is left alone.
GoInactiveStillRunning == UNCHANGED state /\ tasking_switch(queue, state)

thread_goInactive ==
    /\ state' = [state EXCEPT ![current] = "WAKEWAIT"]
    /\ tasking_switch(queue, [state EXCEPT ![current] = "WAKEWAIT"])

\* A system call by thread t: it is running user code.
Syscall(t) == fault = "none" /\ kpc = "run" /\ current = t

Schedule(t) ==
    /\ Syscall(t)
    /\ tasking_switch(queue, state)
    /\ UNCHANGED <<process, state, sleeping, irq_wakeup, clockVars, irqVars>>

(* request.c puts a thread to sleep until its request or its answer comes. *)
Block(t) ==
    /\ Syscall(t)
    /\ thread_goInactive
    /\ UNCHANGED <<process, sleeping, irq_wakeup, clockVars, irqVars>>

(* request.c wakes a thread it put to sleep. *)
Wake(t, u) ==
    /\ Syscall(t)
    /\ process[u] # Null /\ state[u] = "WAKEWAIT" /\ ~IsSleeping(u) /\ ~WaitsIrq(u)
    /\ thread_wakeUp(u)
    /\ UNCHANGED <<current, process, sleeping, irq_wakeup, clockVars, kpc, irqVars, fault>>

thread_new(t, u) ==
    /\ Syscall(t)
    /\ process[u] = Null
    /\ process' = [process EXCEPT ![u] = process[t]]
    /\ state' = [state EXCEPT ![u] = "RUNNING"]
    /\ queue' = [queue EXCEPT ![Priority(t)] = Append(@, u)]
    /\ UNCHANGED <<current, sleeping, irq_wakeup, clockVars, kpc, irqVars, fault>>

(***************************************************************************)
(* thread_delete reads userStack_seg, which thread_new leaves              *)
(* uninitialized for a process below PL_SERVICE: the null test passes or   *)
(* seg_unmap runs on garbage.  process_delete reads it->next after the     *)
(* struct was freed: the old value, or a fault when the page was unmapped. *)
(* Either way the outcome can be a kernel page fault, that is, a panic.    *)
(***************************************************************************)
DeleteFaults(p, whole) == whole \/ Privilege[p] < PL_SERVICE

\* Some list of the kernel still holds thread t.
Listed(t) == InQueue(t) \/ IsSleeping(t) \/ WaitsIrq(t)

(* thread_exit2, after the reason has been decided: the threads in gone are
   freed; interrupts are enabled again before the switch. *)
ExitThreads(t, gone) ==
    \/ /\ process' = [u \in Thread |-> IF u \in gone THEN Null ELSE process[u]]
       /\ current' = Null
       /\ kpc' = "switch"
       /\ fault' = IF \E u \in gone : Listed(u) THEN "dangling" ELSE fault
       /\ UNCHANGED <<queue, state, sleeping, irq_wakeup, clockVars, irqVars>>
    \/ /\ DeleteFaults(process[t], gone = ThreadsOf(process[t]))
       /\ fault' = "panic"
       /\ UNCHANGED <<queue, current, process, state, sleeping, irq_wakeup, clockVars,
                      kpc, irqVars>>

thread_exit(t) ==
    /\ Syscall(t)
    /\ ExitThreads(t, {t})

process_exit(t) ==
    /\ Syscall(t)
    /\ ExitThreads(t, ThreadsOf(process[t]))

(* An exception in a program ends its thread; a page fault no segment handles
   (paging_fault, module Memory) ends its process. *)
tasking_handleException(t, int_no) ==
    ExitThreads(t, IF int_no = "page fault" THEN ThreadsOf(process[t]) ELSE {t})

idt_isrHandler(t, int_no) ==
    /\ Syscall(t)
    /\ tasking_handleException(t, int_no)

(* The tasking_switch at the end of thread_exit2 and of kmain. *)
ExitSwitch ==
    /\ fault = "none" /\ kpc = "switch"
    /\ tasking_switch(queue, state)
    /\ UNCHANGED <<process, state, sleeping, irq_wakeup, clockVars, irqVars>>

-----------------------------------------------------------------------------
(* timer.c *)

timer_time == (uptime * MSEC + (tick * MSEC) \div Frequency) % WORD

\* Faulty variant: insertion at the end of the list.
InsertLast(s) == Append(sleeping, s)

\* Sorted insertion in the list of sleeping threads, before the first entry
\* that does not wake up earlier.
InsertSleeper(s) ==
    LET k == CHOOSE n \in 1..(Len(sleeping) + 1) :
                /\ \A j \in 1..(n - 1) : sleeping[j].wakeup_time < s.wakeup_time
                /\ n <= Len(sleeping) => sleeping[n].wakeup_time >= s.wakeup_time
    IN  SubSeq(sleeping, 1, k - 1) \o <<s>> \o SubSeq(sleeping, k, Len(sleeping))

thread_sleep(t, msecs) ==
    /\ Syscall(t)
    /\ sleeping' = InsertSleeper([wakeup_time |-> (timer_time + msecs) % WORD, thread |-> t])
    /\ thread_goInactive
    /\ UNCHANGED <<process, irq_wakeup, clockVars, irqVars>>

\* Faulty variant: the second is one interrupt too long.
TickTooLate ==
    /\ tick' = IF tick = Frequency THEN 0 ELSE tick + 1
    /\ uptime' = IF tick = Frequency THEN (uptime + 1) % WORD ELSE uptime
    /\ kpc' = "timer"

\* Faulty variant: the seconds are not counted.
UptimeForgotten ==
    /\ tick' = IF tick + 1 = Frequency THEN 0 ELSE tick + 1
    /\ kpc' = "timer"
    /\ UNCHANGED uptime

timer_callback ==
    /\ tick' = IF tick + 1 = Frequency THEN 0 ELSE tick + 1
    /\ uptime' = IF tick + 1 = Frequency THEN (uptime + 1) % WORD ELSE uptime
    /\ kpc' = "timer"

\* Faulty variant: a thread is due only after its wake-up time.
DueLater == sleeping # <<>> /\ Head(sleeping).wakeup_time < timer_time

SleeperDue == sleeping # <<>> /\ Head(sleeping).wakeup_time <= timer_time

(* timer_wakeUpSleepingThreads: one iteration, and the end of the handler. *)
TimerWake ==
    /\ fault = "none" /\ kpc = "timer" /\ SleeperDue
    /\ thread_wakeUp(Head(sleeping).thread)
    /\ sleeping' = Tail(sleeping)
    /\ UNCHANGED <<current, process, irq_wakeup, clockVars, kpc, irqVars, fault>>

TimerDone ==
    /\ fault = "none" /\ kpc = "timer" /\ ~SleeperDue
    /\ tasking_switch(queue, state)
    /\ UNCHANGED <<process, state, sleeping, irq_wakeup, clockVars, irqVars>>

-----------------------------------------------------------------------------
(* idt.c *)

idt_waitIrq(t, n) ==
    /\ Syscall(t)
    /\ Priority(t) <= PL_DRIVER
    /\ irq_wakeup' = [irq_wakeup EXCEPT ![n] = <<t>> \o @]
    /\ thread_goInactive
    /\ UNCHANGED <<process, sleeping, clockVars, irqVars>>

(* idt_irqHandler: entry, one iteration of its loop, and what follows it. *)
IrqEnter(n) ==
    /\ fault = "none" /\ kpc \in {"run", "switch"}
    /\ kpc' = "irq" /\ irqno' = n /\ doSwitch' = (n = 0)
    /\ UNCHANGED <<queue, current, process, state, sleeping, irq_wakeup, clockVars, fault>>

IrqWake ==
    /\ fault = "none" /\ kpc = "irq" /\ irq_wakeup[irqno] # <<>>
    /\ thread_wakeUp(Head(irq_wakeup[irqno]))
    /\ irq_wakeup' = [irq_wakeup EXCEPT ![irqno] = Tail(@)]
    /\ doSwitch' = TRUE
    /\ UNCHANGED <<current, process, sleeping, clockVars, kpc, irqno, fault>>

IrqDone ==
    /\ fault = "none" /\ kpc = "irq" /\ irq_wakeup[irqno] = <<>>
    /\ IF irqno = 0
       THEN timer_callback /\ UNCHANGED <<queue, current, fault>>
       ELSE /\ IF doSwitch
               THEN tasking_switch(queue, state)
               ELSE /\ kpc' = IF current = Null THEN "switch" ELSE "run"
                    /\ UNCHANGED <<queue, current, fault>>
            /\ UNCHANGED clockVars
    /\ UNCHANGED <<process, state, sleeping, irq_wakeup, irqVars>>

-----------------------------------------------------------------------------

\* PANIC disables interrupts and halts the CPU.
Halted == fault # "none" /\ UNCHANGED vars

Next ==
    \/ \E t \in Thread :
          \/ Schedule(t) \/ Block(t) \/ thread_exit(t) \/ process_exit(t)
          \/ \E n \in {"page fault", "other"} : idt_isrHandler(t, n)
          \/ \E u \in Thread : Wake(t, u) \/ thread_new(t, u)
          \/ \E m \in SleepTimes : thread_sleep(t, m)
          \/ \E n \in Irq : idt_waitIrq(t, n)
    \/ \E n \in Irq : IrqEnter(n)
    \/ IrqWake \/ IrqDone \/ TimerWake \/ TimerDone \/ ExitSwitch
    \/ Halted

Spec == Init /\ [][Next]_vars

(***************************************************************************)
(* The timer has the highest priority of the interrupt controller, so it is*)
(* served again and again even when other lines keep firing; a handler that*)
(* has started runs to its end.                                            *)
(***************************************************************************)
Fairness ==
    /\ SF_vars(IrqEnter(0))
    /\ WF_vars(IrqWake \/ IrqDone \/ TimerWake \/ TimerDone)

FairSpec == Spec /\ Fairness

-----------------------------------------------------------------------------
(* Properties *)

Entries == [wakeup_time : 0..(WORD - 1), thread : Thread]

\* Every variable keeps its type, and a thread is current exactly outside the
\* window between thread_exit2's sti and its tasking_switch.
TypeOK ==
    /\ queue \in [Priorities -> Seq(Thread \cup {Idle})]
    /\ current \in Thread \cup {Idle, Null}
    /\ process \in [Thread -> Proc \cup {Null}]
    /\ state \in [Thread -> {"RUNNING", "WAKEWAIT"}]
    /\ sleeping \in Seq(Entries)
    /\ irq_wakeup \in [Irq -> Seq(Thread)]
    /\ tick \in 0..(Frequency - 1) /\ uptime \in 0..(WORD - 1)
    /\ kpc \in KernelPoints /\ irqno \in Irq /\ doSwitch \in BOOLEAN
    /\ fault \in Faults
    /\ kpc = "run" => current # Null
    /\ kpc = "switch" => current = Null

\* The linked lists of sched.c are well formed: no thread is enqueued twice
\* (a second sched_enqueueIn would cut or knot the list), and what stands in a
\* queue is a live runnable thread of that priority that is not running.
RunQueuesSound == fault = "none" =>
    /\ NoRepeat(queue)
    /\ ~InQueue(current)
    /\ \A q \in Priorities, t \in Thread : Holds(queue, q, t) =>
          process[t] # Null /\ state[t] = "RUNNING" /\ Priority(t) = q

\* No wake-up or switch loses a thread: a live thread in state TS_RUNNING has
\* the CPU or stands in a run queue.
NoThreadLost == fault = "none" =>
    \A t \in Thread : process[t] # Null /\ state[t] = "RUNNING" => t = current \/ InQueue(t)

\* A thread waits in at most one place: the entries of the list of sleeping
\* threads and of the irq_wakeup lists are live threads in TS_WAKEWAIT, each of
\* them listed once.  Hence every wake-up finds the thread still waiting for it.
WaitersSound == fault = "none" =>
    /\ \A i, j \in 1..Len(sleeping) : sleeping[i].thread = sleeping[j].thread => i = j
    /\ NoRepeat(irq_wakeup)
    /\ \A t \in Thread : IsSleeping(t) =>
          process[t] # Null /\ state[t] = "WAKEWAIT" /\ ~WaitsIrq(t)
    /\ \A t \in Thread : WaitsIrq(t) => process[t] # Null /\ state[t] = "WAKEWAIT"

\* thread_sleep keeps the list of sleeping threads sorted by wake-up time, on
\* which the loop of timer_wakeUpSleepingThreads relies when it stops at the
\* first thread that is not due.
SleepersSorted ==
    \A i, j \in 1..Len(sleeping) : i < j => sleeping[i].wakeup_time <= sleeping[j].wakeup_time

\* When the timer handler ends, every thread whose wake-up time has come has
\* left the list of sleeping threads.
NoOverdueSleeper ==
    [][kpc = "timer" /\ kpc' = "run" =>
          \A i \in 1..Len(sleeping') : sleeping'[i].wakeup_time > timer_time]_vars

\* A context switch to a thread leaves no thread of a more privileged process
\* waiting for the CPU ("Lower priority numbers have high priority", sched.c).
SwitchToHighest ==
    [][current' \in Thread /\ current' # current =>
          \A q \in Priorities : q < Priority(current') => queue'[q] = <<>>]_vars

\* process_exit leaves no list of the kernel pointing to a freed thread.
NoDanglingThread == fault # "dangling"

\* A thread of a process more privileged than that of t has the CPU.
HigherRuns(t) ==
    /\ process[t] # Null /\ current \in Thread
    /\ Priority(current) < Priority(t)

\* Every runnable thread gets the CPU: one that stands in a run queue for ever does
\* so only because threads of more privileged processes run again and again.
EveryThreadRuns ==
    \A t \in Thread : <>[](InQueue(t) /\ fault = "none") => []<>HigherRuns(t)

\* The values timer_time can show: not every value of a uint32_t, because 1000 and
\* 2^32 have a common divisor and the clock moves in steps of 33 or 34 ms.
ClockShows ==
    {(s * MSEC + (n * MSEC) \div Frequency) % WORD : s \in 0..(WORD - 1), n \in 0..(Frequency - 1)}

\* A sleeping thread is woken up eventually if the clock ever shows its wake-up time
\* or a later one, whatever turns the clock takes meanwhile and whoever goes to
\* sleep or exits.
ReachableSleeperWakes ==
    \A t \in Thread :
        (\E i \in 1..Len(sleeping) :
            sleeping[i].thread = t /\ \E c \in ClockShows : sleeping[i].wakeup_time <= c)
        ~> (~IsSleeping(t) \/ fault # "none")

\* A thread that called thread_sleep is woken up eventually, whenever it called.
EverySleeperWakes ==
    \A t \in Thread : IsSleeping(t) ~> (~IsSleeping(t) \/ fault # "none")

=============================================================================
