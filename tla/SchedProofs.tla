---------------------------- MODULE SchedProofs ----------------------------
EXTENDS Sched, SequenceTheorems, WellFoundedInduction, TLAPS

\* What appending t to list a of f, popping the head h of list a, and pushing t
\* in front of list a do to the contents of the lists.
Added(D, f, g, a, t) ==
    /\ \A b \in D : \A u : Holds(g, b, u) <=> Holds(f, b, u) \/ (b = a /\ u = t)
    /\ NoRepeat(f) /\ (\A b \in D : ~Holds(f, b, t)) => NoRepeat(g)
Popped(D, f, g, a, h) ==
    /\ Holds(f, a, h)
    /\ \A b \in D : \A u : Holds(g, b, u) => Holds(f, b, u)
    /\ \A b \in D : \A u : Holds(f, b, u) => Holds(g, b, u) \/ (b = a /\ u = h)
    /\ NoRepeat(f) => NoRepeat(g) /\ \A b \in D : ~Holds(g, b, h)

\* Appending to one list of a family adds one thread to it and moves no other:
\* what sched_enqueueIn does to the run queues.
LEMMA EnqueueFacts ==
    ASSUME NEW D, NEW T, NEW f \in [D -> Seq(T)], NEW a \in D, NEW t \in T,
           NEW g, g = [f EXCEPT ![a] = Append(@, t)]
    PROVE  Added(D, f, g, a, t)
<1>1. g \in [D -> Seq(T)] /\ g[a] = Append(f[a], t)
  OBVIOUS
<1>2. Len(g[a]) = Len(f[a]) + 1 /\ Len(f[a]) \in Nat
  BY <1>1
<1>3. \A i \in 1..Len(f[a]) : g[a][i] = f[a][i]
  BY <1>1
<1>4. g[a][Len(f[a]) + 1] = t
  BY <1>1
<1>5. \A b \in D \ {a} : g[b] = f[b]
  BY <1>1
<1>6. ASSUME NEW b \in D, NEW u
      PROVE  Holds(g, b, u) <=> Holds(f, b, u) \/ (b = a /\ u = t)
  <2>1. CASE b = a
    BY <2>1, <1>2, <1>3, <1>4 DEF Holds
  <2>2. CASE b # a
    BY <2>2, <1>5 DEF Holds
  <2> QED BY <2>1, <2>2
<1>7. ASSUME NoRepeat(f), \A b \in D : ~Holds(f, b, t)
      PROVE  NoRepeat(g)
  <2> SUFFICES ASSUME NEW b \in D, NEW c \in D, NEW i \in 1..Len(g[b]), NEW j \in 1..Len(g[c]),
                      g[b][i] = g[c][j]
               PROVE  b = c /\ i = j
    BY <1>1 DEF NoRepeat
  <2>0. \A d \in D : Len(f[d]) \in Nat
    OBVIOUS
  <2>1. ASSUME NEW d \in D, NEW k \in 1..Len(g[d])
        PROVE  (d = a /\ k = Len(f[a]) + 1 /\ g[d][k] = t) \/ (k \in 1..Len(f[d]) /\ g[d][k] = f[d][k])
    BY <1>2, <1>3, <1>4, <1>5, <2>0
  <2> QED BY <2>1, <1>7 DEF NoRepeat, Holds
<1> QED BY <1>6, <1>7 DEF Added

\* Removing the head of one list takes exactly that thread out of the family: what
\* sched_dequeueFrom and the wake-up loop of idt_irqHandler do.
LEMMA DequeueFacts ==
    ASSUME NEW D, NEW T, NEW f \in [D -> Seq(T)], NEW a \in D, f[a] # <<>>,
           NEW g, g = [f EXCEPT ![a] = Tail(@)], NEW h, h = Head(f[a])
    PROVE  Popped(D, f, g, a, h)
<1>1. g \in [D -> Seq(T)] /\ g[a] = Tail(f[a]) /\ h \in T
  BY HeadTailProperties
<1>2. Len(f[a]) \in Nat \ {0} /\ Len(g[a]) = Len(f[a]) - 1 /\ h = f[a][1]
  BY <1>1, HeadTailProperties
<1>3. \A i \in 1..Len(g[a]) : g[a][i] = f[a][i + 1]
  BY <1>1, <1>2, HeadTailProperties
<1>5. \A b \in D \ {a} : g[b] = f[b]
  OBVIOUS
<1>6. ASSUME NEW b \in D, NEW u
      PROVE  /\ Holds(g, b, u) => Holds(f, b, u)
             /\ Holds(f, b, u) => Holds(g, b, u) \/ (b = a /\ u = h)
  <2>1. CASE b = a
    <3>1. ASSUME NEW i \in 1..Len(g[a])
          PROVE  i + 1 \in 1..Len(f[a])
      BY <1>2
    <3>2. ASSUME NEW i \in 1..Len(f[a]), i # 1
          PROVE  i - 1 \in 1..Len(g[a]) /\ g[a][i - 1] = f[a][i]
      BY <1>2, <1>3, <3>2
    <3>3. Holds(g, a, u) => Holds(f, a, u)
      BY <1>3, <3>1 DEF Holds
    <3>4. Holds(f, a, u) => Holds(g, a, u) \/ u = h
      BY <1>2, <3>2 DEF Holds
    <3> QED BY <2>1, <3>3, <3>4
  <2>2. CASE b # a
    BY <2>2, <1>5 DEF Holds
  <2> QED BY <2>1, <2>2
<1>7. ASSUME NoRepeat(f)
      PROVE  NoRepeat(g) /\ \A b \in D : ~Holds(g, b, h)
  <2>1. ASSUME NEW d \in D, NEW k \in 1..Len(g[d])
        PROVE  \/ d = a /\ k + 1 \in 1..Len(f[a]) /\ g[d][k] = f[a][k + 1] /\ k \in Nat
               \/ d # a /\ k \in 1..Len(f[d]) /\ g[d][k] = f[d][k] /\ k \in Nat
    BY <1>2, <1>3, <1>5
  <2>2. ASSUME NEW b \in D, NEW c \in D, NEW i \in 1..Len(g[b]), NEW j \in 1..Len(g[c]),
               g[b][i] = g[c][j]
        PROVE  b = c /\ i = j
    BY <2>1, <2>2, <1>7 DEF NoRepeat
  <2>3. ASSUME NEW b \in D, NEW i \in 1..Len(g[b])
        PROVE  g[b][i] # h
    BY <2>1, <1>2, <1>7 DEF NoRepeat
  <2>4. DOMAIN g = D
    BY <1>1
  <2>5. NoRepeat(g)
    BY ZenonT(30), <2>2, <2>4 DEF NoRepeat
  <2> QED BY <2>3, <2>5 DEF Holds
<1>8. Holds(f, a, h)
  BY <1>2 DEF Holds
<1> QED BY <1>6, <1>7, <1>8 DEF Popped

\* Pushing in front of one list adds one thread to it and moves no other: what
\* idt_waitIrq does to irq_wakeup.
LEMMA PushFacts ==
    ASSUME NEW D, NEW T, NEW f \in [D -> Seq(T)], NEW a \in D, NEW t \in T,
           NEW g, g = [f EXCEPT ![a] = <<t>> \o @]
    PROVE  Added(D, f, g, a, t)
<1>0. <<t>> \in Seq(T) /\ Len(<<t>>) = 1 /\ <<t>>[1] = t
  OBVIOUS
<1>1. g \in [D -> Seq(T)] /\ g[a] = <<t>> \o f[a]
  BY <1>0, ConcatProperties
<1>2. Len(g[a]) = Len(f[a]) + 1 /\ Len(f[a]) \in Nat
  BY <1>0, <1>1, ConcatProperties
<1>3. \A i \in 1..Len(g[a]) : g[a][i] = IF i = 1 THEN t ELSE f[a][i - 1]
  BY <1>0, <1>1, <1>2, ConcatProperties
<1>5. \A b \in D \ {a} : g[b] = f[b]
  OBVIOUS
<1>6. ASSUME NEW b \in D, NEW u
      PROVE  Holds(g, b, u) <=> Holds(f, b, u) \/ (b = a /\ u = t)
  <2>1. CASE b = a
    <3>1. ASSUME NEW i \in 1..Len(f[a])
          PROVE  i + 1 \in 1..Len(g[a]) /\ g[a][i + 1] = f[a][i]
      BY <1>2, <1>3
    <3>2. ASSUME NEW i \in 1..Len(g[a]), i # 1
          PROVE  i - 1 \in 1..Len(f[a]) /\ g[a][i] = f[a][i - 1]
      BY <1>2, <1>3, <3>2
    <3>3. 1 \in 1..Len(g[a]) /\ g[a][1] = t
      BY <1>2, <1>3
    <3>4. Holds(f, a, u) => Holds(g, a, u)
      BY <3>1 DEF Holds
    <3>5. Holds(g, a, u) => Holds(f, a, u) \/ u = t
      BY <3>2, <3>3 DEF Holds
    <3>6. Holds(g, a, t)
      BY <3>3 DEF Holds
    <3> QED BY <2>1, <3>4, <3>5, <3>6
  <2>2. CASE b # a
    BY <2>2, <1>5 DEF Holds
  <2> QED BY <2>1, <2>2
<1>7. ASSUME NoRepeat(f), \A b \in D : ~Holds(f, b, t)
      PROVE  NoRepeat(g)
  <2>1. ASSUME NEW d \in D, NEW k \in 1..Len(g[d])
        PROVE  \/ d = a /\ k = 1 /\ g[d][k] = t
               \/ d = a /\ k \in Int /\ k - 1 \in 1..Len(f[d]) /\ g[d][k] = f[d][k - 1]
               \/ d # a /\ k \in 1..Len(f[d]) /\ g[d][k] = f[d][k]
    BY <1>2, <1>3, <1>5
  <2> SUFFICES ASSUME NEW b \in D, NEW c \in D, NEW i \in 1..Len(g[b]), NEW j \in 1..Len(g[c]),
                      g[b][i] = g[c][j]
               PROVE  b = c /\ i = j
    BY <1>1 DEF NoRepeat
  <2> QED BY <2>1, <1>7 DEF NoRepeat, Holds
<1> QED BY <1>6, <1>7 DEF Added

-----------------------------------------------------------------------------
(* The inductive invariant *)

Queues == [Priorities -> Seq(Thread \cup {Idle})]
States == [Thread -> {"RUNNING", "WAKEWAIT"}]

\* The running thread is allocated and in state TS_RUNNING.
CurrentLive == fault = "none" =>
    (current \in Thread => process[current] # Null /\ state[current] = "RUNNING")

IInv ==
    TypeOK /\ RunQueuesSound /\ NoThreadLost /\ WaitersSound /\ CurrentLive

\* What tasking_switch does to the run queues: the outgoing thread is added if it
\* still runs, and the new current thread is taken out.
LEMMA SwitchFacts ==
    ASSUME TypeOK, fault = "none", NEW q \in Queues, NEW st \in States,
           current \in Thread => process[current] # Null,
           tasking_switch(q, st)
    PROVE  LET requeue == current \in Thread /\ st[current] = "RUNNING" IN
           /\ queue' \in Queues \/ UNCHANGED queue
           /\ current' \in Thread \cup {Idle, Null} /\ fault' \in Faults
           /\ fault' # "none" => UNCHANGED <<kpc, current>>
           /\ fault' = "none" =>
                /\ queue' \in Queues
                /\ kpc' = "run" /\ current' # Null
                /\ \A a \in Priorities : \A u : Holds(queue', a, u) =>
                      Holds(q, a, u) \/ (requeue /\ u = current /\ a = Priority(u))
                /\ \A a \in Priorities : \A u : Holds(q, a, u) => Holds(queue', a, u) \/ u = current'
                /\ requeue => current' = current \/ Holds(queue', Priority(current), current)
                /\ current' \in Thread =>
                      (\E a \in Priorities : Holds(q, a, current')) \/ (requeue /\ current' = current)
                /\ NoRepeat(q) /\ (requeue => \A a \in Priorities : ~Holds(q, a, current)) =>
                      NoRepeat(queue') /\ \A a \in Priorities : ~Holds(queue', a, current')
<1> DEFINE requeue == current \in Thread /\ st[current] = "RUNNING"
           T == Thread \cup {Idle}
           q1 == IF requeue THEN [q EXCEPT ![Priority(current)] = Append(@, current)] ELSE q
<1>1. CASE Processes = {}
  BY <1>1 DEF tasking_switch, TypeOK, Faults
<1>2. CASE Processes # {}
  <2>0. requeue => Priority(current) \in Priorities
    BY ProcAssumption DEF TypeOK, Priority
  <2>1. /\ q1 \in [Priorities -> Seq(T)]
        /\ \A a \in Priorities : \A u : Holds(q1, a, u) <=>
              Holds(q, a, u) \/ (requeue /\ u = current /\ a = Priority(current))
        /\ NoRepeat(q) /\ (requeue => \A a \in Priorities : ~Holds(q, a, current)) => NoRepeat(q1)
    <3>1. CASE requeue
      <4>1. q \in [Priorities -> Seq(T)] /\ current \in T
        BY <3>1 DEF Queues
      <4>2. q1 = [q EXCEPT ![Priority(current)] = Append(@, current)]
        BY <3>1
      <4> HIDE DEF q1, T
      <4>3. Added(Priorities, q, q1, Priority(current), current)
        BY <4>1, <4>2, <2>0, <3>1, EnqueueFacts, Zenon
      <4>4. q1 \in [Priorities -> Seq(T)]
        BY <4>1, <4>2, <2>0, <3>1
      <4> QED BY <3>1, <4>3, <4>4 DEF Added
    <3>2. CASE ~requeue
      BY <3>2 DEF Queues
    <3> QED BY <3>1, <3>2
  <2>2. /\ kpc' = "run" /\ fault' = fault
        /\ IF \A i \in Priorities : q1[i] = <<>>
           THEN current' = Idle /\ queue' = q1
           ELSE /\ current' = Head(q1[NextQueue(q1)])
                /\ queue' = [q1 EXCEPT ![NextQueue(q1)] = Tail(@)]
    BY <1>2, NullAssumption DEF tasking_switch, sched_enqueue, TypeOK
  <2> HIDE DEF q1, requeue
  <2>3. CASE \A i \in Priorities : q1[i] = <<>>
    <3>1. \A a \in Priorities : \A u : ~Holds(q1, a, u)
      BY <2>3 DEF Holds
    <3>2. NoRepeat(q1)
      BY <2>3, <2>1 DEF NoRepeat
    <3>3. current' = Idle /\ queue' = q1
      BY <2>2, <2>3
    <3> QED
      BY <2>0, <2>1, <2>2, <3>1, <3>2, <3>3, NullAssumption DEF Queues, requeue, Faults, TypeOK
  <2>4. CASE ~ \A i \in Priorities : q1[i] = <<>>
    <3> DEFINE n == NextQueue(q1)
    <3>1. n \in Priorities /\ q1[n] # <<>>
      <4>1. \E i \in Priorities : q1[i] # <<>> /\ \A j \in Priorities : j < i => q1[j] = <<>>
        <5>1. Priorities = {0, 1, 2, 3}
          BY DEF Priorities
        <5> QED BY <5>1, <2>4
      <4> QED BY <4>1 DEF NextQueue
    <3>2. current' = Head(q1[n]) /\ queue' = [q1 EXCEPT ![n] = Tail(@)]
      BY <2>2, <2>4
    <3> HIDE DEF n
    <3> HIDE DEF T
    <3>a. Popped(Priorities, q1, queue', n, current')
      BY <3>1, <3>2, <2>1, DequeueFacts, Zenon
    <3>b. queue' \in [Priorities -> Seq(T)] /\ current' \in T
      BY <3>1, <3>2, <2>1
    <3>3. /\ queue' \in [Priorities -> Seq(T)] /\ current' \in T /\ Holds(q1, n, current')
          /\ \A a \in Priorities : \A u : Holds(queue', a, u) => Holds(q1, a, u)
          /\ \A a \in Priorities : \A u : Holds(q1, a, u) => Holds(queue', a, u) \/ (a = n /\ u = current')
          /\ NoRepeat(q1) => NoRepeat(queue') /\ \A a \in Priorities : ~Holds(queue', a, current')
      BY <3>a, <3>b DEF Popped
    <3>4. queue' \in Queues /\ current' \in Thread \cup {Idle, Null} /\ current' # Null
      BY <3>3, NullAssumption DEF Queues, T
    <3>5. fault' = "none" /\ kpc' = "run" /\ fault' \in Faults
      BY <2>2 DEF Faults
    <3>6. \A a \in Priorities : \A u : Holds(queue', a, u) =>
                      Holds(q, a, u) \/ (requeue /\ u = current /\ a = Priority(u))
      BY <3>3, <2>1
    <3>7. \A a \in Priorities : \A u : Holds(q, a, u) => Holds(queue', a, u) \/ u = current'
      BY <3>3, <2>1
    <3>8. requeue => current' = current \/ Holds(queue', Priority(current), current)
      BY <3>3, <2>1, <2>0
    <3>9. (\E a \in Priorities : Holds(q, a, current')) \/ (requeue /\ current' = current)
      BY <3>1, <3>3, <2>1
    <3> QED
      BY <3>3, <3>4, <3>5, <3>6, <3>7, <3>8, <3>9, <2>1 DEF requeue
  <2> QED BY <2>3, <2>4
<1> QED BY <1>1, <1>2

\* tasking_switch keeps the run queues sound and loses no thread, whatever state the
\* outgoing thread is left in.
LEMMA AfterSwitch ==
    ASSUME IInv, fault = "none", NEW st \in States,
           tasking_switch(queue, st), state' = st, process' = process,
           \A t \in Thread : t # current => st[t] = state[t]
    PROVE  /\ RunQueuesSound' /\ NoThreadLost' /\ CurrentLive'
           /\ queue' \in Queues /\ current' \in Thread \cup {Idle, Null}
           /\ fault' \in Faults /\ kpc' \in KernelPoints
           /\ (kpc' = "run" => current' # Null) /\ (kpc' = "switch" => current' = Null)
<1> DEFINE requeue == current \in Thread /\ st[current] = "RUNNING"
<1>0. queue \in Queues /\ (current \in Thread => process[current] # Null)
  BY DEF IInv, TypeOK, CurrentLive, Queues
<1>1. /\ queue' \in Queues \/ UNCHANGED queue
      /\ current' \in Thread \cup {Idle, Null} /\ fault' \in Faults
      /\ fault' # "none" => UNCHANGED <<kpc, current>>
  BY <1>0, SwitchFacts DEF IInv
<1>2. CASE fault' # "none"
  BY <1>0, <1>1, <1>2 DEF RunQueuesSound, NoThreadLost, CurrentLive, IInv, TypeOK
<1>3. CASE fault' = "none"
  <2>1. /\ queue' \in Queues
        /\ kpc' = "run" /\ current' # Null
        /\ \A a \in Priorities : \A u : Holds(queue', a, u) =>
              Holds(queue, a, u) \/ (requeue /\ u = current /\ a = Priority(u))
        /\ \A a \in Priorities : \A u : Holds(queue, a, u) => Holds(queue', a, u) \/ u = current'
        /\ requeue => current' = current \/ Holds(queue', Priority(current), current)
        /\ current' \in Thread =>
              (\E a \in Priorities : Holds(queue, a, current')) \/ (requeue /\ current' = current)
        /\ NoRepeat(queue) /\ (requeue => \A a \in Priorities : ~Holds(queue, a, current)) =>
              NoRepeat(queue') /\ \A a \in Priorities : ~Holds(queue', a, current')
    BY <1>0, <1>3, SwitchFacts DEF IInv
  <2>2. NoRepeat(queue) /\ \A a \in Priorities : ~Holds(queue, a, current)
    BY DEF IInv, RunQueuesSound, InQueue
  <2>3. NoRepeat(queue') /\ \A a \in Priorities : ~Holds(queue', a, current')
    BY <2>1, <2>2
  <2>4. ASSUME NEW a \in Priorities, NEW t \in Thread, Holds(queue', a, t)
        PROVE  process'[t] # Null /\ state'[t] = "RUNNING" /\ Privilege[process'[t]] = a
    <3>1. CASE Holds(queue, a, t)
      <4>1. t # current
        BY <3>1, <2>2
      <4> QED BY <3>1, <4>1 DEF IInv, RunQueuesSound, Priority
    <3>2. CASE requeue /\ t = current /\ a = Priority(t)
      BY <3>2, <1>0 DEF Priority
    <3> QED BY <2>1, <2>4, <3>1, <3>2
  <2>5. RunQueuesSound'
    BY <2>3, <2>4 DEF RunQueuesSound, InQueue, Priority
  <2>6. ASSUME NEW t \in Thread, process'[t] # Null, state'[t] = "RUNNING", t # current'
        PROVE  \E a \in Priorities : Holds(queue', a, t)
    <3>1. CASE t = current
      <4>1. Priority(t) \in Priorities
        BY <3>1, <1>0, ProcAssumption DEF IInv, TypeOK, Priority
      <4> QED BY <3>1, <4>1, <2>1, <2>6
    <3>2. CASE t # current
      <4>1. \E a \in Priorities : Holds(queue, a, t)
        BY <3>2, <2>6 DEF IInv, NoThreadLost, InQueue
      <4> QED BY <4>1, <2>1, <2>6
    <3> QED BY <3>1, <3>2
  <2>7. NoThreadLost'
    BY <2>6 DEF NoThreadLost, InQueue
  <2>8. CurrentLive'
    <3>1. ASSUME current' \in Thread
          PROVE  process[current'] # Null /\ st[current'] = "RUNNING"
      <4>1. CASE \E a \in Priorities : Holds(queue, a, current')
        <5>1. current' # current
          BY <4>1, <2>2
        <5> QED BY <4>1, <5>1, <3>1 DEF IInv, RunQueuesSound
      <4>2. CASE requeue /\ current' = current
        BY <4>2, <1>0
      <4> QED BY <4>1, <4>2, <2>1, <3>1
    <3> QED BY <3>1 DEF CurrentLive
  <2> QED BY <1>1, <2>1, <2>5, <2>7, <2>8 DEF KernelPoints
<1> QED BY <1>2, <1>3

\* thread_wakeUp of a waiting thread keeps the run queues sound and loses no thread.
LEMMA AfterWakeUp ==
    ASSUME IInv, fault = "none", NEW u \in Thread,
           process[u] # Null, state[u] = "WAKEWAIT",
           thread_wakeUp(u), UNCHANGED <<process, current, fault>>
    PROVE  /\ RunQueuesSound' /\ NoThreadLost' /\ CurrentLive'
           /\ queue' \in Queues /\ state' = [state EXCEPT ![u] = "RUNNING"]
<1> DEFINE T == Thread \cup {Idle}
<1>1. Priority(u) \in Priorities
  BY ProcAssumption DEF IInv, TypeOK, Priority
<1>2. /\ state' = [state EXCEPT ![u] = "RUNNING"]
      /\ queue' = [queue EXCEPT ![Priority(u)] = Append(@, u)]
  BY NullAssumption DEF thread_wakeUp, sched_enqueue
<1>3. queue \in [Priorities -> Seq(T)] /\ queue' \in [Priorities -> Seq(T)] /\ u \in T
      /\ state \in [Thread -> {"RUNNING", "WAKEWAIT"}]
  BY <1>1, <1>2 DEF IInv, TypeOK
<1> HIDE DEF T
<1>4. Added(Priorities, queue, queue', Priority(u), u)
  BY <1>1, <1>2, <1>3, EnqueueFacts, Zenon
<1>5. /\ NoRepeat(queue) /\ ~InQueue(current) /\ ~InQueue(u) /\ u # current
  BY DEF IInv, RunQueuesSound, InQueue, CurrentLive
<1>6. RunQueuesSound'
  <2>1. NoRepeat(queue') /\ ~InQueue(current)'
    BY <1>4, <1>5 DEF Added, InQueue
  <2>2. ASSUME NEW q \in Priorities, NEW t \in Thread, Holds(queue', q, t)
        PROVE  process[t] # Null /\ state'[t] = "RUNNING" /\ Priority(t) = q
    <3>1. Holds(queue, q, t) \/ (q = Priority(u) /\ t = u)
      BY <1>4, <2>2 DEF Added
    <3> QED BY <3>1, <1>2, <1>3 DEF IInv, RunQueuesSound
  <2> QED BY <2>1, <2>2 DEF RunQueuesSound, Priority
<1>7. NoThreadLost'
  <2>1. ASSUME NEW t \in Thread, process[t] # Null, state'[t] = "RUNNING", t # current
        PROVE  \E q \in Priorities : Holds(queue', q, t)
    <3>1. CASE t = u
      BY <3>1, <1>1, <1>4 DEF Added
    <3>2. CASE t # u
      <4>1. \E q \in Priorities : Holds(queue, q, t)
        BY <3>2, <2>1, <1>2, <1>3 DEF IInv, NoThreadLost, InQueue
      <4> QED BY <4>1, <1>4 DEF Added
    <3> QED BY <3>1, <3>2
  <2> QED BY <2>1 DEF NoThreadLost, InQueue
<1>8. CurrentLive'
  BY <1>2, <1>3, <1>5 DEF IInv, CurrentLive
<1> QED BY <1>2, <1>3, <1>6, <1>7, <1>8 DEF Queues, T

\* A non-empty set of numbers has a least element: the insertion loop of thread_sleep
\* stops at a first place.
LEMMA SmallestElement ==
    ASSUME NEW S \in SUBSET Nat, S # {}
    PROVE  \E m \in S : \A k \in S : m <= k
<1> DEFINE R == OpToRel(<, Nat)
<1>1. IsWellFoundedOn(R, Nat)
  BY NatLessThanWellFounded
<1>2. \A x, y \in Nat : x < y => <<x, y>> \in R
  BY DEF OpToRel
<1> HIDE DEF R
<1>3. \E x \in S : \A y \in S : ~ (<<y, x>> \in R)
  BY <1>1, WFMin
<1>4. PICK x \in S : \A y \in S : ~ (<<y, x>> \in R)
  BY <1>3
<1>5. \A y \in S : x \in Nat /\ y \in Nat /\ ~(y < x)
  BY <1>2, <1>4
<1>6. \A y \in S : x <= y
  BY <1>5
<1> QED BY <1>6

\* Where InsertSleeper puts the entry e, and what the list then holds.
InsertedAt(k, e, new) ==
    /\ \A j \in 1..(k - 1) : sleeping[j].wakeup_time < e.wakeup_time
    /\ k <= Len(sleeping) => sleeping[k].wakeup_time >= e.wakeup_time
    /\ new \in Seq(Entries) /\ Len(new) = Len(sleeping) + 1
    /\ \A i \in 1..(k - 1) : new[i] = sleeping[i]
    /\ new[k] = e
    /\ \A i \in (k + 1)..(Len(sleeping) + 1) : new[i] = sleeping[i - 1]

\* InsertSleeper puts the new entry at one place of the list of sleeping threads and
\* keeps the others in order, as the loop of thread_sleep does.
LEMMA InsertFacts ==
    ASSUME sleeping \in Seq(Entries), NEW e \in Entries, WORD \in Nat
    PROVE  \E k \in 1..(Len(sleeping) + 1) : InsertedAt(k, e, InsertSleeper(e))
<1> DEFINE L == Len(sleeping)
           Stop == {n \in 1..(L + 1) : n <= L => sleeping[n].wakeup_time >= e.wakeup_time}
           First(n) == /\ \A j \in 1..(n - 1) : sleeping[j].wakeup_time < e.wakeup_time
                       /\ n <= Len(sleeping) => sleeping[n].wakeup_time >= e.wakeup_time
           k == CHOOSE n \in 1..(Len(sleeping) + 1) : First(n)
           front == SubSeq(sleeping, 1, k - 1)
           back == SubSeq(sleeping, k, L)
<1>1. L \in Nat /\ \A i \in 1..L : sleeping[i] \in Entries
  OBVIOUS
<1>2. \A x \in Entries : x.wakeup_time \in Nat
  BY DEF Entries
<1>3. Stop \in SUBSET Nat /\ Stop # {}
  <2>1. L + 1 \in Stop
    BY <1>1
  <2> QED BY <1>1, <2>1
<1>4. PICK m \in Stop : \A n \in Stop : m <= n
  BY <1>3, SmallestElement
<1>5. First(m)
  <2>1. m \in 1..(L + 1)
    BY <1>4
  <2>2. ASSUME NEW j \in 1..(m - 1)
        PROVE  sleeping[j].wakeup_time < e.wakeup_time
    <3>1. j \in 1..L /\ j < m
      BY <1>1, <2>1
    <3>2. j \notin Stop
      BY <1>4, <3>1, <1>1
    <3>3. ~(sleeping[j].wakeup_time >= e.wakeup_time)
      BY <3>1, <3>2, <1>1
    <3> QED BY <3>1, <3>3, <1>1, <1>2
  <2> QED BY <2>2, <1>4
<1>6. k \in 1..(L + 1) /\ First(k)
  <2>1. m \in 1..(Len(sleeping) + 1)
    BY <1>4
  <2> HIDE DEF First
  <2> QED BY <1>5, <2>1
<1>7. InsertSleeper(e) = front \o <<e>> \o back
  BY DEF InsertSleeper
<1> HIDE DEF k
<1>8. /\ front \in Seq(Entries) /\ Len(front) = k - 1
      /\ \A i \in 1..(k - 1) : front[i] = sleeping[i]
  BY <1>1, <1>6, SubSeqProperties
<1>9. /\ back \in Seq(Entries) /\ Len(back) = L + 1 - k
      /\ \A i \in 1..(L + 1 - k) : back[i] = sleeping[k + i - 1]
  BY <1>1, <1>6, SubSeqProperties
<1> HIDE DEF front, back
<1>10. <<e>> \in Seq(Entries) /\ Len(<<e>>) = 1 /\ <<e>>[1] = e
  OBVIOUS
<1> DEFINE mid == front \o <<e>>
<1>11. /\ mid \in Seq(Entries) /\ Len(mid) = k
       /\ \A i \in 1..k : mid[i] = IF i <= k - 1 THEN front[i] ELSE <<e>>[i - (k - 1)]
  BY <1>6, <1>8, <1>10, ConcatProperties
<1> HIDE DEF mid
<1> DEFINE new == mid \o back
<1>12. /\ new \in Seq(Entries) /\ Len(new) = L + 1
       /\ \A i \in 1..(L + 1) : new[i] = IF i <= k THEN mid[i] ELSE back[i - k]
  <2>1. /\ new \in Seq(Entries) /\ Len(new) = Len(mid) + Len(back)
        /\ \A i \in 1..(Len(mid) + Len(back)) :
              new[i] = IF i <= Len(mid) THEN mid[i] ELSE back[i - Len(mid)]
    BY <1>9, <1>11, ConcatProperties
  <2>2. Len(mid) = k /\ Len(mid) + Len(back) = L + 1
    BY <1>1, <1>6, <1>9, <1>11
  <2> QED BY <2>1, <2>2
<1>13. new = InsertSleeper(e)
  BY <1>7 DEF mid
<1> HIDE DEF new
<1>14. \A i \in 1..(k - 1) : new[i] = sleeping[i]
  <2> SUFFICES ASSUME NEW i \in 1..(k - 1) PROVE new[i] = sleeping[i]
    OBVIOUS
  <2>1. i \in 1..(L + 1) /\ i \in 1..k /\ i <= k /\ i <= k - 1
    BY <1>1, <1>6
  <2>2. new[i] = mid[i]
    BY <2>1, <1>12
  <2>3. mid[i] = front[i]
    BY <2>1, <1>11
  <2> QED BY <2>2, <2>3, <1>8
<1>15. new[k] = e
  BY <1>1, <1>6, <1>10, <1>11, <1>12
<1>16. \A i \in (k + 1)..(L + 1) : new[i] = sleeping[i - 1]
  <2> SUFFICES ASSUME NEW i \in (k + 1)..(L + 1) PROVE new[i] = sleeping[i - 1]
    OBVIOUS
  <2>1. i \in 1..(L + 1) /\ ~(i <= k) /\ i - k \in 1..(L + 1 - k) /\ k + (i - k) - 1 = i - 1
    BY <1>1, <1>6
  <2>2. new[i] = back[i - k]
    BY <2>1, <1>12
  <2> QED BY <2>1, <2>2, <1>9
<1> QED BY <1>6, <1>12, <1>13, <1>14, <1>15, <1>16 DEF InsertedAt

-----------------------------------------------------------------------------

\* timer_time and a wake-up time computed from it are 32-bit words.
LEMMA TimeType ==
    ASSUME uptime \in 0..(WORD - 1), tick \in 0..(Frequency - 1), NEW m \in Nat
    PROVE  timer_time \in 0..(WORD - 1) /\ (timer_time + m) % WORD \in 0..(WORD - 1)
<1> DEFINE x == (tick * MSEC) \div Frequency
           y == uptime * MSEC
<1>1. tick * MSEC \in Int /\ y \in Int /\ Frequency \in Nat \ {0} /\ WORD \in Nat \ {0}
  BY ClockAssumption
<1>2. x \in Int
  BY <1>1
<1>3. timer_time = (y + x) % WORD
  BY DEF timer_time
<1> HIDE DEF x, y
<1>4. timer_time \in 0..(WORD - 1)
  BY <1>1, <1>2, <1>3
<1> QED BY <1>1, <1>4

\* The inductive invariant holds when kmain starts the scheduler.
LEMMA BootInvariant == Init => IInv
<1> SUFFICES ASSUME Init PROVE IInv
  OBVIOUS
<1> USE DEF Init
<1> DEFINE T == Thread \cup {Idle}
<1>1. 0 \in Priorities /\ Idle \in T
  BY DEF Priorities
<1>2. BootQueue \in [Priorities -> Seq(T)]
  BY BootAssumption
<1>3. queue = [BootQueue EXCEPT ![0] = <<Idle>> \o @]
  OBVIOUS
<1>4. queue \in [Priorities -> Seq(T)]
  BY <1>1, <1>2, <1>3
<1> HIDE DEF T
<1>5. Added(Priorities, BootQueue, queue, 0, Idle)
  BY <1>1, <1>2, <1>3, PushFacts, Zenon
<1>6. \A a \in Priorities : ~Holds(BootQueue, a, Idle)
  BY BootAssumption, NullAssumption DEF Holds
<1>7. NoRepeat(BootQueue)
  BY BootAssumption DEF NoRepeat
<1>8. TypeOK
  <2>1. tick \in 0..(Frequency - 1) /\ uptime \in 0..(WORD - 1) /\ irqno \in Irq
    BY ClockAssumption
  <2>2. sleeping \in Seq(Entries) /\ irq_wakeup \in [Irq -> Seq(Thread)]
    OBVIOUS
  <2>3. process \in [Thread -> Proc \cup {Null}]
    BY BootAssumption
  <2> QED BY <1>4, <2>1, <2>2, <2>3 DEF T, TypeOK, KernelPoints, Faults
<1>9. NoRepeat(queue) /\ ~InQueue(current)
  <2>1. \A a \in Priorities : ~Holds(queue, a, Null)
    BY <1>4, NullAssumption DEF Holds, T
  <2> QED BY <1>5, <1>6, <1>7, <2>1 DEF Added, InQueue
<1>10. ASSUME NEW q \in Priorities, NEW t \in Thread, Holds(queue, q, t)
       PROVE  process[t] # Null /\ state[t] = "RUNNING" /\ Priority(t) = q
  <2>1. Holds(BootQueue, q, t)
    BY <1>5, <1>10, NullAssumption DEF Added
  <2> QED BY <2>1, BootAssumption DEF Holds, Priority
<1>11. NoThreadLost
  <2>1. ASSUME NEW t \in Thread, process[t] # Null
        PROVE  InQueue(t)
    <3>1. \E q \in Priorities : Holds(BootQueue, q, t)
      BY <2>1, BootAssumption DEF Holds
    <3> QED BY <3>1, <1>5 DEF Added, InQueue
  <2> QED BY <2>1 DEF NoThreadLost
<1>12. WaitersSound
  <2>1. \A t : ~IsSleeping(t) /\ ~WaitsIrq(t)
    BY DEF IsSleeping, WaitsIrq, Holds
  <2> QED BY <2>1 DEF WaitersSound, NoRepeat
<1> QED BY <1>8, <1>9, <1>10, <1>11, <1>12, NullAssumption DEF IInv, RunQueuesSound, CurrentLive

\* The waiting lists survive a step that neither touches them nor wakes or frees
\* one of their threads.
LEMMA WaitersKept ==
    ASSUME WaitersSound, fault = "none", UNCHANGED <<sleeping, irq_wakeup>>,
           \A t \in Thread : (IsSleeping(t) \/ WaitsIrq(t)) =>
               process'[t] = process[t] /\ state'[t] = state[t]
    PROVE  WaitersSound'
BY DEF WaitersSound, IsSleeping, WaitsIrq, Holds, NoRepeat

\* A step that ends in tasking_switch keeps the invariant when it keeps the
\* waiting lists sound.
LEMMA SwitchStep ==
    ASSUME IInv, fault = "none", NEW st \in States,
           tasking_switch(queue, st), state' = st,
           \A t \in Thread : t # current => st[t] = state[t],
           UNCHANGED <<process, tick, uptime, irqno, doSwitch>>,
           sleeping' \in Seq(Entries), irq_wakeup' \in [Irq -> Seq(Thread)],
           WaitersSound'
    PROVE  IInv'
<1>1. /\ RunQueuesSound' /\ NoThreadLost' /\ CurrentLive'
      /\ queue' \in Queues /\ current' \in Thread \cup {Idle, Null}
      /\ fault' \in Faults /\ kpc' \in KernelPoints
      /\ (kpc' = "run" => current' # Null) /\ (kpc' = "switch" => current' = Null)
  BY AfterSwitch
<1>2. TypeOK'
  BY <1>1 DEF IInv, TypeOK, Queues, States
<1> QED BY <1>1, <1>2 DEF IInv

\* The calling thread of a system call stands in no waiting list, and marking it
\* inactive leaves the others as they were.
LEMMA CallerFacts ==
    ASSUME IInv, NEW t \in Thread, Syscall(t)
    PROVE  /\ fault = "none" /\ current = t /\ process[t] # Null /\ state[t] = "RUNNING"
           /\ ~IsSleeping(t) /\ ~WaitsIrq(t) /\ ~InQueue(t)
           /\ [state EXCEPT ![current] = "WAKEWAIT"] \in States
           /\ \A u \in Thread : u # t => [state EXCEPT ![current] = "WAKEWAIT"][u] = state[u]
           /\ [state EXCEPT ![current] = "WAKEWAIT"][t] = "WAKEWAIT"
BY DEF IInv, TypeOK, Syscall, CurrentLive, WaitersSound, RunQueuesSound, States

\* A thread that yields with the schedule system call keeps the invariant.
LEMMA ScheduleStep ==
    ASSUME IInv, NEW t \in Thread, Schedule(t) PROVE IInv'
<1>1. fault = "none" /\ current = t
  BY DEF Schedule, Syscall
<1>2. WaitersSound'
  BY <1>1, WaitersKept DEF IInv, Schedule
<1> QED BY <1>1, <1>2, SwitchStep DEF Schedule, IInv, TypeOK, States, clockVars, irqVars

\* A thread that goes to sleep in request.c keeps the invariant.
LEMMA BlockStep ==
    ASSUME IInv, NEW t \in Thread, Block(t) PROVE IInv'
<1>1. /\ fault = "none" /\ current = t /\ ~IsSleeping(t) /\ ~WaitsIrq(t)
      /\ [state EXCEPT ![current] = "WAKEWAIT"] \in States
      /\ \A u \in Thread : u # t => [state EXCEPT ![current] = "WAKEWAIT"][u] = state[u]
  BY CallerFacts DEF Block
<1>2. WaitersSound'
  BY <1>1, WaitersKept DEF IInv, Block, thread_goInactive
<1> QED
  BY <1>1, <1>2, SwitchStep DEF Block, thread_goInactive, IInv, TypeOK, clockVars, irqVars

\* thread_sleep keeps the invariant: its caller joins the sleepers once, and leaves
\* the CPU in TS_WAKEWAIT.
LEMMA SleepStep ==
    ASSUME IInv, NEW t \in Thread, NEW m \in SleepTimes, thread_sleep(t, m) PROVE IInv'
<1> DEFINE e == [wakeup_time |-> (timer_time + m) % WORD, thread |-> t]
<1>1. /\ fault = "none" /\ current = t /\ process[t] # Null
      /\ ~IsSleeping(t) /\ ~WaitsIrq(t)
      /\ [state EXCEPT ![current] = "WAKEWAIT"] \in States
      /\ \A u \in Thread : u # t => [state EXCEPT ![current] = "WAKEWAIT"][u] = state[u]
      /\ [state EXCEPT ![current] = "WAKEWAIT"][t] = "WAKEWAIT"
  BY CallerFacts DEF thread_sleep
<1>2. e \in Entries
  BY TimeType, ClockAssumption DEF IInv, TypeOK, Entries
<1>3. sleeping' = InsertSleeper(e)
  BY DEF thread_sleep
<1>4. e.thread = t
  OBVIOUS
<1> HIDE DEF e
<1>5. PICK k \in 1..(Len(sleeping) + 1) : InsertedAt(k, e, sleeping')
  BY <1>2, <1>3, InsertFacts, ClockAssumption DEF IInv, TypeOK
<1>6. sleeping' \in Seq(Entries) /\ Len(sleeping') = Len(sleeping) + 1 /\ Len(sleeping) \in Nat
  BY <1>5 DEF InsertedAt, IInv, TypeOK
<1>7. ASSUME NEW i \in 1..Len(sleeping')
      PROVE  \/ i = k /\ sleeping'[i].thread = t
             \/ i < k /\ i \in 1..Len(sleeping) /\ sleeping'[i] = sleeping[i]
             \/ i > k /\ i - 1 \in 1..Len(sleeping) /\ sleeping'[i] = sleeping[i - 1]
  BY <1>4, <1>5, <1>6 DEF InsertedAt
<1>8. \A u : IsSleeping(u)' => IsSleeping(u) \/ u = t
  BY <1>7 DEF IsSleeping
<1>9. \A i, j \in 1..Len(sleeping') : sleeping'[i].thread = sleeping'[j].thread => i = j
  <2> SUFFICES ASSUME NEW i \in 1..Len(sleeping'), NEW j \in 1..Len(sleeping'),
                      sleeping'[i].thread = sleeping'[j].thread
               PROVE  i = j
    OBVIOUS
  <2>1. \A a \in 1..Len(sleeping) : sleeping[a].thread # t
    BY <1>1 DEF IsSleeping
  <2>2. \A a, b \in 1..Len(sleeping) : sleeping[a].thread = sleeping[b].thread => a = b
    BY <1>1 DEF IInv, WaitersSound
  <2>3. k \in Int /\ i \in Int /\ j \in Int
    BY <1>6
  <2> DEFINE old(n) == IF n < k THEN n ELSE n - 1
  <2>4. ASSUME NEW n \in 1..Len(sleeping'), n # k
        PROVE  old(n) \in 1..Len(sleeping) /\ sleeping'[n] = sleeping[old(n)]
    BY <1>7, <2>3, <2>4
  <2>5. \/ i = k /\ j = k
        \/ i = k /\ j # k
        \/ i # k /\ j = k
        \/ i # k /\ j # k
    OBVIOUS
  <2>6. sleeping'[k].thread = t
    BY <1>4, <1>5 DEF InsertedAt
  <2>7. ASSUME i # k, j # k
        PROVE  i = j
    <3>1. old(i) = old(j)
      <4> HIDE DEF old
      <4> QED BY <2>2, <2>4, <2>7
    <3> QED BY <3>1, <2>3, <2>7
  <2>8. ASSUME NEW n \in 1..Len(sleeping'), n # k
        PROVE  sleeping'[n].thread # t
    <3> HIDE DEF old
    <3> QED BY <2>1, <2>4, <2>8
  <2> HIDE DEF old
  <2> QED BY <2>5, <2>6, <2>7, <2>8
<1>10. WaitersSound'
  <2>1. UNCHANGED <<irq_wakeup, process>> /\ state' = [state EXCEPT ![current] = "WAKEWAIT"]
    BY DEF thread_sleep, thread_goInactive
  <2>2. ASSUME NEW u \in Thread, IsSleeping(u)'
        PROVE  process'[u] # Null /\ state'[u] = "WAKEWAIT" /\ ~WaitsIrq(u)'
    <3>1. IsSleeping(u) \/ u = t
      BY <1>8, <2>2
    <3>2. WaitsIrq(u)' <=> WaitsIrq(u)
      BY <2>1 DEF WaitsIrq, Holds
    <3> QED BY <1>1, <2>1, <3>1, <3>2 DEF IInv, WaitersSound
  <2>3. ASSUME NEW u \in Thread, WaitsIrq(u)'
        PROVE  process'[u] # Null /\ state'[u] = "WAKEWAIT"
    <3>1. WaitsIrq(u)
      BY SMTT(30), ZenonT(30), <2>1, <2>3 DEF WaitsIrq, Holds
    <3> QED BY <1>1, <2>1, <3>1 DEF IInv, WaitersSound
  <2>4. NoRepeat(irq_wakeup)'
    BY <1>1, <2>1 DEF IInv, WaitersSound, NoRepeat
  <2> QED BY <1>9, <2>2, <2>3, <2>4 DEF WaitersSound
<1> QED
  BY <1>1, <1>6, <1>10, SwitchStep
  DEF thread_sleep, thread_goInactive, IInv, TypeOK, clockVars, irqVars

\* idt_waitIrq keeps the invariant: its caller joins one irq_wakeup list once.
LEMMA WaitIrqStep ==
    ASSUME IInv, NEW t \in Thread, NEW n \in Irq, idt_waitIrq(t, n) PROVE IInv'
<1>1. /\ fault = "none" /\ current = t /\ process[t] # Null
      /\ ~IsSleeping(t) /\ ~WaitsIrq(t)
      /\ [state EXCEPT ![current] = "WAKEWAIT"] \in States
      /\ \A u \in Thread : u # t => [state EXCEPT ![current] = "WAKEWAIT"][u] = state[u]
      /\ [state EXCEPT ![current] = "WAKEWAIT"][t] = "WAKEWAIT"
  BY CallerFacts DEF idt_waitIrq
<1>2. /\ irq_wakeup' = [irq_wakeup EXCEPT ![n] = <<t>> \o @]
      /\ irq_wakeup \in [Irq -> Seq(Thread)]
      /\ state' = [state EXCEPT ![current] = "WAKEWAIT"]
      /\ UNCHANGED <<process, sleeping>>
  BY DEF idt_waitIrq, thread_goInactive, IInv, TypeOK
<1>3. irq_wakeup' \in [Irq -> Seq(Thread)]
  BY <1>2
<1>4. Added(Irq, irq_wakeup, irq_wakeup', n, t)
  BY ZenonT(30), <1>2, PushFacts
<1>5. WaitersSound'
  <2>1. NoRepeat(irq_wakeup')
    BY <1>1, <1>4 DEF Added, IInv, WaitersSound, WaitsIrq
  <2>2. \A u : WaitsIrq(u)' <=> WaitsIrq(u) \/ u = t
    BY <1>4 DEF Added, WaitsIrq
  <2>3. \A u : IsSleeping(u)' <=> IsSleeping(u)
    BY <1>2 DEF IsSleeping
  <2>4. \A i, j \in 1..Len(sleeping') : sleeping'[i].thread = sleeping'[j].thread => i = j
    BY <1>1, <1>2 DEF IInv, WaitersSound
  <2>5. \A u \in Thread : IsSleeping(u)' =>
           process'[u] # Null /\ state'[u] = "WAKEWAIT" /\ ~WaitsIrq(u)'
    BY <1>1, <1>2, <2>2, <2>3 DEF IInv, WaitersSound
  <2>6. \A u \in Thread : WaitsIrq(u)' => process'[u] # Null /\ state'[u] = "WAKEWAIT"
    BY <1>1, <1>2, <2>2 DEF IInv, WaitersSound
  <2> QED BY <2>1, <2>4, <2>5, <2>6 DEF WaitersSound
<1> QED
  BY <1>1, <1>3, <1>5, SwitchStep
  DEF idt_waitIrq, thread_goInactive, IInv, TypeOK, clockVars, irqVars

\* A wake-up by request.c keeps the invariant.
LEMMA WakeStep ==
    ASSUME IInv, NEW t \in Thread, NEW u \in Thread, Wake(t, u) PROVE IInv'
<1>1. /\ fault = "none" /\ process[u] # Null /\ state[u] = "WAKEWAIT"
      /\ ~IsSleeping(u) /\ ~WaitsIrq(u) /\ thread_wakeUp(u)
      /\ UNCHANGED <<process, current, fault, sleeping, irq_wakeup>>
  BY DEF Wake, Syscall
<1>2. /\ RunQueuesSound' /\ NoThreadLost' /\ CurrentLive'
      /\ queue' \in Queues /\ state' = [state EXCEPT ![u] = "RUNNING"]
  BY <1>1, AfterWakeUp
<1>3. WaitersSound'
  BY <1>1, <1>2, WaitersKept DEF IInv
<1>4. TypeOK'
  BY <1>2 DEF Wake, IInv, TypeOK, Queues, clockVars, irqVars
<1> QED BY <1>2, <1>3, <1>4 DEF IInv

\* thread_new keeps the invariant: the new thread is in one queue, at its priority.
LEMMA ThreadNewStep ==
    ASSUME IInv, NEW t \in Thread, NEW u \in Thread, thread_new(t, u) PROVE IInv'
<1> DEFINE T == Thread \cup {Idle}
<1>1. /\ fault = "none" /\ current = t /\ process[t] # Null /\ process[u] = Null
  BY CallerFacts DEF thread_new
<1>2. /\ process' = [process EXCEPT ![u] = process[t]]
      /\ state' = [state EXCEPT ![u] = "RUNNING"]
      /\ queue' = [queue EXCEPT ![Priority(t)] = Append(@, u)]
      /\ UNCHANGED <<current, sleeping, irq_wakeup, tick, uptime, kpc, irqno, doSwitch, fault>>
  BY DEF thread_new, clockVars, irqVars
<1>3. Priority(t) \in Priorities /\ process \in [Thread -> Proc \cup {Null}]
      /\ state \in States
  BY <1>1, ProcAssumption DEF IInv, TypeOK, Priority, States
<1>4. queue \in [Priorities -> Seq(T)] /\ queue' \in [Priorities -> Seq(T)] /\ u \in T
  BY <1>2, <1>3 DEF IInv, TypeOK
<1> HIDE DEF T
<1>5. Added(Priorities, queue, queue', Priority(t), u)
  BY <1>2, <1>3, <1>4, EnqueueFacts, Zenon
<1>6. ~InQueue(u) /\ u # current /\ ~IsSleeping(u) /\ ~WaitsIrq(u)
  BY <1>1 DEF IInv, RunQueuesSound, WaitersSound, InQueue
<1>7. RunQueuesSound'
  <2>1. NoRepeat(queue') /\ ~InQueue(current)'
    BY <1>1, <1>2, <1>5, <1>6 DEF Added, IInv, RunQueuesSound, InQueue
  <2>2. ASSUME NEW q \in Priorities, NEW v \in Thread, Holds(queue', q, v)
        PROVE  process'[v] # Null /\ state'[v] = "RUNNING" /\ Privilege[process'[v]] = q
    <3>1. CASE v = u
      <4>1. q = Priority(t)
        BY <1>5, <1>6, <2>2, <3>1 DEF Added, InQueue
      <4> QED BY <3>1, <4>1, <1>1, <1>2, <1>3 DEF Priority, States
    <3>2. CASE v # u
      <4>1. Holds(queue, q, v)
        BY <1>5, <2>2, <3>2 DEF Added
      <4> QED BY <3>2, <4>1, <1>1, <1>2, <1>3 DEF Priority, IInv, RunQueuesSound, States
    <3> QED BY <3>1, <3>2
  <2> QED BY <2>1, <2>2 DEF RunQueuesSound, Priority
<1>8. NoThreadLost'
  <2>1. ASSUME NEW v \in Thread, process'[v] # Null, state'[v] = "RUNNING", v # current
        PROVE  \E q \in Priorities : Holds(queue', q, v)
    <3>1. CASE v = u
      BY <3>1, <1>3, <1>5 DEF Added
    <3>2. CASE v # u
      <4>1. \E q \in Priorities : Holds(queue, q, v)
        BY <3>2, <2>1, <1>1, <1>2, <1>3 DEF IInv, NoThreadLost, InQueue, States
      <4> QED BY <4>1, <1>5 DEF Added
    <3> QED BY <3>1, <3>2
  <2> QED BY <2>1, <1>2 DEF NoThreadLost, InQueue
<1>9. CurrentLive'
  BY <1>1, <1>2, <1>3, <1>6 DEF IInv, CurrentLive, States
<1>10. WaitersSound'
  BY <1>1, <1>2, <1>3, <1>6, WaitersKept DEF IInv, States
<1>11. TypeOK'
  BY <1>1, <1>2, <1>3, <1>4 DEF IInv, TypeOK, States, T
<1> QED BY <1>7, <1>8, <1>9, <1>10, <1>11 DEF IInv

\* thread_exit and process_exit keep the invariant: either no list names a freed
\* thread, or the fault is recorded.
LEMMA ExitStep ==
    ASSUME IInv, NEW t \in Thread, Syscall(t), NEW gone \in SUBSET Thread, t \in gone,
           ExitThreads(t, gone)
    PROVE  IInv'
<1>1. fault = "none" /\ current = t
  BY SMTT(30), ZenonT(30) DEF Syscall
<1>2. CASE fault' = "panic"
  <2>1. TypeOK'
    BY <1>2 DEF ExitThreads, IInv, TypeOK, Faults, KernelPoints, clockVars, irqVars
  <2> QED BY <1>2, <2>1 DEF IInv, RunQueuesSound, NoThreadLost, WaitersSound, CurrentLive
<1>3. CASE fault' # "panic"
  <2>1. /\ process' = [u \in Thread |-> IF u \in gone THEN Null ELSE process[u]]
        /\ current' = Null /\ kpc' = "switch"
        /\ fault' = IF \E u \in gone : Listed(u) THEN "dangling" ELSE fault
        /\ queue' = queue /\ state' = state /\ sleeping' = sleeping /\ irq_wakeup' = irq_wakeup
        /\ tick' = tick /\ uptime' = uptime /\ irqno' = irqno /\ doSwitch' = doSwitch
    BY <1>3 DEF ExitThreads, clockVars, irqVars
  <2>2. TypeOK'
    BY SMTT(30), ZenonT(30), <2>1 DEF IInv, TypeOK, Faults, KernelPoints
  <2>3. CASE fault' # "none"
    BY <2>2, <2>3 DEF IInv, RunQueuesSound, NoThreadLost, WaitersSound, CurrentLive
  <2>4. CASE fault' = "none"
    <3>1. \A u \in gone : ~InQueue(u) /\ ~IsSleeping(u) /\ ~WaitsIrq(u)
      BY <2>1, <2>4 DEF Listed
    <3>2. ~InQueue(Null)
      BY SMTT(30), ZenonT(30), NullAssumption DEF IInv, TypeOK, InQueue, Holds
    <3>3. RunQueuesSound'
      <4>1. RunQueuesSound
        BY DEF IInv
      <4>2. NoRepeat(queue)'
        <5>1. NoRepeat(queue) /\ queue' = queue
          BY <1>1, <2>1, <4>1 DEF RunQueuesSound
        <5> QED BY <5>1, ZenonT(30)
      <4>3. ~InQueue(current)'
        BY <2>1, <3>2 DEF InQueue, Holds
      <4>4. ASSUME NEW q \in Priorities, NEW u \in Thread, Holds(queue, q, u)'
            PROVE  (process[u] # Null /\ state[u] = "RUNNING" /\ Priority(u) = q)'
        <5>1. Holds(queue, q, u) /\ InQueue(u)
          BY <2>1, <4>4 DEF Holds, InQueue
        <5>2. u \notin gone
          BY <3>1, <5>1, Zenon
        <5>3. process'[u] = process[u] /\ state'[u] = state[u]
          BY <2>1, <5>2
        <5> QED BY ZenonT(30), <1>1, <4>1, <5>1, <5>3 DEF RunQueuesSound, Priority
      <4> QED BY <4>2, <4>3, <4>4 DEF RunQueuesSound
    <3>4. NoThreadLost'
      <4>1. ASSUME NEW u \in Thread, process'[u] # Null, state'[u] = "RUNNING"
            PROVE  InQueue(u)
        <5>1. u \notin gone /\ process[u] # Null /\ state[u] = "RUNNING"
          BY <2>1, <4>1
        <5>2. u = current \/ InQueue(u)
          BY <1>1, <5>1 DEF IInv, NoThreadLost
        <5> QED BY <1>1, <5>1, <5>2
      <4>2. ASSUME NEW u \in Thread PROVE InQueue(u) => InQueue(u)'
        BY <2>1 DEF InQueue, Holds
      <4> QED BY <4>1, <4>2 DEF NoThreadLost
    <3>5. WaitersSound'
      BY SMTT(30), ZenonT(30), <1>1, <2>1, <3>1, WaitersKept DEF IInv
    <3> QED BY <2>1, <2>2, <3>3, <3>4, <3>5, NullAssumption DEF IInv, CurrentLive
  <2> QED BY <2>3, <2>4
<1> QED BY <1>2, <1>3

\* The tail of a list of distinct sleepers holds all of them but the head.
LEMMA SleeperPopped ==
    ASSUME sleeping \in Seq(Entries), sleeping # <<>>, sleeping' = Tail(sleeping),
           \A i, j \in 1..Len(sleeping) : sleeping[i].thread = sleeping[j].thread => i = j
    PROVE  /\ sleeping' \in Seq(Entries) /\ Head(sleeping).thread \in Thread
           /\ IsSleeping(Head(sleeping).thread)
           /\ \A u : IsSleeping(u)' <=> IsSleeping(u) /\ u # Head(sleeping).thread
           /\ \A i, j \in 1..Len(sleeping') : sleeping'[i].thread = sleeping'[j].thread => i = j
<1>1. /\ sleeping' \in Seq(Entries) /\ Len(sleeping') = Len(sleeping) - 1
      /\ Len(sleeping) \in Nat \ {0} /\ Head(sleeping) = sleeping[1]
      /\ sleeping[1] \in Entries
  OBVIOUS
<1>2. ASSUME NEW i \in 1..Len(sleeping')
      PROVE  i + 1 \in 1..Len(sleeping) /\ i + 1 # 1 /\ sleeping'[i] = sleeping[i + 1]
  BY <1>1
<1>3. ASSUME NEW i \in 1..Len(sleeping), i # 1
      PROVE  i - 1 \in 1..Len(sleeping') /\ sleeping'[i - 1] = sleeping[i]
  BY <1>1, <1>3
<1>4. 1 \in 1..Len(sleeping)
  BY <1>1
<1>5. ASSUME NEW u
      PROVE  IsSleeping(u)' <=> IsSleeping(u) /\ u # Head(sleeping).thread
  <2>1. IsSleeping(u)' => IsSleeping(u) /\ u # Head(sleeping).thread
    BY <1>1, <1>2, <1>4 DEF IsSleeping
  <2>2. IsSleeping(u) /\ u # Head(sleeping).thread => IsSleeping(u)'
    BY <1>1, <1>3 DEF IsSleeping
  <2> QED BY <2>1, <2>2
<1>6. ASSUME NEW i \in 1..Len(sleeping'), NEW j \in 1..Len(sleeping'),
             sleeping'[i].thread = sleeping'[j].thread
      PROVE  i = j
  <2>1. i + 1 = j + 1
    BY <1>2, <1>6
  <2> QED BY <2>1, <1>1
<1>7. Head(sleeping).thread \in Thread
  BY <1>1 DEF Entries
<1> QED BY <1>1, <1>4, <1>5, <1>6, <1>7 DEF IsSleeping

\* One iteration of timer_wakeUpSleepingThreads keeps the invariant.
LEMMA TimerWakeStep == ASSUME IInv, TimerWake PROVE IInv'
<1> DEFINE u == Head(sleeping).thread
<1>1. /\ fault = "none" /\ sleeping # <<>> /\ sleeping' = Tail(sleeping) /\ thread_wakeUp(u)
      /\ UNCHANGED <<current, process, irq_wakeup, tick, uptime, kpc, irqno, doSwitch, fault>>
  BY DEF TimerWake, SleeperDue, clockVars, irqVars
<1>2. \A i, j \in 1..Len(sleeping) : sleeping[i].thread = sleeping[j].thread => i = j
  BY <1>1 DEF IInv, WaitersSound
<1>3. /\ sleeping' \in Seq(Entries) /\ u \in Thread /\ IsSleeping(u)
      /\ \A v : IsSleeping(v)' <=> IsSleeping(v) /\ v # u
      /\ \A i, j \in 1..Len(sleeping') : sleeping'[i].thread = sleeping'[j].thread => i = j
  BY <1>1, <1>2, SleeperPopped DEF IInv, TypeOK
<1> HIDE DEF u
<1>4. process[u] # Null /\ state[u] = "WAKEWAIT" /\ ~WaitsIrq(u)
  BY <1>1, <1>3 DEF IInv, WaitersSound
<1>5. /\ RunQueuesSound' /\ NoThreadLost' /\ CurrentLive'
      /\ queue' \in Queues /\ state' = [state EXCEPT ![u] = "RUNNING"]
  BY SMTT(30), ZenonT(30), <1>1, <1>3, <1>4, AfterWakeUp
<1>6. WaitersSound'
  <2>1. \A v : WaitsIrq(v)' <=> WaitsIrq(v)
    BY <1>1 DEF WaitsIrq, Holds
  <2>2. NoRepeat(irq_wakeup')
    BY <1>1 DEF IInv, WaitersSound
  <2>3. \A v \in Thread : v # u => state'[v] = state[v]
    BY SMTT(30), ZenonT(30), <1>5 DEF IInv, TypeOK
  <2>4. \A v \in Thread : IsSleeping(v)' =>
           process'[v] # Null /\ state'[v] = "WAKEWAIT" /\ ~WaitsIrq(v)'
    BY <1>1, <1>3, <2>1, <2>3 DEF IInv, WaitersSound
  <2>5. \A v \in Thread : WaitsIrq(v)' => process'[v] # Null /\ state'[v] = "WAKEWAIT"
    BY <1>1, <1>4, <2>1, <2>3 DEF IInv, WaitersSound
  <2> QED BY <1>3, <2>2, <2>4, <2>5 DEF WaitersSound
<1>7. TypeOK'
  BY <1>1, <1>3, <1>5 DEF IInv, TypeOK, Queues
<1> QED BY <1>5, <1>6, <1>7 DEF IInv

\* One iteration of the wake-up loop of idt_irqHandler keeps the invariant.
LEMMA IrqWakeStep == ASSUME IInv, IrqWake PROVE IInv'
<1> DEFINE u == Head(irq_wakeup[irqno])
<1>1. /\ fault = "none" /\ irq_wakeup[irqno] # <<>> /\ thread_wakeUp(u)
      /\ irq_wakeup' = [irq_wakeup EXCEPT ![irqno] = Tail(@)] /\ doSwitch' = TRUE
      /\ UNCHANGED <<current, process, sleeping, tick, uptime, kpc, irqno, fault>>
  BY DEF IrqWake, clockVars
<1>2. irq_wakeup \in [Irq -> Seq(Thread)] /\ irqno \in Irq
  BY DEF IInv, TypeOK
<1>3. irq_wakeup' \in [Irq -> Seq(Thread)] /\ u \in Thread
  BY <1>1, <1>2
<1>4. Popped(Irq, irq_wakeup, irq_wakeup', irqno, u)
  BY <1>1, <1>2, DequeueFacts, Zenon
<1> HIDE DEF u
<1>5. WaitsIrq(u)
  BY <1>2, <1>4 DEF Popped, WaitsIrq
<1>6. process[u] # Null /\ state[u] = "WAKEWAIT" /\ ~IsSleeping(u)
  BY <1>1, <1>3, <1>5 DEF IInv, WaitersSound
<1>7. /\ RunQueuesSound' /\ NoThreadLost' /\ CurrentLive'
      /\ queue' \in Queues /\ state' = [state EXCEPT ![u] = "RUNNING"]
  BY SMTT(30), ZenonT(30), <1>1, <1>3, <1>6, AfterWakeUp
<1>8. WaitersSound'
  <2>1. NoRepeat(irq_wakeup)
    BY <1>1 DEF IInv, WaitersSound
  <2>2. /\ NoRepeat(irq_wakeup')
        /\ \A v : WaitsIrq(v)' => WaitsIrq(v) /\ v # u
    BY <1>4, <2>1 DEF Popped, WaitsIrq
  <2>3. \A v : IsSleeping(v)' <=> IsSleeping(v)
    BY <1>1 DEF IsSleeping
  <2>4. \A v \in Thread : v # u => state'[v] = state[v]
    BY <1>7 DEF IInv, TypeOK
  <2>5. \A v \in Thread : IsSleeping(v)' =>
           process'[v] # Null /\ state'[v] = "WAKEWAIT" /\ ~WaitsIrq(v)'
    BY <1>1, <1>6, <2>2, <2>3, <2>4 DEF IInv, WaitersSound
  <2>6. \A v \in Thread : WaitsIrq(v)' => process'[v] # Null /\ state'[v] = "WAKEWAIT"
    BY <1>1, <2>2, <2>4 DEF IInv, WaitersSound
  <2>7. \A i, j \in 1..Len(sleeping') : sleeping'[i].thread = sleeping'[j].thread => i = j
    BY <1>1 DEF IInv, WaitersSound
  <2> QED BY <2>2, <2>5, <2>6, <2>7 DEF WaitersSound
<1>9. TypeOK'
  BY <1>1, <1>3, <1>7 DEF IInv, TypeOK, Queues
<1> QED BY <1>7, <1>8, <1>9 DEF IInv

\* A step that changes none of the thread lists.
LEMMA QuietStep ==
    ASSUME IInv, TypeOK', fault = "none",
           UNCHANGED <<queue, current, process, state, sleeping, irq_wakeup, fault>>
    PROVE  IInv'
<1>1. WaitersSound'
  BY WaitersKept DEF IInv
<1> QED
  BY <1>1 DEF IInv, RunQueuesSound, NoThreadLost, CurrentLive, InQueue, Holds, NoRepeat, Priority

\* The end of idt_irqHandler, with the clock of timer_callback, keeps the invariant.
LEMMA IrqDoneStep == ASSUME IInv, IrqDone PROVE IInv'
<1>1. CASE irqno = 0
  <2>0. /\ tick \in 0..(Frequency - 1) /\ uptime \in 0..(WORD - 1)
        /\ Frequency \in Nat \ {0} /\ WORD \in Nat \ {0}
    BY ClockAssumption DEF IInv, TypeOK
  <2>a. tick' \in 0..(Frequency - 1)
    BY <1>1, <2>0 DEF IrqDone, timer_callback
  <2>b. (uptime + 1) % WORD \in 0..(WORD - 1)
    BY <2>0
  <2>1. tick' \in 0..(Frequency - 1) /\ uptime' \in 0..(WORD - 1) /\ kpc' = "timer"
    BY <1>1, <2>0, <2>a, <2>b DEF IrqDone, timer_callback
  <2>2. TypeOK'
    BY SMTT(30), ZenonT(30), <1>1, <2>1 DEF IrqDone, IInv, TypeOK, KernelPoints, irqVars
  <2> QED BY <1>1, <2>2, QuietStep DEF IrqDone
<1>2. CASE irqno # 0 /\ ~doSwitch
  <2>1. TypeOK'
    BY <1>2 DEF IrqDone, IInv, TypeOK, KernelPoints, clockVars, irqVars
  <2> QED BY <1>2, <2>1, QuietStep DEF IrqDone
<1>3. CASE irqno # 0 /\ doSwitch
  <2>1. WaitersSound'
    BY WaitersKept DEF IrqDone, IInv, WaitersSound
  <2> QED
    BY SMTT(30), ZenonT(30), <1>3, <2>1, SwitchStep DEF IrqDone, IInv, TypeOK, States, clockVars, irqVars
<1> QED BY <1>1, <1>2, <1>3

\* Every step of the kernel keeps the inductive invariant.
LEMMA InvariantStep == IInv /\ [Next]_vars => IInv'
<1> SUFFICES ASSUME IInv, [Next]_vars PROVE IInv'
  OBVIOUS
<1>1. ASSUME NEW t \in Thread, Schedule(t) PROVE IInv'
  BY <1>1, ScheduleStep
<1>2. ASSUME NEW t \in Thread, Block(t) PROVE IInv'
  BY <1>2, BlockStep
<1>3. ASSUME NEW t \in Thread, thread_exit(t) PROVE IInv'
  BY <1>3, ExitStep DEF thread_exit
<1>4. ASSUME NEW t \in Thread, process_exit(t) PROVE IInv'
  <2>1. ThreadsOf(process[t]) \in SUBSET Thread /\ t \in ThreadsOf(process[t])
    BY DEF ThreadsOf
  <2> QED BY <1>4, <2>1, ExitStep DEF process_exit
<1>5. ASSUME NEW t \in Thread, NEW u \in Thread, Wake(t, u) PROVE IInv'
  BY <1>5, WakeStep
<1>6. ASSUME NEW t \in Thread, NEW u \in Thread, thread_new(t, u) PROVE IInv'
  BY <1>6, ThreadNewStep
<1>7. ASSUME NEW t \in Thread, NEW m \in SleepTimes, thread_sleep(t, m) PROVE IInv'
  BY <1>7, SleepStep
<1>8. ASSUME NEW t \in Thread, NEW n \in Irq, idt_waitIrq(t, n) PROVE IInv'
  BY <1>8, WaitIrqStep
<1>9. ASSUME NEW n \in Irq, IrqEnter(n) PROVE IInv'
  <2>1. TypeOK'
    BY <1>9 DEF IrqEnter, IInv, TypeOK, KernelPoints, clockVars
  <2> QED BY <1>9, <2>1, QuietStep DEF IrqEnter
<1>10. ASSUME TimerDone PROVE IInv'
  <2>1. WaitersSound'
    BY <1>10, WaitersKept DEF TimerDone, IInv
  <2> QED
    BY SMTT(30), ZenonT(30), <1>10, <2>1, SwitchStep DEF TimerDone, IInv, TypeOK, States, clockVars, irqVars
<1>11. ASSUME ExitSwitch PROVE IInv'
  <2>1. WaitersSound'
    BY <1>11, WaitersKept DEF ExitSwitch, IInv
  <2> QED
    BY <1>11, <2>1, SwitchStep DEF ExitSwitch, IInv, TypeOK, States, clockVars, irqVars
<1>12. ASSUME UNCHANGED vars PROVE IInv'
  <2>1. TypeOK'
    BY <1>12 DEF vars, IInv, TypeOK
  <2>2. RunQueuesSound'
    <3>1. queue' = queue /\ current' = current /\ process' = process /\ state' = state /\ fault' = fault
      BY <1>12 DEF vars
    <3> SUFFICES ASSUME fault = "none"
                 PROVE  /\ NoRepeat(queue)'
                        /\ ~InQueue(current)'
                        /\ \A q \in Priorities, t \in Thread : Holds(queue, q, t)' =>
                              process[t]' # Null /\ state[t]' = "RUNNING" /\ Priority(t)' = q
      BY <3>1 DEF RunQueuesSound
    <3>2. NoRepeat(queue)'
      BY <3>1 DEF IInv, RunQueuesSound, NoRepeat
    <3>3. ~InQueue(current)'
      BY <3>1 DEF IInv, RunQueuesSound, InQueue, Holds
    <3>4. ASSUME NEW q \in Priorities, NEW t \in Thread, Holds(queue, q, t)'
          PROVE  process[t]' # Null /\ state[t]' = "RUNNING" /\ Priority(t)' = q
      <4>1. Holds(queue, q, t)
        BY <3>1, <3>4 DEF Holds
      <4>2. Priority(t)' = Priority(t)
        BY <3>1 DEF Priority
      <4> QED BY <3>1, <4>1, <4>2 DEF IInv, RunQueuesSound
    <3> QED BY <3>2, <3>3, <3>4
  <2>3. NoThreadLost'
    BY <1>12 DEF vars, IInv, NoThreadLost, InQueue, Holds
  <2>4. WaitersSound'
    BY <1>12 DEF vars, IInv, WaitersSound, IsSleeping, WaitsIrq, Holds, NoRepeat
  <2>5. CurrentLive'
    BY <1>12 DEF vars, IInv, CurrentLive
  <2> QED BY <2>1, <2>2, <2>3, <2>4, <2>5 DEF IInv
<1>13. ASSUME NEW t \in Thread, NEW n, idt_isrHandler(t, n) PROVE IInv'
  <2>1. ThreadsOf(process[t]) \in SUBSET Thread /\ t \in ThreadsOf(process[t])
    BY DEF ThreadsOf
  <2> QED BY <1>13, <2>1, ExitStep DEF idt_isrHandler, tasking_handleException
<1> QED
  BY <1>1, <1>2, <1>3, <1>4, <1>5, <1>6, <1>7, <1>8, <1>9, <1>10, <1>11, <1>12, <1>13,
     IrqWakeStep, IrqDoneStep, TimerWakeStep DEF Next, Halted

\* TypeOK, RunQueuesSound, NoThreadLost and WaitersSound are invariants of the scheduler for every
\* set of threads, processes, interrupt lines and sleep times: tasking_switch,
\* thread_wakeUp and the waiting lists never lose or duplicate a thread.
THEOREM SchedulerSafe ==
    Spec => [](TypeOK /\ RunQueuesSound /\ NoThreadLost /\ WaitersSound)
<1>1. Init => IInv
  BY BootInvariant
<1>2. IInv /\ [Next]_vars => IInv'
  BY InvariantStep
<1>3. IInv => TypeOK /\ RunQueuesSound /\ NoThreadLost /\ WaitersSound
  BY DEF IInv
<1> QED BY <1>1, <1>2, <1>3, PTL DEF Spec

-----------------------------------------------------------------------------
(* Sleeping threads *)

\* Inserting where InsertSleeper does keeps the sleepers sorted by wake-up time.
LEMMA SortedInsert ==
    ASSUME sleeping \in Seq(Entries), SleepersSorted, NEW e \in Entries,
           NEW k \in 1..(Len(sleeping) + 1), InsertedAt(k, e, sleeping')
    PROVE  SleepersSorted'
<1>1. /\ Len(sleeping) \in Nat /\ Len(sleeping') = Len(sleeping) + 1
      /\ \A i \in 1..Len(sleeping) : sleeping[i].wakeup_time \in Int
      /\ e.wakeup_time \in Int
  <2>1. \A x \in Entries : x.wakeup_time \in Int
    BY ClockAssumption DEF Entries
  <2> QED BY <2>1 DEF InsertedAt
<1>2. \A i \in 1..Len(sleeping) : i < k => sleeping[i].wakeup_time < e.wakeup_time
  BY <1>1 DEF InsertedAt
<1>3. \A i \in 1..Len(sleeping) : i >= k => sleeping[i].wakeup_time >= e.wakeup_time
  <2> SUFFICES ASSUME NEW i \in 1..Len(sleeping), i >= k
               PROVE  sleeping[i].wakeup_time >= e.wakeup_time
    OBVIOUS
  <2>1. k \in 1..Len(sleeping) /\ sleeping[k].wakeup_time >= e.wakeup_time
    BY <1>1 DEF InsertedAt
  <2>2. sleeping[k].wakeup_time <= sleeping[i].wakeup_time
    BY <1>1, <2>1 DEF SleepersSorted
  <2> QED BY <1>1, <2>1, <2>2
<1>4. ASSUME NEW i \in 1..Len(sleeping')
      PROVE  \/ i = k /\ sleeping'[i] = e
             \/ i < k /\ i \in 1..Len(sleeping) /\ sleeping'[i] = sleeping[i]
             \/ i > k /\ i - 1 \in 1..Len(sleeping) /\ i - 1 >= k /\ sleeping'[i] = sleeping[i - 1]
  <2>1. CASE i = k
    BY <2>1 DEF InsertedAt
  <2>2. CASE i < k
    <3>1. i \in 1..Len(sleeping) /\ i \in 1..(k - 1)
      BY <1>1, <2>2
    <3> QED BY <2>2, <3>1 DEF InsertedAt
  <2>3. CASE i > k
    <3>1. i - 1 \in 1..Len(sleeping) /\ i - 1 >= k /\ i \in (k + 1)..(Len(sleeping) + 1)
      BY <1>1, <2>3
    <3> QED BY <2>3, <3>1 DEF InsertedAt
  <2> QED BY SMTT(30), ZenonT(30), <1>1, <2>1, <2>2, <2>3
<1>5. ASSUME NEW i \in 1..Len(sleeping'), NEW j \in 1..Len(sleeping'), i < j
      PROVE  sleeping'[i].wakeup_time <= sleeping'[j].wakeup_time
  <2>1. CASE i = k
    BY <1>1, <1>3, <1>4, <1>5, <2>1
  <2>2. CASE i < k
    <3>1. CASE j = k
      BY <1>1, <1>2, <1>4, <1>5, <2>2, <3>1
    <3>3. CASE j < k
      <4>1. /\ i \in 1..Len(sleeping) /\ sleeping'[i] = sleeping[i]
            /\ j \in 1..Len(sleeping) /\ sleeping'[j] = sleeping[j]
        BY <1>1, <1>4, <2>2, <3>3
      <4> QED BY <1>5, <4>1 DEF SleepersSorted
    <3>2. CASE j > k
      <4>1. /\ i \in 1..Len(sleeping) /\ sleeping'[i] = sleeping[i]
            /\ j - 1 \in 1..Len(sleeping) /\ j - 1 >= k /\ sleeping'[j] = sleeping[j - 1]
        BY <1>1, <1>4, <2>2, <3>2
      <4>2. sleeping[i].wakeup_time < e.wakeup_time /\ sleeping[j - 1].wakeup_time >= e.wakeup_time
        BY <1>2, <1>3, <2>2, <4>1
      <4> QED BY <1>1, <4>1, <4>2
    <3> QED BY <1>1, <3>1, <3>2, <3>3
  <2>3. CASE i > k
    <3>1. /\ i - 1 \in 1..Len(sleeping) /\ sleeping'[i] = sleeping[i - 1]
          /\ j - 1 \in 1..Len(sleeping) /\ sleeping'[j] = sleeping[j - 1]
      BY <1>1, <1>4, <1>5, <2>3
    <3>2. i - 1 < j - 1
      BY <1>1, <1>5
    <3> QED BY <3>1, <3>2 DEF SleepersSorted
  <2> QED BY <2>1, <2>2, <2>3
<1> QED BY <1>5 DEF SleepersSorted

\* Every step keeps the list of sleeping threads sorted: only thread_sleep inserts,
\* and the timer removes from the front.
LEMMA SortedStep == TypeOK /\ SleepersSorted /\ [Next]_vars => SleepersSorted'
<1> SUFFICES ASSUME TypeOK, SleepersSorted, [Next]_vars PROVE SleepersSorted'
  OBVIOUS
<1>1. CASE UNCHANGED sleeping
  BY <1>1 DEF SleepersSorted
<1>2. ASSUME NEW t \in Thread, NEW m \in SleepTimes, thread_sleep(t, m) PROVE SleepersSorted'
  <2> DEFINE e == [wakeup_time |-> (timer_time + m) % WORD, thread |-> t]
  <2>1. e \in Entries
    BY TimeType, ClockAssumption DEF TypeOK, Entries
  <2>2. sleeping' = InsertSleeper(e)
    BY <1>2 DEF thread_sleep
  <2> HIDE DEF e
  <2>3. PICK k \in 1..(Len(sleeping) + 1) : InsertedAt(k, e, sleeping')
    BY <2>1, <2>2, InsertFacts, ClockAssumption DEF TypeOK
  <2> QED BY <2>1, <2>3, SortedInsert DEF TypeOK
<1>3. ASSUME TimerWake PROVE SleepersSorted'
  <2>1. sleeping \in Seq(Entries) /\ sleeping # <<>> /\ sleeping' = Tail(sleeping)
    BY <1>3 DEF TimerWake, SleeperDue, TypeOK
  <2>2. /\ Len(sleeping) \in Nat \ {0} /\ Len(sleeping') = Len(sleeping) - 1
        /\ \A i \in 1..Len(sleeping') : sleeping'[i] = sleeping[i + 1]
    BY SMTT(30), ZenonT(30), <2>1
  <2> QED BY <2>2 DEF SleepersSorted
<1>4. UNCHANGED sleeping \/ TimerWake \/ \E t \in Thread, m \in SleepTimes : thread_sleep(t, m)
  BY ZenonT(30) DEF Next, vars, Schedule, Block, thread_exit, process_exit, idt_isrHandler,
     tasking_handleException, ExitThreads, Wake, thread_new,
     idt_waitIrq, IrqEnter, IrqWake, IrqDone, TimerDone, ExitSwitch, Halted
<1> QED BY <1>1, <1>2, <1>3, <1>4

\* SleepersSorted is an invariant: thread_sleep inserts at the right place, for
\* every clock width and every interleaving of sleeps and timer interrupts.
THEOREM SleepersAlwaysSorted == Spec => []SleepersSorted
<1>1. Init => SleepersSorted
  BY DEF Init, SleepersSorted
<1>2. Spec => []TypeOK
  BY SchedulerSafe, PTL
<1> QED BY <1>1, <1>2, SortedStep, PTL DEF Spec

\* NoOverdueSleeper holds of every execution: because the list is sorted, the
\* loop of timer_wakeUpSleepingThreads, which stops at the first thread that is
\* not due, has woken every due thread when the handler switches.
THEOREM TimerWakesAllDue == Spec => NoOverdueSleeper
<1> DEFINE Done == kpc = "timer" /\ kpc' = "run" =>
               \A i \in 1..Len(sleeping') : sleeping'[i].wakeup_time > timer_time
<1>1. TypeOK /\ SleepersSorted /\ [Next]_vars => [Done]_vars
  <2> SUFFICES ASSUME TypeOK, SleepersSorted, Next, kpc = "timer", kpc' = "run",
                      NEW i \in 1..Len(sleeping')
               PROVE  sleeping'[i].wakeup_time > timer_time
    BY DEF vars
  <2>1. TimerDone
    BY DEF Next, Schedule, Block, thread_exit, process_exit, idt_isrHandler,
     tasking_handleException, ExitThreads, Wake, thread_new,
       thread_sleep, idt_waitIrq, IrqEnter, IrqWake, IrqDone, TimerWake, ExitSwitch, Halted,
       vars, Syscall
  <2>2. sleeping' = sleeping /\ ~SleeperDue
    BY <2>1 DEF TimerDone
  <2>3. /\ Len(sleeping) \in Nat /\ 1 \in 1..Len(sleeping) /\ i \in 1..Len(sleeping)
        /\ sleeping # <<>> /\ Head(sleeping) = sleeping[1]
    BY <2>2 DEF TypeOK
  <2>4. timer_time \in Int /\ \A j \in 1..Len(sleeping) : sleeping[j].wakeup_time \in Int
    <3>0. 0 \in Nat /\ uptime \in 0..(WORD - 1) /\ tick \in 0..(Frequency - 1)
      BY DEF TypeOK
    <3>a. timer_time \in 0..(WORD - 1)
      BY <3>0, TimeType
    <3>1. timer_time \in Int
      BY <3>a
    <3>2. \A x \in Entries : x.wakeup_time \in Int
      BY ClockAssumption DEF Entries
    <3> QED BY <3>1, <3>2 DEF TypeOK
  <2>5. sleeping[1].wakeup_time > timer_time
    BY <2>2, <2>3, <2>4 DEF SleeperDue
  <2>6. i = 1 \/ sleeping[1].wakeup_time <= sleeping[i].wakeup_time
    BY <2>3 DEF SleepersSorted
  <2> QED BY <2>2, <2>3, <2>4, <2>5, <2>6
<1>2. Spec => []TypeOK
  BY SchedulerSafe, PTL
<1>3. Spec => []SleepersSorted
  BY SleepersAlwaysSorted
<1> QED BY <1>1, <1>2, <1>3, PTL DEF Spec, NoOverdueSleeper
=============================================================================
