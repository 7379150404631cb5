-------------------------------- MODULE Ipc --------------------------------
(***************************************************************************)
(* Requests and messages of the Grapes kernel (ipc/request.c), with the    *)
(* object, descriptor and shared-memory calls they interact with.          *)
(*                                                                         *)
(* System calls run with interrupts disabled, so a call is one step up to  *)
(* the point where it puts its thread to sleep: in request_get (no request *)
(* yet), in mutex_lock (the object is busy) and in request (no answer yet).*)
(* Each of these has an action for the rest of the call.                   *)
(***************************************************************************)
EXTENDS Objects, FiniteSetsExt

CONSTANTS
    Thread,    \* threads
    ProcOf,    \* the process of every thread
    Manager,   \* the first process, whose root object the others are given
    Root,      \* the object process_new creates for every process
    Calls,     \* the requests and messages programs send
    Answers,   \* the answers programs give
    Offset,    \* where programs map shared memory
    MaxDesc,   \* bound: descriptor numbers stay below it
    MaxGets    \* bound: request_get counts deliveries of one request up to it

Kinds == {"void", "obj", "long", "shm"}
Param == [kind : Kinds, v : Int]
CallRec == [block : BOOLEAN, ans : Kinds, par : [1..3 -> Param]]

ASSUME IpcAssumption ==
    /\ Null \notin Proc /\ Null \notin Obj /\ Null \notin Thread /\ Null \notin Map
    /\ ProcOf \in [Thread -> Proc]
    /\ Manager \in Proc
    /\ Root \in [Proc -> Obj]
    /\ \A p, q \in Proc : Root[p] = Root[q] => p = q
    /\ Calls \subseteq CallRec
    /\ Answers \subseteq Int
    /\ MaxDesc \in Nat /\ MaxGets \in Nat \ {0}
    /\ IsFiniteSet(Proc)

VARIABLES
    k,        \* the tables of module Objects
    lock,     \* lock[o]: o->busyMutex is locked
    rq,       \* rq[o]: *o->request, ack = "none" when o->request is null
    wakeup,   \* wakeup[o]: o->wakeupOnRq
    th        \* th[t]: where thread t is

vars == <<k, lock, rq, wakeup, th>>

-----------------------------------------------------------------------------

NoCall == [block |-> FALSE, ans |-> "void", par |-> [i \in 1..3 |-> [kind |-> "void", v |-> 0]]]

\* The request mkrequest fills; gets counts its deliveries (not in the code).
FreshRequest(requester, call) ==
    [ack |-> "PENDING", requester |-> requester, ans |-> call.ans,
     kind |-> [i \in 1..3 |-> call.par[i].kind],
     params |-> [i \in 1..3 |-> 0], obj_close |-> [i \in 1..3 |-> 0],
     shm_sndr |-> [i \in 1..3 |-> Null], shm_rcv |-> [i \in 1..3 |-> Null],
     gets |-> 0]

NoRequest == [FreshRequest(Null, NoCall) EXCEPT !.ack = "none"]

\* A thread in user mode, or asleep in a kernel call (pc) on object obj.
User == [pc |-> "user", awake |-> TRUE, obj |-> Null, call |-> NoCall]
Dead == [User EXCEPT !.pc = "dead", !.awake = FALSE]
Asleep(pc, o, call) == [pc |-> pc, awake |-> FALSE, obj |-> o, call |-> call]

HasRequest(o) == rq[o].ack # "none"
Busy == {o \in Obj : lock[o] \/ HasRequest(o)}

\* A thread that can make a system call, or continue one it slept in.
Runs(t, pc) == k.fault = "none" /\ th[t].pc = pc /\ th[t].awake

(***************************************************************************)
(* After process_new for every process: descriptor 0 is the root object,   *)
(* and 1 the root object of the manager.                                   *)
(***************************************************************************)
Init ==
    /\ k = [desc |-> [p \in Proc |->
                        IF p = Manager THEN <<[id |-> 0, obj |-> Root[p]]>>
                        ELSE <<[id |-> 1, obj |-> Root[Manager]], [id |-> 0, obj |-> Root[p]]>>],
            next |-> [p \in Proc |-> IF p = Manager THEN 1 ELSE 2],
            live |-> {Root[p] : p \in Proc},
            owner |-> [o \in Obj |-> IF \E p \in Proc : Root[p] = o
                                     THEN CHOOSE p \in Proc : Root[p] = o ELSE Null],
            refs |-> [o \in Obj |-> IF o = Root[Manager] THEN Cardinality(Proc)
                                    ELSE IF \E p \in Proc : Root[p] = o THEN 1 ELSE 0],
            maps |-> [p \in Proc |-> <<>>],
            segs |-> {},
            cnt |-> [s \in Seg |-> 0],
            fault |-> "none"]
    /\ lock = [o \in Obj |-> FALSE]
    /\ rq = [o \in Obj |-> NoRequest]
    /\ wakeup = [o \in Obj |-> Null]
    /\ th = [t \in Thread |-> User]

\* The kernel has met undefined behaviour: nothing else is modelled.
Faulty(k1) == k' = Fail(k, k1.fault) /\ UNCHANGED <<lock, rq, wakeup, th>>
Bounded(k1) == \A p \in Proc : k1.next[p] <= MaxDesc

-----------------------------------------------------------------------------
(* object_create, object_close *)

object_create(t) ==
    /\ Runs(t, "user")
    /\ \E o \in Obj \ k.live :
         LET k1 == obj_createP(k, ProcOf[t], o) IN
         /\ Bounded(k1)
         /\ k' = k1
         /\ lock' = [lock EXCEPT ![o] = FALSE]
         /\ rq' = [rq EXCEPT ![o] = NoRequest]
         /\ wakeup' = [wakeup EXCEPT ![o] = Null]
    /\ UNCHANGED th

object_close(t, id) ==
    /\ Runs(t, "user")
    /\ objdesc_read(k, ProcOf[t], id) # Null
    /\ k' = obj_closeP(k, ProcOf[t], id, Busy)
    /\ UNCHANGED <<lock, rq, wakeup, th>>

-----------------------------------------------------------------------------
(* request_get *)

HoldsShm(r) == \E i \in 1..3 : r.shm_sndr[i] # Null

\* Faulty variant: the mutex stays locked when a message is done with.
DeliverKeepsLock(t, o) ==
    IF ~HasRequest(o) THEN Faulty(Fail(k, "get"))
    ELSE /\ rq' = [rq EXCEPT ![o] = IF rq[o].requester # Null \/ HoldsShm(rq[o])
                                    THEN [rq[o] EXCEPT !.ack = "PROCESSED"] ELSE NoRequest]
         /\ th' = [th EXCEPT ![t] = User]
         /\ UNCHANGED <<k, lock, wakeup>>

\* Lines 24-42: hand the request over; a plain message is done with.
Deliver(t, o) ==
    IF ~HasRequest(o) THEN Faulty(Fail(k, "get"))
    ELSE /\ IF rq[o].requester # Null \/ HoldsShm(rq[o])
            THEN /\ rq' = [rq EXCEPT ![o].ack = "PROCESSED",
                                     ![o].gets = IF @ < MaxGets THEN @ + 1 ELSE @]
                 /\ UNCHANGED lock
            ELSE /\ rq' = [rq EXCEPT ![o] = NoRequest]
                 /\ lock' = [lock EXCEPT ![o] = FALSE]
         /\ th' = [th EXCEPT ![t] = User]
         /\ UNCHANGED <<k, wakeup>>

\* Lines 18-23: sleep until the object is locked or holds a pending request.
GetLoop(t, o) ==
    IF ~lock[o] /\ rq[o].ack # "PENDING"
    THEN /\ wakeup' = [wakeup EXCEPT ![o] = t]
         /\ th' = [th EXCEPT ![t] = Asleep("get", o, NoCall)]
         /\ UNCHANGED <<k, lock, rq>>
    ELSE Deliver(t, o)

request_get(t, id, wait) ==
    LET o == objdesc_read(k, ProcOf[t], id) IN
    /\ Runs(t, "user")
    /\ o # Null
    /\ k.owner[o] = ProcOf[t]
    /\ rq[o].ack # "PROCESSED"
    /\ wait \/ HasRequest(o)
    /\ GetLoop(t, o)

\* thread_goInactive returns in request_get.
GetResume(t) ==
    /\ Runs(t, "get")
    /\ IF th[t].obj \in k.live THEN GetLoop(t, th[t].obj) ELSE Faulty(Fail(k, "uaf"))

-----------------------------------------------------------------------------
(* mkrequest *)

\* Parameter i of a request from process p to process q; s is [k, r].
Marshal(s, p, q, i, a) ==
    CASE s.k.fault # "none" \/ a.kind = "void" -> s
      [] s.k.fault = "none" /\ (a.kind = "long" \/ (a.kind = "obj" /\ (a.v < 0 \/ p = q))
                                \/ (a.kind = "shm" /\ p = q)) -> [s EXCEPT !.r.params[i] = a.v]
      [] s.k.fault = "none" /\ a.kind = "obj" /\ a.v >= 0 /\ p # q ->
           LET o == objdesc_read(s.k, p, a.v)
               d == s.k.next[q]
           IN  IF o = Null THEN [s EXCEPT !.k.fault = "param"]
               ELSE IF HasObj(s.k, q, o) THEN [s EXCEPT !.r.params[i] = objdesc_get(s.k, q, o)]
               ELSE [s EXCEPT !.k = objdesc_add(s.k, q, o),
                              !.r.obj_close[i] = d, !.r.params[i] = d]
      [] s.k.fault = "none" /\ a.kind = "shm" /\ p # q ->
           LET m == shmseg_getByOff(s.k, p, a.v)
           IN  IF m = Null THEN [s EXCEPT !.k.fault = "param"]
               ELSE [s EXCEPT !.r.shm_sndr[i] = m, !.k.cnt[SegOf(s.k, m)] = @ + 1]

Marshalled(r, p, q, call) ==
    LET s1 == Marshal([k |-> k, r |-> r], p, q, 1, call.par[1])
        s2 == Marshal(s1, p, q, 2, call.par[2])
    IN  Marshal(s2, p, q, 3, call.par[3])

\* Faulty variant of the end of mkrequest: wakeupOnRq is not reset.
WaiterKept(o, t, call) ==
    /\ th' = [u \in Thread |->
                IF u = t THEN IF call.block THEN Asleep("reply", o, NoCall) ELSE User
                ELSE IF u = wakeup[o] THEN [th[u] EXCEPT !.awake = TRUE]
                ELSE th[u]]
    /\ UNCHANGED wakeup

\* Lines 207-210: the thread that waits for a request wakes up; request goes to
\* sleep and send_msg returns.
WakeWaiter(o, t, call) ==
    /\ th' = [u \in Thread |->
                IF u = t THEN IF call.block THEN Asleep("reply", o, NoCall) ELSE User
                ELSE IF u = wakeup[o] THEN [th[u] EXCEPT !.awake = TRUE]
                ELSE th[u]]
    /\ wakeup' = [wakeup EXCEPT ![o] = Null]

\* Lines 156-212, after which request sleeps and send_msg returns.
Post(t, o, call) ==
    LET s == Marshalled(FreshRequest(IF call.block THEN t ELSE Null, call),
                        ProcOf[t], k.owner[o], call)
        w == wakeup[o]
        k1 == IF s.k.fault = "none" /\ w # Null /\ th[w].pc = "dead" THEN Fail(s.k, "uaf") ELSE s.k
    IN  /\ Bounded(k1)
        /\ IF k1.fault # "none" THEN Faulty(k1)
           ELSE /\ k' = k1
                /\ lock' = [lock EXCEPT ![o] = TRUE]
                /\ rq' = [rq EXCEPT ![o] = s.r]
                /\ WakeWaiter(o, t, call)

\* Lines 148-154: mutex_lock sleeps while the object is locked.
LockThenPost(t, o, call) ==
    IF lock[o]
    THEN /\ th' = [th EXCEPT ![t] = Asleep("lock", o, call)]
         /\ UNCHANGED <<k, lock, rq, wakeup>>
    ELSE IF k.owner[o] = Null
    THEN /\ th' = [th EXCEPT ![t] = User]
         /\ UNCHANGED <<k, lock, rq, wakeup>>
    ELSE Post(t, o, call)

\* request (call.block) and send_msg (otherwise).
request(t, id, call) ==
    LET o == objdesc_read(k, ProcOf[t], id) IN
    /\ Runs(t, "user")
    /\ o # Null
    /\ LockThenPost(t, o, call)

LockResume(t) ==
    /\ Runs(t, "lock")
    /\ IF th[t].obj \in k.live THEN LockThenPost(t, th[t].obj, th[t].call)
       ELSE Faulty(Fail(k, "uaf"))

\* The timer ends the thread_sleep(1) of mutex_lock.
LockTimer(t) ==
    /\ k.fault = "none"
    /\ th[t].pc = "lock" /\ ~th[t].awake
    /\ th' = [th EXCEPT ![t].awake = TRUE]
    /\ UNCHANGED <<k, lock, rq, wakeup>>

\* thread_goInactive returns in request: the answer is read once.
ReplyResume(t) ==
    /\ Runs(t, "reply")
    /\ th' = [th EXCEPT ![t] = User]
    /\ UNCHANGED <<k, lock, rq, wakeup>>

-----------------------------------------------------------------------------
(* request_answer, request_mapShm *)

\* Lines 68-71 for parameter i: unmap what was mapped, close what was opened.
ReleaseParam(k1, r, q, i) ==
    LET k2 == IF k1.fault # "none" \/ r.shm_rcv[i] = Null THEN k1 ELSE seg_unmap(k1, r.shm_rcv[i])
    IN  IF k2.fault # "none" \/ r.obj_close[i] = 0 THEN k2 ELSE obj_closeP(k2, q, r.obj_close[i], Busy)

ReleaseParams(r, q) == ReleaseParam(ReleaseParam(ReleaseParam(k, r, q, 1), r, q, 2), r, q, 3)

\* Lines 74-92: an object given as answer gets a descriptor in process p.
AnswerObject(k1, r, q, p, answer) ==
    LET o == objdesc_read(k1, q, answer)
    IN  IF r.ans # "obj" \/ answer < 0 \/ p = q \/ o = Null THEN k1 ELSE objdesc_add(k1, p, o)

\* Faulty variant: a request that was not taken yet can be answered.
AnswerableEarly(o) == HasRequest(o) /\ rq[o].requester # Null

\* Line 66: a blocking request is being processed.
Answerable(o) == rq[o].ack = "PROCESSED" /\ rq[o].requester # Null

\* Faulty variant: the requester is not woken up.
FinishSilently(o) ==
    /\ rq' = [rq EXCEPT ![o] = NoRequest]
    /\ lock' = [lock EXCEPT ![o] = FALSE]
    /\ UNCHANGED <<wakeup, th>>

\* Lines 102-105: wake the requester, detach the request, unlock the object.
Finish(o) ==
    /\ th' = [th EXCEPT ![rq[o].requester].awake = TRUE]
    /\ rq' = [rq EXCEPT ![o] = NoRequest]
    /\ lock' = [lock EXCEPT ![o] = FALSE]
    /\ UNCHANGED wakeup

request_answer(t, id, answer) ==
    LET q == ProcOf[t]
        o == objdesc_read(k, q, id)
        u == rq[o].requester
        k1 == ReleaseParams(rq[o], q)
        k2 == IF k1.fault # "none" THEN k1
              ELSE IF th[u].pc = "dead" THEN Fail(k1, "uaf")
              ELSE AnswerObject(k1, rq[o], q, ProcOf[u], answer)
    IN  /\ Runs(t, "user")
        /\ o # Null
        /\ k.owner[o] = q
        /\ Answerable(o)
        /\ Bounded(k2)
        /\ IF k2.fault # "none" THEN Faulty(k2) ELSE k' = k2 /\ Finish(o)

FreeMaps == {m \in Map : ~Mapped(k, m)}

request_mapShm(t, id, pos, i) ==
    LET q == ProcOf[t]
        o == objdesc_read(k, q, id)
        r == rq[o]
        m == r.shm_sndr[i]
    IN  /\ Runs(t, "user")
        /\ o # Null
        /\ k.owner[o] = q
        /\ r.ack = "PROCESSED"
        /\ r.kind[i] = "shm"
        /\ m # Null
        /\ IF \/ r.requester # Null /\ th[r.requester].pc = "dead"
              \/ ~Mapped(k, m)
              \/ SegOf(k, m) \notin k.segs
           THEN Faulty(Fail(k, "uaf"))
           ELSE \E n \in FreeMaps :
                  LET s == SegOf(k, m)
                      r1 == [r EXCEPT !.shm_rcv[i] = n]
                      done == /\ r.requester = Null
                              /\ \A j \in 1..3 : r1.shm_sndr[j] = Null \/ r1.shm_rcv[j] # Null
                  IN  /\ k' = [seg_map(k, s, q, n, pos) EXCEPT !.cnt[s] = @ - 1]
                      /\ rq' = [rq EXCEPT ![o] = IF done THEN NoRequest ELSE r1]
                      /\ lock' = [lock EXCEPT ![o] = ~done]
                      /\ UNCHANGED <<wakeup, th>>

-----------------------------------------------------------------------------
(* shm_create, shm_delete *)

shm_create(t, pos) ==
    /\ Runs(t, "user")
    /\ \E s \in Seg \ k.segs, m \in FreeMaps :
         k' = seg_map([k EXCEPT !.segs = @ \cup {s}, !.cnt[s] = 0], s, ProcOf[t], m, pos)
    /\ UNCHANGED <<lock, rq, wakeup, th>>

shm_delete(t, pos) ==
    LET m == shmseg_getByOff(k, ProcOf[t], pos) IN
    /\ Runs(t, "user")
    /\ m # Null
    /\ k' = seg_unmap(k, m)
    /\ UNCHANGED <<lock, rq, wakeup, th>>

-----------------------------------------------------------------------------
(* The end of a thread; that of the last one, or process_exit, ends the     *)
(* process: process_delete closes its objects and unmaps its segments.      *)

Alive(p) == {t \in Thread : ProcOf[t] = p /\ th[t].pc # "dead"}

ProcessEnds(p) ==
    LET k1 == unmapall(obj_closeall(k, p, Busy), p)
    IN  IF k1.fault # "none" THEN Faulty(k1)
        ELSE /\ k' = k1
             /\ th' = [t \in Thread |-> IF ProcOf[t] = p THEN Dead ELSE th[t]]
             /\ UNCHANGED <<lock, rq, wakeup>>

thread_exit(t) ==
    /\ Runs(t, "user")
    /\ IF Alive(ProcOf[t]) = {t} THEN ProcessEnds(ProcOf[t])
       ELSE /\ th' = [th EXCEPT ![t] = Dead]
            /\ UNCHANGED <<k, lock, rq, wakeup>>

process_exit(t) ==
    /\ Runs(t, "user")
    /\ ProcessEnds(ProcOf[t])

-----------------------------------------------------------------------------

\* After undefined behaviour, once every thread has ended or waits forever, or at
\* the bound on descriptors.
Halted ==
    /\ \/ k.fault # "none"
       \/ \A t \in Thread : ~th[t].awake /\ th[t].pc # "lock"
       \/ \E p \in Proc : k.next[p] = MaxDesc
    /\ UNCHANGED vars

Ids == 0..MaxDesc

ThreadStep(t) ==
    \/ object_create(t)
    \/ \E id \in Ids : object_close(t, id)
    \/ \E id \in Ids, wait \in BOOLEAN : request_get(t, id, wait)
    \/ GetResume(t)
    \/ \E id \in Ids, call \in Calls : request(t, id, call)
    \/ LockResume(t)
    \/ LockTimer(t)
    \/ ReplyResume(t)
    \/ \E id \in Ids, answer \in Answers : request_answer(t, id, answer)
    \/ \E id \in Ids, pos \in Offset, i \in 1..3 : request_mapShm(t, id, pos, i)
    \/ \E pos \in Offset : shm_create(t, pos) \/ shm_delete(t, pos)
    \/ thread_exit(t)
    \/ process_exit(t)

Next == (\E t \in Thread : ThreadStep(t)) \/ Halted

Spec == Init /\ [][Next]_vars

-----------------------------------------------------------------------------
(* Properties *)

Descriptor == [id : Nat, obj : Obj]
Mapping == [map : Map, seg : Seg, start : Int]

Tables ==
    [desc : [Proc -> Seq(Descriptor)], next : [Proc -> Nat], live : SUBSET Obj,
     owner : [Obj -> Proc \cup {Null}], refs : [Obj -> Int],
     maps : [Proc -> Seq(Mapping)], segs : SUBSET Seg, cnt : [Seg -> Int], fault : Faults]

Request ==
    [ack : {"none", "PENDING", "PROCESSED"}, requester : Thread \cup {Null}, ans : Kinds,
     kind : [1..3 -> Kinds], params : [1..3 -> Int], obj_close : [1..3 -> Int],
     shm_sndr : [1..3 -> Map \cup {Null}], shm_rcv : [1..3 -> Map \cup {Null}], gets : Nat]

ThreadState ==
    [pc : {"user", "get", "lock", "reply", "dead"}, awake : BOOLEAN,
     obj : Obj \cup {Null}, call : CallRec]

\* The kernel tables, requests and threads keep their types.
TypeOK ==
    /\ k \in Tables
    /\ lock \in [Obj -> BOOLEAN]
    /\ rq \in [Obj -> Request]
    /\ wakeup \in [Obj -> Thread \cup {Null}]
    /\ th \in [Thread -> ThreadState]

(***************************************************************************)
(* Between system calls an object's busyMutex is locked exactly when it    *)
(* holds a request, and the object is allocated.  The loop of request_get  *)
(* ends as soon as the mutex is locked and then uses obj->request, and     *)
(* obj_delete looks at both: they rely on it, and obj->request is never    *)
(* null where request_get uses it (line 24, fault "get").  (Types          *)
(* included.)                                                              *)
(***************************************************************************)
MutexGuardsRequest ==
    /\ TypeOK
    /\ k.fault # "get"
    /\ \A o \in Obj : (lock[o] <=> HasRequest(o)) /\ (HasRequest(o) => o \in k.live)

(***************************************************************************)
(* A thread asleep in request has its request in exactly one object, and a *)
(* thread is woken in request only by the answer to its own request:       *)
(* request sleeps once, without a loop, and then reads the answer.         *)
(***************************************************************************)
RequesterMatchesRequest ==
    /\ \A t \in Thread : th[t].pc = "reply" /\ ~th[t].awake =>
         HasRequest(th[t].obj) /\ rq[th[t].obj].requester = t
    /\ \A o \in Obj : HasRequest(o) /\ rq[o].requester # Null =>
         \/ th[rq[o].requester].pc = "dead"
         \/ /\ th[rq[o].requester].pc = "reply"
            /\ ~th[rq[o].requester].awake
            /\ th[rq[o].requester].obj = o

(***************************************************************************)
(* wakeupOnRq is null or a thread asleep in request_get on that object     *)
(* (unless it has ended): a request wakes nobody out of another sleep.     *)
(***************************************************************************)
WaiterMatchesObject ==
    \A o \in Obj : wakeup[o] # Null =>
        \/ th[wakeup[o]].pc = "dead"
        \/ th[wakeup[o]].pc = "get" /\ ~th[wakeup[o]].awake /\ th[wakeup[o]].obj = o

(***************************************************************************)
(* "set thread to be waked up on request": every thread that sleeps in     *)
(* request_get, not only the last one that went to sleep there, is the one *)
(* the next request of the object wakes up.                                *)
(***************************************************************************)
ReceiverRemembered ==
    \A t \in Thread : th[t].pc = "get" /\ ~th[t].awake => wakeup[th[t].obj] = t

(***************************************************************************)
(* obj->descriptors counts the processes that hold a descriptor of the     *)
(* object, no process holds two or one of a freed object, and the owner of *)
(* an allocated object that is not closed holds one.                       *)
(***************************************************************************)
DescriptorsCounted ==
    k.fault = "none" =>
      /\ \A o \in k.live : k.refs[o] = Cardinality({p \in Proc : HasObj(k, p, o)})
      /\ \A p \in Proc : \A i, j \in 1..Len(k.desc[p]) :
           /\ k.desc[p][i].obj \in k.live
           /\ i # j => k.desc[p][i].obj # k.desc[p][j].obj /\ k.desc[p][i].id # k.desc[p][j].id
           /\ k.desc[p][i].id < k.next[p]
      /\ \A o \in k.live : k.owner[o] # Null /\ k.refs[o] > 0 => HasObj(k, k.owner[o], o)

(***************************************************************************)
(* An object nobody holds a descriptor of has been freed, unless a request *)
(* is still in it: whatever the order in which obj_closeP and obj_closeall *)
(* close it for the owner and the others.                                  *)
(***************************************************************************)
NoLeakedObject ==
    k.fault = "none" => \A o \in k.live : k.refs[o] > 0 \/ o \in Busy

(***************************************************************************)
(* No call uses freed memory: a freed object after mutex_lock or in        *)
(* request_get, an ended thread in thread_wakeUp, an unmapped or freed     *)
(* segment in request_mapShm or request_answer.                            *)
(***************************************************************************)
NoStalePointer == k.fault # "uaf"

(***************************************************************************)
(* A blocking request is delivered by request_get at most once: from then  *)
(* on request_get says -3, "a blocking request is currently being          *)
(* processed".                                                             *)
(***************************************************************************)
DeliveredOnce == \A o \in Obj : rq[o].gets <= 1

(***************************************************************************)
(* object_close "closes a given descriptor to an object" and leaves a      *)
(* sound list: objdesc_rm frees the element it takes out, and no other.    *)
(***************************************************************************)
CloseRemovesDescriptor == k.fault # "rm"

(***************************************************************************)
(* Answering one request never takes away the descriptor that a request or *)
(* message still pending in another object of the receiver carries: the    *)
(* receiver gets "an immediately usable object descriptor".                *)
(***************************************************************************)
PendingObjectsKept ==
    [][\A o, x \in Obj : \A i \in 1..3 :
         /\ HasRequest(o) /\ ~HasRequest(o)'
         /\ rq[x].ack = "PENDING" /\ k.owner[x] # Null
         /\ rq[x].kind[i] = "obj" /\ HasId(k, k.owner[x], rq[x].params[i])
         => HasId(k', k.owner[x], rq[x].params[i])]_vars

(***************************************************************************)
(* The abstract specification of requests (module Rpc): an object holds    *)
(* what rq says, and a thread asleep in request is waiting for its answer. *)
(***************************************************************************)
slotBar == [o \in Obj |->
    [st |-> CASE rq[o].ack = "none" -> "free"
              [] rq[o].ack = "PENDING" -> "pending"
              [] rq[o].ack = "PROCESSED" -> "taken",
     by |-> rq[o].requester]]
callBar == [t \in Thread |->
    IF th[t].pc = "dead" THEN "dead"
    ELSE IF th[t].pc # "reply" THEN "idle"
    ELSE IF th[t].awake THEN "answered" ELSE "waiting"]

R == INSTANCE Rpc WITH slot <- slotBar, call <- callBar

\* Every step of the kernel on requests is a step of Rpc: a request is taken by
\* its receiver, then answered, and its answer ends exactly its sender's call.
RpcSpec == R!Spec

(***************************************************************************)
(* Shared memory.  A receiver of blocking requests that uses srv_handle    *)
(* (server.c) maps every shared segment of a request it has a method for   *)
(* once, before it answers, and leaves it to request_answer to unmap it.   *)
(* Senders are free to do what they like: one of a blocking request sleeps *)
(* until the answer comes.                                                 *)
(***************************************************************************)
ReceiversMapOnce ==
    \A o \in Obj : \A i \in 1..3 :
        LET r == rq[o] IN
        /\ HasRequest(o) /\ HasRequest(o)' /\ r.shm_rcv[i] # Null =>
             /\ rq'[o].shm_rcv[i] = r.shm_rcv[i]
             /\ k'.owner[o] # Null => Mapped(k', r.shm_rcv[i])
        /\ HasRequest(o) /\ ~HasRequest(o)' /\ r.requester # Null =>
             (r.shm_sndr[i] # Null => r.shm_rcv[i] # Null)

MapOnceSpec == Init /\ [][Next /\ ReceiversMapOnce]_vars

Transfers(s) ==
    {<<o, i>> \in Obj \X (1..3) :
        /\ HasRequest(o) /\ rq[o].shm_sndr[i] # Null /\ rq[o].shm_rcv[i] = Null
        /\ Mapped(k, rq[o].shm_sndr[i]) /\ SegOf(k, rq[o].shm_sndr[i]) = s}
Mappings(s) == {<<p, m>> \in Proc \X Map : \E i \in 1..Len(k.maps[p]) :
                   k.maps[p][i].map = m /\ k.maps[p][i].seg = s}

(***************************************************************************)
(* seg->mappings is the number of processes' mappings of the segment plus  *)
(* the number of requests that will still map it; a segment is allocated   *)
(* as long as that is not zero, and freed then.                            *)
(***************************************************************************)
SegmentsCounted ==
    k.fault = "none" => \A s \in Seg :
        LET n == Cardinality(Mappings(s)) + Cardinality(Transfers(s))
        IN  IF s \in k.segs THEN n > 0 /\ k.cnt[s] = n ELSE n = 0

(***************************************************************************)
(* The memory of a message "is kept": until its receiver has mapped it,    *)
(* the map shm_sndr that request_mapShm will read is that of a process.    *)
(***************************************************************************)
SentMemoryKept ==
    k.fault = "none" => \A o \in Obj : \A i \in 1..3 :
        HasRequest(o) /\ rq[o].shm_sndr[i] # Null /\ rq[o].shm_rcv[i] = Null
            => Mapped(k, rq[o].shm_sndr[i])

\* seg_unmap never frees a segment that is still mapped somewhere.
MappedSegmentsAllocated == k.fault = "none" => \A s \in Seg : Mappings(s) # {} => s \in k.segs

-----------------------------------------------------------------------------
(* Fairness: the scheduler runs a thread that is awake, and the timer ends  *)
(* sleeps.  Programs are free to stop making system calls.                  *)

FairSpec ==
    /\ Spec
    /\ \A t \in Thread : /\ WF_vars(GetResume(t)) /\ WF_vars(LockResume(t))
                         /\ WF_vars(LockTimer(t)) /\ WF_vars(ReplyResume(t))

(***************************************************************************)
(* When the owner closes an object, the thread whose request is in it      *)
(* eventually returns from request: "if we are the owner, make all         *)
(* requests to object fail".                                               *)
(***************************************************************************)
OwnerCloseFailsRequests ==
    \A t \in Thread, o \in Obj :
        (HasRequest(o) /\ rq[o].requester = t /\ k.owner[o] = Null)
            ~> (th[t].pc # "reply" \/ k.fault # "none")

=============================================================================
