------------------------------ MODULE Services ------------------------------
(***************************************************************************)
(* The manager, services and their clients: the request loop every server  *)
(* runs (srv_handle, library/gc/server.c), the manager's methods (modules/ *)
(* manager/main.c), those of a service like modules/test, and the calls    *)
(* programs make of them (library/gm).                                     *)
(*                                                                         *)
(* A program has a main thread and a root object; a serving one has a      *)
(* second thread that handles the requests of that object.  Methods may    *)
(* call other objects themselves.  The kernel's part is one slot per       *)
(* object: it holds one request or message at a time (module Ipc), and a   *)
(* caller waits until it is free.                                          *)
(***************************************************************************)
EXTENDS Integers, Sequences, FiniteSetsExt

CONSTANTS
    Program,  \* programs other than the manager
    Serving,  \* those with a thread in srv_handle
    Manager,  \* the manager's process and object
    Name,     \* the strings given as names of services
    Title,    \* the name under which the manager registers itself
    Joined,   \* Joined[n]: the string n ":" resource with its ":" made a "0"
    Calls,    \* Calls[p]: what the main thread of p calls
    OwnCalls, \* programs call their own object with shared memory
    NSpots    \* spots shm_alloc can give in the shared memory space of a process

Obj == Program \cup {Manager}
Server == Serving \cup {Manager}
Main(p) == <<p, "main">>
Loop(s) == <<s, "loop">>
Thread == {Main(p) : p \in Program} \cup {Loop(s) : s \in Server}
Process(t) == t[1]

(***************************************************************************)
(* to: the manager, or the object this program opened last; func: the      *)
(* method; arg: the method a handle check asks for; block: request or      *)
(* send_msg; shm: the first parameter is shared memory; name: the string   *)
(* in it; res: the string goes on with ":" and a resource.                 *)
(***************************************************************************)
Func == {"handlecheck", "nothing", "open", "registersvc", "logsvc", "unknown"}
CallRec == [to : {"manager", "opened"}, func : Func, arg : Func, block : BOOLEAN, shm : BOOLEAN,
            name : Name, res : BOOLEAN]

ASSUME ServicesAssumption ==
    /\ Manager \notin Program /\ Serving \subseteq Program
    /\ Calls \in [Program -> SUBSET CallRec]
    /\ Title \in Name
    /\ Name \subseteq DOMAIN Joined
    /\ NSpots \in Nat /\ OwnCalls \in BOOLEAN

VARIABLES
    slot,    \* slot[o]: the request in object o: st, by, call and the state of its
             \* shared memory (seg); FreeSlot when there is none
    srv,     \* srv[s]: where the loop of s is, the request it got, the spot of its
             \* parameter (md.parameters[0].p, 0 for none) and what the method returned
    methods, \* methods[s]: the methods server s has handlers for
    spots,   \* spots[o]: the free spots in the shared memory space of a process
    services,\* the manager's list of services, newest first
    cl,      \* cl[t]: where the call of thread t is: its object, its parameter's spot, the
             \* answer, and whether its name was registered when it was made (due, history)
    opened,  \* opened[p]: the object program p got last from open
    known,   \* known[p]: names p has registered (history)
    fault    \* "none", or why the model stops: see Faults

vars == <<slot, srv, methods, spots, services, cl, opened, known, fault>>

\* "uaf": the kernel used a segment map that was freed.  "zero": two segments at
\* address 0, where shm_allocNew puts one when the space is full, or one there taken
\* for no memory at all.
Faults == {"none", "uaf", "zero"}

NoCall == [to |-> "manager", func |-> "nothing", arg |-> "nothing", block |-> FALSE,
           shm |-> FALSE, name |-> Title, res |-> FALSE]
FreeSlot == [st |-> "free", by |-> Loop(Manager), call |-> NoCall, seg |-> "none", spot |-> 0]
Waiting == [pc |-> "get", call |-> NoCall, by |-> Loop(Manager), spot |-> 0, keepShm |-> TRUE, ret |-> "none"]
IdleCaller == [pc |-> "idle", obj |-> Manager, call |-> NoCall, spot |-> 0, ans |-> "none", due |-> FALSE]

\* Where the loop of a server begins: thread2 of the test module logs before it
\* handles a request.
LoopStart(s) == [Waiting EXCEPT !.pc = IF s = Manager THEN "get" ELSE "log"]

\* What every server handles.
objsrv_init == {"handlecheck"}

Init ==
    /\ slot = [o \in Obj |-> FreeSlot]
    /\ srv = [s \in Server |-> [Waiting EXCEPT !.pc = "init"]]
    /\ methods = [s \in Server |-> objsrv_init]
    /\ spots = [o \in Obj |-> 1..NSpots]
    /\ services = <<[name |-> Title, obj |-> Manager]>>
    /\ cl = [t \in Thread |-> IdleCaller]
    /\ opened = [p \in Program |-> Manager]
    /\ known = [p \in Program |-> {}]
    /\ fault = "none"

-----------------------------------------------------------------------------
(* Callers: c_open, c_registerSvc, c_logSvc, c_nothing, c_handleCheck          *)

\* A call of process p has its parameter at address 0.
AtZero(p) == \E t \in Thread : Process(t) = p /\ cl[t].pc # "idle" /\ cl[t].call.shm /\ cl[t].spot = 0

\* The call of thread t: its parameter is put in a new segment of shared memory.
\* When there is no spot for it shm_allocNew creates the segment at address 0 and
\* returns that: c_logSvc gives up, the other calls go on with it.
Calling(t, o, call) ==
    LET p == Process(t)
        full == call.shm /\ spots[p] = {}
        s == IF call.shm /\ ~full THEN Min(spots[p]) ELSE 0
    IN  /\ cl[t].pc = "idle"
        /\ fault' = IF full /\ AtZero(p) THEN "zero" ELSE fault
        /\ IF full /\ call.func = "logsvc" THEN UNCHANGED <<cl, spots>>
           ELSE /\ cl' = [cl EXCEPT ![t] = [IdleCaller EXCEPT !.pc = "post", !.obj = o, !.call = call, !.spot = s]]
                /\ spots' = [spots EXCEPT ![p] = @ \ {s}]

Call(p, call) ==
    /\ fault = "none"
    /\ Calling(Main(p), IF call.to = "manager" THEN Manager ELSE opened[p], call)
    /\ UNCHANGED <<slot, srv, methods, services, opened, known>>

\* mkrequest, once the mutex of the object is free: the memory of a caller in the
\* object's own process is passed as it is.
Post(t) ==
    LET c == cl[t]
        o == c.obj
        seg == IF ~c.call.shm THEN "none" ELSE IF o = Process(t) THEN "local" ELSE "shared"
    IN  /\ fault = "none" /\ c.pc = "post" /\ slot[o] = FreeSlot
        /\ slot' = [slot EXCEPT ![o] = [st |-> "pending", by |-> t, call |-> c.call, seg |-> seg, spot |-> c.spot]]
        /\ cl' = [cl EXCEPT ![t].pc = IF c.call.block THEN "reply" ELSE "freeDel",
                            ![t].due = \E p \in Program : c.call.name \in known[p]]
        /\ known' = IF c.call.func = "registersvc" THEN [known EXCEPT ![Process(t)] = @ \cup {c.call.name}] ELSE known
        /\ UNCHANGED <<srv, methods, spots, services, opened, fault>>

\* shm_freeDel after request or send_msg has returned: a message may not have been
\* read yet.  A main thread keeps what it learned.
FreeDel(t) ==
    LET c == cl[t]
        p == Process(t)
        opens == t = Main(p) /\ c.call.func = "open" /\ c.ans \in Obj
    IN  /\ fault = "none" /\ c.pc = "freeDel"
        /\ slot' = [o \in Obj |-> IF slot[o].by = t /\ slot[o].seg = "shared" THEN [slot[o] EXCEPT !.seg = "deleted"]
                                  ELSE slot[o]]
        /\ spots' = IF c.spot # 0 THEN [spots EXCEPT ![p] = @ \cup {c.spot}] ELSE spots
        /\ opened' = IF opens THEN [opened EXCEPT ![p] = c.ans] ELSE opened
        /\ cl' = [cl EXCEPT ![t] = [IdleCaller EXCEPT !.ans = IF t = Main(p) THEN "none" ELSE c.ans]]
        /\ UNCHANGED <<srv, methods, services, known, fault>>

-----------------------------------------------------------------------------
(* srv_handle in the infinite loop of a server                                 *)

In(s, pc) == fault = "none" /\ srv[s].pc = pc
history == <<opened, known>>

srv_addHandler(s, added) == methods' = [methods EXCEPT ![s] = @ \cup added]

\* The manager's main and the test module's thread2 add their handlers before they serve.
AddHandlers(s) ==
    /\ In(s, "init")
    /\ srv_addHandler(s, {"nothing", "open"} \cup (IF s = Manager THEN {"registersvc", "logsvc"} ELSE {}))
    /\ srv' = [srv EXCEPT ![s] = LoopStart(s)]
    /\ UNCHANGED <<slot, spots, services, cl, history, fault>>

\* A call of the server's own thread, in a method or between two requests.
LogCall == [NoCall EXCEPT !.func = "logsvc", !.block = TRUE, !.shm = TRUE]
OpenCall(call) == [call EXCEPT !.res = FALSE, !.block = TRUE]

\* thread2: the message before the next srv_handle.
Log(s) ==
    /\ In(s, "log")
    /\ Calling(Loop(s), Manager, LogCall)
    /\ srv' = [srv EXCEPT ![s].pc = "logging"]
    /\ UNCHANGED <<slot, methods, services, history>>

Logged(s) ==
    /\ In(s, "logging") /\ cl[Loop(s)].pc = "idle"
    /\ cl' = [cl EXCEPT ![Loop(s)] = IdleCaller]
    /\ srv' = [srv EXCEPT ![s].pc = "get"]
    /\ UNCHANGED <<slot, spots, services, methods, history, fault>>

\* The server gets request r; kept is what remains of it in the object.
GetRequest(s, kept) ==
    LET r == slot[s] IN
    /\ In(s, "get") /\ r.st # "free"
    /\ IF r.st = "pending"
       THEN /\ srv' = [srv EXCEPT ![s] = [Waiting EXCEPT !.pc = "dispatch", !.call = r.call, !.by = r.by,
                                                         !.spot = IF r.seg = "local" THEN r.spot ELSE 0]]
            /\ slot' = [slot EXCEPT ![s] = kept]
       ELSE UNCHANGED <<srv, slot>>
    /\ UNCHANGED <<spots, services, cl, methods, history, fault>>

\* Faulty variant: a message stays in the object like a request.
GetKeepsMessages(s) == GetRequest(s, [slot[s] EXCEPT !.st = "taken"])

\* request_get: a message without shared memory leaves the object at once.  While
\* a request is being processed it returns -3, and the loop calls it again.
Get(s) ==
    GetRequest(s, IF slot[s].call.block \/ slot[s].seg \in {"shared", "deleted"}
                  THEN [slot[s] EXCEPT !.st = "taken"] ELSE FreeSlot)

\* request_answer: the memory is unmapped, the caller wakes up.
request_answer(s, ret) ==
    /\ slot' = [slot EXCEPT ![s] = FreeSlot]
    /\ cl' = [cl EXCEPT ![srv[s].by] = [@ EXCEPT !.pc = "freeDel", !.ans = ret]]

getHandler(s, m) == m \in methods[s]

\* Faulty variant: a request without a method is ignored like a message.
DispatchIgnores(s) ==
    /\ In(s, "dispatch")
    /\ srv' = [srv EXCEPT ![s] = IF getHandler(s, srv[s].call.func) THEN [@ EXCEPT !.pc = "params"] ELSE LoopStart(s)]
    /\ UNCHANGED <<slot, cl, spots, services, methods, history, fault>>

\* A blocking request without a handler is answered ME_UNHANDLED.
Dispatch(s) ==
    /\ In(s, "dispatch")
    /\ IF getHandler(s, srv[s].call.func)
       THEN srv' = [srv EXCEPT ![s].pc = "params"] /\ UNCHANGED <<slot, cl>>
       ELSE /\ srv' = [srv EXCEPT ![s] = LoopStart(s)]
            /\ IF srv[s].call.block THEN request_answer(s, "unhandled") ELSE UNCHANGED <<slot, cl>>
    /\ UNCHANGED <<spots, services, methods, history, fault>>

\* shm_alloc and request_mapShm for memory of another process; the last mapping of a
\* message frees the object.
Params(s) ==
    LET n == Min(spots[s]) IN
    /\ In(s, "params")
    /\ IF srv[s].call.shm /\ srv[s].spot = 0 /\ spots[s] # {}
       THEN /\ spots' = [spots EXCEPT ![s] = @ \ {n}]
            /\ srv' = [srv EXCEPT ![s] = [@ EXCEPT !.pc = "method", !.spot = n, !.keepShm = FALSE]]
            /\ fault' = IF slot[s].seg = "deleted" THEN "uaf" ELSE IF slot[s].seg = "local" THEN "zero" ELSE fault
            /\ slot' = [slot EXCEPT ![s] = IF srv[s].call.block THEN [@ EXCEPT !.seg = "mapped"] ELSE FreeSlot]
       ELSE srv' = [srv EXCEPT ![s].pc = "method"] /\ UNCHANGED <<spots, fault, slot>>
    /\ UNCHANGED <<services, cl, methods, history>>

\* handle_open replaces ":" by the digit 0 and looks the whole string up.
Found(call) ==
    {i \in 1..Len(services) : services[i].name = IF call.res THEN Joined[call.name] ELSE call.name}

\* The object a method calls: nulhandle logs, handle_open asks the service for its
\* resource; CHKSSTR has refused a parameter that could not be mapped.
Nested(s) ==
    LET call == srv[s].call
        opens == s = Manager /\ call.func = "open" /\ srv[s].spot # 0 /\ call.res /\ Found(call) # {}
    IN  IF s # Manager /\ call.func = "nothing" THEN <<[obj |-> Manager, call |-> LogCall]>>
        ELSE IF opens THEN <<[obj |-> services[Min(Found(call))].obj, call |-> OpenCall(call)]>>
        ELSE <<>>

checkIfHandles(s, m) == IF getHandler(s, m) THEN "yes" ELSE "no"

\* What a method that calls nobody returns.
Method(s) ==
    LET call == srv[s].call IN
    CASE call.func = "nothing" -> "ok"
      [] call.func = "handlecheck" -> checkIfHandles(s, call.arg)
      [] call.func \in {"open", "registersvc", "logsvc"} /\ srv[s].spot = 0 -> "badparam"
      [] call.func \in {"registersvc", "logsvc"} /\ srv[s].spot # 0 -> "ok"
      [] call.func = "open" /\ srv[s].spot # 0 ->
            IF s # Manager THEN "refused"
            ELSE IF Found(call) = {} THEN "nosvc" ELSE services[Min(Found(call))].obj

\* Faulty variant: the new service is not put at the head of the list.
RegisterUnlinked(n, o) == services

registersvc(n, o) == <<[name |-> n, obj |-> o]>> \o services

CallMethod(s) ==
    LET ret == Method(s) IN
    /\ In(s, "method")
    /\ IF Nested(s) # <<>>
       THEN /\ Calling(Loop(s), Nested(s)[1].obj, Nested(s)[1].call)
            /\ srv' = [srv EXCEPT ![s].pc = "nested"]
            /\ UNCHANGED services
       ELSE /\ srv' = [srv EXCEPT ![s] = [@ EXCEPT !.pc = "answer", !.ret = ret]]
            /\ services' = IF srv[s].call.func = "registersvc" /\ ret = "ok"
                           THEN registersvc(srv[s].call.name, Process(srv[s].by)) ELSE services
            /\ UNCHANGED <<cl, spots, fault>>
    /\ UNCHANGED <<slot, methods, history>>

\* The call of the method is over: c_open gave an object or -1.
Resume(s) ==
    LET ans == cl[Loop(s)].ans IN
    /\ In(s, "nested") /\ cl[Loop(s)].pc = "idle"
    /\ srv' = [srv EXCEPT ![s] = [@ EXCEPT !.pc = "answer",
                                           !.ret = IF s # Manager THEN "ok" ELSE IF ans \in Obj THEN ans ELSE "nores"]]
    /\ cl' = [cl EXCEPT ![Loop(s)] = IdleCaller]
    /\ UNCHANGED <<slot, spots, services, methods, history, fault>>

Answer(s) ==
    /\ In(s, "answer")
    /\ IF srv[s].call.block THEN request_answer(s, srv[s].ret) ELSE UNCHANGED <<slot, cl>>
    /\ srv' = [srv EXCEPT ![s].pc = "release"]
    /\ UNCHANGED <<spots, services, methods, history, fault>>

\* Faulty variant: only messages give their spot back.
ReleaseMessagesOnly(s) ==
    /\ In(s, "release")
    /\ spots' = IF ~srv[s].keepShm /\ ~srv[s].call.block THEN [spots EXCEPT ![s] = @ \cup {srv[s].spot}] ELSE spots
    /\ srv' = [srv EXCEPT ![s] = LoopStart(s)]
    /\ UNCHANGED <<slot, services, cl, methods, history, fault>>

\* shm_free after an answer, whoever took the spot; shm_freeDel after a message unless
\* keepShm.
Release(s) ==
    LET frees == IF srv[s].call.block THEN srv[s].spot # 0 ELSE ~srv[s].keepShm IN
    /\ In(s, "release")
    /\ spots' = IF frees THEN [spots EXCEPT ![s] = @ \cup {srv[s].spot}] ELSE spots
    /\ srv' = [srv EXCEPT ![s] = LoopStart(s)]
    /\ UNCHANGED <<slot, services, cl, methods, history, fault>>

-----------------------------------------------------------------------------

\* Bounds: a program registers a name once, and only one it serves; memory in a message
\* goes to the manager, as in c_registerSvc.
Bounded(p, call) ==
    /\ call.func = "registersvc" => p \in Serving /\ call.name \notin known[p]
    /\ call.to = "opened" /\ call.shm => call.block /\ (OwnCalls \/ opened[p] # p)

Handle(s) == \/ AddHandlers(s) \/ Log(s) \/ Logged(s) \/ Get(s) \/ Dispatch(s) \/ Params(s) \/ CallMethod(s)
             \/ Resume(s) \/ Answer(s) \/ Release(s)

Halted == fault # "none" /\ UNCHANGED vars

Next ==
    \/ \E p \in Program : \E call \in Calls[p] : Bounded(p, call) /\ Call(p, call)
    \/ \E t \in Thread : Post(t) \/ FreeDel(t)
    \/ \E s \in Server : Handle(s)
    \/ Halted

Spec == Init /\ [][Next]_vars

\* The scheduler runs every thread that is awake.  A thread that polls the mutex of an
\* object (mutex_lock) finds it free only if it looks at the right moment.
FairSpec ==
    /\ Spec
    /\ \A s \in Server : WF_vars(Handle(s))
    /\ \A t \in Thread : WF_vars(Post(t)) /\ WF_vars(FreeDel(t))

-----------------------------------------------------------------------------
(* Properties *)

Answers == {"none", "ok", "yes", "no", "badparam", "nosvc", "nores", "refused", "unhandled"} \cup Obj

\* The objects, the servers and the callers keep their types.
TypeOK ==
    /\ slot \in [Obj -> [st : {"free", "pending", "taken"}, by : Thread, call : CallRec,
                         seg : {"none", "local", "shared", "deleted", "mapped"}, spot : 0..NSpots]]
    /\ srv \in [Server -> [pc : {"init", "log", "logging", "get", "dispatch", "params", "method", "nested", "answer", "release"},
                           call : CallRec, by : Thread, spot : 0..NSpots, keepShm : BOOLEAN, ret : Answers]]
    /\ spots \in [Obj -> SUBSET (1..NSpots)]
    /\ services \in Seq([name : Name, obj : Obj])
    /\ cl \in [Thread -> [pc : {"idle", "post", "reply", "freeDel"}, obj : Obj, call : CallRec,
                          spot : 0..NSpots, ans : Answers, due : BOOLEAN]]
    /\ opened \in [Program -> Obj]
    /\ known \in [Program -> SUBSET Name]
    /\ methods \in [Server -> SUBSET Func]
    /\ fault \in Faults

\* The spots threads of process o hold: of the parameters of their calls, and of the
\* request they handle.
CallSpots(o) == {<<t, cl[t].spot>> : t \in {u \in Thread : Process(u) = o /\ cl[u].spot # 0}}
HandledSpots(o) == {<<<<s, "srv">>, srv[s].spot>> : s \in {u \in Server : u = o /\ ~srv[u].keepShm}}
HeldSpots(o) == CallSpots(o) \cup HandledSpots(o)

(***************************************************************************)
(* Shared memory space (types included): in every process each spot is     *)
(* either free or held by exactly one call or handled request, after       *)
(* requests and messages, handled or not; so srv_handle gives back every   *)
(* spot it takes, and no spot twice.                                       *)
(***************************************************************************)
SpotsSound ==
    /\ TypeOK
    /\ fault = "none" =>
          \A o \in Obj :
             /\ \A h, k \in HeldSpots(o) : h[2] = k[2] => h = k
             /\ spots[o] = (1..NSpots) \ {h[2] : h \in HeldSpots(o)}

\* A program that opens a service after some program has registered it gets an object
\* registered under this name: the message cannot be overtaken by the request.
RegisteredIsFound == fault = "none" =>
    \A p \in Program :
        LET c == cl[Main(p)] IN
        c.pc = "freeDel" /\ c.obj = Manager /\ c.call.func = "open" /\ ~c.call.res /\ c.due
        => c.ans \in {q \in Program : c.call.name \in known[q]}

InReply(t) == cl[t].pc = "reply"

(***************************************************************************)
(* Every request of the manager is answered.  A request of a service stays *)
(* without an answer only if the service's own calls of the manager (its   *)
(* log) are overtaken by other calls again and again.                      *)
(***************************************************************************)
EveryRequestAnswered ==
    \A t \in Thread :
        /\ (InReply(t) /\ cl[t].obj = Manager) ~> (~InReply(t) \/ fault # "none")
        /\ <>[](InReply(t) /\ fault = "none") =>
              []<>(slot[Manager] = FreeSlot) /\ []<>(slot[Manager] # FreeSlot)

(***************************************************************************)
(* The object of the manager does not stay busy, so that the next request  *)
(* can come: requests and messages it has a method for, requests it has    *)
(* none for (answered ME_UNHANDLED) and messages without shared memory all *)
(* leave it, whoever calls and whatever spots are left.                    *)
(***************************************************************************)
HandledObjectFreed ==
    LET r == slot[Manager] IN
    (r.st # "free" /\ (r.call.func \in methods[Manager] \/ r.call.block \/ ~r.call.shm))
        ~> (slot[Manager].st = "free" \/ fault # "none")

\* The manager waits "for requests to come, handling them in an infinite loop": whatever
\* came, its object becomes free for the next request.
ObjectFreedAgain == (slot[Manager].st # "free") ~> (slot[Manager].st = "free" \/ fault # "none")

\* "if local memory or if nothing, do not unmap it": srv_handle does not give away the
\* spot of memory that a caller of its own process still uses.
LocalMemoryKept == fault = "none" =>
    \A t \in Thread : cl[t].spot # 0 => cl[t].spot \notin spots[Process(t)]

\* open of a resource of a registered service reaches that service.
ResourceReachesService == fault = "none" =>
    \A p \in Program :
        LET c == cl[Main(p)] IN
        c.pc = "freeDel" /\ c.obj = Manager /\ c.call.func = "open" /\ c.due => c.ans # "nosvc"
=============================================================================
