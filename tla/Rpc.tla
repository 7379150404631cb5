-------------------------------- MODULE Rpc --------------------------------
(***************************************************************************)
(* What requests and messages promise to programs, without descriptors,    *)
(* shared memory, mutexes or wake-ups: an object holds at most one request *)
(* or message; it is taken, then done with; the answer to a request ends   *)
(* the call of the thread that made it, and no other.                      *)
(***************************************************************************)
CONSTANTS Obj, Thread, Null

VARIABLES
    slot,   \* slot[o]: the request in object o; by is Null for a message
    call    \* call[t]: the request thread t makes

vars == <<slot, call>>

Free == [st |-> "free", by |-> Null]

Init ==
    /\ slot = [o \in Obj |-> Free]
    /\ call = [t \in Thread |-> "idle"]

\* request: t waits for an answer from object o.
Ask(t, o) ==
    /\ call[t] = "idle" /\ slot[o] = Free
    /\ slot' = [slot EXCEPT ![o] = [st |-> "pending", by |-> t]]
    /\ call' = [call EXCEPT ![t] = "waiting"]

\* send_msg
Send(o) ==
    /\ slot[o] = Free
    /\ slot' = [slot EXCEPT ![o] = [st |-> "pending", by |-> Null]]
    /\ UNCHANGED call

\* request_get
Take(o) ==
    /\ slot[o].st = "pending"
    /\ slot' = [slot EXCEPT ![o].st = "taken"]
    /\ UNCHANGED call

\* The receiver is done with a message: it took it, or mapped all its memory.
Discard(o) ==
    /\ slot[o].st \in {"pending", "taken"} /\ slot[o].by = Null
    /\ slot' = [slot EXCEPT ![o] = Free]
    /\ UNCHANGED call

\* request_answer
Answer(o) ==
    /\ slot[o].st = "taken" /\ slot[o].by # Null /\ call[slot[o].by] = "waiting"
    /\ slot' = [slot EXCEPT ![o] = Free]
    /\ call' = [call EXCEPT ![slot[o].by] = "answered"]

Return(t) ==
    /\ call[t] = "answered"
    /\ call' = [call EXCEPT ![t] = "idle"]
    /\ UNCHANGED slot

\* Threads end, alone or with their process.
Die(T) ==
    /\ call' = [t \in Thread |-> IF t \in T THEN "dead" ELSE call[t]]
    /\ UNCHANGED slot

Next ==
    \/ \E t \in Thread, o \in Obj : Ask(t, o)
    \/ \E o \in Obj : Send(o) \/ Take(o) \/ Discard(o) \/ Answer(o)
    \/ \E t \in Thread : Return(t)
    \/ \E T \in SUBSET Thread : Die(T)

Spec == Init /\ [][Next]_vars

=============================================================================
