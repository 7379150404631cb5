------------------------------- MODULE MCIpc -------------------------------
(* Instances of Ipc for TLC. *)
EXTENDS Ipc, TLC

CONSTANTS pm, pcl,           \* processes: the manager and a client
          tm, tn, tc, te,    \* threads
          om, oc, ox,        \* objects
          g1, g2, a1, a2, a3 \* segments and segment maps

Void == [kind |-> "void", v |-> 0]
P1(kind, v) == [i \in 1..3 |-> IF i = 1 THEN [kind |-> kind, v |-> v] ELSE Void]
MkCall(block, ans, par) == [block |-> block, ans |-> ans, par |-> par]

PlainCalls == {MkCall(b, "void", [i \in 1..3 |-> Void]) : b \in BOOLEAN}
\* a request or message whose first parameter is the sender's root object, and
\* a request that is answered with an object
ObjectCalls == {MkCall(FALSE, "void", P1("obj", 0)), MkCall(TRUE, "obj", P1("obj", 0))}
MixedCalls == {MkCall(TRUE, "void", [i \in 1..3 |-> Void])} \cup ObjectCalls

OneThreadEach == tm :> pm @@ tc :> pcl
\* a request or message that shares the sender's segment at offset 0
ShmCalls == {MkCall(b, "void", P1("shm", 0)) : b \in BOOLEAN}
ShmRequests == {MkCall(TRUE, "void", P1("shm", 0))}
ShmMessages == {MkCall(FALSE, "void", P1("shm", 0))}
\* a request that passes the root object and is answered with an object
ServiceCalls == {MkCall(TRUE, "obj", P1("obj", 0))}
ClientThreads == tm :> pm @@ tc :> pcl @@ te :> pcl
ServerThreads == tm :> pm @@ tn :> pm @@ tc :> pcl
TwoRoots == pm :> om @@ pcl :> oc
=============================================================================
