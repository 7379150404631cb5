---------------------------- MODULE MCServices ----------------------------
(* Instances of Services for TLC. *)
EXTENDS Services

CONSTANTS p1, p2, n0, n1, n2

Mk(to, func, block, shm, name, res) ==
    [to |-> to, func |-> func, arg |-> "logsvc", block |-> block, shm |-> shm, name |-> name, res |-> res]

Opens == {Mk("manager", "open", TRUE, TRUE, n1, FALSE)}
Registers == {Mk("manager", "registersvc", FALSE, TRUE, n1, FALSE)}
Checks == {Mk("opened", "handlecheck", TRUE, FALSE, n1, FALSE)}
Nothings == {Mk("opened", "nothing", b, FALSE, n1, FALSE) : b \in BOOLEAN}
ServiceOpens == {Mk("opened", "open", TRUE, TRUE, n1, FALSE)}
Logs == {Mk("opened", "logsvc", TRUE, TRUE, n1, FALSE)}   \* a service has no such method

\* "n1:..." looked up is the name of no service, unless it is n2.
NoService == [n \in Name |-> "none"]
OddName == [n \in Name |-> IF n = n1 THEN n2 ELSE "none"]

ClientCalls == Opens \cup Checks \cup Nothings \cup ServiceOpens \cup Logs
UnknownMessages == {Mk("manager", "unknown", FALSE, TRUE, n1, FALSE), Mk("manager", "nothing", TRUE, FALSE, n1, FALSE)}
ResourceOpens == {Mk("manager", "open", TRUE, TRUE, n1, TRUE)}
LibraryCalls == [p \in Program |-> IF p \in Serving THEN Registers ELSE ClientCalls]
MessageCalls == [p \in Program |-> UnknownMessages]
ResourceCalls == [p \in Program |-> IF p \in Serving THEN Registers ELSE ResourceOpens]
\* A service whose name is "n1", the digit 0 and a resource.
OddCalls == [p \in Program |-> IF p \in Serving THEN {Mk("manager", "registersvc", FALSE, TRUE, n2, FALSE)} ELSE ResourceOpens]
OwnOpens == [p \in Program |-> Registers \cup Opens \cup ServiceOpens]
=============================================================================
