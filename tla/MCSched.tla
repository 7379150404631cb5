------------------------------ MODULE MCSched ------------------------------
(* Small instances of Sched for TLC. *)
EXTENDS Sched, TLC

CONSTANTS t1, t2, t3, p1, p2

ThreeThreads == {t1, t2, t3}
TwoProcs == {p1, p2}

\* kmain gives every module PL_DRIVER.
DriverPrivilege == [p \in Proc |-> PL_DRIVER]
MixedPrivilege == (p1 :> PL_DRIVER) @@ (p2 :> PL_SERVICE)

BootProcs == [t \in Thread |-> CASE t = t1 -> p1 [] t = t2 -> p2 [] OTHER -> Null]
DriverBoot == [q \in Priorities |-> IF q = PL_DRIVER THEN <<t1, t2>> ELSE <<>>]
MixedBoot == [q \in Priorities |->
                 CASE q = PL_DRIVER -> <<t1>> [] q = PL_SERVICE -> <<t2>> [] OTHER -> <<>>]
=============================================================================
