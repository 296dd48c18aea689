----------------------------- MODULE MCLockServer -----------------------------
(* Instances of LockServer for TLC: every machine runs one thread. *)
EXTENDS LockServer, TLC

CONSTANTS c1, c2, c3, m1

\* A thread and the machine it runs on have the same name.
MCMachineOf == [t \in Threads |-> t]

\* Two threads that one client machine forked.
MCOneMachine == [t \in Threads |-> m1]

\* Every condition is used with lock 0.
MCLockFor == [c \in CondIds |-> 0]

MCSymmetry == Permutations(Threads)

MonitorOps == {"CreateLock", "Acquire", "Release", "CreateCondition", "Wait", "Signal"}
AllOps == MonitorOps \cup {"DestroyLock", "Broadcast", "DestroyCondition"}
=============================================================================
