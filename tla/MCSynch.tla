------------------------------- MODULE MCSynch -------------------------------
(* An instance of Synch for TLC: three threads, the first of which starts *)
(* the others.                                                             *)
EXTENDS Synch

CONSTANTS t1, t2, t3, lock1, cond1

MCInitialValue == [s \in Sems |-> 0]
MCLockFor == [c \in Conds |-> lock1]
=============================================================================
