----------------------------- MODULE MCPostOffice -----------------------------
(* Instances of PostOffice for TLC: two threads of one machine and one thread *)
(* of another send.                                                            *)
EXTENDS PostOffice

CONSTANTS a1, a2, b1, m1, m2

MCMachineOf == [t \in Threads |-> IF t = b1 THEN m2 ELSE m1]
=============================================================================
