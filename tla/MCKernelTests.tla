---------------------------- MODULE MCKernelTests ----------------------------
(* Four threads, the first of which starts the others, and every test. *)
EXTENDS KernelTests

CONSTANTS t1, t2, t3, t4

MCCrew == <<t2, t3, t4>>
MCInitialValue == [s \in Sems |-> 0]
MCLockFor == [c \in Conds |-> IF c = "c2" THEN "l2" ELSE "l1"]
MCTyped == [t \in Tests |-> CASE t = "echo" -> << <<"a">>, <<"q">> >>
                              [] t = "lines" -> << <<"x", "nl">>, <<"y", "z", "nl">> >>
                              [] OTHER -> <<>>]
=============================================================================
