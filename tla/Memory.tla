------------------------------- MODULE Memory -------------------------------
(***************************************************************************)
(* What virtual memory promises to user programs: every process has pages  *)
(* of its own, a page keeps what was last written to it, and nothing but a *)
(* write of its own process changes it while the system answers for it.    *)
(***************************************************************************)
CONSTANTS Contents,   \* what a page can hold
          Undefined   \* what is read from a page before its first write, when
                      \* the program file says nothing about it

VARIABLE memory       \* what a read returns, for every <<process, page>> in use that
                      \* the system answers for

InUse == DOMAIN memory

Init == /\ \A page, other \in InUse : page[1] = other[1]
        /\ \A page \in InUse : memory[page] \in Contents \cup {Undefined}

\* Pages of one process come or go: with the process, as the stack of a thread that
\* starts or exits, or because the system has lost them. What stays, stays as it is.
Map == LET stay == InUse \cap InUse'
           change == (InUse \cup InUse') \ stay
       IN  /\ change # {}
           /\ \A page, other \in change : page[1] = other[1]
           /\ \A page \in stay : memory'[page] = memory[page]

\* The system answers for no page any more.
GiveUp == InUse # {} /\ InUse' = {}

\* A program writes into one of its pages.
Write == /\ InUse' = InUse
         /\ \E page \in InUse : /\ memory'[page] \in Contents
                                /\ \A other \in InUse \ {page} : memory'[other] = memory[other]

Next == Map \/ GiveUp \/ Write

Spec == Init /\ [][Next]_memory
=============================================================================
