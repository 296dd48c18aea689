--------------------------- MODULE MCVirtualMemory ---------------------------
(* Instances of UserProgram: the programs of two processes. *)
EXTENDS UserProgram

\* The programs of both processes write page 0, and that of process 2 has a page more, which it
\* reads; the second thread, of process 1 if it was forked or else of process 2, uses its stack
\* as well: up to four pages in use, two more than there are frames, and three of one process,
\* one more than entries of the TLB.
SomePages(p) == IF p = 1 THEN 1 ELSE 2
NoBss(p) == 0
EveryPage(p) == 0 .. SomePages(p) - 1
PageZero(p) == {0}
\* Process 1 has a byte of code and one of data in its page.
MCSizes == <<1, 0, 1, 0, 0>>
=============================================================================
