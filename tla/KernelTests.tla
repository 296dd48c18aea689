------------------------------ MODULE KernelTests ------------------------------
(***************************************************************************)
(* The kernel programs together: one test is chosen, and its threads run   *)
(* under any schedule, preempted wherever interrupts are enabled.          *)
(***************************************************************************)
EXTENDS SynchList, Console, FileTable

ASSUME TestsAssumption ==
    Tests \subseteq {"1", "2", "3", "4", "5", "yield", "list", "echo", "lines", "files", "any use"}

allVars == <<programVars, listVars, consoleVars, fileVars>>

TestSuite == [t \in Tests |->
    CASE t = "1" -> Test1 [] t = "2" -> Test2 [] t = "3" -> Test3 [] t = "4" -> Test4
      [] t = "5" -> Test5 [] t = "yield" -> PingPong [] t = "list" -> GiveAndTake
      [] t = "echo" -> ConsoleTest [] t = "lines" -> Lines [] t = "files" -> Files
      [] t = "any use" -> Program(<<>>, <<>>, 0)]

TestsInit ==
    /\ Init /\ test \in Tests /\ Load(TestSuite[test])
    /\ ListInit /\ ConsoleInit /\ FileTableInit

TestsNext ==
    \/ (SynchStep \/ Between \/ AnyUse) /\ UNCHANGED <<listVars, consoleVars, fileVars>>
    \/ ListStep /\ UNCHANGED <<consoleVars, fileVars>>
    \/ (ConsoleStep \/ CheckCharAvail \/ WriteDone) /\ UNCHANGED <<listVars, fileVars>>
    \/ FileStep /\ UNCHANGED <<listVars, consoleVars>>

TestsSpec == TestsInit /\ [][TestsNext]_allVars

-----------------------------------------------------------------------------
\* What the tests announce: when no thread can go on and no device will answer, every thread has
\* ended, but for those that must stay asleep in Wait (a signal is not stored, wakes one thread
\* only, and none with the wrong lock).
Asleep(t) == pc[t].at = "Wait" /\ status[t] = "BLOCKED"
Over(t) == pc[t] \in {New, Finished, Deleted}
Quiet == Idle /\ ~putBusy /\ (keyboard = <<>> \/ incoming # NoChar)
EndsAsAnnounced == Quiet /\ test # "any use" =>
    /\ \A t \in Threads : Over(t) \/ Asleep(t)
    /\ Cardinality({t \in Threads : Asleep(t)}) = TestSuite[test].asleep

\* The list and the console lose, repeat and reorder nothing, with several threads on either side.
DataInOrder == /\ test = "list" => Kept(<<"a1", "a2">>) /\ Kept(<<"b1">>)
               /\ ConsoleInOrder
=============================================================================
