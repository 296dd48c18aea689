---------------------------- MODULE KernelPrograms ----------------------------
(***************************************************************************)
(* Kernel threads that run programs over Synch: each has a sequence of     *)
(* calls before it. The tests t1 to t5 of threads/threadtest.cc, each by   *)
(* itself with TestSuite in the main thread and as many waiters as the     *)
(* crew has threads for; and any use of locks, conditions and a semaphore, *)
(* by the rules with the careful locks. The names of locks, conditions and *)
(* semaphores are the tests' own, less the test's number.                  *)
(***************************************************************************)
EXTENDS Synch

CONSTANTS
    Crew,       \* the threads that Main may fork, in order
    Tests,      \* what may be run, of which Main chooses one
    AnyValue    \* bound: no V when the semaphore has that value, in any use

ASSUME ProgramsAssumption ==
    /\ Crew \in Seq(Threads \ {Main}) /\ Len(Crew) >= 3
    /\ Threads = {Main} \cup {Crew[k] : k \in DOMAIN Crew}
    /\ {"s1", "s2", "s3", "done"} \subseteq Sems
    /\ {"l1", "l2"} \subseteq Locks /\ "c1" \in Conds
    /\ AnyValue \in Nat

VARIABLES
    test,
    script      \* the calls each thread has yet to make

programVars == <<vars, test, script>>

-----------------------------------------------------------------------------
(* The tests. asleep is how many threads must stay behind, waiting. *)

Times(n, step) == [k \in 1..n |-> step]
Waiters == Len(Crew) - 1
Fork0(n) == [k \in 1..n |-> <<"Fork", Crew[k]>>]
Program(main, crew, asleep) == [main |-> Fork0(Len(crew)) \o main, crew |-> crew, asleep |-> asleep]

t1_t1 == << <<"Acquire", "l1">>, <<"V", "s1">>, <<"P", "s3">>, <<"Release", "l1">>, <<"V", "done">> >>
t1_t2 == << <<"P", "s1">>, <<"V", "s2">>, <<"Acquire", "l1">>, <<"Release", "l1">>, <<"V", "done">> >>
t1_t3 == << <<"P", "s2">>, <<"V", "s3">> >> \o Times(3, <<"Release", "l1">>)
Test1 == Program(Times(2, <<"P", "done">>), <<t1_t1, t1_t2, t1_t3>>, 0)

t2_t1 == << <<"Acquire", "l1">>, <<"Signal", "c1", "l1">>, <<"Release", "l1">>, <<"V", "s1">>, <<"V", "done">> >>
t2_t2 == << <<"P", "s1">>, <<"Acquire", "l1">>, <<"Wait", "c1", "l1">>, <<"Release", "l1">> >>
Test2 == Program(<< <<"P", "done">> >>, <<t2_t1, t2_t2>>, 1)

t3_waiter == << <<"Acquire", "l1">>, <<"V", "s1">>, <<"Wait", "c1", "l1">>, <<"Release", "l1">>, <<"V", "done">> >>
t3_signaller == Times(Waiters, <<"P", "s1">>)
    \o << <<"Acquire", "l1">>, <<"Signal", "c1", "l1">>, <<"Release", "l1">>, <<"V", "done">> >>
Test3 == Program(Times(2, <<"P", "done">>), Append(Times(Waiters, t3_waiter), t3_signaller),
                 Waiters - 1)

t4_waiter == << <<"Acquire", "l1">>, <<"V", "s1">>, <<"Wait", "c1", "l1">>, <<"Release", "l1">>, <<"V", "done">> >>
t4_signaller == Times(Waiters, <<"P", "s1">>)
    \o << <<"Acquire", "l1">>, <<"Broadcast", "c1", "l1">>, <<"Release", "l1">>, <<"V", "done">> >>
Test4 == Program(Times(Waiters + 1, <<"P", "done">>),
                 Append(Times(Waiters, t4_waiter), t4_signaller), 0)

t5_t1 == << <<"Acquire", "l1">>, <<"V", "s1">>, <<"Wait", "c1", "l1">>, <<"Release", "l1">> >>
t5_t2 == << <<"P", "s1">>, <<"Acquire", "l1">>, <<"Acquire", "l2">>, <<"Signal", "c1", "l2">>,
            <<"Release", "l2">>, <<"Release", "l1">> >>
Test5 == Program(<<>>, <<t5_t1, t5_t2>>, 1)

SimpleThread == Times(2, <<"Yield">>)
PingPong == Program(SimpleThread, <<SimpleThread>>, 0)

Load(program) ==
    script = [t \in Threads |->
                IF t = Main THEN program.main
                ELSE LET k == CHOOSE n \in DOMAIN Crew : Crew[n] = t
                     IN  IF k \in DOMAIN program.crew THEN program.crew[k] ELSE <<>>]

-----------------------------------------------------------------------------
(* Running them *)

step == Head(script[me])
HasStep == InProgram /\ script[me] # <<>>
Continue(steps) == script' = [script EXCEPT ![me] = steps]
StepDone == Continue(Tail(script[me]))

\* Signal and Broadcast return at once when there is nobody to wake under that lock, Yield
\* when there is no other thread.
NobodyToWake(c, l) == condQueue[c] = <<>> \/ waitingLock[c] # l
Calls ==
    \/ step[1] = "Fork" /\ Fork(step[2])
    \/ step[1] = "Yield" /\ IF readyList # <<>> THEN Yield ELSE UNCHANGED vars
    \/ step[1] = "P" /\ P(step[2])
    \/ step[1] = "V" /\ V(step[2])
    \/ step[1] = "Acquire" /\ Acquire(step[2])
    \/ step[1] = "Release" /\ Release(step[2])
    \/ step[1] = "Wait" /\ Wait(step[2], step[3])
    \/ step[1] = "Signal" /\ IF NobodyToWake(step[2], step[3]) THEN UNCHANGED vars
                             ELSE Signal(step[2], step[3])
    \/ step[1] = "Broadcast" /\ IF NobodyToWake(step[2], step[3]) THEN UNCHANGED vars
                                ELSE Broadcast(step[2], step[3])

SynchStep == HasStep /\ Calls /\ StepDone /\ UNCHANGED test

Ends == script[me] = <<>> /\ Finish
Between == (Dispatch \/ Yield \/ Resumes \/ BroadcastLoop \/ Ends) /\ UNCHANGED <<test, script>>

\* Any use: threads forked by others, and calls in any order.
AnyUse ==
    /\ test = "any use"
    /\ \/ \E k \in 1..2 : Fork(Crew[k])
       \/ P("s1") \/ (value["s1"] < AnyValue /\ V("s1"))
       \/ \E l \in Locks : Acquire(l) \/ Release(l)
       \/ \E c \in Conds, l \in Locks : Wait(c, l) \/ Signal(c, l) \/ Broadcast(c, l)
    /\ UNCHANGED <<test, script>>
=============================================================================
