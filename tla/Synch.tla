-------------------------------- MODULE Synch --------------------------------
(***************************************************************************)
(* Threads, the scheduler, semaphores, locks and condition variables of    *)
(* the Nachos kernel (threads/thread.cc, threads/scheduler.cc,             *)
(* threads/synch.cc), as kernel code and interrupt handlers use them.      *)
(*                                                                         *)
(* One CPU: every operation runs with interrupts disabled until it returns *)
(* or sleeps, so it is one step.  A thread that sleeps leaves the CPU in   *)
(* Thread::Sleep's search for another thread, and goes on from where it    *)
(* slept, interrupts still disabled, once it is dispatched.  Where         *)
(* interrupts are enabled the timer may take the CPU away and a device's   *)
(* handler may V a semaphore.                                              *)
(***************************************************************************)
EXTENDS Integers, Sequences, FiniteSets

CONSTANTS
    Threads,
    Main,             \* the thread that runs first
    NoThread,         \* NULL
    Locks, NoLock,
    Conds,
    Sems,
    initialValue,     \* of each semaphore
    MaxValue,         \* bound: no V when a semaphore's value has reached it
    CarefulLocks,     \* the locks with which threads keep to synch.h:104-107
    lockFor           \* the lock each condition is meant to be used with

ASSUME SynchAssumption ==
    /\ IsFiniteSet(Threads)
    /\ Main \in Threads
    /\ NoThread \notin Threads
    /\ NoLock \notin Locks
    /\ initialValue \in [Sems -> Nat]
    /\ MaxValue \in Nat
    /\ CarefulLocks \subseteq Locks
    /\ lockFor \in [Conds -> Locks]

VARIABLES
    currentThread,    \* still the old one while Sleep looks for the next
    readyList,
    status,           \* of each thread
    pc,               \* where each thread is, or where it slept
    threadToBeDestroyed,
    lockStatus, lockOwner, lockQueue,
    waitingLock, condQueue,
    value, semQueue

threadVars == <<currentThread, readyList, status, pc, threadToBeDestroyed>>
lockVars == <<lockStatus, lockOwner, lockQueue>>
condVars == <<waitingLock, condQueue>>
semVars == <<value, semQueue>>
vars == <<threadVars, lockVars, condVars, semVars>>

\* Not started; in code of its own; finished; its object deleted.
New      == [at |-> "New"]
Run      == [at |-> "Run"]
Finished == [at |-> "Finished"]
Deleted  == [at |-> "Deleted"]

\* Otherwise a thread is in an operation: asleep in P or Acquire, in Wait before
\* its lock is asked for again or asleep in that Acquire, in Broadcast's loop.
Pc == {New, Run, Finished, Deleted}
        \cup [at : {"P"}, sem : Sems]
        \cup [at : {"Acquire", "Reacquire"}, lock : Locks]
        \cup [at : {"Wait", "Broadcast"}, cond : Conds, lock : Locks]

\* The constructors: a thread is in code of its own when it has been made and forked; the
\* main thread, which is that already, has its object made for it by Initialize.
NewThreads == /\ status = [t \in Threads |-> IF t = Main THEN "RUNNING" ELSE "JUST_CREATED"]
              /\ pc = [t \in Threads |-> IF t = Main THEN Run ELSE New]
NewScheduler == readyList = <<>>
NewSemaphores == /\ value = initialValue
                 /\ semQueue = [s \in Sems |-> <<>>]
NewLocks == /\ lockStatus = [l \in Locks |-> "FREE"]
            /\ lockOwner = [l \in Locks |-> NoThread]
            /\ lockQueue = [l \in Locks |-> <<>>]
NewConditions == /\ waitingLock = [c \in Conds |-> NoLock]
                 /\ condQueue = [c \in Conds |-> <<>>]

Init == /\ currentThread = Main /\ threadToBeDestroyed = NoThread
        /\ NewThreads /\ NewScheduler
        /\ NewSemaphores /\ NewLocks /\ NewConditions

-----------------------------------------------------------------------------
(* Threads and the scheduler *)

me == currentThread
Running == status[me] = "RUNNING"
InProgram == Running /\ pc[me] = Run

\* Interrupts are taken in a thread's own code, and between the turns of
\* Broadcast's loop; and by an idle CPU.
InterruptsEnabled == Running /\ pc[me].at \in {"Run", "Broadcast"}
Idle == ~Running /\ readyList = <<>>

\* Scheduler::ReadyToRun for each thread of a sequence.
ReadyToRun(ts) ==
    /\ readyList' = readyList \o ts
    /\ status' = [t \in Threads |->
                    IF \E i \in DOMAIN ts : ts[i] = t THEN "READY" ELSE status[t]]

\* ReadyToRun(ts), after which the current thread sleeps at p.
SleepAt(p, ts) ==
    /\ readyList' = readyList \o ts
    /\ status' = [t \in Threads |->
                    IF t = me THEN "BLOCKED"
                    ELSE IF \E i \in DOMAIN ts : ts[i] = t THEN "READY"
                    ELSE status[t]]
    /\ pc' = [pc EXCEPT ![me] = p]

\* Scheduler::Run: a thread that resumes deletes the thread that finished, one
\* that starts does not return through Run.
Switch(next) ==
    /\ currentThread' = next
    /\ \/ /\ pc[next] = New
          /\ pc' = [pc EXCEPT ![next] = Run]
          /\ UNCHANGED threadToBeDestroyed
       \/ /\ pc[next] # New
          /\ pc' = [t \in Threads |-> IF t = threadToBeDestroyed THEN Deleted ELSE pc[t]]
          /\ threadToBeDestroyed' = NoThread

\* The end of Thread::Sleep: the next ready thread gets the CPU.
Dispatch ==
    /\ ~Running
    /\ readyList # <<>>
    /\ readyList' = Tail(readyList)
    /\ status' = [status EXCEPT ![Head(readyList)] = "RUNNING"]
    /\ Switch(Head(readyList))
    /\ UNCHANGED <<lockVars, condVars, semVars>>

\* Thread::Yield, by the thread itself or by the timer interrupt.
Yield ==
    /\ InterruptsEnabled
    /\ readyList # <<>>
    /\ readyList' = Append(Tail(readyList), me)
    /\ status' = [status EXCEPT ![me] = "READY", ![Head(readyList)] = "RUNNING"]
    /\ Switch(Head(readyList))
    /\ UNCHANGED <<lockVars, condVars, semVars>>

Fork(t) ==
    /\ InProgram
    /\ status[t] = "JUST_CREATED"
    /\ ReadyToRun(<<t>>)
    /\ UNCHANGED <<currentThread, pc, threadToBeDestroyed, lockVars, condVars, semVars>>

Finish ==
    /\ InProgram
    /\ \A l \in CarefulLocks : lockOwner[l] # me
    /\ threadToBeDestroyed' = me
    /\ SleepAt(Finished, <<>>)
    /\ UNCHANGED <<currentThread, lockVars, condVars, semVars>>

-----------------------------------------------------------------------------
(* Semaphores *)

\* P from its start, or again when its sleep is over: while (value == 0).
TryP(s) ==
    \/ /\ value[s] = 0
       /\ semQueue' = [semQueue EXCEPT ![s] = Append(@, me)]
       /\ SleepAt([at |-> "P", sem |-> s], <<>>)
       /\ UNCHANGED value
    \/ /\ value[s] > 0
       /\ value' = [value EXCEPT ![s] = @ - 1]
       /\ pc' = [pc EXCEPT ![me] = Run]
       /\ UNCHANGED <<readyList, status, semQueue>>

P(s) ==
    /\ InProgram
    /\ TryP(s)
    /\ UNCHANGED <<currentThread, threadToBeDestroyed, lockVars, condVars>>

ResumeP(s) ==
    /\ Running
    /\ pc[me].at = "P" /\ pc[me].sem = s
    /\ TryP(s)
    /\ UNCHANGED <<currentThread, threadToBeDestroyed, lockVars, condVars>>

\* Whom V takes from the queue.
FirstOf_OnlyAtZero(s) ==
    IF value[s] = 0 THEN SubSeq(semQueue[s], 1, IF semQueue[s] = <<>> THEN 0 ELSE 1) ELSE <<>>
FirstOf(s) == IF semQueue[s] = <<>> THEN <<>> ELSE <<Head(semQueue[s])>>

\* V, by a thread or by an interrupt handler.
V(s) ==
    /\ InterruptsEnabled \/ Idle
    /\ value[s] < MaxValue
    /\ value' = [value EXCEPT ![s] = @ + 1]
    /\ semQueue' = [semQueue EXCEPT ![s] = IF FirstOf(s) = <<>> THEN @ ELSE Tail(@)]
    /\ ReadyToRun(FirstOf(s))
    /\ UNCHANGED <<currentThread, pc, threadToBeDestroyed, lockVars, condVars>>

-----------------------------------------------------------------------------
(* Locks *)

\* Lock::Acquire up to its return or its sleep; asleep is where it sleeps.
TryAcquire(l, asleep) ==
    \/ /\ lockOwner[l] = me
       /\ pc' = [pc EXCEPT ![me] = Run]
       /\ UNCHANGED <<readyList, status, lockVars>>
    \/ /\ lockOwner[l] # me
       /\ lockStatus[l] = "FREE"
       /\ lockStatus' = [lockStatus EXCEPT ![l] = "BUSY"]
       /\ lockOwner' = [lockOwner EXCEPT ![l] = me]
       /\ pc' = [pc EXCEPT ![me] = Run]
       /\ UNCHANGED <<readyList, status, lockQueue>>
    \/ /\ lockOwner[l] # me
       /\ lockStatus[l] = "BUSY"
       /\ lockQueue' = [lockQueue EXCEPT ![l] = Append(@, me)]
       /\ SleepAt([at |-> asleep, lock |-> l], <<>>)
       /\ UNCHANGED <<lockStatus, lockOwner>>

Acquire(l) ==
    /\ InProgram
    /\ TryAcquire(l, "Acquire")
    /\ UNCHANGED <<currentThread, threadToBeDestroyed, condVars, semVars>>

\* Acquire, or the Acquire inside Wait, returns once its sleep is over: whoever
\* released the lock has made this thread the owner.
AcquireReturns ==
    /\ Running
    /\ pc[me].at \in {"Acquire", "Reacquire"}
    /\ pc' = [pc EXCEPT ![me] = Run]
    /\ UNCHANGED <<currentThread, readyList, status, threadToBeDestroyed,
                   lockVars, condVars, semVars>>

\* Lock::Release: who is made ready, and what becomes of the lock.
Heir_Forgotten(l) == <<>>
Heir(l) == IF lockOwner[l] # me \/ lockQueue[l] = <<>>
           THEN <<>> ELSE <<Head(lockQueue[l])>>

PassOn_QueueIgnored(l) ==
    /\ lockStatus' = [lockStatus EXCEPT ![l] = IF lockOwner[l] = me THEN "FREE" ELSE @]
    /\ lockOwner' = [lockOwner EXCEPT ![l] = IF @ = me THEN NoThread ELSE @]
    /\ UNCHANGED lockQueue
PassOn(l) ==
    \/ /\ lockOwner[l] # me
       /\ UNCHANGED lockVars
    \/ /\ lockOwner[l] = me
       /\ lockQueue[l] # <<>>
       /\ lockOwner' = [lockOwner EXCEPT ![l] = Head(lockQueue[l])]
       /\ lockQueue' = [lockQueue EXCEPT ![l] = Tail(@)]
       /\ UNCHANGED lockStatus
    \/ /\ lockOwner[l] = me
       /\ lockQueue[l] = <<>>
       /\ lockStatus' = [lockStatus EXCEPT ![l] = "FREE"]
       /\ lockOwner' = [lockOwner EXCEPT ![l] = NoThread]
       /\ UNCHANGED lockQueue

Release(l) ==
    /\ InProgram
    /\ l \in CarefulLocks => lockOwner[l] = me
    /\ PassOn(l)
    /\ ReadyToRun(Heir(l))
    /\ UNCHANGED <<currentThread, pc, threadToBeDestroyed, condVars, semVars>>

-----------------------------------------------------------------------------
(* Condition variables *)

\* "All operations on a condition variable must be made while the current thread
\* has acquired a lock", and always the same one: the rule for careful locks.
MayUse(c, l) == /\ l \in CarefulLocks => lockOwner[l] = me
                /\ lockFor[c] \in CarefulLocks => l = lockFor[c]

\* Condition::Wait up to its sleep.  A condition bound to another lock: return.
Wait(c, l) ==
    /\ InProgram
    /\ MayUse(c, l)
    /\ waitingLock[c] \in {NoLock, l}
    /\ waitingLock' = [waitingLock EXCEPT ![c] = l]
    /\ condQueue' = [condQueue EXCEPT ![c] = Append(@, me)]
    /\ PassOn(l)
    /\ SleepAt([at |-> "Wait", cond |-> c, lock |-> l], Heir(l))
    /\ UNCHANGED <<currentThread, threadToBeDestroyed, semVars>>

\* conditionLock->Acquire(), when the sleep in Wait is over.
WaitReacquires_Skipped ==
    /\ Running
    /\ pc[me].at = "Wait"
    /\ pc' = [pc EXCEPT ![me] = Run]
    /\ UNCHANGED <<readyList, status, lockVars>>
    /\ UNCHANGED <<currentThread, threadToBeDestroyed, condVars, semVars>>
WaitReacquires ==
    /\ Running
    /\ pc[me].at = "Wait"
    /\ TryAcquire(pc[me].lock, "Reacquire")
    /\ UNCHANGED <<currentThread, threadToBeDestroyed, condVars, semVars>>

\* Condition::Signal.  An empty queue, or a wrong lock: return.
Wake_StaysBound(c, l) ==
    /\ condQueue[c] # <<>>
    /\ waitingLock[c] = l
    /\ condQueue' = [condQueue EXCEPT ![c] = Tail(@)]
    /\ ReadyToRun(<<Head(condQueue[c])>>)
    /\ UNCHANGED waitingLock
Wake(c, l) ==
    /\ condQueue[c] # <<>>
    /\ waitingLock[c] = l
    /\ condQueue' = [condQueue EXCEPT ![c] = Tail(@)]
    /\ waitingLock' = [waitingLock EXCEPT ![c] =
                           IF Tail(condQueue[c]) = <<>> THEN NoLock ELSE @]
    /\ ReadyToRun(<<Head(condQueue[c])>>)

Signal(c, l) ==
    /\ InProgram
    /\ MayUse(c, l)
    /\ Wake(c, l)
    /\ UNCHANGED <<currentThread, pc, threadToBeDestroyed, lockVars, semVars>>

Broadcast(c, l) ==
    /\ InProgram
    /\ MayUse(c, l)
    /\ waitingLock[c] = l
    /\ pc' = [pc EXCEPT ![me] = [at |-> "Broadcast", cond |-> c, lock |-> l]]
    /\ UNCHANGED <<currentThread, readyList, status, threadToBeDestroyed,
                   lockVars, condVars, semVars>>

\* One turn of Broadcast's loop, interrupts enabled between turns; and its end.
\* (A turn whose Signal does nothing, because the condition has been bound to
\* another lock since, changes nothing.)
LoopAgain_OnlyOnce == pc' = [pc EXCEPT ![me] = Run]
LoopAgain == UNCHANGED pc

BroadcastLoop ==
    /\ Running
    /\ pc[me].at = "Broadcast"
    /\ \/ /\ Wake(pc[me].cond, pc[me].lock)
          /\ LoopAgain
       \/ /\ condQueue[pc[me].cond] = <<>>
          /\ pc' = [pc EXCEPT ![me] = Run]
          /\ UNCHANGED <<readyList, status, condVars>>
    /\ UNCHANGED <<currentThread, threadToBeDestroyed, lockVars, semVars>>

-----------------------------------------------------------------------------

\* What continues by itself, interrupts disabled, once a thread has the CPU.
Resumes == (\E s \in Sems : ResumeP(s)) \/ AcquireReturns \/ WaitReacquires

Next ==
    \/ Dispatch \/ Yield \/ Finish \/ Resumes \/ BroadcastLoop
    \/ \E t \in Threads : Fork(t)
    \/ \E s \in Sems : P(s) \/ V(s)
    \/ \E l \in Locks : Acquire(l) \/ Release(l)
    \/ \E c \in Conds, l \in Locks : Wait(c, l) \/ Signal(c, l) \/ Broadcast(c, l)

Spec == Init /\ [][Next]_vars

\* The CPU does not stop while there is work for it, the timer interrupts every
\* thread, and a thread does not stay inside a lock for ever.
ReleaseBy(t) == currentThread = t /\ \E l \in Locks : lockOwner[l] = t /\ Release(l)

Fairness ==
    /\ WF_vars(Dispatch) /\ WF_vars(Yield) /\ WF_vars(Resumes)
    /\ \A t \in Threads : /\ SF_vars(ReleaseBy(t))
                          /\ SF_vars(currentThread = t /\ BroadcastLoop)

FairSpec == Spec /\ Fairness

-----------------------------------------------------------------------------
(* Properties *)

TypeOK ==
    /\ currentThread \in Threads
    /\ readyList \in Seq(Threads)
    /\ status \in [Threads -> {"JUST_CREATED", "RUNNING", "READY", "BLOCKED"}]
    /\ pc \in [Threads -> Pc]
    /\ threadToBeDestroyed \in Threads \cup {NoThread}
    /\ lockStatus \in [Locks -> {"FREE", "BUSY"}]
    /\ lockOwner \in [Locks -> Threads \cup {NoThread}]
    /\ lockQueue \in [Locks -> Seq(Threads)]
    /\ waitingLock \in [Conds -> Locks \cup {NoLock}]
    /\ condQueue \in [Conds -> Seq(Threads)]
    /\ value \in [Sems -> Nat]
    /\ semQueue \in [Sems -> Seq(Threads)]

Distinct(q) == \A i, j \in DOMAIN q : q[i] = q[j] => i = j
On(q, t) == \E i \in DOMAIN q : q[i] = t
Blocked(t, a) == status[t] = "BLOCKED" /\ pc[t].at \in a

\* No thread is lost or scheduled twice: a READY thread is once in the ready
\* list, a thread that sleeps in an operation is once in the queue of the very
\* lock, condition or semaphore it sleeps on, only the current thread is
\* RUNNING, and no queue holds anybody else. Every variable has its type.
EachThreadInOnePlace ==
    /\ TypeOK
    /\ Distinct(readyList)
    /\ \A l \in Locks : Distinct(lockQueue[l])
    /\ \A c \in Conds : Distinct(condQueue[c])
    /\ \A s \in Sems : Distinct(semQueue[s])
    /\ \A t \in Threads :
          /\ On(readyList, t) <=> status[t] = "READY"
          /\ \A l \in Locks : On(lockQueue[l], t) <=>
                Blocked(t, {"Acquire", "Reacquire"}) /\ pc[t].lock = l
          /\ \A c \in Conds : On(condQueue[c], t) <=>
                Blocked(t, {"Wait"}) /\ pc[t].cond = c
          /\ \A s \in Sems : On(semQueue[s], t) <=>
                Blocked(t, {"P"}) /\ pc[t].sem = s
          /\ status[t] = "RUNNING" => currentThread = t

\* The hand-off of Release: a lock is BUSY while it has an owner, nobody queues for a FREE one,
\* and a thread that wakes up in Acquire, which does not look at the lock again, is its owner.
\* All who wait on a condition wait with the lock it is bound to, and it is bound to none just
\* while nobody waits, however threads mix locks and conditions.
LocksConsistent ==
    /\ \A l \in Locks :
          /\ lockStatus[l] = "BUSY" <=> lockOwner[l] # NoThread
          /\ lockStatus[l] = "FREE" => lockQueue[l] = <<>>
    /\ \A t \in Threads :
          pc[t].at \in {"Acquire", "Reacquire"} /\ status[t] # "BLOCKED" => lockOwner[pc[t].lock] = t
    /\ \A c \in Conds :
          /\ waitingLock[c] = NoLock <=> condQueue[c] = <<>>
          /\ \A i \in DOMAIN condQueue[c] : pc[condQueue[c][i]].lock = waitingLock[c]

\* A V is never lost: while threads sleep in P, every unit of the semaphore's
\* value has a thread that was woken for it and has not run yet, although other
\* threads may take the value first.
Woken(s) == {t \in Threads : /\ pc[t] = [at |-> "P", sem |-> s]
                             /\ status[t] # "BLOCKED"}
NoLostV ==
    \A s \in Sems : semQueue[s] # <<>> => value[s] <= Cardinality(Woken(s))

-----------------------------------------------------------------------------
(* Locks and conditions implement a monitor.  A thread is inside a lock it    *)
(* owns from the return of Acquire or Wait; it waits on a condition until it   *)
(* is made ready.                                                              *)

AsksFor(t, l) ==
    \/ pc[t].at \in {"Acquire", "Reacquire"} /\ pc[t].lock = l
    \/ /\ pc[t].at = "Wait"
       /\ pc[t].lock = l
       /\ ~On(condQueue[pc[t].cond], t)

Inside(t, l) == lockOwner[l] = t /\ ~AsksFor(t, l)

CarefulConds == {c \in Conds : lockFor[c] \in CarefulLocks}

inside   == [l \in CarefulLocks |-> {t \in Threads : Inside(t, l)}]
entering == [l \in CarefulLocks |-> {t \in Threads : AsksFor(t, l)}]
waiting  == [c \in CarefulConds |-> {t \in Threads : On(condQueue[c], t)}]
Monitor == INSTANCE MesaMonitor WITH Locks <- CarefulLocks, Conds <- CarefulConds

\* With the locks for which they keep to the rules of synch.h threads see the
\* Mesa monitor it describes, under any schedule and whatever they do to other
\* locks: one thread inside, and a return from Wait only after a Signal or
\* Broadcast from inside the lock, with the lock regained.
ImplementsMonitor == Monitor!MMSpec

\* Whoever asks for a lock, first or at the end of a wait, gets inside it.
AskersEnter ==
    \A t \in Threads, l \in Locks : AsksFor(t, l) ~> Inside(t, l)

\* Broadcast wakes up all threads waiting on the condition, and ends.
BroadcastWakesAll ==
    \A t, u \in Threads, c \in Conds :
        pc[t].at = "Broadcast" /\ pc[t].cond = c /\ On(condQueue[c], u)
            ~> pc[t].at # "Broadcast" /\ ~On(condQueue[c], u)
=============================================================================
