----------------------------- MODULE KernelProofs -----------------------------
(***************************************************************************)
(* Theorems about the kernel.  First of Synch: threads, queues, locks,     *)
(* conditions and semaphores, for any number of each.  Then of             *)
(* KernelTests: the kernel's tests, the synchronized list, the console and *)
(* the table of open files do to them only what Synch allows, so that what *)
(* is proved of Synch holds while they run; and the table of open files    *)
(* gives every thread its own file.                                        *)
(***************************************************************************)
EXTENDS KernelTests, SequenceTheorems, FiniteSetTheorems, TLAPS

-----------------------------------------------------------------------------
(* Queues.  Whatever is done to one, what counts is who is in it. *)

\* q is a queue in which everybody of S stands, once, and nobody else.
Holds(q, S) == /\ q \in Seq(Threads)
               /\ Distinct(q)
               /\ S = {q[i] : i \in DOMAIN q}

Members(q) == {q[i] : i \in DOMAIN q}

\* The three things the code does to its lists (threads/list.cc: Append, Remove), and the empty one.
LEMMA EmptyHolds == Holds(<<>>, {})
  BY EmptySeq DEF Holds, Distinct

LEMMA AppendHolds ==
    ASSUME NEW q, NEW S, Holds(q, S), NEW x \in Threads, x \notin S
    PROVE  /\ Holds(Append(q, x), S \cup {x})
           /\ Append(q, x) # <<>>
  <1>1. q \in Seq(Threads)
    BY DEF Holds
  <1>2. /\ Append(q, x) \in Seq(Threads) /\ Append(q, x) # <<>>
        /\ Len(Append(q, x)) = Len(q) + 1
        /\ \A i \in 1..Len(q) : Append(q, x)[i] = q[i]
        /\ Append(q, x)[Len(q) + 1] = x
    BY <1>1, AppendProperties
  <1>3. DOMAIN q = 1..Len(q) /\ DOMAIN Append(q, x) = 1..Len(q) + 1 /\ Len(q) \in Nat
    BY <1>1, <1>2, LenProperties
  <1>4. Distinct(Append(q, x))
    BY <1>2, <1>3 DEF Holds, Distinct
  <1>5. S \cup {x} = {Append(q, x)[i] : i \in DOMAIN Append(q, x)}
    BY <1>2, <1>3 DEF Holds
  <1> QED BY <1>2, <1>4, <1>5 DEF Holds

LEMMA TailHolds ==
    ASSUME NEW q, NEW S, Holds(q, S), q # <<>>
    PROVE  /\ Head(q) \in S /\ Head(q) \in Threads
           /\ Holds(Tail(q), S \ {Head(q)})
  <1>1. q \in Seq(Threads)
    BY DEF Holds
  <1>2. /\ Head(q) \in Threads /\ Tail(q) \in Seq(Threads) /\ Len(Tail(q)) = Len(q) - 1
        /\ \A i \in 1..Len(q) - 1 : Tail(q)[i] = q[i + 1]
        /\ DOMAIN q = 1..Len(q) /\ DOMAIN Tail(q) = 1..Len(q) - 1 /\ Len(q) \in Nat \ {0}
        /\ Head(q) = q[1]
    BY <1>1, HeadTailProperties, LenProperties, EmptySeq
  <1>3. Distinct(Tail(q))
    BY <1>2 DEF Holds, Distinct
  <1>4. ASSUME NEW i \in DOMAIN Tail(q) PROVE Tail(q)[i] \in S \ {Head(q)}
    <2>1. i + 1 \in DOMAIN q /\ i + 1 # 1 /\ 1 \in DOMAIN q /\ Tail(q)[i] = q[i + 1]
      BY <1>2
    <2> QED BY <1>2, <2>1 DEF Holds, Distinct
  <1>5. ASSUME NEW t \in S \ {Head(q)} PROVE \E i \in DOMAIN Tail(q) : Tail(q)[i] = t
    <2>1. PICK i \in DOMAIN q : q[i] = t
      BY DEF Holds
    <2>2. i # 1 /\ i - 1 \in 1..Len(q) - 1 /\ (i - 1) + 1 = i
      BY <1>2, <2>1
    <2>3. Tail(q)[i - 1] = q[(i - 1) + 1]
      BY <1>2, <2>2
    <2> QED BY <1>2, <2>1, <2>2, <2>3
  <1>6. S \ {Head(q)} = {Tail(q)[i] : i \in DOMAIN Tail(q)}
    BY <1>4, <1>5
  <1>7. Head(q) \in S
    BY <1>2 DEF Holds
  <1> QED BY <1>2, <1>3, <1>6, <1>7 DEF Holds

\* Those the code makes ready at one time: nobody, or one thread.
Few(ts) == ts = <<>> \/ \E x \in Threads : ts = <<x>>

LEMMA FewMembers == /\ Members(<<>>) = {} /\ Few(<<>>)
                    /\ \A x \in Threads : Members(<<x>>) = {x} /\ Few(<<x>>)
                    /\ \A ts, t : (\E i \in DOMAIN ts : ts[i] = t) <=> t \in Members(ts)
  BY DEF Members, Few

LEMMA ConcatHolds ==
    ASSUME NEW q, NEW S, Holds(q, S), NEW ts, Few(ts), Members(ts) \cap S = {}
    PROVE  Holds(q \o ts, S \cup Members(ts))
  <1>0. q \in Seq(Threads)
    BY DEF Holds
  <1>1. CASE ts = <<>>
    BY <1>0, <1>1, ConcatEmptySeq, FewMembers
  <1>2. ASSUME NEW x \in Threads, ts = <<x>>
        PROVE  Holds(q \o ts, S \cup Members(ts))
    <2>1. q \o ts = Append(q, x) /\ Members(ts) = {x}
      BY <1>0, <1>2, AppendIsConcat, FewMembers
    <2>2. Holds(Append(q, x), S \cup {x})
      BY <2>1, AppendHolds
    <2> QED BY <2>1, <2>2
  <1> QED BY <1>1, <1>2 DEF Few

LEMMA HoldsMeans ==
    ASSUME NEW q, NEW S, Holds(q, S)
    PROVE  /\ S \subseteq Threads
           /\ \A t : On(q, t) <=> t \in S
           /\ q = <<>> <=> S = {}
  <1>1. /\ q \in Seq(Threads) /\ DOMAIN q = 1..Len(q) /\ Len(q) \in Nat
        /\ q # <<>> => Len(q) \in Nat \ {0}
        /\ \A i \in DOMAIN q : q[i] \in Threads
    BY LenProperties, ElementOfSeq, EmptySeq DEF Holds
  <1>2. q = <<>> => S = {}
    BY DEF Holds
  <1>3. q # <<>> => 1 \in DOMAIN q
    BY <1>1
  <1> QED BY <1>1, <1>2, <1>3 DEF Holds, On

-----------------------------------------------------------------------------
(* Who stands where.  Every operation does one of four things to the threads: *)
(* it returns, it makes some ready, it puts the current thread to sleep as    *)
(* well, or it gives the CPU away.                                            *)

Ready == {t \in Threads : status[t] = "READY"}
AtLock(l) == {t \in Threads : Blocked(t, {"Acquire", "Reacquire"}) /\ pc[t].lock = l}
AtCond(c) == {t \in Threads : Blocked(t, {"Wait"}) /\ pc[t].cond = c}
AtSem(s) == {t \in Threads : Blocked(t, {"P"}) /\ pc[t].sem = s}

ReadyListOK == Holds(readyList, Ready)
LockQueuesOK == \A l \in Locks : Holds(lockQueue[l], AtLock(l))
CondQueuesOK == \A c \in Conds : Holds(condQueue[c], AtCond(c))
SemQueuesOK == \A s \in Sems : Holds(semQueue[s], AtSem(s))

\* The thread that Scheduler::Run is going to delete has finished, and a finished thread does
\* not come back: so no queue loses it.
Endings == /\ threadToBeDestroyed # NoThread => pc[threadToBeDestroyed] = Finished
           /\ \A t \in Threads : pc[t] = Finished => status[t] = "BLOCKED"

OnlyTheCurrent == \A t \in Threads : status[t] = "RUNNING" => currentThread = t

Places == ReadyListOK /\ LockQueuesOK /\ CondQueuesOK /\ SemQueuesOK /\ Endings /\ OnlyTheCurrent

\* An operation returns, or goes on elsewhere, without a sleep.
LEMMA ReturnMoves ==
    ASSUME TypeOK, Running, NEW p, pc' = [pc EXCEPT ![me] = p], UNCHANGED status
    PROVE  /\ Ready' = Ready
           /\ \A l : AtLock(l)' = AtLock(l)
           /\ \A c : AtCond(c)' = AtCond(c)
           /\ \A s : AtSem(s)' = AtSem(s)
  <1>1. /\ \A t \in Threads : status[t] = "BLOCKED" => pc'[t] = pc[t]
        /\ status' = status
    BY DEF TypeOK, Running, me
  <1> QED BY <1>1 DEF Ready, AtLock, AtCond, AtSem, Blocked

\* Some are made ready.
LEMMA WakeMoves ==
    ASSUME TypeOK, NEW ts, ReadyToRun(ts), UNCHANGED pc, Members(ts) \subseteq Threads
    PROVE  /\ Ready' = Ready \cup Members(ts)
           /\ \A l : AtLock(l)' = AtLock(l) \ Members(ts)
           /\ \A c : AtCond(c)' = AtCond(c) \ Members(ts)
           /\ \A s : AtSem(s)' = AtSem(s) \ Members(ts)
  <1>1. /\ \A t \in Threads : status'[t] = IF t \in Members(ts) THEN "READY" ELSE status[t]
        /\ pc' = pc
    BY FewMembers DEF ReadyToRun
  <1> QED BY <1>1 DEF Ready, AtLock, AtCond, AtSem, Blocked

\* The current thread sleeps at p, after it has made some ready.
LEMMA SleepMoves ==
    ASSUME TypeOK, Running, NEW p, NEW ts, SleepAt(p, ts),
           Members(ts) \subseteq Threads \ {me}
    PROVE  /\ Ready' = Ready \cup Members(ts)
           /\ \A l : AtLock(l)' = (AtLock(l) \ Members(ts)) \cup
                        IF p.at \in {"Acquire", "Reacquire"} /\ p.lock = l THEN {me} ELSE {}
           /\ \A c : AtCond(c)' = (AtCond(c) \ Members(ts)) \cup
                        IF p.at = "Wait" /\ p.cond = c THEN {me} ELSE {}
           /\ \A s : AtSem(s)' = (AtSem(s) \ Members(ts)) \cup
                        IF p.at = "P" /\ p.sem = s THEN {me} ELSE {}
  <1>1. /\ \A t \in Threads : status'[t] = IF t = me THEN "BLOCKED"
                                           ELSE IF t \in Members(ts) THEN "READY" ELSE status[t]
        /\ \A t \in Threads : pc'[t] = IF t = me THEN p ELSE pc[t]
    BY FewMembers DEF SleepAt, TypeOK
  <1>2. me \in Threads /\ status[me] = "RUNNING"
    BY DEF TypeOK, Running, me
  <1> QED BY <1>1, <1>2 DEF Ready, AtLock, AtCond, AtSem, Blocked

\* The CPU goes to the first thread of the ready list: the one that has finished, if one is
\* deleted, slept in no queue.
LEMMA SwitchMoves ==
    ASSUME TypeOK, Places, readyList # <<>>, Switch(Head(readyList)),
           \/ ~Running /\ status' = [status EXCEPT ![Head(readyList)] = "RUNNING"]
           \/ /\ Running
              /\ status' = [status EXCEPT ![me] = "READY", ![Head(readyList)] = "RUNNING"]
    PROVE  /\ Head(readyList) \in Ready
           /\ Ready' = (Ready \ {Head(readyList)}) \cup IF Running THEN {me} ELSE {}
           /\ \A l : AtLock(l)' = AtLock(l)
           /\ \A c : AtCond(c)' = AtCond(c)
           /\ \A s : AtSem(s)' = AtSem(s)
           /\ Endings' /\ OnlyTheCurrent'
  <1> PICK next : next = Head(readyList)
    OBVIOUS
  <1>1. next \in Ready
    BY TailHolds DEF Places, ReadyListOK
  <1>2. /\ me \in Threads /\ next \in Threads /\ status[next] = "READY"
        /\ next # me \/ ~Running
    BY <1>1 DEF TypeOK, Running, me, Ready
  <1>3. \A t \in Threads : status'[t] = IF t = next THEN "RUNNING"
                                        ELSE IF Running /\ t = me THEN "READY" ELSE status[t]
    BY <1>2 DEF TypeOK
  <1>4. \A t \in Threads : \/ pc'[t] = pc[t]
                           \/ t = next /\ pc'[t] = Run
                           \/ pc[t] = Finished /\ status[t] = "BLOCKED" /\ pc'[t] = Deleted
    BY <1>2, SynchAssumption DEF Switch, TypeOK, Places, Endings
  <1>5. \A t \in Threads : status'[t] = "BLOCKED" <=> status[t] = "BLOCKED"
    BY <1>2, <1>3 DEF Running
  <1>6. Ready' = (Ready \ {next}) \cup IF Running THEN {me} ELSE {}
    BY <1>2, <1>3 DEF Ready
  <1>7. \A t \in Threads : status[t] = "BLOCKED" =>
           \/ pc'[t] = pc[t]
           \/ pc[t].at = "Finished" /\ pc'[t].at = "Deleted"
    BY <1>2, <1>4 DEF Finished, Deleted
  <1>8. /\ \A l : AtLock(l)' = AtLock(l)
        /\ \A c : AtCond(c)' = AtCond(c)
        /\ \A s : AtSem(s)' = AtSem(s)
    BY <1>5, <1>7 DEF AtLock, AtCond, AtSem, Blocked
  <1>9. Endings'
    <2>1. threadToBeDestroyed' \in {threadToBeDestroyed, NoThread}
      BY DEF Switch
    <2>2. ASSUME threadToBeDestroyed' # NoThread PROVE pc'[threadToBeDestroyed'] = Finished
      <3>1. threadToBeDestroyed' = threadToBeDestroyed /\ pc[next] = New /\ pc' = [pc EXCEPT ![next] = Run]
        BY <2>2 DEF Switch
      <3>2. pc[threadToBeDestroyed] = Finished /\ threadToBeDestroyed # next
        BY <2>2, <3>1, <1>2 DEF Places, Endings, New, Finished
      <3> QED BY <3>1, <3>2, <1>2 DEF TypeOK
    <2>3. ASSUME NEW t \in Threads, pc'[t] = Finished PROVE status'[t] = "BLOCKED"
      <3>1. pc[t] = Finished
        BY <1>4, <2>3 DEF Finished, Run, Deleted
      <3> QED BY <3>1, <1>5 DEF Places, Endings
    <2> QED BY <2>2, <2>3 DEF Endings
  <1>10. OnlyTheCurrent'
    <2>1. currentThread' = next
      BY DEF Switch
    <2> QED BY <1>2, <1>3, <2>1 DEF OnlyTheCurrent, Places, Running, me
  <1> QED BY <1>1, <1>6, <1>8, <1>9, <1>10

-----------------------------------------------------------------------------
(* Types *)

LEMMA PcTypes ==
    /\ New \in Pc /\ Run \in Pc /\ Finished \in Pc /\ Deleted \in Pc
    /\ \A s \in Sems : [at |-> "P", sem |-> s] \in Pc
    /\ \A l \in Locks : [at |-> "Acquire", lock |-> l] \in Pc /\ [at |-> "Reacquire", lock |-> l] \in Pc
    /\ \A c \in Conds, l \in Locks : /\ [at |-> "Wait", cond |-> c, lock |-> l] \in Pc
                                     /\ [at |-> "Broadcast", cond |-> c, lock |-> l] \in Pc
  BY DEF Pc

LEMMA PcFields ==
    ASSUME NEW p \in Pc
    PROVE  /\ p.at = "P" => p.sem \in Sems /\ p = [at |-> "P", sem |-> p.sem]
           /\ p.at \in {"Acquire", "Reacquire"} => p.lock \in Locks
           /\ p.at \in {"Wait", "Broadcast"} => p.lock \in Locks /\ p.cond \in Conds
           /\ p.at = "New" => p = New
           /\ p.at = "Run" => p = Run
           /\ p.at = "Finished" => p = Finished
           /\ p.at = "Deleted" => p = Deleted
  BY DEF Pc, New, Run, Finished, Deleted

LEMMA HeirFew ==
    ASSUME TypeOK, NEW l \in Locks
    PROVE  Few(Heir(l)) /\ Members(Heir(l)) \subseteq Threads
  <1>1. lockQueue[l] \in Seq(Threads)
    BY DEF TypeOK
  <1>2. CASE lockOwner[l] # me \/ lockQueue[l] = <<>>
    BY <1>2, FewMembers DEF Heir
  <1>3. CASE lockOwner[l] = me /\ lockQueue[l] # <<>>
    <2>1. Heir(l) = <<Head(lockQueue[l])>> /\ Head(lockQueue[l]) \in Threads
      BY <1>1, <1>3, HeadTailProperties DEF Heir
    <2> QED BY <2>1, FewMembers
  <1> QED BY <1>2, <1>3

LEMMA FirstFew ==
    ASSUME TypeOK, NEW s \in Sems
    PROVE  Few(FirstOf(s)) /\ Members(FirstOf(s)) \subseteq Threads
  <1>1. semQueue[s] \in Seq(Threads)
    BY DEF TypeOK
  <1>2. CASE semQueue[s] = <<>>
    BY <1>2, FewMembers DEF FirstOf
  <1>3. CASE semQueue[s] # <<>>
    <2>1. FirstOf(s) = <<Head(semQueue[s])>> /\ Head(semQueue[s]) \in Threads
      BY <1>1, <1>3, HeadTailProperties DEF FirstOf
    <2> QED BY <2>1, FewMembers
  <1> QED BY <1>2, <1>3

LEMMA FewSeq ==
    ASSUME NEW ts, Few(ts), NEW q \in Seq(Threads)
    PROVE  q \o ts \in Seq(Threads)
  <1>1. <<>> \in Seq(Threads) /\ \A x \in Threads : <<x>> \in Seq(Threads)
    BY EmptySeq
  <1>2. ts \in Seq(Threads)
    BY <1>1 DEF Few
  <1> QED BY <1>2, ConcatProperties

\* The five variables of the scheduler keep their types.
ThreadTypes ==
    /\ currentThread \in Threads
    /\ readyList \in Seq(Threads)
    /\ status \in [Threads -> {"JUST_CREATED", "RUNNING", "READY", "BLOCKED"}]
    /\ pc \in [Threads -> Pc]
    /\ threadToBeDestroyed \in Threads \cup {NoThread}
LockTypes ==
    /\ lockStatus \in [Locks -> {"FREE", "BUSY"}]
    /\ lockOwner \in [Locks -> Threads \cup {NoThread}]
    /\ lockQueue \in [Locks -> Seq(Threads)]
CondTypes ==
    /\ waitingLock \in [Conds -> Locks \cup {NoLock}]
    /\ condQueue \in [Conds -> Seq(Threads)]
SemTypes ==
    /\ value \in [Sems -> Nat]
    /\ semQueue \in [Sems -> Seq(Threads)]

LEMMA TypeParts == TypeOK <=> ThreadTypes /\ LockTypes /\ CondTypes /\ SemTypes
  BY DEF TypeOK, ThreadTypes, LockTypes, CondTypes, SemTypes

LEMMA SleepTypes ==
    ASSUME ThreadTypes, NEW p \in Pc, NEW ts, Few(ts), SleepAt(p, ts),
           currentThread' = currentThread, threadToBeDestroyed' \in Threads \cup {NoThread}
    PROVE  ThreadTypes'
  BY FewSeq DEF ThreadTypes, SleepAt, me

LEMMA WakeTypes ==
    ASSUME ThreadTypes, NEW ts, Few(ts), ReadyToRun(ts), pc' \in [Threads -> Pc],
           UNCHANGED <<currentThread, threadToBeDestroyed>>
    PROVE  ThreadTypes'
  BY FewSeq DEF ThreadTypes, ReadyToRun

LEMMA ReturnTypes ==
    ASSUME ThreadTypes, NEW p \in Pc, pc' = [pc EXCEPT ![me] = p],
           UNCHANGED <<currentThread, readyList, status, threadToBeDestroyed>>
    PROVE  ThreadTypes'
  BY DEF ThreadTypes, me

LEMMA PassOnTypes ==
    ASSUME ThreadTypes, LockTypes, NEW l \in Locks, PassOn(l)
    PROVE  LockTypes'
  <1>1. lockQueue[l] \in Seq(Threads)
    BY DEF LockTypes
  <1>2. CASE lockQueue[l] # <<>>
    <2> PICK h, q : h = Head(lockQueue[l]) /\ q = Tail(lockQueue[l])
      OBVIOUS
    <2>1. h \in Threads /\ q \in Seq(Threads)
      BY <1>1, <1>2, HeadTailProperties
    <2>2. \/ UNCHANGED lockVars
          \/ /\ lockOwner' = [lockOwner EXCEPT ![l] = h]
             /\ lockQueue' = [lockQueue EXCEPT ![l] = q]
             /\ UNCHANGED lockStatus
      BY <1>2 DEF PassOn
    <2> QED BY <2>1, <2>2 DEF LockTypes, lockVars
  <1>3. CASE lockQueue[l] = <<>>
    BY <1>3 DEF LockTypes, PassOn, lockVars
  <1> QED BY <1>2, <1>3

LEMMA TryAcquireTypes ==
    ASSUME ThreadTypes, LockTypes, NEW l \in Locks, NEW asleep \in {"Acquire", "Reacquire"},
           TryAcquire(l, asleep), UNCHANGED <<currentThread, threadToBeDestroyed>>
    PROVE  ThreadTypes' /\ LockTypes'
  <1>1. /\ lockQueue[l] \in Seq(Threads) /\ me \in Threads
        /\ Run \in Pc /\ [at |-> asleep, lock |-> l] \in Pc /\ Few(<<>>)
    BY PcTypes, FewMembers DEF LockTypes, ThreadTypes, me
  <1>2. Append(lockQueue[l], me) \in Seq(Threads)
    BY <1>1, AppendProperties
  <1>3. LockTypes'
    BY <1>1, <1>2 DEF TryAcquire, LockTypes, lockVars
  <1>4. ASSUME lockOwner[l] # me /\ lockStatus[l] = "BUSY" PROVE ThreadTypes'
    BY <1>1, <1>4, SleepTypes DEF TryAcquire, ThreadTypes
  <1>5. ASSUME ~(lockOwner[l] # me /\ lockStatus[l] = "BUSY") PROVE ThreadTypes'
    <2>1. pc' = [pc EXCEPT ![me] = Run] /\ UNCHANGED <<readyList, status>>
      BY <1>5 DEF TryAcquire
    <2> QED BY <1>1, <2>1, ReturnTypes
  <1> QED BY <1>3, <1>4, <1>5

LEMMA TryPTypes ==
    ASSUME ThreadTypes, SemTypes, NEW s \in Sems, TryP(s),
           UNCHANGED <<currentThread, threadToBeDestroyed>>
    PROVE  ThreadTypes' /\ SemTypes'
  <1>1. /\ semQueue[s] \in Seq(Threads) /\ me \in Threads /\ value[s] \in Nat
        /\ Run \in Pc /\ [at |-> "P", sem |-> s] \in Pc /\ Few(<<>>)
    BY PcTypes, FewMembers DEF SemTypes, ThreadTypes, me
  <1>2. Append(semQueue[s], me) \in Seq(Threads)
    BY <1>1, AppendProperties
  <1>3. SemTypes'
    <2>1. CASE value[s] = 0
      <3> PICK q : q = Append(semQueue[s], me)
        OBVIOUS
      <3>1. value' = value /\ semQueue' = [semQueue EXCEPT ![s] = q]
        BY <2>1 DEF TryP
      <3> QED BY <1>2, <3>1 DEF SemTypes
    <2>2. CASE value[s] # 0
      <3>1. value' = [value EXCEPT ![s] = @ - 1] /\ semQueue' = semQueue /\ value[s] - 1 \in Nat
        BY <1>1, <2>2 DEF TryP
      <3> QED BY <3>1 DEF SemTypes
    <2> QED BY <2>1, <2>2
  <1>4. ASSUME value[s] = 0 PROVE ThreadTypes'
    BY <1>1, <1>4, SleepTypes DEF TryP, ThreadTypes
  <1>5. ASSUME value[s] # 0 PROVE ThreadTypes'
    <2>1. pc' = [pc EXCEPT ![me] = Run] /\ UNCHANGED <<readyList, status>>
      BY <1>5 DEF TryP
    <2> QED BY <1>1, <2>1, ReturnTypes
  <1> QED BY <1>3, <1>4, <1>5

LEMMA WakeOneTypes ==
    ASSUME ThreadTypes, CondTypes, NEW c \in Conds, NEW l \in Locks, Wake(c, l),
           pc' \in [Threads -> Pc], UNCHANGED <<currentThread, threadToBeDestroyed>>
    PROVE  ThreadTypes' /\ CondTypes'
  <1>1. condQueue[c] \in Seq(Threads) /\ condQueue[c] # <<>>
    BY DEF CondTypes, Wake
  <1>2. Head(condQueue[c]) \in Threads /\ Tail(condQueue[c]) \in Seq(Threads)
    BY <1>1, HeadTailProperties
  <1>3. ThreadTypes'
    BY <1>2, FewMembers, WakeTypes DEF Wake
  <1>4. CondTypes'
    BY <1>2 DEF Wake, CondTypes
  <1> QED BY <1>3, <1>4

LEMMA TypesKept == TypeOK /\ [Next]_vars => TypeOK'
  <1> SUFFICES ASSUME TypeOK, [Next]_vars PROVE TypeOK'
    OBVIOUS
  <1>0. ThreadTypes /\ LockTypes /\ CondTypes /\ SemTypes /\ me \in Threads /\ Few(<<>>)
    BY TypeParts, FewMembers DEF ThreadTypes, me
  <1> SUFFICES ThreadTypes' /\ LockTypes' /\ CondTypes' /\ SemTypes'
    BY TypeParts, PTL
  <1>s. /\ UNCHANGED lockVars => LockTypes'
        /\ UNCHANGED condVars => CondTypes'
        /\ UNCHANGED semVars => SemTypes'
    BY <1>0 DEF LockTypes, CondTypes, SemTypes, lockVars, condVars, semVars
  <1>1. ASSUME Dispatch \/ Yield PROVE ThreadTypes'
    <2> PICK next, rest : next = Head(readyList) /\ rest = Tail(readyList)
      OBVIOUS
    <2>1. /\ readyList # <<>> /\ next \in Threads /\ rest \in Seq(Threads)
          /\ Append(rest, me) \in Seq(Threads)
      BY <1>0, <1>1, HeadTailProperties, AppendProperties DEF ThreadTypes, Dispatch, Yield
    <2>2. /\ readyList' \in Seq(Threads)
          /\ status' \in [Threads -> {"JUST_CREATED", "RUNNING", "READY", "BLOCKED"}]
      BY <1>0, <1>1, <2>1 DEF ThreadTypes, Dispatch, Yield
    <2>3. Switch(next)
      BY <1>1 DEF Dispatch, Yield
    <2> QED BY <1>0, <2>1, <2>2, <2>3, PcTypes DEF ThreadTypes, Switch
  <1>2. ASSUME NEW t \in Threads, Fork(t) PROVE ThreadTypes'
    BY <1>0, <1>2, WakeTypes, FewMembers DEF Fork, ThreadTypes
  <1>3. ASSUME Finish PROVE ThreadTypes'
    BY <1>0, <1>3, SleepTypes, PcTypes DEF Finish
  <1>4. ASSUME NEW s \in Sems, P(s) \/ ResumeP(s) PROVE ThreadTypes' /\ SemTypes'
    BY <1>0, <1>4, TryPTypes DEF P, ResumeP
  <1>5. ASSUME NEW s \in Sems, V(s) PROVE ThreadTypes' /\ SemTypes'
    <2>1. Few(FirstOf(s))
      BY FirstFew
    <2>2. ThreadTypes'
      BY <1>0, <1>5, <2>1, WakeTypes DEF V, ThreadTypes
    <2>3. semQueue[s] # <<>> => Tail(semQueue[s]) \in Seq(Threads)
      BY <1>0, HeadTailProperties DEF SemTypes
    <2>4. PICK q : q = Tail(semQueue[s])
      OBVIOUS
    <2>5. semQueue' = [semQueue EXCEPT ![s] = IF semQueue[s] = <<>> THEN @ ELSE q]
      BY <1>5, <2>4 DEF V, FirstOf
    <2>6. semQueue' \in [Sems -> Seq(Threads)]
      BY <1>0, <2>3, <2>4, <2>5 DEF SemTypes
    <2>7. value[s] + 1 \in Nat /\ value' = [value EXCEPT ![s] = @ + 1]
      BY <1>0, <1>5 DEF SemTypes, V
    <2> QED BY <1>0, <2>2, <2>6, <2>7 DEF SemTypes
  <1>6. ASSUME NEW l \in Locks, Acquire(l) PROVE ThreadTypes' /\ LockTypes'
    BY <1>0, <1>6, TryAcquireTypes DEF Acquire
  <1>7. ASSUME NEW l \in Locks, Release(l) PROVE ThreadTypes' /\ LockTypes'
    BY <1>0, <1>7, PassOnTypes, HeirFew, WakeTypes DEF Release, ThreadTypes
  <1>8. ASSUME AcquireReturns PROVE ThreadTypes'
    BY <1>0, <1>8, ReturnTypes, PcTypes DEF AcquireReturns
  <1>9. ASSUME WaitReacquires PROVE ThreadTypes' /\ LockTypes'
    <2>1. pc[me].lock \in Locks
      BY <1>0, <1>9, PcFields DEF WaitReacquires, ThreadTypes
    <2> QED BY <1>0, <1>9, <2>1, TryAcquireTypes DEF WaitReacquires
  <1>10. ASSUME NEW c \in Conds, NEW l \in Locks, Wait(c, l) PROVE ThreadTypes' /\ LockTypes' /\ CondTypes'
    <2>1. ThreadTypes'
      BY <1>0, <1>10, SleepTypes, HeirFew, PcTypes DEF Wait, ThreadTypes
    <2>2. LockTypes'
      BY <1>0, <1>10, PassOnTypes DEF Wait
    <2>3. Append(condQueue[c], me) \in Seq(Threads)
      BY <1>0, AppendProperties DEF CondTypes
    <2> PICK q : q = Append(condQueue[c], me)
      OBVIOUS
    <2>4. condQueue' = [condQueue EXCEPT ![c] = q] /\ waitingLock' = [waitingLock EXCEPT ![c] = l]
      BY <1>10 DEF Wait
    <2>5. CondTypes'
      BY <1>0, <2>3, <2>4 DEF CondTypes
    <2> QED BY <2>1, <2>2, <2>5
  <1>11. ASSUME NEW c \in Conds, NEW l \in Locks, Signal(c, l) PROVE ThreadTypes' /\ CondTypes'
    BY <1>0, <1>11, WakeOneTypes DEF Signal, ThreadTypes
  <1>12. ASSUME NEW c \in Conds, NEW l \in Locks, Broadcast(c, l) PROVE ThreadTypes'
    BY <1>0, <1>12, ReturnTypes, PcTypes DEF Broadcast
  <1>13. ASSUME BroadcastLoop PROVE ThreadTypes' /\ CondTypes'
    <2>1. pc[me].lock \in Locks /\ pc[me].cond \in Conds
      BY <1>0, <1>13, PcFields DEF BroadcastLoop, ThreadTypes
    <2>2. CASE Wake(pc[me].cond, pc[me].lock) /\ LoopAgain
      BY <1>0, <1>13, <2>1, <2>2, WakeOneTypes DEF BroadcastLoop, LoopAgain, ThreadTypes
    <2>3. CASE pc' = [pc EXCEPT ![me] = Run] /\ UNCHANGED <<readyList, status, condVars>>
      BY <1>0, <1>13, <1>s, <2>3, ReturnTypes, PcTypes DEF BroadcastLoop
    <2> QED BY <1>13, <2>2, <2>3 DEF BroadcastLoop
  <1>14. ASSUME UNCHANGED vars PROVE ThreadTypes' /\ LockTypes' /\ CondTypes' /\ SemTypes'
    BY <1>0, <1>s, <1>14 DEF vars, threadVars, ThreadTypes
  <1> QED
    BY <1>s, <1>1, <1>2, <1>3, <1>4, <1>5, <1>6, <1>7, <1>8, <1>9, <1>10, <1>11, <1>12, <1>13, <1>14
       DEF Next, Resumes, Dispatch, Yield, Fork, Finish, P, ResumeP, V, Acquire, Release,
           AcquireReturns, WaitReacquires, Wait, Signal, Broadcast, BroadcastLoop

-----------------------------------------------------------------------------
(* Each thread in one place *)

\* A thread sleeps in one queue at most, and one that does not sleep is in none.
LEMMA Apart ==
    ASSUME NEW t \in Threads
    PROVE  /\ status[t] # "BLOCKED" => /\ \A l : t \notin AtLock(l)
                                       /\ \A c : t \notin AtCond(c)
                                       /\ \A s : t \notin AtSem(s)
           /\ status[t] # "READY" => t \notin Ready
           /\ \A l : t \in AtLock(l) => /\ \A k : t \in AtLock(k) => k = l
                                        /\ \A c : t \notin AtCond(c)
                                        /\ \A s : t \notin AtSem(s)
                                        /\ pc[t] # Finished /\ t \notin Ready
           /\ \A c : t \in AtCond(c) => /\ \A l : t \notin AtLock(l)
                                        /\ \A d : t \in AtCond(d) => d = c
                                        /\ \A s : t \notin AtSem(s)
                                        /\ pc[t] # Finished /\ t \notin Ready
           /\ \A s : t \in AtSem(s) => /\ \A l : t \notin AtLock(l)
                                       /\ \A c : t \notin AtCond(c)
                                       /\ \A r : t \in AtSem(r) => r = s
                                       /\ pc[t] # Finished /\ t \notin Ready
  BY DEF AtLock, AtCond, AtSem, Ready, Blocked, Finished

\* How the four moves leave the last two parts of the invariant.
LEMMA ReturnEnds ==
    ASSUME TypeOK, Places, Running, NEW p, p # Finished, pc' = [pc EXCEPT ![me] = p],
           UNCHANGED <<status, currentThread, threadToBeDestroyed>>
    PROVE  Endings' /\ OnlyTheCurrent'
  <1>1. me \in Threads /\ status[me] = "RUNNING" /\ pc[me] # Finished
    BY DEF TypeOK, Running, Places, Endings, me
  <1> QED BY <1>1, SynchAssumption DEF TypeOK, Places, Endings, OnlyTheCurrent

LEMMA WakeEnds ==
    ASSUME TypeOK, Places, NEW ts, ReadyToRun(ts), \A t \in Members(ts) : pc[t] # Finished,
           UNCHANGED <<pc, currentThread, threadToBeDestroyed>>
    PROVE  Endings' /\ OnlyTheCurrent'
  <1>1. \A t \in Threads : status'[t] = IF t \in Members(ts) THEN "READY" ELSE status[t]
    BY FewMembers DEF ReadyToRun
  <1> QED BY <1>1 DEF Places, Endings, OnlyTheCurrent

LEMMA SleepEnds ==
    ASSUME TypeOK, Places, Running, NEW p, NEW ts, SleepAt(p, ts),
           \A t \in Members(ts) : pc[t] # Finished,
           UNCHANGED currentThread,
           \/ p = Finished /\ threadToBeDestroyed' = me
           \/ p # Finished /\ UNCHANGED threadToBeDestroyed
    PROVE  Endings' /\ OnlyTheCurrent'
  <1>1. me \in Threads /\ status[me] = "RUNNING" /\ pc[me] # Finished
    BY DEF TypeOK, Running, Places, Endings, me
  <1>2. /\ \A t \in Threads : status'[t] = IF t = me THEN "BLOCKED"
                                           ELSE IF t \in Members(ts) THEN "READY" ELSE status[t]
        /\ \A t \in Threads : pc'[t] = IF t = me THEN p ELSE pc[t]
    BY FewMembers DEF SleepAt, TypeOK
  <1> QED BY <1>1, <1>2, SynchAssumption DEF TypeOK, Places, Endings, OnlyTheCurrent

\* Whom Release, V and Signal wake stood first in the queue they take it from.
LEMMA HeirStood ==
    ASSUME TypeOK, Places, NEW l \in Locks, PassOn(l)
    PROVE  /\ Few(Heir(l)) /\ Members(Heir(l)) \subseteq AtLock(l)
           /\ \A k \in Locks : Holds(lockQueue'[k], AtLock(k) \ Members(Heir(l)))
  <1>0. \A k \in Locks : Holds(lockQueue[k], AtLock(k))
    BY DEF Places, LockQueuesOK
  <1>1. CASE lockOwner[l] # me \/ lockQueue[l] = <<>>
    <2>1. Members(Heir(l)) = {} /\ Few(Heir(l)) /\ lockQueue' = lockQueue
      BY <1>1, FewMembers DEF Heir, PassOn, lockVars
    <2> QED BY <1>0, <2>1
  <1>2. CASE lockOwner[l] = me /\ lockQueue[l] # <<>>
    <2> PICK h, q : h = Head(lockQueue[l]) /\ q = Tail(lockQueue[l])
      OBVIOUS
    <2>1. h \in AtLock(l) /\ h \in Threads /\ Holds(q, AtLock(l) \ {h})
      BY <1>0, <1>2, TailHolds
    <2>2. Heir(l) = <<h>> /\ lockQueue' = [lockQueue EXCEPT ![l] = q]
      BY <1>2 DEF Heir, PassOn, lockVars
    <2>3. Members(Heir(l)) = {h} /\ Few(Heir(l))
      BY <2>1, <2>2, FewMembers
    <2>4. \A k \in Locks : k # l => AtLock(k) \ {h} = AtLock(k)
      BY <2>1, Apart
    <2>5. \A k \in Locks : lockQueue'[k] = IF k = l THEN q ELSE lockQueue[k]
      BY <2>2 DEF TypeOK
    <2> QED BY <1>0, <2>1, <2>3, <2>4, <2>5
  <1> QED BY <1>1, <1>2

LEMMA FirstStood ==
    ASSUME TypeOK, Places, NEW s \in Sems,
           semQueue' = [semQueue EXCEPT ![s] = IF FirstOf(s) = <<>> THEN @ ELSE Tail(@)]
    PROVE  /\ Few(FirstOf(s)) /\ Members(FirstOf(s)) \subseteq AtSem(s)
           /\ \A r \in Sems : Holds(semQueue'[r], AtSem(r) \ Members(FirstOf(s)))
  <1>0. \A r \in Sems : Holds(semQueue[r], AtSem(r))
    BY DEF Places, SemQueuesOK
  <1>1. CASE semQueue[s] = <<>>
    <2>1. Members(FirstOf(s)) = {} /\ Few(FirstOf(s)) /\ semQueue' = semQueue
      BY <1>1, FewMembers DEF FirstOf, TypeOK
    <2> QED BY <1>0, <2>1
  <1>2. CASE semQueue[s] # <<>>
    <2> PICK h, q : h = Head(semQueue[s]) /\ q = Tail(semQueue[s])
      OBVIOUS
    <2>1. h \in AtSem(s) /\ h \in Threads /\ Holds(q, AtSem(s) \ {h})
      BY <1>0, <1>2, TailHolds
    <2>2. FirstOf(s) = <<h>> /\ semQueue' = [semQueue EXCEPT ![s] = q]
      BY <1>2 DEF FirstOf
    <2>3. Members(FirstOf(s)) = {h} /\ Few(FirstOf(s))
      BY <2>1, <2>2, FewMembers
    <2>4. \A r \in Sems : r # s => AtSem(r) \ {h} = AtSem(r)
      BY <2>1, Apart
    <2>5. \A r \in Sems : semQueue'[r] = IF r = s THEN q ELSE semQueue[r]
      BY <2>2 DEF TypeOK
    <2> QED BY <1>0, <2>1, <2>3, <2>4, <2>5
  <1> QED BY <1>1, <1>2

LEMMA WaiterStood ==
    ASSUME TypeOK, Places, NEW c \in Conds, NEW l \in Locks, Wake(c, l)
    PROVE  /\ Head(condQueue[c]) \in AtCond(c) /\ Head(condQueue[c]) \in Threads
           /\ \A d \in Conds : Holds(condQueue'[d], AtCond(d) \ {Head(condQueue[c])})
  <1>0. \A d \in Conds : Holds(condQueue[d], AtCond(d))
    BY DEF Places, CondQueuesOK
  <1> PICK h, q : h = Head(condQueue[c]) /\ q = Tail(condQueue[c])
    OBVIOUS
  <1>1. h \in AtCond(c) /\ h \in Threads /\ Holds(q, AtCond(c) \ {h})
    BY <1>0, TailHolds DEF Wake
  <1>2. condQueue' = [condQueue EXCEPT ![c] = q]
    BY DEF Wake
  <1>3. \A d \in Conds : d # c => AtCond(d) \ {h} = AtCond(d)
    BY <1>1, Apart
  <1>4. \A d \in Conds : condQueue'[d] = IF d = c THEN q ELSE condQueue[d]
    BY <1>2 DEF TypeOK
  <1> QED BY <1>0, <1>1, <1>3, <1>4

LEMMA ReturnPlaces ==
    ASSUME TypeOK, Places, Running, NEW p, p # Finished, pc' = [pc EXCEPT ![me] = p],
           UNCHANGED <<readyList, status, currentThread, threadToBeDestroyed,
                       lockQueue, condQueue, semQueue>>
    PROVE  Places'
  <1>1. Endings' /\ OnlyTheCurrent'
    BY ReturnEnds
  <1>2. /\ Ready' = Ready
        /\ \A l : AtLock(l)' = AtLock(l)
        /\ \A c : AtCond(c)' = AtCond(c)
        /\ \A s : AtSem(s)' = AtSem(s)
    BY ReturnMoves
  <1> QED BY <1>1, <1>2 DEF Places, ReadyListOK, LockQueuesOK, CondQueuesOK, SemQueuesOK

\* The current thread joins a queue and sleeps: P, Acquire and Finish; Wait wakes an heir as well.
LEMMA SleepPlaces ==
    ASSUME TypeOK, Places, Running, NEW p, NEW ts, SleepAt(p, ts), Few(ts),
           \A t \in Members(ts) : t \in Threads /\ t \notin Ready /\ t # me /\ pc[t] # Finished,
           UNCHANGED currentThread,
           \/ p = Finished /\ threadToBeDestroyed' = me
           \/ p # Finished /\ UNCHANGED threadToBeDestroyed,
           \A l \in Locks : Holds(lockQueue'[l], (AtLock(l) \ Members(ts)) \cup
                               IF p.at \in {"Acquire", "Reacquire"} /\ p.lock = l THEN {me} ELSE {}),
           \A c \in Conds : Holds(condQueue'[c], (AtCond(c) \ Members(ts)) \cup
                               IF p.at = "Wait" /\ p.cond = c THEN {me} ELSE {}),
           \A s \in Sems : Holds(semQueue'[s], (AtSem(s) \ Members(ts)) \cup
                               IF p.at = "P" /\ p.sem = s THEN {me} ELSE {})
    PROVE  Places'
  <1>1. Endings' /\ OnlyTheCurrent'
    BY SleepEnds
  <1>2. /\ Ready' = Ready \cup Members(ts)
        /\ \A l : AtLock(l)' = (AtLock(l) \ Members(ts)) \cup
                        IF p.at \in {"Acquire", "Reacquire"} /\ p.lock = l THEN {me} ELSE {}
        /\ \A c : AtCond(c)' = (AtCond(c) \ Members(ts)) \cup
                        IF p.at = "Wait" /\ p.cond = c THEN {me} ELSE {}
        /\ \A s : AtSem(s)' = (AtSem(s) \ Members(ts)) \cup
                        IF p.at = "P" /\ p.sem = s THEN {me} ELSE {}
    <2>1. Members(ts) \subseteq Threads \ {me}
      OBVIOUS
    <2> QED BY <2>1, SleepMoves
  <1>3. Holds(readyList \o ts, Ready \cup Members(ts))
    BY ConcatHolds DEF Places, ReadyListOK
  <1>4. ReadyListOK'
    BY <1>2, <1>3 DEF SleepAt, ReadyListOK
  <1> QED BY <1>1, <1>2, <1>4 DEF Places, LockQueuesOK, CondQueuesOK, SemQueuesOK

LEMMA WakePlaces ==
    ASSUME TypeOK, Places, NEW ts, ReadyToRun(ts), Few(ts),
           \A t \in Members(ts) : t \in Threads /\ t \notin Ready /\ pc[t] # Finished,
           UNCHANGED <<pc, currentThread, threadToBeDestroyed>>,
           \A l \in Locks : Holds(lockQueue'[l], AtLock(l) \ Members(ts)),
           \A c \in Conds : Holds(condQueue'[c], AtCond(c) \ Members(ts)),
           \A s \in Sems : Holds(semQueue'[s], AtSem(s) \ Members(ts))
    PROVE  Places'
  <1>1. Endings' /\ OnlyTheCurrent'
    BY WakeEnds
  <1>2. /\ Ready' = Ready \cup Members(ts)
        /\ \A l : AtLock(l)' = AtLock(l) \ Members(ts)
        /\ \A c : AtCond(c)' = AtCond(c) \ Members(ts)
        /\ \A s : AtSem(s)' = AtSem(s) \ Members(ts)
    BY WakeMoves
  <1>3. Holds(readyList \o ts, Ready \cup Members(ts))
    BY ConcatHolds DEF Places, ReadyListOK
  <1>4. ReadyListOK'
    BY <1>2, <1>3 DEF ReadyToRun, ReadyListOK
  <1> QED BY <1>1, <1>2, <1>4 DEF Places, LockQueuesOK, CondQueuesOK, SemQueuesOK

LEMMA TryPPlaces ==
    ASSUME TypeOK, Places, Running, NEW s \in Sems, TryP(s),
           UNCHANGED <<currentThread, threadToBeDestroyed, lockVars, condVars>>
    PROVE  Places'
  <1>0. /\ \A l \in Locks : Holds(lockQueue[l], AtLock(l))
        /\ \A c \in Conds : Holds(condQueue[c], AtCond(c))
        /\ \A r \in Sems : Holds(semQueue[r], AtSem(r))
        /\ me \in Threads
        /\ UNCHANGED <<lockQueue, condQueue>>
    BY DEF Places, LockQueuesOK, CondQueuesOK, SemQueuesOK, TypeOK, me, lockVars, condVars
  <1>1. CASE value[s] = 0
    <2> PICK q, p : q = Append(semQueue[s], me) /\ p = [at |-> "P", sem |-> s]
      OBVIOUS
    <2>1. Holds(q, AtSem(s) \cup {me})
      BY <1>0, AppendHolds, Apart DEF Running
    <2>2. \A r \in Sems : semQueue'[r] = IF r = s THEN q ELSE semQueue[r]
      BY <1>1 DEF TryP, TypeOK
    <2>3. SleepAt(p, <<>>)
      BY <1>1 DEF TryP
    <2>4. p.at = "P" /\ p.sem = s /\ p # Finished /\ Members(<<>>) = {} /\ Few(<<>>)
      BY FewMembers DEF Finished
    <2>5. \A r \in Sems : Holds(semQueue'[r], (AtSem(r) \ Members(<<>>)) \cup
                                    IF p.at = "P" /\ p.sem = r THEN {me} ELSE {})
      BY <1>0, <2>1, <2>2, <2>4
    <2>6. /\ \A l \in Locks : Holds(lockQueue'[l], (AtLock(l) \ Members(<<>>)) \cup
                         IF p.at \in {"Acquire", "Reacquire"} /\ p.lock = l THEN {me} ELSE {})
          /\ \A c \in Conds : Holds(condQueue'[c], (AtCond(c) \ Members(<<>>)) \cup
                         IF p.at = "Wait" /\ p.cond = c THEN {me} ELSE {})
      BY <1>0, <2>4
    <2>7. \A t \in Members(<<>>) : t \in Threads /\ t \notin Ready /\ t # me /\ pc[t] # Finished
      BY <2>4
    <2> HIDE DEF Running
    <2> QED BY <2>3, <2>4, <2>5, <2>6, <2>7, SleepPlaces
  <1>2. CASE value[s] # 0
    BY <1>0, <1>2, ReturnPlaces DEF TryP, Run, Finished
  <1> QED BY <1>1, <1>2

LEMMA TryAcquirePlaces ==
    ASSUME TypeOK, Places, Running, NEW l \in Locks, NEW asleep \in {"Acquire", "Reacquire"},
           TryAcquire(l, asleep),
           UNCHANGED <<currentThread, threadToBeDestroyed, condVars, semVars>>
    PROVE  Places'
  <1>0. /\ \A k \in Locks : Holds(lockQueue[k], AtLock(k))
        /\ \A c \in Conds : Holds(condQueue[c], AtCond(c))
        /\ \A r \in Sems : Holds(semQueue[r], AtSem(r))
        /\ me \in Threads
        /\ UNCHANGED <<semQueue, condQueue>>
    BY DEF Places, LockQueuesOK, CondQueuesOK, SemQueuesOK, TypeOK, me, semVars, condVars
  <1>1. CASE lockOwner[l] # me /\ lockStatus[l] = "BUSY"
    <2> PICK q, p : q = Append(lockQueue[l], me) /\ p = [at |-> asleep, lock |-> l]
      OBVIOUS
    <2>1. Holds(q, AtLock(l) \cup {me})
      BY <1>0, AppendHolds, Apart DEF Running
    <2>2. \A k \in Locks : lockQueue'[k] = IF k = l THEN q ELSE lockQueue[k]
      BY <1>1 DEF TryAcquire, TypeOK
    <2>3. SleepAt(p, <<>>)
      BY <1>1 DEF TryAcquire
    <2>4. /\ p.at \in {"Acquire", "Reacquire"} /\ p.lock = l /\ p # Finished
          /\ Members(<<>>) = {} /\ Few(<<>>)
      BY FewMembers DEF Finished
    <2>5. \A k \in Locks : Holds(lockQueue'[k], (AtLock(k) \ Members(<<>>)) \cup
                         IF p.at \in {"Acquire", "Reacquire"} /\ p.lock = k THEN {me} ELSE {})
      BY <1>0, <2>1, <2>2, <2>4
    <2>6. /\ \A r \in Sems : Holds(semQueue'[r], (AtSem(r) \ Members(<<>>)) \cup
                                    IF p.at = "P" /\ p.sem = r THEN {me} ELSE {})
          /\ \A c \in Conds : Holds(condQueue'[c], (AtCond(c) \ Members(<<>>)) \cup
                         IF p.at = "Wait" /\ p.cond = c THEN {me} ELSE {})
      BY <1>0, <2>4
    <2>7. \A t \in Members(<<>>) : t \in Threads /\ t \notin Ready /\ t # me /\ pc[t] # Finished
      BY <2>4
    <2> QED BY <2>3, <2>4, <2>5, <2>6, <2>7, SleepPlaces
  <1>2. CASE ~(lockOwner[l] # me /\ lockStatus[l] = "BUSY")
    <2>1. pc' = [pc EXCEPT ![me] = Run] /\ UNCHANGED <<readyList, status, lockQueue>> /\ Run # Finished
      BY <1>2 DEF TryAcquire, lockVars, Run, Finished
    <2> QED BY <1>0, <2>1, ReturnPlaces
  <1> QED BY <1>1, <1>2

LEMMA WakeOnePlaces ==
    ASSUME TypeOK, Places, NEW c \in Conds, NEW l \in Locks, Wake(c, l),
           UNCHANGED <<pc, currentThread, threadToBeDestroyed, lockVars, semVars>>
    PROVE  Places'
  <1> PICK h : h = Head(condQueue[c])
    OBVIOUS
  <1>1. /\ h \in AtCond(c) /\ h \in Threads
        /\ \A d \in Conds : Holds(condQueue'[d], AtCond(d) \ {h})
    BY WaiterStood
  <1>2. Members(<<h>>) = {h} /\ Few(<<h>>)
    BY <1>1, FewMembers
  <1>3. /\ \A k \in Locks : Holds(lockQueue[k], AtLock(k) \ {h})
        /\ \A s \in Sems : Holds(semQueue[s], AtSem(s) \ {h})
    <2>1. (\A k : AtLock(k) \ {h} = AtLock(k)) /\ (\A s : AtSem(s) \ {h} = AtSem(s))
      BY <1>1, Apart
    <2> QED BY <2>1 DEF Places, LockQueuesOK, SemQueuesOK
  <1>4. ReadyToRun(<<h>>) /\ UNCHANGED <<lockQueue, semQueue>>
    BY DEF Wake, lockVars, semVars
  <1>5. h \notin Ready /\ pc[h] # Finished
    BY <1>1, Apart
  <1> QED BY <1>1, <1>2, <1>3, <1>4, <1>5, WakePlaces

LEMMA SwitchPlaces ==
    ASSUME TypeOK, Places, Dispatch \/ Yield
    PROVE  Places'
  <1> PICK next, rest : next = Head(readyList) /\ rest = Tail(readyList)
    OBVIOUS
  <1>0. /\ readyList # <<>> /\ Switch(next) /\ me \in Threads
        /\ UNCHANGED <<lockQueue, condQueue, semQueue>>
    BY DEF Dispatch, Yield, lockVars, condVars, semVars, TypeOK, me
  <1>1. \/ ~Running /\ status' = [status EXCEPT ![next] = "RUNNING"] /\ readyList' = rest
        \/ /\ Running /\ status' = [status EXCEPT ![me] = "READY", ![next] = "RUNNING"]
           /\ readyList' = Append(rest, me)
    BY DEF Dispatch, Yield, InterruptsEnabled
  <1>2. /\ Ready' = (Ready \ {next}) \cup IF Running THEN {me} ELSE {}
        /\ \A l : AtLock(l)' = AtLock(l)
        /\ \A c : AtCond(c)' = AtCond(c)
        /\ \A s : AtSem(s)' = AtSem(s)
        /\ Endings' /\ OnlyTheCurrent'
    BY <1>0, <1>1, SwitchMoves
  <1>3. Holds(rest, Ready \ {next})
    BY <1>0, TailHolds DEF Places, ReadyListOK
  <1>4. Running => me \notin Ready \ {next}
    BY DEF Ready, Running
  <1>5. Running => Holds(Append(rest, me), (Ready \ {next}) \cup {me})
    BY <1>0, <1>3, <1>4, AppendHolds
  <1>6. ReadyListOK'
    BY <1>1, <1>2, <1>3, <1>5 DEF ReadyListOK
  <1> QED BY <1>0, <1>2, <1>6 DEF Places, LockQueuesOK, CondQueuesOK, SemQueuesOK

LEMMA PlacesKept ==
    ASSUME TypeOK, Places, [Next]_vars
    PROVE  Places'
  <1>0. /\ \A l \in Locks : Holds(lockQueue[l], AtLock(l))
        /\ \A c \in Conds : Holds(condQueue[c], AtCond(c))
        /\ \A s \in Sems : Holds(semQueue[s], AtSem(s))
        /\ me \in Threads /\ Members(<<>>) = {} /\ Few(<<>>)
    BY FewMembers DEF Places, LockQueuesOK, CondQueuesOK, SemQueuesOK, TypeOK, me
  <1>1. ASSUME NEW t \in Threads, Fork(t) PROVE Places'
    <2>1. ReadyToRun(<<t>>) /\ status[t] = "JUST_CREATED"
      BY <1>1 DEF Fork
    <2>2. Members(<<t>>) = {t} /\ Few(<<t>>) /\ t \notin Ready /\ pc[t] # Finished
      BY <2>1, FewMembers, Apart DEF Places, Endings
    <2>3. /\ \A l : AtLock(l) \ {t} = AtLock(l)
          /\ \A c : AtCond(c) \ {t} = AtCond(c)
          /\ \A s : AtSem(s) \ {t} = AtSem(s)
      BY <2>1, Apart
    <2>4. /\ \A l \in Locks : Holds(lockQueue'[l], AtLock(l) \ {t})
          /\ \A c \in Conds : Holds(condQueue'[c], AtCond(c) \ {t})
          /\ \A s \in Sems : Holds(semQueue'[s], AtSem(s) \ {t})
      BY <1>0, <1>1, <2>3 DEF Fork, lockVars, condVars, semVars
    <2> QED BY <1>1, <2>1, <2>2, <2>4, WakePlaces DEF Fork
  <1>2. ASSUME Finish PROVE Places'
    <2>1. /\ Running /\ SleepAt(Finished, <<>>) /\ threadToBeDestroyed' = me
          /\ UNCHANGED <<currentThread, lockQueue, condQueue, semQueue>>
      BY <1>2 DEF Finish, InProgram, lockVars, condVars, semVars
    <2>2. Finished.at \notin {"Acquire", "Reacquire", "Wait", "P"}
      BY DEF Finished
    <2>3. \A t \in Members(<<>>) : t \in Threads /\ t \notin Ready /\ t # me /\ pc[t] # Finished
      BY <1>0
    <2>4. /\ \A l \in Locks : Holds(lockQueue'[l], (AtLock(l) \ Members(<<>>)) \cup
               IF Finished.at \in {"Acquire", "Reacquire"} /\ Finished.lock = l THEN {me} ELSE {})
          /\ \A c \in Conds : Holds(condQueue'[c], (AtCond(c) \ Members(<<>>)) \cup
               IF Finished.at = "Wait" /\ Finished.cond = c THEN {me} ELSE {})
          /\ \A s \in Sems : Holds(semQueue'[s], (AtSem(s) \ Members(<<>>)) \cup
               IF Finished.at = "P" /\ Finished.sem = s THEN {me} ELSE {})
      BY <1>0, <2>1, <2>2
    <2> QED BY <1>0, <2>1, <2>3, <2>4, SleepPlaces
  <1>3. ASSUME NEW s \in Sems, P(s) \/ ResumeP(s) PROVE Places'
    BY <1>3, TryPPlaces DEF P, ResumeP, InProgram
  <1>4. ASSUME NEW s \in Sems, V(s) PROVE Places'
    <2> PICK ts : ts = FirstOf(s)
      OBVIOUS
    <2>1. /\ ReadyToRun(ts) /\ UNCHANGED <<pc, currentThread, threadToBeDestroyed, lockQueue, condQueue>>
          /\ semQueue' = [semQueue EXCEPT ![s] = IF FirstOf(s) = <<>> THEN @ ELSE Tail(@)]
      BY <1>4 DEF V, lockVars, condVars
    <2>2. /\ Few(ts) /\ Members(ts) \subseteq AtSem(s)
          /\ \A r \in Sems : Holds(semQueue'[r], AtSem(r) \ Members(ts))
      BY <2>1, FirstStood
    <2>3. \A t \in Members(ts) : t \in Threads /\ t \notin Ready /\ pc[t] # Finished
      BY <2>2, Apart DEF AtSem
    <2>4. (\A l : AtLock(l) \ Members(ts) = AtLock(l)) /\ (\A c : AtCond(c) \ Members(ts) = AtCond(c))
      BY <2>2, Apart DEF AtSem
    <2> QED BY <1>0, <2>1, <2>2, <2>3, <2>4, WakePlaces
  <1>5. ASSUME NEW l \in Locks, Acquire(l) PROVE Places'
    BY <1>5, TryAcquirePlaces DEF Acquire, InProgram
  <1>6. ASSUME NEW l \in Locks, Release(l) PROVE Places'
    <2> PICK ts : ts = Heir(l)
      OBVIOUS
    <2>1. /\ ReadyToRun(ts) /\ UNCHANGED <<pc, currentThread, threadToBeDestroyed, condQueue, semQueue>>
          /\ PassOn(l)
      BY <1>6 DEF Release, condVars, semVars
    <2>2. /\ Few(ts) /\ Members(ts) \subseteq AtLock(l)
          /\ \A k \in Locks : Holds(lockQueue'[k], AtLock(k) \ Members(ts))
      BY <2>1, HeirStood
    <2>3. \A t \in Members(ts) : t \in Threads /\ t \notin Ready /\ pc[t] # Finished
      BY <2>2, Apart DEF AtLock
    <2>4. (\A s : AtSem(s) \ Members(ts) = AtSem(s)) /\ (\A c : AtCond(c) \ Members(ts) = AtCond(c))
      BY <2>2, Apart DEF AtLock
    <2> QED BY <1>0, <2>1, <2>2, <2>3, <2>4, WakePlaces
  <1>7. ASSUME AcquireReturns PROVE Places'
    BY <1>7, ReturnPlaces DEF AcquireReturns, Run, Finished, lockVars, condVars, semVars
  <1>8. ASSUME WaitReacquires PROVE Places'
    <2>1. pc[me].lock \in Locks
      BY <1>0, <1>8, PcFields DEF WaitReacquires, TypeOK
    <2> QED BY <1>8, <2>1, TryAcquirePlaces DEF WaitReacquires
  <1>9. ASSUME NEW c \in Conds, NEW l \in Locks, Wait(c, l) PROVE Places'
    <2> PICK ts, p, q : ts = Heir(l) /\ p = [at |-> "Wait", cond |-> c, lock |-> l]
                        /\ q = Append(condQueue[c], me)
      OBVIOUS
    <2>1. /\ Running /\ PassOn(l) /\ SleepAt(p, ts)
          /\ UNCHANGED <<currentThread, threadToBeDestroyed, semQueue>>
          /\ condQueue' = [condQueue EXCEPT ![c] = q]
      BY <1>9 DEF Wait, InProgram, semVars
    <2>2. /\ Few(ts) /\ Members(ts) \subseteq AtLock(l)
          /\ \A k \in Locks : Holds(lockQueue'[k], AtLock(k) \ Members(ts))
      BY <2>1, HeirStood
    <2>3. /\ me \notin AtCond(c) /\ me \notin AtLock(l)
          /\ p.at = "Wait" /\ p.cond = c /\ p # Finished
      BY <1>0, <2>1, Apart DEF Running, Finished
    <2>4. \A t \in Members(ts) : t \in Threads /\ t \notin Ready /\ t # me /\ pc[t] # Finished
      BY <2>2, <2>3, Apart DEF AtLock
    <2>5. (\A s : AtSem(s) \ Members(ts) = AtSem(s)) /\ (\A d : AtCond(d) \ Members(ts) = AtCond(d))
      BY <2>2, Apart DEF AtLock
    <2>6. Holds(q, AtCond(c) \cup {me})
      BY <1>0, <2>3, AppendHolds
    <2>7. \A d \in Conds : condQueue'[d] = IF d = c THEN q ELSE condQueue[d]
      BY <2>1 DEF TypeOK
    <2>8. \A d \in Conds : Holds(condQueue'[d], (AtCond(d) \ Members(ts)) \cup
                               IF p.at = "Wait" /\ p.cond = d THEN {me} ELSE {})
      BY <1>0, <2>3, <2>5, <2>6, <2>7
    <2>9. \A k \in Locks : Holds(lockQueue'[k], (AtLock(k) \ Members(ts)) \cup
                          IF p.at \in {"Acquire", "Reacquire"} /\ p.lock = k THEN {me} ELSE {})
      <3>1. \A k \in Locks : (AtLock(k) \ Members(ts)) \cup
                 (IF p.at \in {"Acquire", "Reacquire"} /\ p.lock = k THEN {me} ELSE {})
              = AtLock(k) \ Members(ts)
        BY <2>3
      <3> QED BY <2>2, <3>1
    <2>10. \A s \in Sems : Holds(semQueue'[s], (AtSem(s) \ Members(ts)) \cup
                          IF p.at = "P" /\ p.sem = s THEN {me} ELSE {})
      <3>1. \A s \in Sems : Holds(semQueue'[s], AtSem(s))
        BY <1>0, <2>1 DEF Places, SemQueuesOK
      <3>2. \A s \in Sems : (AtSem(s) \ Members(ts)) \cup
                 (IF p.at = "P" /\ p.sem = s THEN {me} ELSE {}) = AtSem(s)
        BY <2>3, <2>5
      <3> QED BY <3>1, <3>2
    <2> QED BY <2>1, <2>2, <2>3, <2>4, <2>8, <2>9, <2>10, SleepPlaces
  <1>10. ASSUME NEW c \in Conds, NEW l \in Locks, Signal(c, l) PROVE Places'
    BY <1>10, WakeOnePlaces DEF Signal
  <1>11. ASSUME NEW c \in Conds, NEW l \in Locks, Broadcast(c, l) PROVE Places'
    <2>1. [at |-> "Broadcast", cond |-> c, lock |-> l] # Finished
      BY DEF Finished
    <2> QED BY <1>11, <2>1, ReturnPlaces DEF Broadcast, InProgram, lockVars, condVars, semVars
  <1>12. ASSUME BroadcastLoop PROVE Places'
    <2>1. pc[me].lock \in Locks /\ pc[me].cond \in Conds
      BY <1>0, <1>12, PcFields DEF BroadcastLoop, TypeOK
    <2>2. CASE Wake(pc[me].cond, pc[me].lock) /\ LoopAgain
      BY <1>12, <2>1, <2>2, WakeOnePlaces DEF BroadcastLoop, LoopAgain
    <2>3. CASE pc' = [pc EXCEPT ![me] = Run] /\ UNCHANGED <<readyList, status, condVars>>
      BY <1>12, <2>3, ReturnPlaces DEF BroadcastLoop, Run, Finished, lockVars, condVars, semVars
    <2> QED BY <1>12, <2>2, <2>3 DEF BroadcastLoop
  <1>13. ASSUME UNCHANGED vars PROVE Places'
    BY <1>13 DEF vars, threadVars, lockVars, condVars, semVars, Places, ReadyListOK, LockQueuesOK,
              CondQueuesOK, SemQueuesOK, Endings, OnlyTheCurrent, Ready, AtLock, AtCond, AtSem, Blocked
  <1> QED
    BY <1>1, <1>2, <1>3, <1>4, <1>5, <1>6, <1>7, <1>8, <1>9, <1>10, <1>11, <1>12, <1>13, SwitchPlaces
       DEF Next, Resumes

LEMMA InitPlaces == Init => TypeOK /\ Places
  <1> SUFFICES ASSUME Init PROVE TypeOK /\ Places
    OBVIOUS
  <1>1. TypeOK
    <2>1. <<>> \in Seq(Threads) /\ Run \in Pc /\ New \in Pc
      BY EmptySeq, PcTypes
    <2> QED BY <2>1, SynchAssumption
      DEF Init, NewThreads, NewScheduler, NewSemaphores, NewLocks, NewConditions, TypeOK
  <1>2. \A t \in Threads : /\ status[t] \in {"RUNNING", "JUST_CREATED"}
                           /\ pc[t] # Finished
                           /\ status[t] = "RUNNING" => t = Main
    BY DEF Init, NewThreads, Run, New, Finished
  <1>3. Ready = {} /\ (\A l : AtLock(l) = {}) /\ (\A c : AtCond(c) = {}) /\ (\A s : AtSem(s) = {})
    BY <1>2 DEF Ready, AtLock, AtCond, AtSem, Blocked
  <1>4. Endings /\ OnlyTheCurrent
    BY <1>2 DEF Init, Endings, OnlyTheCurrent
  <1> QED BY <1>1, <1>3, <1>4, EmptyHolds
    DEF Init, NewScheduler, NewSemaphores, NewLocks, NewConditions, Places, ReadyListOK, LockQueuesOK,
        CondQueuesOK, SemQueuesOK

LEMMA PlacesMean == TypeOK /\ Places => EachThreadInOnePlace
  <1> SUFFICES ASSUME TypeOK, Places PROVE EachThreadInOnePlace
    OBVIOUS
  <1>1. /\ Distinct(readyList) /\ \A t : On(readyList, t) <=> t \in Ready
    BY HoldsMeans DEF Places, ReadyListOK, Holds
  <1>2. \A l \in Locks : Distinct(lockQueue[l]) /\ \A t : On(lockQueue[l], t) <=> t \in AtLock(l)
    BY HoldsMeans DEF Places, LockQueuesOK, Holds
  <1>3. \A c \in Conds : Distinct(condQueue[c]) /\ \A t : On(condQueue[c], t) <=> t \in AtCond(c)
    BY HoldsMeans DEF Places, CondQueuesOK, Holds
  <1>4. \A s \in Sems : Distinct(semQueue[s]) /\ \A t : On(semQueue[s], t) <=> t \in AtSem(s)
    BY HoldsMeans DEF Places, SemQueuesOK, Holds
  <1> QED BY <1>1, <1>2, <1>3, <1>4
    DEF EachThreadInOnePlace, Places, OnlyTheCurrent, Ready, AtLock, AtCond, AtSem

\* No thread is lost or scheduled twice, however many threads there are and whatever they do to
\* however many locks, conditions and semaphores: whoever is not running is in exactly the one
\* queue that whoever is to wake it will look into.
THEOREM ThreadInOnePlace == Spec => []EachThreadInOnePlace
  <1>1. TypeOK /\ Places /\ [Next]_vars => TypeOK' /\ Places'
    BY TypesKept, PlacesKept
  <1> QED BY <1>1, InitPlaces, PlacesMean, PTL DEF Spec

-----------------------------------------------------------------------------
(* What a step changes of the threads *)

\* Only the thread that has the CPU moves by itself, or falls asleep; another one starts, or is
\* deleted after its end.
LEMMA OnlyMeMoves ==
    ASSUME TypeOK, Places, [Next]_vars, NEW t \in Threads
    PROVE  /\ \/ pc'[t] = pc[t]
              \/ t = me /\ Running
              \/ pc[t] = New /\ pc'[t] = Run
              \/ pc[t] = Finished /\ pc'[t] = Deleted
           /\ status'[t] = "BLOCKED" => status[t] = "BLOCKED" \/ (t = me /\ Running)
  <1>0. /\ me \in Threads /\ pc = [u \in Threads |-> pc[u]] /\ status = [u \in Threads |-> status[u]]
        /\ threadToBeDestroyed \in Threads => pc[threadToBeDestroyed] = Finished
    BY SynchAssumption DEF TypeOK, me, Places, Endings
  <1>1. CASE Dispatch \/ Yield
    <2> PICK next : next = Head(readyList)
      OBVIOUS
    <2>1. /\ Switch(next)
          /\ \/ status' = [status EXCEPT ![next] = "RUNNING"]
             \/ status' = [status EXCEPT ![me] = "READY", ![next] = "RUNNING"]
      BY <1>1 DEF Dispatch, Yield
    <2>2. status'[t] = "BLOCKED" => status[t] = "BLOCKED"
      BY <1>0, <2>1
    <2> QED BY <1>0, <2>1, <2>2 DEF Switch
  <1>2. ASSUME NEW p, NEW ts, Running, SleepAt(p, ts)
        PROVE  /\ pc'[t] = pc[t] \/ (t = me /\ Running)
               /\ status'[t] = "BLOCKED" => status[t] = "BLOCKED" \/ (t = me /\ Running)
    BY <1>0, <1>2 DEF SleepAt
  <1>3. ASSUME NEW p, Running, pc' = [pc EXCEPT ![me] = p], UNCHANGED status
        PROVE  /\ pc'[t] = pc[t] \/ (t = me /\ Running)
               /\ status'[t] = "BLOCKED" => status[t] = "BLOCKED" \/ (t = me /\ Running)
    BY <1>0, <1>3
  <1>4. ASSUME NEW ts, ReadyToRun(ts), UNCHANGED pc
        PROVE  pc'[t] = pc[t] /\ (status'[t] = "BLOCKED" => status[t] = "BLOCKED")
    BY <1>0, <1>4 DEF ReadyToRun
  <1>5. CASE \E u \in Threads : Fork(u)
    BY <1>4, <1>5 DEF Fork
  <1>6. CASE Finish
    BY <1>2, <1>6 DEF Finish, InProgram
  <1>7. CASE \E s \in Sems : P(s) \/ ResumeP(s)
    BY <1>2, <1>3, <1>7 DEF P, ResumeP, TryP, InProgram
  <1>8. CASE \E s \in Sems : V(s)
    BY <1>4, <1>8 DEF V
  <1>9. CASE WaitReacquires \/ \E l \in Locks : Acquire(l)
    BY <1>2, <1>3, <1>9 DEF Acquire, WaitReacquires, TryAcquire, InProgram
  <1>10. CASE \E l \in Locks : Release(l)
    BY <1>4, <1>10 DEF Release
  <1>11. CASE AcquireReturns
    BY <1>3, <1>11 DEF AcquireReturns
  <1>12. CASE \E c \in Conds, l \in Locks : Wait(c, l)
    BY <1>2, <1>12 DEF Wait, InProgram
  <1>13. CASE \E c \in Conds, l \in Locks : Signal(c, l)
    BY <1>4, <1>13 DEF Signal, Wake
  <1>14. CASE \E c \in Conds, l \in Locks : Broadcast(c, l)
    BY <1>3, <1>14 DEF Broadcast, InProgram
  <1>15. CASE BroadcastLoop
    BY <1>3, <1>4, <1>15 DEF BroadcastLoop, Wake, LoopAgain
  <1>16. CASE UNCHANGED vars
    BY <1>16 DEF vars, threadVars
  <1> QED BY <1>1, <1>5, <1>6, <1>7, <1>8, <1>9, <1>10, <1>11, <1>12, <1>13, <1>14, <1>15, <1>16
    DEF Next, Resumes

-----------------------------------------------------------------------------
(* No V is lost *)

LEMMA WokenFinite == \A s : IsFiniteSet(Woken(s)) /\ Cardinality(Woken(s)) \in Nat
  <1>1. \A s : Woken(s) \in SUBSET Threads
    BY DEF Woken
  <1> QED BY <1>1, SynchAssumption, FS_Subset, FS_CardinalityType

LEMMA WokenStay ==
    ASSUME NEW s, Woken(s) \subseteq Woken(s)'
    PROVE  Cardinality(Woken(s)) <= Cardinality(Woken(s)')
  <1>1. IsFiniteSet(Woken(s)') /\ Woken(s) \in SUBSET Woken(s)'
    <2>1. Woken(s)' \in SUBSET Threads
      BY DEF Woken
    <2> QED BY <2>1, SynchAssumption, FS_Subset
  <1> QED BY <1>1, FS_Subset

\* But for the thread that takes a unit, whoever was woken for one stays so.
LEMMA OthersWoken ==
    ASSUME TypeOK, Places, [Next]_vars, NEW s
    PROVE  /\ Woken(s) \ {me} \subseteq Woken(s)'
           /\ (\A r \in Sems : ~ResumeP(r)) => Woken(s) \subseteq Woken(s)'
  <1>1. ASSUME NEW t \in Woken(s), ~(t = me /\ Running) PROVE t \in Woken(s)'
    <2>1. t \in Threads /\ pc[t] = [at |-> "P", sem |-> s] /\ status[t] # "BLOCKED"
      BY DEF Woken
    <2>2. pc[t] # New /\ pc[t] # Finished
      BY <2>1 DEF New, Finished
    <2>3. pc'[t] = pc[t] /\ status'[t] # "BLOCKED"
      BY <1>1, <2>1, <2>2, OnlyMeMoves
    <2> QED BY <2>1, <2>3 DEF Woken
  <1>2. ASSUME me \in Woken(s), Running, \A r \in Sems : ~ResumeP(r) PROVE me \in Woken(s)'
    <2>1. me \in Threads /\ pc[me].at = "P" /\ pc[me] # Run
      BY <1>2 DEF Woken, Run
    <2>2. UNCHANGED vars
      BY <1>2, <2>1 DEF Next, Resumes, Dispatch, Yield, Finish, Fork, P, V, Acquire, Release, Wait, Signal,
        Broadcast, BroadcastLoop, AcquireReturns, WaitReacquires, InProgram, InterruptsEnabled, Idle
    <2> QED BY <1>2, <2>1, <2>2 DEF Woken, vars, threadVars
  <1> QED BY <1>1, <1>2

LEMMA NoLostVKept ==
    ASSUME TypeOK, Places, NoLostV, [Next]_vars, Places'
    PROVE  NoLostV'
  <1> SUFFICES ASSUME NEW r \in Sems, semQueue'[r] # <<>>
               PROVE  value'[r] <= Cardinality(Woken(r)')
    BY DEF NoLostV
  <1>0. /\ value[r] \in Nat /\ me \in Threads
        /\ semQueue[r] # <<>> => value[r] <= Cardinality(Woken(r))
        /\ IsFiniteSet(Woken(r)) /\ Cardinality(Woken(r)) \in Nat
        /\ IsFiniteSet(Woken(r)') /\ Cardinality(Woken(r)') \in Nat
    <2>1. Woken(r)' \in SUBSET Threads
      BY DEF Woken
    <2> QED BY <2>1, WokenFinite, SynchAssumption, FS_Subset, FS_CardinalityType DEF TypeOK, NoLostV, me
  <1>1. ASSUME UNCHANGED <<value, semQueue>>, Woken(r) \subseteq Woken(r)'
        PROVE  value'[r] <= Cardinality(Woken(r)')
    BY <1>0, <1>1, WokenStay
  <1>2. ASSUME NEW s \in Sems, P(s) \/ ResumeP(s) PROVE value'[r] <= Cardinality(Woken(r)')
    <2>1. TryP(s) /\ (pc[me] = Run \/ (pc[me].at = "P" /\ pc[me].sem = s))
      BY <1>2 DEF P, ResumeP, InProgram
    <2>2. CASE r # s
      <3>1. me \notin Woken(r)
        BY <2>1, <2>2 DEF Woken, Run
      <3>2. Woken(r) \subseteq Woken(r)'
        BY <3>1, OthersWoken
      <3>3. value'[r] = value[r] /\ semQueue'[r] = semQueue[r]
        BY <2>1, <2>2 DEF TryP, TypeOK
      <3> QED BY <1>0, <3>2, <3>3, WokenStay
    <2>3. CASE r = s /\ value[s] = 0
      BY <1>0, <2>1, <2>3 DEF TryP
    <2>4. CASE r = s /\ value[s] # 0
      <3>1. value'[r] = value[r] - 1 /\ semQueue'[r] = semQueue[r]
        BY <2>1, <2>4 DEF TryP, TypeOK
      <3>2. /\ Woken(r) \ {me} \in SUBSET Woken(r)'
            /\ Cardinality(Woken(r) \ {me}) \in {Cardinality(Woken(r)), Cardinality(Woken(r)) - 1}
        BY <1>0, OthersWoken, FS_RemoveElement
      <3>3. Cardinality(Woken(r) \ {me}) <= Cardinality(Woken(r)')
        BY <1>0, <3>2, FS_Subset
      <3> QED BY <1>0, <3>1, <3>2, <3>3
    <2> QED BY <2>2, <2>3, <2>4
  <1>3. ASSUME NEW s \in Sems, V(s) PROVE value'[r] <= Cardinality(Woken(r)')
    <2>1. \A q \in Sems : ~ResumeP(q)
      BY <1>3 DEF V, ResumeP, InterruptsEnabled, Idle
    <2>2. Woken(r) \subseteq Woken(r)'
      BY <2>1, OthersWoken
    <2>3. CASE r # s
      <3>1. value'[r] = value[r] /\ semQueue'[r] = semQueue[r]
        BY <1>3, <2>3 DEF V, TypeOK
      <3> QED BY <1>0, <2>2, <3>1, WokenStay
    <2>4. CASE r = s
      <3> PICK h : h = Head(semQueue[r])
        OBVIOUS
      <3>1. semQueue[r] # <<>>
        BY <1>3, <2>4 DEF V, FirstOf, TypeOK
      <3>2. h \in AtSem(r)
        BY <3>1, TailHolds DEF Places, SemQueuesOK
      <3>3. value'[r] = value[r] + 1 /\ ReadyToRun(<<h>>) /\ pc' = pc
        BY <1>3, <2>4, <3>1 DEF V, FirstOf, TypeOK
      <3>4. h \notin Woken(r)
        BY <3>2 DEF AtSem, Blocked, Woken
      <3>5. h \in Woken(r)'
        <4>1. h \in Threads /\ pc[h].at = "P" /\ pc[h].sem = r
          BY <3>2 DEF AtSem, Blocked
        <4>2. pc[h] = [at |-> "P", sem |-> r]
          BY <4>1, PcFields DEF TypeOK
        <4>3. h \in Members(<<h>>)
          BY <4>1, FewMembers
        <4>4. status'[h] = "READY"
          BY <3>3, <4>1, <4>3, FewMembers DEF ReadyToRun
        <4> QED BY <3>3, <4>1, <4>2, <4>4 DEF Woken
      <3>6. /\ Woken(r) \cup {h} \in SUBSET Woken(r)'
            /\ Cardinality(Woken(r) \cup {h}) = Cardinality(Woken(r)) + 1
        BY <1>0, <2>2, <3>4, <3>5, FS_AddElement
      <3>7. Cardinality(Woken(r) \cup {h}) <= Cardinality(Woken(r)')
        BY <1>0, <3>6, FS_Subset
      <3> QED BY <1>0, <3>1, <3>3, <3>6, <3>7
    <2> QED BY <2>3, <2>4
  <1>4. CASE \A s \in Sems : ~P(s) /\ ~ResumeP(s) /\ ~V(s)
    <2>1. UNCHANGED <<value, semQueue>>
      BY <1>4 DEF Next, Resumes, Dispatch, Yield, Finish, Fork, Acquire, Release, Wait, Signal,
        Broadcast, BroadcastLoop, AcquireReturns, WaitReacquires, vars, semVars
    <2> QED BY <1>1, <1>4, <2>1, OthersWoken
  <1> QED BY <1>2, <1>3, <1>4

\* A V is never lost, whatever number of threads share the semaphore and however they are
\* scheduled between the V and the moment the woken thread looks at the value again.
THEOREM VNotLost == Spec => []NoLostV
  <1>1. Init => NoLostV
    BY DEF Init, NewSemaphores, NoLostV
  <1>2. TypeOK /\ Places /\ NoLostV /\ [Next]_vars => TypeOK' /\ Places' /\ NoLostV'
    BY TypesKept, PlacesKept, NoLostVKept
  <1> QED BY <1>1, <1>2, InitPlaces, PTL DEF Spec

-----------------------------------------------------------------------------
(* Locks and conditions *)

Owned == \A l \in Locks : /\ lockStatus[l] = "BUSY" <=> lockOwner[l] # NoThread
                          /\ lockStatus[l] = "FREE" => lockQueue[l] = <<>>
WokenOwn == \A t \in Threads :
              pc[t].at \in {"Acquire", "Reacquire"} /\ status[t] # "BLOCKED" => lockOwner[pc[t].lock] = t
Bound == \A c \in Conds : /\ waitingLock[c] = NoLock <=> AtCond(c) = {}
                          /\ \A t \in AtCond(c) : pc[t].lock = waitingLock[c]

LEMMA OwnedKept ==
    ASSUME TypeOK, Owned, [Next]_vars
    PROVE  Owned'
  <1>0. /\ me \in Threads /\ NoThread \notin Threads
        /\ \A l \in Locks : lockStatus[l] \in {"FREE", "BUSY"} /\ lockQueue[l] \in Seq(Threads)
    BY SynchAssumption DEF TypeOK, me
  <1>1. ASSUME UNCHANGED lockVars PROVE Owned'
    BY <1>1 DEF lockVars, Owned
  <1>2. ASSUME NEW l \in Locks, NEW asleep, TryAcquire(l, asleep) PROVE Owned'
    <2> PICK q : q = Append(lockQueue[l], me)
      OBVIOUS
    <2>1. CASE lockOwner[l] # me /\ lockStatus[l] = "FREE"
      <3>1. /\ lockStatus' = [lockStatus EXCEPT ![l] = "BUSY"]
            /\ lockOwner' = [lockOwner EXCEPT ![l] = me] /\ lockQueue' = lockQueue
        BY <1>2, <2>1 DEF TryAcquire
      <3> QED BY <1>0, <3>1 DEF Owned, TypeOK
    <2>2. CASE lockOwner[l] # me /\ lockStatus[l] = "BUSY"
      <3>1. /\ UNCHANGED <<lockStatus, lockOwner>>
            /\ lockQueue' = [lockQueue EXCEPT ![l] = q]
        BY <1>2, <2>2 DEF TryAcquire
      <3> QED BY <1>0, <2>2, <3>1 DEF Owned, TypeOK
    <2>3. CASE lockOwner[l] = me
      BY <1>1, <1>2, <2>3 DEF TryAcquire
    <2> QED BY <1>0, <2>1, <2>2, <2>3
  <1>3. ASSUME NEW l \in Locks, PassOn(l) PROVE Owned'
    <2> PICK h, q : h = Head(lockQueue[l]) /\ q = Tail(lockQueue[l])
      OBVIOUS
    <2>1. CASE lockOwner[l] = me /\ lockQueue[l] # <<>>
      <3>1. h \in Threads
        BY <1>0, <2>1, HeadTailProperties
      <3>2. /\ lockOwner' = [lockOwner EXCEPT ![l] = h] /\ lockQueue' = [lockQueue EXCEPT ![l] = q]
            /\ lockStatus' = lockStatus
        BY <1>3, <2>1 DEF PassOn, lockVars
      <3>3. lockStatus[l] = "BUSY"
        BY <1>0, <2>1 DEF Owned
      <3> QED BY <1>0, <3>1, <3>2, <3>3 DEF Owned, TypeOK
    <2>2. CASE lockOwner[l] = me /\ lockQueue[l] = <<>>
      <3>1. /\ lockStatus' = [lockStatus EXCEPT ![l] = "FREE"] /\ lockQueue' = lockQueue
            /\ lockOwner' = [lockOwner EXCEPT ![l] = NoThread]
        BY <1>3, <2>2 DEF PassOn, lockVars
      <3> QED BY <1>0, <2>2, <3>1 DEF Owned, TypeOK
    <2>3. CASE lockOwner[l] # me
      BY <1>1, <1>3, <2>3 DEF PassOn
    <2> QED BY <2>1, <2>2, <2>3
  <1>4. WaitReacquires => pc[me].lock \in Locks
    BY <1>0, PcFields DEF WaitReacquires, TypeOK
  <1> QED BY <1>1, <1>2, <1>3, <1>4 DEF Next, Resumes, Dispatch, Yield, Finish, Fork, P, ResumeP, V, Acquire,
        Release, Wait, Signal, Broadcast, BroadcastLoop, AcquireReturns, WaitReacquires, vars

\* Nobody finds a lock taken away: only the thread that has it, in code of its own, gives it away.
LEMMA OwnerKeeps ==
    ASSUME TypeOK, Owned, [Next]_vars, NEW k \in Locks, NEW t \in Threads,
           lockOwner[k] = t, lockOwner'[k] # t
    PROVE  t = me /\ pc[me] = Run
  <1>0. me \in Threads /\ NoThread \notin Threads
    BY SynchAssumption DEF TypeOK, me
  <1>1. CASE UNCHANGED lockVars
    BY <1>1 DEF lockVars
  <1>2. ASSUME NEW l \in Locks, NEW a, TryAcquire(l, a) PROVE FALSE
    <2>1. lockOwner[l] = NoThread \/ lockOwner' = lockOwner
      BY <1>2, <1>0 DEF TryAcquire, lockVars, Owned, TypeOK
    <2>2. lockOwner' = lockOwner \/ lockOwner' = [lockOwner EXCEPT ![l] = me]
      BY <1>2 DEF TryAcquire, lockVars
    <2> QED BY <1>0, <2>1, <2>2 DEF TypeOK
  <1>3. ASSUME NEW l \in Locks, PassOn(l), InProgram PROVE t = me /\ pc[me] = Run
    <2>1. lockOwner[l] = me \/ lockOwner' = lockOwner
      BY <1>3 DEF PassOn, lockVars
    <2>2. lockOwner'[k] = lockOwner[k] \/ k = l
      BY <1>3 DEF PassOn, lockVars, TypeOK
    <2> QED BY <1>3, <2>1, <2>2 DEF InProgram
  <1>4. WaitReacquires => pc[me].lock \in Locks
    BY <1>0, PcFields DEF WaitReacquires, TypeOK
  <1> QED BY <1>1, <1>2, <1>3, <1>4 DEF Next, Resumes, Dispatch, Yield, Finish, Fork, P, ResumeP, V, Acquire,
        Release, Wait, Signal, Broadcast, BroadcastLoop, AcquireReturns, WaitReacquires, vars

\* Whoever is woken in Acquire has been given the lock, and keeps it.
LEMMA WokenOwnKept ==
    ASSUME TypeOK, Places, Owned, WokenOwn, [Next]_vars
    PROVE  WokenOwn'
  <1> SUFFICES ASSUME NEW t \in Threads, pc'[t].at \in {"Acquire", "Reacquire"}, status'[t] # "BLOCKED"
               PROVE  lockOwner'[pc'[t].lock] = t
    BY DEF WokenOwn
  <1>0. me \in Threads /\ NoThread \notin Threads
    BY SynchAssumption DEF TypeOK, me
  <1>2. CASE pc[t].at \in {"Acquire", "Reacquire"} /\ status[t] # "BLOCKED" /\ pc'[t] = pc[t]
    <2>1. lockOwner[pc[t].lock] = t /\ pc[t].lock \in Locks /\ pc[t] # Run
      BY <1>2, PcFields DEF WokenOwn, TypeOK, Run
    <2> QED BY <1>2, <2>1, OwnerKeeps
  <1>3. CASE pc[t].at \in {"Acquire", "Reacquire"} /\ status[t] = "BLOCKED" /\ pc'[t] = pc[t]
    <2>0. pc[t].lock \in Locks /\ t \in AtLock(pc[t].lock)
      BY <1>3, PcFields DEF TypeOK, AtLock, Blocked
    <2>1. ASSUME NEW ts, t \notin Members(ts), \/ ReadyToRun(ts)
                                               \/ \E p : SleepAt(p, ts)
          PROVE  FALSE
      <3>1. status'[t] \in {status[t], "BLOCKED"}
        BY <2>1, FewMembers DEF ReadyToRun, SleepAt
      <3> QED BY <3>1, <1>3
    <2>2. ASSUME NEW l \in Locks, PassOn(l), t \in Members(Heir(l)) PROVE lockOwner'[pc'[t].lock] = t
      <3>1. lockOwner[l] = me /\ lockQueue[l] # <<>>
        BY <2>2, FewMembers DEF Heir
      <3> PICK h : h = Head(lockQueue[l])
        OBVIOUS
      <3>2. h \in AtLock(l) /\ h \in Threads
        BY <3>1, TailHolds DEF Places, LockQueuesOK
      <3>3. t = h /\ lockOwner' = [lockOwner EXCEPT ![l] = h]
        BY <2>2, <3>1, <3>2, FewMembers DEF Heir, PassOn, lockVars
      <3> QED BY <1>3, <2>0, <3>2, <3>3 DEF TypeOK, AtLock
    <2>3. ASSUME NEW s \in Sems, V(s) PROVE FALSE
      <3>1. t \in Members(FirstOf(s))
        BY <2>1, <2>3 DEF V
      <3>2. Members(FirstOf(s)) \subseteq AtSem(s)
        BY <2>3, FirstStood DEF V
      <3> QED BY <1>3, <3>1, <3>2 DEF AtSem, Blocked
    <2>4. ASSUME NEW c \in Conds, NEW l \in Locks, Wake(c, l) PROVE FALSE
      <3>1. Head(condQueue[c]) \in AtCond(c) /\ Head(condQueue[c]) \in Threads
        BY <2>4, WaiterStood
      <3>2. t \in Members(<<Head(condQueue[c])>>)
        BY <2>1, <2>4 DEF Wake
      <3> QED BY <1>3, <3>1, <3>2, FewMembers DEF AtCond, Blocked
    <2>5. ASSUME NEW u \in Threads, Fork(u) PROVE FALSE
      <3>1. t \in Members(<<u>>)
        BY <2>1, <2>5 DEF Fork
      <3> QED BY <1>3, <2>5, <3>1, FewMembers DEF Fork
    <2>6. Members(<<>>) = {}
      BY FewMembers
    <2>7. ASSUME UNCHANGED status PROVE FALSE
      BY <1>3, <2>7
    <2>8. ASSUME Dispatch \/ Yield PROVE FALSE
      <3> PICK next : next = Head(readyList)
        OBVIOUS
      <3>1. next \in Ready
        BY <2>8, TailHolds DEF Places, ReadyListOK, Dispatch, Yield
      <3>2. /\ status' = [status EXCEPT ![next] = "RUNNING"] \/ me # t
            /\ \/ status' = [status EXCEPT ![next] = "RUNNING"]
               \/ status' = [status EXCEPT ![me] = "READY", ![next] = "RUNNING"]
        BY <1>3, <2>8 DEF Dispatch, Yield, InterruptsEnabled, Running
      <3>3. t # next
        BY <1>3, <3>1 DEF Ready
      <3> QED BY <1>3, <3>2, <3>3 DEF TypeOK
    <2>9. ASSUME NEW l \in Locks, NEW a, TryAcquire(l, a) PROVE FALSE
      BY <2>1, <2>6, <2>7, <2>9 DEF TryAcquire
    <2>10. WaitReacquires => pc[me].lock \in Locks
      BY <1>0, PcFields DEF WaitReacquires, TypeOK
    <2>11. BroadcastLoop => \/ UNCHANGED status
                            \/ \E c \in Conds, l \in Locks : Wake(c, l)
      BY <1>0, PcFields DEF BroadcastLoop, TypeOK
    <2>12. ASSUME NEW s \in Sems, TryP(s) PROVE FALSE
      BY <2>1, <2>6, <2>7, <2>12 DEF TryP
    <2>13. ASSUME NEW l \in Locks, PassOn(l), \/ ReadyToRun(Heir(l))
                                              \/ \E p : SleepAt(p, Heir(l))
           PROVE  lockOwner'[pc'[t].lock] = t
      BY <2>1, <2>2, <2>13
    <2>14. ~Finish
      BY <2>1, <2>6 DEF Finish
    <2> QED BY <2>3, <2>4, <2>5, <2>7, <2>8, <2>9, <2>10, <2>11, <2>12, <2>13, <2>14
        DEF Next, Resumes, P, ResumeP, Acquire, Release, Wait, Signal, Broadcast, AcquireReturns,
            WaitReacquires, vars, threadVars
  <1>4. CASE t = me /\ Running
    <2>1. ASSUME NEW p, p.at \notin {"Acquire", "Reacquire"}, pc' = [pc EXCEPT ![me] = p] PROVE FALSE
      BY <1>0, <1>4, <2>1 DEF TypeOK
    <2>2. ASSUME NEW p, NEW ts, SleepAt(p, ts) PROVE FALSE
      BY <1>0, <1>4, <2>2 DEF SleepAt
    <2>3. Run.at \notin {"Acquire", "Reacquire"}
      BY DEF Run
    <2>4. ASSUME NEW l \in Locks, NEW a, TryAcquire(l, a) PROVE FALSE
      BY <2>1, <2>2, <2>3, <2>4 DEF TryAcquire
    <2>5. WaitReacquires => pc[me].lock \in Locks
      BY <1>0, PcFields DEF WaitReacquires, TypeOK
    <2>6. ASSUME NEW s \in Sems, TryP(s) PROVE FALSE
      BY <2>1, <2>2, <2>3, <2>6 DEF TryP
    <2>7. ASSUME NEW c \in Conds, NEW l \in Locks, Broadcast(c, l) PROVE FALSE
      BY <2>1, <2>7 DEF Broadcast
    <2>8. pc'[t] = pc[t] => status[t] # "BLOCKED" /\ pc[t].at \in {"Acquire", "Reacquire"}
      BY <1>4 DEF Running
    <2>9. ~Dispatch
      BY <1>4 DEF Dispatch
    <2>10. Yield => pc'[t] = pc[t] \/ pc'[t].at \in {"Run", "Deleted"}
      BY <1>0 DEF Yield, Switch, TypeOK, Run, Deleted
    <2>11. ~Finish /\ \A c \in Conds, l \in Locks : ~Wait(c, l)
      BY <2>2 DEF Finish, Wait
    <2>12. BroadcastLoop => pc'[t] = pc[t]
      BY <2>1, <2>3 DEF BroadcastLoop, LoopAgain
    <2>13. ~AcquireReturns
      BY <2>1, <2>3 DEF AcquireReturns
    <2> QED BY <1>2, <2>4, <2>5, <2>6, <2>7, <2>8, <2>9, <2>10, <2>11, <2>12, <2>13
        DEF Next, Resumes, P, ResumeP, V, Fork, Acquire, Release, Signal, WaitReacquires, vars, threadVars
  <1>5. CASE pc[t] = New /\ pc'[t] = Run
    BY <1>5 DEF Run
  <1>6. CASE pc[t] = Finished /\ pc'[t] = Deleted
    BY <1>6 DEF Deleted
  <1> QED BY <1>2, <1>3, <1>4, <1>5, <1>6, OnlyMeMoves

LEMMA SleeperStays ==
    ASSUME TypeOK, Places, [Next]_vars, NEW t \in Threads, NEW c, t \in AtCond(c)
    PROVE  pc'[t] = pc[t]
  <1>1. status[t] = "BLOCKED" /\ pc[t].at = "Wait"
    BY DEF AtCond, Blocked
  <1> QED BY <1>1, OnlyMeMoves DEF Running, New, Finished

\* Who waits on a condition is in its queue: with no change of the queue, no change of them.
LEMMA SameQueue ==
    ASSUME Places, Places', NEW c \in Conds, condQueue'[c] = condQueue[c]
    PROVE  AtCond(c)' = AtCond(c)
  BY DEF Places, CondQueuesOK, Holds

LEMMA BoundKept ==
    ASSUME TypeOK, Places, Places', Bound, [Next]_vars
    PROVE  Bound'
  <1>0. me \in Threads /\ (\A l \in Locks : l # NoLock)
    BY SynchAssumption DEF TypeOK, me
  <1>1. ASSUME NEW c \in Conds, condQueue'[c] = condQueue[c], waitingLock'[c] = waitingLock[c]
        PROVE  /\ waitingLock'[c] = NoLock <=> AtCond(c)' = {}
               /\ \A t \in AtCond(c)' : pc'[t].lock = waitingLock'[c]
    <2>1. AtCond(c)' = AtCond(c) /\ AtCond(c) \subseteq Threads
      BY <1>1, SameQueue DEF AtCond
    <2> QED BY <1>1, <2>1, SleeperStays DEF Bound
  <1>2. ASSUME UNCHANGED condVars PROVE Bound'
    BY <1>1, <1>2 DEF Bound, condVars
  <1>3. ASSUME NEW c \in Conds, NEW l \in Locks, Wait(c, l) PROVE Bound'
    <2> PICK ts, p, q : ts = Heir(l) /\ p = [at |-> "Wait", cond |-> c, lock |-> l]
                        /\ q = Append(condQueue[c], me)
      OBVIOUS
    <2>1. /\ Running /\ SleepAt(p, ts) /\ PassOn(l)
          /\ waitingLock[c] \in {NoLock, l} /\ waitingLock' = [waitingLock EXCEPT ![c] = l]
          /\ condQueue' = [condQueue EXCEPT ![c] = q]
      BY <1>3 DEF Wait, InProgram
    <2>2. /\ Members(ts) \subseteq AtLock(l)
          /\ me \notin AtLock(l)
      BY <1>0, <2>1, HeirStood, Apart DEF Running
    <2>3. AtCond(c)' = (AtCond(c) \ Members(ts)) \cup IF p.at = "Wait" /\ p.cond = c THEN {me} ELSE {}
      <3>1. Members(ts) \subseteq Threads \ {me}
        BY <2>2 DEF AtLock
      <3> QED BY <2>1, <3>1, SleepMoves
    <2>4. AtCond(c)' \subseteq AtCond(c) \cup {me} /\ me \in AtCond(c)'
      BY <2>3
    <2>5. pc'[me].lock = l /\ waitingLock'[c] = l
      BY <1>0, <2>1 DEF SleepAt, TypeOK
    <2>6. \A t \in AtCond(c) : pc'[t].lock = l /\ t \in Threads
      <3>1. \A t \in AtCond(c) : t \in Threads /\ waitingLock[c] = l /\ pc[t].lock = l
        BY <2>1 DEF Bound, AtCond
      <3> QED BY <3>1, SleeperStays
    <2>7. /\ waitingLock'[c] = NoLock <=> AtCond(c)' = {}
          /\ \A t \in AtCond(c)' : pc'[t].lock = waitingLock'[c]
      BY <1>0, <2>4, <2>5, <2>6
    <2>8. \A d \in Conds : d # c => condQueue'[d] = condQueue[d] /\ waitingLock'[d] = waitingLock[d]
      BY <2>1 DEF TypeOK
    <2> QED BY <1>1, <2>7, <2>8 DEF Bound
  <1>4. ASSUME NEW c \in Conds, NEW l \in Locks, Wake(c, l) PROVE Bound'
    <2> PICK h, q : h = Head(condQueue[c]) /\ q = Tail(condQueue[c])
      OBVIOUS
    <2>1. /\ condQueue' = [condQueue EXCEPT ![c] = q]
          /\ waitingLock' = [waitingLock EXCEPT ![c] = IF q = <<>> THEN NoLock ELSE @]
          /\ waitingLock[c] = l /\ condQueue[c] # <<>>
      BY <1>4 DEF Wake
    <2>2. Holds(q, AtCond(c) \ {h})
      BY <2>1, TailHolds DEF Places, CondQueuesOK
    <2>3. condQueue'[c] = q /\ waitingLock'[c] = IF q = <<>> THEN NoLock ELSE l
      BY <2>1 DEF TypeOK
    <2>4. AtCond(c)' = AtCond(c) \ {h}
      BY <2>2, <2>3 DEF Places, CondQueuesOK, Holds
    <2>5. q = <<>> <=> AtCond(c)' = {}
      BY <2>2, <2>4, HoldsMeans
    <2>6. \A t \in AtCond(c)' : pc'[t].lock = l
      <3>1. \A t \in AtCond(c)' : t \in AtCond(c) /\ t \in Threads /\ pc[t].lock = l
        BY <2>1, <2>4 DEF Bound, AtCond
      <3> QED BY <3>1, SleeperStays
    <2>7. /\ waitingLock'[c] = NoLock <=> AtCond(c)' = {}
          /\ \A t \in AtCond(c)' : pc'[t].lock = waitingLock'[c]
      BY <1>0, <2>3, <2>5, <2>6
    <2>8. \A d \in Conds : d # c => condQueue'[d] = condQueue[d] /\ waitingLock'[d] = waitingLock[d]
      BY <2>1 DEF TypeOK
    <2> QED BY <1>1, <2>7, <2>8 DEF Bound
  <1>5. BroadcastLoop => UNCHANGED condVars \/ \E c \in Conds, l \in Locks : Wake(c, l)
    BY <1>0, PcFields DEF BroadcastLoop, TypeOK
  <1> QED BY <1>2, <1>3, <1>4, <1>5 DEF Next, Resumes, Dispatch, Yield, Finish, Fork, P, ResumeP, V, Acquire,
        Release, Signal, Broadcast, AcquireReturns, WaitReacquires, vars

Consistent == TypeOK /\ Places /\ Owned /\ WokenOwn /\ Bound

LEMMA InitConsistent == Init => Consistent
  <1> SUFFICES ASSUME Init PROVE Consistent
    OBVIOUS
  <1>1. TypeOK /\ Places
    BY InitPlaces
  <1>2. /\ \A t \in Threads : pc[t] \in {Run, New}
        /\ \A c : AtCond(c) = {}
    BY DEF Init, NewThreads, AtCond, Blocked, Run, New
  <1> QED BY <1>1, <1>2 DEF Init, NewLocks, NewConditions, Consistent, Owned, WokenOwn, Bound, Run, New

LEMMA ConsistentKept == Consistent /\ [Next]_vars => Consistent'
  BY TypesKept, PlacesKept, OwnedKept, WokenOwnKept, BoundKept DEF Consistent

LEMMA ConsistentMeans == Consistent => LocksConsistent
  <1> SUFFICES ASSUME Consistent PROVE LocksConsistent
    OBVIOUS
  <1>1. \A c \in Conds : /\ condQueue[c] = <<>> <=> AtCond(c) = {}
                         /\ AtCond(c) = {condQueue[c][i] : i \in DOMAIN condQueue[c]}
    <2>1. \A c \in Conds : Holds(condQueue[c], AtCond(c))
      BY DEF Consistent, Places, CondQueuesOK
    <2>2. \A c \in Conds : condQueue[c] = <<>> <=> AtCond(c) = {}
      BY <2>1, HoldsMeans
    <2> QED BY <2>1, <2>2 DEF Holds
  <1>2. \A c \in Conds : /\ waitingLock[c] = NoLock <=> condQueue[c] = <<>>
                         /\ \A i \in DOMAIN condQueue[c] : pc[condQueue[c][i]].lock = waitingLock[c]
    <2>1. ASSUME NEW c \in Conds, NEW i \in DOMAIN condQueue[c] PROVE condQueue[c][i] \in AtCond(c)
      BY <1>1
    <2> QED BY <1>1, <2>1 DEF Consistent, Bound
  <1> QED BY <1>2 DEF Consistent, LocksConsistent, Owned, WokenOwn

\* The hand-off of Release and the binding of a condition to its lock hold under any schedule and
\* for any number of threads, locks and conditions, the careless ones included.
THEOREM LocksStayConsistent == Spec => []LocksConsistent
  BY InitConsistent, ConsistentKept, ConsistentMeans, PTL DEF Spec

-----------------------------------------------------------------------------
(* The monitor.  What a thread asks for can be told from its program counter  *)
(* and status alone, now that the queues are known to hold who sleeps.        *)

Wants(t, l) == /\ pc[t].lock = l
               /\ \/ pc[t].at \in {"Acquire", "Reacquire"}
                  \/ pc[t].at = "Wait" /\ status[t] # "BLOCKED"

Within(l) == {t \in Threads : lockOwner[l] = t /\ ~Wants(t, l)}
Wanting(l) == {t \in Threads : Wants(t, l)}
AsSeen == /\ inside = [l \in CarefulLocks |-> Within(l)]
          /\ entering = [l \in CarefulLocks |-> Wanting(l)]
          /\ waiting = [c \in CarefulConds |-> AtCond(c)]

LEMMA Seen == Consistent => AsSeen
  <1> SUFFICES ASSUME Consistent PROVE AsSeen
    OBVIOUS
  <1>1. \A c \in Conds : AtCond(c) \subseteq Threads /\ \A t : On(condQueue[c], t) <=> t \in AtCond(c)
    BY HoldsMeans DEF Consistent, Places, CondQueuesOK
  <1>2. ASSUME NEW t \in Threads, NEW l PROVE AsksFor(t, l) <=> Wants(t, l)
    <2>1. pc[t].at = "Wait" => pc[t].cond \in Conds
      BY PcFields DEF Consistent, TypeOK
    <2> QED BY <1>1, <2>1 DEF AsksFor, Wants, AtCond, Blocked
  <1>3. entering = [l \in CarefulLocks |-> Wanting(l)]
    BY <1>2 DEF entering, Wanting
  <1>4. inside = [l \in CarefulLocks |-> Within(l)]
    BY <1>2 DEF inside, Inside, Within
  <1>5. waiting = [c \in CarefulConds |-> AtCond(c)]
    BY <1>1 DEF waiting, CarefulConds
  <1> QED BY <1>3, <1>4, <1>5 DEF AsSeen

LEMMA SeenNext ==
    Consistent' => /\ inside' = [l \in CarefulLocks |-> Within(l)']
                   /\ entering' = [l \in CarefulLocks |-> Wanting(l)']
                   /\ waiting' = [c \in CarefulConds |-> AtCond(c)']
  <1>1. Consistent' => AsSeen'
    BY Seen, PTL
  <1> QED BY <1>1 DEF AsSeen

\* A step that a user of careful locks cannot see.
LEMMA UnseenStep ==
    ASSUME Consistent, Consistent',
           \A l \in CarefulLocks : lockOwner'[l] = lockOwner[l],
           \A t \in Threads, l \in CarefulLocks : Wants(t, l)' <=> Wants(t, l),
           \A c \in CarefulConds : AtCond(c)' = AtCond(c)
    PROVE  UNCHANGED Monitor!mmVars
  <1>1. \A l \in CarefulLocks : Within(l)' = Within(l) /\ Wanting(l)' = Wanting(l)
    BY DEF Within, Wanting
  <1>2. inside' = inside /\ entering' = entering /\ waiting' = waiting
    BY <1>1, Seen, SeenNext DEF AsSeen
  <1> QED BY <1>2 DEF Monitor!mmVars

\* The steps a user can see, each told by what changes in the three views of it.
OtherLocksStay(l) == \A k \in CarefulLocks : k # l => Within(k)' = Within(k) /\ Wanting(k)' = Wanting(k)
OtherCondsStay(c) == \A d \in CarefulConds : d # c => AtCond(d)' = AtCond(d)
CondsStay == \A d \in CarefulConds : AtCond(d)' = AtCond(d)

LEMMA AskSeen ==
    ASSUME Consistent, Consistent', NEW t \in Threads, NEW l \in CarefulLocks,
           t \notin Within(l), \A c \in CarefulConds : t \notin AtCond(c)',
           Within(l)' = Within(l), Wanting(l)' = Wanting(l) \cup {t},
           OtherLocksStay(l), CondsStay
    PROVE  Monitor!MMNext
  <1>1. t \notin inside[l] /\ ~Monitor!Waits(t)
    BY Seen DEF AsSeen, CondsStay, Monitor!Waits
  <1>2. entering' = [entering EXCEPT ![l] = @ \cup {t}]
    BY Seen, SeenNext DEF AsSeen, OtherLocksStay
  <1>3. inside' = inside
    BY Seen, SeenNext DEF AsSeen, OtherLocksStay
  <1>4. waiting' = waiting
    BY Seen, SeenNext DEF AsSeen, CondsStay
  <1> QED BY <1>1, <1>2, <1>3, <1>4 DEF Monitor!MMNext, Monitor!Ask

LEMMA EnterSeen ==
    ASSUME Consistent, Consistent', NEW t \in Threads, NEW l \in CarefulLocks,
           Within(l) = {}, \A c \in CarefulConds : t \notin AtCond(c),
           Within(l)' = {t}, Wanting(l)' = Wanting(l) \ {t},
           OtherLocksStay(l), CondsStay
    PROVE  Monitor!MMNext
  <1>1. inside[l] = {} /\ ~Monitor!Waits(t)
    BY Seen DEF AsSeen, Monitor!Waits
  <1>2. entering' = [entering EXCEPT ![l] = @ \ {t}]
    BY Seen, SeenNext DEF AsSeen, OtherLocksStay
  <1>3. inside' = [inside EXCEPT ![l] = {t}]
    BY Seen, SeenNext DEF AsSeen, OtherLocksStay
  <1>4. waiting' = waiting
    BY Seen, SeenNext DEF AsSeen, CondsStay
  <1> QED BY <1>1, <1>2, <1>3, <1>4 DEF Monitor!MMNext, Monitor!Enter

LEMMA LeaveSeen ==
    ASSUME Consistent, Consistent', NEW t \in Threads, NEW l \in CarefulLocks,
           t \in Within(l), Within(l)' = Within(l) \ {t}, Wanting(l)' = Wanting(l),
           OtherLocksStay(l), CondsStay
    PROVE  Monitor!MMNext
  <1>1. t \in inside[l]
    BY Seen DEF AsSeen
  <1>2. entering' = entering
    BY Seen, SeenNext DEF AsSeen, OtherLocksStay
  <1>3. inside' = [inside EXCEPT ![l] = @ \ {t}]
    BY Seen, SeenNext DEF AsSeen, OtherLocksStay
  <1>4. waiting' = waiting
    BY Seen, SeenNext DEF AsSeen, CondsStay
  <1> QED BY <1>1, <1>2, <1>3, <1>4 DEF Monitor!MMNext, Monitor!Leave

LEMMA WaitSeen ==
    ASSUME Consistent, Consistent', NEW t \in Threads, NEW c \in CarefulConds, NEW l \in CarefulLocks,
           l = lockFor[c],
           t \in Within(l), Within(l)' = Within(l) \ {t}, Wanting(l)' = Wanting(l),
           AtCond(c)' = AtCond(c) \cup {t}, OtherLocksStay(l), OtherCondsStay(c)
    PROVE  Monitor!MMNext
  <1>1. t \in inside[lockFor[c]]
    BY Seen DEF AsSeen
  <1>2. entering' = entering
    BY Seen, SeenNext DEF AsSeen, OtherLocksStay
  <1>3. inside' = [inside EXCEPT ![lockFor[c]] = @ \ {t}]
    BY Seen, SeenNext DEF AsSeen, OtherLocksStay
  <1>4. waiting' = [waiting EXCEPT ![c] = @ \cup {t}]
    BY Seen, SeenNext DEF AsSeen, OtherCondsStay
  <1> QED BY <1>1, <1>2, <1>3, <1>4 DEF Monitor!MMNext, Monitor!WaitOn

LEMMA NotifySeen ==
    ASSUME Consistent, Consistent', NEW t \in Threads, NEW c \in CarefulConds, NEW l \in CarefulLocks,
           l = lockFor[c],
           t \in AtCond(c), Within(l) # {}, Within(l)' = Within(l),
           Wanting(l)' = Wanting(l) \cup {t}, AtCond(c)' = AtCond(c) \ {t},
           OtherLocksStay(l), OtherCondsStay(c)
    PROVE  Monitor!MMNext
  <1>1. t \in waiting[c] /\ inside[lockFor[c]] # {}
    BY Seen DEF AsSeen
  <1>2. inside' = inside
    BY Seen, SeenNext DEF AsSeen, OtherLocksStay
  <1>3. entering' = [entering EXCEPT ![lockFor[c]] = @ \cup {t}]
    BY Seen, SeenNext DEF AsSeen, OtherLocksStay
  <1>4. waiting' = [waiting EXCEPT ![c] = @ \ {t}]
    BY Seen, SeenNext DEF AsSeen, OtherCondsStay
  <1> QED BY <1>1, <1>2, <1>3, <1>4 DEF Monitor!MMNext, Monitor!Notify

\* A thread of which a step changes nothing that the three views depend on.
Calm(t) == \/ pc'[t] = pc[t] /\ (status'[t] = "BLOCKED" <=> status[t] = "BLOCKED")
           \/ /\ pc[t].at \notin {"Acquire", "Reacquire", "Wait"}
              /\ pc'[t].at \notin {"Acquire", "Reacquire", "Wait"}

LEMMA CalmStays ==
    ASSUME NEW t \in Threads, Calm(t)
    PROVE  /\ \A l : Wants(t, l)' <=> Wants(t, l)
           /\ \A c : t \in AtCond(c)' <=> t \in AtCond(c)
  BY DEF Calm, Wants, AtCond, Blocked

LEMMA CalmStep ==
    ASSUME Consistent, Consistent', UNCHANGED lockOwner, \A t \in Threads : Calm(t)
    PROVE  UNCHANGED Monitor!mmVars
  <1>1. \A t \in Threads, l \in CarefulLocks : Wants(t, l)' <=> Wants(t, l)
    BY CalmStays
  <1>2. \A c \in CarefulConds : AtCond(c)' = AtCond(c)
    <2>1. \A c : AtCond(c) \subseteq Threads /\ AtCond(c)' \subseteq Threads
      BY DEF AtCond
    <2> QED BY <2>1, CalmStays
  <1> QED BY <1>1, <1>2, UnseenStep

\* Threads, scheduler and semaphores are no business of the monitor's.
LEMMA SchedulingUnseen ==
    ASSUME Consistent, Consistent',
           \/ Dispatch \/ Yield \/ Finish
           \/ \E t \in Threads : Fork(t)
           \/ \E s \in Sems : P(s) \/ ResumeP(s) \/ V(s)
           \/ \E c \in Conds, l \in Locks : Broadcast(c, l)
           \/ UNCHANGED vars
    PROVE  UNCHANGED Monitor!mmVars
  <1>0. TypeOK /\ Places /\ me \in Threads /\ UNCHANGED lockOwner /\ [Next]_vars
    BY DEF Consistent, TypeOK, me, Dispatch, Yield, Finish, Fork, P, ResumeP, V, Broadcast, vars, lockVars,
           Next, Resumes
  <1> SUFFICES ASSUME NEW t \in Threads PROVE Calm(t)
    BY <1>0, CalmStep
  <1>1. ASSUME NEW p, NEW ts, Running, SleepAt(p, ts), ts = <<>>,
               pc[me].at \notin {"Acquire", "Reacquire", "Wait"}, p.at \notin {"Acquire", "Reacquire", "Wait"}
        PROVE  Calm(t)
    <2>1. pc'[t] = IF t = me THEN p ELSE pc[t]
      BY <1>0, <1>1 DEF SleepAt, TypeOK
    <2>2. t # me => status'[t] = status[t]
      BY <1>0, <1>1, FewMembers DEF SleepAt, TypeOK
    <2> QED BY <1>1, <2>1, <2>2 DEF Calm
  <1>2. ASSUME NEW p, Running, pc' = [pc EXCEPT ![me] = p], UNCHANGED status,
               pc[me].at \notin {"Acquire", "Reacquire", "Wait"}, p.at \notin {"Acquire", "Reacquire", "Wait"}
        PROVE  Calm(t)
    BY <1>0, <1>2 DEF TypeOK, Calm
  <1>3. ASSUME NEW ts, ReadyToRun(ts), UNCHANGED pc,
               \A u \in Members(ts) : pc[u].at \notin {"Acquire", "Reacquire", "Wait"}
        PROVE  Calm(t)
    <2>1. t \notin Members(ts) => status'[t] = status[t]
      BY <1>3, FewMembers DEF ReadyToRun
    <2> QED BY <1>3, <2>1 DEF Calm
  <1>4. CASE Dispatch \/ Yield
    <2> PICK next : next = Head(readyList)
      OBVIOUS
    <2>1. Switch(next) /\ next \in Ready
      BY <1>0, <1>4, TailHolds DEF Places, ReadyListOK, Dispatch, Yield
    <2>2. \/ ~Running /\ status' = [status EXCEPT ![next] = "RUNNING"]
          \/ Running /\ status' = [status EXCEPT ![me] = "READY", ![next] = "RUNNING"]
      BY <1>4 DEF Dispatch, Yield, InterruptsEnabled
    <2>3. status'[t] = "BLOCKED" <=> status[t] = "BLOCKED"
      BY <1>0, <2>1, <2>2 DEF Ready, Running, TypeOK
    <2>4. \/ pc'[t] = pc[t]
          \/ pc[t] = New /\ pc'[t] = Run
          \/ pc[t] = Finished /\ pc'[t] = Deleted
      BY <1>0, <2>1, SynchAssumption DEF Switch, TypeOK, Places, Endings
    <2> QED BY <2>3, <2>4 DEF Calm, New, Run, Finished, Deleted
  <1>5. CASE Finish
    BY <1>1, <1>5 DEF Finish, InProgram, Run, Finished
  <1>6. ASSUME NEW u \in Threads, Fork(u) PROVE Calm(t)
    <2>1. status[u] = "JUST_CREATED" /\ ReadyToRun(<<u>>) /\ UNCHANGED pc
      BY <1>6 DEF Fork
    <2>2. status'[t] = status[t] \/ (status[t] = "JUST_CREATED" /\ status'[t] = "READY")
      BY <2>1, FewMembers DEF ReadyToRun
    <2> QED BY <2>1, <2>2 DEF Calm
  <1>7. ASSUME NEW s \in Sems, P(s) \/ ResumeP(s) PROVE Calm(t)
    <2>1. Running /\ TryP(s) /\ pc[me].at \in {"Run", "P"}
      BY <1>7 DEF P, ResumeP, InProgram, Run
    <2> QED BY <1>1, <1>2, <2>1 DEF TryP, Run
  <1>8. ASSUME NEW s \in Sems, V(s) PROVE Calm(t)
    <2>1. Members(FirstOf(s)) \subseteq AtSem(s)
      BY <1>0, <1>8, FirstStood DEF V
    <2>2. \A u \in Members(FirstOf(s)) : pc[u].at \notin {"Acquire", "Reacquire", "Wait"}
      BY <2>1 DEF AtSem, Blocked
    <2> QED BY <1>3, <1>8, <2>2 DEF V
  <1>9. ASSUME NEW c \in Conds, NEW l \in Locks, Broadcast(c, l) PROVE Calm(t)
    <2> PICK p : p = [at |-> "Broadcast", cond |-> c, lock |-> l]
      OBVIOUS
    <2>1. /\ Running /\ pc[me].at = "Run" /\ p.at = "Broadcast"
          /\ pc' = [pc EXCEPT ![me] = p] /\ UNCHANGED status
      BY <1>9 DEF Broadcast, InProgram, Run
    <2> QED BY <1>2, <2>1
  <1>10. CASE UNCHANGED vars
    BY <1>10 DEF vars, threadVars, Calm
  <1> QED BY <1>4, <1>5, <1>6, <1>7, <1>8, <1>9, <1>10

\* A thread gets inside: it found the lock free, or wakes up as its owner.
LEMMA Entering ==
    ASSUME Consistent, Consistent', NEW m \in Threads, status[m] = "RUNNING", NEW l \in Locks,
           pc' = [pc EXCEPT ![m] = Run], UNCHANGED status,
           lockOwner' = [lockOwner EXCEPT ![l] = m],
           lockOwner[l] = NoThread \/ (lockOwner[l] = m /\ Wants(m, l)),
           \A k \in Locks : Wants(m, k) => k = l
    PROVE  [Monitor!MMNext]_(Monitor!mmVars)
  <1>0. /\ NoThread \notin Threads /\ CarefulLocks \subseteq Locks
        /\ pc'[m] = Run /\ status'[m] = "RUNNING"
        /\ \A k \in Locks : lockOwner'[k] = IF k = l THEN m ELSE lockOwner[k]
    BY SynchAssumption DEF Consistent, TypeOK
  <1>1. \A t \in Threads \ {m} : /\ \A k : Wants(t, k)' <=> Wants(t, k)
                                 /\ \A c : t \in AtCond(c)' <=> t \in AtCond(c)
    <2>1. \A t \in Threads \ {m} : Calm(t)
      BY DEF Calm, Consistent, TypeOK
    <2> QED BY <2>1, CalmStays
  <1>2. /\ \A k : ~Wants(m, k)'
        /\ \A c : m \notin AtCond(c) /\ m \notin AtCond(c)'
    BY <1>0 DEF Wants, AtCond, Blocked, Run
  <1>3. \A c : AtCond(c)' = AtCond(c)
    <2>1. \A c : AtCond(c) \subseteq Threads /\ AtCond(c)' \subseteq Threads
      BY DEF AtCond
    <2> QED BY <1>1, <1>2, <2>1
  <1>4. CASE l \in CarefulLocks
    <2>1. Within(l) = {}
      BY <1>0, <1>4 DEF Within
    <2>2. Within(l)' = {m} /\ Wanting(l)' = Wanting(l) \ {m}
      BY <1>0, <1>1, <1>2 DEF Within, Wanting
    <2>3. ASSUME NEW k \in CarefulLocks, k # l
          PROVE  Within(k)' = Within(k) /\ Wanting(k)' = Wanting(k)
      <3>1. ~Wants(m, k) /\ lockOwner'[k] = lockOwner[k]
        BY <1>0, <2>3
      <3> QED BY <1>1, <1>2, <3>1 DEF Within, Wanting
    <2> QED BY <1>0, <1>2, <1>3, <1>4, <2>1, <2>2, <2>3, EnterSeen DEF CondsStay, OtherLocksStay
  <1>5. CASE l \notin CarefulLocks
    <2>1. \A k \in CarefulLocks : ~Wants(m, k) /\ lockOwner'[k] = lockOwner[k]
      BY <1>0, <1>5
    <2> QED BY <1>1, <1>2, <1>3, <2>1, UnseenStep
  <1> QED BY <1>4, <1>5

LEMMA AcquireSteps ==
    ASSUME Consistent, Consistent', NEW l \in Locks, Running,
           \/ InProgram /\ TryAcquire(l, "Acquire")
           \/ pc[me].at = "Wait" /\ pc[me].lock = l /\ TryAcquire(l, "Reacquire")
    PROVE  [Monitor!MMNext]_(Monitor!mmVars)
  <1> PICK m : m = me
    OBVIOUS
  <1>0. /\ m \in Threads /\ status[m] = "RUNNING"
        /\ pc[m] = Run \/ (Wants(m, l) /\ pc[m].at = "Wait" /\ pc[m].lock = l)
        /\ \A k \in Locks : Wants(m, k) => k = l
        /\ \A c : m \notin AtCond(c)
    BY DEF Consistent, TypeOK, Running, me, InProgram, Wants, Run, AtCond, Blocked
  <1>1. CASE lockOwner[l] = me
    <2>1. pc' = [pc EXCEPT ![m] = Run] /\ UNCHANGED <<status, lockOwner>>
      BY <1>1 DEF TryAcquire, lockVars
    <2>2. CASE pc[m] = Run
      <3>1. \A t \in Threads : Calm(t)
        BY <1>0, <2>1, <2>2 DEF Calm, Consistent, TypeOK
      <3> QED BY <2>1, <3>1, CalmStep
    <2>3. CASE Wants(m, l)
      <3>1. lockOwner' = [lockOwner EXCEPT ![l] = m]
        BY <1>1, <2>1 DEF Consistent, TypeOK
      <3> QED BY <1>0, <1>1, <2>1, <2>3, <3>1, Entering
    <2> QED BY <1>0, <2>2, <2>3
  <1>2. CASE lockOwner[l] # me /\ lockStatus[l] = "FREE"
    <2>1. /\ pc' = [pc EXCEPT ![m] = Run] /\ UNCHANGED status
          /\ lockOwner' = [lockOwner EXCEPT ![l] = m]
      BY <1>2 DEF TryAcquire, lockVars
    <2>2. lockOwner[l] = NoThread
      BY <1>2 DEF Consistent, Owned, TypeOK
    <2> QED BY <1>0, <2>1, <2>2, Entering
  <1>3. CASE lockOwner[l] # me /\ lockStatus[l] = "BUSY"
    <2> PICK p : /\ p.at \in {"Acquire", "Reacquire"} /\ p.lock = l /\ SleepAt(p, <<>>)
                 /\ p.at = "Reacquire" <=> pc[me].at = "Wait"
      BY <1>3 DEF TryAcquire, InProgram, Run
    <2>1. /\ \A t \in Threads : pc'[t] = IF t = m THEN p ELSE pc[t]
          /\ \A t \in Threads : t # m => status'[t] = status[t]
          /\ lockOwner' = lockOwner /\ status'[m] = "BLOCKED"
      BY <1>0, <1>3, FewMembers DEF SleepAt, Consistent, TypeOK, TryAcquire
    <2>2. \A t \in Threads \ {m} : /\ \A k : Wants(t, k)' <=> Wants(t, k)
                                   /\ \A c : t \in AtCond(c)' <=> t \in AtCond(c)
      <3>1. \A t \in Threads \ {m} : Calm(t)
        BY <2>1 DEF Calm
      <3> QED BY <3>1, CalmStays
    <2>3. /\ \A k : Wants(m, k)' <=> k = l
          /\ \A c : m \notin AtCond(c)'
      BY <1>0, <2>1 DEF Wants, AtCond, Blocked
    <2>4. \A c : AtCond(c)' = AtCond(c)
      <3>1. \A c : AtCond(c) \subseteq Threads /\ AtCond(c)' \subseteq Threads
        BY DEF AtCond
      <3> QED BY <1>0, <2>2, <2>3, <3>1
    <2>5. CASE l \notin CarefulLocks \/ Wants(m, l)
      <3>1. \A k \in CarefulLocks : Wants(m, k)' <=> Wants(m, k)
        <4>1. CarefulLocks \subseteq Locks
          BY SynchAssumption
        <4> QED BY <1>0, <2>3, <2>5, <4>1
      <3> QED BY <2>1, <2>2, <2>4, <3>1, UnseenStep
    <2>6. CASE l \in CarefulLocks /\ ~Wants(m, l)
      <3>1. Within(l)' = Within(l) /\ m \notin Within(l)
        BY <1>3, <2>1, <2>2, <2>3 DEF Within
      <3>2. Wanting(l)' = Wanting(l) \cup {m}
        BY <1>0, <2>2, <2>3 DEF Wanting
      <3>3. ASSUME NEW k \in CarefulLocks, k # l
            PROVE  Within(k)' = Within(k) /\ Wanting(k)' = Wanting(k)
        <4>1. ~Wants(m, k)' /\ ~Wants(m, k) /\ lockOwner'[k] = lockOwner[k]
          BY <1>0, <2>1, <2>3, <3>3, SynchAssumption
        <4> QED BY <2>2, <4>1 DEF Within, Wanting
      <3> QED BY <1>0, <2>3, <2>4, <2>6, <3>1, <3>2, <3>3, AskSeen DEF OtherLocksStay, CondsStay
    <2> QED BY <2>5, <2>6
  <1> QED BY <1>1, <1>2, <1>3 DEF Consistent, TypeOK

LEMMA AcquireReturnsSteps ==
    ASSUME Consistent, Consistent', AcquireReturns
    PROVE  [Monitor!MMNext]_(Monitor!mmVars)
  <1> PICK m, l : m = me /\ l = pc[me].lock
    OBVIOUS
  <1>1. /\ m \in Threads /\ status[m] = "RUNNING" /\ l \in Locks
        /\ pc' = [pc EXCEPT ![m] = Run] /\ UNCHANGED <<status, lockOwner>>
        /\ pc[m].at \in {"Acquire", "Reacquire"} /\ pc[m].lock = l
    BY PcFields DEF AcquireReturns, Running, Consistent, TypeOK, me, lockVars
  <1>2. lockOwner[l] = m
    BY <1>1 DEF Consistent, WokenOwn
  <1>3. lockOwner' = [lockOwner EXCEPT ![l] = m]
    BY <1>1, <1>2 DEF Consistent, TypeOK
  <1>4. Wants(m, l) /\ \A k \in Locks : Wants(m, k) => k = l
    BY <1>1 DEF Wants
  <1> QED BY <1>1, <1>2, <1>3, <1>4, Entering

\* What Release, and Wait, do to the others: the heir asked for the lock and still asks for it.
LEMMA HeirAsks ==
    ASSUME Consistent, NEW l \in Locks, PassOn(l), NEW t \in Threads, pc'[t] = pc[t],
           status'[t] = IF t \in Members(Heir(l)) THEN "READY" ELSE status[t]
    PROVE  /\ \A k : Wants(t, k)' <=> Wants(t, k)
           /\ \A c : t \in AtCond(c)' <=> t \in AtCond(c)
           /\ lockOwner[l] = me /\ lockOwner'[l] = t => Wants(t, l)
  <1>1. TypeOK /\ Places
    BY DEF Consistent
  <1>2. t \in Members(Heir(l)) => pc[t].at \in {"Acquire", "Reacquire"} /\ pc[t].lock = l
    BY <1>1, HeirStood DEF AtLock, Blocked
  <1>3. /\ \A k : Wants(t, k)' <=> Wants(t, k)
        /\ \A c : t \in AtCond(c)' <=> t \in AtCond(c)
    BY <1>2 DEF Wants, AtCond, Blocked
  <1>4. ASSUME lockOwner[l] = me, lockOwner'[l] = t PROVE Wants(t, l)
    <2>1. lockQueue[l] # <<>>
      BY <1>1, <1>4, SynchAssumption DEF PassOn, lockVars, TypeOK
    <2>2. Heir(l) = <<Head(lockQueue[l])>> /\ t = Head(lockQueue[l])
      BY <1>1, <1>4, <2>1 DEF Heir, PassOn, TypeOK
    <2> QED BY <1>2, <2>2, FewMembers DEF Wants
  <1> QED BY <1>3, <1>4

LEMMA ReleaseSteps ==
    ASSUME Consistent, Consistent', NEW l \in Locks, Release(l)
    PROVE  [Monitor!MMNext]_(Monitor!mmVars)
  <1> PICK m : m = me
    OBVIOUS
  <1>0. /\ m \in Threads /\ pc[m] = Run /\ PassOn(l) /\ UNCHANGED pc
        /\ l \in CarefulLocks => lockOwner[l] = m
        /\ \A k \in Locks : k # l => lockOwner'[k] = lockOwner[k]
    BY DEF Release, InProgram, Consistent, TypeOK, me, PassOn, lockVars
  <1>1. \A t \in Threads : status'[t] = IF t \in Members(Heir(l)) THEN "READY" ELSE status[t]
    BY FewMembers DEF Release, ReadyToRun
  <1>2. \A t \in Threads : /\ \A k : Wants(t, k)' <=> Wants(t, k)
                           /\ \A c : t \in AtCond(c)' <=> t \in AtCond(c)
                           /\ lockOwner[l] = m /\ lockOwner'[l] = t => Wants(t, l)
    BY <1>0, <1>1, HeirAsks
  <1>3. \A c : AtCond(c)' = AtCond(c)
    <2>1. \A c : AtCond(c) \subseteq Threads /\ AtCond(c)' \subseteq Threads
      BY DEF AtCond
    <2> QED BY <1>2, <2>1
  <1>4. CASE l \in CarefulLocks
    <2>1. m \in Within(l) /\ Within(l) \ {m} = {}
      BY <1>0, <1>4 DEF Within, Wants, Run
    <2>2. Within(l)' = {}
      BY <1>0, <1>2, <1>4 DEF Within
    <2>3. Wanting(l)' = Wanting(l)
      BY <1>2 DEF Wanting
    <2>4. ASSUME NEW k \in CarefulLocks, k # l
          PROVE  Within(k)' = Within(k) /\ Wanting(k)' = Wanting(k)
      BY <1>0, <1>2, <2>4, SynchAssumption DEF Within, Wanting
    <2> QED BY <1>0, <1>3, <1>4, <2>1, <2>2, <2>3, <2>4, LeaveSeen DEF OtherLocksStay, CondsStay
  <1>5. CASE l \notin CarefulLocks
    BY <1>0, <1>2, <1>3, <1>5, UnseenStep, SynchAssumption
  <1> QED BY <1>4, <1>5

LEMMA WaitSteps ==
    ASSUME Consistent, Consistent', NEW c \in Conds, NEW l \in Locks, Wait(c, l)
    PROVE  [Monitor!MMNext]_(Monitor!mmVars)
  <1> PICK m, p : m = me /\ p = [at |-> "Wait", cond |-> c, lock |-> l]
    OBVIOUS
  <1>0. /\ m \in Threads /\ pc[m] = Run /\ status[m] = "RUNNING" /\ PassOn(l) /\ SleepAt(p, Heir(l))
        /\ l \in CarefulLocks => lockOwner[l] = m
        /\ lockFor[c] \in CarefulLocks => l = lockFor[c]
        /\ \A k \in Locks : k # l => lockOwner'[k] = lockOwner[k]
        /\ p.at = "Wait" /\ p.cond = c /\ p.lock = l
    BY DEF Wait, MayUse, InProgram, Running, Consistent, TypeOK, me, PassOn, lockVars
  <1>1. /\ \A t \in Threads \ {m} : /\ status'[t] = IF t \in Members(Heir(l)) THEN "READY" ELSE status[t]
                                    /\ pc'[t] = pc[t]
        /\ status'[m] = "BLOCKED" /\ pc'[m] = p
    BY <1>0, FewMembers DEF SleepAt, Consistent, TypeOK
  <1>2. \A t \in Threads \ {m} : /\ \A k : Wants(t, k)' <=> Wants(t, k)
                                 /\ \A d : t \in AtCond(d)' <=> t \in AtCond(d)
                                 /\ lockOwner[l] = m /\ lockOwner'[l] = t => Wants(t, l)
    BY <1>0, <1>1, HeirAsks
  <1>3. /\ \A k : ~Wants(m, k) /\ ~Wants(m, k)'
        /\ \A d : m \notin AtCond(d) /\ (m \in AtCond(d)' <=> d = c)
    BY <1>0, <1>1 DEF Wants, AtCond, Blocked, Run
  <1>4. lockOwner[l] = m => lockOwner'[l] # m
    <2>1. Members(Heir(l)) \subseteq AtLock(l) /\ m \notin AtLock(l)
      BY <1>0, HeirStood DEF Consistent, AtLock, Blocked
    <2>2. lockOwner[l] = m /\ lockQueue[l] # <<>> => Head(lockQueue[l]) \in Threads /\ Heir(l) = <<Head(lockQueue[l])>>
      BY HeadTailProperties DEF Consistent, TypeOK, Heir
    <2>3. lockOwner[l] = m /\ lockQueue[l] # <<>> => lockOwner'[l] = Head(lockQueue[l])
      BY <1>0 DEF PassOn, Consistent, TypeOK
    <2>4. lockOwner[l] = m /\ lockQueue[l] = <<>> => lockOwner'[l] = NoThread
      BY <1>0 DEF PassOn, Consistent, TypeOK
    <2> QED BY <1>0, <2>1, <2>2, <2>3, <2>4, FewMembers, SynchAssumption
  <1>5. AtCond(c)' = AtCond(c) \cup {m} /\ \A d : d # c => AtCond(d)' = AtCond(d)
    <2>1. \A d : AtCond(d) \subseteq Threads /\ AtCond(d)' \subseteq Threads
      BY DEF AtCond
    <2>2. AtCond(c)' = AtCond(c) \cup {m}
      BY <1>0, <1>2, <1>3, <2>1
    <2>3. ASSUME NEW d, d # c PROVE AtCond(d)' = AtCond(d)
      <3>1. m \notin AtCond(d) /\ m \notin AtCond(d)'
        BY <1>3, <2>3
      <3> QED BY <1>2, <2>1, <3>1
    <2> QED BY <2>2, <2>3
  <1>6. CASE l \in CarefulLocks
    <2>1. m \in Within(l) /\ Within(l) \ {m} = {}
      BY <1>0, <1>3, <1>6 DEF Within
    <2>2. Within(l)' = {}
      BY <1>0, <1>2, <1>4, <1>6 DEF Within
    <2>3. Wanting(l)' = Wanting(l)
      BY <1>2, <1>3 DEF Wanting
    <2>4. ASSUME NEW k \in CarefulLocks, k # l
          PROVE  Within(k)' = Within(k) /\ Wanting(k)' = Wanting(k)
      BY <1>0, <1>2, <1>3, <2>4, SynchAssumption DEF Within, Wanting
    <2>5. CASE c \in CarefulConds
      BY <1>0, <1>5, <1>6, <2>1, <2>2, <2>3, <2>4, <2>5, WaitSeen
         DEF OtherLocksStay, OtherCondsStay, CarefulConds
    <2>6. CASE c \notin CarefulConds
      BY <1>0, <1>5, <1>6, <2>1, <2>2, <2>3, <2>4, <2>6, LeaveSeen DEF OtherLocksStay, CondsStay
    <2> QED BY <2>5, <2>6
  <1>7. CASE l \notin CarefulLocks
    <2>1. c \notin CarefulConds
      BY <1>0, <1>7 DEF CarefulConds
    <2> QED BY <1>0, <1>2, <1>3, <1>5, <1>7, <2>1, UnseenStep, SynchAssumption
  <1> QED BY <1>6, <1>7

\* A turn of Broadcast's loop, interrupts enabled between turns, is still one from inside the lock.
Broadcasters ==
    \A t \in Threads : pc[t].at = "Broadcast" =>
        /\ pc[t].lock \in CarefulLocks => lockOwner[pc[t].lock] = t
        /\ lockFor[pc[t].cond] \in CarefulLocks => pc[t].lock = lockFor[pc[t].cond]

LEMMA BroadcastersKept ==
    ASSUME Consistent, Broadcasters, [Next]_vars
    PROVE  Broadcasters'
  <1> SUFFICES ASSUME NEW t \in Threads, pc'[t].at = "Broadcast"
               PROVE  /\ pc'[t].lock \in CarefulLocks => lockOwner'[pc'[t].lock] = t
                      /\ lockFor[pc'[t].cond] \in CarefulLocks => pc'[t].lock = lockFor[pc'[t].cond]
    BY DEF Broadcasters
  <1>0. TypeOK /\ Places /\ Owned /\ me \in Threads
    BY DEF Consistent, TypeOK, me
  <1>1. CASE pc'[t] = pc[t]
    <2>1. pc[t] # Run /\ pc[t].lock \in Locks
      BY <1>0, <1>1, PcFields DEF TypeOK, Run
    <2>2. pc[t].lock \in CarefulLocks => lockOwner'[pc[t].lock] = t
      BY <1>0, <1>1, <2>1, OwnerKeeps DEF Broadcasters
    <2> QED BY <1>1, <2>2 DEF Broadcasters
  <1>2. CASE pc'[t] # pc[t] /\ t = me /\ Running
    <2>1. ASSUME NEW p, p.at # "Broadcast", pc' = [pc EXCEPT ![me] = p] PROVE FALSE
      BY <1>0, <1>2, <2>1 DEF TypeOK
    <2>2. ASSUME NEW p, NEW ts, p.at # "Broadcast", SleepAt(p, ts) PROVE FALSE
      BY <2>1, <2>2 DEF SleepAt
    <2>3. Run.at # "Broadcast" /\ Finished.at # "Broadcast" /\ Deleted.at # "Broadcast"
      BY DEF Run, Finished, Deleted
    <2>4. ASSUME NEW l, NEW a \in {"Acquire", "Reacquire"}, TryAcquire(l, a) PROVE FALSE
      <3>1. [at |-> a, lock |-> l].at # "Broadcast"
        OBVIOUS
      <3> QED BY <2>1, <2>2, <2>3, <2>4, <3>1 DEF TryAcquire
    <2>5. ASSUME NEW s, TryP(s) PROVE FALSE
      <3>1. [at |-> "P", sem |-> s].at # "Broadcast"
        OBVIOUS
      <3> QED BY <2>1, <2>2, <2>3, <2>5, <3>1 DEF TryP
    <2>6. ASSUME NEW c \in Conds, NEW l \in Locks, Wait(c, l) PROVE FALSE
      <3>1. [at |-> "Wait", cond |-> c, lock |-> l].at # "Broadcast"
        OBVIOUS
      <3> QED BY <2>2, <2>6, <3>1 DEF Wait
    <2>7. ~Dispatch
      BY <1>2 DEF Dispatch
    <2>8. ~Yield
      BY <1>0, <1>2, <2>3 DEF Yield, Switch, TypeOK
    <2>9. ~Finish /\ ~AcquireReturns
      BY <2>1, <2>2, <2>3 DEF Finish, AcquireReturns
    <2>10. ~BroadcastLoop
      BY <1>2, <2>1, <2>3 DEF BroadcastLoop, LoopAgain
    <2>11. ASSUME NEW c \in Conds, NEW l \in Locks, Broadcast(c, l)
           PROVE  /\ pc'[t].lock \in CarefulLocks => lockOwner'[pc'[t].lock] = t
                  /\ lockFor[pc'[t].cond] \in CarefulLocks => pc'[t].lock = lockFor[pc'[t].cond]
      <3>1. pc'[t].lock = l /\ pc'[t].cond = c /\ lockOwner' = lockOwner
        BY <1>0, <1>2, <2>11 DEF Broadcast, TypeOK, lockVars
      <3> QED BY <1>2, <2>11, <3>1 DEF Broadcast, MayUse
    <2> QED BY <1>2, <2>4, <2>5, <2>6, <2>7, <2>8, <2>9, <2>10, <2>11 DEF Next, Resumes, Fork, P, ResumeP, V,
        Acquire, Release, Signal, WaitReacquires, vars, threadVars
  <1>3. CASE (pc[t] = New /\ pc'[t] = Run) \/ (pc[t] = Finished /\ pc'[t] = Deleted)
    BY <1>3 DEF Run, Deleted
  <1> QED BY <1>0, <1>1, <1>2, <1>3, OnlyMeMoves

LEMMA WakeSteps ==
    ASSUME Consistent, Consistent', NEW c \in Conds, NEW l \in Locks, Wake(c, l),
           UNCHANGED <<pc, lockOwner>>, pc[me].at \in {"Run", "Broadcast"},
           MayUse(c, l)
    PROVE  [Monitor!MMNext]_(Monitor!mmVars)
  <1> PICK m, h : m = me /\ h = Head(condQueue[c])
    OBVIOUS
  <1>0. /\ m \in Threads /\ pc[m].at \in {"Run", "Broadcast"}
        /\ l \in CarefulLocks => lockOwner[l] = m
        /\ lockFor[c] \in CarefulLocks => l = lockFor[c]
    BY DEF MayUse, Consistent, TypeOK, me
  <1>1. h \in AtCond(c) /\ h \in Threads
    BY WaiterStood DEF Consistent
  <1>2. /\ pc[h].lock = l /\ pc[h].at = "Wait" /\ status[h] = "BLOCKED" /\ pc[h].cond = c
    BY <1>1 DEF Wake, Consistent, Bound, AtCond, Blocked
  <1>3. \A t \in Threads : status'[t] = IF t = h THEN "READY" ELSE status[t]
    BY <1>1, FewMembers DEF Wake, ReadyToRun
  <1>4. \A t \in Threads \ {h} : /\ \A k : Wants(t, k)' <=> Wants(t, k)
                                 /\ \A d : t \in AtCond(d)' <=> t \in AtCond(d)
    <2>1. \A t \in Threads \ {h} : Calm(t)
      BY <1>3 DEF Calm
    <2> QED BY <2>1, CalmStays
  <1>5. /\ \A k : ~Wants(h, k) /\ (Wants(h, k)' <=> k = l)
        /\ \A d : h \notin AtCond(d)' /\ (h \in AtCond(d) <=> d = c)
    BY <1>1, <1>2, <1>3 DEF Wants, AtCond, Blocked
  <1>6. AtCond(c)' = AtCond(c) \ {h} /\ \A d : d # c => AtCond(d)' = AtCond(d)
    <2>1. \A d : AtCond(d) \subseteq Threads /\ AtCond(d)' \subseteq Threads
      BY DEF AtCond
    <2>2. AtCond(c)' = AtCond(c) \ {h}
      BY <1>4, <1>5, <2>1
    <2>3. ASSUME NEW d, d # c PROVE AtCond(d)' = AtCond(d)
      <3>1. h \notin AtCond(d) /\ h \notin AtCond(d)'
        BY <1>5, <2>3
      <3> QED BY <1>4, <2>1, <3>1
    <2> QED BY <2>2, <2>3
  <1>7. CASE l \in CarefulLocks
    <2>1. m \in Within(l) /\ h # m
      BY <1>0, <1>2, <1>7 DEF Within, Wants
    <2>2. Within(l)' = Within(l) /\ h \notin Within(l)
      BY <1>0, <1>4, <1>7, <2>1 DEF Within
    <2>3. Wanting(l)' = Wanting(l) \cup {h}
      BY <1>1, <1>4, <1>5 DEF Wanting
    <2>4. ASSUME NEW k \in CarefulLocks, k # l
          PROVE  Within(k)' = Within(k) /\ Wanting(k)' = Wanting(k)
      <3>1. ~Wants(h, k) /\ ~Wants(h, k)'
        BY <1>5, <2>4
      <3> QED BY <1>4, <3>1 DEF Within, Wanting
    <2>5. CASE c \in CarefulConds
      BY <1>0, <1>1, <1>6, <1>7, <2>1, <2>2, <2>3, <2>4, <2>5, NotifySeen
         DEF OtherLocksStay, OtherCondsStay, CarefulConds
    <2>6. CASE c \notin CarefulConds
      BY <1>1, <1>5, <1>6, <1>7, <2>2, <2>3, <2>4, <2>6, AskSeen DEF OtherLocksStay, CondsStay
    <2> QED BY <2>5, <2>6
  <1>8. CASE l \notin CarefulLocks
    <2>1. c \notin CarefulConds
      BY <1>0, <1>8 DEF CarefulConds
    <2>2. \A t \in Threads, k \in CarefulLocks : Wants(t, k)' <=> Wants(t, k)
      BY <1>4, <1>5, <1>8
    <2> QED BY <1>6, <2>1, <2>2, UnseenStep
  <1> QED BY <1>7, <1>8

LEMMA EveryStepSeen ==
    ASSUME Consistent, Consistent', Broadcasters, [Next]_vars
    PROVE  [Monitor!MMNext]_(Monitor!mmVars)
  <1>0. me \in Threads /\ \A t \in Threads : pc[t] \in Pc
    BY DEF Consistent, TypeOK, me
  <1>1. ASSUME NEW c \in Conds, NEW l \in Locks, Signal(c, l) PROVE [Monitor!MMNext]_(Monitor!mmVars)
    BY <1>1, WakeSteps DEF Signal, InProgram, Run, lockVars
  <1>2. ASSUME BroadcastLoop PROVE [Monitor!MMNext]_(Monitor!mmVars)
    <2>1. CASE Wake(pc[me].cond, pc[me].lock) /\ LoopAgain
      <3>1. /\ pc[me].cond \in Conds /\ pc[me].lock \in Locks /\ MayUse(pc[me].cond, pc[me].lock)
            /\ pc[me].at = "Broadcast" /\ UNCHANGED <<pc, lockOwner>>
        BY <1>0, <1>2, <2>1, PcFields DEF BroadcastLoop, LoopAgain, Broadcasters, MayUse, lockVars
      <3> QED BY <2>1, <3>1, WakeSteps
    <2>2. CASE pc' = [pc EXCEPT ![me] = Run] /\ UNCHANGED <<readyList, status, condVars>>
      <3>1. \A t \in Threads : Calm(t)
        BY <1>0, <1>2, <2>2 DEF BroadcastLoop, Calm, Consistent, TypeOK, Run
      <3>2. UNCHANGED lockOwner
        BY <1>2 DEF BroadcastLoop, lockVars
      <3> QED BY <3>1, <3>2, CalmStep
    <2> QED BY <1>2, <2>1, <2>2 DEF BroadcastLoop
  <1>3. ASSUME NEW l \in Locks, Acquire(l) PROVE [Monitor!MMNext]_(Monitor!mmVars)
    BY <1>3, AcquireSteps DEF Acquire, InProgram
  <1>4. ASSUME WaitReacquires PROVE [Monitor!MMNext]_(Monitor!mmVars)
    <2>1. pc[me].lock \in Locks
      BY <1>0, <1>4, PcFields DEF WaitReacquires
    <2> QED BY <1>4, <2>1, AcquireSteps DEF WaitReacquires
  <1> QED BY <1>1, <1>2, <1>3, <1>4, AcquireReturnsSteps, ReleaseSteps, WaitSteps, SchedulingUnseen
    DEF Next, Resumes

LEMMA InitSeen == Init => Monitor!MMInit
  <1> SUFFICES ASSUME Init PROVE Monitor!MMInit
    OBVIOUS
  <1>1. Consistent
    BY InitConsistent
  <1>2. \A l \in CarefulLocks : Within(l) = {} /\ Wanting(l) = {}
    BY SynchAssumption DEF Init, NewThreads, NewLocks, Within, Wanting, Wants, Run, New
  <1>3. \A c : AtCond(c) = {}
    BY DEF Init, NewThreads, AtCond, Blocked, Run, New
  <1> QED BY <1>1, <1>2, <1>3, Seen DEF AsSeen, Monitor!MMInit

\* The kernel's locks and conditions implement a Mesa monitor for those threads that keep to the
\* rules of synch.h, whatever the others do and however all are scheduled.
THEOREM MonitorImplemented == Spec => ImplementsMonitor
  <1>1. Init => Broadcasters
    BY DEF Init, NewThreads, Broadcasters, Run, New
  <1>2. Consistent /\ Broadcasters /\ [Next]_vars =>
           Consistent' /\ Broadcasters' /\ [Monitor!MMNext]_(Monitor!mmVars)
    BY ConsistentKept, BroadcastersKept, EveryStepSeen
  <1> QED BY <1>1, <1>2, InitConsistent, InitSeen, PTL DEF Spec, ImplementsMonitor, Monitor!MMSpec

-----------------------------------------------------------------------------
(* The calls that programs are made of *)

ForkCalls == {<<"Fork", t>> : t \in Threads}
SynchCalls ==
    {<<"Yield">>}
      \cup {<<a, s>> : a \in {"P", "V"}, s \in {"s1", "s2", "s3", "done"}}
      \cup {<<a, l>> : a \in {"Acquire", "Release"}, l \in {"l1", "l2"}}
      \cup {<<a, "c1", l>> : a \in {"Wait", "Signal", "Broadcast"}, l \in {"l1", "l2"}}
ListCalls == {<<"remove">>} \cup {<<"append", i>> : i \in {"a1", "a2", "b1"}}
ConsoleCalls == {<<"get">>, <<"echo">>, <<"until quit">>}
                  \cup {<<"read", n>> : n \in Nat} \cup {<<"put", c>> : c \in {"a", "b", Newline}}
FileCalls == {<<"open">>, <<"find">>, <<"store">>, <<"use">>, <<"close">>, <<"clear">>, <<"delete">>}

OtherCalls == ForkCalls \cup SynchCalls \cup ListCalls \cup ConsoleCalls
AllCalls == OtherCalls \cup FileCalls

\* Only the test of the files makes a thread call them.
ScriptsOK == /\ script \in [Threads -> Seq(AllCalls)]
             /\ test # "files" => script \in [Threads -> Seq(OtherCalls)]

LEMMA ConsoleNames == ASSUME NEW s \in ConsoleCalls PROVE s[1] \in {"get", "echo", "until quit", "read", "put"}
  <1>1. CASE s \in {<<"read", n>> : n \in Nat}
    <2>1. PICK n \in Nat : s = <<"read", n>>
      BY <1>1
    <2>2. s[1] = "read"
      BY <2>1, Zenon
    <2> QED BY <2>2
  <1>2. CASE s \in {<<"put", c>> : c \in {"a", "b", Newline}}
    <2>1. PICK c : s = <<"put", c>>
      BY <1>2, Zenon
    <2>2. s[1] = "put"
      BY <2>1, Zenon
    <2> QED BY <2>2
  <1>3. CASE s \in {<<"get">>, <<"echo">>, <<"until quit">>}
    <2>1. PICK a \in {"get", "echo", "until quit"} : s = <<a>>
      BY <1>3, Zenon
    <2>2. s[1] = a
      BY <2>1, Zenon
    <2> QED BY <2>2
  <1> QED BY <1>1, <1>2, <1>3, Zenon DEF ConsoleCalls

\* The arguments of a call that changes threads, locks, conditions or semaphores exist.
LEMMA Arguments ==
    ASSUME NEW s \in AllCalls
    PROVE  /\ s[1] = "Fork" => s[2] \in Threads
           /\ s[1] \in {"P", "V"} => s[2] \in Sems
           /\ s[1] \in {"Acquire", "Release"} => s[2] \in Locks
           /\ s[1] \in {"Wait", "Signal", "Broadcast"} => s[2] \in Conds /\ s[3] \in Locks
  <1>1. CASE s \in ForkCalls
    BY <1>1 DEF ForkCalls
  <1>2. CASE s \in SynchCalls
    BY <1>2, ProgramsAssumption DEF SynchCalls
  <1>3. CASE s \in ListCalls
    BY <1>3 DEF ListCalls
  <1>4. CASE s \in ConsoleCalls
    BY <1>4, ConsoleNames
  <1>5. CASE s \in FileCalls
    BY <1>5 DEF FileCalls
  <1> QED BY <1>1, <1>2, <1>3, <1>4, <1>5 DEF AllCalls, OtherCalls

-----------------------------------------------------------------------------
(* What the programs are made of at the start *)

RightProgram(p, S) == p.main \in Seq(S) /\ p.crew \in Seq(Seq(S))

LEMMA TimesRight ==
    ASSUME NEW S, NEW n \in Nat, NEW x \in S
    PROVE  Times(n, x) \in Seq(S) /\ Len(Times(n, x)) = n
  <1>1. \A k \in 1..n : x \in S
    OBVIOUS
  <1> QED BY <1>1, IsASeq, LenProperties DEF Times

LEMMA ForksRight == ASSUME NEW n \in Nat, n <= Len(Crew) PROVE Fork0(n) \in Seq(ForkCalls)
  <1>1. Len(Crew) \in Nat /\ DOMAIN Crew = 1..Len(Crew)
    BY ProgramsAssumption, LenProperties
  <1>2. \A k \in 1..n : <<"Fork", Crew[k]>> \in ForkCalls
    BY <1>1, ProgramsAssumption DEF ForkCalls
  <1> QED BY <1>2, IsASeq DEF Fork0

LEMMA ProgramRight ==
    ASSUME NEW S, ForkCalls \subseteq S, NEW main \in Seq(S), NEW crew \in Seq(Seq(S)),
           Len(crew) <= Len(Crew), NEW asleep
    PROVE  RightProgram(Program(main, crew, asleep), S)
  <1>1. Len(crew) \in Nat
    BY LenProperties
  <1>2. Fork0(Len(crew)) \in Seq(S)
    BY <1>1, ForksRight, SeqMonotonic
  <1>3. Fork0(Len(crew)) \o main \in Seq(S)
    BY <1>2, ConcatProperties
  <1> QED BY <1>3 DEF RightProgram, Program

LEMMA LoadRight ==
    ASSUME NEW S, NEW p, RightProgram(p, S), Load(p)
    PROVE  script \in [Threads -> Seq(S)]
  <1>1. <<>> \in Seq(S)
    BY EmptySeq
  <1>2. \A k \in DOMAIN p.crew : p.crew[k] \in Seq(S)
    BY ElementOfSeq, LenProperties DEF RightProgram
  <1> QED BY <1>1, <1>2 DEF Load, RightProgram

LEMMA SuiteRight ==
    ASSUME test \in Tests
    PROVE  /\ RightProgram(TestSuite[test], AllCalls)
           /\ test # "files" => RightProgram(TestSuite[test], OtherCalls)
  <1>a. ForkCalls \subseteq OtherCalls /\ ForkCalls \subseteq AllCalls /\ OtherCalls \subseteq AllCalls
    BY DEF AllCalls, OtherCalls
  <1>b. Waiters \in Nat /\ Waiters + 1 = Len(Crew) /\ 3 <= Len(Crew) /\ Len(Crew) \in Nat
    BY ProgramsAssumption, LenProperties DEF Waiters
  <1>c. \A s \in Seq(OtherCalls), r \in Seq(OtherCalls) : s \o r \in Seq(OtherCalls)
    BY ConcatProperties
  <1>d. \A n \in Nat, x \in OtherCalls : Times(n, x) \in Seq(OtherCalls)
    BY TimesRight
  <1>e. /\ <<"Yield">> \in OtherCalls
        /\ \A s \in {"s1", "s2", "s3", "done"} : <<"P", s>> \in OtherCalls /\ <<"V", s>> \in OtherCalls
        /\ \A l \in {"l1", "l2"} : /\ <<"Acquire", l>> \in OtherCalls /\ <<"Release", l>> \in OtherCalls
                                   /\ <<"Wait", "c1", l>> \in OtherCalls
                                   /\ <<"Signal", "c1", l>> \in OtherCalls
                                   /\ <<"Broadcast", "c1", l>> \in OtherCalls
    BY DEF OtherCalls, SynchCalls
  <1>f. /\ <<"remove">> \in OtherCalls
        /\ \A i \in {"a1", "a2", "b1"} : <<"append", i>> \in OtherCalls
        /\ <<"get">> \in OtherCalls /\ <<"echo">> \in OtherCalls /\ <<"until quit">> \in OtherCalls
        /\ \A n \in Nat : <<"read", n>> \in OtherCalls
        /\ \A c \in {"a", "b", Newline} : <<"put", c>> \in OtherCalls
    BY DEF OtherCalls, ListCalls, ConsoleCalls
  <1>g. \A n : \A m \in Seq(OtherCalls), crew \in Seq(Seq(OtherCalls)) :
           Len(crew) <= Len(Crew) => RightProgram(Program(m, crew, n), OtherCalls)
    BY <1>a, ProgramRight
  <1>s. \A a, b, c, d, e, f \in OtherCalls :
           /\ <<a, b, c>> \in Seq(OtherCalls) /\ <<a, b, c, d>> \in Seq(OtherCalls)
           /\ <<a, b, c, d, e>> \in Seq(OtherCalls) /\ <<a, b, c, d, e, f>> \in Seq(OtherCalls)
    OBVIOUS
  <1>1. RightProgram(Test1, OtherCalls)
    <2>1. t1_t1 \in Seq(OtherCalls) /\ t1_t2 \in Seq(OtherCalls)
      BY <1>e DEF t1_t1, t1_t2
    <2>2. t1_t3 \in Seq(OtherCalls)
      BY <1>c, <1>d, <1>e DEF t1_t3
    <2>3. <<t1_t1, t1_t2, t1_t3>> \in Seq(Seq(OtherCalls)) /\ Len(<<t1_t1, t1_t2, t1_t3>>) <= Len(Crew)
      BY <1>b, <2>1, <2>2
    <2>4. Times(2, <<"P", "done">>) \in Seq(OtherCalls)
      BY <1>d, <1>e
    <2> QED BY <1>g, <2>3, <2>4 DEF Test1
  <1>2. RightProgram(Test2, OtherCalls)
    <2>1. t2_t1 \in Seq(OtherCalls) /\ t2_t2 \in Seq(OtherCalls)
      BY <1>e DEF t2_t1, t2_t2
    <2>2. <<t2_t1, t2_t2>> \in Seq(Seq(OtherCalls)) /\ Len(<<t2_t1, t2_t2>>) <= Len(Crew)
      BY <1>b, <2>1
    <2>3. << <<"P", "done">> >> \in Seq(OtherCalls)
      BY <1>e
    <2> QED BY <1>g, <2>2, <2>3 DEF Test2
  <1>3. RightProgram(Test3, OtherCalls)
    <2>1. t3_waiter \in Seq(OtherCalls)
      BY <1>e DEF t3_waiter
    <2>2. t3_signaller \in Seq(OtherCalls)
      BY <1>b, <1>c, <1>d, <1>e DEF t3_signaller
    <2>3. Times(Waiters, t3_waiter) \in Seq(Seq(OtherCalls)) /\ Len(Times(Waiters, t3_waiter)) = Waiters
      BY <1>b, <2>1, TimesRight
    <2>4. /\ Append(Times(Waiters, t3_waiter), t3_signaller) \in Seq(Seq(OtherCalls))
          /\ Len(Append(Times(Waiters, t3_waiter), t3_signaller)) <= Len(Crew)
      BY <1>b, <2>2, <2>3, AppendProperties
    <2>5. Times(2, <<"P", "done">>) \in Seq(OtherCalls)
      BY <1>d, <1>e
    <2> QED BY <1>g, <2>4, <2>5 DEF Test3
  <1>4. RightProgram(Test4, OtherCalls)
    <2>1. t4_waiter \in Seq(OtherCalls)
      BY <1>e DEF t4_waiter
    <2>2. t4_signaller \in Seq(OtherCalls)
      BY <1>b, <1>c, <1>d, <1>e DEF t4_signaller
    <2>3. Times(Waiters, t4_waiter) \in Seq(Seq(OtherCalls)) /\ Len(Times(Waiters, t4_waiter)) = Waiters
      BY <1>b, <2>1, TimesRight
    <2>4. /\ Append(Times(Waiters, t4_waiter), t4_signaller) \in Seq(Seq(OtherCalls))
          /\ Len(Append(Times(Waiters, t4_waiter), t4_signaller)) <= Len(Crew)
      BY <1>b, <2>2, <2>3, AppendProperties
    <2>5. Times(Waiters + 1, <<"P", "done">>) \in Seq(OtherCalls)
      BY <1>b, <1>d, <1>e
    <2> QED BY <1>g, <2>4, <2>5 DEF Test4
  <1>5. RightProgram(Test5, OtherCalls)
    <2>1. t5_t1 \in Seq(OtherCalls) /\ t5_t2 \in Seq(OtherCalls)
      BY <1>e DEF t5_t1, t5_t2
    <2>2. <<t5_t1, t5_t2>> \in Seq(Seq(OtherCalls)) /\ Len(<<t5_t1, t5_t2>>) <= Len(Crew)
      BY <1>b, <2>1
    <2>3. <<>> \in Seq(OtherCalls)
      BY EmptySeq
    <2> QED BY <1>g, <2>2, <2>3 DEF Test5
  <1>6. RightProgram(PingPong, OtherCalls)
    <2>1. SimpleThread \in Seq(OtherCalls)
      BY <1>d, <1>e DEF SimpleThread
    <2>2. <<SimpleThread>> \in Seq(Seq(OtherCalls)) /\ Len(<<SimpleThread>>) <= Len(Crew)
      BY <1>b, <2>1
    <2> QED BY <1>g, <2>1, <2>2 DEF PingPong
  <1>7. RightProgram(GiveAndTake, OtherCalls)
    <2>1. ListRemove \in Seq(OtherCalls)
      BY <1>e, <1>f, <1>s DEF ListRemove
    <2>4. ASSUME NEW i \in {"a1", "a2", "b1"} PROVE ListAppend(i) \in Seq(OtherCalls)
      BY <1>e, <1>f, <1>s DEF ListAppend
    <2>2. ListRemove \o ListRemove \in Seq(OtherCalls) /\ ListAppend("a1") \o ListAppend("a2") \in Seq(OtherCalls)
      BY <1>c, <2>1, <2>4
    <2>3. \A x, y, z \in Seq(OtherCalls) : <<x, y, z>> \in Seq(Seq(OtherCalls)) /\ Len(<<x, y, z>>) <= Len(Crew)
      BY <1>b
    <2> QED BY <1>g, <2>1, <2>2, <2>3, <2>4 DEF GiveAndTake
  <1>8. RightProgram(ConsoleTest, OtherCalls)
    <2>1. Echo \in Seq(OtherCalls)
      BY <1>e, <1>f, <1>s DEF Echo
    <2>2. <<>> \in Seq(Seq(OtherCalls)) /\ Len(<<>>) <= Len(Crew)
      BY <1>b, EmptySeq
    <2> QED BY <1>g, <2>1, <2>2 DEF ConsoleTest
  <1>9. RightProgram(Lines, OtherCalls)
    <2>1. ReadLine(3) \in Seq(OtherCalls) /\ ReadLine(2) \in Seq(OtherCalls)
      BY <1>e, <1>f, <1>s DEF ReadLine
    <2>2. ASSUME NEW c \in {"a", "b", Newline}, NEW d \in {"a", "b", Newline}
          PROVE  WriteLine(c, d) \in Seq(OtherCalls)
      BY <1>e, <1>f, <1>s DEF WriteLine
    <2>3. \A x, y, z \in Seq(OtherCalls) : <<x, y, z>> \in Seq(Seq(OtherCalls)) /\ Len(<<x, y, z>>) <= Len(Crew)
      BY <1>b
    <2> QED BY <1>g, <2>1, <2>2, <2>3 DEF Lines
  <1>10. RightProgram(Program(<<>>, <<>>, 0), OtherCalls)
    <2>1. <<>> \in Seq(Seq(OtherCalls)) /\ Len(<<>>) <= Len(Crew) /\ <<>> \in Seq(OtherCalls)
      BY <1>b, EmptySeq
    <2> QED BY <1>g, <2>1
  <1>11. RightProgram(Files, AllCalls)
    <2>1. OpenUseClose \in Seq(AllCalls)
      BY <1>e DEF OpenUseClose, Open, Close, AllCalls, FileCalls
    <2>2. <<OpenUseClose, OpenUseClose, OpenUseClose>> \in Seq(Seq(AllCalls))
          /\ Len(<<OpenUseClose, OpenUseClose, OpenUseClose>>) <= Len(Crew)
      BY <1>b, <2>1
    <2>3. <<>> \in Seq(AllCalls)
      BY EmptySeq
    <2> QED BY <1>a, <2>2, <2>3, ProgramRight DEF Files
  <1>12. \A p : RightProgram(p, OtherCalls) => RightProgram(p, AllCalls)
    BY <1>a, SeqMonotonic DEF RightProgram
  <1>13. test \in {"1", "2", "3", "4", "5", "yield", "list", "echo", "lines", "files", "any use"}
    BY TestsAssumption
  <1>14. /\ test = "1" => TestSuite[test] = Test1
         /\ test = "2" => TestSuite[test] = Test2
         /\ test = "3" => TestSuite[test] = Test3
         /\ test = "4" => TestSuite[test] = Test4
         /\ test = "5" => TestSuite[test] = Test5
         /\ test = "yield" => TestSuite[test] = PingPong
         /\ test = "list" => TestSuite[test] = GiveAndTake
         /\ test = "echo" => TestSuite[test] = ConsoleTest
         /\ test = "lines" => TestSuite[test] = Lines
         /\ test = "files" => TestSuite[test] = Files
         /\ test = "any use" => TestSuite[test] = Program(<<>>, <<>>, 0)
    BY DEF TestSuite
  <1> QED BY <1>1, <1>2, <1>3, <1>4, <1>5, <1>6, <1>7, <1>8, <1>9, <1>10, <1>11, <1>12, <1>13, <1>14

-----------------------------------------------------------------------------
(* Every step is a step of Synch or leaves its variables alone *)

LEMMA CurrentScript ==
    ASSUME TypeOK, ScriptsOK, HasStep
    PROVE  /\ me \in Threads /\ step \in AllCalls
           /\ script[me] \in Seq(AllCalls) /\ Tail(script[me]) \in Seq(AllCalls)
           /\ test # "files" => /\ script[me] \in Seq(OtherCalls) /\ step \in OtherCalls
                                /\ Tail(script[me]) \in Seq(OtherCalls)
  <1>1. me \in Threads
    BY DEF TypeOK, me
  <1>2. script[me] \in Seq(AllCalls) /\ script[me] # <<>>
    BY <1>1 DEF ScriptsOK, HasStep
  <1>3. test # "files" => script[me] \in Seq(OtherCalls)
    BY <1>1 DEF ScriptsOK
  <1> QED BY <1>1, <1>2, <1>3, HeadTailProperties DEF step

LEMMA CallsAreSteps ==
    ASSUME TypeOK, ScriptsOK, HasStep, Calls
    PROVE  [Next]_vars
  <1>1. step \in AllCalls
    BY CurrentScript
  <1>2. /\ step[1] = "Fork" => step[2] \in Threads
        /\ step[1] \in {"P", "V"} => step[2] \in Sems
        /\ step[1] \in {"Acquire", "Release"} => step[2] \in Locks
        /\ step[1] \in {"Wait", "Signal", "Broadcast"} => step[2] \in Conds /\ step[3] \in Locks
    BY <1>1, Arguments
  <1>3. PICK a, b, c : a = step[1] /\ b = step[2] /\ c = step[3]
    OBVIOUS
  <1>4. CASE a = "Fork" /\ Fork(b)
    BY <1>2, <1>3, <1>4 DEF Next
  <1>5. CASE a = "Yield" /\ IF readyList # <<>> THEN Yield ELSE UNCHANGED vars
    BY <1>5 DEF Next
  <1>6. CASE (a = "P" /\ P(b)) \/ (a = "V" /\ V(b))
    BY <1>2, <1>3, <1>6 DEF Next
  <1>7. CASE (a = "Acquire" /\ Acquire(b)) \/ (a = "Release" /\ Release(b))
    BY <1>2, <1>3, <1>7 DEF Next
  <1>8. CASE a = "Wait" /\ Wait(b, c)
    BY <1>2, <1>3, <1>8 DEF Next
  <1>9. CASE a = "Signal" /\ IF NobodyToWake(b, c) THEN UNCHANGED vars ELSE Signal(b, c)
    BY <1>2, <1>3, <1>9 DEF Next
  <1>10. CASE a = "Broadcast" /\ IF NobodyToWake(b, c) THEN UNCHANGED vars ELSE Broadcast(b, c)
    BY <1>2, <1>3, <1>10 DEF Next
  <1> QED BY <1>3, <1>4, <1>5, <1>6, <1>7, <1>8, <1>9, <1>10 DEF Calls

LEMMA StepsOfSynch ==
    ASSUME TypeOK, ScriptsOK, [TestsNext]_allVars
    PROVE  [Next]_vars
  <1>0. UNCHANGED allVars => UNCHANGED vars
    BY DEF allVars, programVars
  <1>1. CASE SynchStep
    BY <1>1, CallsAreSteps DEF SynchStep
  <1>2. CASE Between
    BY <1>2 DEF Between, Next, Ends
  <1>3. CASE AnyUse
    <2>1. Crew[1] \in Threads /\ Crew[2] \in Threads
      <3>1. Len(Crew) \in Nat /\ DOMAIN Crew = 1..Len(Crew)
        BY ProgramsAssumption, LenProperties
      <3> QED BY <3>1, ProgramsAssumption
    <2>2. "s1" \in Sems
      BY ProgramsAssumption
    <2>3. ASSUME NEW k \in 1..2, Fork(Crew[k]) PROVE Next
      <3>1. Crew[k] \in Threads
        BY <2>1
      <3> QED BY <2>3, <3>1 DEF Next
    <2>4. CASE P("s1") \/ V("s1")
      BY <2>2, <2>4 DEF Next
    <2>5. CASE \E l \in Locks : Acquire(l) \/ Release(l)
      BY <2>5 DEF Next
    <2>6. CASE \E c \in Conds, l \in Locks : Wait(c, l) \/ Signal(c, l) \/ Broadcast(c, l)
      BY <2>6 DEF Next
    <2> QED BY <1>3, <2>3, <2>4, <2>5, <2>6 DEF AnyUse
  <1>4. CASE ListStep
    <2>1. CASE AppendItem \/ RemoveItem
      BY <2>1 DEF AppendItem, RemoveItem
    <2>2. CASE WaitForItem
      BY <2>2, ProgramsAssumption DEF WaitForItem, Next
    <2> QED BY <1>4, <2>1, <2>2 DEF ListStep
  <1>5. CASE ConsoleStep
    BY <1>5 DEF ConsoleStep, GetOne, EchoIt, UntilQuit, ReadChar, Put
  <1>6. CASE CheckCharAvail \/ WriteDone
    BY <1>6, ProgramsAssumption DEF CheckCharAvail, WriteDone, Next
  <1>7. CASE FileStep
    BY <1>7 DEF FileStep
  <1> QED BY <1>0, <1>1, <1>2, <1>3, <1>4, <1>5, <1>6, <1>7 DEF TestsNext

\* What a thread has yet to do stays made of these calls.
LEMMA ContinueKeeps ==
    ASSUME ScriptsOK, me \in Threads, UNCHANGED test, NEW s \in Seq(AllCalls), Continue(s),
           test # "files" => s \in Seq(OtherCalls)
    PROVE  ScriptsOK'
  BY DEF ScriptsOK, Continue

LEMMA StepDoneKeeps ==
    ASSUME TypeOK, ScriptsOK, HasStep, StepDone, UNCHANGED test
    PROVE  ScriptsOK'
  BY CurrentScript, ContinueKeeps DEF StepDone

LEMMA StayKeeps == ScriptsOK /\ UNCHANGED <<test, script>> => ScriptsOK'
  BY DEF ScriptsOK

LEMMA ScriptsKept == TypeOK /\ ScriptsOK /\ [TestsNext]_allVars => ScriptsOK'
  <1> SUFFICES ASSUME TypeOK, ScriptsOK, [TestsNext]_allVars PROVE ScriptsOK'
    OBVIOUS
  <1>a. \A s \in Seq(OtherCalls) : s \in Seq(AllCalls)
    BY SeqMonotonic DEF AllCalls
  <1>0. CASE UNCHANGED allVars
    BY <1>0, StayKeeps DEF allVars, programVars
  <1>1. CASE SynchStep
    BY <1>1, StepDoneKeeps DEF SynchStep
  <1>2. CASE Between \/ AnyUse
    BY <1>2, StayKeeps DEF Between, AnyUse
  <1>3. CASE ListStep
    <2>1. CASE AppendItem \/ RemoveItem
      BY <1>3, <2>1, StepDoneKeeps DEF ListStep, AppendItem, RemoveItem
    <2>2. CASE WaitForItem
      BY <1>3, <2>2, StayKeeps DEF ListStep, WaitForItem
    <2> QED BY <1>3, <2>1, <2>2 DEF ListStep
  <1>4. CASE ConsoleStep
    <2>1. CASE GetOne \/ EchoIt \/ Put
      BY <1>4, <2>1, StepDoneKeeps DEF ConsoleStep, GetOne, EchoIt, Put
    <2>2. CASE UntilQuit
      <3>1. <<>> \in Seq(OtherCalls)
        BY EmptySeq
      <3>2. Echo \in Seq(OtherCalls)
        BY DEF Echo, OtherCalls, SynchCalls, ConsoleCalls
      <3>3. PICK s \in {<<>>, Echo} : Continue(s)
        BY <2>2 DEF UntilQuit
      <3> QED BY <1>a, <1>4, <3>1, <3>2, <3>3, CurrentScript, ContinueKeeps DEF ConsoleStep
    <2>3. CASE ReadChar
      <3>1. CASE StepDone
        BY <1>4, <3>1, StepDoneKeeps DEF ConsoleStep
      <3>2. CASE Continue(<< <<"P", "s1">> >> \o script[me])
        <4>1. << <<"P", "s1">> >> \in Seq(OtherCalls)
          BY DEF OtherCalls, SynchCalls
        <4>2. /\ << <<"P", "s1">> >> \o script[me] \in Seq(AllCalls)
              /\ test # "files" => << <<"P", "s1">> >> \o script[me] \in Seq(OtherCalls)
          BY <1>a, <1>4, <4>1, CurrentScript, ConcatProperties DEF ConsoleStep
        <4> QED BY <1>4, <3>2, <4>2, CurrentScript, ContinueKeeps DEF ConsoleStep
      <3> QED BY <2>3, <3>1, <3>2 DEF ReadChar
    <2> QED BY <1>4, <2>1, <2>2, <2>3 DEF ConsoleStep
  <1>5. CASE CheckCharAvail \/ WriteDone
    BY <1>5, StayKeeps DEF CheckCharAvail, WriteDone
  <1>6. CASE FileStep
    <2>1. CASE StepDone
      BY <1>6, <2>1, StepDoneKeeps DEF FileStep
    <2>2. ASSUME NEW n \in Nat \ {0}, Continue(SubSeq(script[me], n, Len(script[me]))) PROVE ScriptsOK'
      <3>1. /\ SubSeq(script[me], n, Len(script[me])) \in Seq(AllCalls)
            /\ test # "files" => SubSeq(script[me], n, Len(script[me])) \in Seq(OtherCalls)
        BY <1>6, CurrentScript, SubSeqProperties, LenProperties DEF FileStep
      <3> QED BY <1>6, <2>2, <3>1, CurrentScript, ContinueKeeps DEF FileStep
    <2>3. Len(Open) + 1 \in Nat \ {0} /\ Len(Close) + 1 \in Nat \ {0}
      BY DEF Open, Close
    <2> QED BY <1>6, <2>1, <2>2, <2>3 DEF FileStep, OpenFile, Find, Store, Use, CloseFile, Clear, Delete
  <1> QED BY <1>0, <1>1, <1>2, <1>3, <1>4, <1>5, <1>6 DEF TestsNext

LEMMA InitScripts == TestsInit => ScriptsOK
  BY SuiteRight, LoadRight DEF TestsInit, ScriptsOK

\* The kernel's programs, each thread with its script, use threads, locks, conditions and
\* semaphores as Synch says; nothing else touches them.
THEOREM TestsRunSynch == TestsSpec => Spec
  <1>1. TestsInit => Init /\ TypeOK /\ ScriptsOK
    BY InitScripts, InitPlaces DEF TestsInit
  <1>2. TypeOK /\ ScriptsOK /\ [TestsNext]_allVars => [Next]_vars
    BY StepsOfSynch
  <1>3. TypeOK /\ ScriptsOK /\ [TestsNext]_allVars => TypeOK' /\ ScriptsOK'
    BY <1>2, TypesKept, ScriptsKept
  <1> QED BY <1>1, <1>2, <1>3, PTL DEF TestsSpec, Spec

\* So while the kernel tests itself no thread is lost or in two places, hand-offs make owners,
\* no V is lost, and locks and conditions are a monitor's.
THEOREM TestsKeepSynch ==
    TestsSpec => /\ []EachThreadInOnePlace /\ []LocksConsistent /\ []NoLostV
                 /\ ImplementsMonitor
  BY TestsRunSynch, ThreadInOnePlace, LocksStayConsistent, VNotLost, MonitorImplemented, PTL

-----------------------------------------------------------------------------
(* The table of open files.  A thread of that test is known by the number of *)
(* calls it has left: 11 before it opens its file, 10 to 7 while the file is  *)
(* in its variable, 8 to 3 while it has a slot, 6 to 3 while the slot has the *)
(* file, 2 and 1 between the removal from the table and the deletion.         *)

Rest(k) == SubSeq(OpenUseClose, k, 11)
Left(t) == IF t = Main THEN 0 ELSE Len(script[t])

FileScripts ==
    /\ script[Main] \in Seq(ForkCalls)
    /\ \A t \in Threads : t # Main =>
          /\ Len(script[t]) \in 0..11
          /\ script[t] = Rest(12 - Len(script[t]))

InHand(t) == Left(t) \in {10, 9, 8, 7, 2, 1}
HasSlot(t) == Left(t) \in 3..8 /\ id[t] # -1
Stored(t) == Left(t) \in 3..6 /\ id[t] # -1

FileTypes ==
    /\ map \subseteq Slots
    /\ table \in [Slots -> Threads \cup {NoFile, Unwritten}]
    /\ opened \subseteq Threads
    /\ file \in [Threads -> Threads \cup {NoFile}]
    /\ id \in [Threads -> Slots \cup {-1}]
    /\ used \in [Threads -> Threads \cup {NoFile}]

OwnFile(t) ==
    /\ file[t] = IF InHand(t) THEN t ELSE NoFile
    /\ t \in opened <=> InHand(t) \/ Stored(t)
    /\ Left(t) \in 9..11 => id[t] = -1
    /\ Left(t) \in {3, 4} => id[t] # -1
    /\ Left(t) >= 6 => used[t] = NoFile
    /\ Left(t) = 5 => used[t] = IF id[t] = -1 THEN NoFile ELSE t
OwnFiles == \A t \in Threads : OwnFile(t)

\* A marked slot has one owner at most, and holds its owner's file once that is stored. What the
\* memory held before, only a slot that is free or that an owner is about to fill holds.
HoldsFor(t) == IF Stored(t) THEN table[id[t]] = t ELSE table[id[t]] \in {NoFile, Unwritten}
OwnSlots ==
    /\ \A t \in Threads : HasSlot(t) => id[t] \in map /\ HoldsFor(t)
    /\ \A t, u \in Threads : HasSlot(t) /\ HasSlot(u) /\ id[t] = id[u] => t = u
    /\ \A i \in Slots : table[i] \in Threads => \E t \in Threads : Stored(t) /\ id[t] = i
    /\ \A i \in map : table[i] = Unwritten => \E t \in Threads : HasSlot(t) /\ id[t] = i

FilesUnused ==
    /\ map = {0, 1} /\ table[0] = NoFile /\ table[1] = NoFile /\ opened = {}
    /\ script \in [Threads -> Seq(OtherCalls)]

FilesOK == IF test = "files" THEN FileTypes /\ FileScripts /\ OwnFiles /\ OwnSlots ELSE FilesUnused

LEMMA JoinLiterals ==
    ASSUME NEW a, NEW b, NEW c, NEW d, NEW e, NEW f, NEW g, NEW h, NEW i, NEW j, NEW k
    PROVE  (<<a, b, c, d, e>> \o <<f>>) \o <<g, h, i, j, k>> = <<a, b, c, d, e, f, g, h, i, j, k>>
  <1>1. PICK S : S = {a, b, c, d, e, f, g, h, i, j, k}
    OBVIOUS
  <1>2. PICK p : p = <<a, b, c, d, e>>
    OBVIOUS
  <1>3. PICK q : q = <<f>>
    OBVIOUS
  <1>4. PICK r : r = <<g, h, i, j, k>>
    OBVIOUS
  <1>5. PICK all : all = <<a, b, c, d, e, f, g, h, i, j, k>>
    OBVIOUS
  <1>6. p \in Seq(S) /\ Len(p) = 5 /\ p[1] = a /\ p[2] = b /\ p[3] = c /\ p[4] = d /\ p[5] = e
    BY <1>1, <1>2
  <1>7. q \in Seq(S) /\ Len(q) = 1 /\ q[1] = f
    BY <1>1, <1>3
  <1>8. r \in Seq(S) /\ Len(r) = 5 /\ r[1] = g /\ r[2] = h /\ r[3] = i /\ r[4] = j /\ r[5] = k
    BY <1>1, <1>4
  <1>9. /\ all \in Seq(S) /\ Len(all) = 11
        /\ all[1] = a /\ all[2] = b /\ all[3] = c /\ all[4] = d /\ all[5] = e /\ all[6] = f
        /\ all[7] = g /\ all[8] = h /\ all[9] = i /\ all[10] = j /\ all[11] = k
    BY <1>1, <1>5
  <1>10. /\ p \o q \in Seq(S) /\ Len(p \o q) = 6
         /\ \A n \in 1..6 : (p \o q)[n] = IF n <= 5 THEN p[n] ELSE q[n - 5]
    <2>1. /\ p \o q \in Seq(S) /\ Len(p \o q) = Len(p) + Len(q)
          /\ \A n \in 1..Len(p) + Len(q) : (p \o q)[n] = IF n <= Len(p) THEN p[n] ELSE q[n - Len(p)]
      BY <1>6, <1>7, ConcatProperties, Zenon
    <2>2. Len(p) = 5 /\ Len(q) = 1
      BY <1>6, <1>7
    <2> QED BY <2>1, <2>2
  <1>11. PICK u : u = p \o q
    OBVIOUS
  <1>12. PICK t : t = u \o r
    OBVIOUS
  <1>13. /\ t \in Seq(S) /\ Len(t) = 11
         /\ t[1] = a /\ t[2] = b /\ t[3] = c /\ t[4] = d /\ t[5] = e /\ t[6] = f
         /\ t[7] = g /\ t[8] = h /\ t[9] = i /\ t[10] = j /\ t[11] = k
    <2>1. u \in Seq(S) /\ Len(u) = 6
      BY <1>10, <1>11
    <2>2. /\ u \o r \in Seq(S) /\ Len(u \o r) = Len(u) + Len(r)
          /\ \A n \in 1..Len(u) + Len(r) : (u \o r)[n] = IF n <= Len(u) THEN u[n] ELSE r[n - Len(u)]
      BY <1>8, <2>1, ConcatProperties, Zenon
    <2>3. /\ t \in Seq(S) /\ Len(t) = 11
          /\ \A n \in 1..11 : t[n] = IF n <= 6 THEN u[n] ELSE r[n - 6]
      <3>1. Len(r) = 5 /\ Len(u) = 6
        BY <1>8, <2>1
      <3>2. /\ t \in Seq(S) /\ Len(t) = Len(u) + Len(r)
            /\ \A n \in 1..Len(u) + Len(r) : t[n] = IF n <= Len(u) THEN u[n] ELSE r[n - Len(u)]
        BY <1>12, <2>2, Zenon
      <3> QED BY <3>1, <3>2
    <2>4. u[1] = a /\ u[2] = b /\ u[3] = c /\ u[4] = d /\ u[5] = e /\ u[6] = f
      BY <1>6, <1>7, <1>10, <1>11
    <2> QED BY <1>8, <2>3, <2>4
  <1>14. ASSUME NEW n \in 1..11 PROVE t[n] = all[n]
    <2>1. n \in {1, 2, 3, 4, 5, 6, 7, 8, 9, 10, 11}
      OBVIOUS
    <2> QED BY <1>9, <1>13, <2>1
  <1>15. t = all
    BY <1>9, <1>13, <1>14, SeqEqual
  <1> QED BY <1>2, <1>3, <1>4, <1>5, <1>11, <1>12, <1>15, Zenon

LEMMA WholeScript ==
    /\ OpenUseClose = << <<"open">>, <<"Acquire", "l1">>, <<"find">>, <<"Release", "l1">>,
                         <<"store">>, <<"use">>, <<"close">>, <<"Acquire", "l1">>, <<"clear">>,
                         <<"Release", "l1">>, <<"delete">> >>
    /\ OpenUseClose \in Seq(AllCalls) /\ Len(OpenUseClose) = 11
    /\ Close = Rest(7) /\ Len(Open) = 5 /\ Len(Close) = 5
  <1>1. OpenUseClose = << <<"open">>, <<"Acquire", "l1">>, <<"find">>, <<"Release", "l1">>,
                         <<"store">>, <<"use">>, <<"close">>, <<"Acquire", "l1">>, <<"clear">>,
                         <<"Release", "l1">>, <<"delete">> >>
    BY JoinLiterals DEF OpenUseClose, Open, Close
  <1>2. OpenUseClose \in Seq(AllCalls) /\ Len(OpenUseClose) = 11
    BY <1>1 DEF AllCalls, OtherCalls, SynchCalls, FileCalls
  <1>3. Close = Rest(7)
    BY <1>1 DEF Close, Rest
  <1>4. Len(Open) = 5 /\ Len(Close) = 5
    BY DEF Open, Close
  <1> QED BY <1>1, <1>2, <1>3, <1>4

LEMMA RestParts ==
    /\ \A k \in 1..12 : Rest(k) \in Seq(AllCalls) /\ Len(Rest(k)) = 12 - k
    /\ \A k \in 1..11 : /\ Rest(k) # <<>> /\ Head(Rest(k)) = OpenUseClose[k]
                        /\ Tail(Rest(k)) = Rest(k + 1)
    /\ SubSeq(Rest(1), 6, 11) = Rest(6) /\ SubSeq(Rest(7), 6, 5) = Rest(12) /\ Rest(12) = <<>>
    /\ Rest(1) = OpenUseClose
  <1>0. \A i \in 1..11 : OpenUseClose[i] \in AllCalls
    BY WholeScript, ElementOfSeq
  <1>1. ASSUME NEW k \in 1..12
        PROVE  Rest(k) \in Seq(AllCalls) /\ Len(Rest(k)) = 12 - k
    <2>1. \A i \in k..11 : OpenUseClose[i] \in AllCalls
      BY <1>0
    <2>2. k \in Int /\ 11 \in Int
      OBVIOUS
    <2>3. /\ SubSeq(OpenUseClose, k, 11) \in Seq(AllCalls)
          /\ Len(SubSeq(OpenUseClose, k, 11)) = IF k <= 11 THEN 11 - k + 1 ELSE 0
      BY <2>1, <2>2, SubSeqProperties
    <2> QED BY <2>3 DEF Rest
  <1>2. ASSUME NEW k \in 1..11
        PROVE  /\ Rest(k) # <<>> /\ Head(Rest(k)) = OpenUseClose[k]
               /\ Tail(Rest(k)) = Rest(k + 1)
    <2>1. k \in 1..Len(OpenUseClose) /\ 11 \in k..Len(OpenUseClose)
      BY WholeScript
    <2>2. /\ Head(SubSeq(OpenUseClose, k, 11)) = OpenUseClose[k]
          /\ Tail(SubSeq(OpenUseClose, k, 11)) = SubSeq(OpenUseClose, k + 1, 11)
      BY <2>1, WholeScript, HeadTailOfSubSeq
    <2>3. Rest(k) # <<>>
      <3>1. k \in 1..12 /\ 12 - k # 0
        OBVIOUS
      <3>2. Len(Rest(k)) = 12 - k
        BY <1>1, <3>1, Zenon
      <3>3. Len(<<>>) = 0
        OBVIOUS
      <3> QED BY <3>1, <3>2, <3>3, Zenon
    <2> QED BY <2>2, <2>3 DEF Rest
  <1>3. Rest(1) = OpenUseClose
    BY WholeScript, SubSeqFull DEF Rest
  <1>4. Rest(12) = <<>>
    BY <1>1, EmptySeq
  <1>5. SubSeq(Rest(7), 6, 5) = <<>>
    BY <1>1, SubSeqEmpty
  <1> QED BY <1>1, <1>2, <1>3, <1>4, <1>5 DEF Rest

LEMMA Lengths ==
    /\ Len(Rest(1)) = 11 /\ Len(Rest(7)) = 5 /\ Len(Rest(12)) = 0
    /\ Len(Open) + 1 = 6 /\ Len(Close) + 1 = 6
  <1>1. \A k \in 1..12 : Len(Rest(k)) = 12 - k
    BY RestParts
  <1>2. Len(Open) + 1 = 6 /\ Len(Close) + 1 = 6
    BY DEF Open, Close
  <1>3. 1 \in 1..12 /\ 7 \in 1..12 /\ 12 \in 1..12 /\ 12 - 1 = 11 /\ 12 - 7 = 5 /\ 12 - 12 = 0
    OBVIOUS
  <1>4. Len(Rest(1)) = 12 - 1 /\ Len(Rest(7)) = 12 - 7 /\ Len(Rest(12)) = 12 - 12
    BY <1>1, <1>3, Zenon
  <1> QED BY <1>2, <1>3, <1>4

\* The call that a thread of the test makes, by how many it has left.
LEMMA CallAt ==
    ASSUME TypeOK, FileScripts, HasStep, me # Main
    PROVE  /\ me \in Threads /\ Left(me) \in 1..11 /\ script[me] = Rest(12 - Left(me))
           /\ step[1] = "open" <=> Left(me) = 11
           /\ step[1] = "find" <=> Left(me) = 9
           /\ step[1] = "store" <=> Left(me) = 7
           /\ step[1] = "use" <=> Left(me) = 6
           /\ step[1] = "close" <=> Left(me) = 5
           /\ step[1] = "clear" <=> Left(me) = 3
           /\ step[1] = "delete" <=> Left(me) = 1
           /\ step[1] \in {"Acquire", "Release"} <=> Left(me) \in {10, 8, 4, 2}
  <1>1. me \in Threads /\ Left(me) = Len(script[me]) /\ Left(me) \in 0..11 /\ script[me] = Rest(12 - Left(me))
    BY DEF TypeOK, me, FileScripts, Left
  <1>2. Left(me) # 0
    BY <1>1, RestParts DEF HasStep
  <1>3. PICK n \in 1..11 : Left(me) = n
    BY <1>1, <1>2
  <1>4. 12 - n \in 1..11 /\ script[me] = Rest(12 - n)
    BY <1>1, <1>3
  <1>5. step = OpenUseClose[12 - n]
    BY <1>4, RestParts DEF step
  <1>6. n \in {1, 2, 3, 4, 5, 6, 7, 8, 9, 10, 11}
    OBVIOUS
  <1>7. step[1] = << "delete", "Release", "clear", "Acquire", "close", "use", "store", "Release", "find",
                     "Acquire", "open" >>[n]
    BY <1>5, <1>6, WholeScript
  <1>8. /\ step[1] = "open" <=> n = 11
        /\ step[1] = "find" <=> n = 9
        /\ step[1] = "store" <=> n = 7
        /\ step[1] = "use" <=> n = 6
        /\ step[1] = "close" <=> n = 5
        /\ step[1] = "clear" <=> n = 3
        /\ step[1] = "delete" <=> n = 1
        /\ step[1] \in {"Acquire", "Release"} <=> n \in {10, 8, 4, 2}
    BY <1>6, <1>7
  <1> QED BY <1>1, <1>3, <1>8

\* What is left of it after that.
LEMMA GoesOn ==
    ASSUME ScriptsOK, FileScripts, NEW p \in Threads, p # Main, NEW m \in 0..11,
           script' = [script EXCEPT ![p] = Rest(12 - m)]
    PROVE  FileScripts' /\ Left(p)' = m /\ \A t \in Threads \ {p} : Left(t)' = Left(t)
  <1>1. script \in [Threads -> Seq(AllCalls)]
    BY DEF ScriptsOK
  <1>2. PICK k \in 1..12 : k = 12 - m
    OBVIOUS
  <1>3. Len(Rest(k)) = m /\ 12 - m = k
    <2>1. 12 - m = k /\ 12 - k = m
      BY <1>2
    <2> QED BY <2>1, RestParts
  <1>4. script'[p] = Rest(k) /\ \A t \in Threads \ {p} : script'[t] = script[t]
    BY <1>1, <1>3
  <1>5. Left(p)' = m
    BY <1>3, <1>4 DEF Left
  <1>6. \A t \in Threads \ {p} : Left(t)' = Left(t)
    BY <1>4 DEF Left
  <1>7. FileScripts'
    BY <1>3, <1>4, SynchAssumption DEF FileScripts
  <1> QED BY <1>5, <1>6, <1>7

LEMMA CallGone ==
    ASSUME TypeOK, ScriptsOK, FileScripts, HasStep, StepDone, NEW p, p = me, p # Main
    PROVE  /\ FileScripts' /\ Left(p)' = Left(p) - 1
           /\ \A t \in Threads \ {p} : Left(t)' = Left(t)
  <1>1. PICK n \in 1..11 : Left(p) = n /\ script[p] = Rest(12 - n)
    BY CallAt
  <1>2. p \in Threads
    BY DEF TypeOK, me
  <1>3. PICK m \in 0..11 : m = n - 1
    OBVIOUS
  <1>4. Tail(script[p]) = Rest(12 - m)
    <2>1. 12 - n \in 1..11 /\ (12 - n) + 1 = 12 - m
      BY <1>3
    <2>2. Tail(Rest(12 - n)) = Rest((12 - n) + 1)
      BY <2>1, RestParts
    <2> QED BY <1>1, <2>1, <2>2
  <1>5. script' = [script EXCEPT ![p] = Rest(12 - m)]
    BY <1>4 DEF StepDone, Continue
  <1> QED BY <1>1, <1>2, <1>3, <1>5, GoesOn

\* The main thread forks the others, and calls nothing else.
LEMMA MainForks ==
    ASSUME TypeOK, ScriptsOK, FileScripts, HasStep, me = Main
    PROVE  /\ step[1] = "Fork"
           /\ StepDone => FileScripts' /\ \A t \in Threads : Left(t)' = Left(t)
  <1>1. script[Main] \in Seq(ForkCalls) /\ script[Main] # <<>> /\ Main \in Threads
    BY SynchAssumption DEF FileScripts, HasStep
  <1>2. Head(script[Main]) \in ForkCalls /\ Tail(script[Main]) \in Seq(ForkCalls)
    BY <1>1, HeadTailProperties
  <1>3. step[1] = "Fork"
    BY <1>2 DEF step, ForkCalls
  <1>4. ASSUME StepDone PROVE FileScripts' /\ \A t \in Threads : Left(t)' = Left(t)
    <2>1. script'[Main] = Tail(script[Main]) /\ \A t \in Threads \ {Main} : script'[t] = script[t]
      BY <1>1, <1>4 DEF StepDone, Continue, ScriptsOK
    <2> QED BY <1>2, <2>1 DEF FileScripts, Left
  <1> QED BY <1>3, <1>4

FilesOfTest == FileTypes /\ FileScripts /\ OwnFiles /\ OwnSlots

LEMMA Counts == ASSUME FileScripts PROVE \A t \in Threads : Left(t) \in 0..11
  BY DEF FileScripts, Left

Shows(t) == /\ InHand(t)' <=> InHand(t)
            /\ HasSlot(t)' <=> HasSlot(t)
            /\ Stored(t)' <=> Stored(t)

\* A step that changes only how many calls are left.
LEMMA OnlyCounts ==
    ASSUME FilesOfTest, UNCHANGED fileVars, FileScripts',
           \A t \in Threads : \/ Left(t)' = Left(t)
                              \/ Left(t) \in {10, 8, 4, 2} /\ Left(t)' = Left(t) - 1
    PROVE  FilesOfTest'
  <1>1. \A t \in Threads : Left(t) \in 0..11
    BY Counts DEF FilesOfTest
  <1>2. UNCHANGED <<map, table, opened, file, id, used>>
    BY DEF fileVars
  <1>3. \A t \in Threads : Shows(t)
    BY <1>1, <1>2 DEF InHand, HasSlot, Stored, Shows
  <1>4. FileTypes'
    BY <1>2 DEF FilesOfTest, FileTypes
  <1>5. ASSUME NEW t \in Threads PROVE OwnFile(t)'
    <2>1. /\ Left(t)' \in 9..11 => Left(t) \in 9..11
          /\ Left(t)' \in {3, 4} => Left(t) \in {3, 4}
          /\ Left(t)' >= 6 => Left(t) >= 6
          /\ Left(t)' = 5 => Left(t) = 5
      BY <1>1
    <2>2. OwnFile(t)
      BY DEF FilesOfTest, OwnFiles
    <2> QED BY <1>2, <1>3, <2>1, <2>2 DEF OwnFile, Shows
  <1>6. OwnFiles'
    BY <1>5 DEF OwnFiles
  <1>7. OwnSlots'
    BY <1>2, <1>3 DEF FilesOfTest, OwnSlots, HoldsFor, Shows
  <1> QED BY <1>4, <1>6, <1>7 DEF FilesOfTest

\* A step of one thread, of which the others see at most what it does to slots that are not theirs.
LEMMA OneOwner ==
    ASSUME FilesOfTest, FileScripts', FileTypes', NEW p \in Threads,
           \A t \in Threads \ {p} :
              /\ Left(t)' = Left(t)
              /\ file'[t] = file[t] /\ id'[t] = id[t] /\ used'[t] = used[t]
              /\ t \in opened' <=> t \in opened
              /\ HasSlot(t) => id[t] \in map' /\ table'[id[t]] = table[id[t]],
           OwnFile(p)',
           HasSlot(p)' => /\ id'[p] \in map' /\ HoldsFor(p)'
                          /\ \A t \in Threads \ {p} : HasSlot(t) => id[t] # id'[p],
           \A i \in Slots : table'[i] \in Threads =>
              \/ table'[i] = table[i] /\ (Stored(p) /\ id[p] = i => Stored(p)' /\ id'[p] = i)
              \/ Stored(p)' /\ id'[p] = i,
           \A i \in map' : table'[i] = Unwritten =>
              \/ /\ i \in map /\ table'[i] = table[i]
                 /\ HasSlot(p) /\ id[p] = i => HasSlot(p)' /\ id'[p] = i
              \/ HasSlot(p)' /\ id'[p] = i
    PROVE  FilesOfTest'
  <1>1. \A t \in Threads \ {p} : Shows(t)
    BY DEF InHand, HasSlot, Stored, Shows
  <1>2. ASSUME NEW t \in Threads \ {p} PROVE OwnFile(t)'
    <2>1. OwnFile(t)
      BY DEF FilesOfTest, OwnFiles
    <2> QED BY <1>1, <2>1 DEF OwnFile, Shows
  <1>3. OwnFiles'
    BY <1>2 DEF OwnFiles
  <1>4. ASSUME NEW t \in Threads, HasSlot(t)'
        PROVE  id'[t] \in map' /\ HoldsFor(t)'
    <2>1. CASE t # p
      <3>1. HasSlot(t) /\ id[t] \in map' /\ table'[id[t]] = table[id[t]] /\ id'[t] = id[t]
        BY <1>1, <1>4, <2>1 DEF Shows
      <3>2. HoldsFor(t)
        BY <3>1 DEF FilesOfTest, OwnSlots
      <3> QED BY <1>1, <2>1, <3>1, <3>2 DEF Shows, HoldsFor
    <2> QED BY <1>4, <2>1
  <1>5. \A t, u \in Threads : HasSlot(t)' /\ HasSlot(u)' /\ id'[t] = id'[u] => t = u
    BY <1>1 DEF FilesOfTest, OwnSlots, Shows
  <1>6. \A i \in Slots : table'[i] \in Threads => \E t \in Threads : Stored(t)' /\ id'[t] = i
    BY <1>1 DEF FilesOfTest, OwnSlots, Shows
  <1>8. \A i \in map' : table'[i] = Unwritten => \E t \in Threads : HasSlot(t)' /\ id'[t] = i
    BY <1>1 DEF FilesOfTest, OwnSlots, Shows
  <1>7. OwnSlots'
    BY <1>4, <1>5, <1>6, <1>8 DEF OwnSlots, Slots
  <1> QED BY <1>3, <1>7 DEF FilesOfTest

\* The seven steps on the table, by a thread p with n calls left.
LEMMA FileStepKeeps ==
    ASSUME TypeOK, ScriptsOK, FilesOfTest, FileStep
    PROVE  FilesOfTest'
  <1>0. HasStep /\ FileScripts /\ FileTypes
    BY DEF FileStep, FilesOfTest
  <1>1. step[1] \in {"open", "find", "store", "use", "close", "clear", "delete"}
    BY DEF FileStep, OpenFile, Find, Store, Use, CloseFile, Clear, Delete
  <1>2. PICK p \in Threads : p = me
    BY DEF TypeOK, me
  <1>3. p # Main
    BY <1>0, <1>1, <1>2, MainForks
  <1>4. PICK n \in 1..11 : Left(p) = n /\ script[p] = Rest(12 - n)
    BY <1>0, <1>2, <1>3, CallAt
  <1>5. /\ step[1] = "open" => n = 11
        /\ step[1] = "find" => n = 9
        /\ step[1] = "store" => n = 7
        /\ step[1] = "use" => n = 6
        /\ step[1] = "close" => n = 5
        /\ step[1] = "clear" => n = 3
        /\ step[1] = "delete" => n = 1
    BY <1>0, <1>2, <1>3, <1>4, CallAt
  <1>6. OwnFile(p)
    BY DEF FilesOfTest, OwnFiles
  <1>7. ASSUME StepDone
        PROVE  FileScripts' /\ Left(p)' = n - 1 /\ \A t \in Threads \ {p} : Left(t)' = Left(t)
    BY <1>0, <1>2, <1>3, <1>4, <1>7, CallGone
  <1>8. ASSUME NEW m \in 0..11, NEW k, k = 12 - m, Continue(Rest(k))
        PROVE  FileScripts' /\ Left(p)' = m /\ \A t \in Threads \ {p} : Left(t)' = Left(t)
    BY <1>0, <1>2, <1>3, <1>8, GoesOn DEF Continue
  <1>9. ASSUME NEW t \in Threads, HasSlot(t)
        PROVE  id[t] \in map /\ id[t] \in Slots
    BY <1>0, <1>9 DEF FilesOfTest, OwnSlots, FileTypes, HasSlot
  <1>17. map \subseteq Slots
    BY <1>0 DEF FileTypes
  <1>10. CASE OpenFile
    <2>1. n = 11 /\ id[p] = -1 /\ UNCHANGED <<map, table, used>>
      BY <1>4, <1>5, <1>6, <1>10 DEF OpenFile, OwnFile
    <2>2. CASE opened' = opened \cup {me} /\ file' = [file EXCEPT ![me] = me] /\ StepDone /\ UNCHANGED id
      <3>1. FileScripts' /\ Left(p)' = 10 /\ \A t \in Threads \ {p} : Left(t)' = Left(t)
        BY <1>7, <2>1, <2>2
      <3>2. FileTypes'
        BY <1>0, <1>2, <2>1, <2>2 DEF FileTypes
      <3>3. OwnFile(p)' /\ ~HasSlot(p)' /\ ~HasSlot(p) /\ ~Stored(p)
        BY <1>0, <1>2, <1>4, <1>6, <2>1, <2>2, <3>1 DEF OwnFile, InHand, HasSlot, Stored, FileTypes
      <3>4. \A t \in Threads \ {p} : file'[t] = file[t] /\ (t \in opened' <=> t \in opened)
        BY <1>0, <1>2, <2>2 DEF FileTypes
      <3> QED BY <1>9, <2>1, <2>2, <3>1, <3>2, <3>3, <3>4, OneOwner
    <2>3. CASE /\ id' = [id EXCEPT ![me] = -1] /\ UNCHANGED <<opened, file>>
               /\ Continue(SubSeq(script[me], Len(Open) + 1, Len(script[me])))
      <3>1. SubSeq(script[me], Len(Open) + 1, Len(script[me])) = Rest(6)
        <4>1. script[me] = Rest(1) /\ Len(script[me]) = 11 /\ Len(Open) + 1 = 6
          BY <1>2, <1>4, <2>1, WholeScript, RestParts
        <4> QED BY <4>1, RestParts, Zenon
      <3>2. FileScripts' /\ Left(p)' = 6 /\ \A t \in Threads \ {p} : Left(t)' = Left(t)
        <4>1. Continue(Rest(6))
          BY <2>3, <3>1, Zenon
        <4> QED BY <1>8, <4>1
      <3>3. FileTypes' /\ UNCHANGED id
        BY <1>0, <1>2, <2>1, <2>3 DEF FileTypes
      <3>4. OwnFile(p)' /\ ~HasSlot(p)' /\ ~HasSlot(p) /\ ~Stored(p)
        BY <1>4, <1>6, <2>1, <2>3, <3>2, <3>3 DEF OwnFile, InHand, HasSlot, Stored
      <3> QED BY <1>9, <2>1, <2>3, <3>2, <3>3, <3>4, OneOwner
    <2> QED BY <1>10, <2>2, <2>3 DEF OpenFile
  <1>11. CASE Find
    <2>1. n = 9 /\ UNCHANGED <<table, opened, file, used>> /\ StepDone
      BY <1>5, <1>11 DEF Find
    <2>2. FileScripts' /\ Left(p)' = 8 /\ \A t \in Threads \ {p} : Left(t)' = Left(t)
      BY <1>7, <2>1
    <2>3. CASE id' = [id EXCEPT ![me] = -1] /\ UNCHANGED map
      <3>1. FileTypes' /\ id'[p] = -1 /\ \A t \in Threads \ {p} : id'[t] = id[t]
        BY <1>0, <1>2, <2>1, <2>3 DEF FileTypes
      <3>2. OwnFile(p)' /\ ~HasSlot(p)' /\ ~HasSlot(p) /\ ~Stored(p)
        BY <1>4, <1>6, <2>1, <2>2, <3>1 DEF OwnFile, InHand, HasSlot, Stored
      <3> QED BY <1>9, <2>1, <2>2, <2>3, <3>1, <3>2, OneOwner
    <2>4. ASSUME NEW i \in Slots \ map, id' = [id EXCEPT ![me] = i], map' = map \cup {i}
          PROVE  FilesOfTest'
      <3>1. FileTypes' /\ id'[p] = i /\ \A t \in Threads \ {p} : id'[t] = id[t]
        BY <1>0, <1>2, <2>1, <2>4 DEF FileTypes
      <3>2. OwnFile(p)' /\ ~Stored(p)' /\ ~HasSlot(p) /\ ~Stored(p)
        BY <1>4, <1>6, <2>1, <2>2, <3>1 DEF OwnFile, InHand, Stored, HasSlot
      <3>3. table[i] \in {NoFile, Unwritten} /\ HasSlot(p)'
        <4>1. \A t \in Threads : Stored(t) => id[t] # i
          BY <1>9 DEF Stored, HasSlot
        <4>2. table[i] \notin Threads
          BY <4>1 DEF FilesOfTest, OwnSlots
        <4>3. HasSlot(p)'
          BY <2>2, <3>1 DEF HasSlot, Slots
        <4> QED BY <1>0, <4>2, <4>3 DEF FileTypes
      <3>5. HoldsFor(p)'
        BY <2>1, <3>1, <3>2, <3>3 DEF HoldsFor
      <3>4. \A t \in Threads \ {p} : HasSlot(t) => id[t] # id'[p] /\ id[t] \in map'
        BY <1>9, <2>4, <3>1
      <3> QED BY <1>9, <2>1, <2>2, <2>4, <3>1, <3>2, <3>3, <3>4, <3>5, OneOwner
    <2> QED BY <1>11, <2>3, <2>4 DEF Find
  <1>12. CASE Store
    <2>1. n = 7 /\ UNCHANGED <<map, id, used>> /\ StepDone /\ file' = [file EXCEPT ![me] = NoFile]
      BY <1>5, <1>12 DEF Store
    <2>2. FileScripts' /\ Left(p)' = 6 /\ \A t \in Threads \ {p} : Left(t)' = Left(t)
      BY <1>7, <2>1
    <2>3. file'[p] = NoFile /\ \A t \in Threads \ {p} : file'[t] = file[t]
      BY <1>0, <2>1, <1>2 DEF FileTypes
    <2>4. file[p] = p /\ p \in opened /\ used[p] = NoFile
      BY <1>4, <1>6, <2>1 DEF OwnFile, InHand
    <2>5. CASE id[p] # -1
      <3>1. UNCHANGED opened /\ table' = [table EXCEPT ![id[p]] = p]
        BY <1>2, <1>12, <2>4, <2>5 DEF Store
      <3>2. HasSlot(p) /\ Stored(p)' /\ HasSlot(p)' /\ ~Stored(p) /\ ~InHand(p)'
        BY <1>4, <2>1, <2>2, <2>5 DEF HasSlot, Stored, InHand
      <3>3. id[p] \in map /\ id[p] \in Slots /\ \A t \in Threads \ {p} : HasSlot(t) => id[t] # id[p]
        BY <1>9, <3>2 DEF FilesOfTest, OwnSlots
      <3>4. table'[id[p]] = p /\ \A i \in Slots : i # id[p] => table'[i] = table[i]
        BY <1>0, <3>1, <3>3 DEF FileTypes
      <3>5. FileTypes'
        BY <1>0, <2>1, <3>1, <3>3 DEF FileTypes
      <3>6. OwnFile(p)' /\ HoldsFor(p)'
        BY <2>1, <2>2, <2>3, <2>4, <3>1, <3>2, <3>4 DEF OwnFile, HoldsFor
      <3>7. \A i \in Slots : table'[i] = Unwritten => i # id[p]
        BY <3>4, FileTableAssumption
      <3> QED BY <1>9, <1>17, <2>1, <2>2, <2>3, <3>1, <3>2, <3>3, <3>4, <3>5, <3>6, <3>7, OneOwner
    <2>6. CASE id[p] = -1
      <3>1. opened' = opened \ {p} /\ UNCHANGED table
        BY <1>2, <1>12, <2>4, <2>6 DEF Store
      <3>2. FileTypes'
        BY <1>0, <2>1, <3>1 DEF FileTypes
      <3>3. ~HasSlot(p)' /\ ~HasSlot(p) /\ ~Stored(p) /\ ~Stored(p)' /\ ~InHand(p)'
        BY <1>4, <2>1, <2>2, <2>6 DEF HasSlot, Stored, InHand
      <3>4. OwnFile(p)'
        BY <2>1, <2>2, <2>3, <2>4, <2>6, <3>1, <3>3 DEF OwnFile
      <3> QED BY <1>9, <2>1, <2>2, <2>3, <3>1, <3>2, <3>3, <3>4, OneOwner
    <2> QED BY <2>5, <2>6
  <1>13. CASE Use
    <2>1. /\ n = 6 /\ UNCHANGED <<map, table, opened, file, id>> /\ StepDone
          /\ used' = [used EXCEPT ![me] = Get(id[me])]
      BY <1>5, <1>13 DEF Use
    <2>2. FileScripts' /\ Left(p)' = 5 /\ \A t \in Threads \ {p} : Left(t)' = Left(t)
      BY <1>7, <2>1
    <2>3. Get(id[p]) = IF id[p] = -1 THEN NoFile ELSE p
      <3>1. CASE id[p] = -1
        BY <3>1, FileTableAssumption DEF Get, Slots
      <3>2. CASE id[p] # -1
        <4>1. HasSlot(p) /\ Stored(p)
          BY <1>4, <2>1, <3>2 DEF HasSlot, Stored
        <4>2. id[p] \in map /\ id[p] \in Slots /\ table[id[p]] = p
          BY <1>9, <4>1 DEF FilesOfTest, OwnSlots, HoldsFor
        <4> QED BY <3>2, <4>2 DEF Get
      <3> QED BY <3>1, <3>2
    <2>4. /\ FileTypes' /\ used'[p] = IF id[p] = -1 THEN NoFile ELSE p
          /\ \A t \in Threads \ {p} : used'[t] = used[t]
      BY <1>0, <1>2, <2>1, <2>3 DEF FileTypes
    <2>5. /\ Stored(p)' <=> Stored(p)
          /\ HasSlot(p)' <=> HasSlot(p)
          /\ ~InHand(p)' /\ ~InHand(p)
      BY <1>4, <2>1, <2>2 DEF HasSlot, Stored, InHand
    <2>6. OwnFile(p)'
      BY <1>4, <1>6, <2>1, <2>2, <2>4, <2>5 DEF OwnFile
    <2>7. HasSlot(p) => /\ id[p] \in map /\ HoldsFor(p)
                        /\ \A t \in Threads \ {p} : HasSlot(t) => id[t] # id[p]
      BY DEF FilesOfTest, OwnSlots
    <2>8. HoldsFor(p) => HoldsFor(p)'
      BY <2>1, <2>5 DEF HoldsFor
    <2> QED BY <1>9, <2>1, <2>2, <2>4, <2>5, <2>6, <2>7, <2>8, OneOwner
  <1>14. CASE CloseFile
    <2>1. n = 5 /\ UNCHANGED <<map, table, opened, file, id, used>>
      BY <1>5, <1>14 DEF CloseFile, fileVars
    <2>2. FileTypes'
      BY <1>0, <2>1 DEF FileTypes
    <2>3. CASE StepDone /\ id[me] \in Slots
      <3>1. FileScripts' /\ Left(p)' = 4 /\ \A t \in Threads \ {p} : Left(t)' = Left(t)
        BY <1>7, <2>1, <2>3
      <3>2. id[p] # -1
        BY <1>2, <2>3 DEF Slots
      <3>3. /\ Stored(p)' /\ Stored(p) /\ HasSlot(p)' /\ HasSlot(p) /\ ~InHand(p)' /\ ~InHand(p)
        BY <1>4, <2>1, <3>1, <3>2 DEF HasSlot, Stored, InHand
      <3>4. OwnFile(p)'
        BY <1>4, <1>6, <2>1, <3>1, <3>2, <3>3 DEF OwnFile
      <3>5. /\ id[p] \in map /\ table[id[p]] = p
            /\ \A t \in Threads \ {p} : HasSlot(t) => id[t] # id[p]
        BY <3>3 DEF FilesOfTest, OwnSlots, HoldsFor
      <3>6. HoldsFor(p)'
        BY <2>1, <3>3, <3>5 DEF HoldsFor
      <3> QED BY <1>9, <2>1, <2>2, <3>1, <3>3, <3>4, <3>5, <3>6, OneOwner
    <2>4. CASE Continue(SubSeq(script[me], Len(Close) + 1, Len(script[me]))) /\ id[me] \notin Slots
      <3>1. SubSeq(script[me], Len(Close) + 1, Len(script[me])) = Rest(12)
        <4>1. script[me] = Rest(7) /\ Len(script[me]) = 5 /\ Len(Close) + 1 = 6
          <5>1. script[me] = Rest(7)
            BY <1>2, <1>4, <2>1
          <5> QED BY <5>1, Lengths
        <4> QED BY <4>1, RestParts, Zenon
      <3>2. FileScripts' /\ Left(p)' = 0 /\ \A t \in Threads \ {p} : Left(t)' = Left(t)
        <4>1. Continue(Rest(12))
          BY <2>4, <3>1, Zenon
        <4> QED BY <1>8, <4>1
      <3>3. id[p] = -1
        BY <1>0, <1>2, <2>4 DEF FileTypes
      <3>4. OwnFile(p)' /\ ~HasSlot(p)' /\ ~HasSlot(p) /\ ~Stored(p)
        BY <1>4, <1>6, <2>1, <3>2, <3>3 DEF OwnFile, InHand, HasSlot, Stored
      <3> QED BY <1>9, <2>1, <2>2, <3>2, <3>4, OneOwner
    <2> QED BY <1>14, <2>3, <2>4 DEF CloseFile
  <1>15. CASE Clear
    <2>1. n = 3 /\ StepDone /\ UNCHANGED <<opened, id, used>>
      BY <1>5, <1>15 DEF Clear
    <2>2. FileScripts' /\ Left(p)' = 2 /\ \A t \in Threads \ {p} : Left(t)' = Left(t)
      BY <1>7, <2>1
    <2>3. HasSlot(p) /\ Stored(p) /\ ~HasSlot(p)' /\ ~Stored(p)' /\ InHand(p)'
      BY <1>4, <1>6, <2>1, <2>2 DEF OwnFile, HasSlot, Stored, InHand
    <2>4. /\ id[p] \in map /\ id[p] \in Slots /\ table[id[p]] = p
          /\ \A t \in Threads \ {p} : HasSlot(t) => id[t] # id[p]
      BY <1>9, <2>3 DEF FilesOfTest, OwnSlots, HoldsFor
    <2>5. /\ map' = map \ {id[p]} /\ file' = [file EXCEPT ![p] = p]
          /\ table' = [table EXCEPT ![id[p]] = NoFile]
      BY <1>2, <1>15, <2>4 DEF Clear
    <2>6. FileTypes' /\ file'[p] = p /\ \A t \in Threads \ {p} : file'[t] = file[t]
      BY <1>0, <2>1, <2>4, <2>5 DEF FileTypes
    <2>7. table'[id[p]] = NoFile /\ \A i \in Slots : i # id[p] => table'[i] = table[i]
      BY <1>0, <2>4, <2>5 DEF FileTypes
    <2>8. OwnFile(p)'
      BY <1>4, <1>6, <2>1, <2>2, <2>3, <2>6 DEF OwnFile
    <2>9. \A t \in Threads \ {p} : HasSlot(t) => id[t] \in map' /\ table'[id[t]] = table[id[t]]
      BY <1>9, <2>4, <2>5, <2>7
    <2>10. /\ \A i \in Slots : table'[i] \in Threads => i # id[p]
           /\ \A i \in map' : i \in map /\ i # id[p] /\ i \in Slots
      BY <1>0, <2>5, <2>7, FileTableAssumption DEF FileTypes
    <2> QED BY <2>1, <2>2, <2>3, <2>6, <2>7, <2>8, <2>9, <2>10, OneOwner
  <1>16. CASE Delete
    <2>1. n = 1 /\ StepDone /\ UNCHANGED <<map, table, id, used>>
      BY <1>5, <1>16 DEF Delete
    <2>2. FileScripts' /\ Left(p)' = 0 /\ \A t \in Threads \ {p} : Left(t)' = Left(t)
      BY <1>7, <2>1
    <2>3. file[p] = p
      BY <1>4, <1>6, <2>1 DEF OwnFile, InHand
    <2>4. opened' = opened \ {p} /\ file' = [file EXCEPT ![p] = NoFile]
      BY <1>2, <1>16, <2>3 DEF Delete
    <2>5. FileTypes' /\ file'[p] = NoFile /\ \A t \in Threads \ {p} : file'[t] = file[t]
      BY <1>0, <2>1, <2>4 DEF FileTypes
    <2>6. ~HasSlot(p)' /\ ~HasSlot(p) /\ ~Stored(p)' /\ ~InHand(p)' /\ ~Stored(p)
      BY <1>4, <2>1, <2>2 DEF HasSlot, Stored, InHand
    <2>7. OwnFile(p)'
      BY <2>2, <2>4, <2>5, <2>6 DEF OwnFile
    <2> QED BY <1>9, <2>1, <2>2, <2>4, <2>5, <2>6, <2>7, OneOwner
  <1> QED BY <1>10, <1>11, <1>12, <1>13, <1>14, <1>15, <1>16 DEF FileStep

\* Of the calls that do not touch the table, a thread of the test makes Acquire and Release.
LEMMA OtherStepsKeep ==
    ASSUME TypeOK, ScriptsOK, FilesOfTest, test = "files", UNCHANGED fileVars,
           \/ SynchStep \/ Between \/ ListStep \/ ConsoleStep \/ CheckCharAvail \/ WriteDone
           \/ UNCHANGED allVars
    PROVE  FilesOfTest'
  <1>0. FileScripts
    BY DEF FilesOfTest
  <1>1. CASE UNCHANGED script
    <2>1. FileScripts' /\ \A t \in Threads : Left(t)' = Left(t)
      BY <1>0, <1>1 DEF FileScripts, Left
    <2> QED BY <2>1, OnlyCounts
  <1>2. CASE SynchStep
    <2>1. HasStep /\ StepDone
      BY <1>2 DEF SynchStep
    <2>2. step[1] \in {"Fork", "Yield", "P", "V", "Acquire", "Release", "Wait", "Signal", "Broadcast"}
      BY <1>2 DEF SynchStep, Calls
    <2>3. CASE me = Main
      BY <1>0, <2>1, <2>3, MainForks, OnlyCounts
    <2>4. CASE me # Main
      <3>1. PICK p : p = me
        OBVIOUS
      <3>2. /\ FileScripts' /\ Left(p)' = Left(p) - 1
            /\ \A t \in Threads \ {p} : Left(t)' = Left(t)
        BY <1>0, <2>1, <2>4, <3>1, CallGone
      <3>3. Left(p) \in {10, 8, 4, 2}
        BY <1>0, <2>1, <2>2, <2>4, <3>1, CallAt
      <3> QED BY <3>2, <3>3, OnlyCounts
    <2> QED BY <2>3, <2>4
  <1>3. CASE ListStep \/ ConsoleStep
    <2>1. HasStep
      BY <1>3 DEF ListStep, ConsoleStep
    <2>2. step[1] \in {"append", "remove", "get", "echo", "until quit", "read", "put"}
      BY <1>3 DEF ListStep, AppendItem, WaitForItem, RemoveItem, ConsoleStep, GetOne, EchoIt, UntilQuit,
                  ReadChar, Put
    <2>3. me # Main
      BY <1>0, <2>1, <2>2, MainForks
    <2>4. /\ Left(me) \in 1..11
          /\ step[1] = "open" <=> Left(me) = 11
          /\ step[1] = "find" <=> Left(me) = 9
          /\ step[1] = "store" <=> Left(me) = 7
          /\ step[1] = "use" <=> Left(me) = 6
          /\ step[1] = "close" <=> Left(me) = 5
          /\ step[1] = "clear" <=> Left(me) = 3
          /\ step[1] = "delete" <=> Left(me) = 1
          /\ step[1] \in {"Acquire", "Release"} <=> Left(me) \in {10, 8, 4, 2}
      BY <1>0, <2>1, <2>3, CallAt
    <2>5. Left(me) \in {1, 2, 3, 4, 5, 6, 7, 8, 9, 10, 11}
      BY <2>4
    <2> QED BY <2>2, <2>4, <2>5
  <1> QED BY <1>1, <1>2, <1>3 DEF Between, CheckCharAvail, WriteDone, allVars, programVars

LEMMA UnusedKept ==
    ASSUME TypeOK, ScriptsOK, ScriptsOK', FilesUnused, test # "files", [TestsNext]_allVars
    PROVE  FilesUnused' /\ test' # "files"
  <1>1. UNCHANGED test
    BY DEF TestsNext, SynchStep, Between, AnyUse, ListStep, ConsoleStep, CheckCharAvail, WriteDone, FileStep,
           allVars, programVars
  <1>2. ~FileStep
    <2> SUFFICES ASSUME FileStep PROVE FALSE
      OBVIOUS
    <2>1. step[1] \in {"open", "find", "store", "use", "close", "clear", "delete"} /\ HasStep
      BY DEF FileStep, OpenFile, Find, Store, Use, CloseFile, Clear, Delete
    <2>2. step \in OtherCalls
      BY <2>1, CurrentScript
    <2>3. CASE step \in ForkCalls \cup SynchCalls \cup ListCalls
      BY <2>1, <2>3 DEF ForkCalls, SynchCalls, ListCalls
    <2>4. CASE step \in ConsoleCalls
      BY <2>1, <2>4, ConsoleNames
    <2> QED BY <2>2, <2>3, <2>4 DEF OtherCalls
  <1>3. UNCHANGED fileVars
    BY <1>2 DEF TestsNext, allVars
  <1> QED BY <1>1, <1>3 DEF FilesUnused, ScriptsOK, fileVars

LEMMA FilesKept ==
    TypeOK /\ ScriptsOK /\ ScriptsOK' /\ FilesOK /\ [TestsNext]_allVars => FilesOK'
  <1> SUFFICES ASSUME TypeOK, ScriptsOK, ScriptsOK', FilesOK, [TestsNext]_allVars PROVE FilesOK'
    OBVIOUS
  <1>1. CASE test # "files"
    BY <1>1, UnusedKept DEF FilesOK
  <1>2. CASE test = "files"
    <2>1. UNCHANGED test
      BY DEF TestsNext, SynchStep, Between, AnyUse, ListStep, ConsoleStep, CheckCharAvail, WriteDone, FileStep,
             allVars, programVars
    <2>2. FilesOfTest
      BY <1>2 DEF FilesOK, FilesOfTest
    <2>3. FilesOfTest'
      <3>1. CASE FileStep
        BY <2>2, <3>1, FileStepKeeps
      <3>2. ~AnyUse
        BY <1>2 DEF AnyUse
      <3>3. CASE ~FileStep
        BY <1>2, <2>2, <3>2, <3>3, OtherStepsKeep DEF TestsNext, allVars
      <3> QED BY <3>1, <3>3
    <2> QED BY <1>2, <2>1, <2>3 DEF FilesOK, FilesOfTest
  <1> QED BY <1>1, <1>2

LEMMA InitFiles == TestsInit => FilesOK
  <1> SUFFICES ASSUME TestsInit PROVE FilesOK
    OBVIOUS
  <1>1. ScriptsOK /\ Main \in Threads
    BY InitScripts, SynchAssumption
  <1>2. CASE test # "files"
    BY <1>1, <1>2, FileTableAssumption DEF TestsInit, FileTableInit, FilesOK, FilesUnused, ScriptsOK, Slots
  <1>3. CASE test = "files"
    <2>1. Load(Files)
      BY <1>3, Zenon DEF TestsInit, TestSuite
    <2>2. PICK crew : crew = <<OpenUseClose, OpenUseClose, OpenUseClose>>
      OBVIOUS
    <2>3. Len(crew) = 3 /\ DOMAIN crew = 1..3 /\ \A k \in 1..3 : crew[k] = OpenUseClose
      BY <2>2
    <2>4. script[Main] \in Seq(ForkCalls)
      <3>1. Len(crew) \in Nat /\ Len(crew) <= Len(Crew)
        BY <2>3, ProgramsAssumption, LenProperties
      <3>2. Fork0(Len(crew)) \in Seq(ForkCalls)
        BY <3>1, ForksRight
      <3>3. Fork0(Len(crew)) \o <<>> \in Seq(ForkCalls)
        BY <3>2, ConcatProperties, EmptySeq
      <3> QED BY <1>1, <2>1, <2>2, <3>3, Zenon DEF Load, Files, Program
    <2>5. \A t \in Threads \ {Main} : script[t] \in {OpenUseClose, <<>>}
      <3>1. Files.crew = crew
        BY <2>2 DEF Files, Program
      <3> QED BY <2>1, <2>3, <3>1 DEF Load
    <2>6. \A t \in Threads \ {Main} : script[t] \in {Rest(1), Rest(12)}
      BY <2>5, RestParts
    <2>7. FileScripts /\ \A t \in Threads : Left(t) \in {0, 11}
      <3>1. Main \in Threads /\ 12 - 11 = 1 /\ 12 - 0 = 12
        BY <1>1
      <3>2. ASSUME NEW t \in Threads \ {Main}
            PROVE  Len(script[t]) \in {0, 11} /\ script[t] = Rest(12 - Len(script[t]))
        BY <2>6, <3>1, Lengths
      <3> QED BY <2>4, <3>2 DEF FileScripts, Left
    <2>8. FileTypes
      BY <1>3, FileTableAssumption DEF TestsInit, FileTableInit, FileTypes, Slots
    <2>9. \A t \in Threads : ~InHand(t) /\ ~HasSlot(t) /\ ~Stored(t)
      BY <2>7 DEF InHand, HasSlot, Stored
    <2>10. OwnFiles
      BY <2>7, <2>9 DEF TestsInit, FileTableInit, OwnFiles, OwnFile
    <2>11. OwnSlots
      <3>1. /\ map = {0, 1} /\ 0 \in Slots /\ 1 \in Slots
            /\ \A i \in Slots : table[i] = IF i \in {0, 1} THEN NoFile ELSE Unwritten
        BY FileTableAssumption DEF TestsInit, FileTableInit, Slots
      <3> QED BY <2>9, <3>1, FileTableAssumption DEF OwnSlots
    <2> QED BY <1>3, <2>7, <2>8, <2>10, <2>11 DEF FilesOK
  <1> QED BY <1>2, <1>3

LEMMA FilesMean == FilesOK => DescriptorsRight
  <1> SUFFICES ASSUME FilesOK PROVE DescriptorsRight
    OBVIOUS
  <1>0. Close \in Seq(AllCalls) /\ Close # <<>> /\ Head(Close) = <<"close">>
    BY WholeScript, RestParts DEF Close
  <1>1. CASE test # "files"
    <2>1. FilesUnused
      BY <1>1 DEF FilesOK
    <2>2. <<"close">> \notin OtherCalls
      <3>1. <<"close">> \notin ForkCalls \cup SynchCalls \cup ListCalls
        BY DEF ForkCalls, SynchCalls, ListCalls
      <3>2. <<"close">> \notin ConsoleCalls
        BY ConsoleNames
      <3> QED BY <3>1, <3>2 DEF OtherCalls
    <2>3. \A t \in Threads : script[t] # Close
      BY <1>0, <2>1, <2>2, HeadTailProperties DEF FilesUnused
    <2> QED BY <2>1, <2>3 DEF FilesUnused, DescriptorsRight, Get
  <1>2. CASE test = "files"
    <2>0. FilesOfTest /\ FileTypes
      BY <1>2 DEF FilesOK, FilesOfTest
    <2>1. ASSUME NEW i \in Slots
          PROVE  \/ Get(i) \in opened \cup {NoFile}
                 \/ Get(i) = Unwritten /\ \E t \in Threads : InPut(t) /\ id[t] = i
      <3>1. CASE table[i] \in Threads
        <4>1. PICK t \in Threads : Stored(t) /\ id[t] = i
          BY <2>0, <3>1 DEF FilesOfTest, OwnSlots
        <4>2. HasSlot(t)
          BY <4>1 DEF HasSlot, Stored
        <4> QED BY <2>0, <4>1, <4>2 DEF FilesOfTest, OwnSlots, HoldsFor, OwnFiles, OwnFile, Get
      <3>2. CASE i \in map /\ table[i] = Unwritten
        <4>1. PICK t \in Threads : HasSlot(t) /\ id[t] = i
          BY <2>0, <3>2 DEF FilesOfTest, OwnSlots
        <4>2. ~Stored(t)
          BY <2>0, <3>2, <4>1, FileTableAssumption DEF FilesOfTest, OwnSlots, HoldsFor
        <4>3. Left(t) \in {7, 8}
          <5>1. Left(t) \in 3..8 /\ Left(t) \notin 3..6
            BY <4>1, <4>2 DEF HasSlot, Stored
          <5> QED BY <5>1
        <4>4. script[t] \in {Rest(4), Rest(5)}
          <5>1. t # Main /\ Left(t) = Len(script[t])
            BY <4>3 DEF Left
          <5>2. script[t] = Rest(12 - Len(script[t]))
            BY <2>0, <5>1 DEF FilesOfTest, FileScripts
          <5>3. 12 - Len(script[t]) \in {4, 5}
            <6>1. 12 - 7 = 5 /\ 12 - 8 = 4
              OBVIOUS
            <6>2. Len(script[t]) = 7 \/ Len(script[t]) = 8
              BY <4>3, <5>1
            <6> QED BY <6>1, <6>2, Zenon
          <5> QED BY <5>2, <5>3
        <4>5. InPut(t)
          BY <4>4, WholeScript DEF InPut, BeforeStore, Rest
        <4>6. Get(i) = Unwritten
          BY <3>2 DEF Get
        <4> QED BY <4>1, <4>5, <4>6
      <3>3. CASE table[i] = NoFile \/ i \notin map
        BY <3>3 DEF Get
      <3> QED BY <2>0, <3>1, <3>2, <3>3 DEF FileTypes
    <2>2. ASSUME NEW t \in Threads, script[t] = Close PROVE used[t] = IF id[t] = -1 THEN NoFile ELSE t
      <3>1. t # Main
        <4>1. <<"close">> \notin ForkCalls
          BY DEF ForkCalls
        <4> QED BY <1>0, <2>0, <2>2, <4>1, HeadTailProperties DEF FilesOfTest, FileScripts
      <3>2. Left(t) = 5
        BY <2>2, <3>1, WholeScript DEF Left
      <3> QED BY <2>0, <3>2 DEF FilesOfTest, OwnFiles, OwnFile
    <2>3. ASSUME NEW f \in opened
          PROVE  (\E i \in map : table[i] = f) \/ (\E t \in Threads : file[t] = f)
      <3>1. f \in Threads
        BY <2>0 DEF FileTypes
      <3>2. CASE InHand(f)
        BY <2>0, <3>1, <3>2 DEF FilesOfTest, OwnFiles, OwnFile
      <3>3. CASE Stored(f)
        <4>1. HasSlot(f)
          BY <3>3 DEF HasSlot, Stored
        <4> QED BY <2>0, <3>1, <3>3, <4>1 DEF FilesOfTest, OwnSlots, HoldsFor
      <3> QED BY <2>0, <3>1, <3>2, <3>3 DEF FilesOfTest, OwnFiles, OwnFile
    <2> QED BY <2>1, <2>2, <2>3 DEF DescriptorsRight
  <1> QED BY <1>1, <1>2

\* The table of open files gives a thread its own file and never a deleted one, gives what its
\* memory held before only between the two halves of a Put, and no file stays open that nobody can
\* close, with any size of the table and any number of threads waiting.
THEOREM OwnDescriptors == TestsSpec => []DescriptorsRight
  <1>1. TestsInit => TypeOK /\ ScriptsOK /\ FilesOK
    BY InitScripts, InitFiles, InitPlaces DEF TestsInit
  <1>2. TypeOK /\ ScriptsOK /\ FilesOK /\ [TestsNext]_allVars => TypeOK' /\ ScriptsOK' /\ FilesOK'
    BY StepsOfSynch, TypesKept, ScriptsKept, FilesKept
  <1> QED BY <1>1, <1>2, FilesMean, PTL DEF TestsSpec
=============================================================================
