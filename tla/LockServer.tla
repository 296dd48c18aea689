------------------------------ MODULE LockServer ------------------------------
(***************************************************************************)
(* The lock and condition server of network/nettest.cc together with the   *)
(* client kernels that call it (userprog/lock_syscalls.cc and              *)
(* userprog/condition_syscalls.cc).                                        *)
(*                                                                         *)
(* A client thread makes one call at a time: it mails a request to mailbox *)
(* 0 of machine 0 and blocks on mailbox 0 of its own machine; whatever     *)
(* mail arrives there ends the call, the client never looks at the text.   *)
(* The server is one thread: it takes a request, runs its handler to the   *)
(* end, and takes the next.  It knows a client by (machineId, mailboxNum); *)
(* since every client mails from mailbox 0 (lock_syscalls.cc:19-21) that   *)
(* pair is the machine.                                                    *)
(*                                                                         *)
(* Abstracted: the text of requests and replies (a reply is its kind of    *)
(* text and, for a Create, an index), the waiting caused by the transport  *)
(* below (reliable, as the post office and WRITEUP:21 assume).             *)
(***************************************************************************)
EXTENDS Integers, Sequences, FiniteSets

CONSTANTS
    Threads,          \* user threads that call the server
    Machines,         \* the Nachos machines they run on
    machineOf,        \* the machine of each thread
    NoMachine,        \* the owner (-1,-1)
    LockNames, CondNames, NoName,
    MAX_LOCK_COUNT,   \* 50 in threads/system.h
    MAX_COND_COUNT,   \* 50 in threads/system.h
    Ops,              \* the system calls the user programs make
    Careful,          \* do the programs follow the monitor discipline?
    lockFor,          \* the lock a careful program uses each condition with
    MaxStale,         \* bound: a client with more unread mail sends no more
    MaxWaiters        \* bound: no Wait, Signal or Broadcast when a queue is longer

LockIds == 0 .. MAX_LOCK_COUNT - 1
CondIds == 0 .. MAX_COND_COUNT - 1

ASSUME LockServerAssumption ==
    /\ machineOf \in [Threads -> Machines]
    /\ NoMachine \notin Machines
    /\ MAX_LOCK_COUNT \in Nat \ {0}
    /\ MAX_COND_COUNT \in Nat
    /\ Careful \in BOOLEAN
    /\ lockFor \in [CondIds -> LockIds]
    /\ MaxStale \in Nat
    /\ MaxWaiters \in Nat

VARIABLES
    call,             \* the call each thread is blocked in, or Idle, or Halted
    held,             \* the locks each thread believes it is inside of
    knownLocks, knownConds,   \* the indices its Create calls returned
    requests,         \* mail from each machine to the server, in order
    inbox,            \* mailbox 0 of each client machine
    serverLocks, serverLockCount,
    serverConds, serverCondCount,
    broadcast,        \* the Broadcast handler whose loop is running, or NoLoop
    serverUp          \* FALSE after undefined behaviour killed the server

clientVars == <<call, held, knownLocks, knownConds>>
lockVars == <<serverLocks, serverLockCount>>
condVars == <<serverConds, serverCondCount>>
vars == <<clientVars, requests, inbox, lockVars, condVars, broadcast, serverUp>>

-----------------------------------------------------------------------------
(* Messages *)

Idle   == [op |-> "Idle"]
Halted == [op |-> "Halted"]
NoLoop == [op |-> "NoLoop"]

LockOps == {"Acquire", "Release", "DestroyLock"}
CondOps == {"Wait", "Signal", "Broadcast"}

Request ==
    [op : {"CreateLock"}, name : LockNames]
        \cup [op : LockOps, lock : LockIds]
        \cup [op : {"CreateCondition"}, name : CondNames]
        \cup [op : CondOps, lock : LockIds, cond : CondIds]
        \cup [op : {"DestroyCondition"}, cond : CondIds]

\* Clients tell no texts apart except an index; the server's own words are kept
\* as: the lock is given, the request is refused, anything else, and the reply
\* whose text is picked with an index that was never set.
Texts == {"Index", "Got", "Error", "Done", "Garbage"}

Reply == [text : Texts, id : {-1} \cup LockIds \cup CondIds]

Say(t)   == [text |-> t, id |-> -1]
Index(i) == [text |-> "Index", id |-> i]

-----------------------------------------------------------------------------
(* The server's tables *)

Lock == [name : LockNames \cup {NoName}, deleteFlag : BOOLEAN,
         isDeleted : BOOLEAN, lockStatus : {"FREE", "BUSY"},
         lockOwner : Machines \cup {NoMachine}, waitQueue : Seq(Machines)]

Cond == [name : CondNames \cup {NoName}, deleteFlag : BOOLEAN,
         isDeleted : BOOLEAN, waitingLockIndex : {-1} \cup LockIds,
         hasWaitingLock : BOOLEAN, waitQueue : Seq(Machines)]

\* The tables as Server() prepares them: a queue in every slot, no slot in use.
\* (The static zero of the owner and of waitingLockIndex is never read before a
\* Create sets it; -1 stands for both.)
UnusedLock == [name |-> NoName, deleteFlag |-> FALSE, isDeleted |-> FALSE,
               lockStatus |-> "FREE", lockOwner |-> NoMachine,
               waitQueue |-> <<>>]
UnusedCond == [name |-> NoName, deleteFlag |-> FALSE, isDeleted |-> FALSE,
               waitingLockIndex |-> -1, hasWaitingLock |-> FALSE,
               waitQueue |-> <<>>]

validateLockIndex(l) == l < serverLockCount /\ ~serverLocks[l].isDeleted
validateConditionIndex(c) == c < serverCondCount /\ ~serverConds[c].isDeleted

Init ==
    /\ call = [t \in Threads |-> Idle]
    /\ held = [t \in Threads |-> {}]
    /\ knownLocks = [t \in Threads |-> {}]
    /\ knownConds = [t \in Threads |-> {}]
    /\ requests = [m \in Machines |-> <<>>]
    /\ inbox = [m \in Machines |-> <<>>]
    /\ serverLocks = [l \in LockIds |-> UnusedLock]
    /\ serverLockCount = 0
    /\ serverConds = [c \in CondIds |-> UnusedCond]
    /\ serverCondCount = 0
    /\ broadcast = NoLoop
    /\ serverUp = TRUE

-----------------------------------------------------------------------------
(* The clients *)

\* The monitor discipline of the test programs: use only what Create returned,
\* wait and signal with the condition's lock held, release what is held.
Disciplined(t, r) ==
    CASE r.op \in {"CreateLock", "CreateCondition"} -> TRUE
      [] r.op = "Acquire"     -> r.lock \in knownLocks[t] \ held[t]
      [] r.op = "Release"     -> r.lock \in held[t]
      [] r.op = "DestroyLock" -> r.lock \in knownLocks[t]
      [] r.op \in CondOps     -> /\ r.cond \in knownConds[t]
                                 /\ r.lock = lockFor[r.cond]
                                 /\ r.lock \in held[t]
      [] r.op = "DestroyCondition" -> r.cond \in knownConds[t]

\* The bounds of the model.  A disciplined client never has unread mail when it
\* sends, and is in no queue: with MaxWaiters the number of threads the bounds
\* exclude nothing of what disciplined clients do.
WithinBounds(m, r) ==
    /\ Len(inbox[m]) + Len(requests[m]) <= MaxStale
    /\ r.op \in CondOps => /\ \A l \in LockIds : Len(serverLocks[l].waitQueue) <= MaxWaiters
                           /\ \A c \in CondIds : Len(serverConds[c].waitQueue) <= MaxWaiters

\* sendToServer: the request leaves and the thread blocks for mail.  A program
\* that releases or waits gives its lock up at this moment.
Send(t, r) ==
    /\ call[t] = Idle
    /\ r.op \in Ops
    /\ Careful => Disciplined(t, r)
    /\ WithinBounds(machineOf[t], r)
    /\ call' = [call EXCEPT ![t] = r]
    /\ requests' = [requests EXCEPT ![machineOf[t]] = Append(@, r)]
    /\ held' = [held EXCEPT ![t] =
                    IF r.op \in {"Release", "Wait"} THEN @ \ {r.lock} ELSE @]
    /\ UNCHANGED <<knownLocks, knownConds, inbox, lockVars, condVars,
                   broadcast, serverUp>>

\* What a Create makes of the mail that ended it: ss >> index leaves -1 or 0,
\* as the C++ library does, when the text holds no number.
ParsedIndex(reply) == IF reply.text = "Index" THEN {reply.id} ELSE {-1, 0}

\* A program that follows no discipline keeps no account of indices and locks.
Kept(known, i) == IF Careful THEN known \cup {i} ELSE known

\* getFromServer and the end of the system call: the first mail in the machine's
\* mailbox 0 goes to any of its threads blocked there, and is taken for the
\* answer to that thread's own call.
Receive(t) ==
    LET m == machineOf[t]
        c == call[t]
        answer == Head(inbox[m])
    IN
    /\ c \notin {Idle, Halted}
    /\ inbox[m] # <<>>
    /\ inbox' = [inbox EXCEPT ![m] = Tail(@)]
    /\ \/ /\ c.op \notin {"CreateLock", "CreateCondition"}
          /\ call' = [call EXCEPT ![t] = Idle]
          /\ held' = IF Careful /\ c.op \in {"Acquire", "Wait"}
                     THEN [held EXCEPT ![t] = @ \cup {c.lock}]
                     ELSE held
          /\ UNCHANGED <<knownLocks, knownConds>>
       \/ \E i \in ParsedIndex(answer) :
             /\ c.op = "CreateLock"
             /\ i # -1
             /\ call' = [call EXCEPT ![t] = Idle]
             /\ knownLocks' = [knownLocks EXCEPT ![t] = Kept(@, i)]
             /\ UNCHANGED <<held, knownConds>>
       \/ \E i \in ParsedIndex(answer) :
             /\ c.op = "CreateCondition"
             /\ i # -1
             /\ call' = [call EXCEPT ![t] = Idle]
             /\ knownConds' = [knownConds EXCEPT ![t] = Kept(@, i)]
             /\ UNCHANGED <<held, knownLocks>>
       \/ \* index -1: interrupt->Halt() stops the machine with all its threads
          /\ c.op \in {"CreateLock", "CreateCondition"}
          /\ -1 \in ParsedIndex(answer)
          /\ call' = [u \in Threads |->
                        IF machineOf[u] = m THEN Halted ELSE call[u]]
          /\ UNCHANGED <<held, knownLocks, knownConds>>
    /\ UNCHANGED <<requests, lockVars, condVars, broadcast, serverUp>>

-----------------------------------------------------------------------------
(* The server: one handler per request, run to its end before the next *)

\* Server() takes the next request that m mailed; op is what it asks for.
Taken(m, op) ==
    /\ serverUp
    /\ broadcast = NoLoop
    /\ requests[m] # <<>>
    /\ Head(requests[m]).op = op
    /\ requests' = [requests EXCEPT ![m] = Tail(@)]
    /\ UNCHANGED <<clientVars>>

\* sendMessageToClient, and the second reply of handlers that send two.  (The
\* index of a Create is copied from a temporary string that has just been
\* destroyed, line 374; its few bytes are taken to be still there.)
Mailed(m, reply) == inbox' = [inbox EXCEPT ![m] = Append(@, reply)]
MailedTwice(m, first, second) ==
    inbox' = [inbox EXCEPT ![m] = Append(Append(@, first), second)]

\* putMsgLock, putMsgCond: a client goes to the end of a queue.
putMsgLock(l, w) == [serverLocks EXCEPT ![l].waitQueue = Append(@, w)]
putMsgCond(queue, w) == Append(queue, w)

\* Acquire_server on behalf of client w: the lock table after it ...
Acquired(l, w) ==
    IF ~validateLockIndex(l) \/ serverLocks[l].lockOwner = w THEN serverLocks
    ELSE IF serverLocks[l].lockStatus = "FREE"
         THEN [serverLocks EXCEPT ![l].lockStatus = "BUSY", ![l].lockOwner = w]
         ELSE putMsgLock(l, w)

\* ... and what it mails to w: nothing while w waits in the lock's queue.
AcquireReply_EvenWhenQueued(l, w) == <<Say("Got")>>
AcquireReply(l, w) ==
    IF ~validateLockIndex(l) THEN <<Say("Error")>>
    ELSE IF serverLocks[l].lockOwner = w THEN <<Say("Done")>>
    ELSE IF serverLocks[l].lockStatus = "FREE" THEN <<Say("Got")>>
    ELSE <<>>

\* The lock table once the owner's place goes to the head of the queue, or to
\* nobody (the last part of Release_server, and all of serverReleaseLock).
Passed_OwnerKept(l) ==
    IF serverLocks[l].waitQueue # <<>>
    THEN [serverLocks EXCEPT ![l].waitQueue = Tail(@)]
    ELSE [serverLocks EXCEPT ![l].lockStatus = "FREE", ![l].lockOwner = NoMachine]
Passed_OwnerNotReset(l) ==
    IF serverLocks[l].waitQueue # <<>>
    THEN [serverLocks EXCEPT ![l].lockOwner = Head(serverLocks[l].waitQueue),
                             ![l].waitQueue = Tail(@)]
    ELSE [serverLocks EXCEPT ![l].lockStatus = "FREE"]
Passed_LastFirst(l) ==
    LET q == serverLocks[l].waitQueue IN
    IF q # <<>>
    THEN [serverLocks EXCEPT ![l].lockOwner = q[Len(q)],
                             ![l].waitQueue = SubSeq(q, 1, Len(q) - 1)]
    ELSE [serverLocks EXCEPT ![l].lockStatus = "FREE", ![l].lockOwner = NoMachine]
Passed_QueueIgnored(l) ==
    [serverLocks EXCEPT ![l].lockStatus = "FREE", ![l].lockOwner = NoMachine]
Passed(l) ==
    IF serverLocks[l].waitQueue # <<>>
    THEN [serverLocks EXCEPT ![l].lockOwner = Head(serverLocks[l].waitQueue),
                             ![l].waitQueue = Tail(@)]
    ELSE [serverLocks EXCEPT ![l].lockStatus = "FREE", ![l].lockOwner = NoMachine]

\* delete waitQueue: whoever was queued is never answered.
Deleted(l) == [serverLocks EXCEPT ![l].isDeleted = TRUE, ![l].waitQueue = <<>>]

LocksNamed_LoopStopsEarly(name) ==
    {i \in LockIds : /\ i < serverLockCount - 1
                     /\ serverLocks[i].name = name
                     /\ ~serverLocks[i].isDeleted}
LocksNamed(name) ==
    {i \in LockIds : /\ i < serverLockCount
                     /\ serverLocks[i].name = name
                     /\ ~serverLocks[i].isDeleted}

LockTableFull == serverLockCount >= MAX_LOCK_COUNT

CreateLock_server(m) ==
    LET name == Head(requests[m]).name
        same == LocksNamed(name)
    IN
    /\ Taken(m, "CreateLock")
    /\ \/ \* "Too many locks!", and then the -1 of the failed call as well
          /\ LockTableFull
          /\ MailedTwice(m, Say("Error"), Index(-1))
          /\ UNCHANGED lockVars
       \/ /\ ~LockTableFull
          /\ \E i \in same : /\ \A j \in same : i <= j
                             /\ Mailed(m, Index(i))
          /\ UNCHANGED lockVars
       \/ /\ ~LockTableFull
          /\ same = {}
          /\ serverLocks' = [serverLocks EXCEPT ![serverLockCount] =
                [@ EXCEPT !.name = name, !.deleteFlag = FALSE, !.isDeleted = FALSE,
                          !.lockStatus = "FREE", !.lockOwner = NoMachine]]
          /\ serverLockCount' = serverLockCount + 1
          /\ Mailed(m, Index(serverLockCount))
    /\ UNCHANGED <<condVars, broadcast, serverUp>>

Acquire_server(m) ==
    LET l == Head(requests[m]).lock IN
    /\ Taken(m, "Acquire")
    /\ serverLocks' = Acquired(l, m)
    /\ inbox' = [inbox EXCEPT ![m] = @ \o AcquireReply(l, m)]
    /\ UNCHANGED <<serverLockCount, condVars, broadcast, serverUp>>

Release_server(m) ==
    LET l == Head(requests[m]).lock
        queue == serverLocks[l].waitQueue
        owns == validateLockIndex(l) /\ serverLocks[l].lockOwner = m
        told == [inbox EXCEPT ![m] = Append(@, Say("Done"))]
    IN
    /\ Taken(m, "Release")
    /\ \/ /\ ~owns
          /\ Mailed(m, Say("Error"))
          /\ UNCHANGED serverLocks
       \/ /\ owns
          /\ serverLocks[l].deleteFlag
          /\ serverLocks' = Deleted(l)
          /\ Mailed(m, Say("Done"))
       \/ /\ owns
          /\ ~serverLocks[l].deleteFlag
          /\ serverLocks' = Passed(l)
          /\ inbox' = IF queue # <<>>
                      THEN [told EXCEPT ![Head(queue)] = Append(@, Say("Got"))]
                      ELSE told
    /\ UNCHANGED <<serverLockCount, condVars, broadcast, serverUp>>

DestroyLock_server(m) ==
    LET l == Head(requests[m]).lock IN
    /\ Taken(m, "DestroyLock")
    /\ \/ /\ ~validateLockIndex(l)
          /\ Mailed(m, Say("Error"))
          /\ UNCHANGED serverLocks
       \/ /\ validateLockIndex(l)
          /\ serverLocks[l].lockStatus = "BUSY"
          /\ serverLocks' = [serverLocks EXCEPT ![l].deleteFlag = TRUE]
          /\ Mailed(m, Say("Done"))
       \/ /\ validateLockIndex(l)
          /\ serverLocks[l].lockStatus = "FREE"
          /\ serverLocks' = [Deleted(l) EXCEPT ![l].lockOwner = NoMachine]
          /\ Mailed(m, Say("Done"))
    /\ UNCHANGED <<serverLockCount, condVars, broadcast, serverUp>>

CreateCondition_server(m) ==
    LET name == Head(requests[m]).name
        same == {i \in CondIds : /\ i < serverCondCount
                                 /\ serverConds[i].name = name
                                 /\ ~serverConds[i].isDeleted}
    IN
    /\ Taken(m, "CreateCondition")
    /\ \/ /\ serverCondCount >= MAX_COND_COUNT
          /\ MailedTwice(m, Say("Error"), Index(-1))
          /\ UNCHANGED condVars
       \/ /\ serverCondCount < MAX_COND_COUNT
          /\ \E i \in same : /\ \A j \in same : i <= j
                             /\ Mailed(m, Index(i))
          /\ UNCHANGED condVars
       \/ \* line 667 compares hasWaitingLock instead of clearing it
          /\ serverCondCount < MAX_COND_COUNT
          /\ same = {}
          /\ serverConds' = [serverConds EXCEPT ![serverCondCount] =
                [@ EXCEPT !.name = name, !.deleteFlag = FALSE, !.isDeleted = FALSE,
                          !.waitingLockIndex = -1]]
          /\ serverCondCount' = serverCondCount + 1
          /\ Mailed(m, Index(serverCondCount))
    /\ UNCHANGED <<lockVars, broadcast, serverUp>>

\* *waitingLock == conditionLock compares the lock numbers.  With index -1 it
\* reads whatever lies before the table: either answer.
SameLock(c, l) == IF serverConds[c].waitingLockIndex = -1
                  THEN BOOLEAN
                  ELSE {serverConds[c].waitingLockIndex = l}

\* The first four checks of Wait_server.  They mail an error and fall through.
WaitError(m, l, c) == \/ ~validateLockIndex(l)
                      \/ ~validateConditionIndex(c)
                      \/ serverLocks[l].lockOwner # m
                      \/ serverConds[c].deleteFlag

\* The condition table once m waits: bound to the lock by the first Wait that
\* passes the checks, m last in the queue.  (The memory of a destroyed
\* condition's queue was freed: nothing remembers m there.)
Enqueued_FirstForgotten(m, l, c) ==
    LET cond == serverConds[c] IN
    [serverConds EXCEPT ![c] =
       [cond EXCEPT !.waitingLockIndex = l,
                    !.hasWaitingLock = TRUE,
                    !.waitQueue = IF cond.hasWaitingLock THEN Append(cond.waitQueue, m)
                                  ELSE cond.waitQueue]]
Enqueued(m, l, c) ==
    LET cond == serverConds[c]
        binds == ~WaitError(m, l, c) /\ ~cond.hasWaitingLock
    IN [serverConds EXCEPT ![c] =
          [cond EXCEPT
             !.waitingLockIndex = IF binds THEN l ELSE cond.waitingLockIndex,
             !.hasWaitingLock = IF binds THEN TRUE ELSE cond.hasWaitingLock,
             !.waitQueue = IF cond.isDeleted THEN cond.waitQueue
                           ELSE putMsgCond(cond.waitQueue, m)]]

\* The caller enters the condition's queue and the lock is passed on, by whomever
\* it is owned.
Wait_server(m) ==
    LET r == Head(requests[m])
        l == r.lock
        c == r.cond
        error == WaitError(m, l, c)
        bound == serverConds[c].hasWaitingLock
        queue == serverLocks[l].waitQueue
        told == IF error THEN [inbox EXCEPT ![m] = Append(@, Say("Error"))] ELSE inbox
    IN
    /\ Taken(m, "Wait")
    /\ \/ /\ ~error /\ bound
          /\ FALSE \in SameLock(c, l)
          /\ Mailed(m, Say("Error"))
          /\ UNCHANGED <<serverLocks, serverConds, serverUp>>
       \/ /\ error \/ ~bound \/ TRUE \in SameLock(c, l)
          /\ serverConds' = Enqueued(m, l, c)
          /\ serverLocks' = Passed(l)
          /\ inbox' = IF queue # <<>>
                      THEN [told EXCEPT ![Head(queue)] = Append(@, Say("Garbage"))]
                      ELSE told
          /\ UNCHANGED serverUp
       \/ \* a string picked with an index never set, or a queue already freed
          /\ error \/ ~bound \/ TRUE \in SameLock(c, l)
          /\ queue # <<>> \/ serverLocks[l].isDeleted \/ serverConds[c].isDeleted
          /\ serverConds' = Enqueued(m, l, c)
          /\ inbox' = told
          /\ serverUp' = FALSE
          /\ UNCHANGED serverLocks
    /\ UNCHANGED <<serverLockCount, serverCondCount, broadcast>>

\* The head of the condition's queue asks for lock l, as Acquire_server would.
Woken(l, c) ==
    LET w == Head(serverConds[c].waitQueue) IN
    /\ serverConds' = [serverConds EXCEPT ![c].waitQueue = Tail(@)]
    /\ serverLocks' = Acquired(l, w)

Signal_server(m) ==
    LET l == Head(requests[m]).lock
        c == Head(requests[m]).cond
        queue == serverConds[c].waitQueue
        woken == [inbox EXCEPT ![Head(queue)] = @ \o AcquireReply(l, Head(queue))]
    IN
    /\ Taken(m, "Signal")
    /\ \/ /\ ~validateConditionIndex(c)
          /\ Mailed(m, Say("Error"))
          /\ UNCHANGED <<serverLocks, serverConds>>
       \/ /\ validateConditionIndex(c)
          /\ queue = <<>>
          /\ Mailed(m, Say("Done"))
          /\ UNCHANGED <<serverLocks, serverConds>>
       \/ /\ validateConditionIndex(c)
          /\ queue # <<>>
          /\ Woken(l, c)
          /\ inbox' = [woken EXCEPT ![m] = Append(@, Say("Done"))]
    /\ UNCHANGED <<serverLockCount, serverCondCount, broadcast, serverUp>>

\* The checks mail an error and fall through to the "Broadcasted!" as well.
Broadcast_server(m) ==
    LET l == Head(requests[m]).lock
        c == Head(requests[m]).cond
        valid == validateLockIndex(l) /\ validateConditionIndex(c)
    IN
    /\ Taken(m, "Broadcast")
    /\ \/ /\ ~valid \/ FALSE \in SameLock(c, l)
          /\ MailedTwice(m, Say("Error"), Say("Done"))
          /\ UNCHANGED broadcast
       \/ /\ valid
          /\ TRUE \in SameLock(c, l)
          /\ broadcast' = [op |-> "Broadcast", machine |-> m, lock |-> l, cond |-> c]
          /\ UNCHANGED inbox
    /\ UNCHANGED <<lockVars, condVars, serverUp>>

\* One turn of the handler's loop (Signal_without_send), no other handler
\* running; and its end.
BroadcastLoop ==
    LET l == broadcast.lock
        c == broadcast.cond
        queue == serverConds[c].waitQueue
    IN
    /\ broadcast # NoLoop
    /\ \/ /\ queue # <<>>
          /\ Woken(l, c)
          /\ inbox' = [inbox EXCEPT ![Head(queue)] = @ \o AcquireReply(l, Head(queue))]
          /\ UNCHANGED broadcast
       \/ /\ queue = <<>>
          /\ serverConds' = [serverConds EXCEPT ![c].waitingLockIndex = -1]
          /\ Mailed(broadcast.machine, Say("Done"))
          /\ broadcast' = NoLoop
          /\ UNCHANGED serverLocks
    /\ UNCHANGED <<clientVars, requests, serverLockCount, serverCondCount, serverUp>>

DestroyCondition_server(m) ==
    LET c == Head(requests[m]).cond IN
    /\ Taken(m, "DestroyCondition")
    /\ \/ /\ ~validateConditionIndex(c)
          /\ Mailed(m, Say("Error"))
          /\ UNCHANGED serverConds
       \/ /\ validateConditionIndex(c)
          /\ serverConds[c].waitQueue = <<>>
          /\ serverConds' = [serverConds EXCEPT ![c].isDeleted = TRUE]
          /\ Mailed(m, Say("Done"))
       \/ /\ validateConditionIndex(c)
          /\ serverConds[c].waitQueue # <<>>
          /\ serverConds' = [serverConds EXCEPT ![c].deleteFlag = TRUE]
          /\ Mailed(m, Say("Done"))
    /\ UNCHANGED <<lockVars, serverCondCount, broadcast, serverUp>>

Server(m) ==
    \/ CreateLock_server(m) \/ Acquire_server(m) \/ Release_server(m)
    \/ DestroyLock_server(m) \/ CreateCondition_server(m) \/ Wait_server(m)
    \/ Signal_server(m) \/ Broadcast_server(m) \/ DestroyCondition_server(m)

-----------------------------------------------------------------------------

ClientNext == \E t \in Threads : Receive(t) \/ \E r \in Request : Send(t, r)

Next == \/ ClientNext
        \/ \E m \in Machines : Server(m)
        \/ BroadcastLoop

Spec == Init /\ [][Next]_vars

\* Mail is served in turn (mailbox 0 is a queue), a thread whose mail arrived
\* goes on, and a program does not stay inside a lock for ever.
ReleaseSome(t) == \E l \in held[t] : Send(t, [op |-> "Release", lock |-> l])

Fairness ==
    /\ \A m \in Machines : WF_vars(Server(m))
    /\ WF_vars(BroadcastLoop)
    /\ \A t \in Threads : WF_vars(Receive(t)) /\ SF_vars(ReleaseSome(t))

FairSpec == Spec /\ Fairness

-----------------------------------------------------------------------------
(* Properties *)

TypeOK ==
    /\ call \in [Threads -> Request \cup {Idle, Halted}]
    /\ held \in [Threads -> SUBSET LockIds]
    /\ knownLocks \in [Threads -> SUBSET (LockIds \cup CondIds)]
    /\ knownConds \in [Threads -> SUBSET (LockIds \cup CondIds)]
    /\ requests \in [Machines -> Seq(Request)]
    /\ inbox \in [Machines -> Seq(Reply)]
    /\ serverLocks \in [LockIds -> Lock]
    /\ serverLockCount \in 0 .. MAX_LOCK_COUNT
    /\ serverConds \in [CondIds -> Cond]
    /\ serverCondCount \in 0 .. MAX_COND_COUNT
    /\ broadcast \in [op : {"Broadcast"}, machine : Machines,
                      lock : LockIds, cond : CondIds] \cup {NoLoop}
    /\ serverUp \in BOOLEAN

\* A lock is BUSY exactly while somebody owns it, and nobody queues for a lock
\* that is FREE: whatever the clients send, error paths included, no handler
\* leaves a free lock with waiters that no release will ever serve.
OwnershipConsistent ==
    \A l \in LockIds :
        /\ serverLocks[l].lockStatus = "BUSY" <=> serverLocks[l].lockOwner \in Machines
        /\ serverLocks[l].lockStatus = "FREE" => serverLocks[l].waitQueue = <<>>

\* Two clients that create a lock, or a condition, of the same name share it: no
\* two live entries have one name, even after entries of that name were destroyed.
LiveNamesUnique ==
    /\ \A i, j \in 0 .. serverLockCount - 1 :
          /\ ~serverLocks[i].isDeleted /\ ~serverLocks[j].isDeleted
          /\ serverLocks[i].name = serverLocks[j].name
          => i = j
    /\ \A i, j \in 0 .. serverCondCount - 1 :
          /\ ~serverConds[i].isDeleted /\ ~serverConds[j].isDeleted
          /\ serverConds[i].name = serverConds[j].name
          => i = j

\* A program that goes on from Acquire or Wait, which look at no reply text, is
\* right to believe it has the lock: the server lists its machine as the owner.
HolderIsOwner ==
    \A t \in Threads : \A l \in held[t] : serverLocks[l].lockOwner = machineOf[t]

\* No two threads are ever inside the same server lock.
MutualExclusion ==
    \A t, u \in Threads : t # u => held[t] \cap held[u] = {}

\* Where the call of a machine's thread can be found.
Positions(queue, m) == {i \in DOMAIN queue : queue[i] = m}
LockPlaces(m) == UNION {{l} \X Positions(serverLocks[l].waitQueue, m) : l \in LockIds}
CondPlaces(m) == UNION {{c} \X Positions(serverConds[c].waitQueue, m) : c \in CondIds}

\* No call is lost or answered twice: the call of a blocked thread is in exactly
\* one place (in the mail to the server, in one queue of one lock or condition,
\* or in the mail back), and a thread that runs has nothing left anywhere.
EveryCallAccounted ==
    serverUp =>
    \A t \in Threads :
        LET m == machineOf[t] IN
        Len(requests[m]) + Len(inbox[m])
            + Cardinality(LockPlaces(m)) + Cardinality(CondPlaces(m))
        = IF call[t] \in {Idle, Halted} THEN 0 ELSE 1

\* Nobody overtakes in a lock's queue: a lock that changes hands goes to the
\* first waiter, and to a client that did not queue only when nobody does.
HandOffInOrder ==
    [][\A l \in LockIds :
         LET old == serverLocks[l]
             new == serverLocks'[l].lockOwner
         IN new # old.lockOwner /\ new # NoMachine
            => IF old.waitQueue = <<>> THEN old.lockStatus = "FREE"
                                       ELSE new = Head(old.waitQueue)]_vars

-----------------------------------------------------------------------------
(* The server and its clients implement a monitor.  A thread is inside a lock *)
(* from the return of Acquire or Wait to the next Release or Wait; it waits   *)
(* on a condition until a handler takes it from the condition's queue.        *)

WaitsOn(t, c) ==
    /\ call[t].op = "Wait"
    /\ call[t].cond = c
    /\ \/ requests[machineOf[t]] # <<>>
       \/ \E i \in DOMAIN serverConds[c].waitQueue :
             serverConds[c].waitQueue[i] = machineOf[t]

AsksFor(t, l) ==
    \/ call[t].op = "Acquire" /\ call[t].lock = l
    \/ /\ call[t].op = "Wait" /\ call[t].lock = l
       /\ ~WaitsOn(t, call[t].cond)

inside   == [l \in LockIds |-> {t \in Threads : l \in held[t]}]
entering == [l \in LockIds |-> {t \in Threads : AsksFor(t, l)}]
waiting  == [c \in CondIds |-> {t \in Threads : WaitsOn(t, c)}]

Monitor == INSTANCE MesaMonitor WITH Locks <- LockIds, Conds <- CondIds

\* Every behaviour of clients and server, seen through inside, entering and
\* waiting, is one of MesaMonitor: in particular Wait returns only to a thread
\* that was signalled, and only when nobody else is inside.
ImplementsMonitor == Monitor!MMSpec

\* Whoever asks for a lock, by Acquire or by having been signalled, gets inside,
\* as long as the server process survives.
AskersEnter ==
    []serverUp => \A t \in Threads, l \in LockIds : AsksFor(t, l) ~> l \in held[t]
=============================================================================
