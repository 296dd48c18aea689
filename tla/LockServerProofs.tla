--------------------------- MODULE LockServerProofs ---------------------------
(***************************************************************************)
(* Theorems about LockServer, for any number of threads, machines, locks,  *)
(* conditions and names. The first part holds for any set of calls,        *)
(* disciplined or not; the second is what the server promises to clients   *)
(* that follow the monitor discipline: who thinks it has a lock has it, no *)
(* call is lost or answered twice, and together they are a Mesa monitor.   *)
(***************************************************************************)
EXTENDS LockServer, SequenceTheorems, FiniteSetTheorems, TLAPS

\* What every lock table the handlers produce satisfies: its type, the agreement
\* of status, owner and queue, and an empty queue in every slot not yet created
\* (CreateLock_server frees the slot it takes but does not empty its queue).
LocksOK(locks, count) ==
    /\ locks \in [LockIds -> Lock]
    /\ \A l \in LockIds :
         /\ locks[l].lockStatus = "BUSY" <=> locks[l].lockOwner \in Machines
         /\ locks[l].lockStatus = "FREE" => locks[l].waitQueue = <<>>
         /\ l >= count => locks[l].waitQueue = <<>>

\* The inductive invariant behind TypeOK and OwnershipConsistent.
TableInv == TypeOK /\ LocksOK(serverLocks, serverLockCount)

\* The arguments a request carries are in range.
LEMMA RequestArguments ==
    ASSUME NEW r \in Request
    PROVE  /\ r.op \in LockOps => r.lock \in LockIds
           /\ r.op \in CondOps => r.lock \in LockIds /\ r.cond \in CondIds
           /\ r.op = "DestroyCondition" => r.cond \in CondIds
           /\ r.op = "CreateLock" => r.name \in LockNames
           /\ r.op = "CreateCondition" => r.name \in CondNames
  BY DEF Request, LockOps, CondOps

\* Taking a request consumes well-typed mail and leaves the clients alone.
LEMMA TakenType ==
    ASSUME TypeOK, NEW m \in Machines, NEW op, Taken(m, op)
    PROVE  /\ Head(requests[m]) \in Request
           /\ Head(requests[m]).op = op
           /\ requests' \in [Machines -> Seq(Request)]
  <1>1. requests[m] \in Seq(Request) /\ requests[m] # <<>>
    BY DEF TypeOK, Taken
  <1>2. Head(requests[m]) \in Request /\ Tail(requests[m]) \in Seq(Request)
    BY <1>1, HeadTailProperties
  <1> QED
    BY <1>2 DEF TypeOK, Taken

\* Replacing one entry of a well-formed table by a well-formed one.
LEMMA OneLock ==
    ASSUME NEW locks, NEW count, LocksOK(locks, count),
           NEW l \in LockIds, NEW new \in Lock,
           new.lockStatus = "BUSY" <=> new.lockOwner \in Machines,
           new.lockStatus = "FREE" => new.waitQueue = <<>>,
           l >= count => new.waitQueue = <<>>
    PROVE  LocksOK([locks EXCEPT ![l] = new], count)
  BY DEF LocksOK

\* What the entry of one lock looks like in a reachable table.
LEMMA EntryOK ==
    ASSUME LockServerAssumption, TableInv, NEW l \in LockIds
    PROVE  /\ serverLocks[l] \in Lock
           /\ serverLocks[l].waitQueue \in Seq(Machines)
           /\ serverLocks[l].lockOwner \in Machines \cup {NoMachine}
           /\ serverLocks[l].lockStatus \in {"FREE", "BUSY"}
           /\ serverLocks[l].waitQueue # <<>> =>
                /\ serverLocks[l].lockStatus = "BUSY"
                /\ ~(l >= serverLockCount)
                /\ Head(serverLocks[l].waitQueue) \in Machines
                /\ Tail(serverLocks[l].waitQueue) \in Seq(Machines)
  <1> DEFINE q == serverLocks[l].waitQueue
  <1>1. /\ serverLocks[l] \in Lock
        /\ q # <<>> => serverLocks[l].lockStatus # "FREE" /\ ~(l >= serverLockCount)
    BY DEF TableInv, LocksOK
  <1>2. /\ q \in Seq(Machines)
        /\ serverLocks[l].lockOwner \in Machines \cup {NoMachine}
        /\ serverLocks[l].lockStatus \in {"FREE", "BUSY"}
    BY <1>1 DEF Lock
  <1>3. q # <<>> => Head(q) \in Machines /\ Tail(q) \in Seq(Machines)
    BY <1>2, HeadTailProperties
  <1> QED BY <1>1, <1>2, <1>3

\* Acquire_server, for whomever, keeps the table well formed.
LEMMA AcquiredOK ==
    ASSUME LockServerAssumption, TableInv, NEW l \in LockIds, NEW w \in Machines
    PROVE  /\ LocksOK(Acquired(l, w), serverLockCount)
           /\ AcquireReply(l, w) \in Seq(Reply)
  <1> DEFINE e == serverLocks[l]
             q == e.waitQueue
             taken == [e EXCEPT !.lockStatus = "BUSY", !.lockOwner = w]
             queued == [e EXCEPT !.waitQueue = Append(q, w)]
  <1>1. /\ e \in Lock /\ q \in Seq(Machines) /\ e.lockStatus \in {"FREE", "BUSY"}
        /\ LocksOK(serverLocks, serverLockCount)
    BY EntryOK DEF TableInv
  <1>2. LocksOK(Acquired(l, w), serverLockCount)
    <2>1. CASE ~validateLockIndex(l) \/ e.lockOwner = w
      BY <1>1, <2>1 DEF Acquired, putMsgLock
    <2>2. CASE validateLockIndex(l) /\ e.lockOwner # w /\ e.lockStatus = "FREE"
      <3>1. Acquired(l, w) = [serverLocks EXCEPT ![l] = taken]
        BY <2>2 DEF Acquired, putMsgLock
      <3>2. q = <<>>
        BY <1>1, <2>2 DEF LocksOK
      <3>3. /\ taken \in Lock /\ taken.lockStatus = "BUSY" /\ taken.lockOwner = w
            /\ taken.waitQueue = <<>>
        BY <1>1, <3>2 DEF Lock
      <3> HIDE DEF taken, e
      <3>4. LocksOK([serverLocks EXCEPT ![l] = taken], serverLockCount)
        BY <1>1, <3>3, OneLock
      <3> QED BY <3>1, <3>4
    <2>3. CASE validateLockIndex(l) /\ e.lockOwner # w /\ e.lockStatus = "BUSY"
      <3>1. Acquired(l, w) = [serverLocks EXCEPT ![l] = queued]
        BY <2>3 DEF Acquired, putMsgLock
      <3>2. Append(q, w) \in Seq(Machines)
        BY <1>1, AppendProperties
      <3>3. /\ queued \in Lock /\ queued.lockStatus = "BUSY"
            /\ queued.lockOwner = e.lockOwner
        BY <1>1, <2>3, <3>2 DEF Lock
      <3>4. e.lockOwner \in Machines
        BY <1>1, <2>3 DEF LocksOK
      <3>5. ~(l >= serverLockCount)
        BY <2>3 DEF validateLockIndex, TableInv, TypeOK, LockIds, LockServerAssumption
      <3> HIDE DEF queued, e
      <3>6. LocksOK([serverLocks EXCEPT ![l] = queued], serverLockCount)
        BY <1>1, <3>3, <3>4, <3>5, OneLock
      <3> QED BY <3>1, <3>6
    <2> QED BY <1>1, <2>1, <2>2, <2>3
  <1>6. Say("Error") \in Reply /\ Say("Done") \in Reply /\ Say("Got") \in Reply
    BY DEF Say, Reply, Texts
  <1>7. AcquireReply(l, w) \in Seq(Reply)
    <2>1. \A x \in Reply : <<x>> \in Seq(Reply)
      OBVIOUS
    <2>2. <<>> \in Seq(Reply)
      OBVIOUS
    <2> HIDE DEF e
    <2> QED BY <1>6, <2>1, <2>2 DEF AcquireReply
  <1> QED BY <1>2, <1>7

\* So does passing a lock on, whoever asked for it.
LEMMA PassedOK ==
    ASSUME LockServerAssumption, TableInv, NEW l \in LockIds
    PROVE  LocksOK(Passed(l), serverLockCount)
  <1> DEFINE e == serverLocks[l]
             q == e.waitQueue
             next == [e EXCEPT !.lockOwner = Head(q), !.waitQueue = Tail(q)]
             freed == [e EXCEPT !.lockStatus = "FREE", !.lockOwner = NoMachine]
  <1>1. e \in Lock /\ LocksOK(serverLocks, serverLockCount) /\ NoMachine \notin Machines
    BY EntryOK DEF TableInv, LockServerAssumption
  <1>2. CASE q # <<>>
    <2>1. Passed(l) = [serverLocks EXCEPT ![l] = next]
      BY <1>2 DEF Passed
    <2>2. /\ Head(q) \in Machines /\ Tail(q) \in Seq(Machines)
          /\ e.lockStatus = "BUSY" /\ ~(l >= serverLockCount)
      BY <1>2, EntryOK
    <2>3. next \in Lock /\ next.lockStatus = "BUSY" /\ next.lockOwner = Head(q)
      BY <1>1, <2>2 DEF Lock
    <2> HIDE DEF next, e
    <2>9. LocksOK([serverLocks EXCEPT ![l] = next], serverLockCount)
      BY <1>1, <2>1, <2>2, <2>3, OneLock
    <2> QED BY <2>9, <2>1
  <1>3. CASE q = <<>>
    <2>1. Passed(l) = [serverLocks EXCEPT ![l] = freed]
      BY <1>3 DEF Passed
    <2>2. /\ freed \in Lock /\ freed.lockStatus = "FREE"
          /\ freed.lockOwner = NoMachine /\ freed.waitQueue = <<>>
      BY <1>1, <1>3 DEF Lock
    <2> HIDE DEF freed, e
    <2>9. LocksOK([serverLocks EXCEPT ![l] = freed], serverLockCount)
      BY <1>1, <2>1, <2>2, OneLock
    <2> QED BY <2>9, <2>1
  <1> QED BY <1>2, <1>3

\* So does deleting a lock.
LEMMA DeletedOK ==
    ASSUME LockServerAssumption, TableInv, NEW l \in LockIds
    PROVE  LocksOK(Deleted(l), serverLockCount)
  <1> DEFINE e == serverLocks[l]
             gone == [e EXCEPT !.isDeleted = TRUE, !.waitQueue = <<>>]
  <1>1. e \in Lock /\ LocksOK(serverLocks, serverLockCount)
    BY EntryOK DEF TableInv
  <1>2. Deleted(l) = [serverLocks EXCEPT ![l] = gone]
    BY DEF Deleted
  <1>. <<>> \in Seq(Machines)
    OBVIOUS
  <1>3. /\ gone \in Lock /\ gone.lockStatus = e.lockStatus
        /\ gone.lockOwner = e.lockOwner /\ gone.waitQueue = <<>>
    BY <1>1 DEF Lock
  <1>4. e.lockStatus = "BUSY" <=> e.lockOwner \in Machines
    BY <1>1 DEF LocksOK
  <1> HIDE DEF gone, e
  <1>9. LocksOK([serverLocks EXCEPT ![l] = gone], serverLockCount)
    BY <1>1, <1>2, <1>3, <1>4, OneLock
  <1> QED BY <1>9, <1>2

-----------------------------------------------------------------------------
(* Mail *)

\* Adding replies to a mailbox keeps all mailboxes well typed.
LEMMA MailType ==
    ASSUME NEW box \in [Machines -> Seq(Reply)], NEW m \in Machines
    PROVE  /\ \A s \in Seq(Reply) : [box EXCEPT ![m] = @ \o s] \in [Machines -> Seq(Reply)]
           /\ \A x \in Reply : [box EXCEPT ![m] = Append(@, x)] \in [Machines -> Seq(Reply)]
           /\ \A x, y \in Reply : [box EXCEPT ![m] = Append(Append(@, x), y)]
                                    \in [Machines -> Seq(Reply)]
  <1>1. box[m] \in Seq(Reply)
    OBVIOUS
  <1>2. \A s \in Seq(Reply) : box[m] \o s \in Seq(Reply)
    BY <1>1, ConcatProperties
  <1>3. \A x \in Reply : Append(box[m], x) \in Seq(Reply)
    BY <1>1, AppendProperties
  <1>4. \A x, y \in Reply : Append(Append(box[m], x), y) \in Seq(Reply)
    BY <1>3, AppendProperties
  <1> QED BY <1>2, <1>3, <1>4

\* The replies the handlers send.
LEMMA ReplyType ==
    /\ Say("Error") \in Reply /\ Say("Done") \in Reply /\ Say("Got") \in Reply
    /\ Say("Garbage") \in Reply /\ Index(-1) \in Reply
    /\ \A i \in LockIds \cup CondIds : Index(i) \in Reply
  BY DEF Say, Index, Reply, Texts

LEMMA MailedType ==
    ASSUME TypeOK, NEW m \in Machines, NEW x \in Reply, Mailed(m, x)
    PROVE  inbox' \in [Machines -> Seq(Reply)]
  BY MailType DEF TypeOK, Mailed

\* What a handler must show: the variables it may change stay well formed.
LEMMA HandlerKeeps ==
    ASSUME LockServerAssumption, TableInv, NEW m \in Machines, NEW op, Taken(m, op),
           inbox' \in [Machines -> Seq(Reply)],
           LocksOK(serverLocks', serverLockCount'),
           serverLockCount' \in 0 .. MAX_LOCK_COUNT,
           serverConds' \in [CondIds -> Cond],
           serverCondCount' \in 0 .. MAX_COND_COUNT,
           broadcast' \in [op : {"Broadcast"}, machine : Machines,
                           lock : LockIds, cond : CondIds] \cup {NoLoop},
           serverUp' \in BOOLEAN
    PROVE  TableInv'
  <1>1. requests' \in [Machines -> Seq(Request)]
    BY TakenType DEF TableInv
  <1>2. UNCHANGED clientVars
    BY DEF Taken
  <1> QED
    BY <1>1, <1>2 DEF TableInv, TypeOK, LocksOK, clientVars

-----------------------------------------------------------------------------
(* One lemma per handler *)

LEMMA CreateLockKeeps ==
    ASSUME LockServerAssumption, TableInv, NEW m \in Machines, CreateLock_server(m)
    PROVE  TableInv'
  <1> DEFINE name == Head(requests[m]).name
             n == serverLockCount
             e == serverLocks[n]
             new == [e EXCEPT !.name = name, !.deleteFlag = FALSE,
                              !.isDeleted = FALSE, !.lockStatus = "FREE",
                              !.lockOwner = NoMachine]
  <1>1. Taken(m, "CreateLock") /\ UNCHANGED <<condVars, broadcast, serverUp>>
    BY DEF CreateLock_server
  <1>2. /\ name \in LockNames /\ n \in 0 .. MAX_LOCK_COUNT
        /\ inbox \in [Machines -> Seq(Reply)]
        /\ LocksOK(serverLocks, serverLockCount)
    BY <1>1, TakenType, RequestArguments DEF TableInv, TypeOK
  <1>3. CASE n >= MAX_LOCK_COUNT
    <2>1. UNCHANGED lockVars /\ MailedTwice(m, Say("Error"), Index(-1))
      BY <1>3, <1>2 DEF CreateLock_server, LockTableFull, LockServerAssumption
    <2>2. inbox' \in [Machines -> Seq(Reply)]
      BY <2>1, <1>2, MailType, ReplyType DEF MailedTwice
    <2> QED
      BY <2>1, <2>2, <1>1, <1>2, HandlerKeeps DEF lockVars, condVars, TableInv, TypeOK
  <1>4. CASE \E i \in LockIds : Mailed(m, Index(i)) /\ UNCHANGED lockVars
    <2>1. inbox' \in [Machines -> Seq(Reply)]
      BY <1>4, <1>2, MailType, ReplyType DEF Mailed
    <2> QED
      BY <2>1, <1>4, <1>1, <1>2, HandlerKeeps DEF lockVars, condVars, TableInv, TypeOK
  <1>5. CASE /\ n < MAX_LOCK_COUNT
             /\ serverLocks' = [serverLocks EXCEPT ![n] = new]
             /\ serverLockCount' = n + 1
             /\ Mailed(m, Index(n))
    <2>1. n \in LockIds /\ n + 1 \in 0 .. MAX_LOCK_COUNT /\ n >= n
      BY <1>5, <1>2 DEF LockIds, LockServerAssumption
    <2>2. inbox' \in [Machines -> Seq(Reply)]
      BY <1>5, <2>1, <1>2, MailType, ReplyType DEF Mailed
    <2>3. e \in Lock /\ e.waitQueue = <<>>
      BY <2>1, <1>2 DEF LocksOK
    <2>4. /\ new \in Lock /\ new.lockStatus = "FREE" /\ new.lockOwner = NoMachine
          /\ new.waitQueue = <<>> /\ NoMachine \notin Machines
      BY <2>3, <1>2 DEF Lock, LockServerAssumption
    <2>5. LocksOK(serverLocks, n + 1)
      BY <1>2, <2>1 DEF LocksOK, LockIds
    <2>6. LocksOK(serverLocks', n + 1)
      <3> HIDE DEF new, e
      <3>1. LocksOK([serverLocks EXCEPT ![n] = new], n + 1)
        BY <2>1, <2>4, <2>5, OneLock
      <3> QED BY <3>1, <1>5
    <2> QED
      BY <2>1, <2>2, <2>6, <1>5, <1>1, HandlerKeeps DEF condVars, TableInv, TypeOK
  <1>6. n < MAX_LOCK_COUNT \/ n >= MAX_LOCK_COUNT
    BY <1>2 DEF LockServerAssumption
  <1>7. n < MAX_LOCK_COUNT => ~LockTableFull
    BY <1>2 DEF LockTableFull, LockServerAssumption
  <1> QED
    BY <1>3, <1>4, <1>5, <1>6, <1>7 DEF CreateLock_server, LocksNamed

LEMMA AcquireKeeps ==
    ASSUME LockServerAssumption, TableInv, NEW m \in Machines, Acquire_server(m)
    PROVE  TableInv'
  <1> DEFINE l == Head(requests[m]).lock
  <1>1. /\ Taken(m, "Acquire") /\ serverLocks' = Acquired(l, m)
        /\ inbox' = [inbox EXCEPT ![m] = @ \o AcquireReply(l, m)]
        /\ UNCHANGED <<serverLockCount, condVars, broadcast, serverUp>>
    BY DEF Acquire_server
  <1>2. l \in LockIds
    BY <1>1, TakenType, RequestArguments DEF TableInv, LockOps
  <1>3. /\ LocksOK(serverLocks', serverLockCount)
        /\ AcquireReply(l, m) \in Seq(Reply)
    BY <1>1, <1>2, AcquiredOK
  <1>4. inbox' \in [Machines -> Seq(Reply)]
    BY <1>1, <1>3, MailType DEF TableInv, TypeOK
  <1> QED
    BY <1>1, <1>3, <1>4, HandlerKeeps DEF condVars, TableInv, TypeOK

LEMMA ReleaseKeeps ==
    ASSUME LockServerAssumption, TableInv, NEW m \in Machines, Release_server(m)
    PROVE  TableInv'
  <1> DEFINE l == Head(requests[m]).lock
             q == serverLocks[l].waitQueue
  <1>1. /\ Taken(m, "Release")
        /\ UNCHANGED <<serverLockCount, condVars, broadcast, serverUp>>
    BY DEF Release_server
  <1>2. l \in LockIds
    BY <1>1, TakenType, RequestArguments DEF TableInv, LockOps
  <1>3. LocksOK(serverLocks', serverLockCount)
    <2>1. \/ serverLocks' = serverLocks
          \/ serverLocks' = Deleted(l)
          \/ serverLocks' = Passed(l)
      BY DEF Release_server
    <2> QED BY <2>1, <1>2, DeletedOK, PassedOK DEF TableInv
  <1>4. inbox' \in [Machines -> Seq(Reply)]
    <2>1. inbox \in [Machines -> Seq(Reply)] /\ Say("Done") \in Reply /\ Say("Got") \in Reply
      BY ReplyType DEF TableInv, TypeOK
    <2>2. CASE Mailed(m, Say("Error")) \/ Mailed(m, Say("Done"))
      BY <2>2, MailedType, ReplyType DEF TableInv
    <2>3. CASE inbox' = LET told == [inbox EXCEPT ![m] = Append(@, Say("Done"))]
                        IN  IF q # <<>>
                            THEN [told EXCEPT ![Head(q)] = Append(@, Say("Got"))]
                            ELSE told
      <3> DEFINE first == [inbox EXCEPT ![m] = Append(@, Say("Done"))]
      <3>1. first \in [Machines -> Seq(Reply)]
        BY <2>1, MailType
      <3>2. q # <<>> => Head(q) \in Machines
        BY <1>2, EntryOK
      <3>3. inbox' = IF q # <<>> THEN [first EXCEPT ![Head(q)] = Append(@, Say("Got"))]
                                 ELSE first
        BY <2>3
      <3> HIDE DEF first, q
      <3>4. q # <<>> => [first EXCEPT ![Head(q)] = Append(@, Say("Got"))]
                           \in [Machines -> Seq(Reply)]
        BY <2>1, <3>1, <3>2, MailType
      <3> QED BY <3>1, <3>3, <3>4
    <2> QED BY <2>2, <2>3 DEF Release_server
  <1> QED
    BY <1>1, <1>3, <1>4, HandlerKeeps DEF condVars, TableInv, TypeOK

LEMMA DestroyLockKeeps ==
    ASSUME LockServerAssumption, TableInv, NEW m \in Machines, DestroyLock_server(m)
    PROVE  TableInv'
  <1> DEFINE l == Head(requests[m]).lock
             e == serverLocks[l]
             later == [e EXCEPT !.deleteFlag = TRUE]
             gone == [e EXCEPT !.isDeleted = TRUE, !.waitQueue = <<>>, !.lockOwner = NoMachine]
  <1>1. /\ Taken(m, "DestroyLock")
        /\ Mailed(m, Say("Error")) \/ Mailed(m, Say("Done"))
        /\ UNCHANGED <<serverLockCount, condVars, broadcast, serverUp>>
    BY DEF DestroyLock_server
  <1>2. l \in LockIds
    BY <1>1, TakenType, RequestArguments DEF TableInv, LockOps
  <1>3. e \in Lock /\ LocksOK(serverLocks, serverLockCount) /\ <<>> \in Seq(Machines)
        /\ NoMachine \notin Machines
    BY <1>2, EntryOK DEF TableInv, LockServerAssumption
  <1>4. LocksOK(serverLocks', serverLockCount)
    <2>1. CASE serverLocks' = serverLocks
      BY <2>1, <1>3
    <2>2. CASE serverLocks' = [serverLocks EXCEPT ![l].deleteFlag = TRUE]
      <3>1. /\ later \in Lock /\ later.lockStatus = e.lockStatus
            /\ later.lockOwner = e.lockOwner /\ later.waitQueue = e.waitQueue
        BY <1>3 DEF Lock
      <3>2. /\ e.lockStatus = "BUSY" <=> e.lockOwner \in Machines
            /\ e.lockStatus = "FREE" => e.waitQueue = <<>>
            /\ l >= serverLockCount => e.waitQueue = <<>>
        BY <1>2, <1>3 DEF LocksOK
      <3>3. serverLocks' = [serverLocks EXCEPT ![l] = later]
        BY <2>2
      <3> HIDE DEF later, e
      <3>4. LocksOK([serverLocks EXCEPT ![l] = later], serverLockCount)
        BY <1>2, <1>3, <3>1, <3>2, OneLock
      <3> QED BY <3>3, <3>4
    <2>3. CASE /\ e.lockStatus = "FREE"
               /\ serverLocks' = [Deleted(l) EXCEPT ![l].lockOwner = NoMachine]
      <3>1. /\ gone \in Lock /\ gone.lockStatus = "FREE"
            /\ gone.lockOwner = NoMachine /\ gone.waitQueue = <<>>
        BY <1>3, <2>3 DEF Lock
      <3>2. serverLocks' = [serverLocks EXCEPT ![l] = gone]
        BY <1>2, <1>3, <2>3 DEF Deleted, LocksOK
      <3> HIDE DEF gone, e
      <3>3. LocksOK([serverLocks EXCEPT ![l] = gone], serverLockCount)
        BY <1>2, <1>3, <3>1, OneLock
      <3> QED BY <3>2, <3>3
    <2> QED BY <2>1, <2>2, <2>3 DEF DestroyLock_server
  <1>5. inbox' \in [Machines -> Seq(Reply)]
    BY <1>1, MailedType, ReplyType DEF TableInv
  <1> QED
    BY <1>1, <1>4, <1>5, HandlerKeeps DEF condVars, TableInv, TypeOK

\* The entry of one condition.
LEMMA CondEntry ==
    ASSUME TypeOK, NEW c \in CondIds
    PROVE  /\ serverConds[c] \in Cond
           /\ serverConds[c].waitQueue \in Seq(Machines)
           /\ \A x \in Machines : Append(serverConds[c].waitQueue, x) \in Seq(Machines)
           /\ serverConds[c].waitQueue # <<>> =>
                /\ Head(serverConds[c].waitQueue) \in Machines
                /\ Tail(serverConds[c].waitQueue) \in Seq(Machines)
  <1>1. serverConds[c] \in Cond
    BY DEF TypeOK
  <1>2. serverConds[c].waitQueue \in Seq(Machines)
    BY <1>1 DEF Cond
  <1> QED BY <1>1, <1>2, HeadTailProperties, AppendProperties

LEMMA CreateConditionKeeps ==
    ASSUME LockServerAssumption, TableInv, NEW m \in Machines, CreateCondition_server(m)
    PROVE  TableInv'
  <1> DEFINE name == Head(requests[m]).name
             n == serverCondCount
             e == serverConds[n]
             new == [e EXCEPT !.name = name, !.deleteFlag = FALSE,
                              !.isDeleted = FALSE, !.waitingLockIndex = -1]
  <1>1. Taken(m, "CreateCondition") /\ UNCHANGED <<lockVars, broadcast, serverUp>>
    BY DEF CreateCondition_server
  <1>2. /\ name \in CondNames /\ n \in 0 .. MAX_COND_COUNT
        /\ inbox \in [Machines -> Seq(Reply)]
        /\ serverConds \in [CondIds -> Cond]
    BY <1>1, TakenType, RequestArguments DEF TableInv, TypeOK
  <1>3. CASE n >= MAX_COND_COUNT
    <2>1. UNCHANGED condVars /\ MailedTwice(m, Say("Error"), Index(-1))
      BY <1>3, <1>2 DEF CreateCondition_server, LockServerAssumption
    <2>2. inbox' \in [Machines -> Seq(Reply)]
      BY <2>1, <1>2, MailType, ReplyType DEF MailedTwice
    <2> QED
      BY <2>1, <2>2, <1>1, <1>2, HandlerKeeps DEF lockVars, condVars, TableInv, TypeOK
  <1>4. CASE \E i \in CondIds : Mailed(m, Index(i)) /\ UNCHANGED condVars
    <2>1. inbox' \in [Machines -> Seq(Reply)]
      BY <1>4, <1>2, MailType, ReplyType DEF Mailed
    <2> QED
      BY <2>1, <1>4, <1>1, <1>2, HandlerKeeps DEF lockVars, condVars, TableInv, TypeOK
  <1>5. CASE /\ n < MAX_COND_COUNT
             /\ serverConds' = [serverConds EXCEPT ![n] = new]
             /\ serverCondCount' = n + 1
             /\ Mailed(m, Index(n))
    <2>1. n \in CondIds /\ n + 1 \in 0 .. MAX_COND_COUNT
      BY <1>5, <1>2 DEF CondIds, LockServerAssumption
    <2>2. inbox' \in [Machines -> Seq(Reply)]
      BY <1>5, <2>1, <1>2, MailType, ReplyType DEF Mailed
    <2>3. e \in Cond
      BY <2>1, <1>2
    <2>4. new \in Cond
      BY <2>3, <1>2 DEF Cond
    <2>5. serverConds' \in [CondIds -> Cond]
      <3> HIDE DEF new, e
      <3>1. [serverConds EXCEPT ![n] = new] \in [CondIds -> Cond]
        BY <1>2, <2>4
      <3> QED BY <1>5, <3>1
    <2> QED
      BY <2>1, <2>2, <2>5, <1>5, <1>1, HandlerKeeps DEF lockVars, TableInv, TypeOK
  <1> QED
    BY <1>3, <1>4, <1>5 DEF CreateCondition_server

\* The condition table after a client was queued.
LEMMA EnqueuedType ==
    ASSUME TypeOK, NEW m \in Machines, NEW l \in LockIds, NEW c \in CondIds
    PROVE  Enqueued(m, l, c) \in [CondIds -> Cond]
  <1> DEFINE e == serverConds[c]
             binds == ~WaitError(m, l, c) /\ ~e.hasWaitingLock
             index == IF binds THEN l ELSE e.waitingLockIndex
             has == IF binds THEN TRUE ELSE e.hasWaitingLock
             queue == IF e.isDeleted THEN e.waitQueue ELSE Append(e.waitQueue, m)
             new == [e EXCEPT !.waitingLockIndex = index, !.hasWaitingLock = has,
                              !.waitQueue = queue]
  <1>1. /\ e \in Cond /\ e.waitQueue \in Seq(Machines)
        /\ Append(e.waitQueue, m) \in Seq(Machines)
    BY CondEntry
  <1>2. /\ index \in {-1} \cup LockIds
        /\ has \in BOOLEAN
        /\ queue \in Seq(Machines)
    <2> HIDE DEF binds
    <2> QED BY <1>1 DEF Cond
  <1>3. new \in Cond
    <2> HIDE DEF index, has, queue
    <2> QED BY <1>1, <1>2 DEF Cond
  <1>4. Enqueued(m, l, c) = [serverConds EXCEPT ![c] = new]
    BY DEF Enqueued, putMsgCond
  <1> HIDE DEF new
  <1> QED BY <1>3, <1>4 DEF TypeOK

LEMMA WaitKeeps ==
    ASSUME LockServerAssumption, TableInv, NEW m \in Machines, Wait_server(m)
    PROVE  TableInv'
  <1> DEFINE l == Head(requests[m]).lock
             c == Head(requests[m]).cond
             error == WaitError(m, l, c)
             e == serverConds[c]
             q == serverLocks[l].waitQueue
             told == IF error THEN [inbox EXCEPT ![m] = Append(@, Say("Error"))] ELSE inbox
  <1>1. /\ Taken(m, "Wait")
        /\ UNCHANGED <<serverLockCount, serverCondCount, broadcast>>
    BY DEF Wait_server
  <1>2. l \in LockIds /\ c \in CondIds
    BY <1>1, TakenType, RequestArguments DEF TableInv, CondOps
  <1>3. /\ inbox \in [Machines -> Seq(Reply)] /\ serverConds \in [CondIds -> Cond]
        /\ serverUp \in BOOLEAN
    BY DEF TableInv, TypeOK
  <1>4. /\ Say("Error") \in Reply /\ Say("Garbage") \in Reply
        /\ [inbox EXCEPT ![m] = Append(@, Say("Error"))] \in [Machines -> Seq(Reply)]
    BY <1>3, MailType, ReplyType
  <1>5. told \in [Machines -> Seq(Reply)]
    <2> HIDE DEF error
    <2> QED BY <1>3, <1>4
  <1>7. Enqueued(m, l, c) \in [CondIds -> Cond]
    BY <1>2, EnqueuedType DEF TableInv
  <1>8. /\ serverConds' = serverConds \/ serverConds' = Enqueued(m, l, c)
        /\ serverLocks' = serverLocks \/ serverLocks' = Passed(l)
        /\ serverUp' \in BOOLEAN
        /\ \/ Mailed(m, Say("Error"))
           \/ inbox' = told
           \/ q # <<>> /\ inbox' = [told EXCEPT ![Head(q)] = Append(@, Say("Garbage"))]
    BY <1>3 DEF Wait_server
  <1>9. serverConds' \in [CondIds -> Cond]
    BY <1>3, <1>7, <1>8
  <1>10. LocksOK(serverLocks', serverLockCount)
    BY <1>2, <1>8, PassedOK DEF TableInv
  <1>11. inbox' \in [Machines -> Seq(Reply)]
    <2>1. CASE Mailed(m, Say("Error"))
      BY <2>1, <1>4, MailedType DEF TableInv
    <2>2. CASE inbox' = told
      BY <2>2, <1>5
    <2>3. CASE q # <<>> /\ inbox' = [told EXCEPT ![Head(q)] = Append(@, Say("Garbage"))]
      <3>1. Head(q) \in Machines
        BY <1>2, <2>3, EntryOK
      <3> HIDE DEF told, q
      <3> QED BY <2>3, <3>1, <1>4, <1>5, MailType
    <2> QED BY <1>8, <2>1, <2>2, <2>3
  <1> QED
    BY <1>1, <1>8, <1>9, <1>10, <1>11, HandlerKeeps DEF TableInv, TypeOK

\* A waiter leaves the condition's queue and asks for the lock: Signal_server and
\* every turn of Broadcast_server's loop.
LEMMA WokenKeeps ==
    ASSUME LockServerAssumption, TableInv, NEW l \in LockIds, NEW c \in CondIds,
           serverConds[c].waitQueue # <<>>, Woken(l, c)
    PROVE  /\ Head(serverConds[c].waitQueue) \in Machines
           /\ serverConds' \in [CondIds -> Cond]
           /\ LocksOK(serverLocks', serverLockCount)
           /\ AcquireReply(l, Head(serverConds[c].waitQueue)) \in Seq(Reply)
           /\ [inbox EXCEPT ![Head(serverConds[c].waitQueue)] =
                  @ \o AcquireReply(l, Head(serverConds[c].waitQueue))]
                \in [Machines -> Seq(Reply)]
  <1> DEFINE e == serverConds[c]
             w == Head(e.waitQueue)
             new == [e EXCEPT !.waitQueue = Tail(@)]
  <1>1. /\ e \in Cond /\ w \in Machines /\ Tail(e.waitQueue) \in Seq(Machines)
    BY CondEntry DEF TableInv
  <1>2. new \in Cond
    BY <1>1 DEF Cond
  <1>3. serverConds' = [serverConds EXCEPT ![c] = new] /\ serverLocks' = Acquired(l, w)
    BY DEF Woken
  <1>4. serverConds' \in [CondIds -> Cond]
    <2> HIDE DEF new
    <2> QED BY <1>2, <1>3 DEF TableInv, TypeOK
  <1>5. /\ LocksOK(serverLocks', serverLockCount)
        /\ AcquireReply(l, w) \in Seq(Reply)
    BY <1>1, <1>3, AcquiredOK
  <1>6. [inbox EXCEPT ![w] = @ \o AcquireReply(l, w)] \in [Machines -> Seq(Reply)]
    <2> HIDE DEF w
    <2> QED BY <1>1, <1>5, MailType DEF TableInv, TypeOK
  <1> QED BY <1>1, <1>4, <1>5, <1>6

LEMMA SignalKeeps ==
    ASSUME LockServerAssumption, TableInv, NEW m \in Machines, Signal_server(m)
    PROVE  TableInv'
  <1> DEFINE l == Head(requests[m]).lock
             c == Head(requests[m]).cond
             q == serverConds[c].waitQueue
             w == Head(q)
             woken == [inbox EXCEPT ![w] = @ \o AcquireReply(l, w)]
  <1>1. /\ Taken(m, "Signal")
        /\ UNCHANGED <<serverLockCount, serverCondCount, broadcast, serverUp>>
    BY DEF Signal_server
  <1>2. l \in LockIds /\ c \in CondIds
    BY <1>1, TakenType, RequestArguments DEF TableInv, CondOps
  <1>3. CASE /\ Mailed(m, Say("Error")) \/ Mailed(m, Say("Done"))
             /\ UNCHANGED <<serverLocks, serverConds>>
    <2>1. inbox' \in [Machines -> Seq(Reply)]
      BY <1>3, MailedType, ReplyType DEF TableInv
    <2> QED BY <2>1, <1>1, <1>3, HandlerKeeps DEF TableInv, TypeOK
  <1>4. CASE /\ q # <<>> /\ Woken(l, c)
             /\ inbox' = [woken EXCEPT ![m] = Append(@, Say("Done"))]
    <2>1. /\ serverConds' \in [CondIds -> Cond]
          /\ LocksOK(serverLocks', serverLockCount)
          /\ woken \in [Machines -> Seq(Reply)]
      BY <1>2, <1>4, WokenKeeps
    <2>2. inbox' \in [Machines -> Seq(Reply)]
      <3> HIDE DEF woken
      <3> QED BY <1>4, <2>1, MailType, ReplyType
    <2> QED BY <2>1, <2>2, <1>1, HandlerKeeps DEF TableInv, TypeOK
  <1> QED BY <1>3, <1>4 DEF Signal_server

LEMMA BroadcastKeeps ==
    ASSUME LockServerAssumption, TableInv, NEW m \in Machines, Broadcast_server(m)
    PROVE  TableInv'
  <1> DEFINE l == Head(requests[m]).lock
             c == Head(requests[m]).cond
  <1>1. Taken(m, "Broadcast") /\ UNCHANGED <<lockVars, condVars, serverUp>>
    BY DEF Broadcast_server
  <1>2. l \in LockIds /\ c \in CondIds
    BY <1>1, TakenType, RequestArguments DEF TableInv, CondOps
  <1>3. \/ MailedTwice(m, Say("Error"), Say("Done")) /\ UNCHANGED broadcast
        \/ /\ UNCHANGED inbox
           /\ broadcast' = [op |-> "Broadcast", machine |-> m, lock |-> l, cond |-> c]
    BY DEF Broadcast_server
  <1>4. inbox' \in [Machines -> Seq(Reply)]
    <2>1. /\ inbox \in [Machines -> Seq(Reply)]
          /\ Say("Error") \in Reply /\ Say("Done") \in Reply
      BY ReplyType DEF TableInv, TypeOK
    <2>2. CASE MailedTwice(m, Say("Error"), Say("Done"))
      BY <2>1, <2>2, MailType DEF MailedTwice
    <2> QED BY <1>3, <2>1, <2>2
  <1>5. broadcast' \in [op : {"Broadcast"}, machine : Machines,
                         lock : LockIds, cond : CondIds] \cup {NoLoop}
    BY <1>2, <1>3 DEF TableInv, TypeOK
  <1> QED
    BY <1>1, <1>4, <1>5, HandlerKeeps DEF lockVars, condVars, TableInv, TypeOK

LEMMA DestroyConditionKeeps ==
    ASSUME LockServerAssumption, TableInv, NEW m \in Machines, DestroyCondition_server(m)
    PROVE  TableInv'
  <1> DEFINE c == Head(requests[m]).cond
  <1>1. /\ Taken(m, "DestroyCondition")
        /\ Mailed(m, Say("Error")) \/ Mailed(m, Say("Done"))
        /\ UNCHANGED <<lockVars, serverCondCount, broadcast, serverUp>>
    BY DEF DestroyCondition_server
  <1>2. c \in CondIds
    BY <1>1, TakenType, RequestArguments DEF TableInv
  <1>3. serverConds[c] \in Cond
    BY <1>2, CondEntry DEF TableInv
  <1>4. /\ [serverConds[c] EXCEPT !.isDeleted = TRUE] \in Cond
        /\ [serverConds[c] EXCEPT !.deleteFlag = TRUE] \in Cond
    BY <1>3 DEF Cond
  <1>5. serverConds' \in [CondIds -> Cond]
    BY <1>2, <1>4 DEF DestroyCondition_server, TableInv, TypeOK
  <1>6. inbox' \in [Machines -> Seq(Reply)]
    BY <1>1, MailedType, ReplyType DEF TableInv
  <1> QED
    BY <1>1, <1>5, <1>6, HandlerKeeps DEF lockVars, TableInv, TypeOK

LEMMA BroadcastLoopKeeps ==
    ASSUME LockServerAssumption, TableInv, BroadcastLoop
    PROVE  TableInv'
  <1> DEFINE m == broadcast.machine
             l == broadcast.lock
             c == broadcast.cond
             w == Head(serverConds[c].waitQueue)
  <1>1. broadcast \in [op : {"Broadcast"}, machine : Machines,
                       lock : LockIds, cond : CondIds]
    BY DEF BroadcastLoop, TableInv, TypeOK
  <1>2. m \in Machines /\ l \in LockIds /\ c \in CondIds
    BY <1>1
  <1>3. UNCHANGED <<clientVars, requests, serverLockCount, serverCondCount, serverUp>>
    BY DEF BroadcastLoop
  <1>4. CASE /\ serverConds[c].waitQueue # <<>> /\ Woken(l, c)
             /\ inbox' = [inbox EXCEPT ![w] = @ \o AcquireReply(l, w)]
             /\ UNCHANGED broadcast
    <2>1. /\ serverConds' \in [CondIds -> Cond]
          /\ LocksOK(serverLocks', serverLockCount)
          /\ inbox' \in [Machines -> Seq(Reply)]
      BY <1>2, <1>4, WokenKeeps
    <2> QED
      BY <1>3, <1>4, <2>1 DEF TableInv, TypeOK, LocksOK, clientVars
  <1>5. CASE /\ serverConds' = [serverConds EXCEPT ![c].waitingLockIndex = -1]
             /\ Mailed(m, Say("Done"))
             /\ broadcast' = NoLoop
             /\ UNCHANGED serverLocks
    <2>1. inbox' \in [Machines -> Seq(Reply)]
      BY <1>2, <1>5, MailedType, ReplyType DEF TableInv
    <2>2. serverConds[c] \in Cond
      BY <1>2, CondEntry DEF TableInv
    <2>3. [serverConds[c] EXCEPT !.waitingLockIndex = -1] \in Cond
      BY <2>2 DEF Cond
    <2>4. serverConds' \in [CondIds -> Cond]
      BY <1>2, <1>5, <2>3 DEF TableInv, TypeOK
    <2> QED
      BY <1>3, <1>5, <2>1, <2>4 DEF TableInv, TypeOK, LocksOK, clientVars
  <1> QED BY <1>4, <1>5 DEF BroadcastLoop

-----------------------------------------------------------------------------
(* The clients' own steps change nothing of the server's *)

LEMMA SendKeeps ==
    ASSUME LockServerAssumption, TableInv, NEW t \in Threads, NEW r \in Request, Send(t, r)
    PROVE  TableInv'
  <1> DEFINE m == machineOf[t]
  <1>1. m \in Machines
    BY DEF LockServerAssumption
  <1>2. /\ call' = [call EXCEPT ![t] = r]
        /\ requests' = [requests EXCEPT ![m] = Append(@, r)]
        /\ held' = [held EXCEPT ![t] =
                        IF r.op \in {"Release", "Wait"} THEN @ \ {r.lock} ELSE @]
        /\ UNCHANGED <<knownLocks, knownConds, inbox, lockVars, condVars,
                       broadcast, serverUp>>
    BY DEF Send
  <1>3. call' \in [Threads -> Request \cup {Idle, Halted}]
    BY <1>2 DEF TableInv, TypeOK
  <1>4. requests' \in [Machines -> Seq(Request)]
    <2>1. Append(requests[m], r) \in Seq(Request)
      BY <1>1, AppendProperties DEF TableInv, TypeOK
    <2> QED BY <1>1, <1>2, <2>1 DEF TableInv, TypeOK
  <1>5. held' \in [Threads -> SUBSET LockIds]
    BY <1>2 DEF TableInv, TypeOK
  <1> QED
    BY <1>2, <1>3, <1>4, <1>5 DEF TableInv, TypeOK, LocksOK, lockVars, condVars

LEMMA ReceiveKeeps ==
    ASSUME LockServerAssumption, TableInv, NEW t \in Threads, Receive(t)
    PROVE  TableInv'
  <1> DEFINE m == machineOf[t]
             c == call[t]
             answer == Head(inbox[m])
             Ids == LockIds \cup CondIds
  <1>1. /\ m \in Machines
        /\ inbox[m] \in Seq(Reply) /\ inbox[m] # <<>>
        /\ c \in Request
    BY DEF LockServerAssumption, TableInv, TypeOK, Receive
  <1>2. answer \in Reply /\ Tail(inbox[m]) \in Seq(Reply)
    BY <1>1, HeadTailProperties
  <1>3. inbox' \in [Machines -> Seq(Reply)]
    <2>1. inbox' = [inbox EXCEPT ![m] = Tail(@)]
      BY DEF Receive
    <2> HIDE DEF m
    <2> QED BY <1>1, <1>2, <2>1 DEF TableInv, TypeOK
  <1>4. \A i \in ParsedIndex(answer) : i # -1 => i \in Ids
    <2>1. answer.id \in {-1} \cup LockIds \cup CondIds
      BY <1>2 DEF Reply
    <2>2. 0 \in LockIds
      BY DEF LockIds, LockServerAssumption
    <2> HIDE DEF answer
    <2> QED BY <2>1, <2>2 DEF ParsedIndex
  <1>5. \A known \in SUBSET Ids, i \in Ids : Kept(known, i) \in SUBSET Ids
    BY DEF Kept
  <1>6. c.op \in {"Acquire", "Wait"} => c.lock \in LockIds
    BY <1>1, RequestArguments DEF LockOps, CondOps
  <1>7. UNCHANGED <<requests, lockVars, condVars, broadcast, serverUp>>
    BY DEF Receive
  <1>8. /\ call' \in [Threads -> Request \cup {Idle, Halted}]
        /\ held' \in [Threads -> SUBSET LockIds]
        /\ knownLocks' \in [Threads -> SUBSET Ids]
        /\ knownConds' \in [Threads -> SUBSET Ids]
    <2> DEFINE idle == [call EXCEPT ![t] = Idle]
    <2>1. /\ call \in [Threads -> Request \cup {Idle, Halted}]
          /\ held \in [Threads -> SUBSET LockIds]
          /\ knownLocks \in [Threads -> SUBSET Ids]
          /\ knownConds \in [Threads -> SUBSET Ids]
      BY DEF TableInv, TypeOK
    <2>2. idle \in [Threads -> Request \cup {Idle, Halted}]
      BY <2>1
    <2>3. CASE /\ call' = idle
               /\ held' = IF Careful /\ c.op \in {"Acquire", "Wait"}
                          THEN [held EXCEPT ![t] = @ \cup {c.lock}]
                          ELSE held
               /\ UNCHANGED <<knownLocks, knownConds>>
      <3>1. c.op \in {"Acquire", "Wait"} =>
              [held EXCEPT ![t] = @ \cup {c.lock}] \in [Threads -> SUBSET LockIds]
        BY <1>6, <2>1
      <3> QED BY <2>1, <2>2, <2>3, <3>1
    <2>4. CASE \E i \in ParsedIndex(answer) :
                 /\ i # -1
                 /\ call' = idle
                 /\ knownLocks' = [knownLocks EXCEPT ![t] = Kept(@, i)]
                 /\ UNCHANGED <<held, knownConds>>
      BY <1>4, <1>5, <2>1, <2>2, <2>4
    <2>5. CASE \E i \in ParsedIndex(answer) :
                 /\ i # -1
                 /\ call' = idle
                 /\ knownConds' = [knownConds EXCEPT ![t] = Kept(@, i)]
                 /\ UNCHANGED <<held, knownLocks>>
      BY <1>4, <1>5, <2>1, <2>2, <2>5
    <2>6. CASE /\ call' = [u \in Threads |-> IF machineOf[u] = m THEN Halted ELSE call[u]]
               /\ UNCHANGED <<held, knownLocks, knownConds>>
      BY <2>1, <2>6
    <2> QED
      BY <2>3, <2>4, <2>5, <2>6 DEF Receive
  <1> QED
    BY <1>3, <1>7, <1>8 DEF TableInv, TypeOK, LocksOK, lockVars, condVars

-----------------------------------------------------------------------------

LEMMA InitTable ==
    ASSUME LockServerAssumption, Init
    PROVE  TableInv
  <1>1. /\ <<>> \in Seq(Machines) /\ <<>> \in Seq(Request) /\ <<>> \in Seq(Reply)
        /\ NoMachine \notin Machines
    BY DEF LockServerAssumption
  <1>2. UnusedLock \in Lock /\ UnusedCond \in Cond
    BY <1>1 DEF UnusedLock, UnusedCond, Lock, Cond
  <1>3. TypeOK
    BY <1>1, <1>2 DEF Init, TypeOK, LockServerAssumption
  <1>4. LocksOK(serverLocks, serverLockCount)
    BY <1>1, <1>2 DEF Init, LocksOK, UnusedLock
  <1> QED BY <1>3, <1>4 DEF TableInv

LEMMA StepTable ==
    ASSUME LockServerAssumption, TableInv, [Next]_vars
    PROVE  TableInv'
  <1>1. ASSUME NEW t \in Threads, Receive(t)
        PROVE  TableInv'
    BY <1>1, ReceiveKeeps
  <1>2. ASSUME NEW t \in Threads, NEW r \in Request, Send(t, r)
        PROVE  TableInv'
    BY <1>2, SendKeeps
  <1>3. ASSUME NEW m \in Machines, Server(m)
        PROVE  TableInv'
    BY <1>3, CreateLockKeeps, AcquireKeeps, ReleaseKeeps, DestroyLockKeeps,
       CreateConditionKeeps, WaitKeeps, SignalKeeps, BroadcastKeeps,
       DestroyConditionKeeps DEF Server
  <1>4. CASE BroadcastLoop
    BY <1>4, BroadcastLoopKeeps
  <1>5. CASE UNCHANGED vars
    BY <1>5 DEF TableInv, TypeOK, LocksOK, vars, clientVars, lockVars, condVars
  <1> QED
    BY <1>1, <1>2, <1>3, <1>4, <1>5 DEF Next, ClientNext

\* Every reachable state has well-typed tables, mail and clients, whatever calls
\* the clients make and in whatever order they are served.
THEOREM TypeCorrect == Spec => []TypeOK
  <1>1. Init => TableInv
    BY InitTable, LockServerAssumption
  <1>2. TableInv /\ [Next]_vars => TableInv'
    BY StepTable, LockServerAssumption
  <1>3. TableInv => TypeOK
    BY DEF TableInv
  <1> QED BY <1>1, <1>2, <1>3, PTL DEF Spec

\* No handler, its error paths included, leaves a lock BUSY without an owner, or
\* FREE with an owner or with clients queued that nobody will ever serve.
THEOREM OwnershipIsConsistent == Spec => []OwnershipConsistent
  <1>1. Init => TableInv
    BY InitTable, LockServerAssumption
  <1>2. TableInv /\ [Next]_vars => TableInv'
    BY StepTable, LockServerAssumption
  <1>3. TableInv => OwnershipConsistent
    BY DEF TableInv, LocksOK, OwnershipConsistent
  <1> QED BY <1>1, <1>2, <1>3, PTL DEF Spec

-----------------------------------------------------------------------------
(* What one step may do to an entry of the tables: locks are handed on in   *)
(* order, and no two live entries get the same name.                        *)

\* A lock that changes hands goes to its first waiter, or is taken while FREE and
\* waited for by nobody.
HandedOn(old, new) ==
    new.lockOwner # old.lockOwner /\ new.lockOwner # NoMachine
        => IF old.waitQueue = <<>> THEN old.lockStatus = "FREE"
                                   ELSE new.lockOwner = Head(old.waitQueue)

\* An entry keeps its name and never comes back to life.
SameEntry(old, new) ==
    /\ new.name = old.name
    /\ old.isDeleted => new.isDeleted

LocksStep(new) ==
    \A l \in LockIds : HandedOn(serverLocks[l], new[l]) /\ SameEntry(serverLocks[l], new[l])

CondsStep(new) == \A c \in CondIds : SameEntry(serverConds[c], new[c])

\* A step that replaces one entry need only be looked at there.
LEMMA OneLockStep ==
    ASSUME NEW l \in LockIds, NEW e, TypeOK,
           HandedOn(serverLocks[l], e), SameEntry(serverLocks[l], e)
    PROVE  LocksStep([serverLocks EXCEPT ![l] = e])
  BY DEF LocksStep, HandedOn, SameEntry, TypeOK

LEMMA OneCondStep ==
    ASSUME NEW c \in CondIds, NEW e, TypeOK, SameEntry(serverConds[c], e)
    PROVE  CondsStep([serverConds EXCEPT ![c] = e])
  BY DEF CondsStep, SameEntry, TypeOK

LEMMA NoStep == LocksStep(serverLocks) /\ CondsStep(serverConds)
  BY DEF LocksStep, HandedOn, CondsStep, SameEntry

-----------------------------------------------------------------------------
(* The operators the handlers are built from *)

LEMMA AcquiredStep ==
    ASSUME LockServerAssumption, TableInv, NEW l \in LockIds, NEW w \in Machines
    PROVE  LocksStep(Acquired(l, w))
  <1> DEFINE e == serverLocks[l]
             taken == [e EXCEPT !.lockStatus = "BUSY", !.lockOwner = w]
             queued == [e EXCEPT !.waitQueue = Append(e.waitQueue, w)]
  <1>1. e \in Lock /\ TypeOK
    BY EntryOK DEF TableInv
  <1>2. e.lockStatus = "FREE" => e.waitQueue = <<>>
    BY DEF TableInv, LocksOK
  <1>3. e.lockStatus = "FREE" => HandedOn(e, taken) /\ SameEntry(e, taken)
    BY <1>1, <1>2 DEF HandedOn, SameEntry, Lock
  <1>4. HandedOn(e, queued) /\ SameEntry(e, queued)
    BY <1>1 DEF HandedOn, SameEntry, Lock
  <1>5. \/ Acquired(l, w) = serverLocks
        \/ e.lockStatus = "FREE" /\ Acquired(l, w) = [serverLocks EXCEPT ![l] = taken]
        \/ Acquired(l, w) = [serverLocks EXCEPT ![l] = queued]
    BY DEF Acquired, putMsgLock
  <1> HIDE DEF taken, queued
  <1>6. e.lockStatus = "FREE" => LocksStep([serverLocks EXCEPT ![l] = taken])
    BY <1>1, <1>3, OneLockStep
  <1>7. LocksStep([serverLocks EXCEPT ![l] = queued])
    BY <1>1, <1>4, OneLockStep
  <1> QED BY <1>5, <1>6, <1>7, NoStep

LEMMA PassedStep ==
    ASSUME LockServerAssumption, TableInv, NEW l \in LockIds
    PROVE  LocksStep(Passed(l))
  <1> DEFINE e == serverLocks[l]
             next == [e EXCEPT !.lockOwner = Head(e.waitQueue), !.waitQueue = Tail(@)]
             freed == [e EXCEPT !.lockStatus = "FREE", !.lockOwner = NoMachine]
  <1>1. e \in Lock /\ TypeOK
    BY EntryOK DEF TableInv
  <1>2. e.waitQueue # <<>> => HandedOn(e, next) /\ SameEntry(e, next)
    BY <1>1 DEF HandedOn, SameEntry, Lock
  <1>3. HandedOn(e, freed) /\ SameEntry(e, freed)
    BY <1>1 DEF HandedOn, SameEntry, Lock
  <1>4. \/ e.waitQueue # <<>> /\ Passed(l) = [serverLocks EXCEPT ![l] = next]
        \/ Passed(l) = [serverLocks EXCEPT ![l] = freed]
    BY DEF Passed
  <1> HIDE DEF next, freed
  <1>5. e.waitQueue # <<>> => LocksStep([serverLocks EXCEPT ![l] = next])
    BY <1>1, <1>2, OneLockStep
  <1>6. LocksStep([serverLocks EXCEPT ![l] = freed])
    BY <1>1, <1>3, OneLockStep
  <1> QED BY <1>4, <1>5, <1>6

\* What the two destroying branches of a lock, and its marking, make of it.
LEMMA DestroyedStep ==
    ASSUME LockServerAssumption, TableInv, NEW l \in LockIds
    PROVE  /\ LocksStep(Deleted(l))
           /\ LocksStep([Deleted(l) EXCEPT ![l].lockOwner = NoMachine])
           /\ LocksStep([serverLocks EXCEPT ![l].deleteFlag = TRUE])
  <1> DEFINE e == serverLocks[l]
             gone == [e EXCEPT !.isDeleted = TRUE, !.waitQueue = <<>>]
             freed == [gone EXCEPT !.lockOwner = NoMachine]
             marked == [e EXCEPT !.deleteFlag = TRUE]
  <1>1. e \in Lock /\ TypeOK /\ serverLocks \in [LockIds -> Lock]
    BY EntryOK DEF TableInv, TypeOK
  <1>2. /\ HandedOn(e, gone) /\ SameEntry(e, gone)
        /\ HandedOn(e, freed) /\ SameEntry(e, freed)
        /\ HandedOn(e, marked) /\ SameEntry(e, marked)
    BY <1>1 DEF HandedOn, SameEntry, Lock
  <1>3. /\ Deleted(l) = [serverLocks EXCEPT ![l] = gone]
        /\ [serverLocks EXCEPT ![l].deleteFlag = TRUE] = [serverLocks EXCEPT ![l] = marked]
    BY DEF Deleted
  <1>4. [Deleted(l) EXCEPT ![l].lockOwner = NoMachine] = [serverLocks EXCEPT ![l] = freed]
    BY <1>1, <1>3
  <1> HIDE DEF gone, freed, marked
  <1>5. /\ LocksStep([serverLocks EXCEPT ![l] = gone])
        /\ LocksStep([serverLocks EXCEPT ![l] = freed])
        /\ LocksStep([serverLocks EXCEPT ![l] = marked])
    BY <1>1, <1>2, OneLockStep
  <1> QED BY <1>3, <1>4, <1>5

LEMMA WokenStep ==
    ASSUME LockServerAssumption, TableInv, NEW l \in LockIds, NEW c \in CondIds,
           serverConds[c].waitQueue # <<>>, Woken(l, c)
    PROVE  LocksStep(serverLocks') /\ CondsStep(serverConds')
  <1> DEFINE e == serverConds[c]
             new == [e EXCEPT !.waitQueue = Tail(@)]
  <1>1. e \in Cond /\ Head(e.waitQueue) \in Machines /\ TypeOK
    BY CondEntry DEF TableInv
  <1>2. SameEntry(e, new)
    BY <1>1 DEF SameEntry, Cond
  <1>3. serverConds' = [serverConds EXCEPT ![c] = new]
    BY DEF Woken
  <1> HIDE DEF new
  <1>4. CondsStep(serverConds')
    BY <1>1, <1>2, <1>3, OneCondStep
  <1>5. LocksStep(serverLocks')
    BY <1>1, AcquiredStep DEF Woken
  <1> QED BY <1>4, <1>5

-----------------------------------------------------------------------------
(* The steps *)

\* Every handler but the two Creates only hands locks on and marks entries.
Ordinary == /\ LocksStep(serverLocks') /\ CondsStep(serverConds')
            /\ UNCHANGED <<serverLockCount, serverCondCount>>

LEMMA LockHandlers ==
    ASSUME LockServerAssumption, TableInv, NEW m \in Machines,
           Acquire_server(m) \/ Release_server(m) \/ DestroyLock_server(m)
    PROVE  Ordinary
  <1> DEFINE l == Head(requests[m]).lock
  <1>1. CASE Acquire_server(m)
    <2>1. Taken(m, "Acquire") /\ serverLocks' = Acquired(l, m)
      BY <1>1 DEF Acquire_server
    <2>2. l \in LockIds
      BY <2>1, TakenType, RequestArguments DEF TableInv, LockOps
    <2> HIDE DEF l
    <2> QED BY <1>1, <2>1, <2>2, AcquiredStep, NoStep DEF Acquire_server, condVars, Ordinary
  <1>2. CASE Release_server(m)
    <2>1. /\ Taken(m, "Release")
          /\ serverLocks' \in {serverLocks, Deleted(l), Passed(l)}
      BY <1>2 DEF Release_server
    <2>2. l \in LockIds
      BY <2>1, TakenType, RequestArguments DEF TableInv, LockOps
    <2>3. LocksStep(serverLocks')
      <3> HIDE DEF l
      <3> QED BY <2>1, <2>2, PassedStep, DestroyedStep, NoStep
    <2> QED BY <1>2, <2>3, NoStep DEF Release_server, condVars, Ordinary
  <1>3. CASE DestroyLock_server(m)
    <2>1. /\ Taken(m, "DestroyLock")
          /\ \/ serverLocks' = serverLocks
             \/ serverLocks' = [serverLocks EXCEPT ![l].deleteFlag = TRUE]
             \/ serverLocks' = [Deleted(l) EXCEPT ![l].lockOwner = NoMachine]
      BY <1>3 DEF DestroyLock_server
    <2>2. l \in LockIds
      BY <2>1, TakenType, RequestArguments DEF TableInv, LockOps
    <2>3. LocksStep(serverLocks')
      <3> HIDE DEF l
      <3> QED BY <2>1, <2>2, DestroyedStep, NoStep
    <2> QED BY <1>3, <2>3, NoStep DEF DestroyLock_server, condVars, Ordinary
  <1> QED BY <1>1, <1>2, <1>3

LEMMA WaitStep ==
    ASSUME LockServerAssumption, TableInv, NEW m \in Machines, Wait_server(m)
    PROVE  Ordinary
  <1> DEFINE l == Head(requests[m]).lock
             c == Head(requests[m]).cond
             e == serverConds[c]
             binds == ~WaitError(m, l, c) /\ ~e.hasWaitingLock
             new == [e EXCEPT
                       !.waitingLockIndex = IF binds THEN l ELSE e.waitingLockIndex,
                       !.hasWaitingLock = IF binds THEN TRUE ELSE e.hasWaitingLock,
                       !.waitQueue = IF e.isDeleted THEN e.waitQueue
                                     ELSE Append(e.waitQueue, m)]
  <1>1. /\ Taken(m, "Wait")
        /\ serverLocks' \in {serverLocks, Passed(l)}
        /\ serverConds' \in {serverConds, Enqueued(m, l, c)}
        /\ UNCHANGED <<serverLockCount, serverCondCount>>
    BY DEF Wait_server
  <1>2. l \in LockIds /\ c \in CondIds
    BY <1>1, TakenType, RequestArguments DEF TableInv, CondOps
  <1>3. Enqueued(m, l, c) = [serverConds EXCEPT ![c] = new]
    BY DEF Enqueued, putMsgCond
  <1>4. e \in Cond /\ TypeOK
    BY <1>2, CondEntry DEF TableInv
  <1>5. SameEntry(e, new)
    BY <1>4 DEF SameEntry, Cond
  <1> HIDE DEF new, l, c
  <1>6. CondsStep([serverConds EXCEPT ![c] = new])
    BY <1>2, <1>4, <1>5, OneCondStep
  <1>7. LocksStep(serverLocks')
    BY <1>1, <1>2, PassedStep, NoStep
  <1> QED BY <1>1, <1>3, <1>6, <1>7, NoStep DEF Ordinary

LEMMA WakingSteps ==
    ASSUME LockServerAssumption, TableInv,
           BroadcastLoop \/ \E m \in Machines : Signal_server(m) \/ Broadcast_server(m)
    PROVE  Ordinary
  <1>1. CASE BroadcastLoop
    <2> DEFINE l == broadcast.lock
               c == broadcast.cond
               e == serverConds[c]
               new == [e EXCEPT !.waitingLockIndex = -1]
    <2>1. l \in LockIds /\ c \in CondIds
      BY <1>1 DEF BroadcastLoop, TableInv, TypeOK
    <2>2. \/ e.waitQueue # <<>> /\ Woken(l, c)
          \/ UNCHANGED serverLocks /\ serverConds' = [serverConds EXCEPT ![c] = new]
      BY <1>1 DEF BroadcastLoop
    <2>3. UNCHANGED <<serverLockCount, serverCondCount>>
      BY <1>1 DEF BroadcastLoop
    <2>4. e \in Cond /\ TypeOK
      BY <2>1, CondEntry DEF TableInv
    <2>5. SameEntry(e, new)
      BY <2>4 DEF SameEntry, Cond
    <2> HIDE DEF new, l, c
    <2>6. CondsStep([serverConds EXCEPT ![c] = new])
      BY <2>1, <2>4, <2>5, OneCondStep
    <2> QED BY <2>1, <2>2, <2>3, <2>6, WokenStep, NoStep DEF Ordinary
  <1>2. ASSUME NEW m \in Machines, Signal_server(m)
        PROVE  Ordinary
    <2> DEFINE l == Head(requests[m]).lock
               c == Head(requests[m]).cond
    <2>1. /\ Taken(m, "Signal")
          /\ \/ UNCHANGED <<serverLocks, serverConds>>
             \/ serverConds[c].waitQueue # <<>> /\ Woken(l, c)
          /\ UNCHANGED <<serverLockCount, serverCondCount>>
      BY <1>2 DEF Signal_server
    <2>2. l \in LockIds /\ c \in CondIds
      BY <2>1, TakenType, RequestArguments DEF TableInv, CondOps
    <2> HIDE DEF l, c
    <2> QED BY <2>1, <2>2, WokenStep, NoStep DEF Ordinary
  <1>3. ASSUME NEW m \in Machines, Broadcast_server(m)
        PROVE  Ordinary
    BY <1>3, NoStep DEF Broadcast_server, lockVars, condVars, Ordinary
  <1> QED BY <1>1, <1>2, <1>3

LEMMA DestroyConditionStep ==
    ASSUME LockServerAssumption, TableInv, NEW m \in Machines, DestroyCondition_server(m)
    PROVE  Ordinary
  <1> DEFINE c == Head(requests[m]).cond
             e == serverConds[c]
             gone == [e EXCEPT !.isDeleted = TRUE]
             marked == [e EXCEPT !.deleteFlag = TRUE]
  <1>1. /\ Taken(m, "DestroyCondition")
        /\ \/ UNCHANGED serverConds
           \/ serverConds' = [serverConds EXCEPT ![c] = gone]
           \/ serverConds' = [serverConds EXCEPT ![c] = marked]
        /\ UNCHANGED <<lockVars, serverCondCount>>
    BY DEF DestroyCondition_server
  <1>2. c \in CondIds
    BY <1>1, TakenType, RequestArguments DEF TableInv
  <1>3. e \in Cond /\ TypeOK
    BY <1>2, CondEntry DEF TableInv
  <1>4. SameEntry(e, gone) /\ SameEntry(e, marked)
    BY <1>3 DEF SameEntry, Cond
  <1> HIDE DEF gone, marked, c
  <1>5. /\ CondsStep([serverConds EXCEPT ![c] = gone])
        /\ CondsStep([serverConds EXCEPT ![c] = marked])
    BY <1>2, <1>3, <1>4, OneCondStep
  <1> QED BY <1>1, <1>5, NoStep DEF lockVars, Ordinary

\* A Create that finds no live entry of the name fills the next slot.
NewLock(name) ==
    /\ LocksNamed(name) = {}
    /\ serverLockCount < MAX_LOCK_COUNT
    /\ serverLockCount' = serverLockCount + 1
    /\ serverLocks' = [serverLocks EXCEPT ![serverLockCount] =
          [@ EXCEPT !.name = name, !.deleteFlag = FALSE, !.isDeleted = FALSE,
                    !.lockStatus = "FREE", !.lockOwner = NoMachine]]
    /\ UNCHANGED <<serverConds, serverCondCount>>

NewCond(name) ==
    /\ \A i \in CondIds : i < serverCondCount /\ serverConds[i].name = name
                            => serverConds[i].isDeleted
    /\ serverCondCount < MAX_COND_COUNT
    /\ serverCondCount' = serverCondCount + 1
    /\ serverConds' = [serverConds EXCEPT ![serverCondCount] =
          [@ EXCEPT !.name = name, !.deleteFlag = FALSE, !.isDeleted = FALSE,
                    !.waitingLockIndex = -1]]
    /\ UNCHANGED <<serverLocks, serverLockCount>>

LEMMA CreateSteps ==
    ASSUME LockServerAssumption, TableInv, NEW m \in Machines,
           CreateLock_server(m) \/ CreateCondition_server(m)
    PROVE  Ordinary \/ \E name : NewLock(name) \/ NewCond(name)
  <1> DEFINE name == Head(requests[m]).name
  <1>1. CASE CreateLock_server(m)
    <2>1. /\ \/ UNCHANGED lockVars
             \/ ~LockTableFull /\ LocksNamed(name) = {}
          /\ UNCHANGED condVars
      BY <1>1 DEF CreateLock_server
    <2>2. CASE UNCHANGED lockVars
      BY <2>1, <2>2, NoStep DEF lockVars, condVars, Ordinary
    <2>3. CASE ~UNCHANGED lockVars
      <3>1. NewLock(name)
        BY <1>1, <2>3 DEF CreateLock_server, NewLock, LockTableFull, condVars,
           LockServerAssumption, TableInv, TypeOK
      <3> QED BY <3>1
    <2> QED BY <2>2, <2>3
  <1>2. CASE CreateCondition_server(m)
    <2>1. UNCHANGED lockVars
      BY <1>2 DEF CreateCondition_server
    <2>2. CASE UNCHANGED condVars
      BY <2>1, <2>2, NoStep DEF lockVars, condVars, Ordinary
    <2>3. CASE ~UNCHANGED condVars
      <3>1. NewCond(name)
        BY <1>2, <2>1, <2>3 DEF CreateCondition_server, NewCond, lockVars
      <3> QED BY <3>1
    <2> QED BY <2>2, <2>3
  <1> QED BY <1>1, <1>2

LEMMA EveryStep ==
    ASSUME LockServerAssumption, TableInv, [Next]_vars
    PROVE  Ordinary \/ \E name : NewLock(name) \/ NewCond(name)
  <1>1. ASSUME NEW m \in Machines, Server(m)
        PROVE  Ordinary \/ \E name : NewLock(name) \/ NewCond(name)
    BY <1>1, LockHandlers, WaitStep, WakingSteps, DestroyConditionStep, CreateSteps DEF Server
  <1>2. CASE BroadcastLoop
    BY <1>2, WakingSteps
  <1>3. CASE ClientNext \/ UNCHANGED vars
    <2>1. UNCHANGED <<lockVars, condVars>>
      BY <1>3 DEF ClientNext, Send, Receive, vars
    <2> QED BY <2>1, NoStep DEF lockVars, condVars, Ordinary
  <1> QED BY <1>1, <1>2, <1>3 DEF Next

-----------------------------------------------------------------------------
(* What follows for the tables *)

LEMMA NewLockStep ==
    ASSUME LockServerAssumption, TableInv, NEW name, NewLock(name)
    PROVE  \A l \in LockIds : HandedOn(serverLocks[l], serverLocks'[l])
  <1>1. serverLocks \in [LockIds -> Lock] /\ serverLockCount \in LockIds
    BY DEF TableInv, TypeOK, NewLock, LockIds, LockServerAssumption
  <1>2. ASSUME NEW l \in LockIds
        PROVE  HandedOn(serverLocks[l], serverLocks'[l])
    <2>1. CASE l = serverLockCount
      <3>1. serverLocks'[l].lockOwner = NoMachine
        BY <1>1, <2>1 DEF NewLock, Lock
      <3> QED BY <3>1 DEF HandedOn
    <2>2. CASE l # serverLockCount
      <3>1. serverLocks'[l] = serverLocks[l]
        BY <1>1, <2>2 DEF NewLock
      <3> QED BY <3>1 DEF HandedOn
    <2> QED BY <2>1, <2>2
  <1> QED BY <1>2

LEMMA LiveStaysUnique ==
    ASSUME LockServerAssumption, TableInv, LiveNamesUnique, [Next]_vars
    PROVE  LiveNamesUnique'
  <1>1. /\ serverLocks \in [LockIds -> Lock] /\ serverConds \in [CondIds -> Cond]
        /\ serverLockCount \in 0 .. MAX_LOCK_COUNT /\ serverCondCount \in 0 .. MAX_COND_COUNT
        /\ MAX_LOCK_COUNT \in Nat /\ MAX_COND_COUNT \in Nat
    BY DEF TableInv, TypeOK, LockServerAssumption
  <1>2. /\ \A i \in 0 .. serverLockCount - 1 : i \in LockIds
        /\ \A i \in 0 .. serverCondCount - 1 : i \in CondIds
    BY <1>1 DEF LockIds, CondIds
  <1>3. CASE Ordinary
    BY <1>2, <1>3 DEF Ordinary, LocksStep, CondsStep, SameEntry, LiveNamesUnique
  <1>4. ASSUME NEW name, NewLock(name)
        PROVE  LiveNamesUnique'
    <2> DEFINE n == serverLockCount
    <2>1. n \in LockIds /\ serverLocks'[n].name = name
      BY <1>1, <1>4 DEF NewLock, LockIds, Lock
    <2>2. \A i \in 0 .. n - 1 : serverLocks'[i] = serverLocks[i]
      BY <1>1, <1>2, <1>4 DEF NewLock
    <2>3. \A i \in 0 .. n - 1 : serverLocks[i].name = name => serverLocks[i].isDeleted
      BY <1>1, <1>2, <1>4 DEF NewLock, LocksNamed
    <2>4. serverLockCount' = n + 1 /\ \A i \in 0 .. n : i \in 0 .. n - 1 \/ i = n
      BY <1>1, <1>4 DEF NewLock
    <2>5. \A i, j \in 0 .. n :
            /\ ~serverLocks'[i].isDeleted /\ ~serverLocks'[j].isDeleted
            /\ serverLocks'[i].name = serverLocks'[j].name
            => i = j
      BY <2>1, <2>2, <2>3, <2>4 DEF LiveNamesUnique
    <2>6. (n + 1) - 1 = n
      BY <1>1
    <2> QED BY <1>4, <2>4, <2>5, <2>6 DEF LiveNamesUnique, NewLock
  <1>5. ASSUME NEW name, NewCond(name)
        PROVE  LiveNamesUnique'
    <2> DEFINE n == serverCondCount
    <2>1. n \in CondIds /\ serverConds'[n].name = name
      BY <1>1, <1>5 DEF NewCond, CondIds, Cond
    <2>2. \A i \in 0 .. n - 1 : serverConds'[i] = serverConds[i]
      BY <1>1, <1>2, <1>5 DEF NewCond
    <2>3. \A i \in 0 .. n - 1 : serverConds[i].name = name => serverConds[i].isDeleted
      BY <1>1, <1>2, <1>5 DEF NewCond
    <2>4. serverCondCount' = n + 1 /\ \A i \in 0 .. n : i \in 0 .. n - 1 \/ i = n
      BY <1>1, <1>5 DEF NewCond
    <2>5. \A i, j \in 0 .. n :
            /\ ~serverConds'[i].isDeleted /\ ~serverConds'[j].isDeleted
            /\ serverConds'[i].name = serverConds'[j].name
            => i = j
      BY <2>1, <2>2, <2>3, <2>4 DEF LiveNamesUnique
    <2>6. (n + 1) - 1 = n
      BY <1>1
    <2> QED BY <1>5, <2>4, <2>5, <2>6 DEF LiveNamesUnique, NewCond
  <1> QED BY <1>3, <1>4, <1>5, EveryStep

LEMMA HandOffStep ==
    ASSUME LockServerAssumption, TableInv, [Next]_vars
    PROVE  \A l \in LockIds : HandedOn(serverLocks[l], serverLocks'[l])
  <1>1. CASE Ordinary
    BY <1>1 DEF Ordinary, LocksStep
  <1>2. ASSUME NEW name, NewLock(name)
        PROVE  \A l \in LockIds : HandedOn(serverLocks[l], serverLocks'[l])
    BY <1>2, NewLockStep
  <1>3. ASSUME NEW name, NewCond(name)
        PROVE  \A l \in LockIds : HandedOn(serverLocks[l], serverLocks'[l])
    BY <1>3 DEF NewCond, HandedOn
  <1> QED BY <1>1, <1>2, <1>3, EveryStep

\* Whatever is created, used and destroyed, and whoever does it, no two live locks
\* and no two live conditions of the server have one name.
THEOREM LiveNamesAreUnique == Spec => []LiveNamesUnique
  <1>1. Init => TableInv /\ LiveNamesUnique
    <2>1. Init => LiveNamesUnique
      BY DEF Init, LiveNamesUnique
    <2> QED BY <2>1, InitTable, LockServerAssumption
  <1>2. TableInv /\ LiveNamesUnique /\ [Next]_vars => (TableInv /\ LiveNamesUnique)'
    BY StepTable, LiveStaysUnique, LockServerAssumption
  <1> QED BY <1>1, <1>2, PTL DEF Spec

\* Nobody overtakes: in every step of every behaviour a lock that gets another
\* owner goes to its first waiter, or was FREE and waited for by nobody.
THEOREM LocksHandedOnInOrder == Spec => HandOffInOrder
  <1> DEFINE InOrder ==
        \A l \in LockIds :
           LET old == serverLocks[l]
               new == serverLocks'[l].lockOwner
           IN new # old.lockOwner /\ new # NoMachine
              => IF old.waitQueue = <<>> THEN old.lockStatus = "FREE"
                                         ELSE new = Head(old.waitQueue)
  <1>1. Init => TableInv
    BY InitTable, LockServerAssumption
  <1>2. TableInv /\ [Next]_vars => TableInv'
    BY StepTable, LockServerAssumption
  <1>3. TableInv /\ [Next]_vars => [InOrder]_vars
    BY HandOffStep, LockServerAssumption DEF HandedOn
  <1> QED BY <1>1, <1>2, <1>3, PTL DEF Spec, HandOffInOrder

-----------------------------------------------------------------------------
(* The careful clients *)

MonitorCalls == {"CreateLock", "Acquire", "Release", "CreateCondition", "Wait", "Signal"}

\* The clients these theorems are about: one thread per machine, the discipline of
\* the test programs, nothing destroyed or broadcast, fewer names than slots.  The
\* promises are not kept to others: a Broadcast unbinds the condition from its lock,
\* a destroyed BUSY lock forgets its queue, a full table answers a Create twice, and
\* two threads of one machine take each other's answers.
CarefulClients ==
    /\ Careful = TRUE
    /\ Ops \subseteq MonitorCalls
    /\ \A t, u \in Threads : machineOf[t] = machineOf[u] => t = u
    /\ IsFiniteSet(LockNames) /\ Cardinality(LockNames) < MAX_LOCK_COUNT
    /\ IsFiniteSet(CondNames) /\ Cardinality(CondNames) < MAX_COND_COUNT

-----------------------------------------------------------------------------
(* Queues.  What counts of one is who is in it. *)

Queued(q) == {q[i] : i \in DOMAIN q}
Once(q) == \A i, j \in DOMAIN q : i # j => q[i] # q[j]

LEMMA EmptyQueue == Queued(<<>>) = {} /\ Once(<<>>)
  BY EmptySeq DEF Queued, Once

LEMMA AppendQueue ==
    ASSUME NEW q \in Seq(Machines), NEW w \in Machines
    PROVE  /\ Queued(Append(q, w)) = Queued(q) \cup {w}
           /\ Once(q) /\ w \notin Queued(q) => Once(Append(q, w))
  <1>1. /\ Append(q, w) \in Seq(Machines)
        /\ Len(Append(q, w)) = Len(q) + 1
        /\ \A i \in 1..Len(q) : Append(q, w)[i] = q[i]
        /\ Append(q, w)[Len(q) + 1] = w
    BY AppendProperties
  <1>2. DOMAIN q = 1..Len(q) /\ DOMAIN Append(q, w) = 1..Len(q) + 1 /\ Len(q) \in Nat
    BY <1>1, LenProperties
  <1>3. Queued(Append(q, w)) = Queued(q) \cup {w}
    BY <1>1, <1>2 DEF Queued
  <1>4. Once(q) /\ w \notin Queued(q) => Once(Append(q, w))
    BY <1>1, <1>2 DEF Queued, Once
  <1> QED BY <1>3, <1>4

LEMMA TailQueue ==
    ASSUME NEW q \in Seq(Machines), q # <<>>
    PROVE  /\ Head(q) \in Queued(q) /\ Head(q) \in Machines /\ Tail(q) \in Seq(Machines)
           /\ Once(q) => Queued(Tail(q)) = Queued(q) \ {Head(q)} /\ Once(Tail(q))
  <1>1. /\ Head(q) \in Machines /\ Tail(q) \in Seq(Machines) /\ Len(Tail(q)) = Len(q) - 1
        /\ \A i \in 1..Len(q) - 1 : Tail(q)[i] = q[i + 1]
        /\ DOMAIN q = 1..Len(q) /\ DOMAIN Tail(q) = 1..Len(q) - 1 /\ Len(q) \in Nat \ {0}
        /\ Head(q) = q[1]
    BY HeadTailProperties, LenProperties, EmptySeq
  <1>2. Head(q) \in Queued(q)
    BY <1>1 DEF Queued
  <1>3. ASSUME Once(q) PROVE Once(Tail(q))
    BY <1>1, <1>3 DEF Once
  <1>4. ASSUME Once(q) PROVE Queued(Tail(q)) = Queued(q) \ {Head(q)}
    <2>1. ASSUME NEW i \in DOMAIN Tail(q) PROVE Tail(q)[i] \in Queued(q) \ {Head(q)}
      <3>1. i + 1 \in DOMAIN q /\ i + 1 # 1 /\ 1 \in DOMAIN q /\ Tail(q)[i] = q[i + 1]
        BY <1>1
      <3> QED BY <1>1, <1>4, <3>1 DEF Queued, Once
    <2>2. ASSUME NEW x \in Queued(q) \ {Head(q)} PROVE \E i \in DOMAIN Tail(q) : Tail(q)[i] = x
      <3>1. PICK i \in DOMAIN q : q[i] = x
        BY DEF Queued
      <3>2. i # 1 /\ i - 1 \in 1..Len(q) - 1 /\ (i - 1) + 1 = i
        BY <1>1, <3>1
      <3>3. Tail(q)[i - 1] = q[(i - 1) + 1]
        BY <1>1, <3>2
      <3> QED BY <1>1, <3>1, <3>2, <3>3
    <2> QED BY <2>1, <2>2 DEF Queued
  <1> QED BY <1>1, <1>2, <1>3, <1>4

LEMMA NobodyQueued ==
    ASSUME NEW q \in Seq(Machines)
    PROVE  q = <<>> <=> Queued(q) = {}
  BY EmptyQueue, TailQueue

-----------------------------------------------------------------------------
(* The inductive invariant: in which one place the call of each client is *)

\* The entries of a table, locks or conditions, in whose queue machine n waits.
QueuesOf(table, n) == {k \in DOMAIN table : n \in Queued(table[k].waitQueue)}

\* A client call r in one place: nowhere, in the mail to the server, in the queue of
\* its lock, in that of its condition, or answered, a Create with an index in use.
Placed(r, req, box, lqs, cqs, lcount, ccount) ==
    \/ /\ r = Idle
       /\ req = <<>> /\ box = <<>> /\ lqs = {} /\ cqs = {}
    \/ /\ r \in Request
       /\ req = <<r>> /\ box = <<>> /\ lqs = {} /\ cqs = {}
    \/ /\ r \in Request /\ r.op \in {"Acquire", "Wait"}
       /\ req = <<>> /\ box = <<>> /\ lqs = {r.lock} /\ cqs = {}
    \/ /\ r \in Request /\ r.op = "Wait"
       /\ req = <<>> /\ box = <<>> /\ lqs = {} /\ cqs = {r.cond}
    \/ /\ r \in Request
       /\ req = <<>> /\ lqs = {} /\ cqs = {}
       /\ \E x \in Reply :
            /\ box = <<x>>
            /\ r.op = "CreateLock" => \E i \in 0 .. lcount - 1 : x = Index(i)
            /\ r.op = "CreateCondition" => \E i \in 0 .. ccount - 1 : x = Index(i)

\* What a disciplined client knows: only indices in use; it is inside no lock it does
\* not know, and its call keeps the discipline.
Knows(r, in, locks, conds, lcount, ccount) ==
    /\ locks \subseteq 0 .. lcount - 1
    /\ conds \subseteq 0 .. ccount - 1
    /\ in \subseteq locks
    /\ r \in Request =>
         /\ r.op \in MonitorCalls
         /\ r.op \in {"Acquire", "Release", "Wait"} => r.lock \in locks \ in
         /\ r.op = "Signal" => r.lock \in in
         /\ r.op \in {"Wait", "Signal"} => r.cond \in conds /\ r.lock = lockFor[r.cond]

\* The locks the server must count as the client's: those it is inside of, the one a
\* Release or Wait has not given up yet, the one an answered Acquire or Wait obtained.
Claims(r, in, req, box) ==
    in \cup {l \in LockIds : /\ r \in Request
                             /\ r.op \in {"Acquire", "Release", "Wait"}
                             /\ r.lock = l
                             /\ \/ r.op \in {"Release", "Wait"} /\ req # <<>>
                                \/ r.op \in {"Acquire", "Wait"} /\ box # <<>>}

ClientOK(t) ==
    LET m == machineOf[t] IN
    /\ Placed(call[t], requests[m], inbox[m], QueuesOf(serverLocks, m), QueuesOf(serverConds, m),
              serverLockCount, serverCondCount)
    /\ Knows(call[t], held[t], knownLocks[t], knownConds[t], serverLockCount, serverCondCount)
    /\ \A l \in Claims(call[t], held[t], requests[m], inbox[m]) :
          serverLocks[l].lockOwner = m

\* A machine no thread of which calls is in no queue and mails nothing.
Silent(m) ==
    requests[m] = <<>> /\ QueuesOf(serverLocks, m) = {} /\ QueuesOf(serverConds, m) = {}

\* Nothing is destroyed, nobody queues twice, every entry in use has a client's name,
\* and a bound condition is bound to its own lock.
CleanLock(l, e, lcount) ==
    /\ ~e.isDeleted /\ ~e.deleteFlag /\ Once(e.waitQueue)
    /\ l < lcount => e.name \in LockNames
CleanCond(c, e, ccount) ==
    /\ ~e.isDeleted /\ ~e.deleteFlag /\ Once(e.waitQueue)
    /\ c < ccount => e.name \in CondNames
    /\ e.hasWaitingLock => e.waitingLockIndex = lockFor[c] /\ c < ccount

CleanLocks(locks, lcount) == \A l \in LockIds : CleanLock(l, locks[l], lcount)
CleanConds(conds, ccount) == \A c \in CondIds : CleanCond(c, conds[c], ccount)

ClientInv ==
    /\ TableInv /\ LiveNamesUnique
    /\ broadcast = NoLoop
    /\ CleanLocks(serverLocks, serverLockCount) /\ CleanConds(serverConds, serverCondCount)
    /\ \A t \in Threads : ClientOK(t)
    /\ \A m \in Machines : (\A t \in Threads : machineOf[t] # m) => Silent(m)

-----------------------------------------------------------------------------
(* The state in which a request is served *)

\* The first unread request is that of the machine's thread, which is nowhere else.
LEMMA Served ==
    ASSUME LockServerAssumption, CarefulClients, ClientInv, NEW m \in Machines, NEW op, Taken(m, op)
    PROVE  \E t \in Threads :
              /\ machineOf[t] = m
              /\ call[t] \in Request /\ call[t].op = op /\ Head(requests[m]) = call[t]
              /\ op \in MonitorCalls
              /\ requests[m] = <<call[t]>> /\ requests' = [requests EXCEPT ![m] = <<>>]
              /\ inbox[m] = <<>>
              /\ QueuesOf(serverLocks, m) = {} /\ QueuesOf(serverConds, m) = {}
              /\ \A u \in Threads : machineOf[u] = m => u = t
  <1>1. PICK t \in Threads : machineOf[t] = m
    BY DEF Taken, ClientInv, Silent
  <1>2. ClientOK(t) /\ requests[m] # <<>>
    BY DEF ClientInv, Taken
  <1>3. /\ call[t] \in Request /\ requests[m] = <<call[t]>> /\ inbox[m] = <<>>
        /\ QueuesOf(serverLocks, m) = {} /\ QueuesOf(serverConds, m) = {}
    BY <1>1, <1>2 DEF ClientOK, Placed
  <1>4. Head(requests[m]) = call[t] /\ Tail(requests[m]) = <<>>
    BY <1>3
  <1>5. call[t].op = op /\ requests' = [requests EXCEPT ![m] = <<>>]
    BY <1>4 DEF Taken
  <1>6. op \in MonitorCalls
    BY <1>2, <1>3, <1>5 DEF ClientOK, Knows
  <1>7. \A u \in Threads : machineOf[u] = m => u = t
    BY <1>1 DEF CarefulClients
  <1> QED BY <1>1, <1>3, <1>4, <1>5, <1>6, <1>7

\* Who stands in a queue has made the call that puts it there, and stands nowhere else.
LEMMA InLockQueue ==
    ASSUME LockServerAssumption, CarefulClients, ClientInv, NEW w \in Machines, NEW l \in LockIds,
           w \in Queued(serverLocks[l].waitQueue)
    PROVE  \E u \in Threads :
              /\ machineOf[u] = w
              /\ call[u] \in Request /\ call[u].op \in {"Acquire", "Wait"} /\ call[u].lock = l
              /\ requests[w] = <<>> /\ inbox[w] = <<>>
              /\ QueuesOf(serverLocks, w) = {l} /\ QueuesOf(serverConds, w) = {}
              /\ \A v \in Threads : machineOf[v] = w => v = u
  <1>1. l \in QueuesOf(serverLocks, w)
    BY DEF QueuesOf, ClientInv, TableInv, TypeOK
  <1>2. PICK u \in Threads : machineOf[u] = w
    BY <1>1 DEF ClientInv, Silent
  <1>3. ClientOK(u)
    BY DEF ClientInv
  <1>4. /\ call[u] \in Request /\ call[u].op \in {"Acquire", "Wait"}
        /\ requests[w] = <<>> /\ inbox[w] = <<>>
        /\ QueuesOf(serverLocks, w) = {call[u].lock} /\ QueuesOf(serverConds, w) = {}
    BY <1>1, <1>2, <1>3 DEF ClientOK, Placed
  <1>5. call[u].lock = l
    BY <1>1, <1>4
  <1>6. \A v \in Threads : machineOf[v] = w => v = u
    BY <1>2 DEF CarefulClients
  <1> QED BY <1>2, <1>4, <1>5, <1>6

LEMMA InCondQueue ==
    ASSUME LockServerAssumption, CarefulClients, ClientInv, NEW w \in Machines, NEW c \in CondIds,
           w \in Queued(serverConds[c].waitQueue)
    PROVE  \E u \in Threads :
              /\ machineOf[u] = w
              /\ call[u] \in Request /\ call[u].op = "Wait" /\ call[u].cond = c
              /\ call[u].lock = lockFor[c]
              /\ requests[w] = <<>> /\ inbox[w] = <<>>
              /\ QueuesOf(serverLocks, w) = {} /\ QueuesOf(serverConds, w) = {c}
              /\ \A v \in Threads : machineOf[v] = w => v = u
  <1>1. c \in QueuesOf(serverConds, w)
    BY DEF QueuesOf, ClientInv, TableInv, TypeOK
  <1>2. PICK u \in Threads : machineOf[u] = w
    BY <1>1 DEF ClientInv, Silent
  <1>3. ClientOK(u)
    BY DEF ClientInv
  <1>4. /\ call[u] \in Request /\ call[u].op = "Wait"
        /\ requests[w] = <<>> /\ inbox[w] = <<>>
        /\ QueuesOf(serverLocks, w) = {} /\ QueuesOf(serverConds, w) = {call[u].cond}
    BY <1>1, <1>2, <1>3 DEF ClientOK, Placed
  <1>5. call[u].cond = c
    BY <1>1, <1>4
  <1>6. call[u].lock = lockFor[c]
    BY <1>3, <1>4, <1>5 DEF ClientOK, Knows
  <1>7. \A v \in Threads : machineOf[v] = w => v = u
    BY <1>2 DEF CarefulClients
  <1> QED BY <1>2, <1>4, <1>5, <1>6, <1>7

\* The tables are never full: the live entries have different names.
LEMMA NeverFull ==
    ASSUME LockServerAssumption, CarefulClients, ClientInv
    PROVE  serverLockCount < MAX_LOCK_COUNT /\ serverCondCount < MAX_COND_COUNT
  <1>1. /\ serverLockCount \in Nat /\ serverCondCount \in Nat
        /\ MAX_LOCK_COUNT \in Nat /\ MAX_COND_COUNT \in Nat
        /\ serverLockCount <= MAX_LOCK_COUNT /\ serverCondCount <= MAX_COND_COUNT
    BY DEF ClientInv, TableInv, TypeOK, LockServerAssumption
  <1>2. /\ \A i \in 0 .. serverLockCount - 1 : i \in LockIds /\ i < serverLockCount
        /\ \A i \in 0 .. serverCondCount - 1 : i \in CondIds /\ i < serverCondCount
    BY <1>1 DEF LockIds, CondIds
  <1>3. /\ \A i \in 0 .. serverLockCount - 1 :
              serverLocks[i].name \in LockNames /\ ~serverLocks[i].isDeleted
        /\ \A i \in 0 .. serverCondCount - 1 :
              serverConds[i].name \in CondNames /\ ~serverConds[i].isDeleted
    BY <1>2 DEF ClientInv, CleanLocks, CleanConds, CleanLock, CleanCond
  <1>4. serverLockCount <= Cardinality(LockNames)
    <2> DEFINE f == [i \in 0 .. serverLockCount - 1 |-> serverLocks[i].name]
    <2>1. f \in Injection(0 .. serverLockCount - 1, LockNames)
      BY <1>3 DEF Injection, IsInjective, ClientInv, LiveNamesUnique
    <2>2. Cardinality(0 .. serverLockCount - 1) <= Cardinality(LockNames)
      BY <2>1, FS_Injection DEF CarefulClients
    <2>3. Cardinality(0 .. serverLockCount - 1) = serverLockCount
      BY <1>1, FS_Interval
    <2> QED BY <2>2, <2>3
  <1>5. serverCondCount <= Cardinality(CondNames)
    <2> DEFINE f == [i \in 0 .. serverCondCount - 1 |-> serverConds[i].name]
    <2>1. f \in Injection(0 .. serverCondCount - 1, CondNames)
      BY <1>3 DEF Injection, IsInjective, ClientInv, LiveNamesUnique
    <2>2. Cardinality(0 .. serverCondCount - 1) <= Cardinality(CondNames)
      BY <2>1, FS_Injection DEF CarefulClients
    <2>3. Cardinality(0 .. serverCondCount - 1) = serverCondCount
      BY <1>1, FS_Interval
    <2> QED BY <2>2, <2>3
  <1>6. Cardinality(LockNames) \in Nat /\ Cardinality(CondNames) \in Nat
    BY FS_CardinalityType DEF CarefulClients
  <1> QED BY <1>1, <1>4, <1>5, <1>6 DEF CarefulClients

-----------------------------------------------------------------------------
(* What a handler does to the clients *)

LEMMA TakenLeavesClients ==
    ASSUME NEW m, NEW op, Taken(m, op)
    PROVE  UNCHANGED <<call, held, knownLocks, knownConds>>
  BY DEF Taken, clientVars

Counting == serverLockCount <= serverLockCount' /\ serverCondCount <= serverCondCount'

\* Nothing of machine n's is touched: its mail, its places in the queues ...
Untouched(n) ==
    /\ requests'[n] = requests[n] /\ inbox'[n] = inbox[n]
    /\ QueuesOf(serverLocks, n)' = QueuesOf(serverLocks, n)
    /\ QueuesOf(serverConds, n)' = QueuesOf(serverConds, n)

\* ... and the locks it owns, of those in use.
KeepsLocks(n) ==
    \A l \in LockIds : l < serverLockCount /\ serverLocks[l].lockOwner = n
                       => serverLocks'[l].lockOwner = n

LEMMA CountTypes ==
    ASSUME LockServerAssumption, TableInv
    PROVE  serverLockCount \in Nat /\ serverCondCount \in Nat
  BY DEF TableInv, TypeOK, LockServerAssumption

LEMMA KnowsMore ==
    ASSUME NEW r, NEW in, NEW locks, NEW conds, NEW lc \in Nat, NEW cc \in Nat,
           NEW lcNew \in Nat, NEW ccNew \in Nat, lc <= lcNew, cc <= ccNew,
           Knows(r, in, locks, conds, lc, cc)
    PROVE  Knows(r, in, locks, conds, lcNew, ccNew)
  <1>1. 0 .. lc - 1 \subseteq 0 .. lcNew - 1 /\ 0 .. cc - 1 \subseteq 0 .. ccNew - 1
    OBVIOUS
  <1> QED BY <1>1 DEF Knows

LEMMA PlacedStays ==
    ASSUME NEW r, NEW req, NEW box, NEW lqs, NEW cqs, NEW lc \in Nat, NEW cc \in Nat,
           NEW lcNew \in Nat, NEW ccNew \in Nat, lc <= lcNew, cc <= ccNew,
           Placed(r, req, box, lqs, cqs, lc, cc)
    PROVE  Placed(r, req, box, lqs, cqs, lcNew, ccNew)
  <1>1. 0 .. lc - 1 \subseteq 0 .. lcNew - 1 /\ 0 .. cc - 1 \subseteq 0 .. ccNew - 1
    OBVIOUS
  <1> QED BY <1>1 DEF Placed

\* A client nobody touches is as well off as before.
LEMMA Stays ==
    ASSUME LockServerAssumption, ClientInv, TableInv', Counting,
           NEW t \in Threads, NEW m, m = machineOf[t],
           call'[t] = call[t], held'[t] = held[t],
           knownLocks'[t] = knownLocks[t], knownConds'[t] = knownConds[t],
           Untouched(m), KeepsLocks(m)
    PROVE  ClientOK(t)'
  <1>1. /\ serverLockCount \in Nat /\ serverCondCount \in Nat
        /\ serverLockCount' \in Nat /\ serverCondCount' \in Nat
    BY CountTypes DEF ClientInv, TableInv, TypeOK, LockServerAssumption
  <1>2. ClientOK(t)
    BY DEF ClientInv
  <1>3. Placed(call'[t], requests'[m], inbox'[m], QueuesOf(serverLocks, m)', QueuesOf(serverConds, m)',
               serverLockCount', serverCondCount')
    BY <1>1, <1>2, PlacedStays DEF ClientOK, Untouched, Counting
  <1>4. Knows(call'[t], held'[t], knownLocks'[t], knownConds'[t], serverLockCount', serverCondCount')
    BY <1>1, <1>2, KnowsMore DEF ClientOK, Counting
  <1>5. \A l \in Claims(call[t], held[t], requests[m], inbox[m]) : l \in LockIds /\ l < serverLockCount
    <2>1. \A i \in 0 .. serverLockCount - 1 : i < serverLockCount
      BY <1>1
    <2>2. held[t] \subseteq LockIds
      BY DEF ClientInv, TableInv, TypeOK
    <2> QED BY <1>2, <2>1, <2>2 DEF ClientOK, Knows, Claims
  <1>6. \A l \in Claims(call'[t], held'[t], requests'[m], inbox'[m]) :
           serverLocks'[l].lockOwner = m
    <2>1. Claims(call'[t], held'[t], requests'[m], inbox'[m])
             = Claims(call[t], held[t], requests[m], inbox[m])
      BY DEF Untouched
    <2> QED BY <1>2, <1>5, <2>1 DEF ClientOK, KeepsLocks
  <1> QED BY <1>3, <1>4, <1>6 DEF ClientOK

\* A client whose call has just been answered.
LEMMA Answered ==
    ASSUME LockServerAssumption, ClientInv, TableInv', Counting,
           UNCHANGED <<call, held, knownLocks, knownConds>>,
           NEW t \in Threads, NEW m, m = machineOf[t], NEW x \in Reply,
           call[t] \in Request, inbox'[m] = <<x>>, requests'[m] = <<>>,
           QueuesOf(serverLocks, m)' = {}, QueuesOf(serverConds, m)' = {},
           call[t].op = "CreateLock" => \E i \in 0 .. serverLockCount' - 1 : x = Index(i),
           call[t].op = "CreateCondition" => \E i \in 0 .. serverCondCount' - 1 : x = Index(i),
           \A l \in held[t] : serverLocks'[l].lockOwner = m,
           call[t].op \in {"Acquire", "Wait"} => serverLocks'[call[t].lock].lockOwner = m
    PROVE  ClientOK(t)'
  <1>1. /\ serverLockCount \in Nat /\ serverCondCount \in Nat
        /\ serverLockCount' \in Nat /\ serverCondCount' \in Nat
    BY CountTypes DEF ClientInv, TableInv, TypeOK, LockServerAssumption
  <1>2. ClientOK(t)
    BY DEF ClientInv
  <1>3. Placed(call[t], <<>>, <<x>>, {}, {}, serverLockCount', serverCondCount')
    BY DEF Placed
  <1>4. Knows(call[t], held[t], knownLocks[t], knownConds[t], serverLockCount', serverCondCount')
    BY <1>1, <1>2, KnowsMore DEF ClientOK, Counting
  <1>5. \A l \in Claims(call[t], held[t], <<>>, <<x>>) : serverLocks'[l].lockOwner = m
    BY DEF Claims
  <1> QED BY <1>3, <1>4, <1>5 DEF ClientOK

\* A client that has just entered a queue.
LEMMA Queues ==
    ASSUME LockServerAssumption, ClientInv, TableInv', Counting,
           UNCHANGED <<call, held, knownLocks, knownConds>>,
           NEW t \in Threads, NEW m, m = machineOf[t],
           call[t] \in Request, inbox'[m] = <<>>, requests'[m] = <<>>,
           \/ /\ call[t].op \in {"Acquire", "Wait"}
              /\ QueuesOf(serverLocks, m)' = {call[t].lock} /\ QueuesOf(serverConds, m)' = {}
           \/ /\ call[t].op = "Wait"
              /\ QueuesOf(serverLocks, m)' = {} /\ QueuesOf(serverConds, m)' = {call[t].cond},
           \A l \in held[t] : serverLocks'[l].lockOwner = m
    PROVE  ClientOK(t)'
  <1>1. /\ serverLockCount \in Nat /\ serverCondCount \in Nat
        /\ serverLockCount' \in Nat /\ serverCondCount' \in Nat
    BY CountTypes DEF ClientInv, TableInv, TypeOK, LockServerAssumption
  <1>2. ClientOK(t)
    BY DEF ClientInv
  <1>3. Placed(call[t], <<>>, <<>>, QueuesOf(serverLocks, m)', QueuesOf(serverConds, m)',
               serverLockCount', serverCondCount')
    BY DEF Placed
  <1>4. Knows(call[t], held[t], knownLocks[t], knownConds[t], serverLockCount', serverCondCount')
    BY <1>1, <1>2, KnowsMore DEF ClientOK, Counting
  <1>5. \A l \in Claims(call[t], held[t], <<>>, <<>>) : serverLocks'[l].lockOwner = m
    BY DEF Claims
  <1> QED BY <1>3, <1>4, <1>5 DEF ClientOK

\* A step of the server need only be looked at where it touches clients.
LEMMA HandlerStep ==
    ASSUME LockServerAssumption, CarefulClients, ClientInv, [Next]_vars, Counting,
           UNCHANGED <<call, held, knownLocks, knownConds, broadcast>>,
           CleanLocks(serverLocks', serverLockCount'), CleanConds(serverConds', serverCondCount'),
           NEW Moved \in SUBSET Threads, \A t \in Moved : ClientOK(t)',
           \A n \in Machines : (\A t \in Moved : machineOf[t] # n) => Untouched(n) /\ KeepsLocks(n)
    PROVE  ClientInv'
  <1>1. TableInv' /\ LiveNamesUnique'
    BY StepTable, LiveStaysUnique DEF ClientInv
  <1>2. machineOf \in [Threads -> Machines]
    BY DEF LockServerAssumption
  <1>3. ASSUME NEW t \in Threads
        PROVE  ClientOK(t)'
    <2>1. CASE t \in Moved
      BY <2>1
    <2>2. CASE t \notin Moved
      <3> PICK m \in Machines : m = machineOf[t]
        BY <1>2
      <3>1. \A u \in Moved : machineOf[u] # m
        BY <2>2 DEF CarefulClients
      <3>2. Untouched(m) /\ KeepsLocks(m)
        BY <3>1
      <3> QED BY <1>1, <3>2, Stays
    <2> QED BY <2>1, <2>2
  <1>4. ASSUME NEW n \in Machines, \A t \in Threads : machineOf[t] # n
        PROVE  Silent(n)'
    <2>1. Untouched(n) /\ Silent(n)
      BY <1>4 DEF ClientInv
    <2> QED BY <2>1 DEF Silent, Untouched
  <1>5. broadcast' = NoLoop
    BY DEF ClientInv
  <1> QED BY <1>1, <1>3, <1>4, <1>5 DEF ClientInv

-----------------------------------------------------------------------------
(* What the operators of the handlers do to the queues *)

\* Entry k of a table is replaced by e.
Replaces(new, table, k, e) ==
    /\ k \in DOMAIN table /\ DOMAIN new = DOMAIN table
    /\ \A j \in DOMAIN table : new[j] = IF j = k THEN e ELSE table[j]

LEMMA SameQueues ==
    ASSUME NEW table, NEW k, NEW e, NEW new, Replaces(new, table, k, e),
           Queued(e.waitQueue) = Queued(table[k].waitQueue)
    PROVE  \A n : QueuesOf(new, n) = QueuesOf(table, n)
  BY DEF QueuesOf, Replaces

LEMMA JoinsQueue ==
    ASSUME NEW table, NEW k, NEW e, NEW new, Replaces(new, table, k, e),
           NEW w, Queued(e.waitQueue) = Queued(table[k].waitQueue) \cup {w}
    PROVE  /\ \A n : n # w => QueuesOf(new, n) = QueuesOf(table, n)
           /\ QueuesOf(new, w) = QueuesOf(table, w) \cup {k}
  BY DEF QueuesOf, Replaces

LEMMA LeavesQueue ==
    ASSUME NEW table, NEW k, NEW e, NEW new, Replaces(new, table, k, e),
           NEW w, Queued(e.waitQueue) = Queued(table[k].waitQueue) \ {w}
    PROVE  /\ \A n : n # w => QueuesOf(new, n) = QueuesOf(table, n)
           /\ QueuesOf(new, w) = QueuesOf(table, w) \ {k}
  BY DEF QueuesOf, Replaces

LEMMA CleanLocksAfter ==
    ASSUME NEW locks, DOMAIN locks = LockIds, NEW lc, CleanLocks(locks, lc),
           NEW l, NEW e, CleanLock(l, e, lc), NEW new, Replaces(new, locks, l, e)
    PROVE  CleanLocks(new, lc)
  BY DEF CleanLocks, Replaces

LEMMA CleanCondsAfter ==
    ASSUME NEW conds, DOMAIN conds = CondIds, NEW cc, CleanConds(conds, cc),
           NEW c, NEW e, CleanCond(c, e, cc), NEW new, Replaces(new, conds, c, e)
    PROVE  CleanConds(new, cc)
  BY DEF CleanConds, Replaces

\* Acquire_server on behalf of w, who is in no queue of l: it gets the lock and an
\* answer, or it joins the queue.
LEMMA AcquiredMoves ==
    ASSUME LockServerAssumption, ClientInv, NEW l \in LockIds, NEW w \in Machines,
           l < serverLockCount, w \notin Queued(serverLocks[l].waitQueue)
    PROVE  /\ CleanLocks(Acquired(l, w), serverLockCount)
           /\ \A n : n # w => QueuesOf(Acquired(l, w), n) = QueuesOf(serverLocks, n)
           /\ \A k \in LockIds, n \in Machines :
                 serverLocks[k].lockOwner = n => Acquired(l, w)[k].lockOwner = n
           /\ \/ /\ QueuesOf(Acquired(l, w), w) = QueuesOf(serverLocks, w)
                 /\ Acquired(l, w)[l].lockOwner = w
                 /\ \E x \in Reply : AcquireReply(l, w) = <<x>>
              \/ /\ QueuesOf(Acquired(l, w), w) = QueuesOf(serverLocks, w) \cup {l}
                 /\ AcquireReply(l, w) = <<>>
  <1> PICK e, q : e = serverLocks[l] /\ q = e.waitQueue
    OBVIOUS
  <1>a. PICK taken : taken = [e EXCEPT !.lockStatus = "BUSY", !.lockOwner = w]
    OBVIOUS
  <1>b. PICK queued : queued = [e EXCEPT !.waitQueue = Append(q, w)]
    OBVIOUS
  <1>0. /\ TableInv /\ serverLocks \in [LockIds -> Lock]
        /\ CleanLocks(serverLocks, serverLockCount)
        /\ \A x \in {"Got", "Done"} : Say(x) \in Reply
    BY ReplyType DEF ClientInv, TableInv, TypeOK
  <1>1. /\ e \in Lock /\ q \in Seq(Machines) /\ e.lockStatus \in {"FREE", "BUSY"}
        /\ CleanLock(l, e, serverLockCount) /\ w \notin Queued(q)
        /\ e.lockStatus = "FREE" => e.lockOwner \notin Machines
    BY <1>0, EntryOK DEF CleanLocks, TableInv, LocksOK
  <1>2. validateLockIndex(l)
    BY <1>1 DEF CleanLock, validateLockIndex
  <1>3. CASE e.lockOwner = w
    <2>1. Acquired(l, w) = serverLocks /\ AcquireReply(l, w) = <<Say("Done")>>
      BY <1>2, <1>3 DEF Acquired, AcquireReply, Replaces
    <2> QED BY <1>0, <1>3, <2>1
  <1>4. CASE e.lockOwner # w /\ e.lockStatus = "FREE"
    <2>1. /\ Replaces(Acquired(l, w), serverLocks, l, taken)
          /\ AcquireReply(l, w) = <<Say("Got")>>
      BY <1>0, <1>2, <1>4, <1>a DEF Acquired, AcquireReply, Replaces
    <2>2. /\ taken.waitQueue = q /\ taken.lockOwner = w
          /\ CleanLock(l, taken, serverLockCount)
      BY <1>1, <1>a, <1>b DEF CleanLock, Lock
    <2>3. \A n : QueuesOf(Acquired(l, w), n) = QueuesOf(serverLocks, n)
      <3>1. Queued(taken.waitQueue) = Queued(serverLocks[l].waitQueue)
        BY <1>0, <2>2
      <3> QED BY <2>1, <3>1, SameQueues
    <2>4. CleanLocks(Acquired(l, w), serverLockCount)
      BY <1>0, <2>1, <2>2, CleanLocksAfter
    <2>5. \A k \in LockIds : Acquired(l, w)[k] = IF k = l THEN taken ELSE serverLocks[k]
      BY <1>0, <2>1 DEF Replaces
    <2> QED BY <1>0, <1>1, <1>4, <2>1, <2>2, <2>3, <2>4, <2>5
  <1>5. CASE e.lockOwner # w /\ e.lockStatus = "BUSY"
    <2>1. /\ Replaces(Acquired(l, w), serverLocks, l, queued)
          /\ AcquireReply(l, w) = <<>>
      BY <1>0, <1>2, <1>5, <1>b DEF Acquired, AcquireReply, putMsgLock, Replaces
    <2>2. /\ queued.waitQueue = Append(q, w) /\ queued.lockOwner = e.lockOwner
          /\ queued.name = e.name /\ queued.isDeleted = e.isDeleted
          /\ queued.deleteFlag = e.deleteFlag
      BY <1>1, <1>a, <1>b DEF Lock
    <2>3. Queued(Append(q, w)) = Queued(q) \cup {w} /\ Once(Append(q, w))
      BY <1>1, AppendQueue DEF CleanLock
    <2>4. /\ \A n : n # w => QueuesOf(Acquired(l, w), n) = QueuesOf(serverLocks, n)
          /\ QueuesOf(Acquired(l, w), w) = QueuesOf(serverLocks, w) \cup {l}
      <3>1. Queued(queued.waitQueue) = Queued(serverLocks[l].waitQueue) \cup {w}
        BY <1>0, <2>2, <2>3
      <3> QED BY <2>1, <3>1, JoinsQueue
    <2>5. CleanLocks(Acquired(l, w), serverLockCount)
      <3>1. CleanLock(l, queued, serverLockCount)
        BY <1>1, <2>2, <2>3 DEF CleanLock
      <3> QED BY <1>0, <2>1, <3>1, CleanLocksAfter
    <2>6. \A k \in LockIds : Acquired(l, w)[k] = IF k = l THEN queued ELSE serverLocks[k]
      BY <1>0, <2>1 DEF Replaces
    <2> QED BY <2>1, <2>2, <2>4, <2>5, <2>6
  <1> QED BY <1>1, <1>3, <1>4, <1>5

\* Release_server and Wait_server: the head of the queue leaves it and owns the lock.
LEMMA PassedMoves ==
    ASSUME LockServerAssumption, ClientInv, NEW l \in LockIds
    PROVE  LET q == serverLocks[l].waitQueue IN
           /\ CleanLocks(Passed(l), serverLockCount)
           /\ \A k \in LockIds : k # l => Passed(l)[k] = serverLocks[k]
           /\ q = <<>> => \A n : QueuesOf(Passed(l), n) = QueuesOf(serverLocks, n)
           /\ q # <<>> => /\ Head(q) \in Machines /\ Head(q) \in Queued(q)
                          /\ \A n : n # Head(q) => QueuesOf(Passed(l), n) = QueuesOf(serverLocks, n)
                          /\ QueuesOf(Passed(l), Head(q)) = QueuesOf(serverLocks, Head(q)) \ {l}
                          /\ Passed(l)[l].lockOwner = Head(q)
  <1> PICK e, q : e = serverLocks[l] /\ q = e.waitQueue
    OBVIOUS
  <1>a. PICK next : next = [e EXCEPT !.lockOwner = Head(q), !.waitQueue = Tail(q)]
    OBVIOUS
  <1>b. PICK freed : freed = [e EXCEPT !.lockStatus = "FREE", !.lockOwner = NoMachine]
    OBVIOUS
  <1>0. /\ TableInv /\ serverLocks \in [LockIds -> Lock]
        /\ CleanLocks(serverLocks, serverLockCount)
    BY DEF ClientInv, TableInv, TypeOK
  <1>1. /\ e \in Lock /\ q \in Seq(Machines) /\ CleanLock(l, e, serverLockCount)
    BY <1>0, EntryOK DEF CleanLocks
  <1>2. CASE q = <<>>
    <2>1. Replaces(Passed(l), serverLocks, l, freed)
      BY <1>0, <1>2, <1>b DEF Passed, Replaces
    <2>2. freed.waitQueue = q /\ CleanLock(l, freed, serverLockCount)
      BY <1>1, <1>a, <1>b DEF CleanLock, Lock
    <2>3. \A n : QueuesOf(Passed(l), n) = QueuesOf(serverLocks, n)
      <3>1. Queued(freed.waitQueue) = Queued(serverLocks[l].waitQueue)
        BY <1>0, <2>2
      <3> QED BY <2>1, <3>1, SameQueues
    <2>4. CleanLocks(Passed(l), serverLockCount)
      BY <1>0, <2>1, <2>2, CleanLocksAfter
    <2> QED BY <1>0, <1>2, <2>1, <2>3, <2>4 DEF Replaces
  <1>3. CASE q # <<>>
    <2>1. Replaces(Passed(l), serverLocks, l, next)
      BY <1>0, <1>3, <1>a DEF Passed, Replaces
    <2>2. /\ next.waitQueue = Tail(q) /\ next.lockOwner = Head(q)
          /\ next.name = e.name /\ next.isDeleted = e.isDeleted /\ next.deleteFlag = e.deleteFlag
      BY <1>1, <1>a, <1>b DEF Lock
    <2>3. /\ Head(q) \in Queued(q) /\ Head(q) \in Machines
          /\ Queued(Tail(q)) = Queued(q) \ {Head(q)} /\ Once(Tail(q))
      BY <1>1, <1>3, TailQueue DEF CleanLock
    <2>4. /\ \A n : n # Head(q) => QueuesOf(Passed(l), n) = QueuesOf(serverLocks, n)
          /\ QueuesOf(Passed(l), Head(q)) = QueuesOf(serverLocks, Head(q)) \ {l}
      <3>1. Queued(next.waitQueue) = Queued(serverLocks[l].waitQueue) \ {Head(q)}
        BY <1>0, <2>2, <2>3
      <3> QED BY <2>1, <3>1, LeavesQueue
    <2>5. CleanLocks(Passed(l), serverLockCount)
      <3>1. CleanLock(l, next, serverLockCount)
        BY <1>1, <2>2, <2>3 DEF CleanLock
      <3> QED BY <1>0, <2>1, <3>1, CleanLocksAfter
    <2>6. \A k \in LockIds : Passed(l)[k] = IF k = l THEN next ELSE serverLocks[k]
      BY <1>0, <2>1 DEF Replaces
    <2> QED BY <1>3, <2>2, <2>3, <2>4, <2>5, <2>6
  <1> QED BY <1>2, <1>3

\* A client that waits, having passed the checks, goes to the end of the condition's
\* queue and binds it to its own lock.
LEMMA EnqueuedMoves ==
    ASSUME LockServerAssumption, ClientInv, NEW m \in Machines, NEW l \in LockIds, NEW c \in CondIds,
           ~WaitError(m, l, c), c < serverCondCount, l = lockFor[c],
           m \notin Queued(serverConds[c].waitQueue)
    PROVE  /\ CleanConds(Enqueued(m, l, c), serverCondCount)
           /\ \A n : n # m => QueuesOf(Enqueued(m, l, c), n) = QueuesOf(serverConds, n)
           /\ QueuesOf(Enqueued(m, l, c), m) = QueuesOf(serverConds, m) \cup {c}
  <1> PICK e, q : e = serverConds[c] /\ q = e.waitQueue
    OBVIOUS
  <1>b. PICK binds : binds = (~WaitError(m, l, c) /\ ~e.hasWaitingLock)
    OBVIOUS
  <1>a. PICK new : new = [e EXCEPT
              !.waitingLockIndex = IF binds THEN l ELSE e.waitingLockIndex,
              !.hasWaitingLock = IF binds THEN TRUE ELSE e.hasWaitingLock,
              !.waitQueue = IF e.isDeleted THEN e.waitQueue ELSE putMsgCond(e.waitQueue, m)]
    OBVIOUS
  <1>0. /\ TypeOK /\ serverConds \in [CondIds -> Cond]
        /\ CleanConds(serverConds, serverCondCount)
    BY DEF ClientInv, TableInv, TypeOK
  <1>1. /\ e \in Cond /\ q \in Seq(Machines) /\ CleanCond(c, e, serverCondCount)
    BY <1>0, CondEntry DEF CleanConds
  <1>2. Replaces(Enqueued(m, l, c), serverConds, c, new)
    BY <1>0, <1>a, <1>b DEF Enqueued, Replaces
  <1>3. /\ new.waitQueue = Append(q, m)
        /\ new.name = e.name /\ new.isDeleted = e.isDeleted /\ new.deleteFlag = e.deleteFlag
        /\ new.waitingLockIndex = l
    BY <1>1, <1>a, <1>b DEF Cond, CleanCond, putMsgCond
  <1>4. Queued(Append(q, m)) = Queued(q) \cup {m} /\ Once(Append(q, m))
    BY <1>1, AppendQueue DEF CleanCond
  <1>5. CleanCond(c, new, serverCondCount)
    BY <1>1, <1>3, <1>4 DEF CleanCond
  <1>6. /\ \A n : n # m => QueuesOf(Enqueued(m, l, c), n) = QueuesOf(serverConds, n)
        /\ QueuesOf(Enqueued(m, l, c), m) = QueuesOf(serverConds, m) \cup {c}
    <2>1. Queued(new.waitQueue) = Queued(serverConds[c].waitQueue) \cup {m}
      BY <1>0, <1>3, <1>4
    <2> QED BY <1>2, <2>1, JoinsQueue
  <1>7. CleanConds(Enqueued(m, l, c), serverCondCount)
    BY <1>0, <1>2, <1>5, CleanCondsAfter
  <1> QED BY <1>6, <1>7

\* Signal_server: the head of the condition's queue leaves it.
LEMMA WokenMoves ==
    ASSUME LockServerAssumption, ClientInv, NEW l \in LockIds, NEW c \in CondIds,
           serverConds[c].waitQueue # <<>>, Woken(l, c)
    PROVE  LET w == Head(serverConds[c].waitQueue) IN
           /\ w \in Machines /\ w \in Queued(serverConds[c].waitQueue)
           /\ CleanConds(serverConds', serverCondCount)
           /\ \A n : n # w => QueuesOf(serverConds', n) = QueuesOf(serverConds, n)
           /\ QueuesOf(serverConds', w) = QueuesOf(serverConds, w) \ {c}
  <1> PICK e, q : e = serverConds[c] /\ q = e.waitQueue
    OBVIOUS
  <1>a. PICK new : new = [e EXCEPT !.waitQueue = Tail(q)]
    OBVIOUS
  <1>0. /\ TypeOK /\ serverConds \in [CondIds -> Cond]
        /\ CleanConds(serverConds, serverCondCount)
    BY DEF ClientInv, TableInv, TypeOK
  <1>1. /\ e \in Cond /\ q \in Seq(Machines) /\ CleanCond(c, e, serverCondCount)
    BY <1>0, CondEntry DEF CleanConds
  <1>2. Replaces(serverConds', serverConds, c, new)
    BY <1>0, <1>a DEF Woken, Replaces
  <1>3. /\ new.waitQueue = Tail(q)
        /\ new.name = e.name /\ new.isDeleted = e.isDeleted /\ new.deleteFlag = e.deleteFlag
        /\ new.waitingLockIndex = e.waitingLockIndex /\ new.hasWaitingLock = e.hasWaitingLock
    BY <1>1, <1>a DEF Cond
  <1>4. /\ Head(q) \in Queued(q) /\ Head(q) \in Machines
        /\ Queued(Tail(q)) = Queued(q) \ {Head(q)} /\ Once(Tail(q))
    BY <1>1, TailQueue DEF CleanCond
  <1>5. CleanCond(c, new, serverCondCount)
    BY <1>1, <1>3, <1>4 DEF CleanCond
  <1>6. /\ \A n : n # Head(q) => QueuesOf(serverConds', n) = QueuesOf(serverConds, n)
        /\ QueuesOf(serverConds', Head(q)) = QueuesOf(serverConds, Head(q)) \ {c}
    <2>1. Queued(new.waitQueue) = Queued(serverConds[c].waitQueue) \ {Head(q)}
      BY <1>0, <1>3, <1>4
    <2> QED BY ONLY <1>2, <2>1, LeavesQueue
  <1>7. CleanConds(serverConds', serverCondCount)
    BY <1>0, <1>2, <1>5, CleanCondsAfter
  <1> QED BY <1>4, <1>6, <1>7

-----------------------------------------------------------------------------
(* The handlers *)

StillWaits(t) == \A c \in CondIds : WaitsOn(t, c)' <=> WaitsOn(t, c)

\* Who waits is a matter of its call and of where that call is.
WaitsAsPlaced ==
    \A t, c : c \in CondIds =>
        (WaitsOn(t, c) <=> /\ call[t].op = "Wait" /\ call[t].cond = c
                           /\ \/ requests[machineOf[t]] # <<>>
                              \/ c \in QueuesOf(serverConds, machineOf[t]))

LEMMA WaitsMeans == TypeOK => WaitsAsPlaced
  <1> SUFFICES ASSUME TypeOK, NEW t, NEW c \in CondIds
               PROVE  WaitsOn(t, c) <=> /\ call[t].op = "Wait" /\ call[t].cond = c
                                        /\ \/ requests[machineOf[t]] # <<>>
                                           \/ c \in QueuesOf(serverConds, machineOf[t])
    BY DEF WaitsAsPlaced
  <1>1. DOMAIN serverConds = CondIds
    BY DEF TypeOK
  <1> QED BY <1>1 DEF WaitsOn, QueuesOf, Queued

LEMMA WaitsMeansNext == TypeOK' => WaitsAsPlaced'
  BY WaitsMeans, PTL

\* Who makes no Wait call does not wait, before and after.
LEMMA NoWaiting ==
    ASSUME NEW t \in Threads, call' = call, call[t].op # "Wait"
    PROVE  StillWaits(t)
  BY DEF StillWaits, WaitsOn

\* Who was in no condition's queue and is in none still does not wait.
LEMMA NotQueuedBefore ==
    ASSUME TypeOK, TypeOK', NEW t \in Threads, NEW m, m = machineOf[t], call' = call,
           requests[m] = <<>>, requests'[m] = <<>>,
           QueuesOf(serverConds, m) = {}, QueuesOf(serverConds, m)' = {}
    PROVE  StillWaits(t)
  BY WaitsMeans, WaitsMeansNext DEF StillWaits, WaitsAsPlaced

LEMMA UntouchedWaits ==
    ASSUME TypeOK, TypeOK', NEW t \in Threads, NEW m, m = machineOf[t], call'[t] = call[t],
           Untouched(m)
    PROVE  StillWaits(t)
  BY WaitsMeans, WaitsMeansNext DEF StillWaits, Untouched, WaitsAsPlaced

\* What is known of a client: the arguments of its call, and the locks it owns.
LEMMA Standing ==
    ASSUME LockServerAssumption, ClientInv, NEW t \in Threads
    PROVE  /\ machineOf[t] \in Machines
           /\ held[t] \subseteq LockIds
           /\ \A l \in held[t] : serverLocks[l].lockOwner = machineOf[t]
           /\ call[t] \in Request /\ call[t].op \in {"Acquire", "Release", "Wait", "Signal"} =>
                /\ call[t].lock \in LockIds /\ call[t].lock < serverLockCount
                /\ call[t].op # "Signal" => call[t].lock \notin held[t]
                /\ call[t].op = "Signal" => call[t].lock \in held[t]
           /\ call[t] \in Request /\ call[t].op \in {"Wait", "Signal"} =>
                /\ call[t].cond \in CondIds /\ call[t].cond < serverCondCount
                /\ call[t].lock = lockFor[call[t].cond]
           /\ call[t] \in Request /\ call[t].op \in {"Release", "Wait"} /\ requests[machineOf[t]] # <<>> =>
                serverLocks[call[t].lock].lockOwner = machineOf[t]
  <1> PICK m : m = machineOf[t]
    OBVIOUS
  <1>1. ClientOK(t) /\ held[t] \subseteq LockIds /\ m \in Machines
    BY DEF ClientInv, TableInv, TypeOK, LockServerAssumption
  <1>2. /\ serverLockCount \in Nat /\ serverCondCount \in Nat
        /\ MAX_LOCK_COUNT \in Nat /\ MAX_COND_COUNT \in Nat
        /\ serverLockCount <= MAX_LOCK_COUNT /\ serverCondCount <= MAX_COND_COUNT
    BY DEF ClientInv, TableInv, TypeOK, LockServerAssumption
  <1>3. Knows(call[t], held[t], knownLocks[t], knownConds[t], serverLockCount, serverCondCount)
    BY <1>1 DEF ClientOK
  <1>4. \A i \in knownLocks[t] : i \in LockIds /\ i < serverLockCount
    BY <1>2, <1>3 DEF Knows, LockIds
  <1>5. \A i \in knownConds[t] : i \in CondIds /\ i < serverCondCount
    BY <1>2, <1>3 DEF Knows, CondIds
  <1>6. \A l \in Claims(call[t], held[t], requests[m], inbox[m]) : serverLocks[l].lockOwner = m
    BY <1>1 DEF ClientOK
  <1>7. call[t] \in Request /\ call[t].op \in {"Acquire", "Release", "Wait", "Signal"} =>
          /\ call[t].lock \in knownLocks[t]
          /\ call[t].op # "Signal" => call[t].lock \notin held[t]
          /\ call[t].op = "Signal" => call[t].lock \in held[t]
    BY <1>3 DEF Knows
  <1>8. call[t] \in Request /\ call[t].op \in {"Wait", "Signal"} =>
          call[t].cond \in knownConds[t] /\ call[t].lock = lockFor[call[t].cond]
    BY <1>3 DEF Knows
  <1>9. call[t] \in Request /\ call[t].op \in {"Release", "Wait"} /\ requests[m] # <<>> =>
          call[t].lock \in Claims(call[t], held[t], requests[m], inbox[m])
    BY <1>4, <1>7 DEF Claims
  <1>10. held[t] \subseteq Claims(call[t], held[t], requests[m], inbox[m])
    BY DEF Claims
  <1> QED BY <1>1, <1>4, <1>5, <1>6, <1>7, <1>8, <1>9, <1>10

\* A handler is a step, and its client's machine is in no queue.
LEMMA HandlerIsStep ==
    ASSUME LockServerAssumption, ClientInv, NEW m \in Machines, Server(m)
    PROVE  [Next]_vars /\ TypeOK /\ TypeOK' /\ TableInv'
  <1>1. [Next]_vars
    BY DEF Next
  <1> QED BY <1>1, StepTable DEF ClientInv, TableInv

LEMMA NotInAny ==
    ASSUME ClientInv, NEW m, QueuesOf(serverLocks, m) = {}, QueuesOf(serverConds, m) = {}
    PROVE  /\ \A l \in LockIds : m \notin Queued(serverLocks[l].waitQueue)
           /\ \A c \in CondIds : m \notin Queued(serverConds[c].waitQueue)
  BY DEF QueuesOf, ClientInv, TableInv, TypeOK

LEMMA AcquireMoves ==
    ASSUME LockServerAssumption, CarefulClients, ClientInv, NEW m \in Machines, Acquire_server(m)
    PROVE  ClientInv' /\ \A t \in Threads : StillWaits(t)
  <1>0. [Next]_vars /\ TypeOK /\ TypeOK' /\ TableInv'
    BY Zenon, HandlerIsStep DEF Server
  <1>1. /\ Taken(m, "Acquire") /\ serverLocks' = Acquired(Head(requests[m]).lock, m)
        /\ inbox' = [inbox EXCEPT ![m] = @ \o AcquireReply(Head(requests[m]).lock, m)]
        /\ UNCHANGED <<serverLockCount, condVars, broadcast, serverUp>>
    BY DEF Acquire_server
  <1>2. PICK t \in Threads :
              /\ machineOf[t] = m
              /\ call[t] \in Request /\ call[t].op = "Acquire" /\ Head(requests[m]) = call[t]
              /\ requests[m] = <<call[t]>> /\ requests' = [requests EXCEPT ![m] = <<>>]
              /\ inbox[m] = <<>>
              /\ QueuesOf(serverLocks, m) = {} /\ QueuesOf(serverConds, m) = {}
              /\ \A u \in Threads : machineOf[u] = m => u = t
    BY <1>1, Served
  <1>3. PICK l \in LockIds : l = call[t].lock /\ l < serverLockCount
    BY <1>2, Standing
  <1>4. UNCHANGED <<call, held, knownLocks, knownConds>>
    BY <1>1, TakenLeavesClients
  <1>5. m \notin Queued(serverLocks[l].waitQueue)
    BY <1>2, NotInAny
  <1>6. /\ CleanLocks(serverLocks', serverLockCount)
        /\ \A n : n # m => QueuesOf(serverLocks', n) = QueuesOf(serverLocks, n)
        /\ \A k \in LockIds, n \in Machines :
              serverLocks[k].lockOwner = n => serverLocks'[k].lockOwner = n
        /\ \/ /\ QueuesOf(serverLocks', m) = QueuesOf(serverLocks, m)
              /\ serverLocks'[l].lockOwner = m
              /\ \E x \in Reply : AcquireReply(l, m) = <<x>>
           \/ /\ QueuesOf(serverLocks', m) = QueuesOf(serverLocks, m) \cup {l}
              /\ AcquireReply(l, m) = <<>>
    BY <1>1, <1>2, <1>3, <1>5, AcquiredMoves
  <1>7. /\ serverConds' = serverConds /\ serverCondCount' = serverCondCount
        /\ serverLockCount' = serverLockCount /\ broadcast' = broadcast
    BY <1>1 DEF condVars
  <1>8. /\ requests'[m] = <<>> /\ inbox'[m] = <<>> \o AcquireReply(l, m)
        /\ \A n \in Machines : n # m => requests'[n] = requests[n] /\ inbox'[n] = inbox[n]
    BY <1>0, <1>1, <1>2, <1>3 DEF TypeOK
  <1>9. inbox'[m] = AcquireReply(l, m)
    <2>1. AcquireReply(l, m) \in Seq(Reply)
      BY <1>3, AcquiredOK DEF ClientInv
    <2> QED BY <1>8, <2>1, ConcatEmptySeq
  <1>10. \A n \in Machines : n # m => Untouched(n) /\ KeepsLocks(n)
    BY <1>6, <1>7, <1>8 DEF Untouched, KeepsLocks
  <1>11. Counting /\ CleanConds(serverConds', serverCondCount')
    BY <1>7, CountTypes DEF Counting, ClientInv
  <1>12. \A k \in held[t] : serverLocks'[k].lockOwner = m
    BY <1>2, <1>6, Standing
  <1>13. ClientOK(t)'
    <2>1. CASE \E x \in Reply : AcquireReply(l, m) = <<x>>
      <3>1. PICK x \in Reply : AcquireReply(l, m) = <<x>>
        BY <2>1
      <3>2. QueuesOf(serverLocks', m) = {} /\ serverLocks'[l].lockOwner = m
        BY <1>2, <1>6, <3>1
      <3> QED BY <1>0, <1>2, <1>3, <1>4, <1>7, <1>8, <1>9, <1>11, <1>12, <3>1, <3>2, Answered
    <2>2. CASE AcquireReply(l, m) = <<>> /\ QueuesOf(serverLocks', m) = QueuesOf(serverLocks, m) \cup {l}
      <3>1. QueuesOf(serverLocks', m) = {l}
        BY <1>2, <2>2
      <3> QED BY <1>0, <1>2, <1>3, <1>4, <1>7, <1>8, <1>9, <1>11, <1>12, <2>2, <3>1, Queues
    <2> QED BY <1>6, <2>1, <2>2
  <1>14. ClientInv'
    <2>1. CleanLocks(serverLocks', serverLockCount')
      BY <1>6, <1>7
    <2>2. \A n \in Machines : (\A u \in {t} : machineOf[u] # n) => Untouched(n) /\ KeepsLocks(n)
      BY <1>2, <1>10
    <2> QED BY Zenon, <1>0, <1>4, <1>7, <1>11, <1>13, <2>1, <2>2, HandlerStep
  <1>15. ASSUME NEW u \in Threads PROVE StillWaits(u)
    <2>1. CASE u = t
      BY <1>2, <1>4, <2>1, NoWaiting
    <2>2. CASE u # t
      <3>1. machineOf[u] \in Machines /\ machineOf[u] # m
        BY <1>2, <2>2 DEF LockServerAssumption
      <3> QED BY <1>0, <1>4, <1>10, <3>1, UntouchedWaits
    <2> QED BY <2>1, <2>2
  <1> QED BY <1>14, <1>15

\* Lock l is given up, for Release_server or Wait_server: the client at the head of the
\* queue, if there is one, is answered x and owns the lock.
GivenUp(l, told, x) ==
    /\ serverLocks' = Passed(l)
    /\ inbox' = IF serverLocks[l].waitQueue # <<>>
                THEN [told EXCEPT ![Head(serverLocks[l].waitQueue)] = Append(@, x)]
                ELSE told

\* All but t fare well, as HandlerStep wants it.
OthersFine(t) ==
    \E Moved \in SUBSET Threads :
       /\ t \in Moved
       /\ \A u \in Moved \ {t} : ClientOK(u)'
       /\ \A n \in Machines : (\A u \in Moved : machineOf[u] # n) => Untouched(n) /\ KeepsLocks(n)

LEMMA OneMoved ==
    ASSUME NEW t \in Threads,
           \A n \in Machines : machineOf[t] # n => Untouched(n) /\ KeepsLocks(n)
    PROVE  OthersFine(t)
  <1>1. /\ t \in {t} /\ {t} \in SUBSET Threads
        /\ \A u \in {t} \ {t} : ClientOK(u)'
        /\ \A n \in Machines : (\A u \in {t} : machineOf[u] # n) => Untouched(n) /\ KeepsLocks(n)
    OBVIOUS
  <1> QED BY <1>1 DEF OthersFine

\* What Release_server and Wait_server do around giving up lock l of client t: told is
\* the mail out after what they say to t itself.
GivesUp(t, l, told, x) ==
    LET m == machineOf[t] IN
    /\ UNCHANGED <<call, held, knownLocks, knownConds>>
    /\ serverLocks[l].lockOwner = m /\ QueuesOf(serverLocks, m) = {}
    /\ serverLockCount' = serverLockCount
    /\ requests'[m] = <<>>
    /\ \A n \in Machines : n # m => requests'[n] = requests[n]
    /\ told \in [Machines -> Seq(Reply)]
    /\ \A n \in Machines : n # m => told[n] = inbox[n]
    /\ \A n \in Machines : n # m => QueuesOf(serverConds', n) = QueuesOf(serverConds, n)
    /\ GivenUp(l, told, x)

LEMMA PassedOn ==
    ASSUME LockServerAssumption, CarefulClients, ClientInv, TypeOK', TableInv', Counting,
           NEW t \in Threads, NEW l \in LockIds, NEW told, NEW x \in Reply,
           GivesUp(t, l, told, x)
    PROVE  /\ CleanLocks(serverLocks', serverLockCount')
           /\ QueuesOf(serverLocks', machineOf[t]) = {}
           /\ inbox'[machineOf[t]] = told[machineOf[t]]
           /\ \A k \in LockIds : k # l => serverLocks'[k] = serverLocks[k]
           /\ \A u \in Threads : u # t => StillWaits(u)
           /\ OthersFine(t)
  <1> PICK m \in Machines : m = machineOf[t]
    BY DEF LockServerAssumption
  <1>a. /\ UNCHANGED <<call, held, knownLocks, knownConds>>
        /\ serverLocks[l].lockOwner = m /\ QueuesOf(serverLocks, m) = {}
        /\ serverLockCount' = serverLockCount
        /\ requests'[m] = <<>>
        /\ \A n \in Machines : n # m => requests'[n] = requests[n]
        /\ told \in [Machines -> Seq(Reply)]
        /\ \A n \in Machines : n # m => told[n] = inbox[n]
        /\ \A n \in Machines : n # m => QueuesOf(serverConds', n) = QueuesOf(serverConds, n)
        /\ GivenUp(l, told, x)
    BY DEF GivesUp
  <1> PICK q : q = serverLocks[l].waitQueue
    OBVIOUS
  <1>0. /\ TypeOK /\ serverLocks' = Passed(l)
        /\ inbox' = IF q # <<>> THEN [told EXCEPT ![Head(q)] = Append(@, x)] ELSE told
        /\ \A k \in held[t] : serverLocks[k].lockOwner = m
    BY <1>a, Standing DEF ClientInv, TableInv, GivenUp
  <1>1. /\ CleanLocks(Passed(l), serverLockCount)
        /\ \A k \in LockIds : k # l => Passed(l)[k] = serverLocks[k]
        /\ q = <<>> => \A n : QueuesOf(Passed(l), n) = QueuesOf(serverLocks, n)
        /\ q # <<>> => /\ Head(q) \in Machines /\ Head(q) \in Queued(q)
                       /\ \A n : n # Head(q) => QueuesOf(Passed(l), n) = QueuesOf(serverLocks, n)
                       /\ QueuesOf(Passed(l), Head(q)) = QueuesOf(serverLocks, Head(q)) \ {l}
                       /\ Passed(l)[l].lockOwner = Head(q)
    BY PassedMoves
  <1>2. \A n \in Machines : n # m => KeepsLocks(n)
    BY <1>a, <1>0, <1>1 DEF KeepsLocks
  <1>4. \A u \in Threads : u # t => machineOf[u] \in Machines /\ machineOf[u] # m
    BY <1>a DEF CarefulClients, LockServerAssumption
  <1>5. CleanLocks(serverLocks', serverLockCount')
    BY <1>a, <1>0, <1>1
  <1>6. CASE q = <<>>
    <2>1. inbox' = told /\ QueuesOf(serverLocks', m) = {}
      BY <1>a, <1>0, <1>1, <1>6
    <2>2. \A n \in Machines : n # m => Untouched(n)
      BY <1>a, <1>0, <1>1, <1>6, <2>1 DEF Untouched
    <2>3. \A u \in Threads : u # t => StillWaits(u)
      BY <1>a, <1>0, <1>4, <2>2, UntouchedWaits
    <2>4. OthersFine(t)
      BY <1>a, <1>2, <2>2, OneMoved
    <2> QED BY <1>a, <1>0, <1>1, <1>5, <2>1, <2>3, <2>4
  <1>7. CASE q # <<>>
    <2> PICK w \in Machines : w = Head(q) /\ w \in Queued(serverLocks[l].waitQueue)
      BY <1>a, <1>1, <1>7
    <2>1. PICK u \in Threads :
              /\ machineOf[u] = w
              /\ call[u] \in Request /\ call[u].op \in {"Acquire", "Wait"} /\ call[u].lock = l
              /\ requests[w] = <<>> /\ inbox[w] = <<>>
              /\ QueuesOf(serverLocks, w) = {l} /\ QueuesOf(serverConds, w) = {}
              /\ \A v \in Threads : machineOf[v] = w => v = u
      <3>1. w \in Machines /\ l \in LockIds /\ w \in Queued(serverLocks[l].waitQueue)
        OBVIOUS
      <3> QED BY ONLY LockServerAssumption, CarefulClients, ClientInv, <3>1, InLockQueue
    <2>2. w # m /\ u # t
      BY <1>a, <2>1
    <2>3. /\ inbox' = [told EXCEPT ![w] = Append(@, x)]
          /\ inbox'[m] = told[m]
          /\ \A n \in Machines : n # m /\ n # w => inbox'[n] = inbox[n]
          /\ inbox'[w] = Append(<<>>, x)
      BY <1>a, <1>0, <1>7, <2>1, <2>2
    <2>4. inbox'[w] = <<x>>
      BY <1>a, <2>3
    <2>5. /\ QueuesOf(serverLocks', m) = {}
          /\ QueuesOf(serverLocks', w) = {}
          /\ \A n : n # w => QueuesOf(serverLocks', n) = QueuesOf(serverLocks, n)
          /\ serverLocks'[l].lockOwner = w
      BY <1>a, <1>0, <1>1, <1>7, <2>1, <2>2
    <2>6. \A n \in Machines : n # m /\ n # w => Untouched(n)
      BY <1>a, <2>3, <2>5 DEF Untouched
    <2>7. requests'[w] = <<>> /\ QueuesOf(serverConds', w) = {}
      BY <1>a, <2>1, <2>2
    <2>8. ClientOK(u)'
      <3>1. \A k \in held[u] : serverLocks'[k].lockOwner = w
        <4>1. \A k \in held[u] : k \in LockIds /\ serverLocks[k].lockOwner = w
          BY <2>1, Standing
        <4>2. \A k \in held[u] : k # l
          BY <1>a, <2>2, <4>1
        <4> QED BY <1>0, <1>1, <4>1, <4>2
      <3>2. call[u].op # "CreateLock" /\ call[u].op # "CreateCondition"
        BY <1>a, <2>1
      <3> QED BY <1>a, <2>1, <2>4, <2>5, <2>7, <3>1, <3>2, Answered
    <2>9. \A v \in Threads : v # t => StillWaits(v)
      <3>1. StillWaits(u)
        BY <1>a, <1>0, <2>1, <2>7, NotQueuedBefore
      <3>2. ASSUME NEW v \in Threads, v # t, v # u PROVE StillWaits(v)
        <4>1. machineOf[v] \in Machines /\ machineOf[v] # m /\ machineOf[v] # w
          BY <1>a, <1>4, <2>1, <3>2
        <4> QED BY <1>a, <1>0, <2>6, <4>1, UntouchedWaits
      <3> QED BY <1>a, <3>1, <3>2
    <2>10. OthersFine(t)
      <3>1. \A v \in {t, u} \ {t} : ClientOK(v)'
        BY <1>a, <2>8
      <3>2. ASSUME NEW n \in Machines, \A v \in {t, u} : machineOf[v] # n
            PROVE  Untouched(n) /\ KeepsLocks(n)
        BY <1>a, <1>2, <2>1, <2>6, <3>2
      <3>3. t \in {t, u} /\ {t, u} \in SUBSET Threads
        OBVIOUS
      <3> QED BY <1>a, <3>1, <3>2, <3>3 DEF OthersFine
    <2> QED BY <1>a, <1>0, <1>1, <1>5, <2>3, <2>5, <2>9, <2>10
  <1> QED BY <1>a, <1>6, <1>7

LEMMA ReleaseMoves ==
    ASSUME LockServerAssumption, CarefulClients, ClientInv, NEW m \in Machines, Release_server(m)
    PROVE  ClientInv' /\ \A t \in Threads : StillWaits(t)
  <1>0. [Next]_vars /\ TypeOK /\ TypeOK' /\ TableInv'
    BY Zenon, HandlerIsStep DEF Server
  <1>1. Taken(m, "Release") /\ UNCHANGED <<serverLockCount, condVars, broadcast, serverUp>>
    BY Zenon DEF Release_server
  <1>2. PICK t \in Threads :
              /\ machineOf[t] = m
              /\ call[t] \in Request /\ call[t].op = "Release" /\ Head(requests[m]) = call[t]
              /\ requests[m] = <<call[t]>> /\ requests' = [requests EXCEPT ![m] = <<>>]
              /\ inbox[m] = <<>>
              /\ QueuesOf(serverLocks, m) = {} /\ QueuesOf(serverConds, m) = {}
              /\ \A u \in Threads : machineOf[u] = m => u = t
    BY <1>1, Served
  <1>3. PICK l \in LockIds : l = call[t].lock /\ l < serverLockCount /\ serverLocks[l].lockOwner = m
                             /\ l \notin held[t]
    BY <1>2, Standing
  <1>4. UNCHANGED <<call, held, knownLocks, knownConds>>
    BY <1>1, TakenLeavesClients
  <1>5. validateLockIndex(l) /\ ~serverLocks[l].deleteFlag
    BY <1>3 DEF ClientInv, CleanLocks, CleanLock, validateLockIndex
  <1>6. PICK told : told = [inbox EXCEPT ![m] = Append(@, Say("Done"))]
    BY Zenon
  <1>7. GivenUp(l, told, Say("Got"))
    BY Zenon, <1>2, <1>3, <1>5, <1>6 DEF Release_server, GivenUp
  <1>8. /\ serverConds' = serverConds /\ serverCondCount' = serverCondCount
        /\ serverLockCount' = serverLockCount /\ broadcast' = broadcast
    BY <1>1 DEF condVars
  <1>9. /\ Counting /\ CleanConds(serverConds', serverCondCount')
        /\ QueuesOf(serverConds', m) = {}
        /\ \A n : n # m => QueuesOf(serverConds', n) = QueuesOf(serverConds, n)
    BY <1>2, <1>8, CountTypes DEF Counting, ClientInv
  <1>10. Say("Done") \in Reply /\ Say("Got") \in Reply
    BY ReplyType
  <1>11. /\ told \in [Machines -> Seq(Reply)]
         /\ \A n \in Machines : n # m => told[n] = inbox[n]
         /\ told[m] = Append(<<>>, Say("Done"))
    BY <1>0, <1>2, <1>6, <1>10 DEF TypeOK
  <1>12. told[m] = <<Say("Done")>>
    BY <1>11
  <1>17. requests'[m] = <<>> /\ \A n \in Machines : n # m => requests'[n] = requests[n]
    BY <1>0, <1>2 DEF TypeOK
  <1>13. /\ CleanLocks(serverLocks', serverLockCount')
         /\ QueuesOf(serverLocks', m) = {}
         /\ inbox'[m] = told[m]
         /\ \A k \in LockIds : k # l => serverLocks'[k] = serverLocks[k]
         /\ \A u \in Threads : u # t => StillWaits(u)
         /\ OthersFine(t)
    <2>1. GivesUp(t, l, told, Say("Got"))
      BY <1>2, <1>3, <1>4, <1>7, <1>8, <1>9, <1>11, <1>17 DEF GivesUp
    <2> QED BY <1>0, <1>2, <1>9, <1>10, <2>1, PassedOn
  <1>14. ClientOK(t)'
    <2>1. \A k \in held[t] : serverLocks'[k].lockOwner = m
      BY <1>2, <1>3, <1>13, Standing
    <2> QED BY <1>0, <1>2, <1>4, <1>9, <1>10, <1>12, <1>13, <1>17, <2>1, Answered
  <1>15. ClientInv'
    <2>1. PICK Moved \in SUBSET Threads :
               /\ t \in Moved
               /\ \A u \in Moved \ {t} : ClientOK(u)'
               /\ \A n \in Machines : (\A u \in Moved : machineOf[u] # n) =>
                                         Untouched(n) /\ KeepsLocks(n)
      BY <1>13 DEF OthersFine
    <2>2. \A u \in Moved : ClientOK(u)'
      BY <1>14, <2>1
    <2> QED BY <1>0, <1>4, <1>8, <1>9, <1>13, <2>1, <2>2, HandlerStep
  <1>16. StillWaits(t)
    BY <1>2, <1>4, NoWaiting
  <1> QED BY <1>13, <1>15, <1>16

LEMMA WaitMoves ==
    ASSUME LockServerAssumption, CarefulClients, ClientInv, NEW m \in Machines, Wait_server(m)
    PROVE  ClientInv' /\ \A t \in Threads : StillWaits(t)
  <1>0. [Next]_vars /\ TypeOK /\ TypeOK' /\ TableInv'
    BY Zenon, HandlerIsStep DEF Server
  <1>1. Taken(m, "Wait") /\ UNCHANGED <<serverLockCount, serverCondCount, broadcast>>
    BY Zenon DEF Wait_server
  <1>2. PICK t \in Threads :
              /\ machineOf[t] = m
              /\ call[t] \in Request /\ call[t].op = "Wait" /\ Head(requests[m]) = call[t]
              /\ requests[m] = <<call[t]>> /\ requests' = [requests EXCEPT ![m] = <<>>]
              /\ inbox[m] = <<>>
              /\ QueuesOf(serverLocks, m) = {} /\ QueuesOf(serverConds, m) = {}
              /\ \A u \in Threads : machineOf[u] = m => u = t
    BY <1>1, Served
  <1>3. PICK l \in LockIds : l = call[t].lock /\ l < serverLockCount /\ serverLocks[l].lockOwner = m
                             /\ l \notin held[t]
    BY <1>2, Standing
  <1>4. PICK c \in CondIds : c = call[t].cond /\ c < serverCondCount /\ l = lockFor[c]
    BY <1>2, <1>3, Standing
  <1>5. UNCHANGED <<call, held, knownLocks, knownConds>>
    BY <1>1, TakenLeavesClients
  <1>6. ~WaitError(m, l, c)
    BY <1>3, <1>4 DEF ClientInv, CleanLocks, CleanLock, CleanConds, CleanCond, validateLockIndex,
                      validateConditionIndex, WaitError
  <1>7. ~serverConds[c].hasWaitingLock \/ FALSE \notin SameLock(c, l)
    <2>1. ASSUME serverConds[c].hasWaitingLock PROVE serverConds[c].waitingLockIndex = l
      BY <1>4, <2>1 DEF ClientInv, CleanConds, CleanCond
    <2>2. l # -1 /\ (l = l) = TRUE
      BY DEF LockIds
    <2> QED BY Zenon, <2>1, <2>2 DEF SameLock
  <1>8. /\ serverConds' = Enqueued(m, l, c)
        /\ \/ GivenUp(l, inbox, Say("Garbage"))
           \/ serverLocks' = serverLocks /\ inbox' = inbox
    BY Zenon, <1>2, <1>3, <1>4, <1>6, <1>7 DEF Wait_server, GivenUp
  <1>9. m \notin Queued(serverConds[c].waitQueue)
    BY <1>2, NotInAny
  <1>10. /\ CleanConds(serverConds', serverCondCount)
         /\ \A n : n # m => QueuesOf(serverConds', n) = QueuesOf(serverConds, n)
         /\ QueuesOf(serverConds', m) = QueuesOf(serverConds, m) \cup {c}
    <2>1. serverConds' = Enqueued(m, l, c)
      BY <1>8
    <2>2. /\ CleanConds(Enqueued(m, l, c), serverCondCount)
          /\ \A n : n # m => QueuesOf(Enqueued(m, l, c), n) = QueuesOf(serverConds, n)
          /\ QueuesOf(Enqueued(m, l, c), m) = QueuesOf(serverConds, m) \cup {c}
      BY <1>4, <1>6, <1>9, EnqueuedMoves
    <2> QED BY <2>1, <2>2
  <1>11. /\ Counting /\ CleanConds(serverConds', serverCondCount')
         /\ QueuesOf(serverConds', m) = {c}
    BY <1>1, <1>2, <1>10, CountTypes DEF Counting, ClientInv
  <1>12. /\ inbox \in [Machines -> Seq(Reply)] /\ Say("Garbage") \in Reply
         /\ serverLockCount' = serverLockCount /\ broadcast' = broadcast
         /\ requests'[m] = <<>>
         /\ \A n \in Machines : n # m => requests'[n] = requests[n]
    BY <1>0, <1>1, <1>2, ReplyType DEF TypeOK
  <1>13. /\ CleanLocks(serverLocks', serverLockCount')
         /\ QueuesOf(serverLocks', m) = {}
         /\ inbox'[m] = <<>>
         /\ \A k \in LockIds : k # l => serverLocks'[k] = serverLocks[k]
         /\ \A u \in Threads : u # t => StillWaits(u)
         /\ OthersFine(t)
    <2>1. CASE GivenUp(l, inbox, Say("Garbage"))
      <3>2. /\ CleanLocks(serverLocks', serverLockCount')
            /\ QueuesOf(serverLocks', m) = {}
            /\ inbox'[m] = inbox[m]
            /\ \A k \in LockIds : k # l => serverLocks'[k] = serverLocks[k]
            /\ \A u \in Threads : u # t => StillWaits(u)
            /\ OthersFine(t)
        <4>1. GivesUp(t, l, inbox, Say("Garbage"))
          BY <1>2, <1>3, <1>5, <1>10, <1>12, <2>1 DEF GivesUp
        <4> QED BY <1>0, <1>2, <1>11, <1>12, <4>1, PassedOn
      <3> QED BY <1>2, <3>2
    <2>2. CASE serverLocks' = serverLocks /\ inbox' = inbox
      <3>1. \A n \in Machines : n # m => Untouched(n) /\ KeepsLocks(n)
        BY <1>10, <1>12, <2>2 DEF Untouched, KeepsLocks
      <3>2. CleanLocks(serverLocks', serverLockCount') /\ QueuesOf(serverLocks', m) = {}
        BY <1>2, <1>12, <2>2 DEF ClientInv
      <3>3. ASSUME NEW u \in Threads, u # t PROVE StillWaits(u)
        <4>1. machineOf[u] \in Machines /\ machineOf[u] # m
          BY <1>2, <3>3 DEF LockServerAssumption
        <4> QED BY <1>0, <1>5, <3>1, <4>1, UntouchedWaits
      <3>4. OthersFine(t)
        BY <1>2, <3>1, OneMoved
      <3> QED BY <1>2, <2>2, <3>2, <3>3, <3>4
    <2> QED BY <1>8, <2>1, <2>2
  <1>14. ClientOK(t)'
    <2>1. \A k \in held[t] : serverLocks'[k].lockOwner = m
      BY <1>2, <1>3, <1>13, Standing
    <2> QED BY <1>0, <1>2, <1>4, <1>5, <1>11, <1>12, <1>13, <2>1, Queues
  <1>15. ClientInv'
    <2>1. PICK Moved \in SUBSET Threads :
               /\ t \in Moved
               /\ \A u \in Moved \ {t} : ClientOK(u)'
               /\ \A n \in Machines : (\A u \in Moved : machineOf[u] # n) =>
                                         Untouched(n) /\ KeepsLocks(n)
      BY <1>13 DEF OthersFine
    <2>2. \A u \in Moved : ClientOK(u)'
      BY <1>14, <2>1
    <2> QED BY <1>0, <1>5, <1>11, <1>12, <1>13, <2>1, <2>2, HandlerStep
  <1>16. StillWaits(t)
    <2>1. requests[m] # <<>>
      BY <1>1 DEF Taken
    <2> QED BY Zenon, <1>0, <1>2, <1>4, <1>5, <1>11, <2>1, WaitsMeans, WaitsMeansNext DEF StillWaits, WaitsAsPlaced
  <1> QED BY <1>13, <1>15, <1>16

\* Thread u stops waiting on c, signalled by somebody inside the lock it waits with.
Notified(u, c) ==
    /\ WaitsOn(u, c) /\ ~WaitsOn(u, c)'
    /\ \A d \in CondIds \ {c} : ~WaitsOn(u, d) /\ ~WaitsOn(u, d)'
    /\ \A v \in Threads \ {u} : StillWaits(v)
    /\ call[u].lock = lockFor[c]
    /\ \E t \in Threads : lockFor[c] \in held[t]

LEMMA SignalMoves ==
    ASSUME LockServerAssumption, CarefulClients, ClientInv, NEW m \in Machines, Signal_server(m)
    PROVE  /\ ClientInv'
           /\ \/ \A t \in Threads : StillWaits(t)
              \/ \E u \in Threads, c \in CondIds : Notified(u, c)
  <1>0. [Next]_vars /\ TypeOK /\ TypeOK' /\ TableInv'
    BY Zenon, HandlerIsStep DEF Server
  <1>1. Taken(m, "Signal") /\ UNCHANGED <<serverLockCount, serverCondCount, broadcast>>
    BY Zenon DEF Signal_server
  <1>2. PICK t \in Threads :
              /\ machineOf[t] = m
              /\ call[t] \in Request /\ call[t].op = "Signal" /\ Head(requests[m]) = call[t]
              /\ requests[m] = <<call[t]>> /\ requests' = [requests EXCEPT ![m] = <<>>]
              /\ inbox[m] = <<>>
              /\ QueuesOf(serverLocks, m) = {} /\ QueuesOf(serverConds, m) = {}
              /\ \A u \in Threads : machineOf[u] = m => u = t
    BY <1>1, Served
  <1>3. PICK l \in LockIds : l = call[t].lock /\ l < serverLockCount /\ l \in held[t]
    BY <1>2, Standing
  <1>4. PICK c \in CondIds : c = call[t].cond /\ c < serverCondCount /\ l = lockFor[c]
    BY <1>2, <1>3, Standing
  <1>5. UNCHANGED <<call, held, knownLocks, knownConds>>
    BY <1>1, TakenLeavesClients
  <1>6. validateConditionIndex(c)
    BY Zenon, <1>4 DEF ClientInv, CleanConds, CleanCond, validateConditionIndex
  <1>7. \/ /\ serverConds[c].waitQueue = <<>>
           /\ Mailed(m, Say("Done"))
           /\ serverLocks' = serverLocks /\ serverConds' = serverConds
        \/ /\ serverConds[c].waitQueue # <<>>
           /\ Woken(l, c)
           /\ inbox' = [[inbox EXCEPT ![Head(serverConds[c].waitQueue)] =
                            @ \o AcquireReply(l, Head(serverConds[c].waitQueue))]
                        EXCEPT ![m] = Append(@, Say("Done"))]
    BY Zenon, <1>2, <1>3, <1>4, <1>6 DEF Signal_server
  <1>8. /\ inbox \in [Machines -> Seq(Reply)] /\ Say("Done") \in Reply
        /\ serverLockCount' = serverLockCount /\ serverCondCount' = serverCondCount
        /\ broadcast' = broadcast /\ Counting
        /\ requests'[m] = <<>>
        /\ \A n \in Machines : n # m => requests'[n] = requests[n]
    BY <1>0, <1>1, <1>2, ReplyType, CountTypes DEF TypeOK, Counting, ClientInv
  <1>9. StillWaits(t)
    BY <1>2, <1>5, NoWaiting
  <1>10. ASSUME \A k \in held[t] : serverLocks'[k].lockOwner = m, inbox'[m] = Append(<<>>, Say("Done")),
                QueuesOf(serverLocks', m) = {}, QueuesOf(serverConds', m) = {}
         PROVE  ClientOK(t)'
    <2>1. inbox'[m] = <<Say("Done")>>
      BY <1>10
    <2>2. /\ call[t].op # "CreateLock" /\ call[t].op # "CreateCondition"
          /\ call[t].op \notin {"Acquire", "Wait"}
      BY <1>2
    <2>3. \A k \in held[t] : serverLocks'[k].lockOwner = m
      BY <1>10
    <2>4. call[t] \in Request /\ m = machineOf[t]
      BY <1>2
    <2> QED BY Zenon, <1>0, <1>5, <1>8, <1>10, <2>1, <2>2, <2>3, <2>4, Answered
  <1>11. \A k \in held[t] : serverLocks[k].lockOwner = m /\ k \in LockIds
    BY <1>2, Standing
  <1>12. CASE /\ serverConds[c].waitQueue = <<>>
              /\ Mailed(m, Say("Done"))
              /\ serverLocks' = serverLocks /\ serverConds' = serverConds
    <2>1. /\ inbox'[m] = Append(<<>>, Say("Done"))
          /\ \A n \in Machines : n # m => inbox'[n] = inbox[n]
      BY <1>2, <1>8, <1>12 DEF Mailed
    <2>2. ClientOK(t)'
      BY <1>2, <1>10, <1>11, <1>12, <2>1
    <2>3. \A n \in Machines : n # m => Untouched(n) /\ KeepsLocks(n)
      BY <1>8, <1>12, <2>1 DEF Untouched, KeepsLocks
    <2>4. ClientInv'
      <3>1. CleanLocks(serverLocks', serverLockCount') /\ CleanConds(serverConds', serverCondCount')
        BY <1>8, <1>12 DEF ClientInv
      <3>2. \A n \in Machines : (\A u \in {t} : machineOf[u] # n) => Untouched(n) /\ KeepsLocks(n)
        BY <1>2, <2>3
      <3> QED BY <1>0, <1>5, <1>8, <2>2, <3>1, <3>2, HandlerStep
    <2>5. ASSUME NEW u \in Threads, u # t PROVE StillWaits(u)
      <3>1. machineOf[u] \in Machines /\ machineOf[u] # m
        BY <1>2, <2>5 DEF LockServerAssumption
      <3> QED BY <1>0, <1>5, <2>3, <3>1, UntouchedWaits
    <2> QED BY <1>9, <2>4, <2>5
  <1>13. CASE /\ serverConds[c].waitQueue # <<>>
              /\ Woken(l, c)
              /\ inbox' = [[inbox EXCEPT ![Head(serverConds[c].waitQueue)] =
                               @ \o AcquireReply(l, Head(serverConds[c].waitQueue))]
                           EXCEPT ![m] = Append(@, Say("Done"))]
    <2>0. PICK w : w = Head(serverConds[c].waitQueue)
      OBVIOUS
    <2>1. /\ w \in Machines /\ w \in Queued(serverConds[c].waitQueue)
          /\ CleanConds(serverConds', serverCondCount)
          /\ \A n : n # w => QueuesOf(serverConds', n) = QueuesOf(serverConds, n)
          /\ QueuesOf(serverConds', w) = QueuesOf(serverConds, w) \ {c}
      BY <1>13, <2>0, WokenMoves
    <2>2. PICK u \in Threads :
              /\ machineOf[u] = w
              /\ call[u] \in Request /\ call[u].op = "Wait" /\ call[u].cond = c
              /\ call[u].lock = lockFor[c]
              /\ requests[w] = <<>> /\ inbox[w] = <<>>
              /\ QueuesOf(serverLocks, w) = {} /\ QueuesOf(serverConds, w) = {c}
              /\ \A v \in Threads : machineOf[v] = w => v = u
      <3>1. w \in Machines /\ c \in CondIds /\ w \in Queued(serverConds[c].waitQueue)
        BY <2>1
      <3> QED BY ONLY LockServerAssumption, CarefulClients, ClientInv, <3>1, InCondQueue
    <2>3. w # m /\ u # t
      BY <1>2, <2>2
    <2>4. w \notin Queued(serverLocks[l].waitQueue)
      <3>1. QueuesOf(serverLocks, w) = {} /\ l \in DOMAIN serverLocks
        BY <1>0, <2>2 DEF TypeOK
      <3> QED BY ONLY <3>1 DEF QueuesOf
    <2>5. /\ CleanLocks(serverLocks', serverLockCount)
          /\ \A n : n # w => QueuesOf(serverLocks', n) = QueuesOf(serverLocks, n)
          /\ \A k \in LockIds, n \in Machines :
                serverLocks[k].lockOwner = n => serverLocks'[k].lockOwner = n
          /\ \/ /\ QueuesOf(serverLocks', w) = QueuesOf(serverLocks, w)
                /\ serverLocks'[l].lockOwner = w
                /\ \E x \in Reply : AcquireReply(l, w) = <<x>>
             \/ /\ QueuesOf(serverLocks', w) = QueuesOf(serverLocks, w) \cup {l}
                /\ AcquireReply(l, w) = <<>>
      <3>1. serverLocks' = Acquired(l, w)
        BY <1>13, <2>0 DEF Woken
      <3> QED BY <1>3, <2>1, <2>4, <3>1, AcquiredMoves
    <2>6. /\ inbox'[m] = Append(<<>>, Say("Done"))
          /\ inbox'[w] = AcquireReply(l, w)
          /\ \A n \in Machines : n # m /\ n # w => inbox'[n] = inbox[n]
      <3>1. AcquireReply(l, w) \in Seq(Reply)
        BY <2>1, AcquiredOK DEF ClientInv
      <3>2. inbox'[w] = <<>> \o AcquireReply(l, w)
        <4>1. PICK mid : mid = [inbox EXCEPT ![w] = @ \o AcquireReply(l, w)]
          BY Zenon
        <4>2. inbox' = [mid EXCEPT ![m] = Append(@, Say("Done"))]
          BY Zenon, <1>13, <2>0, <4>1
        <4>3. mid[w] = <<>> \o AcquireReply(l, w) /\ w \in DOMAIN mid
          BY <1>8, <2>1, <2>2, <2>3, <4>1
        <4> QED BY <2>1, <2>2, <2>3, <4>2, <4>3
      <3>3. /\ inbox'[m] = Append(<<>>, Say("Done"))
            /\ \A n \in Machines : n # m /\ n # w => inbox'[n] = inbox[n]
        BY <1>2, <1>8, <1>13, <2>0, <2>1, <2>3
      <3> QED BY <3>1, <3>2, <3>3, ConcatEmptySeq
    <2>7. \A n \in Machines : n # m /\ n # w => Untouched(n)
      BY <1>8, <2>1, <2>5, <2>6 DEF Untouched
    <2>8. \A n \in Machines : KeepsLocks(n)
      BY <2>5 DEF KeepsLocks
    <2>9. ClientOK(t)'
      <3>1. \A k \in held[t] : serverLocks'[k].lockOwner = m
        BY <1>11, <2>5
      <3>2. QueuesOf(serverLocks', m) = {} /\ QueuesOf(serverConds', m) = {}
        BY <1>2, <2>1, <2>3, <2>5
      <3> QED BY <1>10, <2>6, <3>1, <3>2
    <2>10. ClientOK(u)'
      <3>1. \A k \in held[u] : serverLocks'[k].lockOwner = w
        BY <2>1, <2>2, <2>5, Standing
      <3>2. requests'[w] = <<>> /\ QueuesOf(serverConds', w) = {}
        BY <1>8, <2>1, <2>2, <2>3
      <3>3. CASE \E x \in Reply : AcquireReply(l, w) = <<x>>
        <4>1. PICK x \in Reply : AcquireReply(l, w) = <<x>>
          BY <3>3
        <4>2. QueuesOf(serverLocks', w) = {} /\ serverLocks'[l].lockOwner = w
          BY <2>2, <2>5, <4>1
        <4>3. /\ call[u] \in Request /\ call[u].op # "CreateLock" /\ call[u].op # "CreateCondition"
              /\ serverLocks'[call[u].lock].lockOwner = w /\ inbox'[w] = <<x>>
          BY <1>4, <2>2, <2>6, <4>1, <4>2
        <4> QED BY <1>0, <1>5, <1>8, <2>2, <3>1, <3>2, <4>2, <4>3, Answered
      <3>4. CASE /\ AcquireReply(l, w) = <<>>
                 /\ QueuesOf(serverLocks', w) = QueuesOf(serverLocks, w) \cup {l}
        <4>1. QueuesOf(serverLocks', w) = {l}
          BY <2>2, <3>4
        <4> QED BY Zenon, <1>0, <1>4, <1>5, <1>8, <2>2, <2>6, <3>1, <3>2, <3>4, <4>1, Queues
      <3> QED BY <2>5, <3>3, <3>4
    <2>11. ClientInv'
      <3>1. CleanLocks(serverLocks', serverLockCount') /\ CleanConds(serverConds', serverCondCount')
        BY <1>8, <2>1, <2>5
      <3>2. \A n \in Machines : (\A v \in {t, u} : machineOf[v] # n) => Untouched(n) /\ KeepsLocks(n)
        BY <1>2, <2>2, <2>7, <2>8
      <3>3. {t, u} \in SUBSET Threads /\ \A v \in {t, u} : ClientOK(v)'
        BY <2>9, <2>10
      <3> QED BY <1>0, <1>5, <1>8, <3>1, <3>2, <3>3, HandlerStep
    <2>12. Notified(u, c)
      <3>1. WaitsOn(u, c) /\ \A d \in CondIds \ {c} : ~WaitsOn(u, d)
        BY <1>0, <2>2, WaitsMeans DEF WaitsAsPlaced
      <3>2. \A d \in CondIds : ~WaitsOn(u, d)'
        <4>1. requests'[w] = <<>> /\ QueuesOf(serverConds', w) = {}
          BY <1>8, <2>1, <2>2, <2>3
        <4> QED BY <1>0, <2>2, <4>1, WaitsMeansNext DEF WaitsAsPlaced
      <3>3. ASSUME NEW v \in Threads, v # u PROVE StillWaits(v)
        <4>1. CASE v = t
          BY <1>9, <4>1
        <4>2. CASE v # t
          <5>1. machineOf[v] \in Machines /\ machineOf[v] # m /\ machineOf[v] # w
            BY <1>2, <2>2, <3>3, <4>2 DEF LockServerAssumption
          <5> QED BY <1>0, <1>5, <2>7, <5>1, UntouchedWaits
        <4> QED BY <4>1, <4>2
      <3> QED BY <1>3, <1>4, <2>2, <3>1, <3>2, <3>3 DEF Notified
    <2> QED BY <2>11, <2>12
  <1> QED BY Zenon, <1>7, <1>12, <1>13

\* A handler that answers client t and moves nobody: the others keep their places, t is
\* given reply x, and whoever owned a lock in use still does.
AnswersOnly(t, x) ==
    LET m == machineOf[t] IN
    /\ requests'[m] = <<>> /\ inbox'[m] = <<x>>
    /\ \A n \in Machines : n # m => requests'[n] = requests[n] /\ inbox'[n] = inbox[n]
    /\ \A n : QueuesOf(serverLocks', n) = QueuesOf(serverLocks, n)
    /\ \A n : QueuesOf(serverConds', n) = QueuesOf(serverConds, n)
    /\ QueuesOf(serverLocks, m) = {} /\ QueuesOf(serverConds, m) = {}
    /\ \A n \in Machines : KeepsLocks(n)

LEMMA AnswerMoves ==
    ASSUME LockServerAssumption, CarefulClients, ClientInv, [Next]_vars, Counting,
           UNCHANGED <<call, held, knownLocks, knownConds, broadcast>>,
           CleanLocks(serverLocks', serverLockCount'), CleanConds(serverConds', serverCondCount'),
           NEW t \in Threads, NEW x \in Reply, AnswersOnly(t, x), call[t] \in Request,
           call[t].op \in {"CreateLock", "CreateCondition"},
           call[t].op = "CreateLock" => \E i \in 0 .. serverLockCount' - 1 : x = Index(i),
           call[t].op = "CreateCondition" => \E i \in 0 .. serverCondCount' - 1 : x = Index(i)
    PROVE  ClientInv' /\ \A u \in Threads : StillWaits(u)
  <1> PICK m \in Machines : m = machineOf[t]
    BY DEF LockServerAssumption
  <1>1. TableInv' /\ TypeOK /\ TypeOK'
    BY StepTable DEF ClientInv, TableInv
  <1>2. /\ requests'[m] = <<>> /\ inbox'[m] = <<x>>
        /\ QueuesOf(serverLocks', m) = {} /\ QueuesOf(serverConds', m) = {}
        /\ \A n \in Machines : KeepsLocks(n)
        /\ \A n \in Machines : n # m => Untouched(n)
    BY DEF AnswersOnly, Untouched
  <1>3. ClientOK(t)'
    <2>1. \A k \in held[t] : serverLocks'[k].lockOwner = m
      <3>1. ClientOK(t) /\ \A i \in 0 .. serverLockCount - 1 : i < serverLockCount
        BY CountTypes DEF ClientInv
      <3>2. \A k \in held[t] : k \in LockIds /\ serverLocks[k].lockOwner = m /\ k < serverLockCount
        BY <3>1, Standing DEF ClientOK, Knows
      <3> QED BY <1>2, <3>2 DEF KeepsLocks
    <2> QED BY <1>1, <1>2, <2>1, Answered
  <1>4. \A n \in Machines : (\A u \in {t} : machineOf[u] # n) => Untouched(n) /\ KeepsLocks(n)
    BY <1>2
  <1>5. ClientInv'
    <2>1. {t} \in SUBSET Threads /\ \A u \in {t} : ClientOK(u)'
      BY <1>3
    <2> QED BY <1>4, <2>1, HandlerStep
  <1>6. ASSUME NEW u \in Threads PROVE StillWaits(u)
    <2>1. CASE u = t
      BY <2>1, NoWaiting
    <2>2. CASE u # t
      <3>1. machineOf[u] \in Machines /\ machineOf[u] # m
        BY <2>2 DEF LockServerAssumption, CarefulClients
      <3> QED BY <1>1, <1>2, <3>1, UntouchedWaits
    <2> QED BY <2>1, <2>2
  <1> QED BY <1>5, <1>6

LEMMA CreateLockMoves ==
    ASSUME LockServerAssumption, CarefulClients, ClientInv, NEW m \in Machines, CreateLock_server(m)
    PROVE  ClientInv' /\ \A t \in Threads : StillWaits(t)
  <1>0. [Next]_vars /\ TypeOK /\ TypeOK'
    BY Zenon, HandlerIsStep DEF Server
  <1>1. Taken(m, "CreateLock") /\ UNCHANGED <<condVars, broadcast, serverUp>>
    BY DEF CreateLock_server
  <1>2. PICK t \in Threads :
              /\ machineOf[t] = m
              /\ call[t] \in Request /\ call[t].op = "CreateLock" /\ Head(requests[m]) = call[t]
              /\ requests[m] = <<call[t]>> /\ requests' = [requests EXCEPT ![m] = <<>>]
              /\ inbox[m] = <<>>
              /\ QueuesOf(serverLocks, m) = {} /\ QueuesOf(serverConds, m) = {}
              /\ \A u \in Threads : machineOf[u] = m => u = t
    BY <1>1, Served
  <1>3. PICK n \in LockIds : n = serverLockCount /\ n < MAX_LOCK_COUNT
    BY <1>0, NeverFull DEF LockServerAssumption, TypeOK, LockIds
  <1>4. /\ serverConds' = serverConds /\ serverCondCount' = serverCondCount
        /\ UNCHANGED <<call, held, knownLocks, knownConds, broadcast>>
    BY <1>1, TakenLeavesClients DEF condVars
  <1>5. /\ n \in Nat /\ MAX_LOCK_COUNT \in Nat /\ ~LockTableFull
        /\ n \in 0 .. (n + 1) - 1 /\ n <= n + 1
        /\ \A i \in LockIds : i < n => i \in 0 .. n - 1
        /\ \A i \in LockIds : i < n + 1 => i = n \/ i < n
    BY <1>0, <1>3 DEF LockTableFull, LockServerAssumption, LockIds
  <1>6. PICK name \in LockNames : name = call[t].name
    BY <1>2, RequestArguments
  <1>7. PICK e : e = serverLocks[n]
    OBVIOUS
  <1>8. PICK new : new = [e EXCEPT !.name = name, !.deleteFlag = FALSE, !.isDeleted = FALSE,
                                   !.lockStatus = "FREE", !.lockOwner = NoMachine]
    OBVIOUS
  <1>9. \/ /\ serverLocks' = serverLocks /\ serverLockCount' = n
           /\ \E i \in 0 .. n - 1 : Mailed(m, Index(i))
        \/ /\ Replaces(serverLocks', serverLocks, n, new) /\ serverLockCount' = n + 1
           /\ Mailed(m, Index(n))
    <2>1. ASSUME NEW i \in LocksNamed(name) PROVE i \in 0 .. n - 1
      BY <1>3, <1>5 DEF LocksNamed
    <2>2. ASSUME serverLocks' = [serverLocks EXCEPT ![serverLockCount] =
                    [@ EXCEPT !.name = name, !.deleteFlag = FALSE, !.isDeleted = FALSE,
                              !.lockStatus = "FREE", !.lockOwner = NoMachine]]
          PROVE  Replaces(serverLocks', serverLocks, n, new)
      <3>1. DOMAIN serverLocks = LockIds
        BY <1>0 DEF TypeOK
      <3>2. serverLocks' = [serverLocks EXCEPT ![n] = new]
        BY <1>3, <1>7, <1>8, <2>2
      <3> QED BY <3>1, <3>2 DEF Replaces
    <2> QED BY <1>2, <1>3, <1>5, <1>6, <2>1, <2>2 DEF CreateLock_server, lockVars
  <1>10. ASSUME NEW x \in Reply, NEW i \in 0 .. serverLockCount' - 1, x = Index(i), Mailed(m, x),
                \A k : QueuesOf(serverLocks', k) = QueuesOf(serverLocks, k),
                CleanLocks(serverLocks', serverLockCount'),
                \A k \in LockIds : k < n => serverLocks'[k] = serverLocks[k],
                serverLockCount <= serverLockCount'
         PROVE  ClientInv' /\ \A u \in Threads : StillWaits(u)
    <2>1. Counting /\ CleanConds(serverConds', serverCondCount')
      BY <1>4, <1>10, CountTypes DEF Counting, ClientInv
    <2>2. \A k \in Machines : KeepsLocks(k)
      BY <1>3, <1>10 DEF KeepsLocks
    <2>3. AnswersOnly(t, x)
      <3>1. /\ requests'[m] = <<>> /\ inbox'[m] = Append(<<>>, x)
            /\ \A k \in Machines : k # m => requests'[k] = requests[k] /\ inbox'[k] = inbox[k]
        BY <1>0, <1>2, <1>10 DEF TypeOK, Mailed
      <3>2. inbox'[m] = <<x>>
        BY <3>1
      <3> QED BY <1>2, <1>4, <1>10, <2>2, <3>1, <3>2 DEF AnswersOnly
    <2>4. /\ call[t].op = "CreateLock" => \E k \in 0 .. serverLockCount' - 1 : x = Index(k)
          /\ call[t].op = "CreateCondition" => \E k \in 0 .. serverCondCount' - 1 : x = Index(k)
      BY <1>2, <1>10
    <2> QED BY <1>0, <1>2, <1>4, <1>10, <2>1, <2>3, <2>4, AnswerMoves
  <1>11. CASE /\ serverLocks' = serverLocks /\ serverLockCount' = n
              /\ \E i \in 0 .. n - 1 : Mailed(m, Index(i))
    <2>1. PICK i \in 0 .. n - 1 : Mailed(m, Index(i))
      BY <1>11
    <2>2. Index(i) \in Reply
      BY <1>3, ReplyType DEF LockIds, LockServerAssumption
    <2>3. CleanLocks(serverLocks', serverLockCount') /\ serverLockCount <= serverLockCount'
      BY <1>3, <1>5, <1>11 DEF ClientInv
    <2> QED BY <1>10, <1>11, <2>1, <2>2, <2>3
  <1>12. CASE /\ Replaces(serverLocks', serverLocks, n, new) /\ serverLockCount' = n + 1
              /\ Mailed(m, Index(n))
    <2>1. Index(n) \in Reply
      BY ReplyType
    <2>2. e \in Lock /\ CleanLock(n, e, n) /\ CleanLocks(serverLocks, n)
      BY <1>0, <1>3, <1>7 DEF ClientInv, CleanLocks, TypeOK
    <2>3. /\ new.name = name /\ new.waitQueue = e.waitQueue
          /\ new.isDeleted = FALSE /\ new.deleteFlag = FALSE
      BY <1>8, <2>2 DEF Lock
    <2>4. CleanLocks(serverLocks', n + 1)
      <3>1. CleanLock(n, new, n + 1)
        BY <2>2, <2>3 DEF CleanLock
      <3>2. \A k \in LockIds : k # n => CleanLock(k, serverLocks[k], n + 1)
        BY <1>5, <2>2 DEF CleanLocks, CleanLock
      <3>3. \A k \in LockIds : serverLocks'[k] = IF k = n THEN new ELSE serverLocks[k]
        BY <1>0, <1>12 DEF Replaces, TypeOK
      <3> QED BY <3>1, <3>2, <3>3 DEF CleanLocks
    <2>5. \A k : QueuesOf(serverLocks', k) = QueuesOf(serverLocks, k)
      <3>1. Queued(new.waitQueue) = Queued(serverLocks[n].waitQueue)
        BY <1>7, <2>3
      <3> QED BY ONLY <1>12, <3>1, SameQueues
    <2>6. \A k \in LockIds : k < n => serverLocks'[k] = serverLocks[k]
      <3>1. \A k \in LockIds : k < n => k # n /\ k \in DOMAIN serverLocks
        BY <1>0, <1>5 DEF TypeOK
      <3> QED BY <1>12, <3>1 DEF Replaces
    <2> QED BY <1>3, <1>5, <1>10, <1>12, <2>1, <2>4, <2>5, <2>6
  <1> QED BY <1>9, <1>11, <1>12

LEMMA CreateConditionMoves ==
    ASSUME LockServerAssumption, CarefulClients, ClientInv, NEW m \in Machines, CreateCondition_server(m)
    PROVE  ClientInv' /\ \A t \in Threads : StillWaits(t)
  <1>0. [Next]_vars /\ TypeOK /\ TypeOK'
    BY Zenon, HandlerIsStep DEF Server
  <1>1. Taken(m, "CreateCondition") /\ UNCHANGED <<lockVars, broadcast, serverUp>>
    BY DEF CreateCondition_server
  <1>2. PICK t \in Threads :
              /\ machineOf[t] = m
              /\ call[t] \in Request /\ call[t].op = "CreateCondition" /\ Head(requests[m]) = call[t]
              /\ requests[m] = <<call[t]>> /\ requests' = [requests EXCEPT ![m] = <<>>]
              /\ inbox[m] = <<>>
              /\ QueuesOf(serverLocks, m) = {} /\ QueuesOf(serverConds, m) = {}
              /\ \A u \in Threads : machineOf[u] = m => u = t
    BY <1>1, Served
  <1>3. PICK n \in CondIds : n = serverCondCount /\ n < MAX_COND_COUNT
    BY <1>0, NeverFull DEF LockServerAssumption, TypeOK, CondIds
  <1>4. /\ serverLocks' = serverLocks /\ serverLockCount' = serverLockCount
        /\ UNCHANGED <<call, held, knownLocks, knownConds, broadcast>>
    BY <1>1, TakenLeavesClients DEF lockVars
  <1>5. /\ n \in Nat /\ MAX_COND_COUNT \in Nat /\ ~(n >= MAX_COND_COUNT)
        /\ n \in 0 .. (n + 1) - 1 /\ n <= n + 1 /\ ~(n < n)
        /\ \A i \in CondIds : i < n => i \in 0 .. n - 1
        /\ \A i \in CondIds : i < n + 1 => i = n \/ i < n
        /\ \A i \in CondIds : i < n => i < n + 1
    BY <1>0, <1>3 DEF LockServerAssumption, CondIds
  <1>6. PICK name \in CondNames : name = call[t].name
    BY <1>2, RequestArguments
  <1>7. PICK e : e = serverConds[n]
    OBVIOUS
  <1>8. PICK new : new = [e EXCEPT !.name = name, !.deleteFlag = FALSE, !.isDeleted = FALSE,
                                   !.waitingLockIndex = -1]
    OBVIOUS
  <1>9. \/ /\ serverConds' = serverConds /\ serverCondCount' = n
           /\ \E i \in 0 .. n - 1 : Mailed(m, Index(i))
        \/ /\ Replaces(serverConds', serverConds, n, new) /\ serverCondCount' = n + 1
           /\ Mailed(m, Index(n))
    <2> DEFINE same == {i \in CondIds : /\ i < serverCondCount
                                        /\ serverConds[i].name = name
                                        /\ ~serverConds[i].isDeleted}
    <2>1. ASSUME NEW i \in same PROVE i \in 0 .. n - 1
      BY <1>3, <1>5
    <2>2. ASSUME serverConds' = [serverConds EXCEPT ![serverCondCount] =
                    [@ EXCEPT !.name = name, !.deleteFlag = FALSE, !.isDeleted = FALSE,
                              !.waitingLockIndex = -1]]
          PROVE  Replaces(serverConds', serverConds, n, new)
      <3>1. DOMAIN serverConds = CondIds
        BY <1>0 DEF TypeOK
      <3>2. serverConds' = [serverConds EXCEPT ![n] = new]
        BY <1>3, <1>7, <1>8, <2>2
      <3> QED BY <3>1, <3>2 DEF Replaces
    <2>3. \/ /\ \E i \in same : Mailed(m, Index(i))
             /\ serverConds' = serverConds /\ serverCondCount' = serverCondCount
          \/ /\ serverConds' = [serverConds EXCEPT ![serverCondCount] =
                    [@ EXCEPT !.name = name, !.deleteFlag = FALSE, !.isDeleted = FALSE,
                              !.waitingLockIndex = -1]]
             /\ serverCondCount' = serverCondCount + 1
             /\ Mailed(m, Index(serverCondCount))
      BY <1>2, <1>3, <1>5, <1>6 DEF CreateCondition_server, condVars
    <2> HIDE DEF same
    <2> QED BY <1>3, <2>1, <2>2, <2>3
  <1>10. ASSUME NEW x \in Reply, NEW i \in 0 .. serverCondCount' - 1, x = Index(i), Mailed(m, x),
                \A k : QueuesOf(serverConds', k) = QueuesOf(serverConds, k),
                CleanConds(serverConds', serverCondCount'),
                serverCondCount <= serverCondCount'
         PROVE  ClientInv' /\ \A u \in Threads : StillWaits(u)
    <2>1. Counting /\ CleanLocks(serverLocks', serverLockCount')
      BY <1>4, <1>10, CountTypes DEF Counting, ClientInv
    <2>2. \A k \in Machines : KeepsLocks(k)
      BY <1>4 DEF KeepsLocks
    <2>3. AnswersOnly(t, x)
      <3>1. /\ requests'[m] = <<>> /\ inbox'[m] = Append(<<>>, x)
            /\ \A k \in Machines : k # m => requests'[k] = requests[k] /\ inbox'[k] = inbox[k]
        BY <1>0, <1>2, <1>10 DEF TypeOK, Mailed
      <3>2. inbox'[m] = <<x>>
        BY <3>1
      <3> QED BY <1>2, <1>4, <1>10, <2>2, <3>1, <3>2 DEF AnswersOnly
    <2>4. /\ call[t].op = "CreateLock" => \E k \in 0 .. serverLockCount' - 1 : x = Index(k)
          /\ call[t].op = "CreateCondition" => \E k \in 0 .. serverCondCount' - 1 : x = Index(k)
      BY <1>2, <1>10
    <2> QED BY <1>0, <1>2, <1>4, <1>10, <2>1, <2>3, <2>4, AnswerMoves
  <1>11. CASE /\ serverConds' = serverConds /\ serverCondCount' = n
              /\ \E i \in 0 .. n - 1 : Mailed(m, Index(i))
    <2>1. PICK i \in 0 .. n - 1 : Mailed(m, Index(i))
      BY <1>11
    <2>2. Index(i) \in Reply
      BY <1>3, ReplyType DEF CondIds, LockServerAssumption
    <2>3. CleanConds(serverConds', serverCondCount') /\ serverCondCount <= serverCondCount'
      BY <1>3, <1>5, <1>11 DEF ClientInv
    <2> QED BY <1>10, <1>11, <2>1, <2>2, <2>3
  <1>12. CASE /\ Replaces(serverConds', serverConds, n, new) /\ serverCondCount' = n + 1
              /\ Mailed(m, Index(n))
    <2>1. Index(n) \in Reply
      BY ReplyType
    <2>2. e \in Cond /\ CleanCond(n, e, n) /\ CleanConds(serverConds, n)
      BY <1>0, <1>3, <1>7 DEF ClientInv, CleanConds, TypeOK
    <2>3. /\ new.name = name /\ new.waitQueue = e.waitQueue
          /\ new.isDeleted = FALSE /\ new.deleteFlag = FALSE
          /\ new.hasWaitingLock = e.hasWaitingLock
      BY <1>8, <2>2 DEF Cond
    <2>4. CleanConds(serverConds', n + 1)
      <3>1. CleanCond(n, new, n + 1)
        BY <1>5, <2>2, <2>3 DEF CleanCond
      <3>2. \A k \in CondIds : k # n => CleanCond(k, serverConds[k], n + 1)
        BY <1>5, <2>2 DEF CleanConds, CleanCond
      <3>3. \A k \in CondIds : serverConds'[k] = IF k = n THEN new ELSE serverConds[k]
        BY <1>0, <1>12 DEF Replaces, TypeOK
      <3> QED BY <3>1, <3>2, <3>3 DEF CleanConds
    <2>5. \A k : QueuesOf(serverConds', k) = QueuesOf(serverConds, k)
      <3>1. Queued(new.waitQueue) = Queued(serverConds[n].waitQueue)
        BY <1>7, <2>3
      <3> QED BY ONLY <1>12, <3>1, SameQueues
    <2> QED BY <1>3, <1>5, <1>10, <1>12, <2>1, <2>4, <2>5
  <1> QED BY <1>9, <1>11, <1>12

\* The calls careful clients never make are never served.
LEMMA ServerMoves ==
    ASSUME LockServerAssumption, CarefulClients, ClientInv, NEW m \in Machines, Server(m)
    PROVE  /\ ClientInv'
           /\ UNCHANGED <<call, held>>
           /\ \/ \A t \in Threads : StillWaits(t)
              \/ \E u \in Threads, c \in CondIds : Notified(u, c)
  <1>1. UNCHANGED <<call, held>>
    <2>1. \E op : Taken(m, op)
      BY Zenon DEF Server, CreateLock_server, Acquire_server, Release_server, DestroyLock_server,
             CreateCondition_server, Wait_server, Signal_server, Broadcast_server,
             DestroyCondition_server
    <2> QED BY Zenon, <2>1, TakenLeavesClients
  <1>2. ~DestroyLock_server(m) /\ ~Broadcast_server(m) /\ ~DestroyCondition_server(m)
    <2>1. \A op : Taken(m, op) => op \in MonitorCalls
      BY Served
    <2>2. "DestroyLock" \notin MonitorCalls /\ "Broadcast" \notin MonitorCalls
          /\ "DestroyCondition" \notin MonitorCalls
      BY DEF MonitorCalls
    <2> QED BY <2>1, <2>2 DEF DestroyLock_server, Broadcast_server, DestroyCondition_server
  <1>3. CASE CreateLock_server(m) BY <1>1, <1>3, CreateLockMoves
  <1>4. CASE Acquire_server(m) BY <1>1, <1>4, AcquireMoves
  <1>5. CASE Release_server(m) BY <1>1, <1>5, ReleaseMoves
  <1>6. CASE CreateCondition_server(m) BY <1>1, <1>6, CreateConditionMoves
  <1>7. CASE Wait_server(m) BY <1>1, <1>7, WaitMoves
  <1>8. CASE Signal_server(m) BY <1>1, <1>8, SignalMoves
  <1> QED BY <1>2, <1>3, <1>4, <1>5, <1>6, <1>7, <1>8 DEF Server

-----------------------------------------------------------------------------
(* The clients' own steps *)

\* Only what belongs to client t changes.
OnlyClient(t) ==
    /\ \A u \in Threads \ {t} : /\ call'[u] = call[u] /\ held'[u] = held[u]
                                /\ knownLocks'[u] = knownLocks[u] /\ knownConds'[u] = knownConds[u]
    /\ \A n \in Machines : n # machineOf[t] => requests'[n] = requests[n] /\ inbox'[n] = inbox[n]
    /\ UNCHANGED <<serverLocks, serverLockCount, serverConds, serverCondCount, broadcast>>

LEMMA ClientStep ==
    ASSUME LockServerAssumption, CarefulClients, ClientInv, [Next]_vars,
           NEW t \in Threads, OnlyClient(t), ClientOK(t)'
    PROVE  ClientInv' /\ \A u \in Threads \ {t} : StillWaits(u)
  <1>1. /\ TableInv' /\ LiveNamesUnique' /\ TypeOK /\ TypeOK'
    BY StepTable, LiveStaysUnique DEF ClientInv, TableInv
  <1>2. /\ serverLocks' = serverLocks /\ serverLockCount' = serverLockCount
        /\ serverConds' = serverConds /\ serverCondCount' = serverCondCount
        /\ broadcast' = broadcast
    BY DEF OnlyClient
  <1>3. Counting /\ \A n \in Machines : KeepsLocks(n)
    BY <1>2, CountTypes DEF Counting, KeepsLocks, ClientInv
  <1>4. \A n \in Machines : n # machineOf[t] => Untouched(n)
    BY <1>2 DEF OnlyClient, Untouched
  <1>5. \A u \in Threads \ {t} : machineOf[u] \in Machines /\ machineOf[u] # machineOf[t]
    BY DEF CarefulClients, LockServerAssumption
  <1>6. ASSUME NEW u \in Threads \ {t} PROVE ClientOK(u)' /\ StillWaits(u)
    <2> PICK m \in Machines : m = machineOf[u]
      BY <1>5
    <2>1. /\ call'[u] = call[u] /\ held'[u] = held[u]
          /\ knownLocks'[u] = knownLocks[u] /\ knownConds'[u] = knownConds[u]
          /\ Untouched(m) /\ KeepsLocks(m)
      BY <1>3, <1>4, <1>5 DEF OnlyClient
    <2> QED BY <1>1, <1>3, <2>1, Stays, UntouchedWaits
  <1>7. ASSUME NEW n \in Machines, \A u \in Threads : machineOf[u] # n
        PROVE  Silent(n)'
    <2>1. Untouched(n) /\ Silent(n)
      BY <1>4, <1>7 DEF ClientInv
    <2> QED BY <2>1 DEF Silent, Untouched
  <1>8. CleanLocks(serverLocks', serverLockCount') /\ CleanConds(serverConds', serverCondCount')
    BY <1>2 DEF ClientInv
  <1>9. ASSUME NEW u \in Threads PROVE ClientOK(u)'
    BY <1>6
  <1> QED BY <1>1, <1>2, <1>6, <1>7, <1>8, <1>9 DEF ClientInv

LEMMA IdleIsNoRequest == Idle \notin Request /\ Idle.op = "Idle"
  <1>1. Idle.op = "Idle"
    BY DEF Idle
  <1>2. \A r \in Request : r.op # "Idle"
    BY DEF Request, LockOps, CondOps
  <1> QED BY <1>1, <1>2

\* What the discipline asks of each call.
LEMMA Discipline ==
    ASSUME NEW t, NEW r, Disciplined(t, r)
    PROVE  /\ r.op = "Acquire" => r.lock \in knownLocks[t] \ held[t]
           /\ r.op = "Release" => r.lock \in held[t]
           /\ r.op \in {"Wait", "Signal"} => /\ r.cond \in knownConds[t]
                                             /\ r.lock = lockFor[r.cond]
                                             /\ r.lock \in held[t]
  <1>1. ASSUME r.op = "Acquire" PROVE r.lock \in knownLocks[t] \ held[t]
    BY <1>1, Zenon DEF Disciplined, CondOps
  <1>2. ASSUME r.op = "Release" PROVE r.lock \in held[t]
    BY <1>2, Zenon DEF Disciplined, CondOps
  <1>3. ASSUME r.op \in {"Wait", "Signal"}
        PROVE  r.cond \in knownConds[t] /\ r.lock = lockFor[r.cond] /\ r.lock \in held[t]
    BY <1>3, Zenon DEF Disciplined, CondOps
  <1> QED BY <1>1, <1>2, <1>3

LEMMA SendMoves ==
    ASSUME LockServerAssumption, CarefulClients, ClientInv, NEW t \in Threads, NEW r \in Request,
           Send(t, r)
    PROVE  /\ ClientInv' /\ OnlyClient(t)
           /\ call[t] = Idle /\ call'[t] = r /\ requests'[machineOf[t]] # <<>>
           /\ held'[t] = IF r.op \in {"Release", "Wait"} THEN held[t] \ {r.lock} ELSE held[t]
           /\ r.op = "Acquire" => r.lock \notin held[t]
           /\ r.op \in {"Release", "Wait"} => r.lock \in held[t]
           /\ r.op = "Wait" => r.lock = lockFor[r.cond]
           /\ \A u \in Threads \ {t} : StillWaits(u)
  <1> PICK m \in Machines : m = machineOf[t]
    BY DEF LockServerAssumption
  <1>0. [Next]_vars /\ TypeOK
    BY DEF Next, ClientNext, ClientInv, TableInv
  <1>1. /\ call[t] = Idle /\ r.op \in MonitorCalls /\ Disciplined(t, r)
        /\ call' = [call EXCEPT ![t] = r]
        /\ requests' = [requests EXCEPT ![m] = Append(@, r)]
        /\ held' = [held EXCEPT ![t] = IF r.op \in {"Release", "Wait"} THEN @ \ {r.lock} ELSE @]
        /\ UNCHANGED <<knownLocks, knownConds, inbox, serverLocks, serverLockCount, serverConds,
                       serverCondCount, broadcast>>
    BY DEF Send, CarefulClients, lockVars, condVars
  <1>2. /\ call'[t] = r /\ \A u \in Threads \ {t} : call'[u] = call[u] /\ held'[u] = held[u]
        /\ held'[t] = IF r.op \in {"Release", "Wait"} THEN held[t] \ {r.lock} ELSE held[t]
        /\ requests'[m] = Append(requests[m], r)
        /\ \A n \in Machines : n # m => requests'[n] = requests[n]
    BY <1>0, <1>1 DEF TypeOK
  <1>3. OnlyClient(t)
    BY <1>1, <1>2 DEF OnlyClient
  <1>4. ClientOK(t) /\ call[t] \notin Request
    BY <1>1, IdleIsNoRequest DEF ClientInv
  <1>5. requests[m] = <<>> /\ inbox[m] = <<>> /\ QueuesOf(serverLocks, m) = {} /\ QueuesOf(serverConds, m) = {}
    BY <1>4 DEF ClientOK, Placed
  <1>6. requests'[m] = <<r>> /\ requests'[m] # <<>>
    <2>1. requests'[m] = Append(<<>>, r)
      BY <1>2, <1>5
    <2> QED BY <2>1
  <1>7. /\ r.op = "Acquire" => r.lock \in knownLocks[t] \ held[t]
        /\ r.op = "Release" => r.lock \in held[t]
        /\ r.op \in {"Wait", "Signal"} => /\ r.cond \in knownConds[t]
                                          /\ r.lock = lockFor[r.cond]
                                          /\ r.lock \in held[t]
    BY <1>1, Discipline
  <1>8. ClientOK(t)'
    <2>1. Placed(r, <<r>>, <<>>, {}, {}, serverLockCount', serverCondCount')
      BY DEF Placed
    <2>2. Knows(r, held'[t], knownLocks[t], knownConds[t], serverLockCount', serverCondCount')
      <3>1. /\ knownLocks[t] \subseteq 0 .. serverLockCount - 1
            /\ knownConds[t] \subseteq 0 .. serverCondCount - 1
            /\ held[t] \subseteq knownLocks[t]
        BY <1>4 DEF ClientOK, Knows
      <3>2. serverLockCount' = serverLockCount /\ serverCondCount' = serverCondCount
        BY <1>1
      <3> QED BY <1>1, <1>2, <1>7, <3>1, <3>2 DEF Knows
    <2>3. \A l \in Claims(r, held'[t], <<r>>, <<>>) : serverLocks'[l].lockOwner = m
      <3>1. Claims(r, held'[t], <<r>>, <<>>) \subseteq held[t]
        BY <1>2, <1>7 DEF Claims
      <3> QED BY <1>1, <3>1, Standing
    <2>4. inbox'[m] = <<>> /\ QueuesOf(serverLocks', m) = {} /\ QueuesOf(serverConds', m) = {}
      BY <1>1, <1>5
    <2>5. knownLocks'[t] = knownLocks[t] /\ knownConds'[t] = knownConds[t]
      BY <1>1
    <2> QED BY <1>2, <1>6, <2>1, <2>2, <2>3, <2>4, <2>5 DEF ClientOK
  <1> QED BY <1>0, <1>1, <1>2, <1>3, <1>6, <1>7, <1>8, ClientStep

LEMMA ReceiveMoves ==
    ASSUME LockServerAssumption, CarefulClients, ClientInv, NEW t \in Threads, Receive(t)
    PROVE  /\ ClientInv' /\ OnlyClient(t)
           /\ call[t] \in Request /\ call'[t] = Idle
           /\ requests[machineOf[t]] = <<>> /\ QueuesOf(serverConds, machineOf[t]) = {}
           /\ held'[t] = IF call[t].op \in {"Acquire", "Wait"} THEN held[t] \cup {call[t].lock}
                                                              ELSE held[t]
           /\ call[t].op \in {"Acquire", "Wait"} =>
                /\ call[t].lock \in LockIds /\ call[t].lock \notin held[t]
                /\ serverLocks[call[t].lock].lockOwner = machineOf[t]
           /\ \A u \in Threads \ {t} : StillWaits(u)
  <1> PICK m \in Machines : m = machineOf[t]
    BY DEF LockServerAssumption
  <1> PICK c : c = call[t]
    OBVIOUS
  <1>0. [Next]_vars /\ TypeOK
    BY DEF Next, ClientNext, ClientInv, TableInv
  <1>1. /\ c \notin {Idle, Halted} /\ inbox[m] # <<>> /\ inbox' = [inbox EXCEPT ![m] = Tail(@)]
        /\ UNCHANGED <<requests, serverLocks, serverLockCount, serverConds, serverCondCount, broadcast>>
    BY DEF Receive, lockVars, condVars
  <1>2. ClientOK(t)
    BY DEF ClientInv
  <1>3. /\ c \in Request
        /\ requests[m] = <<>> /\ QueuesOf(serverLocks, m) = {} /\ QueuesOf(serverConds, m) = {}
        /\ \E x \in Reply :
              /\ inbox[m] = <<x>>
              /\ c.op = "CreateLock" => \E i \in 0 .. serverLockCount - 1 : x = Index(i)
              /\ c.op = "CreateCondition" => \E i \in 0 .. serverCondCount - 1 : x = Index(i)
    BY <1>1, <1>2 DEF ClientOK, Placed
  <1>4. PICK x \in Reply :
              /\ inbox[m] = <<x>>
              /\ c.op = "CreateLock" => \E i \in 0 .. serverLockCount - 1 : x = Index(i)
              /\ c.op = "CreateCondition" => \E i \in 0 .. serverCondCount - 1 : x = Index(i)
    BY <1>3
  <1>5. Head(inbox[m]) = x /\ Tail(inbox[m]) = <<>>
    BY <1>4
  <1>6. /\ inbox'[m] = <<>>
        /\ \A n \in Machines : n # m => inbox'[n] = inbox[n]
    BY <1>0, <1>1, <1>5 DEF TypeOK
  <1>7. /\ \A j \in ParsedIndex(x) : c.op = "CreateLock" => j \in 0 .. serverLockCount - 1
        /\ \A j \in ParsedIndex(x) : c.op = "CreateCondition" => j \in 0 .. serverCondCount - 1
    BY <1>4 DEF ParsedIndex, Index
  <1>8. /\ c.op = "CreateLock" => -1 \notin ParsedIndex(x)
        /\ c.op = "CreateCondition" => -1 \notin ParsedIndex(x)
    <2>1. -1 \notin 0 .. serverLockCount - 1 /\ -1 \notin 0 .. serverCondCount - 1
      BY CountTypes DEF ClientInv
    <2> QED BY <1>7, <2>1
  <1>9. /\ call' = [call EXCEPT ![t] = Idle]
        /\ held' = IF c.op \in {"Acquire", "Wait"} THEN [held EXCEPT ![t] = @ \cup {c.lock}] ELSE held
        /\ \/ UNCHANGED <<knownLocks, knownConds>>
           \/ /\ \E i \in 0 .. serverLockCount - 1 : knownLocks' = [knownLocks EXCEPT ![t] = @ \cup {i}]
              /\ UNCHANGED knownConds
           \/ /\ \E i \in 0 .. serverCondCount - 1 : knownConds' = [knownConds EXCEPT ![t] = @ \cup {i}]
              /\ UNCHANGED knownLocks
    BY <1>1, <1>5, <1>7, <1>8 DEF Receive, Kept, CarefulClients
  <1>10. /\ call'[t] = Idle /\ \A u \in Threads \ {t} : call'[u] = call[u] /\ held'[u] = held[u]
         /\ held'[t] = IF c.op \in {"Acquire", "Wait"} THEN held[t] \cup {c.lock} ELSE held[t]
    BY <1>0, <1>9 DEF TypeOK
  <1>11. /\ \A u \in Threads \ {t} : knownLocks'[u] = knownLocks[u] /\ knownConds'[u] = knownConds[u]
         /\ knownLocks[t] \subseteq knownLocks'[t] /\ knownConds[t] \subseteq knownConds'[t]
         /\ \A i \in knownLocks'[t] : i \in knownLocks[t] \/ i \in 0 .. serverLockCount - 1
         /\ \A i \in knownConds'[t] : i \in knownConds[t] \/ i \in 0 .. serverCondCount - 1
    BY <1>0, <1>9 DEF TypeOK
  <1>12. OnlyClient(t)
    BY <1>1, <1>6, <1>10, <1>11 DEF OnlyClient
  <1>13. c.op \in {"Acquire", "Wait"} => /\ c.lock \in LockIds /\ c.lock \in knownLocks[t] \ held[t]
                                         /\ serverLocks[c.lock].lockOwner = m
    <2>1. ASSUME c.op \in {"Acquire", "Wait"}
          PROVE  c.lock \in LockIds /\ c.lock \in Claims(c, held[t], requests[m], inbox[m])
      BY <1>1, <1>3, <2>1, Standing DEF Claims
    <2>2. c.op \in {"Acquire", "Wait"} => c.lock \in knownLocks[t] \ held[t]
      BY <1>2, <1>3 DEF ClientOK, Knows
    <2> QED BY <1>2, <2>1, <2>2 DEF ClientOK
  <1>14. ClientOK(t)'
    <2>1. Placed(Idle, <<>>, <<>>, {}, {}, serverLockCount', serverCondCount')
      BY DEF Placed
    <2>2. Knows(Idle, held'[t], knownLocks'[t], knownConds'[t], serverLockCount', serverCondCount')
      <3>1. /\ knownLocks[t] \subseteq 0 .. serverLockCount - 1
            /\ knownConds[t] \subseteq 0 .. serverCondCount - 1
            /\ held[t] \subseteq knownLocks[t]
        BY <1>2 DEF ClientOK, Knows
      <3>2. serverLockCount' = serverLockCount /\ serverCondCount' = serverCondCount
        BY <1>1
      <3> QED BY <1>10, <1>11, <1>13, <3>1, <3>2, IdleIsNoRequest DEF Knows
    <2>3. \A l \in Claims(Idle, held'[t], <<>>, <<>>) : serverLocks'[l].lockOwner = m
      <3>1. Claims(Idle, held'[t], <<>>, <<>>) = held'[t]
        BY IdleIsNoRequest DEF Claims
      <3> QED BY <1>1, <1>10, <1>13, <3>1, Standing
    <2>4. requests'[m] = <<>> /\ QueuesOf(serverLocks', m) = {} /\ QueuesOf(serverConds', m) = {}
      BY <1>1, <1>3
    <2> QED BY <1>6, <1>10, <2>1, <2>2, <2>3, <2>4 DEF ClientOK
  <1>15. ClientInv' /\ \A u \in Threads \ {t} : StillWaits(u)
    BY <1>0, <1>12, <1>14, ClientStep
  <1> QED BY <1>3, <1>10, <1>12, <1>13, <1>15

-----------------------------------------------------------------------------
(* The theorems of the clients *)

LEMMA InitClients ==
    ASSUME LockServerAssumption, Init
    PROVE  ClientInv
  <1>1. TableInv /\ LiveNamesUnique
    BY InitTable DEF Init, LiveNamesUnique
  <1>2. broadcast = NoLoop
    BY DEF Init
  <1>3. /\ \A l \in LockIds : serverLocks[l] = UnusedLock
        /\ \A c \in CondIds : serverConds[c] = UnusedCond
        /\ DOMAIN serverLocks = LockIds /\ DOMAIN serverConds = CondIds
        /\ serverLockCount = 0 /\ serverCondCount = 0
        /\ \A l \in LockIds \cup CondIds : ~(l < 0)
    BY DEF Init, LockIds, CondIds
  <1>4. /\ UnusedLock.waitQueue = <<>> /\ UnusedCond.waitQueue = <<>>
        /\ ~UnusedLock.isDeleted /\ ~UnusedLock.deleteFlag
        /\ ~UnusedCond.isDeleted /\ ~UnusedCond.deleteFlag /\ ~UnusedCond.hasWaitingLock
    BY DEF UnusedLock, UnusedCond
  <1>5. CleanLocks(serverLocks, serverLockCount) /\ CleanConds(serverConds, serverCondCount)
    BY <1>3, <1>4, EmptyQueue DEF CleanLocks, CleanConds, CleanLock, CleanCond
  <1>6. \A m : QueuesOf(serverLocks, m) = {} /\ QueuesOf(serverConds, m) = {}
    BY <1>3, <1>4, EmptyQueue DEF QueuesOf
  <1>7. ASSUME NEW t \in Threads PROVE ClientOK(t)
    <2> PICK m \in Machines : m = machineOf[t]
      BY DEF LockServerAssumption
    <2>1. /\ call[t] = Idle /\ held[t] = {} /\ knownLocks[t] = {} /\ knownConds[t] = {}
          /\ requests[m] = <<>> /\ inbox[m] = <<>>
      BY DEF Init
    <2>2. Placed(Idle, <<>>, <<>>, {}, {}, serverLockCount, serverCondCount)
      BY DEF Placed
    <2>3. Knows(Idle, {}, {}, {}, serverLockCount, serverCondCount)
      BY IdleIsNoRequest DEF Knows
    <2>4. Claims(Idle, {}, <<>>, <<>>) = {}
      BY IdleIsNoRequest DEF Claims
    <2> QED BY <1>6, <2>1, <2>2, <2>3, <2>4 DEF ClientOK
  <1>8. \A m \in Machines : Silent(m)
    BY <1>6 DEF Silent, Init
  <1> QED BY <1>1, <1>2, <1>5, <1>7, <1>8 DEF ClientInv

LEMMA ClientsStutter ==
    ASSUME ClientInv, UNCHANGED vars
    PROVE  ClientInv'
  BY DEF ClientInv, TableInv, TypeOK, LocksOK, LiveNamesUnique, ClientOK, Silent, QueuesOf,
         vars, clientVars, lockVars, condVars

LEMMA StepClients ==
    ASSUME LockServerAssumption, CarefulClients, ClientInv, [Next]_vars
    PROVE  ClientInv'
  <1>1. ASSUME NEW t \in Threads, Receive(t) PROVE ClientInv'
    BY <1>1, ReceiveMoves
  <1>2. ASSUME NEW t \in Threads, NEW r \in Request, Send(t, r) PROVE ClientInv'
    BY <1>2, SendMoves
  <1>3. ASSUME NEW m \in Machines, Server(m) PROVE ClientInv'
    BY <1>3, ServerMoves
  <1>4. ~BroadcastLoop
    BY DEF BroadcastLoop, ClientInv
  <1>5. CASE UNCHANGED vars BY <1>5, ClientsStutter
  <1> QED BY <1>1, <1>2, <1>3, <1>4, <1>5 DEF Next, ClientNext

\* A client that goes on from Acquire or Wait without looking at the answer is right.
THEOREM HoldersOwn == CarefulClients => (Spec => []HolderIsOwner)
  <1> SUFFICES ASSUME CarefulClients PROVE Spec => []HolderIsOwner
    OBVIOUS
  <1>1. Init => ClientInv
    BY InitClients, LockServerAssumption
  <1>2. ClientInv /\ [Next]_vars => ClientInv'
    BY StepClients, LockServerAssumption
  <1>3. ClientInv => HolderIsOwner
    BY Standing, LockServerAssumption DEF HolderIsOwner
  <1> QED BY <1>1, <1>2, <1>3, PTL DEF Spec

\* Two threads inside one lock would be on one machine.
THEOREM InsideAlone == CarefulClients => (Spec => []MutualExclusion)
  <1> SUFFICES ASSUME CarefulClients PROVE Spec => []MutualExclusion
    OBVIOUS
  <1>1. HolderIsOwner => MutualExclusion
    BY DEF HolderIsOwner, MutualExclusion, CarefulClients
  <1> QED BY <1>1, HoldersOwn, PTL

\* Who is in a queue once is in one place of it.
LEMMA OnePlace ==
    ASSUME NEW q, Once(q), NEW m
    PROVE  /\ m \notin Queued(q) => Positions(q, m) = {}
           /\ m \in Queued(q) => \E i : Positions(q, m) = {i}
  BY DEF Once, Queued, Positions

LEMMA LockPlacesCount ==
    ASSUME ClientInv, NEW m
    PROVE  /\ QueuesOf(serverLocks, m) = {} => LockPlaces(m) = {}
           /\ \A l : QueuesOf(serverLocks, m) = {l} => \E p : LockPlaces(m) = {p}
  <1>1. /\ DOMAIN serverLocks = LockIds
        /\ \A l \in LockIds : Once(serverLocks[l].waitQueue)
    BY DEF ClientInv, TableInv, TypeOK, CleanLocks, CleanLock
  <1>2. \A l \in LockIds : l \notin QueuesOf(serverLocks, m) =>
                              Positions(serverLocks[l].waitQueue, m) = {}
    BY <1>1, OnePlace DEF QueuesOf
  <1>3. ASSUME NEW l, QueuesOf(serverLocks, m) = {l}
        PROVE  \E p : LockPlaces(m) = {p}
    <2>1. l \in LockIds /\ m \in Queued(serverLocks[l].waitQueue)
      BY <1>1, <1>3 DEF QueuesOf
    <2>2. PICK i : Positions(serverLocks[l].waitQueue, m) = {i}
      BY <1>1, <2>1, OnePlace
    <2>3. \A k \in LockIds : k # l => Positions(serverLocks[k].waitQueue, m) = {}
      BY <1>2, <1>3
    <2>4. LockPlaces(m) = {<<l, i>>}
      BY <2>1, <2>2, <2>3 DEF LockPlaces
    <2> QED BY <2>4
  <1>4. QueuesOf(serverLocks, m) = {} => LockPlaces(m) = {}
    BY <1>2 DEF LockPlaces
  <1> QED BY <1>3, <1>4

LEMMA CondPlacesCount ==
    ASSUME ClientInv, NEW m
    PROVE  /\ QueuesOf(serverConds, m) = {} => CondPlaces(m) = {}
           /\ \A c : QueuesOf(serverConds, m) = {c} => \E p : CondPlaces(m) = {p}
  <1>1. /\ DOMAIN serverConds = CondIds
        /\ \A c \in CondIds : Once(serverConds[c].waitQueue)
    BY DEF ClientInv, TableInv, TypeOK, CleanConds, CleanCond
  <1>2. \A c \in CondIds : c \notin QueuesOf(serverConds, m) =>
                              Positions(serverConds[c].waitQueue, m) = {}
    BY <1>1, OnePlace DEF QueuesOf
  <1>3. ASSUME NEW c, QueuesOf(serverConds, m) = {c}
        PROVE  \E p : CondPlaces(m) = {p}
    <2>1. c \in CondIds /\ m \in Queued(serverConds[c].waitQueue)
      BY <1>1, <1>3 DEF QueuesOf
    <2>2. PICK i : Positions(serverConds[c].waitQueue, m) = {i}
      BY <1>1, <2>1, OnePlace
    <2>3. \A k \in CondIds : k # c => Positions(serverConds[k].waitQueue, m) = {}
      BY <1>2, <1>3
    <2>4. CondPlaces(m) = {<<c, i>>}
      BY <2>1, <2>2, <2>3 DEF CondPlaces
    <2> QED BY <2>4
  <1>4. QueuesOf(serverConds, m) = {} => CondPlaces(m) = {}
    BY <1>2 DEF CondPlaces
  <1> QED BY <1>3, <1>4

\* No call of a careful client is lost or answered twice.
THEOREM CallsAccounted == CarefulClients => (Spec => []EveryCallAccounted)
  <1> SUFFICES ASSUME CarefulClients PROVE Spec => []EveryCallAccounted
    OBVIOUS
  <1>1. Init => ClientInv
    BY InitClients, LockServerAssumption
  <1>2. ClientInv /\ [Next]_vars => ClientInv'
    BY StepClients, LockServerAssumption
  <1>3. ClientInv => EveryCallAccounted
    <2> SUFFICES ASSUME ClientInv, NEW t \in Threads, NEW m, m = machineOf[t]
                 PROVE  Len(requests[m]) + Len(inbox[m])
                            + Cardinality(LockPlaces(m)) + Cardinality(CondPlaces(m))
                        = IF call[t] \in {Idle, Halted} THEN 0 ELSE 1
      BY DEF EveryCallAccounted
    <2>1. \A x : Len(<<x>>) = 1
      OBVIOUS
    <2>2. Len(<<>>) = 0 /\ Cardinality({}) = 0 /\ \A x : Cardinality({x}) = 1
      BY FS_EmptySet, FS_Singleton, EmptySeq
    <2>3. \A r \in Request : r \notin {Idle, Halted}
      <3>1. Halted.op = "Halted" /\ \A r \in Request : r.op # "Halted"
        BY DEF Halted, Request, LockOps, CondOps
      <3> QED BY <3>1, IdleIsNoRequest
    <2>4. Placed(call[t], requests[m], inbox[m], QueuesOf(serverLocks, m), QueuesOf(serverConds, m),
                 serverLockCount, serverCondCount)
      BY DEF ClientInv, ClientOK
    <2>5. ASSUME QueuesOf(serverLocks, m) = {} PROVE Cardinality(LockPlaces(m)) = 0
      BY <2>2, <2>5, LockPlacesCount
    <2>6. ASSUME QueuesOf(serverConds, m) = {} PROVE Cardinality(CondPlaces(m)) = 0
      BY <2>2, <2>6, CondPlacesCount
    <2>7. ASSUME NEW l, QueuesOf(serverLocks, m) = {l} PROVE Cardinality(LockPlaces(m)) = 1
      BY <2>2, <2>7, LockPlacesCount
    <2>8. ASSUME NEW c, QueuesOf(serverConds, m) = {c} PROVE Cardinality(CondPlaces(m)) = 1
      BY <2>2, <2>8, CondPlacesCount
    <2>9. \/ /\ call[t] = Idle
             /\ Len(requests[m]) = 0 /\ Len(inbox[m]) = 0
             /\ Cardinality(LockPlaces(m)) = 0 /\ Cardinality(CondPlaces(m)) = 0
          \/ /\ call[t] \in Request
             /\ \/ /\ Len(requests[m]) = 1 /\ Len(inbox[m]) = 0
                   /\ Cardinality(LockPlaces(m)) = 0 /\ Cardinality(CondPlaces(m)) = 0
                \/ /\ Len(requests[m]) = 0 /\ Len(inbox[m]) = 0
                   /\ Cardinality(LockPlaces(m)) = 1 /\ Cardinality(CondPlaces(m)) = 0
                \/ /\ Len(requests[m]) = 0 /\ Len(inbox[m]) = 0
                   /\ Cardinality(LockPlaces(m)) = 0 /\ Cardinality(CondPlaces(m)) = 1
                \/ /\ Len(requests[m]) = 0 /\ Len(inbox[m]) = 1
                   /\ Cardinality(LockPlaces(m)) = 0 /\ Cardinality(CondPlaces(m)) = 0
      BY <2>1, <2>2, <2>4, <2>5, <2>6, <2>7, <2>8, Zenon DEF Placed
    <2>10. PICK a, b, c, d : /\ a = Len(requests[m]) /\ b = Len(inbox[m])
                             /\ c = Cardinality(LockPlaces(m)) /\ d = Cardinality(CondPlaces(m))
      OBVIOUS
    <2>11. \/ call[t] = Idle /\ a = 0 /\ b = 0 /\ c = 0 /\ d = 0
           \/ /\ call[t] \in Request
              /\ \/ a = 1 /\ b = 0 /\ c = 0 /\ d = 0
                 \/ a = 0 /\ b = 0 /\ c = 1 /\ d = 0
                 \/ a = 0 /\ b = 0 /\ c = 0 /\ d = 1
                 \/ a = 0 /\ b = 1 /\ c = 0 /\ d = 0
      BY ONLY <2>9, <2>10, Zenon
    <2>12. \/ call[t] = Idle /\ a + b + c + d = 0
           \/ call[t] \in Request /\ a + b + c + d = 1
      BY ONLY <2>11
    <2>13. a + b + c + d = IF call[t] \in {Idle, Halted} THEN 0 ELSE 1
      BY ONLY <2>3, <2>12, Zenon
    <2> QED BY ONLY <2>10, <2>13, Zenon
  <1> QED BY <1>1, <1>2, <1>3, PTL DEF Spec

-----------------------------------------------------------------------------
(* The server and its clients are a monitor: every step as the three views *)
(* of module MesaMonitor see it                                            *)

SameAsked(u) == \A l \in LockIds : AsksFor(u, l)' <=> AsksFor(u, l)
NotSeen(u) == held'[u] = held[u] /\ SameAsked(u) /\ StillWaits(u)

LEMMA NobodySeen ==
    ASSUME \A u \in Threads : NotSeen(u)
    PROVE  UNCHANGED Monitor!mmVars
  <1>1. inside' = inside
    BY DEF inside, NotSeen
  <1>2. entering' = entering
    BY DEF entering, NotSeen, SameAsked
  <1>3. waiting' = waiting
    BY DEF waiting, NotSeen, StillWaits
  <1> QED BY <1>1, <1>2, <1>3 DEF Monitor!mmVars

\* What a step of t leaves of each view, nobody else being seen to move.
LEMMA ViewsStay ==
    ASSUME NEW t \in Threads, \A u \in Threads \ {t} : NotSeen(u)
    PROVE  /\ held'[t] = held[t] => inside' = inside
           /\ SameAsked(t) => entering' = entering
           /\ StillWaits(t) => waiting' = waiting
           /\ \A l \in LockIds : (held'[t] = held[t] \cup {l}) =>
                 inside' = [inside EXCEPT ![l] = @ \cup {t}]
           /\ \A l \in LockIds : (held'[t] = held[t] \ {l}) =>
                 inside' = [inside EXCEPT ![l] = @ \ {t}]
           /\ \A l \in LockIds : (\A k \in LockIds : AsksFor(t, k)' <=> AsksFor(t, k) \/ k = l) =>
                 entering' = [entering EXCEPT ![l] = @ \cup {t}]
           /\ \A l \in LockIds : (\A k \in LockIds : AsksFor(t, k)' <=> AsksFor(t, k) /\ k # l) =>
                 entering' = [entering EXCEPT ![l] = @ \ {t}]
           /\ \A c \in CondIds : (\A d \in CondIds : WaitsOn(t, d)' <=> WaitsOn(t, d) \/ d = c) =>
                 waiting' = [waiting EXCEPT ![c] = @ \cup {t}]
           /\ \A c \in CondIds : (\A d \in CondIds : WaitsOn(t, d)' <=> WaitsOn(t, d) /\ d # c) =>
                 waiting' = [waiting EXCEPT ![c] = @ \ {t}]
  <1>1. held'[t] = held[t] => inside' = inside
    BY DEF inside, NotSeen
  <1>2. SameAsked(t) => entering' = entering
    BY DEF entering, NotSeen, SameAsked
  <1>3. StillWaits(t) => waiting' = waiting
    BY DEF waiting, NotSeen, StillWaits
  <1>4. ASSUME NEW l \in LockIds, held'[t] = held[t] \cup {l}
        PROVE  inside' = [inside EXCEPT ![l] = @ \cup {t}]
    BY <1>4 DEF inside, NotSeen
  <1>5. ASSUME NEW l \in LockIds, held'[t] = held[t] \ {l}
        PROVE  inside' = [inside EXCEPT ![l] = @ \ {t}]
    BY <1>5 DEF inside, NotSeen
  <1>6. ASSUME NEW l \in LockIds, \A k \in LockIds : AsksFor(t, k)' <=> (AsksFor(t, k) \/ k = l)
        PROVE  entering' = [entering EXCEPT ![l] = @ \cup {t}]
    BY <1>6 DEF entering, NotSeen, SameAsked
  <1>7. ASSUME NEW l \in LockIds, \A k \in LockIds : AsksFor(t, k)' <=> (AsksFor(t, k) /\ k # l)
        PROVE  entering' = [entering EXCEPT ![l] = @ \ {t}]
    BY <1>7 DEF entering, NotSeen, SameAsked
  <1>8. ASSUME NEW c \in CondIds, \A d \in CondIds : WaitsOn(t, d)' <=> (WaitsOn(t, d) \/ d = c)
        PROVE  waiting' = [waiting EXCEPT ![c] = @ \cup {t}]
    BY <1>8 DEF waiting, NotSeen, StillWaits
  <1>9. ASSUME NEW c \in CondIds, \A d \in CondIds : WaitsOn(t, d)' <=> (WaitsOn(t, d) /\ d # c)
        PROVE  waiting' = [waiting EXCEPT ![c] = @ \ {t}]
    BY <1>9 DEF waiting, NotSeen, StillWaits
  <1> QED BY <1>1, <1>2, <1>3, <1>4, <1>5, <1>6, <1>7, <1>8, <1>9

\* Who keeps its call and its place is not seen to move.
LEMMA Unseen ==
    ASSUME LockServerAssumption, ClientInv, NEW u \in Threads,
           call'[u] = call[u], held'[u] = held[u], StillWaits(u)
    PROVE  NotSeen(u)
  <1>1. call[u].op = "Wait" => call[u].cond \in CondIds
    <2>1. call[u] = Idle \/ call[u] \in Request
      BY DEF ClientInv, ClientOK, Placed
    <2> QED BY <2>1, Standing, IdleIsNoRequest
  <1>2. call[u].op = "Wait" => (WaitsOn(u, call[u].cond)' <=> WaitsOn(u, call[u].cond))
    BY <1>1 DEF StillWaits, WaitsOn
  <1>3. SameAsked(u)
    BY <1>2 DEF SameAsked, AsksFor
  <1> QED BY <1>3 DEF NotSeen

\* An idle client asks for nothing and waits for nothing.
LEMMA IdleUnseen ==
    ASSUME NEW t, call[t] = Idle
    PROVE  (\A l : ~AsksFor(t, l)) /\ (\A c : ~WaitsOn(t, c))
  BY IdleIsNoRequest DEF AsksFor, WaitsOn

LEMMA IdleUnseenNext ==
    ASSUME NEW t, call'[t] = Idle
    PROVE  (\A l : ~AsksFor(t, l)') /\ (\A c : ~WaitsOn(t, c)')
  BY IdleIsNoRequest DEF AsksFor, WaitsOn

LEMMA SendSteps ==
    ASSUME LockServerAssumption, CarefulClients, ClientInv, NEW t \in Threads, NEW r \in Request,
           Send(t, r)
    PROVE  [Monitor!MMNext]_(Monitor!mmVars)
  <1>1. /\ ClientInv' /\ OnlyClient(t)
        /\ call[t] = Idle /\ call'[t] = r /\ requests'[machineOf[t]] # <<>>
        /\ held'[t] = IF r.op \in {"Release", "Wait"} THEN held[t] \ {r.lock} ELSE held[t]
        /\ r.op = "Acquire" => r.lock \notin held[t]
        /\ r.op \in {"Release", "Wait"} => r.lock \in held[t]
        /\ r.op = "Wait" => r.lock = lockFor[r.cond]
        /\ \A u \in Threads \ {t} : StillWaits(u)
    BY SendMoves
  <1>2. \A u \in Threads \ {t} : NotSeen(u)
    BY <1>1, Unseen DEF OnlyClient
  <1>3. (\A l : ~AsksFor(t, l)) /\ (\A c : ~WaitsOn(t, c))
    BY <1>1, IdleUnseen
  <1>4. /\ r.op \in {"Acquire", "Release", "Wait"} => r.lock \in LockIds
        /\ r.op = "Wait" => r.cond \in CondIds
    BY RequestArguments DEF LockOps, CondOps
  <1>5. \A c : WaitsOn(t, c)' <=> (r.op = "Wait" /\ r.cond = c)
    BY <1>1 DEF WaitsOn
  <1>6. \A l : AsksFor(t, l)' <=> (r.op = "Acquire" /\ r.lock = l)
    BY <1>1, <1>5 DEF AsksFor
  <1>7. ~Monitor!Waits(t)
    BY <1>3 DEF Monitor!Waits, waiting
  <1>8. CASE r.op = "Acquire"
    <2>1. entering' = [entering EXCEPT ![r.lock] = @ \cup {t}]
      <3>1. \A k \in LockIds : AsksFor(t, k)' <=> (AsksFor(t, k) \/ k = r.lock)
        BY <1>3, <1>6, <1>8
      <3> QED BY <1>2, <1>4, <1>8, <3>1, ViewsStay
    <2>2. inside' = inside /\ waiting' = waiting
      BY <1>1, <1>2, <1>3, <1>5, <1>8, ViewsStay DEF StillWaits
    <2>3. t \notin inside[r.lock]
      BY <1>1, <1>4, <1>8 DEF inside
    <2>4. Monitor!Ask(t, r.lock)
      BY <1>7, <2>1, <2>2, <2>3 DEF Monitor!Ask
    <2> QED BY <1>4, <1>8, <2>4 DEF Monitor!MMNext
  <1>9. CASE r.op = "Release"
    <2>1. inside' = [inside EXCEPT ![r.lock] = @ \ {t}]
      BY <1>1, <1>2, <1>4, <1>9, ViewsStay
    <2>2. entering' = entering /\ waiting' = waiting
      BY <1>2, <1>3, <1>5, <1>6, <1>9, ViewsStay DEF StillWaits, SameAsked
    <2>3. t \in inside[r.lock]
      BY <1>1, <1>4, <1>9 DEF inside
    <2>4. Monitor!Leave(t, r.lock)
      BY <2>1, <2>2, <2>3 DEF Monitor!Leave
    <2> QED BY <1>4, <1>9, <2>4 DEF Monitor!MMNext
  <1>10. CASE r.op = "Wait"
    <2>1. inside' = [inside EXCEPT ![lockFor[r.cond]] = @ \ {t}]
      BY <1>1, <1>2, <1>4, <1>10, ViewsStay
    <2>2. waiting' = [waiting EXCEPT ![r.cond] = @ \cup {t}]
      <3>1. \A d \in CondIds : WaitsOn(t, d)' <=> (WaitsOn(t, d) \/ d = r.cond)
        BY <1>3, <1>5, <1>10
      <3> QED BY <1>2, <1>4, <1>10, <3>1, ViewsStay
    <2>3. entering' = entering
      BY <1>2, <1>3, <1>6, <1>10, ViewsStay DEF SameAsked
    <2>4. t \in inside[lockFor[r.cond]]
      BY <1>1, <1>4, <1>10 DEF inside
    <2>5. Monitor!WaitOn(t, r.cond)
      BY <2>1, <2>2, <2>3, <2>4 DEF Monitor!WaitOn
    <2> QED BY <1>4, <1>10, <2>5 DEF Monitor!MMNext
  <1>11. CASE r.op \notin {"Acquire", "Release", "Wait"}
    <2>1. NotSeen(t)
      BY <1>1, <1>3, <1>5, <1>6, <1>11 DEF NotSeen, SameAsked, StillWaits
    <2> QED BY <1>2, <2>1, NobodySeen
  <1> QED BY <1>8, <1>9, <1>10, <1>11

LEMMA ReceiveSteps ==
    ASSUME LockServerAssumption, CarefulClients, ClientInv, NEW t \in Threads, Receive(t)
    PROVE  [Monitor!MMNext]_(Monitor!mmVars)
  <1> PICK c, l : c = call[t] /\ l = c.lock
    OBVIOUS
  <1>0. TypeOK
    BY DEF ClientInv, TableInv
  <1>1. /\ ClientInv' /\ OnlyClient(t)
        /\ call[t] \in Request /\ call'[t] = Idle
        /\ requests[machineOf[t]] = <<>> /\ QueuesOf(serverConds, machineOf[t]) = {}
        /\ held'[t] = IF c.op \in {"Acquire", "Wait"} THEN held[t] \cup {l} ELSE held[t]
        /\ c.op \in {"Acquire", "Wait"} =>
             l \in LockIds /\ l \notin held[t] /\ serverLocks[l].lockOwner = machineOf[t]
        /\ \A u \in Threads \ {t} : StillWaits(u)
    BY ReceiveMoves
  <1>2. \A u \in Threads \ {t} : NotSeen(u)
    BY <1>1, Unseen DEF OnlyClient
  <1>3. (\A k : ~AsksFor(t, k)') /\ (\A d : ~WaitsOn(t, d)')
    BY <1>1, IdleUnseenNext
  <1>4. \A d \in CondIds : ~WaitsOn(t, d)
    BY <1>0, <1>1, WaitsMeans DEF WaitsAsPlaced
  <1>5. c.op = "Wait" => c.cond \in CondIds
    BY <1>1, Standing
  <1>6. \A k : AsksFor(t, k) <=> (c.op \in {"Acquire", "Wait"} /\ l = k)
    BY <1>4, <1>5 DEF AsksFor
  <1>7. ~Monitor!Waits(t)
    BY <1>4 DEF Monitor!Waits, waiting
  <1>8. waiting' = waiting
    BY <1>2, <1>3, <1>4, ViewsStay DEF StillWaits
  <1>9. CASE c.op \in {"Acquire", "Wait"}
    <2>1. inside[l] = {}
      <3>1. ASSUME NEW u \in Threads, l \in held[u] PROVE FALSE
        <4>1. machineOf[u] = machineOf[t]
          BY <1>1, <1>9, <3>1, Standing
        <4> QED BY <1>1, <1>9, <3>1, <4>1 DEF CarefulClients
      <3> QED BY <1>1, <1>9, <3>1 DEF inside
    <2>2. inside' = [inside EXCEPT ![l] = @ \cup {t}]
      BY <1>1, <1>2, <1>9, ViewsStay
    <2>3. inside' = [inside EXCEPT ![l] = {t}]
      BY <1>1, <1>9, <2>1, <2>2 DEF inside
    <2>4. entering' = [entering EXCEPT ![l] = @ \ {t}]
      <3>1. \A k \in LockIds : AsksFor(t, k)' <=> (AsksFor(t, k) /\ k # l)
        BY <1>3, <1>6, <1>9
      <3> QED BY <1>1, <1>2, <1>9, <3>1, ViewsStay
    <2>5. Monitor!Enter(t, l)
      BY <1>7, <1>8, <2>1, <2>3, <2>4 DEF Monitor!Enter
    <2> QED BY <1>1, <1>9, <2>5 DEF Monitor!MMNext
  <1>10. CASE c.op \notin {"Acquire", "Wait"}
    <2>1. NotSeen(t)
      BY <1>1, <1>3, <1>4, <1>6, <1>10 DEF NotSeen, SameAsked, StillWaits
    <2> QED BY <1>2, <2>1, NobodySeen
  <1> QED BY <1>9, <1>10

LEMMA ServerSteps ==
    ASSUME LockServerAssumption, CarefulClients, ClientInv, NEW m \in Machines, Server(m)
    PROVE  [Monitor!MMNext]_(Monitor!mmVars)
  <1>1. /\ call' = call /\ held' = held
        /\ \/ \A t \in Threads : StillWaits(t)
           \/ \E u \in Threads, c \in CondIds : Notified(u, c)
    BY ServerMoves
  <1>2. ASSUME NEW u \in Threads, StillWaits(u) PROVE NotSeen(u)
    BY <1>1, <1>2, Unseen
  <1>3. CASE \A t \in Threads : StillWaits(t)
    BY <1>2, <1>3, NobodySeen
  <1>4. ASSUME NEW u \in Threads, NEW c \in CondIds, Notified(u, c)
        PROVE  Monitor!MMNext
    <2>1. /\ WaitsOn(u, c) /\ ~WaitsOn(u, c)'
          /\ \A d \in CondIds \ {c} : ~WaitsOn(u, d) /\ ~WaitsOn(u, d)'
          /\ \A v \in Threads \ {u} : NotSeen(v)
          /\ call[u].lock = lockFor[c]
          /\ \E t \in Threads : lockFor[c] \in held[t]
      BY <1>2, <1>4 DEF Notified
    <2>2. lockFor[c] \in LockIds
      BY DEF LockServerAssumption
    <2>3. call[u].op = "Wait" /\ call[u].cond = c
      BY <2>1 DEF WaitsOn
    <2>4. \A k : AsksFor(u, k)' <=> (AsksFor(u, k) \/ k = lockFor[c])
      BY <1>1, <2>1, <2>3 DEF AsksFor
    <2>5. entering' = [entering EXCEPT ![lockFor[c]] = @ \cup {u}]
      BY <2>1, <2>2, <2>4, ViewsStay
    <2>6. waiting' = [waiting EXCEPT ![c] = @ \ {u}]
      <3>1. \A d \in CondIds : WaitsOn(u, d)' <=> (WaitsOn(u, d) /\ d # c)
        BY <2>1
      <3> QED BY <2>1, <3>1, ViewsStay
    <2>7. inside' = inside
      BY <1>1, <2>1, ViewsStay
    <2>8. u \in waiting[c] /\ inside[lockFor[c]] # {}
      BY <2>1, <2>2 DEF waiting, inside
    <2>9. Monitor!Notify(u, c)
      BY <2>5, <2>6, <2>7, <2>8 DEF Monitor!Notify
    <2> QED BY <2>9 DEF Monitor!MMNext
  <1> QED BY <1>1, <1>3, <1>4

LEMMA EveryStepIsMonitors ==
    ASSUME LockServerAssumption, CarefulClients, ClientInv, [Next]_vars
    PROVE  [Monitor!MMNext]_(Monitor!mmVars)
  <1>1. ASSUME NEW t \in Threads, Receive(t) PROVE [Monitor!MMNext]_(Monitor!mmVars)
    BY <1>1, ReceiveSteps
  <1>2. ASSUME NEW t \in Threads, NEW r \in Request, Send(t, r)
        PROVE  [Monitor!MMNext]_(Monitor!mmVars)
    BY <1>2, SendSteps
  <1>3. ASSUME NEW m \in Machines, Server(m) PROVE [Monitor!MMNext]_(Monitor!mmVars)
    BY <1>3, ServerSteps
  <1>4. ~BroadcastLoop
    BY DEF BroadcastLoop, ClientInv
  <1>5. CASE UNCHANGED vars
    <2>1. \A u \in Threads : NotSeen(u)
      BY <1>5 DEF NotSeen, SameAsked, StillWaits, AsksFor, WaitsOn, vars, clientVars, lockVars, condVars
    <2> QED BY <2>1, NobodySeen
  <1> QED BY <1>1, <1>2, <1>3, <1>4, <1>5 DEF Next, ClientNext

LEMMA InitIsMonitors == Init => Monitor!MMInit
  <1> SUFFICES ASSUME Init PROVE Monitor!MMInit
    OBVIOUS
  <1>1. \A t \in Threads : call[t] = Idle /\ held[t] = {}
    BY DEF Init
  <1>2. \A t \in Threads : (\A l : ~AsksFor(t, l)) /\ (\A c : ~WaitsOn(t, c))
    BY <1>1, IdleUnseen
  <1> QED BY <1>1, <1>2 DEF Monitor!MMInit, inside, entering, waiting

\* The lock server and careful clients implement a Mesa monitor: any number of them,
\* any delay of the mail, up to the moment the server may die and after it.
THEOREM ServerIsMonitor == CarefulClients => (Spec => ImplementsMonitor)
  <1> SUFFICES ASSUME CarefulClients PROVE Spec => ImplementsMonitor
    OBVIOUS
  <1>1. Init => ClientInv /\ Monitor!MMInit
    BY InitClients, InitIsMonitors, LockServerAssumption
  <1>2. ClientInv /\ [Next]_vars => ClientInv' /\ [Monitor!MMNext]_(Monitor!mmVars)
    BY StepClients, EveryStepIsMonitors, LockServerAssumption
  <1> QED BY <1>1, <1>2, PTL DEF Spec, ImplementsMonitor, Monitor!MMSpec
=============================================================================
