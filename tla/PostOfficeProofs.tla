--------------------------- MODULE PostOfficeProofs ---------------------------
(***************************************************************************)
(* Theorems about the post office (module PostOffice), for any number of   *)
(* machines, threads, boxes and letters, with or without loss and halts.   *)
(* Each rests on an invariant of its own:                                  *)
(*   Typed      a thread that is about to send has a letter, and one more  *)
(*              than it has handed to the device;                          *)
(*   OwnerSends sendLock belongs to the one thread of its machine that is  *)
(*              between Acquire and Release;                               *)
(*   Written    the letter a thread is about to send is its next.          *)
(* The mail of a box is read off the mail box, the worker's hand, the      *)
(* device's buffer and the socket, by FlattenSeq: what FlattenSeq computes *)
(* is proved first, by induction over the length of the sequence, with the *)
(* set of the lengths for which the fact holds.                            *)
(***************************************************************************)
EXTENDS PostOffice, SequenceTheorems, WellFoundedInduction, TLAPS

Typed ==
    /\ TypeOK
    /\ \A t \in Threads : pc[t] \in {"Acquire", "NetworkSend"} =>
                              letter[t] \in Packet /\ posted[t] < MaxLetters

Sends(t) == pc[t] \in {"NetworkSend", "P", "Release"}
OwnerSends ==
    /\ \A t \in Threads : Sends(t) => sendLock[machineOf[t]] = t
    /\ \A n \in Machines :
         sendLock[n] # NoThread => machineOf[sendLock[n]] = n /\ Sends(sendLock[n])

-----------------------------------------------------------------------------
(* Types *)

LEMMA TypesInit == Init => Typed
  BY PostOfficeAssumption DEF Init, NewPostOffice, NewNetwork, NewMailBoxes, TypeOK, Typed

LEMMA TypesSending ==
    ASSUME Typed, NEW t \in Threads, Sending(t)
    PROVE  Typed'
  <1> USE PostOfficeAssumption DEF Typed, TypeOK, sendVars, receiveVars
  <1>1. CASE AcquireSendLock(t)
    BY <1>1 DEF AcquireSendLock
  <1>2. CASE NetworkSend(t)
    <2> PICK p \in Packet : letter[t] = p
      BY <1>2 DEF NetworkSend
    <2>1. /\ pc' = [pc EXCEPT ![t] = "P"] /\ posted' = [posted EXCEPT ![t] = posted[t] + 1]
          /\ sendDue' = [sendDue EXCEPT ![machineOf[t]] = sendDue[machineOf[t]] + 1]
          /\ success' \in [Threads -> BOOLEAN]
          /\ UNCHANGED <<up, letter, sendLock, messageSent, receiveVars>>
          /\ posted[t] < MaxLetters
      BY <1>2 DEF NetworkSend
    <2>2. socket' \in [Machines -> Seq(Packet)]
      <3>1. p.to \in Machines
        BY DEF Packet
      <3>2. UNCHANGED socket \/ socket' = [socket EXCEPT ![p.to] = Append(socket[p.to], p)]
        BY <1>2 DEF NetworkSend
      <3>3. Append(socket[p.to], p) \in Seq(Packet)
        BY <3>1
      <3> QED BY <3>1, <3>2, <3>3
    <2>3. posted' \in [Threads -> 0 .. MaxLetters]
      BY <2>1
    <2>4. sendDue' \in [Machines -> Nat]
      BY <2>1
    <2>5. TypeOK'
      BY <2>1, <2>2, <2>3, <2>4
    <2> QED BY <2>1, <2>5
  <1>3. CASE AwaitSent(t)
    BY <1>3 DEF AwaitSent
  <1>4. CASE ReleaseSendLock(t)
    <2>1. UNCHANGED <<success, posted, messageSent, sendDue, socket, receiveVars>>
          /\ up' \in [Machines -> BOOLEAN]
          /\ pc' = [pc EXCEPT ![t] = "Run"] /\ letter' = [letter EXCEPT ![t] = NoPacket]
          /\ sendLock' = [sendLock EXCEPT ![machineOf[t]] = NoThread]
      BY <1>4 DEF ReleaseSendLock, ReleaseLock
    <2> QED BY <2>1
  <1> QED BY <1>1, <1>2, <1>3, <1>4 DEF Sending

LEMMA TypesSend ==
    ASSUME Typed, NEW t \in Threads, NEW n \in Machines, NEW b \in Boxes, Send(t, n, b)
    PROVE  Typed'
  <1> DEFINE p == [to |-> n, box |-> b, letter |-> [from |-> t, number |-> posted[t] + 1]]
  <1>1. p \in Packet
    BY PostOfficeAssumption DEF Typed, TypeOK, Send, Packet, Letter
  <1>2. /\ pc' = [pc EXCEPT ![t] = "Acquire"] /\ letter' = [letter EXCEPT ![t] = p]
        /\ posted[t] < MaxLetters
        /\ UNCHANGED <<up, success, posted, sendLock, messageSent, sendDue, socket, receiveVars>>
    BY DEF Send
  <1> HIDE DEF p
  <1> QED BY <1>1, <1>2 DEF Typed, TypeOK, receiveVars

LEMMA TypesMachine ==
    ASSUME Typed, NEW n \in Machines,
           \/ SendDone(n) \/ Delivering(n) \/ Halt(n)
           \/ \E b \in Boxes : Receive(n, b)
    PROVE  Typed'
  <1> USE DEF Typed, TypeOK, sendVars, receiveVars
  <1>1. CASE SendDone(n)
    BY <1>1 DEF SendDone
  <1>2. CASE CheckPktAvail(n)
    <2>1. socket[n] \in Seq(Packet) /\ socket[n] # <<>>
      BY <1>2 DEF CheckPktAvail
    <2>2. Head(socket[n]) \in Packet /\ Tail(socket[n]) \in Seq(Packet)
      BY <2>1
    <2> QED BY <1>2, <2>2 DEF CheckPktAvail, IncomingPacket
  <1>3. CASE WorkerP(n)
    BY <1>3 DEF WorkerP
  <1>4. CASE WorkerReceive(n)
    BY <1>4 DEF WorkerReceive
  <1>5. CASE WorkerPut(n)
    <2> PICK p \in Packet : inHand[n] = p
      BY <1>5 DEF WorkerPut
    <2>1. p.box \in Boxes /\ p.letter \in Letter
      BY DEF Packet
    <2>2. /\ boxes' = [boxes EXCEPT ![n][p.box] = Append(boxes[n][p.box], p.letter)]
          /\ inHand' = [inHand EXCEPT ![n] = NoPacket] /\ worker' = [worker EXCEPT ![n] = "P"]
          /\ UNCHANGED <<up, sendVars, socket, messageAvailable, inHdr>>
      BY <1>5 DEF WorkerPut, PutInBox
    <2>3. Append(boxes[n][p.box], p.letter) \in Seq(Letter)
      BY <2>1
    <2>4. boxes' \in [Machines -> [Boxes -> Seq(Letter)]]
      BY <2>1, <2>2, <2>3
    <2> QED BY <2>2, <2>4
  <1>6. ASSUME NEW b \in Boxes, Receive(n, b) PROVE Typed'
    <2>1. boxes[n][b] \in Seq(Letter) /\ boxes[n][b] # <<>>
      BY <1>6 DEF Receive, Get
    <2>2. Tail(boxes[n][b]) \in Seq(Letter)
      BY <2>1
    <2>3. boxes' \in [Machines -> [Boxes -> Seq(Letter)]]
      BY <1>6, <2>2 DEF Receive, Get
    <2> QED BY <1>6, <2>3 DEF Receive, Get
  <1>7. CASE Halt(n)
    BY <1>7 DEF Halt
  <1> QED BY <1>1, <1>2, <1>3, <1>4, <1>5, <1>6, <1>7 DEF Delivering

LEMMA TypesStep == Typed /\ [Next]_vars => Typed'
  <1>1. Typed /\ UNCHANGED vars => Typed'
    BY DEF Typed, TypeOK, vars, sendVars, receiveVars
  <1> QED BY <1>1, TypesSending, TypesSend, TypesMachine DEF Next

\* For any number of machines, threads and letters, every variable of the post
\* office keeps its type: semaphores and due interrupts are never negative, a
\* thread never sends what it has not written.
THEOREM TypesHold == Spec => []TypeOK
  <1>1. Typed => TypeOK
    BY DEF Typed
  <1> QED BY <1>1, TypesInit, TypesStep, PTL DEF Spec

-----------------------------------------------------------------------------
(* One send at a time *)

\* Steps of the other parts of a machine change neither the senders nor their counts.
LEMMA OthersSend ==
    ASSUME OwnerSends, OneSendOutstanding, UNCHANGED sendVars
    PROVE  OwnerSends' /\ OneSendOutstanding'
  BY DEF OwnerSends, OneSendOutstanding, Sends, sendVars

LEMMA OneSending ==
    ASSUME Typed, OwnerSends, OneSendOutstanding, NEW t \in Threads, Sending(t)
    PROVE  OwnerSends' /\ OneSendOutstanding'
  <1> PICK n \in Machines : n = machineOf[t]
    BY PostOfficeAssumption
  <1>t. /\ pc \in [Threads -> {"Run", "Acquire", "NetworkSend", "P", "Release"}]
        /\ sendLock \in [Machines -> Threads \cup {NoThread}]
        /\ messageSent \in [Machines -> Nat] /\ sendDue \in [Machines -> Nat]
    BY DEF Typed, TypeOK
  <1> USE PostOfficeAssumption DEF OwnerSends, OneSendOutstanding, Sends
  <1>1. CASE AcquireSendLock(t)
    <2>1. /\ pc[t] = "Acquire" /\ sendLock[n] = NoThread
          /\ pc' = [pc EXCEPT ![t] = "NetworkSend"] /\ sendLock' = [sendLock EXCEPT ![n] = t]
          /\ UNCHANGED <<messageSent, sendDue>>
      BY <1>1 DEF AcquireSendLock
    <2>2. OwnerSends'
      BY <1>t, <2>1
    <2>3. OneSendOutstanding'
      BY <1>t, <2>1
    <2> QED BY <2>2, <2>3
  <1>2. CASE NetworkSend(t)
    <2>1. /\ pc[t] = "NetworkSend" /\ pc' = [pc EXCEPT ![t] = "P"]
          /\ sendDue' = [sendDue EXCEPT ![n] = sendDue[n] + 1]
          /\ UNCHANGED <<messageSent, sendLock>>
      BY <1>2 DEF NetworkSend
    <2>2. sendLock[n] = t
      BY <2>1
    <2>3. OwnerSends'
      BY <1>t, <2>1
    <2>4. OneSendOutstanding'
      BY <1>t, <2>1, <2>2
    <2> QED BY <2>3, <2>4
  <1>3. CASE AwaitSent(t)
    <2>1. /\ pc[t] = "P" /\ pc' = [pc EXCEPT ![t] = "Release"] /\ messageSent[n] > 0
          /\ messageSent' = [messageSent EXCEPT ![n] = messageSent[n] - 1]
          /\ UNCHANGED <<sendDue, sendLock>>
      BY <1>3 DEF AwaitSent
    <2>2. sendLock[n] = t
      BY <2>1
    <2>3. OwnerSends'
      BY <1>t, <2>1
    <2>4. OneSendOutstanding'
      BY <1>t, <2>1, <2>2
    <2> QED BY <2>3, <2>4
  <1>4. CASE ReleaseSendLock(t)
    <2>1. /\ pc[t] = "Release" /\ pc' = [pc EXCEPT ![t] = "Run"]
          /\ sendLock' = [sendLock EXCEPT ![n] = NoThread]
          /\ UNCHANGED <<sendDue, messageSent>>
      BY <1>4 DEF ReleaseSendLock, ReleaseLock
    <2>2. sendLock[n] = t
      BY <2>1
    <2>3. OwnerSends'
      BY <1>t, <2>1, <2>2
    <2>4. OneSendOutstanding'
      BY <1>t, <2>1, <2>2
    <2> QED BY <2>3, <2>4
  <1> QED BY <1>1, <1>2, <1>3, <1>4 DEF Sending

LEMMA OneSendStep ==
    Typed /\ OwnerSends /\ OneSendOutstanding /\ [Next]_vars => OwnerSends' /\ OneSendOutstanding'
  <1> SUFFICES ASSUME Typed, OwnerSends, OneSendOutstanding, [Next]_vars
               PROVE  OwnerSends' /\ OneSendOutstanding'
    OBVIOUS
  <1> USE DEF OwnerSends, OneSendOutstanding, Sends
  <1>1. ASSUME NEW t \in Threads, NEW n \in Machines, NEW b \in Boxes, Send(t, n, b)
        PROVE  OwnerSends' /\ OneSendOutstanding'
    <2>1. /\ pc[t] = "Run" /\ pc' = [pc EXCEPT ![t] = "Acquire"]
          /\ pc \in [Threads -> {"Run", "Acquire", "NetworkSend", "P", "Release"}]
          /\ UNCHANGED <<sendLock, messageSent, sendDue>>
      BY <1>1 DEF Send, Typed, TypeOK
    <2> QED BY <2>1
  <1>2. ASSUME NEW n \in Machines, SendDone(n) PROVE OwnerSends' /\ OneSendOutstanding'
    <2>1. /\ sendDue[n] > 0 /\ sendDue' = [sendDue EXCEPT ![n] = sendDue[n] - 1]
          /\ messageSent' = [messageSent EXCEPT ![n] = messageSent[n] + 1]
          /\ messageSent \in [Machines -> Nat] /\ sendDue \in [Machines -> Nat]
          /\ UNCHANGED <<sendLock, pc>>
      BY <1>2 DEF SendDone, Typed, TypeOK
    <2> QED BY <2>1
  <1>3. ASSUME NEW n \in Machines,
               \/ Delivering(n) \/ Halt(n) \/ \E b \in Boxes : Receive(n, b)
        PROVE  OwnerSends' /\ OneSendOutstanding'
    <2>1. UNCHANGED sendVars
      BY <1>3 DEF Delivering, CheckPktAvail, WorkerP, WorkerReceive, WorkerPut, Halt, Receive, Get
    <2> QED BY <2>1, OthersSend
  <1>4. CASE UNCHANGED vars
    BY <1>4, OthersSend DEF vars
  <1> QED BY <1>1, <1>2, <1>3, <1>4, OneSending DEF Next

\* For any number of threads of a machine, the device never has two packets to
\* send: what is outstanding belongs to the owner of sendLock.
THEOREM OneSend == Spec => []OneSendOutstanding
  <1>1. Init => Typed /\ OwnerSends /\ OneSendOutstanding
    <2>1. Init => OwnerSends /\ OneSendOutstanding
      BY PostOfficeAssumption DEF Init, NewPostOffice, NewNetwork, NewMailBoxes, OwnerSends, OneSendOutstanding, Sends
    <2> QED BY <2>1, TypesInit
  <1>2. Typed /\ OwnerSends /\ OneSendOutstanding /\ [Next]_vars
          => Typed' /\ OwnerSends' /\ OneSendOutstanding'
    BY TypesStep, OneSendStep
  <1> QED BY <1>1, <1>2, PTL DEF Spec

-----------------------------------------------------------------------------
(* One packet in hand *)

LEMMA OthersDeliver ==
    ASSUME PacketInHand, UNCHANGED receiveVars
    PROVE  PacketInHand'
  BY DEF PacketInHand, receiveVars

LEMMA PacketStep == Typed /\ PacketInHand /\ [Next]_vars => PacketInHand'
  <1> SUFFICES ASSUME Typed, PacketInHand, [Next]_vars PROVE PacketInHand'
    OBVIOUS
  <1>t. /\ messageAvailable \in [Machines -> Nat]
        /\ inHdr \in [Machines -> Packet \cup {NoPacket}]
        /\ worker \in [Machines -> {"P", "Receive", "Put"}]
        /\ inHand \in [Machines -> Packet \cup {NoPacket}]
        /\ socket \in [Machines -> Seq(Packet)]
    BY DEF Typed, TypeOK
  <1> USE NoPacketAssumption DEF PacketInHand
  <1>1. ASSUME NEW n \in Machines, CheckPktAvail(n) PROVE PacketInHand'
    <2> PICK p : p = Head(socket[n])
      OBVIOUS
    <2>1. p \in Packet
      BY <1>t, <1>1 DEF CheckPktAvail
    <2>2. /\ inHdr[n] = NoPacket /\ inHdr' = [inHdr EXCEPT ![n] = p]
          /\ messageAvailable' = [messageAvailable EXCEPT ![n] = messageAvailable[n] + 1]
          /\ UNCHANGED <<worker, inHand>>
      BY <1>1 DEF CheckPktAvail, BufferFree, IncomingPacket
    <2> QED BY <1>t, <2>1, <2>2
  <1>2. ASSUME NEW n \in Machines, WorkerP(n) PROVE PacketInHand'
    <2>1. /\ worker[n] = "P" /\ worker' = [worker EXCEPT ![n] = "Receive"]
          /\ messageAvailable' = [messageAvailable EXCEPT ![n] = messageAvailable[n] - 1]
          /\ UNCHANGED <<inHdr, inHand>>
      BY <1>2 DEF WorkerP
    <2> QED BY <1>t, <2>1
  <1>3. ASSUME NEW n \in Machines, WorkerReceive(n) PROVE PacketInHand'
    <2>1. /\ worker[n] = "Receive" /\ worker' = [worker EXCEPT ![n] = "Put"]
          /\ inHand' = [inHand EXCEPT ![n] = inHdr[n]]
          /\ inHdr' = [inHdr EXCEPT ![n] = NoPacket]
          /\ UNCHANGED messageAvailable
      BY <1>3 DEF WorkerReceive
    <2>2. inHdr[n] # NoPacket /\ messageAvailable[n] = 0
      BY <1>t, <2>1
    <2> QED BY <1>t, <2>1, <2>2
  <1>4. ASSUME NEW n \in Machines, WorkerPut(n) PROVE PacketInHand'
    <2>1. /\ worker[n] = "Put" /\ worker' = [worker EXCEPT ![n] = "P"]
          /\ inHand' = [inHand EXCEPT ![n] = NoPacket]
          /\ UNCHANGED <<inHdr, messageAvailable>>
      BY <1>4 DEF WorkerPut
    <2> QED BY <1>t, <2>1
  <1>5. ASSUME NEW n \in Machines,
               \/ SendDone(n) \/ Halt(n) \/ \E b \in Boxes : Receive(n, b)
        PROVE  PacketInHand'
    BY <1>5 DEF SendDone, Halt, Receive, Get, receiveVars
  <1>6. ASSUME NEW t \in Threads,
               Sending(t) \/ \E n \in Machines, b \in Boxes : Send(t, n, b)
        PROVE  PacketInHand'
    <2>1. UNCHANGED receiveVars
      BY <1>6 DEF Sending, AcquireSendLock, NetworkSend, AwaitSent, ReleaseSendLock, Send
    <2> QED BY <2>1, OthersDeliver
  <1>7. CASE UNCHANGED vars
    BY <1>7, OthersDeliver DEF vars
  <1> QED BY <1>1, <1>2, <1>3, <1>4, <1>5, <1>6, <1>7 DEF Next, Delivering

\* For any number of machines, the postal worker never takes a packet from an
\* empty buffer, and the poll never overwrites one that waits there.
THEOREM OnePacketInHand == Spec => []PacketInHand
  <1>1. Init => Typed /\ PacketInHand
    <2>1. Init => PacketInHand
      BY DEF Init, NewPostOffice, NewNetwork, NewMailBoxes, PacketInHand
    <2> QED BY <2>1, TypesInit
  <1>2. Typed /\ PacketInHand /\ [Next]_vars => Typed' /\ PacketInHand'
    BY TypesStep, PacketStep
  <1> QED BY <1>1, <1>2, PTL DEF Spec

\* For any number of machines and threads, the device is never given a second
\* packet to send before it has sent the first, nor a second one to hold.
THEOREM DevicesInStep == Spec => []DeviceInStep
  BY OneSend, OnePacketInHand, PTL DEF DeviceInStep

-----------------------------------------------------------------------------
(* What FlattenSeq computes. *)

\* Induction over the natural numbers, for a set.
LEMMA NatInductionSet ==
    ASSUME NEW S \in SUBSET Nat, 0 \in S, \A n \in S : n + 1 \in S
    PROVE  S = Nat
  <1> DEFINE Less == {p \in Nat \X Nat : p[1] < p[2]}
  <1> SUFFICES ASSUME Nat \ S # {} PROVE FALSE
    OBVIOUS
  <1>1. IsWellFoundedOn(Less, Nat)
    <2>1. Less = OpToRel(<, Nat)
      BY Zenon DEF OpToRel
    <2> QED BY <2>1, NatLessThanWellFounded
  <1>2. PICK n \in Nat \ S : \A m \in Nat \ S : <<m, n>> \notin Less
    <2> HIDE DEF Less
    <2> QED BY <1>1, WFMin
  <1>3. n # 0 /\ n - 1 \in Nat /\ n - 1 \notin S
    BY <1>2
  <1>4. <<n - 1, n>> \in Less
    BY <1>3
  <1> QED BY <1>2, <1>3, <1>4

\* f lists what the first 1, 2, .. n sequences of ss are together.
Flattens(f, ss, n) ==
    /\ f = [i \in 1 .. n |-> f[i]]
    /\ n > 0 => f[1] = ss[1]
    /\ \A i \in 1 .. n - 1 : f[i + 1] = f[i] \o ss[i + 1]

LEMMA FlattensExists ==
    ASSUME NEW ss, NEW n \in Nat
    PROVE  \E f : Flattens(f, ss, n)
  <1> DEFINE S == {k \in Nat : \E f : Flattens(f, ss, k)}
  <1>1. 0 \in S
    <2>1. PICK f : f = [i \in 1 .. 0 |-> <<>>]
      OBVIOUS
    <2>2. f = [i \in 1 .. 0 |-> f[i]]
      BY <2>1
    <2>3. Flattens(f, ss, 0)
      BY <2>2 DEF Flattens
    <2> QED BY <2>3
  <1>2. ASSUME NEW k \in S PROVE k + 1 \in S
    <2>0. k \in Nat
      OBVIOUS
    <2>1. PICK f : Flattens(f, ss, k)
      OBVIOUS
    <2>2. PICK last : last = IF k = 0 THEN ss[1] ELSE f[k] \o ss[k + 1]
      OBVIOUS
    <2>3. PICK g : g = [i \in 1 .. k + 1 |-> IF i = k + 1 THEN last ELSE f[i]]
      OBVIOUS
    <2> HIDE DEF S
    <2>4. g[k + 1] = last /\ \A i \in 1 .. k : g[i] = f[i]
      BY <2>0, <2>3
    <2>5. g = [i \in 1 .. k + 1 |-> g[i]]
      BY <2>3
    <2>6. g[1] = ss[1]
      <3>1. CASE k = 0
        BY <2>2, <2>4, <3>1
      <3>2. CASE k > 0
        BY <2>0, <2>1, <2>4, <3>2 DEF Flattens
      <3> QED BY <2>0, <3>1, <3>2
    <2>7. ASSUME NEW i \in 1 .. k PROVE g[i + 1] = g[i] \o ss[i + 1]
      <3>1. CASE i = k
        <4>1. k # 0 /\ k \in 1 .. k
          BY <2>0, <3>1
        <4>2. g[k] = f[k] /\ g[k + 1] = f[k] \o ss[k + 1]
          BY <2>2, <2>4, <4>1
        <4> QED BY <3>1, <4>2
      <3>2. CASE i # k
        <4>1. i \in 1 .. k - 1 /\ i + 1 \in 1 .. k
          BY <2>0, <3>2
        <4> QED BY <2>1, <2>4, <4>1 DEF Flattens
      <3> QED BY <3>1, <3>2
    <2>8. (k + 1) - 1 = k
      BY <2>0
    <2>9. Flattens(g, ss, k + 1)
      BY <2>5, <2>6, <2>7, <2>8 DEF Flattens
    <2> QED BY <2>0, <2>9 DEF S
  <1>3. S = Nat
    <2> HIDE DEF S
    <2>1. S \in SUBSET Nat
      BY DEF S
    <2> QED BY <1>1, <1>2, <2>1, NatInductionSet
  <1> QED BY <1>3

\* What is listed is of the type of the parts.
LEMMA FlattensType ==
    ASSUME NEW S, NEW ss \in Seq(Seq(S)), NEW f, Flattens(f, ss, Len(ss)), NEW i \in 1 .. Len(ss)
    PROVE  f[i] \in Seq(S)
  <1> DEFINE T == {k \in Nat : k + 1 \in 1 .. Len(ss) => f[k + 1] \in Seq(S)}
  <1>0. Len(ss) \in Nat /\ \A k \in 1 .. Len(ss) : ss[k] \in Seq(S)
    BY LenProperties, ElementOfSeq
  <1>1. 0 \in T
    BY <1>0 DEF Flattens
  <1>2. ASSUME NEW k \in T PROVE k + 1 \in T
    <2>1. k \in Nat
      OBVIOUS
    <2>2. CASE (k + 1) + 1 \in 1 .. Len(ss)
      <3>1. k + 1 \in 1 .. Len(ss) - 1
        BY <1>0, <2>1, <2>2
      <3>2. f[(k + 1) + 1] = f[k + 1] \o ss[(k + 1) + 1]
        BY <3>1 DEF Flattens
      <3>3. f[k + 1] \in Seq(S)
        BY <1>0, <3>1
      <3>4. f[(k + 1) + 1] \in Seq(S)
        BY <1>0, <2>2, <3>2, <3>3
      <3> QED BY <2>1, <3>4
    <2>3. CASE (k + 1) + 1 \notin 1 .. Len(ss)
      BY <2>1, <2>3
    <2> QED BY <2>2, <2>3
  <1>3. T = Nat
    <2> HIDE DEF T
    <2>1. T \in SUBSET Nat
      BY DEF T
    <2> QED BY <1>1, <1>2, <2>1, NatInductionSet
  <1>4. i - 1 \in Nat /\ (i - 1) + 1 = i
    OBVIOUS
  <1>5. i - 1 \in T
    BY <1>3, <1>4
  <1> QED BY <1>4, <1>5

\* FlattenSeq is the last of the list.
LEMMA FlattenLast ==
    ASSUME NEW S, NEW ss \in Seq(Seq(S)), Len(ss) # 0
    PROVE  \E f : /\ Flattens(f, ss, Len(ss))
                  /\ FlattenSeq(ss) = f[Len(ss)]
                  /\ f[Len(ss)] \in Seq(S)
  <1>0. Len(ss) \in Nat /\ Len(ss) \in 1 .. Len(ss)
    BY LenProperties
  <1> DEFINE Is(f) == f = [i \in 1 .. Len(ss) |-> IF i = 1 THEN ss[i] ELSE f[i - 1] \o ss[i]]
  <1>1. ASSUME NEW f, Flattens(f, ss, Len(ss)) PROVE Is(f)
    <2>1. ASSUME NEW i \in 1 .. Len(ss) PROVE f[i] = IF i = 1 THEN ss[i] ELSE f[i - 1] \o ss[i]
      <3>1. CASE i = 1
        BY <1>0, <1>1, <3>1 DEF Flattens
      <3>2. CASE i # 1
        <4>1. i - 1 \in 1 .. Len(ss) - 1 /\ (i - 1) + 1 = i
          BY <1>0, <3>2
        <4> QED BY <1>1, <3>2, <4>1 DEF Flattens
      <3> QED BY <3>1, <3>2
    <2>2. f = [i \in 1 .. Len(ss) |-> f[i]]
      BY <1>1 DEF Flattens
    <2> QED BY <2>1, <2>2
  <1>2. ASSUME NEW f, Is(f) PROVE Flattens(f, ss, Len(ss))
    <2>1. \A i \in 1 .. Len(ss) : f[i] = IF i = 1 THEN ss[i] ELSE f[i - 1] \o ss[i]
      BY <1>2
    <2>2. f = [i \in 1 .. Len(ss) |-> f[i]]
      BY <1>2, <2>1
    <2>3. f[1] = ss[1]
      BY <1>0, <2>1
    <2>4. ASSUME NEW i \in 1 .. Len(ss) - 1 PROVE f[i + 1] = f[i] \o ss[i + 1]
      <3>1. i + 1 \in 1 .. Len(ss) /\ i + 1 # 1 /\ (i + 1) - 1 = i
        BY <1>0
      <3> QED BY <2>1, <3>1
    <2> QED BY <2>2, <2>3, <2>4 DEF Flattens
  <1>3. PICK f : Flattens(f, ss, Len(ss))
    BY <1>0, FlattensExists
  <1>4. PICK g : g = CHOOSE h : Is(h)
    OBVIOUS
  <1>5. Is(g)
    <2>1. Is(f)
      BY <1>1, <1>3
    <2> HIDE DEF Is
    <2> QED BY <1>4, <2>1
  <1>6. FlattenSeq(ss) = g[Len(ss)]
    BY <1>4, <1>0 DEF FlattenSeq
  <1>7. Flattens(g, ss, Len(ss))
    BY <1>2, <1>5
  <1>8. g[Len(ss)] \in Seq(S)
    BY <1>0, <1>7, FlattensType
  <1> QED BY <1>6, <1>7, <1>8

LEMMA FlattenEmpty == FlattenSeq(<<>>) = <<>>
  <1>1. Len(<<>>) = 0
    BY EmptySeq
  <1> QED BY Zenon, <1>1 DEF FlattenSeq

LEMMA FlattenAppend ==
    ASSUME NEW S, NEW ss \in Seq(Seq(S)), NEW s \in Seq(S)
    PROVE  FlattenSeq(Append(ss, s)) = FlattenSeq(ss) \o s /\ FlattenSeq(ss) \in Seq(S)
  <1>1. PICK n : n = Len(ss)
    OBVIOUS
  <1>2. PICK tt : tt = Append(ss, s)
    OBVIOUS
  <1>3. /\ n \in Nat /\ tt \in Seq(Seq(S)) /\ Len(tt) = n + 1 /\ tt[n + 1] = s
        /\ \A i \in 1 .. n : tt[i] = ss[i]
    BY <1>1, <1>2, AppendProperties, LenProperties
  <1>4. PICK g : Flattens(g, tt, n + 1) /\ FlattenSeq(tt) = g[n + 1]
    <2>1. Len(tt) # 0
      BY <1>3
    <2> QED BY <1>3, <2>1, FlattenLast
  <1>5. CASE n = 0
    <2>1. ss = <<>>
      BY <1>1, <1>5, EmptySeq
    <2>2. FlattenSeq(tt) = s
      BY <1>3, <1>4, <1>5 DEF Flattens
    <2>3. <<>> \o s = s /\ <<>> \in Seq(S)
      BY ConcatEmptySeq
    <2> QED BY Zenon, <1>2, <2>1, <2>2, <2>3, FlattenEmpty
  <1>6. CASE n # 0
    <2>1. PICK f : Flattens(f, ss, n) /\ FlattenSeq(ss) = f[n] /\ f[n] \in Seq(S)
      BY <1>1, <1>6, FlattenLast
    <2> DEFINE T == {k \in Nat : k + 1 \in 1 .. n => g[k + 1] = f[k + 1]}
    <2>2. 0 \in T
      <3>1. n > 0 /\ n + 1 > 0 /\ 1 \in 1 .. n /\ 0 + 1 = 1
        BY <1>3, <1>6
      <3>2. g[1] = tt[1] /\ f[1] = ss[1]
        BY <1>4, <2>1, <3>1 DEF Flattens
      <3>3. g[1] = f[1]
        BY <1>3, <3>1, <3>2
      <3> QED BY <3>1, <3>3
    <2>3. ASSUME NEW k \in T PROVE k + 1 \in T
      <3>1. k \in Nat
        OBVIOUS
      <3>2. CASE (k + 1) + 1 \in 1 .. n
        <4>1. k + 1 \in 1 .. n - 1 /\ k + 1 \in 1 .. (n + 1) - 1 /\ k + 1 \in 1 .. n
          BY <1>3, <3>1, <3>2
        <4>2. f[(k + 1) + 1] = f[k + 1] \o ss[(k + 1) + 1]
          BY <2>1, <4>1 DEF Flattens
        <4>3. g[(k + 1) + 1] = g[k + 1] \o tt[(k + 1) + 1]
          BY <1>4, <4>1 DEF Flattens
        <4>4. tt[(k + 1) + 1] = ss[(k + 1) + 1]
          BY <1>3, <3>2
        <4>5. g[k + 1] = f[k + 1]
          BY <4>1
        <4>6. g[(k + 1) + 1] = f[(k + 1) + 1]
          BY <4>2, <4>3, <4>4, <4>5
        <4> QED BY <3>1, <4>6
      <3>3. CASE (k + 1) + 1 \notin 1 .. n
        BY <3>1, <3>3
      <3> QED BY <3>2, <3>3
    <2>4. T = Nat
      <3> HIDE DEF T
      <3>1. T \in SUBSET Nat
        BY DEF T
      <3> QED BY <2>2, <2>3, <3>1, NatInductionSet
    <2>5. g[n] = f[n]
      <3>1. n - 1 \in Nat /\ (n - 1) + 1 = n /\ n \in 1 .. n
        BY <1>3, <1>6
      <3>2. n - 1 \in T
        BY <2>4, <3>1
      <3> QED BY <3>1, <3>2
    <2>6. g[n + 1] = g[n] \o tt[n + 1]
      <3>1. n \in 1 .. (n + 1) - 1
        BY <1>3, <1>6
      <3> QED BY <1>4, <3>1 DEF Flattens
    <2> QED BY <1>2, <1>3, <1>4, <2>1, <2>5, <2>6
  <1> QED BY <1>5, <1>6

LEMMA FlattenTail ==
    ASSUME NEW S, NEW ss \in Seq(Seq(S)), ss # <<>>
    PROVE  FlattenSeq(ss) = Head(ss) \o FlattenSeq(Tail(ss))
  <1>1. PICK n : n = Len(Tail(ss))
    OBVIOUS
  <1>2. PICK tt : tt = Tail(ss)
    OBVIOUS
  <1>3. /\ n \in Nat /\ tt \in Seq(Seq(S)) /\ Len(tt) = n /\ Len(ss) = n + 1
        /\ Head(ss) = ss[1] /\ ss[1] \in Seq(S)
        /\ \A i \in 1 .. n : tt[i] = ss[i + 1] /\ tt[i] \in Seq(S)
    BY <1>1, <1>2, HeadTailProperties, LenProperties, EmptySeq, ElementOfSeq
  <1>4. PICK g : Flattens(g, ss, n + 1) /\ FlattenSeq(ss) = g[n + 1]
    <2>1. Len(ss) # 0
      BY <1>3
    <2> QED BY <1>3, <2>1, FlattenLast
  <1>5. CASE n = 0
    <2>1. tt = <<>>
      BY <1>3, <1>5, EmptySeq
    <2>2. FlattenSeq(ss) = ss[1]
      BY <1>3, <1>4, <1>5 DEF Flattens
    <2>3. ss[1] \o <<>> = ss[1]
      BY <1>3, ConcatEmptySeq
    <2> QED BY Zenon, <1>2, <1>3, <2>1, <2>2, <2>3, FlattenEmpty
  <1>6. CASE n # 0
    <2>1. PICK f : Flattens(f, tt, n) /\ FlattenSeq(tt) = f[n]
      BY <1>3, <1>6, FlattenLast
    <2>2. \A i \in 1 .. n : f[i] \in Seq(S)
      BY <1>3, <2>1, FlattensType
    <2> DEFINE T == {k \in Nat : k + 1 \in 1 .. n => g[(k + 1) + 1] = ss[1] \o f[k + 1]}
    <2>3. 0 \in T
      <3>1. 1 \in 1 .. (n + 1) - 1 /\ 1 \in 1 .. n /\ n > 0 /\ n + 1 > 0 /\ 0 + 1 = 1
        BY <1>3, <1>6
      <3>2. g[1] = ss[1] /\ f[1] = tt[1]
        BY <1>4, <2>1, <3>1 DEF Flattens
      <3>3. g[1 + 1] = g[1] \o ss[1 + 1]
        BY <1>4, <3>1 DEF Flattens
      <3>4. tt[1] = ss[1 + 1]
        BY <1>3, <3>1
      <3>5. g[1 + 1] = ss[1] \o f[1]
        BY <3>2, <3>3, <3>4
      <3> QED BY <3>1, <3>5
    <2>4. ASSUME NEW k \in T PROVE k + 1 \in T
      <3>1. k \in Nat
        OBVIOUS
      <3>2. CASE (k + 1) + 1 \in 1 .. n
        <4> PICK i : i = k + 1
          OBVIOUS
        <4>1. /\ i \in 1 .. n - 1 /\ i + 1 \in 1 .. (n + 1) - 1 /\ i \in 1 .. n
              /\ i + 1 \in 1 .. n /\ k + 1 \in 1 .. n
          BY <1>3, <3>1, <3>2
        <4>2. f[i + 1] = f[i] \o tt[i + 1]
          BY <2>1, <4>1 DEF Flattens
        <4>3. g[(i + 1) + 1] = g[i + 1] \o ss[(i + 1) + 1]
          BY <1>4, <4>1 DEF Flattens
        <4>4. tt[i + 1] = ss[(i + 1) + 1] /\ tt[i + 1] \in Seq(S)
          BY <1>3, <4>1
        <4>5. g[i + 1] = ss[1] \o f[i]
          BY <4>1
        <4>6. g[(i + 1) + 1] = (ss[1] \o f[i]) \o tt[i + 1]
          BY <4>3, <4>4, <4>5
        <4>7. f[i] \in Seq(S) /\ ss[1] \in Seq(S) /\ tt[i + 1] \in Seq(S)
          BY <1>3, <2>2, <4>1, <4>4
        <4>8. (ss[1] \o f[i]) \o tt[i + 1] = ss[1] \o (f[i] \o tt[i + 1])
          <5>1. PICK u \in Seq(S), v \in Seq(S), w \in Seq(S) : u = ss[1] /\ v = f[i] /\ w = tt[i + 1]
            BY <4>7
          <5>2. (u \o v) \o w = u \o (v \o w)
            BY ConcatAssociative
          <5> QED BY <5>1, <5>2
        <4>9. g[(i + 1) + 1] = ss[1] \o f[i + 1]
          BY <4>2, <4>6, <4>8
        <4>10. k + 1 \in Nat /\ g[((k + 1) + 1) + 1] = ss[1] \o f[(k + 1) + 1]
          BY <3>1, <4>9
        <4> QED BY Zenon, <4>10
      <3>3. CASE (k + 1) + 1 \notin 1 .. n
        <4>1. k + 1 \in Nat
          BY <3>1
        <4> QED BY Zenon, <3>3, <4>1
      <3> QED BY <3>2, <3>3
    <2>5. T = Nat
      <3> HIDE DEF T
      <3>1. T \in SUBSET Nat
        BY DEF T
      <3> QED BY <2>3, <2>4, <3>1, NatInductionSet
    <2>6. g[n + 1] = ss[1] \o f[n]
      <3>1. n - 1 \in Nat /\ (n - 1) + 1 = n /\ n \in 1 .. n
        BY <1>3, <1>6
      <3>2. n - 1 \in T
        BY <2>5, <3>1
      <3> QED BY <3>1, <3>2
    <2> QED BY <1>2, <1>3, <1>4, <2>1, <2>6
  <1> QED BY <1>5, <1>6

-----------------------------------------------------------------------------
(* Mail: the letters on the way and in the boxes, as the mail service has them. *)

Part(p, b) == IF p.box = b THEN <<p.letter>> ELSE <<>>
Parts(packets, b) == [i \in DOMAIN packets |-> Part(packets[i], b)]

LEMMA PartType ==
    ASSUME NEW p \in Packet, NEW b
    PROVE  Part(p, b) \in Seq(Letter)
  <1>1. p.letter \in Letter
    BY DEF Packet
  <1>2. <<p.letter>> \in Seq(Letter) /\ <<>> \in Seq(Letter)
    BY <1>1
  <1> QED BY <1>2 DEF Part

LEMMA PartsType ==
    ASSUME NEW packets \in Seq(Packet), NEW b
    PROVE  /\ Parts(packets, b) \in Seq(Seq(Letter))
           /\ Len(Parts(packets, b)) = Len(packets)
           /\ \A i \in 1 .. Len(packets) : Parts(packets, b)[i] = Part(packets[i], b)
           /\ LettersFor(packets, b) = FlattenSeq(Parts(packets, b))
  <1>1. Len(packets) \in Nat /\ DOMAIN packets = 1 .. Len(packets)
        /\ \A i \in 1 .. Len(packets) : packets[i] \in Packet
    BY LenProperties, ElementOfSeq
  <1>2. Parts(packets, b) = [i \in 1 .. Len(packets) |-> Part(packets[i], b)]
    BY <1>1 DEF Parts
  <1>3. \A i \in 1 .. Len(packets) : Part(packets[i], b) \in Seq(Letter)
    BY <1>1, PartType
  <1>4. /\ Parts(packets, b) \in Seq(Seq(Letter)) /\ Len(Parts(packets, b)) = Len(packets)
        /\ \A i \in 1 .. Len(packets) : Parts(packets, b)[i] = Part(packets[i], b)
    <2> PICK n, S : n = Len(packets) /\ S = Seq(Letter)
      OBVIOUS
    <2>1. PICK f : f = [i \in 1 .. n |-> Part(packets[i], b)]
      OBVIOUS
    <2>2. \A i \in 1 .. n : f[i] \in S /\ f[i] = Part(packets[i], b)
      BY <1>3, <2>1
    <2>3. f \in Seq(S) /\ Len(f) = n
      BY <1>1, <2>1, <2>2, IsASeq
    <2> QED BY <1>2, <2>1, <2>2, <2>3
  <1>5. LettersFor(packets, b) = FlattenSeq(Parts(packets, b))
    BY Zenon DEF LettersFor, Parts, Part
  <1> QED BY <1>4, <1>5

LEMMA NoLetters == ASSUME NEW b PROVE LettersFor(<<>>, b) = <<>>
  <1>1. /\ Parts(<<>>, b) \in Seq(Seq(Letter)) /\ Len(Parts(<<>>, b)) = Len(<<>>)
        /\ LettersFor(<<>>, b) = FlattenSeq(Parts(<<>>, b))
    <2>1. <<>> \in Seq(Packet)
      OBVIOUS
    <2> QED BY <2>1, PartsType
  <1>2. Parts(<<>>, b) = <<>>
    BY <1>1, EmptySeq
  <1> QED BY <1>1, <1>2, FlattenEmpty

LEMMA LettersType ==
    ASSUME NEW packets \in Seq(Packet), NEW b
    PROVE  LettersFor(packets, b) \in Seq(Letter)
  <1>1. <<>> \in Seq(Letter)
    OBVIOUS
  <1> QED BY <1>1, PartsType, FlattenAppend

LEMMA LettersAppend ==
    ASSUME NEW packets \in Seq(Packet), NEW p \in Packet, NEW b
    PROVE  /\ LettersFor(packets, b) \in Seq(Letter)
           /\ LettersFor(Append(packets, p), b) = LettersFor(packets, b) \o Part(p, b)
  <1>1. PICK ps : ps = Append(packets, p)
    OBVIOUS
  <1>2. PICK n : n = Len(packets)
    OBVIOUS
  <1>3. /\ ps \in Seq(Packet) /\ Len(ps) = n + 1 /\ n \in Nat /\ ps[n + 1] = p
        /\ \A i \in 1 .. n : ps[i] = packets[i]
    BY <1>1, <1>2, AppendProperties, LenProperties
  <1>4. PICK parts, more :
          /\ parts = Parts(packets, b) /\ more = Parts(ps, b)
          /\ parts \in Seq(Seq(Letter)) /\ Len(parts) = n
          /\ more \in Seq(Seq(Letter)) /\ Len(more) = n + 1
          /\ \A i \in 1 .. n : parts[i] = Part(packets[i], b)
          /\ \A i \in 1 .. n + 1 : more[i] = Part(ps[i], b)
          /\ LettersFor(packets, b) = FlattenSeq(parts)
          /\ LettersFor(ps, b) = FlattenSeq(more)
    BY <1>2, <1>3, PartsType
  <1>5. PICK last \in Seq(Letter) : last = Part(p, b)
    BY PartType
  <1>6. more = Append(parts, last)
    <2>1. PICK other : other = Append(parts, last)
      OBVIOUS
    <2>2. /\ other \in Seq(Seq(Letter)) /\ Len(other) = n + 1 /\ other[n + 1] = last
          /\ \A i \in 1 .. n : other[i] = parts[i]
      BY <1>4, <1>5, <2>1, AppendProperties
    <2>3. \A i \in 1 .. n + 1 : other[i] = more[i]
      <3>1. \A i \in 1 .. n : other[i] = more[i]
        BY <1>3, <1>4, <2>2
      <3>2. other[n + 1] = more[n + 1]
        BY <1>3, <1>4, <1>5, <2>2
      <3> QED BY <1>3, <3>1, <3>2
    <2>4. other = more
      BY <1>4, <2>2, <2>3, SeqEqual
    <2> QED BY <2>1, <2>4
  <1>7. FlattenSeq(Append(parts, last)) = FlattenSeq(parts) \o last /\ FlattenSeq(parts) \in Seq(Letter)
    BY <1>4, <1>5, FlattenAppend
  <1> QED BY <1>1, <1>4, <1>5, <1>6, <1>7

LEMMA LettersHead ==
    ASSUME NEW packets \in Seq(Packet), packets # <<>>, NEW b
    PROVE  LettersFor(packets, b) = Part(Head(packets), b) \o LettersFor(Tail(packets), b)
  <1>1. PICK ps : ps = Tail(packets)
    OBVIOUS
  <1>2. PICK n : n = Len(ps)
    OBVIOUS
  <1>3. /\ ps \in Seq(Packet) /\ Len(packets) = n + 1 /\ n \in Nat /\ packets[1] = Head(packets)
        /\ \A i \in 1 .. n : ps[i] = packets[i + 1]
    BY <1>1, <1>2, HeadTailProperties, LenProperties, EmptySeq
  <1>4. PICK parts, less :
          /\ parts = Parts(packets, b) /\ less = Parts(ps, b)
          /\ parts \in Seq(Seq(Letter)) /\ Len(parts) = n + 1
          /\ less \in Seq(Seq(Letter)) /\ Len(less) = n
          /\ \A i \in 1 .. n + 1 : parts[i] = Part(packets[i], b)
          /\ \A i \in 1 .. n : less[i] = Part(ps[i], b)
          /\ LettersFor(packets, b) = FlattenSeq(parts)
          /\ LettersFor(ps, b) = FlattenSeq(less)
    BY <1>2, <1>3, PartsType
  <1>5. parts # <<>> /\ Head(parts) = Part(Head(packets), b)
    BY <1>3, <1>4, EmptySeq, HeadTailProperties
  <1>6. less = Tail(parts)
    <2>1. PICK other : other = Tail(parts)
      OBVIOUS
    <2>2. /\ other \in Seq(Seq(Letter)) /\ Len(other) = n
          /\ \A i \in 1 .. n : other[i] = parts[i + 1]
      BY <1>3, <1>4, <1>5, <2>1, HeadTailProperties
    <2>3. \A i \in 1 .. n : other[i] = less[i]
      <3> SUFFICES ASSUME NEW i \in 1 .. n PROVE other[i] = less[i]
        OBVIOUS
      <3>1. i + 1 \in 1 .. n + 1
        BY <1>3
      <3> QED BY <1>3, <1>4, <2>2, <3>1
    <2>4. other = less
      BY <1>4, <2>2, <2>3, SeqEqual
    <2> QED BY <2>1, <2>4
  <1>7. FlattenSeq(parts) = Head(parts) \o FlattenSeq(Tail(parts))
    BY <1>4, <1>5, FlattenTail
  <1> QED BY <1>1, <1>4, <1>5, <1>6, <1>7

\* What is in box b of machine n, and what is on its way there.
MailIn(n, b) == boxes[n][b] \o LettersFor(OnTheWay(n), b)

LEMMA MailStays ==
    ASSUME \A n \in Machines, b \in Boxes : MailIn(n, b)' = MailIn(n, b)
    PROVE  mail' = mail
  BY DEF mail, MailIn

LEMMA MailChanges ==
    ASSUME NEW n \in Machines, NEW b \in Boxes, NEW x, MailIn(n, b)' = x,
           \A k \in Machines, c \in Boxes : k # n \/ c # b => MailIn(k, c)' = MailIn(k, c)
    PROVE  mail' = [mail EXCEPT ![n][b] = x]
  <1>1. /\ mail = [k \in Machines |-> [c \in Boxes |-> MailIn(k, c)]]
        /\ mail' = [k \in Machines |-> [c \in Boxes |-> MailIn(k, c)']]
    BY Zenon DEF mail, MailIn
  <1>2. mail' = [k \in Machines |-> [c \in Boxes |-> IF k = n /\ c = b THEN x ELSE MailIn(k, c)]]
    BY <1>1
  <1>3. [mail EXCEPT ![n][b] = x] =
          [k \in Machines |-> [c \in Boxes |-> IF k = n /\ c = b THEN x ELSE MailIn(k, c)]]
    BY <1>1
  <1> QED BY <1>2, <1>3

\* A machine of which nothing changes that mail depends on.
LEMMA MailAsBefore ==
    ASSUME NEW n, NEW b, inHand'[n] = inHand[n], inHdr'[n] = inHdr[n], socket'[n] = socket[n],
           boxes'[n] = boxes[n]
    PROVE  MailIn(n, b)' = MailIn(n, b) /\ OnTheWay(n)' = OnTheWay(n)
  BY DEF MailIn, OnTheWay, OneOrNone

LEMMA WayType ==
    ASSUME TypeOK, NEW n \in Machines
    PROVE  /\ OnTheWay(n) \in Seq(Packet) /\ socket[n] \in Seq(Packet)
           /\ OneOrNone(inHand[n]) \in Seq(Packet) /\ OneOrNone(inHdr[n]) \in Seq(Packet)
  <1>1. \A p \in Packet \cup {NoPacket} : OneOrNone(p) \in Seq(Packet)
    BY NoPacketAssumption DEF OneOrNone
  <1>2. inHand[n] \in Packet \cup {NoPacket} /\ inHdr[n] \in Packet \cup {NoPacket}
        /\ socket[n] \in Seq(Packet)
    BY DEF TypeOK
  <1>3. PICK a \in Seq(Packet), c \in Seq(Packet), d \in Seq(Packet) :
          a = OneOrNone(inHand[n]) /\ c = OneOrNone(inHdr[n]) /\ d = socket[n]
    BY <1>1, <1>2
  <1>4. a \o c \o d \in Seq(Packet)
    OBVIOUS
  <1> QED BY <1>3, <1>4 DEF OnTheWay

\* A letter that is to be sent is the sender's next.
Written ==
    \A t \in Threads : pc[t] \in {"Acquire", "NetworkSend"} =>
        letter[t].letter = [from |-> t, number |-> posted[t] + 1]

LEMMA WrittenStep == Typed /\ Written /\ [Next]_vars => Written'
  <1> SUFFICES ASSUME Typed, Written, [Next]_vars PROVE Written'
    OBVIOUS
  <1>t. /\ pc \in [Threads -> {"Run", "Acquire", "NetworkSend", "P", "Release"}]
        /\ letter \in [Threads -> Packet \cup {NoPacket}]
        /\ posted \in [Threads -> 0 .. MaxLetters]
    BY DEF Typed, TypeOK
  <1>1. ASSUME NEW t \in Threads, NEW n \in Machines, NEW b \in Boxes, Send(t, n, b) PROVE Written'
    <2>1. PICK p : p = [to |-> n, box |-> b, letter |-> [from |-> t, number |-> posted[t] + 1]]
      OBVIOUS
    <2>2. /\ pc' = [pc EXCEPT ![t] = "Acquire"] /\ letter' = [letter EXCEPT ![t] = p]
          /\ posted' = posted
      BY Zenon, <1>1, <2>1 DEF Send
    <2>3. p.letter = [from |-> t, number |-> posted[t] + 1]
      BY <2>1
    <2>4. ASSUME NEW u \in Threads, pc'[u] \in {"Acquire", "NetworkSend"}
          PROVE  letter'[u].letter = [from |-> u, number |-> posted'[u] + 1]
      <3>1. CASE u = t
        BY <1>t, <2>2, <2>3, <3>1
      <3>2. CASE u # t
        BY <1>t, <2>2, <2>4, <3>2 DEF Written
      <3> QED BY <3>1, <3>2
    <2> QED BY Zenon, <2>4 DEF Written
  <1>2. ASSUME NEW t \in Threads, Sending(t) PROVE Written'
    <2>1. CASE AcquireSendLock(t)
      <3>1. /\ pc[t] = "Acquire" /\ pc' = [pc EXCEPT ![t] = "NetworkSend"]
            /\ letter' = letter /\ posted' = posted
        BY <2>1 DEF AcquireSendLock
      <3> QED BY <1>t, <3>1 DEF Written
    <2>2. CASE \E s \in {"P", "Release", "Run"} :
                 /\ pc' = [pc EXCEPT ![t] = s]
                 /\ \A u \in Threads \ {t} : letter'[u] = letter[u] /\ posted'[u] = posted[u]
      BY <1>t, <2>2 DEF Written
    <2>3. CASE NetworkSend(t)
      BY <1>t, <2>2, <2>3 DEF NetworkSend
    <2>4. CASE AwaitSent(t)
      BY <1>t, <2>2, <2>4 DEF AwaitSent
    <2>5. CASE ReleaseSendLock(t)
      BY <1>t, <2>2, <2>5 DEF ReleaseSendLock
    <2> QED BY <1>2, <2>1, <2>3, <2>4, <2>5 DEF Sending
  <1>3. CASE UNCHANGED <<pc, letter, posted>>
    BY <1>3 DEF Written
  <1>4. ASSUME NEW n \in Machines, \/ SendDone(n) \/ Delivering(n) \/ Halt(n)
                                   \/ \E b \in Boxes : Receive(n, b)
        PROVE  UNCHANGED <<pc, letter, posted>>
    BY <1>4 DEF SendDone, Delivering, CheckPktAvail, WorkerP, WorkerReceive, WorkerPut, Halt, Receive, Get, sendVars
  <1>5. CASE UNCHANGED vars
    BY <1>3, <1>5 DEF vars, sendVars
  <1> QED BY <1>1, <1>2, <1>3, <1>4, <1>5 DEF Next

\* Mail of steps that leave it where it is.
LEMMA MailKept ==
    ASSUME UNCHANGED <<inHand, inHdr, socket, boxes>>
    PROVE  mail' = mail
  <1>1. \A n \in Machines, b \in Boxes : MailIn(n, b)' = MailIn(n, b)
    BY MailAsBefore
  <1> QED BY <1>1, MailStays

\* Only the place of the next packet changes when the device or the worker takes it.
LEMMA MailMoves ==
    ASSUME Typed, PacketInHand, NEW n \in Machines, CheckPktAvail(n) \/ WorkerReceive(n)
    PROVE  mail' = mail
  <1>t. /\ inHdr \in [Machines -> Packet \cup {NoPacket}]
        /\ inHand \in [Machines -> Packet \cup {NoPacket}]
        /\ worker \in [Machines -> {"P", "Receive", "Put"}]
        /\ socket \in [Machines -> Seq(Packet)]
    BY DEF Typed, TypeOK
  <1>0. OneOrNone(NoPacket) = <<>> /\ \A p \in Packet : OneOrNone(p) = <<p>>
    BY NoPacketAssumption DEF OneOrNone
  <1>1. CASE CheckPktAvail(n)
    <2>1. PICK p, s : p = Head(socket[n]) /\ s = Tail(socket[n])
      OBVIOUS
    <2>2. /\ inHdr[n] = NoPacket /\ inHdr' = [inHdr EXCEPT ![n] = p]
          /\ socket' = [socket EXCEPT ![n] = s] /\ socket[n] # <<>>
          /\ UNCHANGED <<inHand, boxes>>
      BY <1>1, <2>1 DEF CheckPktAvail, BufferFree
    <2>3. p \in Packet /\ s \in Seq(Packet) /\ socket[n] = <<p>> \o s
      BY <1>t, <2>1, <2>2
    <2>4. OnTheWay(n)' = OnTheWay(n)
      <3>1. PICK a \in Seq(Packet) : a = OneOrNone(inHand[n])
        BY WayType DEF Typed
      <3>2. OnTheWay(n) = (a \o <<>>) \o (<<p>> \o s)
        BY <1>0, <2>2, <2>3, <3>1 DEF OnTheWay
      <3>3. OnTheWay(n)' = (a \o <<p>>) \o s
        <4>1. OneOrNone(inHand[n])' = a /\ OneOrNone(inHdr[n])' = <<p>> /\ socket[n]' = s
          BY <1>0, <1>t, <2>2, <2>3, <3>1
        <4> QED BY <4>1 DEF OnTheWay
      <3>4. (a \o <<p>>) \o s = (a \o <<>>) \o (<<p>> \o s)
        <4>1. <<p>> \in Seq(Packet)
          BY <2>3
        <4>2. (a \o <<p>>) \o s = a \o (<<p>> \o s)
          BY <2>3, <4>1, ConcatAssociative
        <4>3. a \o <<>> = a
          BY ConcatEmptySeq
        <4> QED BY <4>2, <4>3
      <3> QED BY <3>2, <3>3, <3>4
    <2>5. \A k \in Machines, b \in Boxes : MailIn(k, b)' = MailIn(k, b)
      <3>1. ASSUME NEW k \in Machines, k # n, NEW b \in Boxes PROVE MailIn(k, b)' = MailIn(k, b)
        BY <1>t, <2>2, <3>1, MailAsBefore
      <3>2. ASSUME NEW b \in Boxes PROVE MailIn(n, b)' = MailIn(n, b)
        BY <2>2, <2>4 DEF MailIn
      <3> QED BY <3>1, <3>2
    <2> QED BY <2>5, MailStays
  <1>2. CASE WorkerReceive(n)
    <2>1. /\ worker[n] = "Receive" /\ inHand' = [inHand EXCEPT ![n] = inHdr[n]]
          /\ inHdr' = [inHdr EXCEPT ![n] = NoPacket] /\ UNCHANGED <<socket, boxes>>
      BY <1>2 DEF WorkerReceive
    <2>2. inHand[n] = NoPacket
      BY <2>1 DEF PacketInHand
    <2>4. OnTheWay(n)' = OnTheWay(n)
      <3>1. PICK a \in Seq(Packet), s \in Seq(Packet) : a = OneOrNone(inHdr[n]) /\ s = socket[n]
        BY WayType DEF Typed
      <3>2. OnTheWay(n) = (<<>> \o a) \o s
        BY <1>0, <2>2, <3>1 DEF OnTheWay
      <3>3. OnTheWay(n)' = (a \o <<>>) \o s
        <4>1. OneOrNone(inHand[n])' = a /\ OneOrNone(inHdr[n])' = <<>> /\ socket[n]' = s
          BY <1>0, <1>t, <2>1, <3>1
        <4> QED BY <4>1 DEF OnTheWay
      <3>4. <<>> \o a = a /\ a \o <<>> = a
        BY ConcatEmptySeq
      <3> QED BY <3>2, <3>3, <3>4
    <2>5. \A k \in Machines, b \in Boxes : MailIn(k, b)' = MailIn(k, b)
      <3>1. ASSUME NEW k \in Machines, k # n, NEW b \in Boxes PROVE MailIn(k, b)' = MailIn(k, b)
        BY <1>t, <2>1, <3>1, MailAsBefore
      <3>2. ASSUME NEW b \in Boxes PROVE MailIn(n, b)' = MailIn(n, b)
        BY <2>1, <2>4 DEF MailIn
      <3> QED BY <3>1, <3>2
    <2> QED BY <2>5, MailStays
  <1> QED BY <1>1, <1>2

\* What the worker puts into a box was the first on its way there.
LEMMA MailPut ==
    ASSUME Typed, PacketInHand, NEW n \in Machines, WorkerPut(n)
    PROVE  mail' = mail
  <1>t. /\ inHand \in [Machines -> Packet \cup {NoPacket}]
        /\ boxes \in [Machines -> [Boxes -> Seq(Letter)]]
    BY DEF Typed, TypeOK
  <1>0. OneOrNone(NoPacket) = <<>> /\ \A p \in Packet : OneOrNone(p) = <<p>>
    BY NoPacketAssumption DEF OneOrNone
  <1>1. PICK p \in Packet : p = inHand[n]
    BY <1>t DEF WorkerPut
  <1>2. p.box \in Boxes /\ p.letter \in Letter
    BY DEF Packet
  <1>3. PICK box : box = Append(boxes[n][p.box], p.letter)
    OBVIOUS
  <1>4. /\ boxes' = [boxes EXCEPT ![n][p.box] = box] /\ inHand' = [inHand EXCEPT ![n] = NoPacket]
        /\ UNCHANGED <<inHdr, socket>>
    BY <1>1, <1>3 DEF WorkerPut, PutInBox
  <1>5. PICK rest \in Seq(Packet) : rest = OneOrNone(inHdr[n]) \o socket[n]
    <2>1. OneOrNone(inHdr[n]) \in Seq(Packet) /\ socket[n] \in Seq(Packet)
      BY WayType DEF Typed
    <2>2. OneOrNone(inHdr[n]) \o socket[n] \in Seq(Packet)
      BY <2>1, ConcatProperties
    <2> QED BY <2>2
  <1>6. OnTheWay(n)' = rest
    <2>1. OneOrNone(inHand[n])' = <<>> /\ OneOrNone(inHdr[n])' = OneOrNone(inHdr[n])
          /\ socket[n]' = socket[n]
      BY <1>0, <1>t, <1>4
    <2>2. OnTheWay(n)' = (<<>> \o OneOrNone(inHdr[n])) \o socket[n]
      BY <2>1 DEF OnTheWay
    <2>3. <<>> \o OneOrNone(inHdr[n]) = OneOrNone(inHdr[n])
      BY WayType, ConcatEmptySeq DEF Typed
    <2> QED BY <1>5, <2>2, <2>3
  <1>7. OnTheWay(n) = <<p>> \o rest
    <2>1. PICK a \in Seq(Packet), s \in Seq(Packet) : a = OneOrNone(inHdr[n]) /\ s = socket[n]
      BY WayType DEF Typed
    <2>2. OnTheWay(n) = (<<p>> \o a) \o s
      BY <1>0, <1>1, <2>1 DEF OnTheWay
    <2>3. (<<p>> \o a) \o s = <<p>> \o (a \o s)
      <3>1. <<p>> \in Seq(Packet)
        OBVIOUS
      <3> QED BY <3>1, ConcatAssociative
    <2> QED BY <1>5, <2>1, <2>2, <2>3
  <1>8. ASSUME NEW b \in Boxes
        PROVE  LettersFor(OnTheWay(n), b) = Part(p, b) \o LettersFor(rest, b)
    <2>1. PICK way : way = <<p>> \o rest
      OBVIOUS
    <2>2. way \in Seq(Packet) /\ way # <<>> /\ Head(way) = p /\ Tail(way) = rest
      BY <2>1
    <2>3. LettersFor(way, b) = Part(Head(way), b) \o LettersFor(Tail(way), b)
      BY <2>2, LettersHead
    <2> QED BY <1>7, <2>1, <2>2, <2>3
  <1>9. \A k \in Machines, b \in Boxes : MailIn(k, b)' = MailIn(k, b)
    <2>1. ASSUME NEW k \in Machines, k # n, NEW b \in Boxes PROVE MailIn(k, b)' = MailIn(k, b)
      BY <1>t, <1>4, <2>1, MailAsBefore
    <2>2. ASSUME NEW b \in Boxes PROVE MailIn(n, b)' = MailIn(n, b)
      <3>1. PICK old \in Seq(Letter), part \in Seq(Letter), letters \in Seq(Letter) :
                  old = boxes[n][b] /\ part = Part(p, b) /\ letters = LettersFor(rest, b)
        BY <1>t, LettersAppend, PartType
      <3>2. MailIn(n, b) = old \o (part \o letters)
        BY <1>8, <3>1 DEF MailIn
      <3>3. boxes'[n][b] = old \o part
        <4>1. CASE b = p.box
          BY <1>t, <1>2, <1>3, <1>4, <3>1, <4>1, AppendIsConcat DEF Part
        <4>2. CASE b # p.box
          <5>1. boxes'[n][b] = old /\ part = <<>>
            BY <1>t, <1>4, <3>1, <4>2 DEF Part
          <5> QED BY <5>1, ConcatEmptySeq
        <4> QED BY <4>1, <4>2
      <3>4. MailIn(n, b)' = (old \o part) \o letters
        BY <1>6, <3>1, <3>3 DEF MailIn
      <3>5. (old \o part) \o letters = old \o (part \o letters)
        BY ConcatAssociative
      <3> QED BY <3>2, <3>4, <3>5
    <2> QED BY <2>1, <2>2
  <1> QED BY <1>9, MailStays

MailStep == [Service!MSNext]_<<mail, posted, up>>

\* A packet that is handed to the device is a letter posted, or lost as it may be.
LEMMA MailPosted ==
    ASSUME Typed, Written, NEW t \in Threads, NetworkSend(t)
    PROVE  MailStep
  <1>1. PICK p \in Packet : p = letter[t]
    BY DEF Typed, NetworkSend
  <1>2. p.to \in Machines /\ p.box \in Boxes /\ p.letter \in Letter
    BY DEF Packet
  <1>3. p.letter = Service!Letter(t)
    BY <1>1 DEF Written, NetworkSend, Service!Letter
  <1>4. /\ posted' = [posted EXCEPT ![t] = @ + 1] /\ up' = up
        /\ UNCHANGED <<inHand, inHdr, boxes>>
        /\ \/ machineOf[t] \notin Reliable /\ UNCHANGED socket
           \/ socket' = [socket EXCEPT ![p.to] = Append(@, p)]
           \/ ~up[p.to] /\ UNCHANGED socket
    BY <1>1 DEF NetworkSend, receiveVars
  <1>5. ASSUME mail' = mail, machineOf[t] \notin Reliable \/ ~up[p.to] PROVE MailStep
    <2>1. Service!Post(t, p.to, p.box)
      BY <1>4, <1>5 DEF Service!Post
    <2> QED BY <1>2, <2>1 DEF Service!MSNext, MailStep
  <1>6. ASSUME socket' = [socket EXCEPT ![p.to] = Append(@, p)] PROVE MailStep
    <2>1. PICK n \in Machines : n = p.to
      BY <1>2
    <2>2. PICK b \in Boxes : b = p.box
      BY <1>2
    <2>t. /\ socket \in [Machines -> Seq(Packet)]
          /\ boxes[n] \in [Boxes -> Seq(Letter)]
      BY DEF Typed, TypeOK
    <2>3. PICK way \in Seq(Packet) : way = OnTheWay(n)
      BY WayType DEF Typed
    <2>4. OnTheWay(n)' = Append(way, p)
      <3>1. PICK a \in Seq(Packet), c \in Seq(Packet), s \in Seq(Packet) :
                  a = OneOrNone(inHand[n]) /\ c = OneOrNone(inHdr[n]) /\ s = socket[n]
        BY WayType DEF Typed
      <3>2. way = (a \o c) \o s
        BY <2>3, <3>1 DEF OnTheWay
      <3>3. OneOrNone(inHand[n])' = a /\ OneOrNone(inHdr[n])' = c /\ socket[n]' = Append(s, p)
        BY <1>4, <1>6, <2>t, <2>1, <3>1 DEF OneOrNone
      <3>4. OnTheWay(n)' = (a \o c) \o Append(s, p)
        BY <3>3 DEF OnTheWay
      <3>5. PICK d \in Seq(Packet) : d = a \o c
        <4>1. a \o c \in Seq(Packet)
          BY ConcatProperties
        <4> QED BY <4>1
      <3>6. d \o Append(s, p) = Append(d \o s, p)
        <4>1. Append(s, p) = s \o <<p>> /\ Append(d \o s, p) = (d \o s) \o <<p>> /\ <<p>> \in Seq(Packet)
          BY AppendIsConcat
        <4>2. \A last \in Seq(Packet) : (d \o s) \o last = d \o (s \o last)
          BY ConcatAssociative
        <4> QED BY <4>1, <4>2
      <3> QED BY <3>2, <3>4, <3>5, <3>6
    <2>5. ASSUME NEW c \in Boxes
          PROVE  /\ MailIn(n, c)' = MailIn(n, c) \o Part(p, c)
                 /\ MailIn(n, c) \in Seq(Letter)
      <3>1. PICK box \in Seq(Letter), letters \in Seq(Letter), part \in Seq(Letter) :
                  box = boxes[n][c] /\ letters = LettersFor(way, c) /\ part = Part(p, c)
        BY <2>t, LettersAppend, PartType
      <3>2. MailIn(n, c) = box \o letters
        BY <2>3, <3>1 DEF MailIn
      <3>3. MailIn(n, c)' = box \o (letters \o part)
        BY <1>4, <2>4, <3>1, LettersAppend DEF MailIn
      <3>4. box \o (letters \o part) = (box \o letters) \o part
        BY ConcatAssociative
      <3>5. box \o letters \in Seq(Letter)
        OBVIOUS
      <3> QED BY <3>1, <3>2, <3>3, <3>4, <3>5
    <2>6. MailIn(n, b)' = Append(MailIn(n, b), p.letter)
      <3>1. Part(p, b) = <<p.letter>>
        BY <2>2 DEF Part
      <3> QED BY <1>2, <2>5, <3>1, AppendIsConcat
    <2>7. ASSUME NEW k \in Machines, NEW c \in Boxes, k # n \/ c # b
          PROVE  MailIn(k, c)' = MailIn(k, c)
      <3>1. CASE k # n
        BY <1>4, <1>6, <2>t, <2>1, <3>1, MailAsBefore
      <3>2. CASE k = n /\ c # b
        <4>1. Part(p, c) = <<>>
          BY <2>2, <3>2 DEF Part
        <4> QED BY <2>5, <3>2, <4>1, ConcatEmptySeq
      <3> QED BY <2>7, <3>1, <3>2
    <2>8. mail' = [mail EXCEPT ![n][b] = Append(MailIn(n, b), p.letter)]
      BY <2>6, <2>7, MailChanges
    <2>9. mail[n][b] = MailIn(n, b)
      BY DEF mail, MailIn
    <2>10. mail' = [mail EXCEPT ![n][b] = Append(@, Service!Letter(t))]
      BY <1>3, <2>8, <2>9
    <2>11. Service!Post(t, n, b)
      BY <1>4, <2>10 DEF Service!Post
    <2> QED BY <2>11 DEF Service!MSNext, MailStep
  <1>7. ASSUME UNCHANGED socket PROVE mail' = mail
    BY <1>4, <1>7, MailKept
  <1> QED BY <1>4, <1>5, <1>6, <1>7

LEMMA MailTaken ==
    ASSUME Typed, NEW n \in Machines, NEW b \in Boxes, Receive(n, b)
    PROVE  MailStep
  <1>t. boxes \in [Machines -> [Boxes -> Seq(Letter)]]
    BY DEF Typed, TypeOK
  <1>1. PICK box \in Seq(Letter) : box = boxes[n][b]
    BY <1>t
  <1>2. PICK letters \in Seq(Letter) : letters = LettersFor(OnTheWay(n), b)
    <2>1. OnTheWay(n) \in Seq(Packet)
      BY WayType DEF Typed
    <2>2. LettersFor(OnTheWay(n), b) \in Seq(Letter)
      BY <2>1, LettersType
    <2> QED BY <2>2
  <1>3. /\ up[n] /\ box # <<>> /\ boxes' = [boxes EXCEPT ![n][b] = Tail(box)]
        /\ UNCHANGED <<up, posted, inHand, inHdr, socket>>
    BY <1>1 DEF Receive, Get, sendVars
  <1>4. \A k \in Machines : OnTheWay(k)' = OnTheWay(k)
    BY <1>3 DEF OnTheWay, OneOrNone
  <1>5. MailIn(n, b) = box \o letters
    BY <1>1, <1>2 DEF MailIn
  <1>6. MailIn(n, b)' = Tail(box) \o letters
    BY <1>t, <1>2, <1>3, <1>4 DEF MailIn
  <1>7. box \o letters # <<>> /\ Tail(box \o letters) = Tail(box) \o letters
    BY <1>3, HeadTailProperties, ConcatSimplifications
  <1>8. \A k \in Machines, c \in Boxes : k # n \/ c # b => MailIn(k, c)' = MailIn(k, c)
    BY <1>t, <1>3, <1>4 DEF MailIn
  <1>9. mail' = [mail EXCEPT ![n][b] = Tail(box) \o letters]
    BY <1>6, <1>8, MailChanges
  <1>10. mail[n][b] = box \o letters
    BY <1>5 DEF mail, MailIn
  <1>11. mail[n][b] # <<>> /\ mail' = [mail EXCEPT ![n][b] = Tail(@)]
    BY <1>7, <1>9, <1>10
  <1>12. Service!Take(n, b)
    BY <1>3, <1>11 DEF Service!Take
  <1> QED BY <1>12 DEF Service!MSNext, MailStep

LEMMA MailStopped ==
    ASSUME NEW n \in Machines, up' = [up EXCEPT ![n] = FALSE],
           UNCHANGED <<posted, inHand, inHdr, socket, boxes>>
    PROVE  MailStep
  BY MailKept DEF Service!Stop, Service!MSNext, MailStep

LEMMA MailSteps == Typed /\ Written /\ PacketInHand /\ [Next]_vars => MailStep
  <1> SUFFICES ASSUME Typed, Written, PacketInHand, [Next]_vars PROVE MailStep
    OBVIOUS
  <1>1. ASSUME UNCHANGED <<up, posted, inHand, inHdr, socket, boxes>> PROVE MailStep
    BY <1>1, MailKept DEF MailStep
  <1>2. ASSUME NEW t \in Threads, Sending(t) PROVE MailStep
    <2>1. CASE AcquireSendLock(t)
      BY <1>1, <2>1 DEF AcquireSendLock, receiveVars
    <2>2. CASE NetworkSend(t)
      BY <2>2, MailPosted
    <2>3. CASE AwaitSent(t)
      BY <1>1, <2>3 DEF AwaitSent, receiveVars
    <2>4. CASE ReleaseSendLock(t)
      <3>1. /\ up' = up \/ up' = [up EXCEPT ![machineOf[t]] = FALSE]
            /\ UNCHANGED <<posted, inHand, inHdr, socket, boxes>>
        BY <2>4 DEF ReleaseSendLock, receiveVars
      <3>2. machineOf[t] \in Machines
        BY PostOfficeAssumption
      <3> QED BY <1>1, <3>1, <3>2, MailStopped
    <2> QED BY <1>2, <2>1, <2>2, <2>3, <2>4 DEF Sending
  <1>3. ASSUME NEW t \in Threads, NEW n \in Machines, NEW b \in Boxes, Send(t, n, b) PROVE MailStep
    BY <1>1, <1>3 DEF Send, receiveVars
  <1>4. ASSUME NEW n \in Machines, Delivering(n) PROVE MailStep
    <2>1. CASE CheckPktAvail(n) \/ WorkerReceive(n)
      <3>1. mail' = mail /\ UNCHANGED <<up, posted>>
        BY <2>1, MailMoves DEF CheckPktAvail, WorkerReceive, sendVars
      <3> QED BY <3>1 DEF MailStep
    <2>2. CASE WorkerP(n)
      BY <1>1, <2>2 DEF WorkerP, sendVars
    <2>3. CASE WorkerPut(n)
      <3>1. mail' = mail /\ UNCHANGED <<up, posted>>
        BY <2>3, MailPut DEF WorkerPut, sendVars
      <3> QED BY <3>1 DEF MailStep
    <2> QED BY <1>4, <2>1, <2>2, <2>3 DEF Delivering
  <1>5. ASSUME NEW n \in Machines, SendDone(n) PROVE MailStep
    BY <1>1, <1>5 DEF SendDone, receiveVars
  <1>6. ASSUME NEW n \in Machines, Halt(n) PROVE MailStep
    BY <1>6, MailStopped DEF Halt, sendVars, receiveVars
  <1>7. ASSUME NEW n \in Machines, NEW b \in Boxes, Receive(n, b) PROVE MailStep
    BY <1>7, MailTaken
  <1>8. CASE UNCHANGED vars
    BY <1>1, <1>8 DEF vars, sendVars, receiveVars
  <1> QED BY <1>2, <1>3, <1>4, <1>5, <1>6, <1>7, <1>8 DEF Next

LEMMA MailInit == Init => Service!MSInit
  <1> SUFFICES ASSUME Init PROVE Service!MSInit
    OBVIOUS
  <1>1. ASSUME NEW n \in Machines, NEW b \in Boxes
        PROVE  MailIn(n, b) = <<>>
    <2>1. /\ inHand[n] = NoPacket /\ inHdr[n] = NoPacket /\ socket[n] = <<>> /\ boxes[n][b] = <<>>
      BY DEF Init, NewPostOffice, NewNetwork, NewMailBoxes
    <2>2. OneOrNone(NoPacket) = <<>>
      BY DEF OneOrNone
    <2>3. <<>> \o <<>> = <<>>
      BY ConcatEmptySeq
    <2>4. OnTheWay(n) = <<>>
      BY Zenon, <2>1, <2>2, <2>3 DEF OnTheWay
    <2> QED BY Zenon, <2>1, <2>3, <2>4, NoLetters DEF MailIn
  <1>2. mail = [n \in Machines |-> [b \in Boxes |-> <<>>]]
    BY <1>1 DEF mail, MailIn
  <1> QED BY <1>2 DEF Init, Service!MSInit

\* Whatever the number of machines, threads, boxes and letters, with loss and halts:
\* the mail boxes, the packet in the worker's hand, the one in the device's buffer
\* and those in the socket are one queue per box, in which each letter posted is
\* once, in its place, unless the network lost it or the receiver had halted.
THEOREM MailIsDelivered == Spec => ImplementsMail
  <1>1. Init => Typed /\ Written /\ PacketInHand /\ Service!MSInit
    <2>1. Init => Written /\ PacketInHand
      BY DEF Init, NewPostOffice, NewNetwork, NewMailBoxes, Written, PacketInHand
    <2> QED BY <2>1, TypesInit, MailInit
  <1>2. Typed /\ Written /\ PacketInHand /\ [Next]_vars
          => /\ Typed' /\ Written' /\ PacketInHand'
             /\ [Service!MSNext]_<<mail, posted, up>>
    BY TypesStep, WrittenStep, PacketStep, MailSteps DEF MailStep
  <1> QED BY <1>1, <1>2, PTL DEF Spec, ImplementsMail, Service!MSSpec
=============================================================================
