------------------------------ MODULE PostOffice ------------------------------
(***************************************************************************)
(* The post office of each machine (network/post.cc) and the network       *)
(* device below it (machine/network.cc).                                   *)
(*                                                                         *)
(* A thread that sends holds sendLock from handing its packet to the       *)
(* device until the device's interrupt says that the next may go.  The     *)
(* device polls its socket and buffers one packet; the interrupt handler   *)
(* tells the postal worker, a thread of its own, which sorts the letters   *)
(* into mailboxes.                                                         *)
(*                                                                         *)
(* Semaphores, locks and the synchronized lists of the mailboxes are used  *)
(* as what they promise (module Synch): a count, an owner, a queue whose   *)
(* Remove blocks.  A step is what runs between two points where the kernel *)
(* enables interrupts.  A letter's contents are its sender and its number. *)
(***************************************************************************)
EXTENDS Integers, Sequences, FiniteSets, SequencesExt

CONSTANTS
    Threads,          \* threads that send, on every machine
    Machines,
    machineOf,        \* the machine of each thread
    Boxes,            \* 0 .. numBoxes - 1
    NoThread, NoPacket,
    Reliable,         \* machines whose network loses nothing (no option -l)
    MayHalt,          \* machines that may halt
    MaxLetters        \* bound: the letters a thread sends

ASSUME PostOfficeAssumption ==
    /\ machineOf \in [Threads -> Machines]
    /\ NoThread \notin Threads
    /\ Reliable \subseteq Machines
    /\ MayHalt \subseteq Machines
    /\ MaxLetters \in Nat

VARIABLES
    up,               \* is the machine running?
    pc,               \* where each sending thread is in PostOffice::Send
    letter,           \* what it sends
    success,          \* what Network::Send returned to it
    posted,           \* how many letters it has handed to the device
    sendLock,         \* per machine, the owner of sendLock
    messageSent, messageAvailable,     \* the values of the two semaphores
    sendDue,          \* pending NetworkSendDone interrupts
    socket,           \* packets the host holds for the machine
    inHdr,            \* the device's buffer
    worker,           \* where the postal worker is
    inHand,           \* the packet it copied from the device
    boxes             \* the mailboxes

sendVars == <<pc, letter, success, posted, sendLock, messageSent, sendDue>>
receiveVars == <<messageAvailable, inHdr, worker, inHand, boxes>>
vars == <<up, sendVars, socket, receiveVars>>

Letter == [from : Threads, number : 1 .. MaxLetters]
Packet == [to : Machines, box : Boxes, letter : Letter]

ASSUME NoPacketAssumption == NoPacket \notin Packet

\* MailBox::MailBox
NewMailBoxes == boxes = [n \in Machines |-> [b \in Boxes |-> <<>>]]

\* Network::Network: nothing is being sent, and nothing has been received.
NewNetwork == /\ sendDue = [n \in Machines |-> 0]
              /\ socket = [n \in Machines |-> <<>>]
              /\ inHdr = [n \in Machines |-> NoPacket]

\* PostOffice::PostOffice: the worker, once it has been forked, waits for a packet.
NewPostOffice ==
    /\ messageAvailable = [n \in Machines |-> 0]
    /\ messageSent = [n \in Machines |-> 0]
    /\ sendLock = [n \in Machines |-> NoThread]
    /\ NewMailBoxes
    /\ NewNetwork
    /\ worker = [n \in Machines |-> "P"]
    /\ inHand = [n \in Machines |-> NoPacket]

Init ==
    /\ up = [n \in Machines |-> TRUE]
    /\ NewPostOffice
    /\ pc = [t \in Threads |-> "Run"]
    /\ letter = [t \in Threads |-> NoPacket]
    /\ success = [t \in Threads |-> TRUE]
    /\ posted = [t \in Threads |-> 0]

-----------------------------------------------------------------------------
(* Sending *)

\* Thread t calls Send, and is about to acquire sendLock.
Send(t, n, b) ==
    /\ up[machineOf[t]]
    /\ pc[t] = "Run"
    /\ posted[t] < MaxLetters
    /\ pc' = [pc EXCEPT ![t] = "Acquire"]
    /\ letter' = [letter EXCEPT ![t] =
           [to |-> n, box |-> b, letter |-> [from |-> t, number |-> posted[t] + 1]]]
    /\ UNCHANGED <<up, success, posted, sendLock, messageSent, sendDue, socket, receiveVars>>

AcquireSendLock(t) ==
    /\ up[machineOf[t]]
    /\ pc[t] = "Acquire"
    /\ sendLock[machineOf[t]] = NoThread
    /\ pc' = [pc EXCEPT ![t] = "NetworkSend"]
    /\ sendLock' = [sendLock EXCEPT ![machineOf[t]] = t]
    /\ UNCHANGED <<up, letter, success, posted, messageSent, sendDue, socket, receiveVars>>

\* Network::Send: the interrupt is due whatever becomes of the packet; the host
\* takes it only for a machine that runs.
NetworkSend(t) ==
    LET p == letter[t] IN
    /\ up[machineOf[t]]
    /\ pc[t] = "NetworkSend"
    /\ pc' = [pc EXCEPT ![t] = "P"]
    /\ posted' = [posted EXCEPT ![t] = @ + 1]
    /\ sendDue' = [sendDue EXCEPT ![machineOf[t]] = @ + 1]
    /\ \/ \* "oops, lost it!"
          /\ machineOf[t] \notin Reliable
          /\ success' = [success EXCEPT ![t] = TRUE]
          /\ UNCHANGED socket
       \/ /\ up[p.to]
          /\ success' = [success EXCEPT ![t] = TRUE]
          /\ socket' = [socket EXCEPT ![p.to] = Append(@, p)]
       \/ /\ ~up[p.to]
          /\ success' = [success EXCEPT ![t] = FALSE]
          /\ UNCHANGED socket
    /\ UNCHANGED <<up, letter, sendLock, messageSent, receiveVars>>

\* messageSent->P()
AwaitSent(t) ==
    LET n == machineOf[t] IN
    /\ up[n]
    /\ pc[t] = "P"
    /\ messageSent[n] > 0
    /\ messageSent' = [messageSent EXCEPT ![n] = @ - 1]
    /\ pc' = [pc EXCEPT ![t] = "Release"]
    /\ UNCHANGED <<up, letter, success, posted, sendLock, sendDue, socket, receiveVars>>

\* sendLock->Release() and the return; a caller whose Send failed halts its
\* machine ("You must not have the other Nachos running").
ReleaseSendLock_Forgotten(n) == UNCHANGED sendLock
ReleaseLock(n) == sendLock' = [sendLock EXCEPT ![n] = NoThread]
ReleaseSendLock(t) ==
    LET n == machineOf[t] IN
    /\ up[n]
    /\ pc[t] = "Release"
    /\ pc' = [pc EXCEPT ![t] = "Run"]
    /\ letter' = [letter EXCEPT ![t] = NoPacket]
    /\ ReleaseLock(n)
    /\ up' = IF success[t] THEN up ELSE [up EXCEPT ![n] = FALSE]
    /\ UNCHANGED <<success, posted, messageSent, sendDue, socket, receiveVars>>

\* Interrupt: Network::SendDone, PostOffice::PacketSent.
SendDone(n) ==
    /\ up[n]
    /\ sendDue[n] > 0
    /\ sendDue' = [sendDue EXCEPT ![n] = @ - 1]
    /\ messageSent' = [messageSent EXCEPT ![n] = @ + 1]
    /\ UNCHANGED <<up, pc, letter, success, posted, sendLock, socket, receiveVars>>

-----------------------------------------------------------------------------
(* Receiving *)

\* Interrupt: Network::CheckPktAvail, PostOffice::IncomingPacket.
BufferFree_NotChecked(n) == TRUE
BufferFree(n) == inHdr[n] = NoPacket
IncomingPacket(n) == messageAvailable' = [messageAvailable EXCEPT ![n] = @ + 1]
CheckPktAvail(n) ==
    /\ up[n]
    /\ BufferFree(n)
    /\ socket[n] # <<>>
    /\ inHdr' = [inHdr EXCEPT ![n] = Head(socket[n])]
    /\ socket' = [socket EXCEPT ![n] = Tail(@)]
    /\ IncomingPacket(n)
    /\ UNCHANGED <<up, sendVars, worker, inHand, boxes>>

\* PostalDelivery: messageAvailable->P(), then network->Receive(), then Put.
WorkerP(n) ==
    /\ up[n]
    /\ worker[n] = "P"
    /\ messageAvailable[n] > 0
    /\ messageAvailable' = [messageAvailable EXCEPT ![n] = @ - 1]
    /\ worker' = [worker EXCEPT ![n] = "Receive"]
    /\ UNCHANGED <<up, sendVars, socket, inHdr, inHand, boxes>>

WorkerReceive(n) ==
    /\ up[n]
    /\ worker[n] = "Receive"
    /\ inHand' = [inHand EXCEPT ![n] = inHdr[n]]
    /\ inHdr' = [inHdr EXCEPT ![n] = NoPacket]
    /\ worker' = [worker EXCEPT ![n] = "Put"]
    /\ UNCHANGED <<up, sendVars, socket, messageAvailable, boxes>>

\* A packet of length 0 holds whatever the worker's buffer held before: with
\* NoPacket in hand nothing can be said (see PacketInHand).
PutInBox_InFront(box, item) == <<item>> \o box
PutInBox(box, item) == Append(box, item)
WorkerPut(n) ==
    LET p == inHand[n] IN
    /\ up[n]
    /\ worker[n] = "Put"
    /\ p # NoPacket
    /\ boxes' = [boxes EXCEPT ![n][p.box] = PutInBox(@, p.letter)]
    /\ inHand' = [inHand EXCEPT ![n] = NoPacket]
    /\ worker' = [worker EXCEPT ![n] = "P"]
    /\ UNCHANGED <<up, sendVars, socket, messageAvailable, inHdr>>

\* MailBox::Get by some thread of the machine.
Get(n, b) == /\ boxes[n][b] # <<>>
             /\ boxes' = [boxes EXCEPT ![n][b] = Tail(@)]
Receive(n, b) ==
    /\ up[n]
    /\ Get(n, b)
    /\ UNCHANGED <<up, sendVars, socket, messageAvailable, inHdr, worker, inHand>>

\* Interrupt::Halt: the machine's process exits.
Halt(n) ==
    /\ n \in MayHalt
    /\ up[n]
    /\ up' = [up EXCEPT ![n] = FALSE]
    /\ UNCHANGED <<sendVars, socket, receiveVars>>

-----------------------------------------------------------------------------

Sending(t) == AcquireSendLock(t) \/ NetworkSend(t) \/ AwaitSent(t) \/ ReleaseSendLock(t)
Delivering(n) == CheckPktAvail(n) \/ WorkerP(n) \/ WorkerReceive(n) \/ WorkerPut(n)

Next ==
    \/ \E t \in Threads : Sending(t) \/ \E n \in Machines, b \in Boxes : Send(t, n, b)
    \/ \E n \in Machines : \/ SendDone(n) \/ Delivering(n) \/ Halt(n)
                           \/ \E b \in Boxes : Receive(n, b)

Spec == Init /\ [][Next]_vars

\* Interrupts that are due come, ready threads run, a lock is handed on in turn.
Fairness ==
    /\ \A t \in Threads : SF_vars(AcquireSendLock(t)) /\ WF_vars(Sending(t))
    /\ \A n \in Machines : WF_vars(SendDone(n)) /\ WF_vars(Delivering(n))

FairSpec == Spec /\ Fairness

-----------------------------------------------------------------------------
(* Properties *)

TypeOK ==
    /\ up \in [Machines -> BOOLEAN]
    /\ pc \in [Threads -> {"Run", "Acquire", "NetworkSend", "P", "Release"}]
    /\ letter \in [Threads -> Packet \cup {NoPacket}]
    /\ success \in [Threads -> BOOLEAN]
    /\ posted \in [Threads -> 0 .. MaxLetters]
    /\ sendLock \in [Machines -> Threads \cup {NoThread}]
    /\ messageSent \in [Machines -> Nat]
    /\ messageAvailable \in [Machines -> Nat]
    /\ sendDue \in [Machines -> Nat]
    /\ socket \in [Machines -> Seq(Packet)]
    /\ inHdr \in [Machines -> Packet \cup {NoPacket}]
    /\ worker \in [Machines -> {"P", "Receive", "Put"}]
    /\ inHand \in [Machines -> Packet \cup {NoPacket}]
    /\ boxes \in [Machines -> [Boxes -> Seq(Letter)]]

\* The device has at most one packet to send, for the thread that owns sendLock:
\* its interrupt or its V is outstanding exactly while that thread waits for it.
\* (Network::Send asserts that it is not busy, but sendBusy is never set.)
OneSendOutstanding ==
    \A n \in Machines :
        sendDue[n] + messageSent[n] =
            IF sendLock[n] # NoThread /\ pc[sendLock[n]] = "P" THEN 1 ELSE 0

\* The worker is told of a packet exactly while one lies in the device's buffer:
\* it never finds the buffer empty, and the poll never overwrites a packet.
PacketInHand ==
    \A n \in Machines :
        /\ messageAvailable[n] + (IF worker[n] = "Receive" THEN 1 ELSE 0)
             = IF inHdr[n] = NoPacket THEN 0 ELSE 1
        /\ worker[n] = "Put" <=> inHand[n] # NoPacket

\* Both, that is all the device relies on.
DeviceInStep == OneSendOutstanding /\ PacketInHand

\* The packets for machine n, in the order in which they will arrive, and the
\* letters among them for box b.
OneOrNone(p) == IF p = NoPacket THEN <<>> ELSE <<p>>
OnTheWay(n) == OneOrNone(inHand[n]) \o OneOrNone(inHdr[n]) \o socket[n]
LettersFor(packets, b) ==
    FlattenSeq([i \in DOMAIN packets |->
                  IF packets[i].box = b THEN <<packets[i].letter>> ELSE <<>>])

mail == [n \in Machines |-> [b \in Boxes |-> boxes[n][b] \o LettersFor(OnTheWay(n), b)]]

Service == INSTANCE MailService WITH
    Reliable <- {t \in Threads : machineOf[t] \in Reliable}

\* From the device of the sender to the box of the receiver, letters stay in
\* order, none is delivered twice, and none is lost but by the network.
ImplementsMail == Service!MSSpec

\* A letter that the network took arrives in its box, and Send returns, or the machine has halted.
InTransit(l, n, b) ==
    LET packets == OnTheWay(n)
    IN  \E i \in DOMAIN packets : packets[i].box = b /\ packets[i].letter = l
PostingEnds ==
    /\ \A n \in Machines, b \in Boxes, l \in Letter :
          InTransit(l, n, b) ~> ~InTransit(l, n, b) \/ ~up[n]
    /\ \A t \in Threads : pc[t] # "Run" ~> pc[t] = "Run" \/ ~up[machineOf[t]]
=============================================================================
