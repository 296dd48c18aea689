---------------------------- MODULE MonitorServer ----------------------------
(***************************************************************************)
(* Monitor variables (shared arrays of integers) of the server in          *)
(* network/nettest.cc and the client calls of userprog/lock_syscalls.cc.   *)
(*                                                                         *)
(* The handlers run in the loop of module LockServer but share no state    *)
(* with locks and conditions.  Each client machine has one thread here,    *)
(* blocked from its request to the first mail in its mailbox.              *)
(***************************************************************************)
EXTENDS Integers, Sequences, FiniteSets

CONSTANTS
    Clients,
    MonNames, NoName,
    Sizes,            \* the array sizes clients ask for
    Values,           \* the values they set
    ArrayIndices,     \* the array indices they use
    MAX_MON_COUNT,    \* 50 in threads/system.h
    MAX_ARR_COUNT,    \* 10
    MaxStale          \* bound: a client with more unread mail sends no more

MonIds == 0 .. MAX_MON_COUNT - 1

ASSUME MonitorServerAssumption ==
    /\ Sizes \subseteq Int /\ Values \subseteq Nat /\ ArrayIndices \subseteq Int
    /\ MAX_MON_COUNT \in Nat \ {0}
    /\ MAX_ARR_COUNT \in Nat \ {0}
    /\ MaxStale \in Nat
    /\ NoName \notin MonNames

VARIABLES
    call,             \* the call each client is blocked in, Idle or Halted
    requests,         \* the mail from each client
    inbox,            \* the mail to each client
    serverMons, serverMonCount,
    overrun           \* has a handler written past the end of an array?

vars == <<call, requests, inbox, serverMons, serverMonCount, overrun>>

Idle   == [op |-> "Idle"]
Halted == [op |-> "Halted"]

Request ==
    [op : {"Create"}, name : MonNames, size : Sizes]
        \cup [op : {"Get"}, mon : MonIds, index : ArrayIndices]
        \cup [op : {"Set"}, mon : MonIds, index : ArrayIndices, value : Values]
        \cup [op : {"Destroy"}, mon : MonIds]

\* What new int[] leaves in an element: 0, or what the memory held before.
Unset == -1
Elements == 0 .. MAX_ARR_COUNT - 1
UnusedMon == [name |-> NoName, isDeleted |-> FALSE, size |-> 0,
              values |-> [i \in Elements |-> Unset]]

validateMonitorIndex(i) == i < serverMonCount /\ ~serverMons[i].isDeleted
validateArrayIndex(i) == i >= 0 /\ i < MAX_ARR_COUNT

Init ==
    /\ call = [c \in Clients |-> Idle]
    /\ requests = [c \in Clients |-> <<>>]
    /\ inbox = [c \in Clients |-> <<>>]
    /\ serverMons = [i \in MonIds |-> UnusedMon]
    /\ serverMonCount = 0
    /\ overrun = FALSE

-----------------------------------------------------------------------------
(* The clients *)

\* Mail that holds a number, and mail that holds words.
Number(i) == [text |-> "Number", value |-> i]
Words     == [text |-> "Words", value |-> 0]

Send(c, r) ==
    /\ call[c] = Idle
    /\ Len(inbox[c]) <= MaxStale
    /\ call' = [call EXCEPT ![c] = r]
    /\ requests' = [requests EXCEPT ![c] = Append(@, r)]
    /\ UNCHANGED <<inbox, serverMons, serverMonCount, overrun>>

\* ss >> currentMonIndex leaves -1 or 0 when the mail holds words; -1 halts.
Parsed(m) == IF m.text = "Number" THEN {m.value} ELSE {-1, 0}

\* The first mail in the mailbox ends the call, whatever it answers.
Receive(c) ==
    /\ call[c] \notin {Idle, Halted}
    /\ inbox[c] # <<>>
    /\ inbox' = [inbox EXCEPT ![c] = Tail(@)]
    /\ \/ /\ call[c].op = "Create" => Parsed(Head(inbox[c])) # {-1}
          /\ call' = [call EXCEPT ![c] = Idle]
       \/ /\ call[c].op = "Create"
          /\ -1 \in Parsed(Head(inbox[c]))
          /\ call' = [call EXCEPT ![c] = Halted]
    /\ UNCHANGED <<requests, serverMons, serverMonCount, overrun>>

-----------------------------------------------------------------------------
(* The server *)

\* The server takes c's request.  After a write outside an array nothing is said.
Taken(c, op) ==
    /\ ~overrun
    /\ requests[c] # <<>>
    /\ Head(requests[c]).op = op
    /\ requests' = [requests EXCEPT ![c] = Tail(@)]
    /\ UNCHANGED call

Mailed(c, mails) == inbox' = [inbox EXCEPT ![c] = @ \o mails]

MonsNamed_LoopStopsEarly(name) ==
    {i \in MonIds : /\ i < serverMonCount - 1
                    /\ serverMons[i].name = name
                    /\ ~serverMons[i].isDeleted}
MonsNamed(name) ==
    {i \in MonIds : /\ i < serverMonCount
                    /\ serverMons[i].name = name
                    /\ ~serverMons[i].isDeleted}

MonTableFull == serverMonCount >= MAX_MON_COUNT

CreateMonitor_server(c) ==
    LET r == Head(requests[c])
        same == MonsNamed(r.name)
        valid == r.size > 0 /\ r.size <= 50
    IN
    /\ Taken(c, "Create")
    /\ \/ \* an error, and then the -1 of the failed call as well
          /\ ~valid \/ MonTableFull
          /\ Mailed(c, <<Words, Number(-1)>>)
          /\ UNCHANGED <<serverMons, serverMonCount>>
       \/ /\ valid /\ ~MonTableFull
          /\ \E i \in same : /\ \A j \in same : i <= j
                             /\ Mailed(c, <<Number(i)>>)
          /\ UNCHANGED <<serverMons, serverMonCount>>
       \/ /\ valid /\ ~MonTableFull
          /\ same = {}
          /\ serverMons' = [serverMons EXCEPT ![serverMonCount] =
                 [name |-> r.name, isDeleted |-> FALSE, size |-> r.size,
                  values |-> [i \in Elements |-> Unset]]]
          /\ serverMonCount' = serverMonCount + 1
          /\ Mailed(c, <<Number(serverMonCount)>>)
    /\ UNCHANGED overrun

\* The reply is the first character of the value, sent as a string that does not
\* end there: the client may read more digits after it.
FirstDigit[v \in Nat] == IF v < 10 THEN v ELSE FirstDigit[v \div 10]
Sent(v) == IF v = Unset THEN {Words} \cup {Number(d) : d \in 0 .. 9}
           ELSE {Number(FirstDigit[v]), Number(FirstDigit[v] * 10)}

InArray(i, k) == k < serverMons[i].size

GetMonitor_server(c) ==
    LET r == Head(requests[c])
        valid == validateMonitorIndex(r.mon) /\ validateArrayIndex(r.index)
    IN
    /\ Taken(c, "Get")
    /\ \/ /\ ~valid
          /\ Mailed(c, <<Words>>)
       \/ \* outside the array: some number
          /\ valid
          /\ \E m \in IF InArray(r.mon, r.index)
                      THEN Sent(serverMons[r.mon].values[r.index])
                      ELSE Sent(Unset) : Mailed(c, <<m>>)
    /\ UNCHANGED <<serverMons, serverMonCount, overrun>>

SetMonitor_server(c) ==
    LET r == Head(requests[c])
        valid == validateMonitorIndex(r.mon) /\ validateArrayIndex(r.index)
    IN
    /\ Taken(c, "Set")
    /\ Mailed(c, <<Words>>)
    /\ \/ /\ ~valid
          /\ UNCHANGED <<serverMons, overrun>>
       \/ /\ valid
          /\ InArray(r.mon, r.index)
          /\ serverMons' = [serverMons EXCEPT ![r.mon].values[r.index] = r.value]
          /\ UNCHANGED overrun
       \/ /\ valid
          /\ ~InArray(r.mon, r.index)
          /\ overrun' = TRUE
          /\ UNCHANGED serverMons
    /\ UNCHANGED serverMonCount

\* serverMons[serverMonCount], not serverMons[monitorIndex]; with a full table
\* that lies outside it.
DestroyMonitor_server(c) ==
    LET r == Head(requests[c]) IN
    /\ Taken(c, "Destroy")
    /\ Mailed(c, <<Words>>)
    /\ \/ /\ ~validateMonitorIndex(r.mon)
          /\ UNCHANGED <<serverMons, overrun>>
       \/ /\ validateMonitorIndex(r.mon)
          /\ serverMonCount < MAX_MON_COUNT
          /\ serverMons' = [serverMons EXCEPT ![serverMonCount].isDeleted = TRUE]
          /\ UNCHANGED overrun
       \/ /\ validateMonitorIndex(r.mon)
          /\ serverMonCount = MAX_MON_COUNT
          /\ overrun' = TRUE
          /\ UNCHANGED serverMons
    /\ UNCHANGED serverMonCount

Server(c) == \/ CreateMonitor_server(c) \/ GetMonitor_server(c)
             \/ SetMonitor_server(c) \/ DestroyMonitor_server(c)

-----------------------------------------------------------------------------

Next == \E c \in Clients :
            Server(c) \/ Receive(c) \/ \E r \in Request : Send(c, r)

Spec == Init /\ [][Next]_vars

-----------------------------------------------------------------------------
(* Properties *)

TypeOK ==
    /\ call \in [Clients -> Request \cup {Idle, Halted}]
    /\ requests \in [Clients -> Seq(Request)]
    /\ inbox \in [Clients -> Seq([text : {"Number", "Words"}, value : Int])]
    /\ serverMons \in
         [MonIds -> [name : MonNames \cup {NoName}, isDeleted : BOOLEAN, size : 0 .. 50,
                     values : [Elements -> Values \cup {Unset}]]]
    /\ serverMonCount \in 0 .. MAX_MON_COUNT
    /\ overrun \in BOOLEAN

\* Clients that create a monitor variable of one name share it, whatever else they
\* did or were refused: no two live entries of the table have one name.
LiveMonsUnique ==
    \A i, j \in 0 .. serverMonCount - 1 :
        /\ ~serverMons[i].isDeleted /\ ~serverMons[j].isDeleted
        /\ serverMons[i].name = serverMons[j].name
        => i = j
=============================================================================
