-------------------------- MODULE MonitorServerProofs --------------------------
(***************************************************************************)
(* Theorems about MonitorServer, for any number of clients, names, sizes   *)
(* and entries of the table.                                               *)
(***************************************************************************)
EXTENDS MonitorServer, SequenceTheorems, WellFoundedInduction, TLAPS

-----------------------------------------------------------------------------
(* Digits *)

\* FirstDigit as its equation has it on the numbers up to n.
DigitsUpTo(f, n) == f = [v \in 0 .. n |-> IF v < 10 THEN v ELSE f[v \div 10]]
LessThan == {p \in Nat \X Nat : p[1] < p[2]}

LEMMA Least ==
    ASSUME NEW S \in SUBSET Nat, S # {}
    PROVE  \E n \in S : \A m \in S : n <= m
  <1>1. IsWellFoundedOn(LessThan, Nat)
    <2>1. LessThan = OpToRel(<, Nat)
      BY Zenon DEF OpToRel, LessThan
    <2> QED BY <2>1, NatLessThanWellFounded
  <1>2. PICK n \in S : \A m \in S : <<m, n>> \notin LessThan
    BY <1>1, WFMin
  <1>3. ASSUME NEW m \in S PROVE n <= m
    <2>1. <<m, n>> \in Nat \X Nat /\ ~(<<m, n>>[1] < <<m, n>>[2])
      BY <1>2 DEF LessThan
    <2> QED BY <2>1
  <1> QED BY <1>3

LEMMA Tenth == \A v \in Nat : v >= 10 => v \div 10 \in Nat /\ v \div 10 < v
  OBVIOUS
\* There is such a function on every beginning of the numbers: the least number without one
\* has a predecessor, and the function there goes one further.
LEMMA DigitsExist == \A n \in Nat : \E f : DigitsUpTo(f, n)
  <1> DEFINE Without == {n \in Nat : ~\E f : DigitsUpTo(f, n)}
  <1> SUFFICES ASSUME Without # {} PROVE FALSE
    OBVIOUS
  <1>1. PICK n \in Without : \A m \in Without : n <= m
    BY Least
  <1>2. CASE n = 0
    <2>1. DigitsUpTo([v \in 0 .. 0 |-> v], 0)
      BY DEF DigitsUpTo
    <2> QED BY <1>1, <1>2, <2>1
  <1>3. CASE n # 0
    <2>1. n \in Nat /\ n - 1 \in Nat /\ n - 1 \notin Without
      BY <1>1, <1>3
    <2>2. PICK f : DigitsUpTo(f, n - 1)
      BY <2>1
    <2> DEFINE more == [v \in 0 .. n |-> IF v < 10 THEN v ELSE f[v \div 10]]
    <2>3. \A v \in 0 .. n - 1 : more[v] = f[v]
      BY <2>1, <2>2 DEF DigitsUpTo
    <2>4. \A v \in 0 .. n : v >= 10 => v \div 10 \in 0 .. n - 1
      BY <2>1, Tenth
    <2>5. ASSUME NEW v \in 0 .. n PROVE more[v] = IF v < 10 THEN v ELSE more[v \div 10]
      <3>1. v >= 10 => more[v \div 10] = f[v \div 10]
        BY <2>3, <2>4
      <3>2. more[v] = IF v < 10 THEN v ELSE f[v \div 10]
        OBVIOUS
      <3> HIDE DEF more
      <3> QED BY <2>1, <3>1, <3>2
    <2>6. DigitsUpTo(more, n)
      <3> DEFINE again == [v \in 0 .. n |-> IF v < 10 THEN v ELSE more[v \div 10]]
      <3>1. more = again
        BY <2>5
      <3> QED BY <3>1 DEF DigitsUpTo
    <2> QED BY <1>1, <2>6
  <1> QED BY <1>2, <1>3

\* Any two of them agree.
LEMMA DigitsAgree ==
    ASSUME NEW f, NEW g, NEW n \in Nat, NEW m \in Nat, DigitsUpTo(f, n), DigitsUpTo(g, m)
    PROVE  \A v \in Nat : v <= n /\ v <= m => f[v] = g[v]
  <1> DEFINE Differ == {v \in Nat : v <= n /\ v <= m /\ f[v] # g[v]}
  <1> SUFFICES ASSUME Differ # {} PROVE FALSE
    OBVIOUS
  <1>1. PICK v \in Differ : \A u \in Differ : v <= u
    BY Least
  <1>2. /\ f[v] = IF v < 10 THEN v ELSE f[v \div 10]
        /\ g[v] = IF v < 10 THEN v ELSE g[v \div 10]
    BY <1>1 DEF DigitsUpTo
  <1>3. v \in Nat /\ v >= 10
    BY <1>1, <1>2
  <1>4. v \div 10 \in Nat /\ v \div 10 < v
    BY <1>3, Tenth
  <1>5. v \div 10 \notin Differ
    BY <1>1, <1>3, <1>4
  <1> QED BY <1>1, <1>2, <1>3, <1>4, <1>5

\* So FirstDigit is what its definition says, and a digit.
LEMMA FirstDigitIs ==
    \A v \in Nat : FirstDigit[v] = IF v < 10 THEN v ELSE FirstDigit[v \div 10]
  <1> DEFINE upTo(v) == CHOOSE f : DigitsUpTo(f, v)
             digit == [v \in Nat |-> upTo(v)[v]]
  <1>1. \A v \in Nat : DigitsUpTo(upTo(v), v)
    BY DigitsExist, Zenon
  <1>2. ASSUME NEW v \in Nat PROVE digit[v] = IF v < 10 THEN v ELSE digit[v \div 10]
    <2>1. upTo(v)[v] = IF v < 10 THEN v ELSE upTo(v)[v \div 10]
      <3>1. PICK f : f = upTo(v)
        OBVIOUS
      <3>2. DigitsUpTo(f, v)
        BY <1>1, <3>1
      <3>3. f[v] = IF v < 10 THEN v ELSE f[v \div 10]
        BY <3>2 DEF DigitsUpTo
      <3> QED BY <3>1, <3>3
    <2>2. ASSUME v >= 10 PROVE upTo(v)[v \div 10] = upTo(v \div 10)[v \div 10]
      <3>1. v \div 10 \in Nat /\ v \div 10 <= v /\ v \div 10 <= v \div 10
        BY <2>2, Tenth
      <3> QED BY <1>1, <3>1, DigitsAgree
    <2>3. v >= 10 => v \div 10 \in Nat
      BY Tenth
    <2> HIDE DEF upTo
    <2> QED BY <2>1, <2>2, <2>3
  <1>3. digit = [v \in Nat |-> IF v < 10 THEN v ELSE digit[v \div 10]]
    <2> DEFINE again == [v \in Nat |-> IF v < 10 THEN v ELSE digit[v \div 10]]
    <2> HIDE DEF upTo
    <2>1. digit = again
      BY <1>2
    <2> QED BY <2>1
  <1>4. \E f : f = [v \in Nat |-> IF v < 10 THEN v ELSE f[v \div 10]]
    <2> HIDE DEF digit
    <2> QED BY <1>3
  <1>5. FirstDigit = [v \in Nat |-> IF v < 10 THEN v ELSE FirstDigit[v \div 10]]
    BY <1>4, Zenon DEF FirstDigit
  <1> QED BY <1>5

LEMMA FirstDigitType == \A v \in Nat : FirstDigit[v] \in 0 .. 9
  <1> DEFINE Wrong == {v \in Nat : FirstDigit[v] \notin 0 .. 9}
  <1> SUFFICES ASSUME Wrong # {} PROVE FALSE
    OBVIOUS
  <1>1. PICK v \in Wrong : \A u \in Wrong : v <= u
    BY Least
  <1>2. v \in Nat /\ v >= 10
    BY <1>1, FirstDigitIs
  <1>3. v \div 10 \in Nat /\ v \div 10 \notin Wrong
    BY <1>1, <1>2, Tenth
  <1> QED BY <1>1, <1>2, <1>3, FirstDigitIs

-----------------------------------------------------------------------------
(* Types *)

Mail == [text : {"Number", "Words"}, value : Int]
MonEntry == [name : MonNames \cup {NoName}, isDeleted : BOOLEAN, size : 0 .. 50,
             values : [Elements -> Values \cup {Unset}]]

LEMMA MailTypes ==
    /\ Words \in Mail
    /\ \A i \in Int : Number(i) \in Mail
    /\ \A v \in Values \cup {Unset} : Sent(v) \subseteq Mail
  <1>1. Words \in Mail /\ \A i \in Int : Number(i) \in Mail
    BY DEF Words, Number, Mail
  <1>2. ASSUME NEW v \in Values, v # Unset PROVE Sent(v) \subseteq Mail
    <2>1. FirstDigit[v] \in Int /\ FirstDigit[v] * 10 \in Int
      BY FirstDigitType, MonitorServerAssumption
    <2> QED BY <1>1, <1>2, <2>1 DEF Sent
  <1>3. Sent(Unset) \subseteq Mail
    BY <1>1 DEF Sent
  <1> QED BY <1>1, <1>2, <1>3

\* What a request taken from a queue of them carries.
LEMMA RequestTaken ==
    ASSUME TypeOK, NEW c \in Clients, requests[c] # << >>
    PROVE  /\ Head(requests[c]) \in Request
           /\ [requests EXCEPT ![c] = Tail(@)] \in [Clients -> Seq(Request)]
  <1>1. requests[c] \in Seq(Request)
    BY DEF TypeOK
  <1>2. Head(requests[c]) \in Request /\ Tail(requests[c]) \in Seq(Request)
    BY <1>1, HeadTailProperties
  <1> HIDE DEF Request
  <1> QED BY <1>2 DEF TypeOK

LEMMA RequestFields ==
    ASSUME NEW r \in Request
    PROVE  /\ r.op = "Create" => r.name \in MonNames /\ r.size \in Int
           /\ r.op \in {"Get", "Set"} => r.mon \in MonIds /\ r.index \in Int
           /\ r.op = "Set" => r.value \in Values
           /\ r.op = "Destroy" => r.mon \in MonIds
           /\ r.op \notin {"Idle", "Halted"}
  BY MonitorServerAssumption DEF Request

\* Every step of the server answers with mail, and takes its request.
LEMMA Answered ==
    ASSUME TypeOK, NEW c \in Clients, NEW op, Taken(c, op), NEW mails \in Seq(Mail), Mailed(c, mails)
    PROVE  /\ requests' \in [Clients -> Seq(Request)]
           /\ call' \in [Clients -> Request \cup {Idle, Halted}]
           /\ inbox' \in [Clients -> Seq(Mail)]
  <1>1. inbox \in [Clients -> Seq(Mail)]
    BY DEF TypeOK, Mail
  <1>2. inbox[c] \o mails \in Seq(Mail)
    BY <1>1, ConcatProperties
  <1>3. inbox' \in [Clients -> Seq(Mail)]
    <2> HIDE DEF Mail
    <2> QED BY <1>1, <1>2 DEF Mailed
  <1> QED BY <1>3, RequestTaken DEF Taken, TypeOK

-----------------------------------------------------------------------------
(* The invariant *)

MonInv == TypeOK /\ LiveMonsUnique

Table == [MonIds -> MonEntry]

\* What a step leaves of the types, once it is known what it does to mail and table.
LEMMA TypesKept ==
    ASSUME TypeOK,
           requests' \in [Clients -> Seq(Request)],
           call' \in [Clients -> Request \cup {Idle, Halted}],
           inbox' \in [Clients -> Seq(Mail)],
           serverMons' \in Table, serverMonCount' \in 0 .. MAX_MON_COUNT, overrun' \in BOOLEAN
    PROVE  TypeOK'
  <1> HIDE DEF Request
  <1> QED BY DEF TypeOK, Mail, Table, MonEntry

\* One mail, or two.
LEMMA OneOrTwo == \A m, o \in Mail : <<m>> \in Seq(Mail) /\ <<m, o>> \in Seq(Mail)
  <1> HIDE DEF Mail
  <1> QED OBVIOUS

LEMMA CreateKeeps ==
    ASSUME MonInv, NEW c \in Clients, CreateMonitor_server(c)
    PROVE  MonInv'
  <1> PICK r : r = Head(requests[c])
    OBVIOUS
  <1> PICK same : same = MonsNamed(r.name)
    OBVIOUS
  <1>1. Taken(c, "Create") /\ UNCHANGED overrun
    BY DEF CreateMonitor_server
  <1>2. r \in Request /\ r.op = "Create" /\ r.name \in MonNames /\ r.size \in Int
    BY <1>1, RequestTaken, RequestFields DEF Taken, MonInv
  <1>3. /\ serverMons \in Table /\ serverMonCount \in 0 .. MAX_MON_COUNT
        /\ MAX_MON_COUNT \in Nat
    BY MonitorServerAssumption DEF MonInv, TypeOK, Table, MonEntry
  <1>4. \A i \in Int : <<Number(i)>> \in Seq(Mail) /\ <<Words, Number(i)>> \in Seq(Mail)
    BY MailTypes, OneOrTwo
  <1>5. CASE UNCHANGED <<serverMons, serverMonCount>> /\ \E mails \in Seq(Mail) : Mailed(c, mails)
    <2>1. TypeOK'
      BY <1>1, <1>3, <1>5, Answered, TypesKept DEF MonInv, TypeOK
    <2> QED BY <1>5, <2>1 DEF MonInv, LiveMonsUnique
  <1>6. ASSUME ~MonTableFull, r.size > 0 /\ r.size <= 50, same = {},
               serverMons' = [serverMons EXCEPT ![serverMonCount] =
                   [name |-> r.name, isDeleted |-> FALSE, size |-> r.size,
                    values |-> [i \in Elements |-> Unset]]],
               serverMonCount' = serverMonCount + 1,
               Mailed(c, <<Number(serverMonCount)>>)
        PROVE  MonInv'
    <2>1. serverMonCount \in MonIds /\ serverMonCount' \in 0 .. MAX_MON_COUNT
      BY <1>3, <1>6 DEF MonTableFull, MonIds
    <2> DEFINE entry == [name |-> r.name, isDeleted |-> FALSE, size |-> r.size,
                         values |-> [i \in Elements |-> Unset]]
    <2>2. entry \in MonEntry
      BY <1>2, <1>6 DEF MonEntry
    <2>3. serverMons' \in Table
      BY <1>3, <1>6, <2>1, <2>2 DEF Table
    <2>4. TypeOK'
      <3>1. <<Number(serverMonCount)>> \in Seq(Mail)
        BY <1>3, <1>4
      <3>2. /\ requests' \in [Clients -> Seq(Request)]
            /\ call' \in [Clients -> Request \cup {Idle, Halted}]
            /\ inbox' \in [Clients -> Seq(Mail)]
        BY <1>1, <1>6, <3>1, Answered DEF MonInv
      <3>3. overrun' \in BOOLEAN
        BY <1>1 DEF MonInv, TypeOK
      <3> QED BY <2>1, <2>3, <3>2, <3>3, TypesKept DEF MonInv
    <2>5. /\ \A i \in 0 .. serverMonCount - 1 : serverMons'[i] = serverMons[i] /\ i \in MonIds
          /\ serverMons'[serverMonCount] = entry
      BY <1>3, <1>6, <2>1 DEF Table, MonIds
    <2>6. \A i \in 0 .. serverMonCount - 1 : serverMons[i].isDeleted \/ serverMons[i].name # r.name
      BY <1>6, <2>5, <1>3 DEF MonsNamed
    <2>7. LiveMonsUnique'
      <3> SUFFICES ASSUME NEW i \in 0 .. serverMonCount, NEW j \in 0 .. serverMonCount,
                          ~serverMons'[i].isDeleted, ~serverMons'[j].isDeleted,
                          serverMons'[i].name = serverMons'[j].name
                   PROVE  i = j
        BY <1>3, <1>6 DEF LiveMonsUnique
      <3>1. CASE i # serverMonCount /\ j # serverMonCount
        <4>1. i \in 0 .. serverMonCount - 1 /\ j \in 0 .. serverMonCount - 1
          BY <1>3, <3>1
        <4> QED BY <2>5, <4>1 DEF MonInv, LiveMonsUnique
      <3>2. CASE i = serverMonCount /\ j # serverMonCount
        <4>1. j \in 0 .. serverMonCount - 1
          BY <1>3, <3>2
        <4> QED BY <2>5, <2>6, <3>2, <4>1
      <3>3. CASE j = serverMonCount /\ i # serverMonCount
        <4>1. i \in 0 .. serverMonCount - 1
          BY <1>3, <3>3
        <4> QED BY <2>5, <2>6, <3>3, <4>1
      <3> QED BY <3>1, <3>2, <3>3
    <2> QED BY <2>4, <2>7 DEF MonInv
  <1>7. ASSUME NEW i \in same, Mailed(c, <<Number(i)>>) PROVE \E mails \in Seq(Mail) : Mailed(c, mails)
    <2>1. i \in Int
      BY <1>7, MonitorServerAssumption DEF MonsNamed, MonIds
    <2> QED BY <1>4, <1>7, <2>1
  <1>8. CASE Mailed(c, <<Words, Number(-1)>>) /\ UNCHANGED <<serverMons, serverMonCount>>
    <2>1. -1 \in Int
      OBVIOUS
    <2>2. <<Words, Number(-1)>> \in Seq(Mail)
      BY <1>4, <2>1
    <2> QED BY <1>5, <1>8, <2>2
  <1> QED BY <1>5, <1>6, <1>7, <1>8 DEF CreateMonitor_server

LEMMA GetKeeps ==
    ASSUME MonInv, NEW c \in Clients, GetMonitor_server(c)
    PROVE  MonInv'
  <1> PICK r : r = Head(requests[c])
    OBVIOUS
  <1>1. Taken(c, "Get") /\ UNCHANGED <<serverMons, serverMonCount, overrun>>
    BY DEF GetMonitor_server
  <1>2. r \in Request /\ r.op = "Get" /\ r.mon \in MonIds /\ r.index \in Int
    BY <1>1, RequestTaken, RequestFields DEF Taken, MonInv
  <1>3. \E mails \in Seq(Mail) : Mailed(c, mails)
    <2>1. CASE Mailed(c, <<Words>>)
      BY <2>1, MailTypes, OneOrTwo
    <2>2. ASSUME validateArrayIndex(r.index),
                 NEW m \in IF InArray(r.mon, r.index)
                           THEN Sent(serverMons[r.mon].values[r.index]) ELSE Sent(Unset),
                 Mailed(c, <<m>>)
          PROVE  \E mails \in Seq(Mail) : Mailed(c, mails)
      <3>1. r.index \in Elements
        BY <1>2, <2>2, MonitorServerAssumption DEF validateArrayIndex, Elements
      <3>2. serverMons[r.mon].values[r.index] \in Values \cup {Unset}
        BY <1>2, <3>1 DEF MonInv, TypeOK
      <3>3. m \in Mail
        BY <2>2, <3>2, MailTypes
      <3> QED BY <2>2, <3>3, OneOrTwo
    <2> QED BY <2>1, <2>2 DEF GetMonitor_server
  <1>4. TypeOK'
    BY <1>1, <1>3, Answered, TypesKept DEF MonInv, TypeOK, Table, MonEntry
  <1> QED BY <1>1, <1>4 DEF MonInv, LiveMonsUnique

LEMMA SetKeeps ==
    ASSUME MonInv, NEW c \in Clients, SetMonitor_server(c)
    PROVE  MonInv'
  <1> PICK r : r = Head(requests[c])
    OBVIOUS
  <1>1. Taken(c, "Set") /\ Mailed(c, <<Words>>) /\ UNCHANGED serverMonCount
    BY DEF SetMonitor_server
  <1>2. r \in Request /\ r.op = "Set" /\ r.mon \in MonIds /\ r.index \in Int /\ r.value \in Values
    BY <1>1, RequestTaken, RequestFields DEF Taken, MonInv
  <1>3. serverMons \in Table /\ serverMonCount \in 0 .. MAX_MON_COUNT /\ overrun \in BOOLEAN
    BY DEF MonInv, TypeOK, Table, MonEntry
  <1>4. <<Words>> \in Seq(Mail)
    BY MailTypes, OneOrTwo
  <1>5. CASE UNCHANGED serverMons /\ overrun' \in BOOLEAN
    <2>1. TypeOK'
      BY <1>1, <1>3, <1>4, <1>5, Answered, TypesKept DEF MonInv, TypeOK
    <2> QED BY <1>1, <1>5, <2>1 DEF MonInv, LiveMonsUnique
  <1>6. ASSUME validateArrayIndex(r.index), UNCHANGED overrun,
               serverMons' = [serverMons EXCEPT ![r.mon].values[r.index] = r.value]
        PROVE  MonInv'
    <2>1. r.index \in Elements
      BY <1>2, <1>6, MonitorServerAssumption DEF validateArrayIndex, Elements
    <2> PICK m, v : m = serverMons[r.mon] /\ v = [m.values EXCEPT ![r.index] = r.value]
      OBVIOUS
    <2>5. v \in [Elements -> Values \cup {Unset}] /\ m \in MonEntry
      BY <1>2, <1>3, <2>1 DEF Table, MonEntry
    <2>6. [m EXCEPT !.values = v] \in MonEntry
      BY <2>5 DEF MonEntry
    <2>7. serverMons' = [serverMons EXCEPT ![r.mon] = [m EXCEPT !.values = v]]
      BY <1>6
    <2>2. serverMons' \in Table
      BY <1>2, <1>3, <2>6, <2>7 DEF Table
    <2>3. TypeOK'
      BY <1>1, <1>3, <1>4, <1>6, <2>2, Answered, TypesKept DEF MonInv, TypeOK
    <2>4. \A i \in MonIds : /\ serverMons'[i].name = serverMons[i].name
                            /\ serverMons'[i].isDeleted = serverMons[i].isDeleted
      BY <1>2, <1>3, <1>6 DEF Table, MonEntry
    <2>8. \A i \in 0 .. serverMonCount - 1 : i \in MonIds
      BY <1>3, MonitorServerAssumption DEF MonIds
    <2> QED BY <1>1, <2>3, <2>4, <2>8 DEF MonInv, LiveMonsUnique
  <1> QED BY <1>3, <1>5, <1>6 DEF SetMonitor_server

LEMMA DestroyKeeps ==
    ASSUME MonInv, NEW c \in Clients, DestroyMonitor_server(c)
    PROVE  MonInv'
  <1>1. Taken(c, "Destroy") /\ Mailed(c, <<Words>>) /\ UNCHANGED serverMonCount
    BY DEF DestroyMonitor_server
  <1>2. serverMons \in Table /\ serverMonCount \in 0 .. MAX_MON_COUNT /\ overrun \in BOOLEAN
    BY DEF MonInv, TypeOK, Table, MonEntry
  <1>3. <<Words>> \in Seq(Mail)
    BY MailTypes, OneOrTwo
  <1>4. CASE UNCHANGED serverMons /\ overrun' \in BOOLEAN
    <2>1. TypeOK'
      BY <1>1, <1>2, <1>3, <1>4, Answered, TypesKept DEF MonInv, TypeOK
    <2> QED BY <1>1, <1>4, <2>1 DEF MonInv, LiveMonsUnique
  <1>5. ASSUME serverMonCount < MAX_MON_COUNT, UNCHANGED overrun,
               serverMons' = [serverMons EXCEPT ![serverMonCount].isDeleted = TRUE]
        PROVE  MonInv'
    <2>1. serverMonCount \in MonIds
      BY <1>2, <1>5, MonitorServerAssumption DEF MonIds
    <2>2. serverMons' \in Table
      BY <1>2, <1>5, <2>1 DEF Table, MonEntry
    <2>3. TypeOK'
      BY <1>1, <1>2, <1>3, <1>5, <2>2, Answered, TypesKept DEF MonInv, TypeOK
    <2>4. \A i \in 0 .. serverMonCount - 1 : serverMons'[i] = serverMons[i]
      BY <1>2, <1>5, <2>1, MonitorServerAssumption DEF Table, MonIds
    <2> QED BY <1>1, <2>3, <2>4 DEF MonInv, LiveMonsUnique
  <1> QED BY <1>2, <1>4, <1>5 DEF DestroyMonitor_server

LEMMA ClientKeeps ==
    ASSUME MonInv, NEW c \in Clients, Receive(c) \/ \E r \in Request : Send(c, r)
    PROVE  MonInv'
  <1>1. UNCHANGED <<serverMons, serverMonCount, overrun>>
    BY DEF Receive, Send
  <1>2. CASE Receive(c)
    <2>1. inbox \in [Clients -> Seq(Mail)] /\ inbox[c] # << >>
      BY <1>2 DEF MonInv, TypeOK, Mail, Receive
    <2>2. Tail(inbox[c]) \in Seq(Mail)
      BY <2>1, HeadTailProperties
    <2>3. inbox' \in [Clients -> Seq(Mail)]
      <3> HIDE DEF Mail
      <3> QED BY <1>2, <2>1, <2>2 DEF Receive
    <2>4. call' \in [Clients -> Request \cup {Idle, Halted}]
      <3> HIDE DEF Request, Idle, Halted
      <3> QED BY <1>2 DEF MonInv, TypeOK, Receive
    <2>5. TypeOK'
      BY <1>1, <1>2, <2>3, <2>4, TypesKept DEF MonInv, TypeOK, Receive, Table, MonEntry
    <2> QED BY <1>1, <2>5 DEF MonInv, LiveMonsUnique
  <1>3. ASSUME NEW r \in Request, Send(c, r) PROVE MonInv'
    <2>1. Append(requests[c], r) \in Seq(Request)
      BY AppendProperties DEF MonInv, TypeOK
    <2>2. /\ requests' \in [Clients -> Seq(Request)]
          /\ call' \in [Clients -> Request \cup {Idle, Halted}]
      <3> HIDE DEF Request, Idle, Halted
      <3> QED BY <1>3, <2>1 DEF MonInv, TypeOK, Send
    <2>3. TypeOK'
      BY <1>1, <1>3, <2>2, TypesKept DEF MonInv, TypeOK, Send, Table, MonEntry, Mail
    <2> QED BY <1>1, <2>3 DEF MonInv, LiveMonsUnique
  <1> QED BY <1>2, <1>3

LEMMA MonInvAlways == Spec => []MonInv
  <1>1. Init => MonInv
    <2> SUFFICES ASSUME Init PROVE MonInv
      OBVIOUS
    <2>1. TypeOK
      <3>1. requests \in [Clients -> Seq(Request)]
        BY EmptySeq DEF Init
      <3>2. inbox \in [Clients -> Seq(Mail)]
        BY EmptySeq DEF Init
      <3>3. UnusedMon \in MonEntry
        BY DEF UnusedMon, MonEntry
      <3>4. serverMons \in Table
        BY <3>3 DEF Init, Table
      <3>5. call \in [Clients -> Request \cup {Idle, Halted}]
        BY DEF Init
      <3>6. serverMonCount \in 0 .. MAX_MON_COUNT /\ overrun \in BOOLEAN
        <4>1. 0 \in 0 .. MAX_MON_COUNT
          BY MonitorServerAssumption
        <4> QED BY <4>1 DEF Init
      <3> QED BY <3>1, <3>2, <3>4, <3>5, <3>6 DEF TypeOK, Table, MonEntry, Mail
    <2> QED BY <2>1 DEF Init, MonInv, LiveMonsUnique
  <1>2. MonInv /\ [Next]_vars => MonInv'
    <2> SUFFICES ASSUME MonInv, [Next]_vars PROVE MonInv'
      OBVIOUS
    <2>1. CASE UNCHANGED vars
      BY <2>1 DEF vars, MonInv, TypeOK, LiveMonsUnique
    <2>2. CASE Next
      BY <2>2, CreateKeeps, GetKeeps, SetKeeps, DestroyKeeps, ClientKeeps DEF Next, Server
    <2> QED BY <2>1, <2>2
  <1> QED BY <1>1, <1>2, PTL DEF Spec

\* The table and its counter keep to their limits and every mail is one that a client can
\* read, for any number of clients that ask for anything (the handlers of nettest.cc).
THEOREM MonitorTypes == Spec => []TypeOK
  <1>1. MonInv => TypeOK
    BY DEF MonInv
  <1> QED BY <1>1, MonInvAlways, PTL

\* For any number of clients, names and entries: no two live entries of the table have one
\* name (CreateMonitor_server).
THEOREM OneMonitorPerName == Spec => []LiveMonsUnique
  <1>1. MonInv => LiveMonsUnique
    BY DEF MonInv
  <1> QED BY <1>1, MonInvAlways, PTL
=============================================================================
