---------------------------- MODULE SenatorOffice ----------------------------
(***************************************************************************)
(* The passport office with senators, of properTestfile.cc: the complete   *)
(* version of the office that threads/threadtest.cc (module                *)
(* PassportOffice) has in part. A senator has the office for itself: the   *)
(* clerks give it their attention one by one, customers wait outside, and  *)
(* other senators in a line of their own.                                  *)
(*                                                                         *)
(* A step is what a thread does between two calls of the kernel whose      *)
(* middle others can see. Threads hold locks from one step to the next, so *)
(* who owns each lock is part of the state; Acquire by the owner and       *)
(* Release by anybody else do nothing (threads/synch.cc). Who gets a lock  *)
(* or the processor next is left open; but a thread that runs keeps the    *)
(* processor until it sleeps or yields, unless nachos runs with -rs        *)
(* (randomYield, threads/system.cc).                                       *)
(***************************************************************************)
EXTENDS Integers, Sequences, FiniteSets, FiniteSetsExt

CONSTANTS Customers, Senators,
          Offices,      \* what Part2 may be asked for: clerkTypes, and the people who come
          randomYield,  \* nachos -rs
          Purse,        \* what a customer has at first
          customer0,    \* the customer with the number 0
          Nobody,
          MaxMessUps    \* bound: how often clerks mess up, in all

People == Customers \cup Senators
Types == {"ApplicationClerk", "PictureClerk", "PassportClerk", "Cashier"}

ASSUME SenatorAssumption ==
    /\ Purse \in Nat /\ MaxMessUps \in Nat /\ randomYield \in BOOLEAN
    /\ Customers \cap Senators = {} /\ customer0 \in Customers /\ Nobody \notin People
    /\ \A o \in Offices : o.people \subseteq People /\ o.clerkTypes \in Seq(Types)

VARIABLES
    clerkTypes,         \* what each clerk is: a sequence, never changed
    people,             \* who comes: never changed
    clerkPc, customerPc, senatorPc,   \* where each thread is
    at,                 \* each senator's index in the loop it is in
    myLine,             \* the clerk that each customer or senator has chosen
    filed, likes, certified, done, sentBack, money, messUps,
    clerkStates, clerkLineCount, clerkBribeLineCount,
    senatorLineCount, senatorDone,
    lineLock, senatorLock,            \* the owner of each lock
    clerkLock, clerkSenatorCVLock,
    clerkLineCV, clerkBribeLineCV,    \* who waits on each condition
    clerkCV, clerkSenatorCV, breakCV, outsideLineCV, senatorLineCV,
    customerData,
    managerPc, currentTotal,          \* Manager; what it saw before
    currentThread       \* the thread that keeps the processor

papers == <<filed, likes, certified, done, sentBack, money, messUps>>
lines == <<clerkLineCount, clerkBribeLineCount, clerkLineCV, clerkBribeLineCV>>
senate == <<senatorPc, at, senatorLineCount, senatorDone, senatorLock, senatorLineCV>>
manager == <<managerPc, currentTotal>>
vars == <<clerkTypes, people, clerkPc, customerPc, myLine, papers, clerkStates, lines, senate, lineLock, clerkLock,
          clerkSenatorCVLock, clerkCV, clerkSenatorCV, breakCV, outsideLineCV, customerData,
          manager, currentThread>>

clerkCount == Len(clerkTypes)
Clerks == 1 .. clerkCount

LocksAndConditions ==
    /\ lineLock = Nobody /\ senatorLock = Nobody
    /\ clerkLock = [i \in Clerks |-> Nobody] /\ clerkSenatorCVLock = [i \in Clerks |-> Nobody]
    /\ clerkLineCV = [i \in Clerks |-> << >>] /\ clerkBribeLineCV = [i \in Clerks |-> << >>]
    /\ clerkCV = [i \in Clerks |-> << >>] /\ clerkSenatorCV = [i \in Clerks |-> << >>]
    /\ breakCV = {} /\ outsideLineCV = {} /\ senatorLineCV = << >>
Globals ==
    /\ clerkStates = [i \in Clerks |-> "AVAILABLE"]
    /\ clerkLineCount = [i \in Clerks |-> 0] /\ clerkBribeLineCount = [i \in Clerks |-> 0]
    /\ senatorLineCount = 0 /\ senatorDone = FALSE
    /\ customerData = [i \in Clerks |-> customer0]
Papers == /\ filed = {} /\ likes = {} /\ certified = {} /\ done = {} /\ sentBack = {}
          /\ money = [p \in People |-> Purse] /\ messUps = 0
Threads ==
    /\ clerkPc = [i \in Clerks |-> "choose"]
    /\ customerPc = [c \in people \cap Customers |-> "enter"]
    /\ senatorPc = [s \in people \cap Senators |-> "enter"] /\ at = [s \in people \cap Senators |-> 1]
    /\ myLine = [p \in people |-> 1]
    /\ managerPc = "begin" /\ currentTotal = 0 /\ currentThread = Nobody
Init == \E o \in Offices :
    /\ clerkTypes = o.clerkTypes /\ people = o.people
    /\ LocksAndConditions /\ Globals /\ Papers /\ Threads

Waits(t, queue) == \E k \in DOMAIN queue : queue[k] = t
Signaled(queue) == IF queue = << >> THEN queue ELSE Tail(queue)
CanTake(owner, t) == owner \in {Nobody, t}
Released(owner, t) == IF owner = t THEN Nobody ELSE owner
GoClerk(i, pc) == clerkPc' = [clerkPc EXCEPT ![i] = pc]
GoCustomer(c, pc) == customerPc' = [customerPc EXCEPT ![c] = pc]
GoSenator(s, pc) == senatorPc' = [senatorPc EXCEPT ![s] = pc]

-----------------------------------------------------------------------------
(* Clerks: chooseCustomerFromLine *)

clerkKeeps == <<customerPc, myLine, papers, senate, outsideLineCV, customerData, manager>>

\* The loop begins: is there a senator in the office?
LooksForSenator(i) ==
    /\ clerkPc[i] = "choose"
    /\ GoClerk(i, IF senatorLineCount > 0 THEN "toSenator" ELSE "toLine")
    /\ UNCHANGED <<clerkKeeps, clerkStates, lines, lineLock, clerkLock, clerkSenatorCVLock,
                   clerkCV, clerkSenatorCV, breakCV>>

\* There is: tell it, and wait for its signal.
OffersSenator(i) ==
    /\ clerkPc[i] = "toSenator" /\ CanTake(clerkSenatorCVLock[i], i)
    /\ clerkSenatorCV' = [clerkSenatorCV EXCEPT ![i] = Append(Signaled(@), i)]
    /\ clerkSenatorCVLock' = [clerkSenatorCVLock EXCEPT ![i] = Nobody]
    /\ GoClerk(i, "senator")
    /\ UNCHANGED <<clerkKeeps, clerkStates, lines, lineLock, clerkLock, clerkCV, breakCV>>

Signals(i) == clerkPc[i] = "senator" /\ ~Waits(i, clerkSenatorCV[i])
              /\ CanTake(clerkSenatorCVLock[i], i)

\* The signal came from a senator that wants this clerk.
SenatorWants(i) ==
    /\ Signals(i) /\ senatorLineCount > 0 /\ ~senatorDone
    /\ clerkSenatorCVLock' = [clerkSenatorCVLock EXCEPT ![i] = i]
    /\ clerkStates' = [clerkStates EXCEPT ![i] = "BUSY"]
    /\ GoClerk(i, "toCounter")
    /\ UNCHANGED <<clerkKeeps, lines, lineLock, clerkLock, clerkCV, clerkSenatorCV, breakCV>>

\* From the next senator, which asks all clerks to begin again.
SenatorChanges(i) ==
    /\ Signals(i) /\ senatorLineCount > 0 /\ senatorDone
    /\ clerkSenatorCVLock' = [clerkSenatorCVLock EXCEPT ![i] = Nobody]
    /\ clerkStates' = [clerkStates EXCEPT ![i] = "AVAILABLE"]
    /\ GoClerk(i, "test")
    /\ UNCHANGED <<clerkKeeps, lines, lineLock, clerkLock, clerkCV, clerkSenatorCV, breakCV>>

\* From the last senator, which leaves: the clerk keeps clerkSenatorCVLock until it has
\* clerkLineLock, and that one for its next turn.
SenatorLeft(i) ==
    /\ Signals(i) /\ senatorLineCount = 0
    /\ clerkSenatorCVLock' = [clerkSenatorCVLock EXCEPT ![i] = i]
    /\ GoClerk(i, "backToLine")
    /\ UNCHANGED <<clerkKeeps, clerkStates, lines, lineLock, clerkLock, clerkCV,
                   clerkSenatorCV, breakCV>>
BackToLine(i) ==
    /\ clerkPc[i] = "backToLine" /\ CanTake(lineLock, i)
    /\ lineLock' = i
    /\ clerkSenatorCVLock' = [clerkSenatorCVLock EXCEPT ![i] = Nobody]
    /\ clerkStates' = [clerkStates EXCEPT ![i] = "AVAILABLE"]
    /\ GoClerk(i, "choose")
    /\ UNCHANGED <<clerkKeeps, lines, clerkLock, clerkCV, clerkSenatorCV, breakCV>>

\* No senator: call a customer, from the bribe line first ...
CallsCustomer(i) ==
    /\ clerkPc[i] = "toLine" /\ CanTake(lineLock, i)
    /\ lineLock' = i
    /\ \/ /\ clerkBribeLineCount[i] > 0
          /\ clerkBribeLineCV' = [clerkBribeLineCV EXCEPT ![i] = Signaled(@)]
          /\ UNCHANGED clerkLineCV
       \/ /\ clerkBribeLineCount[i] = 0 /\ clerkLineCount[i] > 0
          /\ clerkLineCV' = [clerkLineCV EXCEPT ![i] = Signaled(@)]
          /\ UNCHANGED clerkBribeLineCV
    /\ clerkStates' = [clerkStates EXCEPT ![i] = "BUSY"]
    /\ GoClerk(i, "toCounter")
    /\ UNCHANGED <<clerkKeeps, clerkLineCount, clerkBribeLineCount, clerkLock,
                   clerkSenatorCVLock, clerkCV, clerkSenatorCV, breakCV>>

\* ... or take a break.
GoesOnBreak(i) ==
    /\ clerkPc[i] = "toLine" /\ CanTake(lineLock, i)
    /\ clerkBribeLineCount[i] = 0 /\ clerkLineCount[i] = 0
    /\ lineLock' = Nobody
    /\ clerkStates' = [clerkStates EXCEPT ![i] = "ONBREAK"]
    /\ breakCV' = breakCV \cup {i}
    /\ GoClerk(i, "break")
    /\ UNCHANGED <<clerkKeeps, lines, clerkLock, clerkSenatorCVLock, clerkCV, clerkSenatorCV>>
ComesBack(i) ==
    /\ clerkPc[i] = "break" /\ i \notin breakCV
    /\ clerkStates' = [clerkStates EXCEPT ![i] = "AVAILABLE"]
    /\ GoClerk(i, "test")
    /\ UNCHANGED <<clerkKeeps, lines, lineLock, clerkLock, clerkSenatorCVLock, clerkCV,
                   clerkSenatorCV, breakCV>>

\* The loop's condition, read without a lock.
TestsState(i) ==
    /\ clerkPc[i] = "test"
    /\ GoClerk(i, IF clerkStates[i] = "BUSY" THEN "toCounter" ELSE "choose")
    /\ UNCHANGED <<clerkKeeps, clerkStates, lines, lineLock, clerkLock, clerkSenatorCVLock,
                   clerkCV, clerkSenatorCV, breakCV>>

\* Wait at the counter; a senator is told that it may come.
WaitsAtCounter(i) ==
    LET testFlag == clerkSenatorCVLock[i] = i IN
    /\ clerkPc[i] = "toCounter" /\ CanTake(clerkLock[i], i)
    /\ lineLock' = Released(lineLock, i)
    /\ clerkSenatorCV' = [clerkSenatorCV EXCEPT ![i] = IF testFlag THEN Signaled(@) ELSE @]
    /\ clerkSenatorCVLock' = [clerkSenatorCVLock EXCEPT ![i] = Released(@, i)]
    /\ clerkCV' = [clerkCV EXCEPT ![i] = Append(@, i)]
    /\ clerkLock' = [clerkLock EXCEPT ![i] = Nobody]
    /\ GoClerk(i, "waits")
    /\ UNCHANGED <<clerkKeeps, clerkStates, lines, breakCV>>

-----------------------------------------------------------------------------
(* Clerks: the job *)

jobKeeps == <<customerPc, myLine, lines, senate, lineLock, clerkSenatorCVLock,
              clerkSenatorCV, breakCV, outsideLineCV, customerData, manager>>

Accepts(i, c) == CASE clerkTypes[i] = "PassportClerk" -> c \in filed \cap likes
                   [] clerkTypes[i] = "Cashier" -> c \in certified
                   [] OTHER -> TRUE

\* Signalled: read whose turn it is, and speak with them for a while.
BeginsJob(i) ==
    /\ clerkPc[i] = "waits" /\ ~Waits(i, clerkCV[i]) /\ CanTake(clerkLock[i], i)
    /\ clerkLock' = [clerkLock EXCEPT ![i] = i]
    /\ clerkStates' = IF clerkTypes[i] \in {"ApplicationClerk", "PictureClerk"}
                      THEN [clerkStates EXCEPT ![i] = "BUSY"] ELSE clerkStates
    /\ GoClerk(i, "talks")
    /\ UNCHANGED <<jobKeeps, papers, clerkCV>>

\* Then look at their papers; somebody that likes its picture says so before the clerk goes on.
Looks(i) ==
    /\ clerkPc[i] = "talks"
    /\ UNCHANGED <<jobKeeps, clerkLock, clerkCV, filed, certified, done>>
Pictures(i) == LET c == customerData[i] IN
    /\ clerkTypes[i] = "PictureClerk"
    /\ likes' = likes \cup {c}
    /\ GoClerk(i, IF c \in likes THEN "signals" ELSE "job")
    /\ UNCHANGED <<clerkStates, sentBack, money, messUps>>
TakesUp(i) == LET c == customerData[i] IN
    /\ clerkTypes[i] # "PictureClerk" /\ Accepts(i, c)
    /\ clerkStates' = [clerkStates EXCEPT ![i] = "BUSY"]
    /\ money' = IF clerkTypes[i] = "Cashier" THEN [money EXCEPT ![c] = @ - 100] ELSE money
    /\ GoClerk(i, "job")
    /\ UNCHANGED <<likes, sentBack, messUps>>
\* A clerk that messes up (never with a senator: custNumber > 49).
Mars(i) == /\ customerData[i] \in Customers
           /\ messUps < MaxMessUps /\ messUps' = messUps + 1
           /\ sentBack' = sentBack \cup {customerData[i]}
MessesUp(i) == /\ clerkTypes[i] = "PassportClerk" /\ Accepts(i, customerData[i])
               /\ Mars(i)
               /\ clerkStates' = [clerkStates EXCEPT ![i] = "BUSY"]
               /\ GoClerk(i, "signals")
               /\ UNCHANGED <<likes, money>>
Refuses(i) == /\ ~Accepts(i, customerData[i])
              /\ GoClerk(i, "signals")
              /\ UNCHANGED <<likes, sentBack, money, messUps, clerkStates>>
DoesJob(i) == Looks(i) /\ (Pictures(i) \/ TakesUp(i) \/ MessesUp(i) \/ Refuses(i))

\* What the job ends with.
Files(i) == /\ clerkTypes[i] = "ApplicationClerk"
            /\ filed' = filed \cup {customerData[i]}
            /\ UNCHANGED <<certified, done, sentBack, messUps>>
Pictured(i) == /\ clerkTypes[i] = "PictureClerk"
               /\ UNCHANGED <<filed, certified, done, sentBack, messUps>>
Certifies(i) == /\ clerkTypes[i] = "PassportClerk"
                /\ certified' = certified \cup {customerData[i]}
                /\ sentBack' = sentBack \ {customerData[i]}
                /\ UNCHANGED <<filed, done, messUps>>
Cashes(i) == /\ clerkTypes[i] = "Cashier"
             /\ done' = done \cup {customerData[i]}
             /\ sentBack' = sentBack \ {customerData[i]}
             /\ UNCHANGED <<filed, certified, messUps>>
MarsLast(i) == clerkTypes[i] = "Cashier" /\ Mars(i) /\ UNCHANGED <<filed, certified, done>>

\* clerkSignalsNextCustomer
EndsJob(i) ==
    /\ \/ /\ clerkPc[i] = "job"
          /\ Files(i) \/ Pictured(i) \/ Certifies(i) \/ Cashes(i) \/ MarsLast(i)
       \/ clerkPc[i] = "signals" /\ UNCHANGED <<filed, certified, done, sentBack, messUps>>
    /\ clerkCV' = [clerkCV EXCEPT ![i] = Append(Signaled(@), i)]
    /\ clerkLock' = [clerkLock EXCEPT ![i] = Nobody]
    /\ GoClerk(i, "ends")
    /\ UNCHANGED <<jobKeeps, likes, money, clerkStates>>
IsFree(i) ==
    /\ clerkPc[i] = "ends" /\ ~Waits(i, clerkCV[i]) /\ CanTake(clerkLock[i], i)
    /\ clerkLock' = [clerkLock EXCEPT ![i] = Nobody]
    /\ GoClerk(i, "choose")
    /\ UNCHANGED <<jobKeeps, papers, clerkStates, clerkCV>>

-----------------------------------------------------------------------------
(* Customers *)

customerKeeps == <<clerkPc, senate, clerkSenatorCVLock, clerkSenatorCV, breakCV, manager>>
papersOnly == <<filed, likes, certified, done, sentBack, messUps>>

\* Not while a senator is in the office: but it is read without a lock.
Enters(c) ==
    /\ customerPc[c] = "enter" /\ c \notin done
    /\ GoCustomer(c, IF senatorLineCount > 0 THEN "toOutside" ELSE "choose")
    /\ UNCHANGED <<customerKeeps, lineLock, myLine, papers, clerkStates, lines, clerkLock, clerkCV,
                   outsideLineCV, customerData>>
WaitsOutside(c) ==
    /\ customerPc[c] = "toOutside"
    /\ outsideLineCV' = outsideLineCV \cup {c}
    /\ GoCustomer(c, "outside")
    /\ UNCHANGED <<customerKeeps, lineLock, myLine, papers, clerkStates, lines, clerkLock, clerkCV, customerData>>
IsLetIn(c) ==
    /\ customerPc[c] = "outside" /\ c \notin outsideLineCV
    /\ GoCustomer(c, "choose")
    /\ UNCHANGED <<customerKeeps, lineLock, myLine, papers, clerkStates, lines, clerkLock, clerkCV,
                   outsideLineCV, customerData>>

LineSize(i) == clerkLineCount[i] + clerkBribeLineCount[i]
OfType(type) == {i \in Clerks : clerkTypes[i] = type}

\* The clerks that have something to do for somebody.
ClerksFor(p) == {i \in Clerks :
    /\ p \notin done
    /\ CASE clerkTypes[i] = "ApplicationClerk" -> p \notin filed \cup certified
         [] clerkTypes[i] = "PictureClerk" -> p \notin likes \cup certified
         [] clerkTypes[i] = "PassportClerk" -> p \in (filed \cap likes) \ certified
         [] OTHER -> p \in filed \cap likes \cap certified}

\* Those a customer may go to: an application clerk or a picture clerk, whichever it picks,
\* as long as it has been to neither.
Needed(c, pick) == IF c \in filed \cup likes THEN ClerksFor(c)
                   ELSE ClerksFor(c) \cap OfType(pick)

\* The first with the shortest lines.
Chosen(c, pick) ==
    Min({i \in Needed(c, pick) : \A j \in Needed(c, pick) : LineSize(i) <= LineSize(j)})

\* With clerkLineLock. Who has been made done since it came in, by a cashier that still had
\* its number, needs no clerk, and reads in front of the arrays: the machine is taken to crash.
Chooses(c) ==
    /\ customerPc[c] = "choose" /\ lineLock = Nobody
    /\ \E pick \in {"ApplicationClerk", "PictureClerk"} :
         IF Needed(c, pick) = {}
         THEN GoCustomer(c, "crash") /\ UNCHANGED <<lineLock, myLine>>
         ELSE /\ myLine' = [myLine EXCEPT ![c] = Chosen(c, pick)]
              /\ lineLock' = c
              /\ GoCustomer(c, "chosen")
    /\ UNCHANGED <<customerKeeps, papers, clerkStates, lines, clerkLock, clerkCV, outsideLineCV,
                   customerData>>

GoesToCounter(c) == LET i == myLine[c] IN
    /\ customerPc[c] = "chosen" /\ clerkStates[i] = "AVAILABLE"
    /\ clerkStates' = [clerkStates EXCEPT ![i] = "BUSY"]
    /\ lineLock' = Nobody
    /\ GoCustomer(c, "called")
    /\ UNCHANGED <<customerKeeps, myLine, papers, lines, clerkLock, clerkCV, outsideLineCV,
                   customerData>>
Bribes(c) == LET i == myLine[c] IN
    /\ customerPc[c] = "chosen" /\ clerkStates[i] # "AVAILABLE" /\ money[c] > 100
    /\ money' = [money EXCEPT ![c] = @ - 500]
    /\ clerkBribeLineCount' = [clerkBribeLineCount EXCEPT ![i] = @ + 1]
    /\ clerkBribeLineCV' = [clerkBribeLineCV EXCEPT ![i] = Append(@, c)]
    /\ lineLock' = Nobody
    /\ GoCustomer(c, "bribeLine")
    /\ UNCHANGED <<customerKeeps, myLine, papersOnly, clerkStates, clerkLineCount, clerkLineCV,
                   clerkLock, clerkCV, outsideLineCV, customerData>>
QueuesUp(c) == LET i == myLine[c] IN
    /\ customerPc[c] = "chosen" /\ clerkStates[i] # "AVAILABLE" /\ money[c] <= 100
    /\ clerkLineCount' = [clerkLineCount EXCEPT ![i] = @ + 1]
    /\ clerkLineCV' = [clerkLineCV EXCEPT ![i] = Append(@, c)]
    /\ lineLock' = Nobody
    /\ GoCustomer(c, "line")
    /\ UNCHANGED <<customerKeeps, myLine, papers, clerkStates, clerkBribeLineCount,
                   clerkBribeLineCV, clerkLock, clerkCV, outsideLineCV, customerData>>

\* Called: leave the line, once clerkLineLock is free.
LeavesLine(c) == LET i == myLine[c] IN
    /\ lineLock = Nobody
    /\ \/ /\ customerPc[c] = "bribeLine" /\ ~Waits(c, clerkBribeLineCV[i])
          /\ clerkBribeLineCount' = [clerkBribeLineCount EXCEPT ![i] = @ - 1]
          /\ UNCHANGED clerkLineCount
       \/ /\ customerPc[c] = "line" /\ ~Waits(c, clerkLineCV[i])
          /\ clerkLineCount' = [clerkLineCount EXCEPT ![i] = @ - 1]
          /\ UNCHANGED clerkBribeLineCount
    /\ GoCustomer(c, "called")
    /\ UNCHANGED <<customerKeeps, lineLock, myLine, papers, clerkStates, clerkLineCV, clerkBribeLineCV,
                   clerkLock, clerkCV, outsideLineCV, customerData>>

GivesData(c) == LET i == myLine[c] IN
    /\ customerPc[c] = "called" /\ clerkLock[i] = Nobody
    /\ customerData' = [customerData EXCEPT ![i] = c]
    /\ clerkCV' = [clerkCV EXCEPT ![i] = Append(Signaled(@), c)]
    /\ GoCustomer(c, "counter")
    /\ UNCHANGED <<customerKeeps, lineLock, myLine, papers, clerkStates, lines, clerkLock, outsideLineCV>>
LeavesCounter(c) == LET i == myLine[c] IN
    /\ customerPc[c] = "counter" /\ ~Waits(c, clerkCV[i]) /\ clerkLock[i] = Nobody
    /\ clerkCV' = [clerkCV EXCEPT ![i] = Signaled(@)]
    /\ GoCustomer(c, "left")
    /\ UNCHANGED <<customerKeeps, lineLock, myLine, papers, clerkStates, lines, clerkLock, outsideLineCV,
                   customerData>>
LooksBack(c) ==
    /\ customerPc[c] = "left"
    /\ GoCustomer(c, IF c \in sentBack THEN "yields" ELSE "enter")
    /\ UNCHANGED <<customerKeeps, lineLock, myLine, papers, clerkStates, lines, clerkLock, clerkCV,
                   outsideLineCV, customerData>>
Returns(c) ==
    /\ customerPc[c] = "yields"
    /\ sentBack' = sentBack \ {c}
    /\ GoCustomer(c, "enter")
    /\ UNCHANGED <<customerKeeps, lineLock, myLine, filed, likes, certified, done, money, messUps, clerkStates,
                   lines, clerkLock, clerkCV, outsideLineCV, customerData>>

-----------------------------------------------------------------------------
(* Senators *)

senatorKeeps == <<clerkPc, customerPc, papers, clerkStates, lines, lineLock, breakCV, manager>>
GoSenatorAt(s, pc, k) == GoSenator(s, pc) /\ at' = [at EXCEPT ![s] = k]

\* The office is empty of senators: take every clerk's clerkSenatorCVLock ...
Arrives(s) ==
    /\ senatorPc[s] = "enter" /\ senatorLock = Nobody /\ senatorLineCount = 0
    /\ senatorLock' = s
    /\ GoSenator(s, "locks")
    /\ UNCHANGED <<senatorKeeps, at, myLine, senatorLineCount, senatorDone, clerkLock,
                   clerkSenatorCVLock, clerkCV, clerkSenatorCV, outsideLineCV, senatorLineCV,
                   customerData>>
LocksClerk(s) == LET k == at[s] IN
    /\ senatorPc[s] = "locks" /\ k <= clerkCount
    /\ CanTake(clerkSenatorCVLock[k], s)
    /\ clerkSenatorCVLock' = [clerkSenatorCVLock EXCEPT ![k] = s]
    /\ at' = [at EXCEPT ![s] = k + 1]
    /\ UNCHANGED <<senatorKeeps, senatorPc, myLine, senatorLineCount, senatorDone, senatorLock,
                   clerkLock, clerkCV, clerkSenatorCV, outsideLineCV, senatorLineCV, customerData>>

\* ... enter, and wait for the clerks to offer themselves, one after the other.
AwaitsClerk(s, k) ==
    /\ clerkSenatorCV' = [clerkSenatorCV EXCEPT ![k] = Append(@, s)]
    /\ clerkSenatorCVLock' = [clerkSenatorCVLock EXCEPT ![k] = Nobody]
    /\ GoSenatorAt(s, "await", k)
EntersOffice_SkipsFirst(s) ==
    /\ senatorPc[s] = "locks" /\ at[s] = clerkCount + 1
    /\ senatorLineCount' = senatorLineCount + 1 /\ senatorDone' = FALSE
    /\ senatorLock' = Nobody
    /\ AwaitsClerk(s, 2)
    /\ UNCHANGED <<senatorKeeps, myLine, clerkLock, clerkCV, outsideLineCV, senatorLineCV, customerData>>
EntersOffice(s) ==
    /\ senatorPc[s] = "locks" /\ at[s] = clerkCount + 1
    /\ senatorLineCount' = senatorLineCount + 1 /\ senatorDone' = FALSE
    /\ senatorLock' = Nobody
    /\ AwaitsClerk(s, 1)
    /\ UNCHANGED <<senatorKeeps, myLine, clerkLock, clerkCV, outsideLineCV, senatorLineCV, customerData>>
Offered(s) == LET k == at[s] IN /\ ~Waits(s, clerkSenatorCV[k])
                               /\ CanTake(clerkSenatorCVLock[k], s)
NextClerk(s) == LET k == at[s] IN
    /\ senatorPc[s] = "await" /\ Offered(s) /\ k < clerkCount
    /\ clerkSenatorCVLock' = [clerkSenatorCVLock EXCEPT ![k] = s, ![k + 1] = Nobody]
    /\ clerkSenatorCV' = [clerkSenatorCV EXCEPT ![k + 1] = Append(@, s)]
    /\ at' = [at EXCEPT ![s] = k + 1]
    /\ UNCHANGED <<senatorKeeps, senatorPc, myLine, senatorLineCount, senatorDone, senatorLock,
                   clerkLock, clerkCV, outsideLineCV, senatorLineCV, customerData>>
LastClerk(s) == LET k == at[s] IN
    /\ \/ senatorPc[s] = "await" /\ UNCHANGED senatorDone
       \/ senatorPc[s] = "awaitAgain" /\ senatorDone' = FALSE
    /\ Offered(s) /\ k = clerkCount
    /\ clerkSenatorCVLock' = [clerkSenatorCVLock EXCEPT ![k] = s]
    /\ GoSenatorAt(s, "next", 1)
    /\ UNCHANGED <<senatorKeeps, myLine, senatorLineCount, senatorLock, clerkLock, clerkCV,
                   clerkSenatorCV, outsideLineCV, senatorLineCV, customerData>>

\* There is one already: wait in the senators' line ...
WaitsInSenatorLine(s) ==
    /\ senatorPc[s] = "enter" /\ senatorLock = Nobody /\ senatorLineCount > 0
    /\ senatorLineCount' = senatorLineCount + 1
    /\ senatorLineCV' = Append(senatorLineCV, s)
    /\ GoSenator(s, "line")
    /\ UNCHANGED <<senatorKeeps, at, myLine, senatorDone, senatorLock, clerkLock,
                   clerkSenatorCVLock, clerkCV, clerkSenatorCV, outsideLineCV, customerData>>
\* ... and take over, with senatorLock held from now on: take both locks of every clerk,
IsNext(s) ==
    /\ senatorPc[s] = "line" /\ ~Waits(s, senatorLineCV) /\ senatorLock = Nobody
    /\ senatorLock' = s /\ senatorDone' = TRUE
    /\ GoSenatorAt(s, "takesCounter", 1)
    /\ UNCHANGED <<senatorKeeps, myLine, senatorLineCount, clerkLock, clerkSenatorCVLock, clerkCV,
                   clerkSenatorCV, outsideLineCV, senatorLineCV, customerData>>
TakesCounter(s) == LET k == at[s] IN
    /\ senatorPc[s] = "takesCounter" /\ CanTake(clerkLock[k], s)
    /\ clerkLock' = [clerkLock EXCEPT ![k] = s]
    /\ GoSenator(s, "takesClerk")
    /\ UNCHANGED <<senatorKeeps, at, myLine, senatorLineCount, senatorDone, senatorLock,
                   clerkSenatorCVLock, clerkCV, clerkSenatorCV, outsideLineCV, senatorLineCV,
                   customerData>>
TakesClerk(s) == LET k == at[s] IN
    /\ senatorPc[s] = "takesClerk" /\ CanTake(clerkSenatorCVLock[k], s)
    /\ clerkSenatorCVLock' = [clerkSenatorCVLock EXCEPT ![k] = s]
    /\ IF k < clerkCount THEN GoSenatorAt(s, "takesCounter", k + 1) ELSE GoSenatorAt(s, "signals", 1)
    /\ UNCHANGED <<senatorKeeps, myLine, senatorLineCount, senatorDone, senatorLock, clerkLock,
                   clerkCV, clerkSenatorCV, outsideLineCV, senatorLineCV, customerData>>
\* send away who waits at each counter,
SendsAway(s) == LET k == at[s] IN
    /\ senatorPc[s] = "signals"
    /\ clerkCV' = [clerkCV EXCEPT ![k] = Signaled(@)]
    /\ clerkLock' = [clerkLock EXCEPT ![k] = Nobody]
    /\ IF k < clerkCount THEN GoSenatorAt(s, "signals", k + 1) ELSE GoSenatorAt(s, "asks", 1)
    /\ UNCHANGED <<senatorKeeps, myLine, senatorLineCount, senatorDone, senatorLock,
                   clerkSenatorCVLock, clerkSenatorCV, outsideLineCV, senatorLineCV, customerData>>
\* and ask every clerk to offer itself.
Asks(s, k) ==
    /\ clerkSenatorCV' = [clerkSenatorCV EXCEPT ![k] = Append(Signaled(@), s)]
    /\ at' = [at EXCEPT ![s] = k]
AsksFirst(s) ==
    /\ senatorPc[s] = "asks"
    /\ Asks(s, 1)
    /\ clerkSenatorCVLock' = [clerkSenatorCVLock EXCEPT ![1] = Nobody]
    /\ GoSenator(s, "awaitAgain")
    /\ UNCHANGED <<senatorKeeps, myLine, senatorLineCount, senatorDone, senatorLock, clerkLock,
                   clerkCV, outsideLineCV, senatorLineCV, customerData>>
AsksNext(s) == LET k == at[s] IN
    /\ senatorPc[s] = "awaitAgain" /\ Offered(s) /\ k < clerkCount
    /\ Asks(s, k + 1)
    /\ clerkSenatorCVLock' = [clerkSenatorCVLock EXCEPT ![k] = s, ![k + 1] = Nobody]
    /\ UNCHANGED <<senatorKeeps, senatorPc, myLine, senatorLineCount, senatorDone, senatorLock,
                   clerkLock, clerkCV, outsideLineCV, senatorLineCV, customerData>>

\* The last clerk in order that has something to do for a senator, else the last choice.
SenatorChoice(s) == IF ClerksFor(s) = {} THEN myLine[s] ELSE Max(ClerksFor(s))

\* Tell a clerk that it is wanted, and wait until it has gone to its counter.
CallsClerk(s) == LET i == SenatorChoice(s) IN
    /\ senatorPc[s] = "next" /\ s \notin done
    /\ myLine' = [myLine EXCEPT ![s] = i]
    /\ clerkSenatorCV' = [clerkSenatorCV EXCEPT ![i] = Append(Signaled(@), s)]
    /\ clerkSenatorCVLock' = [clerkSenatorCVLock EXCEPT ![i] = Released(@, s)]
    /\ GoSenator(s, "calls")
    /\ UNCHANGED <<senatorKeeps, at, senatorLineCount, senatorDone, senatorLock, clerkLock, clerkCV,
                   outsideLineCV, senatorLineCV, customerData>>
ClerkComes(s) == LET i == myLine[s] IN
    /\ senatorPc[s] = "calls" /\ ~Waits(s, clerkSenatorCV[i]) /\ CanTake(clerkSenatorCVLock[i], s)
    /\ clerkSenatorCVLock' = [clerkSenatorCVLock EXCEPT ![i] = Nobody]
    /\ GoSenator(s, "goes")
    /\ UNCHANGED <<senatorKeeps, at, myLine, senatorLineCount, senatorDone, senatorLock, clerkLock,
                   clerkCV, clerkSenatorCV, outsideLineCV, senatorLineCV, customerData>>
SenatorGivesData_Late(s) == LET i == myLine[s] IN
    /\ senatorPc[s] = "goes" /\ CanTake(clerkLock[i], s)
    /\ clerkCV' = [clerkCV EXCEPT ![i] = Append(Signaled(@), s)]
    /\ clerkLock' = [clerkLock EXCEPT ![i] = Nobody]
    /\ GoSenator(s, "counter")
    /\ UNCHANGED <<senatorKeeps, at, myLine, senatorLineCount, senatorDone, senatorLock,
                   clerkSenatorCVLock, clerkSenatorCV, outsideLineCV, senatorLineCV, customerData>>
\* The senator's data; its clerkLock is not given back before the end.
SenatorGivesData(s) == LET i == myLine[s] IN
    /\ senatorPc[s] = "goes" /\ CanTake(clerkLock[i], s)
    /\ customerData' = [customerData EXCEPT ![i] = s]
    /\ clerkCV' = [clerkCV EXCEPT ![i] = Append(Signaled(@), s)]
    /\ clerkLock' = [clerkLock EXCEPT ![i] = Nobody]
    /\ GoSenator(s, "counter")
    /\ UNCHANGED <<senatorKeeps, at, myLine, senatorLineCount, senatorDone, senatorLock,
                   clerkSenatorCVLock, clerkSenatorCV, outsideLineCV, senatorLineCV>>
IsServed(s) == LET i == myLine[s] IN
    /\ senatorPc[s] = "counter" /\ ~Waits(s, clerkCV[i]) /\ CanTake(clerkLock[i], s)
    /\ clerkLock' = [clerkLock EXCEPT ![i] = s]
    /\ GoSenator(s, "next")
    /\ UNCHANGED <<senatorKeeps, at, myLine, senatorLineCount, senatorDone, senatorLock,
                   clerkSenatorCVLock, clerkCV, clerkSenatorCV, outsideLineCV, senatorLineCV,
                   customerData>>

\* Leave: the last one frees the clerks and lets the customers in ...
Leaves(s) ==
    /\ senatorPc[s] = "next" /\ s \in done /\ CanTake(senatorLock, s)
    /\ senatorLock' = s /\ senatorLineCount' = senatorLineCount - 1
    /\ GoSenatorAt(s, IF senatorLineCount = 1 THEN "frees" ELSE "handsOn", 1)
    /\ UNCHANGED <<senatorKeeps, myLine, senatorDone, clerkLock, clerkSenatorCVLock, clerkCV,
                   clerkSenatorCV, outsideLineCV, senatorLineCV, customerData>>
FreesClerk(s) == LET k == at[s] IN
    /\ senatorPc[s] = "frees" /\ k <= clerkCount
    /\ clerkCV' = [clerkCV EXCEPT ![k] = Signaled(@)]
    /\ clerkLock' = [clerkLock EXCEPT ![k] = Released(@, s)]
    /\ clerkSenatorCV' = [clerkSenatorCV EXCEPT ![k] = Signaled(@)]
    /\ clerkSenatorCVLock' = [clerkSenatorCVLock EXCEPT ![k] = Released(@, s)]
    /\ at' = [at EXCEPT ![s] = k + 1]
    /\ UNCHANGED <<senatorKeeps, senatorPc, myLine, senatorLineCount, senatorDone, senatorLock,
                   outsideLineCV, senatorLineCV, customerData>>
LetsCustomersIn_Forgotten(s) ==
    /\ senatorPc[s] = "frees" /\ at[s] = clerkCount + 1
    /\ senatorLock' = Nobody
    /\ GoSenator(s, "gone")
    /\ UNCHANGED <<senatorKeeps, at, myLine, senatorLineCount, senatorDone, clerkLock,
                   clerkSenatorCVLock, clerkCV, clerkSenatorCV, outsideLineCV, senatorLineCV,
                   customerData>>
LetsCustomersIn(s) ==
    /\ senatorPc[s] = "frees" /\ at[s] = clerkCount + 1
    /\ outsideLineCV' = {} /\ senatorLock' = Nobody
    /\ GoSenator(s, "gone")
    /\ UNCHANGED <<senatorKeeps, at, myLine, senatorLineCount, senatorDone, clerkLock,
                   clerkSenatorCVLock, clerkCV, clerkSenatorCV, senatorLineCV, customerData>>
\* ... any other leaves the office to the next.
HandsOn(s) ==
    /\ senatorPc[s] = "handsOn"
    /\ clerkLock' = [i \in Clerks |-> Released(clerkLock[i], s)]
    /\ clerkSenatorCVLock' = [i \in Clerks |-> Released(clerkSenatorCVLock[i], s)]
    /\ senatorLineCV' = Signaled(senatorLineCV) /\ senatorLock' = Nobody
    /\ GoSenator(s, "gone")
    /\ UNCHANGED <<senatorKeeps, at, myLine, senatorLineCount, senatorDone, clerkCV,
                   clerkSenatorCV, outsideLineCV, customerData>>

-----------------------------------------------------------------------------
(* The manager: all between two of its waits is one step, as it makes no call there that   *)
(* another thread could come between. *)

managerKeeps == <<clerkPc, customerPc, myLine, papers, clerkStates, lines, senate, lineLock,
                  clerkLock, clerkSenatorCVLock, clerkCV, clerkSenatorCV, outsideLineCV,
                  customerData>>
WakesClerks == breakCV' = {i \in breakCV : clerkStates[i] # "ONBREAK"}

LinesTooLong == MapThenSumSet(LineSize, Clerks) > 2 \/ senatorLineCount > 0

LooksAtLines ==
    /\ managerPc = "begin" /\ managerPc' = "wait"
    /\ IF LinesTooLong THEN WakesClerks ELSE UNCHANGED breakCV
    /\ UNCHANGED <<managerKeeps, currentTotal>>

\* After its wait: has nothing moved since the last look? (customersAreAllDone) Then the lines.
TotalOfPapers == LET Count(S) == Cardinality(S \cap Customers \cap people)
                 IN  Count(filed) + Count(likes) + Count(certified) + Count(done)
LooksAgain ==
    /\ managerPc = "wait"
    /\ currentTotal' = TotalOfPapers
    /\ managerPc' = IF people \subseteq done THEN "gone" ELSE "wait"
    /\ IF TotalOfPapers = currentTotal \/ (~(people \subseteq done) /\ LinesTooLong)
       THEN WakesClerks ELSE UNCHANGED breakCV
    /\ UNCHANGED managerKeeps

-----------------------------------------------------------------------------
ClerkStep(i) ==
    \/ LooksForSenator(i) \/ OffersSenator(i) \/ SenatorWants(i) \/ SenatorChanges(i)
    \/ SenatorLeft(i) \/ BackToLine(i) \/ CallsCustomer(i) \/ GoesOnBreak(i) \/ ComesBack(i)
    \/ TestsState(i) \/ WaitsAtCounter(i) \/ BeginsJob(i) \/ DoesJob(i) \/ EndsJob(i) \/ IsFree(i)
CustomerStep(c) ==
    \/ Enters(c) \/ WaitsOutside(c) \/ IsLetIn(c) \/ Chooses(c) \/ GoesToCounter(c) \/ Bribes(c)
    \/ QueuesUp(c) \/ LeavesLine(c) \/ GivesData(c) \/ LeavesCounter(c) \/ LooksBack(c) \/ Returns(c)
SenatorStep(s) ==
    \/ Arrives(s) \/ LocksClerk(s) \/ EntersOffice(s) \/ NextClerk(s) \/ LastClerk(s)
    \/ WaitsInSenatorLine(s) \/ IsNext(s) \/ TakesCounter(s) \/ TakesClerk(s) \/ SendsAway(s)
    \/ AsksFirst(s) \/ AsksNext(s) \/ CallsClerk(s) \/ ClerkComes(s) \/ SenatorGivesData(s)
    \/ IsServed(s) \/ Leaves(s) \/ FreesClerk(s) \/ LetsCustomersIn(s) \/ HandsOn(s)
\* Who sleeps: in a queue, or for a lock. (Or has left.)
Sleeps(queue, owner, t) == Waits(t, queue) \/ ~CanTake(owner, t)
ClerkSleeps(i) ==
    CASE clerkPc[i] = "toSenator" -> ~CanTake(clerkSenatorCVLock[i], i)
      [] clerkPc[i] = "senator" -> Sleeps(clerkSenatorCV[i], clerkSenatorCVLock[i], i)
      [] clerkPc[i] \in {"toLine", "backToLine"} -> ~CanTake(lineLock, i)
      [] clerkPc[i] = "toCounter" -> ~CanTake(clerkLock[i], i)
      [] clerkPc[i] \in {"waits", "ends"} -> Sleeps(clerkCV[i], clerkLock[i], i)
      [] clerkPc[i] = "break" -> i \in breakCV
      [] OTHER -> FALSE
CustomerSleeps(c) == LET i == myLine[c] IN
    CASE customerPc[c] = "enter" -> c \in done
      [] customerPc[c] = "outside" -> c \in outsideLineCV
      [] customerPc[c] = "choose" -> lineLock # Nobody
      [] customerPc[c] = "bribeLine" -> Sleeps(clerkBribeLineCV[i], lineLock, c)
      [] customerPc[c] = "line" -> Sleeps(clerkLineCV[i], lineLock, c)
      [] customerPc[c] = "called" -> clerkLock[i] # Nobody
      [] customerPc[c] = "counter" -> Sleeps(clerkCV[i], clerkLock[i], c)
      [] OTHER -> FALSE
SenatorSleeps(s) == LET k == at[s] i == myLine[s] IN
    CASE senatorPc[s] = "enter" -> senatorLock # Nobody
      [] senatorPc[s] = "locks" -> k <= clerkCount /\ ~CanTake(clerkSenatorCVLock[k], s)
      [] senatorPc[s] \in {"await", "awaitAgain"} -> Sleeps(clerkSenatorCV[k], clerkSenatorCVLock[k], s)
      [] senatorPc[s] = "line" -> Sleeps(senatorLineCV, senatorLock, s)
      [] senatorPc[s] = "takesCounter" -> ~CanTake(clerkLock[k], s)
      [] senatorPc[s] = "takesClerk" -> ~CanTake(clerkSenatorCVLock[k], s)
      [] senatorPc[s] = "next" -> s \in done /\ ~CanTake(senatorLock, s)
      [] senatorPc[s] = "calls" -> Sleeps(clerkSenatorCV[i], clerkSenatorCVLock[i], s)
      [] senatorPc[s] = "goes" -> ~CanTake(clerkLock[i], s)
      [] senatorPc[s] = "counter" -> Sleeps(clerkCV[i], clerkLock[i], s)
      [] OTHER -> senatorPc[s] = "gone"

\* After these a thread has slept or yielded: it goes on when it gets the processor.
Runs(t) ==
    CASE t \in Clerks -> clerkPc[t] \notin {"senator", "waits", "ends", "break", "talks", "job"}
                         /\ ~ClerkSleeps(t)
      [] t \in Customers \cap people ->
             customerPc[t] \notin {"outside", "bribeLine", "line", "counter", "yields"}
             /\ ~CustomerSleeps(t)
      [] t \in Senators \cap people ->
             senatorPc[t] \notin {"await", "awaitAgain", "line", "calls", "counter"}
             /\ ~SenatorSleeps(t)
      [] OTHER -> FALSE
Step(t) == /\ currentThread \in {Nobody, t}
           /\ UNCHANGED <<clerkTypes, people>>
           /\ currentThread' = IF Runs(t)' /\ ~randomYield THEN t ELSE Nobody
Crashed == \E c \in people \cap Customers : customerPc[c] = "crash"
Next == /\ ~Crashed
        /\ \/ \E i \in Clerks : ClerkStep(i) /\ Step(i)
           \/ \E c \in people \cap Customers : CustomerStep(c) /\ Step(c)
           \/ \E s \in people \cap Senators : SenatorStep(s) /\ Step(s)
           \/ (LooksAtLines \/ LooksAgain) /\ Step(Nobody)
Spec == Init /\ [][Next]_vars

-----------------------------------------------------------------------------
(* Properties *)

Serves(i) == clerkPc[i] \in {"talks", "job", "signals"}
StandsAt(p, i) == /\ myLine[p] = i
                  /\ IF p \in Customers THEN customerPc[p] = "counter" ELSE senatorPc[p] = "counter"

\* A clerk never works for anybody else while somebody stands at its counter: not for the one
\* before, whose number is still in customerData, however many signals have woken it.
NobodyPassedOver == \A p \in people, i \in Clerks :
    StandsAt(p, i) /\ Serves(i) => customerData[i] = p

\* From the time that all clerks have confirmed it until it leaves, a senator has the office
\* for itself: no other senator is inside, and no clerk works for anybody else.
Inside(s) == senatorPc[s] \in {"next", "calls", "goes", "counter"}
SenatorAlone == \A s \in people \cap Senators : Inside(s) =>
    /\ \A t \in people \cap Senators : Inside(t) => s = t
    /\ \A i \in Clerks : Serves(i) => customerData[i] = s

\* The locks and conditions of a counter are taken and signalled in a different order by
\* clerks, customers and senators: still nobody waits for ever. When all threads but the
\* manager sleep, everybody is done, or the manager wakes a clerk that finds somebody to serve.
Stopped == /\ \A i \in Clerks : ClerkSleeps(i)
           /\ \A c \in people \cap Customers : CustomerSleeps(c)
           /\ \A s \in people \cap Senators : SenatorSleeps(s)
StopsDone == Stopped =>
    people \subseteq done \/ \E i \in breakCV : LineSize(i) > 0 \/ senatorLineCount > 0
=============================================================================
