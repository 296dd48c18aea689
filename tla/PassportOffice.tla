--------------------------- MODULE PassportOffice ---------------------------
(***************************************************************************)
(* The passport office of threads/threadtest.cc (Part2): clerks, customers *)
(* and a manager, kernel threads that meet through the locks and           *)
(* conditions of threads/synch.cc. Senators are left out: senatorCount is  *)
(* 0, and so is senatorLineCount all the time.                             *)
(*                                                                         *)
(* The kernel switches threads only inside its calls, so what a thread     *)
(* does between two of them is one step. Steps whose middle nobody can see *)
(* for want of the lock held there are joined: of the locks only clerkLock *)
(* is ever seen held, by a clerk that does the job. Who gets a lock next   *)
(* is left open.                                                           *)
(***************************************************************************)
EXTENDS Integers, Sequences, FiniteSets, FiniteSetsExt

CONSTANTS Clerks,       \* 0 .. clerkCount - 1
          clerkTypes,   \* what each of them is
          Customers,
          Purses,       \* what a customer may have at first (moneyArray)
          Nobody,
          MaxMessUps    \* bound: how often clerks mess up, in all

ASSUME PassportAssumption ==
    /\ IsFiniteSet(Clerks) /\ Clerks \subseteq Nat /\ Clerks \cap Customers = {}
    /\ clerkTypes \in [Clerks -> {"ApplicationClerk", "PictureClerk", "PassportClerk", "Cashier"}]
    /\ \A type \in {"ApplicationClerk", "PictureClerk", "PassportClerk", "Cashier"} :
         \E i \in Clerks : clerkTypes[i] = type      \* clerkFactory
    /\ IsFiniteSet(Customers) /\ Purses \subseteq Int /\ MaxMessUps \in Nat
    /\ Nobody \notin Clerks \cup Customers

VARIABLES
    clerkPc, customerPc,     \* where each thread is
    myLine,                  \* the clerk that each customer has chosen
    filed, likes, certified, done, sentBack,
                             \* the customers with applicationIsFiled, likesPicture,
                             \* hasCertification, isDone, clerkMessedUp
    money,
    clerkStates,
    clerkLineCount, clerkBribeLineCount,
    clerkLineCV, clerkBribeLineCV,   \* the customers that wait in each line
    clerkCV,                 \* who waits at each counter, the clerk included
    breakCV,                 \* the clerks that wait for the manager
    customerData,            \* the customer that last gave its data to each clerk
    clerkMoney,
    messUps

attributes == <<filed, likes, certified, done, sentBack>>
purses == <<money, clerkMoney>>
lines == <<clerkLineCount, clerkBribeLineCount, clerkLineCV, clerkBribeLineCV>>
vars == <<clerkPc, customerPc, myLine, attributes, purses, clerkStates, lines, clerkCV,
          breakCV, customerData, messUps>>

\* A new CustomerAttribute for each customer.
NewCustomers ==
    /\ filed = {} /\ likes = {} /\ certified = {} /\ done = {} /\ sentBack = {}
    /\ money \in [Customers -> Purses]
createClerkLocksAndConditions ==
    /\ clerkLineCV = [i \in Clerks |-> << >>] /\ clerkBribeLineCV = [i \in Clerks |-> << >>]
    /\ clerkCV = [i \in Clerks |-> << >>] /\ breakCV = {}
createClerkThreads == clerkPc = [i \in Clerks |-> "choose"]
createCustomerThreads == /\ customerPc = [c \in Customers |-> "choose"]
                         /\ myLine = [c \in Customers |-> Nobody]

Init ==
    /\ NewCustomers /\ createClerkLocksAndConditions /\ createClerkThreads /\ createCustomerThreads
    /\ clerkMoney = [i \in Clerks |-> 0]
    /\ clerkStates = [i \in Clerks |-> "AVAILABLE"]
    /\ clerkLineCount = [i \in Clerks |-> 0] /\ clerkBribeLineCount = [i \in Clerks |-> 0]
    /\ customerData = [i \in Clerks |-> Nobody]
    /\ messUps = 0

Waits(t, queue) == \E k \in DOMAIN queue : queue[k] = t
Signaled(queue) == IF queue = << >> THEN queue ELSE Tail(queue)
Works(i) == clerkPc[i] \in {"job", "refuses"}
ClerkLockFree(i) == ~Works(i)
GoClerk(i, at) == clerkPc' = [clerkPc EXCEPT ![i] = at]
GoCustomer(c, at) == customerPc' = [customerPc EXCEPT ![c] = at]

-----------------------------------------------------------------------------
(* Clerks: chooseCustomerFromLine *)

\* The last customer has said that it goes, or there was none.
Free(i) == \/ clerkPc[i] = "choose"
           \/ clerkPc[i] = "ends" /\ ~Waits(i, clerkCV[i])

\* Call a customer, from the bribe line first, and wait for it at the counter.
CallsCustomer(i) ==
    /\ Free(i)
    /\ \/ /\ clerkBribeLineCount[i] > 0
          /\ clerkBribeLineCV' = [clerkBribeLineCV EXCEPT ![i] = Signaled(@)]
          /\ UNCHANGED clerkLineCV
       \/ /\ clerkBribeLineCount[i] = 0 /\ clerkLineCount[i] > 0
          /\ clerkLineCV' = [clerkLineCV EXCEPT ![i] = Signaled(@)]
          /\ UNCHANGED clerkBribeLineCV
    /\ clerkStates' = [clerkStates EXCEPT ![i] = "BUSY"]
    /\ clerkCV' = [clerkCV EXCEPT ![i] = Append(@, i)]
    /\ GoClerk(i, "waits")
    /\ UNCHANGED <<customerPc, myLine, attributes, purses, clerkLineCount,
                   clerkBribeLineCount, breakCV, customerData, messUps>>

\* Nobody in line: whatever the state was, the clerk takes a break.
GoesOnBreak(i) ==
    /\ Free(i)
    /\ clerkBribeLineCount[i] = 0 /\ clerkLineCount[i] = 0
    /\ clerkStates' = [clerkStates EXCEPT ![i] = "ONBREAK"]
    /\ breakCV' = breakCV \cup {i}
    /\ GoClerk(i, "break")
    /\ UNCHANGED <<customerPc, myLine, attributes, purses, lines, clerkCV, customerData, messUps>>

ComesBack(i) ==
    /\ clerkPc[i] = "break" /\ i \notin breakCV
    /\ clerkStates' = [clerkStates EXCEPT ![i] = "AVAILABLE"]
    /\ GoClerk(i, "test")
    /\ UNCHANGED <<customerPc, myLine, attributes, purses, lines, clerkCV, breakCV,
                   customerData, messUps>>

\* The loop's condition is read without a lock: a customer may have come meanwhile.
TestsState(i) ==
    /\ clerkPc[i] = "test"
    /\ IF clerkStates[i] = "BUSY"
       THEN GoClerk(i, "waits") /\ clerkCV' = [clerkCV EXCEPT ![i] = Append(@, i)]
       ELSE GoClerk(i, "choose") /\ UNCHANGED clerkCV
    /\ UNCHANGED <<customerPc, myLine, attributes, purses, clerkStates, lines, breakCV,
                   customerData, messUps>>

\* Which customers a clerk has something to do for.
Accepts(i, c) == CASE clerkTypes[i] = "PassportClerk" -> c \in filed \cap likes
                   [] clerkTypes[i] = "Cashier" -> c \in certified
                   [] OTHER -> TRUE

\* Signalled by a customer: take clerkLock back and begin; a cashier takes the money.
BeginsJob(i) == LET c == customerData[i] IN
    /\ clerkPc[i] = "waits" /\ ~Waits(i, clerkCV[i])
    /\ IF Accepts(i, c)
       THEN GoClerk(i, "job") /\ clerkStates' = [clerkStates EXCEPT ![i] = "BUSY"]
       ELSE GoClerk(i, "refuses") /\ UNCHANGED clerkStates
    /\ IF clerkTypes[i] = "Cashier" /\ Accepts(i, c)
       THEN /\ money' = [money EXCEPT ![c] = @ - 100]
            /\ clerkMoney' = [clerkMoney EXCEPT ![i] = @ + 100]
       ELSE UNCHANGED purses
    /\ UNCHANGED <<customerPc, myLine, attributes, lines, clerkCV, breakCV, customerData, messUps>>

\* What becomes of the customer that the clerk has read from customerData.
Files(i) == /\ clerkTypes[i] = "ApplicationClerk"
            /\ filed' = filed \cup {customerData[i]}
            /\ UNCHANGED <<likes, certified, done, sentBack, messUps>>
TakesPicture(i) == /\ clerkTypes[i] = "PictureClerk"
                   /\ likes' = likes \cup {customerData[i]}
                   /\ UNCHANGED <<filed, certified, done, sentBack, messUps>>
Certifies(i) == /\ clerkTypes[i] = "PassportClerk"
                /\ certified' = certified \cup {customerData[i]}
                /\ sentBack' = sentBack \ {customerData[i]}
                /\ UNCHANGED <<filed, likes, done, messUps>>
Cashes(i) == /\ clerkTypes[i] = "Cashier"
             /\ done' = done \cup {customerData[i]}
             /\ sentBack' = sentBack \ {customerData[i]}
             /\ UNCHANGED <<filed, likes, certified, messUps>>
MessesUp(i) == /\ clerkTypes[i] \in {"PassportClerk", "Cashier"}
               /\ messUps < MaxMessUps /\ messUps' = messUps + 1
               /\ sentBack' = sentBack \cup {customerData[i]}
               /\ UNCHANGED <<filed, likes, certified, done>>
DoesJob(i) == /\ clerkPc[i] = "job"
              /\ Files(i) \/ TakesPicture(i) \/ Certifies(i) \/ Cashes(i) \/ MessesUp(i)
Refuses(i) == clerkPc[i] = "refuses" /\ UNCHANGED <<attributes, messUps>>

\* clerkSignalsNextCustomer: wake the customer, and wait for it to say that it goes.
EndsJob(i) ==
    /\ DoesJob(i) \/ Refuses(i)
    /\ clerkCV' = [clerkCV EXCEPT ![i] = Append(Signaled(@), i)]
    /\ GoClerk(i, "ends")
    /\ UNCHANGED <<customerPc, myLine, purses, clerkStates, lines, breakCV, customerData>>

-----------------------------------------------------------------------------
(* Customers *)

LineSize(i) == clerkLineCount[i] + clerkBribeLineCount[i]

\* The clerks that a customer needs, and the first of them with the shortest lines.
Needed(c) == {i \in Clerks :
    /\ c \notin done
    /\ CASE clerkTypes[i] = "ApplicationClerk" -> c \notin filed \cup certified
         [] clerkTypes[i] = "PictureClerk" -> c \notin likes \cup certified
         [] clerkTypes[i] = "PassportClerk" -> c \in (filed \cap likes) \ certified
         [] OTHER -> c \in filed \cap likes \cap certified}
Chosen(c) == LET shortest == {i \in Needed(c) : \A j \in Needed(c) : LineSize(i) <= LineSize(j)}
             IN  Min(shortest)

\* Made done, by a cashier that still had its number, after it has found that it is not: it
\* needs no clerk, and reads in front of the arrays. The machine is taken to crash.
ReadsNoClerk(c) ==
    /\ customerPc[c] = "choose" /\ Needed(c) = {}
    /\ GoCustomer(c, "crash")
    /\ UNCHANGED <<clerkPc, myLine, attributes, purses, clerkStates, lines, clerkCV, breakCV,
                   customerData, messUps>>

\* A clerk in its break can be claimed as a free one.
GoesToCounter_OnBreak(c) == LET i == Chosen(c) IN
    /\ customerPc[c] = "choose" /\ Needed(c) # {}
    /\ clerkStates[i] # "BUSY"
    /\ clerkStates' = [clerkStates EXCEPT ![i] = "BUSY"]
    /\ myLine' = [myLine EXCEPT ![c] = i]
    /\ GoCustomer(c, "called")
    /\ UNCHANGED <<clerkPc, attributes, purses, lines, clerkCV, breakCV, customerData, messUps>>

\* The clerk is free: go to the counter at once.
GoesToCounter(c) == LET i == Chosen(c) IN
    /\ customerPc[c] = "choose" /\ Needed(c) # {}
    /\ clerkStates[i] = "AVAILABLE"
    /\ clerkStates' = [clerkStates EXCEPT ![i] = "BUSY"]
    /\ myLine' = [myLine EXCEPT ![c] = i]
    /\ GoCustomer(c, "called")
    /\ UNCHANGED <<clerkPc, attributes, purses, lines, clerkCV, breakCV, customerData, messUps>>

\* It is not: wait in line, in the other one for 500.
Bribes(c) == LET i == Chosen(c) IN
    /\ customerPc[c] = "choose" /\ Needed(c) # {}
    /\ clerkStates[i] # "AVAILABLE" /\ money[c] > 100
    /\ money' = [money EXCEPT ![c] = @ - 500]
    /\ clerkMoney' = [clerkMoney EXCEPT ![i] = @ + 500]
    /\ clerkBribeLineCount' = [clerkBribeLineCount EXCEPT ![i] = @ + 1]
    /\ clerkBribeLineCV' = [clerkBribeLineCV EXCEPT ![i] = Append(@, c)]
    /\ myLine' = [myLine EXCEPT ![c] = i]
    /\ GoCustomer(c, "bribeLine")
    /\ UNCHANGED <<clerkPc, attributes, clerkStates, clerkLineCount, clerkLineCV, clerkCV,
                   breakCV, customerData, messUps>>

QueuesUp(c) == LET i == Chosen(c) IN
    /\ customerPc[c] = "choose" /\ Needed(c) # {}
    /\ clerkStates[i] # "AVAILABLE" /\ money[c] <= 100
    /\ clerkLineCount' = [clerkLineCount EXCEPT ![i] = @ + 1]
    /\ clerkLineCV' = [clerkLineCV EXCEPT ![i] = Append(@, c)]
    /\ myLine' = [myLine EXCEPT ![c] = i]
    /\ GoCustomer(c, "line")
    /\ UNCHANGED <<clerkPc, attributes, purses, clerkStates, clerkBribeLineCount,
                   clerkBribeLineCV, clerkCV, breakCV, customerData, messUps>>

\* Signalled in the line: leave it, in the books too.
LeavesBribeLine(c) == LET i == myLine[c] IN
    /\ customerPc[c] = "bribeLine" /\ ~Waits(c, clerkBribeLineCV[i])
    /\ clerkBribeLineCount' = [clerkBribeLineCount EXCEPT ![i] = @ - 1]
    /\ UNCHANGED clerkLineCount
\* The line's count is not taken back.
LeavesRegularLine_Counted(c) == LET i == myLine[c] IN
    /\ customerPc[c] = "line" /\ ~Waits(c, clerkLineCV[i])
    /\ UNCHANGED <<clerkLineCount, clerkBribeLineCount>>
LeavesRegularLine(c) == LET i == myLine[c] IN
    /\ customerPc[c] = "line" /\ ~Waits(c, clerkLineCV[i])
    /\ clerkLineCount' = [clerkLineCount EXCEPT ![i] = @ - 1]
    /\ UNCHANGED clerkBribeLineCount
LeavesLine(c) ==
    /\ LeavesBribeLine(c) \/ LeavesRegularLine(c)
    /\ GoCustomer(c, "called")
    /\ UNCHANGED <<clerkPc, myLine, attributes, purses, clerkStates, clerkLineCV,
                   clerkBribeLineCV, clerkCV, breakCV, customerData, messUps>>

GivesData(c) == LET i == myLine[c] IN
    /\ customerPc[c] = "called" /\ ClerkLockFree(i)
    /\ customerData' = [customerData EXCEPT ![i] = c]
    /\ clerkCV' = [clerkCV EXCEPT ![i] = Append(Signaled(@), c)]
    /\ GoCustomer(c, "counter")
    /\ UNCHANGED <<clerkPc, myLine, attributes, purses, clerkStates, lines, breakCV, messUps>>

\* Signalled at the counter: signal in turn and go.
LeavesCounter(c) == LET i == myLine[c] IN
    /\ customerPc[c] = "counter" /\ ~Waits(c, clerkCV[i]) /\ ClerkLockFree(i)
    /\ clerkCV' = [clerkCV EXCEPT ![i] = Signaled(@)]
    /\ GoCustomer(c, "left")
    /\ UNCHANGED <<clerkPc, myLine, attributes, purses, clerkStates, lines, breakCV,
                   customerData, messUps>>

\* The loop's condition is read before clerkLineLock is taken.
GoesOn(c) == GoCustomer(c, IF c \in done THEN "home" ELSE "choose")

\* Who was sent back waits a while, without a lock.
LooksBack(c) == /\ customerPc[c] = "left"
                /\ IF c \in sentBack THEN GoCustomer(c, "yields") ELSE GoesOn(c)
                /\ UNCHANGED <<clerkPc, myLine, attributes, purses, clerkStates, lines, clerkCV,
                               breakCV, customerData, messUps>>

Returns(c) == /\ customerPc[c] = "yields"
              /\ sentBack' = sentBack \ {c}
              /\ GoesOn(c)
              /\ UNCHANGED <<clerkPc, myLine, filed, likes, certified, done, purses,
                             clerkStates, lines, clerkCV, breakCV, customerData, messUps>>

-----------------------------------------------------------------------------
(* The manager looks at all lines and wakes the clerks with interrupts off. *)

customersAreAllDone == done = Customers
wakeUpClerks == breakCV' = {i \in breakCV : clerkStates[i] # "ONBREAK"}

\* The manager waits for three in line.
LinesLongEnough_Three == MapThenSumSet(LineSize, Clerks) >= 3
LinesLongEnough == MapThenSumSet(LineSize, Clerks) >= 2

ManagerWakes == ~customersAreAllDone /\ LinesLongEnough
Manager ==
    /\ ManagerWakes
    /\ wakeUpClerks
    /\ UNCHANGED <<clerkPc, customerPc, myLine, attributes, purses, clerkStates, lines, clerkCV,
                   customerData, messUps>>

-----------------------------------------------------------------------------
ClerkStep(i) == \/ CallsCustomer(i) \/ GoesOnBreak(i) \/ ComesBack(i) \/ TestsState(i)
                \/ BeginsJob(i) \/ EndsJob(i)
CustomerStep(c) == \/ ReadsNoClerk(c) \/ GoesToCounter(c) \/ Bribes(c) \/ QueuesUp(c)
                   \/ LeavesLine(c) \/ GivesData(c) \/ LeavesCounter(c) \/ LooksBack(c)
                   \/ Returns(c)
Crashed == \E c \in Customers : customerPc[c] = "crash"
Next == /\ ~Crashed
        /\ \/ \E i \in Clerks : ClerkStep(i)
           \/ \E c \in Customers : CustomerStep(c)
           \/ Manager
Spec == Init /\ [][Next]_vars

-----------------------------------------------------------------------------
\* Every variable has its type; counts never fall below zero.
TypeOK ==
    /\ clerkPc \in [Clerks -> {"choose", "break", "test", "waits", "job", "refuses", "ends"}]
    /\ customerPc \in [Customers -> {"choose", "bribeLine", "line", "called", "counter", "left",
                                   "yields", "home", "crash"}]
    /\ myLine \in [Customers -> Clerks \cup {Nobody}]
    /\ filed \cup likes \cup certified \cup done \cup sentBack \subseteq Customers
    /\ money \in [Customers -> Int] /\ clerkMoney \in [Clerks -> Nat]
    /\ clerkStates \in [Clerks -> {"AVAILABLE", "BUSY", "ONBREAK"}]
    /\ clerkLineCount \in [Clerks -> Nat] /\ clerkBribeLineCount \in [Clerks -> Nat]
    /\ \A i \in Clerks : /\ clerkLineCV[i] \in Seq(Customers)
                          /\ clerkBribeLineCV[i] \in Seq(Customers)
                          /\ clerkCV[i] \in Seq(Customers \cup {i})
    /\ breakCV \subseteq Clerks
    /\ customerData \in [Clerks -> Customers \cup {Nobody}]
    /\ messUps \in 0..MaxMessUps

\* A clerk that is woken at its counter finds the data of a customer, never the array's first
\* contents, however the customers that find it AVAILABLE and its breaks interleave.
HasData == \A i \in Clerks : Works(i) => customerData[i] \in Customers

\* A clerk asleep in its break is one that the manager will wake: nobody has overwritten ONBREAK.
SleepsOnBreak == \A i \in breakCV : clerkStates[i] = "ONBREAK"

\* The counts by which customers choose and clerks call are those of the customers in the
\* line, called ones included until they take themselves off under clerkLineLock.
LineCountsRight == \A i \in Clerks :
    LET In(at) == Cardinality({c \in Customers : customerPc[c] = at /\ myLine[c] = i})
    IN  clerkLineCount[i] = In("line") /\ clerkBribeLineCount[i] = In("bribeLine")

\* Nothing to do for a customer before somebody signals it.
Asleep(c) == LET i == myLine[c] IN
    CASE customerPc[c] = "line" -> Waits(c, clerkLineCV[i])
      [] customerPc[c] = "bribeLine" -> Waits(c, clerkBribeLineCV[i])
      [] customerPc[c] = "counter" -> Waits(c, clerkCV[i])
      [] OTHER -> customerPc[c] = "home"

\* With all clerks in their breaks the office stops only with one customer left, whom the
\* manager's rule of two never helps, or one left at a counter by a rendezvous that failed.
StopsWithOneAtMost ==
    breakCV = Clerks /\ (\A c \in Customers : Asleep(c)) /\ ~ManagerWakes
    => \/ Cardinality(Customers \ done) <= 1
       \/ \E c \in Customers : customerPc[c] = "counter"
=============================================================================
