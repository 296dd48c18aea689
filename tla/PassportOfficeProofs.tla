------------------------- MODULE PassportOfficeProofs -------------------------
(***************************************************************************)
(* Theorems about PassportOffice, for any number of clerks and customers,  *)
(* any purses and any number of mess-ups.                                  *)
(***************************************************************************)
EXTENDS PassportOffice, FiniteSetTheorems, WellFoundedInduction, TLAPS

\* What the steps need to know of the types.
Tables ==
    /\ clerkPc \in [Clerks -> {"choose", "break", "test", "waits", "job", "refuses", "ends"}]
    /\ customerPc \in [Customers -> {"choose", "bribeLine", "line", "called", "counter", "left",
                                   "yields", "home", "crash"}]
    /\ DOMAIN myLine = Customers
    /\ DOMAIN clerkStates = Clerks
    /\ clerkCV \in [Clerks -> Seq(Customers \cup Clerks)]
    /\ DOMAIN customerData = Clerks

\* The clerks that wait for the manager are in their breaks, and nobody has claimed them.
Breaks == \A i \in breakCV : i \in Clerks /\ clerkPc[i] = "break" /\ clerkStates[i] = "ONBREAK"

\* The queue at a counter after a signal, and with somebody more.
LEMMA Counters ==
    ASSUME NEW queue \in Seq(Customers \cup Clerks), NEW t \in Customers \cup Clerks
    PROVE  /\ Append(queue, t) \in Seq(Customers \cup Clerks)
           /\ Signaled(queue) \in Seq(Customers \cup Clerks)
           /\ Append(Signaled(queue), t) \in Seq(Customers \cup Clerks)
  BY DEF Signaled

LEMMA TablesInit == Init => Tables
  BY PassportAssumption DEF Init, NewCustomers, createClerkLocksAndConditions, createClerkThreads,
            createCustomerThreads, Tables

LEMMA TablesStep == Tables /\ [Next]_vars => Tables'
  <1> SUFFICES ASSUME Tables, [Next]_vars PROVE Tables'
    OBVIOUS
  <1> USE DEF Tables
  <1>1. ASSUME NEW i \in Clerks, CallsCustomer(i) PROVE Tables'
    BY <1>1, Counters DEF CallsCustomer, GoClerk
  <1>2. ASSUME NEW i \in Clerks, GoesOnBreak(i) PROVE Tables'
    BY <1>2 DEF GoesOnBreak, GoClerk
  <1>3. ASSUME NEW i \in Clerks, ComesBack(i) PROVE Tables'
    BY <1>3 DEF ComesBack, GoClerk
  <1>4. ASSUME NEW i \in Clerks, TestsState(i) PROVE Tables'
    <2>1. Append(clerkCV[i], i) \in Seq(Customers \cup Clerks)
      BY Counters
    <2>2. CASE clerkStates[i] = "BUSY"
      BY <1>4, <2>1, <2>2 DEF TestsState, GoClerk
    <2>3. CASE clerkStates[i] # "BUSY"
      BY <1>4, <2>3 DEF TestsState, GoClerk
    <2> QED BY <2>2, <2>3
  <1>5. ASSUME NEW i \in Clerks, BeginsJob(i) PROVE Tables'
    BY <1>5 DEF BeginsJob, GoClerk
  <1>6. ASSUME NEW i \in Clerks, EndsJob(i) PROVE Tables'
    BY <1>6, Counters DEF EndsJob, GoClerk
  <1>7. ASSUME NEW c \in Customers, GoesToCounter(c) PROVE Tables'
    BY <1>7 DEF GoesToCounter, GoCustomer
  <1>8. ASSUME NEW c \in Customers, Bribes(c) PROVE Tables'
    BY <1>8 DEF Bribes, GoCustomer
  <1>9. ASSUME NEW c \in Customers, QueuesUp(c) PROVE Tables'
    BY <1>9 DEF QueuesUp, GoCustomer
  <1>10. ASSUME NEW c \in Customers, LeavesLine(c) PROVE Tables'
    BY <1>10 DEF LeavesLine, GoCustomer
  <1>11. ASSUME NEW c \in Customers, GivesData(c) PROVE Tables'
    BY <1>11, Counters DEF GivesData, GoCustomer
  <1>12. ASSUME NEW c \in Customers, LeavesCounter(c) PROVE Tables'
    BY <1>12, Counters DEF LeavesCounter, GoCustomer
  <1>13. ASSUME NEW c \in Customers, ReadsNoClerk(c) \/ LooksBack(c) \/ Returns(c) PROVE Tables'
    BY <1>13 DEF ReadsNoClerk, LooksBack, Returns, GoesOn, GoCustomer
  <1>14. CASE Manager
    BY <1>14 DEF Manager, wakeUpClerks
  <1>15. CASE UNCHANGED vars
    BY <1>15 DEF vars, lines
  <1> QED
    BY <1>1, <1>2, <1>3, <1>4, <1>5, <1>6, <1>7, <1>8, <1>9, <1>10, <1>11, <1>12, <1>13, <1>14,
       <1>15 DEF Next, ClerkStep, CustomerStep

\* A clerk asleep in its break stays ONBREAK, so that the manager can wake it (manager and
\* GoesToCounter against chooseCustomerFromLine).
LEMMA BreaksStep == Tables /\ Breaks /\ [Next]_vars => Breaks'
  <1> SUFFICES ASSUME Tables, Breaks, [Next]_vars PROVE Breaks'
    OBVIOUS
  <1> USE DEF Tables, Breaks
  <1>1. ASSUME NEW i \in Clerks, CallsCustomer(i) PROVE Breaks'
    BY <1>1 DEF CallsCustomer, GoClerk, Free
  <1>2. ASSUME NEW i \in Clerks, GoesOnBreak(i) PROVE Breaks'
    BY <1>2 DEF GoesOnBreak, GoClerk
  <1>3. ASSUME NEW i \in Clerks, ComesBack(i) PROVE Breaks'
    BY <1>3 DEF ComesBack, GoClerk
  <1>4. ASSUME NEW i \in Clerks, TestsState(i) PROVE Breaks'
    BY <1>4 DEF TestsState, GoClerk
  <1>5. ASSUME NEW i \in Clerks, BeginsJob(i) PROVE Breaks'
    BY <1>5 DEF BeginsJob, GoClerk
  <1>6. ASSUME NEW i \in Clerks, EndsJob(i) PROVE Breaks'
    BY <1>6 DEF EndsJob, DoesJob, Refuses, GoClerk
  <1>7. ASSUME NEW c \in Customers, GoesToCounter(c) PROVE Breaks'
    BY <1>7 DEF GoesToCounter
  <1>8. ASSUME NEW c \in Customers, CustomerStep(c), ~GoesToCounter(c) PROVE Breaks'
    BY <1>8 DEF CustomerStep, ReadsNoClerk, Bribes, QueuesUp, LeavesLine, GivesData,
                LeavesCounter, LooksBack, Returns
  <1>9. CASE Manager
    BY <1>9 DEF Manager, wakeUpClerks
  <1>10. CASE UNCHANGED vars
    BY <1>10 DEF vars
  <1> QED
    BY <1>1, <1>2, <1>3, <1>4, <1>5, <1>6, <1>7, <1>8, <1>9, <1>10 DEF Next, ClerkStep

\* For any number of clerks and customers, a clerk asleep in its break is one that the
\* manager will wake.
THEOREM BreaksCanEnd == Spec => []SleepsOnBreak
  <1>1. Init => Tables /\ Breaks
    BY TablesInit DEF Init, NewCustomers, createClerkLocksAndConditions, createClerkThreads,
            createCustomerThreads, Breaks
  <1>2. Tables /\ Breaks /\ [Next]_vars => Tables' /\ Breaks'
    BY TablesStep, BreaksStep
  <1>3. Breaks => SleepsOnBreak
    BY DEF Breaks, SleepsOnBreak
  <1> QED BY <1>1, <1>2, <1>3, PTL DEF Spec

-----------------------------------------------------------------------------
(* The clerk that is woken has somebody's data *)

\* A clerk that has been woken has data; a customer gives it before anybody is woken.
DataGiven ==
    /\ \A i \in Clerks : clerkPc[i] = "waits" /\ ~Waits(i, clerkCV[i]) => customerData[i] \in Customers
    /\ \A i \in Clerks : Works(i) => customerData[i] \in Customers
    /\ \A c \in Customers : customerPc[c] = "counter" /\ myLine[c] \in Clerks
                           => customerData[myLine[c]] \in Customers

LEMMA WaitsAppended ==
    ASSUME NEW S, NEW queue \in Seq(S), NEW t \in S
    PROVE  Waits(t, Append(queue, t))
  BY Append(queue, t)[Len(queue) + 1] = t, Len(queue) + 1 \in DOMAIN Append(queue, t) DEF Waits

LEMMA DataStep == Tables /\ DataGiven /\ [Next]_vars => DataGiven'
  <1> SUFFICES ASSUME Tables, DataGiven, [Next]_vars PROVE DataGiven'
    OBVIOUS
  <1> USE DEF Tables, DataGiven, Works
  <1>1. ASSUME NEW i \in Clerks, CallsCustomer(i) PROVE DataGiven'
    <2>1. Waits(i, Append(clerkCV[i], i))
      BY WaitsAppended
    <2>2. /\ clerkPc' = [clerkPc EXCEPT ![i] = "waits"]
          /\ clerkCV' = [clerkCV EXCEPT ![i] = Append(clerkCV[i], i)]
          /\ UNCHANGED <<customerPc, myLine, customerData>>
      BY <1>1 DEF CallsCustomer, GoClerk
    <2> QED BY <2>1, <2>2
  <1>2. ASSUME NEW i \in Clerks, GoesOnBreak(i) PROVE DataGiven'
    BY <1>2 DEF GoesOnBreak, GoClerk
  <1>3. ASSUME NEW i \in Clerks, ComesBack(i) PROVE DataGiven'
    BY <1>3 DEF ComesBack, GoClerk
  <1>4. ASSUME NEW i \in Clerks, TestsState(i) PROVE DataGiven'
    <2>1. Waits(i, Append(clerkCV[i], i))
      BY WaitsAppended
    <2>2. CASE clerkStates[i] = "BUSY"
      BY <1>4, <2>1, <2>2 DEF TestsState, GoClerk
    <2>3. CASE clerkStates[i] # "BUSY"
      BY <1>4, <2>3 DEF TestsState, GoClerk
    <2> QED BY <2>2, <2>3
  <1>5. ASSUME NEW i \in Clerks, BeginsJob(i) PROVE DataGiven'
    BY <1>5 DEF BeginsJob, GoClerk
  <1>6. ASSUME NEW i \in Clerks, EndsJob(i) PROVE DataGiven'
    <2>1. /\ clerkPc' = [clerkPc EXCEPT ![i] = "ends"]
          /\ clerkCV' = [clerkCV EXCEPT ![i] = Append(Signaled(clerkCV[i]), i)]
          /\ UNCHANGED <<customerPc, myLine, customerData>>
      BY <1>6 DEF EndsJob, DoesJob, Refuses, GoClerk
    <2> QED BY <2>1
  <1>7. ASSUME NEW c \in Customers, GoesToCounter(c) PROVE DataGiven'
    BY <1>7 DEF GoesToCounter, GoCustomer
  <1>8. ASSUME NEW c \in Customers, Bribes(c) PROVE DataGiven'
    BY <1>8 DEF Bribes, GoCustomer, lines
  <1>9. ASSUME NEW c \in Customers, QueuesUp(c) PROVE DataGiven'
    BY <1>9 DEF QueuesUp, GoCustomer, lines
  <1>10. ASSUME NEW c \in Customers, LeavesLine(c) PROVE DataGiven'
    BY <1>10 DEF LeavesLine, GoCustomer
  <1>11. ASSUME NEW c \in Customers, GivesData(c) PROVE DataGiven'
    <2>1. /\ clerkCV' = [clerkCV EXCEPT ![myLine[c]] = Append(Signaled(clerkCV[myLine[c]]), c)]
          /\ customerData' = [customerData EXCEPT ![myLine[c]] = c]
          /\ customerPc' = [customerPc EXCEPT ![c] = "counter"]
          /\ UNCHANGED <<clerkPc, myLine>>
      BY <1>11 DEF GivesData, GoCustomer
    <2> QED BY <2>1
  <1>12. ASSUME NEW c \in Customers, LeavesCounter(c) PROVE DataGiven'
    <2>1. /\ customerPc[c] = "counter"
          /\ clerkCV' = [clerkCV EXCEPT ![myLine[c]] = Signaled(clerkCV[myLine[c]])]
          /\ customerPc' \in {[customerPc EXCEPT ![c] = at] : at \in {"left"}}
          /\ UNCHANGED <<clerkPc, myLine, customerData>>
      BY <1>12 DEF LeavesCounter, GoCustomer
    <2>2. myLine[c] \in Clerks => customerData[myLine[c]] \in Customers
      BY <2>1
    <2> QED BY <2>1, <2>2
  <1>13. ASSUME NEW c \in Customers, ReadsNoClerk(c) \/ LooksBack(c) \/ Returns(c) PROVE DataGiven'
    BY <1>13 DEF ReadsNoClerk, LooksBack, Returns, GoesOn, GoCustomer
  <1>14. CASE Manager
    BY <1>14 DEF Manager, wakeUpClerks
  <1>15. CASE UNCHANGED vars
    BY <1>15 DEF vars
  <1> QED
    BY <1>1, <1>2, <1>3, <1>4, <1>5, <1>6, <1>7, <1>8, <1>9, <1>10, <1>11, <1>12, <1>13, <1>14,
       <1>15 DEF Next, ClerkStep, CustomerStep

\* For any number of clerks and customers, a clerk that works has the data of a customer.
THEOREM ClerksHaveData == Spec => []HasData
  <1>1. Init => Tables /\ DataGiven
    BY TablesInit DEF Init, NewCustomers, createClerkLocksAndConditions, createClerkThreads,
            createCustomerThreads, DataGiven, Works
  <1>2. Tables /\ DataGiven /\ [Next]_vars => Tables' /\ DataGiven'
    BY TablesStep, DataStep
  <1>3. DataGiven => HasData
    BY DEF DataGiven, HasData
  <1> QED BY <1>1, <1>2, <1>3, PTL DEF Spec

-----------------------------------------------------------------------------
(* Lines and their counts *)

InLine(at, i) == {c \in Customers : customerPc[c] = at /\ myLine[c] = i}

\* The counts are numbers of customers; the functions that hold them keep their domains.
Counted ==
    /\ DOMAIN clerkLineCount = Clerks /\ DOMAIN clerkBribeLineCount = Clerks
    /\ LineCountsRight

\* A customer that enters or leaves a line is one more or less in it.
LEMMA OneMore ==
    ASSUME NEW S \in SUBSET Customers, NEW c \in Customers \ S
    PROVE  Cardinality(S \cup {c}) = Cardinality(S) + 1
  BY FS_Subset, FS_AddElement, PassportAssumption
LEMMA OneLess ==
    ASSUME NEW S \in SUBSET Customers, NEW c \in S
    PROVE  Cardinality(S \ {c}) = Cardinality(S) - 1
  BY FS_Subset, FS_RemoveElement, PassportAssumption

\* Steps that move nobody into a line or out of one.
LEMMA NobodyMoves ==
    ASSUME Counted, UNCHANGED <<clerkLineCount, clerkBribeLineCount>>,
           \A c \in Customers : \A at \in {"line", "bribeLine"} :
               \/ customerPc'[c] # at /\ customerPc[c] # at
               \/ customerPc'[c] = customerPc[c] /\ myLine'[c] = myLine[c]
    PROVE  Counted'
  <1>1. \A i \in Clerks : InLine("line", i)' = InLine("line", i)
    BY DEF InLine
  <1>2. \A i \in Clerks : InLine("bribeLine", i)' = InLine("bribeLine", i)
    BY DEF InLine
  <1> QED BY <1>1, <1>2 DEF Counted, LineCountsRight, InLine

LEMMA CountedStep == Tables /\ Counted /\ [Next]_vars => Counted'
  <1> SUFFICES ASSUME Tables, Counted, [Next]_vars PROVE Counted'
    OBVIOUS
  <1> USE DEF Tables
  <1>1. ASSUME NEW i \in Clerks, ClerkStep(i) PROVE Counted'
    <2>1. UNCHANGED <<customerPc, myLine, clerkLineCount, clerkBribeLineCount>>
      BY <1>1 DEF ClerkStep, CallsCustomer, GoesOnBreak, ComesBack, TestsState, BeginsJob, EndsJob,
                  lines
    <2> QED BY <2>1, NobodyMoves
  <1>2. ASSUME NEW c \in Customers, GoesToCounter(c) PROVE Counted'
    BY <1>2, NobodyMoves DEF GoesToCounter, GoCustomer, lines
  <1>3. ASSUME NEW c \in Customers, Bribes(c) PROVE Counted'
    <2> PICK i : i = Chosen(c)
      OBVIOUS
    <2>1. /\ customerPc[c] = "choose" /\ customerPc' = [customerPc EXCEPT ![c] = "bribeLine"]
          /\ myLine' = [myLine EXCEPT ![c] = i]
          /\ clerkBribeLineCount' = [clerkBribeLineCount EXCEPT ![i] = clerkBribeLineCount[i] + 1]
          /\ UNCHANGED clerkLineCount
      BY <1>3 DEF Bribes, GoCustomer
    <2>2. \A j \in Clerks : InLine("line", j)' = InLine("line", j)
      BY <2>1 DEF InLine
    <2>3. \A j \in Clerks : j # i => InLine("bribeLine", j)' = InLine("bribeLine", j)
      BY <2>1 DEF InLine
    <2>4. InLine("bribeLine", i)' = InLine("bribeLine", i) \cup {c} /\ c \notin InLine("bribeLine", i)
      BY <2>1 DEF InLine
    <2>5. Cardinality(InLine("bribeLine", i)') = Cardinality(InLine("bribeLine", i)) + 1
      <3>1. InLine("bribeLine", i) \in SUBSET Customers
        BY DEF InLine
      <3>2. c \in Customers \ InLine("bribeLine", i)
        BY <2>4
      <3> QED BY ONLY <2>4, <3>1, <3>2, OneMore
    <2>6. /\ DOMAIN clerkLineCount' = Clerks /\ DOMAIN clerkBribeLineCount' = Clerks
      BY <2>1 DEF Counted
    <2>7. ASSUME NEW j \in Clerks PROVE clerkLineCount'[j] = Cardinality(InLine("line", j)')
      BY <2>1, <2>2 DEF Counted, LineCountsRight, InLine
    <2>8. ASSUME NEW j \in Clerks, j # i
          PROVE  clerkBribeLineCount'[j] = Cardinality(InLine("bribeLine", j)')
      BY <2>1, <2>3, <2>8 DEF Counted, LineCountsRight, InLine
    <2>9. i \in Clerks => clerkBribeLineCount'[i] = Cardinality(InLine("bribeLine", i)')
      BY <2>1, <2>5 DEF Counted, LineCountsRight, InLine
    <2>10. \A j \in Clerks : clerkBribeLineCount'[j] = Cardinality(InLine("bribeLine", j)')
      BY <2>8, <2>9
    <2> QED BY <2>6, <2>7, <2>10 DEF Counted, LineCountsRight, InLine
  <1>4. ASSUME NEW c \in Customers, QueuesUp(c) PROVE Counted'
    <2> PICK i : i = Chosen(c)
      OBVIOUS
    <2>1. /\ customerPc[c] = "choose" /\ customerPc' = [customerPc EXCEPT ![c] = "line"]
          /\ myLine' = [myLine EXCEPT ![c] = i]
          /\ clerkLineCount' = [clerkLineCount EXCEPT ![i] = clerkLineCount[i] + 1]
          /\ UNCHANGED clerkBribeLineCount
      BY <1>4 DEF QueuesUp, GoCustomer
    <2>2. \A j \in Clerks : InLine("bribeLine", j)' = InLine("bribeLine", j)
      BY <2>1 DEF InLine
    <2>3. \A j \in Clerks : j # i => InLine("line", j)' = InLine("line", j)
      BY <2>1 DEF InLine
    <2>4. InLine("line", i)' = InLine("line", i) \cup {c} /\ c \notin InLine("line", i)
      BY <2>1 DEF InLine
    <2>5. Cardinality(InLine("line", i)') = Cardinality(InLine("line", i)) + 1
      <3>1. InLine("line", i) \in SUBSET Customers
        BY DEF InLine
      <3>2. c \in Customers \ InLine("line", i)
        BY <2>4
      <3> QED BY ONLY <2>4, <3>1, <3>2, OneMore
    <2>6. /\ DOMAIN clerkLineCount' = Clerks /\ DOMAIN clerkBribeLineCount' = Clerks
      BY <2>1 DEF Counted
    <2>7. ASSUME NEW j \in Clerks PROVE clerkBribeLineCount'[j] = Cardinality(InLine("bribeLine", j)')
      BY <2>1, <2>2 DEF Counted, LineCountsRight, InLine
    <2>8. ASSUME NEW j \in Clerks, j # i
          PROVE  clerkLineCount'[j] = Cardinality(InLine("line", j)')
      BY <2>1, <2>3, <2>8 DEF Counted, LineCountsRight, InLine
    <2>9. i \in Clerks => clerkLineCount'[i] = Cardinality(InLine("line", i)')
      BY <2>1, <2>5 DEF Counted, LineCountsRight, InLine
    <2>10. \A j \in Clerks : clerkLineCount'[j] = Cardinality(InLine("line", j)')
      BY <2>8, <2>9
    <2> QED BY <2>6, <2>7, <2>10 DEF Counted, LineCountsRight, InLine
  <1>5. ASSUME NEW c \in Customers, LeavesLine(c), LeavesBribeLine(c) PROVE Counted'
    <2> PICK i : i = myLine[c]
      OBVIOUS
    <2>1. /\ myLine[c] = i /\ customerPc[c] = "bribeLine"
          /\ customerPc' = [customerPc EXCEPT ![c] = "called"]
          /\ clerkBribeLineCount' = [clerkBribeLineCount EXCEPT ![i] = clerkBribeLineCount[i] - 1]
          /\ UNCHANGED <<clerkLineCount, myLine>>
      BY <1>5 DEF LeavesLine, LeavesBribeLine, GoCustomer
    <2>2. \A j \in Clerks : InLine("line", j)' = InLine("line", j)
      BY <2>1 DEF InLine
    <2>3. \A j \in Clerks : j # i => InLine("bribeLine", j)' = InLine("bribeLine", j)
      BY <2>1 DEF InLine
    <2>4. InLine("bribeLine", i)' = InLine("bribeLine", i) \ {c} /\ c \in InLine("bribeLine", i)
      BY <2>1 DEF InLine
    <2>5. Cardinality(InLine("bribeLine", i)') = Cardinality(InLine("bribeLine", i)) - 1
      BY <2>4, OneLess DEF InLine
    <2>6. /\ DOMAIN clerkLineCount' = Clerks /\ DOMAIN clerkBribeLineCount' = Clerks
      BY <2>1 DEF Counted
    <2>7. ASSUME NEW j \in Clerks PROVE clerkLineCount'[j] = Cardinality(InLine("line", j)')
      BY <2>1, <2>2 DEF Counted, LineCountsRight, InLine
    <2>8. ASSUME NEW j \in Clerks, j # i
          PROVE  clerkBribeLineCount'[j] = Cardinality(InLine("bribeLine", j)')
      BY <2>1, <2>3, <2>8 DEF Counted, LineCountsRight, InLine
    <2>9. i \in Clerks => clerkBribeLineCount'[i] = Cardinality(InLine("bribeLine", i)')
      BY <2>1, <2>5 DEF Counted, LineCountsRight, InLine
    <2>10. \A j \in Clerks : clerkBribeLineCount'[j] = Cardinality(InLine("bribeLine", j)')
      BY <2>8, <2>9
    <2> QED BY <2>6, <2>7, <2>10 DEF Counted, LineCountsRight, InLine
  <1>6. ASSUME NEW c \in Customers, LeavesLine(c), LeavesRegularLine(c) PROVE Counted'
    <2> PICK i : i = myLine[c]
      OBVIOUS
    <2>1. /\ myLine[c] = i /\ customerPc[c] = "line"
          /\ customerPc' = [customerPc EXCEPT ![c] = "called"]
          /\ clerkLineCount' = [clerkLineCount EXCEPT ![i] = clerkLineCount[i] - 1]
          /\ UNCHANGED <<clerkBribeLineCount, myLine>>
      BY <1>6 DEF LeavesLine, LeavesRegularLine, GoCustomer
    <2>2. \A j \in Clerks : InLine("bribeLine", j)' = InLine("bribeLine", j)
      BY <2>1 DEF InLine
    <2>3. \A j \in Clerks : j # i => InLine("line", j)' = InLine("line", j)
      BY <2>1 DEF InLine
    <2>4. InLine("line", i)' = InLine("line", i) \ {c} /\ c \in InLine("line", i)
      BY <2>1 DEF InLine
    <2>5. Cardinality(InLine("line", i)') = Cardinality(InLine("line", i)) - 1
      BY <2>4, OneLess DEF InLine
    <2>6. /\ DOMAIN clerkLineCount' = Clerks /\ DOMAIN clerkBribeLineCount' = Clerks
      BY <2>1 DEF Counted
    <2>7. ASSUME NEW j \in Clerks PROVE clerkBribeLineCount'[j] = Cardinality(InLine("bribeLine", j)')
      BY <2>1, <2>2 DEF Counted, LineCountsRight, InLine
    <2>8. ASSUME NEW j \in Clerks, j # i
          PROVE  clerkLineCount'[j] = Cardinality(InLine("line", j)')
      BY <2>1, <2>3, <2>8 DEF Counted, LineCountsRight, InLine
    <2>9. i \in Clerks => clerkLineCount'[i] = Cardinality(InLine("line", i)')
      BY <2>1, <2>5 DEF Counted, LineCountsRight, InLine
    <2>10. \A j \in Clerks : clerkLineCount'[j] = Cardinality(InLine("line", j)')
      BY <2>8, <2>9
    <2> QED BY <2>6, <2>7, <2>10 DEF Counted, LineCountsRight, InLine
  <1>7. ASSUME NEW c \in Customers, GivesData(c) PROVE Counted'
    BY <1>7, NobodyMoves DEF GivesData, GoCustomer, lines
  <1>8. ASSUME NEW c \in Customers, LeavesCounter(c) PROVE Counted'
    BY <1>8, NobodyMoves DEF LeavesCounter, GoCustomer, lines
  <1>9. ASSUME NEW c \in Customers, ReadsNoClerk(c) \/ LooksBack(c) \/ Returns(c) PROVE Counted'
    BY <1>9, NobodyMoves DEF ReadsNoClerk, LooksBack, Returns, GoesOn, GoCustomer, lines
  <1>10. CASE Manager
    BY <1>10, NobodyMoves DEF Manager, wakeUpClerks, lines
  <1>11. CASE UNCHANGED vars
    BY <1>11, NobodyMoves DEF vars, lines
  <1> QED
    BY <1>1, <1>2, <1>3, <1>4, <1>5, <1>6, <1>7, <1>8, <1>9, <1>10, <1>11
    DEF Next, CustomerStep, LeavesLine

LEMMA CountedInit == Init => Counted
  <1> SUFFICES ASSUME Init PROVE Counted
    OBVIOUS
  <1>1. \A i \in Clerks : InLine("line", i) = {} /\ InLine("bribeLine", i) = {}
    BY DEF Init, NewCustomers, createClerkLocksAndConditions, createClerkThreads,
           createCustomerThreads, InLine
  <1> QED BY <1>1, FS_EmptySet DEF Init, NewCustomers, createClerkLocksAndConditions,
             createClerkThreads, createCustomerThreads, Counted, LineCountsRight, InLine

\* For any number of clerks and customers, the counts of the lines are the numbers of the
\* customers in them.
THEOREM CountsAreLines == Spec => []LineCountsRight
  <1>1. Init => Tables /\ Counted
    BY TablesInit, CountedInit
  <1>2. Tables /\ Counted /\ [Next]_vars => Tables' /\ Counted'
    BY TablesStep, CountedStep
  <1>3. Counted => LineCountsRight
    BY DEF Counted
  <1> QED BY <1>1, <1>2, <1>3, PTL DEF Spec
-----------------------------------------------------------------------------
(* What the manager counts, and who is left when it wakes nobody *)

LEMMA LeastOf ==
    ASSUME NEW S \in SUBSET Nat, S # {}
    PROVE  Min(S) \in S /\ \A m \in S : Min(S) <= m
  <1> DEFINE Less == {p \in Nat \X Nat : p[1] < p[2]}
  <1>1. IsWellFoundedOn(Less, Nat)
    <2>1. Less = OpToRel(<, Nat)
      BY Zenon DEF OpToRel
    <2> QED BY <2>1, NatLessThanWellFounded
  <1>2. PICK n \in S : \A m \in S : <<m, n>> \notin Less
    <2> HIDE DEF Less
    <2> QED BY <1>1, WFMin
  <1>3. ASSUME NEW m \in S PROVE n <= m
    <2>1. <<m, n>> \in Nat \X Nat /\ ~(<<m, n>>[1] < <<m, n>>[2])
      BY <1>2
    <2> QED BY <2>1
  <1> QED BY <1>3 DEF Min

\* The sum over a set of clerks, taken one clerk at a time: what MapThenSumSet unfolds to.
One(T) == CHOOSE i \in T : TRUE
SumsUpTo(sum, Domain) ==
    sum = [T \in Domain |-> IF T = {} THEN 0 ELSE LineSize(One(T)) + sum[T \ {One(T)}]]
Small(n) == {T \in SUBSET Clerks : Cardinality(T) <= n}

LEMMA SmallOrEmpty ==
    ASSUME NEW T \in SUBSET Clerks
    PROVE  /\ IsFiniteSet(T) /\ Cardinality(T) \in Nat
           /\ T # {} => /\ One(T) \in T
                        /\ Cardinality(T \ {One(T)}) = Cardinality(T) - 1
  <1>1. IsFiniteSet(T) /\ Cardinality(T) \in Nat
    BY PassportAssumption, FS_Subset, FS_CardinalityType
  <1>2. T # {} => One(T) \in T
    BY DEF One
  <1> QED BY <1>1, <1>2, FS_RemoveElement

\* There is such a sum on the sets of n clerks, for every n: the least n without one has a
\* predecessor, and the sum there goes one further.
LEMMA SumsExist == \A n \in Nat : \E sum : SumsUpTo(sum, Small(n))
  <1> DEFINE Without == {n \in Nat : ~\E sum : SumsUpTo(sum, Small(n))}
  <1> SUFFICES ASSUME Without # {} PROVE FALSE
    OBVIOUS
  <1>1. PICK n \in Without : \A m \in Without : n <= m
    BY LeastOf
  <1>2. CASE n = 0
    <2>1. \A T \in Small(0) : T = {}
      <3>1. ASSUME NEW T \in SUBSET Clerks, Cardinality(T) <= 0 PROVE T = {}
        <4>1. IsFiniteSet(T) /\ Cardinality(T) \in Nat
          BY SmallOrEmpty
        <4>2. Cardinality(T) = 0
          BY <3>1, <4>1
        <4> QED BY <4>1, <4>2, FS_EmptySet
      <3> QED BY <3>1 DEF Small
    <2>2. SumsUpTo([T \in Small(0) |-> 0], Small(0))
      BY <2>1 DEF SumsUpTo
    <2> QED BY <1>1, <1>2, <2>2
  <1>3. CASE n # 0
    <2>1. n - 1 \in Nat /\ n - 1 \notin Without
      BY <1>1, <1>3
    <2>2. PICK sum : SumsUpTo(sum, Small(n - 1))
      BY <2>1
    <2> DEFINE more == [T \in Small(n) |-> IF T = {} THEN 0 ELSE LineSize(One(T)) + sum[T \ {One(T)}]]
    <2>3. ASSUME NEW T \in Small(n), T # {} PROVE T \ {One(T)} \in Small(n - 1)
      BY <2>1, <2>3, SmallOrEmpty DEF Small
    <2>4. ASSUME NEW T \in Small(n - 1) PROVE more[T] = sum[T]
      <3>1. T \in Small(n)
        <4>1. T \in SUBSET Clerks /\ Cardinality(T) <= n - 1
          BY DEF Small
        <4>2. Cardinality(T) \in Nat /\ n \in Nat
          BY <1>1, <4>1, SmallOrEmpty
        <4> QED BY <4>1, <4>2 DEF Small
      <3>2. sum[T] = IF T = {} THEN 0 ELSE LineSize(One(T)) + sum[T \ {One(T)}]
        BY <2>2 DEF SumsUpTo
      <3> QED BY <3>1, <3>2
    <2>5. ASSUME NEW T \in Small(n)
          PROVE  more[T] = IF T = {} THEN 0 ELSE LineSize(One(T)) + more[T \ {One(T)}]
      <3>1. T # {} => more[T \ {One(T)}] = sum[T \ {One(T)}]
        BY <2>3, <2>4
      <3> HIDE DEF One
      <3> QED BY <3>1
    <2>6. SumsUpTo(more, Small(n))
      <3> DEFINE again == [T \in Small(n) |-> IF T = {} THEN 0 ELSE LineSize(One(T)) + more[T \ {One(T)}]]
      <3>1. more = again
        BY <2>5
      <3> QED BY <3>1 DEF SumsUpTo
    <2> QED BY <1>1, <2>6
  <1> QED BY <1>2, <1>3

\* So what the manager adds up satisfies that equation.
LEMMA TotalIsSum ==
    \E sum : SumsUpTo(sum, SUBSET Clerks) /\ MapThenSumSet(LineSize, Clerks) = sum[Clerks]
  <1> DEFINE n == Cardinality(Clerks)
             total == CHOOSE sum : sum = [T \in SUBSET Clerks |->
                        IF T = {} THEN 0 ELSE LineSize(One(T)) + sum[T \ {One(T)}]]
  <1>1. n \in Nat /\ \A T \in SUBSET Clerks : Cardinality(T) <= n
    BY PassportAssumption, FS_Subset, FS_CardinalityType
  <1>2. Small(n) = SUBSET Clerks
    BY <1>1 DEF Small
  <1>3. \E sum : SumsUpTo(sum, SUBSET Clerks)
    BY <1>1, <1>2, SumsExist
  <1>4. SumsUpTo(total, SUBSET Clerks)
    BY <1>3, Zenon DEF SumsUpTo
  <1>5. MapThenSumSet(LineSize, Clerks) = total[Clerks]
    BY DEF MapThenSumSet, MapThenFoldSet, One
  <1> QED BY <1>4, <1>5
\* A sum of lines is no less than any of them, or than any two.
AtLeastTwo(sum, T) ==
    /\ sum[T] \in Nat
    /\ \A i \in T : LineSize(i) <= sum[T]
    /\ \A i, j \in T : i # j => LineSize(i) + LineSize(j) <= sum[T]

LEMMA SumsAtLeast ==
    ASSUME \A i \in Clerks : LineSize(i) \in Nat, NEW sum, SumsUpTo(sum, SUBSET Clerks)
    PROVE  \A T \in SUBSET Clerks : AtLeastTwo(sum, T)
  <1> DEFINE Short == {T \in SUBSET Clerks : ~AtLeastTwo(sum, T)}
             sizes == {Cardinality(T) : T \in Short}
  <1> SUFFICES ASSUME Short # {} PROVE FALSE
    OBVIOUS
  <1>1. sizes \in SUBSET Nat /\ sizes # {}
    <2>1. \A T \in Short : Cardinality(T) \in Nat
      BY SmallOrEmpty
    <2> HIDE DEF Short
    <2> QED BY <2>1
  <1>2. PICK T \in Short : \A U \in Short : Cardinality(T) <= Cardinality(U)
    <2>1. Min(sizes) \in sizes /\ \A m \in sizes : Min(sizes) <= m
      <3> HIDE DEF sizes
      <3> QED BY <1>1, LeastOf
    <2> QED BY <2>1
  <1>3. T \in SUBSET Clerks /\ ~AtLeastTwo(sum, T)
    BY <1>2
  <1>4. sum[T] = IF T = {} THEN 0 ELSE LineSize(One(T)) + sum[T \ {One(T)}]
    BY <1>3 DEF SumsUpTo
  <1>5. T # {}
    BY <1>3, <1>4 DEF AtLeastTwo
  <1> DEFINE rest == T \ {One(T)}
  <1>6. One(T) \in T /\ Cardinality(rest) = Cardinality(T) - 1 /\ Cardinality(T) \in Nat
    BY <1>3, <1>5, SmallOrEmpty
  <1>7. AtLeastTwo(sum, rest)
    <2>1. rest \in SUBSET Clerks /\ ~(Cardinality(T) <= Cardinality(rest))
      BY <1>3, <1>6
    <2> QED BY <1>2, <2>1
  <1>8. PICK one : one = LineSize(One(T))
    OBVIOUS
  <1>9. one \in Nat /\ sum[T] = one + sum[rest]
    BY <1>3, <1>4, <1>5, <1>6, <1>8
  <1>10. \A i \in T : LineSize(i) \in Nat /\ (i = One(T) \/ i \in rest)
    BY <1>3
  <1> HIDE DEF rest
  <1>11. AtLeastTwo(sum, T)
    <2>1. sum[T] \in Nat
      BY <1>7, <1>9 DEF AtLeastTwo
    <2>2. ASSUME NEW i \in T PROVE LineSize(i) <= sum[T]
      BY <1>7, <1>8, <1>9, <1>10 DEF AtLeastTwo
    <2>3. ASSUME NEW i \in T, NEW j \in T, i # j PROVE LineSize(i) + LineSize(j) <= sum[T]
      BY <1>7, <1>8, <1>9, <1>10, <2>3 DEF AtLeastTwo
    <2> QED BY <2>1, <2>2, <2>3 DEF AtLeastTwo
  <1> QED BY <1>3, <1>11

\* A customer in a line is in that of a clerk, one that it needs. Who goes home is done.
Placed ==
    /\ \A c \in Customers : customerPc[c] \in {"line", "bribeLine"} => myLine[c] \in Clerks
    /\ \A c \in Customers : customerPc[c] = "home" => c \in done

\* What a line holds is counted.
LEMMA SizesAreCounts ==
    ASSUME Counted
    PROVE  /\ \A i \in Clerks : LineSize(i) \in Nat
           /\ \A i \in Clerks : LineSize(i) = Cardinality(InLine("line", i))
                                              + Cardinality(InLine("bribeLine", i))
  <1>1. \A at, i : IsFiniteSet(InLine(at, i)) /\ Cardinality(InLine(at, i)) \in Nat
    BY PassportAssumption, FS_Subset, FS_CardinalityType DEF InLine
  <1>2. \A i \in Clerks : /\ clerkLineCount[i] = Cardinality(InLine("line", i))
                          /\ clerkBribeLineCount[i] = Cardinality(InLine("bribeLine", i))
    BY DEF Counted, LineCountsRight, InLine
  <1> QED BY <1>1, <1>2 DEF LineSize

LEMMA ChoosesClerk ==
    ASSUME Counted, NEW c \in Customers, Needed(c) # {}
    PROVE  Chosen(c) \in Clerks
  <1>1. Needed(c) \in SUBSET Clerks
    BY DEF Needed
  <1> DEFINE sizes == {LineSize(i) : i \in Needed(c)}
             shortest == {i \in Needed(c) : \A j \in Needed(c) : LineSize(i) <= LineSize(j)}
  <1>2. sizes \in SUBSET Nat /\ sizes # {}
    BY <1>1, SizesAreCounts
  <1>3. Min(sizes) \in sizes /\ \A m \in sizes : Min(sizes) <= m
    <2> HIDE DEF sizes
    <2> QED BY <1>2, LeastOf
  <1>4. shortest \in SUBSET Nat /\ shortest # {} /\ shortest \in SUBSET Clerks
    <2>1. PICK s \in Needed(c) : LineSize(s) = Min(sizes)
      BY <1>3
    <2>2. \A j \in Needed(c) : LineSize(s) <= LineSize(j)
      <3>1. \A j \in Needed(c) : LineSize(j) \in sizes
        OBVIOUS
      <3> HIDE DEF sizes
      <3> QED BY <1>3, <2>1, <3>1
    <2>3. s \in shortest
      BY <2>2
    <2> QED BY <1>1, <2>3, PassportAssumption
  <1>5. Min(shortest) \in shortest
    <2> HIDE DEF shortest
    <2> QED BY <1>4, LeastOf
  <1> QED BY <1>4, <1>5 DEF Chosen
LEMMA PlacedStep == Tables /\ Counted /\ Placed /\ [Next]_vars => Placed'
  <1> SUFFICES ASSUME Tables, Counted, Placed, [Next]_vars PROVE Placed'
    OBVIOUS
  <1> USE DEF Tables, Placed
  <1>1. ASSUME NEW i \in Clerks, EndsJob(i) PROVE Placed'
    <2>1. UNCHANGED <<customerPc, myLine>>
      BY <1>1 DEF EndsJob
    <2>2. done \subseteq done'
      BY <1>1 DEF EndsJob, DoesJob, Files, TakesPicture, Certifies, Cashes, MessesUp, Refuses,
                  attributes
    <2> QED BY <2>1, <2>2
  <1>2. ASSUME NEW i \in Clerks, ClerkStep(i), ~EndsJob(i) PROVE Placed'
    BY <1>2 DEF ClerkStep, CallsCustomer, GoesOnBreak, ComesBack, TestsState, BeginsJob, attributes
  <1>3. ASSUME NEW c \in Customers, GoesToCounter(c) PROVE Placed'
    BY <1>3 DEF GoesToCounter, GoCustomer, attributes
  <1>4. ASSUME NEW c \in Customers, Bribes(c) PROVE Placed'
    BY <1>4, ChoosesClerk DEF Bribes, GoCustomer, attributes
  <1>5. ASSUME NEW c \in Customers, QueuesUp(c) PROVE Placed'
    BY <1>5, ChoosesClerk DEF QueuesUp, GoCustomer, attributes
  <1>6. ASSUME NEW c \in Customers, LeavesLine(c) PROVE Placed'
    BY <1>6 DEF LeavesLine, GoCustomer, attributes
  <1>7. ASSUME NEW c \in Customers, GivesData(c) PROVE Placed'
    BY <1>7 DEF GivesData, GoCustomer, attributes
  <1>8. ASSUME NEW c \in Customers, ReadsNoClerk(c) \/ LeavesCounter(c) PROVE Placed'
    BY <1>8 DEF ReadsNoClerk, LeavesCounter, GoCustomer, attributes
  <1>9. ASSUME NEW c \in Customers, LooksBack(c) \/ Returns(c) PROVE Placed'
    BY <1>9 DEF LooksBack, Returns, GoesOn, GoCustomer, attributes
  <1>10. CASE Manager
    BY <1>10 DEF Manager, attributes
  <1>11. CASE UNCHANGED vars
    BY <1>11 DEF vars, attributes
  <1> QED
    BY <1>1, <1>2, <1>3, <1>4, <1>5, <1>6, <1>7, <1>8, <1>9, <1>10, <1>11 DEF Next, CustomerStep

\* Sets of customers with one member and with two.
LEMMA MembersCount ==
    ASSUME NEW S \in SUBSET Customers
    PROVE  /\ Cardinality(S) \in Nat
           /\ \A c \in S : Cardinality(S) >= 1
           /\ \A c, d \in S : c # d => Cardinality(S) >= 2
           /\ Cardinality(S) > 1 => \E c, d \in S : c # d
  <1>1. \A T \in SUBSET S : /\ IsFiniteSet(T) /\ Cardinality(T) \in Nat
                            /\ (Cardinality(T) = 0) <=> (T = {})
    BY PassportAssumption, FS_Subset, FS_CardinalityType, FS_EmptySet
  <1>2. \A c \in S : Cardinality(S \ {c}) = Cardinality(S) - 1
    BY <1>1, FS_RemoveElement
  <1>3. ASSUME NEW c \in S, NEW d \in S, c # d PROVE Cardinality(S) >= 2
    <2>1. S \ {c} # {}
      BY <1>3
    <2>2. Cardinality(S \ {c}) # 0 /\ Cardinality(S \ {c}) \in Nat /\ Cardinality(S) \in Nat
      BY <1>1, <2>1
    <2> QED BY <1>2, <2>2
  <1>4. ASSUME Cardinality(S) > 1 PROVE \E c, d \in S : c # d
    <2>1. PICK c \in S : TRUE
      BY <1>1, <1>4
    <2>2. Cardinality(S \ {c}) # 0
      BY <1>1, <1>2, <1>4
    <2>3. S \ {c} # {}
      BY <1>1, <2>2
    <2> QED BY <2>1, <2>3
  <1>5. ASSUME NEW c \in S PROVE Cardinality(S) >= 1
    <2>1. Cardinality(S) # 0 /\ Cardinality(S) \in Nat
      BY <1>1
    <2> QED BY <2>1
  <1>6. Cardinality(S) \in Nat
    BY <1>1
  <1> QED BY <1>3, <1>4, <1>5, <1>6

\* Two customers in lines are two in what the manager adds up.
LEMMA TwoAreSeen ==
    ASSUME Counted, NEW c \in Customers, NEW d \in Customers, c # d,
           \A p \in {c, d} : customerPc[p] \in {"line", "bribeLine"} /\ myLine[p] \in Clerks
    PROVE  LinesLongEnough
  <1>1. PICK sum : SumsUpTo(sum, SUBSET Clerks) /\ MapThenSumSet(LineSize, Clerks) = sum[Clerks]
    BY TotalIsSum
  <1>2. AtLeastTwo(sum, Clerks)
    BY <1>1, SizesAreCounts, SumsAtLeast
  <1>3. \A at : \A i \in Clerks :
            /\ Cardinality(InLine(at, i)) \in Nat
            /\ c \in InLine(at, i) \/ d \in InLine(at, i) => Cardinality(InLine(at, i)) >= 1
            /\ c \in InLine(at, i) /\ d \in InLine(at, i) => Cardinality(InLine(at, i)) >= 2
    <2>1. \A at, i : InLine(at, i) \in SUBSET Customers
      BY DEF InLine
    <2> QED BY <2>1, MembersCount
  <1> PICK i, j \in Clerks : i = myLine[c] /\ j = myLine[d]
    OBVIOUS
  <1>4. /\ c \in InLine("line", i) \/ c \in InLine("bribeLine", i)
        /\ d \in InLine("line", j) \/ d \in InLine("bribeLine", j)
    BY DEF InLine
  <1>5. /\ LineSize(i) = Cardinality(InLine("line", i)) + Cardinality(InLine("bribeLine", i))
        /\ LineSize(j) = Cardinality(InLine("line", j)) + Cardinality(InLine("bribeLine", j))
    BY SizesAreCounts
  <1>6. CASE i = j
    <2>1. LineSize(i) >= 2
      BY <1>3, <1>4, <1>5, <1>6
    <2>2. LineSize(i) \in Nat
      BY SizesAreCounts
    <2> QED BY <1>1, <1>2, <2>1, <2>2 DEF AtLeastTwo, LinesLongEnough
  <1>7. CASE i # j
    <2>1. LineSize(i) >= 1 /\ LineSize(j) >= 1
      BY <1>3, <1>4, <1>5
    <2>2. LineSize(i) \in Nat /\ LineSize(j) \in Nat
      BY SizesAreCounts
    <2>3. LineSize(i) + LineSize(j) <= sum[Clerks] /\ sum[Clerks] \in Nat
      BY <1>2, <1>7 DEF AtLeastTwo
    <2> QED BY <1>1, <2>1, <2>2, <2>3 DEF LinesLongEnough
  <1> QED BY <1>6, <1>7

\* Who has not been served and sleeps, at no counter, is in a line.
LEMMA SleepersInLine ==
    ASSUME Placed, NEW c \in Customers \ done, Asleep(c), customerPc[c] # "counter"
    PROVE  customerPc[c] \in {"line", "bribeLine"}
  <1>1. CASE customerPc[c] \notin {"line", "bribeLine"}
    <2>1. customerPc[c] # "line" /\ customerPc[c] # "bribeLine" /\ customerPc[c] # "counter"
      BY <1>1
    <2>2. Asleep(c) => customerPc[c] = "home"
      BY <2>1, Zenon DEF Asleep
    <2> QED BY <2>2 DEF Placed
  <1> QED BY <1>1

\* For any number of clerks of each kind and of customers: when the manager lets everybody
\* sleep, one customer at most has yet to be served, but for those whom a rendezvous left at
\* a counter. Nobody else is ever forgotten in a line (Manager against Customer).
THEOREM ManagerForgetsNobody == Spec => []StopsWithOneAtMost
  <1>1. Init => Tables /\ Counted /\ Placed
    <2> SUFFICES ASSUME Init PROVE Placed
      BY TablesInit, CountedInit
    <2> QED BY DEF Init, NewCustomers, createClerkLocksAndConditions, createClerkThreads,
                   createCustomerThreads, Placed
  <1>2. Tables /\ Counted /\ Placed /\ [Next]_vars => Tables' /\ Counted' /\ Placed'
    BY TablesStep, CountedStep, PlacedStep
  <1>3. Tables /\ Counted /\ Placed => StopsWithOneAtMost
    <2> SUFFICES ASSUME Tables, Counted, Placed, \A c \in Customers : Asleep(c), ~ManagerWakes,
                        \A c \in Customers : customerPc[c] # "counter"
                 PROVE  Cardinality(Customers \ done) <= 1
      BY DEF StopsWithOneAtMost
    <2>1. Customers \ done \in SUBSET Customers
      OBVIOUS
    <2> SUFFICES ASSUME Cardinality(Customers \ done) > 1 PROVE FALSE
      BY <2>1, MembersCount
    <2>2. PICK c, d \in Customers \ done : c # d
      BY <2>1, MembersCount
    <2>3. \A p \in {c, d} : customerPc[p] \in {"line", "bribeLine"} /\ myLine[p] \in Clerks
      BY SleepersInLine DEF Placed
    <2>4. LinesLongEnough
      BY <2>2, <2>3, TwoAreSeen
    <2>5. done # Customers
      BY <2>2
    <2> QED BY <2>4, <2>5 DEF ManagerWakes, customersAreAllDone
  <1> QED BY <1>1, <1>2, <1>3, PTL DEF Spec
=============================================================================
