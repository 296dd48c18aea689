------------------------- MODULE VirtualMemoryProofs -------------------------
(***************************************************************************)
(* Theorems about demand paging and the life of processes (module          *)
(* VirtualMemory), for any number of frames, TLB entries, processes and    *)
(* threads, any programs and both eviction policies. The invariants are    *)
(* built on each other:                                                    *)
(*   ProcsRight  the counts count, and no two stacks of a process meet;    *)
(*   QueueRight  with FIFO every frame in use is in the queue;             *)
(*   Coherent    frames, inverted page table, page tables and TLB agree on *)
(*               who owns a frame and which page it holds;                 *)
(*   Copied      a frame holds what the disk has of its page, or what its  *)
(*               process wrote since, and then a dirty bit says so, unless *)
(*               the page is one of those whose bits the code has dropped. *)
(* The last two hold until the exit of a thread has freed frames by page   *)
(* table entries that were never set (strayFree).                          *)
(* Every step is a page fault, a switch, a Fork, an Exec or an Exit: it is *)
(* first shown what a step does to frames and tables (Refilled, Evicted,   *)
(* FilledIn, Flushed), then that the invariant survives it.                *)
(***************************************************************************)
EXTENDS VirtualMemory, SequenceTheorems, FiniteSetTheorems, WellFoundedInduction, TLAPS

\* A copy of a page: of which process, which page, and its bit.
Held == Nat \X Nat \X {0, 1}

Entry == [diskLocation : {"EXECUTABLE", "SWAP", "NEITHER"}, swapped : Held,
          physicalPage : Frames \cup {-1, Garbage}]
Table == UNION {[0 .. n - 1 -> Entry] : n \in Nat}
TLBEntry == [virtualPage : Nat, physicalPage : Frames, valid : BOOLEAN, dirty : BOOLEAN]
IPTEntry == [virtualPage : Nat, spaceOwner : 0 .. MaxProcesses, valid : BOOLEAN, dirty : BOOLEAN]

MemoryTyped ==
    /\ tlb \in [Slots -> TLBEntry] /\ tlbCounter \in {-1} \cup Slots
    /\ ipt \in [Frames -> IPTEntry] /\ mainMemory \in [Frames -> Held]
    /\ bitmap \in SUBSET Frames /\ swapQueue \in Seq(Frames) /\ runWithFIFO \in BOOLEAN
    /\ pageTable \in [Procs -> Table]

ProcsTyped ==
    /\ stackLocations \in [Threads -> Nat] /\ space \in [Threads -> 0 .. MaxProcesses]
    /\ threadCount \in [Procs -> Nat] /\ processCount \in Procs
    /\ runningProcessCount \in Int /\ failedExecs \in Nat
    /\ currentThread \in 0 .. MaxThreads /\ halted \in BOOLEAN

Typed == MemoryTyped /\ ProcsTyped

\* The counts: of the threads of each process, and of the processes.
ThreadsOf(p) == {t \in Threads : space[t] = p}
Counted ==
    /\ \A p \in Procs : threadCount[p] = Cardinality(ThreadsOf(p))
    /\ \A p \in Procs : p > processCount => threadCount[p] = 0
    /\ \A p \in Procs : p \notin Forking => threadCount[p] <= 1
    /\ runningProcessCount = Cardinality(RunningProcs) - 1 + failedExecs
    /\ currentThread # 0 => Alive(currentThread)

\* Every thread has a stack of its own among the pages of its process.
IsMain(t) == stackLocations[t] = TopOf(space[t])
StacksApart ==
    /\ \A t \in Threads : stackLocations[t] = 0 => ~Alive(t)
    /\ \A p \in Procs : IF threadCount[p] = 0 THEN Pages(p) = {}
                        ELSE 0 .. TopOf(p) + StackPages - 1 \subseteq Pages(p)
    /\ \A t \in Threads : Alive(t) => /\ StackOf(t) \subseteq Pages(space[t])
                                      /\ IsMain(t) \/ stackLocations[t] >= TopOf(space[t]) + StackPages
    /\ \A t, u \in Threads : Alive(t) /\ space[t] = space[u] /\ t # u =>
           StackOf(t) \cap StackOf(u) = {}

\* Of a stack that was forked, no entry is what the heap held.
ForkedStacksKnown ==
    \A p \in Procs : \A v \in Pages(p) :
        v >= TopOf(p) + StackPages => pageTable[p][v].physicalPage # Garbage

\* What frame f holds, by the inverted page table.
Owner(f) == ipt[f].spaceOwner
PageIn(f) == ipt[f].virtualPage
InUse(p, v) == p \in RunningProcs /\ v \in UsedPages(p)

\* The frames in use, the inverted page table and the page tables agree; an entry
\* left for a frame that is free is for a page that nobody uses.
FramesRight ==
    /\ \A f \in bitmap : /\ ipt[f].valid /\ InUse(Owner(f), PageIn(f))
                         /\ pageTable[Owner(f)][PageIn(f)].physicalPage = f
    /\ \A p \in RunningProcs : \A v \in Pages(p) : \A f \in Frames :
           pageTable[p][v].physicalPage = f => f \in bitmap /\ Owner(f) = p /\ PageIn(f) = v
    /\ \A f \in Frames : ipt[f].valid =>
           /\ Owner(f) <= processCount
           /\ Owner(f) \in RunningProcs => PageIn(f) \in Pages(Owner(f))
           /\ InUse(Owner(f), PageIn(f)) => f \in bitmap

\* An entry of the TLB is marked if its frame is.
MarksAhead ==
    \A i \in Slots : tlb[i].valid => (ipt[tlb[i].physicalPage].dirty => tlb[i].dirty)

Marked(f) == \/ ipt[f].dirty
             \/ \E i \in Slots : tlb[i].valid /\ tlb[i].physicalPage = f /\ tlb[i].dirty

\* A frame in use holds what the disk has of its page, or what its process wrote
\* since, and then it is marked, unless the code has dropped the mark.
IsCopy(f, p, v) == \/ mainMemory[f] = OnDisk(p, v)
                   \/ mainMemory[f] \in {Content(p, v, 0), Content(p, v, 1)} /\ Marked(f)
CopiesRight == \A p \in Procs : \A v \in Pages(p) : \A f \in bitmap :
                   (Owner(f) = p /\ PageIn(f) = v /\ <<p, v>> \notin dropped) => IsCopy(f, p, v)


-----------------------------------------------------------------------------
(* The constants, and the model's operators. *)

LEMMA Constants ==
    /\ NumPhysPages \in Nat \ {0} /\ TLBSize \in Nat \ {0} /\ StackPages \in Nat \ {0}
    /\ MaxProcesses \in Nat \ {0} /\ MaxThreads \in Nat \ {0}
    /\ \A p \in Procs : /\ TopOf(p) \in Nat \ {0}
                        /\ Touched(p) \subseteq 0 .. TopOf(p) - 1
                        /\ Written(p) \subseteq Touched(p)
    /\ 1 \in Procs /\ 0 \notin Procs /\ 0 \notin Threads /\ Garbage \notin Frames
  BY VMAssumption DEF VMAssumption, Procs, Threads, TopOf, Garbage, Frames

LEMMA LeastIn ==
    ASSUME NEW S \in SUBSET Nat, S # {}
    PROVE  Least(S) \in S /\ \A m \in S : Least(S) <= m
  <1> DEFINE Less == {p \in Nat \X Nat : p[1] < p[2]}
  <1>1. IsWellFoundedOn(Less, Nat)
    <2>1. Less = OpToRel(<, Nat)
      BY Zenon DEF OpToRel
    <2> QED BY <2>1, NatLessThanWellFounded
  <1>2. PICK n \in S : \A m \in S : <<m, n>> \notin Less
    <2> HIDE DEF Less
    <2> QED BY <1>1, WFMin
  <1>3. ASSUME NEW m \in S PROVE n <= m
    <2>1. <<m, n>> \in Nat \X Nat /\ ~(<<m, n>>[1] < <<m, n>>[2])
      BY <1>2
    <2> QED BY <2>1
  <1> QED BY <1>3 DEF Least

LEMMA SlotOrFrame ==
    /\ \A S \in SUBSET Slots : S # {} => Least(S) \in S
    /\ \A S \in SUBSET Frames : S # {} => Least(S) \in S
  BY LeastIn, Constants DEF Slots, Frames

\* What filling a slot of the TLB does to it and to the inverted page table.
Refilled(i, entries, table, f) ==
    /\ i \in Slots /\ tlbCounter' = i
    /\ tlb' \in [Slots -> TLBEntry] /\ ipt' \in [Frames -> IPTEntry]
    /\ \A g \in Frames :
         /\ ipt'[g].virtualPage = table[g].virtualPage
         /\ ipt'[g].spaceOwner = table[g].spaceOwner
         /\ ipt'[g].valid = table[g].valid
         /\ ipt'[g].dirty = IF entries[i].valid /\ entries[i].physicalPage = g
                            THEN entries[i].dirty ELSE table[g].dirty
    /\ \A j \in Slots \ {i} : tlb'[j] = entries[j]
    /\ tlb'[i].virtualPage = table[f].virtualPage /\ tlb'[i].physicalPage = f
    /\ tlb'[i].valid = table[f].valid /\ tlb'[i].dirty = ipt'[f].dirty

LEMMA Refill ==
    ASSUME tlbCounter \in {-1} \cup Slots,
           NEW entries \in [Slots -> TLBEntry], NEW table \in [Frames -> IPTEntry],
           NEW f \in Frames, LoadTLB(entries, table, f)
    PROVE  \E i \in Slots : Refilled(i, entries, table, f)
  <1> DEFINE i == (tlbCounter + 1) % TLBSize
             propagated == Propagate(table, entries[i])
  <1>1. i \in Slots
    BY Constants DEF Slots
  <1>2. tlbCounter' = i /\ ipt' = propagated
    BY DEF LoadTLB
  <1>3. tlb' = [entries EXCEPT ![i] =
                  [virtualPage |-> propagated[f].virtualPage, physicalPage |-> f,
                   valid |-> propagated[f].valid, dirty |-> propagated[f].dirty]]
    BY DEF LoadTLB
  <1> HIDE DEF i
  <1>4. entries[i] \in TLBEntry
    BY <1>1
  <1>5. /\ propagated \in [Frames -> IPTEntry]
        /\ \A g \in Frames :
             /\ propagated[g].virtualPage = table[g].virtualPage
             /\ propagated[g].spaceOwner = table[g].spaceOwner
             /\ propagated[g].valid = table[g].valid
             /\ propagated[g].dirty = IF entries[i].valid /\ entries[i].physicalPage = g
                                      THEN entries[i].dirty ELSE table[g].dirty
    <2>1. CASE entries[i].valid
      <3> PICK h \in Frames : h = entries[i].physicalPage
        BY <1>4 DEF TLBEntry
      <3> PICK d \in BOOLEAN : d = entries[i].dirty
        BY <1>4 DEF TLBEntry
      <3>1. propagated = [table EXCEPT ![h].dirty = d]
        BY <2>1 DEF Propagate
      <3>2. propagated = [table EXCEPT ![h] = [table[h] EXCEPT !.dirty = d]]
        BY <3>1
      <3>3. [table[h] EXCEPT !.dirty = d] \in IPTEntry
        BY DEF IPTEntry
      <3> QED BY <2>1, <3>2, <3>3 DEF IPTEntry
    <2>2. CASE ~entries[i].valid
      BY <2>2 DEF Propagate
    <2> QED BY <2>1, <2>2
  <1> HIDE DEF propagated
  <1>6. [virtualPage |-> propagated[f].virtualPage, physicalPage |-> f,
         valid |-> propagated[f].valid, dirty |-> propagated[f].dirty] \in TLBEntry
    <2>1. propagated[f] \in IPTEntry
      BY <1>5
    <2> QED BY <2>1 DEF IPTEntry, TLBEntry
  <1>7. tlb' \in [Slots -> TLBEntry]
    BY <1>1, <1>3, <1>6
  <1>8. \A j \in Slots \ {i} : tlb'[j] = entries[j]
    BY <1>3
  <1>9. tlb'[i] = [virtualPage |-> propagated[f].virtualPage, physicalPage |-> f,
                   valid |-> propagated[f].valid, dirty |-> propagated[f].dirty]
    BY <1>1, <1>3
  <1>10. Refilled(i, entries, table, f)
    BY <1>1, <1>2, <1>5, <1>7, <1>8, <1>9 DEF Refilled
  <1> QED BY <1>1, <1>10

\* What saving and emptying the TLB does.
Flushed(entries) ==
    /\ tlb' \in [Slots -> TLBEntry] /\ ipt' \in [Frames -> IPTEntry]
    /\ \A i \in Slots : ~tlb'[i].valid
    /\ \A g \in Frames :
         /\ ipt'[g].virtualPage = ipt[g].virtualPage
         /\ ipt'[g].spaceOwner = ipt[g].spaceOwner
         /\ ipt'[g].valid = ipt[g].valid
         /\ \/ /\ \A i \in Slots : ~(entries[i].valid /\ entries[i].physicalPage = g)
               /\ ipt'[g].dirty = ipt[g].dirty
            \/ \E i \in Slots : /\ entries[i].valid /\ entries[i].physicalPage = g
                                /\ ipt'[g].dirty = entries[i].dirty

\* The last of some slots, as CHOOSE finds it.
LEMMA LastSlot ==
    ASSUME NEW S \in SUBSET Slots, S # {}
    PROVE  (CHOOSE i \in S : \A j \in S : j <= i) \in S
  <1> DEFINE T == {TLBSize - i : i \in S}
  <1>1. T \in SUBSET Nat /\ T # {}
    <2>1. \A i \in S : TLBSize - i \in Nat
      BY Constants DEF Slots
    <2> QED BY <2>1
  <1>2. Least(T) \in T /\ \A k \in T : Least(T) <= k
    <2> HIDE DEF T
    <2> QED BY <1>1, LeastIn
  <1>3. PICK i \in S : Least(T) = TLBSize - i
    BY <1>2
  <1>4. \A j \in S : TLBSize - i <= TLBSize - j
    BY <1>2, <1>3
  <1>5. \A j \in S : j <= i
    BY <1>4, Constants DEF Slots
  <1> QED BY <1>5

LEMMA Flush ==
    ASSUME ipt \in [Frames -> IPTEntry], NEW entries \in [Slots -> TLBEntry], FlushTLB(entries)
    PROVE  Flushed(entries)
  <1> DEFINE users(g) == {i \in Slots : entries[i].valid /\ entries[i].physicalPage = g}
             last(g) == CHOOSE i \in users(g) : \A j \in users(g) : j <= i
  <1>1. Invalid \in TLBEntry /\ ~Invalid.valid
    BY Constants DEF Invalid, TLBEntry, Frames
  <1>2. tlb' = [i \in Slots |-> Invalid]
    BY DEF FlushTLB
  <1>3. ipt' = [g \in Frames |-> IF users(g) = {} THEN ipt[g]
                                 ELSE [ipt[g] EXCEPT !.dirty = entries[last(g)].dirty]]
    BY DEF FlushTLB
  <1>4. ASSUME NEW g \in Frames
        PROVE  /\ ipt'[g] \in IPTEntry
               /\ ipt'[g].virtualPage = ipt[g].virtualPage
               /\ ipt'[g].spaceOwner = ipt[g].spaceOwner
               /\ ipt'[g].valid = ipt[g].valid
               /\ \/ /\ \A i \in Slots : ~(entries[i].valid /\ entries[i].physicalPage = g)
                     /\ ipt'[g].dirty = ipt[g].dirty
                  \/ \E i \in Slots : /\ entries[i].valid /\ entries[i].physicalPage = g
                                      /\ ipt'[g].dirty = entries[i].dirty
    <2>1. CASE users(g) = {}
      <3>1. ipt'[g] = ipt[g]
        BY <1>3, <2>1
      <3> QED BY <3>1, <2>1
    <2>2. CASE users(g) # {}
      <3>1. last(g) \in users(g)
        <4> HIDE DEF users
        <4>1. users(g) \in SUBSET Slots
          BY DEF users
        <4> QED BY <4>1, <2>2, LastSlot
      <3> PICK i \in Slots : i = last(g) /\ entries[i].valid /\ entries[i].physicalPage = g
        BY <3>1
      <3>2. ipt'[g] = [ipt[g] EXCEPT !.dirty = entries[i].dirty]
        BY <1>3, <2>2
      <3>3. entries[i].dirty \in BOOLEAN /\ ipt[g] \in IPTEntry
        BY DEF TLBEntry
      <3>4. /\ ipt'[g] \in IPTEntry /\ ipt'[g].virtualPage = ipt[g].virtualPage
            /\ ipt'[g].spaceOwner = ipt[g].spaceOwner
            /\ ipt'[g].valid = ipt[g].valid /\ ipt'[g].dirty = entries[i].dirty
        BY <3>2, <3>3 DEF IPTEntry
      <3> QED BY <3>4
    <2> QED BY <2>1, <2>2
  <1>5. ipt' \in [Frames -> IPTEntry]
    <2> HIDE DEF users, last
    <2>1. ipt' = [g \in Frames |-> ipt'[g]]
      BY <1>3
    <2> QED BY <2>1, <1>4
  <1> HIDE DEF users, last
  <1> QED BY <1>1, <1>2, <1>4, <1>5 DEF Flushed

-----------------------------------------------------------------------------
(* Page tables. *)

LEMMA TableShape ==
    ASSUME NEW T \in Table
    PROVE  /\ T = [v \in DOMAIN T |-> T[v]]
           /\ Cardinality(DOMAIN T) \in Nat
           /\ DOMAIN T = 0 .. Cardinality(DOMAIN T) - 1
           /\ \A v \in DOMAIN T : T[v] \in Entry
  <1>1. PICK n \in Nat : T \in [0 .. n - 1 -> Entry]
    BY DEF Table
  <1>2. Cardinality(0 .. n - 1) = n
    BY FS_Interval
  <1>3. DOMAIN T = 0 .. n - 1
    BY <1>1
  <1> QED BY <1>1, <1>2, <1>3

LEMMA TableMade ==
    ASSUME NEW n \in Nat, NEW T \in [0 .. n - 1 -> Entry]
    PROVE  T \in Table
  BY DEF Table

LEMMA EmptyTable == <<>> \in Table /\ DOMAIN <<>> = {}
  <1>1. <<>> \in [1 .. 0 -> Entry]
    BY EmptySeq
  <1>2. 1 .. 0 = {} /\ 0 .. 0 - 1 = {}
    OBVIOUS
  <1>3. <<>> \in [0 .. 0 - 1 -> Entry]
    BY Zenon, <1>1, <1>2
  <1> QED BY <1>2, <1>3, TableMade

\* An entry of some table is replaced.
Replaced(T, o, v, e) == [T EXCEPT ![o][v] = e]

LEMMA TableReplaced ==
    ASSUME NEW T \in [Procs -> Table], NEW o, NEW v, NEW e,
           o \in Procs /\ v \in DOMAIN T[o] => e \in Entry
    PROVE  /\ Replaced(T, o, v, e) \in [Procs -> Table]
           /\ \A p \in Procs : DOMAIN Replaced(T, o, v, e)[p] = DOMAIN T[p]
           /\ \A p \in Procs : \A w \in DOMAIN T[p] :
                Replaced(T, o, v, e)[p][w] = IF p = o /\ w = v THEN e ELSE T[p][w]
  <1>1. CASE o \notin Procs
    <2>1. Replaced(T, o, v, e) = T
      BY <1>1 DEF Replaced
    <2> QED BY <1>1, <2>1
  <1>2. CASE o \in Procs
    <2> DEFINE U == [T[o] EXCEPT ![v] = e]
    <2>1. T[o] \in Table
      BY <1>2
    <2>2. PICK n \in Nat : T[o] \in [0 .. n - 1 -> Entry]
      BY <2>1 DEF Table
    <2>3. U \in [0 .. n - 1 -> Entry] /\ DOMAIN U = DOMAIN T[o]
          /\ \A w \in DOMAIN T[o] : U[w] = IF w = v THEN e ELSE T[o][w]
      BY <1>2, <2>2
    <2>4. U \in Table
      BY <2>3, TableMade
    <2>5. Replaced(T, o, v, e) = [T EXCEPT ![o] = U]
      BY DEF Replaced
    <2> HIDE DEF U
    <2> QED BY <1>2, <2>3, <2>4, <2>5
  <1> QED BY <1>1, <1>2

\* An entry gets another frame, or a copy on the swap file.
OnFrame(e, f) == [e EXCEPT !.physicalPage = f]
OnSwap(e, c) == [e EXCEPT !.diskLocation = "SWAP", !.swapped = c]

LEMMA EntryChanged ==
    ASSUME NEW e \in Entry
    PROVE  /\ \A f \in Frames \cup {-1} :
                /\ OnFrame(e, f) \in Entry /\ OnFrame(e, f).physicalPage = f
                /\ OnFrame(e, f).diskLocation = e.diskLocation
                /\ OnFrame(e, f).swapped = e.swapped
           /\ \A c \in Held :
                /\ OnSwap(e, c) \in Entry /\ OnSwap(e, c).diskLocation = "SWAP"
                /\ OnSwap(e, c).swapped = c
                /\ OnSwap(e, c).physicalPage = e.physicalPage
  BY DEF Entry, OnFrame, OnSwap

LEMMA NewSpaceTyped ==
    ASSUME NEW p \in Procs
    PROVE  /\ NewSpace(p) \in Table
           /\ DOMAIN NewSpace(p) = 0 .. TopOf(p) + StackPages - 1
           /\ \A v \in DOMAIN NewSpace(p) :
                /\ NewSpace(p)[v].physicalPage = Garbage
                /\ NewSpace(p)[v].diskLocation = IF v < ImagePages(p) THEN "EXECUTABLE" ELSE "NEITHER"
  <1>1. PICK n \in Nat : n = TopOf(p) + StackPages /\ n - 1 = TopOf(p) + StackPages - 1
    BY Constants
  <1>2. NoPage \in Held
    BY DEF NoPage, Held
  <1> DEFINE e(v) == [diskLocation |-> IF v < ImagePages(p) THEN "EXECUTABLE" ELSE "NEITHER",
                      swapped |-> NoPage, physicalPage |-> Garbage]
  <1>4. \A v : e(v) \in Entry
    BY <1>2 DEF Entry
  <1>5. NewSpace(p) = [v \in 0 .. n - 1 |-> e(v)]
    <2>1. 0 .. n - 1 = 0 .. TopOf(p) + StackPages - 1
      BY Zenon, <1>1
    <2> QED BY Zenon, <2>1 DEF NewSpace
  <1>3. NewSpace(p) \in [0 .. n - 1 -> Entry]
    <2> HIDE DEF e
    <2> QED BY <1>4, <1>5
  <1>6. DOMAIN NewSpace(p) = 0 .. TopOf(p) + StackPages - 1
    BY DEF NewSpace
  <1>7. \A v \in DOMAIN NewSpace(p) : NewSpace(p)[v] = e(v)
    BY DEF NewSpace
  <1>8. \A v : /\ e(v).physicalPage = Garbage
               /\ e(v).diskLocation = IF v < ImagePages(p) THEN "EXECUTABLE" ELSE "NEITHER"
    OBVIOUS
  <1> HIDE DEF e
  <1>9. NewSpace(p) \in Table
    BY <1>3, TableMade
  <1> QED BY <1>6, <1>7, <1>8, <1>9

-----------------------------------------------------------------------------
(* Threads and processes: what the counts say, and who has which stack. *)

ProcsRight == Counted /\ StacksApart

LEMMA FiniteThreads ==
    /\ IsFiniteSet(Threads) /\ IsFiniteSet(Procs)
    /\ \A p : IsFiniteSet(ThreadsOf(p)) /\ Cardinality(ThreadsOf(p)) \in Nat
    /\ IsFiniteSet(RunningProcs) /\ Cardinality(RunningProcs) \in Nat
  <1>1. IsFiniteSet(Threads) /\ IsFiniteSet(Procs)
    BY FS_Interval, Constants DEF Threads, Procs
  <1>2. \A p : ThreadsOf(p) \in SUBSET Threads
    BY DEF ThreadsOf
  <1>3. RunningProcs \in SUBSET Procs
    BY DEF RunningProcs
  <1>4. \A S \in SUBSET Threads : IsFiniteSet(S)
    BY <1>1, FS_Subset
  <1>5. IsFiniteSet(RunningProcs)
    BY <1>1, <1>3, FS_Subset
  <1> QED BY <1>1, <1>2, <1>4, <1>5, FS_CardinalityType

\* A thread that exists is one of its process, which is running.
LEMMA AliveRuns ==
    ASSUME ProcsTyped, Counted, NEW t \in Threads, Alive(t)
    PROVE  /\ space[t] \in RunningProcs /\ space[t] \in Procs /\ t \in ThreadsOf(space[t])
           /\ threadCount[space[t]] > 0 /\ space[t] <= processCount
  <1>1. space[t] \in Procs
    BY Constants DEF Alive, ProcsTyped, Procs
  <1>2. t \in ThreadsOf(space[t])
    BY DEF ThreadsOf
  <1>3. threadCount[space[t]] # 0
    BY <1>1, <1>2, FiniteThreads, FS_EmptySet DEF Counted
  <1>4. threadCount[space[t]] \in Nat
    BY <1>1 DEF ProcsTyped
  <1>5. ~(space[t] > processCount)
    BY <1>1, <1>3 DEF Counted
  <1>6. space[t] \in Int /\ processCount \in Int
    BY <1>1 DEF ProcsTyped, Procs
  <1> QED BY <1>1, <1>2, <1>3, <1>4, <1>5, <1>6 DEF RunningProcs

LEMMA Running ==
    ASSUME ProcsTyped, Counted, StacksApart, RunsUser
    PROVE  /\ currentThread \in Threads /\ Alive(currentThread)
           /\ space[currentThread] \in RunningProcs /\ space[currentThread] \in Procs
           /\ threadCount[space[currentThread]] > 0
           /\ space[currentThread] <= processCount
           /\ Usable(currentThread) \subseteq Pages(space[currentThread])
           /\ Usable(currentThread) \subseteq UsedPages(space[currentThread])
  <1>1. currentThread \in Threads /\ Alive(currentThread)
    BY Constants DEF RunsUser, ProcsTyped, Counted, Threads
  <1>2. /\ space[currentThread] \in RunningProcs /\ space[currentThread] \in Procs
        /\ threadCount[space[currentThread]] > 0 /\ space[currentThread] <= processCount
    BY <1>1, AliveRuns
  <1> PICK p \in Procs : p = space[currentThread]
    BY <1>2
  <1>3. Touched(p) \subseteq Pages(p)
    <2>1. Touched(p) \subseteq 0 .. TopOf(p) - 1
      BY Constants
    <2>2. 0 .. TopOf(p) + StackPages - 1 \subseteq Pages(p)
      BY <1>2 DEF StacksApart
    <2>3. 0 .. TopOf(p) - 1 \subseteq 0 .. TopOf(p) + StackPages - 1
      BY Constants
    <2> QED BY <2>1, <2>2, <2>3
  <1>4. OwnStack(currentThread) \subseteq Pages(p)
    BY <1>1 DEF StacksApart, OwnStack
  <1>5. Usable(currentThread) \subseteq UsedPages(p)
    BY <1>1 DEF Usable, UsedPages
  <1> QED BY <1>1, <1>2, <1>3, <1>4, <1>5 DEF Usable

SamePages == \A p \in Procs : DOMAIN pageTable'[p] = DOMAIN pageTable[p]
SameProcs == SamePages /\ UNCHANGED <<stackLocations, space, threadCount, processCount>>

LEMMA StacksKept ==
    ASSUME ProcsTyped, StacksApart, SameProcs
    PROVE  StacksApart'
  <1>1. \A p \in Procs : Pages(p)' = Pages(p)
    BY DEF SameProcs, SamePages, Pages
  <1>2. \A t : Alive(t)' = Alive(t) /\ StackOf(t)' = StackOf(t)
    BY DEF SameProcs, Alive, StackOf
  <1>3. \A t \in Threads : Alive(t) => space[t] \in Procs
    BY DEF Alive, ProcsTyped, Procs
  <1>4. UNCHANGED <<stackLocations, space, threadCount>>
    BY DEF SameProcs
  <1> QED BY <1>1, <1>2, <1>3, <1>4 DEF StacksApart, IsMain

LEMMA ProcsKept ==
    ASSUME ProcsTyped, ProcsRight, SameProcs,
           UNCHANGED <<runningProcessCount, failedExecs, currentThread>>
    PROVE  ProcsRight'
  <1>1. Counted'
    BY DEF ProcsRight, Counted, SameProcs, ThreadsOf, RunningProcs, Alive
  <1> QED BY <1>1, StacksKept DEF ProcsRight

\* Thread t, new, gets a stack at page b of process p.
Joins(t, p, b) ==
    /\ t \in Threads /\ p \in Procs /\ stackLocations[t] = 0
    /\ stackLocations' = [stackLocations EXCEPT ![t] = b]
    /\ space' = [space EXCEPT ![t] = p]

LEMMA JoinCounts ==
    ASSUME ProcsTyped, StacksApart, NEW t, NEW p, NEW b, Joins(t, p, b)
    PROVE  /\ \A q \in Procs \ {p} : ThreadsOf(q)' = ThreadsOf(q)
           /\ Cardinality(ThreadsOf(p)') = Cardinality(ThreadsOf(p)) + 1
  <1>1. space[t] = 0 /\ t \in Threads /\ p \in Procs
    BY DEF Joins, StacksApart, Alive
  <1>2. space' = [space EXCEPT ![t] = p] /\ space \in [Threads -> 0 .. MaxProcesses]
    BY DEF Joins, ProcsTyped
  <1>3. \A q \in Procs \ {p} : ThreadsOf(q)' = ThreadsOf(q)
    BY <1>1, <1>2, Constants DEF ThreadsOf
  <1>4. ThreadsOf(p)' = ThreadsOf(p) \cup {t} /\ t \notin ThreadsOf(p)
    BY <1>1, <1>2, Constants DEF ThreadsOf
  <1>5. Cardinality(ThreadsOf(p) \cup {t}) = Cardinality(ThreadsOf(p)) + 1
    BY <1>4, FiniteThreads, FS_AddElement
  <1> QED BY Zenon, <1>3, <1>4, <1>5

LEMMA JoinStacks ==
    ASSUME ProcsTyped, StacksApart, NEW t, NEW p, NEW b \in Nat, Joins(t, p, b),
           b = TopOf(p) \/ b >= TopOf(p) + StackPages, threadCount'[p] # 0,
           \A q \in Procs \ {p} : DOMAIN pageTable'[q] = Pages(q) /\ threadCount'[q] = threadCount[q],
           Pages(p) \subseteq DOMAIN pageTable'[p],
           0 .. TopOf(p) + StackPages - 1 \subseteq DOMAIN pageTable'[p],
           b .. b + StackPages - 1 \subseteq DOMAIN pageTable'[p],
           \A u \in Threads : Alive(u) /\ space[u] = p => StackOf(u) \cap (b .. b + StackPages - 1) = {}
    PROVE  StacksApart'
  <1>1. /\ t \in Threads /\ p \in Procs /\ b # 0 /\ p # 0 /\ space[t] = 0
        /\ TopOf(p) \in Nat \ {0}
    BY Constants DEF Joins, StacksApart, Alive
  <1>2. /\ stackLocations'[t] = b /\ space'[t] = p
        /\ \A u \in Threads \ {t} : stackLocations'[u] = stackLocations[u] /\ space'[u] = space[u]
    BY <1>1 DEF Joins, ProcsTyped
  <1>3. /\ StackOf(t)' = b .. b + StackPages - 1 /\ Alive(t)'
        /\ \A u \in Threads \ {t} : StackOf(u)' = StackOf(u) /\ Alive(u)' = Alive(u)
    BY <1>1, <1>2 DEF StackOf, Alive
  <1>4. \A q \in Procs : Pages(q) \subseteq Pages(q)'
    BY DEF Pages
  <1>5. \A u \in Threads : Alive(u) => space[u] \in Procs
    BY DEF Alive, ProcsTyped, Procs
  <1>6. (\A u \in Threads : stackLocations[u] = 0 => ~Alive(u))'
    BY <1>1, <1>2, <1>3 DEF StacksApart
  <1>7. (\A q \in Procs : IF threadCount[q] = 0 THEN Pages(q) = {}
                          ELSE 0 .. TopOf(q) + StackPages - 1 \subseteq Pages(q))'
    BY <1>1 DEF StacksApart, Pages
  <1>8. (\A u \in Threads : Alive(u) => /\ StackOf(u) \subseteq Pages(space[u])
                                        /\ IsMain(u) \/ stackLocations[u] >= TopOf(space[u]) + StackPages)'
    <2> SUFFICES ASSUME NEW u \in Threads, Alive(u)'
                 PROVE  /\ StackOf(u)' \subseteq Pages(space[u])'
                        /\ IsMain(u)' \/ stackLocations'[u] >= TopOf(space'[u]) + StackPages
      BY Zenon
    <2>1. CASE u = t
      BY <2>1, <1>1, <1>2, <1>3 DEF Pages, IsMain
    <2>2. CASE u # t
      <3>1. Alive(u) /\ StackOf(u) \subseteq Pages(space[u]) /\ (IsMain(u) \/ stackLocations[u] >= TopOf(space[u]) + StackPages)
        BY <2>2, <1>3 DEF StacksApart
      <3>2. Pages(space[u]) \subseteq Pages(space[u])'
        <4>1. Pages(space[u]) \subseteq DOMAIN pageTable'[space[u]]
          BY <3>1, <1>4, <1>5 DEF Pages
        <4> QED BY <4>1, <1>2, <2>2 DEF Pages
      <3> QED BY <3>1, <3>2, <1>2, <1>3, <2>2 DEF IsMain
    <2> QED BY <2>1, <2>2
  <1>9. (\A v, u \in Threads : Alive(v) /\ space[v] = space[u] /\ v # u =>
            StackOf(v) \cap StackOf(u) = {})'
    <2> SUFFICES ASSUME NEW v \in Threads, NEW u \in Threads, Alive(v)', space'[v] = space'[u], v # u
                 PROVE  StackOf(v)' \cap StackOf(u)' = {}
      BY Zenon
    <2>1. CASE v # t /\ u # t
      BY <2>1, <1>2, <1>3 DEF StacksApart
    <2>2. CASE v = t
      BY <2>2, <1>1, <1>2, <1>3 DEF Alive
    <2>3. CASE u = t
      BY <2>3, <1>1, <1>2, <1>3 DEF Alive
    <2> QED BY <2>1, <2>2, <2>3
  <1> QED BY Zenon, <1>6, <1>7, <1>8, <1>9 DEF StacksApart

\* Thread t leaves its process; the process keeps its pages, or goes as well.
LEMMA LeaveCounts ==
    ASSUME ProcsTyped, Counted, NEW t \in Threads, Alive(t), NEW p, p = space[t],
           space' = [space EXCEPT ![t] = 0]
    PROVE  /\ \A q \in Procs \ {p} : ThreadsOf(q)' = ThreadsOf(q)
           /\ Cardinality(ThreadsOf(p)') = Cardinality(ThreadsOf(p)) - 1
  <1>1. p \in Procs /\ t \in ThreadsOf(p)
    BY AliveRuns
  <1>2. space \in [Threads -> 0 .. MaxProcesses]
    BY DEF ProcsTyped
  <1>3. \A q \in Procs \ {p} : {u \in Threads : space'[u] = q} = {u \in Threads : space[u] = q}
    BY <1>2, Constants
  <1>4. {u \in Threads : space'[u] = p} = ThreadsOf(p) \ {t}
    BY <1>1, <1>2, Constants DEF ThreadsOf
  <1>5. Cardinality(ThreadsOf(p) \ {t}) = Cardinality(ThreadsOf(p)) - 1
    BY <1>1, FiniteThreads, FS_RemoveElement
  <1> QED BY <1>3, <1>4, <1>5 DEF ThreadsOf

LEMMA LeaveStacks ==
    ASSUME ProcsTyped, StacksApart, NEW t \in Threads, space' = [space EXCEPT ![t] = 0],
           stackLocations' = stackLocations,
           \A q \in Procs : \/ DOMAIN pageTable'[q] = Pages(q) /\ (threadCount'[q] = 0 <=> threadCount[q] = 0)
                            \/ /\ DOMAIN pageTable'[q] = {} /\ threadCount'[q] = 0
                               /\ \A u \in Threads \ {t} : space[u] # q
    PROVE  StacksApart'
  <1>1. /\ space'[t] = 0
        /\ \A u \in Threads \ {t} : space'[u] = space[u]
    BY DEF ProcsTyped
  <1>2. \A u \in Threads : Alive(u)' => Alive(u) /\ u # t /\ space[u] \in Procs /\ space'[u] = space[u]
    BY <1>1 DEF Alive, ProcsTyped, Procs
  <1>3. \A u : StackOf(u)' = StackOf(u)
    BY DEF StackOf
  <1>4. \A u \in Threads : Alive(u)' => Pages(space[u])' = Pages(space[u])
    <2> SUFFICES ASSUME NEW u \in Threads, Alive(u)' PROVE Pages(space[u])' = Pages(space[u])
      BY Zenon
    <2>1. Alive(u) /\ u # t /\ space[u] \in Procs /\ space'[u] = space[u]
      BY <1>2
    <2>2. DOMAIN pageTable'[space[u]] = Pages(space[u])
      BY <2>1
    <2> QED BY <2>1, <2>2 DEF Pages
  <1>5. (\A u \in Threads : stackLocations[u] = 0 => ~Alive(u))'
    BY <1>2 DEF StacksApart
  <1>6. (\A q \in Procs : IF threadCount[q] = 0 THEN Pages(q) = {}
                          ELSE 0 .. TopOf(q) + StackPages - 1 \subseteq Pages(q))'
    BY DEF StacksApart, Pages
  <1>7. (\A u \in Threads : Alive(u) => /\ StackOf(u) \subseteq Pages(space[u])
                                        /\ IsMain(u) \/ stackLocations[u] >= TopOf(space[u]) + StackPages)'
    BY <1>2, <1>3, <1>4 DEF StacksApart, IsMain
  <1>8. (\A v, u \in Threads : Alive(v) /\ space[v] = space[u] /\ v # u =>
            StackOf(v) \cap StackOf(u) = {})'
    <2> SUFFICES ASSUME NEW v \in Threads, NEW u \in Threads, Alive(v)', space'[v] = space'[u], v # u
                 PROVE  StackOf(v)' \cap StackOf(u)' = {}
      BY Zenon
    <2>1. Alive(u)'
      BY DEF Alive
    <2> QED BY <2>1, <1>2, <1>3 DEF StacksApart
  <1> QED BY Zenon, <1>5, <1>6, <1>7, <1>8 DEF StacksApart

-----------------------------------------------------------------------------
(* What Fork, Exec and Exit do to threads, processes and page tables. *)

NewStack == [diskLocation |-> "NEITHER", swapped |-> NoPage, physicalPage |-> -1]

Forked(t, p, n) ==
    /\ Joins(t, p, n) /\ p = space[currentThread] /\ p \in Forking
    /\ n >= TopOf(p) + StackPages /\ Pages(p) = 0 .. n - 1
    /\ pageTable' \in [Procs -> Table]
    /\ DOMAIN pageTable'[p] = 0 .. n + StackPages - 1
    /\ \A v \in 0 .. n + StackPages - 1 :
         pageTable'[p][v] = IF v < n THEN pageTable[p][v] ELSE NewStack
    /\ \A q \in Procs \ {p} : pageTable'[q] = pageTable[q]
    /\ threadCount' = [threadCount EXCEPT ![p] = threadCount[p] + 1]

LEMMA NewStackEntry == NewStack \in Entry
  <1>1. NoPage \in Held
    BY DEF NoPage, Held
  <1> QED BY <1>1 DEF NewStack, Entry

LEMMA ForkFacts ==
    ASSUME Typed, ProcsRight, Fork
    PROVE  \E t \in Threads, p \in Procs, n \in Nat : Forked(t, p, n)
  <1>1. RunsUser
    BY DEF Fork
  <1>2. space[currentThread] \in Procs /\ space[currentThread] \in RunningProcs
    BY <1>1, Running DEF Typed, ProcsRight
  <1> PICK p \in Procs : p = space[currentThread]
    BY <1>2
  <1>3. pageTable \in [Procs -> Table] /\ pageTable[p] \in Table
    BY DEF Typed, MemoryTyped
  <1>4. PICK n \in Nat : n = Cardinality(Pages(p)) /\ Pages(p) = 0 .. n - 1
    BY <1>3, TableShape DEF Pages
  <1>5. \A v \in Pages(p) : pageTable[p][v] \in Entry
    BY <1>3, TableShape DEF Pages
  <1>6. n >= TopOf(p) + StackPages
    <2>1. 0 .. TopOf(p) + StackPages - 1 \subseteq 0 .. n - 1
      BY <1>2, <1>4 DEF ProcsRight, StacksApart, RunningProcs
    <2>2. TopOf(p) + StackPages - 1 \in 0 .. TopOf(p) + StackPages - 1
      BY Constants
    <2>3. TopOf(p) + StackPages - 1 \in 0 .. n - 1
      BY <2>1, <2>2
    <2> QED BY <2>3, Constants
  <1> DEFINE T == [v \in 0 .. n + StackPages - 1 |->
                     IF v \in Pages(p) THEN pageTable[p][v] ELSE NewStack]
  <1>7. PICK t \in Threads : NewThread(t, p, n)
    BY <1>4 DEF Fork
  <1>8. pageTable' = [pageTable EXCEPT ![p] = T]
    BY <1>4 DEF Fork, NewStack
  <1>17. StackPages \in Nat
    BY Constants
  <1>9. T \in Table
    <2>3. PICK m \in Nat : m = n + StackPages
      BY <1>17
    <2>0. m - 1 = n + StackPages - 1
      BY <2>3, <1>17
    <2>1. T = [v \in 0 .. m - 1 |-> IF v \in Pages(p) THEN pageTable[p][v] ELSE NewStack]
      BY Zenon, <2>0
    <2>2. T \in [0 .. m - 1 -> Entry]
      <3> HIDE DEF T
      <3> QED BY <2>1, <1>5, NewStackEntry
    <2> QED BY <2>2, TableMade
  <1>16. \A v \in 0 .. n + StackPages - 1 : v \in Pages(p) <=> v < n
    <2>1. \A v \in 0 .. n + StackPages - 1 : v \in 0 .. n - 1 <=> v < n
      BY <1>17
    <2> QED BY Zenon, <2>1, <1>4
  <1>10. \A v \in 0 .. n + StackPages - 1 : T[v] = IF v < n THEN pageTable[p][v] ELSE NewStack
    BY Zenon, <1>16
  <1>11. DOMAIN T = 0 .. n + StackPages - 1
    OBVIOUS
  <1> HIDE DEF T
  <1>12. pageTable' \in [Procs -> Table] /\ pageTable'[p] = T
         /\ \A q \in Procs \ {p} : pageTable'[q] = pageTable[q]
    BY <1>3, <1>8, <1>9
  <1>13. Joins(t, p, n)
    BY <1>7 DEF NewThread, Joins
  <1>14. threadCount' = [threadCount EXCEPT ![p] = threadCount[p] + 1] /\ p \in Forking
    BY DEF Fork
  <1>15. Forked(t, p, n)
    BY <1>4, <1>6, <1>10, <1>11, <1>12, <1>13, <1>14 DEF Forked
  <1> QED BY <1>15

Execed(t, p) ==
    /\ Joins(t, p, TopOf(p)) /\ p = processCount + 1 /\ processCount' = p
    /\ runningProcessCount' = runningProcessCount + 1
    /\ threadCount[p] = 0 /\ Pages(p) = {} /\ \A u \in Threads : space[u] # p
    /\ pageTable' \in [Procs -> Table] /\ pageTable'[p] = NewSpace(p)
    /\ \A q \in Procs \ {p} : pageTable'[q] = pageTable[q]
    /\ threadCount' = [threadCount EXCEPT ![p] = 1]

LEMMA ExecFacts ==
    ASSUME Typed, ProcsRight, Exec
    PROVE  \E t \in Threads, p \in Procs : Execed(t, p)
  <1>1. processCount \in Nat /\ failedExecs \in Nat /\ processCount + failedExecs < MaxProcesses
    BY DEF Exec, Typed, ProcsTyped, Procs
  <1>2. PICK p \in Procs : p = processCount + 1
    BY <1>1, Constants DEF Procs
  <1>3. processCount' = p /\ runningProcessCount' = runningProcessCount + 1
    BY <1>2 DEF Exec
  <1>4. threadCount[p] = 0
    BY <1>1, <1>2 DEF ProcsRight, Counted
  <1>5. Pages(p) = {}
    BY <1>4 DEF ProcsRight, StacksApart
  <1>6. \A u \in Threads : space[u] # p
    <2> SUFFICES ASSUME NEW u \in Threads, space[u] = p PROVE FALSE
      OBVIOUS
    <2>1. Alive(u)
      BY Constants DEF Alive
    <2>2. threadCount[space[u]] > 0
      BY <2>1, AliveRuns DEF Typed, ProcsRight
    <2> QED BY <2>2, <1>4
  <1>7. PICK t \in Threads : NewThread(t, p, TopOf(p))
    BY <1>3 DEF Exec
  <1>8. pageTable' = [pageTable EXCEPT ![p] = NewSpace(p)] /\ threadCount' = [threadCount EXCEPT ![p] = 1]
    BY <1>3 DEF Exec
  <1>9. pageTable \in [Procs -> Table] /\ NewSpace(p) \in Table
    BY NewSpaceTyped DEF Typed, MemoryTyped
  <1>10. pageTable' \in [Procs -> Table] /\ pageTable'[p] = NewSpace(p)
         /\ \A q \in Procs \ {p} : pageTable'[q] = pageTable[q]
    BY <1>8, <1>9
  <1>11. Joins(t, p, TopOf(p))
    BY <1>7 DEF NewThread, Joins
  <1>12. Execed(t, p)
    BY <1>2, <1>3, <1>4, <1>5, <1>6, <1>8, <1>10, <1>11 DEF Execed
  <1> QED BY <1>12

\* The running thread, t, leaves process p.
Leaves(t, p) ==
    /\ t = currentThread /\ t \in Threads /\ p = space[t] /\ p \in RunningProcs /\ Alive(t)
    /\ space' = [space EXCEPT ![t] = 0] /\ stackLocations' = stackLocations
    /\ currentThread' # 0 => /\ currentThread' \in Threads \ {t} /\ Alive(currentThread')
    /\ currentThread' = 0 => \A u \in Threads \ {t} : ~Alive(u)
    /\ pageTable' \in [Procs -> Table]
    /\ \A q \in Procs \ {p} : pageTable'[q] = pageTable[q]
    /\ processCount' = processCount /\ failedExecs' = failedExecs

LEMMA FinishFacts ==
    ASSUME Typed, ProcsRight, RunsUser, NEW entries, Finish(entries), stackLocations' = stackLocations
    PROVE  LET t == currentThread
           IN  /\ t \in Threads /\ space[t] \in RunningProcs /\ space[t] \in Procs /\ Alive(t)
               /\ space' = [space EXCEPT ![t] = 0]
               /\ currentThread' # 0 => /\ currentThread' \in Threads \ {t} /\ Alive(currentThread')
               /\ currentThread' = 0 => \A u \in Threads \ {t} : ~Alive(u)
  BY Running, Constants DEF Finish, Typed, ProcsRight

LEMMA ForkKeepsProcs == Typed /\ ProcsRight /\ Fork => ProcsRight'
  <1> SUFFICES ASSUME Typed, ProcsRight, Fork PROVE ProcsRight'
    OBVIOUS
  <1>1. PICK t \in Threads, p \in Procs, n \in Nat : Forked(t, p, n)
    BY ForkFacts
  <1>2. UNCHANGED <<processCount, runningProcessCount, failedExecs, currentThread>> /\ RunsUser
    BY DEF Fork
  <1>3. Joins(t, p, n) /\ ProcsTyped /\ StacksApart /\ Counted
    BY <1>1 DEF Forked, Typed, ProcsRight
  <1>4. /\ \A q \in Procs \ {p} : ThreadsOf(q)' = ThreadsOf(q)
        /\ Cardinality(ThreadsOf(p)') = Cardinality(ThreadsOf(p)) + 1
    BY <1>3, JoinCounts
  <1>5. /\ p = space[currentThread] /\ p \in RunningProcs /\ threadCount[p] \in Nat
        /\ threadCount[p] # 0 /\ p <= processCount /\ p \in Forking
        /\ Alive(currentThread) /\ currentThread \in Threads
    BY <1>1, <1>2, <1>3, Running DEF Forked, ProcsTyped, RunningProcs
  <1>6. /\ threadCount'[p] = threadCount[p] + 1
        /\ \A q \in Procs \ {p} : threadCount'[q] = threadCount[q]
    BY <1>1, <1>3 DEF Forked, ProcsTyped
  <1>7. RunningProcs' = RunningProcs
    <2>1. \A q \in Procs : threadCount'[q] # 0 <=> threadCount[q] # 0
      BY <1>5, <1>6
    <2> QED BY <2>1 DEF RunningProcs
  <1>8. Counted'
    <2>1. \A q \in Procs : threadCount'[q] = Cardinality(ThreadsOf(q)')
      BY <1>3, <1>4, <1>6 DEF Counted
    <2>2. \A q \in Procs : q > processCount => threadCount'[q] = 0
      <3>1. \A q \in Procs : q > processCount => q # p
        BY <1>3, <1>5 DEF Procs, ProcsTyped
      <3> QED BY <3>1, <1>3, <1>6 DEF Counted
    <2>3. \A q \in Procs : q \notin Forking => threadCount'[q] <= 1
      BY <1>3, <1>5, <1>6 DEF Counted
    <2>4. currentThread # 0 => Alive(currentThread)'
      <3>1. currentThread # t
        BY <1>3, <1>5 DEF Joins, StacksApart
      <3> QED BY <3>1, <1>2, <1>3, <1>5 DEF Alive, Joins, ProcsTyped
    <2> QED BY <1>2, <1>3, <1>7, <2>1, <2>2, <2>3, <2>4 DEF Counted
  <1>9. StacksApart'
    <2>1. n >= TopOf(p) + StackPages /\ Pages(p) = 0 .. n - 1
      BY <1>1 DEF Forked
    <2>2. TopOf(p) \in Nat /\ StackPages \in Nat \ {0}
      BY Constants
    <2>3. DOMAIN pageTable'[p] = 0 .. n + StackPages - 1
      BY <1>1 DEF Forked
    <2>4. Pages(p) \subseteq DOMAIN pageTable'[p]
      BY <2>1, <2>2, <2>3
    <2>5. n >= TopOf(p) + StackPages /\ 0 .. TopOf(p) + StackPages - 1 \subseteq DOMAIN pageTable'[p]
      BY <2>1, <2>2, <2>3
    <2>6. n .. n + StackPages - 1 \subseteq DOMAIN pageTable'[p]
      BY <2>2, <2>3
    <2>7. \A q \in Procs \ {p} : DOMAIN pageTable'[q] = Pages(q) /\ threadCount'[q] = threadCount[q]
      BY <1>1, <1>6 DEF Forked, Pages
    <2>8. \A u \in Threads : Alive(u) /\ space[u] = p => StackOf(u) \cap (n .. n + StackPages - 1) = {}
      <3>1. \A u \in Threads : Alive(u) /\ space[u] = p => StackOf(u) \subseteq 0 .. n - 1
        BY <1>3, <2>1 DEF StacksApart
      <3>2. (0 .. n - 1) \cap (n .. n + StackPages - 1) = {}
        BY <2>2
      <3> QED BY <3>1, <3>2
    <2>9. threadCount'[p] # 0
      BY <1>5, <1>6
    <2> QED BY <1>3, <2>4, <2>5, <2>6, <2>7, <2>8, <2>9, JoinStacks
  <1> QED BY <1>8, <1>9 DEF ProcsRight

LEMMA ExecKeepsProcs == Typed /\ ProcsRight /\ Exec => ProcsRight'
  <1> SUFFICES ASSUME Typed, ProcsRight, Exec PROVE ProcsRight'
    OBVIOUS
  <1>1. PICK t \in Threads, p \in Procs : Execed(t, p)
    BY ExecFacts
  <1>2. UNCHANGED <<failedExecs, currentThread>> /\ RunsUser
    BY DEF Exec
  <1>3. Joins(t, p, TopOf(p)) /\ ProcsTyped /\ StacksApart /\ Counted
    BY <1>1 DEF Execed, Typed, ProcsRight
  <1>4. /\ \A q \in Procs \ {p} : ThreadsOf(q)' = ThreadsOf(q)
        /\ Cardinality(ThreadsOf(p)') = Cardinality(ThreadsOf(p)) + 1
    BY <1>3, JoinCounts
  <1>5. /\ threadCount[p] = 0 /\ p = processCount + 1 /\ processCount' = p
        /\ Alive(currentThread) /\ currentThread \in Threads /\ processCount \in Nat
    BY <1>1, <1>2, <1>3, Running DEF Execed, ProcsTyped, Procs
  <1>6. /\ threadCount'[p] = 1
        /\ \A q \in Procs \ {p} : threadCount'[q] = threadCount[q]
    BY <1>1, <1>3 DEF Execed, ProcsTyped
  <1>7. Cardinality(RunningProcs') = Cardinality(RunningProcs) + 1
    <2>1. RunningProcs' = RunningProcs \cup {p} /\ p \notin RunningProcs
      <3>1. \A q \in Procs : threadCount'[q] # 0 <=> (threadCount[q] # 0 \/ q = p)
        BY <1>6
      <3> QED BY <3>1, <1>5 DEF RunningProcs
    <2> QED BY <2>1, FiniteThreads, FS_AddElement
  <1>8. Counted'
    <2>1. \A q \in Procs : threadCount'[q] = Cardinality(ThreadsOf(q)')
      BY <1>3, <1>4, <1>5, <1>6 DEF Counted
    <2>2. \A q \in Procs : q > processCount' => threadCount'[q] = 0
      <3>1. \A q \in Procs : q > processCount' => q # p /\ q > processCount
        BY <1>5 DEF Procs
      <3> QED BY <3>1, <1>3, <1>6 DEF Counted
    <2>3. \A q \in Procs : q \notin Forking => threadCount'[q] <= 1
      BY <1>3, <1>6 DEF Counted
    <2>4. currentThread # 0 => Alive(currentThread)'
      <3>1. currentThread # t
        BY <1>3, <1>5 DEF Joins, StacksApart
      <3> QED BY <3>1, <1>2, <1>3, <1>5 DEF Alive, Joins, ProcsTyped
    <2>5. runningProcessCount' = Cardinality(RunningProcs') - 1 + failedExecs
      <3>1. runningProcessCount' = runningProcessCount + 1
        BY <1>1 DEF Execed
      <3>2. runningProcessCount = Cardinality(RunningProcs) - 1 + failedExecs
        BY <1>3 DEF Counted
      <3>3. failedExecs \in Nat
        BY <1>3 DEF ProcsTyped
      <3> QED BY <3>1, <3>2, <3>3, <1>7, FiniteThreads
    <2> QED BY <1>2, <2>1, <2>2, <2>3, <2>4, <2>5 DEF Counted
  <1>9. StacksApart'
    <2>2. TopOf(p) \in Nat /\ StackPages \in Nat \ {0}
      BY Constants
    <2>3. DOMAIN pageTable'[p] = 0 .. TopOf(p) + StackPages - 1 /\ Pages(p) = {}
      BY <1>1, NewSpaceTyped DEF Execed
    <2>6. TopOf(p) .. TopOf(p) + StackPages - 1 \subseteq DOMAIN pageTable'[p]
      BY <2>2, <2>3
    <2>7. \A q \in Procs \ {p} : DOMAIN pageTable'[q] = Pages(q) /\ threadCount'[q] = threadCount[q]
      BY <1>1, <1>6 DEF Execed, Pages
    <2>8. \A u \in Threads : space[u] # p
      BY <1>1 DEF Execed
    <2>9. threadCount'[p] # 0
      BY <1>6, <2>2
    <2> QED BY <1>3, <2>2, <2>3, <2>6, <2>7, <2>8, <2>9, JoinStacks
  <1> QED BY <1>8, <1>9 DEF ProcsRight

LEMMA ExitProcessFacts ==
    ASSUME Typed, ProcsRight, ExitProcess
    PROVE  \E t \in Threads, p \in Procs :
             /\ Leaves(t, p) /\ threadCount[p] = 1 /\ pageTable'[p] = <<>>
             /\ bitmap' = bitmap \ {f \in Frames : ipt[f].spaceOwner = p}
             /\ threadCount' = [threadCount EXCEPT ![p] = 0]
             /\ runningProcessCount' = runningProcessCount - 1
             /\ \A u \in Threads \ {t} : space[u] # p
  <1>1. RunsUser /\ Finish(tlb) /\ stackLocations' = stackLocations
    BY DEF ExitProcess
  <1>2. PICK t \in Threads : t = currentThread
    BY <1>1, FinishFacts
  <1>3. PICK p \in Procs : p = space[t]
    BY <1>1, <1>2, FinishFacts
  <1>4. /\ p \in RunningProcs /\ Alive(t)
        /\ space' = [space EXCEPT ![t] = 0]
        /\ currentThread' # 0 => /\ currentThread' \in Threads \ {t} /\ Alive(currentThread')
        /\ currentThread' = 0 => \A u \in Threads \ {t} : ~Alive(u)
    BY <1>1, <1>2, <1>3, FinishFacts
  <1>5. /\ pageTable' = [pageTable EXCEPT ![p] = <<>>] /\ threadCount[p] = 1
        /\ bitmap' = bitmap \ {f \in Frames : ipt[f].spaceOwner = p}
        /\ threadCount' = [threadCount EXCEPT ![p] = 0]
        /\ runningProcessCount' = runningProcessCount - 1
        /\ UNCHANGED <<stackLocations, processCount, failedExecs>>
    BY <1>2, <1>3 DEF ExitProcess, isLastExecutingThread
  <1>6. pageTable \in [Procs -> Table]
    BY DEF Typed, MemoryTyped
  <1>7. pageTable' \in [Procs -> Table] /\ pageTable'[p] = <<>>
        /\ \A q \in Procs \ {p} : pageTable'[q] = pageTable[q]
    BY <1>5, <1>6, EmptyTable
  <1>8. Leaves(t, p)
    BY <1>2, <1>3, <1>4, <1>5, <1>7 DEF Leaves
  <1>9. \A u \in Threads \ {t} : space[u] # p
    <2>1. Cardinality(ThreadsOf(p)) = 1
      BY <1>5 DEF ProcsRight, Counted
    <2>2. PICK x : ThreadsOf(p) = {x}
      BY <2>1, FiniteThreads, FS_Singleton
    <2> QED BY <2>2, <1>3 DEF ThreadsOf
  <1> QED BY <1>5, <1>7, <1>8, <1>9

LEMMA ExitThreadFacts ==
    ASSUME Typed, ProcsRight, ExitThread
    PROVE  \E t \in Threads, p \in Procs :
             /\ Leaves(t, p) /\ threadCount[p] > 1 /\ DOMAIN pageTable'[p] = Pages(p)
             /\ \A v \in Pages(p) :
                  pageTable'[p][v] = IF v \in StackOf(t)
                                     THEN OnFrame(pageTable[p][v], -1)
                                     ELSE pageTable[p][v]
             /\ \E freed \in FreedFrames(t) : bitmap' = bitmap \ freed
             /\ threadCount' = [threadCount EXCEPT ![p] = threadCount[p] - 1]
             /\ UNCHANGED runningProcessCount
  <1>1. RunsUser /\ stackLocations' = stackLocations
    BY DEF ExitThread
  <1>2. PICK t \in Threads : t = currentThread
    BY <1>1, Running DEF Typed, ProcsRight
  <1>3. PICK p \in Procs : p = space[t]
    BY <1>1, <1>2, Running DEF Typed, ProcsRight
  <1> DEFINE left == [i \in Slots |-> IF DropsEntry(t, tlb[i]) THEN Invalid ELSE tlb[i]]
             pages == [v \in Pages(p) |-> IF v \in StackOf(t)
                                         THEN OnFrame(pageTable[p][v], -1)
                                         ELSE pageTable[p][v]]
  <1>5. /\ pageTable' = [pageTable EXCEPT ![p] = pages]
        /\ \E freed \in FreedFrames(t) : bitmap' = bitmap \ freed
        /\ threadCount' = [threadCount EXCEPT ![p] = threadCount[p] - 1]
        /\ Finish(left) /\ threadCount[p] # 1
        /\ UNCHANGED <<stackLocations, processCount, runningProcessCount, failedExecs>>
    BY <1>2, <1>3 DEF ExitThread, OnFrame, isLastExecutingThread
  <1> HIDE DEF left
  <1>4. /\ p \in RunningProcs /\ Alive(t)
        /\ space' = [space EXCEPT ![t] = 0]
        /\ currentThread' # 0 => /\ currentThread' \in Threads \ {t} /\ Alive(currentThread')
        /\ currentThread' = 0 => \A u \in Threads \ {t} : ~Alive(u)
    BY <1>1, <1>2, <1>3, <1>5, FinishFacts
  <1>6. pageTable \in [Procs -> Table]
    BY DEF Typed, MemoryTyped
  <1>7. pages \in Table
    <2>1. PICK n \in Nat : pageTable[p] \in [0 .. n - 1 -> Entry]
      BY <1>6 DEF Table
    <2>2. Pages(p) = 0 .. n - 1 /\ \A v \in 0 .. n - 1 : pageTable[p][v] \in Entry
      BY <2>1 DEF Pages
    <2>3. \A v \in 0 .. n - 1 : OnFrame(pageTable[p][v], -1) \in Entry
      BY <2>2, EntryChanged
    <2>4. pages \in [0 .. n - 1 -> Entry]
      BY <2>2, <2>3
    <2> QED BY <2>4, TableMade
  <1>8. DOMAIN pages = Pages(p)
        /\ \A v \in Pages(p) :
             pages[v] = IF v \in StackOf(t) THEN OnFrame(pageTable[p][v], -1)
                                            ELSE pageTable[p][v]
    OBVIOUS
  <1> HIDE DEF pages
  <1>9. pageTable' \in [Procs -> Table] /\ pageTable'[p] = pages
        /\ \A q \in Procs \ {p} : pageTable'[q] = pageTable[q]
    BY <1>5, <1>6, <1>7
  <1>10. Leaves(t, p)
    BY <1>2, <1>3, <1>4, <1>5, <1>9 DEF Leaves
  <1>11. threadCount[p] > 1
    <2>1. threadCount[p] \in Nat /\ threadCount[p] # 0
      BY <1>4 DEF Typed, ProcsTyped, RunningProcs
    <2> QED BY <2>1, <1>5
  <1> QED BY <1>5, <1>8, <1>9, <1>10, <1>11

LEMMA LeavingCounts ==
    ASSUME Typed, ProcsRight, NEW t, NEW p \in Procs, Leaves(t, p),
           \A q \in Procs \ {p} : threadCount'[q] = threadCount[q],
           threadCount'[p] = threadCount[p] - 1,
           runningProcessCount' = IF threadCount[p] = 1 THEN runningProcessCount - 1
                                                        ELSE runningProcessCount
    PROVE  Counted'
  <1>1. ProcsTyped /\ Counted /\ t \in Threads /\ Alive(t) /\ p = space[t] /\ p \in RunningProcs
        /\ space' = [space EXCEPT ![t] = 0]
        /\ UNCHANGED <<processCount, failedExecs>>
    BY DEF Leaves, Typed, ProcsRight
  <1>2. /\ \A q \in Procs \ {p} : ThreadsOf(q)' = ThreadsOf(q)
        /\ Cardinality(ThreadsOf(p)') = Cardinality(ThreadsOf(p)) - 1
    BY <1>1, LeaveCounts
  <1>3. threadCount[p] \in Nat \ {0} /\ \A q \in Procs : threadCount[q] \in Nat
    BY <1>1 DEF ProcsTyped, RunningProcs
  <1>4. \A q \in Procs : threadCount'[q] = Cardinality(ThreadsOf(q)')
    BY <1>1, <1>2 DEF Counted
  <1>5. \A q \in Procs : threadCount'[q] <= threadCount[q] /\ (threadCount[q] = 0 => threadCount'[q] = 0)
    BY <1>3
  <1>6. (\A q \in Procs : q > processCount => threadCount[q] = 0)'
    BY <1>1, <1>5 DEF Counted
  <1>7. \A q \in Procs : q \notin Forking => threadCount'[q] <= 1
    <2>1. \A q \in Procs : threadCount'[q] = threadCount[q] \/ threadCount'[q] = threadCount[q] - 1
      OBVIOUS
    <2> QED BY <2>1, <1>1, <1>3 DEF Counted
  <1>8. runningProcessCount' = Cardinality(RunningProcs') - 1 + failedExecs'
    <2>0. /\ runningProcessCount = Cardinality(RunningProcs) - 1 + failedExecs
          /\ failedExecs \in Nat /\ failedExecs' = failedExecs
          /\ Cardinality(RunningProcs) \in Nat
      BY <1>1, FiniteThreads DEF Counted, ProcsTyped
    <2>1. CASE threadCount[p] = 1
      <3>1. RunningProcs' = RunningProcs \ {p}
        <4>1. \A q \in Procs : threadCount'[q] # 0 <=> (threadCount[q] # 0 /\ q # p)
          BY <2>1
        <4> QED BY <4>1 DEF RunningProcs
      <3>2. Cardinality(RunningProcs \ {p}) = Cardinality(RunningProcs) - 1
        BY <1>1, FiniteThreads, FS_RemoveElement
      <3>3. runningProcessCount' = runningProcessCount - 1
        BY <2>1
      <3> QED BY <2>0, <3>1, <3>2, <3>3
    <2>2. CASE threadCount[p] # 1
      <3>1. RunningProcs' = RunningProcs
        <4>1. \A q \in Procs : threadCount'[q] # 0 <=> threadCount[q] # 0
          BY <2>2, <1>3
        <4> QED BY <4>1 DEF RunningProcs
      <3> QED BY <2>0, <2>2, <3>1
    <2> QED BY <2>1, <2>2
  <1>9. (currentThread # 0 => Alive(currentThread))'
    <2>1. currentThread' # 0 => /\ currentThread' \in Threads \ {t} /\ space[currentThread'] # 0
      BY DEF Leaves, Alive
    <2>2. currentThread' # 0 => space'[currentThread'] # 0
      BY <2>1, <1>1 DEF ProcsTyped
    <2> QED BY <2>2 DEF Alive
  <1> QED BY <1>4, <1>6, <1>7, <1>8, <1>9 DEF Counted

LEMMA ExitKeepsProcs == Typed /\ ProcsRight /\ (ExitProcess \/ ExitThread) => ProcsRight'
  <1>1. ASSUME Typed, ProcsRight, ExitProcess PROVE ProcsRight'
    <2>1. PICK t \in Threads, p \in Procs :
             /\ Leaves(t, p) /\ threadCount[p] = 1 /\ pageTable'[p] = <<>>
             /\ threadCount' = [threadCount EXCEPT ![p] = 0]
             /\ runningProcessCount' = runningProcessCount - 1
             /\ \A u \in Threads \ {t} : space[u] # p
      BY <1>1, ExitProcessFacts
    <2>2. /\ threadCount'[p] = threadCount[p] - 1
          /\ threadCount'[p] = 0
          /\ \A q \in Procs \ {p} : threadCount'[q] = threadCount[q]
      BY <1>1, <2>1 DEF Typed, ProcsTyped
    <2>3. Counted'
      BY <1>1, <2>1, <2>2, LeavingCounts
    <2>4. /\ space' = [space EXCEPT ![t] = 0] /\ stackLocations' = stackLocations
          /\ \A q \in Procs \ {p} : pageTable'[q] = pageTable[q]
      BY <2>1 DEF Leaves
    <2>5. \A q \in Procs : \/ DOMAIN pageTable'[q] = Pages(q) /\ (threadCount'[q] = 0 <=> threadCount[q] = 0)
                           \/ /\ DOMAIN pageTable'[q] = {} /\ threadCount'[q] = 0
                              /\ \A u \in Threads \ {t} : space[u] # q
      BY <2>1, <2>2, <2>4, EmptyTable DEF Pages
    <2>6. StacksApart'
      BY <1>1, <2>4, <2>5, LeaveStacks DEF Typed, ProcsRight
    <2> QED BY <2>3, <2>6 DEF ProcsRight
  <1>2. ASSUME Typed, ProcsRight, ExitThread PROVE ProcsRight'
    <2>1. PICK t \in Threads, p \in Procs :
             /\ Leaves(t, p) /\ threadCount[p] > 1 /\ DOMAIN pageTable'[p] = Pages(p)
             /\ threadCount' = [threadCount EXCEPT ![p] = threadCount[p] - 1]
             /\ UNCHANGED runningProcessCount
      BY <1>2, ExitThreadFacts
    <2>2. /\ threadCount'[p] = threadCount[p] - 1 /\ threadCount[p] \in Nat
          /\ \A q \in Procs \ {p} : threadCount'[q] = threadCount[q]
      BY <1>2, <2>1 DEF Typed, ProcsTyped
    <2>3. Counted'
      BY <1>2, <2>1, <2>2, LeavingCounts
    <2>4. /\ space' = [space EXCEPT ![t] = 0] /\ stackLocations' = stackLocations
          /\ \A q \in Procs \ {p} : pageTable'[q] = pageTable[q]
      BY <2>1 DEF Leaves
    <2>5. \A q \in Procs : DOMAIN pageTable'[q] = Pages(q) /\ (threadCount'[q] = 0 <=> threadCount[q] = 0)
      BY <2>1, <2>2, <2>4 DEF Pages
    <2>6. StacksApart'
      BY <1>2, <2>4, <2>5, LeaveStacks DEF Typed, ProcsRight
    <2> QED BY <2>3, <2>6 DEF ProcsRight
  <1> QED BY <1>1, <1>2

-----------------------------------------------------------------------------
(* What a page fault does. *)

\* What the disk has of page v of process p by the page tables `pages`.
DiskHas(pages, p, v) ==
    CASE pages[p][v].diskLocation = "EXECUTABLE" -> Content(p, v, 0)
      [] pages[p][v].diskLocation = "SWAP" -> pages[p][v].swapped
      [] OTHER -> NoPage

TablesTyped(pages) ==
    pages \in [Procs -> Table] /\ \A q \in Procs : DOMAIN pages[q] = Pages(q)

\* Page v of the running process is now in frame f; `entries`, `pages` and d, the
\* bit of the frame, are what eviction left.
FilledIn(v, f, i, p, entries, pages, d) ==
    /\ f \in Frames /\ i \in Slots /\ p = space[currentThread] /\ tlbCounter' = i
    /\ tlb' \in [Slots -> TLBEntry] /\ ipt' \in [Frames -> IPTEntry]
    /\ \A g \in Frames \ {f} : /\ ipt'[g].virtualPage = ipt[g].virtualPage
                               /\ ipt'[g].spaceOwner = ipt[g].spaceOwner
                               /\ ipt'[g].valid = ipt[g].valid
    /\ ipt'[f].virtualPage = v /\ ipt'[f].spaceOwner = p /\ ipt'[f].valid
    /\ \A g \in Frames : ipt'[g].dirty = IF entries[i].valid /\ entries[i].physicalPage = g
                                         THEN entries[i].dirty
                                         ELSE IF g = f THEN d ELSE ipt[g].dirty
    /\ \A j \in Slots \ {i} : tlb'[j] = entries[j]
    /\ tlb'[i].virtualPage = v /\ tlb'[i].physicalPage = f
    /\ tlb'[i].valid /\ tlb'[i].dirty = ipt'[f].dirty
    /\ mainMemory' \in [Frames -> Held] /\ mainMemory'[f] = DiskHas(pages, p, v)
    /\ \A g \in Frames \ {f} : mainMemory'[g] = mainMemory[g]
    /\ pageTable' \in [Procs -> Table] /\ SamePages
    /\ \A q \in Procs : \A w \in Pages(q) :
         /\ pageTable'[q][w].diskLocation = pages[q][w].diskLocation
         /\ pageTable'[q][w].swapped = pages[q][w].swapped
         /\ pageTable'[q][w].physicalPage = IF q = p /\ w = v THEN f ELSE pages[q][w].physicalPage
    /\ UNCHANGED <<runWithFIFO, procs, currentThread, halted>>

LEMMA DiskTyped ==
    ASSUME NEW p \in Procs, NEW v \in Nat, NEW pages, pages[p][v] \in Entry
    PROVE  DiskHas(pages, p, v) \in Held
  <1> DEFINE e == pages[p][v]
  <1>1. Content(p, v, 0) \in Held /\ NoPage \in Held /\ e.swapped \in Held
    BY DEF Content, NoPage, Held, Procs, Entry
  <1>2. CASE e.diskLocation = "EXECUTABLE"
    BY <1>1, <1>2 DEF DiskHas
  <1>3. CASE e.diskLocation = "SWAP"
    <2>1. e.diskLocation # "EXECUTABLE"
      BY <1>3
    <2> QED BY Zenon, <1>1, <1>3, <2>1 DEF DiskHas
  <1>4. CASE e.diskLocation # "EXECUTABLE" /\ e.diskLocation # "SWAP"
    BY Zenon, <1>1, <1>4 DEF DiskHas
  <1> QED BY <1>2, <1>3, <1>4

LEMMA LoadFacts ==
    ASSUME Typed, ProcsRight, RunsUser, NEW v \in Usable(currentThread), NEW f \in Frames,
           NEW queue, NEW entries \in [Slots -> TLBEntry], NEW pages, TablesTyped(pages),
           NEW d \in BOOLEAN, NEW table \in [Frames -> IPTEntry],
           \A g \in Frames \ {f} : table[g] = ipt[g],
           table[f].dirty = d,
           LoadPage(v, f, queue, entries, table, pages)
    PROVE  \E i \in Slots, p \in Procs : FilledIn(v, f, i, p, entries, pages, d)
  <1>1. /\ space[currentThread] \in Procs /\ v \in Pages(space[currentThread])
        /\ currentThread \in Threads
    BY Running DEF Typed, ProcsRight
  <1> PICK p \in Procs : p = space[currentThread]
    BY <1>1
  <1>2. /\ pageTable \in [Procs -> Table] /\ mainMemory \in [Frames -> Held]
        /\ tlbCounter \in {-1} \cup Slots
        /\ pages \in [Procs -> Table] /\ DOMAIN pages[p] = Pages(p)
    BY DEF Typed, MemoryTyped, TablesTyped
  <1>3. pages[p][v] \in Entry /\ v \in Nat
    <2>1. pages[p] \in Table /\ v \in DOMAIN pages[p]
      BY <1>1, <1>2
    <2> QED BY <2>1, TableShape
  <1>4. DiskHas(pages, p, v) \in Held
    BY <1>3, DiskTyped
  <1>5. mainMemory' = [mainMemory EXCEPT ![f] = DiskHas(pages, p, v)]
    <2> DEFINE e == pages[p][v]
    <2>1. mainMemory' = CASE e.diskLocation = "EXECUTABLE" -> [mainMemory EXCEPT ![f] = Content(p, v, 0)]
                          [] e.diskLocation = "SWAP" -> [mainMemory EXCEPT ![f] = e.swapped]
                          [] OTHER -> [mainMemory EXCEPT ![f] = NoPage]
      BY Zenon DEF LoadPage
    <2>2. CASE e.diskLocation = "EXECUTABLE"
      <3>1. e.diskLocation # "SWAP"
        BY <2>2
      <3>2. DiskHas(pages, p, v) = Content(p, v, 0)
        BY Zenon, <2>2, <3>1 DEF DiskHas
      <3>3. mainMemory' = [mainMemory EXCEPT ![f] = Content(p, v, 0)]
        BY Zenon, <2>1, <2>2, <3>1
      <3> QED BY Zenon, <3>2, <3>3
    <2>3. CASE e.diskLocation = "SWAP"
      <3>1. e.diskLocation # "EXECUTABLE"
        BY <2>3
      <3>2. DiskHas(pages, p, v) = e.swapped
        BY Zenon, <2>3, <3>1 DEF DiskHas
      <3>3. mainMemory' = [mainMemory EXCEPT ![f] = e.swapped]
        BY Zenon, <2>1, <2>3, <3>1
      <3> QED BY Zenon, <3>2, <3>3
    <2>4. CASE e.diskLocation # "EXECUTABLE" /\ e.diskLocation # "SWAP"
      <3>2. DiskHas(pages, p, v) = NoPage
        BY Zenon, <2>4 DEF DiskHas
      <3>3. mainMemory' = [mainMemory EXCEPT ![f] = NoPage]
        BY Zenon, <2>1, <2>4
      <3> QED BY Zenon, <3>2, <3>3
    <2> QED BY <2>2, <2>3, <2>4
  <1>6. /\ mainMemory' \in [Frames -> Held] /\ mainMemory'[f] = DiskHas(pages, p, v)
        /\ \A g \in Frames \ {f} : mainMemory'[g] = mainMemory[g]
    BY <1>2, <1>4, <1>5
  <1>7. PICK e \in Entry : /\ e = OnFrame(pages[p][v], f)
                           /\ e.physicalPage = f /\ e.diskLocation = pages[p][v].diskLocation
                           /\ e.swapped = pages[p][v].swapped
    BY <1>3, EntryChanged
  <1>8. pageTable' = Replaced(pages, p, v, e)
    BY <1>7 DEF LoadPage, Replaced, OnFrame
  <1>9. /\ pageTable' \in [Procs -> Table] /\ \A q \in Procs : DOMAIN pageTable'[q] = DOMAIN pages[q]
        /\ \A q \in Procs : \A w \in DOMAIN pages[q] :
             pageTable'[q][w] = IF q = p /\ w = v THEN e ELSE pages[q][w]
    BY <1>2, <1>8, TableReplaced
  <1>10. SamePages /\ \A q \in Procs : DOMAIN pages[q] = Pages(q)
    BY <1>9 DEF SamePages, TablesTyped, Pages
  <1>11. \A q \in Procs : \A w \in Pages(q) :
           /\ pageTable'[q][w].diskLocation = pages[q][w].diskLocation
           /\ pageTable'[q][w].swapped = pages[q][w].swapped
           /\ pageTable'[q][w].physicalPage = IF q = p /\ w = v THEN f ELSE pages[q][w].physicalPage
    <2> SUFFICES ASSUME NEW q \in Procs, NEW w \in Pages(q)
                 PROVE  /\ pageTable'[q][w].diskLocation = pages[q][w].diskLocation
                        /\ pageTable'[q][w].swapped = pages[q][w].swapped
                        /\ pageTable'[q][w].physicalPage =
                             IF q = p /\ w = v THEN f ELSE pages[q][w].physicalPage
      BY Zenon
    <2>1. pageTable'[q][w] = IF q = p /\ w = v THEN e ELSE pages[q][w]
      BY <1>9, <1>10
    <2>2. CASE q = p /\ w = v
      BY <2>1, <2>2, <1>7
    <2>3. CASE ~(q = p /\ w = v)
      BY <2>1, <2>3
    <2> QED BY <2>2, <2>3
  <1>12. PICK full \in [Frames -> IPTEntry] :
           full = [table EXCEPT ![f] = [virtualPage |-> v, spaceOwner |-> p,
                                        valid |-> TRUE, dirty |-> @.dirty]]
    <2>1. p \in 0 .. MaxProcesses
      BY DEF Procs
    <2>2. [virtualPage |-> v, spaceOwner |-> p, valid |-> TRUE, dirty |-> table[f].dirty] \in IPTEntry
      BY <1>3, <2>1 DEF IPTEntry
    <2> QED BY <2>2
  <1>13. /\ \A g \in Frames \ {f} : full[g] = ipt[g]
         /\ full[f].virtualPage = v /\ full[f].spaceOwner = p /\ full[f].valid /\ full[f].dirty = d
    BY <1>12
  <1>14. LoadTLB(entries, full, f)
    BY <1>12 DEF LoadPage
  <1>15. PICK i \in Slots : Refilled(i, entries, full, f)
    BY <1>2, <1>14, Refill
  <1>16. /\ tlb' \in [Slots -> TLBEntry] /\ ipt' \in [Frames -> IPTEntry] /\ tlbCounter' = i
         /\ \A g \in Frames \ {f} : /\ ipt'[g].virtualPage = ipt[g].virtualPage
                                    /\ ipt'[g].spaceOwner = ipt[g].spaceOwner
                                    /\ ipt'[g].valid = ipt[g].valid
         /\ ipt'[f].virtualPage = v /\ ipt'[f].spaceOwner = p /\ ipt'[f].valid
    BY <1>13, <1>15 DEF Refilled
  <1>17. \A g \in Frames : ipt'[g].dirty = IF entries[i].valid /\ entries[i].physicalPage = g
                                           THEN entries[i].dirty
                                           ELSE IF g = f THEN d ELSE ipt[g].dirty
    BY <1>13, <1>15 DEF Refilled
  <1>18. /\ \A j \in Slots \ {i} : tlb'[j] = entries[j]
         /\ tlb'[i].virtualPage = v /\ tlb'[i].physicalPage = f
         /\ tlb'[i].valid /\ tlb'[i].dirty = ipt'[f].dirty
    BY <1>13, <1>15 DEF Refilled
  <1>19. UNCHANGED <<runWithFIFO, procs, currentThread, halted>>
    BY DEF LoadPage
  <1>20. FilledIn(v, f, i, p, entries, pages, d)
    BY <1>6, <1>9, <1>10, <1>11, <1>16, <1>17, <1>18, <1>19 DEF FilledIn
  <1> QED BY <1>20

LEMMA ResidentFacts ==
    ASSUME Typed, ProcsRight, NEW v, FaultOnResidentPage(v)
    PROVE  \E f \in FramesOf(space[currentThread], v), i \in Slots : Refilled(i, tlb, ipt, f)
  <1>1. FramesOf(space[currentThread], v) \in SUBSET Frames /\ FramesOf(space[currentThread], v) # {}
    BY DEF FramesOf, FaultOnResidentPage
  <1>2. PICK f \in FramesOf(space[currentThread], v) : f = Least(FramesOf(space[currentThread], v))
    BY <1>1, SlotOrFrame
  <1>3. f \in Frames /\ LoadTLB(tlb, ipt, f)
    BY <1>1, <1>2 DEF FaultOnResidentPage
  <1>4. tlbCounter \in {-1} \cup Slots /\ tlb \in [Slots -> TLBEntry] /\ ipt \in [Frames -> IPTEntry]
    BY DEF Typed, MemoryTyped
  <1> QED BY <1>3, <1>4, Refill

LEMMA FreeFacts ==
    ASSUME Typed, ProcsRight, NEW v, FaultWithFreeFrame(v)
    PROVE  \E f \in Frames, i \in Slots, p \in Procs :
             /\ f \notin bitmap /\ bitmap' = bitmap \cup {f} /\ swapQueue' \in Seq(Frames)
             /\ FilledIn(v, f, i, p, tlb, pageTable, ipt[f].dirty)
  <1>1. RunsUser /\ v \in Usable(currentThread) /\ Hits(v) = {}
    BY DEF FaultWithFreeFrame, Faults
  <1>2. bitmap \in SUBSET Frames /\ tlb \in [Slots -> TLBEntry] /\ ipt \in [Frames -> IPTEntry]
        /\ TablesTyped(pageTable)
    BY DEF Typed, MemoryTyped, TablesTyped, Pages
  <1>3. Frames \ bitmap \in SUBSET Frames /\ Frames \ bitmap # {}
    BY <1>2 DEF FaultWithFreeFrame
  <1>4. PICK f \in Frames \ bitmap : f = Least(Frames \ bitmap)
    BY <1>3, SlotOrFrame
  <1>5. bitmap' = bitmap \cup {f} /\ LoadPage(v, f, swapQueue, tlb, ipt, pageTable)
    BY <1>4 DEF FaultWithFreeFrame
  <1>6. PICK d \in BOOLEAN : d = ipt[f].dirty
    BY <1>2 DEF IPTEntry
  <1>7. \E i \in Slots, p \in Procs : FilledIn(v, f, i, p, tlb, pageTable, d)
    BY <1>1, <1>2, <1>5, <1>6, LoadFacts
  <1>8. swapQueue' \in Seq(Frames)
    <2>1. swapQueue' = Enqueued(swapQueue, f) /\ swapQueue \in Seq(Frames)
      BY <1>5 DEF LoadPage, Typed, MemoryTyped
    <2> QED BY <2>1 DEF Enqueued
  <1> QED BY <1>4, <1>5, <1>6, <1>7, <1>8

\* The TLB, the page tables and the bit of frame f, when its page has been evicted.
Evicted(f, entries, pages, d) ==
    /\ f \in Frames /\ entries \in [Slots -> TLBEntry] /\ TablesTyped(pages)
    /\ d = (ipt[f].dirty \/ \E i \in Slots : MatchesEvicted(f, tlb[i]) /\ tlb[i].dirty)
    /\ \A i \in Slots : /\ MatchesEvicted(f, tlb[i]) => ~entries[i].valid
                        /\ ~MatchesEvicted(f, tlb[i]) => entries[i] = tlb[i]
    /\ \A q \in Procs : \A w \in Pages(q) :
         IF q = Owner(f) /\ w = PageIn(f)
         THEN /\ pages[q][w].physicalPage = -1
              /\ d => pages[q][w].diskLocation = "SWAP" /\ pages[q][w].swapped = mainMemory[f]
              /\ ~d => /\ pages[q][w].diskLocation = pageTable[q][w].diskLocation
                       /\ pages[q][w].swapped = pageTable[q][w].swapped
         ELSE pages[q][w] = pageTable[q][w]

LEMMA EvictFacts ==
    ASSUME Typed, ProcsRight, RunsUser, NEW v \in Usable(currentThread), NEW f \in Frames,
           NEW queue, Evict(f, v, queue)
    PROVE  \E i \in Slots, p \in Procs, entries \in [Slots -> TLBEntry],
                pages \in [Procs -> Table], d \in BOOLEAN :
             /\ Evicted(f, entries, pages, d) /\ FilledIn(v, f, i, p, entries, pages, d)
             /\ LosesMarks({j \in Slots : MatchesEvicted(f, tlb[j]) /\ tlb[j].physicalPage # f})
  <1>1. /\ tlb \in [Slots -> TLBEntry] /\ ipt \in [Frames -> IPTEntry]
        /\ mainMemory \in [Frames -> Held] /\ pageTable \in [Procs -> Table]
        /\ TablesTyped(pageTable)
    BY DEF Typed, MemoryTyped, TablesTyped, Pages
  <1>2. PICK owner, page : owner = Owner(f) /\ page = PageIn(f)
    OBVIOUS
  <1>3. PICK d \in BOOLEAN : d = (ipt[f].dirty \/ \E i \in Slots : MatchesEvicted(f, tlb[i]) /\ tlb[i].dirty)
    OBVIOUS
  <1>4. PICK entries \in [Slots -> TLBEntry] : entries = [i \in Slots |-> IF i \in {j \in Slots : MatchesEvicted(f, tlb[j])}
                                                 THEN Invalid ELSE tlb[i]]
    <2>1. Invalid \in TLBEntry
      BY Constants DEF Invalid, TLBEntry, Frames
    <2> QED BY <1>1, <2>1
  <1>5. /\ entries \in [Slots -> TLBEntry]
        /\ \A i \in Slots : /\ MatchesEvicted(f, tlb[i]) => ~entries[i].valid
                            /\ ~MatchesEvicted(f, tlb[i]) => entries[i] = tlb[i]
    <2>1. Invalid \in TLBEntry /\ ~Invalid.valid
      BY Constants DEF Invalid, TLBEntry, Frames
    <2>2. entries = [i \in Slots |-> IF MatchesEvicted(f, tlb[i]) THEN Invalid ELSE tlb[i]]
      BY <1>4
    <2> QED BY <1>1, <2>1, <2>2
  <1> DEFINE kept == pageTable[owner][page]
  <1>6. PICK written : written = IF d THEN Replaced(pageTable, owner, page, OnSwap(kept, mainMemory[f]))
                                 ELSE pageTable
    OBVIOUS
  <1>7. PICK pages : pages = Replaced(written, owner, page, OnFrame(written[owner][page], -1))
    OBVIOUS
  <1>8. owner \in Procs /\ page \in Pages(owner) => kept \in Entry
    BY <1>1, TableShape DEF Pages
  <1>9. mainMemory[f] \in Held
    BY <1>1
  <1>10. /\ written \in [Procs -> Table] /\ \A q \in Procs : DOMAIN written[q] = Pages(q)
         /\ \A q \in Procs : \A w \in Pages(q) :
              written[q][w] = IF d /\ q = owner /\ w = page THEN OnSwap(kept, mainMemory[f])
                                                           ELSE pageTable[q][w]
    <2>1. CASE d
      <3>1. written = Replaced(pageTable, owner, page, OnSwap(kept, mainMemory[f]))
        BY <2>1, <1>6
      <3>2. owner \in Procs /\ page \in DOMAIN pageTable[owner] => OnSwap(kept, mainMemory[f]) \in Entry
        <4> HIDE DEF kept
        <4> QED BY <1>8, <1>9, EntryChanged DEF Pages
      <3> HIDE DEF kept
      <3> QED BY <1>1, <2>1, <3>1, <3>2, TableReplaced DEF Pages
    <2>2. CASE ~d
      BY <2>2, <1>1, <1>6 DEF Pages
    <2> QED BY <2>1, <2>2
  <1>11. owner \in Procs /\ page \in Pages(owner) =>
           /\ written[owner][page] \in Entry
           /\ d => written[owner][page].diskLocation = "SWAP" /\ written[owner][page].swapped = mainMemory[f]
           /\ ~d => written[owner][page] = kept
    <2>1. SUFFICES ASSUME owner \in Procs, page \in Pages(owner)
                   PROVE  /\ written[owner][page] \in Entry
                          /\ d => /\ written[owner][page].diskLocation = "SWAP"
                                  /\ written[owner][page].swapped = mainMemory[f]
                          /\ ~d => written[owner][page] = kept
      OBVIOUS
    <2>2. written[owner][page] = IF d THEN OnSwap(kept, mainMemory[f]) ELSE kept
      BY <2>1, <1>10
    <2>3. kept \in Entry
      BY <2>1, <1>8
    <2> HIDE DEF kept
    <2> QED BY <2>2, <2>3, <1>9, EntryChanged
  <1>12. owner \in Procs /\ page \in Pages(owner) =>
           /\ OnFrame(written[owner][page], -1) \in Entry
           /\ OnFrame(written[owner][page], -1).physicalPage = -1
           /\ OnFrame(written[owner][page], -1).diskLocation = written[owner][page].diskLocation
           /\ OnFrame(written[owner][page], -1).swapped = written[owner][page].swapped
    BY <1>11, EntryChanged
  <1>13. /\ pages \in [Procs -> Table] /\ \A q \in Procs : DOMAIN pages[q] = Pages(q)
         /\ \A q \in Procs : \A w \in Pages(q) :
              pages[q][w] = IF q = owner /\ w = page THEN OnFrame(written[owner][page], -1)
                                                    ELSE written[q][w]
    BY <1>7, <1>10, <1>12, TableReplaced
  <1>14. ASSUME NEW q \in Procs, NEW w \in Pages(q)
         PROVE  IF q = owner /\ w = page
                THEN /\ pages[q][w].physicalPage = -1
                     /\ d => pages[q][w].diskLocation = "SWAP" /\ pages[q][w].swapped = mainMemory[f]
                     /\ ~d => /\ pages[q][w].diskLocation = pageTable[q][w].diskLocation
                              /\ pages[q][w].swapped = pageTable[q][w].swapped
                ELSE pages[q][w] = pageTable[q][w]
    <2>1. CASE q = owner /\ w = page
      <3>1. pages[q][w] = OnFrame(written[owner][page], -1)
        BY <2>1, <1>13
      <3> QED BY <2>1, <3>1, <1>11, <1>12
    <2>2. CASE ~(q = owner /\ w = page)
      BY <2>2, <1>10, <1>13
    <2> QED BY <2>1, <2>2
  <1>15. Evicted(f, entries, pages, d)
    BY <1>2, <1>3, <1>5, <1>13, <1>14 DEF Evicted, TablesTyped
  <1>16. PICK table \in [Frames -> IPTEntry] : table = [ipt EXCEPT ![f].dirty = d]
    <2>1. [ipt EXCEPT ![f].dirty = d] = [ipt EXCEPT ![f] = [ipt[f] EXCEPT !.dirty = d]]
      OBVIOUS
    <2>2. [ipt[f] EXCEPT !.dirty = d] \in IPTEntry
      BY <1>1 DEF IPTEntry
    <2> QED BY <1>1, <2>1, <2>2
  <1>17. table[f].dirty = d /\ \A g \in Frames \ {f} : table[g] = ipt[g]
    BY <1>1, <1>16 DEF IPTEntry
  <1>18. LoadPage(v, f, queue, entries, table, pages)
    <2>1. d = (ipt[f].dirty \/ \E i \in {j \in Slots : MatchesEvicted(f, tlb[j])} : tlb[i].dirty)
      BY <1>3
    <2>2. pages = Unmapped(written, owner, page)
      BY <1>7 DEF Unmapped, Replaced, OnFrame
    <2>3. written = IF d THEN [pageTable EXCEPT ![owner][page].diskLocation = "SWAP",
                                               ![owner][page].swapped = mainMemory[f]]
                    ELSE pageTable
      BY <1>6 DEF Replaced, OnSwap
    <2> QED BY Zenon, <1>2, <1>4, <1>16, <2>1, <2>2, <2>3 DEF Evict, Owner, PageIn
  <1>19. \E i \in Slots, p \in Procs : FilledIn(v, f, i, p, entries, pages, d)
    BY <1>5, <1>15, <1>17, <1>18, LoadFacts DEF Evicted
  <1>20. LosesMarks({i \in Slots : MatchesEvicted(f, tlb[i]) /\ tlb[i].physicalPage # f})
    <2>1. LosesMarks({i \in {j \in Slots : MatchesEvicted(f, tlb[j])} : tlb[i].physicalPage # f})
      BY Zenon DEF Evict
    <2>2. {i \in {j \in Slots : MatchesEvicted(f, tlb[j])} : tlb[i].physicalPage # f}
            = {i \in Slots : MatchesEvicted(f, tlb[i]) /\ tlb[i].physicalPage # f}
      OBVIOUS
    <2> QED BY Zenon, <2>1, <2>2
  <1> QED BY <1>13, <1>15, <1>19, <1>20

LEMMA EvictionFacts ==
    ASSUME Typed, ProcsRight, NEW v, FaultWithEviction(v)
    PROVE  \E f \in Frames, i \in Slots, p \in Procs, entries \in [Slots -> TLBEntry],
                pages \in [Procs -> Table], d \in BOOLEAN :
             /\ Evicted(f, entries, pages, d) /\ FilledIn(v, f, i, p, entries, pages, d)
             /\ LosesMarks({j \in Slots : MatchesEvicted(f, tlb[j]) /\ tlb[j].physicalPage # f})
             /\ bitmap = Frames /\ bitmap' = bitmap /\ swapQueue' \in Seq(Frames)
  <1>1. RunsUser /\ v \in Usable(currentThread) /\ bitmap = Frames /\ bitmap' = bitmap
    BY DEF FaultWithEviction, Faults
  <1>2. swapQueue \in Seq(Frames) /\ 0 \in Frames /\ <<>> \in Seq(Frames)
    BY Constants, EmptySeq DEF Typed, MemoryTyped, Frames
  <1>3. \E f \in Frames, queue \in Seq(Frames) : Evict(f, v, queue)
    <2>1. CASE runWithFIFO /\ swapQueue = <<>>
      BY <2>1, <1>2 DEF FaultWithEviction
    <2>2. CASE runWithFIFO /\ swapQueue # <<>>
      <3>1. Head(swapQueue) \in Frames /\ Tail(swapQueue) \in Seq(Frames)
        BY <2>2, <1>2, HeadTailProperties
      <3> QED BY <2>2, <3>1 DEF FaultWithEviction
    <2>3. CASE ~runWithFIFO
      BY <2>3, <1>2 DEF FaultWithEviction
    <2> QED BY <2>1, <2>2, <2>3
  <1>4. PICK f \in Frames, queue \in Seq(Frames) : Evict(f, v, queue)
    BY <1>3
  <1>5. swapQueue' \in Seq(Frames)
    <2>1. swapQueue' = Enqueued(queue, f)
      BY Zenon, <1>4 DEF Evict, LoadPage
    <2>2. Append(queue, f) \in Seq(Frames)
      BY AppendProperties
    <2> QED BY <2>1, <2>2 DEF Enqueued
  <1> QED BY <1>1, <1>4, <1>5, EvictFacts

LEMMA WriteFacts ==
    ASSUME Typed, ProcsRight, NEW v, WriteMem(v)
    PROVE  \E i \in Hits(v), f \in Frames, bit \in {0, 1} :
             /\ f = tlb[i].physicalPage /\ v \in Writable(currentThread)
             /\ tlb' \in [Slots -> TLBEntry]
             /\ \A j \in Slots \ {i} : tlb'[j] = tlb[j]
             /\ tlb'[i].virtualPage = v /\ tlb'[i].physicalPage = f
             /\ tlb'[i].valid /\ tlb'[i].dirty
             /\ mainMemory' = [mainMemory EXCEPT ![f] = Content(space[currentThread], v, bit)]
             /\ mainMemory' \in [Frames -> Held]
             /\ bit # mainMemory[f][3]
  <1>1. RunsUser /\ v \in Writable(currentThread) /\ Hits(v) # {} /\ Hits(v) \in SUBSET Slots
    BY DEF WriteMem, Hits
  <1>2. PICK i \in Hits(v) : i = Least(Hits(v))
    BY <1>1, SlotOrFrame
  <1>3. /\ tlb \in [Slots -> TLBEntry] /\ mainMemory \in [Frames -> Held]
        /\ i \in Slots /\ tlb[i].valid /\ tlb[i].virtualPage = v /\ tlb[i] \in TLBEntry
    BY <1>1 DEF Typed, MemoryTyped, Hits
  <1>4. PICK f \in Frames : f = tlb[i].physicalPage
    BY <1>3 DEF TLBEntry
  <1>5. PICK bit \in {0, 1} : bit = 1 - mainMemory[f][3] /\ bit # mainMemory[f][3]
    <2>1. mainMemory[f] \in Held
      BY <1>3
    <2>2. mainMemory[f][3] \in {0, 1}
      BY <2>1 DEF Held
    <2> QED BY <2>2
  <1>6. tlb' = [tlb EXCEPT ![i] = [tlb[i] EXCEPT !.dirty = TRUE]]
    BY <1>2 DEF WriteMem
  <1>7. mainMemory' = [mainMemory EXCEPT ![f] = Content(space[currentThread], v, bit)]
    BY <1>2, <1>4, <1>5 DEF WriteMem
  <1>8. [tlb[i] EXCEPT !.dirty = TRUE] \in TLBEntry
    BY <1>3 DEF TLBEntry
  <1>9. /\ tlb' \in [Slots -> TLBEntry] /\ \A j \in Slots \ {i} : tlb'[j] = tlb[j]
        /\ tlb'[i].virtualPage = v /\ tlb'[i].physicalPage = f
        /\ tlb'[i].valid /\ tlb'[i].dirty
    BY <1>3, <1>4, <1>6, <1>8 DEF TLBEntry
  <1>10. mainMemory' \in [Frames -> Held]
    <2>1. space[currentThread] \in Procs /\ currentThread \in Threads
      BY <1>1, Running DEF Typed, ProcsRight
    <2>2. v \in Nat
      BY <1>3 DEF TLBEntry
    <2>3. Content(space[currentThread], v, bit) \in Held
      BY <2>1, <2>2 DEF Content, Held, Procs
    <2> QED BY <1>3, <1>7, <2>3
  <1> QED BY <1>1, <1>4, <1>5, <1>7, <1>9, <1>10

-----------------------------------------------------------------------------
(* Every step keeps the types, the counts and the stacks. *)

PageSteps(v) == \/ WriteMem(v) \/ FaultOnResidentPage(v)
                \/ FaultWithFreeFrame(v) \/ FaultWithEviction(v)

LEMMA PagesKeepProcs ==
    ASSUME Typed, ProcsRight, NEW v, PageSteps(v)
    PROVE  Typed' /\ ProcsRight'
  <1>1. ProcsTyped /\ MemoryTyped /\ StacksApart /\ Counted
    BY DEF Typed, ProcsRight
  <1>2. MemoryTyped' /\ SamePages /\ UNCHANGED <<procs, currentThread, halted>>
    <2>1. CASE WriteMem(v)
      <3>1. PICK i \in Hits(v), f \in Frames, bit \in {0, 1} :
              tlb' \in [Slots -> TLBEntry] /\ mainMemory' \in [Frames -> Held]
        BY <2>1, WriteFacts
      <3>2. UNCHANGED <<tlbCounter, ipt, bitmap, swapQueue, runWithFIFO, pageTable, procs,
                        currentThread, halted>>
        BY <2>1 DEF WriteMem
      <3> QED BY <1>1, <3>1, <3>2 DEF MemoryTyped, SamePages
    <2>2. CASE FaultOnResidentPage(v)
      <3>1. PICK f \in FramesOf(space[currentThread], v), i \in Slots : Refilled(i, tlb, ipt, f)
        BY <2>2, ResidentFacts
      <3>2. tlb' \in [Slots -> TLBEntry] /\ ipt' \in [Frames -> IPTEntry] /\ tlbCounter' \in Slots
        BY <3>1 DEF Refilled
      <3>3. UNCHANGED <<bitmap, swapQueue, runWithFIFO, mainMemory, pageTable, procs,
                        currentThread, halted>>
        BY <2>2 DEF FaultOnResidentPage
      <3> QED BY <1>1, <3>2, <3>3 DEF MemoryTyped, SamePages
    <2>3. CASE FaultWithFreeFrame(v)
      <3>1. PICK f \in Frames, i \in Slots, p \in Procs :
              /\ bitmap' = bitmap \cup {f} /\ swapQueue' \in Seq(Frames)
              /\ FilledIn(v, f, i, p, tlb, pageTable, ipt[f].dirty)
        BY <2>3, FreeFacts
      <3> QED BY <1>1, <3>1 DEF MemoryTyped, FilledIn
    <2>4. CASE FaultWithEviction(v)
      <3>1. PICK f \in Frames, i \in Slots, p \in Procs, entries \in [Slots -> TLBEntry],
                pages \in [Procs -> Table], d \in BOOLEAN :
              FilledIn(v, f, i, p, entries, pages, d) /\ bitmap' = bitmap /\ swapQueue' \in Seq(Frames)
        BY <2>4, EvictionFacts
      <3> QED BY <1>1, <3>1 DEF MemoryTyped, FilledIn
    <2> QED BY <2>1, <2>2, <2>3, <2>4 DEF PageSteps
  <1>3. ProcsTyped'
    BY <1>1, <1>2 DEF ProcsTyped, procs
  <1>4. ProcsRight'
    <2>1. SameProcs /\ UNCHANGED <<runningProcessCount, failedExecs, currentThread>>
      BY <1>2 DEF SameProcs, procs
    <2> QED BY <1>1, <2>1, ProcsKept
  <1> QED BY <1>2, <1>3, <1>4 DEF Typed

\* What SwitchTo does besides emptying the TLB.
LEMMA SwitchKeepsProcs ==
    ASSUME Typed, ProcsRight, NEW t \in Threads, SwitchTo(t)
    PROVE  Typed' /\ ProcsRight' /\ Flushed(tlb)
  <1>1. /\ ProcsTyped /\ MemoryTyped /\ StacksApart /\ Counted /\ tlb \in [Slots -> TLBEntry]
        /\ ipt \in [Frames -> IPTEntry]
    BY DEF Typed, ProcsRight, MemoryTyped
  <1>2. /\ Alive(t) /\ FlushTLB(tlb) /\ currentThread' = t
        /\ UNCHANGED <<tlbCounter, mainMemory, bitmap, swapQueue, runWithFIFO, pageTable,
                       procs, halted>>
    BY DEF SwitchTo
  <1>3. Flushed(tlb)
    BY <1>1, <1>2, Flush
  <1>4. MemoryTyped'
    BY <1>1, <1>2, <1>3 DEF MemoryTyped, Flushed
  <1>5. ProcsTyped'
    BY <1>1, <1>2, Constants DEF ProcsTyped, procs, Threads
  <1>6. Counted'
    BY <1>1, <1>2 DEF Counted, procs, ThreadsOf, RunningProcs, Alive
  <1>7. StacksApart'
    BY <1>1, <1>2, StacksKept DEF SameProcs, SamePages, procs
  <1> QED BY <1>3, <1>4, <1>5, <1>6, <1>7 DEF Typed, ProcsRight

LEMMA ForkTyped ==
    ASSUME Typed, ProcsRight, Fork
    PROVE  Typed' /\ Flushed(tlb)
  <1>1. /\ ProcsTyped /\ MemoryTyped /\ tlb \in [Slots -> TLBEntry]
        /\ ipt \in [Frames -> IPTEntry]
    BY DEF Typed, MemoryTyped
  <1>2. PICK t \in Threads, p \in Procs, n \in Nat : Forked(t, p, n)
    BY ForkFacts
  <1>3. /\ FlushTLB(tlb)
        /\ UNCHANGED <<tlbCounter, mainMemory, bitmap, swapQueue, runWithFIFO, processCount,
                       runningProcessCount, failedExecs, currentThread, halted>>
    BY DEF Fork
  <1>4. Flushed(tlb)
    BY <1>1, <1>3, Flush
  <1>5. MemoryTyped'
    BY <1>1, <1>2, <1>3, <1>4 DEF MemoryTyped, Flushed, Forked
  <1>6. ProcsTyped'
    BY <1>1, <1>2, <1>3 DEF ProcsTyped, Forked, Joins, Procs
  <1> QED BY <1>4, <1>5, <1>6 DEF Typed

LEMMA ExecTyped == Typed /\ ProcsRight /\ Exec => Typed'
  <1> SUFFICES ASSUME Typed, ProcsRight, Exec PROVE Typed'
    OBVIOUS
  <1>1. ProcsTyped /\ MemoryTyped
    BY DEF Typed
  <1>2. PICK t \in Threads, p \in Procs : Execed(t, p)
    BY ExecFacts
  <1>3. UNCHANGED <<mmu, bitmap, swapQueue, runWithFIFO, failedExecs, currentThread, halted>>
    BY DEF Exec
  <1>4. MemoryTyped'
    BY <1>1, <1>2, <1>3 DEF MemoryTyped, Execed, mmu
  <1>5. ProcsTyped'
    <2>1. TopOf(p) \in Nat /\ p \in 0 .. MaxProcesses
      BY Constants DEF Procs
    <2> QED BY <1>1, <1>2, <1>3, <2>1 DEF ProcsTyped, Execed, Joins
  <1> QED BY <1>4, <1>5 DEF Typed

\* What is left of the TLB when the running thread exits.
LeftBy(t) == [i \in Slots |-> IF DropsEntry(t, tlb[i]) THEN Invalid ELSE tlb[i]]

LEMMA LeavingTyped ==
    ASSUME Typed, NEW t, NEW p \in Procs, Leaves(t, p), NEW n \in Nat,
           threadCount' = [threadCount EXCEPT ![p] = n],
           runningProcessCount' \in Int, halted' \in BOOLEAN, bitmap' \in SUBSET Frames,
           NEW entries, Flushed(entries),
           UNCHANGED <<tlbCounter, swapQueue, runWithFIFO, mainMemory>>
    PROVE  Typed'
  <1>1. ProcsTyped /\ MemoryTyped
    BY DEF Typed
  <1>2. MemoryTyped'
    BY <1>1 DEF MemoryTyped, Flushed, Leaves
  <1>3. ProcsTyped'
    <2>1. 0 \in 0 .. MaxProcesses /\ 0 \in 0 .. MaxThreads /\ Threads \subseteq 0 .. MaxThreads
      BY Constants DEF Threads
    <2>2. space' \in [Threads -> 0 .. MaxProcesses]
      BY <1>1, <2>1 DEF ProcsTyped, Leaves
    <2>3. currentThread' \in 0 .. MaxThreads
      BY <2>1 DEF Leaves
    <2>4. threadCount' \in [Procs -> Nat]
      BY <1>1 DEF ProcsTyped
    <2> QED BY <1>1, <2>2, <2>3, <2>4 DEF ProcsTyped, Leaves
  <1> QED BY <1>2, <1>3 DEF Typed

LEMMA ExitProcessTyped ==
    ASSUME Typed, ProcsRight, ExitProcess
    PROVE  Typed' /\ Flushed(tlb)
  <1>1. PICK t \in Threads, p \in Procs :
          /\ Leaves(t, p) /\ bitmap' = bitmap \ {f \in Frames : ipt[f].spaceOwner = p}
          /\ threadCount' = [threadCount EXCEPT ![p] = 0]
          /\ runningProcessCount' = runningProcessCount - 1
    BY ExitProcessFacts
  <1>2. /\ tlb \in [Slots -> TLBEntry] /\ ipt \in [Frames -> IPTEntry]
        /\ bitmap \in SUBSET Frames /\ runningProcessCount \in Int /\ halted \in BOOLEAN
    BY DEF Typed, MemoryTyped, ProcsTyped
  <1>3. FlushTLB(tlb) /\ UNCHANGED <<tlbCounter, swapQueue, runWithFIFO, mainMemory, halted>>
    BY DEF ExitProcess, Finish
  <1>4. Flushed(tlb)
    BY <1>2, <1>3, Flush
  <1>5. bitmap' \in SUBSET Frames /\ runningProcessCount' \in Int
    BY <1>1, <1>2
  <1> QED BY <1>1, <1>2, <1>3, <1>4, <1>5, LeavingTyped

LEMMA ExitThreadTyped ==
    ASSUME Typed, ProcsRight, ExitThread
    PROVE  Typed' /\ LeftBy(currentThread) \in [Slots -> TLBEntry] /\ Flushed(LeftBy(currentThread))
  <1>1. PICK t \in Threads, p \in Procs :
          /\ Leaves(t, p) /\ threadCount[p] > 1
          /\ \E freed \in FreedFrames(t) : bitmap' = bitmap \ freed
          /\ threadCount' = [threadCount EXCEPT ![p] = threadCount[p] - 1]
          /\ runningProcessCount' = runningProcessCount
    BY ExitThreadFacts
  <1>2. /\ tlb \in [Slots -> TLBEntry] /\ ipt \in [Frames -> IPTEntry]
        /\ bitmap \in SUBSET Frames /\ runningProcessCount \in Int /\ halted \in BOOLEAN
        /\ threadCount[p] \in Nat
    BY DEF Typed, MemoryTyped, ProcsTyped
  <1>3. FlushTLB(LeftBy(currentThread)) /\ UNCHANGED <<tlbCounter, swapQueue, runWithFIFO, mainMemory>>
        /\ halted' \in BOOLEAN
    BY DEF ExitThread, Finish, LeftBy
  <1>4. LeftBy(currentThread) \in [Slots -> TLBEntry]
    <2>1. Invalid \in TLBEntry
      BY Constants DEF Invalid, TLBEntry, Frames
    <2> QED BY <2>1, <1>2 DEF LeftBy
  <1>5. Flushed(LeftBy(currentThread))
    BY <1>2, <1>3, <1>4, Flush
  <1>6. bitmap' \in SUBSET Frames /\ runningProcessCount' \in Int
    BY <1>1, <1>2
  <1>7. PICK n \in Nat : n = threadCount[p] - 1
    BY <1>1, <1>2
  <1>8. threadCount' = [threadCount EXCEPT ![p] = n]
    BY <1>1, <1>7
  <1>9. Typed'
    BY <1>1, <1>3, <1>5, <1>6, <1>8, LeavingTyped
  <1> QED BY <1>4, <1>5, <1>9

LEMMA ProcsStep == Typed /\ ProcsRight /\ [Next]_vars => Typed' /\ ProcsRight'
  <1> SUFFICES ASSUME Typed, ProcsRight, [Next]_vars PROVE Typed' /\ ProcsRight'
    OBVIOUS
  <1>0. UNCHANGED <<pageTable, stackLocations, space, threadCount, processCount, currentThread>> => SameProcs
    BY DEF SameProcs, SamePages
  <1>1. ASSUME NEW v, PageSteps(v) PROVE Typed' /\ ProcsRight'
    BY <1>1, PagesKeepProcs
  <1>2. ASSUME NEW t \in Threads, SwitchTo(t) PROVE Typed' /\ ProcsRight'
    BY <1>2, SwitchKeepsProcs
  <1>3. CASE Fork
    BY <1>3, ForkTyped, ForkKeepsProcs
  <1>4. CASE Exec
    BY <1>4, ExecTyped, ExecKeepsProcs
  <1>5. CASE ExecFails
    <2>1. /\ failedExecs' = failedExecs + 1 /\ runningProcessCount' = runningProcessCount + 1
          /\ UNCHANGED <<mmu, bitmap, swapQueue, runWithFIFO, pageTable, stackLocations, space,
                         threadCount, processCount, currentThread, halted>>
      BY <1>5 DEF ExecFails
    <2>2. Typed'
      BY <2>1 DEF Typed, MemoryTyped, ProcsTyped, mmu
    <2>3. StacksApart'
      BY <1>0, <2>1, StacksKept DEF ProcsRight, Typed
    <2>4. Counted'
      <3>1. Counted /\ ProcsTyped /\ RunningProcs' = RunningProcs
        BY <2>1 DEF ProcsRight, Typed, RunningProcs
      <3>2. runningProcessCount' = Cardinality(RunningProcs') - 1 + failedExecs'
        <4>1. runningProcessCount = Cardinality(RunningProcs) - 1 + failedExecs
          BY <3>1 DEF Counted
        <4>2. Cardinality(RunningProcs) \in Nat /\ failedExecs \in Nat
          BY <3>1, FiniteThreads DEF ProcsTyped
        <4> QED BY <2>1, <3>1, <4>1, <4>2
      <3> QED BY <2>1, <3>1, <3>2 DEF Counted, ThreadsOf, Alive
    <2> QED BY <2>2, <2>3, <2>4 DEF ProcsRight
  <1>6. CASE ExitHalts
    <2>1. /\ halted' = TRUE
          /\ UNCHANGED <<mmu, bitmap, swapQueue, runWithFIFO, pageTable, procs, currentThread>>
      BY <1>6 DEF ExitHalts
    <2>2. Typed'
      BY <2>1 DEF Typed, MemoryTyped, ProcsTyped, mmu, procs
    <2> QED BY <1>0, <2>1, <2>2, ProcsKept DEF Typed, procs
  <1>7. CASE ExitProcess
    BY <1>7, ExitProcessTyped, ExitKeepsProcs
  <1>8. CASE ExitThread
    BY <1>8, ExitThreadTyped, ExitKeepsProcs
  <1>9. CASE UNCHANGED vars
    <2>1. Typed'
      BY <1>9 DEF Typed, MemoryTyped, ProcsTyped, vars, mmu, procs
    <2> QED BY <1>0, <1>9, <2>1, ProcsKept DEF Typed, vars, procs
  <1> QED BY <1>1, <1>2, <1>3, <1>4, <1>5, <1>6, <1>7, <1>8, <1>9 DEF Next, PageSteps

LEMMA ProcsInit == Init => Typed /\ ProcsRight
  <1> SUFFICES ASSUME Init PROVE Typed /\ ProcsRight
    OBVIOUS
  <1>1. /\ tlb = [i \in Slots |-> Invalid] /\ mainMemory = [f \in Frames |-> NoPage]
        /\ bitmap = {} /\ swapQueue = <<>> /\ tlbCounter = -1
        /\ ipt = [f \in Frames |-> [virtualPage |-> 0, spaceOwner |-> 0,
                                    valid |-> FALSE, dirty |-> FALSE]]
        /\ runWithFIFO \in BOOLEAN
        /\ failedExecs = 0 /\ runningProcessCount = 0 /\ currentThread = 1 /\ halted = FALSE
    BY DEF Init, MachineOn, Initialize
  <1>2. /\ processCount = 1
        /\ pageTable = [p \in Procs |-> IF p = 1 THEN NewSpace(1) ELSE <<>>]
        /\ threadCount = [p \in Procs |-> IF p = 1 THEN 1 ELSE 0]
        /\ stackLocations = [t \in Threads |-> IF t = 1 THEN TopOf(1) ELSE 0]
        /\ space = [t \in Threads |-> IF t = 1 THEN 1 ELSE 0]
    BY DEF Init, StartProcess
  <1>3. /\ 1 \in Procs /\ 1 \in Threads /\ 1 \in 0 .. MaxThreads /\ 1 \in 0 .. MaxProcesses
        /\ 0 \in 0 .. MaxProcesses /\ 0 \notin Procs
        /\ TopOf(1) \in Nat \ {0} /\ StackPages \in Nat \ {0}
    BY Constants DEF Procs, Threads
  <1>4. MemoryTyped
    <2>1. Invalid \in TLBEntry /\ NoPage \in Held
      BY Constants DEF Invalid, TLBEntry, Frames, NoPage, Held
    <2>2. [virtualPage |-> 0, spaceOwner |-> 0, valid |-> FALSE, dirty |-> FALSE] \in IPTEntry
      BY <1>3 DEF IPTEntry
    <2>3. pageTable \in [Procs -> Table]
      BY <1>2, <1>3, NewSpaceTyped, EmptyTable
    <2>4. <<>> \in Seq(Frames)
      BY EmptySeq
    <2> QED BY <1>1, <2>1, <2>2, <2>3, <2>4 DEF MemoryTyped
  <1>5. ProcsTyped
    <2>1. stackLocations \in [Threads -> Nat] /\ space \in [Threads -> 0 .. MaxProcesses]
      BY <1>2, <1>3
    <2>2. threadCount \in [Procs -> Nat]
      BY <1>2
    <2>3. processCount \in Procs /\ runningProcessCount \in Int /\ failedExecs \in Nat
      BY <1>1, <1>2, <1>3
    <2>4. currentThread \in 0 .. MaxThreads /\ halted \in BOOLEAN
      BY <1>1, <1>3
    <2> QED BY Zenon, <2>1, <2>2, <2>3, <2>4 DEF ProcsTyped
  <1>6. Counted
    <2>1. ThreadsOf(1) = {1} /\ \A p \in Procs \ {1} : ThreadsOf(p) = {}
      BY <1>2, <1>3 DEF ThreadsOf
    <2>2. RunningProcs = {1}
      BY <1>2, <1>3 DEF RunningProcs
    <2>3. Cardinality({1}) = 1 /\ Cardinality({}) = 0
      BY FS_Singleton, FS_EmptySet
    <2>4. Alive(currentThread)
      BY <1>1, <1>2, <1>3 DEF Alive
    <2>5. \A p \in Procs : threadCount[p] = Cardinality(ThreadsOf(p)) /\ threadCount[p] <= 1
      <3>1. threadCount[1] = 1 /\ Cardinality(ThreadsOf(1)) = 1
        BY <1>2, <1>3, <2>1, <2>3
      <3>2. \A p \in Procs \ {1} : threadCount[p] = 0 /\ Cardinality(ThreadsOf(p)) = 0
        BY <1>2, <2>1, <2>3
      <3> QED BY <3>1, <3>2
    <2>6. \A p \in Procs : p > processCount => threadCount[p] = 0
      BY <1>2 DEF Procs
    <2> QED BY <1>1, <2>2, <2>3, <2>4, <2>5, <2>6 DEF Counted
  <1>7. StacksApart
    <2>1. \A t \in Threads : Alive(t) <=> t = 1
      BY <1>2 DEF Alive
    <2>2. DOMAIN pageTable[1] = 0 .. TopOf(1) + StackPages - 1
      BY <1>2, <1>3, NewSpaceTyped
    <2>3. \A p \in Procs \ {1} : Pages(p) = {}
      BY <1>2, EmptyTable DEF Pages
    <2>4. StackOf(1) \subseteq Pages(1) /\ IsMain(1) /\ space[1] = 1
      BY <1>2, <1>3, <2>2 DEF StackOf, Pages, IsMain
    <2>5. \A p \in Procs : IF threadCount[p] = 0 THEN Pages(p) = {}
                           ELSE 0 .. TopOf(p) + StackPages - 1 \subseteq Pages(p)
      <3>1. threadCount[1] = 1 /\ Pages(1) = 0 .. TopOf(1) + StackPages - 1
        BY <1>2, <1>3, <2>2 DEF Pages
      <3>2. \A p \in Procs \ {1} : threadCount[p] = 0
        BY <1>2
      <3> TAKE p \in Procs
      <3>4. CASE p = 1
        <4>1. threadCount[p] # 0
          BY <3>1, <3>4
        <4>2. Pages(p) = 0 .. TopOf(p) + StackPages - 1
          BY Zenon, <3>1, <3>4
        <4> QED BY <4>1, <4>2
      <3>5. CASE p # 1
        BY <2>3, <3>2, <3>5
      <3> QED BY <3>4, <3>5
    <2>6. \A t \in Threads : stackLocations[t] = 0 => ~Alive(t)
      BY <1>2, <1>3, <2>1
    <2>7. \A t, u \in Threads : Alive(t) /\ space[t] = space[u] /\ t # u =>
            StackOf(t) \cap StackOf(u) = {}
      BY <1>2, <2>1
    <2> QED BY <2>1, <2>4, <2>5, <2>6, <2>7 DEF StacksApart
  <1> QED BY <1>4, <1>5, <1>6, <1>7 DEF Typed, ProcsRight

\* Every variable keeps its type, the counts count what they are named for, and no
\* two stacks of a process meet, however processes and threads come and go.
THEOREM ProcessesRight == Spec => [](Typed /\ ProcsRight)
  <1>1. Typed /\ ProcsRight /\ [Next]_vars => (Typed /\ ProcsRight)'
    BY ProcsStep
  <1> QED BY <1>1, ProcsInit, PTL DEF Spec

\* Exit stops the machine only when the thread that exits is the last of all
\* processes: threadCount and the process table's count are what isLastProcess and
\* isLastExecutingThread take them for, also after an Exec that found no file.
THEOREM HaltsForTheLast == Spec => ExitHaltsLast
  <1>1. ASSUME Typed, ProcsRight, ExitHalts, NEW t \in Threads, Alive(t)
        PROVE  t = currentThread
    <2>1. RunsUser /\ runningProcessCount = 0 /\ threadCount[space[currentThread]] = 1
      BY <1>1 DEF ExitHalts, isLastProcess, isLastExecutingThread
    <2>2. ProcsTyped /\ StacksApart /\ Counted
      BY <1>1 DEF Typed, ProcsRight
    <2>3. PICK p \in Procs : p = space[currentThread] /\ p \in RunningProcs
                             /\ currentThread \in ThreadsOf(p)
      BY <2>1, <2>2, Running DEF ThreadsOf
    <2>4. Cardinality(RunningProcs) <= 1
      <3>1. /\ runningProcessCount = Cardinality(RunningProcs) - 1 + failedExecs
            /\ failedExecs \in Nat /\ Cardinality(RunningProcs) \in Nat
        BY <2>2, FiniteThreads DEF Counted, ProcsTyped
      <3> QED BY <2>1, <3>1
    <2>5. Cardinality(RunningProcs) = 1
      <3>1. Cardinality(RunningProcs) # 0
        BY <2>3, FiniteThreads, FS_EmptySet
      <3> QED BY <2>4, <3>1, FiniteThreads
    <2>6. PICK q : RunningProcs = {q}
      BY <2>5, FiniteThreads, FS_Singleton
    <2>7. space[t] \in RunningProcs
      BY <1>1, <2>2, AliveRuns
    <2>8. t \in ThreadsOf(p)
      BY <2>3, <2>6, <2>7 DEF ThreadsOf
    <2>9. Cardinality(ThreadsOf(p)) = 1
      BY <2>1, <2>2, <2>3 DEF Counted
    <2>10. PICK u : ThreadsOf(p) = {u}
      BY <2>9, FiniteThreads, FS_Singleton
    <2> QED BY <2>3, <2>8, <2>10
  <1>2. Typed /\ ProcsRight /\ [Next]_vars =>
          [ExitHalts => \A t \in Threads : Alive(t) => t = currentThread]_vars
    BY <1>1
  <1> QED BY <1>2, ProcessesRight, PTL DEF Spec, ExitHaltsLast

-----------------------------------------------------------------------------
(* The queue of frames. *)

\* With FIFO every frame in use is in the queue, so that eviction takes one that
\* holds a page: what Exit frees leaves the set of used frames, and every frame
\* that is filled is queued again.
QueueRight == /\ bitmap \in SUBSET Frames /\ swapQueue \in Seq(Frames)
              /\ UsedFramesQueued

\* Frame f is somewhere in a queue.
Queued(queue, f) == \E n \in DOMAIN queue : queue[n] = f

LEMMA QueuedAtEnd ==
    ASSUME NEW queue \in Seq(Frames), NEW f \in Frames
    PROVE  /\ Append(queue, f) \in Seq(Frames) /\ Queued(Append(queue, f), f)
           /\ \A g : Queued(queue, g) => Queued(Append(queue, f), g)
  <1> PICK s \in Seq(Frames) : s = Append(queue, f)
    BY AppendProperties
  <1>1. DOMAIN s = 1 .. Len(queue) + 1 /\ s[Len(queue) + 1] = f /\ DOMAIN queue = 1 .. Len(queue)
        /\ \A n \in 1 .. Len(queue) : s[n] = queue[n]
    BY AppendProperties
  <1>2. Len(queue) + 1 \in DOMAIN s /\ DOMAIN queue \subseteq DOMAIN s
    BY <1>1, LenProperties
  <1> QED BY <1>1, <1>2 DEF Queued

LEMMA QueuedBehind ==
    ASSUME NEW queue \in Seq(Frames), queue # <<>>
    PROVE  /\ Head(queue) \in Frames /\ Tail(queue) \in Seq(Frames)
           /\ \A g : Queued(queue, g) => g = Head(queue) \/ Queued(Tail(queue), g)
  <1>1. /\ Head(queue) \in Frames /\ Tail(queue) \in Seq(Frames)
        /\ Len(Tail(queue)) = Len(queue) - 1
        /\ \A i \in 1 .. Len(Tail(queue)) : Tail(queue)[i] = queue[i + 1]
        /\ Head(queue) = queue[1]
    BY HeadTailProperties
  <1>2. ASSUME NEW n \in DOMAIN queue, n # 1
        PROVE  Queued(Tail(queue), queue[n])
    <2>1. n \in 1 .. Len(queue) /\ Len(queue) \in Nat
      BY LenProperties
    <2>2. PICK i : i = n - 1
      OBVIOUS
    <2>3. i \in 1 .. Len(Tail(queue)) /\ i + 1 = n
      BY <1>1, <1>2, <2>1, <2>2
    <2>4. i \in DOMAIN Tail(queue)
      BY <1>1, <2>3, LenProperties
    <2> QED BY <1>1, <2>3, <2>4 DEF Queued
  <1> QED BY <1>1, <1>2 DEF Queued

LEMMA QueueInit == Init => QueueRight
  BY EmptySeq DEF Init, Initialize, QueueRight, UsedFramesQueued

LEMMA QueueStep == QueueRight /\ [Next]_vars => QueueRight'
  <1> SUFFICES ASSUME QueueRight, [Next]_vars PROVE QueueRight'
    OBVIOUS
  <1>q. /\ bitmap \in SUBSET Frames /\ swapQueue \in Seq(Frames)
        /\ runWithFIFO => \A f \in bitmap : Queued(swapQueue, f)
    BY DEF QueueRight, UsedFramesQueued, Queued
  <1>r. ASSUME bitmap' \in SUBSET Frames, swapQueue' \in Seq(Frames),
               runWithFIFO' => \A f \in bitmap' : Queued(swapQueue', f)
        PROVE  QueueRight'
    BY <1>r DEF QueueRight, UsedFramesQueued, Queued
  <1>s. ASSUME bitmap' \subseteq bitmap, swapQueue' = swapQueue, runWithFIFO' = runWithFIFO
        PROVE  QueueRight'
    <2>1. bitmap' \in SUBSET Frames
      BY <1>q, <1>s
    <2>2. runWithFIFO' => \A f \in bitmap' : Queued(swapQueue', f)
      BY <1>q, <1>s
    <2> QED BY <1>q, <1>r, <1>s, <2>1, <2>2
  <1>1. ASSUME NEW v, WriteMem(v) \/ FaultOnResidentPage(v) PROVE QueueRight'
    BY <1>1, <1>s DEF WriteMem, FaultOnResidentPage
  <1>2. ASSUME NEW v, FaultWithFreeFrame(v) PROVE QueueRight'
    <2>1. Frames \ bitmap \in SUBSET Frames /\ Frames \ bitmap # {}
      BY <1>2, <1>q DEF FaultWithFreeFrame
    <2>2. PICK f \in Frames : f = Least(Frames \ bitmap)
      BY <2>1, SlotOrFrame
    <2>3. /\ bitmap' = bitmap \cup {f} /\ swapQueue' = Enqueued(swapQueue, f)
          /\ runWithFIFO' = runWithFIFO
      BY <1>2, <2>2 DEF FaultWithFreeFrame, LoadPage
    <2>4. CASE runWithFIFO
      <3>1. swapQueue' = Append(swapQueue, f)
        BY <2>3, <2>4 DEF Enqueued
      <3> QED BY <1>q, <1>r, <2>3, <2>4, <3>1, QueuedAtEnd
    <2>5. CASE ~runWithFIFO
      BY <1>q, <1>r, <2>3, <2>5 DEF Enqueued
    <2> QED BY <2>4, <2>5
  <1>3. ASSUME NEW v, FaultWithEviction(v) PROVE QueueRight'
    <2>0. bitmap = Frames /\ bitmap' = bitmap
      BY <1>3 DEF FaultWithEviction
    <2>1. CASE runWithFIFO
      <3>1. 0 \in bitmap
        BY <2>0, Constants DEF Frames
      <3>2. swapQueue # <<>>
        <4>1. Queued(swapQueue, 0)
          BY <2>1, <3>1, <1>q
        <4>2. ~Queued(<<>>, 0)
          BY EmptySeq DEF Queued
        <4> QED BY <4>1, <4>2
      <3>3. PICK f \in Frames, queue \in Seq(Frames) : f = Head(swapQueue) /\ queue = Tail(swapQueue)
        <4>1. Head(swapQueue) \in Frames /\ Tail(swapQueue) \in Seq(Frames)
          BY <1>q, <3>2, QueuedBehind
        <4> QED BY Zenon, <4>1
      <3>4. Evict(f, v, queue)
        BY <1>3, <2>1, <3>2, <3>3 DEF FaultWithEviction
      <3>5. swapQueue' = Append(queue, f) /\ runWithFIFO' = runWithFIFO
        BY Zenon, <2>1, <3>4 DEF Evict, LoadPage, Enqueued
      <3>6. \A g : Queued(swapQueue, g) => g = f \/ Queued(queue, g)
        BY <1>q, <3>2, <3>3, QueuedBehind
      <3>7. /\ swapQueue' \in Seq(Frames) /\ Queued(swapQueue', f)
            /\ \A g : Queued(queue, g) => Queued(swapQueue', g)
        BY <3>5, QueuedAtEnd
      <3>8. \A g \in bitmap' : Queued(swapQueue', g)
        BY <1>q, <2>0, <2>1, <3>6, <3>7
      <3> QED BY <1>q, <1>r, <2>0, <3>7, <3>8
    <2>2. CASE ~runWithFIFO
      <3>1. PICK f \in Frames : Evict(f, v, swapQueue)
        BY Zenon, <1>3, <2>2 DEF FaultWithEviction
      <3>2. swapQueue' = swapQueue /\ runWithFIFO' = runWithFIFO
        BY Zenon, <2>2, <3>1 DEF Evict, LoadPage, Enqueued
      <3> QED BY <1>s, <2>0, <3>2
    <2> QED BY <2>1, <2>2
  <1>4. ASSUME NEW t \in Threads, SwitchTo(t) PROVE QueueRight'
    BY <1>4, <1>s DEF SwitchTo
  <1>5. CASE Fork \/ Exec \/ ExecFails \/ ExitHalts
    BY <1>5, <1>s DEF Fork, Exec, ExecFails, ExitHalts
  <1>6. CASE ExitProcess \/ ExitThread
    <2>1. bitmap' \subseteq bitmap
      BY <1>6 DEF ExitProcess, ExitThread
    <2>2. swapQueue' = swapQueue /\ runWithFIFO' = runWithFIFO
      BY <1>6 DEF ExitProcess, ExitThread
    <2> QED BY <1>s, <2>1, <2>2
  <1>7. CASE UNCHANGED vars
    BY <1>7, <1>s DEF vars
  <1> QED BY <1>1, <1>2, <1>3, <1>4, <1>5, <1>6, <1>7 DEF Next

\* With FIFO every frame in use is in the queue, whatever Exit has freed and whoever
\* owns the frame now, so that eviction always finds a frame that holds a page.
THEOREM FramesAreQueued == Spec => []UsedFramesQueued
  <1>1. QueueRight => UsedFramesQueued
    BY DEF QueueRight
  <1> QED BY <1>1, QueueInit, QueueStep, PTL DEF Spec

-----------------------------------------------------------------------------
(* The frames, the inverted page table, the page tables and the TLB, while no  *)
(* exit has freed frames by entries that were never set.                       *)

Coherent == ForkedStacksKnown /\ FramesRight /\ TLBCoherent

\* One frame is filled, and the TLB and the tables lost what was about its last page.
LEMMA FillKeeps ==
    ASSUME Typed, ProcsRight, Coherent, RunsUser, NEW v \in Usable(currentThread),
           Hits(v) = {}, FramesOf(space[currentThread], v) = {},
           NEW f, NEW i, NEW p, NEW entries, NEW pages, NEW d,
           FilledIn(v, f, i, p, entries, pages, d),
           f \in bitmap', bitmap \subseteq bitmap', bitmap' \subseteq bitmap \cup {f},
           \A g \in bitmap \ {f} : pages[Owner(g)][PageIn(g)].physicalPage = g,
           \A q \in Procs : \A w \in Pages(q) :
             /\ (pages[q][w].physicalPage \in Frames /\ q \in RunningProcs) =>
                  pages[q][w].physicalPage \in Frames \ {f}
             /\ pages[q][w].physicalPage \in {-1, pageTable[q][w].physicalPage},
           \A j \in Slots : entries[j].valid => entries[j] = tlb[j] /\ tlb[j].physicalPage # f
    PROVE  Coherent'
  <1>0. /\ p = space[currentThread] /\ p \in RunningProcs /\ p \in Procs /\ v \in Pages(p)
        /\ v \in UsedPages(p) /\ p <= processCount /\ f \in Frames /\ i \in Slots
        /\ currentThread # 0 /\ bitmap \in SUBSET Frames
    BY Running, Constants DEF FilledIn, Typed, MemoryTyped, ProcsRight
  <1>1. /\ currentThread' = currentThread /\ space' = space /\ processCount' = processCount
        /\ stackLocations' = stackLocations /\ threadCount' = threadCount
        /\ \A q \in Procs : Pages(q)' = Pages(q)
    BY DEF FilledIn, procs, SamePages, Pages
  <1>2. RunningProcs' = RunningProcs /\ \A q : UsedPages(q)' = UsedPages(q)
    BY <1>1 DEF RunningProcs, UsedPages, OwnStack, StackOf
  <1>3. \A q, w : InUse(q, w)' <=> InUse(q, w)
    BY <1>2 DEF InUse
  <1>4. /\ \A g \in Frames \ {f} : /\ PageIn(g)' = PageIn(g) /\ Owner(g)' = Owner(g)
                                   /\ ipt'[g].valid = ipt[g].valid
        /\ PageIn(f)' = v /\ Owner(f)' = p /\ ipt'[f].valid
    BY DEF FilledIn, PageIn, Owner
  <1>5. \A q \in Procs : \A w \in Pages(q) :
          pageTable'[q][w].physicalPage = IF q = p /\ w = v THEN f ELSE pages[q][w].physicalPage
    BY DEF FilledIn
  <1>6. ForkedStacksKnown'
    <2>1. f # Garbage /\ -1 # Garbage
      BY <1>0, Constants DEF Garbage
    <2>2. \A q \in Procs : \A w \in Pages(q) :
            pageTable'[q][w].physicalPage \in {f, -1, pageTable[q][w].physicalPage}
      BY <1>5
    <2>3. ASSUME NEW q \in Procs, NEW w \in Pages(q)', w >= TopOf(q) + StackPages
          PROVE  pageTable'[q][w].physicalPage # Garbage
      <3>1. w \in Pages(q)
        BY <1>1, <2>3
      <3>2. pageTable[q][w].physicalPage # Garbage
        BY <2>3, <3>1 DEF Coherent, ForkedStacksKnown
      <3> QED BY <2>1, <2>2, <3>1, <3>2
    <2> QED BY <2>3 DEF ForkedStacksKnown
  <1>7. \A g \in Frames : ipt[g].valid => ~(Owner(g) = p /\ PageIn(g) = v)
    BY <1>0 DEF FramesOf, Owner, PageIn
  <1>8. \A g \in bitmap : /\ ipt[g].valid /\ InUse(Owner(g), PageIn(g))
                          /\ Owner(g) \in Procs /\ PageIn(g) \in Pages(Owner(g))
    <2> SUFFICES ASSUME NEW g \in bitmap
                 PROVE  /\ ipt[g].valid /\ InUse(Owner(g), PageIn(g))
                        /\ Owner(g) \in Procs /\ PageIn(g) \in Pages(Owner(g))
      OBVIOUS
    <2>1. ipt[g].valid /\ InUse(Owner(g), PageIn(g)) /\ g \in Frames
      BY <1>0 DEF Coherent, FramesRight
    <2>2. Owner(g) \in RunningProcs
      BY <2>1 DEF InUse
    <2> QED BY <2>1, <2>2 DEF Coherent, FramesRight, RunningProcs
  <1>9. ASSUME NEW g \in bitmap'
        PROVE  /\ ipt'[g].valid /\ InUse(Owner(g), PageIn(g))'
               /\ pageTable'[Owner(g)'][PageIn(g)'].physicalPage = g
    <2>1. CASE g = f
      <3>1. InUse(p, v)
        BY <1>0 DEF InUse
      <3>2. Owner(g)' = p /\ PageIn(g)' = v /\ ipt'[g].valid
        BY <1>4, <2>1
      <3>3. InUse(Owner(g), PageIn(g))' <=> p \in RunningProcs' /\ v \in UsedPages(p)'
        BY <3>2 DEF InUse
      <3> QED BY <1>0, <1>2, <1>5, <2>1, <3>2, <3>3
    <2>2. CASE g # f
      <3>1. g \in bitmap /\ g \in Frames
        BY <1>0, <2>2
      <3> PICK o, w : o = Owner(g) /\ w = PageIn(g)
        OBVIOUS
      <3>2. Owner(g)' = o /\ PageIn(g)' = w /\ ipt'[g].valid /\ InUse(o, w)
        BY <1>4, <1>8, <2>2, <3>1
      <3>3. InUse(Owner(g), PageIn(g))' <=> o \in RunningProcs' /\ w \in UsedPages(o)'
        BY <3>2 DEF InUse
      <3>4. InUse(Owner(g), PageIn(g))'
        BY <3>2, <3>3, <1>2 DEF InUse
      <3>5. pageTable'[o][w].physicalPage = pages[o][w].physicalPage
        BY <1>5, <1>7, <1>8, <3>1
      <3> QED BY <2>2, <3>1, <3>2, <3>4, <3>5
    <2> QED BY <2>1, <2>2
  <1>10. ASSUME NEW q \in RunningProcs, NEW w \in Pages(q), NEW h \in Frames,
                pageTable'[q][w].physicalPage = h
         PROVE  h \in bitmap' /\ Owner(h)' = q /\ PageIn(h)' = w
    <2>0. q \in Procs
      BY DEF RunningProcs
    <2>1. CASE q = p /\ w = v
      BY <1>4, <1>5, <1>10, <2>0, <2>1
    <2>2. CASE ~(q = p /\ w = v)
      <3>1. pages[q][w].physicalPage = h
        BY <1>5, <1>10, <2>0, <2>2
      <3>2. h # f /\ h = pageTable[q][w].physicalPage
        <4>1. pages[q][w].physicalPage \in Frames \ {f}
              /\ pages[q][w].physicalPage \in {-1, pageTable[q][w].physicalPage}
          BY <2>0, <3>1
        <4>2. -1 \notin Frames
          BY DEF Frames
        <4> QED BY <3>1, <4>1, <4>2
      <3>3. h \in bitmap /\ Owner(h) = q /\ PageIn(h) = w
        BY <3>2 DEF Coherent, FramesRight
      <3> QED BY <1>4, <3>2, <3>3
    <2> QED BY <2>1, <2>2
  <1>11. ASSUME NEW g \in Frames, ipt'[g].valid
         PROVE  /\ Owner(g)' <= processCount'
                /\ Owner(g)' \in RunningProcs' => PageIn(g)' \in Pages(Owner(g))'
                /\ InUse(Owner(g), PageIn(g))' => g \in bitmap'
    <2>1. CASE g = f
      <3>1. Owner(g)' = p /\ PageIn(g)' = v
        BY <1>4, <2>1
      <3>2. Pages(Owner(g))' = Pages(p)'
        BY <3>1 DEF Pages
      <3> QED BY <1>0, <1>1, <2>1, <3>1, <3>2
    <2>2. CASE g # f
      <3> PICK o, w : o = Owner(g) /\ w = PageIn(g)
        OBVIOUS
      <3>1. Owner(g)' = o /\ PageIn(g)' = w /\ ipt[g].valid
        BY <1>4, <1>11, <2>2
      <3>2. /\ o <= processCount
            /\ o \in RunningProcs => w \in Pages(o)
            /\ InUse(o, w) => g \in bitmap
        BY <3>1 DEF Coherent, FramesRight
      <3>3. InUse(Owner(g), PageIn(g))' <=> o \in RunningProcs' /\ w \in UsedPages(o)'
        BY <3>1 DEF InUse
      <3>4. InUse(Owner(g), PageIn(g))' => g \in bitmap'
        BY <3>2, <3>3, <1>2 DEF InUse
      <3>5. Pages(Owner(g))' = DOMAIN pageTable'[o]
        BY <3>1 DEF Pages
      <3>6. o \in RunningProcs => DOMAIN pageTable'[o] = Pages(o)
        BY <1>1 DEF RunningProcs, Pages
      <3>7. Owner(g)' \in RunningProcs' => PageIn(g)' \in Pages(Owner(g))'
        BY Zenon, <1>2, <3>1, <3>2, <3>5, <3>6
      <3>8. Owner(g)' <= processCount'
        BY <1>1, <3>1, <3>2
      <3> QED BY Zenon, <3>4, <3>7, <3>8
    <2> QED BY <2>1, <2>2
  <1>12. FramesRight'
    <2>1. ASSUME NEW q \in RunningProcs', NEW w \in Pages(q)', NEW h \in Frames,
                 pageTable'[q][w].physicalPage = h
          PROVE  h \in bitmap' /\ Owner(h)' = q /\ PageIn(h)' = w
      <3>1. q \in RunningProcs /\ q \in Procs
        BY <1>2 DEF RunningProcs
      <3>2. w \in Pages(q)
        BY <1>1, <3>1
      <3> QED BY <1>10, <2>1, <3>1, <3>2
    <2>2. Frames' = Frames
      BY DEF Frames
    <2> QED BY Zenon, <1>9, <1>11, <2>1, <2>2 DEF FramesRight
  <1>13. ASSUME NEW j \in Slots, tlb'[j].valid
         PROVE  /\ currentThread' # 0
                /\ LET h == tlb'[j].physicalPage
                   IN  /\ h \in bitmap'
                       /\ ipt'[h].valid /\ ipt'[h].spaceOwner = space'[currentThread']
                       /\ ipt'[h].virtualPage = tlb'[j].virtualPage
                /\ \A k \in Slots \ {j} : tlb'[k].valid => tlb'[k].virtualPage # tlb'[j].virtualPage
    <2>0. \A k \in Slots \ {i} : tlb'[k].valid => /\ tlb'[k] = tlb[k] /\ tlb[k].valid
                                                  /\ tlb[k].physicalPage # f
                                                  /\ tlb[k].virtualPage # v
      BY DEF FilledIn, Hits
    <2>1. tlb'[i].virtualPage = v /\ tlb'[i].physicalPage = f
      BY DEF FilledIn
    <2>2. \A k \in Slots \ {j} : tlb'[k].valid => tlb'[k].virtualPage # tlb'[j].virtualPage
      <3> SUFFICES ASSUME NEW k \in Slots \ {j}, tlb'[k].valid
                   PROVE  tlb'[k].virtualPage # tlb'[j].virtualPage
        OBVIOUS
      <3>1. CASE j = i
        BY <2>0, <2>1, <3>1
      <3>2. CASE k = i
        BY <1>13, <2>0, <2>1, <3>2
      <3>3. CASE j # i /\ k # i
        <4>1. tlb'[k] = tlb[k] /\ tlb[k].valid /\ tlb'[j] = tlb[j] /\ tlb[j].valid
          BY <1>13, <2>0, <3>3
        <4> QED BY <4>1 DEF Coherent, TLBCoherent
      <3> QED BY <3>1, <3>2, <3>3
    <2>3. CASE j = i
      BY <1>0, <1>1, <1>4, <2>1, <2>2, <2>3 DEF Owner, PageIn
    <2>4. CASE j # i
      <3>1. tlb'[j] = tlb[j] /\ tlb[j].valid /\ tlb[j].physicalPage # f
        BY <1>13, <2>0, <2>4
      <3> PICK h : h = tlb[j].physicalPage
        OBVIOUS
      <3>2. /\ h \in bitmap /\ ipt[h].valid /\ ipt[h].spaceOwner = space[currentThread]
            /\ ipt[h].virtualPage = tlb[j].virtualPage
        BY <3>1 DEF Coherent, TLBCoherent
      <3>3. h \in Frames \ {f} /\ h \in bitmap'
        BY <1>0, <3>1, <3>2
      <3> QED BY <1>0, <1>1, <1>4, <2>2, <3>1, <3>2, <3>3 DEF Owner, PageIn
    <2> QED BY <2>3, <2>4
  <1>14. TLBCoherent'
    BY <1>13 DEF TLBCoherent
  <1> QED BY <1>6, <1>12, <1>14 DEF Coherent

LEMMA FrameInUse ==
    ASSUME Typed, FramesRight, NEW g \in bitmap
    PROVE  /\ g \in Frames /\ ipt[g].valid /\ InUse(Owner(g), PageIn(g))
           /\ Owner(g) \in RunningProcs /\ Owner(g) \in Procs
           /\ PageIn(g) \in Pages(Owner(g))
           /\ pageTable[Owner(g)][PageIn(g)].physicalPage = g
  <1>1. g \in Frames
    BY DEF Typed, MemoryTyped
  <1>2. /\ ipt[g].valid /\ InUse(Owner(g), PageIn(g))
        /\ pageTable[Owner(g)][PageIn(g)].physicalPage = g
    BY DEF FramesRight
  <1>3. Owner(g) \in RunningProcs /\ Owner(g) \in Procs
    BY <1>2 DEF InUse, RunningProcs
  <1>4. PageIn(g) \in Pages(Owner(g))
    BY <1>1, <1>2, <1>3 DEF FramesRight
  <1> QED BY <1>1, <1>2, <1>3, <1>4

LEMMA FreeKeeps ==
    ASSUME Typed, ProcsRight, Coherent, NEW v, FaultWithFreeFrame(v)
    PROVE  Coherent'
  <1>1. /\ RunsUser /\ v \in Usable(currentThread) /\ Hits(v) = {}
        /\ FramesOf(space[currentThread], v) = {}
    BY DEF FaultWithFreeFrame, Faults
  <1> PICK f \in Frames, i \in Slots, p \in Procs :
             /\ f \notin bitmap /\ bitmap' = bitmap \cup {f}
             /\ FilledIn(v, f, i, p, tlb, pageTable, ipt[f].dirty)
    BY FreeFacts
  <1>2. \A g \in bitmap \ {f} : pageTable[Owner(g)][PageIn(g)].physicalPage = g
    BY DEF Coherent, FramesRight
  <1>3. \A q \in Procs : \A w \in Pages(q) :
          /\ (pageTable[q][w].physicalPage \in Frames /\ q \in RunningProcs) =>
               pageTable[q][w].physicalPage \in Frames \ {f}
          /\ pageTable[q][w].physicalPage \in {-1, pageTable[q][w].physicalPage}
    BY DEF Coherent, FramesRight
  <1>4. \A j \in Slots : tlb[j].valid => tlb[j] = tlb[j] /\ tlb[j].physicalPage # f
    BY DEF Coherent, TLBCoherent
  <1>5. f \in bitmap' /\ bitmap \subseteq bitmap' /\ bitmap' \subseteq bitmap \cup {f}
    OBVIOUS
  <1> QED BY <1>1, <1>2, <1>3, <1>4, <1>5, FillKeeps

LEMMA EvictionKeeps ==
    ASSUME Typed, ProcsRight, Coherent, NEW v, FaultWithEviction(v)
    PROVE  Coherent'
  <1>1. /\ RunsUser /\ v \in Usable(currentThread) /\ Hits(v) = {}
        /\ FramesOf(space[currentThread], v) = {}
    BY DEF FaultWithEviction, Faults
  <1> PICK f \in Frames, i \in Slots, p \in Procs, entries \in [Slots -> TLBEntry],
           pages \in [Procs -> Table], d \in BOOLEAN :
             /\ Evicted(f, entries, pages, d) /\ FilledIn(v, f, i, p, entries, pages, d)
             /\ bitmap = Frames /\ bitmap' = bitmap
    BY EvictionFacts
  <1>2. \A g \in bitmap \ {f} : pages[Owner(g)][PageIn(g)].physicalPage = g
    <2> SUFFICES ASSUME NEW g \in bitmap \ {f}
                 PROVE  pages[Owner(g)][PageIn(g)].physicalPage = g
      OBVIOUS
    <2>1. /\ Owner(g) \in Procs /\ PageIn(g) \in Pages(Owner(g))
          /\ pageTable[Owner(g)][PageIn(g)].physicalPage = g
      BY FrameInUse DEF Coherent
    <2>2. pageTable[Owner(f)][PageIn(f)].physicalPage = f
      BY FrameInUse DEF Coherent
    <2>3. ~(Owner(g) = Owner(f) /\ PageIn(g) = PageIn(f))
      BY <2>1, <2>2
    <2> QED BY <2>1, <2>3 DEF Evicted
  <1>3. ASSUME NEW q \in Procs, NEW w \in Pages(q)
        PROVE  /\ (pages[q][w].physicalPage \in Frames /\ q \in RunningProcs) =>
                    pages[q][w].physicalPage \in Frames \ {f}
               /\ pages[q][w].physicalPage \in {-1, pageTable[q][w].physicalPage}
    <2>0. -1 \notin Frames
      BY DEF Frames
    <2>1. CASE q = Owner(f) /\ w = PageIn(f)
      BY <2>0, <2>1 DEF Evicted
    <2>2. CASE ~(q = Owner(f) /\ w = PageIn(f))
      <3>1. pages[q][w] = pageTable[q][w]
        BY <2>2 DEF Evicted
      <3>2. q \in RunningProcs => pageTable[q][w].physicalPage # f
        BY <2>2 DEF Coherent, FramesRight
      <3> QED BY <3>1, <3>2
    <2> QED BY <2>1, <2>2
  <1>4. ASSUME NEW j \in Slots, entries[j].valid
        PROVE  entries[j] = tlb[j] /\ tlb[j].physicalPage # f
    <2>1. ~MatchesEvicted(f, tlb[j]) /\ entries[j] = tlb[j] /\ tlb[j].valid
      BY <1>4 DEF Evicted
    <2> QED BY <2>1 DEF Coherent, TLBCoherent, MatchesEvicted
  <1>5. f \in bitmap' /\ bitmap \subseteq bitmap' /\ bitmap' \subseteq bitmap \cup {f}
    OBVIOUS
  <1> QED BY <1>1, <1>2, <1>3, <1>4, <1>5, FillKeeps

\* Steps that leave the page tables, the frames and the processes alone.
LEMMA TablesKeep ==
    ASSUME Typed, ProcsRight, Coherent, SameProcs,
           UNCHANGED <<pageTable, bitmap>>, ipt' \in [Frames -> IPTEntry],
           \A g \in Frames : /\ ipt'[g].virtualPage = ipt[g].virtualPage
                             /\ ipt'[g].spaceOwner = ipt[g].spaceOwner
                             /\ ipt'[g].valid = ipt[g].valid
    PROVE  ForkedStacksKnown' /\ FramesRight'
  <1>1. /\ space' = space /\ processCount' = processCount /\ stackLocations' = stackLocations
        /\ threadCount' = threadCount /\ pageTable' = pageTable /\ bitmap' = bitmap
    BY DEF SameProcs
  <1>2. RunningProcs' = RunningProcs /\ \A q : UsedPages(q)' = UsedPages(q) /\ Pages(q)' = Pages(q)
    BY <1>1 DEF RunningProcs, UsedPages, OwnStack, StackOf, Pages
  <1>3. \A q, w : InUse(q, w)' <=> InUse(q, w)
    BY <1>2 DEF InUse
  <1>4. ForkedStacksKnown'
    BY <1>1, <1>2 DEF Coherent, ForkedStacksKnown
  <1>5. /\ \A g \in Frames : ipt'[g].valid = ipt[g].valid
        /\ \A g \in Frames : Owner(g)' = Owner(g) /\ PageIn(g)' = PageIn(g)
    BY DEF Owner, PageIn
  <1>6. ASSUME NEW g \in Frames
        PROVE  /\ Pages(Owner(g))' = Pages(Owner(g))
               /\ InUse(Owner(g), PageIn(g))' <=> InUse(Owner(g), PageIn(g))
    <2> PICK o, w : o = Owner(g) /\ w = PageIn(g)
      OBVIOUS
    <2>1. Owner(g)' = o /\ PageIn(g)' = w
      BY <1>5
    <2>2. InUse(Owner(g), PageIn(g))' <=> o \in RunningProcs' /\ w \in UsedPages(o)'
      BY <2>1 DEF InUse
    <2>3. Pages(Owner(g))' = DOMAIN pageTable'[o]
      BY <2>1 DEF Pages
    <2>4. InUse(o, w) <=> o \in RunningProcs' /\ w \in UsedPages(o)'
      BY <1>2 DEF InUse
    <2> QED BY <2>2, <2>3, <2>4, <1>1 DEF Pages
  <1>7. bitmap \subseteq Frames /\ Frames' = Frames
    BY DEF Typed, MemoryTyped, Frames
  <1>8. ASSUME NEW g \in bitmap'
        PROVE  /\ ipt'[g].valid /\ InUse(Owner(g), PageIn(g))'
               /\ pageTable'[Owner(g)'][PageIn(g)'].physicalPage = g
    <2>1. g \in bitmap /\ g \in Frames
      BY <1>1, <1>7
    <2>2. /\ ipt[g].valid /\ InUse(Owner(g), PageIn(g))
          /\ pageTable[Owner(g)][PageIn(g)].physicalPage = g
      BY <2>1 DEF Coherent, FramesRight
    <2> QED BY <1>1, <1>5, <1>6, <2>1, <2>2
  <1>9. ASSUME NEW q \in RunningProcs', NEW w \in Pages(q)', NEW h \in Frames,
               pageTable'[q][w].physicalPage = h
        PROVE  h \in bitmap' /\ Owner(h)' = q /\ PageIn(h)' = w
    <2>1. q \in RunningProcs /\ w \in Pages(q) /\ pageTable[q][w].physicalPage = h
      BY <1>1, <1>2, <1>9
    <2>2. h \in bitmap /\ Owner(h) = q /\ PageIn(h) = w
      BY <2>1 DEF Coherent, FramesRight
    <2> QED BY <1>1, <1>5, <2>2
  <1>10. ASSUME NEW g \in Frames, ipt'[g].valid
         PROVE  /\ Owner(g)' <= processCount'
                /\ Owner(g)' \in RunningProcs' => PageIn(g)' \in Pages(Owner(g))'
                /\ InUse(Owner(g), PageIn(g))' => g \in bitmap'
    <2>1. ipt[g].valid
      BY <1>5, <1>10
    <2>2. /\ Owner(g) <= processCount
          /\ Owner(g) \in RunningProcs => PageIn(g) \in Pages(Owner(g))
          /\ InUse(Owner(g), PageIn(g)) => g \in bitmap
      BY <2>1 DEF Coherent, FramesRight
    <2>3. Owner(g)' = Owner(g) /\ PageIn(g)' = PageIn(g)
      BY <1>5
    <2>4. Owner(g)' <= processCount'
      BY <1>1, <2>2, <2>3
    <2>5. Owner(g)' \in RunningProcs' => PageIn(g)' \in Pages(Owner(g))'
      BY <1>2, <1>6, <2>2, <2>3
    <2> QED BY <1>1, <1>6, <2>2, <2>4, <2>5
  <1> QED BY Zenon, <1>4, <1>7, <1>8, <1>9, <1>10 DEF FramesRight

\* A TLB without valid entries shows nothing wrong.
LEMMA FlushCoherent ==
    ASSUME NEW entries, Flushed(entries)
    PROVE  TLBCoherent'
  BY DEF Flushed, TLBCoherent, Slots

LEMMA WriteKeeps ==
    ASSUME Typed, ProcsRight, Coherent, NEW v, WriteMem(v)
    PROVE  Coherent'
  <1> PICK i \in Hits(v), f \in Frames, bit \in {0, 1} :
             /\ f = tlb[i].physicalPage /\ tlb' \in [Slots -> TLBEntry]
             /\ \A j \in Slots \ {i} : tlb'[j] = tlb[j]
             /\ tlb'[i].virtualPage = v /\ tlb'[i].physicalPage = f /\ tlb'[i].valid
    BY WriteFacts
  <1>1. ForkedStacksKnown' /\ FramesRight'
    <2>1. SameProcs /\ UNCHANGED <<pageTable, bitmap, ipt>>
      BY DEF WriteMem, SameProcs, SamePages, procs
    <2>2. ipt' \in [Frames -> IPTEntry]
      BY <2>1 DEF Typed, MemoryTyped
    <2> QED BY <2>1, <2>2, TablesKeep
  <1>2. \A j \in Slots : /\ tlb'[j].virtualPage = tlb[j].virtualPage
                         /\ tlb'[j].physicalPage = tlb[j].physicalPage
                         /\ tlb'[j].valid => tlb[j].valid
    BY DEF Hits
  <1>3. UNCHANGED <<currentThread, space, ipt, bitmap>>
    BY DEF WriteMem, procs
  <1>4. TLBCoherent'
    BY <1>2, <1>3 DEF Coherent, TLBCoherent, Slots
  <1> QED BY <1>1, <1>4 DEF Coherent

LEMMA ResidentKeeps ==
    ASSUME Typed, ProcsRight, Coherent, NEW v, FaultOnResidentPage(v)
    PROVE  Coherent'
  <1> PICK f \in FramesOf(space[currentThread], v), i \in Slots : Refilled(i, tlb, ipt, f)
    BY ResidentFacts
  <1>0. /\ RunsUser /\ v \in Usable(currentThread) /\ Hits(v) = {}
        /\ UNCHANGED <<bitmap, pageTable, procs, currentThread>>
    BY DEF FaultOnResidentPage, Faults
  <1> DEFINE p == space[currentThread]
  <1>1. /\ p \in RunningProcs /\ v \in UsedPages(p) /\ currentThread # 0
    BY <1>0, Running, Constants DEF Typed, ProcsRight
  <1>2. f \in Frames /\ ipt[f].valid /\ Owner(f) = p /\ PageIn(f) = v
    BY DEF FramesOf, Owner, PageIn
  <1>3. f \in bitmap
    BY <1>1, <1>2 DEF Coherent, FramesRight, InUse
  <1>4. ForkedStacksKnown' /\ FramesRight'
    <2>1. SameProcs /\ UNCHANGED <<pageTable, bitmap>>
      BY <1>0 DEF SameProcs, SamePages, procs
    <2>2. ipt' \in [Frames -> IPTEntry]
          /\ \A g \in Frames : /\ ipt'[g].virtualPage = ipt[g].virtualPage
                               /\ ipt'[g].spaceOwner = ipt[g].spaceOwner
                               /\ ipt'[g].valid = ipt[g].valid
      BY DEF Refilled
    <2> QED BY <2>1, <2>2, TablesKeep
  <1>5. /\ \A g \in Frames : /\ ipt'[g].valid = ipt[g].valid
                             /\ ipt'[g].spaceOwner = ipt[g].spaceOwner
                             /\ ipt'[g].virtualPage = ipt[g].virtualPage
        /\ \A j \in Slots \ {i} : tlb'[j] = tlb[j]
        /\ tlb'[i].virtualPage = v /\ tlb'[i].physicalPage = f
    BY <1>2 DEF Refilled, PageIn
  <1>6. UNCHANGED <<currentThread, space, bitmap>>
    BY <1>0 DEF procs
  <1>7. ASSUME NEW j \in Slots, tlb'[j].valid
        PROVE  /\ currentThread' # 0
               /\ LET h == tlb'[j].physicalPage
                  IN  /\ h \in bitmap'
                      /\ ipt'[h].valid /\ ipt'[h].spaceOwner = space'[currentThread']
                      /\ ipt'[h].virtualPage = tlb'[j].virtualPage
               /\ \A k \in Slots \ {j} : tlb'[k].valid => tlb'[k].virtualPage # tlb'[j].virtualPage
    <2>1. \A k \in Slots \ {j} : tlb'[k].valid => tlb'[k].virtualPage # tlb'[j].virtualPage
      <3> SUFFICES ASSUME NEW k \in Slots \ {j}, tlb'[k].valid
                   PROVE  tlb'[k].virtualPage # tlb'[j].virtualPage
        OBVIOUS
      <3>1. CASE j = i
        BY <1>0, <1>5, <3>1 DEF Hits
      <3>2. CASE k = i
        BY <1>0, <1>5, <1>7, <3>2 DEF Hits
      <3>3. CASE j # i /\ k # i
        <4>1. tlb'[k] = tlb[k] /\ tlb[k].valid /\ tlb'[j] = tlb[j] /\ tlb[j].valid
          BY <1>5, <1>7, <3>3
        <4> QED BY <4>1 DEF Coherent, TLBCoherent
      <3> QED BY <3>1, <3>2, <3>3
    <2>2. CASE j = i
      BY <1>1, <1>2, <1>3, <1>5, <1>6, <2>1, <2>2 DEF Owner, PageIn
    <2>3. CASE j # i
      <3>1. tlb'[j] = tlb[j] /\ tlb[j].valid
        BY <1>5, <1>7, <2>3
      <3> PICK h : h = tlb[j].physicalPage
        OBVIOUS
      <3>2. /\ h \in bitmap /\ ipt[h].valid /\ ipt[h].spaceOwner = p
            /\ ipt[h].virtualPage = tlb[j].virtualPage
        BY <3>1 DEF Coherent, TLBCoherent
      <3>3. h \in Frames
        BY <3>2 DEF Typed, MemoryTyped
      <3> QED BY <1>1, <1>5, <1>6, <2>1, <3>1, <3>2, <3>3
    <2> QED BY <2>2, <2>3
  <1>8. TLBCoherent'
    BY <1>7 DEF TLBCoherent
  <1> QED BY <1>4, <1>8 DEF Coherent

\* Of a step that leaves the inverted page table as it is but for the dirty bits.
SameFrames ==
    /\ ipt' \in [Frames -> IPTEntry]
    /\ \A g \in Frames : /\ ipt'[g].virtualPage = ipt[g].virtualPage
                         /\ ipt'[g].spaceOwner = ipt[g].spaceOwner
                         /\ ipt'[g].valid = ipt[g].valid

LEMMA FramesKept ==
    ASSUME SameFrames, bitmap' \in SUBSET Frames,
           \A g \in bitmap' : \A o, w : (o = Owner(g) /\ w = PageIn(g)) =>
             /\ ipt[g].valid /\ InUse(o, w)'
             /\ pageTable'[o][w].physicalPage = g,
           \A q \in RunningProcs' : \A w \in Pages(q)' : \A h \in Frames :
             pageTable'[q][w].physicalPage = h => h \in bitmap' /\ Owner(h) = q /\ PageIn(h) = w,
           \A g \in Frames : \A o, w : (ipt[g].valid /\ o = Owner(g) /\ w = PageIn(g)) =>
             /\ o <= processCount'
             /\ o \in RunningProcs' => w \in Pages(o)'
             /\ InUse(o, w)' => g \in bitmap'
    PROVE  FramesRight'
  <1>1. \A g \in Frames : /\ ipt'[g].valid = ipt[g].valid
                          /\ Owner(g)' = Owner(g) /\ PageIn(g)' = PageIn(g)
    BY DEF SameFrames, Owner, PageIn
  <1>2. ASSUME NEW g \in bitmap'
        PROVE  /\ ipt'[g].valid /\ InUse(Owner(g), PageIn(g))'
               /\ pageTable'[Owner(g)'][PageIn(g)'].physicalPage = g
    <2> PICK o, w : o = Owner(g) /\ w = PageIn(g)
      OBVIOUS
    <2>1. Owner(g)' = o /\ PageIn(g)' = w /\ ipt'[g].valid = ipt[g].valid
      BY <1>1
    <2>2. InUse(Owner(g), PageIn(g))' <=> o \in RunningProcs' /\ w \in UsedPages(o)'
      BY <2>1 DEF InUse
    <2>3. InUse(o, w)' <=> o \in RunningProcs' /\ w \in UsedPages(o)'
      BY DEF InUse
    <2>4. ipt[g].valid /\ InUse(o, w)' /\ pageTable'[o][w].physicalPage = g
      OBVIOUS
    <2> QED BY <2>1, <2>2, <2>3, <2>4
  <1>3. ASSUME NEW g \in Frames, ipt'[g].valid
        PROVE  /\ Owner(g)' <= processCount'
               /\ Owner(g)' \in RunningProcs' => PageIn(g)' \in Pages(Owner(g))'
               /\ InUse(Owner(g), PageIn(g))' => g \in bitmap'
    <2> PICK o, w : o = Owner(g) /\ w = PageIn(g)
      OBVIOUS
    <2>1. Owner(g)' = o /\ PageIn(g)' = w /\ ipt[g].valid
      BY <1>1, <1>3
    <2>2. InUse(Owner(g), PageIn(g))' <=> o \in RunningProcs' /\ w \in UsedPages(o)'
      BY <2>1 DEF InUse
    <2>3. InUse(o, w)' <=> o \in RunningProcs' /\ w \in UsedPages(o)'
      BY DEF InUse
    <2>4. Pages(Owner(g))' = DOMAIN pageTable'[o]
      BY <2>1 DEF Pages
    <2>5. Pages(o)' = DOMAIN pageTable'[o]
      BY DEF Pages
    <2>6. /\ o <= processCount'
          /\ o \in RunningProcs' => w \in Pages(o)'
          /\ InUse(o, w)' => g \in bitmap'
      BY <2>1
    <2>7. Owner(g)' \in RunningProcs' => PageIn(g)' \in Pages(Owner(g))'
      BY Zenon, <2>1, <2>4, <2>5, <2>6
    <2>8. InUse(Owner(g), PageIn(g))' => g \in bitmap'
      BY <2>2, <2>3, <2>6
    <2> QED BY <2>1, <2>6, <2>7, <2>8
  <1>4. ASSUME NEW q \in RunningProcs', NEW w \in Pages(q)', NEW h \in Frames,
               pageTable'[q][w].physicalPage = h
        PROVE  h \in bitmap' /\ Owner(h)' = q /\ PageIn(h)' = w
    BY <1>1, <1>4
  <1>5. Frames' = Frames
    BY DEF Frames
  <1> QED BY Zenon, <1>2, <1>3, <1>4, <1>5 DEF FramesRight

\* The pages in use when thread t has got a stack at page b of process p, and when
\* thread t has left.
LEMMA JoinedPages ==
    ASSUME ProcsTyped, StacksApart, NEW t, NEW p, NEW b \in Nat, Joins(t, p, b)
    PROVE  \A q \in Procs : \A w :
             w \in UsedPages(q)' <=>
               (w \in UsedPages(q) \/ (q = p /\ t \in Stacked /\ w \in b .. b + StackPages - 1))
  <1>1. /\ t \in Threads /\ p \in Procs /\ stackLocations[t] = 0 /\ space[t] = 0
        /\ stackLocations' = [stackLocations EXCEPT ![t] = b]
        /\ space' = [space EXCEPT ![t] = p]
    BY DEF Joins, StacksApart, Alive
  <1>2. /\ \A u \in Threads \ {t} : stackLocations'[u] = stackLocations[u] /\ space'[u] = space[u]
        /\ stackLocations'[t] = b /\ space'[t] = p
    BY <1>1 DEF ProcsTyped
  <1>3. \A u \in Threads \ {t} : OwnStack(u)' = OwnStack(u)
    BY <1>2 DEF OwnStack, StackOf
  <1>4. OwnStack(t)' = IF t \in Stacked THEN b .. b + StackPages - 1 ELSE {}
    BY <1>2 DEF OwnStack, StackOf
  <1>5. ASSUME NEW q \in Procs, NEW w
        PROVE  w \in UsedPages(q)' <=>
               (w \in UsedPages(q) \/ (q = p /\ t \in Stacked /\ w \in b .. b + StackPages - 1))
    <2>1. w \in UsedPages(q)' <=>
            (w \in Touched(q) \/ \E u \in Threads : space'[u] = q /\ w \in OwnStack(u)')
      BY DEF UsedPages, Threads
    <2>2. w \in UsedPages(q) <=>
            (w \in Touched(q) \/ \E u \in Threads : space[u] = q /\ w \in OwnStack(u))
      BY DEF UsedPages
    <2>3. q # 0
      BY Constants
    <2>4. (\E u \in Threads : space[u] = q /\ w \in OwnStack(u))
            => (\E u \in Threads : space'[u] = q /\ w \in OwnStack(u)')
      BY <1>1, <1>2, <1>3, <2>3
    <2>5. (\E u \in Threads : space'[u] = q /\ w \in OwnStack(u)')
            => \/ \E u \in Threads : space[u] = q /\ w \in OwnStack(u)
               \/ q = p /\ w \in OwnStack(t)'
      BY <1>1, <1>2, <1>3
    <2>6. q = p /\ w \in OwnStack(t)' => \E u \in Threads : space'[u] = q /\ w \in OwnStack(u)'
      BY <1>1, <1>2
    <2>7. w \in OwnStack(t)' <=> (t \in Stacked /\ w \in b .. b + StackPages - 1)
      BY <1>4
    <2> QED BY <2>1, <2>2, <2>4, <2>5, <2>6, <2>7
  <1> QED BY <1>5

LEMMA LeftPages ==
    ASSUME ProcsTyped, NEW t \in Threads, space' = [space EXCEPT ![t] = 0],
           stackLocations' = stackLocations
    PROVE  \A q \in Procs : \A w :
             w \in UsedPages(q)' <=>
               (w \in Touched(q) \/ \E u \in Threads \ {t} : space[u] = q /\ w \in OwnStack(u))
  <1>1. /\ \A u \in Threads \ {t} : space'[u] = space[u]
        /\ space'[t] = 0 /\ \A u : OwnStack(u)' = OwnStack(u)
    BY DEF ProcsTyped, OwnStack, StackOf
  <1>2. ASSUME NEW q \in Procs, NEW w
        PROVE  w \in UsedPages(q)' <=>
               (w \in Touched(q) \/ \E u \in Threads \ {t} : space[u] = q /\ w \in OwnStack(u))
    <2>1. w \in UsedPages(q)' <=>
            (w \in Touched(q) \/ \E u \in Threads : space'[u] = q /\ w \in OwnStack(u)')
      BY DEF UsedPages, Threads
    <2>2. q # 0
      BY Constants
    <2>3. (\E u \in Threads : space'[u] = q /\ w \in OwnStack(u)')
            <=> (\E u \in Threads \ {t} : space[u] = q /\ w \in OwnStack(u))
      BY <1>1, <2>2
    <2> QED BY <2>1, <2>3
  <1> QED BY <1>2

LEMMA ForkKeeps ==
    ASSUME Typed, ProcsRight, Coherent, Fork
    PROVE  Coherent'
  <1> PICK t \in Threads, p \in Procs, n \in Nat : Forked(t, p, n)
    BY ForkFacts
  <1>0. /\ UNCHANGED <<bitmap, processCount>> /\ Flushed(tlb) /\ bitmap \in SUBSET Frames
        /\ threadCount' = [threadCount EXCEPT ![p] = threadCount[p] + 1]
        /\ threadCount \in [Procs -> Nat]
    BY ForkTyped DEF Fork, Forked, Typed, MemoryTyped, ProcsTyped
  <1>1. /\ Joins(t, p, n) /\ Pages(p) = 0 .. n - 1 /\ p = space[currentThread]
        /\ DOMAIN pageTable'[p] = 0 .. n + StackPages - 1
        /\ \A q \in Procs \ {p} : pageTable'[q] = pageTable[q]
        /\ \A w \in 0 .. n + StackPages - 1 :
             pageTable'[p][w] = IF w < n THEN pageTable[p][w] ELSE NewStack
    BY DEF Forked
  <1>2. StackPages \in Nat
    BY Constants
  <1>3. p \in RunningProcs
    BY <1>1, Running DEF Fork, Typed, ProcsRight
  <1>4. RunningProcs' = RunningProcs
    <2>1. \A q \in Procs : threadCount'[q] # 0 <=> threadCount[q] # 0
      BY <1>0, <1>3 DEF RunningProcs
    <2> QED BY <2>1 DEF RunningProcs, Procs
  <1>5. ASSUME NEW q \in Procs, NEW w \in Pages(q)
        PROVE  w \in Pages(q)' /\ pageTable'[q][w] = pageTable[q][w]
    <2>1. CASE q = p
      <3>1. w \in 0 .. n - 1
        BY <1>1, <2>1
      <3>2. w \in 0 .. n + StackPages - 1 /\ w < n
        BY <1>2, <3>1
      <3> QED BY <1>1, <2>1, <3>2 DEF Pages
    <2>2. CASE q # p
      BY <1>1, <2>2 DEF Pages
    <2> QED BY <2>1, <2>2
  <1>6. ASSUME NEW q \in Procs, NEW w, w \in Pages(q)', w \notin Pages(q)
        PROVE  pageTable'[q][w].physicalPage = -1
    <2>1. q = p /\ w \in 0 .. n + StackPages - 1 /\ w \notin 0 .. n - 1
      BY <1>1, <1>6 DEF Pages
    <2>2. ~(w < n)
      BY <2>1
    <2>3. pageTable'[p][w] = NewStack
      BY <1>1, <2>1, <2>2
    <2> QED BY <2>1, <2>3 DEF NewStack
  <1>7. \A q \in Procs : \A w \in Pages(q) : InUse(q, w)' <=> InUse(q, w)
    <2> SUFFICES ASSUME NEW q \in Procs, NEW w \in Pages(q)
                 PROVE  InUse(q, w)' <=> InUse(q, w)
      OBVIOUS
    <2>1. w \in UsedPages(q)' <=>
            (w \in UsedPages(q) \/ (q = p /\ t \in Stacked /\ w \in n .. n + StackPages - 1))
      BY <1>1, JoinedPages DEF Typed, ProcsRight
    <2>2. ~(q = p /\ w \in n .. n + StackPages - 1)
      BY <1>1
    <2>3. w \in UsedPages(q)' <=> w \in UsedPages(q)
      BY <2>1, <2>2
    <2> QED BY <1>4, <2>3 DEF InUse
  <1>8. -1 # Garbage /\ -1 \notin Frames
    BY DEF Garbage, Frames
  <1>9. ForkedStacksKnown'
    <2> SUFFICES ASSUME NEW q \in Procs, NEW w \in Pages(q)', w >= TopOf(q) + StackPages
                 PROVE  pageTable'[q][w].physicalPage # Garbage
      BY DEF ForkedStacksKnown, Procs, TopOf
    <2>1. CASE w \in Pages(q)
      BY <1>5, <2>1 DEF Coherent, ForkedStacksKnown
    <2>2. CASE w \notin Pages(q)
      BY <1>6, <1>8, <2>2
    <2> QED BY <2>1, <2>2
  <1>10. FramesRight'
    <2>1. SameFrames
      BY <1>0 DEF SameFrames, Flushed
    <2>2. ASSUME NEW g \in bitmap', NEW o, NEW w, o = Owner(g) /\ w = PageIn(g)
          PROVE  ipt[g].valid /\ InUse(o, w)' /\ pageTable'[o][w].physicalPage = g
      <3>1. g \in bitmap
        BY <1>0
      <3>2. /\ ipt[g].valid /\ InUse(o, w) /\ o \in Procs /\ w \in Pages(o)
            /\ pageTable[o][w].physicalPage = g
        BY <2>2, <3>1, FrameInUse DEF Coherent
      <3> QED BY <1>5, <1>7, <3>2
    <2>3. ASSUME NEW q \in RunningProcs', NEW w \in Pages(q)', NEW h \in Frames,
                 pageTable'[q][w].physicalPage = h
          PROVE  h \in bitmap' /\ Owner(h) = q /\ PageIn(h) = w
      <3>1. q \in RunningProcs /\ q \in Procs
        BY <1>4 DEF RunningProcs
      <3>2. w \in Pages(q)
        BY <1>6, <1>8, <2>3, <3>1
      <3>3. pageTable[q][w].physicalPage = h
        BY <1>5, <2>3, <3>1, <3>2
      <3> QED BY <1>0, <3>1, <3>2, <3>3 DEF Coherent, FramesRight
    <2>4. ASSUME NEW g \in Frames, NEW o, NEW w, ipt[g].valid /\ o = Owner(g) /\ w = PageIn(g)
          PROVE  /\ o <= processCount'
                 /\ o \in RunningProcs' => w \in Pages(o)'
                 /\ InUse(o, w)' => g \in bitmap'
      <3>1. /\ o <= processCount
            /\ o \in RunningProcs => w \in Pages(o)
            /\ InUse(o, w) => g \in bitmap
        BY <2>4 DEF Coherent, FramesRight
      <3>2. ASSUME o \in RunningProcs'
            PROVE  w \in Pages(o) /\ o \in Procs
        BY <1>4, <3>1, <3>2 DEF RunningProcs
      <3>3. InUse(o, w)' => o \in RunningProcs'
        BY DEF InUse
      <3> QED BY <1>0, <1>5, <1>7, <3>1, <3>2, <3>3
    <2> QED BY <1>0, <2>1, <2>2, <2>3, <2>4, FramesKept
  <1>11. TLBCoherent'
    BY <1>0, FlushCoherent
  <1> QED BY <1>9, <1>10, <1>11 DEF Coherent

LEMMA ExecKeeps ==
    ASSUME Typed, ProcsRight, Coherent, Exec
    PROVE  Coherent'
  <1> PICK t \in Threads, p \in Procs : Execed(t, p)
    BY ExecFacts
  <1>0. /\ UNCHANGED <<tlb, ipt, bitmap, currentThread>> /\ bitmap \in SUBSET Frames
        /\ ipt \in [Frames -> IPTEntry] /\ threadCount \in [Procs -> Nat]
        /\ processCount \in Nat
    BY DEF Exec, mmu, Typed, MemoryTyped, ProcsTyped, Procs
  <1>1. /\ Joins(t, p, TopOf(p)) /\ p = processCount + 1 /\ processCount' = p
        /\ pageTable'[p] = NewSpace(p) /\ Pages(p) = {}
        /\ threadCount[p] = 0 /\ threadCount' = [threadCount EXCEPT ![p] = 1]
        /\ \A q \in Procs \ {p} : pageTable'[q] = pageTable[q]
    BY DEF Execed
  <1>2. \A q \in Procs \ {p} : q \in RunningProcs' <=> q \in RunningProcs
    BY <1>0, <1>1 DEF RunningProcs
  <1>3. p \notin RunningProcs
    BY <1>1 DEF RunningProcs
  <1>4. TopOf(p) \in Nat
    BY Constants
  <1>5. \A q \in Procs \ {p} : \A w : InUse(q, w)' <=> InUse(q, w)
    <2> SUFFICES ASSUME NEW q \in Procs \ {p}, NEW w
                 PROVE  InUse(q, w)' <=> InUse(q, w)
      OBVIOUS
    <2>1. w \in UsedPages(q)' <=> w \in UsedPages(q)
      BY <1>1, <1>4, JoinedPages DEF Typed, ProcsRight
    <2> QED BY <1>2, <2>1 DEF InUse
  <1>6. \A q \in Procs \ {p} : Pages(q)' = Pages(q)
    BY <1>1 DEF Pages
  <1>7. /\ DOMAIN NewSpace(p) = 0 .. TopOf(p) + StackPages - 1
        /\ \A w \in DOMAIN NewSpace(p) : NewSpace(p)[w].physicalPage = Garbage
    BY NewSpaceTyped
  <1>8. ForkedStacksKnown'
    <2> SUFFICES ASSUME NEW q \in Procs, NEW w \in Pages(q)', w >= TopOf(q) + StackPages
                 PROVE  pageTable'[q][w].physicalPage # Garbage
      BY DEF ForkedStacksKnown, Procs, TopOf
    <2>1. CASE q = p
      <3>1. StackPages \in Nat
        BY Constants
      <3>2. w \in 0 .. TopOf(p) + StackPages - 1
        BY <1>1, <1>7, <2>1 DEF Pages
      <3> QED BY <1>4, <3>1, <3>2, <2>1
    <2>2. CASE q # p
      BY <1>1, <1>6, <2>2 DEF Coherent, ForkedStacksKnown
    <2> QED BY <2>1, <2>2
  <1>9. FramesRight'
    <2>1. SameFrames
      BY <1>0 DEF SameFrames
    <2>2. ASSUME NEW g \in bitmap', NEW o, NEW w, o = Owner(g) /\ w = PageIn(g)
          PROVE  ipt[g].valid /\ InUse(o, w)' /\ pageTable'[o][w].physicalPage = g
      <3>1. g \in bitmap
        BY <1>0
      <3>2. /\ ipt[g].valid /\ InUse(o, w) /\ o \in RunningProcs /\ o \in Procs
            /\ pageTable[o][w].physicalPage = g
        BY <2>2, <3>1, FrameInUse DEF Coherent
      <3> QED BY <1>1, <1>3, <1>5, <3>2
    <2>3. ASSUME NEW q \in RunningProcs', NEW w \in Pages(q)', NEW h \in Frames,
                 pageTable'[q][w].physicalPage = h
          PROVE  h \in bitmap' /\ Owner(h) = q /\ PageIn(h) = w
      <3>0. q \in Procs
        BY DEF RunningProcs, Procs
      <3>1. q # p
        BY <1>1, <1>7, <2>3, Constants DEF Pages
      <3>2. q \in RunningProcs /\ w \in Pages(q) /\ pageTable[q][w].physicalPage = h
        BY <1>1, <1>2, <1>6, <2>3, <3>0, <3>1
      <3> QED BY <1>0, <3>2 DEF Coherent, FramesRight
    <2>4. ASSUME NEW g \in Frames, NEW o, NEW w, ipt[g].valid /\ o = Owner(g) /\ w = PageIn(g)
          PROVE  /\ o <= processCount'
                 /\ o \in RunningProcs' => w \in Pages(o)'
                 /\ InUse(o, w)' => g \in bitmap'
      <3>1. /\ o <= processCount
            /\ o \in RunningProcs => w \in Pages(o)
            /\ InUse(o, w) => g \in bitmap
        BY <2>4 DEF Coherent, FramesRight
      <3>2. o \in 0 .. MaxProcesses
        BY <1>0, <2>4 DEF IPTEntry, Owner
      <3>3. o # p /\ o <= p
        BY <1>0, <1>1, <3>1, <3>2
      <3>4. InUse(o, w)' => o \in RunningProcs'
        BY DEF InUse
      <3>5. o \in RunningProcs' => o \in Procs
        BY DEF RunningProcs, Procs
      <3> QED BY <1>0, <1>1, <1>2, <1>5, <1>6, <3>1, <3>3, <3>4, <3>5
    <2> QED BY <1>0, <2>1, <2>2, <2>3, <2>4, FramesKept
  <1>10. TLBCoherent'
    <2>1. /\ currentThread \in Threads /\ Alive(currentThread)
          /\ stackLocations[currentThread] # 0
      BY Running DEF Exec, Typed, ProcsRight, StacksApart
    <2>2. space'[currentThread] = space[currentThread]
      BY <1>1, <2>1 DEF Joins, Typed, ProcsTyped
    <2> QED BY <1>0, <2>2 DEF Coherent, TLBCoherent, Slots
  <1> QED BY <1>8, <1>9, <1>10 DEF Coherent

LEMMA ExitProcessKeeps ==
    ASSUME Typed, ProcsRight, Coherent, ExitProcess
    PROVE  Coherent'
  <1> PICK t \in Threads, p \in Procs :
             /\ Leaves(t, p) /\ threadCount[p] = 1 /\ pageTable'[p] = <<>>
             /\ bitmap' = bitmap \ {f \in Frames : ipt[f].spaceOwner = p}
             /\ threadCount' = [threadCount EXCEPT ![p] = 0]
             /\ \A u \in Threads \ {t} : space[u] # p
    BY ExitProcessFacts
  <1>0. /\ Flushed(tlb) /\ bitmap \in SUBSET Frames /\ threadCount \in [Procs -> Nat]
        /\ processCount' = processCount
        /\ space' = [space EXCEPT ![t] = 0] /\ stackLocations' = stackLocations
        /\ \A q \in Procs \ {p} : pageTable'[q] = pageTable[q]
        /\ p = space[t] /\ p # 0
    BY ExitProcessTyped, Constants DEF Leaves, Typed, MemoryTyped, ProcsTyped
  <1>1. \A q \in Procs : q \in RunningProcs' <=> q \in RunningProcs /\ q # p
    BY <1>0 DEF RunningProcs
  <1>2. \A q \in Procs \ {p} : Pages(q)' = Pages(q)
    BY <1>0 DEF Pages
  <1>3. Pages(p)' = {}
    BY EmptyTable DEF Pages
  <1>4. \A q \in Procs \ {p} : \A w : InUse(q, w)' <=> InUse(q, w)
    <2> SUFFICES ASSUME NEW q \in Procs \ {p}, NEW w
                 PROVE  InUse(q, w)' <=> InUse(q, w)
      OBVIOUS
    <2>1. w \in UsedPages(q)' <=>
            (w \in Touched(q) \/ \E u \in Threads \ {t} : space[u] = q /\ w \in OwnStack(u))
      BY <1>0, LeftPages DEF Typed
    <2>2. w \in UsedPages(q) <=>
            (w \in Touched(q) \/ \E u \in Threads : space[u] = q /\ w \in OwnStack(u))
      BY DEF UsedPages
    <2>3. (\E u \in Threads \ {t} : space[u] = q /\ w \in OwnStack(u))
            <=> (\E u \in Threads : space[u] = q /\ w \in OwnStack(u))
      BY <1>0
    <2>4. w \in UsedPages(q)' <=> w \in UsedPages(q)
      BY <2>1, <2>2, <2>3
    <2> QED BY <1>1, <2>4 DEF InUse
  <1>5. ForkedStacksKnown'
    <2> SUFFICES ASSUME NEW q \in Procs, NEW w \in Pages(q)', w >= TopOf(q) + StackPages
                 PROVE  pageTable'[q][w].physicalPage # Garbage
      BY DEF ForkedStacksKnown, Procs, TopOf
    <2>1. q # p /\ w \in Pages(q)
      BY <1>2, <1>3
    <2> QED BY <1>0, <2>1 DEF Coherent, ForkedStacksKnown
  <1>6. FramesRight'
    <2>1. SameFrames
      BY <1>0 DEF SameFrames, Flushed
    <2>2. ASSUME NEW g \in bitmap', NEW o, NEW w, o = Owner(g) /\ w = PageIn(g)
          PROVE  ipt[g].valid /\ InUse(o, w)' /\ pageTable'[o][w].physicalPage = g
      <3>1. g \in bitmap /\ g \in Frames /\ o # p
        BY <1>0, <2>2 DEF Owner
      <3>2. /\ ipt[g].valid /\ InUse(o, w) /\ o \in Procs
            /\ pageTable[o][w].physicalPage = g
        BY <2>2, <3>1, FrameInUse DEF Coherent
      <3> QED BY <1>0, <1>4, <3>1, <3>2
    <2>3. ASSUME NEW q \in RunningProcs', NEW w \in Pages(q)', NEW h \in Frames,
                 pageTable'[q][w].physicalPage = h
          PROVE  h \in bitmap' /\ Owner(h) = q /\ PageIn(h) = w
      <3>0. q \in Procs
        BY DEF RunningProcs, Procs
      <3>1. q # p /\ q \in RunningProcs
        BY <1>1, <3>0
      <3>2. w \in Pages(q) /\ pageTable[q][w].physicalPage = h
        BY <1>0, <1>2, <2>3, <3>0, <3>1
      <3>3. h \in bitmap /\ Owner(h) = q /\ PageIn(h) = w
        BY <3>1, <3>2 DEF Coherent, FramesRight
      <3> QED BY <3>1, <3>3 DEF Owner
    <2>4. ASSUME NEW g \in Frames, NEW o, NEW w, ipt[g].valid /\ o = Owner(g) /\ w = PageIn(g)
          PROVE  /\ o <= processCount'
                 /\ o \in RunningProcs' => w \in Pages(o)'
                 /\ InUse(o, w)' => g \in bitmap'
      <3>1. /\ o <= processCount
            /\ o \in RunningProcs => w \in Pages(o)
            /\ InUse(o, w) => g \in bitmap
        BY <2>4 DEF Coherent, FramesRight
      <3>2. InUse(o, w)' => o \in RunningProcs'
        BY DEF InUse
      <3>3. o \in RunningProcs' => o \in Procs \ {p} /\ o \in RunningProcs
        BY <1>1 DEF RunningProcs, Procs
      <3>4. InUse(o, w)' => g \in bitmap'
        BY <1>4, <2>4, <3>1, <3>2, <3>3 DEF Owner
      <3> QED BY <1>0, <1>2, <3>1, <3>3, <3>4
    <2> QED BY <1>0, <2>1, <2>2, <2>3, <2>4, FramesKept
  <1>7. TLBCoherent'
    BY <1>0, FlushCoherent
  <1> QED BY <1>5, <1>6, <1>7 DEF Coherent

\* An exit frees the frames of the thread's stack, or goes astray.
LEMMA OwnFramesFreed ==
    ASSUME ExitThread, ~strayFree'
    PROVE  ~strayFree /\ bitmap' = bitmap \ FramesOfStack(currentThread)
  <1>1. PICK freed \in FreedFrames(currentThread) :
             /\ bitmap' = bitmap \ freed
             /\ strayFree' = (strayFree \/ (freed \cap bitmap) \ FramesOfStack(currentThread) # {})
    BY DEF ExitThread
  <1>2. FramesOfStack(currentThread) \subseteq freed
    BY DEF FreedFrames
  <1>3. ~strayFree /\ (freed \cap bitmap) \ FramesOfStack(currentThread) = {}
    BY <1>1
  <1> QED BY <1>1, <1>2, <1>3

\* A thread that is not the last of its process frees the frames of its stack, and
\* no others.
LEMMA ExitThreadKeeps ==
    ASSUME ~strayFree', Typed, ProcsRight, Coherent, ExitThread
    PROVE  Coherent'
  <1> PICK t \in Threads, p \in Procs :
             /\ Leaves(t, p) /\ threadCount[p] > 1 /\ DOMAIN pageTable'[p] = Pages(p)
             /\ \A v \in Pages(p) :
                  pageTable'[p][v] = IF v \in StackOf(t)
                                     THEN OnFrame(pageTable[p][v], -1)
                                     ELSE pageTable[p][v]
             /\ \E freed \in FreedFrames(t) : bitmap' = bitmap \ freed
             /\ threadCount' = [threadCount EXCEPT ![p] = threadCount[p] - 1]
    BY ExitThreadFacts
  <1>0. /\ Flushed(LeftBy(currentThread)) /\ bitmap \in SUBSET Frames
        /\ threadCount \in [Procs -> Nat] /\ pageTable \in [Procs -> Table]
        /\ processCount' = processCount
        /\ space' = [space EXCEPT ![t] = 0] /\ stackLocations' = stackLocations
        /\ \A q \in Procs \ {p} : pageTable'[q] = pageTable[q]
        /\ p = space[t] /\ t = currentThread /\ Alive(t)
    BY ExitThreadTyped DEF Leaves, Typed, MemoryTyped, ProcsTyped
  <1>1. StackPages \in Nat /\ TopOf(p) \in Nat /\ Touched(p) \subseteq 0 .. TopOf(p) - 1
    BY Constants
  <1>2. /\ stackLocations[t] >= TopOf(p) /\ StackOf(t) \subseteq Pages(p)
        /\ stackLocations[t] \in Nat
    BY <1>0, <1>1 DEF ProcsRight, StacksApart, IsMain, Typed, ProcsTyped
  <1> PICK freed : freed = FramesOfStack(t)
    OBVIOUS
  <1>4. bitmap' = bitmap \ freed
    BY <1>0, OwnFramesFreed
  <1>5. \A g \in Frames : g \in freed <=> \E v \in StackOf(t) : pageTable[p][v].physicalPage = g
    <2>1. \A g \in Frames : g # -1 /\ g # Garbage
      BY DEF Frames, Garbage
    <2> QED BY <1>0, <2>1 DEF FramesOfStack, StackEntries
  <1>6. RunningProcs' = RunningProcs
    <2>1. \A q \in Procs : threadCount'[q] # 0 <=> threadCount[q] # 0
      BY <1>0
    <2> QED BY <2>1 DEF RunningProcs, Procs
  <1>7. \A q \in Procs : Pages(q)' = Pages(q)
    BY <1>0 DEF Pages
  <1>8. ASSUME NEW q \in Procs, NEW w \in Pages(q), ~(q = p /\ w \in StackOf(t))
        PROVE  pageTable'[q][w] = pageTable[q][w]
    BY <1>0, <1>8
  <1>9. \A w \in StackOf(t) : pageTable'[p][w].physicalPage = -1
    <2> SUFFICES ASSUME NEW w \in StackOf(t)
                 PROVE  pageTable'[p][w].physicalPage = -1
      OBVIOUS
    <2>1. w \in Pages(p) /\ pageTable[p] \in Table
      BY <1>0, <1>2
    <2>2. pageTable[p][w] \in Entry
      BY <2>1, TableShape DEF Pages
    <2> QED BY <2>1, <2>2, EntryChanged
  <1>10. \A q \in Procs : \A w : InUse(q, w)' <=> (InUse(q, w) /\ ~(q = p /\ w \in StackOf(t)))
    <2> SUFFICES ASSUME NEW q \in Procs, NEW w
                 PROVE  InUse(q, w)' <=> (InUse(q, w) /\ ~(q = p /\ w \in StackOf(t)))
      OBVIOUS
    <2>1. w \in UsedPages(q)' <=>
            (w \in Touched(q) \/ \E u \in Threads \ {t} : space[u] = q /\ w \in OwnStack(u))
      BY <1>0, LeftPages DEF Typed
    <2>2. w \in UsedPages(q) <=>
            (w \in Touched(q) \/ \E u \in Threads : space[u] = q /\ w \in OwnStack(u))
      BY DEF UsedPages
    <2>3. q = p /\ w \in StackOf(t) => w \notin Touched(q)
      <3>1. ASSUME q = p, w \in StackOf(t), w \in Touched(p)
            PROVE  FALSE
        <4>1. w \in 0 .. TopOf(p) - 1
          BY <1>1, <3>1
        <4>2. w >= TopOf(p)
          BY <1>2, <1>1, <3>1 DEF StackOf
        <4> QED BY <1>1, <4>1, <4>2
      <3> QED BY <3>1
    <2>4. \A u \in Threads \ {t} : q = p /\ space[u] = q /\ w \in OwnStack(u) => w \notin StackOf(t)
      BY <1>0 DEF OwnStack, ProcsRight, StacksApart
    <2>5. space[t] = q /\ w \in OwnStack(t) => q = p /\ w \in StackOf(t)
      BY <1>0 DEF OwnStack
    <2>6. w \in UsedPages(q)' <=> (w \in UsedPages(q) /\ ~(q = p /\ w \in StackOf(t)))
      BY <2>1, <2>2, <2>3, <2>4, <2>5
    <2> QED BY <1>6, <2>6 DEF InUse
  <1>11. -1 # Garbage /\ -1 \notin Frames
    BY DEF Garbage, Frames
  <1>12. ForkedStacksKnown'
    <2> SUFFICES ASSUME NEW q \in Procs, NEW w \in Pages(q)', w >= TopOf(q) + StackPages
                 PROVE  pageTable'[q][w].physicalPage # Garbage
      BY DEF ForkedStacksKnown, Procs, TopOf
    <2>1. w \in Pages(q)
      BY <1>7
    <2>2. CASE q = p /\ w \in StackOf(t)
      BY <1>9, <1>11, <2>2
    <2>3. CASE ~(q = p /\ w \in StackOf(t))
      BY <1>8, <2>1, <2>3 DEF Coherent, ForkedStacksKnown
    <2> QED BY <2>2, <2>3
  <1>13. FramesRight'
    <2>1. SameFrames
      BY <1>0 DEF SameFrames, Flushed
    <2>2. ASSUME NEW g \in bitmap', NEW o, NEW w, o = Owner(g) /\ w = PageIn(g)
          PROVE  ipt[g].valid /\ InUse(o, w)' /\ pageTable'[o][w].physicalPage = g
      <3>1. g \in bitmap /\ g \in Frames /\ g \notin freed
        BY <1>0, <1>4, <2>2
      <3>2. /\ ipt[g].valid /\ InUse(o, w) /\ o \in Procs /\ w \in Pages(o)
            /\ pageTable[o][w].physicalPage = g
        BY <2>2, <3>1, FrameInUse DEF Coherent
      <3>3. ~(o = p /\ w \in StackOf(t))
        BY <1>5, <3>1, <3>2
      <3> QED BY <1>8, <1>10, <3>2, <3>3
    <2>3. ASSUME NEW q \in RunningProcs', NEW w \in Pages(q)', NEW h \in Frames,
                 pageTable'[q][w].physicalPage = h
          PROVE  h \in bitmap' /\ Owner(h) = q /\ PageIn(h) = w
      <3>1. q \in RunningProcs /\ q \in Procs /\ w \in Pages(q)
        BY <1>6, <1>7 DEF RunningProcs
      <3>2. ~(q = p /\ w \in StackOf(t))
        BY <1>9, <1>11, <2>3
      <3>3. pageTable[q][w].physicalPage = h
        BY <1>8, <2>3, <3>1, <3>2
      <3>4. h \in bitmap /\ Owner(h) = q /\ PageIn(h) = w
        BY <3>1, <3>3 DEF Coherent, FramesRight
      <3>5. h \notin freed
        <4> SUFFICES ASSUME NEW v \in StackOf(t), pageTable[p][v].physicalPage = h
                     PROVE  FALSE
          BY <1>5
        <4>1. p \in RunningProcs /\ v \in Pages(p)
          BY <1>2 DEF Leaves
        <4>2. Owner(h) = p /\ PageIn(h) = v
          BY <4>1 DEF Coherent, FramesRight
        <4> QED BY <3>2, <3>4, <4>2
      <3> QED BY <1>4, <3>4, <3>5
    <2>4. ASSUME NEW g \in Frames, NEW o, NEW w, ipt[g].valid /\ o = Owner(g) /\ w = PageIn(g)
          PROVE  /\ o <= processCount'
                 /\ o \in RunningProcs' => w \in Pages(o)'
                 /\ InUse(o, w)' => g \in bitmap'
      <3>1. /\ o <= processCount
            /\ o \in RunningProcs => w \in Pages(o)
            /\ InUse(o, w) => g \in bitmap
        BY <2>4 DEF Coherent, FramesRight
      <3>2. InUse(o, w)' => o \in RunningProcs'
        BY DEF InUse
      <3>3. o \in RunningProcs' => o \in Procs /\ o \in RunningProcs
        BY <1>6 DEF RunningProcs
      <3>4. ASSUME InUse(o, w)'
            PROVE  g \in bitmap'
        <4>1. o \in Procs /\ InUse(o, w) /\ ~(o = p /\ w \in StackOf(t))
          BY <1>10, <3>2, <3>3, <3>4
        <4>2. g \notin freed
          <5> SUFFICES ASSUME NEW v \in StackOf(t), pageTable[p][v].physicalPage = g
                       PROVE  FALSE
            BY <1>5
          <5>1. p \in RunningProcs /\ v \in Pages(p)
            BY <1>2 DEF Leaves
          <5>2. Owner(g) = p /\ PageIn(g) = v
            BY <5>1 DEF Coherent, FramesRight
          <5> QED BY <2>4, <4>1, <5>2
        <4> QED BY <1>4, <3>1, <4>1, <4>2
      <3> QED BY <1>0, <1>7, <3>1, <3>3, <3>4
    <2> QED BY <1>0, <2>1, <2>2, <2>3, <2>4, FramesKept
  <1>14. TLBCoherent'
    BY <1>0, FlushCoherent
  <1> QED BY <1>12, <1>13, <1>14 DEF Coherent

-----------------------------------------------------------------------------
(* The dirty bits. A thread that exits, and the eviction of a page of another  *)
(* process, drop entries of the TLB whose bits may be nowhere else: of these   *)
(* pages nothing is said any more.                                             *)

Copied == MarksAhead /\ CopiesRight

\* What TLBCoherent says of a valid entry.
LEMMA EntryShown ==
    ASSUME Typed, ProcsRight, TLBCoherent, NEW i \in Slots, tlb[i].valid
    PROVE  /\ tlb[i].physicalPage \in bitmap /\ tlb[i].physicalPage \in Frames
           /\ ipt[tlb[i].physicalPage].valid
           /\ currentThread # 0 /\ Owner(tlb[i].physicalPage) = space[currentThread]
           /\ PageIn(tlb[i].physicalPage) = tlb[i].virtualPage
           /\ \A j \in Slots : tlb[j].valid /\ tlb[j].physicalPage = tlb[i].physicalPage => j = i
  <1>1. \A j \in Slots : tlb[j].valid =>
          /\ tlb[j].physicalPage \in bitmap /\ currentThread # 0
          /\ Owner(tlb[j].physicalPage) = space[currentThread]
          /\ PageIn(tlb[j].physicalPage) = tlb[j].virtualPage
          /\ ipt[tlb[j].physicalPage].valid
    BY DEF TLBCoherent, Owner, PageIn
  <1>2. tlb[i].physicalPage \in Frames
    BY <1>1 DEF Typed, MemoryTyped
  <1>3. \A j \in Slots \ {i} : tlb[j].valid => tlb[j].virtualPage # tlb[i].virtualPage
    BY DEF TLBCoherent
  <1>4. \A j \in Slots : tlb[j].valid /\ tlb[j].physicalPage = tlb[i].physicalPage => j = i
    BY <1>1, <1>3
  <1> QED BY <1>1, <1>2, <1>4

\* Emptying the TLB takes no mark away.
LEMMA MarkSaved ==
    ASSUME Typed, ProcsRight, TLBCoherent, MarksAhead, NEW entries, Flushed(entries),
           \A i \in Slots : entries[i].valid => entries[i] = tlb[i],
           NEW g \in Frames,
           ipt[g].dirty \/ \E i \in Slots : /\ entries[i].valid /\ entries[i].dirty
                                            /\ entries[i].physicalPage = g
    PROVE  Marked(g)'
  <1>1. ipt'[g].dirty
    <2>1. CASE /\ \A i \in Slots : ~(entries[i].valid /\ entries[i].physicalPage = g)
               /\ ipt'[g].dirty = ipt[g].dirty
      BY <2>1
    <2>2. CASE \E i \in Slots : /\ entries[i].valid /\ entries[i].physicalPage = g
                                /\ ipt'[g].dirty = entries[i].dirty
      <3> PICK i \in Slots : /\ entries[i].valid /\ entries[i].physicalPage = g
                             /\ ipt'[g].dirty = entries[i].dirty
        BY <2>2
      <3>1. entries[i] = tlb[i] /\ tlb[i].valid /\ tlb[i].physicalPage = g
        OBVIOUS
      <3>2. ipt[g].dirty => entries[i].dirty
        BY <3>1 DEF MarksAhead
      <3>3. \A j \in Slots : entries[j].valid /\ entries[j].physicalPage = g => j = i
        BY <3>1, EntryShown
      <3> QED BY <3>2, <3>3
    <2> QED BY <2>1, <2>2 DEF Flushed
  <1> QED BY <1>1 DEF Marked

\* A step that empties the TLB, of which `entries` are left, keeps the copies of the
\* frames that it does not free, if their marks are left.
LEMMA FlushKeepsCopies ==
    ASSUME Typed, ProcsRight, Coherent, Copied, Coherent', Typed',
           NEW entries, Flushed(entries),
           \A i \in Slots : entries[i].valid => entries[i] = tlb[i],
           dropped \subseteq dropped',
           \A g \in bitmap' : (Marked(g) /\ <<Owner(g), PageIn(g)>> \notin dropped') =>
             (ipt[g].dirty \/ \E i \in Slots : /\ entries[i].valid /\ entries[i].dirty
                                               /\ entries[i].physicalPage = g),
           bitmap' \subseteq bitmap, mainMemory' = mainMemory,
           \A g \in bitmap' : \A o, w : (o = Owner(g) /\ w = PageIn(g)) =>
             /\ pageTable'[o][w].diskLocation = pageTable[o][w].diskLocation
             /\ pageTable'[o][w].swapped = pageTable[o][w].swapped
    PROVE  Copied'
  <1>1. MarksAhead'
    BY DEF Flushed, MarksAhead, Slots
  <1>2. ASSUME NEW o \in Procs, NEW w \in Pages(o)', NEW g \in bitmap', Owner(g)' = o, PageIn(g)' = w,
               <<o, w>> \notin dropped'
        PROVE  IsCopy(g, o, w)'
    <2>1. g \in bitmap /\ g \in Frames
      BY DEF Typed, MemoryTyped
    <2>2. Owner(g) = o /\ PageIn(g) = w
      BY <1>2, <2>1 DEF Flushed, Owner, PageIn
    <2>3. o \in Procs /\ w \in Pages(o)
      BY <2>1, <2>2, FrameInUse DEF Coherent
    <2>4. IsCopy(g, o, w)
      BY <1>2, <2>1, <2>2, <2>3 DEF Copied, CopiesRight
    <2>5. OnDisk(o, w)' = OnDisk(o, w)
      <3>1. /\ pageTable'[o][w].diskLocation = pageTable[o][w].diskLocation
            /\ pageTable'[o][w].swapped = pageTable[o][w].swapped
        BY <2>2
      <3> QED BY Zenon, <3>1 DEF OnDisk
    <2>6. Marked(g) => Marked(g)'
      BY <1>2, <2>1, <2>2, MarkSaved DEF Coherent, Copied
    <2> QED BY <2>4, <2>5, <2>6 DEF IsCopy
  <1>3. CopiesRight'
    BY <1>2 DEF CopiesRight, Procs
  <1> QED BY <1>1, <1>3 DEF Copied

LEMMA WriteKeepsCopies ==
    ASSUME Typed, ProcsRight, Coherent, Copied, NEW v, WriteMem(v)
    PROVE  Copied'
  <1> PICK i \in Hits(v), f \in Frames, bit \in {0, 1} :
             /\ f = tlb[i].physicalPage /\ v \in Writable(currentThread)
             /\ tlb' \in [Slots -> TLBEntry]
             /\ \A j \in Slots \ {i} : tlb'[j] = tlb[j]
             /\ tlb'[i].virtualPage = v /\ tlb'[i].physicalPage = f
             /\ tlb'[i].valid /\ tlb'[i].dirty
             /\ mainMemory' = [mainMemory EXCEPT ![f] = Content(space[currentThread], v, bit)]
    BY WriteFacts
  <1>1. /\ UNCHANGED <<ipt, bitmap, pageTable, space, currentThread, dropped>>
        /\ bitmap \in SUBSET Frames /\ mainMemory \in [Frames -> Held]
    BY DEF WriteMem, procs, history, Typed, MemoryTyped
  <1>2. i \in Slots /\ tlb[i].valid /\ tlb[i].virtualPage = v
    BY DEF Hits
  <1>3. Owner(f) = space[currentThread] /\ PageIn(f) = v
    BY <1>2, EntryShown DEF Coherent
  <1>4. MarksAhead'
    <2> SUFFICES ASSUME NEW j \in Slots, tlb'[j].valid
                 PROVE  ipt'[tlb'[j].physicalPage].dirty => tlb'[j].dirty
      BY DEF MarksAhead, Slots
    <2>1. CASE j = i
      BY <2>1
    <2>2. CASE j # i
      BY <1>1, <2>2 DEF Copied, MarksAhead
    <2> QED BY <2>1, <2>2
  <1>5. \A g \in Frames : Marked(g) => Marked(g)'
    <2> SUFFICES ASSUME NEW g \in Frames, Marked(g)
                 PROVE  Marked(g)'
      OBVIOUS
    <2>1. CASE ipt[g].dirty
      BY <1>1, <2>1 DEF Marked
    <2>2. CASE \E j \in Slots : tlb[j].valid /\ tlb[j].physicalPage = g /\ tlb[j].dirty
      <3> PICK j \in Slots : tlb[j].valid /\ tlb[j].physicalPage = g /\ tlb[j].dirty
        BY <2>2
      <3>1. tlb'[j].valid /\ tlb'[j].physicalPage = g /\ tlb'[j].dirty
        OBVIOUS
      <3> QED BY <3>1 DEF Marked, Slots
    <2> QED BY <2>1, <2>2 DEF Marked
  <1>6. Marked(f)'
    BY <1>2 DEF Marked, Slots
  <1>7. ASSUME NEW o \in Procs, NEW w \in Pages(o)', NEW g \in bitmap', Owner(g)' = o, PageIn(g)' = w,
               <<o, w>> \notin dropped'
        PROVE  IsCopy(g, o, w)'
    <2>1. g \in bitmap /\ g \in Frames /\ w \in Pages(o) /\ Owner(g) = o /\ PageIn(g) = w
      BY <1>1, <1>7 DEF Owner, PageIn, Pages
    <2>2. IsCopy(g, o, w)
      BY <1>1, <1>7, <2>1 DEF Copied, CopiesRight
    <2>3. OnDisk(o, w)' = OnDisk(o, w)
      BY <1>1 DEF OnDisk
    <2>4. CASE g # f
      <3>1. mainMemory'[g] = mainMemory[g]
        BY <1>1, <2>4
      <3> QED BY <1>5, <2>1, <2>2, <2>3, <3>1 DEF IsCopy
    <2>5. CASE g = f
      <3>1. mainMemory'[g] = Content(o, w, bit)
        BY <1>1, <1>3, <2>1, <2>5
      <3> QED BY <1>6, <2>5, <3>1 DEF IsCopy
    <2> QED BY <2>4, <2>5
  <1>8. CopiesRight'
    BY <1>7 DEF CopiesRight, Procs
  <1> QED BY <1>4, <1>8 DEF Copied

LEMMA ResidentKeepsCopies ==
    ASSUME Typed, ProcsRight, Coherent, Copied, NEW v, FaultOnResidentPage(v)
    PROVE  Copied'
  <1> PICK f \in FramesOf(space[currentThread], v), i \in Slots : Refilled(i, tlb, ipt, f)
    BY ResidentFacts
  <1>0. /\ UNCHANGED <<bitmap, pageTable, mainMemory, dropped>>
        /\ bitmap \in SUBSET Frames /\ tlb \in [Slots -> TLBEntry]
    BY DEF FaultOnResidentPage, history, Typed, MemoryTyped
  <1>1. f \in Frames
    BY DEF FramesOf
  <1>2. /\ \A g \in Frames :
             /\ ipt'[g].virtualPage = ipt[g].virtualPage
             /\ ipt'[g].spaceOwner = ipt[g].spaceOwner
             /\ ipt'[g].dirty = IF tlb[i].valid /\ tlb[i].physicalPage = g
                                THEN tlb[i].dirty ELSE ipt[g].dirty
        /\ \A j \in Slots \ {i} : tlb'[j] = tlb[j]
        /\ tlb'[i].physicalPage = f /\ tlb'[i].dirty = ipt'[f].dirty
    BY DEF Refilled
  <1>3. MarksAhead'
    <2> SUFFICES ASSUME NEW j \in Slots, tlb'[j].valid
                 PROVE  ipt'[tlb'[j].physicalPage].dirty => tlb'[j].dirty
      BY DEF MarksAhead, Slots
    <2>1. CASE j = i
      BY <1>2, <2>1
    <2>2. CASE j # i
      <3>1. tlb'[j] = tlb[j] /\ tlb[j].valid /\ tlb[j].physicalPage \in Frames
        BY <1>2, <2>2, EntryShown DEF Coherent
      <3>2. ~(tlb[i].valid /\ tlb[i].physicalPage = tlb[j].physicalPage)
        BY <2>2, <3>1, EntryShown DEF Coherent
      <3>3. ipt'[tlb[j].physicalPage].dirty = ipt[tlb[j].physicalPage].dirty
        BY <1>2, <3>1, <3>2
      <3> QED BY <3>1, <3>3 DEF Copied, MarksAhead
    <2> QED BY <2>1, <2>2
  <1>4. \A g \in Frames : Marked(g) => Marked(g)'
    <2> SUFFICES ASSUME NEW g \in Frames, Marked(g)
                 PROVE  Marked(g)'
      OBVIOUS
    <2>1. CASE tlb[i].valid /\ tlb[i].physicalPage = g
      <3>1. tlb[i].dirty
        <4>1. \A j \in Slots : tlb[j].valid /\ tlb[j].physicalPage = g => j = i
          BY <2>1, EntryShown DEF Coherent
        <4>2. ipt[g].dirty => tlb[i].dirty
          BY <2>1 DEF Copied, MarksAhead
        <4> QED BY <4>1, <4>2 DEF Marked
      <3>2. ipt'[g].dirty
        BY <1>2, <2>1, <3>1
      <3> QED BY <3>2 DEF Marked
    <2>2. CASE ipt[g].dirty /\ ~(tlb[i].valid /\ tlb[i].physicalPage = g)
      <3>1. ipt'[g].dirty
        BY <1>2, <2>2
      <3> QED BY <3>1 DEF Marked
    <2>3. CASE (\E j \in Slots : tlb[j].valid /\ tlb[j].physicalPage = g /\ tlb[j].dirty)
               /\ ~(tlb[i].valid /\ tlb[i].physicalPage = g)
      <3> PICK j \in Slots : tlb[j].valid /\ tlb[j].physicalPage = g /\ tlb[j].dirty
        BY <2>3
      <3>1. j # i
        BY <2>3
      <3>2. tlb'[j].valid /\ tlb'[j].physicalPage = g /\ tlb'[j].dirty
        BY <1>2, <3>1
      <3> QED BY <3>2 DEF Marked, Slots
    <2> QED BY <2>1, <2>2, <2>3 DEF Marked
  <1>5. ASSUME NEW o \in Procs, NEW w \in Pages(o)', NEW g \in bitmap', Owner(g)' = o, PageIn(g)' = w,
               <<o, w>> \notin dropped'
        PROVE  IsCopy(g, o, w)'
    <2>1. g \in bitmap /\ g \in Frames /\ w \in Pages(o)
      BY <1>0 DEF Pages
    <2>2. Owner(g) = o /\ PageIn(g) = w
      BY <1>2, <1>5, <2>1 DEF Owner, PageIn
    <2>3. IsCopy(g, o, w)
      BY <1>0, <1>5, <2>1, <2>2 DEF Copied, CopiesRight
    <2>4. OnDisk(o, w)' = OnDisk(o, w)
      BY <1>0 DEF OnDisk
    <2> QED BY <1>0, <1>4, <2>1, <2>3, <2>4 DEF IsCopy
  <1>6. CopiesRight'
    BY <1>5 DEF CopiesRight, Procs
  <1> QED BY <1>3, <1>6 DEF Copied

\* A frame is filled with what the disk has of its page; the marks of the others are kept.
LEMMA FillKeepsCopies ==
    ASSUME Typed, Typed', ProcsRight, Coherent, Coherent', Copied,
           NEW v, NEW f, NEW i, NEW p, NEW entries, NEW pages, NEW d,
           FilledIn(v, f, i, p, entries, pages, d),
           p \in Procs, v \in Pages(p), bitmap' \subseteq bitmap \cup {f},
           \A j \in Slots : entries[j].valid => entries[j] = tlb[j] /\ tlb[j].physicalPage # f,
           dropped \subseteq dropped',
           \A g \in bitmap \ {f} : (Marked(g) /\ <<Owner(g), PageIn(g)>> \notin dropped') =>
             (ipt[g].dirty \/ \E j \in Slots : /\ entries[j].valid /\ entries[j].dirty
                                               /\ entries[j].physicalPage = g),
           \A g \in bitmap \ {f} : \A o, w : (o = Owner(g) /\ w = PageIn(g)) =>
             /\ pages[o][w].diskLocation = pageTable[o][w].diskLocation
             /\ pages[o][w].swapped = pageTable[o][w].swapped
    PROVE  Copied'
  <1>0. /\ i \in Slots /\ f \in Frames
        /\ \A q \in Procs : Pages(q)' = Pages(q)
    BY DEF FilledIn, SamePages, Pages
  <1>1. /\ \A g \in Frames \ {f} : Owner(g)' = Owner(g) /\ PageIn(g)' = PageIn(g)
        /\ \A g \in Frames \ {f} : ipt'[g].dirty = IF entries[i].valid /\ entries[i].physicalPage = g
                                                   THEN entries[i].dirty ELSE ipt[g].dirty
        /\ \A j \in Slots \ {i} : tlb'[j] = entries[j]
        /\ tlb'[i].physicalPage = f /\ tlb'[i].dirty = ipt'[f].dirty
        /\ \A g \in Frames \ {f} : mainMemory'[g] = mainMemory[g]
        /\ mainMemory'[f] = DiskHas(pages, p, v)
        /\ Owner(f)' = p /\ PageIn(f)' = v
    BY DEF FilledIn, Owner, PageIn
  <1>2. \A q \in Procs : \A w \in Pages(q) :
         /\ pageTable'[q][w].diskLocation = pages[q][w].diskLocation
         /\ pageTable'[q][w].swapped = pages[q][w].swapped
    BY DEF FilledIn
  <1>3. ASSUME NEW j \in Slots, NEW k \in Slots, entries[j].valid, entries[k].valid,
               entries[j].physicalPage = entries[k].physicalPage
        PROVE  j = k
    <2>1. /\ tlb[j].valid /\ tlb[k].valid /\ tlb[j].physicalPage = tlb[k].physicalPage
      BY <1>3
    <2> QED BY <2>1, EntryShown DEF Coherent
  <1>4. MarksAhead'
    <2> SUFFICES ASSUME NEW j \in Slots, tlb'[j].valid
                 PROVE  ipt'[tlb'[j].physicalPage].dirty => tlb'[j].dirty
      BY DEF MarksAhead, Slots
    <2>1. CASE j = i
      BY <1>1, <2>1
    <2>2. CASE j # i
      <3>1. /\ tlb'[j] = entries[j] /\ entries[j] = tlb[j] /\ tlb[j].valid
            /\ tlb[j].physicalPage # f
        BY <1>1, <2>2
      <3>2. tlb[j].physicalPage \in Frames
        BY <3>1, EntryShown DEF Coherent
      <3>3. ~(entries[i].valid /\ entries[i].physicalPage = entries[j].physicalPage)
        BY <1>0, <1>3, <2>2, <3>1
      <3>4. ipt'[tlb[j].physicalPage].dirty = ipt[tlb[j].physicalPage].dirty
        BY <1>1, <3>1, <3>2, <3>3
      <3> QED BY <3>1, <3>4 DEF Copied, MarksAhead
    <2> QED BY <2>1, <2>2
  <1>5. ASSUME NEW g \in bitmap \ {f}, g \in Frames, Marked(g),
               <<Owner(g), PageIn(g)>> \notin dropped'
        PROVE  Marked(g)'
    <2>1. CASE entries[i].valid /\ entries[i].physicalPage = g
      <3>1. entries[i] = tlb[i] /\ tlb[i].valid /\ tlb[i].physicalPage = g
        BY <1>0, <2>1
      <3>2. tlb[i].dirty
        <4>1. \A j \in Slots : tlb[j].valid /\ tlb[j].physicalPage = g => j = i
          BY <1>0, <3>1, EntryShown DEF Coherent
        <4>2. ipt[g].dirty => tlb[i].dirty
          BY <1>0, <3>1 DEF Copied, MarksAhead
        <4>3. CASE ipt[g].dirty
          BY <4>2, <4>3
        <4>4. CASE \E j \in Slots : tlb[j].valid /\ tlb[j].physicalPage = g /\ tlb[j].dirty
          BY <4>1, <4>4
        <4> QED BY <1>5, <4>3, <4>4 DEF Marked
      <3>3. entries[i].dirty
        BY <3>1, <3>2
      <3>4. g \in Frames \ {f}
        BY <1>5
      <3>5. ipt'[g].dirty = entries[i].dirty
        BY <1>1, <2>1, <3>4
      <3> QED BY <3>3, <3>5 DEF Marked
    <2>2. CASE ipt[g].dirty /\ ~(entries[i].valid /\ entries[i].physicalPage = g)
      <3>1. ipt'[g].dirty
        BY <1>1, <1>5, <2>2
      <3> QED BY <3>1 DEF Marked
    <2>3. CASE (\E j \in Slots : entries[j].valid /\ entries[j].dirty /\ entries[j].physicalPage = g)
               /\ ~(entries[i].valid /\ entries[i].physicalPage = g)
      <3> PICK j \in Slots : entries[j].valid /\ entries[j].dirty /\ entries[j].physicalPage = g
        BY <2>3
      <3>1. j # i
        BY <2>3
      <3>2. tlb'[j].valid /\ tlb'[j].physicalPage = g /\ tlb'[j].dirty
        BY <1>1, <3>1
      <3> QED BY <3>2 DEF Marked, Slots
    <2> QED BY <1>5, <2>1, <2>2, <2>3
  <1>6. ASSUME NEW o \in Procs, NEW w \in Pages(o)', NEW g \in bitmap', Owner(g)' = o, PageIn(g)' = w,
               <<o, w>> \notin dropped'
        PROVE  IsCopy(g, o, w)'
    <2>1. w \in Pages(o) /\ g \in Frames
      BY <1>0 DEF Typed, MemoryTyped, Frames
    <2>2. OnDisk(o, w)' = DiskHas(pages, o, w)
      <3>1. /\ pageTable'[o][w].diskLocation = pages[o][w].diskLocation
            /\ pageTable'[o][w].swapped = pages[o][w].swapped
        BY <1>2, <2>1
      <3> QED BY Zenon, <3>1 DEF OnDisk, DiskHas
    <2>3. CASE g = f
      BY <1>1, <1>6, <2>2, <2>3 DEF IsCopy
    <2>4. CASE g # f
      <3>1. g \in bitmap /\ Owner(g) = o /\ PageIn(g) = w
        BY <1>1, <1>6, <2>1, <2>4
      <3>2. /\ pages[o][w].diskLocation = pageTable[o][w].diskLocation
            /\ pages[o][w].swapped = pageTable[o][w].swapped
        BY <2>4, <3>1
      <3>3. DiskHas(pages, o, w) = OnDisk(o, w)
        BY Zenon, <3>2 DEF OnDisk, DiskHas
      <3>4. IsCopy(g, o, w)
        BY <1>6, <2>1, <3>1 DEF Copied, CopiesRight
      <3>5. mainMemory'[g] = mainMemory[g]
        BY <1>1, <2>1, <2>4
      <3>6. Marked(g) => Marked(g)'
        BY <1>5, <1>6, <2>1, <2>4, <3>1
      <3> QED BY <2>2, <3>3, <3>4, <3>5, <3>6 DEF IsCopy
    <2> QED BY <2>3, <2>4
  <1>7. CopiesRight'
    BY <1>6 DEF CopiesRight, Procs
  <1> QED BY <1>4, <1>7 DEF Copied

LEMMA FreeKeepsCopies ==
    ASSUME Typed, Typed', ProcsRight, Coherent, Coherent', Copied, NEW v, FaultWithFreeFrame(v)
    PROVE  Copied'
  <1>1. RunsUser /\ v \in Usable(currentThread)
    BY DEF FaultWithFreeFrame, Faults
  <1> PICK f \in Frames, i \in Slots, p \in Procs :
             /\ f \notin bitmap /\ bitmap' = bitmap \cup {f}
             /\ FilledIn(v, f, i, p, tlb, pageTable, ipt[f].dirty)
    BY FreeFacts
  <1>2. v \in Pages(p)
    BY <1>1, Running DEF FilledIn, Typed, ProcsRight
  <1>3. \A j \in Slots : tlb[j].valid => tlb[j] = tlb[j] /\ tlb[j].physicalPage # f
    BY DEF Coherent, TLBCoherent
  <1>4. \A g \in bitmap \ {f} : Marked(g) =>
             (ipt[g].dirty \/ \E j \in Slots : /\ tlb[j].valid /\ tlb[j].dirty
                                               /\ tlb[j].physicalPage = g)
    BY DEF Marked
  <1>5. dropped' = dropped
    BY DEF FaultWithFreeFrame, history
  <1> QED BY <1>2, <1>3, <1>4, <1>5, FillKeepsCopies

\* The pages whose marks are dropped are the running process's, and those of the
\* entries that had the only ones.
LEMMA MarksLost ==
    ASSUME Typed, ProcsRight, TLBCoherent, NEW S, S \subseteq Slots, LosesMarks(S)
    PROVE  /\ dropped \subseteq dropped'
           /\ \A q, w : <<q, w>> \in dropped' \ dropped => q = space[currentThread]
           /\ \A i \in S : (tlb[i].valid /\ tlb[i].dirty /\ ~ipt[tlb[i].physicalPage].dirty) =>
                <<Owner(tlb[i].physicalPage), PageIn(tlb[i].physicalPage)>> \in dropped'
  <1>1. \A i \in Slots : tlb[i].valid => /\ tlb[i].physicalPage \in Frames
                                         /\ Owner(tlb[i].physicalPage) = space[currentThread]
    BY EntryShown
  <1>2. dropped' = dropped \cup
          {<<Owner(f), PageIn(f)>> :
             f \in {tlb[i].physicalPage : i \in {j \in S : tlb[j].valid /\ tlb[j].dirty}}
                  \cap {f \in Frames : ~ipt[f].dirty}}
    BY DEF LosesMarks, Owner, PageIn
  <1>3. ASSUME NEW q, NEW w, <<q, w>> \in dropped' \ dropped
        PROVE  q = space[currentThread]
    BY <1>1, <1>2, <1>3
  <1>4. ASSUME NEW i \in S, tlb[i].valid, tlb[i].dirty, ~ipt[tlb[i].physicalPage].dirty
        PROVE  <<Owner(tlb[i].physicalPage), PageIn(tlb[i].physicalPage)>> \in dropped'
    BY <1>1, <1>2, <1>4
  <1> QED BY <1>2, <1>3, <1>4

\* An entry of the TLB that is taken for that of an evicted page of another process
\* has its mark in the inverted page table, or drops it.
LEMMA EvictionKeepsCopies ==
    ASSUME Typed, Typed', ProcsRight, Coherent, Coherent', Copied,
           NEW v, FaultWithEviction(v)
    PROVE  Copied'
  <1>1. RunsUser /\ v \in Usable(currentThread)
    BY DEF FaultWithEviction, Faults
  <1> PICK f \in Frames, i \in Slots, p \in Procs, entries \in [Slots -> TLBEntry],
           pages \in [Procs -> Table], d \in BOOLEAN :
             /\ Evicted(f, entries, pages, d) /\ FilledIn(v, f, i, p, entries, pages, d)
             /\ bitmap = Frames /\ bitmap' = bitmap
             /\ LosesMarks({j \in Slots : MatchesEvicted(f, tlb[j]) /\ tlb[j].physicalPage # f})
    BY EvictionFacts
  <1> DEFINE lost == {j \in Slots : MatchesEvicted(f, tlb[j]) /\ tlb[j].physicalPage # f}
  <1>2. v \in Pages(p)
    BY <1>1, Running DEF FilledIn, Typed, ProcsRight
  <1>3. ASSUME NEW j \in Slots, entries[j].valid
        PROVE  entries[j] = tlb[j] /\ tlb[j].physicalPage # f
    <2>1. ~MatchesEvicted(f, tlb[j]) /\ entries[j] = tlb[j] /\ tlb[j].valid
      BY <1>3 DEF Evicted
    <2> QED BY <2>1 DEF Coherent, TLBCoherent, MatchesEvicted
  <1>4. ASSUME NEW g \in bitmap \ {f}
        PROVE  ~(Owner(g) = Owner(f) /\ PageIn(g) = PageIn(f))
    <2>1. pageTable[Owner(g)][PageIn(g)].physicalPage = g
      BY FrameInUse DEF Coherent
    <2>2. pageTable[Owner(f)][PageIn(f)].physicalPage = f
      BY FrameInUse DEF Coherent
    <2> QED BY <2>1, <2>2
  <1>5. /\ dropped \subseteq dropped'
        /\ \A j \in lost : (tlb[j].valid /\ tlb[j].dirty /\ ~ipt[tlb[j].physicalPage].dirty) =>
             <<Owner(tlb[j].physicalPage), PageIn(tlb[j].physicalPage)>> \in dropped'
    <2>1. LosesMarks(lost) /\ lost \subseteq Slots
      OBVIOUS
    <2> HIDE DEF lost
    <2> QED BY <2>1, MarksLost DEF Coherent
  <1>6. ASSUME NEW g \in bitmap \ {f}, Marked(g), ~ipt[g].dirty,
               <<Owner(g), PageIn(g)>> \notin dropped'
        PROVE  \E j \in Slots : /\ entries[j].valid /\ entries[j].dirty
                                /\ entries[j].physicalPage = g
    <2> PICK j \in Slots : tlb[j].valid /\ tlb[j].physicalPage = g /\ tlb[j].dirty
      BY <1>6 DEF Marked
    <2>1. CASE ~MatchesEvicted(f, tlb[j])
      <3>1. entries[j] = tlb[j]
        BY <2>1 DEF Evicted
      <3> QED BY <3>1
    <2>2. CASE MatchesEvicted(f, tlb[j])
      <3>1. j \in lost
        BY <2>2
      <3>2. <<Owner(g), PageIn(g)>> \in dropped'
        BY <1>6, <1>5, <3>1
      <3> QED BY <1>6, <3>2
    <2> QED BY <2>1, <2>2
  <1>7. ASSUME NEW g \in bitmap \ {f}, NEW o, NEW w, o = Owner(g) /\ w = PageIn(g)
        PROVE  /\ pages[o][w].diskLocation = pageTable[o][w].diskLocation
               /\ pages[o][w].swapped = pageTable[o][w].swapped
    <2>1. o \in Procs /\ w \in Pages(o)
      BY <1>7, FrameInUse DEF Coherent
    <2>2. ~(o = Owner(f) /\ w = PageIn(f))
      BY <1>4, <1>7
    <2>3. pages[o][w] = pageTable[o][w]
      BY <2>1, <2>2 DEF Evicted
    <2> QED BY <2>3
  <1> QED BY <1>2, <1>3, <1>5, <1>6, <1>7, FillKeepsCopies

\* The running thread's TLB is emptied, and nothing is freed.
LEMMA SwitchKeepsCopies ==
    ASSUME Typed, Typed', ProcsRight, Coherent, Coherent', Copied, NEW t \in Threads, SwitchTo(t)
    PROVE  Copied'
  <1>1. Flushed(tlb) /\ UNCHANGED <<bitmap, mainMemory, pageTable>>
    BY SwitchKeepsProcs DEF SwitchTo
  <1>2. \A g \in bitmap' : Marked(g) =>
             (ipt[g].dirty \/ \E i \in Slots : /\ tlb[i].valid /\ tlb[i].dirty
                                               /\ tlb[i].physicalPage = g)
    BY DEF Marked
  <1>4. dropped' = dropped
    BY DEF SwitchTo, history
  <1> QED BY <1>1, <1>2, <1>4, FlushKeepsCopies

LEMMA ForkKeepsCopies ==
    ASSUME Typed, Typed', ProcsRight, Coherent, Coherent', Copied, Fork
    PROVE  Copied'
  <1> PICK t \in Threads, p \in Procs, n \in Nat : Forked(t, p, n)
    BY ForkFacts
  <1>1. Flushed(tlb) /\ UNCHANGED <<bitmap, mainMemory>>
    BY ForkTyped DEF Fork
  <1>2. \A g \in bitmap' : Marked(g) =>
             (ipt[g].dirty \/ \E i \in Slots : /\ tlb[i].valid /\ tlb[i].dirty
                                               /\ tlb[i].physicalPage = g)
    BY DEF Marked
  <1>3. ASSUME NEW g \in bitmap', NEW o, NEW w, o = Owner(g) /\ w = PageIn(g)
        PROVE  /\ pageTable'[o][w].diskLocation = pageTable[o][w].diskLocation
               /\ pageTable'[o][w].swapped = pageTable[o][w].swapped
    <2>1. o \in Procs /\ w \in Pages(o)
      BY <1>1, <1>3, FrameInUse DEF Coherent
    <2>2. CASE o = p
      <3>1. w \in 0 .. n - 1
        BY <2>1, <2>2 DEF Forked
      <3>2. StackPages \in Nat
        BY Constants
      <3>3. w \in 0 .. n + StackPages - 1 /\ w < n
        BY <3>1, <3>2
      <3> QED BY <2>2, <3>3 DEF Forked
    <2>3. CASE o # p
      BY <2>1, <2>3 DEF Forked
    <2> QED BY <2>2, <2>3
  <1>4. dropped' = dropped
    BY DEF Fork, history
  <1> QED BY <1>1, <1>2, <1>3, <1>4, FlushKeepsCopies

LEMMA ExitProcessKeepsCopies ==
    ASSUME Typed, Typed', ProcsRight, Coherent, Coherent', Copied, ExitProcess
    PROVE  Copied'
  <1> PICK t \in Threads, p \in Procs :
             /\ Leaves(t, p)
             /\ bitmap' = bitmap \ {f \in Frames : ipt[f].spaceOwner = p}
    BY ExitProcessFacts
  <1>1. Flushed(tlb) /\ UNCHANGED mainMemory /\ bitmap \in SUBSET Frames
    BY ExitProcessTyped DEF ExitProcess, Typed, MemoryTyped
  <1>2. \A g \in bitmap' : Marked(g) =>
             (ipt[g].dirty \/ \E i \in Slots : /\ tlb[i].valid /\ tlb[i].dirty
                                               /\ tlb[i].physicalPage = g)
    BY DEF Marked
  <1>3. ASSUME NEW g \in bitmap', NEW o, NEW w, o = Owner(g) /\ w = PageIn(g)
        PROVE  /\ pageTable'[o][w].diskLocation = pageTable[o][w].diskLocation
               /\ pageTable'[o][w].swapped = pageTable[o][w].swapped
    <2>1. g \in bitmap /\ g \in Frames /\ o # p
      BY <1>1, <1>3 DEF Owner
    <2>2. o \in Procs
      BY <1>3, <2>1, FrameInUse DEF Coherent
    <2> QED BY <2>1, <2>2 DEF Leaves
  <1>4. dropped' = dropped
    BY DEF ExitProcess, history
  <1> QED BY <1>1, <1>2, <1>3, <1>4, FlushKeepsCopies

\* The marks that DeleteCurrentThread loses are those that count as dropped.
LEMMA ExitThreadKeepsCopies ==
    ASSUME Typed, Typed', ProcsRight, Coherent, Coherent', Copied, ExitThread
    PROVE  Copied'
  <1> PICK t \in Threads, p \in Procs :
             /\ Leaves(t, p) /\ threadCount[p] > 1 /\ DOMAIN pageTable'[p] = Pages(p)
             /\ \A v \in Pages(p) :
                  pageTable'[p][v] = IF v \in StackOf(t)
                                     THEN OnFrame(pageTable[p][v], -1)
                                     ELSE pageTable[p][v]
             /\ \E freed \in FreedFrames(t) : bitmap' = bitmap \ freed
    BY ExitThreadFacts
  <1>0. /\ LeftBy(t) \in [Slots -> TLBEntry] /\ Flushed(LeftBy(t)) /\ UNCHANGED mainMemory
        /\ bitmap' \subseteq bitmap /\ bitmap \in SUBSET Frames
        /\ pageTable \in [Procs -> Table] /\ threadCount \in [Procs -> Nat]
        /\ t = currentThread /\ p = space[t]
    BY ExitThreadTyped DEF ExitThread, Leaves, Typed, MemoryTyped, ProcsTyped
  <1>1. \A i \in Slots : LeftBy(t)[i] = IF DropsEntry(t, tlb[i]) THEN Invalid ELSE tlb[i]
    BY DEF LeftBy
  <1>2. \A i \in Slots : LeftBy(t)[i].valid => LeftBy(t)[i] = tlb[i]
    BY <1>1 DEF Invalid
  <1>3. \A v \in Pages(p) : /\ pageTable'[p][v].diskLocation = pageTable[p][v].diskLocation
                            /\ pageTable'[p][v].swapped = pageTable[p][v].swapped
                            /\ v \in StackOf(t) => pageTable'[p][v].physicalPage = -1
    <2> SUFFICES ASSUME NEW v \in Pages(p)
                 PROVE  /\ pageTable'[p][v].diskLocation = pageTable[p][v].diskLocation
                        /\ pageTable'[p][v].swapped = pageTable[p][v].swapped
                        /\ v \in StackOf(t) => pageTable'[p][v].physicalPage = -1
      OBVIOUS
    <2>1. pageTable[p][v] \in Entry
      BY <1>0, TableShape DEF Pages
    <2> QED BY <2>1, EntryChanged
  <1>4. ASSUME NEW g \in bitmap', NEW o, NEW w, o = Owner(g) /\ w = PageIn(g)
        PROVE  /\ o \in Procs /\ w \in Pages(o)
               /\ pageTable'[o][w].diskLocation = pageTable[o][w].diskLocation
               /\ pageTable'[o][w].swapped = pageTable[o][w].swapped
               /\ pageTable'[o][w].physicalPage = g
    <2>1. o \in Procs /\ w \in Pages(o) /\ g \in Frames
      BY <1>0, <1>4, FrameInUse DEF Coherent
    <2>2. Owner(g)' = o /\ PageIn(g)' = w
      BY <1>0, <1>4, <2>1 DEF Flushed, Owner, PageIn
    <2>3. pageTable'[o][w].physicalPage = g
      BY <2>2 DEF Coherent, FramesRight
    <2>4. CASE o = p
      BY <1>3, <2>1, <2>3, <2>4
    <2>5. CASE o # p
      BY <2>1, <2>3, <2>5 DEF Leaves
    <2> QED BY <2>1, <2>4, <2>5
  <1> DEFINE gone == {i \in Slots : DropsEntry(t, tlb[i])}
  <1>5. /\ dropped \subseteq dropped'
        /\ \A i \in gone : (tlb[i].valid /\ tlb[i].dirty /\ ~ipt[tlb[i].physicalPage].dirty) =>
             <<Owner(tlb[i].physicalPage), PageIn(tlb[i].physicalPage)>> \in dropped'
    <2>1. LosesMarks(gone) /\ gone \subseteq Slots
      BY <1>0 DEF ExitThread
    <2> HIDE DEF gone
    <2> QED BY <2>1, MarksLost DEF Coherent
  <1>6. ASSUME NEW g \in bitmap', Marked(g), ~ipt[g].dirty, <<Owner(g), PageIn(g)>> \notin dropped'
        PROVE  \E i \in Slots : /\ LeftBy(t)[i].valid /\ LeftBy(t)[i].dirty
                                /\ LeftBy(t)[i].physicalPage = g
    <2> PICK i \in Slots : tlb[i].valid /\ tlb[i].physicalPage = g /\ tlb[i].dirty
      BY <1>6 DEF Marked
    <2>1. ~DropsEntry(t, tlb[i])
      BY <1>5, <1>6
    <2>2. LeftBy(t)[i] = tlb[i]
      BY <1>1, <2>1
    <2> QED BY <2>2
  <1> QED BY <1>0, <1>2, <1>4, <1>5, <1>6, FlushKeepsCopies

\* Exec changes nothing of what exists.
LEMMA ExecKeepsCopies ==
    ASSUME Typed, Typed', ProcsRight, Coherent, Coherent', Copied, Exec
    PROVE  Copied'
  <1> PICK t \in Threads, p \in Procs : Execed(t, p)
    BY ExecFacts
  <1>0. UNCHANGED <<tlb, ipt, mainMemory, bitmap, dropped>>
    BY DEF Exec, mmu, history
  <1>1. MarksAhead'
    BY <1>0 DEF Copied, MarksAhead, Slots
  <1>2. ASSUME NEW o \in Procs, NEW w \in Pages(o)', NEW g \in bitmap', Owner(g)' = o, PageIn(g)' = w,
               <<o, w>> \notin dropped'
        PROVE  IsCopy(g, o, w)'
    <2>1. g \in bitmap /\ Owner(g) = o /\ PageIn(g) = w
      BY <1>0, <1>2 DEF Owner, PageIn
    <2>2. w \in Pages(o)
      BY <2>1, FrameInUse DEF Coherent
    <2>3. o # p
      BY <2>2 DEF Execed
    <2>4. pageTable'[o] = pageTable[o]
      BY <2>3 DEF Execed
    <2>5. OnDisk(o, w)' = OnDisk(o, w)
      BY <2>4 DEF OnDisk
    <2>6. IsCopy(g, o, w)
      BY <1>0, <1>2, <2>1, <2>2 DEF Copied, CopiesRight
    <2>7. Marked(g)' <=> Marked(g)
      BY <1>0 DEF Marked, Slots
    <2> QED BY <1>0, <2>5, <2>6, <2>7 DEF IsCopy
  <1>3. CopiesRight'
    BY <1>2 DEF CopiesRight, Procs
  <1> QED BY <1>1, <1>3 DEF Copied

\* A step that changes neither memory nor page tables nor who runs.
SameMemory == UNCHANGED <<tlb, ipt, mainMemory, bitmap, pageTable, stackLocations, space,
                          threadCount, processCount, currentThread, strayFree, dropped>>

LEMMA SameKeeps ==
    ASSUME SameMemory
    PROVE  (Coherent => Coherent') /\ (Copied => Copied')
  <1>1. /\ tlb' = tlb /\ ipt' = ipt /\ mainMemory' = mainMemory /\ bitmap' = bitmap
        /\ pageTable' = pageTable /\ stackLocations' = stackLocations /\ space' = space
        /\ threadCount' = threadCount /\ processCount' = processCount
        /\ currentThread' = currentThread /\ dropped' = dropped
    BY DEF SameMemory
  <1>2. RunningProcs' = RunningProcs
    BY <1>1 DEF RunningProcs
  <1>3. \A q : UsedPages(q)' = UsedPages(q) /\ Pages(q)' = Pages(q)
    BY <1>1 DEF UsedPages, OwnStack, StackOf, Pages
  <1>4. \A q, w : InUse(q, w)' <=> InUse(q, w)
    BY <1>2, <1>3 DEF InUse
  <1>5. Coherent => ForkedStacksKnown'
    BY <1>1, <1>3 DEF Coherent, ForkedStacksKnown
  <1>6. Coherent => TLBCoherent'
    BY <1>1 DEF Coherent, TLBCoherent
  <1>7. \A g : Owner(g)' = Owner(g) /\ PageIn(g)' = PageIn(g)
    BY <1>1 DEF Owner, PageIn
  <1>8. Coherent => FramesRight'
    BY <1>1, <1>2, <1>3 DEF Coherent, FramesRight, InUse, Owner, PageIn, Pages, UsedPages, OwnStack, StackOf
  <1>9. Copied => MarksAhead'
    BY <1>1 DEF Copied, MarksAhead
  <1>10. Copied => CopiesRight'
    BY <1>1, <1>3, <1>7 DEF Copied, CopiesRight, IsCopy, OnDisk, Marked
  <1> QED BY <1>5, <1>6, <1>8, <1>9, <1>10 DEF Coherent, Copied

LEMMA CoherentInit == Init => Coherent /\ Copied
  <1> SUFFICES ASSUME Init PROVE Coherent /\ Copied
    OBVIOUS
  <1>1. /\ bitmap = {} /\ \A i \in Slots : ~tlb[i].valid
        /\ \A g \in Frames : ~ipt[g].valid
        /\ pageTable = [q \in Procs |-> IF q = 1 THEN NewSpace(1) ELSE <<>>]
    <2>1. \A i \in Slots : ~tlb[i].valid
      BY DEF Init, MachineOn, Invalid
    <2>2. bitmap = {} /\ \A g \in Frames : ~ipt[g].valid
      <3> PICK options : Initialize(options)
        BY DEF Init
      <3>1. /\ bitmap = {}
            /\ ipt = [g \in Frames |-> [virtualPage |-> 0, spaceOwner |-> 0,
                                        valid |-> FALSE, dirty |-> FALSE]]
        BY Zenon DEF Initialize
      <3> QED BY <3>1
    <2>3. pageTable = [q \in Procs |-> IF q = 1 THEN NewSpace(1) ELSE <<>>]
      BY DEF Init, StartProcess
    <2> QED BY <2>1, <2>2, <2>3
  <1>2. 1 \in Procs /\ Garbage \notin Frames
    BY Constants
  <1>3. /\ Pages(1) = 0 .. TopOf(1) + StackPages - 1
        /\ \A v \in Pages(1) : pageTable[1][v].physicalPage = Garbage
    BY <1>1, <1>2, NewSpaceTyped DEF Pages
  <1>4. \A q \in Procs \ {1} : Pages(q) = {}
    BY <1>1, EmptyTable DEF Pages
  <1>5. ForkedStacksKnown
    <2> SUFFICES ASSUME NEW q \in Procs, NEW v \in Pages(q), v >= TopOf(q) + StackPages
                 PROVE  FALSE
      BY DEF ForkedStacksKnown
    <2>1. q = 1
      BY <1>4
    <2>2. StackPages \in Nat /\ TopOf(1) \in Nat
      BY <1>2, Constants
    <2> QED BY <1>3, <2>1, <2>2
  <1>6. FramesRight
    <2>1. ASSUME NEW q \in RunningProcs, NEW v \in Pages(q), NEW f \in Frames,
                 pageTable[q][v].physicalPage = f
          PROVE  FALSE
      BY <1>2, <1>3, <1>4, <2>1 DEF RunningProcs
    <2> QED BY <1>1, <2>1 DEF FramesRight
  <1>7. TLBCoherent /\ MarksAhead /\ CopiesRight
    BY <1>1 DEF TLBCoherent, MarksAhead, CopiesRight
  <1> QED BY <1>5, <1>6, <1>7 DEF Coherent, Copied

LEMMA StutterSame ==
    ExecFails \/ ExitHalts \/ UNCHANGED vars => SameMemory
  BY DEF ExecFails, ExitHalts, vars, SameMemory, mmu, procs, history

LEMMA CoherentStep ==
    ASSUME ~strayFree', Typed, Typed', ProcsRight, ProcsRight', Coherent, [Next]_vars
    PROVE  Coherent'
  <1>1. ASSUME NEW v, WriteMem(v)
        PROVE  Coherent'
    BY <1>1, WriteKeeps
  <1>2. ASSUME NEW v, FaultOnResidentPage(v)
        PROVE  Coherent'
    BY <1>2, ResidentKeeps
  <1>3. ASSUME NEW v, FaultWithFreeFrame(v)
        PROVE  Coherent'
    BY <1>3, FreeKeeps
  <1>4. ASSUME NEW v, FaultWithEviction(v)
        PROVE  Coherent'
    BY <1>4, EvictionKeeps
  <1>5. ASSUME NEW t \in Threads, SwitchTo(t)
        PROVE  Coherent'
    <2>1. Flushed(tlb) /\ UNCHANGED <<bitmap, pageTable, procs>>
      BY <1>5, SwitchKeepsProcs DEF SwitchTo
    <2>2. SameProcs /\ UNCHANGED <<bitmap, pageTable>>
      BY <2>1 DEF SameProcs, SamePages, procs
    <2>3. ForkedStacksKnown' /\ FramesRight'
      BY <2>1, <2>2, TablesKeep DEF Flushed
    <2> QED BY <2>1, <2>3, FlushCoherent DEF Coherent
  <1>6. CASE Fork
    BY <1>6, ForkKeeps
  <1>7. CASE Exec
    BY <1>7, ExecKeeps
  <1>8. CASE ExitProcess
    BY <1>8, ExitProcessKeeps
  <1>9. CASE ExitThread
    BY <1>9, ExitThreadKeeps
  <1>10. CASE ExecFails \/ ExitHalts \/ UNCHANGED vars
    BY <1>10, StutterSame, SameKeeps
  <1> QED BY <1>1, <1>2, <1>3, <1>4, <1>5, <1>6, <1>7, <1>8, <1>9, <1>10 DEF Next

LEMMA CopiedStep ==
    ASSUME Typed, Typed', ProcsRight, Coherent, Coherent', Copied, [Next]_vars
    PROVE  Copied'
  <1>1. ASSUME NEW v, WriteMem(v)
        PROVE  Copied'
    BY <1>1, WriteKeepsCopies
  <1>2. ASSUME NEW v, FaultOnResidentPage(v)
        PROVE  Copied'
    BY <1>2, ResidentKeepsCopies
  <1>3. ASSUME NEW v, FaultWithFreeFrame(v)
        PROVE  Copied'
    BY <1>3, FreeKeepsCopies
  <1>4. ASSUME NEW v, FaultWithEviction(v)
        PROVE  Copied'
    BY <1>4, EvictionKeepsCopies
  <1>5. ASSUME NEW t \in Threads, SwitchTo(t)
        PROVE  Copied'
    BY <1>5, SwitchKeepsCopies
  <1>6. CASE Fork
    BY <1>6, ForkKeepsCopies
  <1>7. CASE Exec
    BY <1>7, ExecKeepsCopies
  <1>8. CASE ExitProcess
    BY <1>8, ExitProcessKeepsCopies
  <1>9. CASE ExitThread
    BY <1>9, ExitThreadKeepsCopies
  <1>10. CASE ExecFails \/ ExitHalts \/ UNCHANGED vars
    BY <1>10, StutterSame, SameKeeps
  <1> QED BY <1>1, <1>2, <1>3, <1>4, <1>5, <1>6, <1>7, <1>8, <1>9, <1>10 DEF Next

\* Once an exit has gone astray, that is remembered.
LEMMA StrayStays == strayFree /\ [Next]_vars => strayFree'
  <1> SUFFICES ASSUME strayFree, [Next]_vars PROVE strayFree'
    OBVIOUS
  <1>1. ASSUME NEW v, FaultWithEviction(v) PROVE strayFree'
    <2>1. \E f, queue : Evict(f, v, queue)
      BY Zenon, <1>1 DEF FaultWithEviction
    <2>2. UNCHANGED strayFree
      BY Zenon, <2>1 DEF Evict
    <2> QED BY <2>2
  <1>2. ASSUME NEW v, WriteMem(v) \/ FaultOnResidentPage(v) \/ FaultWithFreeFrame(v)
        PROVE  strayFree'
    BY <1>2 DEF WriteMem, FaultOnResidentPage, FaultWithFreeFrame, history
  <1>3. ASSUME NEW t \in Threads, SwitchTo(t) PROVE strayFree'
    BY <1>3 DEF SwitchTo, history
  <1>4. CASE Fork \/ Exec \/ ExecFails \/ ExitHalts \/ ExitProcess
    BY <1>4 DEF Fork, Exec, ExecFails, ExitHalts, ExitProcess, history
  <1>5. CASE ExitThread
    BY <1>5, OwnFramesFreed
  <1>6. CASE UNCHANGED vars
    BY <1>6 DEF vars, history
  <1> QED BY <1>1, <1>2, <1>3, <1>4, <1>5, <1>6 DEF Next

\* Until an exit goes astray, the copies agree.
Straight == ~strayFree => Coherent /\ Copied

LEMMA StraightStep ==
    Typed /\ Typed' /\ ProcsRight /\ ProcsRight' /\ Straight /\ [Next]_vars => Straight'
  <1> SUFFICES ASSUME Typed, Typed', ProcsRight, ProcsRight', Straight, [Next]_vars, ~strayFree'
               PROVE  Coherent' /\ Copied'
    BY DEF Straight
  <1>1. Coherent /\ Copied
    BY StrayStays DEF Straight
  <1>2. Coherent'
    BY <1>1, CoherentStep
  <1> QED BY <1>1, <1>2, CopiedStep

\* The TLB shows the running thread its own pages, each in the frame that holds it,
\* which nobody else was given: through every fault, eviction, switch, Fork, Exec and
\* Exit of any programs, until a thread's exit has freed frames in use by page table
\* entries that were never set (addrspace.cc:323-326).
THEOREM TLBStaysCoherent == Spec => [](~strayFree => TLBCoherent)
  <1>1. Init => Straight
    BY CoherentInit DEF Straight
  <1>2. Typed /\ Typed' /\ ProcsRight /\ ProcsRight' /\ Straight /\ [Next]_vars => Straight'
    BY StraightStep
  <1>3. Straight => (~strayFree => TLBCoherent)
    BY DEF Straight, Coherent
  <1> QED BY <1>1, <1>2, <1>3, ProcessesRight, PTL DEF Spec

\* A frame whose page the disk has otherwise is marked.
LEMMA DirtyMeansMarked == Typed /\ Straight => CopiesInStep
  <1> SUFFICES ASSUME Typed, Coherent, Copied,
                      NEW f \in Frames, f \in bitmap,
                      <<ipt[f].spaceOwner, ipt[f].virtualPage>> \notin dropped,
                      mainMemory[f] # OnDisk(ipt[f].spaceOwner, ipt[f].virtualPage)
               PROVE  Marked(f)
    BY DEF Straight, CopiesInStep, DirtyPagesMarked, Coherent, Marked
  <1> PICK p, v : p = Owner(f) /\ v = PageIn(f)
    OBVIOUS
  <1>1. p \in Procs /\ v \in Pages(p) /\ <<p, v>> \notin dropped
    BY FrameInUse DEF Coherent, Owner, PageIn
  <1>2. IsCopy(f, p, v)
    BY <1>1 DEF Copied, CopiesRight
  <1>3. mainMemory[f] # OnDisk(p, v)
    BY DEF Owner, PageIn
  <1> QED BY <1>2, <1>3 DEF IsCopy

\* What a frame holds of its page and the disk does not is marked, in the TLB or in
\* the inverted page table, so that no write is lost when handleMemoryFull gives the
\* frame away: for any programs, of every page but those whose entry of the TLB, with
\* the only mark, was made invalid by the eviction of another process's page of the
\* same number (exception.cc:371-373) or by a thread's exit (addrspace.cc:328-330).
THEOREM CopiesStayInStep == Spec => []CopiesInStep
  <1>1. Init => Straight
    BY CoherentInit DEF Straight
  <1>2. Typed /\ Typed' /\ ProcsRight /\ ProcsRight' /\ Straight /\ [Next]_vars => Straight'
    BY StraightStep
  <1>3. Typed /\ Straight => CopiesInStep
    BY DirtyMeansMarked
  <1> QED BY <1>1, <1>2, <1>3, ProcessesRight, PTL DEF Spec

-----------------------------------------------------------------------------
(* What the programs read. *)

\* A read of page v of process p returns c: from the frame that holds the page, or
\* from disk if there is none.
Shows(p, v, c) ==
    \/ \E f \in bitmap : Owner(f) = p /\ PageIn(f) = v /\ c = mainMemory[f]
    \/ /\ \A f \in bitmap : ~(Owner(f) = p /\ PageIn(f) = v)
       /\ c = OnDisk(p, v)

LEMMA OneFrame ==
    ASSUME Typed, FramesRight, NEW f \in bitmap, NEW g \in bitmap,
           Owner(f) = Owner(g), PageIn(f) = PageIn(g)
    PROVE  f = g
  BY FrameInUse

LEMMA ReadShows ==
    ASSUME Typed, ProcsRight, Coherent, NEW p, NEW v, InUse(p, v)
    PROVE  Shows(p, v, ContentRead(p, v))
  <1> PICK translated : translated = IF currentThread # 0 /\ space[currentThread] = p
                                     THEN {tlb[i].physicalPage : i \in Hits(v)} ELSE {}
    OBVIOUS
  <1> PICK frames : frames = IF translated # {} THEN translated ELSE FramesOf(p, v)
    OBVIOUS
  <1>1. ContentRead(p, v) = IF frames = {} THEN OnDisk(p, v)
                                           ELSE mainMemory[CHOOSE f \in frames : TRUE]
    BY DEF ContentRead
  <1>2. FramesOf(p, v) = {f \in bitmap : Owner(f) = p /\ PageIn(f) = v}
    <2>1. \A f \in bitmap : f \in Frames /\ ipt[f].valid
      BY FrameInUse DEF Coherent
    <2>2. \A f \in FramesOf(p, v) : f \in bitmap
      BY DEF FramesOf, Owner, PageIn, Coherent, FramesRight
    <2> QED BY <2>1, <2>2 DEF FramesOf, Owner, PageIn
  <1>3. translated \subseteq FramesOf(p, v)
    <2> SUFFICES ASSUME NEW i \in Hits(v), space[currentThread] = p
                 PROVE  tlb[i].physicalPage \in FramesOf(p, v)
      OBVIOUS
    <2>1. i \in Slots /\ tlb[i].valid /\ tlb[i].virtualPage = v
      BY DEF Hits
    <2> QED BY <1>2, <2>1, EntryShown DEF Coherent
  <1>4. CASE frames = {}
    <2>1. FramesOf(p, v) = {}
      BY <1>4
    <2> QED BY <1>1, <1>2, <1>4, <2>1 DEF Shows
  <1>5. CASE frames # {}
    <2> PICK f : f = CHOOSE g \in frames : TRUE
      OBVIOUS
    <2>1. f \in frames
      BY <1>5
    <2>2. f \in bitmap /\ Owner(f) = p /\ PageIn(f) = v
      BY <1>2, <1>3, <2>1
    <2>3. ContentRead(p, v) = mainMemory[f]
      BY <1>1, <1>5
    <2> QED BY <2>2, <2>3 DEF Shows
  <1> QED BY <1>4, <1>5

LEMMA ShowsOne ==
    ASSUME Typed, FramesRight, NEW p, NEW v, NEW c, NEW d, Shows(p, v, c), Shows(p, v, d)
    PROVE  c = d
  BY OneFrame DEF Shows

\* The same of the next state.
LEMMA ReadShowsNext ==
    ASSUME NEW p, NEW v
    PROVE  (Typed /\ ProcsRight /\ Coherent /\ InUse(p, v) => Shows(p, v, ContentRead(p, v)))'
  <1>1. Typed /\ ProcsRight /\ Coherent /\ InUse(p, v) => Shows(p, v, ContentRead(p, v))
    BY ReadShows
  <1> QED BY <1>1, PTL

LEMMA ShowsOneNext ==
    ASSUME NEW p, NEW v, NEW c, NEW d
    PROVE  (Typed /\ FramesRight /\ Shows(p, v, c) /\ Shows(p, v, d) => c = d)'
  <1>1. Typed /\ FramesRight /\ Shows(p, v, c) /\ Shows(p, v, d) => c = d
    BY ShowsOne
  <1> QED BY <1>1, PTL

\* A read returns what it did, if what it returned is what the new state shows.
LEMMA ReadKept ==
    ASSUME Typed, ProcsRight, Coherent, Typed', ProcsRight', Coherent',
           NEW p, NEW v, InUse(p, v), InUse(p, v)',
           \A c : Shows(p, v, c) => Shows(p, v, c)'
    PROVE  ReadFrom(p, v)' = ReadFrom(p, v)
  <1> PICK c : c = ContentRead(p, v)
    OBVIOUS
  <1> PICK d : d = ContentRead(p, v)'
    OBVIOUS
  <1>1. Shows(p, v, c)'
    BY ReadShows
  <1>2. Shows(p, v, ContentRead(p, v))'
    BY ReadShowsNext
  <1>3. Shows(p, v, d)'
    BY <1>2 DEF Shows
  <1>4. (Typed /\ FramesRight /\ Shows(p, v, c) /\ Shows(p, v, d))' => c = d
    BY ShowsOneNext
  <1>5. c = d
    BY <1>1, <1>3, <1>4 DEF Coherent
  <1> QED BY <1>5 DEF ReadFrom

\* The pages in use are pages of their process.
LEMMA UsedArePages ==
    ASSUME Typed, ProcsRight, NEW p, NEW v, InUse(p, v)
    PROVE  p \in Procs /\ v \in Pages(p)
  <1>1. p \in Procs /\ threadCount[p] # 0 /\ v \in UsedPages(p) /\ p # 0
    BY Constants DEF InUse, RunningProcs
  <1>2. 0 .. TopOf(p) + StackPages - 1 \subseteq Pages(p)
    BY <1>1 DEF ProcsRight, StacksApart
  <1>3. CASE v \in Touched(p)
    <2>1. v \in 0 .. TopOf(p) - 1 /\ TopOf(p) \in Nat
      BY <1>1, <1>3, Constants
    <2>2. StackPages \in Nat
      BY Constants
    <2>3. v \in 0 .. TopOf(p) + StackPages - 1
      BY <2>1, <2>2
    <2> QED BY <1>1, <1>2, <2>3
  <1>4. CASE \E u \in Threads : space[u] = p /\ v \in OwnStack(u)
    <2> PICK u \in Threads : space[u] = p /\ v \in OwnStack(u)
      BY <1>4
    <2>1. Alive(u) /\ v \in StackOf(u)
      BY <1>1 DEF Alive, OwnStack
    <2>2. StackOf(u) \subseteq Pages(p)
      BY <2>1 DEF ProcsRight, StacksApart
    <2> QED BY <1>1, <2>1, <2>2
  <1> QED BY <1>1, <1>3, <1>4 DEF UsedPages

\* Of a step that leaves frames and their owners alone, but for those that it frees.
LEMMA ShownStill ==
    ASSUME Typed, Coherent, Coherent', SameFrames, bitmap' \subseteq bitmap, mainMemory' = mainMemory,
           NEW p, NEW v, InUse(p, v)', OnDisk(p, v)' = OnDisk(p, v)
    PROVE  \A c : Shows(p, v, c) => Shows(p, v, c)'
  <1>0. Frames' = Frames /\ bitmap \subseteq Frames
    BY DEF Frames, Typed, MemoryTyped
  <1>1. \A g \in Frames : /\ Owner(g)' = Owner(g) /\ PageIn(g)' = PageIn(g)
                          /\ ipt'[g].valid = ipt[g].valid
    BY DEF SameFrames, Owner, PageIn
  <1>2. ASSUME NEW g \in bitmap, ipt[g].valid, Owner(g) = p, PageIn(g) = v
        PROVE  g \in bitmap' /\ Owner(g)' = p /\ PageIn(g)' = v
    <2>1. /\ g \in Frames /\ Owner(g)' = p /\ PageIn(g)' = v /\ ipt'[g].valid
      BY <1>0, <1>1, <1>2
    <2>2. InUse(Owner(g), PageIn(g))'
      <3>1. InUse(Owner(g), PageIn(g))' <=> p \in RunningProcs' /\ v \in UsedPages(p)'
        BY <2>1 DEF InUse
      <3> QED BY <3>1 DEF InUse
    <2> QED BY <1>0, <2>1, <2>2 DEF Coherent, FramesRight
  <1>3. \A g \in bitmap : ipt[g].valid
    BY DEF Coherent, FramesRight
  <1>4. ASSUME NEW c, Shows(p, v, c)
        PROVE  Shows(p, v, c)'
    <2>1. CASE \E f \in bitmap : Owner(f) = p /\ PageIn(f) = v /\ c = mainMemory[f]
      BY <1>2, <1>3, <2>1 DEF Shows
    <2>2. CASE (\A f \in bitmap : ~(Owner(f) = p /\ PageIn(f) = v)) /\ c = OnDisk(p, v)
      <3>1. \A f \in bitmap' : ~(Owner(f)' = p /\ PageIn(f)' = v)
        BY <1>0, <1>1, <2>2
      <3> QED BY <2>2, <3>1 DEF Shows
    <2> QED BY <1>4, <2>1, <2>2 DEF Shows
  <1> QED BY <1>4

\* Page v0 of process p0 was in no frame and is now in f, from where the disk has it;
\* the page that f held is on disk as f had it.
LEMMA ShownFilled ==
    ASSUME Typed, Coherent, NEW p \in Procs, NEW v \in Pages(p),
           NEW v0, NEW f, NEW i, NEW p0, NEW entries, NEW pages, NEW d,
           FilledIn(v0, f, i, p0, entries, pages, d),
           FramesOf(p0, v0) = {}, v0 \in Pages(p0), p0 \in Procs,
           bitmap \subseteq bitmap', bitmap' \subseteq bitmap \cup {f}, f \in bitmap',
           \A q \in Procs : \A w \in Pages(q) : ~(f \in bitmap /\ q = Owner(f) /\ w = PageIn(f)) =>
             /\ pages[q][w].diskLocation = pageTable[q][w].diskLocation
             /\ pages[q][w].swapped = pageTable[q][w].swapped,
           (f \in bitmap /\ p = Owner(f) /\ v = PageIn(f)) => DiskHas(pages, p, v) = mainMemory[f]
    PROVE  \A c : Shows(p, v, c) => Shows(p, v, c)'
  <1>1. /\ \A g \in Frames \ {f} : Owner(g)' = Owner(g) /\ PageIn(g)' = PageIn(g)
        /\ \A g \in Frames \ {f} : mainMemory'[g] = mainMemory[g]
        /\ mainMemory'[f] = DiskHas(pages, p0, v0)
        /\ Owner(f)' = p0 /\ PageIn(f)' = v0 /\ f \in Frames
    BY DEF FilledIn, Owner, PageIn
  <1>2. bitmap \subseteq Frames /\ \A g \in bitmap : ipt[g].valid
    BY DEF Typed, MemoryTyped, Coherent, FramesRight
  <1>3. \A g \in bitmap : ~(Owner(g) = p0 /\ PageIn(g) = v0)
    BY <1>2 DEF FramesOf, Owner, PageIn
  <1>4. OnDisk(p, v)' = DiskHas(pages, p, v)
    <2>1. /\ pageTable'[p][v].diskLocation = pages[p][v].diskLocation
          /\ pageTable'[p][v].swapped = pages[p][v].swapped
      BY DEF FilledIn
    <2> QED BY Zenon, <2>1 DEF OnDisk, DiskHas
  <1>5. ASSUME ~(f \in bitmap /\ p = Owner(f) /\ v = PageIn(f))
        PROVE  DiskHas(pages, p, v) = OnDisk(p, v)
    <2>1. /\ pages[p][v].diskLocation = pageTable[p][v].diskLocation
          /\ pages[p][v].swapped = pageTable[p][v].swapped
      BY <1>5
    <2> QED BY Zenon, <2>1 DEF OnDisk, DiskHas
  <1>6. ASSUME NEW c, Shows(p, v, c)
        PROVE  Shows(p, v, c)'
    <2>1. CASE p = p0 /\ v = v0
      <3>1. c = OnDisk(p, v) /\ \A g \in bitmap : ~(Owner(g) = p /\ PageIn(g) = v)
        BY <1>3, <1>6, <2>1 DEF Shows
      <3>2. c = mainMemory'[f]
        BY <1>1, <1>5, <2>1, <3>1
      <3> QED BY <1>1, <2>1, <3>2 DEF Shows
    <2>2. CASE ~(p = p0 /\ v = v0) /\ \E g \in bitmap \ {f} : Owner(g) = p /\ PageIn(g) = v /\ c = mainMemory[g]
      <3> PICK g \in bitmap \ {f} : Owner(g) = p /\ PageIn(g) = v /\ c = mainMemory[g]
        BY <2>2
      <3>1. g \in bitmap' /\ Owner(g)' = p /\ PageIn(g)' = v /\ c = mainMemory'[g]
        BY <1>1, <1>2
      <3> QED BY <3>1 DEF Shows
    <2>3. CASE /\ ~(p = p0 /\ v = v0)
               /\ f \in bitmap /\ Owner(f) = p /\ PageIn(f) = v /\ c = mainMemory[f]
      <3>1. \A g \in bitmap' : ~(Owner(g)' = p /\ PageIn(g)' = v)
        <4> SUFFICES ASSUME NEW g \in bitmap', Owner(g)' = p, PageIn(g)' = v
                     PROVE  FALSE
          OBVIOUS
        <4>1. g # f /\ g \in bitmap
          BY <1>1, <2>3
        <4>2. Owner(g) = Owner(f) /\ PageIn(g) = PageIn(f)
          BY <1>1, <1>2, <2>3, <4>1
        <4> QED BY <2>3, <4>1, <4>2, OneFrame DEF Coherent
      <3>2. c = OnDisk(p, v)'
        BY <1>4, <2>3
      <3> QED BY <3>1, <3>2 DEF Shows
    <2>4. CASE /\ ~(p = p0 /\ v = v0)
               /\ \A g \in bitmap : ~(Owner(g) = p /\ PageIn(g) = v)
               /\ c = OnDisk(p, v)
      <3>1. \A g \in bitmap' : ~(Owner(g)' = p /\ PageIn(g)' = v)
        BY <1>1, <1>2, <2>4
      <3>2. c = OnDisk(p, v)'
        BY <1>4, <1>5, <2>4
      <3> QED BY <3>1, <3>2 DEF Shows
    <2> QED BY <1>6, <2>1, <2>2, <2>3, <2>4 DEF Shows
  <1> QED BY <1>6

\* The pages that the code answers for, and what reads of them return: the memory
\* that the module Memory is about.
Kept(p, v) == InUse(p, v) /\ <<p, v>> \notin dropped
ReadBack == [page \in Answered |-> ReadFrom(page[1], page[2])]

LEMMA MapIs ==
    (/\ (Answered \cup Answered') \ (Answered \cap Answered') # {}
     /\ \A page, other \in (Answered \cup Answered') \ (Answered \cap Answered') : page[1] = other[1]
     /\ \A page \in Answered \cap Answered' : ReadBack'[page] = ReadBack[page])
    => ProgramMemory!Map
  BY DEF ProgramMemory!Map, ProgramMemory!InUse, ReadBack

LEMMA GiveUpIs == Answered # {} /\ Answered' = {} => ProgramMemory!GiveUp
  BY DEF ProgramMemory!GiveUp, ProgramMemory!InUse

LEMMA WriteIs ==
    (/\ Answered' = Answered
     /\ \E page \in Answered : /\ ReadBack'[page] \in Procs \X AllPages \X {0, 1}
                               /\ \A other \in Answered \ {page} : ReadBack'[other] = ReadBack[other])
    => ProgramMemory!Write
  BY DEF ProgramMemory!Write, ProgramMemory!InUse, ReadBack

LEMMA AnsweredPairs ==
    /\ \A p, v : <<p, v>> \in Answered <=> Kept(p, v) /\ v \in AllPages /\ ~strayFree
    /\ \A pv \in Answered : /\ pv = <<pv[1], pv[2]>> /\ Kept(pv[1], pv[2])
                            /\ pv[1] \in Procs /\ pv[2] \in AllPages
  BY DEF Answered, Kept, InUse, RunningProcs

LEMMA AnsweredPairsNext ==
    /\ \A p, v : <<p, v>> \in Answered' <=> Kept(p, v)' /\ v \in AllPages /\ ~strayFree'
    /\ \A pv \in Answered' : /\ pv = <<pv[1], pv[2]>> /\ Kept(pv[1], pv[2])'
                             /\ pv[1] \in Procs /\ pv[2] \in AllPages
<1>1. /\ Procs' = Procs /\ AllPages' = AllPages
      /\ RunningProcs' = {p \in Procs : threadCount'[p] # 0}
  BY DEF Procs, AllPages, MaxTop, TopOf, RunningProcs
<1>2. Answered' = IF strayFree' THEN {}
                  ELSE (UNION {{p} \X (UsedPages(p)' \cap AllPages) : p \in RunningProcs'}) \ dropped'
  BY <1>1 DEF Answered
<1>3. \A p, v : Kept(p, v)' <=> p \in RunningProcs' /\ v \in UsedPages(p)' /\ <<p, v>> \notin dropped'
  BY DEF Kept, InUse
<1>4. RunningProcs' \subseteq Procs
  BY <1>1
<1> QED
  BY <1>1, <1>2, <1>3, <1>4

\* Pages of process p come or go, and no other read changes.
LEMMA MapOrSame ==
    ASSUME ~strayFree, ~strayFree', NEW p,
           \A q \in Procs \ {p} : \A w : Kept(q, w)' <=> Kept(q, w),
           \A q, w : Kept(q, w) /\ Kept(q, w)' => ReadFrom(q, w)' = ReadFrom(q, w)
    PROVE  ProgramMemory!Map \/ UNCHANGED ReadBack
  <1>1. \A pv \in Answered \cap Answered' : ReadBack'[pv] = ReadBack[pv]
    <2> SUFFICES ASSUME NEW pv \in Answered \cap Answered'
                 PROVE  ReadBack'[pv] = ReadBack[pv]
      OBVIOUS
    <2>1. ReadBack[pv] = ReadFrom(pv[1], pv[2]) /\ ReadBack'[pv] = ReadFrom(pv[1], pv[2])'
      BY DEF ReadBack
    <2>2. Kept(pv[1], pv[2]) /\ Kept(pv[1], pv[2])'
      BY AnsweredPairs, AnsweredPairsNext
    <2> QED BY <2>1, <2>2
  <1>2. \A pv \in (Answered \cup Answered') \ (Answered \cap Answered') : pv[1] = p
    <2> SUFFICES ASSUME NEW pv \in (Answered \cup Answered') \ (Answered \cap Answered'), pv[1] # p
                 PROVE  FALSE
      OBVIOUS
    <2> PICK q, w : q = pv[1] /\ w = pv[2]
      OBVIOUS
    <2>1. /\ pv = <<q, w>> /\ q \in Procs \ {p} /\ w \in AllPages
      BY AnsweredPairs, AnsweredPairsNext
    <2>2. Kept(q, w)' <=> Kept(q, w)
      BY <2>1
    <2> QED BY <2>1, <2>2, AnsweredPairs, AnsweredPairsNext
  <1>3. CASE (Answered \cup Answered') \ (Answered \cap Answered') # {}
    BY <1>1, <1>2, <1>3, MapIs
  <1>4. CASE (Answered \cup Answered') \ (Answered \cap Answered') = {}
    <2>1. Answered' = Answered
      BY <1>4
    <2>2. \A pv \in Answered : ReadFrom(pv[1], pv[2])' = ReadFrom(pv[1], pv[2])
      BY <1>1, <2>1 DEF ReadBack
    <2> QED BY <2>1, <2>2 DEF ReadBack
  <1> QED BY <1>3, <1>4

LEMMA SameInUse ==
    ASSUME UNCHANGED <<stackLocations, space, threadCount>>
    PROVE  \A q, w : InUse(q, w)' <=> InUse(q, w)
  BY DEF InUse, RunningProcs, UsedPages, OwnStack, StackOf, Threads, Procs

\* A step that a page is loaded or looked up in, or the TLB emptied; only process p may
\* lose marks.
LEMMA PagingReads ==
    ASSUME Typed, ProcsRight, Coherent, Typed', ProcsRight', Coherent', ~strayFree, ~strayFree',
           UNCHANGED <<stackLocations, space, threadCount>>,
           NEW p, \A q \in Procs \ {p} : \A w : <<q, w>> \in dropped' <=> <<q, w>> \in dropped,
           \A q \in Procs : \A w \in Pages(q) : Kept(q, w) =>
              \A c : Shows(q, w, c) => Shows(q, w, c)'
    PROVE  ProgramMemory!Map \/ UNCHANGED ReadBack
  <1>1. \A q, w : InUse(q, w)' <=> InUse(q, w)
    BY SameInUse
  <1>2. \A q \in Procs \ {p} : \A w : Kept(q, w)' <=> Kept(q, w)
    BY <1>1 DEF Kept
  <1>3. ASSUME NEW q, NEW w, Kept(q, w)
        PROVE  ReadFrom(q, w)' = ReadFrom(q, w)
    <2>1. InUse(q, w) /\ InUse(q, w)'
      BY <1>1, <1>3 DEF Kept
    <2>2. \A c : Shows(q, w, c) => Shows(q, w, c)'
      BY <1>3, <2>1, UsedArePages
    <2> QED BY <2>1, <2>2, ReadKept
  <1> QED BY <1>2, <1>3, MapOrSame

\* A page that was in no frame has been read, and none has been lost by eviction.
LEMMA FaultReads ==
    ASSUME Typed, ProcsRight, Coherent, Copied, Typed', ProcsRight', Coherent',
           ~strayFree, ~strayFree', NEW v0, FaultWithFreeFrame(v0) \/ FaultWithEviction(v0)
    PROVE  ProgramMemory!Map \/ UNCHANGED ReadBack
  <1>1. /\ RunsUser /\ v0 \in Usable(currentThread) /\ FramesOf(space[currentThread], v0) = {}
    BY DEF FaultWithFreeFrame, FaultWithEviction, Faults
  <1>2. /\ space[currentThread] \in Procs /\ v0 \in Pages(space[currentThread])
    BY <1>1, Running DEF Typed, ProcsRight
  <1>3. CASE FaultWithFreeFrame(v0)
    <2> PICK f \in Frames, i \in Slots, p \in Procs :
             /\ f \notin bitmap /\ bitmap' = bitmap \cup {f}
             /\ FilledIn(v0, f, i, p, tlb, pageTable, ipt[f].dirty)
      BY <1>3, FreeFacts
    <2>1. p = space[currentThread] /\ UNCHANGED <<stackLocations, space, threadCount, dropped>>
      BY <1>3 DEF FilledIn, procs, FaultWithFreeFrame, history
    <2>2. bitmap \subseteq bitmap' /\ bitmap' \subseteq bitmap \cup {f} /\ f \in bitmap'
      OBVIOUS
    <2>3. \A q \in Procs : \A w \in Pages(q) : \A c : Shows(q, w, c) => Shows(q, w, c)'
      BY <1>1, <1>2, <2>1, <2>2, ShownFilled
    <2>4. \A q \in Procs \ {p} : \A w : <<q, w>> \in dropped' <=> <<q, w>> \in dropped
      BY <2>1
    <2> QED BY <2>1, <2>3, <2>4, PagingReads
  <1>4. CASE FaultWithEviction(v0)
    <2> PICK f \in Frames, i \in Slots, p \in Procs, entries \in [Slots -> TLBEntry],
             pages \in [Procs -> Table], d \in BOOLEAN :
             /\ Evicted(f, entries, pages, d) /\ FilledIn(v0, f, i, p, entries, pages, d)
             /\ LosesMarks({j \in Slots : MatchesEvicted(f, tlb[j]) /\ tlb[j].physicalPage # f})
             /\ bitmap = Frames /\ bitmap' = bitmap
      BY <1>4, EvictionFacts
    <2>1. p = space[currentThread] /\ UNCHANGED <<stackLocations, space, threadCount>>
      BY DEF FilledIn, procs
    <2>2. bitmap \subseteq bitmap' /\ bitmap' \subseteq bitmap \cup {f} /\ f \in bitmap'
      OBVIOUS
    <2>3. \A q \in Procs : \A w \in Pages(q) : ~(f \in bitmap /\ q = Owner(f) /\ w = PageIn(f)) =>
            /\ pages[q][w].diskLocation = pageTable[q][w].diskLocation
            /\ pages[q][w].swapped = pageTable[q][w].swapped
      <3> SUFFICES ASSUME NEW q \in Procs, NEW w \in Pages(q), ~(q = Owner(f) /\ w = PageIn(f))
                   PROVE  /\ pages[q][w].diskLocation = pageTable[q][w].diskLocation
                          /\ pages[q][w].swapped = pageTable[q][w].swapped
        OBVIOUS
      <3>1. pages[q][w] = pageTable[q][w]
        BY DEF Evicted
      <3> QED BY <3>1
    <2>4. ASSUME NEW o \in Procs, NEW w \in Pages(o), Kept(o, w), o = Owner(f), w = PageIn(f)
          PROVE  DiskHas(pages, o, w) = mainMemory[f]
      <3>2. CASE d
        <4>1. pages[o][w].diskLocation = "SWAP" /\ pages[o][w].swapped = mainMemory[f]
          BY <2>4, <3>2 DEF Evicted
        <4>2. "SWAP" # "EXECUTABLE"
          OBVIOUS
        <4> QED BY Zenon, <4>1, <4>2 DEF DiskHas
      <3>3. CASE ~d
        <4>1. ~ipt[f].dirty /\ \A j \in Slots : ~(MatchesEvicted(f, tlb[j]) /\ tlb[j].dirty)
          BY <3>3 DEF Evicted
        <4>2. \A j \in Slots : tlb[j].valid /\ tlb[j].physicalPage = f => MatchesEvicted(f, tlb[j])
          BY DEF MatchesEvicted, Coherent, TLBCoherent
        <4>3. ~Marked(f)
          BY <4>1, <4>2 DEF Marked
        <4>4. mainMemory[f] = OnDisk(o, w)
          BY <2>4, <4>3 DEF Copied, CopiesRight, IsCopy, Kept
        <4>5. /\ pages[o][w].diskLocation = pageTable[o][w].diskLocation
              /\ pages[o][w].swapped = pageTable[o][w].swapped
          BY <2>4, <3>3 DEF Evicted
        <4>6. DiskHas(pages, o, w) = OnDisk(o, w)
          BY Zenon, <4>5 DEF DiskHas, OnDisk
        <4> QED BY <4>4, <4>6
      <3> QED BY <3>2, <3>3
    <2>5. ASSUME NEW q \in Procs, NEW w \in Pages(q), Kept(q, w)
          PROVE  \A c : Shows(q, w, c) => Shows(q, w, c)'
      <3>1. (f \in bitmap /\ q = Owner(f) /\ w = PageIn(f)) => DiskHas(pages, q, w) = mainMemory[f]
        BY <2>4, <2>5
      <3> QED BY <1>1, <1>2, <2>1, <2>2, <2>3, <3>1, ShownFilled
    <2>6. \A q \in Procs \ {p} : \A w : <<q, w>> \in dropped' <=> <<q, w>> \in dropped
      BY <2>1, MarksLost DEF Coherent
    <2> QED BY <2>1, <2>5, <2>6, PagingReads
  <1> QED BY <1>3, <1>4

\* Steps that leave the frames, their owners and the disk as they are.
LEMMA QuietReads ==
    ASSUME Typed, ProcsRight, Coherent, Typed', ProcsRight', Coherent', SameFrames,
           ~strayFree, ~strayFree',
           UNCHANGED <<bitmap, mainMemory, pageTable, stackLocations, space, threadCount, dropped>>
    PROVE  ProgramMemory!Map \/ UNCHANGED ReadBack
  <1>1. ASSUME NEW p \in Procs, NEW v \in Pages(p), Kept(p, v)
        PROVE  \A c : Shows(p, v, c) => Shows(p, v, c)'
    <2>1. InUse(p, v)'
      BY <1>1, SameInUse DEF Kept
    <2>2. OnDisk(p, v)' = OnDisk(p, v)
      BY DEF OnDisk
    <2> QED BY <2>1, <2>2, ShownStill
  <1>2. \A q, w : <<q, w>> \in dropped' <=> <<q, w>> \in dropped
    OBVIOUS
  <1> QED BY <1>1, <1>2, PagingReads

LEMMA ResidentOrSwitchReads ==
    ASSUME Typed, ProcsRight, Coherent, Typed', ProcsRight', Coherent', ~strayFree, ~strayFree',
           (\E v : FaultOnResidentPage(v)) \/ (\E t \in Threads : SwitchTo(t))
    PROVE  ProgramMemory!Map \/ UNCHANGED ReadBack
  <1>1. ASSUME NEW v, FaultOnResidentPage(v)
        PROVE  ProgramMemory!Map \/ UNCHANGED ReadBack
    <2> PICK f \in FramesOf(space[currentThread], v), i \in Slots : Refilled(i, tlb, ipt, f)
      BY <1>1, ResidentFacts
    <2>1. SameFrames
      BY DEF Refilled, SameFrames
    <2>2. UNCHANGED <<bitmap, mainMemory, pageTable, stackLocations, space, threadCount, dropped>>
      BY <1>1 DEF FaultOnResidentPage, procs, history
    <2> QED BY <2>1, <2>2, QuietReads
  <1>2. ASSUME NEW t \in Threads, SwitchTo(t)
        PROVE  ProgramMemory!Map \/ UNCHANGED ReadBack
    <2>1. SameFrames
      BY <1>2, SwitchKeepsProcs DEF Flushed, SameFrames
    <2>2. UNCHANGED <<bitmap, mainMemory, pageTable, stackLocations, space, threadCount, dropped>>
      BY <1>2 DEF SwitchTo, procs, history
    <2> QED BY <2>1, <2>2, QuietReads
  <1> QED BY <1>1, <1>2

\* A write changes what is read from its page, and nothing else.
LEMMA WriteReads ==
    ASSUME Typed, ProcsRight, Coherent, Typed', ProcsRight', Coherent', ~strayFree, ~strayFree',
           NEW v0 \in AllPages, WriteMem(v0)
    PROVE  ProgramMemory!Write \/ UNCHANGED ReadBack
  <1> PICK i \in Hits(v0), f \in Frames, bit \in {0, 1} :
             /\ f = tlb[i].physicalPage
             /\ mainMemory' = [mainMemory EXCEPT ![f] = Content(space[currentThread], v0, bit)]
    BY WriteFacts
  <1>0. /\ UNCHANGED <<ipt, bitmap, pageTable, space, stackLocations, threadCount, currentThread,
                        dropped>>
        /\ RunsUser /\ v0 \in Usable(currentThread) /\ mainMemory \in [Frames -> Held]
    <2>2. space[currentThread] \in Procs
      BY Running DEF WriteMem, Typed, ProcsRight
    <2>3. Written(space[currentThread]) \subseteq Touched(space[currentThread])
      BY <2>2, Constants
    <2> QED BY <2>3 DEF WriteMem, procs, history, Typed, MemoryTyped, Writable, Usable
  <1> PICK p0 : p0 = space[currentThread]
    OBVIOUS
  <1>1. i \in Slots /\ tlb[i].valid /\ tlb[i].virtualPage = v0
    BY DEF Hits
  <1>2. Owner(f) = p0 /\ PageIn(f) = v0 /\ f \in bitmap
    BY <1>1, EntryShown DEF Coherent
  <1>3. InUse(p0, v0) /\ p0 \in Procs
    BY <1>0, Running DEF InUse, Typed, ProcsRight
  <1>4. \A q, w : InUse(q, w)' <=> InUse(q, w)
    BY <1>0, SameInUse
  <1>5. \A g : Owner(g)' = Owner(g) /\ PageIn(g)' = PageIn(g)
    BY <1>0 DEF Owner, PageIn
  <1>6. ASSUME NEW q, NEW w, InUse(q, w), ~(q = p0 /\ w = v0)
        PROVE  ReadFrom(q, w)' = ReadFrom(q, w)
    <2>1. OnDisk(q, w)' = OnDisk(q, w)
      BY <1>0 DEF OnDisk
    <2>2. \A g \in bitmap : Owner(g) = q /\ PageIn(g) = w => mainMemory'[g] = mainMemory[g]
      BY <1>0, <1>2, <1>6, FrameInUse DEF Coherent
    <2>3. \A c : Shows(q, w, c) => Shows(q, w, c)'
      BY <1>0, <1>5, <2>1, <2>2 DEF Shows
    <2> QED BY <1>4, <1>6, <2>3, ReadKept
  <1>7. ReadFrom(p0, v0)' = Content(p0, v0, bit)
    <2>2. Shows(p0, v0, ContentRead(p0, v0))'
      BY <1>3, <1>4, ReadShowsNext
    <2> PICK d : d = ContentRead(p0, v0)'
      OBVIOUS
    <2>3. Shows(p0, v0, d)'
      BY <2>2 DEF Shows
    <2>4. mainMemory'[f] = Content(p0, v0, bit)
      BY <1>0
    <2>5. Shows(p0, v0, Content(p0, v0, bit))'
      BY <1>0, <1>2, <1>5, <2>4 DEF Shows, Content
    <2>6. FramesRight'
      BY DEF Coherent
    <2> PICK e : e = Content(p0, v0, bit)
      OBVIOUS
    <2>7. d = e
      <3>1. Shows(p0, v0, e)'
        BY <2>5 DEF Shows
      <3>2. (Typed /\ FramesRight /\ Shows(p0, v0, d) /\ Shows(p0, v0, e) => d = e)'
        BY ShowsOneNext
      <3> QED BY <2>3, <2>6, <3>1, <3>2
    <2> QED BY <2>7 DEF ReadFrom, Content
  <1>8. Answered' = Answered
    BY <1>0, <1>4 DEF Answered, InUse, RunningProcs, Procs, AllPages, MaxTop, TopOf
  <1>9. \A other \in Answered \ {<<p0, v0>>} : ReadBack'[other] = ReadBack[other]
    <2> SUFFICES ASSUME NEW other \in Answered \ {<<p0, v0>>}
                 PROVE  ReadBack'[other] = ReadBack[other]
      OBVIOUS
    <2> PICK q, w : q = other[1] /\ w = other[2]
      OBVIOUS
    <2>1. other = <<q, w>> /\ InUse(q, w)
      BY AnsweredPairs DEF Kept
    <2>2. ReadFrom(q, w)' = ReadFrom(q, w)
      BY <1>6, <2>1
    <2>3. ReadBack'[other] = ReadFrom(q, w)' /\ ReadBack[other] = ReadFrom(q, w)
      BY <1>8 DEF ReadBack
    <2> QED BY <2>2, <2>3
  <1>10. CASE <<p0, v0>> \in dropped
    <2>1. <<p0, v0>> \notin Answered
      BY <1>10, AnsweredPairs DEF Kept
    <2>2. \A other \in Answered : ReadBack'[other] = ReadBack[other]
      BY <1>9, <2>1
    <2> QED BY <1>8, <2>2 DEF ReadBack
  <1>11. CASE <<p0, v0>> \notin dropped
    <2>1. <<p0, v0>> \in Answered
      BY <1>3, <1>11, AnsweredPairs DEF Kept
    <2>2. ReadBack'[<<p0, v0>>] \in Procs \X AllPages \X {0, 1}
      BY <1>3, <1>7, <1>8, <2>1 DEF ReadBack, Content
    <2> QED BY <1>8, <1>9, <2>1, <2>2, WriteIs
  <1> QED BY <1>10, <1>11

\* Pages of process p come or go; frames are only freed, and what stays is on disk
\* what it was.
LEMMA LifeReads ==
    ASSUME Typed, ProcsRight, Coherent, Typed', ProcsRight', Coherent', SameFrames,
           ~strayFree, ~strayFree', bitmap' \subseteq bitmap, mainMemory' = mainMemory,
           NEW p, \A q \in Procs \ {p} : \A w : InUse(q, w)' <=> InUse(q, w),
           \A q \in Procs \ {p} : \A w : <<q, w>> \in dropped' <=> <<q, w>> \in dropped,
           \A q \in Procs : \A w \in Pages(q) : (InUse(q, w) /\ InUse(q, w)') =>
             /\ pageTable'[q][w].diskLocation = pageTable[q][w].diskLocation
             /\ pageTable'[q][w].swapped = pageTable[q][w].swapped
    PROVE  ProgramMemory!Map \/ UNCHANGED ReadBack
  <1>1. ASSUME NEW q, NEW w, InUse(q, w), InUse(q, w)'
        PROVE  ReadFrom(q, w)' = ReadFrom(q, w)
    <2>1. q \in Procs /\ w \in Pages(q)
      BY <1>1, UsedArePages
    <2>2. /\ pageTable'[q][w].diskLocation = pageTable[q][w].diskLocation
          /\ pageTable'[q][w].swapped = pageTable[q][w].swapped
      BY <1>1, <2>1
    <2>3. OnDisk(q, w)' = OnDisk(q, w)
      BY Zenon, <2>2 DEF OnDisk
    <2>4. \A c : Shows(q, w, c) => Shows(q, w, c)'
      BY <1>1, <2>3, ShownStill
    <2> QED BY <1>1, <2>4, ReadKept
  <1>2. \A q \in Procs \ {p} : \A w : Kept(q, w)' <=> Kept(q, w)
    BY DEF Kept
  <1>3. \A q, w : Kept(q, w) /\ Kept(q, w)' => ReadFrom(q, w)' = ReadFrom(q, w)
    BY <1>1 DEF Kept
  <1> QED BY <1>2, <1>3, MapOrSame

LEMMA ForkReads ==
    ASSUME Typed, ProcsRight, Coherent, Typed', ProcsRight', Coherent', ~strayFree, ~strayFree',
           Fork
    PROVE  ProgramMemory!Map \/ UNCHANGED ReadBack
  <1> PICK t \in Threads, p \in Procs, n \in Nat : Forked(t, p, n)
    BY ForkFacts
  <1>1. SameFrames /\ UNCHANGED <<bitmap, mainMemory, dropped>>
    BY ForkTyped DEF Fork, Flushed, SameFrames, history
  <1>2. /\ Joins(t, p, n) /\ Pages(p) = 0 .. n - 1
        /\ \A q \in Procs \ {p} : pageTable'[q] = pageTable[q]
        /\ \A w \in 0 .. n + StackPages - 1 :
             pageTable'[p][w] = IF w < n THEN pageTable[p][w] ELSE NewStack
        /\ threadCount' = [threadCount EXCEPT ![p] = threadCount[p] + 1]
        /\ threadCount \in [Procs -> Nat]
    BY DEF Forked, Typed, ProcsTyped
  <1>3. \A q \in Procs \ {p} : \A w : InUse(q, w)' <=> InUse(q, w)
    <2> SUFFICES ASSUME NEW q \in Procs \ {p}, NEW w
                 PROVE  InUse(q, w)' <=> InUse(q, w)
      OBVIOUS
    <2>1. w \in UsedPages(q)' <=> w \in UsedPages(q)
      BY <1>2, JoinedPages DEF Typed, ProcsRight
    <2>2. q \in RunningProcs' <=> q \in RunningProcs
      BY <1>2 DEF RunningProcs
    <2> QED BY <2>1, <2>2 DEF InUse
  <1>4. ASSUME NEW q \in Procs, NEW w \in Pages(q)
        PROVE  /\ pageTable'[q][w].diskLocation = pageTable[q][w].diskLocation
               /\ pageTable'[q][w].swapped = pageTable[q][w].swapped
    <2>1. CASE q = p
      <3>1. StackPages \in Nat
        BY Constants
      <3>2. w \in 0 .. n - 1
        BY <1>2, <2>1
      <3>3. w \in 0 .. n + StackPages - 1 /\ w < n
        BY <3>1, <3>2
      <3> QED BY <1>2, <2>1, <3>3
    <2>2. CASE q # p
      BY <1>2, <2>2
    <2> QED BY <2>1, <2>2
  <1> QED BY <1>1, <1>3, <1>4, LifeReads

LEMMA ExecReads ==
    ASSUME Typed, ProcsRight, Coherent, Typed', ProcsRight', Coherent', ~strayFree, ~strayFree',
           Exec
    PROVE  ProgramMemory!Map \/ UNCHANGED ReadBack
  <1> PICK t \in Threads, p \in Procs : Execed(t, p)
    BY ExecFacts
  <1>1. SameFrames /\ UNCHANGED <<bitmap, mainMemory, dropped>>
    BY DEF Exec, mmu, history, SameFrames, Typed, MemoryTyped
  <1>2. /\ Joins(t, p, TopOf(p)) /\ Pages(p) = {}
        /\ \A q \in Procs \ {p} : pageTable'[q] = pageTable[q]
        /\ threadCount' = [threadCount EXCEPT ![p] = 1]
        /\ threadCount \in [Procs -> Nat] /\ TopOf(p) \in Nat
    BY Constants DEF Execed, Typed, ProcsTyped
  <1>3. \A q \in Procs \ {p} : \A w : InUse(q, w)' <=> InUse(q, w)
    <2> SUFFICES ASSUME NEW q \in Procs \ {p}, NEW w
                 PROVE  InUse(q, w)' <=> InUse(q, w)
      OBVIOUS
    <2>1. w \in UsedPages(q)' <=> w \in UsedPages(q)
      BY <1>2, JoinedPages DEF Typed, ProcsRight
    <2>2. q \in RunningProcs' <=> q \in RunningProcs
      BY <1>2 DEF RunningProcs
    <2> QED BY <2>1, <2>2 DEF InUse
  <1>4. ASSUME NEW q \in Procs, NEW w \in Pages(q)
        PROVE  /\ pageTable'[q][w].diskLocation = pageTable[q][w].diskLocation
               /\ pageTable'[q][w].swapped = pageTable[q][w].swapped
    BY <1>2
  <1> QED BY <1>1, <1>3, <1>4, LifeReads

\* What a thread that leaves takes from other processes: nothing.
LEMMA OthersInUse ==
    ASSUME Typed, NEW t, NEW p \in Procs, Leaves(t, p),
           \A q \in Procs \ {p} : threadCount'[q] = threadCount[q]
    PROVE  \A q \in Procs \ {p} : \A w : InUse(q, w)' <=> InUse(q, w)
  <1>1. /\ t \in Threads /\ space' = [space EXCEPT ![t] = 0] /\ stackLocations' = stackLocations
        /\ p = space[t] /\ ProcsTyped
    BY DEF Leaves, Typed
  <1> SUFFICES ASSUME NEW q \in Procs \ {p}, NEW w
               PROVE  InUse(q, w)' <=> InUse(q, w)
    OBVIOUS
  <1>2. w \in UsedPages(q)' <=>
          (w \in Touched(q) \/ \E u \in Threads \ {t} : space[u] = q /\ w \in OwnStack(u))
    BY <1>1, LeftPages
  <1>3. w \in UsedPages(q) <=>
          (w \in Touched(q) \/ \E u \in Threads : space[u] = q /\ w \in OwnStack(u))
    BY DEF UsedPages
  <1>4. (\E u \in Threads \ {t} : space[u] = q /\ w \in OwnStack(u))
          <=> (\E u \in Threads : space[u] = q /\ w \in OwnStack(u))
    BY <1>1
  <1>5. w \in UsedPages(q)' <=> w \in UsedPages(q)
    BY <1>2, <1>3, <1>4
  <1>6. q \in RunningProcs' <=> q \in RunningProcs
    BY DEF RunningProcs
  <1> QED BY <1>5, <1>6 DEF InUse

LEMMA ExitProcessReads ==
    ASSUME Typed, ProcsRight, Coherent, Typed', ProcsRight', Coherent', ~strayFree, ~strayFree',
           ExitProcess
    PROVE  ProgramMemory!Map \/ UNCHANGED ReadBack
  <1> PICK t \in Threads, p \in Procs :
             /\ Leaves(t, p)
             /\ bitmap' = bitmap \ {f \in Frames : ipt[f].spaceOwner = p}
             /\ threadCount' = [threadCount EXCEPT ![p] = 0]
    BY ExitProcessFacts
  <1>1. SameFrames /\ UNCHANGED <<mainMemory, dropped>> /\ bitmap' \subseteq bitmap
    BY ExitProcessTyped DEF ExitProcess, Flushed, SameFrames, history
  <1>2. \A q \in Procs \ {p} : \A w : InUse(q, w)' <=> InUse(q, w)
    <2>1. threadCount \in [Procs -> Nat]
      BY DEF Typed, ProcsTyped
    <2>2. \A q \in Procs \ {p} : threadCount'[q] = threadCount[q]
      BY <2>1
    <2> QED BY <2>2, OthersInUse
  <1>3. \A w : ~InUse(p, w)'
    <2>1. threadCount'[p] = 0
      BY DEF Typed, ProcsTyped
    <2> QED BY <2>1 DEF InUse, RunningProcs
  <1>4. \A q \in Procs : \A w \in Pages(q) : (InUse(q, w) /\ InUse(q, w)') =>
          /\ pageTable'[q][w].diskLocation = pageTable[q][w].diskLocation
          /\ pageTable'[q][w].swapped = pageTable[q][w].swapped
    BY <1>3 DEF Leaves
  <1> QED BY <1>1, <1>2, <1>4, LifeReads

LEMMA ExitThreadReads ==
    ASSUME Typed, ProcsRight, Coherent, Typed', ProcsRight', Coherent', ~strayFree, ~strayFree',
           ExitThread
    PROVE  ProgramMemory!Map \/ UNCHANGED ReadBack
  <1> PICK t \in Threads, p \in Procs :
             /\ Leaves(t, p)
             /\ \A v \in Pages(p) :
                  pageTable'[p][v] = IF v \in StackOf(t)
                                     THEN OnFrame(pageTable[p][v], -1)
                                     ELSE pageTable[p][v]
             /\ \E freed \in FreedFrames(t) : bitmap' = bitmap \ freed
             /\ threadCount' = [threadCount EXCEPT ![p] = threadCount[p] - 1]
    BY ExitThreadFacts
  <1>1. SameFrames /\ UNCHANGED mainMemory /\ bitmap' \subseteq bitmap
    BY ExitThreadTyped DEF ExitThread, Flushed, SameFrames
  <1>2. \A q \in Procs \ {p} : \A w : InUse(q, w)' <=> InUse(q, w)
    <2>1. threadCount \in [Procs -> Nat]
      BY DEF Typed, ProcsTyped
    <2>2. \A q \in Procs \ {p} : threadCount'[q] = threadCount[q]
      BY <2>1
    <2> QED BY <2>2, OthersInUse
  <1>3. ASSUME NEW q \in Procs, NEW w \in Pages(q)
        PROVE  /\ pageTable'[q][w].diskLocation = pageTable[q][w].diskLocation
               /\ pageTable'[q][w].swapped = pageTable[q][w].swapped
    <2>1. CASE q = p
      <3>1. pageTable \in [Procs -> Table]
        BY DEF Typed, MemoryTyped
      <3>2. pageTable[p][w] \in Entry
        BY <2>1, <3>1, TableShape DEF Pages
      <3> QED BY <2>1, <3>2, EntryChanged
    <2>2. CASE q # p
      BY <2>2 DEF Leaves
    <2> QED BY <2>1, <2>2
  <1>4. \A q \in Procs \ {p} : \A w : <<q, w>> \in dropped' <=> <<q, w>> \in dropped
    <2> DEFINE gone == {i \in Slots : DropsEntry(t, tlb[i])}
    <2>1. LosesMarks(gone) /\ gone \subseteq Slots /\ p = space[currentThread]
      BY DEF ExitThread, Leaves
    <2> HIDE DEF gone
    <2> QED BY <2>1, MarksLost DEF Coherent
  <1> QED BY <1>1, <1>2, <1>3, <1>4, LifeReads

LEMMA ReadsStep ==
    ASSUME Typed, ProcsRight, Straight, Typed', ProcsRight', Straight', [Next]_vars
    PROVE  ProgramMemory!Next \/ UNCHANGED ReadBack
  <1> USE DEF ProgramMemory!Next
  <1>1. CASE strayFree'
    <2>1. Answered' = {}
      BY <1>1 DEF Answered
    <2>2. CASE Answered = {}
      BY <2>1, <2>2 DEF ReadBack
    <2> QED BY <2>1, <2>2, GiveUpIs
  <1>2. CASE ~strayFree'
    <2>0. ~strayFree /\ Coherent /\ Copied /\ Coherent'
      BY <1>2, StrayStays DEF Straight
    <2>1. ASSUME NEW v \in AllPages, WriteMem(v)
          PROVE  ProgramMemory!Next \/ UNCHANGED ReadBack
      BY <1>2, <2>0, <2>1, WriteReads
    <2>2. ASSUME NEW v, FaultOnResidentPage(v)
          PROVE  ProgramMemory!Next \/ UNCHANGED ReadBack
      BY <1>2, <2>0, <2>2, ResidentOrSwitchReads
    <2>3. ASSUME NEW v, FaultWithFreeFrame(v) \/ FaultWithEviction(v)
          PROVE  ProgramMemory!Next \/ UNCHANGED ReadBack
      BY <1>2, <2>0, <2>3, FaultReads
    <2>4. ASSUME NEW t \in Threads, SwitchTo(t)
          PROVE  ProgramMemory!Next \/ UNCHANGED ReadBack
      BY <1>2, <2>0, <2>4, ResidentOrSwitchReads
    <2>5. CASE Fork
      BY <1>2, <2>0, <2>5, ForkReads
    <2>6. CASE Exec
      BY <1>2, <2>0, <2>6, ExecReads
    <2>7. CASE ExitProcess
      BY <1>2, <2>0, <2>7, ExitProcessReads
    <2>8. CASE ExitThread
      BY <1>2, <2>0, <2>8, ExitThreadReads
    <2>9. CASE ExecFails \/ ExitHalts \/ UNCHANGED vars
      <3>1. SameMemory
        BY <2>9, StutterSame
      <3>2. /\ SameFrames
            /\ UNCHANGED <<bitmap, mainMemory, pageTable, stackLocations, space, threadCount, dropped>>
        BY <3>1 DEF SameMemory, SameFrames, Typed, MemoryTyped
      <3> QED BY <1>2, <2>0, <3>2, QuietReads
    <2> QED BY <2>1, <2>2, <2>3, <2>4, <2>5, <2>6, <2>7, <2>8, <2>9 DEF Next
  <1> QED BY <1>1, <1>2

LEMMA ReadsInit == Init => ProgramMemory!Init
  <1> SUFFICES ASSUME Init
               PROVE  /\ \A pv, qw \in Answered : pv[1] = qw[1]
                      /\ \A pv \in Answered : ReadBack[pv] \in (Procs \X AllPages \X {0, 1}) \cup {Undefined}
    BY DEF ProgramMemory!Init, ProgramMemory!InUse, ReadBack
  <1>1. /\ bitmap = {} /\ RunningProcs = {1} /\ Typed /\ ProcsRight /\ Coherent
    <2>1. bitmap = {}
      <3> PICK options : Initialize(options)
        BY DEF Init
      <3> QED BY Zenon DEF Initialize
    <2>2. RunningProcs = {1}
      BY Constants DEF Init, StartProcess, RunningProcs
    <2> QED BY <2>1, <2>2, ProcsInit, CoherentInit
  <1>2. \A pv, qw \in Answered : pv[1] = qw[1]
    BY <1>1 DEF Answered
  <1>3. ASSUME NEW pv \in Answered
        PROVE  ReadBack[pv] \in (Procs \X AllPages \X {0, 1}) \cup {Undefined}
    <2> PICK p, v : p = pv[1] /\ v = pv[2]
      OBVIOUS
    <2>1. p \in Procs /\ v \in AllPages /\ InUse(p, v)
      BY AnsweredPairs DEF Kept
    <2> PICK c : c = ContentRead(p, v)
      OBVIOUS
    <2>2. c = OnDisk(p, v)
      BY <1>1, <2>1, ReadShows DEF Shows
    <2>3. c = Content(p, v, 0) \/ c = pageTable[p][v].swapped \/ c = NoPage
      BY Zenon, <2>2 DEF OnDisk
    <2>4. ReadBack[pv] = IF c[1] = p /\ c[2] = v THEN c ELSE Undefined
      BY DEF ReadBack, ReadFrom
    <2>5. c \in Held
      <3>1. v \in Pages(p) /\ pageTable[p] \in Table
        BY <1>1, <2>1, UsedArePages DEF Typed, MemoryTyped
      <3>2. pageTable[p][v].swapped \in Held
        BY <3>1, TableShape DEF Pages, Entry
      <3>3. p \in Nat /\ v \in Nat
        BY <2>1, <3>1, TableShape DEF Procs, Pages
      <3> QED BY <2>3, <3>2, <3>3 DEF Content, NoPage, Held
    <2> QED BY <2>1, <2>4, <2>5 DEF Held
  <1> QED BY <1>2, <1>3

\* Every process reads what it last wrote, through any number of faults, evictions,
\* switches and lives of other processes: paging implements the memory that the
\* module Memory promises to any programs, of every page but those whose only mark was
\* dropped (see CopiesStayInStep), until a thread's exit has freed frames in use by
\* entries that were never set.
THEOREM ProgramsKeepTheirMemory == Spec => ImplementsMemory
  <1>1. Init => Straight
    BY CoherentInit DEF Straight
  <1>2. Typed /\ Typed' /\ ProcsRight /\ ProcsRight' /\ Straight /\ [Next]_vars => Straight'
    BY StraightStep
  <1>3. Init => ProgramMemory!Init
    BY ReadsInit
  <1>4. Typed /\ ProcsRight /\ Straight /\ Typed' /\ ProcsRight' /\ Straight'
          /\ [Next]_vars => ProgramMemory!Next \/ UNCHANGED ReadBack
    BY ReadsStep
  <1>5. ProgramMemory!Next \/ UNCHANGED ReadBack =>
          [ProgramMemory!Next]_[page \in Answered |-> ReadFrom(page[1], page[2])]
    BY DEF ReadBack
  <1> QED BY <1>1, <1>2, <1>3, <1>4, <1>5, ProcessesRight, PTL
          DEF Spec, ImplementsMemory, ProgramMemory!Spec
=============================================================================
