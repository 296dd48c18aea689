---------------------------- MODULE VirtualMemory ----------------------------
(***************************************************************************)
(* Demand paging and the life of processes (userprog/exception.cc,         *)
(* userprog/addrspace.cc, machine/translate.cc): the TLB that the machine  *)
(* translates with, the inverted page table, the page tables that say      *)
(* where a page is on disk, the eviction of pages to the swap file, and    *)
(* Fork, Exec and Exit, which make and free the pages.                     *)
(*                                                                         *)
(* A page fault runs with interrupts disabled and on a file system that    *)
(* does not block, so it is one action. Exec, Fork and Exit hold           *)
(* kernelLock; the only thing that other threads do in their middle is to  *)
(* switch and to fault, which commutes with them, so each is one action as *)
(* well. A page is one cell: the word that a program writes in it.         *)
(***************************************************************************)
EXTENDS Integers, Sequences, FiniteSets

CONSTANTS NumPhysPages,    \* frames of main memory
          TLBSize,         \* entries of the TLB
          StackPages,      \* UserStackSize / PageSize
          MaxProcesses,    \* bound: processes that are ever started, or fail to
          MaxThreads,      \* bound: threads that are ever forked
          ImagePages(_),   \* pages of a program's code and initialized data
          BssPages(_),     \* pages of its uninitialized data
          Touched(_),      \* pages below the stacks that its threads use ...
          Written(_),      \* ... and write
          Stacked,         \* the threads that use their stacks as well
          Forking          \* the processes whose programs fork threads

VMAssumption ==
    /\ NumPhysPages \in Nat \ {0} /\ TLBSize \in Nat \ {0} /\ StackPages \in Nat \ {0}
    /\ MaxProcesses \in Nat \ {0} /\ MaxThreads \in Nat \ {0}
    /\ \A p \in 1 .. MaxProcesses :
         /\ ImagePages(p) \in Nat \ {0} /\ BssPages(p) \in Nat
         /\ Touched(p) \subseteq 0 .. ImagePages(p) + BssPages(p) - 1
         /\ Written(p) \subseteq Touched(p)
    /\ Stacked \subseteq 1 .. MaxThreads
    /\ Forking \subseteq 1 .. MaxProcesses
ASSUME VMAssumption

VARIABLES
    tlb, tlbCounter,      \* machine->tlb, and the counter that picks an entry to replace
    ipt,                  \* the inverted page table, one entry per frame
    bitmap,               \* the frames in use
    swapQueue,            \* frames in the order in which they were filled
    runWithFIFO,          \* eviction policy: FIFO or random (option -P)
    mainMemory,           \* what each frame holds
    pageTable,            \* per process, what each page's entry says
    stackLocations,       \* per thread, the first page of its stack (in the process table)
    space,                \* per thread, the process it runs in; 0 when it does not exist
    threadCount,          \* AddrSpace::threadCount, 0 for a process that does not exist
    processCount,         \* processes started so far
    runningProcessCount,  \* processTable's count of processes, less one
    failedExecs,          \* Execs that found no file
    currentThread,        \* the thread that has the CPU, 0 for none
    halted,               \* Interrupt::Halt has been called
    strayFree,            \* history: an exit freed frames in use by an entry that was never set
    dropped               \* history: the pages whose dirty bits were dropped with their TLB entries

mmu == <<tlb, tlbCounter, ipt, mainMemory>>
procs == <<stackLocations, space, threadCount, processCount, runningProcessCount, failedExecs>>
history == <<strayFree, dropped>>
vars == <<mmu, bitmap, swapQueue, runWithFIFO, pageTable, procs, currentThread, halted, history>>

Frames == 0 .. NumPhysPages - 1
Slots == 0 .. TLBSize - 1
Procs == 1 .. MaxProcesses
Threads == 1 .. MaxThreads

\* What a frame, the swap file or a program file holds of a page. A new value of
\* a page is told from the last by a bit.
NoPage == <<0, 0, 0>>
Content(p, v, bit) == <<p, v, bit>>

\* AddrSpace::AddrSpace does not set physicalPage: it is whatever the heap held.
Garbage == -2

TopOf(p) == ImagePages(p) + BssPages(p)
Pages(p) == DOMAIN pageTable[p]
Alive(t) == space[t] # 0
StackOf(t) == stackLocations[t] .. stackLocations[t] + StackPages - 1

MaxTop == CHOOSE n \in {TopOf(p) : p \in Procs} : \A p \in Procs : TopOf(p) <= n
AllPages == 0 .. MaxTop + MaxThreads * StackPages

\* An entry of the TLB that is not valid; its other fields are not looked at again.
Invalid == [virtualPage |-> 0, physicalPage |-> 0, valid |-> FALSE, dirty |-> FALSE]

Least(S) == CHOOSE x \in S : \A y \in S : x <= y

-----------------------------------------------------------------------------
\* AddrSpace::AddrSpace: nothing is loaded, the first pages come from the program
\* file, the others, and the stack, from nowhere.
NewSpace(p) ==
    [v \in 0 .. TopOf(p) + StackPages - 1 |->
        [diskLocation |-> IF v < ImagePages(p) THEN "EXECUTABLE" ELSE "NEITHER",
         swapped |-> NoPage, physicalPage |-> Garbage]]

\* Machine::Machine
MachineOn == /\ tlb = [i \in Slots |-> Invalid]
             /\ mainMemory = [f \in Frames |-> NoPage]

\* The command lines that run a program; other options change nothing here.
CommandLines == {{"-x"}, {"-x", "-P RAND"}}

\* Initialize makes these structures anew for each option, before any of them is
\* used; -P sets the policy.
Initialize(options) ==
    /\ runWithFIFO = ("-P RAND" \notin options)
    /\ bitmap = {} /\ swapQueue = <<>> /\ tlbCounter = -1
    /\ ipt = [f \in Frames |-> [virtualPage |-> 0, spaceOwner |-> 0,
                                valid |-> FALSE, dirty |-> FALSE]]
    /\ failedExecs = 0 /\ runningProcessCount = 0
    /\ currentThread = 1 /\ halted = FALSE

\* The main thread enters the first process, which counts it as its first.
StartProcess ==
    /\ processCount = 1
    /\ pageTable = [p \in Procs |-> IF p = 1 THEN NewSpace(1) ELSE <<>>]
    /\ threadCount = [p \in Procs |-> IF p = 1 THEN 1 ELSE 0]
    /\ stackLocations = [t \in Threads |-> IF t = 1 THEN TopOf(1) ELSE 0]
    /\ space = [t \in Threads |-> IF t = 1 THEN 1 ELSE 0]

Init == /\ MachineOn /\ StartProcess /\ \E options \in CommandLines : Initialize(options)
        /\ strayFree = FALSE /\ dropped = {}

-----------------------------------------------------------------------------
(* Translation *)

\* The pages that a thread's program uses: what the process shares, and its stack.
OwnStack(t) == IF t \in Stacked THEN StackOf(t) ELSE {}
Usable(t) == Touched(space[t]) \cup OwnStack(t)
Writable(t) == Written(space[t]) \cup OwnStack(t)

\* Machine::Translate takes the first valid entry for the page.
Hits(v) == {i \in Slots : tlb[i].valid /\ tlb[i].virtualPage = v}

RunsUser == ~halted /\ currentThread # 0

\* Machine::WriteMem with a translation: a value other than the last one. A read
\* changes nothing that matters.
WriteMem(v) ==
    /\ RunsUser /\ v \in Writable(currentThread) /\ Hits(v) # {}
    /\ LET i == Least(Hits(v))
           f == tlb[i].physicalPage
       IN  /\ tlb' = [tlb EXCEPT ![i].dirty = TRUE]
           /\ mainMemory' = [mainMemory EXCEPT ![f] =
                                Content(space[currentThread], v, 1 - mainMemory[f][3])]
    /\ UNCHANGED <<tlbCounter, ipt, bitmap, swapQueue, runWithFIFO, pageTable, procs,
                   currentThread, halted, history>>

Propagate_Forgotten(table, entry) == table

\* "Propagates the dirty bit before the TLB is modified": a valid entry's bit
\* becomes the frame's.
Propagate(table, entry) ==
    IF entry.valid THEN [table EXCEPT ![entry.physicalPage].dirty = entry.dirty] ELSE table

\* The end of HandlePageFault: the next slot of the TLB is filled from the entry
\* of frame f in the inverted page table `table`.
LoadTLB(entries, table, f) ==
    LET i == (tlbCounter + 1) % TLBSize
        propagated == Propagate(table, entries[i])
    IN  /\ tlbCounter' = i
        /\ ipt' = propagated
        /\ tlb' = [entries EXCEPT ![i] =
                     [virtualPage |-> propagated[f].virtualPage, physicalPage |-> f,
                      valid |-> propagated[f].valid, dirty |-> propagated[f].dirty]]

\* The frames that hold page v of process p, by the inverted page table.
FramesOf(p, v) ==
    {f \in Frames : ipt[f].valid /\ ipt[f].spaceOwner = p /\ ipt[f].virtualPage = v}

\* A page fault of the running thread on v, and where it finds the page.
Faults(v) == RunsUser /\ v \in Usable(currentThread) /\ Hits(v) = {}

\* HandlePageFault when the page is in memory: only the TLB lacked it.
FaultOnResidentPage(v) ==
    /\ Faults(v)
    /\ FramesOf(space[currentThread], v) # {}
    /\ LoadTLB(tlb, ipt, Least(FramesOf(space[currentThread], v)))
    /\ UNCHANGED <<bitmap, swapQueue, runWithFIFO, mainMemory, pageTable, procs,
                   currentThread, halted, history>>

Enqueued_OnlyEvicted(queue, f) == IF runWithFIFO /\ bitmap = Frames THEN Append(queue, f) ELSE queue

\* The FIFO of frames.
Enqueued(queue, f) == IF runWithFIFO THEN Append(queue, f) ELSE queue

\* The rest of handleIPTMiss and of HandlePageFault, once a frame has been found:
\* the page is read from where it is on disk, if anywhere, and entered in the
\* tables. `queue`, `entries`, `table` and `pages` are what eviction made of
\* swapQueue, tlb, ipt and pageTable.
LoadPage(v, f, queue, entries, table, pages) ==
    LET p == space[currentThread]
        entry == pages[p][v]
    IN  /\ mainMemory' =
             CASE entry.diskLocation = "EXECUTABLE" ->
                    [mainMemory EXCEPT ![f] = Content(p, v, 0)]
               [] entry.diskLocation = "SWAP" -> [mainMemory EXCEPT ![f] = entry.swapped]
               [] OTHER -> [mainMemory EXCEPT ![f] = NoPage]   \* what it finds, means nothing
        /\ swapQueue' = Enqueued(queue, f)
        /\ pageTable' = [pages EXCEPT ![p][v].physicalPage = f]
        /\ LoadTLB(entries, [table EXCEPT ![f] = [virtualPage |-> v, spaceOwner |-> p,
                                                  valid |-> TRUE, dirty |-> @.dirty]], f)
    /\ UNCHANGED <<runWithFIFO, procs, currentThread, halted>>

\* handleIPTMiss with a free frame.
FaultWithFreeFrame(v) ==
    /\ Faults(v) /\ FramesOf(space[currentThread], v) = {}
    /\ bitmap # Frames
    /\ LET f == Least(Frames \ bitmap)
       IN  /\ bitmap' = bitmap \cup {f}
           /\ LoadPage(v, f, swapQueue, tlb, ipt, pageTable)
    /\ UNCHANGED history

MatchesEvicted_Never(f, entry) == FALSE

\* handleMemoryFull, the TLB: entries for the number of the evicted page become
\* invalid, and a dirty one marks the frame. The owner of the page is compared
\* with itself (exception.cc:372), so an entry of the running process matches
\* even when the page belongs to another.
MatchesEvicted(f, entry) == entry.valid /\ entry.virtualPage = ipt[f].virtualPage

\* Pages whose only dirty bits were in these entries of the TLB.
LosesMarks(entries) ==
    dropped' = dropped \cup
        {<<ipt[f].spaceOwner, ipt[f].virtualPage>> :
            f \in {tlb[i].physicalPage : i \in {j \in entries : tlb[j].valid /\ tlb[j].dirty}}
                 \cap {f \in Frames : ~ipt[f].dirty}}

\* The page is in no frame any more.
Unmapped(pages, owner, page) == [pages EXCEPT ![owner][page].physicalPage = -1]

\* handleMemoryFull for the frame f.
Evict(f, v, queue) ==
    LET owner == ipt[f].spaceOwner
        page == ipt[f].virtualPage
        matching == {i \in Slots : MatchesEvicted(f, tlb[i])}
        dirty == ipt[f].dirty \/ \E i \in matching : tlb[i].dirty
        entries == [i \in Slots |-> IF i \in matching THEN Invalid ELSE tlb[i]]
        written == IF dirty
                   THEN [pageTable EXCEPT ![owner][page].diskLocation = "SWAP",
                                          ![owner][page].swapped = mainMemory[f]]
                   ELSE pageTable
    IN  /\ LoadPage(v, f, queue, entries, [ipt EXCEPT ![f].dirty = dirty],
                    Unmapped(written, owner, page))
        /\ LosesMarks({i \in matching : tlb[i].physicalPage # f}) /\ UNCHANGED strayFree

\* handleIPTMiss with all frames in use.
FaultWithEviction(v) ==
    /\ Faults(v) /\ FramesOf(space[currentThread], v) = {}
    /\ bitmap = Frames
    /\ bitmap' = bitmap
    /\ IF runWithFIFO
       THEN IF swapQueue = <<>> THEN Evict(0, v, <<>>)   \* List::Remove returns NULL
                                ELSE Evict(Head(swapQueue), v, Tail(swapQueue))
       ELSE \E f \in Frames : Evict(f, v, swapQueue)

-----------------------------------------------------------------------------
(* Threads and processes *)

\* AddrSpace::SaveState and RestoreState: the dirty bits go to the inverted page
\* table and the TLB is emptied.
FlushTLB(entries) ==
    /\ ipt' = [f \in Frames |->
                 LET users == {i \in Slots : entries[i].valid /\ entries[i].physicalPage = f}
                 IN  IF users = {} THEN ipt[f]
                     ELSE [ipt[f] EXCEPT !.dirty = entries[CHOOSE i \in users :
                                                    \A j \in users : j <= i].dirty]]
    /\ tlb' = [i \in Slots |-> Invalid]

\* The scheduler gives the CPU to another thread (or, for a thread that has not
\* run, kernel_thread or exec_thread does what is left of the switch).
SwitchTo(t) ==
    /\ ~halted /\ Alive(t) /\ t # currentThread
    /\ FlushTLB(tlb)
    /\ currentThread' = t
    /\ UNCHANGED <<tlbCounter, mainMemory, bitmap, swapQueue, runWithFIFO, pageTable,
                   procs, halted, history>>

\* A thread object for a new thread of process p with its stack at page v.
NewThread(t, p, v) ==
    /\ stackLocations[t] = 0                              \* ids are given in order
    /\ \A u \in 1 .. t - 1 : stackLocations[u] # 0       \* and once
    /\ stackLocations' = [stackLocations EXCEPT ![t] = v]
    /\ space' = [space EXCEPT ![t] = p]

\* SC_Fork: NewPageTable appends a stack to the page table, RestoreState empties
\* the TLB.
Fork ==
    /\ RunsUser /\ space[currentThread] \in Forking
    /\ LET p == space[currentThread]
           numPages == Cardinality(Pages(p))
           stack == [diskLocation |-> "NEITHER", swapped |-> NoPage, physicalPage |-> -1]
       IN  /\ \E t \in Threads : NewThread(t, p, numPages)
           /\ pageTable' = [pageTable EXCEPT ![p] =
                 [v \in 0 .. numPages + StackPages - 1 |->
                    IF v \in Pages(p) THEN pageTable[p][v] ELSE stack]]
           /\ threadCount' = [threadCount EXCEPT ![p] = @ + 1]
    /\ FlushTLB(tlb)
    /\ UNCHANGED <<tlbCounter, mainMemory, bitmap, swapQueue, runWithFIFO, processCount,
                   runningProcessCount, failedExecs, currentThread, halted, history>>

\* SC_Exec of a program that exists.
Exec ==
    /\ RunsUser /\ processCount + failedExecs < MaxProcesses
    /\ processCount' = processCount + 1
    /\ runningProcessCount' = runningProcessCount + 1
    /\ pageTable' = [pageTable EXCEPT ![processCount'] = NewSpace(processCount')]
    /\ threadCount' = [threadCount EXCEPT ![processCount'] = 1]
    /\ \E t \in Threads : NewThread(t, processCount', TopOf(processCount'))
    /\ UNCHANGED <<mmu, bitmap, swapQueue, runWithFIFO, failedExecs, currentThread, halted,
                   history>>

\* SC_Exec of a file that cannot be opened: the process has been counted already.
ExecFails ==
    /\ RunsUser /\ processCount + failedExecs < MaxProcesses
    /\ failedExecs' = failedExecs + 1
    /\ runningProcessCount' = runningProcessCount + 1
    /\ UNCHANGED <<mmu, bitmap, swapQueue, runWithFIFO, pageTable, stackLocations, space,
                   threadCount, processCount, currentThread, halted, history>>

isLastProcess_OffByOne == runningProcessCount <= 1
isLastProcess == runningProcessCount = 0
isLastExecutingThread(t) == threadCount[space[t]] = 1

\* Thread::Finish of the running thread: another one gets the CPU if there is one,
\* which saves what is left of the TLB.
Finish(entries) ==
    /\ space' = [space EXCEPT ![currentThread] = 0]
    /\ FlushTLB(entries)
    /\ IF \E t \in Threads \ {currentThread} : Alive(t)
       THEN currentThread' \in {t \in Threads \ {currentThread} : Alive(t)}
       ELSE currentThread' = 0

\* SC_Exit of the last thread of the last process stops Nachos.
ExitHalts ==
    /\ RunsUser /\ isLastProcess /\ isLastExecutingThread(currentThread)
    /\ halted' = TRUE
    /\ UNCHANGED <<mmu, bitmap, swapQueue, runWithFIFO, pageTable, procs, currentThread,
                   history>>

\* SC_Exit of the last thread of a process: AddrSpace::~AddrSpace frees the frames
\* that the inverted page table has under its id, and leaves the entries.
ExitProcess ==
    /\ RunsUser /\ ~isLastProcess /\ isLastExecutingThread(currentThread)
    /\ LET p == space[currentThread]
       IN  /\ bitmap' = bitmap \ {f \in Frames : ipt[f].spaceOwner = p}
           /\ threadCount' = [threadCount EXCEPT ![p] = 0]
           /\ pageTable' = [pageTable EXCEPT ![p] = <<>>]
    /\ runningProcessCount' = runningProcessCount - 1
    /\ Finish(tlb)
    /\ UNCHANGED <<tlbCounter, swapQueue, runWithFIFO, mainMemory, stackLocations,
                   processCount, failedExecs, halted, history>>

\* AddrSpace::DeleteCurrentThread: the frames of the stack are freed, by the page
\* table. An entry that was never set names any frame, or none.
StackEntries(t) == {pageTable[space[t]][v].physicalPage : v \in StackOf(t)}
FramesOfStack(t) == StackEntries(t) \ {-1, Garbage}
FreedFrames(t) ==
    {FramesOfStack(t) \cup stray :
        stray \in IF Garbage \in StackEntries(t) THEN SUBSET Frames ELSE {{}}}

\* A number that names no frame fails BitMap::Clear's assertion.
MayAbort(t) == \E v \in StackOf(t) : pageTable[space[t]][v].physicalPage = Garbage

\* The loop over the TLB assigns where it should compare (addrspace.cc:329), so
\* one resident stack page is enough to make every entry invalid.
DropsEntry(t, entry) ==
    \E v \in StackOf(t) : v # 0 /\ pageTable[space[t]][v].physicalPage # -1

\* SC_Exit of a thread that leaves others in its process.
ExitThread ==
    /\ RunsUser /\ ~isLastExecutingThread(currentThread)
    /\ LET t == currentThread
           p == space[t]
       IN  /\ \E freed \in FreedFrames(t) :
                 /\ bitmap' = bitmap \ freed
                 /\ strayFree' = (strayFree \/ (freed \cap bitmap) \ FramesOfStack(t) # {})
           /\ LosesMarks({i \in Slots : DropsEntry(t, tlb[i])})
           /\ threadCount' = [threadCount EXCEPT ![p] = @ - 1]
           /\ pageTable' = [pageTable EXCEPT ![p] =
                 [v \in Pages(p) |-> IF v \in StackOf(t)
                                     THEN [pageTable[p][v] EXCEPT !.physicalPage = -1]
                                     ELSE pageTable[p][v]]]
           /\ Finish([i \in Slots |-> IF DropsEntry(t, tlb[i]) THEN Invalid ELSE tlb[i]])
           /\ halted' \in {FALSE} \cup {b \in {TRUE} : MayAbort(t)}
    /\ UNCHANGED <<tlbCounter, swapQueue, runWithFIFO, mainMemory, stackLocations,
                   processCount, runningProcessCount, failedExecs>>

-----------------------------------------------------------------------------
Next ==
    \/ \E v \in AllPages : \/ WriteMem(v)
                          \/ FaultOnResidentPage(v)
                          \/ FaultWithFreeFrame(v)
                          \/ FaultWithEviction(v)
    \/ \E t \in Threads : SwitchTo(t)
    \/ Fork \/ Exec \/ ExecFails
    \/ ExitHalts \/ ExitProcess \/ ExitThread

Spec == Init /\ [][Next]_vars

-----------------------------------------------------------------------------
(* Properties *)

RunningProcs == {p \in Procs : threadCount[p] # 0}

\* The pages that threads of p may use: those it shares, and the stacks of the
\* threads it has.
UsedPages(p) == Touched(p) \cup UNION {OwnStack(t) : t \in {u \in Threads : space[u] = p}}

\* The TLB never shows the running thread a page of another process or a frame
\* that has been given away: each valid entry is what the inverted page table
\* says of its frame, no page has two, and the frame is in use.
TLBCoherent ==
    \A i \in Slots : tlb[i].valid =>
        /\ currentThread # 0
        /\ LET f == tlb[i].physicalPage
           IN  /\ f \in bitmap
               /\ ipt[f].valid /\ ipt[f].spaceOwner = space[currentThread]
               /\ ipt[f].virtualPage = tlb[i].virtualPage
        /\ \A j \in Slots \ {i} : tlb[j].valid => tlb[j].virtualPage # tlb[i].virtualPage

\* Under FIFO every frame in use is in the queue, so that eviction finds one that
\* holds a page.
UsedFramesQueued == runWithFIFO => \A f \in bitmap : \E n \in DOMAIN swapQueue : swapQueue[n] = f

\* What the disk has of a page.
OnDisk(p, v) ==
    CASE pageTable[p][v].diskLocation = "EXECUTABLE" -> Content(p, v, 0)
      [] pageTable[p][v].diskLocation = "SWAP" -> pageTable[p][v].swapped
      [] OTHER -> NoPage

\* The dirty bits: a page in memory that differs from its copy on disk is marked,
\* in the TLB or in the inverted page table, so that it is written before its
\* frame is given away (the comment at exception.cc:369), unless one of the two
\* loops that make entries of the TLB invalid has dropped its bit.
DirtyPagesMarked ==
    \A f \in Frames :
        LET p == ipt[f].spaceOwner
            v == ipt[f].virtualPage
        IN  (/\ ipt[f].valid /\ f \in bitmap /\ p \in RunningProcs /\ v \in UsedPages(p)
             /\ <<p, v>> \notin dropped
             /\ mainMemory[f] \in {Content(p, v, 0), Content(p, v, 1)}
             /\ mainMemory[f] # OnDisk(p, v))
            => \/ ipt[f].dirty
               \/ \E i \in Slots : tlb[i].valid /\ tlb[i].physicalPage = f /\ tlb[i].dirty

\* Of a page there are copies in the TLB, in memory and on disk: none is mistaken for
\* another, until a thread's exit has freed frames by an entry that was never set.
CopiesInStep == ~strayFree => TLBCoherent /\ DirtyPagesMarked

\* What process p reads from page v: through the TLB while it runs, else after the
\* page fault that it would take.
ContentRead(p, v) ==
    LET translated == IF currentThread # 0 /\ space[currentThread] = p
                      THEN {tlb[i].physicalPage : i \in Hits(v)} ELSE {}
        frames == IF translated # {} THEN translated ELSE FramesOf(p, v)
    IN  IF frames = {} THEN OnDisk(p, v) ELSE mainMemory[CHOOSE f \in frames : TRUE]

Undefined == <<0, 0, 1>>
ReadFrom(p, v) == LET c == ContentRead(p, v)
                  IN  IF c[1] = p /\ c[2] = v THEN c ELSE Undefined

\* The pages that the code answers for.
Answered == IF strayFree THEN {}
            ELSE (UNION {{p} \X (UsedPages(p) \cap AllPages) : p \in RunningProcs}) \ dropped

\* Every process reads what it last wrote, through any number of faults, evictions,
\* switches and lives of other processes, from every page whose dirty bit was never dropped.
ProgramMemory == INSTANCE Memory WITH
    Contents <- Procs \X AllPages \X {0, 1},
    memory <- [page \in Answered |-> ReadFrom(page[1], page[2])]
ImplementsMemory == ProgramMemory!Spec

\* Exit halts the system only on behalf of its last thread.
ExitHaltsLast ==
    [][ExitHalts => \A t \in Threads : Alive(t) => t = currentThread]_vars
=============================================================================
