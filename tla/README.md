# A TLA+ model of this Nachos

The repository is a Nachos operating system (`nachos-csci402/code`) extended in
three projects: kernel locks and conditions with a simulated passport office,
virtual memory with a software TLB, and a network on which one machine runs a
*server* that owns the locks, conditions and monitor variables which the user
programs of all other machines share. This directory models the system from the
instructions of the simulated processor up to that server. TLC checks the modules
on small instances; TLAPS proves for every instance the main invariants of the lock
server and its clients, kernel threads, post office, virtual memory and passport office,
and that the first four implement their abstract specifications. Paths below are relative to
`nachos-csci402/code/` unless they say otherwise.

## 1. The system

| Component | State | Operations | Talks to |
|---|---|---|---|
| Lock and condition server, `network/nettest.cc` | tables `serverLocks`, `serverConds` with owner, status, queue, deletion flags | one handler per request, run one at a time by `Server()` | clients, by mail |
| Monitor-variable server, same file and loop | table `serverMons` | Create, Get, Set, Destroy | clients, by mail |
| Client system calls, `userprog/lock_syscalls.cc`, `condition_syscalls.cc` | none of their own: the thread blocks in the call | send one request to mailbox 0 of machine 0, block on mailbox 0 of the own machine | server, post office |
| Post office, `network/post.cc` | `sendLock`, semaphores `messageSent` and `messageAvailable`, mailboxes, postal worker thread | Send, Receive, PostalDelivery | device, kernel threads |
| Network device, `machine/network.cc` | one outgoing packet, one buffer for an incoming one | Send, CheckPktAvail and SendDone interrupts, Receive | host sockets |
| Threads and scheduler, `threads/thread.cc`, `scheduler.cc` | `currentThread`, ready list, status, `threadToBeDestroyed` | Fork, Yield, Sleep, Finish, Run | everything in the kernel |
| Semaphores, locks, conditions, `threads/synch.cc` | value, owner, queues | P, V, Acquire, Release, Wait, Signal, Broadcast | scheduler, interrupts off |
| Synchronized list, `threads/synchlist.cc` | a list, a lock, a condition | Append, Remove | mailboxes |
| Virtual memory, `userprog/exception.cc`, `addrspace.cc`, `machine/translate.cc` | TLB, inverted page table, page tables, frame FIFO, swap file | page fault, eviction, context switch | processes |
| Processes, `userprog/exception.cc`, `progtest.cc`, `threads/main.cc`, `system.cc` | process table, thread counts | start, Fork, Exec, Exit | virtual memory |
| Open files of a process, `userprog/exception.cc`, `addrspace.cc` | table of open files with its bitmap and lock | Open, Read, Write, Close | file system, console |
| File system, `filesys/*.cc` | free map, directory, headers on disk, open files in memory | Create, Open, Remove, ReadAt, WriteAt | disk |
| Disk, `machine/disk.cc`, `filesys/synchdisk.cc` | one request, head position, track buffer | ReadSector, WriteSector, the interrupt | interrupt queue |
| Console, `machine/console.cc`, `userprog/synchconsole.cc`, `progtest.cc` | one character each way, `putBusy` | GetChar, PutChar, two interrupts; line input and output above them | kernel threads |
| MIPS simulator, `machine/mipssim.cc`, `machine.cc` | registers, delayed load | OneInstruction, DelayedLoad, RaiseException | memory, interrupt queue |
| Interrupts and time, `machine/interrupt.cc`, `timer.cc`, `threads/scheduler.cc` | pending interrupts in order of time, level, ticks | SetLevel, OneTick, Schedule, CheckIfDue, Idle | everything |
| Passport office, `threads/threadtest.cc` | lines, counts, states and data of clerks; kernel threads | customers, four kinds of clerk, a manager | locks, conditions |
| Passport office with senators, `properTestfile.cc` | the same and who is inside | the same and senators | locks, conditions |
| Host tools, `bin/` | - | linker output to Nachos' format and to a flat image; an interpreter of the same programs | program files |
| List, bitmap, table, `threads/list.cc`, `userprog/bitmap.cc`, `table.cc` | sequences and sets | - | used by the above |

How they interact: a user program's instructions run on the simulated machine,
which leaves them by an exception. A TLB miss goes to virtual memory, a system call
to the kernel. A lock call becomes a request in the mail (client calls), a packet
on the wire (post office, device), a letter in mailbox 0 of the server's machine,
one run of a handler, and a reply along the same way back. Post office, console,
disk and the passport office are built from kernel semaphores, locks and
conditions, which are built from the scheduler with interrupts disabled; devices
answer through the interrupt queue.

What is hard, and what is therefore asked of each component:

* **Server and clients.** Requests of several machines interleave; a caller
  that must wait gets no reply until another client's request hands the lock
  on; replies carry no request number and clients ignore their text, so one
  reply too many or too few shifts all later ones; error branches mail an error
  and fall through; entries are destroyed while clients are queued in them.
  Asked: every call is in exactly one place; what a program believes to hold
  the server lists as its own; locks are handed on in order; all of it together
  is a Mesa monitor; whoever asks gets in.
* **Threads, locks, conditions.** Preemption by the timer wherever interrupts
  are enabled, hand-off of locks to sleeping threads, semaphores whose woken
  threads race with newcomers, a Broadcast loop that runs with interrupts
  enabled. Asked: no thread is lost or queued twice, no V is lost, a woken
  acquirer owns its lock, a Mesa monitor again; and the kernel's test programs,
  the synchronized list and the console come to the end they announce with their
  data in order.
* **Post office.** Two interrupt handlers, a worker and several senders share
  one device with room for one packet each way; packets may be lost and machines
  may halt. Asked: the device is never given a second packet in either direction,
  mail is a queue, what is posted reliably arrives.
* **Virtual memory and processes.** Four copies of each page's state (TLB,
  inverted page table, page table, frame queue) and eviction across processes; stacks
  and processes that end while their pages are everywhere; counts of threads and
  processes that decide when the machine halts. Asked: the copies agree, a
  program reads what it last wrote, the last Exit and no other halts.
* **Loading.** One linked program is laid out by three loaders with their own
  arithmetic. Asked: the same bytes at the same addresses, or a refusal.
* **Open files.** Threads of one process share the table; its lock covers its two
  bitmap operations and nothing else. Asked: no two files in one slot, nobody uses a
  slot's former file.
* **File system and disk.** Metadata in several sectors, written one at a time,
  and Nachos may halt between any two; one request fits into the disk. Asked: the
  map marks what the files use, reads return what was written, operations end, a
  halt harms no file but the one in hand, requests take as long as the geometry
  says.
* **Simulated machine.** Delayed loads, branches with their slots, exceptions
  that restart an instruction and switches of threads at any of them; an idle
  machine that must find the next interrupt. Asked: a program's registers are those
  of a program that runs alone; who sleeps for a device is woken; the host's
  interpreter agrees.
* **Passport offices.** A dozen locks and conditions, lines whose counts are
  compared without their lock, a bribe, breaks from which the manager calls clerks
  back, senators who empty the office. Asked: counts are lines, clerks work for
  whoever stands there, breaks can end, and if everything stops, why.

`PROJECT.json` lists the components with their status, and the hazards at
their lines with the properties that cover each.

## 2. The modules

```
 MesaMonitor (abstract)                MailService (abstract)    Memory (abstract)
   ^        ^ implements                 ^ implements              ^ implements
 LockServer Synch                      PostOffice                VirtualMemory    Loaders
              ^                                                         \           /
           KernelPrograms                                               UserProgram
            ^      ^       ^
       SynchList Console FileTable     FileStore (abstract)    MipsProgram (abstract)
            \      |      /              ^ implements            ^ implements
            KernelTests                FileSystem -> DiskTime  Machine -> HostMips -> Mips

 MonitorServer      PassportOffice      SenatorOffice
```

The proofs are in modules of their own, each of which extends the one it is about:
`LockServerProofs`, `MonitorServerProofs`, `KernelProofs` (Synch, and KernelTests on it),
`PostOfficeProofs`, `VirtualMemoryProofs`, `LoadersProofs` (UserProgram), `FileSystemProofs`,
`PassportOfficeProofs`.

`MC*.tla` instantiate the modules for TLC; each `.cfg` is one run. Every
property has a mutant, an operator `..._Variant` or named for the slip, that stands
just before the definition it changes: the way a plausible slip in that code would
read, which makes TLC report the property violated.

### LockServer

Server and clients in one module, because every interesting property relates
them. Clients: `call` (the call a thread is blocked in), `held` (the locks its
program believes to be inside of), `knownLocks`/`knownConds` (indices that
Create returned). Mail: `requests` and `inbox`, one queue per machine: the
transport keeps order and loses nothing, which is what PostOffice is checked to
provide on a reliable network, and what `WRITEUP:21` assumes. Server: the two
tables and their counters, named as in the code. Every handler is one action
(`Acquire_server`, `Wait_server`, ...), because the server is a single thread that
finishes a request before it takes the next; only the loop of Broadcast has a
step of its own per turn, during which no other handler runs.

The code's irregularities are part of the model: error branches that reply and
fall through (`Wait_server`, `Broadcast_server`), two replies at the limit of
a table, a Wait that releases a lock whoever owns it, the comparison of
`hasWaitingLock` where an assignment was meant, reads of `serverLocks[-1]`, freed
queues and the string index `serverReleaseLock` never sets. Undefined
behaviour is a choice among its outcomes; one outcome is that the server process
dies (`serverUp`).

Abstracted: the texts. A reply is the kind of text (`Got`, `Done`, `Error`,
`Index`, `Garbage`), because a client looks at no more than whether it can read
a number. The reply to a Create is built from a temporary string that has just
been destroyed (`nettest.cc:374`); it is taken to arrive intact.

Two kinds of client: `Careful` clients keep the discipline of the test
programs in `test/` (use what Create returned, wait and signal with the
condition's lock held, release what is held); others send anything at any time.

### MonitorServer

The third table of the server. It shares the receive loop with LockServer but no
state, so it is a module of its own. The array's size is kept beside its values,
and a write outside it is recorded in `overrun`, after which nothing is said.

### MesaMonitor

What a lock and its conditions promise (`threads/synch.h`): one thread inside,
a waiting thread gives the lock up and comes back only after somebody inside the
same lock has notified it and after competing for the lock again. LockServer and
Synch both implement it, each under a mapping of its own (`inside`, `entering`,
`waiting`, at the end of each module).

### Synch and the kernel's programs

*Synch*: kernel threads from Fork to deletion, the ready list, and semaphores,
locks and conditions. One CPU: an operation runs with interrupts disabled until it
returns or sleeps, so it is one action; a thread that slept continues in the middle
of its operation (`ResumeP`, `AcquireReturns`, `WaitReacquires`, per `pc`). Thread
switches (`Yield`, by the thread or the timer) and V by an interrupt handler are
possible wherever the code has interrupts enabled, which includes the gaps in
Broadcast's loop. `CarefulLocks` are the locks that threads use by the rules of
`synch.h:104-107`; with the others they do anything, as the code's own error
branches expect.

*KernelPrograms* gives threads programs: sequences of calls of Synch. The tests t1
to t5 of `threads/threadtest.cc` and ThreadTest's Yield loop are such programs, and
so is the any-use program, in which each next call is open. *SynchList*, *Console*
and *FileTable* are programs with state of their own: a list and what was removed;
the device's character buffers, whose two interrupts V the semaphores; the table of
open files. *KernelTests* chooses one of all and runs it under any schedule.
Each thread of FileTable closes what it opened, once: `Close(0)` and `Close(1)`, which
take the console's slots away, are among the divergences of section 5. The array of the
table is not cleared when it is made (`addrspace.cc:28`): a slot holds `Unwritten` until
its first Put, and `DescriptorsRight` says in which window a Get returns that.

### PostOffice and MailService

Sender threads step through `PostOffice::Send` (acquire `sendLock`, hand the
packet to the device, P on `messageSent`, release), the device's interrupts and
the postal worker through delivery. A step is what runs between two points at
which the kernel enables interrupts. The host socket is a queue per machine.
Machines not in `Reliable` may lose what they send, machines in `MayHalt` may stop,
and a sender whose packet could not be handed over halts its machine, as
`sendToServer` does. MailService is what is promised: mail is taken in the order
it was posted, each letter once, and lost only by an unreliable network or
because the receiver halted.

### VirtualMemory, Memory, Loaders, UserProgram

*VirtualMemory* has the TLB, the inverted page table `ipt`, the page tables with the
place of each page, the bitmap of frames, the queue from which FIFO eviction takes
its victim, the swap file, and the process table. `PageFault` is one action (interrupts
are disabled and files are the host's): a TLB miss fills an entry, from a frame that
has the page, or from a frame made free by evicting the first in the queue, or a
random one. `Exec`, `Fork` and the three kinds of Exit run under `kernelLock`.
A page is one cell that holds the last value written to it. Programs use and write any
pages they have, fork as they like, and their threads exit in any order.

In two ways the code goes wrong that programs of `test/` meet, and the model does as the code
does. Two history variables, which no action reads, remember when. A dirty bit that is lost
with its TLB entry puts its page into `dropped`: evicting a page also takes the TLB entry of the
*running* process's page of the same number (`exception.cc:372`), and a thread's exit makes all
entries invalid (`addrspace.cc:329`). `strayFree` says that a thread's exit has freed a
frame in use that is not its stack's, by a page table entry that was never set (158, 326):
entries of a main thread's stack that it has not touched hold what the heap held.
*Memory* is what is promised: a page of a process keeps what was last written to it. A page
in `dropped` is not promised any more (`Map`), and after `strayFree` nothing is (`GiveUp`);
VirtualMemory is shown to implement that, for any programs.

*Loaders* has the linker's sections (laid out as `test/script` says, back to back),
`coff2noff` with AddrSpace's reading of its output page by page, `coff2flat` and the
interpreter's own loader. *UserProgram* composes it with VirtualMemory: the program
that was converted is the one whose pages VirtualMemory runs with.

### FileSystem, FileStore, DiskTime

*FileSystem* is the one that `filesys/Makefile` builds (the network build passes files to
the host). An operation reads what it needs first, in memory (nobody else changes
it, `filesys.cc:32-40`), and its writes are a sequence of sectors, each a request to
the disk through the lock and semaphore of `synchdisk.cc`, so that a halt falls between
any two. The directory's entry `Straddling` lies in two sectors, and so is written in
two steps. Readers are threads with files open. *FileStore* is what is promised: an
operation changes no file but its own, and that only towards what it makes of it.
*DiskTime* is the disk's arithmetic of seeks, rotation and track buffer.

### Mips, HostMips, MipsProgram, Machine

*Mips* has the instruction set as functions on registers (words of W bits, arithmetic
with overflow exceptions, `Mult`'s long multiplication). *HostMips* is the second
interpreter in the repository (`bin/execute.c`), and the tables of codes of both.
*Machine* runs several programs: an instruction with its delayed load, exceptions,
register save and restore, system calls that ask a device and sleep, the queue of
pending interrupts, the timer, the idle machine. *MipsProgram* is what a program may
expect: instructions in order, its own registers, loads at once. Programs use no
loaded register in the next instruction, as assemblers see to
(`DelaySlotsFree`), and a TLB miss is open once per turn; VirtualMemory says which do.

### PassportOffice, SenatorOffice

*PassportOffice* is Part 2 of `threads/threadtest.cc`, whose code sets the number of
senators to 0; a step is what a thread does between kernel calls whose middle others
can see. *SenatorOffice* is `properTestfile.cc`, the complete version, with the locks
that threads hold from step to step as state. The kernel's locks there do what Synch
is checked to do: Acquire by the owner and Release by anybody else do nothing. Who gets a
lock is left open, which allows more than the FIFO queues. In both a customer reads
`isDone` in its loop's test, before the step in which it looks for a clerk and reads it
again; if it was made done in between, it has no clerk and uses -1 as an index, which
crashes the machine (`Crashed`), and nothing more happens. A clerk's job in
SenatorOffice is three steps: `likesPicture` is set when it begins, the two yields lie
between that and the test whether it accepts, and a third step files what was done.

## 3. Runs

| Run | Instance | Question |
|---|---|---|
| `server_monitor` | 3 careful machines, 1 lock name, 1 condition name, tables of 2 | Do clients and server implement the Mesa monitor? Is every call accounted for, does the server agree with the programs about owners, has a name one entry, and does everybody who asks get in? |
| `server_all_calls` | 2 careless machines, every call, any argument, tables of 1; 2.4 M states | Do the tables stay well formed and the queues in order whatever is sent? |
| `server_threads` | two threads on one machine | Violated: both get inside one lock. |
| `monitor_any` | 2 clients, 3 names, wrong sizes and indices, a table of 2; 118 k states | Do table and counter keep their limits, has a name one entry? |
| `synch_any_use` | 3 threads with 2 locks, 2 conditions and a semaphore in any way, or 4 threads in one of the ten programs; 621 k states | Are queues, owners, values and bindings consistent under any preemption and any use; is the lock that is used by the rules a Mesa monitor; do the kernel's tests end as they announce, with lists, lines and files in order? |
| `synch_live` | 3 careful threads, 1 lock, 1 condition, fairness; 2 k states | Does everybody who asks get in, does Broadcast wake everybody? |
| `post_any` | 3 senders on 2 machines, one of which halts and loses mail; fairness; 101 k states | Do the semaphores count exactly the packets in the device, is mail a queue, do reliable letters arrive and Sends return? |
| `vm_any` | 2 processes that write the same page number, a fork or an exec, exits in any order, 2 frames, 2 TLB entries, both evictions; every program of 5 sections of 0 to 3 bytes to load; 1.1 M states | Do the copies of a page agree, does a program read what it wrote, do all loaders load the same, does the last Exit halt? |
| `filesys_any` | 2 files of 1 or 3 bytes, 4 sectors of 2 bytes, a writer, a reader, halts anywhere; 103 k states | Are map and files consistent, reads right, requests one at a time and as long as the disk turns, and is a halt's harm limited to the file in hand? |
| `machine_any` | 2 threads, words of 4 bits, every program of 3 out of ten instructions beside a fixed one; 1.4 M states | Does each program compute what it would alone, is who sleeps woken, is arithmetic exact, does the host's interpreter agree? |
| `office_any` | 4 clerks, one of each kind, 2 customers with 600, one mess-up; 3.2 M states | Are counts lines, can breaks end, who is left when everything stops? |
| `senator_any` | 1 customer and 2 senators with 4 clerks; 2 senators with 5; one mess-up; 2.0 M states | Does a clerk work for who stands there, is a senator alone, does nobody wait for ever? |

Bounds. *Server*: with three clients somebody owns a lock, somebody waits on the
condition and somebody is queued at once, and a queue of two can be overtaken; more
of them only repeat these positions. Tables of one or two entries are full after one
or two creations, so their limits are reached. `MaxStale = 0` stops a careless
client that has unread mail from sending more, and `MaxWaiters` its Wait, Signal and
Broadcast when a queue is longer; careful clients never meet either bound.
*Kernel programs*: in any use a semaphore's value of 2 lets a V meet a woken thread that has
not run; the tests run with two waiters where the code has five, and the semaphore's
bound of 4 is never met. The echo test is typed one character and the one that ends it, the
line test two lines of one and two characters; the file table has two free slots for three
threads. *Post office*: one letter per
sender and two senders for one box give an order to confuse. *Virtual memory*: two frames for
two processes make every fault evict, often the other's page, and often of the same number;
the second thread is forked, or the main thread of the second process, and a main thread
exits before or after the one that it forked. *Loading*: sizes from nothing
to a page and a half, whole or a byte short. *File system*: two sectors fit one big or two
small files, so that creation fails for want of each resource; the disk is asked
for every sector after every other at each tick up to 14, more than a turn and a seek
together. Files of size 0 are left out, because with them the instance is ten times as
large; the code has nothing particular for them but what section 5 says of its test.
*Machine*: four-bit words have every carry, sign and overflow case; three
instructions allow a branch with its slot and a load before it; each may be interrupted,
miss the TLB or lose the processor. *Offices*: one clerk of each kind and two customers for one bribe
have each line, break and mess-up; `MCView` leaves out the clerks' money, which no
step reads, and symmetry exchanges customers, who are alike. Five clerks put two of a kind
beside two senators. The senators' office keeps a thread on the processor until it
sleeps or yields, as Nachos without `-rs` does; with `-rs` the first divergences
of section 5 appear.

Deadlock is not checked (`CHECK_DEADLOCK FALSE`): programs stop, halt or wait for
ever in every module, and what must not wait is stated as a property
(`EndsAsAnnounced`, `StopsWithOneAtMost`, `StopsDone`) or as liveness.

Fairness. *LockServer*: the server serves every machine whose mail waits (mailbox 0
is one FIFO), a thread whose mail has come goes on (the timer preempts the others),
and a program does not stay in a lock for ever; the last is an assumption about
user programs, strong because the release competes with the program's other
calls. *Synch*: the CPU dispatches while there is work, the timer preempts (`-rs`, as
the network scripts start Nachos), and a thread leaves its lock and its
Broadcast loop whenever it keeps being scheduled. *PostOffice*: due interrupts come,
the worker and ready threads run, and `sendLock` is handed on in turn (its queue is
a FIFO, which makes the strong fairness of `AcquireSendLock` true). *FileSystem*: the
disk's interrupt comes and threads go on; strong for the requests, because the disk's lock
has a FIFO. *Machine*: the host goes on executing it, nothing more. The other
modules have no fairness: what they say of an end they say of the states in which
nothing more can happen.

## 4. What the properties say

Each has its statement in words above it, and a mutant that breaks it.

* LockServer: `EveryCallAccounted` (a blocked thread's call is in exactly one place),
  `HolderIsOwner`, `HandOffInOrder`, `OwnershipConsistent`, `LiveNamesUnique`,
  `ImplementsMonitor`, `AskersEnter`, and, violated, `MutualExclusion`. MonitorServer:
  `LiveMonsUnique`.
* Synch: `EachThreadInOnePlace`, `LocksConsistent` (with the binding of conditions to
  locks), `NoLostV` (while threads sleep in P every unit of value has a woken thread to take
  it), `ImplementsMonitor`, `AskersEnter`, `BroadcastWakesAll`. Its programs: `EndsAsAnnounced`,
  `DataInOrder`, `DescriptorsRight`.
* PostOffice: `DeviceInStep`, `ImplementsMail`, `PostingEnds`.
* VirtualMemory: `CopiesInStep`, `UsedFramesQueued`, `ImplementsMemory`, `ExitHaltsLast`.
  Loaders: `ProgramsLoadAlike`.
* FileSystem: `DiskRight` (no request meets the disk's assertion, and each takes
  the time the geometry says), `MapMatchesFiles`, `ReadsRight`, `OperationsEnd`,
  `ImplementsFiles`.
* Machine: `ImplementsPrograms`, `DeviceAnswers`, `ArithmeticExact`, `SimulatorsAgree`.
* PassportOffice: `SleepsOnBreak`, `LineCountsRight`, `StopsWithOneAtMost`.
  SenatorOffice: `NobodyPassedOver`, `SenatorAlone`, `StopsDone`.

## 5. Findings

Checked by a run that shows the violation (the quotation is in `PROJECT.json`):
threads of one machine share mailbox 0, so the server takes them for one owner and
lets both inside (`server_threads`).

Known divergences that the models contain, or that their assumptions name, but no run
states:

*Server* (`network/nettest.cc`). A Wait on a condition being destroyed is refused, but
the handler falls through and releases the lock (689), and the client goes on as if it
held it. A Broadcast refused for a wrong index or lock is answered twice (789). A Create in
a full table is answered twice (401, 562). DestroyMonitor marks
`serverMons[serverMonCount]` instead of the variable (633). Release deletes a lock marked
for destruction although clients are queued (487); a condition marked for destruction is
never deleted (826); the binding of a condition to a lock is compared instead of
reset (739); a careless Wait takes a lock from its owner (687). Get answers with the first
character of the value (606); indices are compared with 10 instead of the array's
size (267).

*Threads*. A thread that finishes just before another finishes that never came back through
`Scheduler::Run` is not deleted (`scheduler.cc:124`). The test of a Signal with the wrong
lock says that it ends the thread (`threadtest.cc:356-359`); it returns with a message.

*Virtual memory and processes*. Evicting a page takes the TLB entry, and the dirty bit, of
the running process's page of the same number (`exception.cc:372`). DeleteCurrentThread
assigns where it should compare (`addrspace.cc:329`), so the dirty bits of pages that other
threads go on using are lost. By the first, one of two runs of a program can lose what
it wrote (`test/twoSorts.c`, `twoMatmults.c`); by the second, forked threads that
write shared data (`test/forkTwoMatmults.c`). A new page table entry of the program has no
physical page (158): a main thread that exits while threads it forked go on
(`test/forktests.c`, `forkTwoMatmults.c`) frees, for each page of its stack that it has not
touched, whatever frame the heap's number names, or meets the assertion of `BitMap::Clear`.
A system call that meets a TLB miss in `copyout` goes on
without the byte (`exception.cc:79`); swap slots are never freed (382);
`tlbCounter` grows until it overflows (425); an Exec that fails counts a process (524).
An unknown system call falls through to Halt (465; `CallHalts` in Machine). Initialize
makes the kernel's lock, bitmap and swap file inside the loop over the options: not at all
without options, and anew for each (`system.cc:160`). Pages of uninitialized data are not
zeroed, against `bin/noff.h:22`.

*Open files*. `Close(0)` and `Close(1)` clear the console's slots; a file closed while another
thread reads it is used after its deletion; files still open at Exit stay so. A Get of a slot
that Put has marked and not yet filled (`addrspace.cc:57-59`) returns, if the slot was never
used, what the array's memory held (28), against the comment that it returns 0 (44).

*File system*. Allocate does not look at `MaxFileSize` (`filehdr.cc:49`). PerformanceTest
creates a file of size 0, which cannot grow, so it always reports that it is unable to write
(`fstest.cc:124`). A file can be removed while it is open (`filesys.cc:258`).

*Simulator and host tools*. OR takes its first register twice (`mipssim.cc:375` with
`mipssim.h:202`), SRL and SRLV shift in the sign (445, 451), the least number divided by -1
traps the host (201). `bin/execute.c` extends the sign of ANDI, ORI and XORI, loses carries in
MULT's high word, keeps old bits in LWL, raises no overflow, and a division by zero
traps. `bin/d.c` prints rs for MFLO and MTLO and rd for MTHI. `bin/coff2noff.c` refuses
contiguous .bss and .sbss, which its comment (202) asks for, and programs with both .rdata
and .data; `bin/coff2flat.c` leaves part of a file behind when it fails. What the two
interpreters do differently is excepted by name in HostMips.

*Passport offices*. Under `-rs` a customer that has been called can lose its clerk between
two locks (`threadtest.cc:709`, 728). The manager calls a clerk back for two customers (1084),
so the last one waits for ever. The Release of `clerkLineLock` at 721 is by a thread that
does not own it. Customers' money may become negative; `t` is read unset (662).
A clerk that works on a stale number can make a customer done that is elsewhere: between its
loop's test (853) and the choice of a clerk (854-902) that leaves `myLine` -1, which is
printed and then used as an index (904-912). The run reaches this, and the machine ends
there. `properTestfile.cc` has the same at 1082; `senator_any` does not reach it, because it
takes a spare cashier beside a customer and a senator, where a clerk can also
break `SenatorAlone`, by the misunderstanding told next.
In `properTestfile.cc` with `-rs` a customer already claimed is served while a senator is
inside; a clerk signalled by a senator that leaves, which runs only after the next one has
entered, takes itself for called (787) and works on the number of the one before.

## 6. Proofs

Every theorem holds for every value of the constants under the modules' named
assumptions, which TLC evaluates in the runs. Where a theorem has a hypothesis of its
own, it says for which clients or programs the code keeps the promise; section 5 says what
happens to the others.

`LockServerProofs`: any threads, machines, names, table sizes (at least one lock slot),
set of calls and bounds, with careful clients or not, undefined behaviour included.

* `TypeCorrect`: `Spec => []TypeOK`.
* `OwnershipIsConsistent`: `Spec => []OwnershipConsistent`.
* `LiveNamesAreUnique`: `Spec => []LiveNamesUnique`.
* `LocksHandedOnInOrder`: `Spec => HandOffInOrder`.

The inductive invariant is `TableInv`: `TypeOK` and `LocksOK`, which adds to
`OwnershipConsistent` that slots not yet created have empty queues. It is needed
because CreateLock frees the slot it takes without emptying its queue, so
ownership alone is not inductive. One lemma per helper that rewrites an entry
(`AcquiredOK`, `PassedOK`, `DeletedOK`), one per handler, and `StepTable` joins
them. Then what one step may do to an entry: every handler but the two Creates is
`Ordinary` (locks are handed on in order, names stay, the deleted stay deleted), and a
Create that changes a table fills the next slot with a name no live entry has.

In the same module, server, mail and clients together, under `CarefulClients`: one
thread per machine, the discipline of the programs in `test/`, no Destroy and no
Broadcast, fewer names than slots. Each part is needed: two threads of a machine take each
other's replies, a Broadcast unbinds its condition, a destroyed BUSY lock forgets its queue,
a full table answers twice. The instance of `server_monitor` satisfies it.

* `HoldersOwn`: `Spec => []HolderIsOwner`; `InsideAlone`: `Spec => []MutualExclusion`,
  which is what `server_threads` refutes without the hypothesis.
* `CallsAccounted`: `Spec => []EveryCallAccounted`.
* `ServerIsMonitor`: `Spec => ImplementsMonitor`, the refinement of MesaMonitor.

The invariant `ClientInv` joins `TableInv` and `LiveNamesUnique` with `ClientOK` of every
thread: its call is in one place (`Placed`: request, one queue, or one reply of the kind
the call expects), it knows only indices in use (`Knows`), and the server lists it as owner
of what it `Claims`, which is what it is inside of and also what a call that is still
under way will give up or has obtained. A step serves one machine; that the rest of the world
keeps its `ClientOK` is the larger half of the proof.

`MonitorServerProofs`: any clients, names, sizes and table, whatever the clients ask for.

* `MonitorTypes`: `Spec => []TypeOK`.
* `OneMonitorPerName`: `Spec => []LiveMonsUnique`. Both are inductive together. The
  larger part is what the answers are made of: `FirstDigit`, a recursive function, is shown
  to exist and to be a digit by the least number for which it were not.

`KernelProofs`: any finite number of threads, and any locks, conditions and semaphores.

* `ThreadInOnePlace`: `Spec => []EachThreadInOnePlace`. The invariant `Places` says which
  threads stand in each queue, by their status and `pc`, each once (`Holds`).
* `VNotLost`: `Spec => []NoLostV`.
* `LocksStayConsistent`: `Spec => []LocksConsistent`, from `Owned`, `WokenOwn` and `Bound`.
* `MonitorImplemented`: `Spec => ImplementsMonitor` for the careful locks, whatever
  threads do with the others. `Broadcasters` says who may be in a Broadcast's loop.

In the same module, the programs that run on Synch, any number of threads:

* `TestsRunSynch`: `TestsSpec => Spec`: the tests, list, console and file table change
  threads and locks only by the steps of Synch. The invariant `ScriptsOK` is that
  scripts consist of calls that exist.
* `TestsKeepSynch`: so the four theorems on Synch hold of them.
* `OwnDescriptors`: `TestsSpec => []DescriptorsRight`, from `OwnFile` (what a thread has
  at each point of its script) and `OwnSlots` (a marked slot has one thread).

`PostOfficeProofs`: any machines, threads, boxes and letters, with loss and halts.

* `TypesHold`: `Spec => []TypeOK`; the invariant `Typed` adds the parts the type leaves open.
* `OneSend`: one send outstanding per machine. The invariant `OwnerSends` says where in
  Send the owner of `sendLock` is, by what the device and the semaphore hold.
* `OnePacketInHand`: the semaphore, the worker and the buffer agree.
* `DevicesInStep`: `Spec => []DeviceInStep`, from both.
* `MailIsDelivered`: `Spec => ImplementsMail`. The mail of a box is read off mail box,
  worker's hand, device and socket in that order; each step moves a letter across
  one border or appends one. `Written` says that a thread's letter is its next. What
  FlattenSeq computes is proved first, by induction on length.

`VirtualMemoryProofs`: any number of frames, TLB entries, processes, threads and pages,
any programs, both evictions.

* `ProcessesRight`: `Spec => [](Typed /\ ProcsRight)`: types, the counts of threads and
  processes, and that no two stacks of a process meet.
* `HaltsForTheLast`: `Spec => ExitHaltsLast`, from the counts.
* `FramesAreQueued`: `Spec => []UsedFramesQueued`.
* `TLBStaysCoherent`: `Spec => [](~strayFree => TLBCoherent)`: frames, inverted page table,
  page tables and TLB agree about owners (`FramesRight`, `TLBCoherent`).
  `ForkedStacksKnown` says that the entries of a forked stack, unlike those of a program,
  were set when they were made, so that its exit does not go astray.
* `CopiesStayInStep`: `Spec => []CopiesInStep`, and `ProgramsKeepTheirMemory`:
  `Spec => ImplementsMemory`. The invariant is `Straight`: unless `strayFree`, `Coherent`
  and `Copied`. `Copied` says that a frame holds what the disk has, or what its process wrote
  since and then is marked or in `dropped` (`CopiesRight`), and that a bit is in the
  TLB before it is in the table (`MarksAhead`).

None of the three has a hypothesis about programs. What the code does not keep is said in their
conclusions, by `strayFree` and `dropped`.

`LoadersProofs`: any sizes of sections, pages, stacks and header, any number of bytes missing.

* `LoadersAgree`: `ProgramSpec => []ProgramsLoadAlike`. The invariant `LoaderOK` says, of
  the sections that coff2noff has looked at, what the file and its header hold of them and
  that nothing yet speaks against converting. Where a section is in memory is a sum over
  those before it (`LinkedIs`), and it is the same in the file, where a section without data
  is last: so a page read at `HeaderBytes` plus its address is the right one (`PagedIs`).
* `ProgramRuns`: `ProgramSpec => Spec`: what is proved of VirtualMemory holds of the
  program that was converted.

`FileSystemProofs`: any numbers of sectors, entries, names and readers, any sizes, halts.

* `OneRequest`: `Spec => OneRequestAtATime`, from `DeviceOK`: the lock is held while a
  request is served or its end is not yet taken notice of.
* `DiskIsRight`: `Spec => DiskRight`, which adds `LatencyExact`: the arithmetic of
  `disk.cc`, reduced to which sector boundary the head meets first (`RotationRight`,
  `PassesWhen`), for every geometry and every time.
* `MapIsRight`: `Spec => MapMatchesFiles`. In the middle of an operation the map and the
  directory disagree, so the invariant `FilesOK` speaks of every disk that the operation is
  still to make: each is unsound or `Tidy` (entries with different names and sectors, headers
  of the length that the size asks for), the last is sound and has the files that are open,
  and from one to the next an open file's bytes stay or become the writer's
  (`DisksKeep`). One lemma per operation says what its disks are (`CreateWrites`,
  `RemoveWrites`, `WriteAtWrites`).
* `ReadersRight`: `Spec => ReadsRight`. `ReadsInv` says how far a read is: which sectors
  it still asks for, and that each byte taken in is the one of the beginning or the one on
  the disk now. `DisksKeep` carries it over the writer's requests.
* `FilesImplemented`: `Spec => ImplementsFiles`, the refinement of FileStore. What the store
  allows of a step is stated of two disks and the goal (`Advances`), and the invariant
  `StoreOK` says it of each disk still to be written and the next, before the first of them
  is; so an operation is settled where it begins, and a sector that is written only takes the
  next disk. A directory half written can show a stale name, of an entry that was
  removed before, next to a file that has the same name: `StoreOK` therefore says also that a file's
  name stands in no entry before its own (`Ordered`: Add takes the first entry that
  is free), which is what Find relies on. A halt needs nothing more than that the disk is
  one of the sequence.

`PassportOfficeProofs`: any finite number of clerks and customers, any purses and any
number of mess-ups.

* `BreaksCanEnd`: `Spec => []SleepsOnBreak`. A clerk's state is written by its clerk,
  by a customer that found it AVAILABLE, and by the manager; the invariants `Tables` and
  `Breaks` say that none of them does while the clerk sleeps on its break.
* `CountsAreLines`: `Spec => []LineCountsRight`. `Counted` adds which customers have
  been called and not yet run; counts are cardinalities, so its lemmas are about
  finite sets that gain or lose one member.
* `ClerksHaveData`: `Spec => []HasData`, from `DataGiven`: who has signalled the
  counter's condition has written its number before.
* `ManagerForgetsNobody`: `Spec => []StopsWithOneAtMost`. Who sleeps and has not been
  served stands in a line (`Placed`) and is counted (`Counted`), and two that are counted make
  the sum over all clerks two at least (`TwoAreSeen`). It is for an office that has clerks of every
  kind, as `clerkFactory` makes it: without one of them nobody is ever done. The manager's
  condition is written out (`ManagerWakes`), because the provers do not know ENABLED.

Only model-checked: the simulator, because Mips uses the module Bitwise; the senators' office,
whose inductive invariant has not been worked out (it would have to relate every customer's
program counter to the waiting lines through a whole visit of a senator); of the kernel's programs `EndsAsAnnounced` and `DataInOrder`, whose
scripts are particular programs with particular ends, not parameters; and all liveness. Out of
this prover's reach and left to TLC: liveness under fairness and ENABLED, and RECURSIVE operators. The library's induction theorems take
an operator as a parameter and cannot be used; where a proof needs induction it is by the
set of the numbers for which the fact holds, which must contain all (PostOffice), or by a
least element (MonitorServer, Loaders, VirtualMemory, FileSystem).

## 7. What is assumed and what is not modelled

Assumed, because other parts see to it or the code says so:

* the assembler leaves the slot after a load free (`DelaySlotsFree`), and the
  linker lays sections out as `test/script` says;
* one thread at a time changes files, and closes a file before it removes it
  (`filesys.cc:32-40`);
* the host's file and socket calls of `machine/sysdep.cc` do what they say, except that
  datagrams may be lost.

Not modelled:

* MailTest (`nettest.cc`), whose call is commented out;
* the failure of `copyin` in system calls; statistics; the debugger and debug output;
* the host's interface `machine/sysdep.cc`, and `threads/switch.s`, whose effect is
  Machine's exchange of registers and Synch's of threads;
* what prints, in `bin/` (`disasm.c`, `d.c`, `out.c`, `opstrings.c`), and the system calls
  of the host's interpreter (`system.c`);
* copies that no makefile compiles: `threads/threadtest2.cc`, `threadtestNew.cc`,
  `threadtestHUNG.cc`, `threadtestBeforeHungStayedUp.cc`, which are earlier states of
  `threadtest.cc`; `userprog/addrspaceForAss3.cc` and `monitor_syscalls.cc`;
* Part 1 of `properTestfile.cc`, which repeats the lock tests of `threadtest.cc`;
* the user programs of `test/`, except for the discipline of their calls: the passport
  office there is the kernel's over the server's locks;
* the swap file's size.

## 8. Plan

1. SenatorAlone and NobodyPassedOver of the senators' office as theorems, and DataInOrder.
2. The server's clients on top of PostOffice, in place of LockServer's queues.
