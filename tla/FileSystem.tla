----------------------------- MODULE FileSystem -----------------------------
(***************************************************************************)
(* The file system that Nachos builds without FILESYS_STUB                 *)
(* (filesys/filesys.cc, directory.cc, filehdr.cc, openfile.cc), on the     *)
(* disk with one request at a time (synchdisk.cc, machine/disk.cc).        *)
(*                                                                         *)
(* Its restrictions (filesys.cc:32-40) are the model's assumptions: one    *)
(* thread at a time creates, removes and writes, and it closes a file      *)
(* before it removes it; other threads read files that are open. An        *)
(* operation reads the map and the directory before it writes anything,    *)
(* and nobody else writes them, so those reads happen in its first step.   *)
(* What it writes is kept as the sequence of disks that its requests will  *)
(* make, one sector each. The disk survives a halt, memory does not.       *)
(*                                                                         *)
(* A sector holds SectorSize bytes of data or one file header. The sectors *)
(* of the map, of the directory and of their headers are allocated for     *)
(* good, so only the others are in the model's map. The directory file     *)
(* takes two sectors, and the entry Straddling lies in both of them: 10    *)
(* entries of 20 bytes in sectors of 128, entry 6 with its name in the     *)
(* second.                                                                 *)
(***************************************************************************)
EXTENDS Integers, Sequences, FiniteSets, DiskTime

CONSTANTS Names,            \* file names
          NumSectors,       \* sectors left for files
          SectorSize,       \* bytes in a sector
          NumDirEntries,    \* entries of the directory
          Straddling,       \* the entry that lies across a sector boundary
          FileSizes,        \* sizes that files are created with
          Reads, Writes,    \* what of a file is read and written at once: first
                            \* position and number of bytes
          Writer, Readers,  \* the thread that changes files, threads that read them
          NoThread, NoName, Junk,
          Halts             \* may Nachos stop in the middle of something?

FSAssumption ==
    /\ NumSectors \in Nat /\ SectorSize \in Nat \ {0} /\ NumDirEntries \in Nat \ {0}
    /\ Straddling \in 0 .. NumDirEntries - 1 /\ FileSizes \subseteq Nat
    /\ Reads \cup Writes \subseteq Nat \X (Nat \ {0})
    /\ Writer \notin Readers /\ NoThread \notin Readers \cup {Writer}
    /\ NoName \notin Names /\ Junk \notin Names /\ Halts \in BOOLEAN
ASSUME FSAssumption

VARIABLES
    disk,      \* the disk
    todo,      \* the disks that the requests still to be made by Writer will leave
    operand,   \* the file that Writer's operation is about
    opened,    \* the header in memory of each open file
    reading,   \* what each reader is about: see ReadAt
    holder,    \* who holds SynchDisk::lock
    active,    \* Disk::active: a request is being served
    semaphore  \* SynchDisk::semaphore

memory == <<todo, operand, opened, reading>>
device == <<holder, active, semaphore>>
vars == <<disk, memory, device>>

Sectors == 1 .. NumSectors
Entries == 0 .. NumDirEntries - 1
Threads == {Writer} \cup Readers

\* Data is one letter per file, enough to see where a byte comes from.
Bytes == Names \cup {Junk}
Blank == [b \in 0 .. SectorSize - 1 |-> Junk]

Header(n, sectors) == [numBytes |-> n, dataSectors |-> sectors]
NoHeader == Header(-1, << >>)
NoRead == [name |-> NoName, hdr |-> NoHeader, position |-> 0, numBytes |-> 0,
           sectors |-> << >>, buf |-> << >>, was |-> << >>]

\* FileSystem(TRUE): an empty directory, every sector free.
Init ==
    /\ disk = [map |-> {},
               inUse |-> [e \in Entries |-> FALSE],
               sector |-> [e \in Entries |-> 0],
               name |-> [e \in Entries |-> NoName],
               hdr |-> [s \in Sectors |-> NoHeader],
               data |-> [s \in Sectors |-> Blank]]
    /\ todo = << >> /\ operand = NoName
    /\ opened = [n \in Names |-> NoHeader]
    /\ reading = [r \in Readers |-> NoRead]
    /\ holder = NoThread /\ active = FALSE /\ semaphore = 0

-----------------------------------------------------------------------------
(* Directory and map *)

EntriesOf(d, n) == {e \in Entries : d.inUse[e] /\ d.name[e] = n}
UnusedEntries(d) == {e \in Entries : ~d.inUse[e]}
First(S) == CHOOSE x \in S : \A y \in S : x <= y
FindIndex(d, n) == IF EntriesOf(d, n) = {} THEN -1 ELSE First(EntriesOf(d, n))

HeaderOf(d, n) == d.hdr[d.sector[FindIndex(d, n)]]
SectorsOf(h) == {h.dataSectors[i] : i \in DOMAIN h.dataSectors}

\* BitMap::Find, k times: the first k free sectors.
Found(map, k) == [i \in 1 .. k |->
    CHOOSE s \in Sectors \ map : Cardinality({x \in Sectors \ map : x < s}) = i - 1]

NumClear(map) == Cardinality(Sectors \ map)
SectorCount(size) == (size + SectorSize - 1) \div SectorSize

WithHeader(d, s, h) == [d EXCEPT !.hdr[s] = h, !.data[s] = Blank]
WithData(d, s, bytes) == [d EXCEPT !.data[s] = bytes, !.hdr[s] = NoHeader]
WithMap(d, map) == [d EXCEPT !.map = map]

\* The disks that Directory::WriteBack leaves: first its first sector ...
FirstHalf(d, dir) ==
    [d EXCEPT !.inUse = [e \in Entries |-> IF e <= Straddling THEN dir.inUse[e] ELSE @[e]],
              !.sector = [e \in Entries |-> IF e <= Straddling THEN dir.sector[e] ELSE @[e]],
              !.name = [e \in Entries |-> IF e < Straddling THEN dir.name[e] ELSE @[e]]]
\* ... then the second.
WithDirectory(d, dir) ==
    [d EXCEPT !.inUse = dir.inUse, !.sector = dir.sector, !.name = dir.name]

Added(d, n, s) == LET e == First(UnusedEntries(d)) IN
                  [d EXCEPT !.inUse[e] = TRUE, !.name[e] = n, !.sector[e] = s]
Freed_HeaderKept(d, n) == SectorsOf(HeaderOf(d, n))
Freed(d, n) == SectorsOf(HeaderOf(d, n)) \cup {d.sector[FindIndex(d, n)]}
Removed(d, n) == [d EXCEPT !.inUse[FindIndex(d, n)] = FALSE]

\* The sectors of the files in the directory.
AllSectors(d, e) == {d.sector[e]} \cup SectorsOf(d.hdr[d.sector[e]])
Allocated(d) == UNION {AllSectors(d, e) : e \in {x \in Entries : d.inUse[x]}}
FilesIn(d) == {d.name[e] : e \in {x \in Entries : d.inUse[x]}}
Sound(d) == d.map = Allocated(d)

-----------------------------------------------------------------------------
(* Operations of the thread that changes files. One that fails has changed *)
(* copies in memory only.                                                  *)

Free == todo = << >> /\ operand = NoName /\ Sound(disk)

Begin(n, disks) == /\ todo' = disks /\ operand' = n
                   /\ UNCHANGED <<disk, opened, reading, device>>

Create(n, size) ==
    LET sector == Found(disk.map, 1)[1]
        taken == disk.map \cup {sector}
        blocks == Found(taken, SectorCount(size))
        dir == Added(disk, n, sector)
        d1 == WithHeader(disk, sector, Header(size, blocks))
        d2 == FirstHalf(d1, dir)
        d3 == WithDirectory(d1, dir)
    IN  /\ Free
        /\ FindIndex(disk, n) = -1
        /\ NumClear(disk.map) > 0 /\ UnusedEntries(disk) # {}
        /\ NumClear(taken) >= SectorCount(size)
        /\ Begin(n, <<d1, d2, d3, WithMap(d3, taken \cup {blocks[i] : i \in DOMAIN blocks})>>)

Remove(n) ==
    LET dir == Removed(disk, n)
        d1 == WithMap(disk, disk.map \ Freed(disk, n))
    IN  /\ Free
        /\ FindIndex(disk, n) # -1 /\ opened[n] = NoHeader
        /\ Begin(n, <<d1, FirstHalf(d1, dir), WithDirectory(d1, dir)>>)

Open(n) == /\ Free /\ FindIndex(disk, n) # -1 /\ opened[n] = NoHeader
           /\ opened' = [opened EXCEPT ![n] = HeaderOf(disk, n)]
           /\ UNCHANGED <<disk, todo, operand, reading, device>>

Close(n) == /\ Free /\ opened[n] # NoHeader
            /\ \A r \in Readers : reading[r].name # n
            /\ opened' = [opened EXCEPT ![n] = NoHeader]
            /\ UNCHANGED <<disk, todo, operand, reading, device>>

\* Of numBytes from position on, as many as the file has.
Clipped(h, position, numBytes) == IF position + numBytes > h.numBytes
                                  THEN h.numBytes - position ELSE numBytes
ByteToSector(h, offset) == h.dataSectors[offset \div SectorSize + 1]
Slice(d, h, position, numBytes) ==
    [i \in 1 .. numBytes |->
        LET at == position + i - 1 IN d.data[ByteToSector(h, at)][at % SectorSize]]

FirstSector(position) == position \div SectorSize
LastSector(position, numBytes) == (position + numBytes - 1) \div SectorSize

IsRead_OneEnd(position, numBytes, i) ==
    i = FirstSector(position) /\ position # i * SectorSize

\* WriteAt reads the i-th sector of a file before it copies the new bytes in, when it
\* will write it in part ...
IsRead(position, numBytes, i) ==
    LET first == FirstSector(position)
        last == LastSector(position, numBytes)
        firstAligned == position = first * SectorSize
        lastAligned == position + numBytes = (last + 1) * SectorSize
    IN  \/ i = first /\ ~firstAligned
        \/ i = last /\ ~lastAligned /\ (first # last \/ firstAligned)

\* ... as far as the file goes; the rest of the buffer is new memory.
Buffer(h, position, numBytes, i) ==
    [b \in 0 .. SectorSize - 1 |->
       IF IsRead(position, numBytes, i) /\ b < Clipped(h, i * SectorSize, SectorSize)
       THEN disk.data[ByteToSector(h, i * SectorSize)][b] ELSE Junk]

WriteAt(n, position, numBytes) ==
    LET h == opened[n]
        count == Clipped(h, position, numBytes)
        first == FirstSector(position)
        last == LastSector(position, count)
        Bytewise(i) == [b \in 0 .. SectorSize - 1 |->
            IF i * SectorSize + b \in position .. position + count - 1
            THEN n ELSE Buffer(h, position, count, i)[b]]
        After[k \in 0 .. last - first + 1] ==
            IF k = 0 THEN disk
            ELSE WithData(After[k - 1], ByteToSector(h, (first + k - 1) * SectorSize),
                          Bytewise(first + k - 1))
    IN  /\ Free /\ h # NoHeader /\ position < h.numBytes
        /\ Begin(n, [k \in 1 .. last - first + 1 |-> After[k]])

\* The last request has been served: the operation returns.
OperationReturns == /\ operand # NoName /\ todo = << >> /\ holder # Writer
                    /\ operand' = NoName
                    /\ UNCHANGED <<disk, todo, opened, reading, device>>

-----------------------------------------------------------------------------
(* Readers, and requests to the disk *)

ReadAt(r, n, position, numBytes) ==
    LET h == opened[n]
        count == Clipped(h, position, numBytes)
        first == FirstSector(position)
        last == LastSector(position, count)
    IN  /\ reading[r] = NoRead /\ h # NoHeader /\ position < h.numBytes
        /\ reading' = [reading EXCEPT ![r] =
             [name |-> n, hdr |-> h, position |-> position, numBytes |-> count,
              sectors |-> [k \in 1 .. last - first + 1 |->
                             ByteToSector(h, (first + k - 1) * SectorSize)],
              buf |-> << >>, was |-> Slice(disk, h, position, count)]]
        /\ UNCHANGED <<disk, todo, operand, opened, device>>

Acquire_NotAwaited(t) == holder' = t

\* SynchDisk::ReadSector, WriteSector: take the lock, make the request ...
Acquire(t) == holder = NoThread /\ holder' = t
Request(t) == Acquire(t) /\ active' = TRUE /\ UNCHANGED semaphore

WriteSector == /\ todo # << >>
               /\ Request(Writer)
               /\ disk' = Head(todo) /\ todo' = Tail(todo)
               /\ UNCHANGED <<operand, opened, reading>>

ReadSector(r) == LET next == reading[r].sectors IN
    /\ next # << >>
    /\ Request(r)
    /\ reading' = [reading EXCEPT
         ![r].buf = @ \o [b \in 1 .. SectorSize |-> disk.data[Head(next)][b - 1]],
         ![r].sectors = Tail(next)]
    /\ UNCHANGED <<disk, todo, operand, opened>>

RequestDone_Forgotten == UNCHANGED semaphore

\* ... the interrupt ...
RequestDone == semaphore' = semaphore + 1
HandleInterrupt == /\ active
                   /\ active' = FALSE
                   /\ RequestDone
                   /\ UNCHANGED <<disk, memory, holder>>

\* ... P, and release the lock.
Awaited == semaphore > 0 /\ semaphore' = semaphore - 1
SectorReturns(t) == /\ holder = t /\ Awaited
                    /\ holder' = NoThread
                    /\ UNCHANGED <<disk, memory, active>>

Wanted_FromSectorStart(q) == SubSeq(q.buf, 1, q.numBytes)

\* bcopy(&buf[position - firstSector * SectorSize], into, numBytes)
Wanted(q) == LET skip == q.position % SectorSize IN
             SubSeq(q.buf, skip + 1, skip + q.numBytes)

ReadReturns(r) == /\ reading[r] # NoRead /\ reading[r].sectors = << >> /\ holder # r
                  /\ reading' = [reading EXCEPT ![r] = NoRead]
                  /\ UNCHANGED <<disk, todo, operand, opened, device>>

\* Nachos stops at any moment and is started again, on the disk that it left. On a
\* disk that was left unsound (filesys.cc:38-40) nothing is started any more.
Crash == /\ Halts
         /\ todo' = << >> /\ operand' = NoName
         /\ opened' = [n \in Names |-> NoHeader]
         /\ reading' = [r \in Readers |-> NoRead]
         /\ holder' = NoThread /\ active' = FALSE /\ semaphore' = 0
         /\ UNCHANGED disk

\* The programs of fstest.cc make these calls, and stop at the first that fails: Copy
\* makes a file and writes it, FileWrite and PerformanceTest do so with one name.
WriterStep == \/ \E n \in Names :
                   \/ Remove(n) \/ Open(n) \/ Close(n)
                   \/ \E size \in FileSizes : Create(n, size)
                   \/ \E w \in Writes : WriteAt(n, w[1], w[2])
              \/ OperationReturns

FileRead(r) == \/ \E n \in Names, w \in Reads : ReadAt(r, n, w[1], w[2])
               \/ ReadReturns(r)

Next == \/ WriterStep \/ WriteSector
        \/ \E r \in Readers : FileRead(r) \/ ReadSector(r)
        \/ HandleInterrupt
        \/ \E t \in Threads : SectorReturns(t)
        \/ Crash

Spec == Init /\ [][Next]_vars

\* Due interrupts come and ready threads run; the lock's queue is a FIFO, so nobody
\* who waits for the disk is passed over for ever.
Fairness ==
    /\ WF_vars(HandleInterrupt) /\ WF_vars(OperationReturns) /\ SF_vars(WriteSector)
    /\ \A t \in Threads : WF_vars(SectorReturns(t))
    /\ \A r \in Readers : SF_vars(ReadSector(r)) /\ WF_vars(ReadReturns(r))
FairSpec == Spec /\ Fairness

-----------------------------------------------------------------------------
(* Properties *)

TypeOK ==
    /\ disk.map \subseteq Sectors
    /\ disk.sector \in [Entries -> Sectors \cup {0}]
    /\ disk.inUse \in [Entries -> BOOLEAN] /\ disk.name \in [Entries -> Names \cup {NoName}]
    /\ disk.data \in [Sectors -> [0 .. SectorSize - 1 -> Bytes]]
    /\ operand \in Names \cup {NoName}
    /\ holder \in Threads \cup {NoThread} /\ active \in BOOLEAN /\ semaphore \in {0, 1}

\* Disk::ReadRequest and WriteRequest assert that no request is being served. However
\* threads and interrupts interleave, no request meets the assertion.
OneRequestAtATime == [][holder' # holder /\ holder' # NoThread => ~active]_vars

\* The two promises of the disk to those who use it: one request at a time, which so
\* finds the track buffer in the past, and takes the time that the disk's turning takes.
DiskRight == OneRequestAtATime /\ LatencyExact

\* When an operation returns, the map marks exactly the sectors of the files in the
\* directory, and no sector belongs to two files: nothing leaks and nothing is given
\* out twice, whatever was created, removed or refused before.
Consistent ==
    /\ TypeOK /\ Sound(disk)
    /\ \A e, f \in {x \in Entries : disk.inUse[x]} :
         e # f => /\ AllSectors(disk, e) \cap AllSectors(disk, f) = {}
                  /\ disk.name[e] # disk.name[f]
MapMatchesFiles == [][OperationReturns => Consistent]_vars

\* A reader gets the bytes that it asked for, sector boundaries or not: each is what
\* the file held there when the read began, or holds when it returns.
ReadsRight ==
    [][\A r \in Readers : ReadReturns(r) =>
         LET q == reading[r]
             now == Slice(disk, q.hdr, q.position, q.numBytes)
         IN  /\ Len(Wanted(q)) = q.numBytes
             /\ \A i \in 1 .. q.numBytes : Wanted(q)[i] \in {q.was[i], now[i]}]_vars

\* Every operation and every read comes to an end: the interrupt finds its waiter and
\* the lock is given back.
OperationsEnd == /\ operand # NoName ~> operand = NoName
                 /\ \A r \in Readers : reading[r] # NoRead ~> reading[r] = NoRead

\* The files that the directory names are the abstract files, at every moment and so
\* also at a halt; an operation's goal is the last disk that it is going to make.
FilesOf(d) == [n \in FilesIn(d) |-> LET h == HeaderOf(d, n) IN Slice(d, h, 0, h.numBytes)]
Store == INSTANCE FileStore WITH
    files <- FilesOf(disk),
    goal <- FilesOf(IF todo = << >> THEN disk ELSE todo[Len(todo)])
ImplementsFiles == Store!Spec
=============================================================================
