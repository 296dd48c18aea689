--------------------------- MODULE FileSystemProofs ---------------------------
(***************************************************************************)
(* Theorems about the file system (module FileSystem), for any number of   *)
(* sectors, directory entries, files and readers, any sizes, and with or   *)
(* without halts.                                                          *)
(***************************************************************************)
EXTENDS FileSystem, SequenceTheorems, FiniteSetTheorems, WellFoundedInduction, TLAPS

\* A header that is no file's has -1 bytes.
AnyHeader == [numBytes : Nat \cup {-1}, dataSectors : Seq(Sectors)]
Disks == [map : SUBSET Sectors, inUse : [Entries -> BOOLEAN],
          sector : [Entries -> Sectors \cup {0}], name : [Entries -> Names \cup {NoName}],
          hdr : [Sectors -> AnyHeader], data : [Sectors -> [0 .. SectorSize - 1 -> Bytes]]]

InUse(d) == {e \in Entries : d.inUse[e]}

\* A file's header and its sectors: as many as its bytes need, and all different.
FileHeader(h) ==
    /\ h.numBytes \in Nat
    /\ Len(h.dataSectors) = SectorCount(h.numBytes)
    /\ \A i, j \in DOMAIN h.dataSectors : i # j => h.dataSectors[i] # h.dataSectors[j]
TidyEntry(d, e) ==
    /\ d.sector[e] \in Sectors /\ d.name[e] \in Names
    /\ FileHeader(d.hdr[d.sector[e]])
    /\ d.sector[e] \notin SectorsOf(d.hdr[d.sector[e]])
Apart(d, e, o) == /\ AllSectors(d, e) \cap AllSectors(d, o) = {}
                  /\ d.name[e] # d.name[o]
Tidy(d) == /\ \A e \in InUse(d) : TidyEntry(d, e)
           /\ \A e, o \in InUse(d) : e # o => Apart(d, e, o)

\* Of a disk on which the map is wrong, as it is between two sectors of an operation,
\* nothing is said but its type.
Fit(d) == Sound(d) => Tidy(d)

\* The disk as the operation under way is going to leave it.
Goal == IF todo = << >> THEN disk ELSE todo[Len(todo)]

\* The file with name n has the header h.
IsFile(d, n, h) == \E e \in EntriesOf(d, n) : d.hdr[d.sector[e]] = h

FilesTyped == /\ disk \in Disks /\ todo \in Seq(Disks) /\ operand \in Names \cup {NoName}
              /\ opened \in [Names -> AnyHeader]
FilesInv ==
    /\ Fit(disk) /\ \A k \in DOMAIN todo : Fit(todo[k])
    /\ operand = NoName => todo = << >>
    /\ operand # NoName => Sound(Goal)
    /\ \A n \in Names : opened[n] # NoHeader => Sound(Goal) /\ IsFile(Goal, n, opened[n])

\* What a file holds at a position, on a disk.
ByteAt(d, h, at) == d.data[ByteToSector(h, at)][at % SectorSize]

\* Of a file that is open, a request leaves each byte or makes it the writer's.
Kept(d, e, n) == \A at \in 0 .. opened[n].numBytes - 1 :
                     ByteAt(e, opened[n], at) \in {ByteAt(d, opened[n], at), n}
KeepsOpen(d, e) == \A n \in Names : opened[n] # NoHeader => Kept(d, e, n)
DisksKeep == /\ todo # << >> => KeepsOpen(disk, todo[1])
             /\ \A k \in 1 .. Len(todo) - 1 : KeepsOpen(todo[k], todo[k + 1])

\* A read that has taken in the first k of its sectors.
Clips(q) == q.position \in Nat /\ q.numBytes \in Nat \ {0}
            /\ q.position + q.numBytes <= q.hdr.numBytes
SectorsOfRead(q) == LastSector(q.position, q.numBytes) - FirstSector(q.position) + 1
HasRead(q, k) ==
    /\ q.sectors = [j \in 1 .. SectorsOfRead(q) - k |->
                      q.hdr.dataSectors[FirstSector(q.position) + k + j]]
    /\ q.buf \in Seq(Bytes) /\ Len(q.buf) = k * SectorSize
    /\ \A i \in 1 .. q.numBytes :
         (q.position + i - 1) \div SectorSize < FirstSector(q.position) + k =>
            q.buf[(q.position % SectorSize) + i] \in {q.was[i], ByteAt(disk, q.hdr, q.position + i - 1)}
ReadOK(q) ==
    /\ q.name \in Names /\ opened[q.name] = q.hdr /\ q.hdr # NoHeader
    /\ Clips(q)
    /\ \A i \in 1 .. q.numBytes :
         ByteAt(disk, q.hdr, q.position + i - 1) \in {q.was[i], q.name}
    /\ \E k \in 0 .. SectorsOfRead(q) : HasRead(q, k)
ReadsOK == \A r \in Readers : reading[r] # NoRead => ReadOK(reading[r])

-----------------------------------------------------------------------------
(* Requests to the disk. *)

\* Whoever holds the lock has one request being served or one interrupt to take.
DeviceOK ==
    /\ active \in BOOLEAN /\ semaphore \in {0, 1} /\ holder \in Threads \cup {NoThread}
    /\ holder = NoThread <=> ~active /\ semaphore = 0
    /\ ~(active /\ semaphore = 1)

\* The lock is held while a request is served or its end is not yet taken notice of.
LEMMA DeviceStep == DeviceOK /\ [Next]_vars => DeviceOK'
  <1> SUFFICES ASSUME DeviceOK, [Next]_vars PROVE DeviceOK'
    OBVIOUS
  <1> USE FSAssumption DEF FSAssumption, DeviceOK, Threads
  <1>1. ASSUME UNCHANGED device PROVE DeviceOK'
    BY <1>1 DEF device
  <1>2. CASE WriterStep
    BY <1>1, <1>2 DEF WriterStep, Remove, Open, Close, Create, WriteAt, OperationReturns, Begin
  <1>3. CASE WriteSector
    BY <1>3 DEF WriteSector, Request, Acquire
  <1>4. ASSUME NEW r \in Readers, FileRead(r) PROVE DeviceOK'
    BY <1>1, <1>4 DEF FileRead, ReadAt, ReadReturns
  <1>5. ASSUME NEW r \in Readers, ReadSector(r) PROVE DeviceOK'
    BY <1>5 DEF ReadSector, Request, Acquire
  <1>6. CASE HandleInterrupt
    <2>1. semaphore = 0 /\ holder \in Threads
      BY <1>6 DEF HandleInterrupt
    <2>2. active' = FALSE /\ semaphore' = 1 /\ holder' = holder
      BY <1>6, <2>1 DEF HandleInterrupt, RequestDone
    <2> QED BY <2>1, <2>2
  <1>7. ASSUME NEW t \in Threads, SectorReturns(t) PROVE DeviceOK'
    BY <1>7 DEF SectorReturns, Awaited
  <1>8. CASE Crash
    BY <1>8 DEF Crash
  <1>9. CASE UNCHANGED vars
    BY <1>1, <1>9 DEF vars
  <1> QED BY <1>2, <1>3, <1>4, <1>5, <1>6, <1>7, <1>8, <1>9 DEF Next

\* No request is made of the disk while it serves another, with any number of threads:
\* the assertions of Disk::ReadRequest and WriteRequest are never met.
THEOREM OneRequest == Spec => OneRequestAtATime
  <1>1. Init => DeviceOK
    BY FSAssumption DEF FSAssumption, Init, DeviceOK, Threads
  <1>2. DeviceOK /\ [Next]_vars => (holder' # holder /\ holder' # NoThread => ~active)
    <2> SUFFICES ASSUME DeviceOK, Next, holder' # holder, holder' # NoThread PROVE ~active
      BY DEF vars, device
    <2>1. holder # NoThread => FALSE
      BY DEF Next, WriterStep, Remove, Open, Close, Create, WriteAt, OperationReturns, Begin,
             FileRead, ReadAt, ReadReturns, WriteSector, ReadSector, Request, Acquire, HandleInterrupt,
             SectorReturns, Crash, device, memory
    <2> QED BY <2>1 DEF DeviceOK
  <1> QED BY <1>1, <1>2, DeviceStep, PTL DEF Spec, OneRequestAtATime

-----------------------------------------------------------------------------
(* The time that a request takes. *)

\* Division by a positive number.
LEMMA Divided ==
    ASSUME NEW d \in Nat \ {0}
    PROVE  /\ \A a \in Nat : /\ a \div d \in Nat /\ a % d \in 0 .. d - 1
                             /\ a = (a \div d) * d + (a % d)
           /\ \A i \in Nat, b \in 0 .. d - 1 :
                /\ i * d + b \in Nat
                /\ (i * d + b) \div d = i
                /\ (i * d + b) % d = b
           /\ \A i, j \in Nat : i < j => i * d + d <= j * d
           /\ \A a, b \in Nat : a <= b => a \div d <= b \div d
  <1>1. \A a \in Nat : /\ a \div d \in Nat /\ a % d \in 0 .. d - 1
                      /\ a = (a \div d) * d + (a % d)
    BY SMTT(30)
  <1>2. \A i, j \in Nat : i < j => i * d + d <= j * d
    BY SMTT(30)
  <1>3. \A i \in Nat, b \in 0 .. d - 1 :
         /\ i * d + b \in Nat
         /\ (i * d + b) \div d = i
         /\ (i * d + b) % d = b
    BY SMTT(30)
  <1>4. \A a, b \in Nat : a <= b => a \div d <= b \div d
    BY SMTT(30)
  <1> QED BY <1>1, <1>2, <1>3, <1>4

\* Numbers of the same remainder that differ by less than the divisor are one.
LEMMA SameRemainder ==
    ASSUME NEW d \in Nat \ {0}, NEW a \in Nat, NEW j \in 0 .. d - 1, (a + j) % d = a % d
    PROVE  j = 0
  <1>1. PICK q, p, r : q = a \div d /\ p = (a + j) \div d /\ r = a % d
    OBVIOUS
  <1>2. /\ q \in Nat /\ p \in Nat /\ r \in 0 .. d - 1
        /\ a = q * d + r /\ a + j = p * d + r
    <2>1. a + j \in Nat
      OBVIOUS
    <2> QED BY <1>1, <2>1, Divided
  <1>3. (q < p => q * d + d <= p * d) /\ (p < q => p * d + d <= q * d)
    BY <1>2, Divided
  <1>4. PICK x, y : x = q * d /\ y = p * d
    OBVIOUS
  <1>5. x \in Nat /\ y \in Nat
    BY <1>2, <1>4, SMTT(30)
  <1>6. ~(q < p) /\ ~(p < q)
    BY <1>2, <1>3, <1>4, <1>5
  <1>7. q = p
    BY <1>2, <1>6
  <1> QED BY <1>2, <1>4, <1>5, <1>7

\* ModuloDiff is how many sectors pass before the one asked for.
LEMMA ModuloDiffRight ==
    ASSUME NEW to \in Nat, NEW from \in Nat
    PROVE  /\ ModuloDiff(to, from) \in 0 .. SectorsPerTrack - 1
           /\ (from + ModuloDiff(to, from)) % SectorsPerTrack = to % SectorsPerTrack
  <1> DEFINE d == SectorsPerTrack
  <1>1. d \in Nat \ {0}
    BY DiskTimeAssumption DEF DiskTimeAssumption
  <1>2. PICK t, f, q, x : /\ t = to % d /\ f = from % d /\ q = from \div d /\ x = (t - f) + d
    OBVIOUS
  <1>3. /\ t \in 0 .. d - 1 /\ f \in 0 .. d - 1 /\ q \in Nat /\ from = q * d + f
    BY <1>1, <1>2, Divided
  <1>4. ModuloDiff(to, from) = x % d
    BY <1>2 DEF ModuloDiff
  <1> HIDE DEF d
  <1>5. q * d \in Nat /\ (q + 1) * d = q * d + d
    BY <1>1, <1>3, SMTT(30)
  <1>6. /\ \A b \in 0 .. d - 1 : (q * d + b) % d = b /\ ((q + 1) * d + b) % d = b
        /\ \A b \in 0 .. d - 1 : (0 * d + b) % d = b /\ (1 * d + b) % d = b
    <2>1. q \in Nat /\ q + 1 \in Nat
      BY <1>3
    <2> QED BY <1>1, <2>1, Divided
  <1>7. CASE t < f
    <2>1. x \in 0 .. d - 1 /\ x = 0 * d + x
      BY <1>1, <1>2, <1>3, <1>7
    <2>2. x % d = x
      BY <1>6, <2>1
    <2>3. from + x = (q + 1) * d + t
      <3>1. PICK m : m = q * d
        OBVIOUS
      <3> QED BY <1>1, <1>2, <1>3, <1>5, <3>1
    <2>4. (from + x) % d = t
      BY <1>3, <1>6, <2>3
    <2> QED BY <1>2, <1>4, <2>1, <2>2, <2>4 DEF d
  <1>8. CASE ~(t < f)
    <2>1. t - f \in 0 .. d - 1 /\ x = 1 * d + (t - f)
      BY <1>1, <1>2, <1>3, <1>8
    <2>2. x % d = t - f
      BY <1>6, <2>1
    <2>3. from + (t - f) = q * d + t
      <3>1. PICK m : m = q * d
        OBVIOUS
      <3> QED BY <1>1, <1>3, <1>5, <3>1
    <2>4. (from + (t - f)) % d = t
      BY <1>3, <1>6, <2>3
    <2> QED BY <1>2, <1>4, <2>1, <2>2, <2>4 DEF d
  <1> QED BY <1>7, <1>8

\* The head, once on the track, waits for the next sector boundary: the A-th.
LEMMA RotationRight ==
    ASSUME NEW totalTicks \in Nat, NEW seek \in Nat
    PROVE  \E A \in Nat :
             /\ Rotation(totalTicks, seek) \in Nat
             /\ totalTicks + seek + Rotation(totalTicks, seek) = A * RotationTime
             /\ \A k \in Nat : totalTicks + seek <= k * RotationTime <=> A <= k
  <1> DEFINE d == RotationTime
  <1>1. d \in Nat \ {0}
    BY DiskTimeAssumption DEF DiskTimeAssumption
  <1>2. PICK c, q, over : c = totalTicks + seek /\ q = c \div d /\ over = c % d
    OBVIOUS
  <1>3. c \in Nat /\ q \in Nat /\ over \in 0 .. d - 1 /\ c = q * d + over
    <2>1. c \in Nat
      BY <1>2
    <2> QED BY <1>1, <1>2, <2>1, Divided
  <1>4. PICK rotation : rotation = Rotation(totalTicks, seek)
    OBVIOUS
  <1>5. rotation = IF over > 0 THEN d - over ELSE 0
    BY <1>2, <1>4 DEF Rotation
  <1> HIDE DEF d
  <1>6. q * d \in Nat /\ (q + 1) * d = q * d + d
    BY <1>1, <1>3, SMTT(30)
  <1>7. PICK A \in Nat : /\ rotation \in Nat /\ c + rotation = A * d
                         /\ rotation < d
    <2>1. CASE over = 0
      BY <1>1, <1>3, <1>5, <1>6, <2>1
    <2>2. CASE over # 0
      <3>1. over > 0 /\ q + 1 \in Nat
        BY <1>3, <2>2
      <3>2. PICK m : m = q * d
        OBVIOUS
      <3>3. rotation \in Nat /\ c + rotation = m + d /\ rotation < d
        BY <1>1, <1>3, <1>5, <1>6, <3>1, <3>2
      <3> QED BY <1>6, <3>1, <3>2, <3>3
    <2> QED BY <2>1, <2>2
  <1>8. ASSUME NEW k \in Nat PROVE c <= k * d <=> A <= k
    <2>1. /\ A < k => A * d + d <= k * d
          /\ k < A => k * d + d <= A * d
      BY <1>1, Divided
    <2>2. PICK x, y : x = A * d /\ y = k * d
      OBVIOUS
    <2>3. x \in Nat /\ y \in Nat /\ (A = k => x = y)
      BY <1>1, <2>2, SMTT(30)
    <2> QED BY <1>1, <1>3, <1>7, <2>1, <2>2, <2>3
  <1> QED BY <1>2, <1>4, <1>7, <1>8 DEF d

\* A sector passes, if the boundaries in question are those from A to before E.
LEMMA PassesWhen ==
    ASSUME NEW sector \in Nat, NEW A \in Nat, NEW E \in Nat, NEW from, NEW to \in Nat,
           \A k \in Nat : from <= k * RotationTime <=> A <= k,
           \A k \in Nat : (k + 1) * RotationTime <= to <=> k + 1 <= E
    PROVE  Passes(sector, from, to) <=> A + ModuloDiff(sector, A) < E
  <1>1. RotationTime \in Nat \ {0} /\ SectorsPerTrack \in Nat \ {0}
    BY DiskTimeAssumption DEF DiskTimeAssumption
  <1>2. PICK m : m = ModuloDiff(sector, A)
    OBVIOUS
  <1>3. /\ m \in 0 .. SectorsPerTrack - 1
        /\ (A + m) % SectorsPerTrack = sector % SectorsPerTrack
    BY <1>2, ModuloDiffRight
  <1>4. to \div RotationTime \in Nat
    BY <1>1, Divided
  <1>5. ASSUME Passes(sector, from, to) PROVE A + m < E
    <2>1. PICK k \in 0 .. to \div RotationTime :
               /\ k % SectorsPerTrack = sector % SectorsPerTrack
               /\ from <= k * RotationTime /\ (k + 1) * RotationTime <= to
      BY <1>5 DEF Passes
    <2>2. k \in Nat
      BY <1>4
    <2>3. A <= k /\ k + 1 <= E
      BY <2>1, <2>2
    <2>4. ASSUME k < A + m PROVE FALSE
      <3>1. (A + m) - k \in 0 .. SectorsPerTrack - 1 /\ k + ((A + m) - k) = A + m
        BY <1>1, <1>3, <2>2, <2>3, <2>4
      <3>2. (A + m) - k = 0
        BY <1>1, <1>3, <2>1, <2>2, <3>1, SameRemainder
      <3> QED BY <1>3, <2>2, <2>4, <3>2
    <2> QED BY <1>3, <2>2, <2>3, <2>4
  <1>6. ASSUME A + m < E PROVE Passes(sector, from, to)
    <2>1. PICK k : k = A + m
      OBVIOUS
    <2>2. k \in Nat /\ A <= k /\ k + 1 <= E
      BY <1>3, <1>6, <2>1
    <2>3. from <= k * RotationTime /\ (k + 1) * RotationTime <= to
      BY <2>2
    <2>4. k \in 0 .. to \div RotationTime
      <3>1. (k + 1) * RotationTime \in Nat
        BY <1>1, <2>2, SMTT(30)
      <3>2. ((k + 1) * RotationTime + 0) \div RotationTime = k + 1
        BY <1>1, <2>2, Divided
      <3>3. (k + 1) * RotationTime + 0 = (k + 1) * RotationTime
        BY <3>1
      <3>4. k + 1 <= to \div RotationTime
        <4>1. PICK e : e = (k + 1) * RotationTime
          OBVIOUS
        <4>2. e \in Nat /\ e <= to /\ e \div RotationTime = k + 1
          BY <2>3, <3>1, <3>2, <3>3, <4>1
        <4>3. \A x, y \in Nat : x <= y => x \div RotationTime <= y \div RotationTime
          BY <1>1, Divided
        <4> QED BY <4>2, <4>3, Zenon
      <3> QED BY <1>4, <2>2, <3>4
    <2> QED BY <1>3, <2>1, <2>3, <2>4 DEF Passes
  <1> QED BY <1>2, <1>5, <1>6

\* TimeToSeek's first result.
LEMMA SeekRight ==
    ASSUME NEW lastSector \in SectorNumbers, NEW newSector \in SectorNumbers
    PROVE  /\ Seek(lastSector, newSector) \in Nat
           /\ Seek(lastSector, newSector) = 0 <=> Track(lastSector) = Track(newSector)
  <1>1. SectorsPerTrack \in Nat \ {0} /\ SeekTime \in Nat \ {0}
    BY DiskTimeAssumption DEF DiskTimeAssumption
  <1>2. lastSector \in Nat /\ newSector \in Nat
    BY DEF SectorNumbers
  <1>3. PICK a, b : a = Track(lastSector) /\ b = Track(newSector)
    OBVIOUS
  <1>4. a \in Nat /\ b \in Nat
    BY <1>1, <1>2, <1>3, Divided DEF Track
  <1>5. PICK n : n = abs(b - a)
    OBVIOUS
  <1>6. n \in Nat /\ (n = 0 <=> a = b)
    BY <1>4, <1>5 DEF abs
  <1>7. n * SeekTime \in Nat /\ (n * SeekTime = 0 <=> n = 0)
    BY <1>1, <1>6, SMTT(30)
  <1> QED BY <1>3, <1>5, <1>6, <1>7 DEF Seek

\* The track buffer has the sector, by the test of ComputeLatency, if it has passed since
\* the buffer begins, or begins to pass now.
LEMMA BufferRight ==
    ASSUME NEW newSector \in Nat, NEW totalTicks \in Nat, NEW last,
           NEW bufferInit \in Nat, bufferInit <= totalTicks, bufferInit % RotationTime = 0,
           NEW A \in Nat, \A k \in Nat : totalTicks <= k * RotationTime <=> A <= k
    PROVE  InTrackBuffer([lastSector |-> last, bufferInit |-> bufferInit],
                         newSector, A * RotationTime)
             <=> Passes(newSector, bufferInit, totalTicks + RotationTime - 1)
  <1> DEFINE d == RotationTime
  <1>1. d \in Nat \ {0}
    BY DiskTimeAssumption DEF DiskTimeAssumption
  <1>2. PICK B : B = bufferInit \div d
    OBVIOUS
  <1>3. B \in Nat /\ bufferInit = B * d
    <2>1. B \in Nat /\ bufferInit = B * d + 0
      BY <1>1, <1>2, Divided
    <2>2. B * d \in Nat
      BY <1>1, <2>1, SMTT(30)
    <2> QED BY <2>1, <2>2
  <1>4. ASSUME NEW k \in Nat PROVE bufferInit <= k * d <=> B <= k
    <2>1. /\ B < k => B * d + d <= k * d
          /\ k < B => k * d + d <= B * d
      BY <1>1, <1>3, Divided
    <2> HIDE DEF d
    <2>2. PICK x, y : x = B * d /\ y = k * d
      OBVIOUS
    <2>3. x \in Nat /\ y \in Nat /\ (B = k => x = y)
      BY <1>1, <1>3, <2>2, SMTT(30)
    <2> QED BY <1>1, <1>3, <2>1, <2>2, <2>3
  <1>5. ASSUME NEW k \in Nat PROVE (k + 1) * d <= totalTicks + d - 1 <=> k + 1 <= A
    <2>1. (k + 1) * d = k * d + d /\ k * d \in Nat
      BY <1>1, SMTT(30)
    <2>2. totalTicks <= k * d <=> A <= k
      OBVIOUS
    <2> HIDE DEF d
    <2>3. PICK y : y = k * d
      OBVIOUS
    <2> QED BY <1>1, <2>1, <2>2, <2>3
  <1>6. totalTicks + d - 1 \in Nat
    BY <1>1
  <1>7. Passes(newSector, bufferInit, totalTicks + d - 1) <=> B + ModuloDiff(newSector, B) < A
    BY <1>3, <1>4, <1>5, <1>6, PassesWhen
  <1>8. B <= A
    <2>1. totalTicks <= A * d
      OBVIOUS
    <2>2. A * d \in Nat
      BY <1>1, SMTT(30)
    <2>3. bufferInit <= A * d
      <3> HIDE DEF d
      <3>1. PICK y : y = A * d
        OBVIOUS
      <3> QED BY <2>1, <2>2, <3>1
    <2> QED BY <1>4, <2>3
  <1>9. (A * d - bufferInit) \div d = A - B
    <2>1. A - B \in Nat /\ A * d - B * d = (A - B) * d + 0
      BY <1>1, <1>3, <1>8, SMTT(30)
    <2>2. \A i \in Nat, b \in 0 .. d - 1 : (i * d + b) \div d = i
      BY <1>1, Divided
    <2>3. 0 \in 0 .. d - 1
      BY <1>1
    <2>4. ((A - B) * d + 0) \div d = A - B
      BY <2>1, <2>2, <2>3, Zenon
    <2> QED BY <1>3, <2>1, <2>4, Zenon
  <1>10. ModuloDiff(newSector, B) \in Nat
    <2>1. SectorsPerTrack \in Nat
      BY DiskTimeAssumption DEF DiskTimeAssumption
    <2>2. B \in Nat
      BY <1>3
    <2>3. ModuloDiff(newSector, B) \in 0 .. SectorsPerTrack - 1
      BY <2>2, ModuloDiffRight, Zenon
    <2> QED BY <2>1, <2>3
  <1>11. InTrackBuffer([lastSector |-> last, bufferInit |-> bufferInit], newSector, A * d)
           <=> A - B > ModuloDiff(newSector, B)
    BY <1>2, <1>9, Zenon DEF InTrackBuffer
  <1> HIDE DEF d
  <1>12. A - B > ModuloDiff(newSector, B) <=> B + ModuloDiff(newSector, B) < A
    BY <1>3, <1>10
  <1> QED BY <1>7, <1>11, <1>12 DEF d

\* A request that the buffer does not help is done when the sector has passed, and no
\* tick before.
LEMMA UnbufferedRight ==
    ASSUME NEW newSector \in Nat, NEW arrival \in Nat, NEW A \in Nat,
           \A k \in Nat : arrival <= k * RotationTime <=> A <= k,
           NEW end, end = A * RotationTime + RotationTime
                            + ModuloDiff(newSector, A) * RotationTime
    PROVE  /\ end \in Nat
           /\ Passes(newSector, arrival, end) /\ ~Passes(newSector, arrival, end - 1)
  <1> DEFINE d == RotationTime
  <1>1. d \in Nat \ {0}
    BY DiskTimeAssumption DEF DiskTimeAssumption
  <1>2. PICK m : m = ModuloDiff(newSector, A)
    OBVIOUS
  <1>3. m \in Nat
    BY <1>2, ModuloDiffRight
  <1>4. PICK E : E = A + m + 1
    OBVIOUS
  <1>5. E \in Nat \ {0} /\ end = E * d
    BY <1>1, <1>2, <1>3, <1>4, SMTT(30)
  <1>6. end \in Nat \ {0}
    BY <1>1, <1>5, SMTT(30)
  <1> HIDE DEF d
  <1>7. ASSUME NEW k \in Nat
        PROVE  /\ (k + 1) * d <= end <=> k + 1 <= E
               /\ (k + 1) * d <= end - 1 <=> k + 1 <= E - 1
    <2>1. PICK i : i = k + 1
      OBVIOUS
    <2>2. i \in Nat
      BY <2>1
    <2>3. /\ i < E => i * d + d <= E * d
          /\ E < i => E * d + d <= i * d
      BY <1>1, <1>5, <2>2, Divided
    <2>4. PICK y : y = i * d
      OBVIOUS
    <2>5. y \in Nat /\ (i = E => y = end)
      BY <1>1, <1>5, <2>2, <2>4, SMTT(30)
    <2> QED BY <1>1, <1>5, <1>6, <2>1, <2>2, <2>3, <2>4, <2>5
  <1>8. Passes(newSector, arrival, end) <=> A + m < E
    BY <1>2, <1>5, <1>6, <1>7, PassesWhen DEF d
  <1>9. Passes(newSector, arrival, end - 1) <=> A + m < E - 1
    <2>1. E - 1 \in Nat /\ end - 1 \in Nat
      BY <1>5, <1>6
    <2> QED BY <1>2, <1>7, <2>1, PassesWhen DEF d
  <1> QED BY <1>3, <1>4, <1>6, <1>8, <1>9

\* What a request to the disk takes and leaves, for any disk, times and sectors.
LEMMA LatencyRight == LatencyExact
  <1> DEFINE Goals(lastSector, newSector, totalTicks, writing, bufferInit, latency, next, arrival) ==
               /\ IF /\ ~writing /\ Track(lastSector) = Track(newSector)
                     /\ Passes(newSector, bufferInit, totalTicks + RotationTime - 1)
                  THEN latency = RotationTime
                  ELSE /\ Passes(newSector, arrival, totalTicks + latency)
                       /\ ~Passes(newSector, arrival, totalTicks + latency - 1)
               /\ next.bufferInit % RotationTime = 0
               /\ next.bufferInit <= totalTicks + latency
  <1> SUFFICES ASSUME NEW lastSector \in SectorNumbers, NEW newSector \in SectorNumbers,
                      NEW totalTicks \in 0 .. MaxTicks, NEW writing \in BOOLEAN,
                      NEW bufferInit \in {b \in 0 .. totalTicks : b % RotationTime = 0},
                      NEW old, old = [lastSector |-> lastSector, bufferInit |-> bufferInit],
                      NEW latency, latency = ComputeLatency(old, newSector, writing, totalTicks),
                      NEW next, next = UpdateLast(old, newSector, totalTicks),
                      NEW arrival, arrival = totalTicks + Seek(lastSector, newSector)
               PROVE  Goals(lastSector, newSector, totalTicks, writing, bufferInit,
                            latency, next, arrival)
    <2> SUFFICES ASSUME NEW lastSector \in SectorNumbers, NEW newSector \in SectorNumbers,
                        NEW totalTicks \in 0 .. MaxTicks, NEW writing \in BOOLEAN,
                        NEW bufferInit \in {b \in 0 .. totalTicks : b % RotationTime = 0}
                 PROVE  LET old == [lastSector |-> lastSector, bufferInit |-> bufferInit]
                        IN  Goals(lastSector, newSector, totalTicks, writing, bufferInit,
                                  ComputeLatency(old, newSector, writing, totalTicks),
                                  UpdateLast(old, newSector, totalTicks),
                                  totalTicks + Seek(lastSector, newSector))
      BY DEF LatencyExact
    <2> HIDE DEF Goals
    <2> QED OBVIOUS
  <1>1. RotationTime \in Nat \ {0} /\ MaxTicks \in Nat
    BY DiskTimeAssumption DEF DiskTimeAssumption
  <1>2. /\ totalTicks \in Nat /\ newSector \in Nat
        /\ bufferInit \in Nat /\ bufferInit <= totalTicks /\ bufferInit % RotationTime = 0
    BY <1>1 DEF SectorNumbers
  <1>3. PICK seek : seek = Seek(lastSector, newSector)
    OBVIOUS
  <1>4. seek \in Nat /\ (seek = 0 <=> Track(lastSector) = Track(newSector))
    BY <1>3, SeekRight
  <1>5. PICK A \in Nat :
             /\ Rotation(totalTicks, seek) \in Nat
             /\ totalTicks + seek + Rotation(totalTicks, seek) = A * RotationTime
             /\ \A k \in Nat : totalTicks + seek <= k * RotationTime <=> A <= k
    BY <1>2, <1>4, RotationRight
  <1>6. PICK rotation, turn : /\ rotation = Rotation(totalTicks, seek)
                              /\ turn = ModuloDiff(newSector, A) * RotationTime
    OBVIOUS
  <1>7. A * RotationTime \in Nat /\ (A * RotationTime) \div RotationTime = A
        /\ (A * RotationTime) % RotationTime = 0
    <2>1. A * RotationTime \in Nat
      BY <1>1, SMTT(30)
    <2>2. A * RotationTime + 0 = A * RotationTime
      BY <2>1
    <2>3. \A i \in Nat, b \in 0 .. RotationTime - 1 :
            (i * RotationTime + b) \div RotationTime = i /\ (i * RotationTime + b) % RotationTime = b
      BY <1>1, Divided
    <2>4. 0 \in 0 .. RotationTime - 1
      BY <1>1
    <2>5. (A * RotationTime + 0) \div RotationTime = A /\ (A * RotationTime + 0) % RotationTime = 0
      BY <2>3, <2>4, Zenon
    <2> QED BY <2>1, <2>2, <2>5, Zenon
  <1>8. old.lastSector = lastSector /\ old.bufferInit = bufferInit
    OBVIOUS
  <1>9. latency = IF ~writing /\ seek = 0 /\ InTrackBuffer(old, newSector, A * RotationTime)
                  THEN RotationTime ELSE seek + rotation + RotationTime + turn
    BY <1>3, <1>5, <1>6, <1>7, <1>8, Zenon DEF ComputeLatency
  <1>10. next.bufferInit = IF seek # 0 THEN A * RotationTime ELSE bufferInit
    BY <1>3, <1>5, <1>8 DEF UpdateLast
  <1>11. ASSUME seek = 0
         PROVE  InTrackBuffer(old, newSector, A * RotationTime)
                  <=> Passes(newSector, bufferInit, totalTicks + RotationTime - 1)
    <2>1. totalTicks + seek = totalTicks
      BY <1>2, <1>11
    <2>2. \A k \in Nat : totalTicks <= k * RotationTime <=> A <= k
      BY <1>5, <2>1, Zenon
    <2> QED BY <1>2, <2>2, BufferRight
  <1>12. turn \in Nat
    <2>1. SectorsPerTrack \in Nat /\ ModuloDiff(newSector, A) \in 0 .. SectorsPerTrack - 1
      BY <1>2, ModuloDiffRight, DiskTimeAssumption DEF DiskTimeAssumption
    <2> QED BY <1>1, <1>6, <2>1, SMTT(30)
  <1>13. PICK m : m = A * RotationTime
    OBVIOUS
  <1>14. /\ rotation \in Nat /\ m \in Nat /\ totalTicks + seek + rotation = m
    BY <1>5, <1>6, <1>7, <1>13, Zenon
  <1>15. CASE ~writing /\ seek = 0 /\ InTrackBuffer(old, newSector, A * RotationTime)
    <2>1. latency = RotationTime /\ next.bufferInit = bufferInit
      BY <1>9, <1>10, <1>15, Zenon
    <2>2. bufferInit <= totalTicks + latency
      BY <1>1, <1>2, <2>1
    <2> QED BY <1>2, <1>4, <1>11, <1>15, <2>1, <2>2, Zenon
  <1>16. CASE ~(~writing /\ seek = 0 /\ InTrackBuffer(old, newSector, A * RotationTime))
    <2>1. latency = seek + rotation + RotationTime + turn
      BY <1>9, <1>16, Zenon
    <2>2. totalTicks + latency = m + RotationTime + turn
      BY <1>1, <1>2, <1>4, <1>12, <1>14, <2>1
    <2>3. /\ Passes(newSector, arrival, totalTicks + latency)
          /\ ~Passes(newSector, arrival, totalTicks + latency - 1)
      <3>1. arrival = totalTicks + seek /\ arrival \in Nat
        BY <1>2, <1>3, <1>4
      <3>2. \A k \in Nat : arrival <= k * RotationTime <=> A <= k
        BY <1>5, <3>1, Zenon
      <3>3. totalTicks + latency
              = A * RotationTime + RotationTime + ModuloDiff(newSector, A) * RotationTime
        BY <1>6, <1>13, <2>2, Zenon
      <3>4. ASSUME NEW end, end = A * RotationTime + RotationTime
                                    + ModuloDiff(newSector, A) * RotationTime
            PROVE  Passes(newSector, arrival, end) /\ ~Passes(newSector, arrival, end - 1)
        BY <1>2, <3>1, <3>2, <3>4, UnbufferedRight
      <3>5. Passes(newSector, arrival, totalTicks + latency)
        BY <3>3, <3>4, Zenon
      <3>6. ~Passes(newSector, arrival, (totalTicks + latency) - 1)
        BY <3>3, <3>4, Zenon
      <3>7. totalTicks + latency - 1 = (totalTicks + latency) - 1
        BY <1>1, <1>2, <1>4, <1>12, <1>14, <2>1
      <3> QED BY <3>5, <3>6, <3>7, Zenon
    <2>4. next.bufferInit % RotationTime = 0 /\ next.bufferInit <= totalTicks + latency
      <3>1. CASE seek # 0
        <4>1. next.bufferInit = m /\ m % RotationTime = 0
          BY <1>7, <1>10, <1>13, <3>1, Zenon
        <4> QED BY <1>1, <1>12, <1>14, <2>2, <4>1
      <3>2. CASE seek = 0
        <4>1. next.bufferInit = bufferInit
          BY <1>10, <3>2, Zenon
        <4> QED BY <1>1, <1>2, <1>4, <1>12, <1>14, <2>2, <4>1
      <3> QED BY <3>1, <3>2
    <2>5. ~(/\ ~writing /\ Track(lastSector) = Track(newSector)
            /\ Passes(newSector, bufferInit, totalTicks + RotationTime - 1))
      BY <1>4, <1>11, <1>16, Zenon
    <2> QED BY <2>3, <2>4, <2>5, Zenon
  <1> QED BY <1>15, <1>16

\* The disk serves one request at a time, and takes for it the time that its turning
\* takes: with any number of threads, of tracks and of sectors, and any times.
THEOREM DiskIsRight == Spec => DiskRight
  BY OneRequest, LatencyRight, PTL DEF DiskRight

-----------------------------------------------------------------------------
(* The operators: free sectors and entries, positions in files. *)

\* A set of natural numbers that is not empty has a first.
LEMMA LeastIn ==
    ASSUME NEW S \in SUBSET Nat, S # {}
    PROVE  First(S) \in S /\ \A m \in S : First(S) <= m
  <1> DEFINE Less == {p \in Nat \X Nat : p[1] < p[2]}
  <1>1. IsWellFoundedOn(Less, Nat)
    <2>1. Less = OpToRel(<, Nat)
      BY Zenon DEF OpToRel
    <2> QED BY <2>1, NatLessThanWellFounded
  <1>2. PICK n \in S : \A m \in S : <<m, n>> \notin Less
    <2> HIDE DEF Less
    <2> QED BY <1>1, WFMin
  <1>3. ASSUME NEW m \in S PROVE n <= m
    <2>1. <<m, n>> \in Nat \X Nat /\ ~(<<m, n>>[1] < <<m, n>>[2])
      BY <1>2
    <2> QED BY <2>1
  <1> QED BY <1>3 DEF First

\* Of a finite set of numbers, one has n below it, for each n that the set has more than.
LEMMA NthOf ==
    ASSUME NEW S \in SUBSET Nat, IsFiniteSet(S), NEW n \in Nat, n < Cardinality(S)
    PROVE  \E s \in S : Cardinality({x \in S : x < s}) = n
  <1> DEFINE Nth(m) == \E s \in S : Cardinality({x \in S : x < s}) = m
             Missing == {m \in Nat : m < Cardinality(S) /\ ~Nth(m)}
  <1> SUFFICES ASSUME Missing # {} PROVE FALSE
    OBVIOUS
  <1>1. PICK m \in Missing : \A k \in Missing : m <= k
    BY LeastIn
  <1>2. m \in Nat /\ m < Cardinality(S) /\ ~Nth(m)
    BY <1>1
  <1>3. Cardinality(S) \in Nat
    BY FS_CardinalityType
  <1>4. \A T \in SUBSET S : IsFiniteSet(T) /\ Cardinality(T) \in Nat
    BY FS_Subset, FS_CardinalityType
  <1>5. CASE m = 0
    <2>1. S # {}
      BY <1>2, <1>5, FS_EmptySet
    <2>2. PICK s \in S : \A x \in S : s <= x
      BY <2>1, LeastIn
    <2>3. {x \in S : x < s} = {}
      <3> SUFFICES ASSUME NEW x \in S, x < s PROVE FALSE
        OBVIOUS
      <3>1. x \in Nat /\ s \in Nat /\ s <= x
        BY <2>2
      <3> QED BY <3>1
    <2>4. Cardinality({x \in S : x < s}) = 0
      BY <2>3, FS_EmptySet
    <2> QED BY <1>2, <1>5, <2>4
  <1>6. CASE m # 0
    <2>1. m - 1 \in Nat /\ m - 1 < Cardinality(S) /\ ~(m <= m - 1)
      BY <1>2, <1>3, <1>6
    <2>2. Nth(m - 1)
      BY <1>1, <2>1
    <2>3. PICK s \in S : Cardinality({x \in S : x < s}) = m - 1
      BY <2>2
    <2> DEFINE Below == {x \in S : x < s}  UpTo == Below \cup {s}  Above == S \ UpTo
    <2>4. IsFiniteSet(Below) /\ s \notin Below
      BY <1>4
    <2>5. Cardinality(UpTo) = m
      <3>1. Cardinality(UpTo) = Cardinality(Below) + 1
        BY <2>4, FS_AddElement
      <3> QED BY <1>2, <2>3, <3>1
    <2>6. Above # {}
      <3>1. UpTo # S
        <4> HIDE DEF UpTo
        <4> QED BY <1>2, <1>3, <2>5
      <3> QED BY <3>1
    <2>7. PICK t \in Above : \A x \in Above : t <= x
      BY <2>6, LeastIn
    <2>8. {x \in S : x < t} = UpTo
      <3>1. s < t
        BY <2>7
      <3>2. ASSUME NEW x \in S, x < t PROVE x \in UpTo
        BY <2>7, <3>2
      <3>3. ASSUME NEW x \in UpTo PROVE x \in S /\ x < t
        BY <3>1
      <3> QED BY <3>2, <3>3
    <2>9. Cardinality({x \in S : x < t}) = m /\ t \in S
      BY <2>5, <2>7, <2>8
    <2> QED BY <1>2, <2>9
  <1> QED BY <1>5, <1>6

\* BitMap::Find, k times: k different free sectors, if there are so many.
LEMMA FoundRight ==
    ASSUME NEW map \in SUBSET Sectors, NEW k \in Nat, k <= NumClear(map)
    PROVE  /\ Found(map, k) \in Seq(Sectors) /\ Len(Found(map, k)) = k
           /\ DOMAIN Found(map, k) = 1 .. k
           /\ \A i \in 1 .. k : Found(map, k)[i] \in Sectors \ map
           /\ \A i, j \in 1 .. k : i # j => Found(map, k)[i] # Found(map, k)[j]
  <1> DEFINE clear == Sectors \ map
             Below(s) == Cardinality({x \in clear : x < s})
             At(i) == CHOOSE s \in clear : Below(s) = i - 1
  <1>1. clear \in SUBSET Nat /\ IsFiniteSet(clear)
    <2>1. IsFiniteSet(Sectors)
      BY FSAssumption, FS_Interval DEF FSAssumption, Sectors
    <2>2. clear \in SUBSET Sectors /\ Sectors \in SUBSET Nat
      BY DEF Sectors
    <2> HIDE DEF clear
    <2> QED BY <2>1, <2>2, FS_Subset
  <1>2. Cardinality(clear) \in Nat /\ k <= Cardinality(clear)
    BY <1>1, FS_CardinalityType DEF NumClear
  <1>3. ASSUME NEW i \in 1 .. k PROVE At(i) \in clear /\ Below(At(i)) = i - 1
    <2>1. i - 1 \in Nat /\ i - 1 < Cardinality(clear)
      BY <1>2
    <2>2. \E s \in clear : Below(s) = i - 1
      <3> HIDE DEF clear
      <3> QED BY <1>1, <2>1, NthOf
    <2> HIDE DEF Below, clear
    <2> QED BY <2>2
  <1>4. Found(map, k) = [i \in 1 .. k |-> At(i)]
    BY Zenon DEF Found
  <1> HIDE DEF At, Below
  <1>5. \A i, j \in 1 .. k : i # j => At(i) # At(j)
    BY <1>3
  <1> QED BY <1>3, <1>4, <1>5

\* A position is its sector and its place in it.
LEMMA Places ==
    /\ \A a \in Nat : /\ a \div SectorSize \in Nat /\ a % SectorSize \in 0 .. SectorSize - 1
                      /\ a = (a \div SectorSize) * SectorSize + (a % SectorSize)
    /\ \A i \in Nat, b \in 0 .. SectorSize - 1 :
         /\ i * SectorSize + b \in Nat
         /\ (i * SectorSize + b) \div SectorSize = i
         /\ (i * SectorSize + b) % SectorSize = b
    /\ \A i, j \in Nat : i < j => i * SectorSize + SectorSize <= j * SectorSize
    /\ \A a, b \in Nat : a <= b => a \div SectorSize <= b \div SectorSize
  <1>1. SectorSize \in Nat \ {0}
    BY FSAssumption DEF FSAssumption
  <1> QED BY <1>1, Divided

-----------------------------------------------------------------------------
(* What an operation makes of a disk. *)

\* A disk from its parts: the map, the entries, the headers and the data.
DiskOf(m, u, c, n, h, b) ==
    [map |-> m, inUse |-> u, sector |-> c, name |-> n, hdr |-> h, data |-> b]

\* The parts of a disk, and a disk of its parts.
LEMMA DiskFields ==
    ASSUME NEW d \in Disks
    PROVE  /\ d.map \in SUBSET Sectors /\ d.inUse \in [Entries -> BOOLEAN]
           /\ d.sector \in [Entries -> Sectors \cup {0}]
           /\ d.name \in [Entries -> Names \cup {NoName}]
           /\ d.hdr \in [Sectors -> AnyHeader]
           /\ d.data \in [Sectors -> [0 .. SectorSize - 1 -> Bytes]]
  BY DEF Disks

LEMMA DiskMade ==
    ASSUME NEW m, NEW u, NEW c, NEW n, NEW h, NEW b
    PROVE  /\ DiskOf(m, u, c, n, h, b).map = m /\ DiskOf(m, u, c, n, h, b).inUse = u
           /\ DiskOf(m, u, c, n, h, b).sector = c /\ DiskOf(m, u, c, n, h, b).name = n
           /\ DiskOf(m, u, c, n, h, b).hdr = h /\ DiskOf(m, u, c, n, h, b).data = b
           /\ (/\ m \in SUBSET Sectors /\ u \in [Entries -> BOOLEAN]
               /\ c \in [Entries -> Sectors \cup {0}] /\ n \in [Entries -> Names \cup {NoName}]
               /\ h \in [Sectors -> AnyHeader]
               /\ b \in [Sectors -> [0 .. SectorSize - 1 -> Bytes]])
              => DiskOf(m, u, c, n, h, b) \in Disks
  BY DEF Disks, DiskOf

\* Headers and blank sectors have their types.
LEMMA HeadersTyped ==
    /\ NoHeader \in AnyHeader /\ NoHeader.numBytes = -1
    /\ \A n \in Nat, s \in Seq(Sectors) :
         /\ Header(n, s) \in AnyHeader /\ Header(n, s) # NoHeader
         /\ Header(n, s).numBytes = n /\ Header(n, s).dataSectors = s
    /\ \A h \in AnyHeader : h.numBytes \in Nat \cup {-1} /\ h.dataSectors \in Seq(Sectors)
    /\ Blank \in [0 .. SectorSize - 1 -> Bytes]
  <1>1. << >> \in Seq(Sectors)
    OBVIOUS
  <1> QED BY <1>1 DEF NoHeader, Header, AnyHeader, Blank, Bytes

\* What a header, the data of a sector, or the map makes of a disk, when it is written.
LEMMA HeaderWritten ==
    ASSUME NEW d \in Disks, NEW s \in Sectors, NEW h \in AnyHeader
    PROVE  /\ WithHeader(d, s, h) \in Disks
           /\ WithHeader(d, s, h).map = d.map /\ WithHeader(d, s, h).inUse = d.inUse
           /\ WithHeader(d, s, h).sector = d.sector /\ WithHeader(d, s, h).name = d.name
           /\ WithHeader(d, s, h).hdr = [d.hdr EXCEPT ![s] = h]
           /\ WithHeader(d, s, h).data = [d.data EXCEPT ![s] = Blank]
  <1> DEFINE hdr == [d.hdr EXCEPT ![s] = h]  data == [d.data EXCEPT ![s] = Blank]
  <1>1. hdr \in [Sectors -> AnyHeader] /\ data \in [Sectors -> [0 .. SectorSize - 1 -> Bytes]]
    BY DiskFields, HeadersTyped
  <1>2. WithHeader(d, s, h) = [[d EXCEPT !.hdr = hdr] EXCEPT !.data = data]
    BY DEF WithHeader
  <1> HIDE DEF hdr, data
  <1>3. [d EXCEPT !.hdr = hdr] = DiskOf(d.map, d.inUse, d.sector, d.name, hdr, d.data)
    BY DEF Disks, DiskOf
  <1>4. WithHeader(d, s, h) = DiskOf(d.map, d.inUse, d.sector, d.name, hdr, data)
    BY <1>2, <1>3 DEF DiskOf
  <1>5. QED
    BY <1>1, <1>4, DiskFields, DiskMade DEF hdr, data

LEMMA DataWritten ==
    ASSUME NEW d \in Disks, NEW s \in Sectors, NEW b \in [0 .. SectorSize - 1 -> Bytes]
    PROVE  /\ WithData(d, s, b) \in Disks
           /\ WithData(d, s, b).map = d.map /\ WithData(d, s, b).inUse = d.inUse
           /\ WithData(d, s, b).sector = d.sector /\ WithData(d, s, b).name = d.name
           /\ WithData(d, s, b).hdr = [d.hdr EXCEPT ![s] = NoHeader]
           /\ WithData(d, s, b).data = [d.data EXCEPT ![s] = b]
  <1> DEFINE hdr == [d.hdr EXCEPT ![s] = NoHeader]  data == [d.data EXCEPT ![s] = b]
  <1>1. hdr \in [Sectors -> AnyHeader] /\ data \in [Sectors -> [0 .. SectorSize - 1 -> Bytes]]
    BY DiskFields, HeadersTyped
  <1>2. WithData(d, s, b) = [[d EXCEPT !.data = data] EXCEPT !.hdr = hdr]
    BY DEF WithData
  <1> HIDE DEF hdr, data
  <1>3. [d EXCEPT !.data = data] = DiskOf(d.map, d.inUse, d.sector, d.name, d.hdr, data)
    BY DEF Disks, DiskOf
  <1>4. WithData(d, s, b) = DiskOf(d.map, d.inUse, d.sector, d.name, hdr, data)
    BY <1>2, <1>3 DEF DiskOf
  <1>5. QED
    BY <1>1, <1>4, DiskFields, DiskMade DEF hdr, data

LEMMA MapWritten ==
    ASSUME NEW d \in Disks, NEW map \in SUBSET Sectors
    PROVE  /\ WithMap(d, map) \in Disks
           /\ WithMap(d, map).map = map /\ WithMap(d, map).inUse = d.inUse
           /\ WithMap(d, map).sector = d.sector /\ WithMap(d, map).name = d.name
           /\ WithMap(d, map).hdr = d.hdr /\ WithMap(d, map).data = d.data
  <1>1. WithMap(d, map) = DiskOf(map, d.inUse, d.sector, d.name, d.hdr, d.data)
    BY DEF WithMap, Disks, DiskOf
  <1> QED BY <1>1, DiskFields, DiskMade

\* Both halves of a directory, and the first half alone.
LEMMA EntriesReplaced ==
    ASSUME NEW d \in Disks, NEW u, NEW c, NEW n
    PROVE  [d EXCEPT !.inUse = u, !.sector = c, !.name = n] = DiskOf(d.map, u, c, n, d.hdr, d.data)
  <1>1. PICK d1 : d1 = [d EXCEPT !.inUse = u]
    OBVIOUS
  <1>2. PICK d2 : d2 = [d1 EXCEPT !.sector = c]
    OBVIOUS
  <1>3. [d EXCEPT !.inUse = u, !.sector = c, !.name = n] = [d2 EXCEPT !.name = n]
    BY <1>1, <1>2
  <1>4. d1 = DiskOf(d.map, u, d.sector, d.name, d.hdr, d.data)
    BY <1>1 DEF Disks, DiskOf
  <1>5. d2 = DiskOf(d.map, u, c, d.name, d.hdr, d.data)
    BY <1>2, <1>4 DEF DiskOf
  <1>6. [d2 EXCEPT !.name = n] = DiskOf(d.map, u, c, n, d.hdr, d.data)
    BY <1>5 DEF DiskOf
  <1> QED BY <1>3, <1>6

LEMMA DirectoryWritten ==
    ASSUME NEW d \in Disks, NEW dir \in Disks
    PROVE  /\ WithDirectory(d, dir) \in Disks
           /\ WithDirectory(d, dir).map = d.map /\ WithDirectory(d, dir).inUse = dir.inUse
           /\ WithDirectory(d, dir).sector = dir.sector /\ WithDirectory(d, dir).name = dir.name
           /\ WithDirectory(d, dir).hdr = d.hdr /\ WithDirectory(d, dir).data = d.data
  <1>1. WithDirectory(d, dir) = DiskOf(d.map, dir.inUse, dir.sector, dir.name, d.hdr, d.data)
    BY EntriesReplaced DEF WithDirectory
  <1> QED BY <1>1, DiskFields, DiskMade

LEMMA HalfWritten ==
    ASSUME NEW d \in Disks, NEW dir \in Disks, NEW half, half = FirstHalf(d, dir)
    PROVE  /\ half \in Disks
           /\ half.map = d.map
           /\ \A e \in Entries : e <= Straddling =>
                /\ half.inUse[e] = dir.inUse[e]
                /\ half.sector[e] = dir.sector[e]
           /\ \A e \in Entries : ~(e <= Straddling) =>
                /\ half.inUse[e] = d.inUse[e]
                /\ half.sector[e] = d.sector[e]
           /\ \A e \in Entries :
                half.name[e] = IF e < Straddling THEN dir.name[e] ELSE d.name[e]
           /\ half.hdr = d.hdr /\ half.data = d.data
  <1> DEFINE inUse == [e \in Entries |-> IF e <= Straddling THEN dir.inUse[e] ELSE d.inUse[e]]
             sector == [e \in Entries |-> IF e <= Straddling THEN dir.sector[e] ELSE d.sector[e]]
             name == [e \in Entries |-> IF e < Straddling THEN dir.name[e] ELSE d.name[e]]
  <1>1. /\ inUse \in [Entries -> BOOLEAN] /\ sector \in [Entries -> Sectors \cup {0}]
        /\ name \in [Entries -> Names \cup {NoName}]
    BY DiskFields
  <1>2. half = [d EXCEPT !.inUse = inUse, !.sector = sector, !.name = name]
    BY Zenon DEF FirstHalf
  <1> HIDE DEF inUse, sector, name
  <1>3. half = DiskOf(d.map, inUse, sector, name, d.hdr, d.data)
    BY <1>2, EntriesReplaced
  <1>4. half \in Disks
    BY <1>1, <1>3, DiskFields, DiskMade
  <1>5. /\ half.map = d.map /\ half.inUse = inUse
        /\ half.sector = sector /\ half.name = name
        /\ half.hdr = d.hdr /\ half.data = d.data
    BY <1>3, DiskMade
  <1>6. \A e \in Entries : e <= Straddling => inUse[e] = dir.inUse[e] /\ sector[e] = dir.sector[e]
    BY DEF inUse, sector
  <1>7. \A e \in Entries : ~(e <= Straddling) => inUse[e] = d.inUse[e] /\ sector[e] = d.sector[e]
    BY DEF inUse, sector
  <1>8. \A e \in Entries : name[e] = IF e < Straddling THEN dir.name[e] ELSE d.name[e]
    BY DEF name
  <1> QED BY <1>4, <1>5, <1>6, <1>7, <1>8

\* Directory::Add takes the first entry that is not in use.
LEMMA EntryAdded ==
    ASSUME NEW d \in Disks, NEW n \in Names, NEW s \in Sectors, UnusedEntries(d) # {}
    PROVE  \E e \in Entries :
             /\ ~d.inUse[e] /\ \A x \in Entries : x < e => d.inUse[x]
             /\ Added(d, n, s) \in Disks
             /\ Added(d, n, s).inUse[e] /\ Added(d, n, s).sector[e] = s /\ Added(d, n, s).name[e] = n
             /\ \A x \in Entries \ {e} : /\ Added(d, n, s).inUse[x] = d.inUse[x]
                                        /\ Added(d, n, s).sector[x] = d.sector[x]
                                        /\ Added(d, n, s).name[x] = d.name[x]
  <1> DEFINE e == First(UnusedEntries(d))
             inUse == [d.inUse EXCEPT ![e] = TRUE]
             sector == [d.sector EXCEPT ![e] = s]
             name == [d.name EXCEPT ![e] = n]
  <1>1. e \in Entries /\ ~d.inUse[e] /\ \A x \in Entries : x < e => d.inUse[x]
    <2>1. UnusedEntries(d) \in SUBSET Nat
      BY FSAssumption DEF FSAssumption, UnusedEntries, Entries
    <2>2. e \in UnusedEntries(d) /\ \A x \in UnusedEntries(d) : e <= x
      BY <2>1, LeastIn
    <2> HIDE DEF e
    <2>3. ASSUME NEW x \in Entries, x < e PROVE x \notin UnusedEntries(d)
      BY <2>1, <2>2, <2>3
    <2> QED BY <2>2, <2>3 DEF UnusedEntries
  <1>2. Added(d, n, s) = [d EXCEPT !.inUse = inUse, !.sector = sector, !.name = name]
    <2>1. Added(d, n, s) = [d EXCEPT !.inUse[e] = TRUE, !.name[e] = n, !.sector[e] = s]
      BY Zenon DEF Added
    <2> HIDE DEF e
    <2> QED BY <2>1
  <1> HIDE DEF e
  <1>3. /\ inUse \in [Entries -> BOOLEAN] /\ sector \in [Entries -> Sectors \cup {0}]
        /\ name \in [Entries -> Names \cup {NoName}]
    BY <1>1, DiskFields
  <1> HIDE DEF inUse, sector, name
  <1>4. Added(d, n, s) = DiskOf(d.map, inUse, sector, name, d.hdr, d.data)
    BY <1>2, EntriesReplaced
  <1>5. Added(d, n, s) \in Disks
    BY <1>3, <1>4, DiskFields, DiskMade
  <1>6. Added(d, n, s).inUse = inUse /\ Added(d, n, s).sector = sector /\ Added(d, n, s).name = name
    BY <1>4, DiskMade
  <1>7. inUse[e] /\ sector[e] = s /\ name[e] = n
    BY <1>1, DiskFields DEF inUse, sector, name
  <1>8. \A x \in Entries \ {e} : /\ inUse[x] = d.inUse[x] /\ sector[x] = d.sector[x]
                                /\ name[x] = d.name[x]
    BY <1>1, DiskFields DEF inUse, sector, name
  <1> QED BY <1>1, <1>5, <1>6, <1>7, <1>8

\* Directory::FindIndex finds the entry of a name; Directory::Remove puts it out of use.
LEMMA EntryFound ==
    ASSUME NEW d \in Disks, NEW n \in Names
    PROVE  /\ FindIndex(d, n) = -1 <=> EntriesOf(d, n) = {}
           /\ EntriesOf(d, n) # {} => FindIndex(d, n) \in EntriesOf(d, n)
  <1>1. EntriesOf(d, n) \in SUBSET Nat
    BY FSAssumption DEF FSAssumption, EntriesOf, Entries
  <1>2. EntriesOf(d, n) # {} => First(EntriesOf(d, n)) \in EntriesOf(d, n)
    BY <1>1, LeastIn
  <1> QED BY <1>1, <1>2 DEF FindIndex

LEMMA EntryRemoved ==
    ASSUME NEW d \in Disks, NEW n \in Names, FindIndex(d, n) # -1
    PROVE  /\ Removed(d, n) \in Disks
           /\ Removed(d, n).inUse = [d.inUse EXCEPT ![FindIndex(d, n)] = FALSE]
           /\ Removed(d, n).sector = d.sector /\ Removed(d, n).name = d.name
  <1> DEFINE e == FindIndex(d, n)  inUse == [d.inUse EXCEPT ![e] = FALSE]
  <1>1. e \in Entries
    BY EntryFound DEF EntriesOf
  <1>2. inUse \in [Entries -> BOOLEAN]
    BY <1>1, DiskFields
  <1>3. Removed(d, n) = [d EXCEPT !.inUse = inUse]
    BY DEF Removed
  <1> HIDE DEF inUse
  <1>4. Removed(d, n) = DiskOf(d.map, inUse, d.sector, d.name, d.hdr, d.data)
    BY <1>3 DEF Disks, DiskOf
  <1>5. Removed(d, n) \in Disks
    BY <1>2, <1>4, DiskFields, DiskMade
  <1>6. Removed(d, n).inUse = inUse /\ Removed(d, n).sector = d.sector /\ Removed(d, n).name = d.name
    BY <1>4, DiskMade
  <1> QED BY <1>5, <1>6 DEF inUse

-----------------------------------------------------------------------------
(* Disks and their files. *)

\* Equal columns are equal directories.
LEMMA SameDirectory ==
    ASSUME NEW d \in Disks, NEW k \in Disks
    PROVE  /\ (\A e \in Entries : k.inUse[e] = d.inUse[e]) => k.inUse = d.inUse
           /\ (\A e \in Entries : k.sector[e] = d.sector[e]) => k.sector = d.sector
           /\ (\A e \in Entries : k.name[e] = d.name[e]) => k.name = d.name
  <1>1. /\ d.inUse \in [Entries -> BOOLEAN] /\ d.sector \in [Entries -> Sectors \cup {0}]
        /\ d.name \in [Entries -> Names \cup {NoName}]
    BY DiskFields
  <1>2. /\ k.inUse \in [Entries -> BOOLEAN] /\ k.sector \in [Entries -> Sectors \cup {0}]
        /\ k.name \in [Entries -> Names \cup {NoName}]
    BY DiskFields
  <1> QED BY <1>1, <1>2

\* A sector is allocated when a file has it.
LEMMA AllocatedIs ==
    ASSUME NEW d, NEW s
    PROVE  s \in Allocated(d) <=> \E x \in InUse(d) : s \in AllSectors(d, x)
  BY DEF Allocated, InUse

\* What is written outside the files leaves them what they are.
LEMMA SameFiles ==
    ASSUME NEW d, NEW e, e.inUse = d.inUse, e.sector = d.sector, e.name = d.name,
           \A x \in InUse(d) : e.hdr[d.sector[x]] = d.hdr[d.sector[x]]
    PROVE  /\ InUse(e) = InUse(d) /\ \A x \in InUse(d) : AllSectors(e, x) = AllSectors(d, x)
           /\ Allocated(e) = Allocated(d)
           /\ Tidy(d) => Tidy(e)
           /\ \A n, h : IsFile(d, n, h) => IsFile(e, n, h)
  <1>1. InUse(e) = InUse(d)
    BY DEF InUse
  <1>2. \A x \in InUse(d) : AllSectors(e, x) = AllSectors(d, x)
    BY DEF AllSectors
  <1>3. Allocated(e) = Allocated(d)
    <2>1. \A s : s \in Allocated(e) <=> s \in Allocated(d)
      BY <1>1, <1>2, AllocatedIs
    <2> QED BY Zenon, <2>1
  <1>4. Tidy(d) => Tidy(e)
    <2>1. \A x \in InUse(d) : TidyEntry(d, x) => TidyEntry(e, x)
      BY DEF TidyEntry
    <2>2. \A x, y \in InUse(d) : Apart(d, x, y) => Apart(e, x, y)
      BY <1>2 DEF Apart
    <2> QED BY <1>1, <2>1, <2>2 DEF Tidy
  <1>5. ASSUME NEW n, NEW h, IsFile(d, n, h) PROVE IsFile(e, n, h)
    <2>1. PICK x \in EntriesOf(d, n) : d.hdr[d.sector[x]] = h
      BY <1>5 DEF IsFile
    <2>2. x \in InUse(d) /\ x \in EntriesOf(e, n)
      BY <2>1 DEF EntriesOf, InUse
    <2> QED BY <2>1, <2>2 DEF IsFile
  <1> QED BY <1>1, <1>2, <1>3, <1>4, <1>5

\* The sectors of the files are sectors, and on a sound disk those that the map marks.
LEMMA TidySectors ==
    ASSUME NEW d \in Disks, Sound(d), Tidy(d), NEW x \in InUse(d)
    PROVE  /\ AllSectors(d, x) \subseteq d.map /\ d.sector[x] \in d.map
           /\ d.sector[x] \in Sectors /\ d.hdr[d.sector[x]] \in AnyHeader
           /\ SectorsOf(d.hdr[d.sector[x]]) \subseteq d.map
  <1>1. AllSectors(d, x) \subseteq d.map
    BY AllocatedIs DEF Sound
  <1>2. d.sector[x] \in Sectors
    BY DEF Tidy, TidyEntry
  <1> QED BY <1>1, <1>2, DiskFields DEF AllSectors

\* A name is in the directory once.
LEMMA OneEntry ==
    ASSUME NEW d \in Disks, Tidy(d), NEW n \in Names, NEW x \in EntriesOf(d, n)
    PROVE  /\ EntriesOf(d, n) = {x} /\ FindIndex(d, n) = x
           /\ HeaderOf(d, n) = d.hdr[d.sector[x]]
  <1>1. ASSUME NEW y \in EntriesOf(d, n) PROVE y = x
    BY DEF EntriesOf, Tidy, InUse, Apart
  <1>2. FindIndex(d, n) = x
    BY <1>1, EntryFound
  <1> QED BY <1>1, <1>2 DEF HeaderOf

\* FileSystem::Create writes the header into a free sector, then the directory in its
\* two sectors, and the map at last. Until then the disk has the files it had, or a map
\* that does not mark the new file's header.
Creating(d, n, size, sector, blocks, d1, d2, d3, d4) ==
    LET dir == Added(d, n, sector)
    IN  /\ d \in Disks /\ Sound(d) /\ Tidy(d)
        /\ n \in Names /\ EntriesOf(d, n) = {} /\ UnusedEntries(d) # {}
        /\ sector \in Sectors \ d.map /\ size \in Nat
        /\ blocks \in Seq(Sectors) /\ Len(blocks) = SectorCount(size)
        /\ \A i \in DOMAIN blocks : blocks[i] \notin d.map \cup {sector}
        /\ \A i, j \in DOMAIN blocks : i # j => blocks[i] # blocks[j]
        /\ d1 = WithHeader(d, sector, Header(size, blocks))
        /\ d2 = FirstHalf(d1, dir)
        /\ d3 = WithDirectory(d1, dir)
        /\ d4 = WithMap(d3, (d.map \cup {sector}) \cup {blocks[i] : i \in DOMAIN blocks})

Created(d, sector, d1, d2, d3, d4) ==
    /\ d1 \in Disks /\ d2 \in Disks /\ d3 \in Disks /\ d4 \in Disks
    /\ Fit(d1) /\ Fit(d2) /\ Fit(d3) /\ Fit(d4)
    /\ Sound(d4)
    /\ \A m \in Names : \A h : IsFile(d, m, h) => IsFile(d4, m, h)
    /\ \A k \in {d1, d2, d3, d4} : k.data = [d.data EXCEPT ![sector] = Blank]

\* What Create does to the directory and to the headers.
CreateParts(d, n, sector, h, e0, d1, d2, d3, d4) ==
    /\ ~d.inUse[e0] /\ \A x \in Entries : x < e0 => d.inUse[x]
    /\ d1 \in Disks /\ d2 \in Disks /\ d3 \in Disks /\ d4 \in Disks
    /\ d1.map = d.map /\ d2.map = d.map /\ d3.map = d.map
    /\ d4.map = (d.map \cup {sector}) \cup SectorsOf(h)
    /\ d1.inUse = d.inUse /\ d1.sector = d.sector /\ d1.name = d.name
    /\ d4.inUse[e0] /\ d4.sector[e0] = sector /\ d4.name[e0] = n
    /\ \A x \in Entries \ {e0} : /\ d4.inUse[x] = d.inUse[x] /\ d4.sector[x] = d.sector[x]
                                /\ d4.name[x] = d.name[x]
    /\ d3.inUse = d4.inUse /\ d3.sector = d4.sector /\ d3.name = d4.name
    /\ e0 > Straddling => d2.inUse = d.inUse /\ d2.sector = d.sector /\ d2.name = d.name
    /\ e0 < Straddling => d2.inUse = d4.inUse /\ d2.sector = d4.sector /\ d2.name = d4.name
    /\ e0 = Straddling => d2.inUse = d4.inUse /\ d2.sector = d4.sector /\ d2.name = d.name
    /\ \A k \in {d1, d2, d3, d4} : /\ k.hdr = [d.hdr EXCEPT ![sector] = h]
                                  /\ k.data = [d.data EXCEPT ![sector] = Blank]

LEMMA CreatePartsAre ==
    ASSUME NEW d, NEW n, NEW size, NEW sector, NEW blocks, NEW d1, NEW d2, NEW d3, NEW d4,
           Creating(d, n, size, sector, blocks, d1, d2, d3, d4)
    PROVE  \E e0 \in Entries :
             CreateParts(d, n, sector, Header(size, blocks), e0, d1, d2, d3, d4)
  <1>1. PICK dir : dir = Added(d, n, sector)
    OBVIOUS
  <1> DEFINE h == Header(size, blocks)  marks == {blocks[i] : i \in DOMAIN blocks}
             map == (d.map \cup {sector}) \cup marks
  <1>2. /\ d \in Disks /\ n \in Names /\ UnusedEntries(d) # {}
        /\ sector \in Sectors \ d.map /\ size \in Nat /\ blocks \in Seq(Sectors)
        /\ d1 = WithHeader(d, sector, h) /\ d2 = FirstHalf(d1, dir)
        /\ d3 = WithDirectory(d1, dir) /\ d4 = WithMap(d3, map)
    BY <1>1, Zenon DEF Creating
  <1>3. h \in AnyHeader
    BY <1>2, HeadersTyped
  <1>4. PICK e0 \in Entries :
             /\ ~d.inUse[e0] /\ \A x \in Entries : x < e0 => d.inUse[x]
             /\ dir \in Disks
             /\ dir.inUse[e0] /\ dir.sector[e0] = sector /\ dir.name[e0] = n
             /\ \A x \in Entries \ {e0} : /\ dir.inUse[x] = d.inUse[x] /\ dir.sector[x] = d.sector[x]
                                         /\ dir.name[x] = d.name[x]
    BY <1>1, <1>2, EntryAdded
  <1>5. /\ d1 \in Disks /\ d1.map = d.map /\ d1.inUse = d.inUse /\ d1.sector = d.sector
        /\ d1.name = d.name /\ d1.hdr = [d.hdr EXCEPT ![sector] = h]
        /\ d1.data = [d.data EXCEPT ![sector] = Blank]
    BY <1>2, <1>3, HeaderWritten
  <1>6. /\ d2 \in Disks /\ d2.map = d.map /\ d2.hdr = d1.hdr /\ d2.data = d1.data
        /\ \A e \in Entries : e <= Straddling =>
             d2.inUse[e] = dir.inUse[e] /\ d2.sector[e] = dir.sector[e]
        /\ \A e \in Entries : ~(e <= Straddling) =>
             d2.inUse[e] = d.inUse[e] /\ d2.sector[e] = d.sector[e]
        /\ \A e \in Entries : d2.name[e] = IF e < Straddling THEN dir.name[e] ELSE d.name[e]
    BY <1>2, <1>4, <1>5, HalfWritten
  <1>7. /\ d3 \in Disks /\ d3.map = d.map /\ d3.inUse = dir.inUse /\ d3.sector = dir.sector
        /\ d3.name = dir.name /\ d3.hdr = d1.hdr /\ d3.data = d1.data
    BY <1>2, <1>4, <1>5, DirectoryWritten
  <1>8. /\ d4 \in Disks /\ d4.map = map /\ d4.inUse = dir.inUse /\ d4.sector = dir.sector
        /\ d4.name = dir.name /\ d4.hdr = d1.hdr /\ d4.data = d1.data
    <2>1. map \in SUBSET Sectors
      BY <1>2, DiskFields
    <2> HIDE DEF map
    <2> QED BY <1>2, <1>7, <2>1, MapWritten
  <1>9. map = (d.map \cup {sector}) \cup SectorsOf(h)
    BY <1>2, HeadersTyped DEF SectorsOf
  <1> HIDE DEF h, marks, map
  <1>10. /\ Entries \subseteq Int /\ Straddling \in Int /\ e0 \in Int
    BY FSAssumption DEF FSAssumption, Entries
  <1>11. ASSUME e0 > Straddling
         PROVE  d2.inUse = d.inUse /\ d2.sector = d.sector /\ d2.name = d.name
    <2>1. \A e \in Entries : e <= Straddling => e # e0
      BY <1>10, <1>11
    <2>2. \A e \in Entries : e < Straddling => e <= Straddling
      BY <1>10
    <2>3. \A e \in Entries : d2.inUse[e] = d.inUse[e] /\ d2.sector[e] = d.sector[e]
      BY <1>4, <1>6, <2>1, Zenon
    <2>4. \A e \in Entries : d2.name[e] = d.name[e]
      BY <1>4, <1>6, <2>1, <2>2
    <2> QED BY <1>2, <1>6, <2>3, <2>4, SameDirectory
  <1>12. ASSUME e0 <= Straddling
         PROVE  d2.inUse = dir.inUse /\ d2.sector = dir.sector
    <2>1. \A e \in Entries : ~(e <= Straddling) => e # e0
      BY <1>12
    <2>2. \A e \in Entries : d2.inUse[e] = dir.inUse[e] /\ d2.sector[e] = dir.sector[e]
      BY <1>4, <1>6, <2>1
    <2> QED BY <1>4, <1>6, <2>2, SameDirectory
  <1>13. ASSUME e0 < Straddling PROVE d2.name = dir.name
    <2>1. \A e \in Entries : ~(e < Straddling) => e # e0
      BY <1>13
    <2>2. \A e \in Entries : d2.name[e] = dir.name[e]
      BY <1>4, <1>6, <2>1
    <2> QED BY <1>4, <1>6, <2>2, SameDirectory
  <1>14. ASSUME e0 = Straddling PROVE d2.name = d.name
    <2>1. \A e \in Entries : e < Straddling => e # e0
      BY <1>10, <1>14
    <2>2. \A e \in Entries : d2.name[e] = d.name[e]
      BY <1>4, <1>6, <2>1
    <2> QED BY <1>2, <1>6, <2>2, SameDirectory
  <1>15. /\ e0 < Straddling => e0 <= Straddling
         /\ e0 = Straddling => e0 <= Straddling
    BY <1>10
  <1>16. CreateParts(d, n, sector, h, e0, d1, d2, d3, d4)
    <2>1. \A k \in {d1, d2, d3, d4} : /\ k.hdr = [d.hdr EXCEPT ![sector] = h]
                                     /\ k.data = [d.data EXCEPT ![sector] = Blank]
      BY <1>5, <1>6, <1>7, <1>8
    <2> QED BY <1>4, <1>5, <1>6, <1>7, <1>8, <1>11, <1>12, <1>13, <1>14, <1>15, <1>9, <2>1
            DEF CreateParts
  <1> QED BY <1>16 DEF h

LEMMA CreateWrites ==
    ASSUME NEW d, NEW n, NEW size, NEW sector, NEW blocks, NEW d1, NEW d2, NEW d3, NEW d4,
           Creating(d, n, size, sector, blocks, d1, d2, d3, d4)
    PROVE  Created(d, sector, d1, d2, d3, d4)
  <1> DEFINE h == Header(size, blocks)  marks == {blocks[i] : i \in DOMAIN blocks}
             map == (d.map \cup {sector}) \cup marks
  <1> SUFFICES ASSUME d \in Disks, Sound(d), Tidy(d), n \in Names, EntriesOf(d, n) = {},
                      sector \in Sectors \ d.map, size \in Nat,
                      blocks \in Seq(Sectors), Len(blocks) = SectorCount(size),
                      \A i \in DOMAIN blocks : blocks[i] \notin d.map \cup {sector},
                      \A i, j \in DOMAIN blocks : i # j => blocks[i] # blocks[j]
               PROVE  /\ d1 \in Disks /\ d2 \in Disks /\ d3 \in Disks /\ d4 \in Disks
                      /\ Fit(d1) /\ Fit(d2) /\ Fit(d3) /\ Fit(d4)
                      /\ Sound(d4)
                      /\ \A m \in Names : \A g : IsFile(d, m, g) => IsFile(d4, m, g)
                      /\ \A k \in {d1, d2, d3, d4} : k.data = [d.data EXCEPT ![sector] = Blank]
    BY Zenon DEF Creating, Created
  <1>1. PICK e0 \in Entries : CreateParts(d, n, sector, h, e0, d1, d2, d3, d4)
    BY CreatePartsAre
  <1>2. h \in AnyHeader /\ h.numBytes = size /\ h.dataSectors = blocks
    BY HeadersTyped
  <1>3. /\ ~d.inUse[e0]
        /\ d4.inUse[e0] /\ d4.sector[e0] = sector /\ d4.name[e0] = n
        /\ \A x \in Entries \ {e0} : /\ d4.inUse[x] = d.inUse[x] /\ d4.sector[x] = d.sector[x]
                                    /\ d4.name[x] = d.name[x]
    BY <1>1, Zenon DEF CreateParts
  <1>4. /\ d1 \in Disks /\ d1.map = d.map /\ d1.inUse = d.inUse /\ d1.sector = d.sector
        /\ d1.name = d.name /\ d1.hdr = [d.hdr EXCEPT ![sector] = h]
        /\ \A k \in {d1, d2, d3, d4} : /\ k.hdr = d1.hdr
                                      /\ k.data = [d.data EXCEPT ![sector] = Blank]
    BY <1>1 DEF CreateParts
  <1>5. d2 \in Disks /\ d2.map = d.map /\ d2.hdr = d1.hdr
    BY <1>1, <1>4 DEF CreateParts
  <1>6. d3 \in Disks /\ d3.map = d.map /\ d3.inUse = d4.inUse /\ d3.sector = d4.sector
    BY <1>1 DEF CreateParts
  <1>7. d4 \in Disks /\ d4.map = map /\ d4.hdr = d1.hdr
    <2>1. SectorsOf(h) = marks
      BY <1>2 DEF SectorsOf
    <2> QED BY <1>1, <1>4, <2>1 DEF CreateParts
  <1>8. \A x \in InUse(d) : d.sector[x] # sector /\ d1.hdr[d.sector[x]] = d.hdr[d.sector[x]]
    BY <1>4, TidySectors, DiskFields
  <1>9. \A x \in InUse(d) : x # e0 /\ d4.inUse[x] /\ d4.sector[x] = d.sector[x] /\ d4.name[x] = d.name[x]
    BY <1>3, DiskFields DEF InUse
  <1>10. Fit(d1)
    BY <1>4, <1>8, SameFiles DEF Fit
  <1>11. ASSUME NEW k \in Disks, k.map = d.map, k.inUse[e0], k.sector[e0] = sector
         PROVE  ~Sound(k)
    <2>1. sector \in AllSectors(k, e0) /\ e0 \in InUse(k)
      BY <1>11 DEF AllSectors, InUse
    <2>2. sector \in Allocated(k)
      BY <2>1, AllocatedIs
    <2> QED BY <1>11, <2>2 DEF Sound
  <1>12. ~Sound(d3)
    BY <1>3, <1>6, <1>11
  <1>13. Fit(d2)
    <2>1. Straddling \in Int /\ e0 \in Int
      BY FSAssumption DEF FSAssumption, Entries
    <2>2. CASE e0 < Straddling \/ e0 = Straddling
      <3>1. d2.inUse = d4.inUse /\ d2.sector = d4.sector
        BY <1>1, <2>2, Zenon DEF CreateParts
      <3> QED BY <1>3, <1>5, <1>11, <3>1 DEF Fit
    <2>3. CASE e0 > Straddling
      <3>1. d2.inUse = d.inUse /\ d2.sector = d.sector /\ d2.name = d.name
        BY <1>1, <2>3, Zenon DEF CreateParts
      <3>2. \A x \in InUse(d) : d2.hdr[d.sector[x]] = d.hdr[d.sector[x]]
        BY <1>5, <1>8
      <3> HIDE DEF h, marks, map
      <3>3. Allocated(d2) = Allocated(d) /\ Tidy(d2)
        BY <3>1, <3>2, SameFiles
      <3> QED BY <3>3 DEF Fit
    <2> QED BY <2>1, <2>2, <2>3
  <1>14. SectorsOf(h) = marks
    BY <1>2 DEF SectorsOf
  <1> HIDE DEF h, marks, map
  <1>15. /\ d4.hdr[sector] = h
         /\ \A x \in InUse(d) : d4.hdr[d4.sector[x]] = d.hdr[d.sector[x]] /\ d4.sector[x] = d.sector[x]
    <2>1. d1.hdr[sector] = h
      BY <1>4, DiskFields
    <2>2. \A x \in InUse(d) : d4.sector[x] = d.sector[x]
      BY <1>7, <1>9
    <2> QED BY <1>7, <1>8, <2>1, <2>2, Zenon
  <1>16. InUse(d4) = InUse(d) \cup {e0}
    <2>1. \A x \in Entries \ {e0} : x \in InUse(d4) <=> x \in InUse(d)
      BY <1>3, <1>7 DEF InUse
    <2>2. e0 \in InUse(d4)
      BY <1>3, <1>7 DEF InUse
    <2>3. InUse(d4) \subseteq Entries /\ InUse(d) \subseteq Entries
      BY DEF InUse
    <2> QED BY <2>1, <2>2, <2>3
  <1>17. \A x \in InUse(d) : AllSectors(d4, x) = AllSectors(d, x)
    BY <1>15 DEF AllSectors
  <1>18. AllSectors(d4, e0) = {sector} \cup marks
    <2>1. d4.sector[e0] = sector
      BY <1>3, <1>7
    <2> QED BY <1>15, <1>14, <2>1, Zenon DEF AllSectors
  <1>19. d4.sector[e0] = sector /\ d4.name[e0] = n
    BY <1>3, <1>7
  <1>20. Sound(d4)
    <2>1. ASSUME NEW s
          PROVE  s \in Allocated(d4) <=> (s \in Allocated(d) \/ s \in AllSectors(d4, e0))
      <3>1. s \in Allocated(d4) <=> \E x \in InUse(d) \cup {e0} : s \in AllSectors(d4, x)
        BY <1>16, AllocatedIs, Zenon
      <3>2. s \in Allocated(d) <=> \E x \in InUse(d) : s \in AllSectors(d4, x)
        <4>1. s \in Allocated(d) <=> \E x \in InUse(d) : s \in AllSectors(d, x)
          BY AllocatedIs, Zenon
        <4> QED BY <1>17, <4>1
      <3> QED BY <3>1, <3>2, Zenon
    <2>2. d.map = Allocated(d)
      BY DEF Sound
    <2>3. map = Allocated(d) \cup AllSectors(d4, e0)
      BY <1>18, <2>2, Zenon DEF map
    <2>4. map = Allocated(d4)
      BY <2>1, <2>3
    <2> QED BY <1>7, <2>4 DEF Sound
  <1>21. TidyEntry(d4, e0)
    <2>1. sector \notin marks
      BY DEF marks
    <2>2. FileHeader(h)
      BY <1>2 DEF FileHeader
    <2> QED BY <1>15, <1>14, <1>19, <2>1, <2>2 DEF TidyEntry
  <1>22. ASSUME NEW x \in InUse(d) PROVE TidyEntry(d4, x)
    <2>1. TidyEntry(d, x)
      BY DEF Tidy
    <2>2. d4.name[x] = d.name[x]
      BY <1>7, <1>9
    <2> QED BY <1>15, <2>1, <2>2 DEF TidyEntry
  <1>23. ASSUME NEW x \in InUse(d), NEW y \in InUse(d), x # y PROVE Apart(d4, x, y)
    <2>1. Apart(d, x, y)
      BY <1>23 DEF Tidy
    <2> QED BY <1>7, <1>9, <1>17, <2>1 DEF Apart
  <1>24. ASSUME NEW x \in InUse(d) PROVE Apart(d4, x, e0) /\ Apart(d4, e0, x)
    <2>1. AllSectors(d4, x) \subseteq d.map
      BY <1>17, TidySectors
    <2>2. AllSectors(d4, e0) \cap d.map = {}
      BY <1>18 DEF marks
    <2>3. d4.name[x] # n
      BY <1>7, <1>9 DEF EntriesOf, InUse
    <2> QED BY <1>19, <2>1, <2>2, <2>3 DEF Apart
  <1>25. Tidy(d4)
    <2>1. \A x \in InUse(d) \cup {e0} : TidyEntry(d4, x)
      BY <1>21, <1>22, Zenon
    <2>2. \A x, y \in InUse(d) \cup {e0} : x # y => Apart(d4, x, y)
      BY <1>23, <1>24, Zenon
    <2> QED BY <1>16, <2>1, <2>2, Zenon DEF Tidy
  <1>26. ASSUME NEW m \in Names, NEW g, IsFile(d, m, g) PROVE IsFile(d4, m, g)
    <2>1. PICK x \in EntriesOf(d, m) : d.hdr[d.sector[x]] = g
      BY <1>26 DEF IsFile
    <2>2. x \in InUse(d)
      BY DEF EntriesOf, InUse
    <2>3. x \in EntriesOf(d4, m)
      BY <1>7, <1>9, <2>2 DEF EntriesOf
    <2> QED BY <1>15, <2>1, <2>2, <2>3 DEF IsFile
  <1> QED
    BY <1>4, <1>5, <1>6, <1>7, <1>10, <1>12, <1>13, <1>20, <1>25, <1>26 DEF Fit

\* FileSystem::Remove writes the map, with the file's sectors clear, and then the
\* directory. Until its last sector the disk is the one before or has a file whose sectors
\* the map does not mark.
LEMMA RemoveWrites ==
    ASSUME NEW d \in Disks, Sound(d), Tidy(d), NEW n \in Names, FindIndex(d, n) # -1,
           NEW dir, dir = Removed(d, n),
           NEW d1, d1 = WithMap(d, d.map \ Freed(d, n)),
           NEW d2, d2 = FirstHalf(d1, dir),
           NEW d3, d3 = WithDirectory(d1, dir)
    PROVE  /\ d1 \in Disks /\ d2 \in Disks /\ d3 \in Disks
           /\ Fit(d1) /\ Fit(d2) /\ Fit(d3)
           /\ Sound(d3)
           /\ \A m \in Names \ {n} : \A h : IsFile(d, m, h) => IsFile(d3, m, h)
           /\ \A k \in {d1, d2, d3} : k.data = d.data
  <1> DEFINE e0 == FindIndex(d, n)  freed == Freed(d, n)
  <1>1. e0 \in InUse(d) /\ e0 \in Entries /\ d.name[e0] = n
    BY EntryFound DEF EntriesOf, InUse
  <1>2. freed = AllSectors(d, e0)
    BY DEF Freed, HeaderOf, AllSectors
  <1> HIDE DEF freed
  <1>3. /\ d1 \in Disks /\ d1.map = d.map \ freed /\ d1.inUse = d.inUse /\ d1.sector = d.sector
        /\ d1.name = d.name /\ d1.hdr = d.hdr /\ d1.data = d.data
    <2>1. d.map \ freed \in SUBSET Sectors
      BY DiskFields
    <2> QED BY <2>1, MapWritten DEF freed
  <1>4. /\ dir \in Disks /\ dir.inUse = [d.inUse EXCEPT ![e0] = FALSE]
        /\ dir.sector = d.sector /\ dir.name = d.name
    BY EntryRemoved
  <1> HIDE DEF e0
  <1>5. /\ ~dir.inUse[e0]
        /\ \A x \in Entries \ {e0} : dir.inUse[x] = d.inUse[x]
    BY <1>1, <1>4, DiskFields
  <1>6. /\ d2 \in Disks /\ d2.map = d1.map /\ d2.hdr = d.hdr /\ d2.data = d.data
        /\ \A e \in Entries : e <= Straddling => d2.inUse[e] = dir.inUse[e]
        /\ \A e \in Entries : ~(e <= Straddling) => d2.inUse[e] = d.inUse[e]
        /\ \A e \in Entries : d2.sector[e] = d.sector[e] /\ d2.name[e] = d.name[e]
    <2>1. d1 \in Disks /\ dir \in Disks
      BY <1>3, <1>4
    <2>2. d2 \in Disks /\ d2.map = d1.map /\ d2.hdr = d1.hdr /\ d2.data = d1.data
      BY <2>1, HalfWritten
    <2>3. \A e \in Entries : e <= Straddling =>
            d2.inUse[e] = dir.inUse[e] /\ d2.sector[e] = dir.sector[e]
      BY <2>1, HalfWritten
    <2>4. \A e \in Entries : ~(e <= Straddling) =>
            d2.inUse[e] = d1.inUse[e] /\ d2.sector[e] = d1.sector[e]
      BY <2>1, HalfWritten
    <2>5. \A e \in Entries : d2.name[e] = IF e < Straddling THEN dir.name[e] ELSE d1.name[e]
      BY <2>1, HalfWritten
    <2>6. d1.sector = d.sector /\ dir.sector = d.sector /\ d1.name = d.name /\ dir.name = d.name
      BY <1>3, <1>4
    <2>7. \A e \in Entries : d2.sector[e] = d.sector[e]
      BY <2>3, <2>4, <2>6, Zenon
    <2>8. \A e \in Entries : d2.name[e] = d.name[e]
      BY <2>5, <2>6, Zenon
    <2> QED BY <1>3, <2>2, <2>7, <2>8, <2>3, <2>4, Zenon
  <1>7. /\ d3 \in Disks /\ d3.map = d1.map /\ d3.inUse = dir.inUse /\ d3.sector = d.sector
        /\ d3.name = d.name /\ d3.hdr = d.hdr /\ d3.data = d.data
    BY <1>3, <1>4, DirectoryWritten
  <1>8. ASSUME NEW k, k.map = d1.map, k.inUse[e0], k.sector[e0] = d.sector[e0]
        PROVE  ~Sound(k)
    <2>1. d.sector[e0] \in AllSectors(k, e0) /\ e0 \in InUse(k)
      BY <1>1, <1>8 DEF AllSectors, InUse
    <2>2. d.sector[e0] \in Allocated(k)
      BY <2>1, AllocatedIs
    <2>3. d.sector[e0] \in freed
      BY <1>2 DEF AllSectors
    <2> QED BY <1>3, <1>8, <2>2, <2>3 DEF Sound
  <1>9. Fit(d1)
    BY <1>1, <1>3, <1>8 DEF Fit, InUse
  <1>10. InUse(d3) = InUse(d) \ {e0}
    BY <1>5, <1>7 DEF InUse
  <1>11. \A x \in InUse(d) : AllSectors(d3, x) = AllSectors(d, x)
    BY <1>7 DEF AllSectors
  <1>12. \A x \in InUse(d) \ {e0} : AllSectors(d, x) \cap freed = {}
    BY <1>1, <1>2 DEF Tidy, Apart
  <1>13. Sound(d3)
    <2>1. ASSUME NEW s
          PROVE  s \in Allocated(d3) <=> (s \in Allocated(d) /\ s \notin freed)
      <3>1. s \in Allocated(d3) <=> \E x \in InUse(d) \ {e0} : s \in AllSectors(d, x)
        <4>1. s \in Allocated(d3) <=> \E x \in InUse(d) \ {e0} : s \in AllSectors(d3, x)
          BY <1>10, AllocatedIs, Zenon
        <4> QED BY <1>11, <4>1
      <3>2. s \in Allocated(d) <=> \E x \in InUse(d) : s \in AllSectors(d, x)
        BY AllocatedIs, Zenon
      <3> QED BY <1>2, <1>12, <3>1, <3>2
    <2>2. d.map = Allocated(d)
      BY DEF Sound
    <2>3. d3.map = Allocated(d) \ freed
      BY <1>3, <1>7, <2>2
    <2>4. d3.map = Allocated(d3)
      BY <2>1, <2>3
    <2> QED BY <2>4 DEF Sound
  <1>14. Tidy(d3)
    <2>1. \A x \in InUse(d) : TidyEntry(d, x) => TidyEntry(d3, x)
      BY <1>7 DEF TidyEntry
    <2>2. \A x, y \in InUse(d) : Apart(d, x, y) => Apart(d3, x, y)
      BY <1>7, <1>11 DEF Apart
    <2> QED BY <1>10, <2>1, <2>2, Zenon DEF Tidy
  <1>15. Fit(d2)
    <2>1. CASE e0 <= Straddling
      <3>1. \A e \in Entries : d2.inUse[e] = d3.inUse[e]
        <4>1. \A e \in Entries : ~(e <= Straddling) => e \in Entries \ {e0}
          BY <2>1
        <4>2. \A e \in Entries : ~(e <= Straddling) => d2.inUse[e] = dir.inUse[e]
          BY <1>5, <1>6, <4>1, Zenon
        <4> QED BY <1>6, <1>7, <4>2, Zenon
      <3>2. d2.inUse = d3.inUse /\ d2.sector = d3.sector /\ d2.name = d3.name
        <4>1. d2 \in Disks /\ d3 \in Disks
          BY <1>6, <1>7
        <4>2. d2.inUse = d3.inUse
          BY <3>1, <4>1, SameDirectory
        <4>3. d2.sector = d.sector
          BY <1>6, <4>1, SameDirectory
        <4>4. d2.name = d.name
          BY <1>6, <4>1, SameDirectory
        <4> QED BY <1>7, <4>2, <4>3, <4>4, Zenon
      <3>3. Tidy(d2)
        BY <1>6, <1>7, <1>14, <3>2, SameFiles
      <3> QED BY <3>3 DEF Fit
    <2>2. CASE ~(e0 <= Straddling)
      BY <1>1, <1>6, <1>8, <2>2 DEF Fit, InUse
    <2> QED BY <2>1, <2>2
  <1>16. ASSUME NEW m \in Names \ {n}, NEW g, IsFile(d, m, g) PROVE IsFile(d3, m, g)
    <2>1. PICK x \in EntriesOf(d, m) : d.hdr[d.sector[x]] = g
      BY <1>16 DEF IsFile
    <2>2. x \in EntriesOf(d3, m)
      BY <1>1, <1>5, <1>7 DEF EntriesOf
    <2> QED BY <1>7, <2>1, <2>2 DEF IsFile
  <1> QED BY <1>3, <1>6, <1>7, <1>9, <1>13, <1>14, <1>15, <1>16 DEF Fit

-----------------------------------------------------------------------------
(* What WriteAt makes of a file's sectors. *)

\* A position in a file lies in one of the sectors of its header.
LEMMA FilePlaces ==
    ASSUME NEW h \in AnyHeader, FileHeader(h), NEW at \in Nat, at < h.numBytes
    PROVE  /\ at \div SectorSize + 1 \in DOMAIN h.dataSectors
           /\ ByteToSector(h, at) \in SectorsOf(h) /\ ByteToSector(h, at) \in Sectors
  <1> DEFINE q == at \div SectorSize  r == at % SectorSize
  <1>1. SectorSize \in Nat \ {0}
    BY FSAssumption DEF FSAssumption
  <1>2. q \in Nat /\ r \in 0 .. SectorSize - 1 /\ at = q * SectorSize + r
    BY Places
  <1>3. at + SectorSize = (q + 1) * SectorSize + r
    <2> HIDE DEF q, r
    <2> QED BY <1>1, <1>2, SMTT(30)
  <1>4. (at + SectorSize) \div SectorSize = q + 1
    <2> HIDE DEF q, r
    <2>1. q + 1 \in Nat
      BY <1>2
    <2> QED BY <1>2, <1>3, <2>1, Places
  <1>5. (at + SectorSize) \div SectorSize <= SectorCount(h.numBytes)
    <2>1. h.numBytes \in Nat /\ at + SectorSize <= h.numBytes + SectorSize - 1
      BY <1>1 DEF FileHeader
    <2>2. at + SectorSize \in Nat /\ h.numBytes + SectorSize - 1 \in Nat
      BY <1>1, <2>1
    <2> QED BY <2>1, <2>2, Places DEF SectorCount
  <1>6. h.dataSectors \in Seq(Sectors) /\ Len(h.dataSectors) = SectorCount(h.numBytes)
    BY HeadersTyped DEF FileHeader
  <1>7. q + 1 \in 1 .. Len(h.dataSectors)
    <2> HIDE DEF q
    <2> QED BY <1>2, <1>4, <1>5, <1>6
  <1> QED BY <1>6, <1>7 DEF ByteToSector, SectorsOf

\* What is clipped to the file's length ends in the file.
LEMMA ClippedRight ==
    ASSUME NEW h \in AnyHeader, FileHeader(h),
           NEW position \in Nat, position < h.numBytes, NEW numBytes \in Nat \ {0},
           NEW count, count = Clipped(h, position, numBytes)
    PROVE  count \in Nat \ {0} /\ position + count <= h.numBytes
  BY DEF FileHeader, Clipped

\* The sectors from the first to the last of some bytes of a file.
LEMMA SectorSpan ==
    ASSUME NEW h \in AnyHeader, FileHeader(h),
           NEW position \in Nat, NEW count \in Nat \ {0}, position + count <= h.numBytes
    PROVE  /\ FirstSector(position) \in Nat /\ LastSector(position, count) \in Nat
           /\ FirstSector(position) <= LastSector(position, count)
           /\ \A i \in FirstSector(position) .. LastSector(position, count) :
                /\ i \in Nat /\ i + 1 \in DOMAIN h.dataSectors
                /\ ByteToSector(h, i * SectorSize) = h.dataSectors[i + 1]
           /\ \A at \in position .. position + count - 1 :
                at \div SectorSize \in FirstSector(position) .. LastSector(position, count)
  <1> DEFINE first == FirstSector(position)  last == LastSector(position, count)
             end == position + count - 1
  <1>1. SectorSize \in Nat \ {0} /\ end \in Nat /\ position <= end /\ end < h.numBytes
    BY FSAssumption DEF FSAssumption, FileHeader
  <1>2. first = position \div SectorSize /\ last = end \div SectorSize
    BY DEF FirstSector, LastSector
  <1> HIDE DEF first, last, end
  <1>3. first \in Nat /\ last \in Nat /\ first <= last
    BY <1>1, <1>2, Places
  <1>4. ASSUME NEW i \in first .. last
        PROVE  /\ i \in Nat /\ i + 1 \in DOMAIN h.dataSectors
               /\ ByteToSector(h, i * SectorSize) = h.dataSectors[i + 1]
    <2>1. i \in Nat /\ i <= last
      BY <1>3
    <2>2. end = last * SectorSize + (end % SectorSize) /\ end % SectorSize \in 0 .. SectorSize - 1
      BY <1>1, <1>2, Places
    <2>3. i * SectorSize <= last * SectorSize
      BY <1>1, <1>3, <2>1, SMTT(30)
    <2>4. i * SectorSize \in Nat /\ last * SectorSize \in Nat
      BY <1>1, <1>3, <2>1, SMTT(30)
    <2>5. i * SectorSize < h.numBytes
      <3>1. \A a, b, c \in Nat, m \in 0 .. SectorSize - 1 : a <= b /\ c = b + m => a <= c
        OBVIOUS
      <3>2. i * SectorSize <= end
        BY <1>1, <2>2, <2>3, <2>4, <3>1, Zenon
      <3>3. h.numBytes \in Nat
        BY DEF FileHeader
      <3>4. \A a, b, c \in Nat : a <= b /\ b < c => a < c
        OBVIOUS
      <3> QED BY <1>1, <2>4, <3>2, <3>3, <3>4, Zenon
    <2>6. (i * SectorSize) \div SectorSize = i
      <3>1. 0 \in 0 .. SectorSize - 1
        BY <1>1
      <3>2. (i * SectorSize + 0) \div SectorSize = i
        BY <2>1, <3>1, Places
      <3> QED BY <2>4, <3>2
    <2>7. i + 1 \in DOMAIN h.dataSectors
      BY <2>4, <2>5, <2>6, FilePlaces
    <2> QED BY <2>1, <2>6, <2>7 DEF ByteToSector
  <1>5. ASSUME NEW at \in position .. end PROVE at \div SectorSize \in first .. last
    <2>1. at \in Nat /\ position <= at /\ at <= end
      BY <1>1
    <2>2. at \div SectorSize \in Nat
      BY <2>1, Places
    <2>3. first <= at \div SectorSize
      BY <1>2, <2>1, Places
    <2>4. at \div SectorSize <= last
      BY <1>1, <1>2, <2>1, Places
    <2> QED BY <1>3, <2>2, <2>3, <2>4
  <1> QED BY <1>3, <1>4, <1>5 DEF first, last, end

\* Disks that follow from each other, each by writing one sector.
InTurn(f, N, d, ss, bb) ==
    \A k \in 0 .. N : f[k] = IF k = 0 THEN d ELSE WithData(f[k - 1], ss[k], bb[k])

\* The disks that k sectors, written in turn, leave: there are such, each from the last.
LEMMA WritingExists ==
    ASSUME NEW N \in Nat, NEW ss, NEW bb, NEW d
    PROVE  \E f : f = [k \in 0 .. N |-> f[k]] /\ InTurn(f, N, d, ss, bb)
  <1> DEFINE Is(f, n) ==
               f = [k \in 0 .. n |-> IF k = 0 THEN d ELSE WithData(f[k - 1], ss[k], bb[k])]
             Missing == {n \in Nat : ~\E f : Is(f, n)}
  <1> SUFFICES ASSUME Missing # {} PROVE FALSE
    <2>1. SUFFICES \E f : Is(f, N)
      <3>1. PICK f : Is(f, N)
        BY <2>1
      <3>2. f = [k \in 0 .. N |-> f[k]] /\ InTurn(f, N, d, ss, bb)
        BY <3>1 DEF InTurn
      <3> QED BY <3>2
    <2> HIDE DEF Is
    <2> QED OBVIOUS
  <1>1. PICK n \in Missing : \A m \in Missing : n <= m
    BY LeastIn
  <1>2. CASE n = 0
    <2>1. PICK f : f = [k \in 0 .. 0 |-> d]
      OBVIOUS
    <2>2. Is(f, 0)
      BY <2>1
    <2> QED BY <1>1, <1>2, <2>2
  <1>3. CASE n # 0
    <2>1. n - 1 \in Nat /\ n \in Nat /\ ~(n <= n - 1)
      BY <1>3
    <2>2. PICK f : Is(f, n - 1)
      BY <1>1, <2>1
    <2>3. PICK g : g = [k \in 0 .. n |-> IF k < n THEN f[k] ELSE WithData(f[n - 1], ss[n], bb[n])]
      OBVIOUS
    <2>4. ASSUME NEW k \in 0 .. n
          PROVE  g[k] = IF k = 0 THEN d ELSE WithData(g[k - 1], ss[k], bb[k])
      <3>1. CASE k = 0
        BY <2>1, <2>2, <2>3, <3>1
      <3>2. CASE k # 0 /\ k < n
        <4>1. f[k] = WithData(f[k - 1], ss[k], bb[k])
          BY <2>1, <2>2, <3>2
        <4>2. k - 1 \in 0 .. n /\ k - 1 < n
          BY <2>1, <3>2
        <4>3. g[k] = f[k] /\ g[k - 1] = f[k - 1]
          BY <2>3, <3>2, <4>2
        <4> QED BY <3>2, <4>1, <4>3
      <3>3. CASE k = n
        <4>1. n - 1 \in 0 .. n /\ n - 1 < n /\ n \in 0 .. n /\ ~(n < n)
          BY <2>1
        <4>2. g[n - 1] = f[n - 1] /\ g[n] = WithData(f[n - 1], ss[n], bb[n])
          BY <2>3, <4>1
        <4> QED BY <1>3, <3>3, <4>2
      <3> QED BY <2>1, <3>1, <3>2, <3>3
    <2>5. Is(g, n)
      BY <2>3, <2>4
    <2> QED BY <1>1, <2>5
  <1> QED BY <1>2, <1>3

Contents == [0 .. SectorSize - 1 -> Bytes]

\* What writing one sector of data leaves alone.
LEMMA OneWrite ==
    ASSUME NEW e \in Disks, NEW s \in Sectors, NEW b \in Contents,
           NEW g, g = WithData(e, s, b)
    PROVE  /\ g \in Disks /\ g.map = e.map /\ g.inUse = e.inUse /\ g.sector = e.sector
           /\ g.name = e.name /\ g.hdr = [e.hdr EXCEPT ![s] = NoHeader]
           /\ g.data = [e.data EXCEPT ![s] = b]
  BY DataWritten DEF Contents

\* They differ from the first in the sectors written only, and each from the one before it
\* in what its sector holds.
OnlyThose(f, N, d, ss, bb) ==
    /\ \A k \in 0 .. N :
         /\ f[k] \in Disks /\ f[k].map = d.map
         /\ f[k].inUse = d.inUse /\ f[k].sector = d.sector /\ f[k].name = d.name
         /\ \A s \in Sectors : (\A j \in 1 .. k : ss[j] # s) =>
              f[k].hdr[s] = d.hdr[s] /\ f[k].data[s] = d.data[s]
    /\ \A k \in 1 .. N : f[k].data = [f[k - 1].data EXCEPT ![ss[k]] = bb[k]]

LEMMA WritesInTurn ==
    ASSUME NEW d \in Disks, NEW N \in Nat,
           NEW ss, \A k \in 1 .. N : ss[k] \in Sectors,
           NEW bb, \A k \in 1 .. N : bb[k] \in Contents,
           NEW f, InTurn(f, N, d, ss, bb)
    PROVE  OnlyThose(f, N, d, ss, bb)
  <1> DEFINE Right(k) ==
               /\ f[k] \in Disks /\ f[k].map = d.map
               /\ f[k].inUse = d.inUse /\ f[k].sector = d.sector /\ f[k].name = d.name
               /\ \A s \in Sectors : (\A j \in 1 .. k : ss[j] # s) =>
                    f[k].hdr[s] = d.hdr[s] /\ f[k].data[s] = d.data[s]
             Wrong == {k \in 0 .. N : ~Right(k)}
  <1>1. ASSUME NEW k \in 1 .. N, Right(k - 1)
        PROVE  Right(k) /\ f[k].data = [f[k - 1].data EXCEPT ![ss[k]] = bb[k]]
    <2>1. k # 0 /\ k \in 0 .. N /\ ss[k] \in Sectors /\ bb[k] \in Contents
      OBVIOUS
    <2>2. f[k] = WithData(f[k - 1], ss[k], bb[k])
      BY <2>1 DEF InTurn
    <2>3. /\ f[k] \in Disks /\ f[k].map = d.map
          /\ f[k].inUse = d.inUse /\ f[k].sector = d.sector /\ f[k].name = d.name
          /\ f[k].hdr = [f[k - 1].hdr EXCEPT ![ss[k]] = NoHeader]
          /\ f[k].data = [f[k - 1].data EXCEPT ![ss[k]] = bb[k]]
      <3>1. f[k - 1] \in Disks
        BY <1>1
      <3>2. PICK e : e = f[k - 1]
        OBVIOUS
      <3>3. PICK s : s = ss[k]
        OBVIOUS
      <3>4. PICK b : b = bb[k]
        OBVIOUS
      <3>5. PICK g : g = f[k]
        OBVIOUS
      <3>6. e \in Disks /\ s \in Sectors /\ b \in Contents /\ g = WithData(e, s, b)
        BY <2>1, <2>2, <3>1, <3>2, <3>3, <3>4, <3>5, Zenon
      <3> HIDE DEF Right, Wrong
      <3>7. /\ g \in Disks /\ g.map = e.map /\ g.inUse = e.inUse /\ g.sector = e.sector
            /\ g.name = e.name /\ g.hdr = [e.hdr EXCEPT ![s] = NoHeader]
            /\ g.data = [e.data EXCEPT ![s] = b]
        BY <3>6, OneWrite
      <3>8. /\ e.map = d.map /\ e.inUse = d.inUse /\ e.sector = d.sector /\ e.name = d.name
        BY <1>1, <3>2 DEF Right
      <3> QED BY <3>2, <3>3, <3>4, <3>5, <3>7, <3>8, Zenon
    <2>4. ASSUME NEW s \in Sectors, \A j \in 1 .. k : ss[j] # s
          PROVE  f[k].hdr[s] = d.hdr[s] /\ f[k].data[s] = d.data[s]
      <3>1. f[k - 1].hdr[s] = d.hdr[s] /\ f[k - 1].data[s] = d.data[s]
        <4>1. \A j \in 1 .. k - 1 : ss[j] # s
          BY <2>4
        <4> QED BY <1>1, <4>1
      <3>2. ss[k] # s
        BY <2>4
      <3>3. f[k - 1].hdr \in [Sectors -> AnyHeader]
            /\ f[k - 1].data \in [Sectors -> [0 .. SectorSize - 1 -> Bytes]]
        BY <1>1, DiskFields
      <3> QED BY <2>3, <3>1, <3>2, <3>3
    <2> QED BY <2>3, <2>4
  <1>2. Right(0)
    <2>1. f[0] = d
      BY DEF InTurn
    <2> QED BY <2>1
  <1>3. ASSUME Wrong # {} PROVE FALSE
    <2>1. Wrong \in SUBSET Nat
      OBVIOUS
    <2>2. PICK k \in Wrong : \A m \in Wrong : k <= m
      <3> HIDE DEF Wrong
      <3> QED BY <1>3, <2>1, LeastIn
    <2>3. k \in 0 .. N /\ ~Right(k)
      BY <2>2
    <2>4. k \in 1 .. N /\ k - 1 \in 0 .. N /\ ~(k <= k - 1)
      <3> HIDE DEF Right
      <3> QED BY <1>2, <2>3
    <2>5. Right(k - 1)
      <3> HIDE DEF Right
      <3> QED BY <2>2, <2>4
    <2> HIDE DEF Right
    <2> QED BY <1>1, <2>3, <2>4, <2>5
  <1>4. \A k \in 0 .. N : Right(k)
    <2> HIDE DEF Right
    <2> QED BY <1>3
  <1>5. ASSUME NEW k \in 1 .. N PROVE f[k].data = [f[k - 1].data EXCEPT ![ss[k]] = bb[k]]
    <2>1. k - 1 \in 0 .. N
      OBVIOUS
    <2> HIDE DEF Right
    <2> QED BY <1>1, <1>4, <2>1
  <1> HIDE DEF Right
  <1> QED BY <1>4, <1>5, Zenon DEF Right, OnlyThose

\* The i-th sector of a file after WriteAt has copied the new bytes in.
NewBytes(n, h, position, count, i) ==
    [b \in 0 .. SectorSize - 1 |->
        IF i * SectorSize + b \in position .. position + count - 1
        THEN n ELSE Buffer(h, position, count, i)[b]]

\* WriteAt's disks, h being the file's header, are one sector after the other.
WritesOf(h, n, position, count, N, f, ss, bb) ==
    /\ InTurn(f, N, disk, ss, bb)
    /\ todo' = [k \in 1 .. N |-> f[k]]
    /\ \A k \in 1 .. N :
         /\ ss[k] = ByteToSector(h, (FirstSector(position) + k - 1) * SectorSize)
         /\ bb[k] = NewBytes(n, h, position, count, FirstSector(position) + k - 1)

\* WriteAt's disks, without its recursion.
LEMMA WriteAtIs ==
    ASSUME NEW n \in Names, NEW position \in Nat, NEW numBytes \in Nat \ {0},
           WriteAt(n, position, numBytes),
           NEW h, h = opened[n],
           NEW count, count = Clipped(h, position, numBytes),
           NEW N \in Nat, N = LastSector(position, count) - FirstSector(position) + 1
    PROVE  \E f, ss, bb : WritesOf(h, n, position, count, N, f, ss, bb)
  <1> DEFINE hdr == opened[n]
             bytes == Clipped(hdr, position, numBytes)
             first == FirstSector(position)
             last == LastSector(position, bytes)
             M == last - first + 1
             Sector(k) == ByteToSector(hdr, (first + k - 1) * SectorSize)
             Bytes_(k) == NewBytes(n, hdr, position, bytes, first + k - 1)
             Is(f) == f = [k \in 0 .. M |-> IF k = 0 THEN disk
                                            ELSE WithData(f[k - 1], Sector(k), Bytes_(k))]
             After == CHOOSE f : Is(f)
             ss == [k \in 1 .. M |-> Sector(k)]
             bb == [k \in 1 .. M |-> Bytes_(k)]
  <1>1. todo' = [k \in 1 .. M |-> After[k]]
    BY Zenon DEF WriteAt, Begin, NewBytes
  <1>2. M \in Nat /\ M = N /\ hdr = h /\ bytes = count
    OBVIOUS
  <1> HIDE DEF hdr, bytes, M, Sector, Bytes_
  <1>3. \E f : Is(f)
    <2>1. PICK f : f = [k \in 0 .. M |-> f[k]] /\ InTurn(f, M, disk, ss, bb)
      <3> HIDE DEF Is, ss, bb
      <3> QED BY <1>2, WritingExists
    <2>2. ASSUME NEW k \in 0 .. M
          PROVE  f[k] = IF k = 0 THEN disk ELSE WithData(f[k - 1], Sector(k), Bytes_(k))
      <3>1. CASE k = 0
        BY <2>1, <3>1 DEF InTurn
      <3>2. CASE k # 0
        <4>1. k \in 1 .. M
          BY <1>2, <3>2
        <4>2. f[k] = WithData(f[k - 1], ss[k], bb[k])
          <5> HIDE DEF ss, bb
          <5> QED BY <2>1, <3>2 DEF InTurn
        <4> QED BY <3>2, <4>1, <4>2
      <3> QED BY <3>1, <3>2
    <2>3. Is(f)
      BY <2>1, <2>2
    <2> QED BY <2>3
  <1>4. Is(After)
    <2> HIDE DEF Is
    <2> QED BY <1>3, Zenon
  <1> HIDE DEF After
  <1>5. InTurn(After, M, disk, ss, bb)
    <2> SUFFICES ASSUME NEW k \in 0 .. M
                 PROVE  After[k] = IF k = 0 THEN disk ELSE WithData(After[k - 1], ss[k], bb[k])
      BY DEF InTurn
    <2>1. CASE k = 0
      BY <1>4, <2>1
    <2>2. CASE k # 0
      <3>1. k \in 1 .. M
        BY <1>2, <2>2
      <3>2. After[k] = WithData(After[k - 1], Sector(k), Bytes_(k))
        BY <1>4, <2>2
      <3> QED BY <2>2, <3>1, <3>2
    <2> QED BY <2>1, <2>2
  <1>6. \A k \in 1 .. M : ss[k] = Sector(k) /\ bb[k] = Bytes_(k)
    OBVIOUS
  <1>7. \A k \in 1 .. M :
          /\ ss[k] = ByteToSector(h, (FirstSector(position) + k - 1) * SectorSize)
          /\ bb[k] = NewBytes(n, h, position, count, FirstSector(position) + k - 1)
    <2> HIDE DEF ss, bb
    <2> QED BY <1>2, <1>6, Zenon DEF Sector, Bytes_
  <1> HIDE DEF ss, bb
  <1>8. WritesOf(h, n, position, count, M, After, ss, bb)
    BY <1>1, <1>5, <1>7, Zenon DEF WritesOf
  <1> QED BY <1>2, <1>8

\* A sector that is not written as a whole is read first.
LEMMA ReadBeforeWritten ==
    ASSUME NEW position \in Nat, NEW count \in Nat \ {0}, NEW at \in Nat,
           at \notin position .. position + count - 1,
           NEW i, i = at \div SectorSize,
           i \in FirstSector(position) .. LastSector(position, count)
    PROVE  IsRead(position, count, i)
  <1> DEFINE first == FirstSector(position)  last == LastSector(position, count)
             end == position + count - 1
  <1>1. SectorSize \in Nat \ {0} /\ end \in Nat /\ position <= end
    BY FSAssumption DEF FSAssumption
  <1>2. first = position \div SectorSize /\ last = end \div SectorSize
    BY DEF FirstSector, LastSector
  <1>3. position + count = end + 1
    OBVIOUS
  <1> HIDE DEF first, last, end
  <1>4. first \in Nat /\ last \in Nat /\ i \in Nat /\ first <= i /\ i <= last
    BY <1>1, <1>2, Places DEF first, last
  <1>5. /\ at = i * SectorSize + (at % SectorSize) /\ at % SectorSize \in 0 .. SectorSize - 1
        /\ i * SectorSize \in Nat /\ last * SectorSize \in Nat
    <2>1. at = i * SectorSize + (at % SectorSize) /\ at % SectorSize \in 0 .. SectorSize - 1
      BY Places
    <2>2. i * SectorSize \in Nat /\ last * SectorSize \in Nat
      BY <1>1, <1>4, SMTT(30)
    <2> QED BY <2>1, <2>2
  <1>6. CASE at < position
    <2>1. i <= first
      BY <1>2, <1>6, Places
    <2>2. i = first
      BY <1>4, <2>1
    <2>3. position # i * SectorSize
      <3> DEFINE r == at % SectorSize  m == i * SectorSize
      <3>1. at = m + r /\ r \in 0 .. SectorSize - 1 /\ m \in Nat
        BY <1>5
      <3> HIDE DEF r, m
      <3>2. position # m
        BY <1>1, <1>6, <3>1
      <3> QED BY <3>2 DEF m
    <2> QED BY <2>2, <2>3 DEF IsRead, first
  <1>7. CASE at > end
    <2>1. last <= i
      <3>1. end <= at
        BY <1>1, <1>7
      <3>2. end \div SectorSize <= at \div SectorSize
        BY <1>1, <3>1, Places
      <3> QED BY <1>2, <3>2
    <2>2. i = last
      BY <1>4, <2>1
    <2>3. position + count # (last + 1) * SectorSize
      <3> DEFINE r == at % SectorSize  m == i * SectorSize
      <3>1. at = m + r /\ r \in 0 .. SectorSize - 1 /\ m \in Nat
        BY <1>5
      <3>2. (last + 1) * SectorSize = m + SectorSize
        BY <1>1, <1>4, <2>2, SMTT(30)
      <3> HIDE DEF r, m
      <3>3. end + 1 # m + SectorSize
        BY <1>1, <1>7, <3>1
      <3> QED BY <1>3, <3>2, <3>3
    <2> QED BY <2>2, <2>3 DEF IsRead, first, last
  <1>8. at < position \/ at > end
    BY <1>1 DEF end
  <1> QED BY <1>6, <1>7, <1>8

\* The disks that WriteAt makes of a file with header h, f[0] being the one it has: they
\* differ in the file's sectors only, and there each byte stays or, when it is one of those
\* to be written and its sector's turn has come, becomes the writer's.
DisksOfWrite(h, n, position, count, N, f) ==
    /\ N \in Nat \ {0} /\ N = LastSector(position, count) - FirstSector(position) + 1
    /\ todo' = [k \in 1 .. N |-> f[k]] /\ f[0] = disk
    /\ \A k \in 0 .. N :
         /\ f[k] \in Disks /\ f[k].map = disk.map
         /\ f[k].inUse = disk.inUse /\ f[k].sector = disk.sector /\ f[k].name = disk.name
         /\ \A s \in Sectors \ SectorsOf(h) :
              f[k].hdr[s] = disk.hdr[s] /\ f[k].data[s] = disk.data[s]
    /\ \A k \in 1 .. N, at \in 0 .. h.numBytes - 1 :
         ByteAt(f[k], h, at) =
           IF /\ at \in position .. position + count - 1
              /\ at \div SectorSize = FirstSector(position) + k - 1
           THEN n ELSE ByteAt(f[k - 1], h, at)

\* Sector by sector, WriteAt puts the writer's bytes in the file and keeps the others.
LEMMA WriteAtWrites ==
    ASSUME disk \in Disks, NEW n \in Names, NEW h \in AnyHeader, h = opened[n], FileHeader(h),
           NEW position \in Nat, NEW numBytes \in Nat \ {0}, WriteAt(n, position, numBytes)
    PROVE  \E N, f : DisksOfWrite(h, n, position, Clipped(h, position, numBytes), N, f)
  <1> DEFINE count == Clipped(h, position, numBytes)
             first == FirstSector(position)
             last == LastSector(position, count)
             N == last - first + 1
  <1>1. position < h.numBytes
    BY DEF WriteAt
  <1>2. count \in Nat \ {0} /\ position + count <= h.numBytes
    BY <1>1, ClippedRight
  <1> HIDE DEF count
  <1>3. /\ first \in Nat /\ last \in Nat /\ first <= last
        /\ \A i \in first .. last : /\ i \in Nat /\ i + 1 \in DOMAIN h.dataSectors
                                    /\ ByteToSector(h, i * SectorSize) = h.dataSectors[i + 1]
    BY <1>2, SectorSpan
  <1>4. N \in Nat \ {0}
    <2> HIDE DEF first, last
    <2> QED BY <1>3
  <1>5. PICK f, ss, bb : WritesOf(h, n, position, count, N, f, ss, bb)
    BY <1>4, WriteAtIs DEF count
  <1> HIDE DEF N, first, last
  <1>6. ASSUME NEW k \in 1 .. N
        PROVE  /\ first + k - 1 \in first .. last
               /\ ss[k] = h.dataSectors[first + k] /\ first + k \in DOMAIN h.dataSectors
               /\ ss[k] \in Sectors /\ ss[k] \in SectorsOf(h)
               /\ bb[k] = NewBytes(n, h, position, count, first + k - 1)
    <2>1. first + k - 1 \in first .. last /\ (first + k - 1) + 1 = first + k
      BY <1>3 DEF N
    <2>2. /\ ss[k] = ByteToSector(h, (first + k - 1) * SectorSize)
          /\ bb[k] = NewBytes(n, h, position, count, first + k - 1)
      BY <1>5 DEF WritesOf, first
    <2>3. ss[k] = h.dataSectors[first + k] /\ first + k \in DOMAIN h.dataSectors
      BY <1>3, <2>1, <2>2
    <2>4. h.dataSectors[first + k] \in Sectors
      BY <2>3, HeadersTyped
    <2> QED BY <2>1, <2>2, <2>3, <2>4 DEF SectorsOf
  <1>7. \A k \in 1 .. N : ss[k] \in Sectors /\ bb[k] \in Contents
    <2> SUFFICES ASSUME NEW k \in 1 .. N PROVE bb[k] \in Contents
      BY <1>6
    <2>1. first + k - 1 \in Nat /\ first + k - 1 \in first .. last
      BY <1>3, <1>6
    <2>2. ByteToSector(h, (first + k - 1) * SectorSize) \in Sectors
      BY <1>3, <1>6
    <2>3. disk.data[ByteToSector(h, (first + k - 1) * SectorSize)] \in [0 .. SectorSize - 1 -> Bytes]
      BY <2>2, DiskFields
    <2>4. \A b \in 0 .. SectorSize - 1 : Buffer(h, position, count, first + k - 1)[b] \in Bytes
      BY <2>3 DEF Buffer, Bytes
    <2> QED BY <1>6, <2>4 DEF NewBytes, Contents, Bytes
  <1>8. InTurn(f, N, disk, ss, bb) /\ todo' = [k \in 1 .. N |-> f[k]]
    BY <1>5 DEF WritesOf
  <1>9. /\ \A k \in 0 .. N :
             /\ f[k] \in Disks /\ f[k].map = disk.map
             /\ f[k].inUse = disk.inUse /\ f[k].sector = disk.sector /\ f[k].name = disk.name
             /\ \A s \in Sectors : (\A j \in 1 .. k : ss[j] # s) =>
                  f[k].hdr[s] = disk.hdr[s] /\ f[k].data[s] = disk.data[s]
        /\ \A k \in 1 .. N : f[k].data = [f[k - 1].data EXCEPT ![ss[k]] = bb[k]]
    <2>1. N \in Nat
      BY <1>4
    <2>2. OnlyThose(f, N, disk, ss, bb)
      BY <1>7, <1>8, <2>1, WritesInTurn
    <2> QED BY <2>2, Zenon DEF OnlyThose
  <1>10. f[0] = disk
    BY <1>4, <1>8 DEF InTurn
  <1>11. ASSUME NEW k \in 0 .. N, NEW s \in Sectors \ SectorsOf(h)
         PROVE  f[k].hdr[s] = disk.hdr[s] /\ f[k].data[s] = disk.data[s]
    <2>1. \A j \in 1 .. k : ss[j] # s
      BY <1>4, <1>6
    <2> QED BY <1>9, <2>1
  <1>12. ASSUME NEW k \in 1 .. N, NEW at \in 0 .. h.numBytes - 1
         PROVE  ByteAt(f[k], h, at) =
                  IF at \in position .. position + count - 1 /\ at \div SectorSize = first + k - 1
                  THEN n ELSE ByteAt(f[k - 1], h, at)
    <2> DEFINE t == at \div SectorSize  b == at % SectorSize  i == first + k - 1
    <2>1. at \in Nat /\ at < h.numBytes /\ h.numBytes \in Nat
      BY DEF FileHeader
    <2>2. t \in Nat /\ b \in 0 .. SectorSize - 1 /\ at = t * SectorSize + b
      BY <2>1, Places
    <2>3. t + 1 \in DOMAIN h.dataSectors /\ ByteToSector(h, at) = h.dataSectors[t + 1]
      BY <2>1, FilePlaces DEF ByteToSector
    <2>4. k - 1 \in 0 .. N /\ f[k - 1].data \in [Sectors -> [0 .. SectorSize - 1 -> Bytes]]
      <3>1. k - 1 \in 0 .. N
        BY <1>4
      <3> QED BY <1>9, <3>1, DiskFields
    <2>5. h.dataSectors[t + 1] \in Sectors
      BY <2>3, HeadersTyped
    <2> SUFFICES ByteAt(f[k], h, at) = IF at \in position .. position + count - 1 /\ t = i
                                       THEN n ELSE ByteAt(f[k - 1], h, at)
      OBVIOUS
    <2> HIDE DEF t, b
    <2>6. CASE t # i
      <3>1. first + k # t + 1
        BY <1>3, <2>2, <2>6
      <3>2. h.dataSectors[t + 1] # ss[k]
        BY <1>6, <2>3, <3>1 DEF FileHeader
      <3>3. f[k].data[h.dataSectors[t + 1]] = f[k - 1].data[h.dataSectors[t + 1]]
        BY <1>9, <2>4, <2>5, <3>2
      <3> QED BY <2>3, <2>6, <3>3 DEF ByteAt
    <2>7. CASE t = i
      <3>1. h.dataSectors[t + 1] = ss[k]
        <4>1. t + 1 = first + k
          BY <1>3, <2>7
        <4> QED BY <1>6, <4>1
      <3>2. ByteAt(f[k], h, at) = bb[k][b]
        <4>1. f[k].data[ss[k]] = bb[k]
          BY <1>6, <1>9, <2>4
        <4> QED BY <2>3, <3>1, <4>1 DEF ByteAt, b
      <3>3. ByteAt(f[k - 1], h, at) = disk.data[ss[k]][b]
        <4>1. \A j \in 1 .. k - 1 : ss[j] # ss[k]
          <5> SUFFICES ASSUME NEW j \in 1 .. k - 1 PROVE ss[j] # ss[k]
            OBVIOUS
          <5>1. j \in 1 .. N /\ first + j # first + k
            BY <1>3, <1>4
          <5> QED BY <1>6, <5>1 DEF FileHeader
        <4>2. f[k - 1].data[ss[k]] = disk.data[ss[k]]
          BY <1>6, <1>9, <2>4, <4>1
        <4> QED BY <2>3, <3>1, <4>2 DEF ByteAt, b
      <3>4. bb[k][b] = IF at \in position .. position + count - 1
                       THEN n ELSE Buffer(h, position, count, i)[b]
        BY <1>6, <2>2, <2>7 DEF NewBytes
      <3>5. CASE at \in position .. position + count - 1
        BY <2>7, <3>2, <3>4, <3>5
      <3>6. CASE at \notin position .. position + count - 1
        <4>1. IsRead(position, count, i)
          BY <1>2, <1>6, <2>1, <2>7, <3>6, ReadBeforeWritten DEF t, first, last
        <4>2. b < Clipped(h, i * SectorSize, SectorSize)
          <5> DEFINE m == i * SectorSize
          <5>1. at = m + b /\ m \in Nat
            <6>1. m \in Nat
              BY <1>3, <2>2, <2>7, FSAssumption, SMTT(30) DEF FSAssumption
            <6> QED BY <2>2, <2>7, <6>1
          <5> HIDE DEF m, i
          <5>2. b < Clipped(h, m, SectorSize)
            BY <2>1, <2>2, <5>1, FSAssumption DEF Clipped, FSAssumption
          <5> QED BY <5>2 DEF m
        <4>3. Buffer(h, position, count, i)[b] = disk.data[ByteToSector(h, i * SectorSize)][b]
          BY <2>2, <4>1, <4>2 DEF Buffer
        <4>4. ByteToSector(h, i * SectorSize) = ss[k]
          BY <1>5 DEF WritesOf, first
        <4> QED BY <3>2, <3>3, <3>4, <3>6, <4>3, <4>4
      <3> QED BY <3>5, <3>6
    <2> QED BY <2>6, <2>7
  <1>13. \A k \in 0 .. N :
           /\ f[k] \in Disks /\ f[k].map = disk.map
           /\ f[k].inUse = disk.inUse /\ f[k].sector = disk.sector /\ f[k].name = disk.name
    BY <1>9
  <1>14. DisksOfWrite(h, n, position, count, N, f)
    BY <1>4, <1>8, <1>10, <1>11, <1>12, <1>13, Zenon DEF DisksOfWrite, N, first, last
  <1> QED BY <1>14, Zenon DEF count

-----------------------------------------------------------------------------
(* The files are what the map says, whatever is in progress. *)

FilesOK == FilesTyped /\ FilesInv /\ DisksKeep

\* The disk that an operation is going to leave is tidy if it is sound.
LEMMA GoalRight ==
    ASSUME FilesTyped, FilesInv
    PROVE  Goal \in Disks /\ (Sound(Goal) => Tidy(Goal))
  <1>1. CASE todo = << >>
    BY <1>1 DEF FilesTyped, FilesInv, Fit, Goal
  <1>2. CASE todo # << >>
    <2>1. Len(todo) \in DOMAIN todo /\ todo[Len(todo)] \in Disks
      BY <1>2 DEF FilesTyped
    <2> QED BY <1>2, <2>1 DEF FilesInv, Fit, Goal
  <1> QED BY <1>1, <1>2

\* An open file's header is that of the file with its name, as the operation under way
\* will leave it; its sectors are nobody else's.
LEMMA OpenFile ==
    ASSUME FilesTyped, FilesInv, NEW m \in Names, opened[m] # NoHeader
    PROVE  /\ Goal \in Disks /\ Sound(Goal) /\ Tidy(Goal)
           /\ opened[m] \in AnyHeader /\ FileHeader(opened[m])
           /\ SectorsOf(opened[m]) \subseteq Goal.map
           /\ \E x \in EntriesOf(Goal, m) : Goal.hdr[Goal.sector[x]] = opened[m]
           /\ \A x \in InUse(Goal) : Goal.sector[x] \notin SectorsOf(opened[m])
  <1>1. Goal \in Disks /\ Sound(Goal) /\ Tidy(Goal) /\ IsFile(Goal, m, opened[m])
    BY GoalRight DEF FilesInv
  <1>2. PICK x \in EntriesOf(Goal, m) : Goal.hdr[Goal.sector[x]] = opened[m]
    BY <1>1 DEF IsFile
  <1>3. x \in InUse(Goal)
    BY DEF EntriesOf, InUse
  <1>4. FileHeader(opened[m]) /\ Goal.sector[x] \notin SectorsOf(opened[m])
    BY <1>1, <1>2, <1>3 DEF Tidy, TidyEntry
  <1>5. SectorsOf(opened[m]) \subseteq Goal.map
    BY <1>1, <1>2, <1>3, TidySectors
  <1>6. ASSUME NEW y \in InUse(Goal) PROVE Goal.sector[y] \notin SectorsOf(opened[m])
    <2>1. CASE y = x
      BY <1>4, <2>1
    <2>2. CASE y # x
      <3>1. AllSectors(Goal, y) \cap AllSectors(Goal, x) = {}
        BY <1>1, <1>3, <2>2 DEF Tidy, Apart
      <3> QED BY <1>2, <3>1 DEF AllSectors
    <2> QED BY <2>1, <2>2
  <1> QED BY <1>1, <1>2, <1>4, <1>5, <1>6 DEF FilesTyped

\* Two open files share no sector.
LEMMA OpenApart ==
    ASSUME FilesTyped, FilesInv, NEW m \in Names, opened[m] # NoHeader,
           NEW n \in Names, opened[n] # NoHeader, m # n
    PROVE  SectorsOf(opened[m]) \cap SectorsOf(opened[n]) = {}
  <1>1. PICK x \in EntriesOf(Goal, m) : Goal.hdr[Goal.sector[x]] = opened[m]
    BY OpenFile
  <1>2. PICK y \in EntriesOf(Goal, n) : Goal.hdr[Goal.sector[y]] = opened[n]
    BY OpenFile
  <1>3. x \in InUse(Goal) /\ y \in InUse(Goal) /\ x # y
    BY DEF EntriesOf, InUse
  <1>4. AllSectors(Goal, x) \cap AllSectors(Goal, y) = {}
    BY <1>3, OpenFile DEF Tidy, Apart
  <1> QED BY <1>1, <1>2, <1>4 DEF AllSectors

\* Two disks keep what is open when they hold the same in its sectors.
LEMMA SameContents ==
    ASSUME FilesTyped, FilesInv, NEW d, NEW e,
           \A m \in Names : opened[m] # NoHeader =>
             \A s \in SectorsOf(opened[m]) : s \in Sectors => e.data[s] = d.data[s]
    PROVE  KeepsOpen(d, e)
  <1> SUFFICES ASSUME NEW m \in Names, opened[m] # NoHeader,
                      NEW at \in 0 .. opened[m].numBytes - 1
               PROVE  ByteAt(e, opened[m], at) = ByteAt(d, opened[m], at)
    BY DEF KeepsOpen, Kept
  <1>1. opened[m] \in AnyHeader /\ FileHeader(opened[m])
    BY OpenFile
  <1>2. at \in Nat /\ at < opened[m].numBytes
    BY <1>1 DEF FileHeader
  <1>3. ByteToSector(opened[m], at) \in SectorsOf(opened[m]) /\ ByteToSector(opened[m], at) \in Sectors
    BY <1>1, <1>2, FilePlaces
  <1> QED BY <1>3 DEF ByteAt

\* An operation begins: what it has to show of the disks that it is going to make.
LEMMA Begins ==
    ASSUME FilesOK, Free, NEW n \in Names, Begin(n, todo'),
           todo' \in Seq(Disks), todo' # << >>,
           \A k \in DOMAIN todo' : Fit(todo'[k]),
           Sound(todo'[Len(todo')]),
           \A m \in Names : opened[m] # NoHeader => IsFile(todo'[Len(todo')], m, opened[m]),
           KeepsOpen(disk, todo'[1]),
           \A k \in 1 .. Len(todo') - 1 : KeepsOpen(todo'[k], todo'[k + 1])
    PROVE  FilesOK'
  <1>1. disk' = disk /\ opened' = opened /\ operand' = n
    BY DEF Begin
  <1>2. FilesTyped'
    BY <1>1 DEF FilesOK, FilesTyped
  <1>3. Goal' = todo'[Len(todo')]
    BY DEF Goal
  <1>4. n # NoName
    BY FSAssumption DEF FSAssumption
  <1>5. FilesInv'
    BY <1>1, <1>3, <1>4 DEF FilesOK, FilesInv
  <1>6. \A d, e : KeepsOpen(d, e) => KeepsOpen(d, e)'
    BY <1>1 DEF KeepsOpen, Kept
  <1>7. DisksKeep'
    BY <1>1, <1>6 DEF DisksKeep
  <1> QED BY <1>2, <1>5, <1>7 DEF FilesOK

\* Between operations the disk is sound.
LEMMA FreeDisk ==
    ASSUME FilesOK, Free
    PROVE  Goal = disk /\ disk \in Disks /\ Sound(disk) /\ Tidy(disk)
  BY DEF FilesOK, FilesTyped, FilesInv, Fit, Free, Goal

\* Create begins when the disk is sound, and finds free sectors and a free entry.
LEMMA CreateIs ==
    ASSUME FilesOK, NEW n \in Names, NEW size \in Nat, Create(n, size)
    PROVE  /\ Free
           /\ \E sector, blocks, d1, d2, d3, d4 :
                /\ Creating(disk, n, size, sector, blocks, d1, d2, d3, d4)
                /\ todo' = <<d1, d2, d3, d4>> /\ Begin(n, todo')
  <1> DEFINE sector == Found(disk.map, 1)[1]
             taken == disk.map \cup {sector}
             blocks == Found(taken, SectorCount(size))
             dir == Added(disk, n, sector)
             d1 == WithHeader(disk, sector, Header(size, blocks))
             d2 == FirstHalf(d1, dir)
             d3 == WithDirectory(d1, dir)
             d4 == WithMap(d3, taken \cup {blocks[i] : i \in DOMAIN blocks})
  <1>1. /\ Free /\ FindIndex(disk, n) = -1
        /\ NumClear(disk.map) > 0 /\ UnusedEntries(disk) # {}
        /\ NumClear(taken) >= SectorCount(size)
        /\ Begin(n, <<d1, d2, d3, d4>>)
    BY Zenon DEF Create
  <1>2. Goal = disk /\ disk \in Disks /\ Sound(disk) /\ Tidy(disk)
    BY <1>1, FreeDisk
  <1>3. \A map \in SUBSET Sectors : NumClear(map) \in Nat
    <2> SUFFICES ASSUME NEW map \in SUBSET Sectors PROVE NumClear(map) \in Nat
      OBVIOUS
    <2> DEFINE clear == Sectors \ map
    <2>1. IsFiniteSet(Sectors) /\ clear \in SUBSET Sectors
      BY FSAssumption, FS_Interval DEF FSAssumption, Sectors
    <2> HIDE DEF clear
    <2>2. Cardinality(clear) \in Nat
      BY <2>1, FS_Subset, FS_CardinalityType
    <2> QED BY <2>2 DEF NumClear, clear
  <1>4. SectorCount(size) \in Nat
    <2>1. size + SectorSize - 1 \in Nat
      BY FSAssumption DEF FSAssumption
    <2> QED BY <2>1, Places DEF SectorCount
  <1>5. sector \in Sectors \ disk.map
    <2>1. disk.map \in SUBSET Sectors /\ 1 <= NumClear(disk.map) /\ 1 \in 1 .. 1
      BY <1>1, <1>2, <1>3, DiskFields
    <2> QED BY <2>1, FoundRight
  <1> HIDE DEF sector
  <1>6. /\ blocks \in Seq(Sectors) /\ Len(blocks) = SectorCount(size)
        /\ \A i \in DOMAIN blocks : blocks[i] \notin taken
        /\ \A i, j \in DOMAIN blocks : i # j => blocks[i] # blocks[j]
    <2>1. taken \in SUBSET Sectors
      BY <1>2, <1>5, DiskFields
    <2>2. SectorCount(size) <= NumClear(taken)
      BY <1>1, <1>3, <1>4, <2>1
    <2> HIDE DEF taken
    <2> QED BY <1>4, <2>1, <2>2, FoundRight
  <1>7. EntriesOf(disk, n) = {}
    BY <1>1, <1>2, EntryFound
  <1> HIDE DEF blocks, dir, d1, d2, d3, d4
  <1>8. Creating(disk, n, size, sector, blocks, d1, d2, d3, d4)
    BY <1>1, <1>2, <1>5, <1>6, <1>7, Zenon DEF Creating, dir, d1, d2, d3, d4
  <1>9. todo' = <<d1, d2, d3, d4>> /\ Begin(n, todo')
    BY <1>1 DEF Begin
  <1> QED BY <1>1, <1>8, <1>9, Zenon

\* Each operation, and each step of the rest, keeps the invariant.
LEMMA CreateStep ==
    ASSUME FilesOK, NEW n \in Names, NEW size \in Nat, Create(n, size)
    PROVE  FilesOK'
  <1>1. Free
    BY CreateIs
  <1>2. Goal = disk /\ disk \in Disks
    BY <1>1, FreeDisk
  <1>3. PICK sector, blocks, d1, d2, d3, d4 :
             /\ Creating(disk, n, size, sector, blocks, d1, d2, d3, d4)
             /\ todo' = <<d1, d2, d3, d4>> /\ Begin(n, todo')
    BY CreateIs, Zenon
  <1>4. sector \in Sectors \ disk.map
    BY <1>3, Zenon DEF Creating
  <1>5. /\ d1 \in Disks /\ d2 \in Disks /\ d3 \in Disks /\ d4 \in Disks
        /\ Fit(d1) /\ Fit(d2) /\ Fit(d3) /\ Fit(d4)
        /\ Sound(d4)
        /\ \A m \in Names : \A h : IsFile(disk, m, h) => IsFile(d4, m, h)
        /\ \A k \in {d1, d2, d3, d4} : k.data = [disk.data EXCEPT ![sector] = Blank]
    <2>1. Created(disk, sector, d1, d2, d3, d4)
      BY <1>3, CreateWrites
    <2> QED BY <2>1, Zenon DEF Created
  <1>6. todo' = <<d1, d2, d3, d4>> /\ Begin(n, todo')
    BY <1>3
  <1>7. todo' \in Seq(Disks) /\ todo' # << >> /\ Len(todo') = 4 /\ DOMAIN todo' = 1 .. 4
    BY <1>5, <1>6
  <1>8. \A k \in DOMAIN todo' : Fit(todo'[k]) /\ todo'[k] \in {d1, d2, d3, d4}
    BY <1>5, <1>6
  <1>9. \A m \in Names : opened[m] # NoHeader => IsFile(todo'[Len(todo')], m, opened[m])
    BY <1>2, <1>5, <1>6 DEF FilesOK, FilesInv
  <1>10. ASSUME NEW m \in Names, opened[m] # NoHeader PROVE sector \notin SectorsOf(opened[m])
    <2>1. SectorsOf(opened[m]) \subseteq disk.map
      BY <1>2, <1>10, OpenFile DEF FilesOK
    <2> QED BY <1>4, <2>1
  <1>11. KeepsOpen(disk, todo'[1])
    <2>1. todo'[1].data = [disk.data EXCEPT ![sector] = Blank]
      BY <1>5, <1>6
    <2>2. \A s \in Sectors : s # sector => todo'[1].data[s] = disk.data[s]
      BY <1>2, <2>1, DiskFields
    <2>3. \A m \in Names : opened[m] # NoHeader =>
            \A s \in SectorsOf(opened[m]) : s \in Sectors => todo'[1].data[s] = disk.data[s]
      BY <1>10, <2>2
    <2> QED BY <2>3, SameContents DEF FilesOK
  <1>12. ASSUME NEW k \in 1 .. Len(todo') - 1 PROVE KeepsOpen(todo'[k], todo'[k + 1])
    <2>1. k \in DOMAIN todo' /\ k + 1 \in DOMAIN todo'
      BY <1>7
    <2>2. todo'[k + 1].data = todo'[k].data
      BY <1>5, <1>8, <2>1
    <2> QED BY <2>2, SameContents DEF FilesOK
  <1>13. Sound(todo'[Len(todo')])
    BY <1>5, <1>6
  <1> QED BY <1>1, <1>6, <1>7, <1>8, <1>9, <1>11, <1>12, <1>13, Begins

LEMMA RemoveStep ==
    ASSUME FilesOK, NEW n \in Names, Remove(n)
    PROVE  FilesOK'
  <1> DEFINE dir == Removed(disk, n)
             d1 == WithMap(disk, disk.map \ Freed(disk, n))
             d2 == FirstHalf(d1, dir)
             d3 == WithDirectory(d1, dir)
  <1>1. /\ Free /\ FindIndex(disk, n) # -1 /\ opened[n] = NoHeader
        /\ Begin(n, <<d1, d2, d3>>)
    BY Zenon DEF Remove
  <1>2. Goal = disk /\ disk \in Disks /\ Sound(disk) /\ Tidy(disk)
    BY <1>1, FreeDisk
  <1> HIDE DEF dir, d1, d2, d3
  <1>3. /\ d1 \in Disks /\ d2 \in Disks /\ d3 \in Disks
        /\ Fit(d1) /\ Fit(d2) /\ Fit(d3)
        /\ Sound(d3)
        /\ \A m \in Names \ {n} : \A h : IsFile(disk, m, h) => IsFile(d3, m, h)
        /\ \A k \in {d1, d2, d3} : k.data = disk.data
    BY <1>1, <1>2, RemoveWrites DEF dir, d1, d2, d3
  <1>4. todo' = <<d1, d2, d3>> /\ Begin(n, todo')
    BY <1>1 DEF Begin
  <1>5. todo' \in Seq(Disks) /\ todo' # << >> /\ Len(todo') = 3 /\ DOMAIN todo' = 1 .. 3
    BY <1>3, <1>4
  <1>6. \A k \in DOMAIN todo' : Fit(todo'[k]) /\ todo'[k].data = disk.data
    BY <1>3, <1>4
  <1>7. \A m \in Names : opened[m] # NoHeader => IsFile(todo'[Len(todo')], m, opened[m])
    BY <1>1, <1>2, <1>3, <1>4 DEF FilesOK, FilesInv
  <1>8. KeepsOpen(disk, todo'[1])
    BY <1>5, <1>6, SameContents DEF FilesOK
  <1>9. ASSUME NEW k \in 1 .. Len(todo') - 1 PROVE KeepsOpen(todo'[k], todo'[k + 1])
    <2>1. k \in DOMAIN todo' /\ k + 1 \in DOMAIN todo'
      BY <1>5
    <2> QED BY <1>6, <2>1, SameContents DEF FilesOK
  <1>10. Sound(todo'[Len(todo')])
    BY <1>3, <1>4
  <1> QED BY <1>1, <1>4, <1>5, <1>6, <1>7, <1>8, <1>9, <1>10, Begins

LEMMA WriteAtStep ==
    ASSUME FilesOK, NEW n \in Names, NEW position \in Nat, NEW numBytes \in Nat \ {0},
           WriteAt(n, position, numBytes)
    PROVE  FilesOK'
  <1> DEFINE h == opened[n]
  <1>1. Free /\ h # NoHeader /\ Begin(n, todo')
    BY DEF WriteAt, Begin
  <1>2. Goal = disk /\ disk \in Disks /\ Sound(disk) /\ Tidy(disk)
    BY <1>1, FreeDisk
  <1>3. /\ h \in AnyHeader /\ FileHeader(h)
        /\ \A x \in InUse(disk) : disk.sector[x] \notin SectorsOf(h)
    BY <1>1, <1>2, OpenFile DEF FilesOK
  <1>4. PICK N, f : DisksOfWrite(h, n, position, Clipped(h, position, numBytes), N, f)
    BY <1>2, <1>3, WriteAtWrites
  <1>5. N \in Nat \ {0}
    BY <1>4 DEF DisksOfWrite
  <1> HIDE DEF h
  <1>6. /\ todo' \in Seq(Disks) /\ todo' # << >> /\ Len(todo') = N /\ DOMAIN todo' = 1 .. N
        /\ \A k \in 1 .. N : todo'[k] = f[k]
    BY <1>4 DEF DisksOfWrite
  <1>7. ASSUME NEW k \in 1 .. N
        PROVE  /\ Fit(f[k]) /\ Sound(f[k])
               /\ \A m, g : IsFile(disk, m, g) => IsFile(f[k], m, g)
    <2>1. PICK e : e = f[k]
      OBVIOUS
    <2>2. /\ e.map = disk.map /\ e.inUse = disk.inUse /\ e.sector = disk.sector /\ e.name = disk.name
          /\ \A s \in Sectors \ SectorsOf(h) : e.hdr[s] = disk.hdr[s]
      BY <1>4, <2>1 DEF DisksOfWrite
    <2>3. \A x \in InUse(disk) : e.hdr[disk.sector[x]] = disk.hdr[disk.sector[x]]
      BY <1>2, <1>3, <2>2, TidySectors
    <2>4. /\ Allocated(e) = Allocated(disk) /\ Tidy(e)
          /\ \A m, g : IsFile(disk, m, g) => IsFile(e, m, g)
      BY <1>2, <2>2, <2>3, SameFiles
    <2>5. Sound(e)
      BY <1>2, <2>2, <2>4 DEF Sound
    <2> QED BY <2>1, <2>4, <2>5 DEF Fit
  <1>8. ASSUME NEW k \in 1 .. N PROVE KeepsOpen(f[k - 1], f[k])
    <2> SUFFICES ASSUME NEW m \in Names, opened[m] # NoHeader,
                        NEW at \in 0 .. opened[m].numBytes - 1
                 PROVE  ByteAt(f[k], opened[m], at) \in {ByteAt(f[k - 1], opened[m], at), m}
      BY DEF KeepsOpen, Kept
    <2>1. CASE m = n
      BY <1>4, <2>1 DEF DisksOfWrite, h
    <2>2. CASE m # n
      <3>1. opened[m] \in AnyHeader /\ FileHeader(opened[m])
        BY OpenFile DEF FilesOK
      <3>2. at \in Nat /\ at < opened[m].numBytes
        BY <3>1 DEF FileHeader
      <3>3. ByteToSector(opened[m], at) \in SectorsOf(opened[m]) /\ ByteToSector(opened[m], at) \in Sectors
        BY <3>1, <3>2, FilePlaces
      <3>4. SectorsOf(opened[m]) \cap SectorsOf(h) = {}
        BY <1>1, <2>2, OpenApart DEF FilesOK, h
      <3>5. ByteToSector(opened[m], at) \in Sectors \ SectorsOf(h)
        BY <3>3, <3>4
      <3>6. k \in 0 .. N /\ k - 1 \in 0 .. N
        BY <1>5
      <3>7. f[k].data[ByteToSector(opened[m], at)] = f[k - 1].data[ByteToSector(opened[m], at)]
        BY <1>4, <3>5, <3>6 DEF DisksOfWrite
      <3> QED BY <3>7 DEF ByteAt
    <2> QED BY <2>1, <2>2
  <1>9. \A m \in Names : opened[m] # NoHeader => IsFile(todo'[Len(todo')], m, opened[m])
    <2>1. N \in 1 .. N
      BY <1>5
    <2> QED BY <1>2, <1>6, <1>7, <2>1 DEF FilesOK, FilesInv
  <1>10. KeepsOpen(disk, todo'[1])
    <2>1. 1 \in 1 .. N /\ 1 - 1 = 0
      BY <1>5
    <2>2. KeepsOpen(f[0], f[1])
      BY <1>8, <2>1
    <2> QED BY <1>4, <1>6, <2>1, <2>2 DEF DisksOfWrite
  <1>11. ASSUME NEW k \in 1 .. Len(todo') - 1 PROVE KeepsOpen(todo'[k], todo'[k + 1])
    <2>1. k \in 1 .. N /\ k + 1 \in 1 .. N /\ (k + 1) - 1 = k
      BY <1>6
    <2>2. KeepsOpen(f[k], f[k + 1])
      BY <1>8, <2>1
    <2> QED BY <1>6, <2>1, <2>2
  <1>12. Sound(todo'[Len(todo')]) /\ \A k \in DOMAIN todo' : Fit(todo'[k])
    <2>1. N \in 1 .. N
      BY <1>5
    <2> QED BY <1>6, <1>7, <2>1
  <1> QED BY <1>1, <1>6, <1>9, <1>10, <1>11, <1>12, Begins

\* Steps that leave the disk, its future and the open files alone.
LEMMA FilesKept ==
    ASSUME FilesOK, disk' = disk, todo' = todo, opened' = opened,
           operand' \in {operand, NoName}, operand' = NoName => todo = << >>
    PROVE  FilesOK'
  <1>1. FilesTyped'
    BY DEF FilesOK, FilesTyped
  <1>2. Goal' = Goal
    BY DEF Goal
  <1>3. FilesInv'
    BY <1>2 DEF FilesOK, FilesInv
  <1>4. DisksKeep'
    BY DEF FilesOK, DisksKeep, KeepsOpen, Kept
  <1> QED BY <1>1, <1>3, <1>4 DEF FilesOK

LEMMA OpenStep ==
    ASSUME FilesOK, NEW n \in Names, Open(n)
    PROVE  FilesOK'
  <1>1. /\ Free /\ FindIndex(disk, n) # -1
        /\ opened' = [opened EXCEPT ![n] = HeaderOf(disk, n)]
        /\ disk' = disk /\ todo' = todo /\ operand' = operand /\ todo = << >>
    BY DEF Open, Free
  <1>2. Goal = disk /\ disk \in Disks /\ Sound(disk) /\ Tidy(disk) /\ Goal' = disk
    BY <1>1, FreeDisk DEF Goal
  <1>3. PICK x \in EntriesOf(disk, n) : HeaderOf(disk, n) = disk.hdr[disk.sector[x]]
    BY <1>1, <1>2, EntryFound DEF HeaderOf
  <1>4. x \in InUse(disk)
    BY DEF EntriesOf, InUse
  <1>5. HeaderOf(disk, n) \in AnyHeader
    BY <1>2, <1>3, <1>4, TidySectors
  <1>6. FilesTyped'
    BY <1>1, <1>5 DEF FilesOK, FilesTyped
  <1>7. ASSUME NEW m \in Names, opened'[m] # NoHeader
        PROVE  Sound(Goal') /\ IsFile(Goal', m, opened'[m])
    <2>1. CASE m = n
      BY <1>1, <1>2, <1>3, <2>1 DEF FilesOK, FilesTyped, IsFile
    <2>2. CASE m # n
      <3>1. opened'[m] = opened[m]
        BY <1>1, <2>2 DEF FilesOK, FilesTyped
      <3> QED BY <1>2, <1>7, <3>1 DEF FilesOK, FilesInv
    <2> QED BY <2>1, <2>2
  <1>8. FilesInv'
    BY <1>1, <1>2, <1>7 DEF FilesOK, FilesInv
  <1>9. DisksKeep'
    BY <1>1 DEF DisksKeep
  <1> QED BY <1>6, <1>8, <1>9 DEF FilesOK

LEMMA CloseStep ==
    ASSUME FilesOK, NEW n \in Names, Close(n)
    PROVE  FilesOK'
  <1>1. /\ opened' = [opened EXCEPT ![n] = NoHeader]
        /\ disk' = disk /\ todo' = todo /\ operand' = operand /\ todo = << >>
    BY DEF Close, Free
  <1>2. Goal' = Goal
    BY <1>1 DEF Goal
  <1>3. FilesTyped'
    BY <1>1, HeadersTyped DEF FilesOK, FilesTyped
  <1>4. \A m \in Names : opened'[m] # NoHeader => opened'[m] = opened[m]
    BY <1>1 DEF FilesOK, FilesTyped
  <1>5. FilesInv'
    BY <1>1, <1>2, <1>4 DEF FilesOK, FilesInv
  <1>6. DisksKeep'
    BY <1>1 DEF DisksKeep
  <1> QED BY <1>3, <1>5, <1>6 DEF FilesOK

\* The disk becomes the next of those that the operation makes, and its goal stays.
LEMMA WriteSectorStep ==
    ASSUME FilesOK, WriteSector
    PROVE  FilesOK'
  <1>1. /\ todo # << >> /\ disk' = Head(todo) /\ todo' = Tail(todo)
        /\ operand' = operand /\ opened' = opened
    BY DEF WriteSector
  <1>2. todo \in Seq(Disks) /\ Len(todo) \in Nat \ {0} /\ DOMAIN todo = 1 .. Len(todo)
    BY <1>1 DEF FilesOK, FilesTyped
  <1>3. /\ disk' = todo[1] /\ disk' \in Disks
        /\ todo' \in Seq(Disks) /\ Len(todo') = Len(todo) - 1 /\ DOMAIN todo' = 1 .. Len(todo) - 1
        /\ \A k \in 1 .. Len(todo) - 1 : todo'[k] = todo[k + 1]
    BY <1>1, <1>2
  <1>4. FilesTyped'
    BY <1>1, <1>3 DEF FilesOK, FilesTyped
  <1>5. Goal' = Goal
    <2>1. CASE Len(todo) = 1
      BY <1>1, <1>2, <1>3, <2>1 DEF Goal
    <2>2. CASE Len(todo) # 1
      <3>1. Len(todo) - 1 \in 1 .. Len(todo) - 1 /\ (Len(todo) - 1) + 1 = Len(todo)
        BY <1>2, <2>2
      <3>2. todo' # << >> /\ todo'[Len(todo')] = todo[Len(todo)]
        BY <1>3, <3>1
      <3> QED BY <1>1, <3>2 DEF Goal
    <2> QED BY <2>1, <2>2
  <1>6. FilesInv'
    <2>1. \A k \in DOMAIN todo : Fit(todo[k])
      BY DEF FilesOK, FilesInv
    <2>2. Fit(disk') /\ \A k \in DOMAIN todo' : Fit(todo'[k])
      <3>1. 1 \in DOMAIN todo /\ \A k \in 1 .. Len(todo) - 1 : k + 1 \in DOMAIN todo
        BY <1>2
      <3> QED BY <1>3, <2>1, <3>1
    <2>3. operand # NoName
      BY <1>1 DEF FilesOK, FilesInv
    <2> QED BY <1>1, <1>5, <2>2, <2>3 DEF FilesOK, FilesInv
  <1>7. DisksKeep'
    <2>1. \A k \in 1 .. Len(todo) - 1 : KeepsOpen(todo[k], todo[k + 1])
      BY DEF FilesOK, DisksKeep
    <2>2. \A d, e : KeepsOpen(d, e) => KeepsOpen(d, e)'
      BY <1>1 DEF KeepsOpen, Kept
    <2>3. ASSUME todo' # << >> PROVE KeepsOpen(disk', todo'[1])
      <3>1. 1 \in 1 .. Len(todo) - 1
        BY <1>2, <1>3, <2>3
      <3> QED BY <1>3, <2>1, <3>1
    <2>4. ASSUME NEW k \in 1 .. Len(todo') - 1 PROVE KeepsOpen(todo'[k], todo'[k + 1])
      <3>1. k \in 1 .. Len(todo) - 1 /\ k + 1 \in 1 .. Len(todo) - 1
        BY <1>2, <1>3
      <3> QED BY <1>3, <2>1, <3>1
    <2> QED BY <2>2, <2>3, <2>4 DEF DisksKeep
  <1> QED BY <1>4, <1>6, <1>7 DEF FilesOK

\* A halt: what is on the disk may be unsound now, but nothing is open or to be written.
LEMMA CrashStep ==
    ASSUME FilesOK, Crash
    PROVE  FilesOK'
  <1>1. /\ todo' = << >> /\ operand' = NoName /\ disk' = disk
        /\ opened' = [n \in Names |-> NoHeader]
    BY DEF Crash
  <1>2. FilesTyped'
    BY <1>1, HeadersTyped DEF FilesOK, FilesTyped
  <1>3. FilesInv'
    BY <1>1 DEF FilesOK, FilesInv
  <1>4. DisksKeep'
    BY <1>1 DEF DisksKeep
  <1> QED BY <1>2, <1>3, <1>4 DEF FilesOK

LEMMA FilesInit == Init => FilesOK
  <1> SUFFICES ASSUME Init PROVE FilesOK
    OBVIOUS
  <1>1. PICK m, u, c, n, h, b :
             /\ disk = DiskOf(m, u, c, n, h, b)
             /\ m = {} /\ u = [e \in Entries |-> FALSE] /\ c = [e \in Entries |-> 0]
             /\ n = [e \in Entries |-> NoName] /\ h = [s \in Sectors |-> NoHeader]
             /\ b = [s \in Sectors |-> Blank]
    BY Zenon DEF Init, DiskOf
  <1>2. disk \in Disks
    <2>1. m \in SUBSET Sectors /\ u \in [Entries -> BOOLEAN] /\ c \in [Entries -> Sectors \cup {0}]
      BY <1>1
    <2>2. n \in [Entries -> Names \cup {NoName}] /\ h \in [Sectors -> AnyHeader]
      BY <1>1, HeadersTyped
    <2>3. b \in [Sectors -> [0 .. SectorSize - 1 -> Bytes]]
      BY <1>1, HeadersTyped
    <2> QED BY <1>1, <2>1, <2>2, <2>3, DiskMade
  <1>3. InUse(disk) = {}
    BY <1>1, DiskMade DEF InUse
  <1>4. Tidy(disk)
    BY <1>3 DEF Tidy
  <1>5. /\ todo = << >> /\ operand = NoName /\ opened = [x \in Names |-> NoHeader]
    BY DEF Init
  <1>6. FilesTyped
    BY <1>2, <1>5, HeadersTyped DEF FilesTyped
  <1>7. FilesInv
    BY <1>4, <1>5 DEF FilesInv, Fit
  <1>8. DisksKeep
    BY <1>5 DEF DisksKeep
  <1> QED BY <1>6, <1>7, <1>8 DEF FilesOK

LEMMA FilesStep == FilesOK /\ [Next]_vars => FilesOK'
  <1> SUFFICES ASSUME FilesOK, [Next]_vars PROVE FilesOK'
    OBVIOUS
  <1>1. ASSUME UNCHANGED <<disk, todo, operand, opened>> PROVE FilesOK'
    BY <1>1, FilesKept DEF FilesOK, FilesTyped, FilesInv
  <1>2. ASSUME NEW n \in Names, Remove(n) PROVE FilesOK'
    BY <1>2, RemoveStep
  <1>3. ASSUME NEW n \in Names, Open(n) PROVE FilesOK'
    BY <1>3, OpenStep
  <1>4. ASSUME NEW n \in Names, Close(n) PROVE FilesOK'
    BY <1>4, CloseStep
  <1>5. ASSUME NEW n \in Names, NEW size \in FileSizes, Create(n, size) PROVE FilesOK'
    BY <1>5, CreateStep, FSAssumption DEF FSAssumption
  <1>6. ASSUME NEW n \in Names, NEW w \in Writes, WriteAt(n, w[1], w[2]) PROVE FilesOK'
    <2>1. w[1] \in Nat /\ w[2] \in Nat \ {0}
      BY FSAssumption DEF FSAssumption
    <2> QED BY <1>6, <2>1, WriteAtStep
  <1>7. CASE OperationReturns
    BY <1>7, FilesKept DEF OperationReturns
  <1>8. CASE WriteSector
    BY <1>8, WriteSectorStep
  <1>9. ASSUME NEW r \in Readers, FileRead(r) \/ ReadSector(r) PROVE FilesOK'
    BY <1>1, <1>9 DEF FileRead, ReadAt, ReadReturns, ReadSector
  <1>10. CASE HandleInterrupt
    BY <1>1, <1>10 DEF HandleInterrupt, memory
  <1>11. ASSUME NEW t \in Threads, SectorReturns(t) PROVE FilesOK'
    BY <1>1, <1>11 DEF SectorReturns, memory
  <1>12. CASE Crash
    BY <1>12, CrashStep
  <1>13. CASE UNCHANGED vars
    BY <1>1, <1>13 DEF vars, memory
  <1> QED BY <1>2, <1>3, <1>4, <1>5, <1>6, <1>7, <1>8, <1>9, <1>10, <1>11, <1>12, <1>13
      DEF Next, WriterStep

\* Whenever an operation returns, the map marks exactly the sectors of the files in the
\* directory, and no sector is two files', with any number of sectors, entries and files:
\* what Create, Remove and WriteAt did together, sector by sector, or a halt undid.
THEOREM MapIsRight == Spec => MapMatchesFiles
  <1>1. Init => DeviceOK
    BY FSAssumption DEF FSAssumption, Init, DeviceOK, Threads
  <1>2. FilesOK /\ DeviceOK /\ OperationReturns => Consistent
    <2> SUFFICES ASSUME FilesOK, DeviceOK, OperationReturns PROVE Consistent
      OBVIOUS
    <2>1. Goal = disk /\ Sound(disk) /\ disk \in Disks /\ Tidy(disk)
      BY GoalRight DEF FilesOK, FilesInv, OperationReturns, Goal
    <2>2. TypeOK
      <3>1. /\ disk.map \subseteq Sectors
            /\ disk.sector \in [Entries -> Sectors \cup {0}]
            /\ disk.inUse \in [Entries -> BOOLEAN] /\ disk.name \in [Entries -> Names \cup {NoName}]
            /\ disk.data \in [Sectors -> [0 .. SectorSize - 1 -> Bytes]]
        BY <2>1, DiskFields
      <3> QED BY <3>1, Zenon DEF TypeOK, FilesOK, FilesTyped, DeviceOK
    <2>3. ASSUME NEW e \in InUse(disk), NEW x \in InUse(disk), e # x
          PROVE  AllSectors(disk, e) \cap AllSectors(disk, x) = {} /\ disk.name[e] # disk.name[x]
      BY <2>1, <2>3 DEF Tidy, Apart
    <2> QED BY <2>1, <2>2, <2>3, Zenon DEF Consistent, InUse
  <1> QED BY <1>1, <1>2, FilesInit, FilesStep, DeviceStep, PTL DEF Spec, MapMatchesFiles

-----------------------------------------------------------------------------
(* Readers. *)

\* What is true of a read stays true while its file and the disk are what they are.
LEMMA ReadKept ==
    ASSUME NEW q, ReadOK(q), disk' = disk, opened'[q.name] = opened[q.name]
    PROVE  ReadOK(q)'
  <1>1. \A k : HasRead(q, k) => HasRead(q, k)'
    BY DEF HasRead
  <1> QED BY <1>1 DEF ReadOK

\* All reads are right when each is.
LEMMA ReadsAre ==
    ASSUME \A r \in Readers : \E q : reading'[r] = q /\ (q # NoRead => ReadOK(q)')
    PROVE  ReadsOK'
  <1> SUFFICES ASSUME NEW r \in Readers, reading'[r] # NoRead PROVE ReadOK(reading[r])'
    BY DEF ReadsOK
  <1>1. PICK q : reading'[r] = q /\ (q # NoRead => ReadOK(q)')
    OBVIOUS
  <1>2. q # NoRead /\ ReadOK(q)'
    BY <1>1
  <1> QED BY <1>1, <1>2 DEF ReadOK, HasRead

\* The next disk gives a byte that is read the value it had or the writer's.
LEMMA ReadsSeeWrites ==
    ASSUME FilesOK, ReadsOK, WriteSector
    PROVE  ReadsOK'
  <1>1. /\ todo # << >> /\ disk' = Head(todo) /\ opened' = opened /\ reading' = reading
    BY DEF WriteSector
  <1>2. disk' = todo[1] /\ KeepsOpen(disk, todo[1])
    BY <1>1 DEF FilesOK, FilesTyped, DisksKeep
  <1> SUFFICES ASSUME NEW r \in Readers PROVE \E q : reading'[r] = q /\ (q # NoRead => ReadOK(q)')
    BY ReadsAre
  <1>3. PICK q : q = reading[r]
    OBVIOUS
  <1> SUFFICES ASSUME q # NoRead PROVE ReadOK(q)'
    BY <1>1, <1>3
  <1>4. ReadOK(q)
    BY <1>3 DEF ReadsOK
  <1>5. /\ q.name \in Names /\ opened[q.name] = q.hdr /\ q.hdr # NoHeader
        /\ q.position \in Nat /\ q.numBytes \in Nat \ {0} /\ q.position + q.numBytes <= q.hdr.numBytes
    BY <1>4 DEF ReadOK, Clips
  <1>6. q.hdr.numBytes \in Nat
    BY <1>5, OpenFile DEF FilesOK, FileHeader
  <1>7. ASSUME NEW i \in 1 .. q.numBytes
        PROVE  ByteAt(disk', q.hdr, q.position + i - 1) \in {ByteAt(disk, q.hdr, q.position + i - 1), q.name}
    <2>1. q.position + i - 1 \in 0 .. q.hdr.numBytes - 1
      BY <1>5, <1>6
    <2> QED BY <1>2, <1>5, <2>1 DEF KeepsOpen, Kept
  <1>8. \A i \in 1 .. q.numBytes : ByteAt(disk, q.hdr, q.position + i - 1) \in {q.was[i], q.name}
    BY <1>4 DEF ReadOK
  <1>9. \A i \in 1 .. q.numBytes : ByteAt(disk', q.hdr, q.position + i - 1) \in {q.was[i], q.name}
    BY <1>7, <1>8
  <1>10. \A i \in 1 .. q.numBytes : \A b :
           b \in {q.was[i], ByteAt(disk, q.hdr, q.position + i - 1)} =>
           b \in {q.was[i], ByteAt(disk', q.hdr, q.position + i - 1)}
    BY <1>7, <1>8
  <1>11. ASSUME NEW k, HasRead(q, k) PROVE HasRead(q, k)'
    BY <1>10, <1>11 DEF HasRead
  <1> QED BY <1>1, <1>4, <1>5, <1>9, <1>11 DEF ReadOK

\* What the readers are about.
ReadRequests == [name : Names \cup {NoName}, hdr : AnyHeader, position : Nat, numBytes : Nat,
                 sectors : Seq(Sectors), buf : Seq(Bytes), was : Seq(Bytes)]
ReadsInv == reading \in [Readers -> ReadRequests] /\ ReadsOK

\* A read begins with nothing read.
LEMMA ReadAtStep ==
    ASSUME FilesOK, ReadsInv, NEW r \in Readers, NEW n \in Names,
           NEW position \in Nat, NEW numBytes \in Nat \ {0}, ReadAt(r, n, position, numBytes)
    PROVE  ReadsInv'
  <1> DEFINE h == opened[n]
             count == Clipped(h, position, numBytes)
             first == FirstSector(position)
             last == LastSector(position, count)
             sectors == [k \in 1 .. last - first + 1 |-> ByteToSector(h, (first + k - 1) * SectorSize)]
             was == Slice(disk, h, position, count)
  <1>1. /\ h # NoHeader /\ position < h.numBytes /\ disk' = disk /\ opened' = opened
        /\ reading' = [reading EXCEPT ![r] =
             [name |-> n, hdr |-> h, position |-> position, numBytes |-> count,
              sectors |-> sectors, buf |-> << >>, was |-> was]]
    BY DEF ReadAt
  <1>2. h \in AnyHeader /\ FileHeader(h)
    BY <1>1, OpenFile DEF FilesOK
  <1> HIDE DEF h
  <1>3. count \in Nat \ {0} /\ position + count <= h.numBytes
    BY <1>1, <1>2, ClippedRight
  <1> HIDE DEF count
  <1>4. /\ first \in Nat /\ last \in Nat /\ first <= last
        /\ \A i \in first .. last : /\ i \in Nat /\ i + 1 \in DOMAIN h.dataSectors
                                    /\ ByteToSector(h, i * SectorSize) = h.dataSectors[i + 1]
    BY <1>2, <1>3, SectorSpan
  <1>5. \A i \in 1 .. count : was[i] = ByteAt(disk, h, position + i - 1)
    BY DEF Slice, ByteAt
  <1>6. was \in Seq(Bytes)
    <2>1. ASSUME NEW i \in 1 .. count PROVE ByteAt(disk, h, position + i - 1) \in Bytes
      <3>1. position + i - 1 \in Nat /\ position + i - 1 < h.numBytes
        BY <1>2, <1>3 DEF FileHeader
      <3>2. /\ ByteToSector(h, position + i - 1) \in Sectors
            /\ (position + i - 1) % SectorSize \in 0 .. SectorSize - 1
        BY <1>2, <3>1, FilePlaces, Places
      <3>3. disk.data \in [Sectors -> [0 .. SectorSize - 1 -> Bytes]]
        BY DiskFields DEF FilesOK, FilesTyped
      <3> QED BY <3>2, <3>3 DEF ByteAt
    <2>2. was = [i \in 1 .. count |-> ByteAt(disk, h, position + i - 1)]
      BY DEF Slice, ByteAt
    <2> HIDE DEF was
    <2> QED BY <1>3, <2>1, <2>2
  <1> HIDE DEF was, first, last
  <1>7. ASSUME NEW k \in 1 .. last - first + 1
        PROVE  sectors[k] = h.dataSectors[first + k] /\ sectors[k] \in Sectors
    <2>1. first + k - 1 \in first .. last /\ (first + k - 1) + 1 = first + k
      BY <1>4
    <2>2. sectors[k] = h.dataSectors[first + k] /\ first + k \in DOMAIN h.dataSectors
      BY <1>4, <2>1
    <2> QED BY <1>2, <2>2, HeadersTyped
  <1>8. sectors \in Seq(Sectors)
    <2>1. last - first + 1 \in Nat /\ sectors = [k \in 1 .. last - first + 1 |-> sectors[k]]
      BY <1>4
    <2> HIDE DEF sectors
    <2> QED BY <1>7, <2>1
  <1>9. sectors = [k \in 1 .. last - first + 1 |-> h.dataSectors[first + k]]
    BY <1>7
  <1> HIDE DEF sectors
  <1>10. PICK q : q = [name |-> n, hdr |-> h, position |-> position, numBytes |-> count,
                       sectors |-> sectors, buf |-> << >>, was |-> was]
    OBVIOUS
  <1>11. /\ q.name = n /\ q.hdr = h /\ q.position = position /\ q.numBytes = count
         /\ q.sectors = sectors /\ q.buf = << >> /\ q.was = was
    BY <1>10
  <1>12. q \in ReadRequests
    <2>1. << >> \in Seq(Bytes) /\ count \in Nat
      BY <1>3
    <2> QED BY <1>2, <1>6, <1>8, <1>10, <2>1 DEF ReadRequests
  <1>13. reading' = [reading EXCEPT ![r] = q]
    BY <1>1, <1>10
  <1>14. HasRead(q, 0)
    <2>1. q.sectors = [j \in 1 .. SectorsOfRead(q) - 0 |->
                         q.hdr.dataSectors[FirstSector(q.position) + 0 + j]]
      <3>1. SectorsOfRead(q) = last - first + 1 /\ FirstSector(q.position) = first
        BY <1>11 DEF SectorsOfRead, first, last
      <3>2. \A j \in 1 .. last - first + 1 : first + 0 + j = first + j
        BY <1>4
      <3>3. (last - first + 1) - 0 = last - first + 1
        BY <1>4
      <3> QED BY <1>9, <1>11, <3>1, <3>2, <3>3
    <2>2. q.buf \in Seq(Bytes) /\ Len(q.buf) = 0 * SectorSize
      BY <1>11, FSAssumption DEF FSAssumption
    <2>3. ASSUME NEW i \in 1 .. q.numBytes,
                 (q.position + i - 1) \div SectorSize < FirstSector(q.position) + 0
          PROVE  FALSE
      <3>1. position + i - 1 \in Nat /\ position <= position + i - 1
        BY <1>3, <1>11
      <3>2. position \div SectorSize <= (position + i - 1) \div SectorSize
        BY <3>1, Places
      <3>3. position \div SectorSize \in Nat /\ (position + i - 1) \div SectorSize \in Nat
        BY <3>1, Places
      <3> QED BY <1>11, <2>3, <3>2, <3>3 DEF FirstSector
    <2> QED BY <2>1, <2>2, <2>3 DEF HasRead
  <1>15. ReadOK(q)
    <2>1. 0 \in 0 .. SectorsOfRead(q)
      BY <1>4, <1>11 DEF SectorsOfRead, first, last
    <2>2. Clips(q)
      BY <1>3, <1>11 DEF Clips
    <2>3. \A i \in 1 .. q.numBytes : ByteAt(disk, q.hdr, q.position + i - 1) \in {q.was[i], q.name}
      BY <1>5, <1>11
    <2> QED BY <1>1, <1>11, <1>14, <2>1, <2>2, <2>3 DEF ReadOK, h
  <1>16. ReadOK(q)'
    BY <1>1, <1>15, ReadKept
  <1>17. ASSUME NEW x \in Readers PROVE \E p : reading'[x] = p /\ (p # NoRead => ReadOK(p)')
    <2>1. CASE x = r
      BY <1>13, <1>16, <2>1 DEF ReadsInv
    <2>2. CASE x # r
      <3>1. PICK p : p = reading[x]
        OBVIOUS
      <3>2. reading'[x] = p
        BY <1>13, <2>2, <3>1 DEF ReadsInv
      <3>3. p # NoRead => ReadOK(p)
        BY <3>1 DEF ReadsInv, ReadsOK
      <3> QED BY <1>1, <3>2, <3>3, ReadKept
    <2> QED BY <2>1, <2>2
  <1>18. ReadsOK'
    BY <1>17, ReadsAre
  <1> QED BY <1>12, <1>13, <1>18 DEF ReadsInv

\* A request of a reader appends the next of its sectors.
LEMMA ReadSectorStep ==
    ASSUME FilesOK, ReadsInv, NEW r \in Readers, ReadSector(r)
    PROVE  ReadsInv'
  <1>1. PICK q : q = reading[r]
    OBVIOUS
  <1> DEFINE s == Head(q.sectors)
             bytes == [b \in 1 .. SectorSize |-> disk.data[s][b - 1]]
             buf == q.buf \o bytes
             rest == Tail(q.sectors)
  <1>2. PICK p : p = [[q EXCEPT !.buf = buf] EXCEPT !.sectors = rest]
    OBVIOUS
  <1>3. /\ q.sectors # << >> /\ disk' = disk /\ opened' = opened
        /\ reading' = [reading EXCEPT ![r] = p]
    <2>1. reading' = [reading EXCEPT ![r].buf = @ \o [b \in 1 .. SectorSize |->
                                          disk.data[Head(reading[r].sectors)][b - 1]],
                                     ![r].sectors = Tail(reading[r].sectors)]
      BY Zenon DEF ReadSector
    <2>2. reading' = [reading EXCEPT ![r] = [[reading[r] EXCEPT !.buf =
                         reading[r].buf \o [b \in 1 .. SectorSize |->
                           disk.data[Head(reading[r].sectors)][b - 1]]]
                         EXCEPT !.sectors = Tail(reading[r].sectors)]]
      BY <2>1 DEF ReadsInv
    <2>3. reading' = [reading EXCEPT ![r] = p]
      BY <1>1, <1>2, <2>2, Zenon
    <2> QED BY <1>1, <2>3 DEF ReadSector
  <1>4. q \in ReadRequests
    BY <1>1 DEF ReadsInv
  <1>5. q # NoRead
    BY <1>3 DEF NoRead
  <1>6. ReadOK(q)
    BY <1>1, <1>5 DEF ReadsInv, ReadsOK
  <1>7. PICK k \in 0 .. SectorsOfRead(q) : HasRead(q, k)
    BY <1>6 DEF ReadOK
  <1> DEFINE h == q.hdr
             first == FirstSector(q.position)
             last == LastSector(q.position, q.numBytes)
  <1>8. /\ q.name \in Names /\ opened[q.name] = h /\ h # NoHeader
        /\ q.position \in Nat /\ q.numBytes \in Nat \ {0} /\ q.position + q.numBytes <= h.numBytes
    BY <1>6 DEF ReadOK, Clips
  <1>9. h \in AnyHeader /\ FileHeader(h)
    BY <1>8, OpenFile DEF FilesOK
  <1>10. /\ first \in Nat /\ last \in Nat /\ first <= last
         /\ \A i \in first .. last : i \in Nat /\ i + 1 \in DOMAIN h.dataSectors
    BY <1>8, <1>9, SectorSpan
  <1>11. SectorsOfRead(q) = last - first + 1
    BY DEF SectorsOfRead
  <1> HIDE DEF h, first, last
  <1>12. /\ q.sectors = [j \in 1 .. (last - first + 1) - k |-> h.dataSectors[first + k + j]]
         /\ q.buf \in Seq(Bytes) /\ Len(q.buf) = k * SectorSize
         /\ \A i \in 1 .. q.numBytes :
              (q.position + i - 1) \div SectorSize < first + k =>
                q.buf[(q.position % SectorSize) + i] \in {q.was[i], ByteAt(disk, h, q.position + i - 1)}
    BY <1>7, <1>11 DEF HasRead, h, first
  <1>13. k \in Nat /\ (last - first + 1) - k \in Nat
    BY <1>10, <1>11
  <1>14. Len(q.sectors) = (last - first + 1) - k /\ q.sectors \in Seq(Sectors)
    <2>1. PICK m, g : m = (last - first + 1) - k /\ g = q.sectors
      OBVIOUS
    <2>2. g \in Seq(Sectors)
      BY <1>4, <2>1 DEF ReadRequests
    <2>3. DOMAIN g = 1 .. m
      BY <1>12, <2>1, Zenon
    <2>4. m \in Nat
      BY <1>13, <2>1
    <2>5. Len(g) = m
      BY <2>2, <2>3, <2>4
    <2> QED BY <2>1, <2>2, <2>5
  <1>15. (last - first + 1) - k # 0
    BY <1>3, <1>14
  <1>16. /\ s = h.dataSectors[first + k + 1] /\ s \in Sectors
         /\ first + k \in first .. last
    <2>1. first + k \in first .. last /\ 1 \in 1 .. (last - first + 1) - k
      BY <1>10, <1>13, <1>15
    <2>2. s = q.sectors[1]
      BY <1>3, <1>14
    <2>3. q.sectors[1] = h.dataSectors[first + k + 1]
      BY <1>12, <2>1
    <2>4. q.sectors[1] \in Sectors
      BY <1>14, <2>1
    <2> QED BY <2>1, <2>2, <2>3, <2>4
  <1>17. rest = [j \in 1 .. (last - first + 1) - (k + 1) |-> h.dataSectors[first + (k + 1) + j]]
         /\ rest \in Seq(Sectors)
    <2>1. /\ rest \in Seq(Sectors) /\ Len(rest) = (last - first + 1) - k - 1
          /\ \A j \in 1 .. (last - first + 1) - k - 1 : rest[j] = q.sectors[j + 1]
      BY <1>3, <1>14
    <2>2. (last - first + 1) - k - 1 = (last - first + 1) - (k + 1)
      BY <1>10, <1>13
    <2>3. ASSUME NEW j \in 1 .. (last - first + 1) - (k + 1)
          PROVE  rest[j] = h.dataSectors[first + (k + 1) + j]
      <3>1. j + 1 \in 1 .. (last - first + 1) - k /\ first + k + (j + 1) = first + (k + 1) + j
        BY <1>10, <1>13
      <3>2. q.sectors[j + 1] = h.dataSectors[first + k + (j + 1)]
        BY <1>12, <3>1
      <3> QED BY <2>1, <2>2, <3>1, <3>2
    <2> HIDE DEF rest
    <2>4. rest = [j \in 1 .. (last - first + 1) - (k + 1) |-> rest[j]]
      BY <2>1, <2>2
    <2> QED BY <2>1, <2>3, <2>4
  <1> HIDE DEF s, rest
  <1>18. SectorSize \in Nat \ {0}
    BY FSAssumption DEF FSAssumption
  <1>19. bytes \in Seq(Bytes) /\ Len(bytes) = SectorSize
         /\ \A b \in 1 .. SectorSize : bytes[b] = disk.data[s][b - 1]
    <2>1. disk.data[s] \in [0 .. SectorSize - 1 -> Bytes]
      BY <1>16, DiskFields DEF FilesOK, FilesTyped
    <2>2. \A b \in 1 .. SectorSize : disk.data[s][b - 1] \in Bytes
      BY <1>18, <2>1
    <2> QED BY <1>18, <2>2
  <1> HIDE DEF bytes
  <1>20. k * SectorSize \in Nat
    BY <1>13, <1>18, SMTT(30)
  <1>21. /\ buf \in Seq(Bytes) /\ Len(buf) = k * SectorSize + SectorSize
         /\ \A x \in 1 .. k * SectorSize : buf[x] = q.buf[x]
         /\ \A x \in 1 .. SectorSize : buf[k * SectorSize + x] = bytes[x]
    <2>1. PICK m : m = k * SectorSize
      OBVIOUS
    <2>2. q.buf \in Seq(Bytes) /\ Len(q.buf) = m /\ m \in Nat
      BY <1>12, <1>20, <2>1
    <2>3. PICK g : g = q.buf
      OBVIOUS
    <2>4. g \in Seq(Bytes) /\ Len(g) = m /\ m \in Nat
      BY <2>2, <2>3
    <2>5. PICK f : f = bytes
      OBVIOUS
    <2>6. f \in Seq(Bytes) /\ Len(f) = SectorSize
      BY <1>19, <2>5
    <2>7. buf = g \o f
      BY <2>3, <2>5
    <2> HIDE DEF buf
    <2>8. buf \in Seq(Bytes)
      BY <2>4, <2>6, <2>7
    <2>9. Len(buf) = m + SectorSize
      BY <2>4, <2>6, <2>7, LenProperties, ConcatProperties
    <2>10. \A x \in 1 .. m : buf[x] = g[x]
      BY <1>18, <2>4, <2>6, <2>7
    <2>11. \A x \in 1 .. SectorSize : buf[m + x] = f[x]
      BY <1>18, <2>4, <2>6, <2>7
    <2> QED BY <2>1, <2>3, <2>5, <2>8, <2>9, <2>10, <2>11
  <1>22. (k + 1) * SectorSize = k * SectorSize + SectorSize
    BY <1>13, <1>18, SMTT(30)
  <1> HIDE DEF buf
  <1>23. /\ p \in ReadRequests /\ p.name = q.name /\ p.hdr = h /\ p.position = q.position
         /\ p.numBytes = q.numBytes /\ p.sectors = rest /\ p.buf = buf /\ p.was = q.was
    <2>1. PICK g : g = [q EXCEPT !.buf = buf]
      OBVIOUS
    <2>2. /\ g \in ReadRequests /\ g.name = q.name /\ g.hdr = q.hdr /\ g.position = q.position
          /\ g.numBytes = q.numBytes /\ g.sectors = q.sectors /\ g.buf = buf /\ g.was = q.was
      BY <1>4, <1>21, <2>1 DEF ReadRequests
    <2>3. p = [g EXCEPT !.sectors = rest]
      BY <1>2, <2>1
    <2>4. /\ p \in ReadRequests /\ p.name = g.name /\ p.hdr = g.hdr /\ p.position = g.position
          /\ p.numBytes = g.numBytes /\ p.sectors = rest /\ p.buf = g.buf /\ p.was = g.was
      BY <1>17, <2>2, <2>3 DEF ReadRequests
    <2> QED BY <2>2, <2>4 DEF h
  <1>24. ASSUME NEW i \in 1 .. q.numBytes,
                (q.position + i - 1) \div SectorSize < first + (k + 1)
         PROVE  buf[(q.position % SectorSize) + i] \in {q.was[i], ByteAt(disk, h, q.position + i - 1)}
    <2> DEFINE at == q.position + i - 1  t == at \div SectorSize  b == at % SectorSize
               skip == q.position % SectorSize
    <2>1. at \in Nat /\ at < h.numBytes /\ q.position <= at
      BY <1>8, <1>9 DEF FileHeader
    <2>2. /\ t \in Nat /\ b \in 0 .. SectorSize - 1 /\ at = t * SectorSize + b
          /\ skip \in 0 .. SectorSize - 1 /\ q.position = first * SectorSize + skip
      BY <1>8, <2>1, Places DEF first, FirstSector
    <2>3. first <= t
      BY <1>8, <2>1, Places DEF first, FirstSector
    <2>4. ByteAt(disk, h, at) = disk.data[h.dataSectors[t + 1]][b]
      BY DEF ByteAt, ByteToSector
    <2>5. t < first + (k + 1) /\ skip + i = at - first * SectorSize + 1
      <3>1. at = q.position + i - 1
        OBVIOUS
      <3>2. first * SectorSize \in Nat
        BY <1>10, <1>18, SMTT(30)
      <3> HIDE DEF at, skip
      <3>3. skip + i = at - first * SectorSize + 1
        <4>1. PICK m : m = first * SectorSize
          OBVIOUS
        <4>2. skip + i = at - m + 1
          BY <1>8, <2>2, <3>1, <3>2, <4>1
        <4> QED BY <4>1, <4>2
      <3> QED BY <1>24, <3>3 DEF at
    <2> HIDE DEF t, b, skip
    <2>6. CASE t < first + k
      <3>1. q.buf[skip + i] \in {q.was[i], ByteAt(disk, h, at)}
        BY <1>12, <2>6 DEF t, skip
      <3>2. skip + i \in 1 .. k * SectorSize
        <4>1. t * SectorSize + SectorSize <= (first + k) * SectorSize
          <5>1. first + k \in Nat
            BY <1>10, <1>13
          <5> QED BY <2>2, <2>6, <5>1, Places
        <4>2. (first + k) * SectorSize = first * SectorSize + k * SectorSize
          BY <1>10, <1>13, <1>18, SMTT(30)
        <4>3. first * SectorSize \in Nat /\ t * SectorSize \in Nat
          BY <1>10, <1>18, <2>2, SMTT(30)
        <4> HIDE DEF at
        <4>4. PICK m, e, l : m = first * SectorSize /\ e = k * SectorSize /\ l = t * SectorSize
          OBVIOUS
        <4>5. /\ m \in Nat /\ e \in Nat /\ l \in Nat /\ l + SectorSize <= m + e /\ at = l + b
              /\ skip + i = at - m + 1
          BY <1>20, <2>2, <2>5, <4>1, <4>2, <4>3, <4>4
        <4>6. skip + i \in Nat \ {0} /\ skip + i <= e
          BY <1>18, <2>2, <4>5
        <4> QED BY <4>4, <4>5, <4>6
      <3> QED BY <1>21, <3>1, <3>2 DEF skip
    <2>7. CASE ~(t < first + k)
      <3>1. t = first + k
        BY <1>10, <1>13, <2>2, <2>5, <2>7
      <3>2. skip + i = k * SectorSize + (b + 1)
        <4>1. t * SectorSize = first * SectorSize + k * SectorSize
          BY <1>10, <1>13, <1>18, <3>1, SMTT(30)
        <4>2. first * SectorSize \in Nat
          BY <1>10, <1>18, SMTT(30)
        <4> HIDE DEF at
        <4>3. PICK m, e, l : m = first * SectorSize /\ e = k * SectorSize /\ l = t * SectorSize
          OBVIOUS
        <4>4. /\ m \in Nat /\ e \in Nat /\ l = m + e /\ at = l + b
              /\ skip + i = at - m + 1
          BY <1>20, <2>2, <2>5, <4>1, <4>2, <4>3
        <4>5. skip + i = e + (b + 1)
          BY <2>2, <4>4
        <4> QED BY <4>3, <4>5
      <3>3. b + 1 \in 1 .. SectorSize /\ (b + 1) - 1 = b
        BY <1>18, <2>2
      <3>4. buf[k * SectorSize + (b + 1)] = disk.data[s][b]
        BY <1>19, <1>21, <3>3
      <3>5. s = h.dataSectors[t + 1]
        BY <1>16, <3>1
      <3> QED BY <2>4, <3>2, <3>4, <3>5 DEF skip
    <2> QED BY <2>6, <2>7
  <1>25. HasRead(p, k + 1)
    <2>1. SectorsOfRead(p) = last - first + 1 /\ FirstSector(p.position) = first
      BY <1>23 DEF SectorsOfRead, first, last
    <2>2. p.sectors = [j \in 1 .. SectorsOfRead(p) - (k + 1) |->
                         p.hdr.dataSectors[FirstSector(p.position) + (k + 1) + j]]
      BY <1>17, <1>23, <2>1
    <2>3. p.buf \in Seq(Bytes) /\ Len(p.buf) = (k + 1) * SectorSize
      BY <1>21, <1>22, <1>23
    <2>4. \A i \in 1 .. p.numBytes :
            (p.position + i - 1) \div SectorSize < FirstSector(p.position) + (k + 1) =>
              p.buf[(p.position % SectorSize) + i] \in {p.was[i], ByteAt(disk, p.hdr, p.position + i - 1)}
      BY <1>23, <1>24, <2>1
    <2> QED BY <2>2, <2>3, <2>4 DEF HasRead
  <1>26. ReadOK(p)
    <2>1. k + 1 \in 0 .. SectorsOfRead(p)
      BY <1>10, <1>13, <1>15, <1>23 DEF SectorsOfRead, first, last
    <2>2. Clips(p)
      BY <1>8, <1>23 DEF Clips
    <2>3. \A i \in 1 .. p.numBytes : ByteAt(disk, p.hdr, p.position + i - 1) \in {p.was[i], p.name}
      BY <1>6, <1>23 DEF ReadOK, h
    <2> QED BY <1>8, <1>23, <1>25, <2>1, <2>2, <2>3 DEF ReadOK
  <1>27. ReadOK(p)'
    BY <1>3, <1>26, ReadKept
  <1>28. ASSUME NEW x \in Readers PROVE \E g : reading'[x] = g /\ (g # NoRead => ReadOK(g)')
    <2>1. CASE x = r
      BY <1>3, <1>27, <2>1 DEF ReadsInv
    <2>2. CASE x # r
      <3>1. PICK g : g = reading[x]
        OBVIOUS
      <3>2. reading'[x] = g
        BY <1>3, <2>2, <3>1 DEF ReadsInv
      <3>3. g # NoRead => ReadOK(g)
        BY <3>1 DEF ReadsInv, ReadsOK
      <3> QED BY <1>3, <3>2, <3>3, ReadKept
    <2> QED BY <2>1, <2>2
  <1>29. ReadsOK'
    BY <1>28, ReadsAre
  <1> QED BY <1>3, <1>23, <1>29 DEF ReadsInv

\* No read loses its file or its disk: only a writer's sectors change what reads see.
LEMMA ReadsKept ==
    ASSUME ReadsInv, disk' = disk, reading' = reading,
           \A r \in Readers : reading[r] # NoRead =>
                                opened'[reading[r].name] = opened[reading[r].name]
    PROVE  ReadsInv'
  <1>1. ASSUME NEW r \in Readers PROVE \E q : reading'[r] = q /\ (q # NoRead => ReadOK(q)')
    <2>1. PICK q : q = reading[r]
      OBVIOUS
    <2>2. q # NoRead => ReadOK(q) /\ opened'[q.name] = opened[q.name]
      BY <2>1 DEF ReadsInv, ReadsOK
    <2> QED BY <2>1, <2>2, ReadKept
  <1>2. ReadsOK'
    BY <1>1, ReadsAre
  <1> QED BY <1>2 DEF ReadsInv

LEMMA NothingRead == NoRead \in ReadRequests
  <1>1. << >> \in Seq(Sectors) /\ << >> \in Seq(Bytes)
    OBVIOUS
  <1> QED BY <1>1, HeadersTyped DEF NoRead, ReadRequests

\* A read ends.
LEMMA ReadReturnsStep ==
    ASSUME ReadsInv, NEW r \in Readers, ReadReturns(r)
    PROVE  ReadsInv'
  <1>1. disk' = disk /\ opened' = opened /\ reading' = [reading EXCEPT ![r] = NoRead]
    BY DEF ReadReturns
  <1>2. reading' \in [Readers -> ReadRequests]
    BY <1>1, NothingRead DEF ReadsInv
  <1>3. ASSUME NEW x \in Readers PROVE \E q : reading'[x] = q /\ (q # NoRead => ReadOK(q)')
    <2>1. CASE x = r
      BY <1>1, <2>1 DEF ReadsInv
    <2>2. CASE x # r
      <3>1. PICK q : q = reading[x]
        OBVIOUS
      <3>2. reading'[x] = q
        BY <1>1, <2>2, <3>1 DEF ReadsInv
      <3>3. q # NoRead => ReadOK(q)
        BY <3>1 DEF ReadsInv, ReadsOK
      <3> QED BY <1>1, <3>2, <3>3, ReadKept
    <2> QED BY <2>1, <2>2
  <1>4. ReadsOK'
    BY <1>3, ReadsAre
  <1> QED BY <1>2, <1>4 DEF ReadsInv

LEMMA ReadsInit == Init => ReadsInv
  <1>1. Init => reading = [r \in Readers |-> NoRead]
    BY DEF Init
  <1> QED BY <1>1, NothingRead DEF ReadsInv, ReadsOK

LEMMA ReadsStep == FilesOK /\ ReadsInv /\ [Next]_vars => ReadsInv'
  <1> SUFFICES ASSUME FilesOK, ReadsInv, [Next]_vars PROVE ReadsInv'
    OBVIOUS
  <1>1. ASSUME disk' = disk, reading' = reading, opened' = opened PROVE ReadsInv'
    BY <1>1, ReadsKept
  <1>2. ASSUME NEW n \in Names, Remove(n) PROVE ReadsInv'
    BY <1>1, <1>2, Zenon DEF Remove, Begin
  <1>3. ASSUME NEW n \in Names, NEW size \in FileSizes, Create(n, size) PROVE ReadsInv'
    BY <1>1, <1>3, Zenon DEF Create, Begin
  <1>4. ASSUME NEW n \in Names, NEW w \in Writes, WriteAt(n, w[1], w[2]) PROVE ReadsInv'
    BY <1>1, <1>4, Zenon DEF WriteAt, Begin
  <1>5. ASSUME NEW n \in Names, Open(n) \/ Close(n) PROVE ReadsInv'
    <2>1. /\ disk' = disk /\ reading' = reading
          /\ \E h : opened' = [opened EXCEPT ![n] = h]
      BY <1>5 DEF Open, Close
    <2>2. ASSUME NEW r \in Readers, reading[r] # NoRead PROVE reading[r].name # n
      <3>1. ReadOK(reading[r])
        BY <2>2 DEF ReadsInv, ReadsOK
      <3>2. opened[reading[r].name] # NoHeader
        BY <3>1 DEF ReadOK
      <3> QED BY <1>5, <3>2 DEF Open, Close
    <2>3. \A r \in Readers : reading[r] # NoRead =>
                               opened'[reading[r].name] = opened[reading[r].name]
      BY <2>1, <2>2 DEF ReadsInv, ReadsOK, ReadOK, FilesOK, FilesTyped
    <2> QED BY <2>1, <2>3, ReadsKept
  <1>6. CASE OperationReturns
    BY <1>1, <1>6 DEF OperationReturns
  <1>7. CASE WriteSector
    <2>1. ReadsOK'
      BY <1>7, ReadsSeeWrites DEF ReadsInv
    <2> QED BY <1>7, <2>1 DEF WriteSector, ReadsInv
  <1>8. ASSUME NEW r \in Readers, NEW n \in Names, NEW w \in Reads, ReadAt(r, n, w[1], w[2])
        PROVE  ReadsInv'
    <2>1. w[1] \in Nat /\ w[2] \in Nat \ {0}
      BY FSAssumption DEF FSAssumption
    <2> QED BY <1>8, <2>1, ReadAtStep
  <1>9. ASSUME NEW r \in Readers, ReadReturns(r) PROVE ReadsInv'
    BY <1>9, ReadReturnsStep
  <1>10. ASSUME NEW r \in Readers, ReadSector(r) PROVE ReadsInv'
    BY <1>10, ReadSectorStep
  <1>11. CASE HandleInterrupt
    BY <1>1, <1>11 DEF HandleInterrupt, memory
  <1>12. ASSUME NEW t \in Threads, SectorReturns(t) PROVE ReadsInv'
    BY <1>1, <1>12 DEF SectorReturns, memory
  <1>13. CASE Crash
    <2>1. reading' = [r \in Readers |-> NoRead]
      BY <1>13 DEF Crash
    <2> QED BY <2>1, NothingRead DEF ReadsInv, ReadsOK
  <1>14. CASE UNCHANGED vars
    BY <1>1, <1>14 DEF vars, memory
  <1> QED BY <1>2, <1>3, <1>4, <1>5, <1>6, <1>7, <1>8, <1>9, <1>10, <1>11, <1>12, <1>13, <1>14
      DEF Next, WriterStep, FileRead

\* What a read that has taken in all its sectors returns.
LEMMA ReadIsRight ==
    ASSUME FilesOK, ReadsInv, NEW r \in Readers, NEW q, q = reading[r],
           q # NoRead, q.sectors = << >>
    PROVE  /\ Len(Wanted(q)) = q.numBytes
           /\ \A i \in 1 .. q.numBytes :
                Wanted(q)[i] \in {q.was[i], Slice(disk, q.hdr, q.position, q.numBytes)[i]}
  <1>1. ReadOK(q) /\ q \in ReadRequests
    BY DEF ReadsInv, ReadsOK
  <1>2. PICK k \in 0 .. SectorsOfRead(q) : HasRead(q, k)
    BY <1>1 DEF ReadOK
  <1> DEFINE h == q.hdr
             first == FirstSector(q.position)
             last == LastSector(q.position, q.numBytes)
             skip == q.position % SectorSize
             at(i) == q.position + i - 1
  <1>3. /\ q.name \in Names /\ opened[q.name] = h /\ h # NoHeader
        /\ q.position \in Nat /\ q.numBytes \in Nat \ {0} /\ q.position + q.numBytes <= h.numBytes
    BY <1>1 DEF ReadOK, Clips
  <1>4. h \in AnyHeader /\ FileHeader(h)
    BY <1>3, OpenFile DEF FilesOK
  <1>5. /\ first \in Nat /\ last \in Nat /\ first <= last
        /\ \A x \in q.position .. q.position + q.numBytes - 1 : x \div SectorSize \in first .. last
    BY <1>3, <1>4, SectorSpan
  <1>6. SectorsOfRead(q) = last - first + 1
    BY DEF SectorsOfRead
  <1>7. /\ q.sectors = [j \in 1 .. SectorsOfRead(q) - k |-> h.dataSectors[first + k + j]]
        /\ q.buf \in Seq(Bytes) /\ Len(q.buf) = k * SectorSize
        /\ \A i \in 1 .. q.numBytes :
             at(i) \div SectorSize < first + k => q.buf[skip + i] \in {q.was[i], ByteAt(disk, h, at(i))}
    BY <1>2 DEF HasRead
  <1> HIDE DEF first, last
  <1>8. k = last - first + 1
    <2>1. PICK m : m = SectorsOfRead(q) - k
      OBVIOUS
    <2>2. m \in Nat
      BY <1>5, <1>6, <2>1
    <2>3. DOMAIN q.sectors = 1 .. m
      BY <1>7, <2>1, Zenon
    <2>4. DOMAIN q.sectors = {}
      OBVIOUS
    <2>5. m = 0
      BY <2>2, <2>3, <2>4
    <2> QED BY <1>5, <1>6, <2>1, <2>5
  <1>9. ASSUME NEW i \in 1 .. q.numBytes
        PROVE  q.buf[skip + i] \in {q.was[i], ByteAt(disk, h, at(i))}
    <2>1. at(i) \in q.position .. q.position + q.numBytes - 1
      BY <1>3
    <2>2. at(i) \div SectorSize < first + k
      BY <1>5, <1>8, <2>1
    <2> QED BY <1>7, <2>2
  <1>10. skip \in Nat /\ skip + q.numBytes \in Nat /\ skip + q.numBytes <= Len(q.buf)
    <2>1. SectorSize \in Nat \ {0} /\ skip \in 0 .. SectorSize - 1
      BY <1>3, Places, FSAssumption DEF FSAssumption
    <2>2. PICK end : end = q.position + q.numBytes - 1
      OBVIOUS
    <2>3. end \in Nat /\ last = end \div SectorSize
      BY <1>3, <2>2 DEF last, LastSector
    <2>4. PICK e : e = end % SectorSize
      OBVIOUS
    <2>5. e \in 0 .. SectorSize - 1 /\ end = last * SectorSize + e
      BY <2>3, <2>4, Places
    <2>6. q.position = first * SectorSize + skip
      BY <1>3, Places DEF first, FirstSector
    <2>7. k * SectorSize = last * SectorSize - first * SectorSize + SectorSize
      BY <1>5, <1>8, <2>1, SMTT(30)
    <2>8. first * SectorSize \in Nat /\ last * SectorSize \in Nat
      BY <1>5, <2>1, SMTT(30)
    <2>9. PICK m, l : m = first * SectorSize /\ l = last * SectorSize
      OBVIOUS
    <2>10. Len(q.buf) = l - m + SectorSize
      BY <1>7, <2>7, <2>9
    <2> HIDE DEF skip
    <2>11. /\ m \in Nat /\ l \in Nat /\ end = l + e /\ q.position = m + skip
      BY <2>5, <2>6, <2>8, <2>9
    <2> QED BY <1>3, <2>1, <2>2, <2>5, <2>10, <2>11
  <1> HIDE DEF skip
  <1>11. /\ Len(Wanted(q)) = q.numBytes
         /\ \A i \in 1 .. q.numBytes : Wanted(q)[i] = q.buf[skip + i]
    <2>1. PICK g, n : g = q.buf /\ n = q.numBytes
      OBVIOUS
    <2>2. g \in Seq(Bytes) /\ n \in Nat \ {0} /\ skip \in Nat /\ skip + n <= Len(g)
      BY <1>3, <1>7, <1>10, <2>1
    <2>3. Wanted(q) = SubSeq(g, skip + 1, skip + n)
      BY <2>1 DEF Wanted, skip
    <2>4. /\ Len(SubSeq(g, skip + 1, skip + n)) = n
          /\ \A i \in 1 .. n : SubSeq(g, skip + 1, skip + n)[i] = g[skip + i]
      BY <2>2
    <2> QED BY <2>1, <2>3, <2>4
  <1>12. \A i \in 1 .. q.numBytes : Slice(disk, h, q.position, q.numBytes)[i] = ByteAt(disk, h, at(i))
    BY DEF Slice, ByteAt
  <1> QED BY <1>9, <1>11, <1>12

\* A reader gets the bytes that it asked for, whatever the sizes of sectors, files and
\* requests, the number of readers and the writes in between.
THEOREM ReadersRight == Spec => ReadsRight
  <1>1. FilesOK /\ ReadsInv =>
          \A r \in Readers : ReadReturns(r) =>
            LET q == reading[r]
                now == Slice(disk, q.hdr, q.position, q.numBytes)
            IN  /\ Len(Wanted(q)) = q.numBytes
                /\ \A i \in 1 .. q.numBytes : Wanted(q)[i] \in {q.was[i], now[i]}
    <2> SUFFICES ASSUME FilesOK, ReadsInv, NEW r \in Readers, ReadReturns(r),
                        NEW q, q = reading[r]
                 PROVE  /\ Len(Wanted(q)) = q.numBytes
                        /\ \A i \in 1 .. q.numBytes :
                             Wanted(q)[i] \in {q.was[i], Slice(disk, q.hdr, q.position, q.numBytes)[i]}
      BY Zenon
    <2> QED BY ReadIsRight DEF ReadReturns
  <1> QED BY <1>1, FilesInit, FilesStep, ReadsInit, ReadsStep, PTL DEF Spec, ReadsRight

-----------------------------------------------------------------------------
(* The file system implements the file store (module FileStore). *)

\* A name that a file has stands in no entry before the file's, in use or not:
\* Directory::Add takes the first entry that is free.
Ordered(d) == \A e, x \in Entries : e < x /\ d.inUse[x] => d.name[e] # d.name[x]
Fits(d) == Sound(d) => Ordered(d)

\* What a file holds.
Holds(d, n) == [i \in 1 .. HeaderOf(d, n).numBytes |-> ByteAt(d, HeaderOf(d, n), i - 1)]

\* What FileStore says of a step of the disk from a to b, on the way to g.
Advances(a, b, g, n) ==
    /\ \A m \in (FilesIn(a) \ {n}) \cap FilesIn(g) :
         m \in FilesIn(b) /\ Holds(b, m) = Holds(a, m)
    /\ n \in FilesIn(a) \cap FilesIn(g) =>
         /\ n \in FilesIn(b)
         /\ DOMAIN Holds(b, n) = DOMAIN Holds(g, n)
         /\ \A i \in DOMAIN Holds(g, n) : Holds(b, n)[i] \in {Holds(a, n)[i], Holds(g, n)[i]}
    /\ n \in FilesIn(b) => n \in FilesIn(a) \cup FilesIn(g)
    /\ Cardinality(FilesIn(b) \ (FilesIn(a) \cup FilesIn(g))) <= 1

\* The disks still to be written are in order, each one step of the store on.
StoreOK ==
    /\ Fits(disk) /\ \A k \in DOMAIN todo : Fits(todo[k])
    /\ todo # << >> => Advances(disk, todo[1], Goal, operand)
    /\ \A k \in 1 .. Len(todo) - 1 : Advances(todo[k], todo[k + 1], Goal, operand)

\* The files that FileStore sees, by name, as the disk holds them.
LEMMA FilesAre ==
    ASSUME NEW d
    PROVE  /\ DOMAIN FilesOf(d) = FilesIn(d)
           /\ \A n \in FilesIn(d) : FilesOf(d)[n] = Holds(d, n)
  <1>1. DOMAIN FilesOf(d) = FilesIn(d)
    BY DEF FilesOf
  <1>2. ASSUME NEW n \in FilesIn(d) PROVE FilesOf(d)[n] = Holds(d, n)
    <2>1. FilesOf(d)[n] = Slice(d, HeaderOf(d, n), 0, HeaderOf(d, n).numBytes)
      BY DEF FilesOf
    <2>2. PICK h : h = HeaderOf(d, n)
      OBVIOUS
    <2>3. Slice(d, h, 0, h.numBytes) =
            [i \in 1 .. h.numBytes |-> d.data[ByteToSector(h, 0 + i - 1)][(0 + i - 1) % SectorSize]]
      BY Zenon DEF Slice
    <2>4. \A i \in 1 .. h.numBytes : 0 + i - 1 = i - 1
      OBVIOUS
    <2>5. Slice(d, h, 0, h.numBytes) = [i \in 1 .. h.numBytes |-> ByteAt(d, h, i - 1)]
      BY <2>3, <2>4, Zenon DEF ByteAt
    <2> QED BY <2>1, <2>2, <2>5 DEF Holds
  <1> QED BY <1>1, <1>2

\* The file with a name on a tidy disk.
LEMMA FileFound ==
    ASSUME NEW d \in Disks, Tidy(d), NEW n \in FilesIn(d)
    PROVE  \E x \in InUse(d) :
             /\ n \in Names /\ d.name[x] = n
             /\ EntriesOf(d, n) = {x} /\ FindIndex(d, n) = x
             /\ HeaderOf(d, n) = d.hdr[d.sector[x]]
             /\ HeaderOf(d, n) \in AnyHeader /\ FileHeader(HeaderOf(d, n))
  <1>1. PICK x \in InUse(d) : d.name[x] = n
    BY DEF FilesIn, InUse
  <1>2. n \in Names /\ d.sector[x] \in Sectors /\ FileHeader(d.hdr[d.sector[x]])
    BY <1>1 DEF Tidy, TidyEntry
  <1>3. x \in EntriesOf(d, n)
    BY <1>1 DEF EntriesOf, InUse
  <1>4. EntriesOf(d, n) = {x} /\ FindIndex(d, n) = x /\ HeaderOf(d, n) = d.hdr[d.sector[x]]
    BY <1>2, <1>3, OneEntry
  <1>5. d.hdr[d.sector[x]] \in AnyHeader
    BY <1>2, DiskFields
  <1> QED BY <1>1, <1>2, <1>4, <1>5

\* A disk that has a file's header and its data has the file.
LEMMA SameFile ==
    ASSUME NEW d, NEW k, NEW n,
           HeaderOf(d, n) \in AnyHeader, FileHeader(HeaderOf(d, n)),
           HeaderOf(k, n) = HeaderOf(d, n),
           \A s \in SectorsOf(HeaderOf(d, n)) : k.data[s] = d.data[s]
    PROVE  Holds(k, n) = Holds(d, n)
  <1>1. PICK h : h = HeaderOf(d, n)
    OBVIOUS
  <1>2. ASSUME NEW i \in 1 .. h.numBytes PROVE ByteAt(k, h, i - 1) = ByteAt(d, h, i - 1)
    <2>1. h \in AnyHeader /\ FileHeader(h) /\ h.numBytes \in Nat
      BY <1>1 DEF FileHeader
    <2>2. i - 1 \in Nat /\ i - 1 < h.numBytes
      BY <2>1
    <2>3. ByteToSector(h, i - 1) \in SectorsOf(h)
      BY <2>1, <2>2, FilePlaces
    <2> QED BY <1>1, <2>3 DEF ByteAt
  <1> QED BY <1>1, <1>2 DEF Holds

\* Disks with equal directories and equal data have equal files.
LEMMA SameDisk ==
    ASSUME NEW d, NEW k, k.inUse = d.inUse, k.sector = d.sector, k.name = d.name
    PROVE  /\ FilesIn(k) = FilesIn(d) /\ (Ordered(d) => Ordered(k))
           /\ \A n : /\ EntriesOf(k, n) = EntriesOf(d, n) /\ FindIndex(k, n) = FindIndex(d, n)
                     /\ k.hdr = d.hdr => HeaderOf(k, n) = HeaderOf(d, n)
                     /\ k.hdr = d.hdr /\ k.data = d.data => Holds(k, n) = Holds(d, n)
  <1>1. FilesIn(k) = FilesIn(d) /\ (Ordered(d) => Ordered(k))
    BY DEF FilesIn, Ordered
  <1>2. ASSUME NEW n
        PROVE  EntriesOf(k, n) = EntriesOf(d, n) /\ FindIndex(k, n) = FindIndex(d, n)
    <2>1. EntriesOf(k, n) = EntriesOf(d, n)
      BY DEF EntriesOf
    <2> QED BY <2>1 DEF FindIndex
  <1>3. ASSUME NEW n, k.hdr = d.hdr PROVE HeaderOf(k, n) = HeaderOf(d, n)
    BY <1>2, <1>3, Zenon DEF HeaderOf
  <1>4. ASSUME NEW n, k.hdr = d.hdr, k.data = d.data PROVE Holds(k, n) = Holds(d, n)
    <2>1. \A h, i : ByteAt(k, h, i) = ByteAt(d, h, i)
      BY <1>4, Zenon DEF ByteAt
    <2>2. PICK h : h = HeaderOf(d, n)
      OBVIOUS
    <2>3. HeaderOf(k, n) = h
      BY <1>3, <1>4, <2>2
    <2> QED BY <2>1, <2>2, <2>3 DEF Holds
  <1> QED BY <1>1, <1>2, <1>3, <1>4

\* A part of a set of one has at most one member.
LEMMA AtMostOne ==
    ASSUME NEW S, NEW x, S \subseteq {x}
    PROVE  Cardinality(S) <= 1
  <1>1. S = {} \/ S = {x}
    OBVIOUS
  <1>2. Cardinality({}) = 0 /\ Cardinality({x}) = 1
    BY FS_EmptySet, FS_Singleton
  <1> QED BY <1>1, <1>2

\* A disk on the way from d, where n is no file, to g, where it is: d has its files, and
\* there may be n, and one other name.
OnTheWay(d, k, g, n) ==
    /\ \A m \in FilesIn(d) : m \in FilesIn(k) /\ Holds(k, m) = Holds(d, m)
    /\ n \in FilesIn(k) => Holds(k, n) = Holds(g, n)
    /\ \E x : FilesIn(k) \subseteq FilesIn(d) \cup {n, x}

\* From one disk to the next on the way to a created file.
LEMMA FileAppears ==
    ASSUME NEW d, NEW a, NEW b, NEW g, NEW n,
           OnTheWay(d, a, g, n), OnTheWay(d, b, g, n), n \notin FilesIn(d),
           FilesIn(g) = FilesIn(d) \cup {n}, n \in FilesIn(a) => n \in FilesIn(b)
    PROVE  Advances(a, b, g, n)
  <1>1. PICK x : FilesIn(b) \subseteq FilesIn(d) \cup {n, x}
    BY DEF OnTheWay
  <1>2. FilesIn(b) \ (FilesIn(a) \cup FilesIn(g)) \subseteq {x}
    BY <1>1
  <1>3. Cardinality(FilesIn(b) \ (FilesIn(a) \cup FilesIn(g))) <= 1
    BY <1>2, AtMostOne
  <1>4. ASSUME NEW m \in (FilesIn(a) \ {n}) \cap FilesIn(g)
        PROVE  m \in FilesIn(b) /\ Holds(b, m) = Holds(a, m)
    BY DEF OnTheWay
  <1>5. ASSUME n \in FilesIn(a) \cap FilesIn(g)
        PROVE  n \in FilesIn(b) /\ Holds(b, n) = Holds(g, n)
    BY <1>5 DEF OnTheWay
  <1> QED BY <1>3, <1>4, <1>5, Zenon DEF Advances

\* Create changes no other file, and its new one appears at once.
CreateShows(d, n, d1, d2, d3, d4) ==
    /\ n \notin FilesIn(d) /\ FilesIn(d4) = FilesIn(d) \cup {n}
    /\ \A m \in FilesIn(d) : Holds(d4, m) = Holds(d, m)
    /\ Fits(d1) /\ Fits(d2) /\ Fits(d3) /\ Fits(d4)
    /\ Advances(d, d1, d4, n) /\ Advances(d1, d2, d4, n)
    /\ Advances(d2, d3, d4, n) /\ Advances(d3, d4, d4, n)

\* The disks that Create makes.
LEMMA CreateFiles ==
    ASSUME NEW d, NEW n, NEW size, NEW sector, NEW blocks, NEW d1, NEW d2, NEW d3, NEW d4,
           Creating(d, n, size, sector, blocks, d1, d2, d3, d4), Ordered(d)
    PROVE  CreateShows(d, n, d1, d2, d3, d4)
  <1>1. PICK h : h = Header(size, blocks)
    OBVIOUS
  <1>2. /\ d \in Disks /\ Sound(d) /\ Tidy(d) /\ n \in Names /\ EntriesOf(d, n) = {}
        /\ sector \in Sectors \ d.map
    BY Zenon DEF Creating
  <1>3. PICK e0 \in Entries : CreateParts(d, n, sector, h, e0, d1, d2, d3, d4)
    BY <1>1, CreatePartsAre
  <1>4. /\ ~d.inUse[e0] /\ \A x \in Entries : x < e0 => d.inUse[x]
        /\ d1 \in Disks /\ d2 \in Disks /\ d3 \in Disks /\ d4 \in Disks
        /\ d1.map = d.map /\ d2.map = d.map /\ d3.map = d.map
        /\ d1.inUse = d.inUse /\ d1.sector = d.sector /\ d1.name = d.name
        /\ d4.inUse[e0] /\ d4.sector[e0] = sector /\ d4.name[e0] = n
        /\ d3.inUse = d4.inUse /\ d3.sector = d4.sector /\ d3.name = d4.name
    BY <1>3, Zenon DEF CreateParts
  <1>5. \A x \in Entries \ {e0} : /\ d4.inUse[x] = d.inUse[x] /\ d4.sector[x] = d.sector[x]
                                 /\ d4.name[x] = d.name[x]
    BY <1>3, Zenon DEF CreateParts
  <1>6. \A k \in {d1, d2, d3, d4} : /\ k.hdr = [d.hdr EXCEPT ![sector] = h]
                                   /\ k.data = [d.data EXCEPT ![sector] = Blank]
    BY <1>3, Zenon DEF CreateParts
  <1>7. Entries \subseteq Int /\ Straddling \in Int /\ e0 \in Int
    BY FSAssumption DEF FSAssumption, Entries
  <1>8. n \notin FilesIn(d)
    BY <1>2 DEF FilesIn, EntriesOf
  <1>9. \A x \in InUse(d) : x # e0
    BY <1>4 DEF InUse
  \* A disk on which d's files are found where they were has them.
  <1>10. ASSUME NEW k \in {d1, d2, d3, d4}, NEW m \in FilesIn(d),
                FindIndex(k, m) = FindIndex(d, m),
                k.sector[FindIndex(d, m)] = d.sector[FindIndex(d, m)]
         PROVE  Holds(k, m) = Holds(d, m)
    <2>1. PICK x \in InUse(d) : /\ FindIndex(d, m) = x /\ HeaderOf(d, m) = d.hdr[d.sector[x]]
                                /\ HeaderOf(d, m) \in AnyHeader /\ FileHeader(HeaderOf(d, m))
      BY <1>2, FileFound
    <2>2. /\ d.sector[x] \in d.map /\ SectorsOf(d.hdr[d.sector[x]]) \subseteq d.map
          /\ d.sector[x] \in Sectors /\ d.map \subseteq Sectors
      BY <1>2, TidySectors, DiskFields
    <2>3. HeaderOf(k, m) = k.hdr[d.sector[x]]
      BY <1>10, <2>1 DEF HeaderOf
    <2>4. k.hdr[d.sector[x]] = d.hdr[d.sector[x]]
      BY <1>2, <1>6, <2>2, DiskFields
    <2>5. \A s \in SectorsOf(HeaderOf(d, m)) : k.data[s] = d.data[s]
      BY <1>2, <1>6, <2>1, <2>2, DiskFields
    <2> QED BY <2>1, <2>3, <2>4, <2>5, SameFile
  <1>11. OnTheWay(d, d, d4, n)
    BY <1>8 DEF OnTheWay
  <1>12. /\ FilesIn(d1) = FilesIn(d) /\ Ordered(d1)
         /\ \A m : FindIndex(d1, m) = FindIndex(d, m)
    BY <1>4, SameDisk
  <1>13. OnTheWay(d, d1, d4, n)
    BY <1>4, <1>8, <1>10, <1>12 DEF OnTheWay
  <1>14. FilesIn(d4) = FilesIn(d) \cup {n}
    <2>1. ASSUME NEW m PROVE m \in FilesIn(d4) <=> m \in FilesIn(d) \/ m = n
      <3>1. m \in FilesIn(d4) <=> \E x \in Entries : d4.inUse[x] /\ d4.name[x] = m
        BY DEF FilesIn
      <3>2. m \in FilesIn(d) <=> \E x \in Entries : d.inUse[x] /\ d.name[x] = m
        BY DEF FilesIn
      <3> QED BY <1>4, <1>5, <3>1, <3>2
    <2> QED BY <2>1
  <1>15. ASSUME NEW m \in FilesIn(d)
         PROVE  /\ EntriesOf(d4, m) = EntriesOf(d, m) /\ FindIndex(d4, m) = FindIndex(d, m)
                /\ d4.sector[FindIndex(d, m)] = d.sector[FindIndex(d, m)]
    <2>1. PICK x \in InUse(d) : FindIndex(d, m) = x
      BY <1>2, FileFound
    <2>2. ASSUME NEW y \in Entries PROVE y \in EntriesOf(d4, m) <=> y \in EntriesOf(d, m)
      BY <1>4, <1>5, <1>8 DEF EntriesOf
    <2>3. EntriesOf(d4, m) = EntriesOf(d, m)
      BY <2>2 DEF EntriesOf
    <2>4. FindIndex(d4, m) = FindIndex(d, m)
      BY <2>3 DEF FindIndex
    <2>5. x \in Entries \ {e0}
      BY <1>9 DEF InUse
    <2> QED BY <1>5, <2>1, <2>3, <2>4, <2>5
  <1>16. OnTheWay(d, d4, d4, n)
    BY <1>10, <1>14, <1>15 DEF OnTheWay
  <1>17. /\ FilesIn(d3) = FilesIn(d4)
         /\ \A m : FindIndex(d3, m) = FindIndex(d4, m) /\ Holds(d3, m) = Holds(d4, m)
    <2>1. d3.hdr = d4.hdr /\ d3.data = d4.data
      BY <1>6
    <2> QED BY <1>4, <2>1, SameDisk
  <1>18. OnTheWay(d, d3, d4, n)
    BY <1>16, <1>17 DEF OnTheWay
  <1>19. Ordered(d4) /\ Ordered(d3)
    <2>1. ASSUME NEW e \in Entries, NEW x \in Entries, e < x, d4.inUse[x]
          PROVE  d4.name[e] # d4.name[x]
      <3>1. CASE e = e0
        <4>1. x # e0
          BY <1>7, <2>1, <3>1
        <4>2. d4.name[x] \in FilesIn(d)
          BY <1>5, <2>1, <4>1 DEF FilesIn
        <4> QED BY <1>4, <1>8, <3>1, <4>2
      <3>2. CASE x = e0
        <4>1. e # e0 /\ d.inUse[e]
          BY <1>4, <1>7, <2>1, <3>2
        <4>2. d4.name[e] \in FilesIn(d)
          BY <1>5, <4>1 DEF FilesIn
        <4> QED BY <1>4, <1>8, <3>2, <4>2
      <3>3. CASE e # e0 /\ x # e0
        BY <1>5, <2>1, <3>3 DEF Ordered
      <3> QED BY <3>1, <3>2, <3>3
    <2>2. Ordered(d4)
      BY <2>1 DEF Ordered
    <2> QED BY <1>4, <2>2, SameDisk
  <1>20. ASSUME e0 > Straddling PROVE OnTheWay(d, d2, d4, n) /\ Fits(d2)
    <2>1. d2.inUse = d.inUse /\ d2.sector = d.sector /\ d2.name = d.name
      BY <1>3, <1>20, Zenon DEF CreateParts
    <2>2. FilesIn(d2) = FilesIn(d) /\ Ordered(d2) /\ \A m : FindIndex(d2, m) = FindIndex(d, m)
      BY <2>1, SameDisk
    <2> QED BY <1>8, <1>10, <2>1, <2>2 DEF OnTheWay, Fits
  <1>21. ASSUME e0 < Straddling PROVE OnTheWay(d, d2, d4, n) /\ Fits(d2)
    <2>1. d2.inUse = d4.inUse /\ d2.sector = d4.sector /\ d2.name = d4.name
      BY <1>3, <1>21, Zenon DEF CreateParts
    <2>2. d2.hdr = d4.hdr /\ d2.data = d4.data
      BY <1>6
    <2>3. FilesIn(d2) = FilesIn(d4) /\ Ordered(d2) /\ \A m : Holds(d2, m) = Holds(d4, m)
      BY <1>19, <2>1, <2>2, SameDisk
    <2> QED BY <1>16, <2>3 DEF OnTheWay, Fits
  <1>22. ASSUME e0 = Straddling PROVE OnTheWay(d, d2, d4, n) /\ Fits(d2)
    <2>1. d2.inUse = d4.inUse /\ d2.sector = d4.sector /\ d2.name = d.name
      BY <1>3, <1>22, Zenon DEF CreateParts
    <2>2. d2.hdr = d4.hdr /\ d2.data = d4.data
      BY <1>6
    <2>3. ~Sound(d2)
      <3>1. sector \in AllSectors(d2, e0) /\ e0 \in InUse(d2)
        BY <1>4, <2>1 DEF AllSectors, InUse
      <3>2. sector \in Allocated(d2)
        BY <3>1, AllocatedIs
      <3> QED BY <1>2, <1>4, <3>2 DEF Sound
    <2>4. FilesIn(d2) = FilesIn(d) \cup {d.name[e0]}
      <3>1. ASSUME NEW m PROVE m \in FilesIn(d2) <=> m \in FilesIn(d) \/ m = d.name[e0]
        <4>1. m \in FilesIn(d2) <=> \E x \in Entries : d2.inUse[x] /\ d2.name[x] = m
          BY DEF FilesIn
        <4>2. m \in FilesIn(d) <=> \E x \in Entries : d.inUse[x] /\ d.name[x] = m
          BY DEF FilesIn
        <4> QED BY <1>4, <1>5, <2>1, <4>1, <4>2
      <3> QED BY <3>1
    <2>5. ASSUME NEW m \in FilesIn(d)
          PROVE  /\ FindIndex(d2, m) = FindIndex(d, m)
                 /\ d2.sector[FindIndex(d, m)] = d.sector[FindIndex(d, m)]
      <3>1. PICK x \in InUse(d) : d.name[x] = m /\ FindIndex(d, m) = x /\ EntriesOf(d, m) = {x}
        BY <1>2, FileFound
      <3>2. x \in Entries /\ x # e0 /\ x \in Int
        BY <1>7, <1>9 DEF InUse
      <3>3. d2.sector[x] = d.sector[x]
        BY <1>5, <2>1, <3>2
      <3>4. x \in EntriesOf(d2, m)
        BY <1>5, <2>1, <3>1, <3>2 DEF EntriesOf, InUse
      <3>5. ASSUME NEW y \in EntriesOf(d2, m) PROVE y \in Int /\ x <= y
        <4>1. y \in Entries /\ y \in Int /\ d2.inUse[y] /\ d.name[y] = m
          BY <1>7, <2>1 DEF EntriesOf
        <4>2. CASE y = e0
          <5>1. ~(e0 < x)
            BY <1>4, <3>1, <3>2, <4>1, <4>2 DEF Ordered, InUse
          <5> QED BY <1>7, <3>2, <4>2, <5>1
        <4>3. CASE y # e0
          <5>1. y \in EntriesOf(d, m)
            BY <1>5, <2>1, <4>1, <4>3 DEF EntriesOf
          <5> QED BY <3>1, <3>2, <5>1
        <4> QED BY <4>2, <4>3
      <3>6. EntriesOf(d2, m) \in SUBSET Nat /\ EntriesOf(d2, m) # {}
        BY <3>4, FSAssumption DEF FSAssumption, EntriesOf, Entries
      <3>7. First(EntriesOf(d2, m)) = x
        <4>1. PICK S : S = EntriesOf(d2, m)
          OBVIOUS
        <4>2. First(S) \in S /\ \A y \in S : First(S) <= y
          BY <3>6, <4>1, LeastIn
        <4>3. First(S) \in Int /\ x <= First(S) /\ First(S) <= x
          BY <3>4, <3>5, <4>1, <4>2
        <4> QED BY <3>2, <4>1, <4>3
      <3> QED BY <3>1, <3>3, <3>6, <3>7 DEF FindIndex
    <2>6. ASSUME n \in FilesIn(d2) PROVE Holds(d2, n) = Holds(d4, n)
      <3>1. d.name[e0] = n
        BY <1>8, <2>4, <2>6
      <3>2. \A y \in Entries \ {e0} : d.inUse[y] => d.name[y] # n
        BY <1>2 DEF EntriesOf
      <3>3. EntriesOf(d2, n) = {e0} /\ EntriesOf(d4, n) = {e0}
        BY <1>4, <1>5, <2>1, <3>1, <3>2 DEF EntriesOf
      <3>4. FindIndex(d2, n) = e0 /\ FindIndex(d4, n) = e0
        BY <1>2, <1>4, <3>3, EntryFound
      <3>5. HeaderOf(d2, n) = HeaderOf(d4, n)
        BY <2>1, <2>2, <3>4 DEF HeaderOf
      <3>6. PICK g : g = HeaderOf(d4, n)
        OBVIOUS
      <3>7. \A i : ByteAt(d2, g, i) = ByteAt(d4, g, i)
        BY <2>2, Zenon DEF ByteAt
      <3> QED BY <3>5, <3>6, <3>7 DEF Holds
    <2>7. FilesIn(d2) \subseteq FilesIn(d) \cup {n, d.name[e0]}
      BY <2>4
    <2>8. \A m \in FilesIn(d) : m \in FilesIn(d2) /\ Holds(d2, m) = Holds(d, m)
      BY <1>10, <2>4, <2>5
    <2> QED BY <2>3, <2>6, <2>7, <2>8 DEF OnTheWay, Fits
  <1>23. OnTheWay(d, d2, d4, n) /\ Fits(d2)
    BY <1>7, <1>20, <1>21, <1>22
  <1>24. Fits(d1) /\ Fits(d3) /\ Fits(d4)
    BY <1>12, <1>19 DEF Fits
  <1>25. n \notin FilesIn(d1) /\ n \in FilesIn(d3) /\ n \in FilesIn(d4)
    BY <1>8, <1>12, <1>14, <1>17
  <1>26. Advances(d, d1, d4, n) /\ Advances(d1, d2, d4, n)
    BY <1>8, <1>11, <1>13, <1>14, <1>23, <1>25, FileAppears
  <1>27. Advances(d2, d3, d4, n) /\ Advances(d3, d4, d4, n)
    BY <1>8, <1>14, <1>16, <1>18, <1>23, <1>25, FileAppears
  <1>28. \A m \in FilesIn(d) : Holds(d4, m) = Holds(d, m)
    BY <1>16 DEF OnTheWay
  <1> QED BY <1>8, <1>14, <1>23, <1>24, <1>26, <1>27, <1>28, Zenon DEF CreateShows

\* A disk on the way from d to where n is no file: it has d's other files, and no more.
OnTheWayOut(d, k, n) ==
    /\ \A m \in FilesIn(d) \ {n} : m \in FilesIn(k) /\ Holds(k, m) = Holds(d, m)
    /\ FilesIn(k) \subseteq FilesIn(d)

\* From one disk to the next on the way to a removed file.
LEMMA FileGoes ==
    ASSUME NEW d, NEW a, NEW b, NEW g, NEW n,
           OnTheWayOut(d, a, n), OnTheWayOut(d, b, n),
           FilesIn(g) = FilesIn(d) \ {n}, n \in FilesIn(b) => n \in FilesIn(a)
    PROVE  Advances(a, b, g, n)
  <1>1. FilesIn(b) \ (FilesIn(a) \cup FilesIn(g)) \subseteq {n}
    BY DEF OnTheWayOut
  <1>2. Cardinality(FilesIn(b) \ (FilesIn(a) \cup FilesIn(g))) <= 1
    BY <1>1, AtMostOne
  <1>3. ASSUME NEW m \in (FilesIn(a) \ {n}) \cap FilesIn(g)
        PROVE  m \in FilesIn(b) /\ Holds(b, m) = Holds(a, m)
    BY DEF OnTheWayOut
  <1> QED BY <1>2, <1>3, Zenon DEF Advances

\* Remove changes no other file.
RemoveShows(d, n, d1, d2, d3) ==
    /\ n \in FilesIn(d) /\ FilesIn(d3) = FilesIn(d) \ {n}
    /\ \A m \in FilesIn(d) \ {n} : Holds(d3, m) = Holds(d, m)
    /\ Fits(d1) /\ Fits(d2) /\ Fits(d3)
    /\ Advances(d, d1, d3, n) /\ Advances(d1, d2, d3, n) /\ Advances(d2, d3, d3, n)

\* The disks that Remove makes.
LEMMA RemoveFiles ==
    ASSUME NEW d \in Disks, Sound(d), Tidy(d), Ordered(d), NEW n \in Names, FindIndex(d, n) # -1,
           NEW dir, dir = Removed(d, n),
           NEW d1, d1 = WithMap(d, d.map \ Freed(d, n)),
           NEW d2, d2 = FirstHalf(d1, dir),
           NEW d3, d3 = WithDirectory(d1, dir)
    PROVE  RemoveShows(d, n, d1, d2, d3)
  <1> DEFINE e0 == FindIndex(d, n)
  <1>1. e0 \in InUse(d) /\ e0 \in Entries /\ d.name[e0] = n /\ n \in FilesIn(d)
    BY EntryFound DEF EntriesOf, InUse, FilesIn
  <1>2. /\ d1 \in Disks /\ d1.inUse = d.inUse /\ d1.sector = d.sector
        /\ d1.name = d.name /\ d1.hdr = d.hdr /\ d1.data = d.data
    <2>1. d.map \ Freed(d, n) \in SUBSET Sectors
      BY DiskFields
    <2> QED BY <2>1, MapWritten
  <1>3. /\ dir \in Disks /\ dir.inUse = [d.inUse EXCEPT ![e0] = FALSE]
        /\ dir.sector = d.sector /\ dir.name = d.name
    BY EntryRemoved
  <1> HIDE DEF e0
  <1>4. ~dir.inUse[e0] /\ \A x \in Entries \ {e0} : dir.inUse[x] = d.inUse[x]
    BY <1>1, <1>3, DiskFields
  <1>5. /\ d3 \in Disks /\ d3.inUse = dir.inUse /\ d3.sector = d.sector
        /\ d3.name = d.name /\ d3.hdr = d.hdr /\ d3.data = d.data
    BY <1>2, <1>3, DirectoryWritten
  <1>6. /\ d2 \in Disks /\ d2.hdr = d.hdr /\ d2.data = d.data
        /\ d2.sector = d.sector /\ d2.name = d.name
        /\ d2.inUse \in {d.inUse, dir.inUse}
    <2> d1 \in Disks /\ dir \in Disks
      BY <1>2, <1>3
    <2>1. d2 \in Disks /\ d2.hdr = d1.hdr /\ d2.data = d1.data
      BY HalfWritten
    <2>2. \A e \in Entries : e <= Straddling =>
            d2.inUse[e] = dir.inUse[e] /\ d2.sector[e] = dir.sector[e]
      BY HalfWritten
    <2>3. \A e \in Entries : ~(e <= Straddling) =>
            d2.inUse[e] = d1.inUse[e] /\ d2.sector[e] = d1.sector[e]
      BY HalfWritten
    <2>4. \A e \in Entries : d2.name[e] = IF e < Straddling THEN dir.name[e] ELSE d1.name[e]
      BY HalfWritten
    <2>5. \A e \in Entries : d2.sector[e] = d.sector[e]
      BY <1>2, <1>3, <2>2, <2>3, Zenon
    <2>6. \A e \in Entries : d2.name[e] = d.name[e]
      BY <1>2, <1>3, <2>4, Zenon
    <2>7. d2.inUse \in {d.inUse, dir.inUse}
      <3>1. CASE e0 <= Straddling
        <4>1. \A e \in Entries : ~(e <= Straddling) => e \in Entries \ {e0}
          BY <3>1
        <4>2. \A e \in Entries : ~(e <= Straddling) => d2.inUse[e] = dir.inUse[e]
          BY <1>2, <1>4, <2>3, <4>1, Zenon
        <4>3. \A e \in Entries : d2.inUse[e] = dir.inUse[e]
          BY <2>2, <4>2, Zenon
        <4> QED BY <1>3, <2>1, <4>3, SameDirectory
      <3>2. CASE ~(e0 <= Straddling)
        <4>1. \A e \in Entries : e <= Straddling => e \in Entries \ {e0}
          BY <3>2
        <4>2. \A e \in Entries : d2.inUse[e] = d.inUse[e]
          BY <1>2, <1>4, <2>2, <2>3, <4>1
        <4> QED BY <2>1, <4>2, SameDirectory
      <3> QED BY <3>1, <3>2
    <2> QED BY <1>2, <2>1, <2>5, <2>6, <2>7, SameDirectory
  \* Such a disk shows all files or all but the one removed.
  <1>7. ASSUME NEW k \in Disks, k.inUse = d.inUse, k.sector = d.sector, k.name = d.name,
               k.hdr = d.hdr, k.data = d.data
        PROVE  OnTheWayOut(d, k, n) /\ FilesIn(k) = FilesIn(d) /\ Ordered(k)
    BY <1>7, SameDisk DEF OnTheWayOut
  <1>8. ASSUME NEW k \in Disks, k.inUse = dir.inUse, k.sector = d.sector, k.name = d.name,
               k.hdr = d.hdr, k.data = d.data
        PROVE  OnTheWayOut(d, k, n) /\ FilesIn(k) = FilesIn(d) \ {n} /\ Ordered(k)
    <2>1. \A x \in InUse(d) \ {e0} : d.name[x] # n
      BY <1>1 DEF Tidy, Apart
    <2>2. FilesIn(k) = FilesIn(d) \ {n}
      <3>1. ASSUME NEW m PROVE m \in FilesIn(k) <=> (m \in FilesIn(d) /\ m # n)
        <4>1. m \in FilesIn(k) <=> \E x \in Entries : dir.inUse[x] /\ d.name[x] = m
          BY <1>8 DEF FilesIn
        <4>2. m \in FilesIn(d) <=> \E x \in Entries : d.inUse[x] /\ d.name[x] = m
          BY DEF FilesIn
        <4> QED BY <1>1, <1>4, <2>1, <4>1, <4>2 DEF InUse
      <3> QED BY <3>1
    <2>3. Ordered(k)
      BY <1>4, <1>8 DEF Ordered
    <2>4. ASSUME NEW m \in FilesIn(d) \ {n} PROVE Holds(k, m) = Holds(d, m)
      <3>1. \A x \in Entries : x \in EntriesOf(k, m) <=> x \in EntriesOf(d, m)
        BY <1>1, <1>4, <1>8 DEF EntriesOf
      <3>2. EntriesOf(k, m) = EntriesOf(d, m)
        BY <3>1 DEF EntriesOf
      <3>3. FindIndex(k, m) = FindIndex(d, m)
        BY <3>2 DEF FindIndex
      <3>4. HeaderOf(k, m) = HeaderOf(d, m)
        BY <1>8, <3>3 DEF HeaderOf
      <3>5. HeaderOf(d, m) \in AnyHeader /\ FileHeader(HeaderOf(d, m))
        BY FileFound
      <3> QED BY <1>8, <3>4, <3>5, SameFile
    <2> QED BY <2>2, <2>3, <2>4 DEF OnTheWayOut
  <1>9. OnTheWayOut(d, d, n)
    BY DEF OnTheWayOut
  <1>10. OnTheWayOut(d, d1, n) /\ FilesIn(d1) = FilesIn(d) /\ Ordered(d1)
    BY <1>2, <1>7
  <1>11. OnTheWayOut(d, d3, n) /\ FilesIn(d3) = FilesIn(d) \ {n} /\ Ordered(d3)
    BY <1>5, <1>8
  <1>12. OnTheWayOut(d, d2, n) /\ Ordered(d2)
    BY <1>6, <1>7, <1>8
  <1>13. n \in FilesIn(d1) /\ n \notin FilesIn(d3)
    BY <1>1, <1>10, <1>11
  <1>14. Advances(d, d1, d3, n) /\ Advances(d1, d2, d3, n) /\ Advances(d2, d3, d3, n)
    BY <1>1, <1>9, <1>10, <1>11, <1>12, <1>13, FileGoes
  <1>15. \A m \in FilesIn(d) \ {n} : Holds(d3, m) = Holds(d, m)
    BY <1>11 DEF OnTheWayOut
  <1> QED BY <1>1, <1>10, <1>11, <1>12, <1>14, <1>15 DEF RemoveShows, Fits

\* What has its last value keeps it.
Settling(g, v, k, N) ==
    /\ N \in Nat /\ k \in 0 .. N /\ g[k] = v
    /\ \A j \in k + 1 .. N : g[j] \in {g[j - 1], v}

\* Bytes that become the writer's at one disk or another, and stay, are its in the end.
LEMMA Settles ==
    ASSUME NEW g, NEW v, NEW k, NEW N, Settling(g, v, k, N)
    PROVE  \A j \in k .. N : g[j] = v
  <1> USE DEF Settling
  <1> DEFINE S == {j \in k .. N : g[j] # v}
  <1>1. SUFFICES ASSUME S # {} PROVE FALSE
    OBVIOUS
  <1>2. S \in SUBSET Nat
    OBVIOUS
  <1>3. PICK j \in S : \A x \in S : j <= x
    <2> HIDE DEF S
    <2> QED BY <1>1, <1>2, LeastIn
  <1>4. j # k /\ j \in k + 1 .. N
    OBVIOUS
  <1>5. j - 1 \in k .. N /\ j - 1 \notin S
    BY <1>3, <1>4
  <1>6. g[j - 1] = v
    BY <1>5
  <1> QED BY <1>4, <1>6

\* WriteAt changes no file but its own, there the bytes that it is given only, and each of
\* them once.
WriteShows(h, n, position, count, N, f) ==
    /\ n \in FilesIn(disk) /\ \A k \in 0 .. N : FilesIn(f[k]) = FilesIn(disk) /\ Ordered(f[k])
    /\ \A m \in FilesIn(disk) \ {n} : Holds(f[N], m) = Holds(disk, m)
    /\ DOMAIN Holds(disk, n) = 1 .. h.numBytes /\ DOMAIN Holds(f[N], n) = 1 .. h.numBytes
    /\ \A i \in 1 .. h.numBytes :
         Holds(f[N], n)[i] = IF i \in position + 1 .. position + count THEN n ELSE Holds(disk, n)[i]
    /\ \A k \in 1 .. N : Advances(f[k - 1], f[k], f[N], n)

\* The disks that WriteAt makes: each byte of the span is old until its sector is written.
LEMMA WriteFiles ==
    ASSUME disk \in Disks, Sound(disk), Tidy(disk), Ordered(disk),
           NEW n \in Names, NEW h, IsFile(disk, n, h),
           NEW position \in Nat, NEW count \in Nat \ {0}, position + count <= h.numBytes,
           NEW N, NEW f, DisksOfWrite(h, n, position, count, N, f)
    PROVE  WriteShows(h, n, position, count, N, f)
  <1>1. PICK x \in InUse(disk) : x \in EntriesOf(disk, n) /\ disk.hdr[disk.sector[x]] = h
    BY DEF IsFile, EntriesOf, InUse
  <1>2. n \in FilesIn(disk)
    BY <1>1 DEF EntriesOf, FilesIn
  <1>3. FindIndex(disk, n) = x /\ HeaderOf(disk, n) = h
    BY <1>1, OneEntry
  <1>4. h \in AnyHeader /\ FileHeader(h) /\ h.numBytes \in Nat
    BY <1>1, TidySectors DEF Tidy, TidyEntry, FileHeader
  <1>5. /\ N \in Nat \ {0} /\ N = LastSector(position, count) - FirstSector(position) + 1
        /\ f[0] = disk
        /\ \A k \in 0 .. N :
             /\ f[k] \in Disks /\ f[k].inUse = disk.inUse
             /\ f[k].sector = disk.sector /\ f[k].name = disk.name
             /\ \A s \in Sectors \ SectorsOf(h) :
                  f[k].hdr[s] = disk.hdr[s] /\ f[k].data[s] = disk.data[s]
    BY Zenon DEF DisksOfWrite
  <1>6. \A k \in 1 .. N, at \in 0 .. h.numBytes - 1 :
          ByteAt(f[k], h, at) =
            IF /\ at \in position .. position + count - 1
               /\ at \div SectorSize = FirstSector(position) + k - 1
            THEN n ELSE ByteAt(f[k - 1], h, at)
    BY Zenon DEF DisksOfWrite
  \* The headers stay: none of them is in a sector of a file's data.
  <1>7. \A y \in InUse(disk) : disk.sector[y] \in Sectors \ SectorsOf(h)
    <2> SUFFICES ASSUME NEW y \in InUse(disk) PROVE disk.sector[y] \notin SectorsOf(h)
      BY TidySectors
    <2>1. CASE y = x
      BY <1>1, <2>1 DEF Tidy, TidyEntry
    <2>2. CASE y # x
      <3>1. AllSectors(disk, y) \cap AllSectors(disk, x) = {}
        BY <2>2 DEF Tidy, Apart
      <3> QED BY <1>1, <3>1 DEF AllSectors
    <2> QED BY <2>1, <2>2
  <1>8. ASSUME NEW k \in 0 .. N
        PROVE  /\ FilesIn(f[k]) = FilesIn(disk) /\ Ordered(f[k])
               /\ \A m \in FilesIn(disk) : HeaderOf(f[k], m) = HeaderOf(disk, m)
    <2>1. PICK e : e = f[k]
      OBVIOUS
    <2>2. /\ e.inUse = disk.inUse /\ e.sector = disk.sector /\ e.name = disk.name
          /\ \A s \in Sectors \ SectorsOf(h) : e.hdr[s] = disk.hdr[s]
      BY <1>5, <2>1
    <2>3. /\ FilesIn(e) = FilesIn(disk) /\ Ordered(e)
          /\ \A m : FindIndex(e, m) = FindIndex(disk, m)
      BY <2>2, SameDisk
    <2>4. ASSUME NEW m \in FilesIn(disk) PROVE HeaderOf(e, m) = HeaderOf(disk, m)
      <3>1. PICK y \in InUse(disk) : FindIndex(disk, m) = y /\ HeaderOf(disk, m) = disk.hdr[disk.sector[y]]
        BY FileFound
      <3> QED BY <1>7, <2>2, <2>3, <3>1 DEF HeaderOf
    <2> QED BY <2>1, <2>3, <2>4
  <1>9. ASSUME NEW k \in 0 .. N, NEW m \in FilesIn(disk) \ {n}
        PROVE  Holds(f[k], m) = Holds(disk, m)
    <2>1. PICK y \in InUse(disk) : /\ disk.name[y] = m
                                   /\ HeaderOf(disk, m) = disk.hdr[disk.sector[y]]
                                   /\ HeaderOf(disk, m) \in AnyHeader /\ FileHeader(HeaderOf(disk, m))
      BY FileFound
    <2>2. y # x
      BY <1>1, <2>1 DEF EntriesOf
    <2>3. AllSectors(disk, y) \cap AllSectors(disk, x) = {}
      BY <2>2 DEF Tidy, Apart
    <2>4. SectorsOf(HeaderOf(disk, m)) \subseteq Sectors \ SectorsOf(h)
      <3>1. SectorsOf(disk.hdr[disk.sector[y]]) \subseteq disk.map /\ disk.map \subseteq Sectors
        BY TidySectors, DiskFields
      <3> QED BY <1>1, <2>1, <2>3, <3>1 DEF AllSectors
    <2>5. \A s \in SectorsOf(HeaderOf(disk, m)) : f[k].data[s] = disk.data[s]
      BY <1>5, <2>4
    <2> QED BY <1>8, <2>1, <2>5, SameFile
  <1>10. \A k \in 0 .. N : /\ HeaderOf(f[k], n) = h
                          /\ Holds(f[k], n) = [i \in 1 .. h.numBytes |-> ByteAt(f[k], h, i - 1)]
    <2>1. \A k \in 0 .. N : HeaderOf(f[k], n) = h
      BY <1>2, <1>3, <1>8
    <2> QED BY <2>1, Zenon DEF Holds
  \* Each byte in the end, and on the way there.
  <1>11. ASSUME NEW at \in 0 .. h.numBytes - 1
         PROVE  /\ ByteAt(f[N], h, at) = IF at \in position .. position + count - 1
                                         THEN n ELSE ByteAt(disk, h, at)
                /\ \A k \in 1 .. N :
                     ByteAt(f[k], h, at) \in {ByteAt(f[k - 1], h, at), ByteAt(f[N], h, at)}
    <2> DEFINE g == [k \in 0 .. N |-> ByteAt(f[k], h, at)]
    <2>1. \A k \in 0 .. N : g[k] = ByteAt(f[k], h, at)
      OBVIOUS
    <2>2. \A k \in 1 .. N : k \in 0 .. N /\ k - 1 \in 0 .. N
      BY <1>5
    <2>3. N \in Nat /\ 0 \in 0 .. N /\ N \in 0 .. N
      BY <1>5
    <2> HIDE DEF g
    <2>4. CASE at \notin position .. position + count - 1
      <3>1. \A k \in 1 .. N : g[k] = g[k - 1]
        BY <1>6, <2>1, <2>2, <2>4
      <3>2. \A j \in 0 + 1 .. N : g[j] \in {g[j - 1], g[0]}
        BY <3>1
      <3>3. \A j \in 0 .. N : g[j] = g[0]
        <4>1. Settling(g, g[0], 0, N)
          BY <2>3, <3>2 DEF Settling
        <4> QED BY <4>1, Settles
      <3>4. ByteAt(f[N], h, at) = ByteAt(disk, h, at)
        BY <1>5, <2>1, <2>3, <3>3
      <3>5. \A k \in 1 .. N : ByteAt(f[k], h, at) = ByteAt(f[k - 1], h, at)
        BY <2>1, <2>2, <3>1
      <3> QED BY <2>4, <3>4, <3>5
    <2>5. CASE at \in position .. position + count - 1
      <3>1. \A k \in 1 .. N : g[k] \in {g[k - 1], n}
        BY <1>6, <2>1, <2>2
      <3>2. PICK c \in 1 .. N : at \div SectorSize = FirstSector(position) + c - 1
        <4>1. /\ FirstSector(position) \in Nat /\ LastSector(position, count) \in Nat
              /\ at \div SectorSize \in FirstSector(position) .. LastSector(position, count)
          BY <1>4, <2>5, SectorSpan
        <4>2. PICK q, first, last : /\ q = at \div SectorSize /\ first = FirstSector(position)
                                    /\ last = LastSector(position, count)
          OBVIOUS
        <4>3. first \in Nat /\ last \in Nat /\ q \in first .. last /\ N = last - first + 1
          BY <1>5, <4>1, <4>2
        <4>4. q - first + 1 \in 1 .. N /\ q = first + (q - first + 1) - 1
          BY <4>3
        <4> QED BY <4>2, <4>4
      <3>3. g[c] = n /\ c \in 0 .. N
        BY <1>6, <2>1, <2>2, <2>5, <3>2
      <3>4. \A j \in c + 1 .. N : g[j] \in {g[j - 1], n}
        BY <3>1, <3>2
      <3>5. \A j \in c .. N : g[j] = n
        <4>1. Settling(g, n, c, N)
          BY <2>3, <3>3, <3>4 DEF Settling
        <4> QED BY <4>1, Settles
      <3>6. ByteAt(f[N], h, at) = n
        BY <2>1, <2>3, <3>2, <3>5
      <3>7. \A k \in 1 .. N : ByteAt(f[k], h, at) \in {ByteAt(f[k - 1], h, at), n}
        BY <2>1, <2>2, <3>1
      <3> QED BY <2>5, <3>6, <3>7
    <2> QED BY <2>4, <2>5
  <1>12. \A k \in 1 .. N : k \in 0 .. N /\ k - 1 \in 0 .. N
    BY <1>5
  <1>13. N \in 0 .. N /\ 0 \in 0 .. N
    BY <1>5
  <1>14. ASSUME NEW i \in 1 .. h.numBytes
         PROVE  /\ Holds(f[N], n)[i] = IF i \in position + 1 .. position + count
                                       THEN n ELSE Holds(disk, n)[i]
                /\ \A k \in 1 .. N : Holds(f[k], n)[i] \in {Holds(f[k - 1], n)[i], Holds(f[N], n)[i]}
    <2>1. i - 1 \in 0 .. h.numBytes - 1
      BY <1>4
    <2>2. \A k \in 0 .. N : Holds(f[k], n)[i] = ByteAt(f[k], h, i - 1)
      BY <1>10
    <2>3. Holds(disk, n)[i] = ByteAt(disk, h, i - 1)
      BY <1>5, <1>13, <2>2
    <2>4. i \in position + 1 .. position + count <=> i - 1 \in position .. position + count - 1
      OBVIOUS
    <2>5. Holds(f[N], n)[i] = IF i - 1 \in position .. position + count - 1
                              THEN n ELSE Holds(disk, n)[i]
      BY <1>11, <1>13, <2>1, <2>2, <2>3
    <2>6. ASSUME NEW k \in 1 .. N
          PROVE  Holds(f[k], n)[i] \in {Holds(f[k - 1], n)[i], Holds(f[N], n)[i]}
      BY <1>11, <1>12, <1>13, <2>1, <2>2
    <2> QED BY <2>4, <2>5, <2>6
  <1>15. ASSUME NEW k \in 1 .. N PROVE Advances(f[k - 1], f[k], f[N], n)
    <2>1. PICK a, b, z : a = f[k - 1] /\ b = f[k] /\ z = f[N]
      OBVIOUS
    <2>2. FilesIn(a) = FilesIn(disk) /\ FilesIn(b) = FilesIn(disk) /\ FilesIn(z) = FilesIn(disk)
      BY <1>8, <1>12, <1>13, <2>1
    <2>3. \A m \in FilesIn(disk) \ {n} : Holds(b, m) = Holds(a, m)
      BY <1>9, <1>12, <2>1
    <2>4. DOMAIN Holds(b, n) = 1 .. h.numBytes /\ DOMAIN Holds(z, n) = 1 .. h.numBytes
      BY <1>10, <1>12, <1>13, <2>1
    <2>5. \A i \in 1 .. h.numBytes : Holds(b, n)[i] \in {Holds(a, n)[i], Holds(z, n)[i]}
      BY <1>14, <2>1
    <2>6. Cardinality(FilesIn(b) \ (FilesIn(a) \cup FilesIn(z))) <= 1
      BY <2>2, AtMostOne
    <2>7. Advances(a, b, z, n)
      BY <2>2, <2>3, <2>4, <2>5, <2>6 DEF Advances
    <2> QED BY <2>1, <2>7
  <1>16. DOMAIN Holds(disk, n) = 1 .. h.numBytes /\ DOMAIN Holds(f[N], n) = 1 .. h.numBytes
    BY <1>5, <1>10, <1>13
  <1>17. \A m \in FilesIn(disk) \ {n} : Holds(f[N], m) = Holds(disk, m)
    BY <1>9, <1>13
  <1>18. \A k \in 0 .. N : FilesIn(f[k]) = FilesIn(disk) /\ Ordered(f[k])
    BY <1>8
  <1>19. \A i \in 1 .. h.numBytes :
           Holds(f[N], n)[i] = IF i \in position + 1 .. position + count THEN n ELSE Holds(disk, n)[i]
    BY <1>14
  <1> QED BY <1>2, <1>15, <1>16, <1>17, <1>18, <1>19, Zenon DEF WriteShows

-----------------------------------------------------------------------------
(* The steps of the file system are steps of the store. *)

StoreInv == FilesOK /\ StoreOK

\* FileStore counts as this module does.
LEMMA SameCardinality == \A S : Store!Cardinality(S) = Cardinality(S)
  BY Zenon DEF Store!Cardinality, Cardinality

\* The store's goal.
LEMMA GoalIs == /\ FilesOf(IF todo = << >> THEN disk ELSE todo[Len(todo)]) = FilesOf(Goal)
                /\ FilesOf(IF todo' = << >> THEN disk' ELSE todo'[Len(todo')]) = FilesOf(Goal')
  BY DEF Goal

\* A sector written on the way to the goal is FileStore's Advance.
LEMMA AdvanceIs ==
    ASSUME operand # NoName, operand' = operand, Goal' = Goal, Advances(disk, disk', Goal, operand)
    PROVE  Store!Advance
  <1>1. PICK a, b, g, n : a = disk /\ b = disk' /\ g = Goal /\ n = operand
    OBVIOUS
  <1>2. /\ DOMAIN FilesOf(a) = FilesIn(a) /\ DOMAIN FilesOf(b) = FilesIn(b)
        /\ DOMAIN FilesOf(g) = FilesIn(g)
        /\ \A m \in FilesIn(a) : FilesOf(a)[m] = Holds(a, m)
        /\ \A m \in FilesIn(b) : FilesOf(b)[m] = Holds(b, m)
        /\ \A m \in FilesIn(g) : FilesOf(g)[m] = Holds(g, m)
    BY FilesAre
  <1>3. Advances(a, b, g, n)
    BY <1>1
  <1>4. PICK fa, fb, fg : fa = FilesOf(a) /\ fb = FilesOf(b) /\ fg = FilesOf(g)
    OBVIOUS
  <1>5. /\ \A m \in (DOMAIN fa \ {n}) \cap DOMAIN fg : m \in DOMAIN fb /\ fb[m] = fa[m]
        /\ n \in DOMAIN fa \cap DOMAIN fg =>
             /\ n \in DOMAIN fb
             /\ DOMAIN fb[n] = DOMAIN fg[n]
             /\ \A i \in DOMAIN fg[n] : fb[n][i] \in {fa[n][i], fg[n][i]}
        /\ n \in DOMAIN fb => n \in DOMAIN fa \cup DOMAIN fg
        /\ Cardinality(DOMAIN fb \ (DOMAIN fa \cup DOMAIN fg)) <= 1
    BY <1>2, <1>3, <1>4 DEF Advances
  <1>6. /\ FilesOf(disk) = fa /\ FilesOf(disk)' = fb
        /\ FilesOf(IF todo = << >> THEN disk ELSE todo[Len(todo)]) = fg
        /\ FilesOf(IF todo = << >> THEN disk ELSE todo[Len(todo)])' = fg
    BY <1>1, <1>4, GoalIs
  <1>7. Store!Cardinality(DOMAIN fb \ (DOMAIN fa \cup DOMAIN fg)) <= 1
    BY <1>5, SameCardinality
  <1>8. operand = n /\ operand' = n /\ n # NoName
    BY <1>1
  <1> QED BY <1>5, <1>6, <1>7, <1>8 DEF Store!Advance, Store!Others

\* Some bytes of a file that are next to each other become the writer's.
BytesWritten(files, goal, n) ==
    \E first, last \in DOMAIN files[n] : \A i \in DOMAIN files[n] :
        goal[n][i] = IF i \in first .. last THEN n ELSE files[n][i]

\* What FileStore's Start says, for each operation.
LEMMA StartIs ==
    ASSUME NEW n \in Names, operand = NoName, operand' = n, disk' = disk, todo = << >>,
           NEW g, g = Goal',
           \A m \in FilesIn(disk) \ {n} : Holds(g, m) = Holds(disk, m),
           FilesIn(disk) \ {n} \subseteq FilesIn(g),
           \/ n \notin FilesIn(disk) /\ FilesIn(g) = FilesIn(disk) \cup {n}
           \/ n \in FilesIn(disk) /\ FilesIn(g) = FilesIn(disk) \ {n}
           \/ /\ n \in FilesIn(disk) /\ FilesIn(g) = FilesIn(disk)
              /\ DOMAIN Holds(g, n) = DOMAIN Holds(disk, n)
              /\ \E first, last \in DOMAIN Holds(disk, n) : \A i \in DOMAIN Holds(disk, n) :
                   Holds(g, n)[i] = IF i \in first .. last THEN n ELSE Holds(disk, n)[i]
    PROVE  Store!Start(n)
  <1>1. PICK a : a = disk
    OBVIOUS
  <1>2. PICK fa, fg : fa = FilesOf(a) /\ fg = FilesOf(g)
    OBVIOUS
  <1>3. /\ DOMAIN fa = FilesIn(a) /\ DOMAIN fg = FilesIn(g)
        /\ \A m \in FilesIn(a) : fa[m] = Holds(a, m)
        /\ \A m \in FilesIn(g) : fg[m] = Holds(g, m)
    BY <1>2, FilesAre
  <1>4. /\ FilesOf(disk) = fa /\ FilesOf(disk)' = fa
        /\ FilesOf(IF todo = << >> THEN disk ELSE todo[Len(todo)])' = fg
    BY <1>1, <1>2, GoalIs
  <1>5. \A m \in DOMAIN fa \ {n} : fg[m] = fa[m]
    BY <1>1, <1>3
  <1>6. CASE n \notin FilesIn(disk) /\ FilesIn(g) = FilesIn(disk) \cup {n}
    <2>1. n \notin DOMAIN fa /\ DOMAIN fg = DOMAIN fa \cup {n}
      BY <1>1, <1>3, <1>6
    <2>2. Store!Create(n)
      BY <1>4, <2>1, Zenon DEF Store!Create
    <2> QED BY <1>4, <1>5, <2>2, Zenon DEF Store!Start, Store!Others
  <1>7. CASE n \in FilesIn(disk) /\ FilesIn(g) = FilesIn(disk) \ {n}
    <2>1. n \in DOMAIN fa /\ DOMAIN fg = DOMAIN fa \ {n}
      BY <1>1, <1>3, <1>7
    <2>2. Store!Remove(n)
      BY <1>4, <2>1, Zenon DEF Store!Remove, Store!Others
    <2> QED BY <1>4, <1>5, <2>2, Zenon DEF Store!Start, Store!Others
  <1>8. CASE /\ n \in FilesIn(disk) /\ FilesIn(g) = FilesIn(disk)
             /\ DOMAIN Holds(g, n) = DOMAIN Holds(disk, n)
             /\ \E first, last \in DOMAIN Holds(disk, n) : \A i \in DOMAIN Holds(disk, n) :
                  Holds(g, n)[i] = IF i \in first .. last THEN n ELSE Holds(disk, n)[i]
    <2>1. n \in DOMAIN fa /\ DOMAIN fg = DOMAIN fa /\ fa[n] = Holds(disk, n) /\ fg[n] = Holds(g, n)
      BY <1>1, <1>3, <1>8
    <2>2. DOMAIN fg[n] = DOMAIN fa[n]
      BY <1>8, <2>1
    <2>3. PICK first, last \in DOMAIN Holds(disk, n) : \A i \in DOMAIN Holds(disk, n) :
               Holds(g, n)[i] = IF i \in first .. last THEN n ELSE Holds(disk, n)[i]
      BY <1>8, Zenon
    <2>4. /\ first \in DOMAIN fa[n] /\ last \in DOMAIN fa[n]
          /\ \A i \in DOMAIN fa[n] : fg[n][i] = IF i \in first .. last THEN n ELSE fa[n][i]
      BY <2>1, <2>3
    <2>5. Store!Write(n)
      <3>1. BytesWritten(fa, fg, n)
        BY <2>4, Zenon DEF BytesWritten
      <3>2. BytesWritten(FilesOf(disk),
                         FilesOf(IF todo = << >> THEN disk ELSE todo[Len(todo)])', n)
        BY <1>4, <3>1
      <3> QED BY <1>4, <2>1, <2>2, <3>2, Zenon DEF Store!Write, BytesWritten
    <2> QED BY <1>4, <1>5, <2>5, Zenon DEF Store!Start, Store!Others
  <1> QED BY <1>6, <1>7, <1>8

\* An operation begins: the disks that it will make are in order, each on the way.
LEMMA StoreBegins ==
    ASSUME StoreInv, Free, NEW n \in Names, Begin(n, todo'), todo' \in Seq(Disks), todo' # << >>,
           \A k \in DOMAIN todo' : Fits(todo'[k]),
           Advances(disk, todo'[1], todo'[Len(todo')], n),
           \A k \in 1 .. Len(todo') - 1 : Advances(todo'[k], todo'[k + 1], todo'[Len(todo')], n)
    PROVE  StoreOK'
  <1>1. disk' = disk /\ operand' = n /\ Goal' = todo'[Len(todo')]
    BY DEF Begin, Goal
  <1>2. Fits(disk')
    BY <1>1 DEF StoreInv, StoreOK
  <1>3. Advances(disk', todo'[1], Goal', operand')
    BY <1>1
  <1>4. \A k \in 1 .. Len(todo') - 1 : Advances(todo'[k], todo'[k + 1], Goal', operand')
    BY <1>1
  <1> QED BY <1>2, <1>3, <1>4 DEF StoreOK

\* Create begins an operation of the store.
LEMMA CreateStarts ==
    ASSUME StoreInv, NEW n \in Names, NEW size \in Nat, Create(n, size)
    PROVE  StoreOK' /\ Store!Start(n)
  <1>1. Free
    BY CreateIs DEF StoreInv
  <1>2. PICK sector, blocks, d1, d2, d3, d4 :
             /\ Creating(disk, n, size, sector, blocks, d1, d2, d3, d4)
             /\ todo' = <<d1, d2, d3, d4>> /\ Begin(n, todo')
    BY CreateIs, Zenon DEF StoreInv
  <1>3. Ordered(disk)
    BY <1>1 DEF StoreInv, StoreOK, Fits, Free
  <1>4. CreateShows(disk, n, d1, d2, d3, d4)
    BY <1>2, <1>3, CreateFiles
  <1>5. /\ n \notin FilesIn(disk) /\ FilesIn(d4) = FilesIn(disk) \cup {n}
        /\ \A m \in FilesIn(disk) : Holds(d4, m) = Holds(disk, m)
        /\ Fits(d1) /\ Fits(d2) /\ Fits(d3) /\ Fits(d4)
        /\ Advances(disk, d1, d4, n) /\ Advances(d1, d2, d4, n)
        /\ Advances(d2, d3, d4, n) /\ Advances(d3, d4, d4, n)
    BY <1>4, Zenon DEF CreateShows
  <1>6. d1 \in Disks /\ d2 \in Disks /\ d3 \in Disks /\ d4 \in Disks
    <2>1. Created(disk, sector, d1, d2, d3, d4)
      BY <1>2, CreateWrites
    <2> QED BY <2>1, Zenon DEF Created
  <1>7. /\ todo' \in Seq(Disks) /\ todo' # << >> /\ Len(todo') = 4 /\ DOMAIN todo' = 1 .. 4
        /\ todo'[1] = d1 /\ todo'[2] = d2 /\ todo'[3] = d3 /\ todo'[4] = d4
    BY <1>2, <1>6
  <1>8. \A k \in DOMAIN todo' : Fits(todo'[k])
    BY <1>5, <1>7
  <1>9. \A k \in 1 .. Len(todo') - 1 : Advances(todo'[k], todo'[k + 1], todo'[Len(todo')], n)
    <2>1. \A k \in 1 .. Len(todo') - 1 : k \in {1, 2, 3}
      BY <1>7
    <2> QED BY <1>5, <1>7, <2>1
  <1>10. StoreOK'
    BY <1>1, <1>2, <1>5, <1>7, <1>8, <1>9, StoreBegins
  <1>11. /\ Goal' = d4 /\ operand' = n /\ disk' = disk /\ operand = NoName /\ todo = << >>
    BY <1>1, <1>2, <1>7 DEF Goal, Begin, Free
  <1>12. Store!Start(n)
    BY <1>5, <1>11, StartIs
  <1> QED BY <1>10, <1>12

\* So does Remove,
LEMMA RemoveStarts ==
    ASSUME StoreInv, NEW n \in Names, Remove(n)
    PROVE  StoreOK' /\ Store!Start(n)
  <1> DEFINE dir == Removed(disk, n)
             d1 == WithMap(disk, disk.map \ Freed(disk, n))
             d2 == FirstHalf(d1, dir)
             d3 == WithDirectory(d1, dir)
  <1>1. Free /\ FindIndex(disk, n) # -1 /\ Begin(n, <<d1, d2, d3>>)
    BY Zenon DEF Remove
  <1>2. Goal = disk /\ disk \in Disks /\ Sound(disk) /\ Tidy(disk)
    BY <1>1, FreeDisk DEF StoreInv
  <1>3. Ordered(disk)
    BY <1>2 DEF StoreInv, StoreOK, Fits
  <1> HIDE DEF dir, d1, d2, d3
  <1>4. d1 \in Disks /\ d2 \in Disks /\ d3 \in Disks
    BY <1>1, <1>2, RemoveWrites DEF dir, d1, d2, d3
  <1>5. RemoveShows(disk, n, d1, d2, d3)
    BY <1>1, <1>2, <1>3, RemoveFiles DEF dir, d1, d2, d3
  <1>6. /\ n \in FilesIn(disk) /\ FilesIn(d3) = FilesIn(disk) \ {n}
        /\ \A m \in FilesIn(disk) \ {n} : Holds(d3, m) = Holds(disk, m)
        /\ Fits(d1) /\ Fits(d2) /\ Fits(d3)
        /\ Advances(disk, d1, d3, n) /\ Advances(d1, d2, d3, n) /\ Advances(d2, d3, d3, n)
    BY <1>5, Zenon DEF RemoveShows
  <1>7. todo' = <<d1, d2, d3>> /\ Begin(n, todo')
    BY <1>1 DEF Begin
  <1>8. /\ todo' \in Seq(Disks) /\ todo' # << >> /\ Len(todo') = 3 /\ DOMAIN todo' = 1 .. 3
        /\ todo'[1] = d1 /\ todo'[2] = d2 /\ todo'[3] = d3
    BY <1>4, <1>7
  <1>9. \A k \in DOMAIN todo' : Fits(todo'[k])
    BY <1>6, <1>8
  <1>10. \A k \in 1 .. Len(todo') - 1 : Advances(todo'[k], todo'[k + 1], todo'[Len(todo')], n)
    <2>1. \A k \in 1 .. Len(todo') - 1 : k \in {1, 2}
      BY <1>8
    <2> QED BY <1>6, <1>8, <2>1
  <1>11. StoreOK'
    BY <1>1, <1>6, <1>7, <1>8, <1>9, <1>10, StoreBegins
  <1>12. /\ Goal' = d3 /\ operand' = n /\ disk' = disk /\ operand = NoName /\ todo = << >>
    BY <1>1, <1>7, <1>8 DEF Goal, Begin, Free
  <1>13. Store!Start(n)
    BY <1>6, <1>12, StartIs
  <1> QED BY <1>11, <1>13

\* and WriteAt.
LEMMA WriteAtStarts ==
    ASSUME StoreInv, NEW n \in Names, NEW position \in Nat, NEW numBytes \in Nat \ {0},
           WriteAt(n, position, numBytes)
    PROVE  StoreOK' /\ Store!Start(n)
  <1> DEFINE h == opened[n]  count == Clipped(h, position, numBytes)
  <1>1. Free /\ h # NoHeader /\ Begin(n, todo') /\ position < h.numBytes
    BY DEF WriteAt, Begin
  <1>2. Goal = disk /\ disk \in Disks /\ Sound(disk) /\ Tidy(disk)
    BY <1>1, FreeDisk DEF StoreInv
  <1>3. Ordered(disk)
    BY <1>2 DEF StoreInv, StoreOK, Fits
  <1>4. h \in AnyHeader /\ FileHeader(h) /\ IsFile(disk, n, h)
    BY <1>1, <1>2, OpenFile DEF StoreInv, FilesOK, FilesInv
  <1>5. count \in Nat \ {0} /\ position + count <= h.numBytes
    BY <1>1, <1>4, ClippedRight
  <1>6. PICK N, f : DisksOfWrite(h, n, position, count, N, f)
    BY <1>2, <1>4, WriteAtWrites
  <1> HIDE DEF h, count
  <1>7. WriteShows(h, n, position, count, N, f)
    BY <1>2, <1>3, <1>4, <1>5, <1>6, WriteFiles
  <1>8. /\ N \in Nat \ {0} /\ todo' = [k \in 1 .. N |-> f[k]] /\ f[0] = disk
        /\ \A k \in 0 .. N : f[k] \in Disks
    BY <1>6, Zenon DEF DisksOfWrite
  <1>9. /\ n \in FilesIn(disk) /\ \A k \in 0 .. N : FilesIn(f[k]) = FilesIn(disk) /\ Ordered(f[k])
        /\ \A m \in FilesIn(disk) \ {n} : Holds(f[N], m) = Holds(disk, m)
        /\ DOMAIN Holds(disk, n) = 1 .. h.numBytes /\ DOMAIN Holds(f[N], n) = 1 .. h.numBytes
        /\ \A i \in 1 .. h.numBytes :
             Holds(f[N], n)[i] = IF i \in position + 1 .. position + count THEN n ELSE Holds(disk, n)[i]
        /\ \A k \in 1 .. N : Advances(f[k - 1], f[k], f[N], n)
    BY <1>7, Zenon DEF WriteShows
  <1>10. /\ todo' \in Seq(Disks) /\ todo' # << >> /\ Len(todo') = N /\ DOMAIN todo' = 1 .. N
         /\ \A k \in 1 .. N : todo'[k] = f[k]
    BY <1>8
  <1>11. todo'[Len(todo')] = f[N] /\ todo'[1] = f[1]
    BY <1>8, <1>10
  <1>12. Advances(disk, todo'[1], todo'[Len(todo')], n)
    <2>1. 1 \in 1 .. N /\ 1 - 1 = 0
      BY <1>8
    <2>2. Advances(f[0], f[1], f[N], n)
      BY <1>9, <2>1
    <2> QED BY <1>8, <1>11, <2>2
  <1>13. ASSUME NEW k \in 1 .. Len(todo') - 1
         PROVE  Advances(todo'[k], todo'[k + 1], todo'[Len(todo')], n)
    <2>1. k \in 1 .. N /\ k + 1 \in 1 .. N /\ (k + 1) - 1 = k
      BY <1>8, <1>10
    <2>2. Advances(f[k], f[k + 1], f[N], n)
      BY <1>9, <2>1
    <2> QED BY <1>10, <1>11, <2>1, <2>2
  <1>14. \A k \in DOMAIN todo' : Fits(todo'[k])
    BY <1>9, <1>10 DEF Fits
  <1>15. StoreOK'
    BY <1>1, <1>10, <1>12, <1>13, <1>14, StoreBegins
  <1>16. /\ Goal' = f[N] /\ operand' = n /\ disk' = disk /\ operand = NoName /\ todo = << >>
    BY <1>1, <1>10, <1>11 DEF Goal, Begin, Free
  <1>17. \E first, last \in DOMAIN Holds(disk, n) : \A i \in DOMAIN Holds(disk, n) :
           Holds(f[N], n)[i] = IF i \in first .. last THEN n ELSE Holds(disk, n)[i]
    <2>1. position + 1 \in 1 .. h.numBytes /\ position + count \in 1 .. h.numBytes
      BY <1>4, <1>5 DEF FileHeader
    <2>2. PICK p, q : p = position + 1 /\ q = position + count
      OBVIOUS
    <2>3. p \in DOMAIN Holds(disk, n) /\ q \in DOMAIN Holds(disk, n)
      BY <1>9, <2>1, <2>2
    <2>4. \A i \in DOMAIN Holds(disk, n) :
            Holds(f[N], n)[i] = IF i \in p .. q THEN n ELSE Holds(disk, n)[i]
      BY <1>9, <2>2
    <2> QED BY <2>3, <2>4, Zenon
  <1>18. FilesIn(f[N]) = FilesIn(disk)
    BY <1>8, <1>9
  <1>19. PICK g : g = f[N]
    OBVIOUS
  <1>20. Store!Start(n)
    <2>1. g = Goal' /\ FilesIn(g) = FilesIn(disk) /\ n \in FilesIn(disk)
      BY <1>9, <1>16, <1>18, <1>19
    <2>2. \A m \in FilesIn(disk) \ {n} : Holds(g, m) = Holds(disk, m)
      BY <1>9, <1>19
    <2>3. DOMAIN Holds(g, n) = DOMAIN Holds(disk, n)
      BY <1>9, <1>19
    <2>4. \E first, last \in DOMAIN Holds(disk, n) : \A i \in DOMAIN Holds(disk, n) :
            Holds(g, n)[i] = IF i \in first .. last THEN n ELSE Holds(disk, n)[i]
      BY <1>17, <1>19
    <2> QED BY <1>16, <2>1, <2>2, <2>3, <2>4, StartIs
  <1> QED BY <1>15, <1>20

\* A sector is written: the rest of the operation's disks are still on the way.
LEMMA WriteSectorAdvances ==
    ASSUME StoreInv, WriteSector
    PROVE  StoreOK' /\ Store!Advance
  <1>1. /\ todo # << >> /\ disk' = Head(todo) /\ todo' = Tail(todo) /\ operand' = operand
        /\ operand # NoName
    BY DEF WriteSector, StoreInv, FilesOK, FilesInv
  <1>2. todo \in Seq(Disks) /\ Len(todo) \in Nat \ {0} /\ DOMAIN todo = 1 .. Len(todo)
    BY <1>1 DEF StoreInv, FilesOK, FilesTyped
  <1>3. /\ disk' = todo[1]
        /\ Len(todo') = Len(todo) - 1 /\ DOMAIN todo' = 1 .. Len(todo) - 1
        /\ todo' # << >> => 1 \in 1 .. Len(todo) - 1
        /\ \A k \in 1 .. Len(todo) - 1 : todo'[k] = todo[k + 1]
    BY <1>1, <1>2
  <1>4. Goal' = Goal
    <2>1. CASE Len(todo) = 1
      BY <1>1, <1>2, <1>3, <2>1 DEF Goal
    <2>2. CASE Len(todo) # 1
      <3>1. Len(todo) - 1 \in 1 .. Len(todo) - 1 /\ (Len(todo) - 1) + 1 = Len(todo)
        BY <1>2, <2>2
      <3>2. todo' # << >> /\ todo'[Len(todo')] = todo[Len(todo)]
        BY <1>3, <3>1
      <3> QED BY <1>1, <3>2 DEF Goal
    <2> QED BY <2>1, <2>2
  <1>5. /\ \A k \in DOMAIN todo : Fits(todo[k])
        /\ Advances(disk, todo[1], Goal, operand)
        /\ \A k \in 1 .. Len(todo) - 1 : Advances(todo[k], todo[k + 1], Goal, operand)
    BY <1>1 DEF StoreInv, StoreOK
  <1>6. Store!Advance
    BY <1>1, <1>3, <1>4, <1>5, AdvanceIs
  <1>7. Fits(disk') /\ \A k \in DOMAIN todo' : Fits(todo'[k])
    <2>1. 1 \in DOMAIN todo /\ \A k \in 1 .. Len(todo) - 1 : k + 1 \in DOMAIN todo
      BY <1>2
    <2> QED BY <1>3, <1>5, <2>1
  <1>8. ASSUME todo' # << >> PROVE Advances(disk', todo'[1], Goal', operand')
    BY <1>1, <1>3, <1>4, <1>5, <1>8
  <1>9. ASSUME NEW k \in 1 .. Len(todo') - 1
        PROVE  Advances(todo'[k], todo'[k + 1], Goal', operand')
    <2>1. k \in 1 .. Len(todo) - 1 /\ k + 1 \in 1 .. Len(todo) - 1
      BY <1>2, <1>3
    <2> QED BY <1>1, <1>3, <1>4, <1>5, <2>1
  <1>10. StoreOK'
    BY <1>7, <1>8, <1>9 DEF StoreOK
  <1> QED BY <1>6, <1>10

\* The store's variables.
storeVars == <<FilesOf(disk), operand,
               FilesOf(IF todo = << >> THEN disk ELSE todo[Len(todo)])>>

\* Steps that leave the disk and its future alone.
LEMMA StoreKept ==
    ASSUME StoreInv, disk' = disk, todo' = todo, operand' = operand
    PROVE  StoreOK' /\ UNCHANGED storeVars
  <1>1. Goal' = Goal
    BY DEF Goal
  <1>2. StoreOK'
    BY <1>1 DEF StoreInv, StoreOK
  <1> QED BY <1>2 DEF storeVars

\* An operation returns when the store is as it was to become; a halt forgets it.
LEMMA ReturnIs ==
    ASSUME StoreInv, OperationReturns
    PROVE  StoreOK' /\ Store!Return
  <1>1. /\ operand # NoName /\ todo = << >> /\ operand' = NoName
        /\ disk' = disk /\ todo' = todo
    BY DEF OperationReturns
  <1>2. Goal = disk /\ Goal' = disk
    BY <1>1 DEF Goal
  <1>3. StoreOK'
    BY <1>1 DEF StoreInv, StoreOK
  <1>4. Store!Return
    BY <1>1, <1>2, GoalIs DEF Store!Return
  <1> QED BY <1>3, <1>4

\* A halt gives up the disks that are not yet written.
LEMMA CrashIs ==
    ASSUME StoreInv, Crash
    PROVE  StoreOK' /\ Store!Crash
  <1>1. todo' = << >> /\ operand' = NoName /\ disk' = disk
    BY DEF Crash
  <1>2. Goal' = disk
    BY <1>1 DEF Goal
  <1>3. StoreOK'
    BY <1>1 DEF StoreInv, StoreOK
  <1>4. Store!Crash
    BY <1>1, <1>2, GoalIs DEF Store!Crash
  <1> QED BY <1>3, <1>4

\* An empty disk is an empty store.
LEMMA StoreInit == Init => StoreInv /\ Store!Init
  <1> SUFFICES ASSUME Init PROVE StoreInv /\ Store!Init
    OBVIOUS
  <1>1. todo = << >> /\ operand = NoName
    BY DEF Init
  <1>2. disk.inUse = [e \in Entries |-> FALSE]
    <2>1. PICK m, u, c, n, h, b :
               /\ disk = DiskOf(m, u, c, n, h, b) /\ u = [e \in Entries |-> FALSE]
      BY Zenon DEF Init, DiskOf
    <2> QED BY <2>1, DiskMade
  <1>3. FilesIn(disk) = {} /\ Ordered(disk)
    BY <1>2 DEF FilesIn, Ordered
  <1>4. StoreOK
    BY <1>1, <1>3 DEF StoreOK, Fits
  <1>5. FilesOf(disk) = << >>
    <2>1. \A d : FilesIn(d) = {} => FilesOf(d) = << >>
      BY DEF FilesOf
    <2> QED BY <1>3, <2>1
  <1>6. Store!Init
    BY <1>1, <1>5 DEF Store!Init
  <1> QED BY <1>4, <1>6, FilesInit DEF StoreInv

\* Every step keeps the invariant, and is the store's or leaves it alone.
LEMMA StoreStep == StoreInv /\ [Next]_vars => StoreInv' /\ [Store!Next]_storeVars
  <1> SUFFICES ASSUME StoreInv, [Next]_vars PROVE StoreOK' /\ [Store!Next]_storeVars
    BY FilesStep DEF StoreInv
  <1>1. ASSUME UNCHANGED <<disk, todo, operand>> PROVE StoreOK' /\ UNCHANGED storeVars
    BY <1>1, StoreKept
  <1>2. ASSUME NEW n \in Names, Store!Start(n) PROVE Store!Next
    BY <1>2 DEF Store!Next
  <1>3. ASSUME NEW n \in Names, Remove(n) PROVE StoreOK' /\ Store!Next
    BY <1>2, <1>3, RemoveStarts
  <1>4. ASSUME NEW n \in Names, Open(n) \/ Close(n) PROVE StoreOK' /\ UNCHANGED storeVars
    BY <1>1, <1>4 DEF Open, Close
  <1>5. ASSUME NEW n \in Names, NEW size \in FileSizes, Create(n, size) PROVE StoreOK' /\ Store!Next
    BY <1>2, <1>5, CreateStarts, FSAssumption DEF FSAssumption
  <1>6. ASSUME NEW n \in Names, NEW w \in Writes, WriteAt(n, w[1], w[2]) PROVE StoreOK' /\ Store!Next
    <2>1. w[1] \in Nat /\ w[2] \in Nat \ {0}
      BY FSAssumption DEF FSAssumption
    <2> QED BY <1>2, <1>6, <2>1, WriteAtStarts
  <1>7. CASE OperationReturns
    BY <1>7, ReturnIs DEF Store!Next
  <1>8. CASE WriteSector
    BY <1>8, WriteSectorAdvances DEF Store!Next
  <1>9. ASSUME NEW r \in Readers, FileRead(r) \/ ReadSector(r) PROVE StoreOK' /\ UNCHANGED storeVars
    BY <1>1, <1>9 DEF FileRead, ReadAt, ReadReturns, ReadSector
  <1>10. CASE HandleInterrupt
    BY <1>1, <1>10 DEF HandleInterrupt, memory
  <1>11. ASSUME NEW t \in Threads, SectorReturns(t) PROVE StoreOK' /\ UNCHANGED storeVars
    BY <1>1, <1>11 DEF SectorReturns, memory
  <1>12. CASE Crash
    BY <1>12, CrashIs DEF Store!Next
  <1>13. CASE UNCHANGED vars
    BY <1>1, <1>13 DEF vars, memory
  <1> QED BY <1>3, <1>4, <1>5, <1>6, <1>7, <1>8, <1>9, <1>10, <1>11, <1>12, <1>13
      DEF Next, WriterStep

\* The file system implements the file store: with any number of sectors, entries and
\* files, whatever is written sector by sector and wherever a halt comes in between, every
\* file but the operation's is as it was, and of that one each byte is old or new.
THEOREM FilesImplemented == Spec => ImplementsFiles
  <1> QED BY StoreInit, StoreStep, PTL DEF Spec, ImplementsFiles, Store!Spec, storeVars
=============================================================================
