------------------------------ MODULE DiskTime ------------------------------
(***************************************************************************)
(* How long a request to the disk takes (machine/disk.cc): the head moves  *)
(* over to the sector's track, the sectors of the track pass below it, one *)
(* in RotationTime ticks, and the track buffer has those that have passed  *)
(* since the head came to the track.                                       *)
(***************************************************************************)
EXTENDS Integers

CONSTANTS SectorsPerTrack, NumTracks,
          SeekTime,       \* ticks to move over one track
          RotationTime,   \* ticks for a sector to pass
          MaxTicks        \* bound: times of a request

DiskTimeAssumption ==
    /\ {SectorsPerTrack, NumTracks, SeekTime, RotationTime} \subseteq Nat \ {0}
    /\ MaxTicks \in Nat
ASSUME DiskTimeAssumption

SectorNumbers == 0 .. SectorsPerTrack * NumTracks - 1
Track(sector) == sector \div SectorsPerTrack
abs(n) == IF n < 0 THEN -n ELSE n

\* TimeToSeek returns how long the seek takes, and how long it is from then to the
\* next sector boundary.
Seek(lastSector, newSector) == abs(Track(newSector) - Track(lastSector)) * SeekTime
Rotation(totalTicks, seek) == LET over == (totalTicks + seek) % RotationTime IN
                              IF over > 0 THEN RotationTime - over ELSE 0

ModuloDiff(to, from) == LET toOffset == to % SectorsPerTrack
                            fromOffset == from % SectorsPerTrack
                        IN  ((toOffset - fromOffset) + SectorsPerTrack) % SectorsPerTrack

\* Of a disk that was last asked for lastSector and whose buffer begins at bufferInit.
InTrackBuffer(disk, newSector, timeAfter) ==
    (timeAfter - disk.bufferInit) \div RotationTime
        > ModuloDiff(newSector, disk.bufferInit \div RotationTime)

ComputeLatency(disk, newSector, writing, totalTicks) ==
    LET seek == Seek(disk.lastSector, newSector)
        rotation == Rotation(totalTicks, seek)
        timeAfter == totalTicks + seek + rotation
    IN  IF ~writing /\ seek = 0 /\ InTrackBuffer(disk, newSector, timeAfter)
        THEN RotationTime
        ELSE seek + rotation + RotationTime
                + ModuloDiff(newSector, timeAfter \div RotationTime) * RotationTime

UpdateLast(disk, newSector, totalTicks) ==
    LET seek == Seek(disk.lastSector, newSector) IN
    [lastSector |-> newSector,
     bufferInit |-> IF seek # 0 THEN totalTicks + seek + Rotation(totalTicks, seek)
                    ELSE disk.bufferInit]

-----------------------------------------------------------------------------
\* Between two times the sector passes below the head, from its first bit to its last.
Passes(sector, from, to) ==
    \E k \in 0 .. to \div RotationTime :
        /\ k % SectorsPerTrack = sector % SectorsPerTrack
        /\ from <= k * RotationTime /\ (k + 1) * RotationTime <= to

\* What a request takes, by the disk that turns: from when the head is on the track
\* until the sector has passed, or the time of one sector when the buffer has it, or is
\* just taking it in. By the time the request is done, and no other can be made
\* before, the buffer has begun at a sector boundary that is not in the future, as the
\* next request takes for granted.
LatencyExact ==
    \A lastSector, newSector \in SectorNumbers, totalTicks \in 0 .. MaxTicks,
       writing \in BOOLEAN :
    \A bufferInit \in {b \in 0 .. totalTicks : b % RotationTime = 0} :
        LET disk == [lastSector |-> lastSector, bufferInit |-> bufferInit]
            latency == ComputeLatency(disk, newSector, writing, totalTicks)
            next == UpdateLast(disk, newSector, totalTicks)
            arrival == totalTicks + Seek(lastSector, newSector)
            buffered == /\ ~writing /\ Track(lastSector) = Track(newSector)
                        /\ Passes(newSector, bufferInit, totalTicks + RotationTime - 1)
        IN  /\ IF buffered
               THEN latency = RotationTime
               ELSE /\ Passes(newSector, arrival, totalTicks + latency)
                    /\ ~Passes(newSector, arrival, totalTicks + latency - 1)
            /\ next.bufferInit % RotationTime = 0
            /\ next.bufferInit <= totalTicks + latency
=============================================================================
