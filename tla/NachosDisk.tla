------------------------------ MODULE NachosDisk ------------------------------
(***************************************************************************)
(* The simulated disk of machine/disk.cc: when a request completes, given  *)
(* where the head is, which sectors have passed under it and what its      *)
(* track buffer holds.  Who makes the requests is not in this repository:  *)
(* any sector may be read or written as soon as the disk is not active.    *)
(* What the sectors contain is the UNIX file's business.                   *)
(***************************************************************************)
EXTENDS Integers

CONSTANTS
  SectorsPerTrack, NumTracks,
  SeekTime,        \* ticks from one track to the next
  RotationTime,    \* ticks for a sector to pass under the head
  MaxTicks         \* bound on the clock

NumSectors == SectorsPerTrack * NumTracks
Sector == 0 .. NumSectors - 1

ASSUME DiskAssumption ==
  {SectorsPerTrack, NumTracks, SeekTime, RotationTime} \subseteq Nat \ {0}

VARIABLES
  totalTicks, active, lastSector, bufferInit,
  due,             \* when the pending interrupt comes
  request,         \* the last request: sector, writing, when, and the track the head was on
  settled          \* when the head reached the track before that request

diskVars == <<totalTicks, active, lastSector, bufferInit, due, request, settled>>

-----------------------------------------------------------------------------
Abs(n) == IF n < 0 THEN -n ELSE n
Track(sector) == sector \div SectorsPerTrack

TimeToSeek(newSector) == Abs(Track(newSector) - Track(lastSector)) * SeekTime
Rotation(newSector) ==
  LET over == (totalTicks + TimeToSeek(newSector)) % RotationTime
  IN  IF over > 0 THEN RotationTime - over ELSE 0

ModuloDiff(to, from) ==
  ((to % SectorsPerTrack) - (from % SectorsPerTrack) + SectorsPerTrack) % SectorsPerTrack

InTrackBuffer(newSector, timeAfter) ==
  (timeAfter - bufferInit) \div RotationTime > ModuloDiff(newSector, bufferInit \div RotationTime)

ComputeLatency(newSector, writing) ==
  LET seek      == TimeToSeek(newSector)
      rotation  == Rotation(newSector)
      timeAfter == totalTicks + seek + rotation
  IN  IF ~writing /\ seek = 0 /\ InTrackBuffer(newSector, timeAfter)
      THEN RotationTime
      ELSE seek + rotation + ModuloDiff(newSector, timeAfter \div RotationTime) * RotationTime
             + RotationTime

(* Faulty: the track buffer outlives a seek.                                *)
FaultyUpdateLast(newSector) == lastSector' = newSector /\ UNCHANGED bufferInit

UpdateLast(newSector) ==
  LET seek == TimeToSeek(newSector) IN
  /\ bufferInit' = IF seek # 0 THEN totalTicks + seek + Rotation(newSector) ELSE bufferInit
  /\ lastSector' = newSector

(* ReadRequest and WriteRequest.                                            *)
Request(sector, writing) ==
  /\ ~active /\ active' = TRUE
  /\ due' = totalTicks + ComputeLatency(sector, writing)
  /\ UpdateLast(sector)
  /\ request' = [sector |-> sector, writing |-> writing, at |-> totalTicks,
                 track |-> Track(request.sector)]
  /\ settled' = IF request.track = Track(request.sector) THEN settled
                ELSE request.at + Abs(Track(request.sector) - request.track) * SeekTime
  /\ UNCHANGED totalTicks

HandleInterrupt ==
  /\ active /\ totalTicks = due /\ active' = FALSE
  /\ UNCHANGED <<totalTicks, lastSector, bufferInit, due, request, settled>>

(* The clock does not pass a pending interrupt.                             *)
DiskTick ==
  /\ totalTicks < MaxTicks /\ ~(active /\ totalTicks = due)
  /\ totalTicks' = totalTicks + 1
  /\ UNCHANGED <<active, lastSector, bufferInit, due, request, settled>>

-----------------------------------------------------------------------------
DiskIdle ==
  /\ totalTicks = 0 /\ active = FALSE /\ lastSector = 0 /\ bufferInit = 0
  /\ due = 0 /\ settled = 0
  /\ request = [sector |-> 0, writing |-> FALSE, at |-> 0, track |-> 0]
DiskInit == DiskIdle

DiskNext ==
  \/ \E sector \in Sector, writing \in BOOLEAN : Request(sector, writing)
  \/ HandleInterrupt
  \/ DiskTick

DiskSpec == DiskInit /\ [][DiskNext]_diskVars

-----------------------------------------------------------------------------
(* The k-th sector time is k * RotationTime .. (k + 1) * RotationTime; the  *)
(* sectors of a track pass in turn.                                         *)
Passes(sector, k) == k % SectorsPerTrack = sector % SectorsPerTrack
Arrival == request.at + Abs(Track(request.sector) - request.track) * SeekTime

(* The first sector time at or after t in which the sector passes whole.    *)
FirstPass(sector, t) ==
  CHOOSE k \in 0 .. t \div RotationTime + 1 + SectorsPerTrack :
    /\ Passes(sector, k) /\ k * RotationTime >= t
    /\ \A j \in 0 .. k - 1 : Passes(sector, j) => j * RotationTime < t

(* A read finds its sector in the track buffer if the head has been on the  *)
(* track all the time, and the sector has passed since the head settled     *)
(* there, by the end of the sector that passes now.                         *)
Buffered ==
  /\ ~request.writing /\ Arrival = request.at
  /\ (FirstPass(request.sector, settled) + 1) * RotationTime < request.at + RotationTime

(* A request completes exactly when its sector has passed under the head    *)
(* for the first time after the seek, or after the transfer of one sector   *)
(* if the track buffer has it: never before the disk can have read it, and  *)
(* never a rotation late (ComputeLatency, UpdateLast, whatever the requests *)
(* before and the tick at which this one is made).                          *)
SectorUnderHead ==
  active => due = IF Buffered THEN request.at + RotationTime
                  ELSE (FirstPass(request.sector, Arrival) + 1) * RotationTime
=============================================================================
