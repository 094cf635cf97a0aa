----------------------------- MODULE BootLoader -----------------------------
(***************************************************************************)
(* read_it of bootsect.S: it loads the image that build.c wrote behind the *)
(* boot sector of a floppy (the system and, right after it, the user       *)
(* program) to memory from 0x10000 on, as much of a track as it can with   *)
(* each BIOS call, without crossing a 64 kB boundary.                      *)
(*                                                                         *)
(* It counts in words of 16 bits, which wrap: how much fits a segment it   *)
(* learns from the flags of an addition.  Place a of the memory is the 512 *)
(* bytes at 0x10000 + 512 * a; sector 0 of the disk is the boot sector.    *)
(***************************************************************************)
EXTENDS Integers

CONSTANTS
  Geometries,   \* sectors per track the boot sector may be built for
  Segments,     \* 64 kB segments between 0x10000 and the boot sector's copy
  Sizes,        \* <<bytes of the system, bytes of the user program>>
  MaxFaults     \* bound on the BIOS calls that fail

ParaPerSector == 32

\* Values of a word, which are also the bytes of a segment, and the sectors of one.
Word16 == 65536
SegSectors == Word16 \div 512

\* A track is shorter than a segment: the bytes of 128 sectors would count as 0.
ASSUME GeometryAssumption ==
  /\ Segments \in Nat \ {0}
  /\ Geometries \subseteq 2..(SegSectors - 1)
  /\ Sizes \subseteq Nat \X Nat
  /\ MaxFaults \in Nat

VARIABLES
  sectors,   \* sectors per track
  size,      \* sizes of the two programs, in bytes
  sread,     \* sectors read of the current track
  head,
  track,
  seg,       \* (es - SYSSEG) / 0x1000
  bx,        \* starting address within the segment
  memory,    \* which sector of the disk each place holds, 0 for none of them
  pc,
  faults     \* auxiliary: BIOS calls that have failed

vars == <<sectors, size, sread, head, track, seg, bx, memory, pc, faults>>

Places == 0..(Segments * SegSectors - 1)

\* syssize, as build writes it: 16 bits.
im_size == ((size[1] + size[2] + 15) \div 16) % 65536

\* SYSSIZE, the most the memory below the boot sector's copy allows for; build
\* defines it too but compares nothing with it.
Fits(s) == s[1] + s[2] <= (Segments * SegSectors - 8) * 512

Init ==
  /\ sectors \in Geometries
  /\ size \in Sizes
  /\ sread = 1
  /\ head = 0
  /\ track = 0
  /\ seg = 0
  /\ bx = 0
  /\ memory = [a \in Places |-> 0]
  /\ pc = "rp_read"
  /\ faults = 0

\* (Variants: the last, incomplete segment is not read; one more is.)
more_to_load_Early == (seg + 1) * SegSectors * ParaPerSector <= im_size
more_to_load_Late == (seg - 1) * SegSectors * ParaPerSector <= im_size

\* have we loaded all yet?
more_to_load == seg * SegSectors * ParaPerSector <= im_size

\* shl 9 and shr 9 of a word, and the carry flag of an addition.
shl9(w) == (w * 512) % Word16
shr9(w) == w \div 512
Carry(v, w) == v + w >= Word16

\* (A variant whose shift is one short, so that the carry comes too late.)
count_ShortShift ==
  LET ax == sectors - sread
      cx == (ax * 256) % Word16
  IN  IF ~ Carry(cx, bx) \/ (cx + bx) % Word16 = 0 THEN ax
      ELSE shr9((0 - bx) % Word16)

\* ok1_read: the sectors of the next call.
count ==
  LET ax == sectors - sread
      cx == shl9(ax)
  IN  IF ~ Carry(cx, bx) \/ (cx + bx) % Word16 = 0 THEN ax
      ELSE shr9((0 - bx) % Word16)

\* The place the next sector goes to, and its number on the disk.
place == seg * SegSectors + bx \div 512
lba == (2 * track + head) * sectors + sread

\* int 0x13; nobody looks at whether it failed.
read_track(n) ==
  \/ /\ memory' = [a \in Places |-> IF a \in place..(place + n - 1)
                                    THEN lba + (a - place) ELSE memory[a]]
     /\ UNCHANGED faults
  \/ /\ faults < MaxFaults
     /\ faults' = faults + 1
     /\ UNCHANGED memory

\* (A variant that takes the other side without moving to the next track.)
next_sectors_SameTrack(n) ==
  \/ sread + n # sectors /\ sread' = sread + n /\ UNCHANGED <<head, track>>
  \/ /\ sread + n = sectors /\ sread' = 0
     /\ head' = 1 - head /\ UNCHANGED track

\* At the end of a track it goes on with the other head, then the next track.
next_sectors(n) ==
  \/ sread + n # sectors /\ sread' = sread + n /\ UNCHANGED <<head, track>>
  \/ /\ sread + n = sectors /\ sread' = 0
     /\ head' = 1 - head
     /\ track' = IF head = 1 THEN track + 1 ELSE track

\* ok3_read: bx moves on; a carry begins the next segment.
next_place(n) ==
  \/ ~ Carry(bx, shl9(n)) /\ bx' = bx + shl9(n) /\ UNCHANGED seg
  \/ Carry(bx, shl9(n)) /\ bx' = 0 /\ seg' = seg + 1

Read ==
  /\ pc = "rp_read" /\ more_to_load
  /\ place < Segments * SegSectors
  /\ read_track(count)
  /\ next_sectors(count)
  /\ next_place(count)
  /\ UNCHANGED <<sectors, size, pc>>

Return ==
  /\ pc = "rp_read" /\ ~ more_to_load
  /\ pc' = "loaded"
  /\ UNCHANGED <<sectors, size, sread, head, track, seg, bx, memory, faults>>

\* The memory below the boot sector's copy is full, and the code that runs is
\* what the next read goes to.
Overwrite ==
  /\ pc = "rp_read" /\ more_to_load
  /\ place >= Segments * SegSectors
  /\ pc' = "overwritten"
  /\ UNCHANGED <<sectors, size, sread, head, track, seg, bx, memory, faults>>

Next == Read \/ Return \/ Overwrite

Spec == Init /\ [][Next]_vars

-----------------------------------------------------------------------------
TypeOK ==
  /\ sectors \in Geometries
  /\ size \in Sizes
  /\ sread \in 0..(sectors - 1)
  /\ head \in {0, 1}
  /\ track \in Nat
  /\ seg \in Nat
  /\ bx \in 0..(Word16 - 1)
  /\ memory \in [Places -> Nat]
  /\ pc \in {"rp_read", "loaded", "overwritten"}
  /\ faults \in 0..MaxFaults

\* However tracks and segments fall, the sectors behind the boot sector lie in
\* memory in the order of the disk, without a gap, up to where the next goes
\* (unless a call has failed, of which the code takes no notice).
SectorsInPlace ==
  faults = 0 =>
    \A a \in Places : memory[a] = IF a < place THEN a + 1 ELSE 0

\* "making sure no 64kB boundaries are crossed", "loading whole tracks whenever we
\* can": what the sums modulo 2^16 make of a track and a place in the segment is
\* a read of something, which ends with the track or with the segment, whichever
\* comes first.
NoBoundaryCrossed ==
  [][Read =>
       /\ 0 < count /\ count <= sectors - sread
       /\ bx + 512 * count <= 65536
       /\ count = sectors - sread \/ bx + 512 * count = 65536]_vars

\* Only an image larger than the boot sector is built for is loaded over its copy.
BootSectorSafe == pc = "overwritten" => ~ Fits(size)

\* When the kernel is entered the last byte of an image that fits is there, if no
\* call has failed.
SystemLoaded ==
  pc = "loaded" /\ faults = 0 /\ Fits(size) =>
    \A a \in Places : 512 * a < size[1] + size[2] => memory[a] = a + 1
=============================================================================
