----------------------------- MODULE BootProofs -----------------------------
(***************************************************************************)
(* The start of ZeOS, for every geometry, every image, every layout of     *)
(* memory and any number of descriptors: the sectors of the image lie in   *)
(* memory in their order as long as no BIOS call has failed and no read    *)
(* crosses the end of a segment; and main leaves the lists, descriptors    *)
(* and page tables that the modules on the running system start from.      *)
(***************************************************************************)
EXTENDS KernelStart, FiniteSetTheorems, WellFoundedInduction, TLAPS

-----------------------------------------------------------------------------
(***************************************************************************)
(* Part one: the loader                                                    *)
(***************************************************************************)

\* It loads whole sectors.
Aligned == bx % 512 = 0

\* The variables that count, typed.
Counting ==
  /\ sectors \in Nat /\ sectors >= 2 /\ sectors < 128
  /\ sread \in 0..(sectors - 1)
  /\ head \in {0, 1}
  /\ track \in Nat
  /\ seg \in Nat
  /\ bx \in Nat /\ bx < 65536 /\ Aligned
  /\ faults \in Nat

\* What is loaded next is what comes next on the disk.
InStep == place = lba - 1

IInv == Counting /\ InStep /\ SectorsInPlace

\* The constants are numbers.
LEMMA Constants ==
  Word16 = 65536 /\ SegSectors = 128 /\ Segments \in Nat /\ Places \subseteq Nat
<1>1. Word16 = 65536 /\ SegSectors = 128 /\ Segments \in Nat
  BY GeometryAssumption DEF Word16, SegSectors
<1> QED
  BY <1>1 DEF Places

\* The words of the loader do not wrap: a track is shorter than a segment.
LEMMA Words ==
  ASSUME NEW n \in Nat, n < 128
  PROVE  shl9(n) = 512 * n
BY Constants DEF shl9

\* Whole sectors of bytes, and the sectors of a segment.
LEMMA Bytes ==
  /\ \A b \in Nat : (512 * b) \div 512 = b /\ (512 * b) % 512 = 0
  /\ \A v \in Nat : v < 65536 => v \div 512 \in Nat /\ v \div 512 < 128
<1>1. ASSUME NEW b \in Nat PROVE (512 * b) \div 512 = b /\ (512 * b) % 512 = 0
  OBVIOUS
<1>2. ASSUME NEW v \in Nat, v < 65536 PROVE v \div 512 \in Nat /\ v \div 512 < 128
  <2> DEFINE q == v \div 512
  <2>1. q \in Int /\ 512 * q <= v /\ v < 512 * q + 512
    OBVIOUS
  <2> HIDE DEF q
  <2>2. q \in Nat /\ q < 128
    BY <2>1, <1>2
  <2> QED
    BY <2>2 DEF q
<1> QED
  BY <1>1, <1>2

\* A read is of at least one sector, within the track and the segment, and reaches
\* the end of one of them: with a carry the sum was past the end of the segment,
\* and what is left of it is what bx lacks to 2^16.
LEMMA CountFits ==
  ASSUME Counting
  PROVE  /\ count \in Nat /\ 0 < count /\ count <= sectors - sread
         /\ bx + 512 * count <= 65536
         /\ count = sectors - sread \/ bx + 512 * count = 65536
<1> DEFINE ax == sectors - sread
<1>1. ax \in Nat /\ 0 < ax /\ ax < 128
  BY Constants DEF Counting
<1>2. bx \in Nat /\ bx < 65536 /\ bx % 512 = 0
  BY DEF Counting, Aligned
<1>3. shl9(ax) = 512 * ax
  BY <1>1, Words
<1>4. count = IF ~ Carry(shl9(ax), bx) \/ (shl9(ax) + bx) % Word16 = 0 THEN ax
              ELSE shr9((0 - bx) % Word16)
  BY DEF count
<1> HIDE DEF ax
<1>5. CASE ~ Carry(shl9(ax), bx)
  <2>1. count = ax /\ bx + 512 * ax < 65536
    BY <1>1, <1>2, <1>3, <1>4, <1>5, Constants DEF Carry
  <2> QED
    BY <2>1, <1>1, <1>2 DEF ax
<1>6. CASE Carry(shl9(ax), bx) /\ (shl9(ax) + bx) % Word16 = 0
  <2>1. 512 * ax + bx >= 65536 /\ (512 * ax + bx) % 65536 = 0
    BY <1>3, <1>6, Constants DEF Carry
  <2>2. bx + 512 * ax = 65536
    BY <2>1, <1>1, <1>2
  <2>3. count = ax
    BY <1>4, <1>6
  <2> QED
    BY <2>2, <2>3, <1>1 DEF ax
<1>7. CASE Carry(shl9(ax), bx) /\ (shl9(ax) + bx) % Word16 # 0
  <2>1. 512 * ax + bx > 65536
    BY <1>1, <1>2, <1>3, <1>7, Constants DEF Carry
  <2>2. count = ((0 - bx) % 65536) \div 512
    BY <1>4, <1>7, Constants DEF shr9
  <2>3. (0 - bx) % 65536 = 65536 - bx
    BY <2>1, <1>1, <1>2
  <2>4. count = (65536 - bx) \div 512
    BY <2>2, <2>3
  <2>5. count \in Nat /\ 512 * count = 65536 - bx
    BY <2>4, <1>2
  <2> QED
    BY <2>1, <2>5, <1>1, <1>2 DEF ax
<1> QED
  BY <1>5, <1>6, <1>7

\* Place and sector are numbers.
LEMMA PlaceTyped == ASSUME Counting PROVE place \in Nat /\ lba \in Nat
<1>1. \A x, y \in Nat : x * y \in Nat
  OBVIOUS
<1>2. seg * SegSectors \in Nat /\ (2 * track + head) * sectors \in Nat
  BY <1>1, Constants DEF Counting
<1>3. bx \div 512 \in Nat
  BY Constants DEF Counting
<1> QED
  BY <1>2, <1>3 DEF Counting, place, lba

\* The invariant holds at the start.
LEMMA InitIInv == Init => IInv
<1> SUFFICES ASSUME Init PROVE IInv
  OBVIOUS
<1>1. Counting
  BY GeometryAssumption, Constants DEF Init, Counting, Aligned
<1>2. place = 0 /\ lba = 1
  BY <1>1, Constants DEF Init, Counting, place, lba
<1>3. SectorsInPlace
  BY <1>2, Constants DEF Init, SectorsInPlace
<1> QED
  BY <1>1, <1>2, <1>3 DEF IInv, InStep

\* A read leaves both the place and the sector as many further as it read.
LEMMA Advance ==
  ASSUME Counting, next_sectors(count), next_place(count),
         sectors' = sectors, faults' \in Nat
  PROVE  Counting' /\ place' = place + count /\ lba' = lba + count
<1> USE Constants
<1> DEFINE n == count
           b == bx \div 512
<1>1. n \in Nat /\ 0 < n /\ n <= sectors - sread /\ bx + 512 * n <= 65536
  BY CountFits
<1>2. next_sectors(n) /\ next_place(n)
  OBVIOUS
<1> HIDE DEF n
<1>0. shl9(n) = 512 * n
  BY <1>1, Words DEF Counting
<1>b. b \in Nat /\ bx = 512 * b
  BY DEF Counting, Aligned
<1>m. \/ bx + 512 * n < 65536 /\ bx' = bx + 512 * n /\ UNCHANGED seg
      \/ bx + 512 * n = 65536 /\ bx' = 0 /\ seg' = seg + 1
  BY <1>0, <1>1, <1>2 DEF next_place, Carry, Counting
<1>3. Counting'
  <2>0. \E c \in Nat : bx' = 512 * c /\ bx' < 65536
    <3>1. 512 * 0 = 0 /\ 512 * (b + n) = bx + 512 * n /\ b + n \in Nat
      BY <1>1, <1>b
    <3> QED
      BY <1>m, <3>1
  <2>1. bx' \in Nat /\ bx' < 65536 /\ Aligned'
    BY <2>0, Bytes DEF Aligned
  <2>3. seg' \in Nat
    BY <1>m DEF Counting
  <2>2. sread' \in 0..(sectors' - 1) /\ head' \in {0, 1} /\ track' \in Nat
    BY <1>1, <1>2 DEF Counting, next_sectors
  <2> QED
    <3>1. sectors' \in Nat /\ sectors' >= 2 /\ sectors' < 128
      BY DEF Counting
    <3> QED
      BY <2>1, <2>2, <2>3, <3>1 DEF Counting
<1>4. \A x, y \in Nat : (x + 1) * y = x * y + y
  OBVIOUS
<1>5. place' = place + n
  <2>1. seg * SegSectors \in Nat /\ (seg + 1) * SegSectors = seg * SegSectors + SegSectors
    BY <1>4 DEF Counting
  <2>0. place = seg * SegSectors + b
    BY DEF place
  <2>2. CASE bx + 512 * n < 65536 /\ bx' = bx + 512 * n /\ UNCHANGED seg
    <3>1. bx' \div 512 = b + n
      BY <2>2, <1>1, <1>b
    <3> QED
      BY <2>0, <2>1, <2>2, <3>1, <1>1, <1>b DEF place
  <2>3. CASE bx + 512 * n = 65536 /\ bx' = 0 /\ seg' = seg + 1
    <3>1. b + n = SegSectors /\ bx' \div 512 = 0
      BY <2>3, <1>1, <1>b
    <3> QED
      BY <2>0, <2>1, <2>3, <3>1, <1>1, <1>b DEF place
  <2> QED
    BY <1>m, <2>2, <2>3
<1>6. lba' = lba + n
  <2> DEFINE m == 2 * track + head
  <2>1. m \in Nat /\ m * sectors \in Nat /\ (m + 1) * sectors = m * sectors + sectors
    BY <1>4 DEF Counting
  <2>2. CASE sread + n # sectors /\ sread' = sread + n /\ UNCHANGED <<head, track>>
    BY <2>1, <2>2, <1>1 DEF Counting, lba
  <2>3. CASE /\ sread + n = sectors /\ sread' = 0
             /\ head' = 1 - head
             /\ track' = IF head = 1 THEN track + 1 ELSE track
    <3>1. 2 * track' + head' = m + 1
      BY <2>3 DEF Counting
    <3>2. lba' = (m + 1) * sectors
      BY <2>1, <2>3, <3>1 DEF Counting, lba
    <3> QED
      BY <2>1, <2>3, <3>2, <1>1 DEF Counting, lba
  <2> QED
    BY <1>2, <2>2, <2>3 DEF next_sectors
<1> QED
  BY <1>3, <1>5, <1>6 DEF n

\* Every step keeps the invariant.
LEMMA StepIInv == IInv /\ [Next]_vars => IInv'
<1> SUFFICES ASSUME IInv, [Next]_vars PROVE IInv'
  OBVIOUS
<1> USE DEF IInv
<1>1. CASE Read
  <2>0. faults' \in Nat /\ (faults' = 0 => faults = 0)
    BY <1>1 DEF Read, read_track, Counting
  <2>1. Counting' /\ place' = place + count /\ lba' = lba + count
    BY <1>1, <2>0, Advance DEF Read
  <2>2. count \in Nat /\ place \in Nat /\ lba \in Nat
    BY CountFits, PlaceTyped
  <2>3. faults' = 0 => memory' = [a \in Places |-> IF a \in place..(place + count - 1)
                                    THEN lba + (a - place) ELSE memory[a]]
    BY <1>1 DEF Read, read_track, Counting
  <2> HIDE DEF count, place, lba
  <2>4. SectorsInPlace'
    <3> SUFFICES ASSUME faults' = 0, NEW a \in Places
                 PROVE  memory'[a] = IF a < place' THEN a + 1 ELSE 0
      BY DEF SectorsInPlace, Places
    <3>1. a \in Nat /\ memory[a] = IF a < place THEN a + 1 ELSE 0
      BY <2>0, Constants DEF SectorsInPlace
    <3>2. memory'[a] = IF a \in place..(place + count - 1)
                       THEN lba + (a - place) ELSE memory[a]
      BY <2>3
    <3> QED
      BY <2>1, <2>2, <3>1, <3>2 DEF InStep
  <2> QED
    BY <2>1, <2>2, <2>4 DEF InStep
<1>2. CASE Return \/ Overwrite \/ UNCHANGED vars
  <2>1. UNCHANGED <<sectors, sread, head, track, seg, bx, memory, faults>>
    BY <1>2 DEF Return, Overwrite, vars
  <2>2. Counting'
    BY <2>1 DEF Counting, Aligned
  <2>3. place' = place /\ lba' = lba
    BY <2>1 DEF place, lba
  <2>4. InStep' /\ SectorsInPlace'
    BY <2>1, <2>3 DEF InStep, SectorsInPlace, Places
  <2> QED
    BY <2>2, <2>4
<1> QED
  BY <1>1, <1>2 DEF Next

\* The invariant holds.
LEMMA IInvHolds == Spec => []IInv
BY InitIInv, StepIInv, PTL DEF Spec

\* The image arrives in its order and without a gap, on every geometry, as long
\* as no BIOS call has failed.
THEOREM LoadedInOrder == Spec => []SectorsInPlace
<1>1. IInv => SectorsInPlace
  BY DEF IInv
<1> QED
  BY <1>1, IInvHolds, PTL

\* The variables that count keep their ranges, whether calls fail or not.
LEMMA CountingHolds == Spec => []Counting
<1>1. Init => Counting
  BY InitIInv DEF IInv
<1>2. Counting /\ [Next]_vars => Counting'
  <2>1. ASSUME Counting, Read PROVE Counting'
    <3>1. faults' \in Nat
      BY <2>1 DEF Read, read_track, Counting
    <3> QED
      BY <2>1, <3>1, Advance DEF Read
  <2>2. ASSUME Counting, Return \/ Overwrite \/ UNCHANGED vars PROVE Counting'
    BY <2>2 DEF Return, Overwrite, vars, Counting, Aligned
  <2> QED
    BY <2>1, <2>2 DEF Next
<1> QED
  BY <1>1, <1>2, PTL DEF Spec

\* The loader's 16-bit sums never ask a BIOS call to cross a 64 kB boundary, nor
\* the end of a track, nor to stop short of both, whether calls fail or not.
THEOREM BoundaryKept == Spec => NoBoundaryCrossed
<1>1. Counting /\ [Next]_vars =>
        [Read => /\ 0 < count /\ count <= sectors - sread
                 /\ bx + 512 * count <= 65536
                 /\ count = sectors - sread \/ bx + 512 * count = 65536]_vars
  BY CountFits
<1> QED
  BY <1>1, CountingHolds, PTL DEF Spec, NoBoundaryCrossed

\* What the loader reads, how often it may fail, and where it is.
Loading ==
  /\ sectors \in Geometries /\ size \in Sizes
  /\ memory \in [Places -> Nat]
  /\ pc \in {"rp_read", "loaded", "overwritten"}
  /\ faults \in 0..MaxFaults

\* read_it keeps its counters within the track, the segment and the sides of the
\* disk, whatever the geometry and whether calls fail or not.
THEOREM LoaderTyped == Spec => []TypeOK
<1>1. Init => Loading
  BY GeometryAssumption DEF Init, Loading
<1>2. Counting /\ Loading /\ [Next]_vars => Loading'
  <2> SUFFICES ASSUME Counting, Loading, [Next]_vars PROVE Loading'
    OBVIOUS
  <2>1. CASE Read
    <3>1. place \in Nat /\ lba \in Nat /\ count \in Nat
      BY PlaceTyped, CountFits
    <3>2. \A a \in Places : a \in place..(place + count - 1) => lba + (a - place) \in Nat
      BY <3>1
    <3>3. memory' \in [Places -> Nat] /\ faults' \in 0..MaxFaults
      BY <2>1, <3>2, GeometryAssumption DEF Read, read_track, Loading
    <3> QED
      BY <2>1, <3>3 DEF Read, Loading
  <2>2. CASE Return \/ Overwrite \/ UNCHANGED vars
    BY <2>2 DEF Return, Overwrite, vars, Loading
  <2> QED
    BY <2>1, <2>2 DEF Next
<1>3. Counting /\ Loading => TypeOK
  <2> SUFFICES ASSUME Counting, Loading PROVE TypeOK
    OBVIOUS
  <2>1. bx \in 0..(Word16 - 1)
    <3>1. bx \in Nat /\ bx < Word16 /\ Word16 \in Nat
      BY Constants DEF Counting
    <3> QED
      BY <3>1
  <2>2. sread \in 0..(sectors - 1) /\ head \in {0, 1} /\ track \in Nat /\ seg \in Nat
    BY DEF Counting
  <2> QED
    BY <2>1, <2>2 DEF Loading, TypeOK
<1> QED
  BY <1>1, <1>2, <1>3, CountingHolds, PTL DEF Spec

\* A place past the memory is in a segment past it.
LEMMA PastTheMemory ==
  ASSUME Counting, place >= Segments * SegSectors
  PROVE  seg >= Segments
<1> USE Constants
<1> SUFFICES ASSUME seg < Segments PROVE FALSE
  BY DEF Counting
<1>1. \A x, y, n \in Nat : x < n => x * y + y <= n * y
  <2> SUFFICES ASSUME NEW x \in Nat, NEW y \in Nat, NEW n \in Nat, x < n
               PROVE  x * y + y <= n * y
    OBVIOUS
  <2> DEFINE d == n - x - 1
  <2>1. d \in Nat /\ n = x + 1 + d
    OBVIOUS
  <2>2. d * y \in Nat /\ x * y \in Nat
    BY <2>1
  <2>3. n * y = x * y + y + d * y
    BY <2>1
  <2> QED
    BY <2>2, <2>3
<1>2. seg * SegSectors + SegSectors <= Segments * SegSectors
  BY <1>1 DEF Counting
<1>3. seg * SegSectors \in Nat /\ Segments * SegSectors \in Nat
  BY DEF Counting
<1>4. bx \div 512 \in Nat /\ bx \div 512 < SegSectors
  BY Bytes DEF Counting
<1> QED
  BY <1>2, <1>3, <1>4 DEF Counting, place

\* The boot sector that runs is loaded over only if the image is longer than it
\* is built for.
THEOREM BootSectorKept == Spec => []BootSectorSafe
<1> DEFINE Safe == size \in Nat \X Nat /\ BootSectorSafe
<1>1. Init => Safe
  BY GeometryAssumption DEF Init, BootSectorSafe
<1>2. Counting /\ Safe /\ [Next]_vars => Safe'
  <2> SUFFICES ASSUME Counting, Safe, [Next]_vars PROVE Safe'
    OBVIOUS
  <2>1. CASE Read \/ Return \/ UNCHANGED vars
    BY <2>1 DEF Read, Return, vars, BootSectorSafe, Fits
  <2>2. CASE Overwrite
    <3> SUFFICES ASSUME Fits(size) PROVE FALSE
      BY <2>2 DEF Overwrite, BootSectorSafe, Fits
    <3> DEFINE s == size[1] + size[2]
               whole == Segments * SegSectors
               begun == seg * SegSectors
    <3>1. s \in Nat /\ whole \in Nat /\ begun \in Nat
      <4>1. \A x, y \in Nat : x * y \in Nat
        OBVIOUS
      <4> QED
        BY <4>1, Constants DEF Counting
    <3>2. seg >= Segments
      BY <2>2, PastTheMemory DEF Overwrite
    <3>3. whole <= begun
      <4>1. \A x, y, n \in Nat : n <= x => n * y <= x * y
        <5> SUFFICES ASSUME NEW x \in Nat, NEW y \in Nat, NEW n \in Nat, n <= x
                     PROVE  n * y <= x * y
          OBVIOUS
        <5>1. (x - n) * y \in Nat /\ x * y = n * y + (x - n) * y
          OBVIOUS
        <5> QED
          BY <5>1
      <4> QED
        BY <4>1, <3>2, Constants DEF Counting
    <3>4. begun * 32 <= ((s + 15) \div 16) % 65536 /\ s <= (whole - 8) * 512
      BY <2>2 DEF Overwrite, more_to_load, im_size, ParaPerSector, Fits
    <3> HIDE DEF s, whole, begun
    <3>5. \A x, w, b \in Nat :
            ~ (b * 32 <= ((x + 15) \div 16) % 65536 /\ x <= (w - 8) * 512 /\ w <= b)
      <4> SUFFICES ASSUME NEW x \in Nat, NEW w \in Nat, NEW b \in Nat,
                          b * 32 <= ((x + 15) \div 16) % 65536,
                          x <= (w - 8) * 512, w <= b
                   PROVE  FALSE
        OBVIOUS
      <4> DEFINE q == (x + 15) \div 16
      <4>1. q \in Nat /\ 16 * q <= x + 15
        OBVIOUS
      <4>2. q % 65536 <= q
        BY <4>1
      <4> QED
        BY <4>1, <4>2
    <3> QED
      BY <3>1, <3>3, <3>4, <3>5
  <2> QED
    BY <2>1, <2>2 DEF Next
<1> QED
  BY <1>1, <1>2, CountingHolds, PTL DEF Spec

\* The 16 bits of syssize hold every size that fits below the boot sector.
SmallMemory == Segments * SegSectors <= 2048

\* All that is left to show when read_it returns.
AllRead == pc = "loaded" => ~ more_to_load

Sized ==
  /\ size[1] \in Nat /\ size[2] \in Nat
  /\ pc \in {"rp_read", "loaded", "overwritten"}

\* Once nothing is left to load, all of the image is there.
LEMMA LoadedMeansRead ==
  ASSUME SmallMemory, IInv, Sized, AllRead
  PROVE  SystemLoaded
<1> SUFFICES ASSUME pc = "loaded", faults = 0, Fits(size), NEW a \in Places,
                    512 * a < size[1] + size[2]
             PROVE  memory[a] = a + 1
  BY DEF SystemLoaded
<1> DEFINE s == size[1] + size[2]
           whole == Segments * SegSectors
<1>1. s \in Nat /\ whole \in Nat /\ s <= (whole - 8) * 512 /\ whole <= 2048
  <2>1. \A x, y \in Nat : x * y \in Nat
    OBVIOUS
  <2>2. whole \in Nat
    BY <2>1, Constants
  <2> QED
    BY <2>2 DEF Sized, Fits, SmallMemory
<1>2. seg * SegSectors \in Nat /\ seg * SegSectors <= place
  <2>1. \A x, y \in Nat : x * y \in Nat
    OBVIOUS
  <2>2. seg * SegSectors \in Nat
    BY <2>1, Constants DEF IInv, Counting
  <2> QED
    BY <2>2 DEF IInv, Counting, place
<1>3. ~ (seg * SegSectors * ParaPerSector <= ((s + 15) \div 16) % 65536)
  BY DEF AllRead, more_to_load, im_size
<1> DEFINE begun == seg * SegSectors
<1>4. a \in Nat
  BY Constants
<1>5. place \in Nat
  BY PlaceTyped DEF IInv
<1> HIDE DEF s, whole, begun, place
<1>6. \A x, w, b, y \in Nat :
        /\ x <= (w - 8) * 512 /\ w <= 2048
        /\ ~ (b * 32 <= ((x + 15) \div 16) % 65536)
        /\ 512 * y < x
        => y < b
  <2> SUFFICES ASSUME NEW x \in Nat, NEW w \in Nat, NEW b \in Nat, NEW y \in Nat,
                      x <= (w - 8) * 512, w <= 2048,
                      ~ (b * 32 <= ((x + 15) \div 16) % 65536),
                      512 * y < x
               PROVE  y < b
    OBVIOUS
  <2> DEFINE q == (x + 15) \div 16
  <2>1. q \in Nat /\ q < 65536 /\ 16 * q >= x
    OBVIOUS
  <2>2. q % 65536 = q
    BY <2>1
  <2> QED
    BY <2>1, <2>2
<1>7. a < begun
  BY <1>1, <1>2, <1>3, <1>4, <1>6 DEF s, begun, ParaPerSector
<1>8. a < place
  BY <1>2, <1>4, <1>5, <1>7 DEF begun
<1> QED
  BY <1>8 DEF IInv, SectorsInPlace

\* When the system is entered after reads that all succeeded, all of it and of
\* the user program is in memory, whatever its size below what fits.
THEOREM LoadedWhole ==
  ASSUME SmallMemory
  PROVE  Spec => []SystemLoaded
<1> DEFINE Finished == Sized /\ AllRead
<1>1. Init => Finished
  BY GeometryAssumption DEF Init, Sized, AllRead
<1>2. Finished /\ [Next]_vars => Finished'
  <2> SUFFICES ASSUME Finished, [Next]_vars PROVE Finished'
    OBVIOUS
  <2>1. CASE Read
    BY <2>1 DEF Read, Sized, AllRead
  <2>2. CASE Return \/ Overwrite
    BY <2>2 DEF Return, Overwrite, Sized, AllRead, more_to_load, im_size
  <2>3. CASE UNCHANGED vars
    BY <2>3 DEF vars, Sized, AllRead, more_to_load, im_size
  <2> QED
    BY <2>1, <2>2, <2>3 DEF Next
<1>3. IInv /\ Finished => SystemLoaded
  BY LoadedMeansRead
<1> HIDE DEF Finished
<1> QED
  BY <1>1, <1>2, <1>3, IInvHolds, PTL DEF Spec

-----------------------------------------------------------------------------
(***************************************************************************)
(* Part two: main.  First the list_head structs: what INIT_LIST_HEAD,      *)
(* list_add_tail and list_del make of a freequeue that holds its slots in  *)
(* order.                                                                  *)
(***************************************************************************)

\* The slots and the three heads are different cells.
LEMMA Layout ==
  /\ NR_TASKS \in Nat /\ NR_TASKS >= 2 /\ Slots = 0..(NR_TASKS - 1)
  /\ Sched!Slots = Slots /\ Sched!Cells = Slots \cup {freequeue, readyqueue, console_blocked}
  /\ freequeue \notin Slots /\ readyqueue \notin Slots /\ console_blocked \notin Slots
  /\ NULL \notin Sched!Cells
  /\ freequeue # readyqueue /\ freequeue # console_blocked /\ readyqueue # console_blocked
BY StartAssumption DEF Mem!SlotAssumption, Sched!SlotAssumption, Slots, Mem!Slots, Sched!Slots,
   Sched!Cells, Sched!Heads

\* The pointers when the freequeue holds the slots a to n - 1 in order, the
\* lists in empty are empty, and nothing else is linked.
Forth(a, n, empty) ==
  [c \in Sched!Cells |->
     IF c = freequeue THEN (IF a < n THEN a ELSE freequeue)
     ELSE IF c \in empty THEN c
     ELSE IF c \in a..(n - 1) THEN (IF c = n - 1 THEN freequeue ELSE c + 1)
     ELSE NULL]
Back(a, n, empty) ==
  [c \in Sched!Cells |->
     IF c = freequeue THEN (IF a < n THEN n - 1 ELSE freequeue)
     ELSE IF c \in empty THEN c
     ELSE IF c \in a..(n - 1) THEN (IF c = a THEN freequeue ELSE c - 1)
     ELSE NULL]
FreeHeap(a, n, empty) == [next |-> Forth(a, n, empty), prev |-> Back(a, n, empty)]

\* The pointers are functions on the cells.
LEMMA Pointers ==
  ASSUME NEW a, NEW n, NEW E
  PROVE  /\ Forth(a, n, E) = [c \in Sched!Cells |-> Forth(a, n, E)[c]]
         /\ Back(a, n, E) = [c \in Sched!Cells |-> Back(a, n, E)[c]]
BY DEF Forth, Back

\* What the pointers of each cell are.
LEMMA LinkValues ==
  ASSUME NEW a \in Nat, NEW n \in 0..NR_TASKS, NEW E,
         E \subseteq {readyqueue, console_blocked}
  PROVE  /\ a..(n - 1) \subseteq Slots
         /\ Forth(a, n, E)[freequeue] = IF a < n THEN a ELSE freequeue
         /\ Back(a, n, E)[freequeue] = IF a < n THEN n - 1 ELSE freequeue
         /\ \A l \in E : Forth(a, n, E)[l] = l /\ Back(a, n, E)[l] = l
         /\ \A c \in a..(n - 1) :
              /\ Forth(a, n, E)[c] = IF c = n - 1 THEN freequeue ELSE c + 1
              /\ Back(a, n, E)[c] = IF c = a THEN freequeue ELSE c - 1
         /\ \A c \in Sched!Cells \ (a..(n - 1) \cup E \cup {freequeue}) :
              Forth(a, n, E)[c] = NULL /\ Back(a, n, E)[c] = NULL
<1>1. a..(n - 1) \subseteq Slots
  BY Layout
<1>2. freequeue \notin E /\ freequeue \in Sched!Cells /\ E \subseteq Sched!Cells
      /\ E \cap Slots = {} /\ Slots \subseteq Sched!Cells
  BY Layout
<1>3. ASSUME NEW c \in a..(n - 1)
      PROVE  /\ Forth(a, n, E)[c] = IF c = n - 1 THEN freequeue ELSE c + 1
             /\ Back(a, n, E)[c] = IF c = a THEN freequeue ELSE c - 1
  <2>1. c # freequeue /\ c \notin E /\ c \in Sched!Cells
    BY <1>1, <1>2, Layout
  <2> QED
    BY <2>1 DEF Forth, Back
<1>4. ASSUME NEW l \in E PROVE Forth(a, n, E)[l] = l /\ Back(a, n, E)[l] = l
  BY <1>2 DEF Forth, Back
<1>5. ASSUME NEW c \in Sched!Cells \ (a..(n - 1) \cup E \cup {freequeue})
      PROVE  Forth(a, n, E)[c] = NULL /\ Back(a, n, E)[c] = NULL
  BY DEF Forth, Back
<1>6. /\ Forth(a, n, E)[freequeue] = IF a < n THEN a ELSE freequeue
      /\ Back(a, n, E)[freequeue] = IF a < n THEN n - 1 ELSE freequeue
  BY <1>2 DEF Forth, Back
<1> QED
  BY <1>1, <1>3, <1>4, <1>5, <1>6

\* Two stores, in this order.
LEMMA TwoStores ==
  ASSUME NEW f, f = [c \in Sched!Cells |-> f[c]],
         NEW x \in Sched!Cells, NEW y \in Sched!Cells, NEW v, NEW w
  PROVE  LET g == [f EXCEPT ![x] = v, ![y] = w]
         IN  /\ g = [c \in Sched!Cells |-> g[c]]
             /\ g[y] = w /\ (x # y => g[x] = v)
             /\ \A c \in Sched!Cells \ {x, y} : g[c] = f[c]
OBVIOUS

\* Two maps on the cells that agree on all of them are the same.
LEMMA SameFunction ==
  ASSUME NEW f, NEW g, f = [c \in Sched!Cells |-> f[c]], g = [c \in Sched!Cells |-> g[c]],
         \A c \in Sched!Cells : f[c] = g[c]
  PROVE  f = g
OBVIOUS

\* INIT_LIST_HEAD on the zeros of .bss.
LEMMA NothingFree == INIT_LIST_HEAD(Loaded.heap, freequeue) = FreeHeap(0, 0, {})
<1> DEFINE null == [c \in Sched!Cells |-> NULL]
           f == [null EXCEPT ![freequeue] = freequeue]
<1>1. INIT_LIST_HEAD(Loaded.heap, freequeue) = [next |-> f, prev |-> f]
  BY DEF INIT_LIST_HEAD, Loaded
<1>2. \A c \in Sched!Cells : f[c] = Forth(0, 0, {})[c] /\ f[c] = Back(0, 0, {})[c]
  BY Layout DEF Forth, Back
<1>3. f = [c \in Sched!Cells |-> f[c]]
  OBVIOUS
<1> HIDE DEF f
<1>4. f = Forth(0, 0, {}) /\ f = Back(0, 0, {})
  BY <1>2, <1>3, Pointers, SameFunction
<1> QED
  BY <1>1, <1>4 DEF FreeHeap

\* list_add_tail of the next slot.
LEMMA FreeOne ==
  ASSUME NEW n \in 0..(NR_TASKS - 1)
  PROVE  Sched!ListAddTail(FreeHeap(0, n, {}), n, freequeue) = FreeHeap(0, n + 1, {})
<1> DEFINE p == IF n = 0 THEN freequeue ELSE n - 1
           before == Forth(0, n, {})
           f == [before EXCEPT ![n] = freequeue, ![p] = n]
           b == [Back(0, n, {}) EXCEPT ![freequeue] = n, ![n] = p]
           after == Forth(0, n + 1, {})
           behind == Back(0, n + 1, {})
<1>1. /\ n \in Int /\ n >= 0 /\ n \in 0..NR_TASKS /\ n + 1 \in 0..NR_TASKS
      /\ n \in Sched!Cells /\ p \in Sched!Cells /\ freequeue \in Sched!Cells
      /\ n # freequeue /\ p # n
  BY Layout
<1>2. Back(0, n, {})[freequeue] = p
  BY <1>1, LinkValues
<1>3. Sched!ListAddTail(FreeHeap(0, n, {}), n, freequeue) = [next |-> f, prev |-> b]
  BY <1>2 DEF Sched!ListAddTail, Sched!InsertBetween, FreeHeap
<1>4. /\ f = [c \in Sched!Cells |-> f[c]] /\ f[p] = n /\ f[n] = freequeue
      /\ \A c \in Sched!Cells \ {n, p} : f[c] = before[c]
  BY <1>1, Pointers, TwoStores
<1>5. /\ b = [c \in Sched!Cells |-> b[c]] /\ b[n] = p /\ b[freequeue] = n
      /\ \A c \in Sched!Cells \ {freequeue, n} : b[c] = Back(0, n, {})[c]
  BY <1>1, Pointers, TwoStores
<1>6. /\ before[freequeue] = IF 0 < n THEN 0 ELSE freequeue
      /\ \A c \in 0..(n - 1) : before[c] = (IF c = n - 1 THEN freequeue ELSE c + 1)
                               /\ Back(0, n, {})[c] = (IF c = 0 THEN freequeue ELSE c - 1)
      /\ \A c \in Sched!Cells \ (0..(n - 1) \cup {freequeue}) :
           before[c] = NULL /\ Back(0, n, {})[c] = NULL
  BY <1>1, LinkValues
<1>7. /\ after[freequeue] = 0 /\ behind[freequeue] = n
      /\ \A c \in 0..n : after[c] = (IF c = n THEN freequeue ELSE c + 1)
                         /\ behind[c] = (IF c = 0 THEN freequeue ELSE c - 1)
      /\ \A c \in Sched!Cells \ (0..n \cup {freequeue}) :
           after[c] = NULL /\ behind[c] = NULL
  <2>1. (n + 1) - 1 = n /\ 0 < n + 1
    BY <1>1
  <2> QED
    BY <1>1, <2>1, LinkValues
<1>8. \A c \in 0..n : c \in 0..(n - 1) \/ c = n
  BY <1>1
<1> HIDE DEF f, b, before, after, behind
<1>9. ASSUME NEW c \in Sched!Cells PROVE f[c] = after[c] /\ b[c] = behind[c]
  <2>1. CASE c = freequeue
    <3>1. b[c] = behind[c]
      BY <1>5, <1>7, <2>1
    <3>2. CASE n = 0
      BY <1>4, <1>7, <2>1, <3>1, <3>2
    <3>3. CASE n # 0
      <4>1. p # freequeue /\ 0 < n
        BY <1>1, <3>3, Layout
      <4> QED
        BY <1>1, <1>4, <1>6, <1>7, <2>1, <3>1, <4>1
    <3> QED
      BY <3>2, <3>3
  <2>2. CASE c = n
    <3>1. n \in 0..n
      BY <1>1
    <3> QED
      BY <1>1, <1>4, <1>5, <1>7, <2>2, <3>1
  <2>3. CASE c \in 0..(n - 1)
    <3>1. c \in 0..n /\ c # n /\ c # freequeue /\ n # 0 /\ p = n - 1
      BY <1>1, <2>3, Layout
    <3>2. CASE c = p
      <4>1. f[c] = n /\ n = c + 1
        BY <1>1, <1>4, <3>1, <3>2
      <4>2. b[c] = Back(0, n, {})[c]
        BY <1>5, <3>1
      <4> QED
        BY <1>6, <1>7, <2>3, <3>1, <4>1, <4>2
    <3>3. CASE c # p
      <4>1. f[c] = before[c] /\ b[c] = Back(0, n, {})[c]
        BY <1>4, <1>5, <3>1, <3>3
      <4> QED
        BY <1>6, <1>7, <2>3, <3>1, <3>3, <4>1
    <3> QED
      BY <3>2, <3>3
  <2>4. CASE c \notin 0..n \cup {freequeue}
    <3>1. c # p /\ c # n /\ c # freequeue /\ c \notin 0..(n - 1)
      BY <1>1, <2>4
    <3> QED
      BY <1>4, <1>5, <1>6, <1>7, <2>4, <3>1
  <2> QED
    BY <1>8, <2>1, <2>2, <2>3, <2>4
<1>10. f = after /\ b = behind
  <2>1. after = [c \in Sched!Cells |-> after[c]] /\ behind = [c \in Sched!Cells |-> behind[c]]
    BY Pointers DEF after, behind
  <2> QED
    BY <1>4, <1>5, <1>9, <2>1, SameFunction
<1> QED
  BY <1>3, <1>10 DEF FreeHeap, after, behind

\* list_del of the first free slot.
LEMMA TakeFirst ==
  ASSUME NEW a \in 0..(NR_TASKS - 1)
  PROVE  LET h == FreeHeap(a, NR_TASKS, {readyqueue})
         IN  /\ Sched!ListFirst(h, freequeue) = a
             /\ Sched!ListDel(h, a) = FreeHeap(a + 1, NR_TASKS, {readyqueue})
<1> DEFINE N == NR_TASKS
           E == {readyqueue}
           h == FreeHeap(a, NR_TASKS, E)
           n == IF a = NR_TASKS - 1 THEN freequeue ELSE a + 1
           before == Forth(a, N, E)
           beback == Back(a, N, E)
           f == [before EXCEPT ![freequeue] = n, ![a] = NULL]
           b == [beback EXCEPT ![n] = freequeue, ![a] = NULL]
           after == Forth(a + 1, N, E)
           behind == Back(a + 1, N, E)
<1>1. /\ a \in Int /\ a >= 0 /\ a < N /\ N \in Nat /\ a + 1 \in Nat /\ a \in Nat
      /\ N \in 0..NR_TASKS
      /\ a \in Sched!Cells /\ n \in Sched!Cells /\ freequeue \in Sched!Cells
      /\ a # freequeue /\ n # a /\ readyqueue # freequeue
      /\ a \in a..(N - 1)
      /\ E \subseteq {readyqueue, console_blocked}
  BY Layout
<1>2. /\ before[freequeue] = a /\ beback[freequeue] = N - 1
      /\ before[readyqueue] = readyqueue /\ beback[readyqueue] = readyqueue
      /\ \A c \in a..(N - 1) : before[c] = (IF c = N - 1 THEN freequeue ELSE c + 1)
                               /\ beback[c] = (IF c = a THEN freequeue ELSE c - 1)
      /\ \A c \in Sched!Cells \ (a..(N - 1) \cup {readyqueue} \cup {freequeue}) :
           before[c] = NULL /\ beback[c] = NULL
  BY <1>1, LinkValues
<1>3. Sched!ListDel(h, a) = [next |-> f, prev |-> b] /\ Sched!ListFirst(h, freequeue) = a
  BY <1>1, <1>2 DEF Sched!ListDel, Sched!ListFirst, FreeHeap
<1>b. /\ before = [c \in Sched!Cells |-> before[c]]
      /\ beback = [c \in Sched!Cells |-> beback[c]]
  BY Pointers
<1> HIDE DEF n, before, beback
<1>4. /\ f = [c \in Sched!Cells |-> f[c]] /\ f[a] = NULL /\ f[freequeue] = n
      /\ \A c \in Sched!Cells \ {freequeue, a} : f[c] = before[c]
  <2>1. freequeue \in Sched!Cells /\ a \in Sched!Cells /\ freequeue # a
    BY <1>1
  <2> QED
    BY <1>b, <2>1, TwoStores, Zenon
<1>5. /\ b = [c \in Sched!Cells |-> b[c]] /\ b[a] = NULL /\ b[n] = freequeue
      /\ \A c \in Sched!Cells \ {n, a} : b[c] = beback[c]
  <2>1. n \in Sched!Cells /\ a \in Sched!Cells /\ n # a
    BY <1>1
  <2> QED
    BY <1>b, <2>1, TwoStores, Zenon
<1>7. /\ after[freequeue] = (IF a + 1 < N THEN a + 1 ELSE freequeue)
      /\ behind[freequeue] = (IF a + 1 < N THEN N - 1 ELSE freequeue)
      /\ after[readyqueue] = readyqueue /\ behind[readyqueue] = readyqueue
      /\ \A c \in (a + 1)..(N - 1) : after[c] = (IF c = N - 1 THEN freequeue ELSE c + 1)
                                     /\ behind[c] = (IF c = a + 1 THEN freequeue ELSE c - 1)
      /\ \A c \in Sched!Cells \ ((a + 1)..(N - 1) \cup {readyqueue} \cup {freequeue}) :
           after[c] = NULL /\ behind[c] = NULL
  BY <1>1, LinkValues
<1>8. /\ \A c \in a..(N - 1) : c = a \/ c \in (a + 1)..(N - 1)
      /\ a \notin (a + 1)..(N - 1) /\ (a + 1)..(N - 1) \subseteq a..(N - 1)
      /\ n = IF a + 1 < N THEN a + 1 ELSE freequeue
  BY <1>1 DEF n
<1>a. readyqueue \notin Slots /\ a..(N - 1) \subseteq Slots /\ freequeue \notin Slots
  BY <1>1, Layout
<1> HIDE DEF f, b, before, after, behind, beback
<1>9. ASSUME NEW c \in Sched!Cells PROVE f[c] = after[c] /\ b[c] = behind[c]
  <2>1. CASE c = freequeue
    <3>1. f[c] = after[c]
      BY <1>4, <1>7, <1>8, <2>1
    <3>2. CASE a + 1 < N
      <4>1. n # freequeue
        BY <1>1, <1>8, <1>a, <3>2
      <4> QED
        BY <1>1, <1>2, <1>5, <1>7, <2>1, <3>1, <3>2, <4>1
    <3>3. CASE ~ (a + 1 < N)
      BY <1>5, <1>7, <1>8, <2>1, <3>1, <3>3
    <3> QED
      BY <3>2, <3>3
  <2>2. CASE c = a
    <3>1. a # readyqueue
      BY <1>1, <1>a
    <3> QED
      BY <1>1, <1>4, <1>5, <1>7, <1>8, <2>2, <3>1
  <2>3. CASE c \in (a + 1)..(N - 1)
    <3>1. c # a /\ c # freequeue /\ c \in a..(N - 1) /\ a + 1 < N
      BY <1>1, <1>8, <1>a, <2>3
    <3>2. f[c] = after[c]
      BY <1>2, <1>4, <1>7, <2>3, <3>1
    <3>3. CASE c = n
      BY <1>5, <1>7, <1>8, <2>3, <3>1, <3>2, <3>3
    <3>4. CASE c # n
      BY <1>2, <1>5, <1>7, <1>8, <2>3, <3>1, <3>2, <3>4
    <3> QED
      BY <3>3, <3>4
  <2>4. CASE c \notin a..(N - 1) \cup {freequeue}
    <3>1. c # a /\ c # n /\ c # freequeue /\ c \notin (a + 1)..(N - 1)
      <4>1. CASE a + 1 < N
        BY <1>1, <1>8, <2>4, <4>1
      <4>2. CASE ~ (a + 1 < N)
        BY <1>1, <1>8, <2>4, <4>2
      <4> QED
        BY <4>1, <4>2
    <3>2. CASE c = readyqueue
      BY <1>2, <1>4, <1>5, <1>7, <3>1, <3>2
    <3>3. CASE c # readyqueue
      BY <1>2, <1>4, <1>5, <1>7, <2>4, <3>1, <3>3
    <3> QED
      BY <3>2, <3>3
  <2> QED
    BY <1>8, <2>1, <2>2, <2>3, <2>4
<1>10. f = after /\ b = behind
  <2>1. after = [c \in Sched!Cells |-> after[c]] /\ behind = [c \in Sched!Cells |-> behind[c]]
    BY Pointers DEF after, behind
  <2> QED
    BY <1>4, <1>5, <1>9, <2>1, SameFunction
<1> QED
  BY <1>3, <1>10 DEF FreeHeap, after, behind

\* INIT_LIST_HEAD makes a list that was not linked an empty one.
LEMMA ListMade ==
  ASSUME NEW a \in 0..NR_TASKS, NEW E, NEW l \in {readyqueue, console_blocked},
         E \subseteq {readyqueue, console_blocked}
  PROVE  INIT_LIST_HEAD(FreeHeap(a, NR_TASKS, E), l) = FreeHeap(a, NR_TASKS, E \cup {l})
<1> DEFINE N == NR_TASKS
           f == [Forth(a, N, E) EXCEPT ![l] = l]
           b == [Back(a, N, E) EXCEPT ![l] = l]
<1>1. INIT_LIST_HEAD(FreeHeap(a, NR_TASKS, E), l) = [next |-> f, prev |-> b]
  BY DEF INIT_LIST_HEAD, FreeHeap
<1>2. f = [c \in Sched!Cells |-> f[c]] /\ b = [c \in Sched!Cells |-> b[c]]
  BY Pointers
<1>3. /\ l \in Sched!Cells /\ l # freequeue /\ l \in E \cup {l}
      /\ f[l] = l /\ b[l] = l
      /\ \A c \in Sched!Cells \ {l} : f[c] = Forth(a, N, E)[c] /\ b[c] = Back(a, N, E)[c]
  BY Layout, Pointers
<1>4. ASSUME NEW c \in Sched!Cells
      PROVE  f[c] = Forth(a, N, E \cup {l})[c] /\ b[c] = Back(a, N, E \cup {l})[c]
  <2>1. CASE c = l
    <3>1. Forth(a, N, E \cup {l})[l] = l /\ Back(a, N, E \cup {l})[l] = l
      BY <1>3 DEF Forth, Back
    <3> QED
      BY <1>3, <2>1, <3>1
  <2>2. CASE c # l
    <3>1. c \in E <=> c \in E \cup {l}
      BY <2>2
    <3>2. Forth(a, N, E \cup {l})[c] = Forth(a, N, E)[c]
      BY <3>1 DEF Forth
    <3>3. Back(a, N, E \cup {l})[c] = Back(a, N, E)[c]
      BY <3>1 DEF Back
    <3> QED
      BY <1>3, <2>2, <3>2, <3>3
  <2> QED
    BY <2>1, <2>2
<1> HIDE DEF f, b
<1>5. f = Forth(a, N, E \cup {l}) /\ b = Back(a, N, E \cup {l})
  BY <1>2, <1>4, Pointers, SameFunction
<1> QED
  BY <1>1, <1>5, Zenon DEF FreeHeap

\* The lists of ZeosSched's initial state.
LEMMA ListsAtBoot ==
  FreeHeap(2, NR_TASKS, {readyqueue, console_blocked}) = Sched!BootHeap
<1> DEFINE f == Forth(2, NR_TASKS, {readyqueue, console_blocked})
           b == Back(2, NR_TASKS, {readyqueue, console_blocked})
           g == Sched!BootHeap
<1>1. /\ g = [next |-> g.next, prev |-> g.prev]
      /\ g.next = [c \in Sched!Cells |-> g.next[c]]
      /\ g.prev = [c \in Sched!Cells |-> g.prev[c]]
  BY DEF Sched!BootHeap
<1>2. \A c \in Sched!Cells : f[c] = g.next[c]
  BY Layout DEF Forth, Sched!BootHeap, Sched!Heads, Sched!Idle, Sched!Task1
<1>3. \A c \in Sched!Cells : b[c] = g.prev[c]
  BY Layout DEF Back, Sched!BootHeap, Sched!Heads, Sched!Idle, Sched!Task1
<1> HIDE DEF g
<1>4. f = g.next /\ b = g.prev
  BY <1>1, <1>2, <1>3, Pointers, SameFunction
<1> QED
  BY <1>1, <1>4 DEF FreeHeap, g

-----------------------------------------------------------------------------
(***************************************************************************)
(* The frames that set_user_pages takes.  Induction is over sets of        *)
(* naturals, from the theorem that < is well-founded: the provers cannot   *)
(* instantiate a theorem whose parameter is a predicate.                   *)
(***************************************************************************)

\* A set of naturals that is not empty has a least element.
LEMMA LeastNatural ==
  ASSUME NEW S, S \subseteq Nat, S # {}
  PROVE  \E n \in S : \A m \in S : n <= m
<1> DEFINE R == {p \in Nat \X Nat : p[1] < p[2]}
<1>1. IsWellFoundedOn(R, Nat)
  BY NatLessThanWellFounded, Zenon DEF OpToRel
<1>2. \A a, b \in Nat : a < b => <<a, b>> \in R
  OBVIOUS
<1> HIDE DEF R
<1>3. PICK n \in S : \A m \in S : ~ (<<m, n>> \in R)
  BY <1>1, WFMin
<1>4. ASSUME NEW m \in S PROVE n <= m
  <2>1. m \in Nat /\ n \in Nat /\ ~ (m < n)
    BY <1>2, <1>3
  <2> QED
    BY <2>1
<1> QED
  BY <1>3, <1>4

\* Induction: what holds of 0 and of the successors up to N holds up to N.
LEMMA InductionUpTo ==
  ASSUME NEW N \in Nat, NEW S,
         0 \in S, \A n \in 0..(N - 1) : n \in S => n + 1 \in S
  PROVE  \A n \in 0..N : n \in S
<1> DEFINE B == {n \in 0..N : n \notin S}
<1> SUFFICES ASSUME B # {} PROVE FALSE
  OBVIOUS
<1>1. PICK n \in B : \A m \in B : n <= m
  <2>1. B \subseteq Nat
    OBVIOUS
  <2> HIDE DEF B
  <2> QED
    BY <2>1, LeastNatural
<1>2. n \in 0..N /\ n # 0
  OBVIOUS
<1>3. n - 1 \in 0..(N - 1) /\ n - 1 < n /\ (n - 1) + 1 = n
  BY <1>2
<1> QED
  BY <1>1, <1>2, <1>3

\* What set_user_pages has given task 1 after n of its pages.
PagesOfTask1 == NUM_PAG_CODE + NUM_PAG_DATA
GivenFrame(i) == NUM_PAG_KERNEL + 2 * i
PhysGiven(n) ==
  [f \in Mem!Frame |->
     IF f \in Mem!KernelPages \/ \E i \in 0..(n - 1) : f = GivenFrame(i)
     THEN "USED" ELSE "FREE"]
TableGiven(n) ==
  [t \in Slots |-> [p \in Mem!Page |->
     IF t = 1 /\ p \in NUM_PAG_KERNEL..(NUM_PAG_KERNEL + n - 1)
     THEN Mem!set_ss_pag(GivenFrame(p - NUM_PAG_KERNEL))
     ELSE KernelOf(p)]]

\* The sizes are positive, and the pages of task 1 fit twice.
LEMMA PageSizes ==
  /\ NUM_PAG_KERNEL \in Nat \ {0} /\ NUM_PAG_CODE \in Nat \ {0}
  /\ NUM_PAG_DATA \in Nat \ {0} /\ TOTAL_PAGES \in Nat
  /\ NUM_PAG_KERNEL + 2 * PagesOfTask1 <= TOTAL_PAGES
  /\ PagesOfTask1 \in Nat
  /\ GuardPages \subseteq Mem!KernelPages \ {0}
BY StartAssumption DEF Mem!PageAssumption, PagesOfTask1

\* The frames given so far are the first of the candidates.
LEMMA FreeAfter ==
  ASSUME NEW n \in 0..PagesOfTask1
  PROVE  Mem!FreeFrames(PhysGiven(n)) = {f \in Mem!Candidates : f >= GivenFrame(n)}
<1> SUFFICES ASSUME NEW f \in Mem!Candidates
             PROVE  PhysGiven(n)[f] = "FREE" <=> f >= GivenFrame(n)
  BY DEF Mem!FreeFrames
<1> DEFINE K == NUM_PAG_KERNEL
<1>1. /\ f \in Mem!Frame /\ f \in Nat /\ f >= K /\ (f - K) % 2 = 0
      /\ K \in Nat /\ n \in Nat
  BY PageSizes DEF Mem!Candidates, Mem!Frame, Mem!Page
<1>2. f \notin Mem!KernelPages
  BY <1>1 DEF Mem!KernelPages
<1>3. PICK j \in Nat : f = K + 2 * j
  <2> DEFINE j == (f - K) \div 2
  <2>1. j \in Nat /\ f = K + 2 * j
    BY <1>1
  <2> QED
    BY <2>1
<1>4. PhysGiven(n)[f] = "FREE" <=> ~ \E i \in 0..(n - 1) : f = GivenFrame(i)
  BY <1>1, <1>2 DEF PhysGiven
<1>5. (\E i \in 0..(n - 1) : f = GivenFrame(i)) <=> j < n
  BY <1>1, <1>3 DEF GivenFrame
<1> QED
  BY <1>1, <1>3, <1>4, <1>5 DEF GivenFrame

\* The next frame given is the next candidate.
LEMMA NextFrame ==
  ASSUME NEW n \in 0..(PagesOfTask1 - 1)
  PROVE  /\ next_frame(PhysGiven(n)) = GivenFrame(n)
         /\ GivenFrame(n) \in Mem!Candidates /\ GivenFrame(n) \in Mem!Frame
<1> DEFINE F == Mem!FreeFrames(PhysGiven(n))
           g == GivenFrame(n)
<1>1. n \in Nat /\ n \in 0..PagesOfTask1
  BY PageSizes
<1>2. g \in Mem!Candidates /\ g \in Mem!Frame
  BY <1>1, PageSizes DEF GivenFrame, Mem!Candidates, Mem!Frame, Mem!Page
<1>3. F = {f \in Mem!Candidates : f >= g}
  BY <1>1, FreeAfter
<1>4. IsFiniteSet(F)
  <2>1. IsFiniteSet(Mem!Frame)
    BY PageSizes, FS_Interval DEF Mem!Frame, Mem!Page
  <2> QED
    BY <1>3, <2>1, FS_Subset DEF Mem!Candidates
<1>5. g \in Int /\ \A f \in F : f \in Int
  BY <1>1, PageSizes DEF Mem!FreeFrames, Mem!Candidates, Mem!Frame, Mem!Page, GivenFrame
<1> HIDE DEF F, g
<1>6. g \in F /\ {x \in F : x < g} = {}
  <2>1. g \in F
    BY <1>2, <1>3, <1>5
  <2>2. ASSUME NEW x \in F PROVE ~ (x < g)
    <3>1. x >= g /\ x \in Int
      BY <1>3, <1>5
    <3> QED
      BY <1>5, <3>1
  <2> QED
    BY <2>1, <2>2, Zenon
<1>7. Cardinality(F) >= 1 /\ Cardinality(F) \in Nat
  <2>1. Cardinality(F) \in Nat /\ (Cardinality(F) = 0 <=> F = {})
    BY <1>4, FS_CardinalityType, FS_EmptySet
  <2> QED
    BY <1>6, <2>1
<1>8. ASSUME NEW f \in F, Cardinality({x \in F : x < f}) = 0 PROVE f = g
  <2>1. IsFiniteSet({x \in F : x < f})
    BY <1>4, FS_Subset
  <2>2. {x \in F : x < f} = {}
    BY <1>8, <2>1, FS_EmptySet
  <2>3. f >= g /\ ~ (g < f)
    BY <1>3, <1>6, <2>2
  <2> QED
    BY <1>5, <2>3
<1>9. Cardinality({x \in F : x < g}) = 0
  BY <1>6, FS_EmptySet
<1>10. (CHOOSE f \in F : Cardinality({x \in F : x < f}) = 0) = g
  BY <1>6, <1>8, <1>9
<1>11. Mem!alloc_frame(PhysGiven(n), 1)
         = IF 1 > Cardinality(F) THEN -1
           ELSE CHOOSE f \in F : Cardinality({x \in F : x < f}) = 0
  BY DEF Mem!alloc_frame, Mem!Cardinality, Cardinality, F
<1> DEFINE first == CHOOSE f \in F : Cardinality({x \in F : x < f}) = 0
<1> HIDE DEF first
<1>12. Mem!alloc_frame(PhysGiven(n), 1) = first
  <2>1. ~ (1 > Cardinality(F))
    BY <1>7
  <2> QED
    BY <1>11, <2>1, Zenon DEF first
<1> QED
  BY <1>2, <1>10, <1>12, Zenon DEF next_frame, first, g

\* Every frame given is one less that is free.
LEMMA FramesLeft ==
  Cardinality(Mem!FreeFrames(PhysGiven(PagesOfTask1)))
    = Cardinality(Mem!Candidates) - NUM_PAG_CODE - NUM_PAG_DATA
<1> DEFINE F(n) == {f \in Mem!Candidates : f >= GivenFrame(n)}
           C == Cardinality(Mem!Candidates)
           S == {n \in 0..PagesOfTask1 : Cardinality(F(n)) = C - n}
<1>1. IsFiniteSet(Mem!Candidates) /\ C \in Nat
  <2>1. IsFiniteSet(Mem!Frame)
    BY PageSizes, FS_Interval DEF Mem!Frame, Mem!Page
  <2> QED
    BY <2>1, FS_Subset, FS_CardinalityType DEF Mem!Candidates
<1>2. 0 \in S
  <2>1. F(0) = Mem!Candidates
    BY PageSizes DEF Mem!Candidates, GivenFrame
  <2> HIDE DEF F, C
  <2>2. Cardinality(F(0)) = C - 0
    BY <1>1, <2>1 DEF C
  <2> QED
    BY <2>2, PageSizes
<1>3. ASSUME NEW n \in 0..(PagesOfTask1 - 1), n \in S PROVE n + 1 \in S
  <2>1. /\ GivenFrame(n) \in Mem!Candidates /\ n \in Nat
        /\ GivenFrame(n) = NUM_PAG_KERNEL + 2 * n
        /\ GivenFrame(n + 1) = NUM_PAG_KERNEL + 2 * n + 2
    BY NextFrame, PageSizes DEF GivenFrame
  <2>2. F(n + 1) = F(n) \ {GivenFrame(n)} /\ GivenFrame(n) \in F(n)
    <3>1. ASSUME NEW f \in Mem!Candidates
          PROVE  f >= GivenFrame(n + 1) <=> f >= GivenFrame(n) /\ f # GivenFrame(n)
      <4>1. f \in Int /\ (f - NUM_PAG_KERNEL) % 2 = 0 /\ NUM_PAG_KERNEL \in Nat
        BY PageSizes DEF Mem!Candidates, Mem!Frame, Mem!Page
      <4>2. f # NUM_PAG_KERNEL + 2 * n + 1
        BY <2>1, <4>1
      <4> QED
        BY <2>1, <4>1, <4>2
    <3>2. GivenFrame(n) >= GivenFrame(n)
      BY <2>1, PageSizes
    <3> QED
      BY <2>1, <3>1, <3>2
  <2>3. IsFiniteSet(F(n))
    BY <1>1, FS_Subset
  <2> HIDE DEF F
  <2>4. Cardinality(F(n + 1)) = Cardinality(F(n)) - 1
    BY <2>2, <2>3, FS_RemoveElement
  <2> HIDE DEF C
  <2> QED
    BY <1>1, <1>3, <2>1, <2>4, PageSizes
<1> HIDE DEF S, C
<1>4. PagesOfTask1 \in S
  BY <1>2, <1>3, InductionUpTo, PageSizes
<1>5. Mem!FreeFrames(PhysGiven(PagesOfTask1)) = F(PagesOfTask1)
  BY FreeAfter, PageSizes
<1>6. Cardinality(F(PagesOfTask1)) = C - PagesOfTask1
  BY <1>4 DEF S
<1> HIDE DEF F
<1>7. C - PagesOfTask1 = C - NUM_PAG_CODE - NUM_PAG_DATA
  BY <1>1, PageSizes DEF PagesOfTask1
<1> QED
  BY <1>5, <1>6, <1>7 DEF C

-----------------------------------------------------------------------------
(***************************************************************************)
(* The two loops of main, each a recursion that the provers unfold once it *)
(* is known to have a solution: one is given, and the induction above      *)
(* shows that there is no other.                                           *)
(***************************************************************************)

\* All that main writes.
Fields ==
  {"descriptors", "esp0", "phys_mem", "pagusr_table", "dir_pages", "dir", "cr3", "paging",
   "heap", "PID", "state", "total_quantum", "saved", "remaining_quantum", "policy",
   "frames", "interrupts", "ticked", "panic"}
Whole(s) == s = [x \in Fields |-> s[x]]

\* init_sched puts the slots in the freequeue in their order.
LEMMA SlotsQueued ==
  ASSUME NEW s, s.heap = Loaded.heap
  PROVE  init_sched(s) =
           [s EXCEPT !.PID = [t \in Slots |-> -1],
                     !.heap = FreeHeap(0, NR_TASKS, {readyqueue}),
                     !.policy = "FCFS"]
<1> DEFINE N == NR_TASKS
           c == [n \in 0..N |-> FreeHeap(0, n, {})]
           from(g, n) == IF n = 0 THEN INIT_LIST_HEAD(s.heap, freequeue)
                         ELSE Sched!ListAddTail(g[n - 1], n - 1, freequeue)
           q == CHOOSE g : g = [n \in 0..N |-> from(g, n)]
           S == {n \in 0..N : q[n] = FreeHeap(0, n, {})}
<1>1. N \in Nat
  BY Layout
<1>2. INIT_LIST_HEAD(s.heap, freequeue) = FreeHeap(0, 0, {})
  BY NothingFree
<1>3. \A n \in 0..(N - 1) :
        Sched!ListAddTail(FreeHeap(0, n, {}), n, freequeue) = FreeHeap(0, n + 1, {})
  BY FreeOne
<1>4. ASSUME NEW n \in 0..N PROVE c[n] = from(c, n)
  <2>1. CASE n = 0
    BY <1>1, <1>2, <2>1
  <2>2. CASE n # 0
    <3>1. n - 1 \in 0..(N - 1) /\ n - 1 \in 0..N /\ (n - 1) + 1 = n
      BY <1>1, <2>2
    <3> QED
      BY <1>3, <2>2, <3>1
  <2> QED
    BY <2>1, <2>2
<1>5. c = [n \in 0..N |-> from(c, n)]
  BY <1>4, Zenon
<1>6. q = [n \in 0..N |-> from(q, n)]
  <2> HIDE DEF c, from
  <2> QED
    BY <1>5, Zenon
<1>7. \A n \in 0..N : q[n] = from(q, n)
  <2> HIDE DEF q, from
  <2> QED
    BY <1>6, Zenon
<1>8. init_sched(s) =
        [s EXCEPT !.PID = [t \in Slots |-> -1],
                  !.heap = INIT_LIST_HEAD(q[N], readyqueue), !.policy = "FCFS"]
  BY Zenon DEF init_sched
<1> HIDE DEF q
<1>9. 0 \in S
  BY <1>1, <1>2, <1>7
<1>10. ASSUME NEW n \in 0..(N - 1), n \in S PROVE n + 1 \in S
  <2>1. n + 1 \in 0..N /\ n + 1 # 0 /\ (n + 1) - 1 = n
    BY <1>1
  <2> QED
    BY <1>3, <1>7, <1>10, <2>1
<1>11. q[N] = FreeHeap(0, N, {})
  <2> HIDE DEF S, N
  <2>1. N \in S
    BY <1>1, <1>9, <1>10, InductionUpTo
  <2> QED
    BY <2>1 DEF S
<1>12. INIT_LIST_HEAD(FreeHeap(0, N, {}), readyqueue) = FreeHeap(0, N, {readyqueue})
  <2>1. /\ {} \cup {readyqueue} = {readyqueue}
        /\ 0 \in 0..NR_TASKS /\ {} \subseteq {readyqueue, console_blocked}
        /\ readyqueue \in {readyqueue, console_blocked}
    BY <1>1
  <2>2. INIT_LIST_HEAD(FreeHeap(0, NR_TASKS, {}), readyqueue)
          = FreeHeap(0, NR_TASKS, {} \cup {readyqueue})
    BY <2>1, ListMade, Zenon
  <2> QED
    BY <2>1, <2>2
<1> QED
  BY <1>8, <1>11, <1>12

\* What set_user_pages leaves after n pages.
Given(s, n) == [s EXCEPT !.phys_mem = PhysGiven(n), !.pagusr_table = TableGiven(n)]

\* It writes two fields.
LEMMA GivenWhole ==
  ASSUME NEW s, NEW n, Whole(s)
  PROVE  /\ Whole(Given(s, n))
         /\ Given(s, n).phys_mem = PhysGiven(n) /\ Given(s, n).pagusr_table = TableGiven(n)
BY DEF Given, Whole, Fields

\* Before the first page.
LEMMA NothingGiven ==
  ASSUME NEW s, Whole(s), s.phys_mem = PhysGiven(0), s.pagusr_table = TableGiven(0)
  PROVE  Given(s, 0) = s
<1>1. \A x \in Fields : Given(s, 0)[x] = s[x]
  BY DEF Given, Whole, Fields
<1> QED
  BY <1>1, GivenWhole DEF Whole

\* One more page.
LEMMA OneMoreGiven ==
  ASSUME NEW s, Whole(s), NEW n \in 0..(PagesOfTask1 - 1)
  PROVE  LET f == next_frame(Given(s, n).phys_mem)
         IN  [Given(s, n) EXCEPT !.phys_mem[f] = "USED",
                !.pagusr_table[1][NUM_PAG_KERNEL + n] = Mem!set_ss_pag(f)]
               = Given(s, n + 1)
<1> DEFINE f == GivenFrame(n)
           g == Given(s, n)
           pm == [PhysGiven(n) EXCEPT ![f] = "USED"]
           pt == [TableGiven(n) EXCEPT ![1][NUM_PAG_KERNEL + n] = Mem!set_ss_pag(f)]
           r == [g EXCEPT !.phys_mem[f] = "USED",
                          !.pagusr_table[1][NUM_PAG_KERNEL + n] = Mem!set_ss_pag(f)]
<1>1. next_frame(g.phys_mem) = f /\ f \in Mem!Frame
  BY NextFrame, GivenWhole
<1>2. pm = PhysGiven(n + 1)
  <2>1. \A x \in Mem!Frame : (\E i \in 0..n : x = GivenFrame(i))
                             <=> x = f \/ \E i \in 0..(n - 1) : x = GivenFrame(i)
    BY PageSizes
  <2>2. (n + 1) - 1 = n
    BY PageSizes
  <2> HIDE DEF f
  <2>3. \A x \in Mem!Frame : pm[x] = PhysGiven(n + 1)[x]
    BY <1>1, <2>1, <2>2 DEF PhysGiven
  <2> QED
    BY <2>3 DEF PhysGiven
<1>3. pt = TableGiven(n + 1)
  <2>1. /\ 1 \in Slots /\ n \in Nat /\ NUM_PAG_KERNEL \in Nat
        /\ NUM_PAG_KERNEL + n \in Mem!Page
        /\ NUM_PAG_KERNEL + n - NUM_PAG_KERNEL = n
    BY Layout, PageSizes DEF Mem!Page
  <2>2. \A p : p \in NUM_PAG_KERNEL..(NUM_PAG_KERNEL + (n + 1) - 1)
               <=> \/ p = NUM_PAG_KERNEL + n
                   \/ p \in NUM_PAG_KERNEL..(NUM_PAG_KERNEL + n - 1)
    BY <2>1
  <2>3. ASSUME NEW t \in Slots, NEW p \in Mem!Page
        PROVE  pt[t][p] = TableGiven(n + 1)[t][p]
    <3>1. CASE t = 1 /\ p = NUM_PAG_KERNEL + n
      BY <2>1, <2>2, <3>1 DEF TableGiven
    <3>2. CASE ~ (t = 1 /\ p = NUM_PAG_KERNEL + n)
      <4>1. pt[t][p] = TableGiven(n)[t][p]
        BY <2>1, <3>2 DEF TableGiven
      <4>2. TableGiven(n)[t][p] = TableGiven(n + 1)[t][p]
        BY <2>2, <3>2 DEF TableGiven
      <4> QED
        BY <4>1, <4>2
    <3> QED
      BY <3>1, <3>2
  <2> QED
    BY <2>3 DEF TableGiven
<1>4. r = [g EXCEPT !.phys_mem = pm, !.pagusr_table = pt]
  <2>1. g.phys_mem = PhysGiven(n) /\ g.pagusr_table = TableGiven(n) /\ Whole(g)
    BY GivenWhole
  <2> HIDE DEF g, f
  <2> QED
    BY <2>1 DEF Whole, Fields
<1>5. [g EXCEPT !.phys_mem = PhysGiven(n + 1), !.pagusr_table = TableGiven(n + 1)]
        = Given(s, n + 1)
  BY DEF Given, Whole, Fields
<1> QED
  BY <1>1, <1>2, <1>3, <1>4, <1>5

\* set_user_pages gives task 1 all its pages.
LEMMA PagesSet ==
  ASSUME NEW s, Whole(s), s.phys_mem = PhysGiven(0), s.pagusr_table = TableGiven(0)
  PROVE  set_user_pages(s, 1) = Given(s, PagesOfTask1)
<1> DEFINE N == NUM_PAG_CODE + NUM_PAG_DATA
           c == [n \in 0..N |-> Given(s, n)]
           more(b, n) == LET f == next_frame(b.phys_mem)
                         IN  [b EXCEPT !.phys_mem[f] = "USED",
                                !.pagusr_table[1][NUM_PAG_KERNEL + n - 1] = Mem!set_ss_pag(f)]
           from(g, n) == IF n = 0 THEN s ELSE more(g[n - 1], n)
           q == CHOOSE g : g = [n \in 0..N |-> from(g, n)]
           S == {n \in 0..N : q[n] = Given(s, n)}
<1>1. N \in Nat /\ N = PagesOfTask1
  BY PageSizes DEF PagesOfTask1
<1>2. s = Given(s, 0)
  BY NothingGiven
<1>3. ASSUME NEW n \in 0..(N - 1) PROVE more(Given(s, n), n + 1) = Given(s, n + 1)
  <2>1. NUM_PAG_KERNEL + (n + 1) - 1 = NUM_PAG_KERNEL + n
    BY PageSizes, <1>1
  <2> QED
    BY <1>1, <2>1, OneMoreGiven
<1>8. set_user_pages(s, 1) = q[N]
  BY Zenon DEF set_user_pages
<1> HIDE DEF N, more
<1>4. ASSUME NEW n \in 0..N PROVE c[n] = from(c, n)
  <2>1. CASE n = 0
    BY <1>1, <1>2, <2>1
  <2>2. CASE n # 0
    <3>1. n - 1 \in 0..(N - 1) /\ n - 1 \in 0..N /\ (n - 1) + 1 = n
      BY <1>1, <2>2
    <3> QED
      BY <1>3, <2>2, <3>1
  <2> QED
    BY <2>1, <2>2
<1>5. c = [n \in 0..N |-> from(c, n)]
  BY <1>4, Zenon
<1>6. q = [n \in 0..N |-> from(q, n)]
  <2> HIDE DEF c, from
  <2> QED
    BY <1>5, Zenon
<1>7. \A n \in 0..N : q[n] = from(q, n)
  <2> HIDE DEF q, from
  <2> QED
    BY <1>6, Zenon
<1> HIDE DEF q
<1>9. 0 \in S
  BY <1>1, <1>2, <1>7
<1>10. ASSUME NEW n \in 0..(N - 1), n \in S PROVE n + 1 \in S
  <2>1. n + 1 \in 0..N /\ n + 1 # 0 /\ (n + 1) - 1 = n
    BY <1>1
  <2> QED
    BY <1>3, <1>7, <1>10, <2>1
<1> HIDE DEF S
<1>11. N \in S
  BY <1>1, <1>9, <1>10, InductionUpTo
<1> QED
  BY <1>1, <1>8, <1>11 DEF S

-----------------------------------------------------------------------------
(***************************************************************************)
(* main, call by call.  Stage(s, n) says what memory s is in when the n-th *)
(* call is next; what copy_data, enable_int and an early tick write is in  *)
(* no stage, and a call that panics is not followed by another.            *)
(***************************************************************************)

\* What the calls before the n-th have left, in the parts the handlers will use.
HeapAt(n) ==
  IF n <= 5 THEN Loaded.heap
  ELSE IF n = 6 THEN FreeHeap(0, NR_TASKS, {readyqueue})
  ELSE IF n = 7 THEN FreeHeap(1, NR_TASKS, {readyqueue})
  ELSE IF n = 8 THEN FreeHeap(2, NR_TASKS, {readyqueue})
  ELSE FreeHeap(2, NR_TASKS, {readyqueue, console_blocked})
PIDAt(n) ==
  [t \in Slots |-> IF n <= 5 \/ (t = 0 /\ n >= 7) THEN 0
                   ELSE IF t = 1 /\ n >= 8 THEN 1 ELSE -1]
QuantumAt(n) ==
  [t \in Slots |-> IF (t = 0 /\ n >= 7) \/ (t = 1 /\ n >= 8) THEN DEFAULT_QUANTUM ELSE 0]
SavedAt(n) == [t \in Slots |-> IF t = 0 /\ n >= 7 THEN "boot" ELSE "none"]
PhysAt(n) ==
  IF n <= 4 THEN Loaded.phys_mem ELSE PhysGiven(IF n <= 7 THEN 0 ELSE PagesOfTask1)
TableAt(n) ==
  IF n <= 4 THEN Loaded.pagusr_table ELSE TableGiven(IF n <= 7 THEN 0 ELSE PagesOfTask1)

Memory(s, n) == s.phys_mem = PhysAt(n) /\ s.pagusr_table = TableAt(n)
Tasks(s, n) ==
  /\ s.heap = HeapAt(n)
  /\ s.PID = PIDAt(n)
  /\ s.total_quantum = QuantumAt(n)
  /\ s.saved = SavedAt(n)
  /\ s.state = [t \in Slots |-> "RUN"]
  /\ DOMAIN s.dir = Slots
Registers(s, n) ==
  /\ n >= 2 => "gdt" \in s.descriptors
  /\ n >= 3 => "idt" \in s.descriptors
  /\ n >= 4 => "tss" \in s.descriptors
  /\ n >= 6 => s.policy = "FCFS"
  /\ n >= 8 => s.esp0 = 1 /\ s.cr3 = 1 /\ s.remaining_quantum = DEFAULT_QUANTUM

Stage(s, n) == Whole(s) /\ Memory(s, n) /\ Tasks(s, n) /\ Registers(s, n)

\* The image as loaded is what the first call finds.
LEMMA AtLoad == Stage(Loaded, 0) /\ \A s : Stage(s, 0) => Stage(s, 1)
<1>1. Whole(Loaded)
  BY DEF Whole, Fields, Loaded
<1>2. Memory(Loaded, 0) /\ Registers(Loaded, 0)
  BY DEF Memory, PhysAt, TableAt, Registers
<1>3. Tasks(Loaded, 0)
  BY DEF Tasks, HeapAt, PIDAt, QuantumAt, SavedAt, Loaded
<1>4. \A s : Memory(s, 0) => Memory(s, 1)
  BY DEF Memory, PhysAt, TableAt
<1>5. \A s : Tasks(s, 0) => Tasks(s, 1)
  <2>1. HeapAt(0) = HeapAt(1) /\ PIDAt(0) = PIDAt(1) /\ QuantumAt(0) = QuantumAt(1)
        /\ SavedAt(0) = SavedAt(1)
    BY DEF HeapAt, PIDAt, QuantumAt, SavedAt
  <2> QED
    BY <2>1 DEF Tasks
<1>6. \A s : Registers(s, 0) => Registers(s, 1)
  BY DEF Registers
<1> QED
  BY <1>1, <1>2, <1>3, <1>4, <1>5, <1>6 DEF Stage

\* A call that changes nothing of the tasks.
LEMMA TasksSame ==
  ASSUME NEW s, NEW r, NEW n \in {1, 2, 3, 4, 9, 10, 11}, Tasks(s, n),
         r.heap = s.heap, r.PID = s.PID, r.total_quantum = s.total_quantum,
         r.saved = s.saved, r.state = s.state, DOMAIN r.dir = DOMAIN s.dir
  PROVE  Tasks(r, n + 1)
<1>1. /\ HeapAt(n) = HeapAt(n + 1)
      /\ QuantumAt(n) = QuantumAt(n + 1) /\ SavedAt(n) = SavedAt(n + 1)
  BY DEF HeapAt, QuantumAt, SavedAt
<1>2. PIDAt(n) = PIDAt(n + 1)
  BY DEF PIDAt
<1> QED
  BY <1>1, <1>2 DEF Tasks

\* A call that changes nothing of the memory.
LEMMA MemorySame ==
  ASSUME NEW s, NEW r, NEW n \in {1, 2, 3, 5, 6, 8, 9, 10, 11}, Memory(s, n),
         r.phys_mem = s.phys_mem, r.pagusr_table = s.pagusr_table
  PROVE  Memory(r, n + 1)
BY DEF Memory, PhysAt, TableAt

\* setGdt.
LEMMA AfterGdt == ASSUME NEW s, Stage(s, 1) PROVE Stage(setGdt(s), 2)
<1> DEFINE r == setGdt(s)
<1>1. /\ Whole(r) /\ "gdt" \in r.descriptors
      /\ \A x \in Fields \ {"descriptors"} : r[x] = s[x]
  BY DEF Stage, Whole, Fields, setGdt
<1>2. Memory(s, 1) /\ Tasks(s, 1) /\ 1 + 1 = 2
  BY DEF Stage
<1> HIDE DEF r
<1>3. Memory(r, 2)
  BY <1>1, <1>2, MemorySame DEF Fields
<1>4. Tasks(r, 2)
  BY <1>1, <1>2, TasksSame DEF Fields
<1> QED
  BY <1>1, <1>3, <1>4 DEF Stage, Registers, r

\* setIdt.
LEMMA AfterIdt == ASSUME NEW s, Stage(s, 2) PROVE Stage(setIdt(s), 3)
<1> DEFINE r == setIdt(s)
<1>1. /\ Whole(r) /\ r.descriptors = s.descriptors \cup {"idt"}
      /\ \A x \in Fields \ {"descriptors", "esp0"} : r[x] = s[x]
  BY DEF Stage, Whole, Fields, setIdt
<1>5. "gdt" \in s.descriptors
  BY DEF Stage, Registers
<1>2. Memory(s, 2) /\ Tasks(s, 2) /\ 2 + 1 = 3
  BY DEF Stage
<1> HIDE DEF r
<1>3. Memory(r, 3)
  BY <1>1, <1>2, MemorySame DEF Fields
<1>4. Tasks(r, 3)
  BY <1>1, <1>2, TasksSame DEF Fields
<1> QED
  BY <1>1, <1>3, <1>4, <1>5 DEF Stage, Registers, r

\* setTSS.
LEMMA AfterTSS == ASSUME NEW s, Stage(s, 3) PROVE Stage(setTSS(s), 4)
<1> DEFINE r == setTSS(s)
<1>1. /\ Whole(r) /\ r.descriptors = s.descriptors \cup {"tss"}
      /\ \A x \in Fields \ {"descriptors", "esp0", "panic"} : r[x] = s[x]
  BY DEF Stage, Whole, Fields, setTSS
<1>5. "gdt" \in s.descriptors /\ "idt" \in s.descriptors
  BY DEF Stage, Registers
<1>2. Memory(s, 3) /\ Tasks(s, 3) /\ 3 + 1 = 4
  BY DEF Stage
<1> HIDE DEF r
<1>3. Memory(r, 4)
  BY <1>1, <1>2, MemorySame DEF Fields
<1>4. Tasks(r, 4)
  BY <1>1, <1>2, TasksSame DEF Fields
<1> QED
  BY <1>1, <1>3, <1>4, <1>5 DEF Stage, Registers, r

\* init_mm: a table for every slot, the kernel's frames used.
LEMMA AfterMemory == ASSUME NEW s, Stage(s, 4) PROVE Stage(init_mm(s), 5)
<1> DEFINE r == init_mm(s)
           s1 == init_table_pages(s)
           s2 == init_frames(s1)
           s3 == init_dir_pages(s2)
           s4 == allocate_DIR(s3, 0)
           s5 == set_cr3(s4, s4.dir[0])
<1>1. /\ Whole(s1) /\ s1.pagusr_table = [t \in Slots |-> [p \in Mem!Page |-> KernelOf(p)]]
      /\ \A x \in Fields \ {"pagusr_table"} : s1[x] = s[x]
  BY DEF Stage, Whole, Fields, init_table_pages
<1>2. /\ Whole(s2)
      /\ s2.phys_mem = [f \in Mem!Frame |-> IF f \in Mem!KernelPages THEN "USED" ELSE "FREE"]
      /\ \A x \in Fields \ {"phys_mem"} : s2[x] = s1[x]
  <2> HIDE DEF s1
  <2> QED
    BY <1>1 DEF Whole, Fields, init_frames
<1>3. Whole(s3) /\ \A x \in Fields \ {"dir_pages"} : s3[x] = s2[x]
  <2> HIDE DEF s2
  <2> QED
    BY <1>2 DEF Whole, Fields, init_dir_pages
<1>4. /\ Whole(s4) /\ DOMAIN s4.dir = DOMAIN s3.dir
      /\ \A x \in Fields \ {"dir"} : s4[x] = s3[x]
  <2> HIDE DEF s3
  <2> QED
    BY <1>3 DEF Whole, Fields, allocate_DIR
<1>5. Whole(s5) /\ \A x \in Fields \ {"cr3", "panic"} : s5[x] = s4[x]
  <2> HIDE DEF s4
  <2> QED
    BY <1>4 DEF Whole, Fields, set_cr3
<1>6. Whole(r) /\ \A x \in Fields \ {"cr3", "panic", "paging"} : r[x] = s5[x]
  <2>1. r = set_pe_flag(s5)
    BY Zenon DEF init_mm
  <2> HIDE DEF s5, r
  <2> QED
    BY <1>5, <2>1 DEF Whole, Fields, set_pe_flag, set_cr3
<1> HIDE DEF s1, s2, s3, s4, s5, r
<1>7. Memory(r, 5)
  <2>1. r.phys_mem = PhysGiven(0)
    <3>1. r.phys_mem = s2.phys_mem
      BY <1>3, <1>4, <1>5, <1>6 DEF Fields
    <3>2. 0..(0 - 1) = {}
      OBVIOUS
    <3> QED
      BY <1>2, <3>1, <3>2 DEF PhysGiven
  <2>2. r.pagusr_table = TableGiven(0)
    <3>1. r.pagusr_table = s1.pagusr_table
      BY <1>2, <1>3, <1>4, <1>5, <1>6 DEF Fields
    <3>2. NUM_PAG_KERNEL..(NUM_PAG_KERNEL + 0 - 1) = {}
      BY PageSizes
    <3> QED
      BY <1>1, <3>1, <3>2 DEF TableGiven
  <2> QED
    BY <2>1, <2>2 DEF Memory, PhysAt, TableAt
<1>8. Tasks(r, 5)
  <2>1. /\ r.heap = s.heap /\ r.PID = s.PID /\ r.total_quantum = s.total_quantum
        /\ r.saved = s.saved /\ r.state = s.state /\ DOMAIN r.dir = DOMAIN s.dir
    BY <1>1, <1>2, <1>3, <1>4, <1>5, <1>6 DEF Fields
  <2>2. Tasks(s, 4) /\ 4 + 1 = 5
    BY DEF Stage
  <2> QED
    BY <2>1, <2>2, TasksSame
<1>9. r.descriptors = s.descriptors
  BY <1>1, <1>2, <1>3, <1>4, <1>5, <1>6 DEF Fields
<1> QED
  BY <1>6, <1>7, <1>8, <1>9 DEF Stage, Registers, r

\* init_sched: every slot in the freequeue, no process.
LEMMA AfterSched == ASSUME NEW s, Stage(s, 5) PROVE Stage(init_sched(s), 6)
<1> DEFINE r == init_sched(s)
<1>1. s.heap = Loaded.heap
  BY DEF Stage, Tasks, HeapAt
<1>2. /\ Whole(r) /\ r.PID = [t \in Slots |-> -1] /\ r.policy = "FCFS"
      /\ r.heap = FreeHeap(0, NR_TASKS, {readyqueue})
      /\ \A x \in Fields \ {"PID", "policy", "heap"} : r[x] = s[x]
  <2>1. r = [s EXCEPT !.PID = [t \in Slots |-> -1],
                      !.heap = FreeHeap(0, NR_TASKS, {readyqueue}),
                      !.policy = "FCFS"]
    BY <1>1, SlotsQueued
  <2> HIDE DEF r
  <2> QED
    BY <2>1 DEF Stage, Whole, Fields
<1> HIDE DEF r
<1>3. Memory(r, 6)
  <2>1. Memory(s, 5) /\ 5 + 1 = 6
    BY DEF Stage
  <2> QED
    BY <1>2, <2>1, MemorySame DEF Fields
<1>4. Tasks(r, 6)
  <2>1. Tasks(s, 5)
    BY DEF Stage
  <2>2. HeapAt(6) = FreeHeap(0, NR_TASKS, {readyqueue})
    BY DEF HeapAt
  <2>3. PIDAt(6) = [t \in Slots |-> -1]
    BY DEF PIDAt
  <2>4. QuantumAt(6) = QuantumAt(5) /\ SavedAt(6) = SavedAt(5)
    BY DEF QuantumAt, SavedAt
  <2> QED
    BY <1>2, <2>1, <2>2, <2>3, <2>4 DEF Tasks, Fields
<1> QED
  BY <1>2, <1>3, <1>4 DEF Stage, Registers, Fields, r

\* What TakeSlot does, field by field.
Taken(s, r, t, pid) ==
  /\ Whole(r)
  /\ r.heap = Sched!ListDel(s.heap, t)
  /\ r.PID = [s.PID EXCEPT ![t] = pid]
  /\ r.total_quantum = [s.total_quantum EXCEPT ![t] = DEFAULT_QUANTUM]
  /\ r.dir = [s.dir EXCEPT ![t] = t]
  /\ \A x \in Fields \ {"heap", "PID", "total_quantum", "dir"} : r[x] = s[x]

\* TakeSlot does that.
LEMMA SlotTaken ==
  ASSUME NEW s, Whole(s), NEW t, NEW pid
  PROVE  Taken(s, TakeSlot(s, t, pid), t, pid)
<1> DEFINE m == [s EXCEPT !.heap = Sched!ListDel(@, t), !.PID[t] = pid,
                          !.total_quantum[t] = DEFAULT_QUANTUM]
<1>1. /\ Whole(m)
      /\ m.heap = Sched!ListDel(s.heap, t)
      /\ m.PID = [s.PID EXCEPT ![t] = pid]
      /\ m.total_quantum = [s.total_quantum EXCEPT ![t] = DEFAULT_QUANTUM]
      /\ \A x \in Fields \ {"heap", "PID", "total_quantum"} : m[x] = s[x]
  BY DEF Whole, Fields
<1>2. TakeSlot(s, t, pid) = [m EXCEPT !.dir[t] = t]
  BY Zenon DEF TakeSlot, allocate_DIR
<1> HIDE DEF m
<1> QED
  BY <1>1, <1>2 DEF Taken, Whole, Fields

\* init_idle takes slot 0.
LEMMA AfterIdle == ASSUME NEW s, Stage(s, 6) PROVE Stage(init_idle(s), 7)
<1> DEFINE r == init_idle(s)
           m == TakeSlot(s, 0, 0)
<1>1. Whole(s) /\ Memory(s, 6) /\ Tasks(s, 6) /\ Registers(s, 6)
  BY DEF Stage
<1>2. /\ Sched!ListFirst(s.heap, freequeue) = 0
      /\ Sched!ListDel(s.heap, 0) = FreeHeap(1, NR_TASKS, {readyqueue})
  <2>1. s.heap = FreeHeap(0, NR_TASKS, {readyqueue})
    BY <1>1 DEF Tasks, HeapAt
  <2>2. 0 \in 0..(NR_TASKS - 1) /\ 0 + 1 = 1
    BY Layout
  <2> QED
    BY <2>1, <2>2, TakeFirst
<1>3. r = [m EXCEPT !.saved[0] = "boot"]
  BY <1>2, Zenon DEF init_idle
<1>4. /\ Whole(m)
      /\ m.heap = Sched!ListDel(s.heap, 0)
      /\ m.PID = [s.PID EXCEPT ![0] = 0]
      /\ m.total_quantum = [s.total_quantum EXCEPT ![0] = DEFAULT_QUANTUM]
      /\ m.dir = [s.dir EXCEPT ![0] = 0]
      /\ \A x \in Fields \ {"heap", "PID", "total_quantum", "dir"} : m[x] = s[x]
  <2>1. Taken(s, m, 0, 0)
    BY <1>1, SlotTaken
  <2> HIDE DEF m
  <2> QED
    BY <2>1 DEF Taken
<1> HIDE DEF m, r
<1>5. /\ Whole(r) /\ r.saved = [m.saved EXCEPT ![0] = "boot"]
      /\ \A x \in Fields \ {"saved"} : r[x] = m[x]
  <2>1. Whole(m)
    BY <1>4
  <2> QED
    BY <1>3, <2>1 DEF Whole, Fields
<1>6. Memory(r, 7)
  <2>1. r.phys_mem = s.phys_mem /\ r.pagusr_table = s.pagusr_table /\ 6 + 1 = 7
    BY <1>4, <1>5 DEF Fields
  <2> QED
    BY <1>1, <2>1, MemorySame
<1>7. Tasks(r, 7)
  <2>1. r.heap = HeapAt(7)
    BY <1>2, <1>4, <1>5 DEF HeapAt, Fields
  <2>a. 0 \in Slots
    BY Layout
  <2>2. r.PID = PIDAt(7)
    <3>1. r.PID = [PIDAt(6) EXCEPT ![0] = 0]
      BY <1>1, <1>4, <1>5 DEF Tasks, Fields
    <3> QED
      BY <2>a, <3>1 DEF PIDAt
  <2>3. r.total_quantum = QuantumAt(7)
    <3>1. r.total_quantum = [QuantumAt(6) EXCEPT ![0] = DEFAULT_QUANTUM]
      BY <1>1, <1>4, <1>5 DEF Tasks, Fields
    <3> QED
      BY <2>a, <3>1 DEF QuantumAt
  <2>4. r.saved = SavedAt(7)
    <3>1. r.saved = [SavedAt(6) EXCEPT ![0] = "boot"]
      BY <1>1, <1>4, <1>5 DEF Tasks, Fields
    <3> QED
      BY <2>a, <3>1 DEF SavedAt
  <2>5. r.state = [t \in Slots |-> "RUN"] /\ DOMAIN r.dir = Slots
    BY <1>1, <1>4, <1>5 DEF Tasks, Fields
  <2> QED
    BY <2>1, <2>2, <2>3, <2>4, <2>5 DEF Tasks
<1>8. r.descriptors = s.descriptors /\ r.policy = s.policy
  BY <1>4, <1>5 DEF Fields
<1> QED
  BY <1>1, <1>5, <1>6, <1>7, <1>8 DEF Stage, Registers, r

\* init_task1 takes slot 1, and frames for its pages.
LEMMA AfterTask1 == ASSUME NEW s, Stage(s, 7) PROVE Stage(init_task1(s), 8)
<1> DEFINE r == init_task1(s)
           m == TakeSlot(s, 1, 1)
           g == Given(m, PagesOfTask1)
           e == [g EXCEPT !.state[1] = "RUN", !.remaining_quantum = g.total_quantum[1],
                          !.esp0 = 1]
<1>1. Whole(s) /\ Memory(s, 7) /\ Tasks(s, 7) /\ Registers(s, 7)
  BY DEF Stage
<1>2. /\ Sched!ListFirst(s.heap, freequeue) = 1
      /\ Sched!ListDel(s.heap, 1) = FreeHeap(2, NR_TASKS, {readyqueue})
  <2>1. s.heap = FreeHeap(1, NR_TASKS, {readyqueue})
    BY <1>1 DEF Tasks, HeapAt
  <2>2. 1 \in 0..(NR_TASKS - 1) /\ 1 + 1 = 2
    BY Layout
  <2> QED
    BY <2>1, <2>2, TakeFirst
<1>3. /\ Whole(m)
      /\ m.heap = Sched!ListDel(s.heap, 1)
      /\ m.PID = [s.PID EXCEPT ![1] = 1]
      /\ m.total_quantum = [s.total_quantum EXCEPT ![1] = DEFAULT_QUANTUM]
      /\ m.dir = [s.dir EXCEPT ![1] = 1]
      /\ \A x \in Fields \ {"heap", "PID", "total_quantum", "dir"} : m[x] = s[x]
  <2>1. Taken(s, m, 1, 1)
    BY <1>1, SlotTaken
  <2> HIDE DEF m
  <2> QED
    BY <2>1 DEF Taken
<1>4. set_user_pages(m, 1) = g
  <2>1. m.phys_mem = PhysGiven(0) /\ m.pagusr_table = TableGiven(0)
    <3>1. m.phys_mem = s.phys_mem /\ m.pagusr_table = s.pagusr_table
      BY <1>3 DEF Fields
    <3> QED
      BY <1>1, <3>1 DEF Memory, PhysAt, TableAt
  <2> HIDE DEF m
  <2> QED
    BY <1>3, <2>1, PagesSet
<1>5. r = set_cr3(e, g.dir[1])
  <2> HIDE DEF g
  <2> QED
    BY <1>2, <1>4, Zenon DEF init_task1
<1>6. /\ Whole(g)
      /\ g.phys_mem = PhysGiven(PagesOfTask1) /\ g.pagusr_table = TableGiven(PagesOfTask1)
      /\ \A x \in Fields \ {"phys_mem", "pagusr_table"} : g[x] = m[x]
  <2> HIDE DEF m
  <2>1. Whole(m)
    BY <1>3
  <2> QED
    BY <2>1 DEF Given, Whole, Fields
<1> HIDE DEF m, g
<1>7. /\ Whole(e) /\ e.state = [g.state EXCEPT ![1] = "RUN"]
      /\ e.remaining_quantum = g.total_quantum[1] /\ e.esp0 = 1
      /\ \A x \in Fields \ {"state", "remaining_quantum", "esp0"} : e[x] = g[x]
  <2>1. Whole(g)
    BY <1>6
  <2> QED
    BY <2>1 DEF Whole, Fields
<1> HIDE DEF e, r
<1>8. /\ Whole(r) /\ r.cr3 = g.dir[1]
      /\ \A x \in Fields \ {"cr3", "panic"} : r[x] = e[x]
  <2>1. Whole(e)
    BY <1>7
  <2> QED
    BY <1>5, <2>1 DEF Whole, Fields, set_cr3
<1>a. 1 \in Slots
  BY Layout
<1>9. Memory(r, 8)
  <2>1. /\ r.phys_mem = PhysGiven(PagesOfTask1)
        /\ r.pagusr_table = TableGiven(PagesOfTask1)
    BY <1>6, <1>7, <1>8 DEF Fields
  <2> QED
    BY <2>1 DEF Memory, PhysAt, TableAt
<1>10. Tasks(r, 8)
  <2>1. r.heap = HeapAt(8)
    <3>1. r.heap = m.heap
      BY <1>6, <1>7, <1>8 DEF Fields
    <3> QED
      BY <1>2, <1>3, <3>1 DEF HeapAt
  <2>2. r.PID = PIDAt(8)
    <3>1. r.PID = m.PID
      BY <1>6, <1>7, <1>8 DEF Fields
    <3>2. m.PID = [PIDAt(7) EXCEPT ![1] = 1]
      BY <1>1, <1>3 DEF Tasks
    <3>3. /\ PIDAt(7) = [t \in Slots |-> IF t = 0 THEN 0 ELSE -1]
          /\ PIDAt(8) = [t \in Slots |-> IF t = 0 THEN 0 ELSE IF t = 1 THEN 1 ELSE -1]
      BY DEF PIDAt
    <3> QED
      BY <1>a, <3>1, <3>2, <3>3
  <2>3. r.total_quantum = QuantumAt(8)
    <3>1. r.total_quantum = m.total_quantum
      BY <1>6, <1>7, <1>8 DEF Fields
    <3>2. m.total_quantum = [QuantumAt(7) EXCEPT ![1] = DEFAULT_QUANTUM]
      BY <1>1, <1>3 DEF Tasks
    <3>3. /\ QuantumAt(7) = [t \in Slots |-> IF t = 0 THEN DEFAULT_QUANTUM ELSE 0]
          /\ QuantumAt(8) = [t \in Slots |-> IF t \in {0, 1} THEN DEFAULT_QUANTUM ELSE 0]
      BY DEF QuantumAt
    <3> QED
      BY <1>a, <3>1, <3>2, <3>3
  <2>4. r.saved = SavedAt(8)
    <3>1. r.saved = s.saved
      BY <1>3, <1>6, <1>7, <1>8 DEF Fields
    <3>2. SavedAt(7) = SavedAt(8)
      BY DEF SavedAt
    <3> QED
      BY <1>1, <3>1, <3>2 DEF Tasks
  <2>5. r.state = [t \in Slots |-> "RUN"]
    <3>1. r.state = e.state /\ g.state = s.state
      BY <1>3, <1>6, <1>7, <1>8 DEF Fields
    <3>2. s.state = [t \in Slots |-> "RUN"]
      BY <1>1 DEF Tasks
    <3> QED
      BY <1>7, <1>a, <3>1, <3>2
  <2>6. DOMAIN r.dir = Slots
    <3>1. r.dir = m.dir
      BY <1>6, <1>7, <1>8 DEF Fields
    <3> QED
      BY <1>1, <1>3, <3>1 DEF Tasks
  <2> QED
    BY <2>1, <2>2, <2>3, <2>4, <2>5, <2>6 DEF Tasks
<1>11. r.esp0 = 1 /\ r.cr3 = 1 /\ r.remaining_quantum = DEFAULT_QUANTUM
  <2>1. g.dir = m.dir /\ g.total_quantum = m.total_quantum
    BY <1>6 DEF Fields
  <2>2. DOMAIN s.dir = Slots /\ DOMAIN s.total_quantum = Slots
    BY <1>1 DEF Tasks, QuantumAt
  <2>3. g.dir[1] = 1 /\ g.total_quantum[1] = DEFAULT_QUANTUM
    BY <1>3, <1>a, <2>1, <2>2
  <2> QED
    BY <1>7, <1>8, <2>3 DEF Fields
<1>12. r.descriptors = s.descriptors /\ r.policy = s.policy
  BY <1>3, <1>6, <1>7, <1>8 DEF Fields
<1> QED
  BY <1>1, <1>8, <1>9, <1>10, <1>11, <1>12 DEF Stage, Registers, r

\* zeos_console_init: the third list.
LEMMA AfterConsole == ASSUME NEW s, Stage(s, 8) PROVE Stage(zeos_console_init(s), 9)
<1> DEFINE r == zeos_console_init(s)
<1>1. Whole(s) /\ Memory(s, 8) /\ Tasks(s, 8) /\ Registers(s, 8)
  BY DEF Stage
<1>2. /\ Whole(r) /\ r.heap = INIT_LIST_HEAD(s.heap, console_blocked)
      /\ \A x \in Fields \ {"heap"} : r[x] = s[x]
  BY <1>1 DEF Whole, Fields, zeos_console_init
<1> HIDE DEF r
<1>3. Memory(r, 9)
  <2>1. r.phys_mem = s.phys_mem /\ r.pagusr_table = s.pagusr_table /\ 8 + 1 = 9
    BY <1>2 DEF Fields
  <2> QED
    BY <1>1, <2>1, MemorySame
<1>4. Tasks(r, 9)
  <2>1. r.heap = HeapAt(9)
    <3>1. s.heap = FreeHeap(2, NR_TASKS, {readyqueue})
      BY <1>1 DEF Tasks, HeapAt
    <3>2. /\ 2 \in 0..NR_TASKS /\ {readyqueue} \subseteq {readyqueue, console_blocked}
          /\ console_blocked \in {readyqueue, console_blocked}
          /\ {readyqueue} \cup {console_blocked} = {readyqueue, console_blocked}
      BY Layout
    <3>3. INIT_LIST_HEAD(FreeHeap(2, NR_TASKS, {readyqueue}), console_blocked)
            = FreeHeap(2, NR_TASKS, {readyqueue} \cup {console_blocked})
      BY <3>2, ListMade, Zenon
    <3> QED
      BY <1>2, <3>1, <3>2, <3>3 DEF HeapAt
  <2>2. PIDAt(8) = PIDAt(9) /\ QuantumAt(8) = QuantumAt(9) /\ SavedAt(8) = SavedAt(9)
    BY DEF PIDAt, QuantumAt, SavedAt
  <2> QED
    BY <1>1, <1>2, <2>1, <2>2 DEF Tasks, Fields
<1>5. \A x \in {"descriptors", "policy", "esp0", "cr3", "remaining_quantum"} : r[x] = s[x]
  BY <1>2 DEF Fields
<1> QED
  BY <1>1, <1>2, <1>3, <1>4, <1>5 DEF Stage, Registers, r

\* What neither the stage nor the handlers look at may change.
LEMMA OthersChange ==
  ASSUME NEW s, NEW r, NEW n, Stage(s, n), Whole(r),
         \A x \in Fields \ {"frames", "interrupts", "ticked", "panic"} : r[x] = s[x]
  PROVE  Stage(r, n) /\ (n \in {9, 10, 11} => Stage(r, n + 1))
<1>1. /\ r.phys_mem = s.phys_mem /\ r.pagusr_table = s.pagusr_table
      /\ r.heap = s.heap /\ r.PID = s.PID /\ r.total_quantum = s.total_quantum
      /\ r.saved = s.saved /\ r.state = s.state /\ r.dir = s.dir
      /\ r.descriptors = s.descriptors /\ r.policy = s.policy /\ r.esp0 = s.esp0
      /\ r.cr3 = s.cr3 /\ r.remaining_quantum = s.remaining_quantum
  BY DEF Fields
<1>2. Stage(r, n)
  BY <1>1 DEF Stage, Memory, Tasks, Registers
<1>3. ASSUME n \in {9, 10, 11} PROVE Stage(r, n + 1)
  <2>1. Memory(r, n + 1)
    BY <1>1, <1>3, MemorySame DEF Stage
  <2>2. Tasks(r, n + 1)
    BY <1>1, <1>3, TasksSame DEF Stage
  <2>3. Registers(r, n + 1)
    BY <1>1, <1>3 DEF Stage, Registers
  <2> QED
    BY <2>1, <2>2, <2>3 DEF Stage
<1> QED
  BY <1>2, <1>3

\* copy_data.
LEMMA AfterCopy == ASSUME NEW s, Stage(s, 9) PROVE Stage(copy_data(s), 10)
<1> DEFINE r == copy_data(s)
<1>1. Whole(s)
  BY DEF Stage
<1>2. \E v : r = [s EXCEPT !.panic = TRUE] \/ r = [s EXCEPT !.frames = v]
  BY Zenon DEF copy_data
<1> HIDE DEF r
<1>3. Whole(r) /\ \A x \in Fields \ {"frames", "interrupts", "ticked", "panic"} : r[x] = s[x]
  BY <1>1, <1>2 DEF Whole, Fields
<1>4. 9 \in {9, 10, 11} /\ 9 + 1 = 10
  OBVIOUS
<1> QED
  BY <1>3, <1>4, OthersChange DEF r

\* enable_int.
LEMMA AfterEnable == ASSUME NEW s, Stage(s, 10) PROVE Stage(enable_int(s), 11)
<1> DEFINE r == enable_int(s)
<1>1. Whole(r) /\ \A x \in Fields \ {"frames", "interrupts", "ticked", "panic"} : r[x] = s[x]
  BY DEF Stage, Whole, Fields, enable_int
<1>2. 10 \in {9, 10, 11} /\ 10 + 1 = 11
  OBVIOUS
<1> HIDE DEF r
<1> QED
  BY <1>1, <1>2, OthersChange DEF r

\* return_gate.
LEMMA AfterReturn == ASSUME NEW s, Stage(s, 11) PROVE Stage(return_gate(s), 12)
<1> DEFINE r == return_gate(s)
<1>1. Whole(s)
  BY DEF Stage
<1>2. \E v : r = [s EXCEPT !.panic = TRUE] \/ r = [s EXCEPT !.frames = v] \/ r = s
  <2> DEFINE f == Translate(s, NUM_PAG_KERNEL + LastWord \div PAGE_SIZE)
             v == [s.frames EXCEPT ![f] = -1]
  <2>1. [s EXCEPT !.frames[f] = -1] = [s EXCEPT !.frames = v]
    OBVIOUS
  <2>2. r = [s EXCEPT !.panic = TRUE] \/ r = [s EXCEPT !.frames[f] = -1] \/ r = s
    BY Zenon DEF return_gate
  <2> HIDE DEF f, v, r
  <2> QED
    BY <2>1, <2>2
<1> HIDE DEF r
<1>3. Whole(r) /\ \A x \in Fields \ {"frames", "interrupts", "ticked", "panic"} : r[x] = s[x]
  BY <1>1, <1>2 DEF Whole, Fields
<1>4. 11 \in {9, 10, 11} /\ 11 + 1 = 12
  OBVIOUS
<1> QED
  BY <1>3, <1>4, OthersChange DEF r

\* The calls of main and their places.
LEMMA MainCalls ==
  /\ Len(main) = 11 /\ DOMAIN main = 1..11
  /\ main[1] = "setGdt" /\ main[2] = "setIdt" /\ main[3] = "setTSS" /\ main[4] = "init_mm"
  /\ main[5] = "init_sched" /\ main[6] = "init_idle" /\ main[7] = "init_task1"
  /\ main[8] = "zeos_console_init" /\ main[9] = "copy_data" /\ main[10] = "enable_int"
  /\ main[11] = "return_gate"
BY DEF main

StageInv == step \in 0..12 /\ Stage(k, step)

\* Every step, a call of main or an early tick, leads to the stage of what is next.
LEMMA StageStep == StageInv /\ [StartNext]_allvars => StageInv'
<1> SUFFICES ASSUME StageInv, [StartNext]_allvars PROVE StageInv'
  OBVIOUS
<1>1. \A i \in 1..11 : i \in {1, 2, 3, 4, 5, 6, 7, 8, 9, 10, 11}
  OBVIOUS
<1>2. ASSUME NEW f, NEW left, Performs(f, left)
      PROVE  step \in 1..11 /\ main[step] = f /\ k' = left /\ step' = step + 1
  BY <1>2, MainCalls DEF Performs
<1>3. ASSUME step \in 1..11, step' = step + 1, Stage(k', step + 1)
      PROVE  StageInv'
  BY <1>3 DEF StageInv
<1>4. CASE Next /\ UNCHANGED <<step, k>>
  BY <1>4 DEF StageInv
<1>5. CASE Enter
  BY <1>5, AtLoad DEF Enter, StageInv
<1>6. CASE Main
  <2> HIDE DEF StageInv
  <2>0. Stage(k, step)
    BY DEF StageInv
  <2>1. CASE Performs("setGdt", setGdt(k))
    <3>1. step = 1
      BY <1>1, <1>2, <2>1, MainCalls
    <3> QED
      BY <1>2, <1>3, <2>0, <2>1, <3>1, AfterGdt
  <2>2. CASE Performs("setIdt", setIdt(k))
    <3>1. step = 2
      BY <1>1, <1>2, <2>2, MainCalls
    <3> QED
      BY <1>2, <1>3, <2>0, <2>2, <3>1, AfterIdt
  <2>3. CASE Performs("setTSS", setTSS(k))
    <3>1. step = 3
      BY <1>1, <1>2, <2>3, MainCalls
    <3> QED
      BY <1>2, <1>3, <2>0, <2>3, <3>1, AfterTSS
  <2>4. CASE Performs("init_mm", init_mm(k))
    <3>1. step = 4
      BY <1>1, <1>2, <2>4, MainCalls
    <3> QED
      BY <1>2, <1>3, <2>0, <2>4, <3>1, AfterMemory
  <2>5. CASE Performs("init_sched", init_sched(k))
    <3>1. step = 5
      BY <1>1, <1>2, <2>5, MainCalls
    <3> QED
      BY <1>2, <1>3, <2>0, <2>5, <3>1, AfterSched
  <2>6. CASE Performs("init_idle", init_idle(k))
    <3>1. step = 6
      BY <1>1, <1>2, <2>6, MainCalls
    <3> QED
      BY <1>2, <1>3, <2>0, <2>6, <3>1, AfterIdle
  <2>7. CASE Performs("init_task1", init_task1(k))
    <3>1. step = 7
      BY <1>1, <1>2, <2>7, MainCalls
    <3> QED
      BY <1>2, <1>3, <2>0, <2>7, <3>1, AfterTask1
  <2>8. CASE Performs("zeos_console_init", zeos_console_init(k))
    <3>1. step = 8
      BY <1>1, <1>2, <2>8, MainCalls
    <3> QED
      BY <1>2, <1>3, <2>0, <2>8, <3>1, AfterConsole
  <2>9. CASE Performs("copy_data", copy_data(k))
    <3>1. step = 9
      BY <1>1, <1>2, <2>9, MainCalls
    <3> QED
      BY <1>2, <1>3, <2>0, <2>9, <3>1, AfterCopy
  <2>10. CASE Performs("enable_int", enable_int(k))
    <3>1. step = 10
      BY <1>1, <1>2, <2>10, MainCalls
    <3> QED
      BY <1>2, <1>3, <2>0, <2>10, <3>1, AfterEnable
  <2>11. CASE Performs("return_gate", return_gate(k))
    <3>1. step = 11
      BY <1>1, <1>2, <2>11, MainCalls
    <3> QED
      BY <1>2, <1>3, <2>0, <2>11, <3>1, AfterReturn
  <2> QED
    BY <1>6, <2>1, <2>2, <2>3, <2>4, <2>5, <2>6, <2>7, <2>8, <2>9, <2>10, <2>11 DEF Main
<1>7. CASE EarlyTick
  <2>1. Stage(k, step) /\ Whole(k)
    BY DEF StageInv, Stage
  <2>2. step' = step
    BY <1>7 DEF EarlyTick
  <2>3. Whole(k') /\ \A x \in Fields \ {"frames", "interrupts", "ticked", "panic"} : k'[x] = k[x]
    BY <1>7, <2>1 DEF EarlyTick, Whole, Fields
  <2> QED
    BY <2>1, <2>2, <2>3, OthersChange DEF StageInv
<1>8. CASE UNCHANGED allvars
  BY <1>8 DEF allvars, StageInv
<1> QED
  BY <1>4, <1>5, <1>6, <1>7, <1>8 DEF StartNext

\* The memory of the last stage is the memory ProcMemory starts with.
LEMMA MemoryAtBoot ==
  ASSUME Stage(k, 12)
  PROVE  Mem!BootMemory
<1> DEFINE K == NUM_PAG_KERNEL
           N == PagesOfTask1
<1>1. Memory(k, 12) /\ Tasks(k, 12) /\ Registers(k, 12)
  BY DEF Stage
<1>2. K \in Nat \ {0} /\ N \in Nat /\ N = NUM_PAG_CODE + NUM_PAG_DATA
  BY PageSizes DEF PagesOfTask1
<1>3. ASSUME NEW p PROVE p \in Mem!CodePages \cup Mem!DataPages <=> p \in K..(K + N - 1)
  BY PageSizes DEF Mem!CodePages, Mem!DataPages, Mem!PAG_LOG_INIT_CODE, Mem!PAG_LOG_INIT_DATA,
     PagesOfTask1
<1>4. \A p \in K..(K + N - 1) : Mem!BootFrame(p) = GivenFrame(p - K)
  BY <1>2 DEF Mem!BootFrame, Mem!PAG_LOG_INIT_CODE, GivenFrame
<1>5. k.phys_mem = [f \in Mem!Frame |->
                      IF \/ f \in Mem!KernelPages
                         \/ \E p \in Mem!CodePages \cup Mem!DataPages : f = Mem!BootFrame(p)
                      THEN "USED" ELSE "FREE"]
  <2>1. k.phys_mem = PhysGiven(N)
    BY <1>1 DEF Memory, PhysAt
  <2>2. ASSUME NEW f
        PROVE  (\E i \in 0..(N - 1) : f = GivenFrame(i))
               <=> \E p \in Mem!CodePages \cup Mem!DataPages : f = Mem!BootFrame(p)
    <3>1. ASSUME NEW i \in 0..(N - 1)
          PROVE  \E p \in Mem!CodePages \cup Mem!DataPages : GivenFrame(i) = Mem!BootFrame(p)
      <4>1. K + i \in K..(K + N - 1) /\ (K + i) - K = i
        BY <1>2
      <4> QED
        BY <1>3, <1>4, <4>1
    <3>2. ASSUME NEW p \in Mem!CodePages \cup Mem!DataPages
          PROVE  \E i \in 0..(N - 1) : Mem!BootFrame(p) = GivenFrame(i)
      <4>1. p \in K..(K + N - 1) /\ p - K \in 0..(N - 1)
        BY <1>2, <1>3
      <4> QED
        BY <1>4, <4>1
    <3> QED
      BY <3>1, <3>2
  <2> QED
    BY <2>1, <2>2 DEF PhysGiven
<1>6. k.pagusr_table = [t \in Slots |-> Mem!BootTable(t)]
  <2>1. k.pagusr_table = TableGiven(N)
    BY <1>1 DEF Memory, TableAt
  <2>2. ASSUME NEW t \in Slots, NEW p \in Mem!Page
        PROVE  TableGiven(N)[t][p] = Mem!BootTable(t)[p]
    <3>1. TableGiven(N)[t][p] = IF t = 1 /\ p \in K..(K + N - 1)
                                THEN Mem!set_ss_pag(GivenFrame(p - K)) ELSE KernelOf(p)
      BY DEF TableGiven
    <3>2. p \in K..(K + N - 1) => p \notin Mem!KernelPages
      BY <1>2 DEF Mem!KernelPages
    <3>3. GuardPages \subseteq Mem!KernelPages \ {0}
      BY PageSizes
    <3>4. CASE p \in Mem!KernelPages \ {0}
      BY <3>1, <3>2, <3>3, <3>4 DEF Mem!BootTable, KernelOf, Mem!set_ss_pag
    <3>5. CASE t = 1 /\ p \in K..(K + N - 1)
      BY <1>3, <1>4, <3>1, <3>2, <3>3, <3>5 DEF Mem!BootTable, Mem!Task1
    <3>6. CASE p \notin Mem!KernelPages \ {0} /\ ~ (t = 1 /\ p \in K..(K + N - 1))
      BY <1>3, <3>1, <3>3, <3>6 DEF Mem!BootTable, Mem!Task1, KernelOf
    <3> QED
      BY <3>4, <3>5, <3>6
  <2> QED
    BY <2>1, <2>2 DEF TableGiven, Mem!BootTable
<1>7. {t \in 0..(NR_TASKS - 1) : k.PID[t] > 0} = {1}
  <2>1. k.PID = PIDAt(12) /\ Slots = 0..(NR_TASKS - 1) /\ 1 \in Slots
    BY <1>1, Layout DEF Tasks
  <2>2. \A t \in Slots : PIDAt(12)[t] > 0 <=> t = 1
    BY DEF PIDAt
  <2> QED
    BY <2>1, <2>2
<1>8. k.cr3 = 1
  BY <1>1 DEF Registers
<1> QED
  BY <1>5, <1>6, <1>7, <1>8 DEF Mem!BootMemory, Mem!Task1, Slots

\* The tasks of the last stage are those ZeosSched starts with.
LEMMA TasksAtBoot ==
  ASSUME Stage(k, 12)
  PROVE  Sched!Init
<1>1. Memory(k, 12) /\ Tasks(k, 12) /\ Registers(k, 12)
  BY DEF Stage
<1>2. /\ Slots = 0..(NR_TASKS - 1) /\ Sched!Slots = Slots /\ 0 \in Slots /\ 1 \in Slots
      /\ Sched!Idle = 0 /\ Sched!Task1 = 1
  BY Layout DEF Sched!Idle, Sched!Task1
<1>3. k.heap = Sched!BootHeap
  BY <1>1, ListsAtBoot DEF Tasks, HeapAt
<1>4. {t \in 0..(NR_TASKS - 1) : k.PID[t] # -1} = {Sched!Idle, Sched!Task1}
  <2>1. k.PID = PIDAt(12)
    BY <1>1 DEF Tasks
  <2>2. \A t \in Slots : PIDAt(12)[t] # -1 <=> t \in {0, 1}
    BY DEF PIDAt
  <2> QED
    BY <1>2, <2>1, <2>2
<1>5. k.state = [t \in Sched!Slots |-> "RUN"]
  BY <1>1, <1>2 DEF Tasks
<1>6. k.saved = [t \in Sched!Slots |-> IF t = Sched!Idle THEN "boot" ELSE "none"]
  BY <1>1, <1>2 DEF Tasks, SavedAt
<1>7. [t \in 0..(NR_TASKS - 1) |-> k.pagusr_table[t][0].present]
        = [t \in Sched!Slots |-> FALSE]
  <2>1. k.pagusr_table = TableGiven(PagesOfTask1)
    BY <1>1 DEF Memory, TableAt
  <2>2. ASSUME NEW t \in Slots PROVE TableGiven(PagesOfTask1)[t][0].present = FALSE
    <3>1. 0 \in Mem!Page /\ 0 \notin NUM_PAG_KERNEL..(NUM_PAG_KERNEL + PagesOfTask1 - 1)
      BY PageSizes DEF Mem!Page
    <3>2. TableGiven(PagesOfTask1)[t][0] = KernelOf(0)
      BY <3>1 DEF TableGiven
    <3> QED
      BY <3>2 DEF KernelOf, Mem!NoEntry
  <2> QED
    BY <1>2, <2>1, <2>2
<1>8. k.esp0 = Sched!Task1 /\ k.remaining_quantum = DEFAULT_QUANTUM /\ k.policy = "FCFS"
  BY <1>1, <1>2 DEF Registers
<1>9. Cardinality(Mem!FreeFrames(k.phys_mem))
        = Cardinality(Mem!Candidates) - NUM_PAG_CODE - NUM_PAG_DATA
  BY <1>1, FramesLeft DEF Memory, PhysAt
<1> QED
  BY <1>3, <1>4, <1>5, <1>6, <1>7, <1>8, <1>9, Zenon DEF Sched!Init

\* The stages hold throughout.
LEMMA StagesHold == StartSpec => []StageInv
<1>1. StartInit => StageInv
  BY AtLoad DEF StartInit, StageInv
<1> QED
  BY <1>1, StageStep, PTL DEF StartSpec

\* For every layout of memory and any number of descriptors: main leaves what the
\* other modules start from, on whatever image it runs.
THEOREM BootedAsSpecified == StartSpec => []StartsAsSpecified
<1>1. StageInv => StartsAsSpecified
  <2> SUFFICES ASSUME StageInv, UserMode
               PROVE  /\ Sched!Init
                      /\ Mem!BootMemory
                      /\ {"gdt", "idt", "tss"} \subseteq k.descriptors
                      /\ \A t \in Slots : k.PID[t] # -1 => k.total_quantum[t] = DEFAULT_QUANTUM
    BY DEF StartsAsSpecified
  <2>1. Stage(k, 12)
    BY MainCalls DEF StageInv, UserMode
  <2>2. {"gdt", "idt", "tss"} \subseteq k.descriptors
    BY <2>1 DEF Stage, Registers
  <2>3. ASSUME NEW t \in Slots, k.PID[t] # -1 PROVE k.total_quantum[t] = DEFAULT_QUANTUM
    <3>1. k.PID = PIDAt(12) /\ k.total_quantum = QuantumAt(12)
      BY <2>1 DEF Stage, Tasks
    <3>2. PIDAt(12)[t] # -1 => t \in {0, 1}
      BY DEF PIDAt
    <3>3. t \in {0, 1} => QuantumAt(12)[t] = DEFAULT_QUANTUM
      BY DEF QuantumAt
    <3> QED
      BY <2>3, <3>1, <3>2, <3>3
  <2> QED
    BY <2>1, <2>2, <2>3, MemoryAtBoot, TasksAtBoot
<1> QED
  BY <1>1, StagesHold, PTL

\* Loading is all that the start of ZeOS does to the loader's variables, so the
\* theorems of part one hold of it.
THEOREM StartLoads == StartSpec => Spec
<1>1. StartInit => Init
  BY DEF StartInit
<1>2. [StartNext]_allvars => [Next]_vars
  BY DEF StartNext, Enter, Main, Performs, EarlyTick, allvars
<1> QED
  BY <1>1, <1>2, PTL DEF StartSpec, Spec
=============================================================================
