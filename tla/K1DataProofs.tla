---------------------------- MODULE K1DataProofs ----------------------------
(***************************************************************************)
(* K1's files and memory, for every machine: the pieces of memory stay     *)
(* apart and counted whatever a file, the kernel, the import and Linux     *)
(* take and give back; the file's pages are the ones its tree holds; and   *)
(* what they hold is a file of bytes.  And DiskExact, for every drive,     *)
(* sector and chunk: what a call on /dev/hda or /dev/hdb does to the bytes *)
(* of a drive whose commands may fail.                                     *)
(***************************************************************************)
EXTENDS K1Data, K1AllocProofs, NaturalsInduction, WellFoundedInduction

(***************************************************************************)
(* Arithmetic of sectors.                                                  *)
(***************************************************************************)

\* SectorDivision and remainder (ata.c:137).
LEMMA SectorDivision ==
  ASSUME NEW x \in Nat, NEW d \in Nat, d > 0
  PROVE  x \div d \in Nat /\ x % d \in Nat /\ x % d < d /\ x = (x \div d) * d + (x % d)
  BY SMT

LEMMA SectorProduct == \A a \in Nat, b \in Nat : a * b \in Nat
  BY SMT

\* A multiple that is less than one past another is not greater.
LEMMA SectorMultiples ==
  ASSUME NEW a \in Nat, NEW b \in Nat, NEW d \in Nat, d > 0
  PROVE  (a <= b => a * d <= b * d) /\ (a * d < b * d + d => a <= b)
  BY SMT

\* Rounding up to whole sectors (ata.c:141) adds less than one.
LEMMA RoundUp ==
  ASSUME NEW x \in Nat, NEW d \in Nat, d > 0
  PROVE  LET q == (x + d - 1) \div d
         IN  q \in Nat /\ q * d \in Nat /\ x <= q * d /\ q * d < x + d
  BY SectorDivision, x + d - 1 \in Nat, SectorProduct

\* A list of bytes given by its values, lists put together, and equal lists.
LEMMA ListOf ==
  ASSUME NEW S, NEW n \in Nat, NEW f \in [1..n -> S]
  PROVE  f \in Seq(S) /\ Len(f) = n
  BY SMT

LEMMA Joined ==
  ASSUME NEW S, NEW s \in Seq(S), NEW t \in Seq(S)
  PROVE  /\ s \o t \in Seq(S) /\ Len(s \o t) = Len(s) + Len(t)
         /\ \A b \in 1..Len(s) : (s \o t)[b] = s[b]
  BY SMT

LEMMA JoinedRight ==
  ASSUME NEW S, NEW s \in Seq(S), NEW t \in Seq(S), NEW b \in 1..Len(t)
  PROVE  (s \o t)[Len(s) + b] = t[b]
  BY SMT

LEMMA SameList ==
  ASSUME NEW S, NEW s \in Seq(S), NEW n \in Nat, Len(s) = n
  PROVE  s = [b \in 1..n |-> s[b]]
  BY SMT

(***************************************************************************)
(* The invariant.                                                          *)
(***************************************************************************)

Buffer == 0..(Chunk * Sect - 1)

\* A call being made stays within the drive and has not done more than it is to.
CallOK ==
  /\ io.call \in {"read", "write"} /\ io.off \in At /\ io.n \in Nat /\ io.done \in Nat
  /\ io.done <= io.n /\ io.off + io.n <= DiskSize /\ io.byte \in Bytes
  /\ io.loaded \in BOOLEAN /\ io.failed \in BOOLEAN /\ io.was \in [At -> Bytes]
  /\ io = [call |-> io.call, off |-> io.off, n |-> io.n, byte |-> io.byte, done |-> io.done,
           loaded |-> io.loaded, buf |-> io.buf, was |-> io.was, failed |-> io.failed]

\* What a read has brought so far.
ReadSoFar ==
  /\ disk = io.was
  /\ io.buf \in Seq(Bytes) /\ Len(io.buf) = io.done
  /\ \A b \in 1..io.done : io.buf[b] = disk[io.off + b - 1]

\* What a write has changed so far.
WrittenSoFar == \A a \in At :
  /\ io.off <= a /\ a < io.off + io.done => disk[a] = io.byte
  /\ io.off + io.done <= a /\ a < io.off + io.n => disk[a] = io.was[a] \/ disk[a] = io.byte
  /\ a < io.off \/ io.off + io.n <= a => disk[a] = io.was[a]

\* A chunk that was read first is in the buffer as it is on the drive.
ChunkLoaded ==
  io.loaded /\ ~io.failed =>
    /\ io.call = "write" /\ io.done < io.n
    /\ \A b \in Buffer : b < Secs * Sect => bounce[b] = disk[Lba * Sect + b]

DiskInv ==
  /\ disk \in [At -> Bytes] /\ bounce \in [Buffer -> Bytes]
  /\ io # Idle => /\ CallOK /\ ChunkLoaded
                  /\ io.call = "read" => ReadSoFar
                  /\ io.call = "write" => WrittenSoFar

LEMMA DiskSizes ==
  /\ Sect \in Nat /\ Chunk \in Nat /\ Sectors \in Nat /\ Sect > 0 /\ Chunk > 0 /\ Sectors > 0
  /\ DiskSize \in Nat /\ Chunk * Sect \in Nat /\ Chunk * Sect >= Sect
  BY DiskAssumption, SectorProduct, SMT DEF DiskSize

\* The chunk a call is at lies inside the buffer and inside the drive.
LEMMA ChunkInside ==
  ASSUME DiskInv, io # Idle, io.done < io.n
  PROVE  /\ Pos \in Nat /\ Lba \in Nat /\ Skip \in Nat /\ Moved \in Nat /\ Secs \in Nat
         /\ Lba * Sect \in Nat /\ Secs * Sect \in Nat
         /\ Pos = io.off + io.done /\ Pos = Lba * Sect + Skip /\ Skip < Sect
         /\ 0 < Moved /\ io.done + Moved <= io.n
         /\ Skip + Moved <= Secs * Sect /\ Secs * Sect <= Chunk * Sect
         /\ Lba * Sect + Secs * Sect <= DiskSize
         /\ ~ReadsFirst => Skip = 0 /\ Secs * Sect = Moved
PROOF
<1>1. /\ io.off \in Nat /\ io.done \in Nat /\ io.n \in Nat /\ Pos \in Nat
      /\ io.off + io.n <= DiskSize /\ Pos = io.off + io.done
  BY DiskSizes DEF DiskInv, CallOK, At, Pos
<1>2. Lba \in Nat /\ Skip \in Nat /\ Skip < Sect /\ Pos = Lba * Sect + Skip /\ Lba * Sect \in Nat
  BY <1>1, DiskSizes, SectorDivision, SectorProduct DEF Lba, Skip
<1>3. /\ Moved \in Nat /\ 0 < Moved /\ io.done + Moved <= io.n /\ Skip + Moved <= Chunk * Sect
  BY <1>1, <1>2, DiskSizes DEF Moved
<1>4. /\ Secs \in Nat /\ Secs * Sect \in Nat
      /\ Skip + Moved <= Secs * Sect /\ Secs * Sect < Skip + Moved + Sect
  BY <1>2, <1>3, DiskSizes, RoundUp DEF Secs
<1>5. Secs * Sect <= Chunk * Sect
  <2>1. Secs * Sect < Chunk * Sect + Sect
    BY <1>2, <1>3, <1>4, DiskSizes
  <2>2. Secs <= Chunk
    BY <2>1, <1>4, DiskSizes, SectorMultiples
  <2> QED
    BY <2>2, <1>4, DiskSizes, SectorMultiples
<1>6. Lba * Sect + Secs * Sect <= DiskSize
  <2>1. Lba + Secs \in Nat /\ (Lba + Secs) * Sect = Lba * Sect + Secs * Sect
    BY <1>2, <1>4, DiskSizes, SMT
  <2>2. (Lba + Secs) * Sect < Sectors * Sect + Sect
    BY <2>1, <1>1, <1>2, <1>3, <1>4, DiskSizes DEF DiskSize
  <2>3. Lba + Secs <= Sectors
    BY <2>1, <2>2, DiskSizes, SectorMultiples
  <2> QED
    BY <2>1, <2>3, DiskSizes, SectorMultiples DEF DiskSize
<1>7. ASSUME ~ReadsFirst PROVE Skip = 0 /\ Secs * Sect = Moved
  <2>1. Skip = 0 /\ Moved % Sect = 0
    BY <1>7 DEF ReadsFirst
  <2>2. Moved \div Sect \in Nat /\ Moved = (Moved \div Sect) * Sect
    BY <2>1, <1>3, DiskSizes, SectorDivision
  <2>3. Secs <= Moved \div Sect
    <3>1. Secs * Sect < (Moved \div Sect) * Sect + Sect
      BY <2>1, <2>2, <1>4, <1>3
    <3> QED
      BY <3>1, <2>2, <1>4, DiskSizes, SectorMultiples
  <2>4. Secs * Sect <= Moved
    <3>1. Secs * Sect <= (Moved \div Sect) * Sect
      BY <2>3, <2>2, <1>4, DiskSizes, SectorMultiples
    <3> QED
      BY <3>1, <2>2
  <2> QED
    BY <2>1, <2>4, <1>3, <1>4
<1> QED
  BY <1>1, <1>2, <1>3, <1>4, <1>5, <1>6, <1>7

(***************************************************************************)
(* The steps.                                                              *)
(***************************************************************************)

LEMMA LoadType ==
  ASSUME DiskInv, io # Idle, io.done < io.n, NEW k \in Nat, k <= Secs
  PROVE  /\ Load(k) \in [Buffer -> Bytes]
         /\ \A b \in Buffer : b < k * Sect => Load(k)[b] = disk[Lba * Sect + b]
PROOF
<1>1. k * Sect \in Nat /\ k * Sect <= Secs * Sect
  BY ChunkInside, DiskSizes, SectorProduct, SectorMultiples
<1>2. DOMAIN bounce = Buffer
  BY DEF DiskInv
<1>3. \A b \in Buffer : b < k * Sect => Lba * Sect + b \in At
  BY <1>1, ChunkInside, DiskSizes DEF Buffer, At
<1> QED
  BY <1>1, <1>2, <1>3 DEF Load, DiskInv

\* What a command that writes k sectors of the chunk puts on the drive, once the
\* chunk was read where it had to be.
LEMMA StoredBytes ==
  ASSUME DiskInv, io # Idle, io.call = "write", io.done < io.n, ~io.failed,
         ReadsFirst => io.loaded, NEW k \in Nat, k <= Secs
  PROVE  /\ Filled \in [Buffer -> Bytes] /\ Stored(k) \in [At -> Bytes]
         /\ \A a \in At : IF Pos <= a /\ a < Pos + Moved
                          THEN Stored(k)[a] = io.byte \/ (k < Secs /\ Stored(k)[a] = disk[a])
                          ELSE Stored(k)[a] = disk[a]
PROOF
<1>1. k * Sect \in Nat /\ k * Sect <= Secs * Sect /\ (Lba + k) * Sect = Lba * Sect + k * Sect
  <2>1. k * Sect \in Nat /\ k * Sect <= Secs * Sect
    BY ChunkInside, DiskSizes, SectorProduct, SectorMultiples
  <2>2. (Lba + k) * Sect = Lba * Sect + k * Sect
    BY ChunkInside, DiskSizes, SMT
  <2> QED
    BY <2>1, <2>2
<1>2. Filled \in [Buffer -> Bytes]
  BY DEF Filled, DiskInv, CallOK
<1>3. \A a \in At : Lba * Sect <= a /\ a < Lba * Sect + k * Sect => a - Lba * Sect \in Buffer
  BY <1>1, ChunkInside, DiskSizes DEF Buffer, At
<1>4. ASSUME NEW a \in At, Lba * Sect <= a, a < Lba * Sect + k * Sect
      PROVE  Stored(k)[a] = IF Pos <= a /\ a < Pos + Moved THEN io.byte ELSE disk[a]
  <2>1. a \in Nat /\ a - Lba * Sect \in Buffer /\ Stored(k)[a] = Filled[a - Lba * Sect]
    <3>1. a \in (Lba * Sect)..((Lba + k) * Sect - 1)
      BY <1>1, <1>4, ChunkInside DEF At
    <3> QED
      BY <3>1, <1>3, <1>4 DEF Stored, At
  <2>2. Filled[a - Lba * Sect] = IF a - Lba * Sect \in Skip..(Skip + Moved - 1)
                                 THEN io.byte ELSE bounce[a - Lba * Sect]
    BY <2>1 DEF Filled, DiskInv
  <2>3. a - Lba * Sect \in Skip..(Skip + Moved - 1) <=> Pos <= a /\ a < Pos + Moved
    BY <2>1, ChunkInside
  <2>4. ASSUME ~(Pos <= a /\ a < Pos + Moved)
        PROVE  bounce[a - Lba * Sect] = disk[a]
    <3>1. CASE io.loaded
      <4>1. a - Lba * Sect < Secs * Sect /\ Lba * Sect + (a - Lba * Sect) = a
        BY <2>1, <1>1, <1>4, ChunkInside
      <4> QED
        BY <3>1, <4>1, <2>1 DEF DiskInv, ChunkLoaded
    <3>2. CASE ~io.loaded
      BY <3>2, <2>1, <2>4, <1>1, <1>4, ChunkInside
    <3> QED
      BY <3>1, <3>2
  <2> QED
    BY <2>1, <2>2, <2>3, <2>4
<1>5. ASSUME NEW a \in At, ~(Lba * Sect <= a /\ a < Lba * Sect + k * Sect)
      PROVE  Stored(k)[a] = disk[a]
  <2>1. a \notin (Lba * Sect)..((Lba + k) * Sect - 1)
    BY <1>1, <1>5, ChunkInside DEF At
  <2> QED
    BY <2>1 DEF Stored
<1>6. \A a \in At : Stored(k)[a] \in Bytes
  BY <1>4, <1>5 DEF DiskInv, CallOK
<1>7. Stored(k) \in [At -> Bytes]
  BY <1>6 DEF Stored
<1>8. ASSUME NEW a \in At, Pos <= a, a < Pos + Moved, k = Secs
      PROVE  Lba * Sect <= a /\ a < Lba * Sect + k * Sect
  BY <1>8, ChunkInside DEF At
<1> QED
  BY <1>2, <1>4, <1>5, <1>7, <1>8, ChunkInside

LEMMA DiskInitInv == DiskInit => DiskInv
  BY DiskAssumption DEF DiskInit, DiskInv, Buffer

LEMMA DiskCallInv ==
  ASSUME DiskInv, NEW call \in {"read", "write"}, NEW off \in At, NEW n \in 1..DiskSize,
         NEW byte \in Bytes, DiskCall(call, off, n, byte)
  PROVE  DiskInv'
PROOF
<1> DEFINE most == IF n > DiskSize - off THEN DiskSize - off ELSE n
<1>1. off \in Nat /\ off < DiskSize /\ most \in Nat /\ off + most <= DiskSize
  BY DiskSizes DEF At
<1>2. io' = [call |-> call, off |-> off, n |-> most, byte |-> byte, done |-> 0, loaded |-> FALSE,
             buf |-> <<>>, was |-> disk, failed |-> FALSE]
  BY DEF DiskCall, Idle
<1>3. disk' = disk /\ bounce' = bounce
  BY DEF DiskCall
<1>4. CallOK'
  BY <1>1, <1>2 DEF CallOK, DiskInv
<1>5. ReadSoFar' /\ WrittenSoFar' /\ ChunkLoaded'
  BY <1>1, <1>2, <1>3 DEF ReadSoFar, WrittenSoFar, ChunkLoaded, At
<1> QED
  BY <1>3, <1>4, <1>5 DEF DiskInv

LEMMA DiskReadInv == DiskInv /\ DiskRead => DiskInv'
PROOF
<1> SUFFICES ASSUME DiskInv, DiskRead PROVE DiskInv'
  OBVIOUS
<1>1. io # Idle /\ io.call = "read" /\ io.done < io.n /\ ~io.failed /\ disk' = disk
  BY DEF DiskRead, Idle
<1>2. CallOK /\ ReadSoFar
  BY <1>1 DEF DiskInv
<1>3. Load(Secs) \in [Buffer -> Bytes]
      /\ \A b \in Buffer : b < Secs * Sect => Load(Secs)[b] = disk[Lba * Sect + b]
  BY <1>1, ChunkInside, LoadType
<1> DEFINE new == [b \in 1..Moved |-> Load(Secs)[Skip + b - 1]]
<1>4. /\ io' = [io EXCEPT !.done = @ + Moved, !.buf = @ \o new]
      /\ bounce' = Load(Secs)
  BY DEF DiskRead
<1>5. \A b \in 1..Moved : Skip + b - 1 \in Buffer /\ Skip + b - 1 < Secs * Sect
                           /\ Lba * Sect + (Skip + b - 1) = io.off + io.done + b - 1
  <2>1. io.off \in Nat /\ io.done \in Nat
    BY <1>2 DEF CallOK, At
  <2>2. /\ Skip \in Nat /\ Moved \in Nat /\ Lba * Sect \in Nat /\ Secs * Sect \in Nat
        /\ io.off + io.done = Lba * Sect + Skip /\ Skip + Moved <= Secs * Sect
        /\ Secs * Sect <= Chunk * Sect /\ Chunk * Sect \in Nat
    BY <1>1, ChunkInside, DiskSizes
  <2> QED
    BY <2>1, <2>2 DEF Buffer
<1>6. \A b \in 1..Moved : new[b] = disk[io.off + io.done + b - 1] /\ new[b] \in Bytes
  BY <1>3, <1>5
<1>7. new \in Seq(Bytes) /\ Len(new) = Moved
  <2>1. Moved \in Nat
    BY <1>1, ChunkInside
  <2>2. new \in [1..Moved -> Bytes]
    BY <1>6
  <2> HIDE DEF new
  <2> QED
    BY <2>1, <2>2, ListOf
<1> HIDE DEF new
<1>8. io'.buf = io.buf \o new /\ io'.done = io.done + Moved /\ io'.off = io.off /\ io'.was = io.was
      /\ io'.call = "read" /\ ~io'.loaded /\ io'.failed = io.failed
      /\ io'.n = io.n /\ io'.byte = io.byte /\ io'.loaded = io.loaded
      /\ io' = [call |-> io'.call, off |-> io'.off, n |-> io'.n, byte |-> io'.byte,
                done |-> io'.done, loaded |-> io'.loaded, buf |-> io'.buf, was |-> io'.was,
                failed |-> io'.failed]
  <2>1. ~io.loaded
    BY <1>1 DEF DiskInv, ChunkLoaded, CallOK
  <2> QED
    BY <1>1, <1>2, <1>4, <2>1 DEF CallOK
<1>9. CallOK'
  <2>1. Moved \in Nat /\ io.done + Moved <= io.n
    BY <1>1, ChunkInside
  <2> QED
    BY <2>1, <1>2, <1>8 DEF CallOK
<1>10. ReadSoFar'
  <2>1. io'.buf \in Seq(Bytes) /\ Len(io'.buf) = io'.done
    <3>1. io.buf \in Seq(Bytes) /\ Len(io.buf) = io.done
      BY <1>2 DEF ReadSoFar
    <3>2. io.buf \o new \in Seq(Bytes) /\ Len(io.buf \o new) = Len(io.buf) + Len(new)
      BY <3>1, <1>7, Joined, Zenon
    <3> QED
      BY <3>1, <3>2, <1>7, <1>8
  <2>2. ASSUME NEW b \in 1..io'.done PROVE io'.buf[b] = disk'[io'.off + b - 1]
    <3>1. io.off \in Nat /\ io.done \in Nat /\ Moved \in Nat
      BY <1>1, <1>2, ChunkInside DEF CallOK, At
    <3>2. CASE b <= io.done
      <4>1. b \in 1..io.done
        BY <3>1, <3>2
      <4>2. io'.buf[b] = io.buf[b]
        <5>1. io.buf \in Seq(Bytes) /\ b \in 1..Len(io.buf)
          BY <4>1, <1>2 DEF ReadSoFar
        <5>2. (io.buf \o new)[b] = io.buf[b]
          BY <5>1, <1>7, Joined, Zenon
        <5> QED
          BY <5>2, <1>8
      <4> QED
        BY <4>1, <4>2, <1>1, <1>2, <1>8 DEF ReadSoFar
    <3>3. CASE b > io.done
      <4>1. b - io.done \in 1..Moved
        BY <3>1, <3>3, <1>8
      <4>2. io'.buf[b] = new[b - io.done]
        <5>1. io.done + (b - io.done) = b
          BY <3>1
        <5>2. io.buf \in Seq(Bytes) /\ Len(io.buf) = io.done
          BY <1>2 DEF ReadSoFar
        <5>3. b - io.done \in 1..Len(new)
          BY <4>1, <1>7
        <5>4. (io.buf \o new)[Len(io.buf) + (b - io.done)] = new[b - io.done]
          BY <5>2, <5>3, <1>7, JoinedRight, Zenon
        <5> QED
          BY <5>1, <5>2, <5>4, <1>8
      <4>3. io.off + io.done + (b - io.done) - 1 = io.off + b - 1
        BY <3>1
      <4> QED
        BY <4>1, <4>2, <4>3, <1>1, <1>6, <1>8
    <3> QED
      BY <3>1, <3>2, <3>3
  <2> QED
    BY <2>1, <2>2, <1>1, <1>2, <1>8 DEF ReadSoFar
<1>11. ChunkLoaded'
  BY <1>8 DEF ChunkLoaded
<1> QED
  BY <1>1, <1>3, <1>4, <1>8, <1>9, <1>10, <1>11 DEF DiskInv

LEMMA DiskReadFirstInv == DiskInv /\ DiskReadFirst => DiskInv'
PROOF
<1> SUFFICES ASSUME DiskInv, DiskReadFirst PROVE DiskInv'
  OBVIOUS
<1>1. io # Idle /\ io.call = "write" /\ io.done < io.n /\ disk' = disk /\ bounce' = Load(Secs)
  BY DEF DiskReadFirst, Idle
<1>2. CallOK /\ WrittenSoFar
  BY <1>1 DEF DiskInv
<1>3. bounce' \in [Buffer -> Bytes]
      /\ \A b \in Buffer : b < Secs * Sect => bounce'[b] = disk[Lba * Sect + b]
  BY <1>1, ChunkInside, LoadType
<1>4. /\ io' = [io EXCEPT !.loaded = TRUE]
      /\ io'.call = io.call /\ io'.off = io.off /\ io'.n = io.n /\ io'.done = io.done
      /\ io'.byte = io.byte /\ io'.was = io.was
  BY <1>2 DEF DiskReadFirst, CallOK
<1>5. CallOK'
  BY <1>2, <1>4 DEF CallOK
<1>6. Secs' = Secs /\ Lba' = Lba
  BY <1>4 DEF Secs, Lba, Pos, Skip, Moved
<1>7. ChunkLoaded'
  BY <1>1, <1>3, <1>4, <1>6 DEF ChunkLoaded
<1>8. WrittenSoFar'
  BY <1>1, <1>2, <1>4 DEF WrittenSoFar
<1> QED
  BY <1>1, <1>3, <1>4, <1>5, <1>7, <1>8 DEF DiskInv

LEMMA DiskWriteInv == DiskInv /\ DiskWrite => DiskInv'
PROOF
<1> SUFFICES ASSUME DiskInv, DiskWrite PROVE DiskInv'
  OBVIOUS
<1>1. /\ io # Idle /\ io.call = "write" /\ io.done < io.n /\ ~io.failed
      /\ ReadsFirst => io.loaded
      /\ bounce' = Filled /\ disk' = Stored(Secs)
  BY DEF DiskWrite, Idle
<1>2. CallOK /\ WrittenSoFar
  BY <1>1 DEF DiskInv
<1>3. /\ Filled \in [Buffer -> Bytes] /\ Stored(Secs) \in [At -> Bytes]
      /\ \A a \in At : IF Pos <= a /\ a < Pos + Moved THEN disk'[a] = io.byte
                                                       ELSE disk'[a] = disk[a]
  BY <1>1, ChunkInside, StoredBytes
<1>4. /\ io' = [io EXCEPT !.done = @ + Moved, !.loaded = FALSE]
      /\ io'.call = io.call /\ io'.off = io.off /\ io'.n = io.n /\ io'.done = io.done + Moved
      /\ io'.byte = io.byte /\ io'.was = io.was /\ io'.loaded = FALSE /\ io'.failed = io.failed
      /\ io' = [call |-> io'.call, off |-> io'.off, n |-> io'.n, byte |-> io'.byte,
                done |-> io'.done, loaded |-> io'.loaded, buf |-> io'.buf, was |-> io'.was,
                failed |-> io'.failed]
  BY <1>2 DEF DiskWrite, CallOK
<1>5. CallOK'
  <2>1. Moved \in Nat /\ io.done + Moved <= io.n
    BY <1>1, ChunkInside
  <2> QED
    BY <2>1, <1>2, <1>4 DEF CallOK
<1>6. WrittenSoFar'
  <2>1. io.off \in Nat /\ io.done \in Nat /\ io.n \in Nat /\ At \subseteq Nat
    BY <1>2 DEF CallOK, At
  <2> QED
    BY <2>1, <1>1, <1>2, <1>3, <1>4, ChunkInside DEF WrittenSoFar
<1>7. ChunkLoaded'
  BY <1>4 DEF ChunkLoaded
<1> QED
  BY <1>1, <1>3, <1>4, <1>5, <1>6, <1>7 DEF DiskInv

LEMMA DiskFailInv == DiskInv /\ DiskFail => DiskInv'
PROOF
<1> SUFFICES ASSUME DiskInv, DiskFail PROVE DiskInv'
  OBVIOUS
<1>1. io # Idle /\ io.done < io.n /\ ~io.failed
  BY DEF DiskFail
<1>2. CallOK
  BY <1>1 DEF DiskInv
<1>3. /\ io' = [io EXCEPT !.failed = TRUE]
      /\ io'.call = io.call /\ io'.off = io.off /\ io'.n = io.n /\ io'.done = io.done
      /\ io'.byte = io.byte /\ io'.was = io.was /\ io'.buf = io.buf /\ io'.failed
  BY <1>2 DEF DiskFail, CallOK
<1>4. CallOK' /\ ChunkLoaded'
  BY <1>2, <1>3 DEF CallOK, ChunkLoaded
<1>5. PICK k \in 0..Secs :
        IF io.call = "write" /\ (ReadsFirst => io.loaded)
        THEN bounce' = Filled /\ disk' = Stored(k)
        ELSE bounce' = Load(k) /\ UNCHANGED disk
  BY DEF DiskFail
<1>6. k \in Nat /\ k <= Secs
  BY <1>1, ChunkInside
<1>7. CASE io.call = "write" /\ (ReadsFirst => io.loaded)
  <2>1. /\ bounce' \in [Buffer -> Bytes] /\ disk' \in [At -> Bytes]
        /\ \A a \in At : IF Pos <= a /\ a < Pos + Moved
                         THEN disk'[a] = io.byte \/ disk'[a] = disk[a]
                         ELSE disk'[a] = disk[a]
    BY <1>1, <1>5, <1>6, <1>7, StoredBytes
  <2>2. WrittenSoFar
    BY <1>1, <1>7 DEF DiskInv
  <2>3. WrittenSoFar'
    <3>1. io.off \in Nat /\ io.done \in Nat /\ io.n \in Nat /\ At \subseteq Nat
      BY <1>2 DEF CallOK, At
    <3> QED
      BY <3>1, <2>1, <2>2, <1>1, <1>3, ChunkInside DEF WrittenSoFar
  <2> QED
    BY <1>3, <1>4, <1>7, <2>1, <2>3 DEF DiskInv
<1>8. CASE ~(io.call = "write" /\ (ReadsFirst => io.loaded))
  <2>1. disk' = disk /\ bounce' \in [Buffer -> Bytes]
    BY <1>1, <1>5, <1>6, <1>8, LoadType
  <2>2. /\ io.call = "read" => ReadSoFar'
        /\ io.call = "write" => WrittenSoFar'
    BY <1>1, <1>3, <2>1 DEF DiskInv, ReadSoFar, WrittenSoFar
  <2> QED
    BY <1>3, <1>4, <2>1, <2>2 DEF DiskInv
<1> QED
  BY <1>7, <1>8

\* Every step keeps the invariant.
LEMMA DiskNextInv == DiskInv /\ [DiskNext({"read", "write"})]_diskVars => DiskInv'
PROOF
<1>1. ASSUME DiskInv, DiskReturn PROVE DiskInv'
  BY <1>1 DEF DiskReturn, DiskInv
<1>2. ASSUME DiskInv, UNCHANGED diskVars PROVE DiskInv'
  BY <1>2 DEF diskVars, DiskInv, CallOK, ChunkLoaded, ReadSoFar, WrittenSoFar,
              Secs, Lba, Pos, Skip, Moved
<1> QED
  BY <1>1, <1>2, DiskCallInv, DiskReadInv, DiskReadFirstInv, DiskWriteInv, DiskFailInv
  DEF DiskNext, DiskStep

LEMMA DiskInvExact == DiskInv => DiskExact
PROOF
<1> SUFFICES ASSUME DiskInv, io # Idle PROVE
      /\ io.call = "read" =>
           disk = io.was /\ io.buf = [b \in 1..io.done |-> disk[io.off + b - 1]]
      /\ io.call = "write" => \A a \in At :
           CASE a \in io.off..(io.off + io.done - 1) -> disk[a] = io.byte
             [] a \in (io.off + io.done)..(io.off + io.n - 1) -> disk[a] \in {io.was[a], io.byte}
             [] OTHER -> disk[a] = io.was[a]
  BY DEF DiskExact
<1>1. CallOK /\ io.off \in Nat /\ io.done \in Nat /\ io.n \in Nat /\ At \subseteq Nat
  BY DEF DiskInv, CallOK, At
<1>2. ASSUME io.call = "read"
      PROVE  disk = io.was /\ io.buf = [b \in 1..io.done |-> disk[io.off + b - 1]]
  <2>1. ReadSoFar
    BY <1>2 DEF DiskInv
  <2>2. io.buf = [b \in 1..io.done |-> io.buf[b]]
    BY <2>1, <1>1, SameList DEF ReadSoFar
  <2> QED
    BY <2>1, <2>2 DEF ReadSoFar
<1>3. ASSUME io.call = "write", NEW a \in At
      PROVE  CASE a \in io.off..(io.off + io.done - 1) -> disk[a] = io.byte
               [] a \in (io.off + io.done)..(io.off + io.n - 1) -> disk[a] \in {io.was[a], io.byte}
               [] OTHER -> disk[a] = io.was[a]
  BY <1>1, <1>3 DEF DiskInv, WrittenSoFar, CallOK
<1> QED
  BY <1>2, <1>3

\* For every sector size, chunk and drive: a call on a drive changes no byte outside
\* its range, wherever it fails; what it reports as written or read is, and the rest
\* of its range is old or new (ata_dev_rw, ata.c:125-158).
THEOREM DiskAlwaysExact == DiskSpec => []DiskExact
PROOF
<1>1. DiskSpec => []DiskInv
  BY DiskInitInv, DiskNextInv, PTL DEF DiskSpec
<1> QED
  BY <1>1, DiskInvExact, PTL

(* ---- the tree's slots ---- *)

Limit == Fan * Fan * Fan * Page
LastPage == Fan * Fan * Fan

LEMMA Spans ==
  /\ Fan \in Nat /\ Fan > 0 /\ LinuxMin \in Nat
  /\ Span(0) = 1 /\ Span(1) = Fan /\ Span(2) = Fan * Fan /\ Span(3) = Fan * Fan * Fan
  /\ \A lvl \in 0..3 : Span(lvl) \in Nat /\ Span(lvl) > 0
  /\ Fan * Fan \in Nat /\ Fan * Fan * Fan \in Nat
<1>1. Fan \in Nat /\ Fan > 0 /\ LinuxMin \in Nat
  BY DataAssumption
<1>2. Fan * Fan \in Nat /\ Fan * Fan > 0
  BY <1>1
<1> DEFINE q == Fan * Fan
<1>3. q * Fan \in Nat /\ q * Fan > 0
  <2> HIDE DEF q
  <2> QED BY <1>1, <1>2 DEF q
<1>4. Span(0) = 1 /\ Span(1) = Fan /\ Span(2) = Fan * Fan /\ Span(3) = Fan * Fan * Fan
  BY DEF Span
<1>5. \A lvl \in 0..3 : lvl = 0 \/ lvl = 1 \/ lvl = 2 \/ lvl = 3
  OBVIOUS
<1>6. ASSUME NEW lvl \in 0..3 PROVE Span(lvl) \in Nat /\ Span(lvl) > 0
  <2>1. q * Fan = Fan * Fan * Fan
    OBVIOUS
  <2> QED BY <1>1, <1>2, <1>3, <1>4, <1>5, <2>1
<1> QED BY <1>1, <1>2, <1>3, <1>4, <1>6

LEMMA KeysAre ==
  /\ \A lvl \in 0..3 : \A k \in 0..Span(3 - lvl) - 1 : <<lvl, k>> \in Keys
  /\ \A key \in Keys : /\ key = <<key[1], key[2]>> /\ key[1] \in 0..3 /\ key[2] \in Nat
                       /\ key[2] \in 0..Span(3 - key[1]) - 1
<1> DEFINE L(lvl) == {<<lvl, k>> : k \in 0..Span(3 - lvl) - 1}
<1>1. \A x : x \in Keys <=> \E lvl \in 0..3 : x \in L(lvl)
  BY Zenon DEF Keys
<1>2. ASSUME NEW lvl \in 0..3, NEW k \in 0..Span(3 - lvl) - 1 PROVE <<lvl, k>> \in Keys
  <2>1. <<lvl, k>> \in L(lvl)
    OBVIOUS
  <2> HIDE DEF L
  <2> QED BY <1>1, <2>1
<1>3. ASSUME NEW key \in Keys
      PROVE  /\ key = <<key[1], key[2]>> /\ key[1] \in 0..3 /\ key[2] \in Nat
             /\ key[2] \in 0..Span(3 - key[1]) - 1
  <2>1. PICK lvl \in 0..3 : key \in L(lvl)
    BY <1>1
  <2>2. PICK k \in 0..Span(3 - lvl) - 1 : key = <<lvl, k>>
    BY <2>1
  <2>3. Span(3 - lvl) \in Nat
    BY Spans
  <2> QED BY <2>2, <2>3
<1> QED BY <1>2, <1>3

LEMMA KeysFinite == IsFiniteSet(Keys)
<1> DEFINE L(lvl) == {<<lvl, k>> : k \in 0..Span(3 - lvl) - 1}
           F == {L(lvl) : lvl \in 0..3}
<1>1. ASSUME NEW lvl \in 0..3 PROVE IsFiniteSet(L(lvl))
  <2> DEFINE S == 0..Span(3 - lvl) - 1
             f == [k \in S |-> <<lvl, k>>]
             T == L(lvl)
  <2>1. IsFiniteSet(S)
    <3>1. Span(3 - lvl) - 1 \in Int
      BY Spans
    <3> DEFINE m == Span(3 - lvl) - 1
    <3> HIDE DEF m
    <3>2. IsFiniteSet(0..m)
      BY <3>1, FS_Interval DEF m
    <3> QED BY <3>2 DEF m
  <2>2. f \in Surjection(S, T)
    <3> HIDE DEF S
    <3> QED BY DEF Surjection, S
  <2> HIDE DEF S, T, f
  <2> QED BY <2>1, <2>2, FS_Surjection DEF T
<1>2. IsFiniteSet(F) /\ \A T \in F : IsFiniteSet(T)
  <2>1. F = {L(0), L(1), L(2), L(3)}
    <3>1. 0..3 = {0, 1, 2, 3}
      OBVIOUS
    <3> HIDE DEF L
    <3> QED BY <3>1
  <2> HIDE DEF L
  <2>2. IsFiniteSet({})
    BY FS_EmptySet
  <2>3. IsFiniteSet({L(0)})
    <3>1. IsFiniteSet({} \cup {L(0)})
      BY <2>2, FS_AddElement
    <3>2. {} \cup {L(0)} = {L(0)}
      OBVIOUS
    <3> QED BY <3>1, <3>2
  <2>4. IsFiniteSet({L(0), L(1)})
    <3>1. IsFiniteSet({L(0)} \cup {L(1)})
      BY <2>3, FS_AddElement
    <3>2. {L(0)} \cup {L(1)} = {L(0), L(1)}
      OBVIOUS
    <3> QED BY <3>1, <3>2
  <2>5. IsFiniteSet({L(0), L(1), L(2)})
    <3>1. IsFiniteSet({L(0), L(1)} \cup {L(2)})
      BY <2>4, FS_AddElement
    <3>2. {L(0), L(1)} \cup {L(2)} = {L(0), L(1), L(2)}
      OBVIOUS
    <3> QED BY <3>1, <3>2
  <2>6. IsFiniteSet({L(0), L(1), L(2), L(3)})
    <3>1. IsFiniteSet({L(0), L(1), L(2)} \cup {L(3)})
      BY <2>5, FS_AddElement
    <3>2. {L(0), L(1), L(2)} \cup {L(3)} = {L(0), L(1), L(2), L(3)}
      OBVIOUS
    <3> QED BY <3>1, <3>2
  <2>7. IsFiniteSet(F)
    BY <2>1, <2>6
  <2> QED BY <2>7, <1>1
<1>3. Keys = UNION F
  BY DEF Keys
<1> HIDE DEF F
<1> QED BY <1>2, <1>3, FS_UNION

(* ---- the key of a page at each level ---- *)

\* A quotient of a quotient.
LEMMA TwoQuotients ==
  ASSUME NEW x \in Nat, NEW a \in Nat, NEW b \in Nat, a > 0, b > 0
  PROVE  (x \div a) \div b = x \div (a * b) /\ a * b \in Nat /\ a * b > 0
<1> DEFINE q == x \div a
           r == x % a
           u == q \div b
           t == q % b
           m == a * b
<1>1. q \in Nat /\ r \in Nat /\ r < a /\ x = q * a + r
  BY Division
<1> HIDE DEF q, r
<1>2. u \in Nat /\ t \in Nat /\ t < b /\ q = u * b + t
  BY <1>1, Division
<1> HIDE DEF u, t
<1>3. m \in Nat /\ m > 0
  OBVIOUS
<1>4. x = u * m + (t * a + r)
  BY <1>1, <1>2
<1>5. t * a + r \in Nat /\ t * a + r < m
  <2>1. t + 1 \in Nat /\ t + 1 <= b
    BY <1>2
  <2>2. (t + 1) * a <= b * a /\ t * a \in Nat
    BY <2>1, <1>2, Multiples, Product
  <2>3. (t + 1) * a = t * a + a /\ b * a = m
    BY <1>2
  <2> HIDE DEF m
  <2> QED BY <2>2, <2>3, <1>1, <1>3
<1> DEFINE s == t * a + r
<1> HIDE DEF m, s
<1>6. (u * m + s) \div m = u
  BY <1>2, <1>3, <1>5, Quotient DEF s
<1>7. x \div m = u
  BY <1>4, <1>6 DEF s
<1> QED BY <1>3, <1>7 DEF u, q, m

LEMMA QuotientLess ==
  ASSUME NEW x \in Nat, NEW a \in Nat, NEW b \in Nat, a > 0, x < a * b
  PROVE  x \div a \in Nat /\ x \div a < b
<1> DEFINE q == x \div a
           r == x % a
<1>1. q \in Nat /\ r \in Nat /\ r < a /\ x = q * a + r
  BY Division
<1> HIDE DEF q, r
<1>2. q * a \in Nat /\ b * a \in Nat /\ b * a = a * b
  BY <1>1, Product
<1>3. ~ (b <= q)
  <2> SUFFICES ASSUME b <= q PROVE FALSE
    OBVIOUS
  <2>1. b * a <= q * a
    BY <1>1, Multiples
  <2> QED BY <2>1, <1>1, <1>2
<1> QED BY <1>1, <1>3 DEF q

LEMMA KeyAtIs ==
  ASSUME NEW idx \in 0..LastPage - 1
  PROVE  /\ \A lvl \in 0..3 : KeyAt(lvl, idx) \in Keys /\ KeyAt(lvl, idx)[1] = lvl
         /\ KeyAt(0, idx) = <<0, idx>> /\ KeyAt(3, idx) = <<3, 0>>
         /\ KeyAt(0, idx)[2] \div Fan = KeyAt(1, idx)[2]
         /\ KeyAt(1, idx)[2] \div Fan = KeyAt(2, idx)[2]
<1>1. idx \in Nat /\ idx < LastPage /\ LastPage \in Nat
  BY Spans DEF LastPage
<1> DEFINE q == Fan * Fan
<1>2. q \in Nat /\ q > 0 /\ Fan \in Nat /\ Fan > 0
  BY Spans
<1>3. LastPage = q * Fan /\ LastPage = Fan * q /\ LastPage = LastPage * 1 /\ LastPage = 1 * LastPage
  BY <1>1, <1>2 DEF LastPage
<1> HIDE DEF q
<1>4. /\ Span(0) = 1 /\ Span(1) = Fan /\ Span(2) = q /\ Span(3) = LastPage
  BY Spans DEF q, LastPage
<1>5. idx \div 1 = idx
  <2>1. (idx * 1 + 0) \div 1 = idx
    BY <1>1, Quotient
  <2>2. idx * 1 + 0 = idx
    BY <1>1
  <2> QED BY <2>1, <2>2
<1>6. idx \div Fan \in Nat /\ idx \div Fan < q
  BY <1>1, <1>2, <1>3, QuotientLess
<1>7. idx \div q \in Nat /\ idx \div q < Fan
  BY <1>1, <1>2, <1>3, QuotientLess
<1>8. idx \div LastPage = 0
  <2>1. idx \div LastPage \in Nat /\ idx \div LastPage < 1
    BY <1>1, <1>3, QuotientLess
  <2> QED BY <2>1
<1>9. (idx \div Fan) \div Fan = idx \div q
  BY <1>1, <1>2, TwoQuotients DEF q
<1>10. /\ KeyAt(0, idx) = <<0, idx>> /\ KeyAt(1, idx) = <<1, idx \div Fan>>
       /\ KeyAt(2, idx) = <<2, idx \div q>> /\ KeyAt(3, idx) = <<3, 0>>
  BY <1>4, <1>5, <1>8 DEF KeyAt
<1>11. KeyAt(0, idx) \in Keys /\ KeyAt(1, idx) \in Keys /\ KeyAt(2, idx) \in Keys /\ KeyAt(3, idx) \in Keys
  <2>1. idx \in 0..Span(3 - 0) - 1
    BY <1>1, <1>4
  <2>2. idx \div Fan \in 0..Span(3 - 1) - 1
    BY <1>6, <1>4, <1>2
  <2>3. idx \div q \in 0..Span(3 - 2) - 1
    BY <1>7, <1>4, <1>2
  <2>4. 0 \in 0..Span(3 - 3) - 1
    BY <1>4
  <2>5. 0 \in 0..3 /\ 1 \in 0..3 /\ 2 \in 0..3 /\ 3 \in 0..3
    OBVIOUS
  <2> QED BY <2>1, <2>2, <2>3, <2>4, <2>5, <1>10, KeysAre
<1>12. \A lvl \in 0..3 : lvl = 0 \/ lvl = 1 \/ lvl = 2 \/ lvl = 3
  OBVIOUS
<1>13. \A lvl \in 0..3 : KeyAt(lvl, idx) \in Keys /\ KeyAt(lvl, idx)[1] = lvl
  BY <1>10, <1>11, <1>12
<1> QED BY <1>9, <1>10, <1>13

(* ---- the tree's invariant ---- *)

PageBlock(p) == [at |-> p, len |-> Page, how |-> "page"]
Used(D) == {key \in Keys : D.slots[key] # 0}

MemTyped(m) == 0 \notin DOMAIN m /\ \A p \in DOMAIN m : m[p] \in [0..Page - 1 -> Bytes]

\* Each page of the file is in one slot, each slot's page is the file's.
Held(D) ==
  /\ \A key \in Used(D) : PageBlock(D.slots[key]) \in D.ram.owned
  /\ \A b \in D.ram.owned : b.how = "page" => \E key \in Used(D) : b.at = D.slots[key]
OneSlot(D) == \A j, k \in Used(D) : D.slots[j] = D.slots[k] => j = k
\* A table in the tree is one of a table in the tree.
Rooted(D) == \A j \in Used(D), k \in Keys : IsUnder(j, k) => k \in Used(D)
Leafed(D) == \A key \in Used(D) : key[1] = 0 => D.slots[key] \in DOMAIN D.mem

IsTree(D) == D = [ram |-> D.ram, slots |-> D.slots, mem |-> D.mem]
TreeOK(D) ==
  /\ IsTree(D) /\ RamOK(D.ram) /\ D.slots \in [Keys -> Nat] /\ MemTyped(D.mem)
  /\ Held(D) /\ OneSlot(D) /\ Rooted(D) /\ Leafed(D)

\* The byte at offset o.
ByteIn(D, idx, b) ==
  LET p == D.slots[<<0, idx>>]
  IN  IF p \in DOMAIN D.mem THEN D.mem[p][b] ELSE 0

Grows(D, E) == \A key \in Used(D) : E.slots[key] = D.slots[key]
SameBytes(D, E) == \A idx \in 0..LastPage - 1, b \in 0..Page - 1 : ByteIn(E, idx, b) = ByteIn(D, idx, b)

\* There is no memory for another page.
Stuck(D) == Palloc(D.ram).at = 0

LEMMA UsedIs2 == \A D, key : key \in Used(D) <=> key \in Keys /\ D.slots[key] # 0
BY DEF Used

LEMMA LeafKey == \A idx \in 0..LastPage - 1 : <<0, idx>> \in Keys
<1> SUFFICES ASSUME NEW idx \in 0..LastPage - 1 PROVE <<0, idx>> \in Keys
  OBVIOUS
<1>1. KeyAt(0, idx) \in Keys /\ KeyAt(0, idx) = <<0, idx>>
  BY KeyAtIs
<1> QED BY <1>1

FilledSlots(D, key, p) == [k \in Keys |-> CASE k = key -> p [] IsUnder(k, key) -> 0 [] OTHER -> D.slots[k]]
FilledMem(D, key, p) ==
  IF key[1] # 0 THEN D.mem
  ELSE [q \in DOMAIN D.mem \cup {p} |-> IF q = p THEN [b \in 0..Page - 1 |-> 0] ELSE D.mem[q]]

\* The slots after one is filled: those below it were empty.
LEMMA SlotsWith ==
  ASSUME NEW D, TreeOK(D), NEW key \in Keys, D.slots[key] = 0, NEW p \in Nat,
         NEW s, s = FilledSlots(D, key, p)
  PROVE  s \in [Keys -> Nat] /\ s[key] = p /\ \A k \in Keys : k # key => s[k] = D.slots[k]
<1>1. D.slots \in [Keys -> Nat]
  BY DEF TreeOK
<1>2. ASSUME NEW k \in Keys, k # key PROVE s[k] = D.slots[k]
  <2>1. CASE IsUnder(k, key)
    <3>1. D.slots[k] = 0
      <4> SUFFICES ASSUME D.slots[k] # 0 PROVE FALSE
        OBVIOUS
      <4>1. k \in Used(D)
        BY DEF Used
      <4>2. key \in Used(D)
        BY <4>1, <2>1 DEF TreeOK, Rooted
      <4> QED BY <4>2 DEF Used
    <3> QED BY <3>1, <2>1, <1>2 DEF FilledSlots
  <2>2. CASE ~ IsUnder(k, key)
    BY <2>2, <1>2 DEF FilledSlots
  <2> QED BY <2>1, <2>2
<1>3. s[key] = p
  <2>1. ~ IsUnder(key, key)
    BY KeysAre DEF IsUnder
  <2> QED BY <2>1 DEF FilledSlots
<1>4. s = [k \in Keys |-> s[k]]
  BY DEF FilledSlots
<1>5. \A k \in Keys : s[k] \in Nat
  BY <1>1, <1>2, <1>3
<1> QED BY <1>2, <1>3, <1>4, <1>5

\* A page that was nobody's is in no slot.
LEMMA NewPage ==
  ASSUME NEW D, TreeOK(D), NEW got, Took(D.ram, got, Page, "page"), NEW key \in Used(D)
  PROVE  D.slots[key] # got.at
<1> SUFFICES ASSUME D.slots[key] = got.at PROVE FALSE
  OBVIOUS
<1> DEFINE c == PageBlock(got.at)
<1>1. c \in D.ram.owned
  BY DEF TreeOK, Held
<1>2. c.at = got.at /\ c.len = Page
  BY DEF PageBlock
<1>3. Units(c.at, c.len) \cap Units(got.at, Page) = {} /\ got.at \in Nat
  BY <1>1 DEF Took
<1>4. got.at \in Units(got.at, Page)
  BY <1>3, Sizes DEF Units
<1> QED BY <1>2, <1>3, <1>4

LEMMA SlotFilled ==
  ASSUME NEW D, TreeOK(D), NEW key \in Keys, D.slots[key] = 0,
         \A k \in Keys : IsUnder(key, k) => k \in Used(D),
         NEW got, Took(D.ram, got, Page, "page"), got.at # 0,
         NEW E, IsTree(E), E.ram = Own(got, Page, "page"),
         E.slots \in [Keys -> Nat], E.slots[key] = got.at, \A k \in Keys : k # key => E.slots[k] = D.slots[k],
         MemTyped(E.mem), DOMAIN D.mem \subseteq DOMAIN E.mem, key[1] = 0 => got.at \in DOMAIN E.mem
  PROVE  TreeOK(E) /\ Grows(D, E) /\ key \in Used(E)
<1>1. Used(E) = Used(D) \cup {key}
  BY UsedIs2
<1>2. Grows(D, E)
  BY UsedIs2 DEF Grows
<1>3. RamOK(E.ram) /\ E.ram.owned = D.ram.owned \cup {PageBlock(got.at)}
  BY DEF Took, PageBlock
<1>4. PageBlock(got.at).at = got.at
  BY DEF PageBlock
<1>5. Held(E)
  <2>1. ASSUME NEW k \in Used(E) PROVE PageBlock(E.slots[k]) \in E.ram.owned
    <3>1. CASE k = key
      BY <3>1, <1>3
    <3>2. CASE k # key
      <4>1. k \in Used(D) /\ E.slots[k] = D.slots[k]
        BY <3>2, <1>1, UsedIs2
      <4> QED BY <4>1, <1>3 DEF TreeOK, Held
    <3> QED BY <3>1, <3>2
  <2>2. ASSUME NEW b \in E.ram.owned, b.how = "page" PROVE \E k \in Used(E) : b.at = E.slots[k]
    <3>1. CASE b = PageBlock(got.at)
      BY <3>1, <1>1, <1>4
    <3>2. CASE b \in D.ram.owned
      <4>1. PICK k \in Used(D) : b.at = D.slots[k]
        BY <3>2, <2>2 DEF TreeOK, Held
      <4>2. k \in Used(E) /\ E.slots[k] = D.slots[k]
        BY <1>1, <1>2 DEF Grows
      <4> QED BY <4>1, <4>2
    <3> QED BY <3>1, <3>2, <1>3
  <2> QED BY <2>1, <2>2 DEF Held
<1>6. OneSlot(E)
  <2>1. ASSUME NEW k \in Used(D) PROVE E.slots[k] = D.slots[k] /\ D.slots[k] # got.at
    BY <1>2, NewPage DEF Grows
  <2>2. \A j, k \in Used(D) : D.slots[j] = D.slots[k] => j = k
    BY DEF TreeOK, OneSlot
  <2> QED BY <2>1, <2>2, <1>1 DEF OneSlot
<1>7. Rooted(E)
  BY <1>1 DEF TreeOK, Rooted
<1>8. Leafed(E)
  <2> SUFFICES ASSUME NEW k \in Used(E), k[1] = 0 PROVE E.slots[k] \in DOMAIN E.mem
    BY DEF Leafed
  <2>1. CASE k = key
    BY <2>1
  <2>2. CASE k # key
    <3>1. k \in Used(D) /\ E.slots[k] = D.slots[k]
      BY <2>2, <1>1, UsedIs2
    <3> QED BY <3>1 DEF TreeOK, Leafed
  <2> QED BY <2>1, <2>2
<1> QED BY <1>1, <1>2, <1>3, <1>5, <1>6, <1>7, <1>8 DEF TreeOK


(* ---- a page for a slot, and for an offset ---- *)

\* A fresh page of bytes is zero: no byte of the file changes.
LEMMA FreshBytes ==
  ASSUME NEW D, TreeOK(D), NEW key \in Keys, D.slots[key] = 0,
         NEW got, Took(D.ram, got, Page, "page"), got.at # 0,
         NEW E, E.slots[key] = got.at, \A k \in Keys : k # key => E.slots[k] = D.slots[k],
         E.mem = FilledMem(D, key, got.at)
  PROVE  SameBytes(D, E) /\ MemTyped(E.mem) /\ DOMAIN D.mem \subseteq DOMAIN E.mem
         /\ (key[1] = 0 => got.at \in DOMAIN E.mem)
<1> DEFINE zero == [b \in 0..Page - 1 |-> 0]
<1>1. MemTyped(D.mem)
  BY DEF TreeOK
<1>2. zero \in [0..Page - 1 -> Bytes]
  BY DiskAssumption
<1>3. CASE key[1] # 0
  <2>1. E.mem = D.mem
    BY <1>3 DEF FilledMem
  <2>2. \A idx \in 0..LastPage - 1 : E.slots[<<0, idx>>] = D.slots[<<0, idx>>]
    <3> SUFFICES ASSUME NEW idx \in 0..LastPage - 1 PROVE E.slots[<<0, idx>>] = D.slots[<<0, idx>>]
      OBVIOUS
    <3>1. <<0, idx>> \in Keys /\ <<0, idx>> # key
      BY <1>3, LeafKey
    <3> QED BY <3>1
  <2>3. SameBytes(D, E)
    BY <2>1, <2>2 DEF SameBytes, ByteIn
  <2> QED BY <1>1, <1>3, <2>1, <2>3
<1>4. CASE key[1] = 0
  <2>1. E.mem = [q \in DOMAIN D.mem \cup {got.at} |-> IF q = got.at THEN zero ELSE D.mem[q]]
    BY <1>4 DEF FilledMem
  <2>2. DOMAIN E.mem = DOMAIN D.mem \cup {got.at} /\ E.mem[got.at] = zero
        /\ \A q \in DOMAIN D.mem : q # got.at => E.mem[q] = D.mem[q]
    <3> HIDE DEF zero
    <3> QED BY <2>1
  <2>3. MemTyped(E.mem)
    <3> HIDE DEF zero
    <3> QED BY <1>1, <1>2, <2>2 DEF MemTyped
  <2>4. ASSUME NEW idx \in 0..LastPage - 1, NEW b \in 0..Page - 1 PROVE ByteIn(E, idx, b) = ByteIn(D, idx, b)
    <3> DEFINE k == <<0, idx>>
               p == D.slots[k]
    <3>1. k \in Keys
      BY LeafKey
    <3>2. CASE k = key
      <4>1. ByteIn(D, idx, b) = 0
        BY <3>2, <1>1 DEF ByteIn, MemTyped
      <4>2. ByteIn(E, idx, b) = zero[b]
        <5> HIDE DEF zero
        <5> QED BY <3>2, <2>2 DEF ByteIn
      <4> QED BY <4>1, <4>2
    <3>3. CASE k # key
      <4>1. E.slots[k] = p
        BY <3>1, <3>3
      <4>2. p # got.at
        <5>1. CASE p = 0
          BY <5>1
        <5>2. CASE p # 0
          <6>1. k \in Used(D)
            BY <3>1, <5>2 DEF Used
          <6> QED BY <6>1, NewPage
        <5> QED BY <5>1, <5>2
      <4> HIDE DEF p, zero
      <4>3. (p \in DOMAIN E.mem <=> p \in DOMAIN D.mem) /\ (p \in DOMAIN D.mem => E.mem[p] = D.mem[p])
        BY <4>2, <2>2
      <4>4. ByteIn(D, idx, b) = IF p \in DOMAIN D.mem THEN D.mem[p][b] ELSE 0
        BY DEF ByteIn, p
      <4>5. ByteIn(E, idx, b) = IF p \in DOMAIN E.mem THEN E.mem[p][b] ELSE 0
        BY <4>1 DEF ByteIn
      <4> QED BY <4>3, <4>4, <4>5
    <3> QED BY <3>2, <3>3
  <2>5. SameBytes(D, E)
    BY <2>4 DEF SameBytes
  <2> QED BY <2>2, <2>3, <2>5
<1> QED BY <1>3, <1>4

\* What a page for a slot, or for an offset, leaves as it was.
Extends(D, E) ==
  TreeOK(E) /\ Grows(D, E) /\ SameBytes(D, E) /\ (Stuck(D) => E = D)

LEMMA ExtendsSelf == \A D : TreeOK(D) => Extends(D, D)
BY DEF Extends, Grows, SameBytes

LEMMA ExtendsAgain ==
  ASSUME NEW D, NEW E, NEW F, Extends(D, E), Extends(E, F)
  PROVE  Extends(D, F)
<1>1. Grows(D, F)
  <2> SUFFICES ASSUME NEW key \in Used(D) PROVE F.slots[key] = D.slots[key]
    BY DEF Grows
  <2>1. E.slots[key] = D.slots[key]
    BY DEF Extends, Grows
  <2>2. key \in Used(E)
    BY <2>1 DEF Used
  <2> QED BY <2>1, <2>2 DEF Extends, Grows
<1>2. SameBytes(D, F)
  BY DEF Extends, SameBytes
<1>3. Stuck(D) => F = D
  BY DEF Extends
<1> QED BY <1>1, <1>2, <1>3 DEF Extends

Below(D, key) == \A k \in Keys : IsUnder(key, k) => k \in Used(D)

LEMMA MakeSlotIs ==
  ASSUME NEW D, TreeOK(D), NEW key \in Keys, Below(D, key) \/ Stuck(D)
  PROVE  Extends(D, MakeSlot(D, key)) /\ (key \in Used(MakeSlot(D, key)) \/ Stuck(MakeSlot(D, key)))
<1> DEFINE got == Palloc(D.ram)
           E == MakeSlot(D, key)
           Good == Extends(D, E) /\ (key \in Used(E) \/ Stuck(E))
<1>1. CASE D.slots[key] # 0 \/ got.at = 0
  <2>1. E = D
    BY <1>1 DEF MakeSlot
  <2>2. key \in Used(D) \/ Stuck(D)
    BY <1>1 DEF Used, Stuck
  <2> HIDE DEF E
  <2>3. Good
    BY <2>1, <2>2, ExtendsSelf
  <2> QED BY <2>3 DEF E
<1>2. CASE ~ (D.slots[key] # 0 \/ got.at = 0)
  <2> DEFINE r == Own(got, Page, "page")
             s == FilledSlots(D, key, got.at)
             m == FilledMem(D, key, got.at)
  <2>1. E = [ram |-> r, slots |-> s, mem |-> m]
    BY <1>2 DEF MakeSlot, FilledSlots, FilledMem
  <2>2. D.slots[key] = 0 /\ got.at # 0 /\ ~ Stuck(D)
    BY <1>2 DEF Stuck
  <2>3. Took(D.ram, got, Page, "page")
    <3>1. RamOK(D.ram)
      BY DEF TreeOK
    <3> QED BY <2>2, <3>1, PallocTaken
  <2> HIDE DEF got, E
  <2>4. s \in [Keys -> Nat] /\ s[key] = got.at /\ \A k \in Keys : k # key => s[k] = D.slots[k]
    <3>1. got.at \in Nat
      BY <2>3 DEF Took
    <3> QED BY <2>2, <3>1, SlotsWith
  <2> HIDE DEF s, r, m
  <2>5. E.ram = r /\ E.slots = s /\ E.mem = m
    BY <2>1
  <2>6. SameBytes(D, E) /\ MemTyped(E.mem) /\ DOMAIN D.mem \subseteq DOMAIN E.mem
        /\ (key[1] = 0 => got.at \in DOMAIN E.mem)
    BY <2>2, <2>3, <2>4, <2>5, FreshBytes DEF m
  <2>7. IsTree(E)
    BY <2>1, <2>5 DEF IsTree
  <2>8. TreeOK(E) /\ Grows(D, E) /\ key \in Used(E)
    <3>1. \A k \in Keys : IsUnder(key, k) => k \in Used(D)
      BY <2>2 DEF Below
    <3>2. E.ram = Own(got, Page, "page")
      BY <2>5 DEF r
    <3>3. E.slots \in [Keys -> Nat] /\ E.slots[key] = got.at /\ \A k \in Keys : k # key => E.slots[k] = D.slots[k]
      BY <2>4, <2>5
    <3> QED BY <2>2, <2>3, <2>6, <2>7, <3>1, <3>2, <3>3, SlotFilled
  <2> QED BY <2>2, <2>6, <2>8 DEF Extends, E
<1> QED BY <1>1, <1>2

\* radix_slot with its tables: the page of an offset, where there is memory.
LEMMA PageOfIs ==
  ASSUME NEW D, TreeOK(D), NEW idx \in 0..LastPage - 1
  PROVE  /\ Extends(D, PageOf(D, idx))
         /\ <<0, idx>> \in Used(PageOf(D, idx)) \/ Stuck(PageOf(D, idx))
<1> DEFINE K(lvl) == KeyAt(lvl, idx)
           D3 == MakeSlot(D, K(3))
           D2 == MakeSlot(D3, K(2))
           D1 == MakeSlot(D2, K(1))
           D0 == MakeSlot(D1, K(0))
<1>1. PageOf(D, idx) = D0
  BY DEF PageOf
<1>2. K(0) \in Keys /\ K(1) \in Keys /\ K(2) \in Keys /\ K(3) \in Keys
      /\ K(0)[1] = 0 /\ K(1)[1] = 1 /\ K(2)[1] = 2 /\ K(3)[1] = 3
      /\ K(0) = <<0, idx>> /\ K(3) = <<3, 0>>
      /\ K(0)[2] \div Fan = K(1)[2] /\ K(1)[2] \div Fan = K(2)[2]
  <2>1. 0 \in 0..3 /\ 1 \in 0..3 /\ 2 \in 0..3 /\ 3 \in 0..3
    OBVIOUS
  <2> QED BY <2>1, KeyAtIs
<1>3. ASSUME NEW E, K(1) \in Used(E) PROVE Below(E, K(0))
  <2> SUFFICES ASSUME NEW k \in Keys, IsUnder(K(0), k) PROVE k = K(1)
    BY <1>3 DEF Below
  <2>1. k = <<k[1], k[2]>> /\ K(1) = <<K(1)[1], K(1)[2]>>
    BY <1>2, KeysAre
  <2>2. k[1] = 1 /\ k[2] = K(1)[2]
    BY <1>2 DEF IsUnder
  <2> QED BY <2>1, <2>2, <1>2
<1>4. ASSUME NEW E, K(2) \in Used(E) PROVE Below(E, K(1))
  <2> SUFFICES ASSUME NEW k \in Keys, IsUnder(K(1), k) PROVE k = K(2)
    BY <1>4 DEF Below
  <2>1. k = <<k[1], k[2]>> /\ K(2) = <<K(2)[1], K(2)[2]>>
    BY <1>2, KeysAre
  <2>2. k[1] = 2 /\ k[2] = K(2)[2]
    BY <1>2 DEF IsUnder
  <2> QED BY <2>1, <2>2, <1>2
<1>5. ASSUME NEW E, K(3) \in Used(E) PROVE Below(E, K(2))
  <2> SUFFICES ASSUME NEW k \in Keys, IsUnder(K(2), k) PROVE k = K(3)
    BY <1>5 DEF Below
  <2>1. k = <<k[1], k[2]>> /\ k[2] \in 0..Span(3 - k[1]) - 1 /\ k[1] = 3
    BY <1>2, KeysAre DEF IsUnder
  <2>2. Span(3 - 3) = 1
    <3>1. 3 - 3 = 0
      OBVIOUS
    <3> QED BY <3>1, Spans
  <2>3. k[2] = 0
    BY <2>1, <2>2
  <2> QED BY <2>1, <2>3, <1>2
<1>6. ASSUME NEW E PROVE Below(E, K(3))
  <2> SUFFICES ASSUME NEW k \in Keys PROVE ~ IsUnder(K(3), k)
    BY DEF Below
  <2>1. k[1] \in 0..3
    BY KeysAre
  <2> QED BY <2>1, <1>2 DEF IsUnder
<1> HIDE DEF K
<1>7. Extends(D, D3) /\ (K(3) \in Used(D3) \/ Stuck(D3)) /\ TreeOK(D3)
  BY <1>2, <1>6, MakeSlotIs DEF Extends
<1> HIDE DEF D3
<1>8. Extends(D3, D2) /\ (K(2) \in Used(D2) \/ Stuck(D2)) /\ TreeOK(D2)
  BY <1>2, <1>5, <1>7, MakeSlotIs DEF Extends
<1> HIDE DEF D2
<1>9. Extends(D2, D1) /\ (K(1) \in Used(D1) \/ Stuck(D1)) /\ TreeOK(D1)
  BY <1>2, <1>4, <1>8, MakeSlotIs DEF Extends
<1> HIDE DEF D1
<1>10. Extends(D1, D0) /\ (K(0) \in Used(D0) \/ Stuck(D0))
  BY <1>2, <1>3, <1>9, MakeSlotIs
<1> HIDE DEF D0
<1>11. Extends(D, D0)
  BY <1>7, <1>8, <1>9, <1>10, ExtendsAgain
<1> QED BY <1>1, <1>2, <1>10, <1>11


(* ---- bytes written into a page ---- *)

Covered(idx, b, off, n) == idx * Page + b \in off..(off + n - 1)

Painted(page, idx, off, n, v) == [b \in 0..Page - 1 |-> IF Covered(idx, b, off, n) THEN v ELSE page[b]]

LEMMA PaintedIs ==
  ASSUME NEW page \in [0..Page - 1 -> Bytes], NEW idx, NEW off, NEW n, NEW v \in Bytes
  PROVE  Painted(page, idx, off, n, v) \in [0..Page - 1 -> Bytes]
BY DEF Painted

\* One page of bytes of a tree replaced.
PageSet(D, p, f) == [D EXCEPT !.mem[p] = f]

LEMMA PageSetIs ==
  ASSUME NEW D, TreeOK(D), NEW p \in DOMAIN D.mem, NEW f \in [0..Page - 1 -> Bytes],
         NEW E, E = PageSet(D, p, f)
  PROVE  /\ TreeOK(E) /\ E.ram = D.ram /\ E.slots = D.slots
         /\ E.mem[p] = f /\ DOMAIN E.mem = DOMAIN D.mem
         /\ \A q \in DOMAIN D.mem : q # p => E.mem[q] = D.mem[q]
<1>1. D = [ram |-> D.ram, slots |-> D.slots, mem |-> D.mem]
  BY DEF TreeOK, IsTree
<1> DEFINE m == [D.mem EXCEPT ![p] = f]
<1>2. E = [ram |-> D.ram, slots |-> D.slots, mem |-> m]
  BY <1>1 DEF PageSet
<1> HIDE DEF m
<1>3. E.ram = D.ram /\ E.slots = D.slots /\ E.mem = m /\ IsTree(E)
  BY <1>2 DEF IsTree
<1>4. MemTyped(D.mem)
  BY DEF TreeOK
<1>5. DOMAIN m = DOMAIN D.mem /\ m[p] = f /\ \A q \in DOMAIN D.mem : q # p => m[q] = D.mem[q]
  BY <1>4 DEF m, MemTyped
<1>6. MemTyped(E.mem)
  BY <1>3, <1>4, <1>5 DEF MemTyped
<1>7. Used(E) = Used(D)
  BY <1>3 DEF Used
<1>8. Held(E) /\ OneSlot(E) /\ Rooted(E) /\ Leafed(E)
  BY <1>3, <1>5, <1>7 DEF TreeOK, Held, OneSlot, Rooted, Leafed
<1> QED BY <1>3, <1>5, <1>6, <1>8 DEF TreeOK

\* Its bytes are those, and no other page's changed.
BytesSet(D, E, idx, f) ==
  \A j \in 0..LastPage - 1, b \in 0..Page - 1 :
    (j = idx => ByteIn(E, j, b) = f[b]) /\ (j # idx => ByteIn(E, j, b) = ByteIn(D, j, b))

LEMMA PageSetBytes ==
  ASSUME NEW D, TreeOK(D), NEW idx \in 0..LastPage - 1, <<0, idx>> \in Used(D),
         NEW f \in [0..Page - 1 -> Bytes]
  PROVE  BytesSet(D, PageSet(D, D.slots[<<0, idx>>], f), idx, f)
<1> DEFINE E == PageSet(D, D.slots[<<0, idx>>], f)
<1> SUFFICES ASSUME NEW j \in 0..LastPage - 1, NEW b \in 0..Page - 1
             PROVE  (j = idx => ByteIn(E, j, b) = f[b]) /\ (j # idx => ByteIn(E, j, b) = ByteIn(D, j, b))
  BY DEF BytesSet
<1> DEFINE p == D.slots[<<0, idx>>]
           q == D.slots[<<0, j>>]
<1>1. p \in DOMAIN D.mem
  <2>1. <<0, idx>>[1] = 0
    OBVIOUS
  <2> QED BY <2>1 DEF TreeOK, Leafed
<1>2. E.slots = D.slots /\ E.mem[p] = f /\ DOMAIN E.mem = DOMAIN D.mem
      /\ \A r \in DOMAIN D.mem : r # p => E.mem[r] = D.mem[r]
  BY <1>1, PageSetIs
<1> HIDE DEF E
<1>3. ByteIn(E, j, b) = IF q \in DOMAIN D.mem THEN E.mem[q][b] ELSE 0
  BY <1>2 DEF ByteIn
<1>4. ByteIn(D, j, b) = IF q \in DOMAIN D.mem THEN D.mem[q][b] ELSE 0
  BY DEF ByteIn
<1>5. j # idx => q # p \/ q \notin DOMAIN D.mem
  <2> SUFFICES ASSUME j # idx, q = p, q \in DOMAIN D.mem PROVE FALSE
    OBVIOUS
  <2>1. q # 0
    BY DEF TreeOK, MemTyped
  <2>2. <<0, j>> \in Used(D)
    BY <2>1, LeafKey DEF Used
  <2>3. <<0, j>> = <<0, idx>>
    BY <2>2 DEF TreeOK, OneSlot
  <2> QED BY <2>3
<1>6. CASE j = idx
  BY <1>6, <1>1, <1>2, <1>3
<1>7. CASE j # idx
  <2> HIDE DEF p, q
  <2> QED BY <1>7, <1>2, <1>3, <1>4, <1>5
<1> QED BY <1>6, <1>7

\* What a write of one page does.
Wrote1(D, E, idx, off, n, v) ==
  /\ TreeOK(E) /\ Grows(D, E)
  /\ Stuck(D) => E.ram = D.ram /\ E.slots = D.slots
  /\ <<0, idx>> \in Used(E) \/ Stuck(E)
  /\ \A j \in 0..LastPage - 1, b \in 0..Page - 1 :
       ByteIn(E, j, b) = IF j = idx /\ Covered(j, b, off, n) /\ <<0, idx>> \in Used(E) THEN v ELSE ByteIn(D, j, b)

LEMMA Stored1Is ==
  ASSUME NEW D, TreeOK(D), NEW idx \in 0..LastPage - 1, NEW off, NEW n, NEW v \in Bytes
  PROVE  Wrote1(D, Stored1(D, idx, off, n, v), idx, off, n, v)
<1> DEFINE P == PageOf(D, idx)
           p == P.slots[<<0, idx>>]
           E == Stored1(D, idx, off, n, v)
<1>1. Extends(D, P) /\ (<<0, idx>> \in Used(P) \/ Stuck(P))
  BY PageOfIs
<1>2. TreeOK(P) /\ Grows(D, P) /\ SameBytes(D, P) /\ (Stuck(D) => P = D)
  BY <1>1 DEF Extends
<1>3. p = 0 <=> <<0, idx>> \notin Used(P)
  BY LeafKey DEF Used
<1>4. E = IF p = 0 THEN P ELSE PageSet(P, p, Painted(P.mem[p], idx, off, n, v))
  BY DEF Stored1, PageSet, Painted, Covered
<1> HIDE DEF P, E
<1>5. CASE p = 0
  <2>1. E = P
    BY <1>5, <1>4
  <2>2. \A j \in 0..LastPage - 1, b \in 0..Page - 1 : ByteIn(E, j, b) = ByteIn(D, j, b)
    BY <2>1, <1>2 DEF SameBytes
  <2>3. <<0, idx>> \notin Used(E)
    BY <2>1, <1>5, <1>3
  <2>4. Wrote1(D, E, idx, off, n, v)
    BY <2>1, <2>2, <2>3, <1>1, <1>2 DEF Wrote1
  <2> QED BY <2>4 DEF E
<1>6. CASE p # 0
  <2>1. <<0, idx>> \in Used(P)
    BY <1>6, <1>3
  <2>2. p \in DOMAIN P.mem
    <3>1. <<0, idx>>[1] = 0
      OBVIOUS
    <3> QED BY <3>1, <2>1, <1>2 DEF TreeOK, Leafed
  <2> DEFINE g == P.mem[p]
             f == Painted(g, idx, off, n, v)
  <2>3. g \in [0..Page - 1 -> Bytes]
    BY <2>2, <1>2 DEF TreeOK, MemTyped
  <2>4. f \in [0..Page - 1 -> Bytes]
    <3> HIDE DEF g
    <3> QED BY <2>3, PaintedIs
  <2>5. \A b \in 0..Page - 1 : f[b] = IF Covered(idx, b, off, n) THEN v ELSE g[b]
    BY DEF Painted
  <2>6. E = PageSet(P, p, f)
    BY <1>4, <1>6
  <2> HIDE DEF f
  <2>7. TreeOK(E) /\ E.ram = P.ram /\ E.slots = P.slots
    BY <2>2, <2>4, <2>6, <1>2, PageSetIs
  <2>8. Grows(D, E) /\ (Stuck(D) => E.ram = D.ram /\ E.slots = D.slots)
    BY <2>7, <1>2 DEF Grows
  <2>9. <<0, idx>> \in Used(E)
    BY <2>1, <2>7 DEF Used
  <2>10. ASSUME NEW j \in 0..LastPage - 1, NEW b \in 0..Page - 1
         PROVE  ByteIn(E, j, b) = IF j = idx /\ Covered(j, b, off, n) /\ <<0, idx>> \in Used(E) THEN v ELSE ByteIn(D, j, b)
    <3>1. (j = idx => ByteIn(E, j, b) = f[b]) /\ (j # idx => ByteIn(E, j, b) = ByteIn(P, j, b))
      <4>1. E = PageSet(P, P.slots[<<0, idx>>], f) /\ TreeOK(P)
        BY <2>6, <1>2
      <4> HIDE DEF p, g
      <4>2. BytesSet(P, PageSet(P, P.slots[<<0, idx>>], f), idx, f)
        BY <4>1, <2>1, <2>4, PageSetBytes
      <4> QED BY <4>1, <4>2 DEF BytesSet
    <3>2. ByteIn(P, j, b) = ByteIn(D, j, b)
      BY <1>2 DEF SameBytes
    <3>3. ByteIn(P, idx, b) = g[b]
      BY <2>2 DEF ByteIn
    <3> HIDE DEF g, p
    <3> QED BY <3>1, <3>2, <3>3, <2>5, <2>9
  <2>11. Wrote1(D, E, idx, off, n, v)
    BY <2>7, <2>8, <2>9, <2>10 DEF Wrote1
  <2> QED BY <2>11 DEF E
<1> QED BY <1>5, <1>6


(* ---- a write of several pages ---- *)

\* A set of naturals with 0 and every successor has them all.
LEMMA AllNat ==
  ASSUME NEW S \in SUBSET Nat, 0 \in S, \A n \in S : n + 1 \in S
  PROVE  \A n \in Nat : n \in S
<1> DEFINE R == OpToRel(<, Nat)
<1>1. \A x, y \in Nat : x < y => <<x, y>> \in R
  BY Zenon DEF OpToRel
<1>2. IsWellFoundedOn(R, Nat)
  BY NatLessThanWellFounded, Zenon
<1> HIDE DEF R
<1> SUFFICES ASSUME Nat \ S # {} PROVE FALSE
  OBVIOUS
<1>3. PICK x \in Nat \ S : \A y \in Nat \ S : ~ (<<y, x>> \in R)
  <2>1. Nat \ S \subseteq Nat
    OBVIOUS
  <2> QED BY <2>1, <1>2, WFMin
<1>4. x # 0 /\ x - 1 \in Nat /\ x - 1 < x
  OBVIOUS
<1>5. x - 1 \in S
  BY <1>1, <1>3, <1>4
<1>6. x \in S
  BY <1>5, <1>4
<1> QED BY <1>6

\* The tree after k pages of a write.
WriteRun(D, first, off, n, v, k) ==
  LET after[i \in Nat] == IF i = 0 THEN D ELSE Stored1(after[i - 1], first + i - 1, off, n, v)
  IN  after[k]

PageByPage(D, first, off, n, v) ==
  /\ WriteRun(D, first, off, n, v, 0) = D
  /\ \A k \in Nat : WriteRun(D, first, off, n, v, k + 1)
                      = Stored1(WriteRun(D, first, off, n, v, k), first + (k + 1) - 1, off, n, v)

LEMMA WriteRunIs ==
  ASSUME NEW D, NEW first, NEW off, NEW n, NEW v
  PROVE  PageByPage(D, first, off, n, v)
<1> DEFINE Step(E, i) == Stored1(E, first + i - 1, off, n, v)
           Upto(m, f) == f = [k \in 0..m |-> IF k = 0 THEN D ELSE Step(f[k - 1], k)]
           H == CHOOSE h : h = [i \in Nat |-> IF i = 0 THEN D ELSE Stored1(h[i - 1], first + i - 1, off, n, v)]
<1>0. \A k \in Nat : WriteRun(D, first, off, n, v, k) = H[k]
  BY DEF WriteRun
<1> DEFINE G == CHOOSE g : g = [k \in Nat |-> IF k = 0 THEN D ELSE Step(g[k - 1], k)]
<1>10. H = G
  OBVIOUS
<1> HIDE DEF Step, H
<1>1. \A m \in Nat : \E f : Upto(m, f)
  <2> DEFINE S == {m \in Nat : \E f : Upto(m, f)}
  <2>1. 0 \in S
    <3>1. Upto(0, [k \in 0..0 |-> D])
      OBVIOUS
    <3> QED BY <3>1
  <2>2. ASSUME NEW m \in S PROVE m + 1 \in S
    <3>1. PICK f : Upto(m, f)
      OBVIOUS
    <3> DEFINE g == [k \in 0..(m + 1) |-> IF k = m + 1 THEN Step(f[m], m + 1) ELSE f[k]]
    <3>2. Upto(m + 1, g)
      <4>1. m \in Nat
        OBVIOUS
      <4>2. ASSUME NEW k \in 0..(m + 1) PROVE g[k] = IF k = 0 THEN D ELSE Step(g[k - 1], k)
        <5>1. CASE k = m + 1
          <6>1. g[k - 1] = f[m] /\ k # 0 /\ g[k] = Step(f[m], m + 1)
            BY <5>1, <4>1
          <6> QED BY <6>1, <5>1
        <5>2. CASE k = 0
          <6>1. g[k] = f[0]
            BY <5>2, <4>1
          <6>2. f[0] = D
            BY <3>1, <4>1
          <6> QED BY <6>1, <6>2, <5>2
        <5>3. CASE k \in 1..m
          <6>1. g[k] = f[k] /\ g[k - 1] = f[k - 1] /\ k # 0
            BY <5>3, <4>1
          <6>2. f[k] = Step(f[k - 1], k)
            BY <3>1, <5>3, <4>1
          <6> QED BY <6>1, <6>2
        <5> QED BY <5>1, <5>2, <5>3, <4>1
      <4> HIDE DEF g
      <4>3. g = [k \in 0..(m + 1) |-> g[k]]
        BY DEF g
      <4> QED BY <4>2, <4>3
    <3>3. m + 1 \in Nat
      OBVIOUS
    <3> QED BY <3>2, <3>3
  <2> HIDE DEF S
  <2>3. \A m \in Nat : m \in S
    <3>1. S \in SUBSET Nat
      BY DEF S
    <3> QED BY <3>1, <2>1, <2>2, AllNat
  <2> QED BY <2>3 DEF S
<1>2. ASSUME NEW m \in Nat, NEW l \in Nat, NEW f, NEW g, Upto(m, f), Upto(l, g), m <= l
      PROVE  \A k \in 0..m : f[k] = g[k]
  <2> DEFINE S == {k \in Nat : k \in 0..m => f[k] = g[k]}
  <2>1. 0 \in S
    BY <1>2
  <2>2. ASSUME NEW k \in S PROVE k + 1 \in S
    <3> SUFFICES ASSUME k + 1 \in 0..m PROVE f[k + 1] = g[k + 1]
      OBVIOUS
    <3>1. f[k] = g[k] /\ k \in Nat
      OBVIOUS
    <3>2. f[k + 1] = Step(f[k], k + 1)
      BY <1>2, <3>1
    <3>3. g[k + 1] = Step(g[k], k + 1)
      BY <1>2, <3>1
    <3> QED BY <3>1, <3>2, <3>3
  <2> HIDE DEF S
  <2>3. \A k \in Nat : k \in S
    <3>1. S \in SUBSET Nat
      BY DEF S
    <3> QED BY <3>1, <2>1, <2>2, AllNat
  <2> QED BY <2>3 DEF S
<1> DEFINE Fun(m) == CHOOSE f : Upto(m, f)
           F == [k \in Nat |-> Fun(k)[k]]
<1>3. \A m \in Nat : Upto(m, Fun(m))
  <2> HIDE DEF Upto
  <2> QED BY <1>1
<1>4. F = [k \in Nat |-> IF k = 0 THEN D ELSE Step(F[k - 1], k)]
  <2>1. ASSUME NEW k \in Nat PROVE F[k] = IF k = 0 THEN D ELSE Step(F[k - 1], k)
    <3>1. F[k] = Fun(k)[k]
      OBVIOUS
    <3>2. CASE k = 0
      <4> HIDE DEF Fun, F
      <4> QED BY <3>1, <3>2, <1>3
    <3>3. CASE k # 0
      <4>1. k - 1 \in Nat /\ F[k - 1] = Fun(k - 1)[k - 1]
        BY <3>3
      <4> HIDE DEF F, Fun
      <4>2. Fun(k)[k] = Step(Fun(k)[k - 1], k)
        BY <1>3, <3>3
      <4>3. Upto(k, Fun(k)) /\ Upto(k - 1, Fun(k - 1))
        BY <1>3, <4>1
      <4> HIDE DEF Upto
      <4>4. Fun(k - 1)[k - 1] = Fun(k)[k - 1]
        <5>1. k - 1 <= k /\ k - 1 \in 0..(k - 1)
          BY <4>1
        <5> QED BY <1>2, <4>1, <4>3, <5>1
      <4> QED BY <3>1, <3>3, <4>1, <4>2, <4>4
    <3> QED BY <3>2, <3>3
  <2> HIDE DEF F
  <2>2. F = [k \in Nat |-> F[k]]
    BY DEF F
  <2> QED BY <2>1, <2>2
<1> HIDE DEF F
<1>5. G = [k \in Nat |-> IF k = 0 THEN D ELSE Step(G[k - 1], k)]
  BY <1>4
<1> HIDE DEF G
<1>7. G[0] = D
  BY <1>5
<1>8. ASSUME NEW k \in Nat PROVE G[k + 1] = Step(G[k], k + 1)
  BY <1>5
<1>9. WriteRun(D, first, off, n, v, 0) = D
  BY <1>0, <1>7, <1>10
<1>11. ASSUME NEW k \in Nat
       PROVE  WriteRun(D, first, off, n, v, k + 1)
                = Stored1(WriteRun(D, first, off, n, v, k), first + (k + 1) - 1, off, n, v)
  <2>1. WriteRun(D, first, off, n, v, k + 1) = G[k + 1] /\ WriteRun(D, first, off, n, v, k) = G[k]
    BY <1>0, <1>10
  <2> QED BY <2>1, <1>8 DEF Step
<1> QED BY <1>9, <1>11 DEF PageByPage

\* What the first k pages of a write have done.
WroteSome(D, E, first, k, off, n, v) ==
  /\ TreeOK(E) /\ Grows(D, E)
  /\ (\A i \in first..(first + k - 1) : <<0, i>> \in Used(E)) \/ Stuck(E)
  /\ \A j \in 0..LastPage - 1, b \in 0..Page - 1 :
       ByteIn(E, j, b) = IF j \in first..(first + k - 1) /\ Covered(j, b, off, n) /\ <<0, j>> \in Used(E)
                         THEN v ELSE ByteIn(D, j, b)

LEMMA GrowsAgain ==
  ASSUME NEW D, NEW E, NEW F, Grows(D, E), Grows(E, F)
  PROVE  Grows(D, F)
<1> SUFFICES ASSUME NEW key \in Used(D) PROVE F.slots[key] = D.slots[key]
  BY DEF Grows
<1>1. E.slots[key] = D.slots[key]
  BY DEF Grows
<1>2. key \in Used(E)
  BY <1>1 DEF Used
<1> QED BY <1>1, <1>2 DEF Grows

LEMMA WroteMore ==
  ASSUME NEW D, NEW E, NEW F, NEW first \in Nat, NEW k \in Nat, NEW off, NEW n, NEW v,
         first + k < LastPage, WroteSome(D, E, first, k, off, n, v), Wrote1(E, F, first + k, off, n, v)
  PROVE  WroteSome(D, F, first, k + 1, off, n, v)
<1> DEFINE idx == first + k
<1>0. LastPage \in Nat
  BY Spans DEF LastPage
<1>1. idx \in 0..LastPage - 1
  BY <1>0
<1>2. TreeOK(F) /\ Grows(E, F) /\ (Stuck(E) => F.ram = E.ram /\ F.slots = E.slots)
  BY DEF Wrote1
<1>3. Grows(D, F)
  BY <1>2, GrowsAgain DEF WroteSome
<1>4. \A i : i \in first..(first + (k + 1) - 1) <=> i \in first..(first + k - 1) \/ i = idx
  OBVIOUS
<1>5. Stuck(E) => Stuck(F) /\ Used(F) = Used(E)
  BY <1>2 DEF Stuck, Used
<1>6. \A key \in Used(E) : key \in Used(F)
  BY <1>2 DEF Used, Grows
<1>7. (\A i \in first..(first + k - 1) : <<0, i>> \in Used(E)) \/ Stuck(E)
  BY DEF WroteSome
<1>8. <<0, idx>> \in Used(F) \/ Stuck(F)
  BY DEF Wrote1
<1>9. (\A i \in first..(first + (k + 1) - 1) : <<0, i>> \in Used(F)) \/ Stuck(F)
  <2> HIDE DEF idx
  <2> QED BY <1>4, <1>5, <1>6, <1>7, <1>8
<1>10. \A j : j \in first..(first + k - 1) => (<<0, j>> \in Used(F) <=> <<0, j>> \in Used(E))
  BY <1>5, <1>6, <1>7
<1>11. ASSUME NEW j \in 0..LastPage - 1, NEW b \in 0..Page - 1
       PROVE  ByteIn(F, j, b) = IF j \in first..(first + (k + 1) - 1) /\ Covered(j, b, off, n) /\ <<0, j>> \in Used(F)
                                THEN v ELSE ByteIn(D, j, b)
  <2>1. ByteIn(F, j, b) = IF j = idx /\ Covered(j, b, off, n) /\ <<0, idx>> \in Used(F) THEN v ELSE ByteIn(E, j, b)
    BY DEF Wrote1
  <2>2. ByteIn(E, j, b) = IF j \in first..(first + k - 1) /\ Covered(j, b, off, n) /\ <<0, j>> \in Used(E)
                          THEN v ELSE ByteIn(D, j, b)
    BY DEF WroteSome
  <2>3. j = idx => j \notin first..(first + k - 1)
    OBVIOUS
  <2> HIDE DEF idx
  <2> QED BY <2>1, <2>2, <2>3, <1>4, <1>10
<1> QED BY <1>2, <1>3, <1>9, <1>11 DEF WroteSome


(* ---- inode_write ---- *)

LEMMA QuotientMono ==
  ASSUME NEW x \in Nat, NEW y \in Nat, NEW a \in Nat, a > 0, x <= y
  PROVE  x \div a <= y \div a
<1> DEFINE p == x \div a
           r == x % a
           q == y \div a
           s == y % a
<1>1. p \in Nat /\ r \in Nat /\ r < a /\ x = p * a + r
  BY Division
<1>2. q \in Nat /\ s \in Nat /\ s < a /\ y = q * a + s
  BY Division
<1> HIDE DEF p, r, q, s
<1>3. p * a \in Nat /\ q * a \in Nat
  BY <1>1, <1>2, Product
<1>4. p * a < q * a + a
  BY <1>1, <1>2, <1>3
<1>5. p <= q
  BY <1>1, <1>2, <1>4, Multiples
<1> QED BY <1>5 DEF p, q

\* The page and the place in it of an offset.
LEMMA PageAt ==
  ASSUME NEW o \in Nat, o < Limit
  PROVE  /\ o \div Page \in 0..LastPage - 1 /\ o % Page \in 0..Page - 1
         /\ (o \div Page) * Page + (o % Page) = o
<1>1. LastPage \in Nat /\ Page \in Nat /\ Page > 0
  BY Spans, Sizes DEF LastPage
<1>2. Limit = Page * LastPage
  <2> DEFINE c == Fan * Fan * Fan
  <2>1. c \in Nat /\ c = LastPage
    BY Spans DEF LastPage
  <2>2. Limit = c * Page
    BY DEF Limit
  <2> HIDE DEF c
  <2> QED BY <1>1, <2>1, <2>2
<1>3. o \div Page \in Nat /\ o \div Page < LastPage
  BY <1>1, <1>2, QuotientLess
<1>4. o % Page \in Nat /\ o % Page < Page /\ o = (o \div Page) * Page + (o % Page)
  BY <1>1, Division
<1> DEFINE q == o \div Page
           r == o % Page
<1> HIDE DEF q, r
<1>5. q \in 0..LastPage - 1 /\ r \in 0..Page - 1
  BY <1>1, <1>3, <1>4 DEF q, r
<1> QED BY <1>5, <1>4 DEF q, r

LEMMA CoveredIs ==
  ASSUME NEW o \in Nat, o < Limit, NEW off, NEW n
  PROVE  Covered(o \div Page, o % Page, off, n) <=> o \in off..(off + n - 1)
BY PageAt DEF Covered

LEMMA PlaceIs ==
  ASSUME NEW j \in Nat, NEW b \in 0..Page - 1
  PROVE  j * Page + b \in Nat /\ (j * Page + b) \div Page = j /\ (j * Page + b) % Page = b
<1>1. Page \in Nat /\ b \in Nat /\ b < Page
  BY Sizes
<1>2. j * Page \in Nat
  BY <1>1, Product
<1> QED BY <1>1, <1>2, Quotient

WroteAll(D, E, off, n, v) ==
  /\ TreeOK(E)
  /\ (\A idx \in Idxs(off, n) : <<0, idx>> \in Used(E)) =>
       \A j \in 0..LastPage - 1, b \in 0..Page - 1 :
         ByteIn(E, j, b) = IF Covered(j, b, off, n) THEN v ELSE ByteIn(D, j, b)

LEMMA WriteIs ==
  ASSUME NEW D, TreeOK(D), NEW off \in Nat, NEW n \in Nat, off + n <= Limit, NEW v \in Bytes
  PROVE  WroteAll(D, InodeWrite(D, off, n, v), off, n, v)
<1> DEFINE E == InodeWrite(D, off, n, v)
           first == off \div Page
           last == (off + n - 1) \div Page
<1>0. Page \in Nat /\ Page > 0
  BY Sizes
<1>1. CASE n = 0
  <2>1. E = WriteRun(D, first, off, n, v, 0)
    BY <1>1 DEF InodeWrite, WriteRun
  <2>2. E = D
    <3>1. PageByPage(D, first, off, n, v)
      BY WriteRunIs
    <3> QED BY <2>1, <3>1 DEF PageByPage
  <2>3. \A j, b : ~ Covered(j, b, off, n)
    BY <1>1 DEF Covered
  <2> HIDE DEF E
  <2>4. WroteAll(D, E, off, n, v)
    BY <2>2, <2>3 DEF WroteAll
  <2> QED BY <2>4 DEF E
<1>2. CASE n > 0
  <2> DEFINE count == last - first + 1
             R(k) == WriteRun(D, first, off, n, v, k)
  <2>1. E = R(count)
    BY <1>2 DEF InodeWrite, WriteRun
  <2>2. Limit \in Nat
    <3> DEFINE c == Fan * Fan * Fan
    <3>1. c \in Nat
      BY Spans
    <3> HIDE DEF c
    <3> QED BY <3>1, <1>0, Product DEF c, Limit
  <2>3. first \in Nat /\ last \in 0..LastPage - 1 /\ first <= last
    <3> DEFINE z == off + n - 1
    <3>1. z \in Nat /\ off <= z /\ z < Limit
      BY <1>2, <2>2
    <3>2. last = z \div Page
      OBVIOUS
    <3> HIDE DEF z
    <3> QED BY <3>1, <3>2, <1>0, Division, QuotientMono, PageAt
  <2> HIDE DEF E
  <2>4. ASSUME NEW j \in Nat, NEW b \in 0..Page - 1, Covered(j, b, off, n) PROVE j \in first..last
    <3> DEFINE o == j * Page + b
               z == off + n - 1
    <3>1. o \in Nat /\ o \div Page = j
      BY PlaceIs
    <3>2. off <= o /\ o <= z /\ z \in Nat
      BY <2>4, <3>1, <1>2 DEF Covered
    <3> HIDE DEF o, z
    <3>3. first <= o \div Page
      BY <3>1, <3>2, <1>0, QuotientMono
    <3>4. o \div Page <= z \div Page
      BY <3>1, <3>2, <1>0, QuotientMono
    <3>5. last = z \div Page
      BY DEF z
    <3> QED BY <3>1, <3>3, <3>4, <3>5, <2>3
  <2>5. Idxs(off, n) = first..last
    BY <1>2 DEF Idxs
  <2> HIDE DEF first, last
  <2>6. R(0) = D /\ \A k \in Nat : R(k + 1) = Stored1(R(k), first + (k + 1) - 1, off, n, v)
    <3>1. PageByPage(D, first, off, n, v)
      BY WriteRunIs
    <3> QED BY <3>1 DEF R, PageByPage
  <2> HIDE DEF R
  <2> DEFINE S == {k \in Nat : k <= count => WroteSome(D, R(k), first, k, off, n, v)}
  <2>7. 0 \in S
    <3>1. WroteSome(D, D, first, 0, off, n, v)
      <4>1. \A i : i \notin first..(first + 0 - 1)
        BY <2>3
      <4> QED BY <4>1 DEF WroteSome, Grows
    <3> QED BY <3>1, <2>6
  <2>8. ASSUME NEW k \in S PROVE k + 1 \in S
    <3>0. k \in Nat /\ k + 1 \in Nat
      OBVIOUS
    <3> SUFFICES ASSUME k + 1 <= count PROVE WroteSome(D, R(k + 1), first, k + 1, off, n, v)
      BY <3>0
    <3>1. k <= count /\ first + k \in 0..LastPage - 1 /\ first + k < LastPage /\ first + (k + 1) - 1 = first + k
      <4> HIDE DEF S
      <4>1. LastPage \in Nat
        BY Spans DEF LastPage
      <4> QED BY <4>1, <2>3, <3>0
    <3>2. WroteSome(D, R(k), first, k, off, n, v)
      BY <3>1
    <3>3. TreeOK(R(k))
      BY <3>2 DEF WroteSome
    <3>4. R(k + 1) = Stored1(R(k), first + k, off, n, v)
      BY <2>6, <3>0, <3>1
    <3>5. Wrote1(R(k), R(k + 1), first + k, off, n, v)
      BY <3>1, <3>3, <3>4, Stored1Is
    <3> HIDE DEF S, count
    <3> QED BY <3>0, <3>1, <3>2, <3>5, <2>3, WroteMore
  <2>9. \A k \in Nat : k \in S
    <3> HIDE DEF S
    <3>1. S \in SUBSET Nat
      BY DEF S
    <3> QED BY <3>1, <2>7, <2>8, AllNat
  <2>10. WroteSome(D, E, first, count, off, n, v)
    <3>1. count \in Nat /\ count <= count
      BY <2>3
    <3>2. count \in S
      BY <2>9, <3>1
    <3> HIDE DEF count
    <3> QED BY <3>1, <3>2, <2>1
  <2>11. first + count - 1 = last
    BY <2>3
  <2> HIDE DEF count
  <2>12. ASSUME \A idx \in Idxs(off, n) : <<0, idx>> \in Used(E), NEW j \in 0..LastPage - 1, NEW b \in 0..Page - 1
         PROVE  ByteIn(E, j, b) = IF Covered(j, b, off, n) THEN v ELSE ByteIn(D, j, b)
    <3>1. ByteIn(E, j, b) = IF j \in first..last /\ Covered(j, b, off, n) /\ <<0, j>> \in Used(E)
                            THEN v ELSE ByteIn(D, j, b)
      BY <2>10, <2>11 DEF WroteSome
    <3>2. Covered(j, b, off, n) => j \in first..last
      BY <2>4
    <3>3. j \in first..last => <<0, j>> \in Used(E)
      BY <2>12, <2>5
    <3> QED BY <3>1, <3>2, <3>3
  <2>13. TreeOK(E)
    BY <2>10 DEF WroteSome
  <2>14. WroteAll(D, E, off, n, v)
    BY <2>12, <2>13 DEF WroteAll
  <2> QED BY <2>14 DEF E
<1> QED BY <1>1, <1>2


(* ---- pages of the tree given back ---- *)

\* With a table go the pages under it.
Entire(D, F) == F \subseteq Used(D) /\ \A j \in Used(D), k \in F : IsUnder(j, k) => j \in F

LEMMA ReleasedRam ==
  ASSUME NEW D, TreeOK(D), NEW F, F \subseteq Used(D), NEW E, E = Released(D, F)
  PROVE  RamOK(E.ram) /\ E.ram.owned = D.ram.owned \ {PageBlock(D.slots[key]) : key \in F}
<1> DEFINE O == {PageBlock(D.slots[key]) : key \in F}
           P == {D.slots[key] : key \in F}
           Q == {[at |-> p, len |-> Page, how |-> "page"] : p \in P}
           f == [key \in F |-> PageBlock(D.slots[key])]
           Z == [PfreeAll(D.ram, P, Cardinality(F)) EXCEPT !.owned = @ \ Q]
<1>1. E.ram = Z
  BY DEF Released
<1>2. Q = O
  BY DEF PageBlock
<1>3. IsFiniteSet(F)
  <2>1. Used(D) \subseteq Keys
    BY DEF Used
  <2>2. F \in SUBSET Keys
    BY <2>1
  <2> QED BY <2>2, KeysFinite, FS_Subset
<1>4. IsFiniteSet(O) /\ Cardinality(O) = Cardinality(F)
  <2>1. f \in [F -> O]
    OBVIOUS
  <2>2. \A j, k \in F : f[j] = f[k] => j = k
    <3> SUFFICES ASSUME NEW j \in F, NEW k \in F, f[j] = f[k] PROVE j = k
      OBVIOUS
    <3>1. PageBlock(D.slots[j]).at = D.slots[j] /\ PageBlock(D.slots[k]).at = D.slots[k]
      BY DEF PageBlock
    <3>2. D.slots[j] = D.slots[k]
      BY <3>1
    <3> HIDE DEF f
    <3> QED BY <3>2 DEF TreeOK, OneSlot
  <2>3. \A b \in O : \E key \in F : f[key] = b
    OBVIOUS
  <2> HIDE DEF f, O
  <2>4. f \in Bijection(F, O)
    BY <2>1, <2>2, <2>3, Zenon DEF Bijection, Injection, Surjection, IsInjective
  <2>5. ExistsBijection(F, O)
    BY <2>4 DEF ExistsBijection
  <2> QED BY <2>5, <1>3, FS_Bijection
<1>5. PagesOwned(D.ram, O)
  <2> SUFFICES ASSUME NEW key \in F
        PROVE PageBlock(D.slots[key]) \in D.ram.owned /\ PageBlock(D.slots[key]).how = "page"
    BY DEF PagesOwned
  <2>1. PageBlock(D.slots[key]).how = "page"
    BY DEF PageBlock
  <2> QED BY <2>1 DEF TreeOK, Held
<1>6. P = {b.at : b \in O}
  <2>1. \A p : PageBlock(p).at = p
    BY DEF PageBlock
  <2> QED BY <2>1
<1>7. GivesPages(Z, D.ram, P, Cardinality(F), O)
  <2> HIDE DEF O, P, Q
  <2> QED BY <1>2 DEF GivesPages
<1>8. RamOK(D.ram)
  BY DEF TreeOK
<1> HIDE DEF P, Q, Z, f
<1> DEFINE k == Cardinality(F)
           A == D.ram
<1>9. k = Cardinality(O) /\ GivesPages(Z, A, P, k, O) /\ RamOK(A) /\ PagesOwned(A, O)
  BY <1>4, <1>5, <1>7, <1>8
<1> HIDE DEF k, A, O
<1>10. RamOK(Z) /\ Z.owned = A.owned \ O
  <2>1. IsFiniteSet(O)
    BY <1>4
  <2>2. StartsOf(P, O)
    BY <1>6 DEF StartsOf
  <2> QED BY <2>1, <2>2, <1>9, PagesGiven
<1> QED BY <1>1, <1>10 DEF O, A

LEMMA ReleasedIs ==
  ASSUME NEW D, TreeOK(D), NEW F, Entire(D, F), NEW E, E = Released(D, F)
  PROVE  /\ TreeOK(E) /\ Used(E) = Used(D) \ F
         /\ \A key \in Used(E) : E.slots[key] = D.slots[key]
         /\ \A j \in 0..LastPage - 1, b \in 0..Page - 1 :
              ByteIn(E, j, b) = IF <<0, j>> \in F THEN 0 ELSE ByteIn(D, j, b)
<1> DEFINE pages == {D.slots[key] : key \in F}
           r == [PfreeAll(D.ram, pages, Cardinality(F))
                  EXCEPT !.owned = @ \ {[at |-> p, len |-> Page, how |-> "page"] : p \in pages}]
           s == [key \in Keys |-> IF key \in F THEN 0 ELSE D.slots[key]]
           m == [q \in DOMAIN D.mem \ pages |-> D.mem[q]]
<1>0. F \subseteq Used(D) /\ \A j \in Used(D), k \in F : IsUnder(j, k) => j \in F
  BY DEF Entire
<1>1. E = [ram |-> r, slots |-> s, mem |-> m]
  BY DEF Released
<1>2. RamOK(E.ram) /\ E.ram.owned = D.ram.owned \ {PageBlock(D.slots[key]) : key \in F}
  BY <1>0, ReleasedRam
<1> HIDE DEF r, s, m
<1>3. E.slots = s /\ E.mem = m /\ E = [ram |-> E.ram, slots |-> E.slots, mem |-> E.mem]
  BY <1>1
<1>4. D.slots \in [Keys -> Nat]
  BY DEF TreeOK
<1>5. \A key \in Keys : E.slots[key] = IF key \in F THEN 0 ELSE D.slots[key]
  BY <1>3 DEF s
<1>6. E.slots \in [Keys -> Nat]
  <2>1. \A key \in Keys : D.slots[key] \in Nat /\ 0 \in Nat
    BY <1>4
  <2> QED BY <1>3, <2>1 DEF s
<1>7. Used(E) = Used(D) \ F
  BY <1>0, <1>5 DEF Used
<1>8. \A key \in Used(E) : E.slots[key] = D.slots[key] /\ key \in Used(D) /\ key \notin F
  BY <1>5, <1>7 DEF Used
<1>9. \A key \in Used(E) : D.slots[key] \notin pages
  <2>1. \A j, k \in Used(D) : D.slots[j] = D.slots[k] => j = k
    BY DEF TreeOK, OneSlot
  <2> QED BY <2>1, <1>0, <1>8
<1>10. DOMAIN E.mem = DOMAIN D.mem \ pages /\ \A q \in DOMAIN D.mem : q \notin pages => E.mem[q] = D.mem[q]
  <2> HIDE DEF pages
  <2> QED BY <1>3 DEF m
<1>11. MemTyped(E.mem)
  <2> HIDE DEF pages
  <2> QED BY <1>10 DEF TreeOK, MemTyped
<1>12. Held(E)
  <2>1. ASSUME NEW key \in Used(E) PROVE PageBlock(E.slots[key]) \in E.ram.owned
    <3>1. PageBlock(D.slots[key]) \in D.ram.owned
      BY <1>8 DEF TreeOK, Held
    <3>2. PageBlock(D.slots[key]) \notin {PageBlock(D.slots[k]) : k \in F}
      <4> SUFFICES ASSUME NEW k \in F, PageBlock(D.slots[key]) = PageBlock(D.slots[k]) PROVE FALSE
        OBVIOUS
      <4>1. PageBlock(D.slots[key]).at = D.slots[key] /\ PageBlock(D.slots[k]).at = D.slots[k]
        BY DEF PageBlock
      <4>2. D.slots[key] = D.slots[k]
        BY <4>1
      <4> QED BY <4>2, <1>9
    <3> QED BY <3>1, <3>2, <1>2, <1>8
  <2>2. ASSUME NEW b \in E.ram.owned, b.how = "page" PROVE \E key \in Used(E) : b.at = E.slots[key]
    <3>1. b \in D.ram.owned /\ b \notin {PageBlock(D.slots[k]) : k \in F}
      BY <1>2
    <3>2. PICK key \in Used(D) : b.at = D.slots[key]
      BY <3>1, <2>2 DEF TreeOK, Held
    <3>3. b = PageBlock(b.at)
      <4>1. b \in [at : Nat, len : Nat, how : Owners] /\ b.len = Page
        <5>1. D.ram \in Ram /\ Placed(D.ram)
          BY DEF TreeOK, RamOK
        <5>2. BlockOK(b)
          BY <5>1, <3>1 DEF Placed
        <5> QED BY <5>1, <5>2, <3>1, <2>2 DEF Ram, BlockOK
      <4> QED BY <4>1, <2>2 DEF PageBlock
    <3>4. key \notin F
      BY <3>1, <3>2, <3>3
    <3> QED BY <3>2, <3>4, <1>7, <1>8
  <2> QED BY <2>1, <2>2 DEF Held
<1>13. OneSlot(E)
  BY <1>8 DEF OneSlot, TreeOK
<1>14. Rooted(E)
  <2> SUFFICES ASSUME NEW j \in Used(E), NEW k \in Keys, IsUnder(j, k) PROVE k \in Used(E)
    BY DEF Rooted
  <2>1. k \in Used(D)
    BY <1>8 DEF TreeOK, Rooted
  <2>2. k \notin F
    BY <1>0, <1>8
  <2> QED BY <2>1, <2>2, <1>7
<1>15. Leafed(E)
  BY <1>8, <1>9, <1>10 DEF TreeOK, Leafed
<1>16. ASSUME NEW j \in 0..LastPage - 1, NEW b \in 0..Page - 1
       PROVE  ByteIn(E, j, b) = IF <<0, j>> \in F THEN 0 ELSE ByteIn(D, j, b)
  <2> DEFINE k == <<0, j>>
             p == D.slots[k]
  <2>1. k \in Keys
    BY LeafKey
  <2>2. CASE k \in F
    <3>1. E.slots[k] = 0 /\ 0 \notin DOMAIN E.mem
      BY <2>1, <2>2, <1>5, <1>11 DEF MemTyped
    <3> QED BY <3>1, <2>2 DEF ByteIn
  <2>3. CASE k \notin F
    <3>1. E.slots[k] = p
      BY <2>1, <2>3, <1>5
    <3>2. p \in DOMAIN D.mem => p \notin pages
      <4> SUFFICES ASSUME p \in DOMAIN D.mem PROVE p \notin pages
        OBVIOUS
      <4>1. p # 0
        BY DEF TreeOK, MemTyped
      <4>2. k \in Used(E)
        BY <4>1, <3>1, <2>1 DEF Used
      <4> QED BY <4>2, <1>9
    <3> HIDE DEF p, pages
    <3>3. ByteIn(E, j, b) = IF p \in DOMAIN E.mem THEN E.mem[p][b] ELSE 0
      BY <3>1 DEF ByteIn
    <3>4. ByteIn(D, j, b) = IF p \in DOMAIN D.mem THEN D.mem[p][b] ELSE 0
      BY DEF ByteIn, p
    <3> QED BY <3>2, <3>3, <3>4, <2>3, <1>10
  <2> QED BY <2>2, <2>3
<1>17. TreeOK(E)
  BY <1>2, <1>3, <1>6, <1>11, <1>12, <1>13, <1>14, <1>15 DEF TreeOK, IsTree
<1> QED BY <1>7, <1>8, <1>16, <1>17


(* ---- inode_trunc ---- *)

\* Where the bytes past size s are: past its pages, or in the tail of its last one.
LEMMA PastPlace ==
  ASSUME NEW s \in Nat, NEW j \in Nat, NEW b \in 0..Page - 1
  PROVE  j * Page + b >= s <=> j >= Pages(s) \/ (j = s \div Page /\ s % Page # 0 /\ b >= s % Page)
<1> DEFINE q == s \div Page
           r == s % Page
           m == Pages(s)
           w == s + Page - 1
<1>1. Page \in Nat /\ Page > 0
  BY Sizes
<1>2. q \in Nat /\ r \in Nat /\ r < Page /\ s = q * Page + r /\ q * Page \in Nat
  BY <1>1, Division, Product
<1>3. m \in Nat /\ s <= m * Page /\ m * Page \in Nat
  BY PagesOf
<1>4. m * Page < s + Page
  <2>1. AlignUp(s, Page) \in Nat /\ AlignUp(s, Page) < s + Page /\ AlignUp(s, Page) % Page = 0
    BY <1>1, AlignedUp
  <2> DEFINE u == AlignUp(s, Page)
  <2>2. m = u \div Page
    BY DEF Pages
  <2>5. u \in Nat
    BY <2>1
  <2> HIDE DEF u, m
  <2>3. u = (u \div Page) * Page + (u % Page)
    BY <2>5, <1>1, Division
  <2> QED BY <2>1, <2>2, <2>3, <1>1, <1>3 DEF u
<1> HIDE DEF q, r, m
<1>5. j * Page \in Nat /\ b \in Nat /\ b < Page
  BY <1>1, Product
<1>6. (j >= m => j * Page >= m * Page) /\ (j < m => j * Page + Page <= m * Page)
  <2>1. j >= m => j * Page >= m * Page
    BY <1>1, <1>3, Multiples
  <2>2. j < m => (j + 1) * Page <= m * Page
    BY <1>1, <1>3, Multiples
  <2>3. (j + 1) * Page = j * Page + Page
    BY <1>1
  <2> QED BY <2>1, <2>2, <2>3
<1>7. (j <= q => j * Page <= q * Page) /\ (q <= j => q * Page <= j * Page)
      /\ (j < q => j * Page + Page <= q * Page) /\ (q < j => q * Page + Page <= j * Page)
  <2>1. (j <= q => j * Page <= q * Page) /\ (q <= j => q * Page <= j * Page)
    BY <1>1, <1>2, Multiples
  <2>2. (j < q => (j + 1) * Page <= q * Page) /\ (q < j => (q + 1) * Page <= j * Page)
    BY <1>1, <1>2, Multiples
  <2>3. (j + 1) * Page = j * Page + Page /\ (q + 1) * Page = q * Page + Page
    BY <1>1, <1>2
  <2> QED BY <2>1, <2>2, <2>3
<1>8. j = q => j * Page = q * Page
  OBVIOUS
<1> DEFINE x == j * Page
           y == q * Page
           z == m * Page
<1> HIDE DEF x, y, z
<1>9. x \in Nat /\ y \in Nat /\ z \in Nat /\ s <= z /\ z < s + Page /\ s = y + r
      /\ (j >= m => x >= z) /\ (j < m => x + Page <= z)
      /\ (j < q => x + Page <= y) /\ (q < j => y + Page <= x) /\ (j = q => x = y)
  BY <1>2, <1>3, <1>4, <1>5, <1>6, <1>7, <1>8 DEF x, y, z
<1>10. x + b >= s => j >= m \/ (j = q /\ r # 0 /\ b >= r)
  <2> SUFFICES ASSUME x + b >= s, j < m PROVE j = q /\ r # 0 /\ b >= r
    BY <1>3
  <2>1. x < s
    BY <1>9, <1>1
  <2>2. ~ (j < q) /\ ~ (q < j)
    BY <2>1, <1>9, <1>1, <1>2, <1>5
  <2> QED BY <2>1, <2>2, <1>9, <1>1, <1>2, <1>5
<1>11. j >= m \/ (j = q /\ r # 0 /\ b >= r) => x + b >= s
  BY <1>9, <1>1, <1>2, <1>5
<1> QED BY <1>10, <1>11 DEF x, q, r, m

\* What is freed with a table takes what is under the table with it.
LEMMA FreedIs ==
  ASSUME NEW D, TreeOK(D), NEW keep \in Nat
  PROVE  /\ Entire(D, Freed(D, keep))
         /\ \A j \in 0..LastPage - 1 : <<0, j>> \in Freed(D, keep) <=> <<0, j>> \in Used(D) /\ j >= keep
         /\ \A key \in Freed(D, keep) : key[1] <= 2
         /\ keep = 0 => \A key \in Used(D) : key[1] <= 2 => key \in Freed(D, keep)
<1> DEFINE F == Freed(D, keep)
<1>1. \A key : key \in F <=> key \in Keys /\ key[1] <= 2 /\ D.slots[key] # 0 /\ key[2] * Span(key[1]) >= keep
  BY Zenon DEF Freed
<1> HIDE DEF F
<1>2. ASSUME NEW j \in Used(D), NEW k \in F, IsUnder(j, k) PROVE j \in F
  <2>1. j \in Keys /\ D.slots[j] # 0 /\ k \in Keys /\ k[1] <= 2 /\ k[2] * Span(k[1]) >= keep
    BY <1>1 DEF Used
  <2>2. j[1] \in 0..3 /\ j[2] \in Nat /\ k[1] \in 0..3 /\ k[2] \in Nat
    BY <2>1, KeysAre
  <2>3. j[1] + 1 = k[1] /\ k[2] = j[2] \div Fan
    BY <1>2, <2>1, <2>2 DEF IsUnder
  <2> DEFINE f == Fan
             a == Span(j[1])
             x == j[2]
             q == x \div f
             r == x % f
  <2>4. Span(k[1]) = f * a /\ a \in Nat /\ a > 0 /\ f \in Nat /\ f > 0
    <3>1. j[1] = 0 \/ j[1] = 1
      BY <2>1, <2>2, <2>3
    <3>2. CASE j[1] = 0
      <4>1. k[1] = 1
        BY <3>2, <2>3, <2>2
      <4> QED BY <4>1, <3>2, Spans
    <3>3. CASE j[1] = 1
      <4>1. k[1] = 2
        BY <3>3, <2>3, <2>2
      <4> QED BY <4>1, <3>3, Spans
    <3> QED BY <3>1, <3>2, <3>3
  <2>5. x \in Nat /\ k[2] = q
    BY <2>2, <2>3
  <2> HIDE DEF f, a, x
  <2>6. q \in Nat /\ r \in Nat /\ x = q * f + r
    BY <2>4, <2>5, Division
  <2> HIDE DEF q, r
  <2>7. q * (f * a) \in Nat /\ x * a \in Nat /\ x * a >= q * (f * a)
    <3>1. q * f \in Nat /\ q * f <= x
      BY <2>4, <2>6, Product
    <3> DEFINE y == q * f
    <3> HIDE DEF y
    <3>2. y * a <= x * a /\ y * a \in Nat /\ x * a \in Nat
      BY <3>1, <2>4, <2>5, Multiples, Product DEF y
    <3>3. y * a = q * (f * a)
      BY <2>4, <2>6 DEF y
    <3> QED BY <3>2, <3>3
  <2>8. k[2] * Span(k[1]) = q * (f * a)
    BY <2>4, <2>5
  <2>9. x * a >= keep
    <3> DEFINE u == q * (f * a)
               w == x * a
    <3>1. u \in Nat /\ w \in Nat /\ w >= u /\ u >= keep
      BY <2>1, <2>7, <2>8
    <3> HIDE DEF u, w
    <3>2. w >= keep
      BY <3>1
    <3> QED BY <3>2 DEF w
  <2>10. j[2] * Span(j[1]) >= keep
    BY <2>9 DEF x, a
  <2>11. j[1] <= 2
    BY <2>1, <2>2, <2>3
  <2> QED BY <2>1, <2>10, <2>11, <1>1
<1>3. F \subseteq Used(D)
  BY <1>1, UsedIs2
<1>4. ASSUME NEW j \in 0..LastPage - 1 PROVE <<0, j>> \in F <=> <<0, j>> \in Used(D) /\ j >= keep
  <2> DEFINE k == <<0, j>>
  <2>1. k \in Keys /\ k[1] = 0 /\ k[2] = j
    BY LeafKey
  <2>2. j * Span(0) = j
    BY Spans
  <2>3. k[2] * Span(k[1]) = j /\ k[1] <= 2
    BY <2>1, <2>2
  <2> HIDE DEF k
  <2>4. k \in F <=> k \in Used(D) /\ j >= keep
    BY <1>1, <2>1, <2>3, UsedIs2
  <2> QED BY <2>4 DEF k
<1>5. \A key \in F : key[1] <= 2
  BY <1>1
<1>6. ASSUME keep = 0, NEW key \in Used(D), key[1] <= 2 PROVE key \in F
  <2>1. key \in Keys /\ D.slots[key] # 0
    BY DEF Used
  <2>2. key[2] \in Nat /\ Span(key[1]) \in Nat
    BY <2>1, KeysAre, Spans
  <2>3. key[2] * Span(key[1]) \in Nat
    <3> DEFINE x == key[2]
               y == Span(key[1])
    <3> HIDE DEF x, y
    <3>1. x * y \in Nat
      BY <2>2, Product DEF x, y
    <3> QED BY <3>1 DEF x, y
  <2>4. key[2] * Span(key[1]) >= keep
    <3> DEFINE z == key[2] * Span(key[1])
    <3>1. z \in Nat
      BY <2>3
    <3> HIDE DEF z
    <3>2. z >= keep
      BY <3>1, <1>6
    <3> QED BY <3>2 DEF z
  <2> QED BY <2>1, <2>4, <1>6, <1>1
<1>7. Entire(D, F)
  BY <1>2, <1>3 DEF Entire
<1> QED BY <1>4, <1>5, <1>6, <1>7 DEF F


Cleared(page, from) == [b \in 0..Page - 1 |-> IF b >= from THEN 0 ELSE page[b]]

Tailed(D, E, s) ==
  /\ TreeOK(E) /\ E.slots = D.slots
  /\ \A j \in 0..LastPage - 1, b \in 0..Page - 1 :
       ByteIn(E, j, b) = IF j = s \div Page /\ s % Page # 0 /\ b >= s % Page THEN 0 ELSE ByteIn(D, j, b)

LEMMA TailIs ==
  ASSUME NEW D, TreeOK(D), NEW s \in Nat, s < Limit
  PROVE  Tailed(D, TailZeroed(D, s), s)
<1> DEFINE idx == s \div Page
           from == s % Page
           p == D.slots[<<0, idx>>]
           E == TailZeroed(D, s)
<1>1. idx \in 0..LastPage - 1
  BY PageAt
<1>2. E = IF from = 0 \/ p = 0 THEN D ELSE PageSet(D, p, Cleared(D.mem[p], from))
  BY DEF TailZeroed, PageSet, Cleared
<1> HIDE DEF E, idx, from
<1>3. CASE from = 0
  <2>1. E = D
    BY <1>2, <1>3
  <2>2. Tailed(D, E, s)
    BY <2>1, <1>3 DEF Tailed, from
  <2> QED BY <2>2 DEF E
<1>4. CASE p = 0
  <2>1. E = D
    BY <1>2, <1>4
  <2>2. \A b \in 0..Page - 1 : ByteIn(D, idx, b) = 0
    BY <1>4 DEF ByteIn, TreeOK, MemTyped
  <2>3. Tailed(D, E, s)
    BY <2>1, <2>2 DEF Tailed, idx
  <2> QED BY <2>3 DEF E
<1>5. CASE from # 0 /\ p # 0
  <2> DEFINE g == D.mem[p]
             f == Cleared(g, from)
  <2>1. <<0, idx>> \in Used(D)
    BY <1>1, <1>5, LeafKey DEF Used
  <2>2. p \in DOMAIN D.mem
    <3>1. <<0, idx>>[1] = 0
      OBVIOUS
    <3> QED BY <3>1, <2>1 DEF TreeOK, Leafed
  <2>3. g \in [0..Page - 1 -> Bytes]
    BY <2>2 DEF TreeOK, MemTyped
  <2>4. f \in [0..Page - 1 -> Bytes] /\ \A b \in 0..Page - 1 : f[b] = IF b >= from THEN 0 ELSE g[b]
    <3> HIDE DEF g
    <3>1. 0 \in Bytes
      BY DiskAssumption
    <3> QED BY <2>3, <3>1 DEF Cleared
  <2>5. E = PageSet(D, D.slots[<<0, idx>>], f)
    BY <1>2, <1>5
  <2>6. \A b \in 0..Page - 1 : ByteIn(D, idx, b) = g[b]
    BY <2>2 DEF ByteIn
  <2>7. TreeOK(E) /\ E.slots = D.slots
    <3> HIDE DEF f
    <3> QED BY <2>2, <2>4, <2>5, PageSetIs
  <2> HIDE DEF f, g, p
  <2>8. BytesSet(D, E, idx, f)
    <3>1. BytesSet(D, PageSet(D, D.slots[<<0, idx>>], f), idx, f)
      BY <1>1, <2>1, <2>4, PageSetBytes
    <3> QED BY <3>1, <2>5
  <2>9. ASSUME NEW j \in 0..LastPage - 1, NEW b \in 0..Page - 1
        PROVE  ByteIn(E, j, b) = IF j = idx /\ from # 0 /\ b >= from THEN 0 ELSE ByteIn(D, j, b)
    <3>1. (j = idx => ByteIn(E, j, b) = f[b]) /\ (j # idx => ByteIn(E, j, b) = ByteIn(D, j, b))
      BY <2>8 DEF BytesSet
    <3> QED BY <3>1, <2>4, <2>6, <1>5
  <2>10. Tailed(D, E, s)
    BY <2>7, <2>9 DEF Tailed, idx, from
  <2> QED BY <2>10 DEF E
<1> QED BY <1>3, <1>4, <1>5

\* The root's slot empty, the tree is.
LEMMA NoRoot ==
  ASSUME NEW D, TreeOK(D), D.slots[<<3, 0>>] = 0, NEW j \in 0..LastPage - 1, NEW b
  PROVE  ByteIn(D, j, b) = 0
<1> DEFINE K(lvl) == KeyAt(lvl, j)
<1>1. K(0) \in Keys /\ K(1) \in Keys /\ K(2) \in Keys /\ K(3) \in Keys
      /\ K(0)[1] = 0 /\ K(1)[1] = 1 /\ K(2)[1] = 2 /\ K(3)[1] = 3
      /\ K(0) = <<0, j>> /\ K(3) = <<3, 0>>
      /\ K(0)[2] \div Fan = K(1)[2] /\ K(1)[2] \div Fan = K(2)[2]
  <2>1. 0 \in 0..3 /\ 1 \in 0..3 /\ 2 \in 0..3 /\ 3 \in 0..3
    OBVIOUS
  <2> QED BY <2>1, KeyAtIs
<1> HIDE DEF K
<1>2. IsUnder(K(0), K(1)) /\ IsUnder(K(1), K(2)) /\ IsUnder(K(2), K(3))
  BY <1>1 DEF IsUnder
<1>3. Rooted(D)
  BY DEF TreeOK
<1>4. K(3) \notin Used(D)
  BY <1>1 DEF Used
<1>5. K(2) \notin Used(D)
  BY <1>1, <1>2, <1>3, <1>4 DEF Rooted
<1>6. K(1) \notin Used(D)
  BY <1>1, <1>2, <1>3, <1>5 DEF Rooted
<1>7. K(0) \notin Used(D)
  BY <1>1, <1>2, <1>3, <1>6 DEF Rooted
<1>8. D.slots[<<0, j>>] = 0
  BY <1>1, <1>7 DEF Used
<1> QED BY <1>8 DEF ByteIn, TreeOK, MemTyped

\* What is left after a truncation to s: the bytes before s.
CutAt(D, E, s) ==
  /\ TreeOK(E)
  /\ \A j \in 0..LastPage - 1, b \in 0..Page - 1 :
       ByteIn(E, j, b) = IF j * Page + b >= s THEN 0 ELSE ByteIn(D, j, b)

LEMMA FreedTail ==
  ASSUME NEW D, TreeOK(D), NEW s \in Nat, s < Limit,
         NEW E, E = TailZeroed(FreeRadix(D, Pages(s)), s)
  PROVE  CutAt(D, E, s) /\ Used(E) = Used(D) \ Freed(D, Pages(s))
<1> DEFINE keep == Pages(s)
           F == Freed(D, keep)
           G == FreeRadix(D, keep)
<1>1. keep \in Nat
  BY PagesOf
<1>2. G = Released(D, F)
  BY DEF FreeRadix
<1> HIDE DEF G, keep
<1>3. Entire(D, F) /\ \A j \in 0..LastPage - 1 : <<0, j>> \in F <=> <<0, j>> \in Used(D) /\ j >= keep
  BY <1>1, FreedIs
<1> HIDE DEF F
<1>4. TreeOK(G) /\ Used(G) = Used(D) \ F
      /\ \A j \in 0..LastPage - 1, b \in 0..Page - 1 : ByteIn(G, j, b) = IF <<0, j>> \in F THEN 0 ELSE ByteIn(D, j, b)
  BY <1>2, <1>3, ReleasedIs
<1>5. E = TailZeroed(G, s)
  BY DEF G, keep
<1>6. Tailed(G, E, s)
  BY <1>4, <1>5, TailIs
<1>7. Used(E) = Used(G)
  BY <1>6 DEF Tailed, Used
<1>8. ASSUME NEW j \in 0..LastPage - 1, NEW b \in 0..Page - 1
      PROVE  ByteIn(E, j, b) = IF j * Page + b >= s THEN 0 ELSE ByteIn(D, j, b)
  <2> DEFINE late == j * Page + b >= s
             tail == j = s \div Page /\ s % Page # 0 /\ b >= s % Page
  <2>1. late <=> j >= keep \/ tail
    <3>1. j \in Nat
      OBVIOUS
    <3> QED BY <3>1, PastPlace DEF keep
  <2>2. ByteIn(E, j, b) = IF tail THEN 0 ELSE ByteIn(G, j, b)
    BY <1>6 DEF Tailed
  <2>3. ByteIn(G, j, b) = IF <<0, j>> \in F THEN 0 ELSE ByteIn(D, j, b)
    BY <1>4
  <2>4. <<0, j>> \notin Used(D) => ByteIn(D, j, b) = 0
    <3>1. <<0, j>> \notin Used(D) => D.slots[<<0, j>>] = 0
      BY LeafKey DEF Used
    <3> QED BY <3>1 DEF ByteIn, TreeOK, MemTyped
  <2>5. <<0, j>> \in F <=> <<0, j>> \in Used(D) /\ j >= keep
    BY <1>3
  <2> HIDE DEF late, tail
  <2>6. ByteIn(E, j, b) = IF late THEN 0 ELSE ByteIn(D, j, b)
    BY <2>1, <2>2, <2>3, <2>4, <2>5
  <2> QED BY <2>6 DEF late
<1>9. TreeOK(E)
  BY <1>6 DEF Tailed
<1>10. CutAt(D, E, s)
  BY <1>8, <1>9 DEF CutAt
<1> QED BY <1>4, <1>7, <1>10 DEF F, keep

LEMMA TruncIs ==
  ASSUME NEW D, TreeOK(D), NEW s \in Nat, s < Limit, file.size \in Nat, s < file.size
  PROVE  CutAt(D, InodeTrunc(D, s), s)
<1> DEFINE E == TailZeroed(FreeRadix(D, Pages(s)), s)
           root == <<3, 0>>
           Z == InodeTrunc(D, s)
<1>1. Z = IF s >= file.size \/ D.slots[root] = 0 THEN D ELSE IF s = 0 THEN Released(E, {root}) ELSE E
  BY DEF InodeTrunc
<1> HIDE DEF Z
<1>2. CutAt(D, E, s) /\ Used(E) = Used(D) \ Freed(D, Pages(s))
  BY FreedTail
<1> HIDE DEF E
<1>3. root \in Keys
  <2>1. 3 \in 0..3 /\ 0 \in 0..Span(3 - 3) - 1
    <3>1. 3 - 3 = 0
      OBVIOUS
    <3> QED BY <3>1, Spans
  <2> QED BY <2>1, KeysAre
<1>4. CASE s >= file.size \/ D.slots[root] = 0
  <2>1. Z = D
    BY <1>1, <1>4
  <2>2. CASE D.slots[root] = 0
    <3>1. \A j \in 0..LastPage - 1, b \in 0..Page - 1 : ByteIn(D, j, b) = 0
      BY <2>2, NoRoot
    <3>2. CutAt(D, Z, s)
      BY <2>1, <3>1 DEF CutAt
    <3> QED BY <3>2 DEF Z
  <2>3. CASE s >= file.size
    BY <2>3
  <2> QED BY <1>4, <2>2, <2>3
<1>5. CASE ~ (s >= file.size \/ D.slots[root] = 0) /\ s # 0
  <2>1. Z = E
    BY <1>1, <1>5
  <2> QED BY <2>1, <1>2 DEF Z
<1>6. CASE ~ (s >= file.size \/ D.slots[root] = 0) /\ s = 0
  <2>1. Z = Released(E, {root})
    BY <1>1, <1>6
  <2>2. TreeOK(E) /\ Pages(s) = 0
    <3>1. Pages(s) = 0
      <4>1. Page \in Nat /\ Page > 0
        BY Sizes
      <4>2. Pages(s) \in Nat /\ Pages(s) * Page = 0
        <5>1. s % Page = 0
          <6>1. (0 * Page + 0) % Page = 0
            BY <4>1, Quotient
          <6>2. 0 * Page + 0 = 0
            BY <4>1
          <6> QED BY <6>1, <6>2, <1>6
        <5> QED BY <5>1, <1>6, PagesOf
      <4> DEFINE m == Pages(s)
      <4> HIDE DEF m
      <4>3. ~ (1 <= m)
        <5> SUFFICES ASSUME 1 <= m PROVE FALSE
          OBVIOUS
        <5>1. 1 * Page <= m * Page /\ 1 * Page = Page
          BY <4>1, <4>2, Multiples DEF m
        <5> QED BY <5>1, <4>1, <4>2 DEF m
      <4>4. m = 0
        BY <4>2, <4>3 DEF m
      <4> QED BY <4>4 DEF m
    <3> QED BY <3>1, <1>2 DEF CutAt
  <2>3. /\ \A key \in Freed(D, 0) : key[1] <= 2
        /\ \A key \in Used(D) : key[1] <= 2 => key \in Freed(D, 0)
    BY FreedIs
  <2>4. \A key \in Used(E) : ~ (key[1] <= 2)
    BY <1>2, <2>2, <2>3
  <2>5. root \in Used(E)
    <3>1. root \in Used(D)
      BY <1>3, <1>6 DEF Used
    <3>2. root \notin Freed(D, 0)
      BY <2>3
    <3> QED BY <3>1, <3>2, <1>2, <2>2
  <2>6. Entire(E, {root})
    <3> SUFFICES ASSUME NEW j \in Used(E), IsUnder(j, root) PROVE FALSE
      BY <2>5 DEF Entire
    <3>1. j \in Keys
      BY DEF Used
    <3>2. j[1] + 1 = 3 /\ j[1] \in 0..3
      BY <3>1, KeysAre DEF IsUnder
    <3> QED BY <3>2, <2>4
  <2> HIDE DEF root
  <2>7. TreeOK(Z) /\ \A j \in 0..LastPage - 1, b \in 0..Page - 1 :
          ByteIn(Z, j, b) = IF <<0, j>> \in {root} THEN 0 ELSE ByteIn(E, j, b)
    <3> DEFINE R == {root}
    <3>1. Z = Released(E, R) /\ Entire(E, R)
      BY <2>1, <2>6
    <3> HIDE DEF R
    <3>2. TreeOK(Z) /\ \A j \in 0..LastPage - 1, b \in 0..Page - 1 :
            ByteIn(Z, j, b) = IF <<0, j>> \in R THEN 0 ELSE ByteIn(E, j, b)
      BY <3>1, <2>2, ReleasedIs
    <3> QED BY <3>2 DEF R
  <2>8. CutAt(D, Z, s)
    <3>1. \A j : <<0, j>> # root
      BY DEF root
    <3> QED BY <2>7, <3>1, <1>2 DEF CutAt
  <2> QED BY <2>8 DEF Z
<1> QED BY <1>4, <1>5, <1>6


(* ---- the file ---- *)

\* What is past the file's size reads as zero, whatever pages are there.
FileOK(D, s) ==
  /\ TreeOK(D) /\ s \in Offsets
  /\ \A j \in 0..LastPage - 1, b \in 0..Page - 1 : j * Page + b >= s => ByteIn(D, j, b) = 0

BytesOf(D, s) == [o \in Offsets |-> IF o < s THEN ByteIn(D, o \div Page, o % Page) ELSE 0]

Bound(s, off, n) == IF off + n > s THEN off + n ELSE s

LEMMA OffsetsAre ==
  /\ Limit \in Nat /\ Offsets \subseteq Nat
  /\ \A o : o \in Offsets <=> o \in Nat /\ o <= Limit
<1> DEFINE c == Fan * Fan * Fan
           d == c * Page
<1>1. d \in Nat
  <2>1. c \in Nat /\ Page \in Nat
    BY Spans, Sizes
  <2> HIDE DEF c
  <2> QED BY <2>1, Product
<1>2. Limit = d /\ Offsets = 0..d
  BY DEF Limit, Offsets
<1> HIDE DEF d
<1> QED BY <1>1, <1>2

LEMMA FileWritten ==
  ASSUME NEW D, NEW s, FileOK(D, s), NEW off \in Nat, NEW n \in Nat, NEW v \in Bytes, off + n \in Offsets,
         NEW E, WroteAll(D, E, off, n, v), \A idx \in Idxs(off, n) : <<0, idx>> \in Used(E),
         NEW z, z = Bound(s, off, n)
  PROVE  /\ FileOK(E, z)
         /\ BytesOf(E, z) = [o \in Offsets |-> IF o \in off..(off + n - 1) THEN v ELSE BytesOf(D, s)[o]]
<1>1. s \in Nat /\ s <= Limit /\ Limit \in Nat /\ off + n <= Limit /\ Page \in Nat
  BY OffsetsAre, Sizes DEF FileOK
<1>2. z \in Nat /\ z <= Limit /\ s <= z /\ off + n <= z /\ (z = s \/ z = off + n)
  BY <1>1 DEF Bound
<1>3. TreeOK(E) /\ \A j \in 0..LastPage - 1, b \in 0..Page - 1 :
        ByteIn(E, j, b) = IF Covered(j, b, off, n) THEN v ELSE ByteIn(D, j, b)
  BY DEF WroteAll
<1>4. ASSUME NEW j \in 0..LastPage - 1, NEW b \in 0..Page - 1, j * Page + b >= z PROVE ByteIn(E, j, b) = 0
  <2>1. j * Page + b \in Nat
    BY <1>1, Product
  <2>2. ~ Covered(j, b, off, n) /\ j * Page + b >= s
    BY <2>1, <1>1, <1>2, <1>4 DEF Covered
  <2> QED BY <2>2, <1>3 DEF FileOK
<1>5. FileOK(E, z)
  <2>1. z \in Offsets
    BY <1>2, OffsetsAre
  <2> QED BY <2>1, <1>3, <1>4 DEF FileOK
<1>6. ASSUME NEW o \in Offsets
      PROVE  (IF o < z THEN ByteIn(E, o \div Page, o % Page) ELSE 0)
               = IF o \in off..(off + n - 1) THEN v ELSE IF o < s THEN ByteIn(D, o \div Page, o % Page) ELSE 0
  <2>1. o \in Nat /\ o <= Limit
    BY OffsetsAre
  <2>2. CASE o < z
    <3>1. o < Limit
      BY <2>1, <2>2, <1>1, <1>2
    <3> DEFINE j == o \div Page
               b == o % Page
    <3>2. j \in 0..LastPage - 1 /\ b \in 0..Page - 1 /\ j * Page + b = o
      BY <2>1, <3>1, PageAt
    <3>3. Covered(j, b, off, n) <=> o \in off..(off + n - 1)
      BY <2>1, <3>1, CoveredIs
    <3> HIDE DEF j, b
    <3>4. ByteIn(E, j, b) = IF o \in off..(off + n - 1) THEN v ELSE ByteIn(D, j, b)
      BY <3>2, <3>3, <1>3
    <3>5. o >= s => ByteIn(D, j, b) = 0
      BY <3>2 DEF FileOK
    <3>6. (IF o < z THEN ByteIn(E, j, b) ELSE 0)
            = IF o \in off..(off + n - 1) THEN v ELSE IF o < s THEN ByteIn(D, j, b) ELSE 0
      <4>1. o < s \/ o >= s
        BY <2>1, <1>1
      <4> QED BY <3>4, <3>5, <4>1, <2>2
    <3> QED BY <3>6 DEF j, b
  <2>3. CASE ~ (o < z)
    <3>1. o \notin off..(off + n - 1) /\ ~ (o < s)
      BY <2>1, <2>3, <1>1, <1>2
    <3> QED BY <3>1, <2>3
  <2> QED BY <2>2, <2>3
<1>7. BytesOf(E, z) = [o \in Offsets |-> IF o \in off..(off + n - 1) THEN v ELSE BytesOf(D, s)[o]]
  BY <1>6 DEF BytesOf
<1> QED BY <1>5, <1>7

LEMMA FileCut ==
  ASSUME NEW D, NEW s, FileOK(D, s), NEW z \in Offsets,
         NEW E, IF z >= s THEN E = D ELSE CutAt(D, E, z)
  PROVE  /\ FileOK(E, z)
         /\ BytesOf(E, z) = [o \in Offsets |-> IF o < z THEN BytesOf(D, s)[o] ELSE 0]
<1>1. s \in Nat /\ s <= Limit /\ Limit \in Nat /\ z \in Nat /\ z <= Limit /\ Page \in Nat
  BY OffsetsAre, Sizes DEF FileOK
<1>2. CASE z >= s
  <2>1. E = D
    BY <1>2
  <2>2. FileOK(E, z)
    <3> SUFFICES ASSUME NEW j \in 0..LastPage - 1, NEW b \in 0..Page - 1, j * Page + b >= z PROVE ByteIn(D, j, b) = 0
      BY <2>1 DEF FileOK
    <3>1. j * Page + b \in Nat
      BY <1>1, Product
    <3>2. j * Page + b >= s
      BY <3>1, <1>1, <1>2
    <3> QED BY <3>2 DEF FileOK
  <2>3. ASSUME NEW o \in Offsets
        PROVE  (IF o < z THEN ByteIn(D, o \div Page, o % Page) ELSE 0)
                 = IF o < z THEN (IF o < s THEN ByteIn(D, o \div Page, o % Page) ELSE 0) ELSE 0
    <3> SUFFICES ASSUME o < z, ~ (o < s) PROVE ByteIn(D, o \div Page, o % Page) = 0
      OBVIOUS
    <3>1. o \in Nat /\ o < Limit /\ o >= s
      BY <1>1, OffsetsAre
    <3> DEFINE j == o \div Page
               b == o % Page
    <3>2. j \in 0..LastPage - 1 /\ b \in 0..Page - 1 /\ j * Page + b = o
      BY <3>1, PageAt
    <3> HIDE DEF j, b
    <3>3. ByteIn(D, j, b) = 0
      BY <3>1, <3>2 DEF FileOK
    <3> QED BY <3>3 DEF j, b
  <2>4. BytesOf(D, z) = [o \in Offsets |-> IF o < z THEN BytesOf(D, s)[o] ELSE 0]
    BY <2>3 DEF BytesOf
  <2> QED BY <2>1, <2>2, <2>4
<1>3. CASE z < s
  <2>1. CutAt(D, E, z)
    BY <1>1, <1>3
  <2>2. FileOK(E, z)
    BY <2>1 DEF CutAt, FileOK
  <2>3. ASSUME NEW o \in Offsets
        PROVE  (IF o < z THEN ByteIn(E, o \div Page, o % Page) ELSE 0)
                 = IF o < z THEN (IF o < s THEN ByteIn(D, o \div Page, o % Page) ELSE 0) ELSE 0
    <3> SUFFICES ASSUME o < z PROVE o < s /\ ByteIn(E, o \div Page, o % Page) = ByteIn(D, o \div Page, o % Page)
      OBVIOUS
    <3>1. o \in Nat /\ o < Limit /\ o < s /\ ~ (o >= z)
      BY <1>1, <1>3, OffsetsAre
    <3> DEFINE j == o \div Page
               b == o % Page
    <3>2. j \in 0..LastPage - 1 /\ b \in 0..Page - 1 /\ j * Page + b = o
      BY <3>1, PageAt
    <3> HIDE DEF j, b
    <3>3. ByteIn(E, j, b) = ByteIn(D, j, b)
      BY <2>1, <3>1, <3>2 DEF CutAt
    <3> QED BY <3>1, <3>3 DEF j, b
  <2>4. BytesOf(E, z) = [o \in Offsets |-> IF o < z THEN BytesOf(D, s)[o] ELSE 0]
    BY <2>3 DEF BytesOf
  <2> QED BY <2>2, <2>4
<1> QED BY <1>1, <1>2, <1>3

\* Memory that is not the file's changes hands.
SamePages(A, Z) == \A b : b.how = "page" => (b \in Z.owned <=> b \in A.owned)

LEMMA RamChanged ==
  ASSUME NEW D, NEW s, FileOK(D, s), NEW A, A = D.ram, NEW r, RamOK(r), SamePages(A, r),
         NEW E, E = [ram |-> r, slots |-> D.slots, mem |-> D.mem]
  PROVE  FileOK(E, s) /\ BytesOf(E, s) = BytesOf(D, s)
<1> DEFINE w == D.slots
           m == D.mem
<1>1. E = [ram |-> r, slots |-> w, mem |-> m]
  OBVIOUS
<1> HIDE DEF w, m
<1>2. E.ram = r /\ E.slots = w /\ E.mem = m
  BY <1>1
<1>3. E.ram = r /\ E.slots = D.slots /\ E.mem = D.mem
  BY <1>2 DEF w, m
<1>4. IsTree(E)
  BY <1>1, <1>2 DEF IsTree
<1>5. TreeOK(D)
  BY DEF FileOK
<1>6. Used(E) = Used(D)
  BY <1>3 DEF Used
<1>7. Held(E)
  <2>1. \A p : PageBlock(p).how = "page"
    BY DEF PageBlock
  <2>2. Held(D)
    BY <1>5 DEF TreeOK
  <2>3. ASSUME NEW key \in Used(E) PROVE PageBlock(E.slots[key]) \in E.ram.owned
    BY <2>1, <2>2, <1>3, <1>6 DEF Held, SamePages
  <2>4. ASSUME NEW b \in E.ram.owned, b.how = "page" PROVE \E key \in Used(E) : b.at = E.slots[key]
    <3>1. b \in D.ram.owned
      BY <2>4, <1>3 DEF SamePages
    <3> QED BY <3>1, <2>4, <2>2, <1>3, <1>6 DEF Held
  <2> QED BY <2>3, <2>4 DEF Held
<1>8. TreeOK(E)
  BY <1>3, <1>4, <1>5, <1>6, <1>7 DEF TreeOK, OneSlot, Rooted, Leafed
<1>9. \A j, b : ByteIn(E, j, b) = ByteIn(D, j, b)
  BY <1>3 DEF ByteIn
<1>10. FileOK(E, s)
  BY <1>8, <1>9 DEF FileOK
<1> QED BY <1>9, <1>10 DEF BytesOf


(* ---- the steps ---- *)

FileBytes == BytesOf(Tree, file.size)

DataInv ==
  /\ machine \in Machines
  /\ file = [size |-> file.size, slots |-> file.slots]
  /\ FileOK(Tree, file.size)
  /\ pos \in [Opens -> Offsets]

LEMMA TreeFields == Tree.ram = ram /\ Tree.slots = file.slots /\ Tree.mem = mem
BY DEF Tree

LEMMA MachineIs ==
  ASSUME machine \in Machines
  PROVE  /\ MapOK(machine.e820)
         /\ machine.totals \subseteq Nat /\ machine.counts \subseteq Nat /\ machine.vals \subseteq Bytes
         /\ machine.opens \subseteq Opens /\ machine.sizes \subseteq Offsets
         /\ machine.io \subseteq {"read", "write"}
         /\ \A w \in machine.writes : w[1] \in Nat /\ w[2] \in Nat
         /\ \A b \in machine.boots : /\ b.size \in Nat /\ b.initrd \in Nat
                                    /\ b.align \in Nat /\ b.align > 0 /\ b.align % Page = 0
         /\ machine.counts \subseteq Counts /\ \A w \in machine.writes : w[2] \in Counts
<1>1. \A n : n \in Counts <=> \E m \in Machines : n \in m.counts \cup {w[2] : w \in m.writes}
  BY Zenon DEF Counts
<1>2. machine.counts \subseteq Counts /\ \A w \in machine.writes : w[2] \in Counts
  BY <1>1
<1> DEFINE m == machine
<1>3. /\ MapOK(m.e820)
      /\ m.totals \subseteq Nat \ {0} /\ m.counts \subseteq Nat /\ m.vals \subseteq Bytes
      /\ m.opens \subseteq {"plain", "append"} /\ m.sizes \subseteq Offsets /\ m.room \in Nat
      /\ m.io \subseteq {"read", "write"}
      /\ \A w \in m.writes : w[1] \in Nat /\ w[2] \in Nat
      /\ \A b \in m.boots : /\ b.size \in Nat /\ b.initrd \in Nat
                           /\ b.align \in Nat \ {0} /\ b.align % Page = 0
  BY DataAssumption, Zenon
<1>4. \A x : x \in Nat \ {0} => x \in Nat /\ x > 0
  OBVIOUS
<1>5. m.opens \subseteq Opens
  BY <1>3 DEF Opens
<1>6. m.totals \subseteq Nat
  BY <1>3
<1>7. \A b \in m.boots : /\ b.size \in Nat /\ b.initrd \in Nat
                        /\ b.align \in Nat /\ b.align > 0 /\ b.align % Page = 0
  BY <1>3, <1>4, Zenon
<1> QED BY <1>2, <1>3, <1>5, <1>6, <1>7, Zenon

\* The state after inode_write or inode_trunc.
LEMMA BecomesIs ==
  ASSUME NEW E, IsTree(E), NEW z, Becomes(E, z)
  PROVE  Tree' = E /\ file'.size = z /\ file' = [size |-> file'.size, slots |-> file'.slots]
<1>1. E = [ram |-> E.ram, slots |-> E.slots, mem |-> E.mem]
  BY DEF IsTree
<1>2. ram' = E.ram /\ mem' = E.mem /\ file' = [size |-> z, slots |-> E.slots]
  BY DEF Becomes
<1>3. file'.size = z /\ file'.slots = E.slots
  BY <1>2
<1>4. Tree' = [ram |-> ram', slots |-> file'.slots, mem |-> mem']
  BY DEF Tree
<1> QED BY <1>1, <1>2, <1>3, <1>4

FileIs(z, bytes) ==
  /\ file' = [size |-> file'.size, slots |-> file'.slots]
  /\ FileOK(Tree, file.size)'
  /\ file'.size = z /\ FileBytes' = bytes

LEMMA WroteInv ==
  ASSUME DataInv, NEW off \in Nat, NEW n \in Nat, NEW v \in Bytes, Wrote(off, n, v)
  PROVE  /\ off + n \in Offsets
         /\ FileIs(Bound(file.size, off, n), [o \in Offsets |-> IF o \in off..(off + n - 1) THEN v ELSE FileBytes[o]])
<1> DEFINE E == InodeWrite(Tree, off, n, v)
           s == file.size
           z == Bound(s, off, n)
           T == Tree
<1>1. off + n \in Offsets /\ (\A idx \in Idxs(off, n) : E.slots[<<0, idx>>] # 0) /\ Becomes(E, SizeAfter(off, n))
  BY DEF Wrote
<1>2. FileOK(T, s) /\ TreeOK(T)
  BY DEF DataInv, FileOK
<1>3. off + n <= Limit
  BY <1>1, OffsetsAre
<1>4. WroteAll(T, E, off, n, v)
  <2> HIDE DEF T
  <2>1. TreeOK(T)
    BY <1>2
  <2>2. WroteAll(T, InodeWrite(T, off, n, v), off, n, v)
    BY <2>1, <1>3, WriteIs
  <2> QED BY <2>2 DEF T
<1>5. SizeAfter(off, n) = z
  <2>1. s \in Nat
    BY <1>2, OffsetsAre DEF FileOK
  <2> QED BY <2>1 DEF SizeAfter, Bound, Largest
<1> HIDE DEF E, z, T
<1>6. TreeOK(E) /\ IsTree(E) /\ E.slots \in [Keys -> Nat]
  BY <1>4 DEF WroteAll, TreeOK
<1>7. \A idx \in Idxs(off, n) : <<0, idx>> \in Used(E)
  <2> SUFFICES ASSUME NEW idx \in Idxs(off, n) PROVE <<0, idx>> \in Used(E)
    OBVIOUS
  <2>1. idx \in 0..LastPage - 1
    <3>1. n # 0 /\ idx \in (off \div Page)..((off + n - 1) \div Page)
      BY DEF Idxs
    <3> DEFINE y == off + n - 1
    <3>2. y \in Nat /\ y < Limit
      BY <3>1, <1>3, OffsetsAre
    <3> HIDE DEF y
    <3>3. y \div Page \in 0..LastPage - 1
      BY <3>2, PageAt
    <3>4. off \div Page \in Nat
      BY Sizes, Division
    <3> DEFINE p == off \div Page
               q == y \div Page
    <3>5. idx \in p..q
      BY <3>1 DEF y
    <3>6. p \in Nat /\ q \in 0..LastPage - 1 /\ LastPage \in Nat
      BY <3>3, <3>4, Spans DEF LastPage
    <3> HIDE DEF p, q
    <3> QED BY <3>5, <3>6
  <2> QED BY <2>1, <1>1, LeafKey DEF Used
<1>8. FileOK(E, z)
      /\ BytesOf(E, z) = [o \in Offsets |-> IF o \in off..(off + n - 1) THEN v ELSE BytesOf(T, s)[o]]
  <2> HIDE DEF s
  <2> QED BY <1>1, <1>2, <1>4, <1>7, FileWritten DEF z
<1>9. Tree' = E /\ file'.size = z /\ file' = [size |-> file'.size, slots |-> file'.slots]
  BY <1>1, <1>5, <1>6, BecomesIs
<1>10. FileOK(Tree, file.size)'
  BY <1>8, <1>9
<1>11. FileBytes' = BytesOf(E, z) /\ FileBytes = BytesOf(T, s)
  BY <1>9 DEF FileBytes, T
<1> QED BY <1>1, <1>8, <1>9, <1>10, <1>11 DEF FileIs, z

LEMMA TruncateInv ==
  ASSUME DataInv, NEW z \in Offsets, Becomes(InodeTrunc(Tree, z), z)
  PROVE  FileIs(z, [o \in Offsets |-> IF o < z THEN FileBytes[o] ELSE 0])
<1> DEFINE E == InodeTrunc(Tree, z)
           s == file.size
           T == Tree
<1>1. FileOK(T, s) /\ TreeOK(T)
  BY DEF DataInv, FileOK
<1>2. z \in Nat /\ z <= Limit /\ s \in Nat /\ s <= Limit /\ Limit \in Nat
  BY <1>1, OffsetsAre DEF FileOK
<1>3. z >= s => E = T
  BY DEF InodeTrunc
<1>4. z < s => CutAt(T, E, z)
  <2> SUFFICES ASSUME z < s PROVE CutAt(T, InodeTrunc(T, z), z)
    OBVIOUS
  <2>1. z < Limit /\ file.size \in Nat /\ z < file.size
    BY <1>2
  <2> HIDE DEF T
  <2> QED BY <1>1, <1>2, <2>1, TruncIs
<1> HIDE DEF E, T
<1>5. IF z >= s THEN E = T ELSE CutAt(T, E, z)
  BY <1>2, <1>3, <1>4
<1>6. FileOK(E, z) /\ BytesOf(E, z) = [o \in Offsets |-> IF o < z THEN BytesOf(T, s)[o] ELSE 0]
  <2> HIDE DEF s
  <2> QED BY <1>1, <1>5, FileCut
<1>7. IsTree(E)
  BY <1>6 DEF FileOK, TreeOK
<1>8. Becomes(E, z)
  BY DEF E
<1>9. Tree' = E /\ file'.size = z /\ file' = [size |-> file'.size, slots |-> file'.slots]
  BY <1>7, <1>8, BecomesIs
<1>10. FileOK(Tree, file.size)'
  BY <1>6, <1>9
<1>11. FileBytes' = BytesOf(E, z) /\ FileBytes = BytesOf(T, s)
  BY <1>9 DEF FileBytes, T
<1> QED BY <1>6, <1>9, <1>10, <1>11 DEF FileIs


HeapIs ==
  /\ RamOK(ram') /\ SamePages(ram, ram')
  /\ UNCHANGED <<machine, file, mem, pos>>

LEMMA HeapInv ==
  ASSUME DataInv, HeapIs
  PROVE  DataInv' /\ FileBytes' = FileBytes
<1> DEFINE s == file.size
           T == Tree
           E == [ram |-> ram', slots |-> T.slots, mem |-> T.mem]
           r == ram'
           A == ram
<1>1. FileOK(T, s)
  BY DEF DataInv
<1>2. Tree' = E /\ A = T.ram
  <2>1. Tree' = [ram |-> ram', slots |-> file.slots, mem |-> mem]
    BY DEF HeapIs, Tree
  <2> QED BY <2>1, TreeFields
<1>3. RamOK(r) /\ SamePages(A, r)
  BY DEF HeapIs
<1>4. E = [ram |-> r, slots |-> T.slots, mem |-> T.mem]
  OBVIOUS
<1> HIDE DEF s, T, E, r, A
<1>5. FileOK(E, s) /\ BytesOf(E, s) = BytesOf(T, s)
  BY <1>1, <1>2, <1>3, <1>4, RamChanged
<1>6. file'.size = s
  BY DEF HeapIs, s
<1>7. FileOK(Tree, file.size)'
  BY <1>2, <1>5, <1>6
<1>8. FileBytes' = FileBytes
  BY <1>2, <1>5, <1>6 DEF FileBytes, s, T
<1>9. DataInv'
  BY <1>7 DEF DataInv, HeapIs
<1> QED BY <1>8, <1>9

\* Taken for the kernel.
LEMMA TakeInv ==
  ASSUME NEW got, NEW len, NEW how \in {"chunk", "block", "table"}, Took(ram, got, len, how),
         Take(got, len, how)
  PROVE  HeapIs
<1> DEFINE b == [at |-> got.at, len |-> len, how |-> how]
<1>1. ram' = Own(got, len, how) /\ UNCHANGED <<machine, file, mem, pos>>
  BY DEF Take
<1>2. RamOK(ram') /\ ram'.owned = ram.owned \cup {b}
  BY <1>1 DEF Took
<1>3. b.how # "page"
  OBVIOUS
<1> HIDE DEF b
<1>4. SamePages(ram, ram')
  BY <1>2, <1>3 DEF SamePages
<1> QED BY <1>1, <1>2, <1>4 DEF HeapIs

LEMMA KmallocInv ==
  ASSUME DataInv, NEW total \in Nat, KmallocCall(total)
  PROVE  HeapIs
<1> DEFINE got == Kmalloc(ram, total)
<1>1. RamOK(ram)
  BY TreeFields DEF DataInv, FileOK, TreeOK
<1>2. CASE total > Page
  <2>1. Take(got, Pages(total) * Page, "block")
    BY <1>2 DEF KmallocCall
  <2>2. got.at # 0
    BY <2>1 DEF Take
  <2>3. Took(ram, got, Pages(total) * Page, "block")
    BY <1>1, <1>2, <2>2, KmallocTaken
  <2> HIDE DEF got
  <2> DEFINE len == Pages(total) * Page
  <2> HIDE DEF len
  <2>4. Took(ram, got, len, "block") /\ Take(got, len, "block")
    BY <2>1, <2>3 DEF len
  <2> QED BY <2>4, TakeInv
<1>3. CASE ~ (total > Page)
  <2>1. Take(got, ClassOf(total), "chunk")
    BY <1>3 DEF KmallocCall
  <2>2. got.at # 0
    BY <2>1 DEF Take
  <2>3. total <= Page
    BY <1>3, Sizes
  <2>4. Took(ram, got, ClassOf(total), "chunk")
    BY <1>1, <2>3, <2>2, KmallocTaken
  <2> HIDE DEF got
  <2> QED BY <2>1, <2>4, TakeInv
<1> QED BY <1>2, <1>3

LEMMA TakePageInv ==
  ASSUME DataInv, TakePage
  PROVE  HeapIs
<1> DEFINE got == Palloc(ram)
<1>1. RamOK(ram)
  BY TreeFields DEF DataInv, FileOK, TreeOK
<1>2. Take(got, Page, "table")
  BY DEF TakePage
<1>3. got.at # 0
  BY <1>2 DEF Take
<1>4. Took(ram, got, Page, "table")
  BY <1>1, <1>3, PallocTaken
<1> HIDE DEF got
<1> QED BY <1>2, <1>4, TakeInv

\* Given back by the kernel.
Gone(block) == RamOK(ram') /\ ram'.owned = ram.owned \ {block}

LEMMA GoneInv ==
  ASSUME NEW block, block.how # "page", Gone(block), UNCHANGED <<machine, file, mem, pos>>
  PROVE  HeapIs
<1>1. SamePages(ram, ram')
  BY DEF Gone, SamePages
<1> QED BY <1>1 DEF HeapIs, Gone

LEMMA KfreeInv ==
  ASSUME DataInv, NEW block \in ram.owned, KfreeCall(block)
  PROVE  HeapIs
<1> DEFINE A == ram
           Z == Disown(Kfree(A, block.at, block.len), block)
<1>1. RamOK(A) /\ block \in A.owned
  BY TreeFields DEF DataInv, FileOK, TreeOK
<1>2. block.how \in {"chunk", "block"} /\ ram' = Z /\ UNCHANGED <<machine, file, mem, pos>>
  BY DEF KfreeCall, Give
<1> HIDE DEF A
<1>3. RamOK(Z) /\ Z.owned = A.owned \ {block}
  BY <1>1, <1>2, KfreeGiven
<1> HIDE DEF Z
<1>4. Gone(block) /\ block.how # "page"
  BY <1>2, <1>3 DEF Gone, A
<1> QED BY <1>2, <1>4, GoneInv

LEMMA GivePageInv ==
  ASSUME DataInv, NEW block \in ram.owned, GivePage(block)
  PROVE  HeapIs
<1> DEFINE A == ram
           at == block.at
           P == {at}
           Z == Disown(PfreeAll(A, P, 1), block)
           O == {block}
<1>1. RamOK(A)
  BY TreeFields DEF DataInv, FileOK, TreeOK
<1>2. block.how = "table" /\ ram' = Z /\ UNCHANGED <<machine, file, mem, pos>>
  BY DEF GivePage, Give, Pfree
<1>3. PagesOwned(A, O)
  BY <1>2 DEF PagesOwned
<1>4. StartsOf(P, O)
  BY DEF StartsOf
<1>5. GivesPages(Z, A, P, 1, O)
  <2> HIDE DEF A, P
  <2> QED BY FreePagesGive
<1> DEFINE k == Cardinality(O)
<1>6. IsFiniteSet(O) /\ k = 1
  BY FS_Singleton
<1>7. k = Cardinality(O)
  OBVIOUS
<1> HIDE DEF A, P, Z, O, k
<1>8. GivesPages(Z, A, P, k, O)
  BY <1>5, <1>6
<1>9. RamOK(Z) /\ Z.owned = A.owned \ O
  BY <1>1, <1>3, <1>4, <1>6, <1>7, <1>8, PagesGiven
<1>10. Gone(block) /\ block.how # "page"
  BY <1>2, <1>9 DEF Gone, A, O
<1> QED BY <1>2, <1>10, GoneInv

LEMMA FsImportInv ==
  ASSUME DataInv, FsImportK0
  PROVE  HeapIs
<1> DEFINE A == ram
           Z == ImportK0(A)
<1>1. RamOK(A) /\ ~ A.imported /\ ram' = Z /\ UNCHANGED <<machine, file, mem, pos>>
  BY TreeFields DEF DataInv, FileOK, TreeOK, FsImportK0
<1> HIDE DEF A
<1>2. RamOK(Z) /\ Z.owned = A.owned
  BY <1>1, Imported
<1> HIDE DEF Z
<1>3. SamePages(ram, ram')
  BY <1>1, <1>2 DEF SamePages, A
<1> QED BY <1>1, <1>2, <1>3 DEF HeapIs

(* ---- boot_linux ---- *)

LinuxHas(A, Z) == RamOK(A) => RamOK(Z) /\ Same(A, Z)

LEMMA LinuxAgain ==
  ASSUME NEW A, NEW B, NEW C, LinuxHas(A, B), LinuxHas(B, C)
  PROVE  LinuxHas(A, C)
BY DEF LinuxHas, Same

LEMMA LinuxHasIs ==
  ASSUME NEW A, NEW len \in Nat, NEW align \in Nat, align > 0, align % Page = 0
  PROVE  LinuxHas(A, ForLinux(PallocContig(A, len, align, LinuxMin), len))
<1>1. LinuxMin \in Nat
  BY Spans
<1> SUFFICES ASSUME RamOK(A)
    PROVE RamOK(ForLinux(PallocContig(A, len, align, LinuxMin), len))
          /\ Same(A, ForLinux(PallocContig(A, len, align, LinuxMin), len))
  BY DEF LinuxHas
<1> QED BY <1>1, LinuxTaken

LEMMA Pages4Is == \A A : LinuxHas(A, Pages4(A))
<1> SUFFICES ASSUME NEW A PROVE LinuxHas(A, Pages4(A))
  OBVIOUS
<1>1. Page \in Nat /\ Page > 0 /\ Page % Page = 0
  BY Sizes
<1>2. \A B : LinuxHas(B, Page1(B))
  <2> SUFFICES ASSUME NEW B PROVE LinuxHas(B, Page1(B))
    OBVIOUS
  <2> QED BY <1>1, LinuxHasIs DEF Page1
<1> DEFINE B == Page1(A)
           C == Page1(B)
           D == Page1(C)
           E == Page1(D)
<1>3. LinuxHas(A, B) /\ LinuxHas(B, C) /\ LinuxHas(C, D) /\ LinuxHas(D, E)
  BY <1>2
<1>4. Pages4(A) = E
  BY DEF Pages4
<1> HIDE DEF B, C, D, E
<1>5. LinuxHas(A, C)
  BY <1>3, LinuxAgain
<1>6. LinuxHas(A, D)
  BY <1>3, <1>5, LinuxAgain
<1>7. LinuxHas(A, E)
  BY <1>3, <1>6, LinuxAgain
<1> QED BY <1>4, <1>7

LEMMA BootInv ==
  ASSUME DataInv, NEW b \in machine.boots, BootLinux(b)
  PROVE  HeapIs
<1> DEFINE load == PallocContig(ram, b.size, b.align, LinuxMin)
           A == ForLinux(load, b.size)
           rd == Slurp(A, b)
           B == IF b.initrd = 0 THEN A ELSE ForLinux(rd, b.initrd)
           fits == load.at # 0 /\ (b.initrd = 0 \/ rd.at # 0)
           R == ram
<1>1. /\ ram' = IF load.at = 0 THEN A ELSE IF fits THEN Pages4(B) ELSE B
      /\ UNCHANGED <<machine, file, mem, pos>>
  BY DEF BootLinux
<1>2. /\ b.size \in Nat /\ b.initrd \in Nat
      /\ b.align \in Nat /\ b.align > 0 /\ b.align % Page = 0
      /\ Page \in Nat /\ Page > 0 /\ Page % Page = 0
  BY MachineIs, Sizes DEF DataInv
<1>3. LinuxHas(R, A)
  <2> DEFINE size == b.size
             align == b.align
  <2>1. size \in Nat /\ align \in Nat /\ align > 0 /\ align % Page = 0
    BY <1>2
  <2>2. A = ForLinux(PallocContig(R, size, align, LinuxMin), size)
    OBVIOUS
  <2> HIDE DEF size, align, R, A
  <2> QED BY <2>1, <2>2, LinuxHasIs
<1> HIDE DEF load, A
<1>4. LinuxHas(A, B)
  <2> DEFINE len == b.initrd
  <2>1. len \in Nat
    BY <1>2
  <2>2. B = IF len = 0 THEN A ELSE ForLinux(PallocContig(A, len, Page, LinuxMin), len)
    BY DEF Slurp
  <2> HIDE DEF len, B
  <2>3. LinuxHas(A, ForLinux(PallocContig(A, len, Page, LinuxMin), len))
    BY <1>2, <2>1, LinuxHasIs
  <2>4. LinuxHas(A, A)
    BY DEF LinuxHas, Same
  <2> QED BY <2>2, <2>3, <2>4
<1> HIDE DEF B, rd, fits, R
<1>5. LinuxHas(B, Pages4(B))
  BY Pages4Is
<1>6. LinuxHas(R, B)
  BY <1>3, <1>4, LinuxAgain
<1>7. LinuxHas(R, Pages4(B))
  BY <1>5, <1>6, LinuxAgain
<1>8. LinuxHas(R, ram')
  BY <1>1, <1>3, <1>6, <1>7
<1>9. RamOK(R)
  BY TreeFields DEF DataInv, FileOK, TreeOK, R
<1>10. RamOK(ram') /\ Same(ram, ram')
  BY <1>8, <1>9 DEF LinuxHas, R
<1>11. SamePages(ram, ram')
  BY <1>10 DEF Same, SamePages
<1> QED BY <1>1, <1>10, <1>11 DEF HeapIs


(* ---- the invariant ---- *)

LEMMA DataInitInv == Init => DataInv /\ DiskInv /\ FileBytes = [o \in Offsets |-> 0]
<1> SUFFICES ASSUME Init PROVE DataInv /\ DiskInv /\ FileBytes = [o \in Offsets |-> 0]
  OBVIOUS
<1>1. machine \in Machines /\ ram = PhysInit(machine.e820) /\ file = [size |-> 0, slots |-> NoPages]
      /\ mem = <<>> /\ pos = [f \in Opens |-> 0] /\ DiskInit
  BY DEF Init
<1>2. DiskInv
  BY <1>1, DiskInitInv
<1>3. RamOK(ram) /\ ram.owned = {}
  <2>1. MapOK(machine.e820)
    BY <1>1, MachineIs
  <2> DEFINE e == machine.e820
  <2>2. MapOK(e)
    BY <2>1
  <2> HIDE DEF e
  <2>3. RamOK(PhysInit(e)) /\ PhysInit(e).owned = {}
    BY <2>2, InitOK
  <2> QED BY <2>3, <1>1 DEF e
<1>4. file.size = 0 /\ file.slots = NoPages /\ file = [size |-> file.size, slots |-> file.slots]
  BY <1>1
<1>5. Used(Tree) = {} /\ Tree.slots \in [Keys -> Nat]
  BY <1>4, TreeFields DEF NoPages, Used
<1>6. MemTyped(Tree.mem) /\ DOMAIN Tree.mem = {}
  <2>1. DOMAIN mem = {}
    BY <1>1
  <2> QED BY <2>1, TreeFields DEF MemTyped
<1>7. TreeOK(Tree)
  <2>1. IsTree(Tree)
    BY TreeFields DEF IsTree, Tree
  <2>2. Held(Tree) /\ OneSlot(Tree) /\ Rooted(Tree) /\ Leafed(Tree)
    BY <1>3, <1>5, TreeFields DEF Held, OneSlot, Rooted, Leafed
  <2> QED BY <2>1, <2>2, <1>3, <1>5, <1>6, TreeFields DEF TreeOK
<1>8. 0 \in Offsets /\ \A o \in Offsets : ~ (o < 0)
  BY OffsetsAre
<1>9. FileOK(Tree, file.size)
  <2>1. \A j, b : ByteIn(Tree, j, b) = 0
    BY <1>6 DEF ByteIn
  <2> QED BY <2>1, <1>4, <1>7, <1>8 DEF FileOK
<1>10. pos \in [Opens -> Offsets]
  BY <1>1, <1>8
<1>11. FileBytes = [o \in Offsets |-> 0]
  BY <1>4, <1>8 DEF FileBytes, BytesOf
<1> QED BY <1>1, <1>2, <1>4, <1>9, <1>10, <1>11 DEF DataInv

\* What the file is, as its specification sees it.
Bytes0 == [o \in Offsets |-> IF o < file.size THEN ByteAt(o) ELSE 0]

LEMMA MappedIs == Bytes0 = FileBytes /\ Bytes0' = FileBytes'
<1>1. Bytes0 = FileBytes
  BY DEF Bytes0, FileBytes, BytesOf, ByteAt, ByteIn, Tree
<1>2. Bytes0' = FileBytes'
  BY DEF Bytes0, FileBytes, BytesOf, ByteAt, ByteIn, Tree
<1> QED BY <1>1, <1>2

WrittenTo(off, n, v) ==
  FileIs(Bound(file.size, off, n), [o \in Offsets |-> IF o \in off..(off + n - 1) THEN v ELSE FileBytes[o]])

LEMMA WrittenMapped ==
  ASSUME NEW off, NEW n, NEW v, WrittenTo(off, n, v)
  PROVE  File!Written(off, n, v)
<1>1. file'.size = Bound(file.size, off, n)
      /\ FileBytes' = [o \in Offsets |-> IF o \in off..(off + n - 1) THEN v ELSE FileBytes[o]]
  BY DEF WrittenTo, FileIs
<1>2. Bytes0' = [o \in Offsets |-> IF o \in off..(off + n - 1) THEN v ELSE Bytes0[o]]
  BY <1>1, MappedIs
<1>3. file'.size = IF off + n > file.size THEN off + n ELSE file.size
  BY <1>1 DEF Bound
<1> QED BY <1>2, <1>3 DEF File!Written, Bytes0

FileKept == file'.size = file.size /\ FileBytes' = FileBytes

LEMMA KeptMapped == FileKept => UNCHANGED <<file.size, Bytes0>>
BY MappedIs DEF FileKept

\* A call on the file: the invariant is kept, and it is the specification's step.
Maps == DataInv' /\ (File!Next \/ UNCHANGED File!fileVars)

LEMMA PwriteInv ==
  ASSUME DataInv, NEW w \in machine.writes, NEW v \in machine.vals, Pwrite(w[1], w[2], v)
  PROVE  Maps
<1> DEFINE off == w[1]
           n == w[2]
<1>1. off \in Nat /\ n \in Nat /\ v \in Bytes /\ n \in Counts
  BY MachineIs DEF DataInv
<1>2. Wrote(off, n, v) /\ UNCHANGED <<machine, pos, linux>>
  BY DEF Pwrite
<1> HIDE DEF off, n
<1>3. off + n \in Offsets /\ WrittenTo(off, n, v)
  BY <1>1, <1>2, WroteInv DEF WrittenTo
<1>4. off \in Offsets
  BY <1>1, <1>3, OffsetsAre
<1>5. File!Written(off, n, v)
  BY <1>3, WrittenMapped
<1>6. DataInv'
  BY <1>2, <1>3 DEF DataInv, WrittenTo, FileIs
<1>7. File!Pwrite(off, n, v)
  BY <1>2, <1>5 DEF File!Pwrite
<1>8. File!Next
  BY <1>1, <1>4, <1>7, Zenon DEF File!Next
<1> QED BY <1>6, <1>8 DEF Maps

LEMMA FileWriteInv ==
  ASSUME DataInv, NEW f \in machine.opens, NEW n \in machine.counts, NEW v \in machine.vals, FileWrite(f, n, v)
  PROVE  Maps
<1> DEFINE off == Start(f)
<1>1. f \in Opens /\ n \in Nat /\ v \in Bytes /\ n \in Counts
  BY MachineIs DEF DataInv
<1>2. Wrote(off, n, v) /\ pos' = [pos EXCEPT ![f] = off + n] /\ UNCHANGED <<machine, linux>>
  BY DEF FileWrite
<1>3. pos \in [Opens -> Offsets] /\ file.size \in Offsets
  BY DEF DataInv, FileOK
<1>4. off \in Nat
  BY <1>1, <1>3, OffsetsAre DEF Start
<1> HIDE DEF off
<1>5. off + n \in Offsets /\ WrittenTo(off, n, v)
  BY <1>1, <1>2, <1>4, WroteInv DEF WrittenTo
<1>6. File!Written(off, n, v)
  BY <1>5, WrittenMapped
<1>7. DataInv'
  <2>1. pos' \in [Opens -> Offsets]
    BY <1>1, <1>2, <1>3, <1>5
  <2> QED BY <2>1, <1>2, <1>5 DEF DataInv, WrittenTo, FileIs
<1>8. File!Write(f, n, v)
  BY <1>2, <1>6 DEF File!Write, off, Start
<1>9. File!Next
  BY <1>1, <1>8, Zenon DEF File!Next
<1> QED BY <1>7, <1>9 DEF Maps

LEMMA PosMoved ==
  ASSUME DataInv, UNCHANGED <<machine, ram, file, mem, linux>>, pos' \in [Opens -> Offsets]
  PROVE  DataInv' /\ UNCHANGED <<file.size, Bytes0>>
<1>1. Tree' = Tree
  BY DEF Tree
<1>2. FileOK(Tree, file.size)'
  BY <1>1 DEF DataInv
<1>3. FileBytes' = FileBytes
  BY <1>1 DEF FileBytes
<1> QED BY <1>2, <1>3, MappedIs DEF DataInv

LEMMA FileReadInv ==
  ASSUME DataInv, NEW f \in machine.opens, NEW n \in machine.counts, FileRead(f, n)
  PROVE  Maps
<1> DEFINE p == pos[f]
           s == file.size
           to == p + (IF n > s - p THEN s - p ELSE n)
<1>1. f \in Opens /\ n \in Nat /\ n \in Counts
  BY MachineIs DEF DataInv
<1>2. p < s /\ pos' = [pos EXCEPT ![f] = to] /\ UNCHANGED <<machine, ram, file, mem, linux>>
  BY DEF FileRead
<1>3. pos \in [Opens -> Offsets] /\ s \in Nat /\ s <= Limit /\ p \in Nat /\ Limit \in Nat
  BY <1>1, OffsetsAre DEF DataInv, FileOK
<1>4. to \in Nat /\ to <= s /\ to = IF p >= s THEN p ELSE IF p + n > s THEN s ELSE p + n
  <2> HIDE DEF p, s
  <2> QED BY <1>1, <1>2, <1>3
<1>5. to \in Offsets
  <2> HIDE DEF to
  <2> QED BY <1>3, <1>4, OffsetsAre
<1>6. pos' \in [Opens -> Offsets]
  <2> HIDE DEF to
  <2> QED BY <1>1, <1>2, <1>3, <1>5
<1>7. DataInv' /\ UNCHANGED <<file.size, Bytes0>>
  BY <1>2, <1>6, PosMoved
<1>8. pos' = [pos EXCEPT ![f] = IF p >= s THEN p ELSE IF p + n > s THEN s ELSE p + n]
  BY <1>2, <1>4
<1>9. File!Read(f, n)
  BY <1>7, <1>8 DEF File!Read, Bytes0
<1>10. File!Next
  BY <1>1, <1>9, Zenon DEF File!Next
<1> QED BY <1>7, <1>10 DEF Maps

LEMMA LseekInv ==
  ASSUME DataInv, NEW f \in machine.opens, NEW k \in machine.seeks, Lseek(f, k[1], k[2])
  PROVE  Maps
<1>1. f \in Opens
  BY MachineIs DEF DataInv
<1>2. PICK to \in Offsets : pos' = [pos EXCEPT ![f] = to] /\ UNCHANGED <<machine, ram, file, mem, linux>>
  BY Zenon DEF Lseek
<1>3. pos' \in [Opens -> Offsets]
  BY <1>1, <1>2 DEF DataInv
<1>4. DataInv' /\ UNCHANGED <<file.size, Bytes0>>
  BY <1>2, <1>3, PosMoved
<1>5. File!Seek(f, to)
  BY <1>2, <1>4 DEF File!Seek, Bytes0
<1>6. File!Next
  BY <1>1, <1>2, <1>5, Zenon DEF File!Next
<1> QED BY <1>4, <1>6 DEF Maps

LEMMA TruncMapped ==
  ASSUME DataInv, NEW s \in machine.sizes, Truncate(s)
  PROVE  Maps
<1>1. s \in Offsets
  BY MachineIs DEF DataInv
<1>2. Becomes(InodeTrunc(Tree, s), s) /\ UNCHANGED <<machine, pos, linux>>
  BY DEF Truncate
<1>3. FileIs(s, [o \in Offsets |-> IF o < s THEN FileBytes[o] ELSE 0])
  BY <1>1, <1>2, TruncateInv
<1>4. DataInv'
  BY <1>2, <1>3 DEF DataInv, FileIs
<1>5. Bytes0' = [o \in Offsets |-> IF o < s THEN Bytes0[o] ELSE 0]
  BY <1>3, MappedIs DEF FileIs
<1>6. File!Truncate(s)
  BY <1>2, <1>3, <1>5 DEF File!Truncate, Bytes0, FileIs
<1>7. File!Next
  BY <1>1, <1>6, Zenon DEF File!Next
<1> QED BY <1>4, <1>7 DEF Maps

LEMMA HeapMapped ==
  ASSUME DataInv, HeapIs
  PROVE  Maps
<1>1. DataInv' /\ FileBytes' = FileBytes
  BY HeapInv
<1>2. file' = file /\ pos' = pos /\ Bytes0' = Bytes0
  BY <1>1, MappedIs DEF HeapIs
<1>3. UNCHANGED File!fileVars
  BY <1>2 DEF File!fileVars, Bytes0
<1> QED BY <1>1, <1>3 DEF Maps

LEMMA DataNextMaps == DataInv /\ [Next]_vars => Maps
<1> SUFFICES ASSUME DataInv, [Next]_vars PROVE Maps
  OBVIOUS
<1>1. CASE FileNext
  BY <1>1, PwriteInv, FileWriteInv, FileReadInv, LseekInv, TruncMapped DEF FileNext
<1>2. CASE HeapNext
  <2>1. HeapIs
    <3>1. ASSUME NEW total \in machine.totals, KmallocCall(total) PROVE HeapIs
      <4>1. total \in Nat
        BY MachineIs DEF DataInv
      <4> QED BY <3>1, <4>1, KmallocInv
    <3> QED BY <1>2, <3>1, KfreeInv, GivePageInv, TakePageInv, FsImportInv, BootInv DEF HeapNext
  <2> QED BY <2>1, HeapMapped
<1>3. CASE UNCHANGED dataVars
  <2>1. UNCHANGED <<machine, ram, file, mem, pos, linux>>
    BY <1>3 DEF dataVars
  <2>2. pos' \in [Opens -> Offsets]
    BY <2>1 DEF DataInv
  <2>3. DataInv' /\ UNCHANGED <<file.size, Bytes0>>
    BY <2>1, <2>2, PosMoved
  <2>4. UNCHANGED File!fileVars
    BY <2>1, <2>3 DEF File!fileVars, Bytes0
  <2> QED BY <2>3, <2>4 DEF Maps
<1> QED BY <1>1, <1>2, <1>3 DEF Next, vars

LEMMA DiskKept == DataInv /\ DiskInv /\ [Next]_vars => DiskInv'
<1> SUFFICES ASSUME DataInv, DiskInv, [Next]_vars PROVE DiskInv'
  OBVIOUS
<1>1. CASE UNCHANGED diskVars
  BY <1>1, DiskNextInv
<1>2. CASE DiskNext(machine.io)
  <2>1. machine.io \subseteq {"read", "write"}
    BY MachineIs DEF DataInv
  <2>2. DiskNext({"read", "write"})
    BY <1>2, <2>1 DEF DiskNext
  <2> QED BY <2>2, DiskNextInv
<1> QED BY <1>1, <1>2 DEF Next, vars

(* ---- what follows ---- *)

LEMMA InvTypes == DataInv /\ DiskInv => DataTypeOK
<1> SUFFICES ASSUME DataInv, DiskInv PROVE DataTypeOK
  OBVIOUS
<1>1. TreeOK(Tree) /\ file.size \in Offsets /\ pos \in [Opens -> Offsets]
  BY DEF DataInv, FileOK
<1>2. RamOK(ram) /\ file.slots \in [Keys -> Nat] /\ MemTyped(mem)
  BY <1>1, TreeFields DEF TreeOK
<1>3. ram \in Ram /\ Placed(ram)
  BY <1>2 DEF RamOK
<1>4. ram.used \in Nat /\ \A p \in ram.free : p % Page = 0
  BY <1>3 DEF Ram, Placed
<1>5. \A r \in ram.new : r.start % Page = 0 /\ r.start <= r.end
  BY <1>3 DEF Placed, RegOK
<1>6. bounce \in [0..Chunk * Sect - 1 -> Bytes]
  BY DEF DiskInv, Buffer
<1> QED BY <1>1, <1>2, <1>4, <1>5, <1>6 DEF DataTypeOK, MemTyped

LEMMA InvPages == DataInv => PagesHeld
<1> SUFFICES ASSUME DataInv PROVE PagesHeld
  OBVIOUS
<1>1. Held(Tree) /\ OneSlot(Tree) /\ Rooted(Tree)
  BY DEF DataInv, FileOK, TreeOK
<1> DEFINE used == {key \in Keys : file.slots[key] # 0}
<1>2. Used(Tree) = used
  BY TreeFields DEF Used
<1>3. {b.at : b \in {c \in ram.owned : c.how = "page"}} = {file.slots[key] : key \in used}
  <2> HIDE DEF used
  <2>1. ASSUME NEW b \in ram.owned, b.how = "page" PROVE \E key \in used : b.at = file.slots[key]
    BY <2>1, <1>1, <1>2, TreeFields DEF Held
  <2>2. ASSUME NEW key \in used PROVE \E b \in ram.owned : b.how = "page" /\ b.at = file.slots[key]
    <3>1. PageBlock(file.slots[key]) \in ram.owned
      BY <1>1, <1>2, TreeFields DEF Held
    <3>2. PageBlock(file.slots[key]).how = "page" /\ PageBlock(file.slots[key]).at = file.slots[key]
      BY DEF PageBlock
    <3> QED BY <3>1, <3>2
  <2> QED BY <2>1, <2>2
<1>4. \A j, k \in used : j # k => file.slots[j] # file.slots[k]
  BY <1>1, <1>2, TreeFields DEF OneSlot
<1>5. \A j \in used, k \in Keys : IsUnder(j, k) => k \in used
  BY <1>1, <1>2 DEF Rooted
<1> QED BY <1>3, <1>4, <1>5 DEF PagesHeld

LEMMA InvApart == DataInv => MemoryApart /\ MemoryCounted
<1> SUFFICES ASSUME DataInv PROVE MemoryApart /\ MemoryCounted
  OBVIOUS
<1> DEFINE A == ram
<1>1. RamOK(A)
  BY TreeFields DEF DataInv, FileOK, TreeOK
<1> HIDE DEF A
<1>2. Apart(A) /\ UsedIs(A)
  BY <1>1, ApartIs
<1> QED BY <1>2 DEF MemoryApart, MemoryCounted, A

LEMMA DataAlways == Spec => [](DataInv /\ DiskInv)
<1>1. DataInv /\ DiskInv /\ [Next]_vars => (DataInv /\ DiskInv)'
  BY DataNextMaps, DiskKept DEF Maps
<1>2. Init => DataInv /\ DiskInv
  BY DataInitInv
<1> QED BY <1>1, <1>2, PTL DEF Spec

\* For every memory map, file and drive: sizes, slots, pages and regions have
\* their types.
THEOREM DataAlwaysTyped == Spec => []DataTypeOK
BY DataAlways, InvTypes, PTL

\* For every memory map, whatever files, kernel and Linux take and give back in
\* whatever order: no piece of memory has two owners or is on two lists, and none
\* is K1's or, before the import, K0's (mm.c 38-194, fs.c 700-718, linux.c 72-101).
THEOREM AlwaysApart == Spec => []MemoryApart
BY DataAlways, InvApart, PTL

\* mem_used is always the memory taken and not given back (mm.c 117-185).
THEOREM AlwaysCounted == Spec => []MemoryCounted
BY DataAlways, InvApart, PTL

\* The pages the file owns are those of its tree, after any writes and
\* truncations: none leaks, none is in two slots (fs.c 41-177).
THEOREM PagesAlwaysHeld == Spec => []PagesHeld
BY DataAlways, InvPages, PTL

\* Pages under a tree implement a file of bytes: what was written last, zero in
\* holes and past what a truncation cut off, appends at the end (fs.c 41-177).
THEOREM PagesImplementFile == Spec => ImplementsFile
<1>1. Init => File!Init
  <2> SUFFICES ASSUME Init PROVE File!Init
    OBVIOUS
  <2>1. Bytes0 = [o \in Offsets |-> 0]
    BY DataInitInv, MappedIs
  <2>2. file.size = 0 /\ pos = [f \in Opens |-> 0]
    BY DEF Init
  <2> QED BY <2>1, <2>2 DEF File!Init, Bytes0
<1>2. DataInv /\ [Next]_vars => [File!Next]_(File!fileVars)
  BY DataNextMaps DEF Maps
<1>3. Spec => []DataInv
  BY DataAlways, PTL
<1> QED BY <1>1, <1>2, <1>3, PTL DEF Spec, ImplementsFile, File!Spec

=============================================================================
