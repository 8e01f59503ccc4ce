------------------------------- MODULE K1Disk -------------------------------
(***************************************************************************)
(* /dev/hda and /dev/hdb as files of bytes (ata.c): ata_dev_rw moves bytes *)
(* through a bounce buffer, a chunk of sectors per command, and writes     *)
(* part of a sector by reading it first.  Any command may fail; one that   *)
(* writes may then have written some of its sectors.                       *)
(*                                                                         *)
(* One step per command to the drive: the kernel polls, so nothing else    *)
(* happens between them.                                                   *)
(***************************************************************************)
EXTENDS Integers, Sequences

CONSTANTS
  Sect,         \* bytes in a sector (512)
  Chunk,        \* sectors per command (128)
  Sectors,      \* the drive's size
  Bytes         \* what a byte may be

ASSUME DiskAssumption == {Sect, Chunk, Sectors} \subseteq Nat \ {0} /\ 0 \in Bytes

VARIABLES
  disk,         \* the drive: a byte at each offset
  bounce,       \* the static buffer, as the last call left it
  io            \* Idle, or the call being made: what is to be moved and is done

diskVars == <<disk, bounce, io>>

DiskSize == Sectors * Sect
At == 0..(DiskSize - 1)

Idle == [call |-> "none", off |-> 0, n |-> 0, byte |-> 0, done |-> 0, loaded |-> FALSE,
         buf |-> <<>>, was |-> <<>>, failed |-> FALSE]

DiskInit ==
  /\ disk \in [At -> {0}]
  /\ bounce = [b \in 0..(Chunk * Sect - 1) |-> 0]
  /\ io = Idle

\* The chunk the call is at: its first sector, what to skip there, its bytes and sectors.
Pos == io.off + io.done
Lba == Pos \div Sect
Skip == Pos % Sect
Moved == LET most == Chunk * Sect - Skip
             left == io.n - io.done
         IN  IF left < most THEN left ELSE most
Secs == (Skip + Moved + Sect - 1) \div Sect

\* (A mutant: a write that ends inside a sector does not read it.)
ReadsFirstIfSkip == Skip # 0
ReadsFirst == Skip # 0 \/ Moved % Sect # 0

\* Bytes off..off+n-1 are to be read, or to be written with `byte`, cut at the end.
DiskCall(call, off, n, byte) ==
  /\ io = Idle /\ off < DiskSize /\ n > 0
  /\ io' = [Idle EXCEPT !.call = call, !.off = off, !.byte = byte, !.was = disk,
                        !.n = IF n > DiskSize - off THEN DiskSize - off ELSE n]
  /\ UNCHANGED <<disk, bounce>>

\* ata_rw reads the chunk's first k sectors into the bounce buffer.
Load(k) == [b \in DOMAIN bounce |->
  IF b < k * Sect THEN disk[Lba * Sect + b] ELSE bounce[b]]

DiskRead ==
  /\ io.call = "read" /\ io.done < io.n /\ ~io.failed
  /\ bounce' = Load(Secs)
  /\ io' = [io EXCEPT !.done = @ + Moved, !.buf = @ \o [b \in 1..Moved |-> Load(Secs)[Skip + b - 1]]]
  /\ UNCHANGED disk

DiskReadFirst ==
  /\ io.call = "write" /\ io.done < io.n /\ ~io.failed /\ ~io.loaded /\ ReadsFirst
  /\ bounce' = Load(Secs)
  /\ io' = [io EXCEPT !.loaded = TRUE]
  /\ UNCHANGED disk

\* The bytes go into the buffer, and its first k sectors to the drive.
Filled == [b \in DOMAIN bounce |-> IF b \in Skip..(Skip + Moved - 1) THEN io.byte ELSE bounce[b]]
Stored(k) == [a \in At |-> IF a \in (Lba * Sect)..((Lba + k) * Sect - 1)
                           THEN Filled[a - Lba * Sect] ELSE disk[a]]

DiskWrite ==
  /\ io.call = "write" /\ io.done < io.n /\ ~io.failed /\ (ReadsFirst => io.loaded)
  /\ bounce' = Filled
  /\ disk' = Stored(Secs)
  /\ io' = [io EXCEPT !.done = @ + Moved, !.loaded = FALSE]

\* A command fails after k of its sectors: the call returns what was done before it.
DiskFail ==
  /\ io # Idle /\ io.done < io.n /\ ~io.failed
  /\ \E k \in 0..Secs :
       IF io.call = "write" /\ (ReadsFirst => io.loaded)
       THEN bounce' = Filled /\ disk' = Stored(k)
       ELSE bounce' = Load(k) /\ UNCHANGED disk
  /\ io' = [io EXCEPT !.failed = TRUE]

DiskReturn ==
  /\ io # Idle /\ (io.done = io.n \/ io.failed)
  /\ io' = Idle
  /\ UNCHANGED <<disk, bounce>>

DiskStep == DiskRead \/ DiskReadFirst \/ DiskWrite \/ DiskFail \/ DiskReturn

DiskNext(calls) ==
  \/ \E call \in calls, off \in At, n \in 1..DiskSize, byte \in Bytes :
       (call = "read" => byte = 0) /\ DiskCall(call, off, n, byte)
  \/ DiskStep

DiskSpec == DiskInit /\ [][DiskNext({"read", "write"})]_diskVars

\* A call changes no byte outside its range, whatever shares a sector with it and
\* wherever it fails; the bytes it says it has written or read are, and the others
\* of its range are old or new (ata_dev_rw, ata.c:125-158).
DiskExact == io # Idle =>
  /\ io.call = "read" =>
       disk = io.was /\ io.buf = [b \in 1..io.done |-> disk[io.off + b - 1]]
  /\ io.call = "write" => \A a \in At :
       CASE a \in io.off..(io.off + io.done - 1) -> disk[a] = io.byte
         [] a \in (io.off + io.done)..(io.off + io.n - 1) -> disk[a] \in {io.was[a], io.byte}
         [] OTHER -> disk[a] = io.was[a]

=============================================================================
