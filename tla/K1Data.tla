------------------------------- MODULE K1Data -------------------------------
(***************************************************************************)
(* What K1 stores, and where: a regular file's bytes in pages under a tree *)
(* of three levels (fs.c 30-180), its open files' positions, the kernel's  *)
(* blocks, K0's image and Linux's in the same memory (mm.c, fs.c, linux.c),*)
(* and the drives behind the device files (ata.c).                         *)
(*                                                                         *)
(* `file` is the inode and its tree: slots[<<level, k>>] is the page that  *)
(* slot k of that level holds, 0 for none; <<3, 0>> is ip->pages, level 0  *)
(* are the pages of bytes.  `mem` is what the pages of bytes hold; palloc  *)
(* zeroes a page, so what a free one holds does not matter.                *)
(***************************************************************************)
EXTENDS K1Alloc, K1Disk

CONSTANTS
  Fan,          \* slots in a table (512)
  Machines,     \* what is done: the memory map and the calls' arguments
  LinuxMin,     \* where Linux's memory may begin (16 MiB)
  MaxOwned      \* blocks of the kernel in use: a bound of the model

Offsets == 0..(Fan * Fan * Fan * Page)

\* The alignment a kernel asks for is one of pages (linux.c:60 makes it 2 MiB at
\* least); a file is not asked to be larger than its tree can hold.
ASSUME DataAssumption ==
  /\ Fan \in Nat \ {0} /\ LinuxMin \in Nat
  /\ \A m \in Machines :
       /\ MapOK(m.e820)
       /\ m.totals \subseteq Nat \ {0} /\ m.counts \subseteq Nat /\ m.vals \subseteq Bytes
       /\ m.opens \subseteq {"plain", "append"} /\ m.sizes \subseteq Offsets /\ m.room \in Nat
       /\ m.io \subseteq {"read", "write"}
       /\ \A w \in m.writes : w[1] \in Nat /\ w[2] \in Nat
       /\ \A k \in m.seeks : k[1] \in 0..2 /\ k[2] \in Int
       /\ \A b \in m.boots : /\ b.size \in Nat /\ b.initrd \in Nat
                            /\ b.align \in Nat \ {0} /\ b.align % Page = 0

VARIABLES machine, ram, file, mem, pos, linux

dataVars == <<machine, ram, file, mem, pos, linux>>
vars == <<dataVars, diskVars>>

Opens == {"plain", "append"}
Appending == {"append"}
Counts == UNION {m.counts \cup {w[2] : w \in m.writes} : m \in Machines}

\* The pages below a slot of each level.
Span(lvl) == CASE lvl = 0 -> 1 [] lvl = 1 -> Fan [] lvl = 2 -> Fan * Fan [] lvl = 3 -> Fan * Fan * Fan

Keys == UNION {{<<lvl, k>> : k \in 0..Span(3 - lvl) - 1} : lvl \in 0..3}
NoPages == [key \in Keys |-> 0]

Init ==
  /\ machine \in Machines
  /\ ram = PhysInit(machine.e820)
  /\ file = [size |-> 0, slots |-> NoPages]
  /\ mem = <<>>
  /\ pos = [f \in Opens |-> 0]
  /\ linux = "no"
  /\ DiskInit

(***************************************************************************)
(* The file's tree.  D is the memory, the slots and the pages' bytes.      *)
(***************************************************************************)

KeyAt(lvl, idx) == <<lvl, idx \div Span(lvl)>>
IsUnder(key, table) == key[1] + 1 = table[1] /\ (table[1] = 3 \/ key[2] \div Fan = table[2])

\* A slot that is empty gets a zeroed page.
MakeSlot(D, key) ==
  LET got == Palloc(D.ram)
  IN  IF D.slots[key] # 0 \/ got.at = 0 THEN D
      ELSE [ram |-> Own(got, Page, "page"),
            slots |-> [k \in Keys |-> CASE k = key -> got.at
                                        [] IsUnder(k, key) -> 0
                                        [] OTHER -> D.slots[k]],
            mem |-> IF key[1] # 0 THEN D.mem
                    ELSE [q \in DOMAIN D.mem \cup {got.at} |->
                            IF q = got.at THEN [b \in 0..Page - 1 |-> 0] ELSE D.mem[q]]]

PageOf(D, idx) ==
  LET at(E, lvl) == MakeSlot(E, KeyAt(lvl, idx))
  IN  at(at(at(at(D, 3), 2), 1), 0)

\* Bytes off..off+n-1 become v.
Stored1(D, idx, off, n, v) ==
  LET E == PageOf(D, idx)
      p == E.slots[<<0, idx>>]
  IN  IF p = 0 THEN E
      ELSE [E EXCEPT !.mem[p] = [b \in 0..Page - 1 |->
              IF idx * Page + b \in off..(off + n - 1) THEN v ELSE @[b]]]

Idxs(off, n) == IF n = 0 THEN {} ELSE (off \div Page)..((off + n - 1) \div Page)

\* A page of the range after the other.
InodeWrite(D, off, n, v) ==
  LET first == off \div Page
      after[k \in Nat] == IF k = 0 THEN D ELSE Stored1(after[k - 1], first + k - 1, off, n, v)
  IN  after[IF n = 0 THEN 0 ELSE (off + n - 1) \div Page - first + 1]

SizeAfter(off, n) == Largest(file.size, off + n)

ByteAt(o) ==
  LET p == file.slots[<<0, o \div Page>>]
  IN  IF p \in DOMAIN mem THEN mem[p][o % Page] ELSE 0

\* The pages of the slots in F go back, and the slots are empty.
Released(D, F) ==
  LET pages == {D.slots[key] : key \in F}
  IN  [ram |-> [PfreeAll(D.ram, pages, Cardinality(F))
                  EXCEPT !.owned = @ \ {[at |-> p, len |-> Page, how |-> "page"] : p \in pages}],
       slots |-> [key \in Keys |-> IF key \in F THEN 0 ELSE D.slots[key]],
       mem |-> [q \in DOMAIN D.mem \ pages |-> D.mem[q]]]

\* free_radix: what lies at or past page `keep`.  (A mutant: not the tables.)
FreedPages(D, keep) == {key \in Keys : key[1] = 0 /\ D.slots[key] # 0 /\ key[2] >= keep}
Freed(D, keep) == {key \in Keys : key[1] <= 2 /\ D.slots[key] # 0 /\ key[2] * Span(key[1]) >= keep}

FreeRadix(D, keep) == Released(D, Freed(D, keep))

\* (A mutant: the tail of the last page is left as it was.)
TailKept(D, s) == D
TailZeroed(D, s) ==
  LET p == D.slots[<<0, s \div Page>>]
  IN  IF s % Page = 0 \/ p = 0 THEN D
      ELSE [D EXCEPT !.mem[p] = [b \in 0..Page - 1 |-> IF b >= s % Page THEN 0 ELSE @[b]]]

InodeTrunc(D, s) ==
  LET E == TailZeroed(FreeRadix(D, Pages(s)), s)
  IN  IF s >= file.size \/ D.slots[<<3, 0>>] = 0 THEN D
      ELSE IF s = 0 THEN Released(E, {<<3, 0>>}) ELSE E

Tree == [ram |-> ram, slots |-> file.slots, mem |-> mem]

Becomes(D, s) == ram' = D.ram /\ mem' = D.mem /\ file' = [size |-> s, slots |-> D.slots]

(***************************************************************************)
(* The calls on the file.  Where the memory runs out there is no step.     *)
(***************************************************************************)

\* There is no step past what the tree holds, or past the machine's room (a bound).
Wrote(off, n, v) ==
  LET D == InodeWrite(Tree, off, n, v)
  IN  /\ off + n \in Offsets /\ off + n <= machine.room
      /\ \A idx \in Idxs(off, n) : D.slots[<<0, idx>>] # 0
      /\ Becomes(D, SizeAfter(off, n))

Pwrite(off, n, v) ==
  /\ Wrote(off, n, v)
  /\ UNCHANGED <<machine, pos, linux>>

\* (A mutant: an append goes to the file's position.)
StartAtPos(f) == pos[f]
Start(f) == IF f \in Appending THEN file.size ELSE pos[f]

FileWrite(f, n, v) ==
  /\ Wrote(Start(f), n, v)
  /\ pos' = [pos EXCEPT ![f] = Start(f) + n]
  /\ UNCHANGED <<machine, linux>>

FileRead(f, n) ==
  /\ pos[f] < file.size
  /\ pos' = [pos EXCEPT ![f] = @ + (IF n > file.size - @ THEN file.size - @ ELSE n)]
  /\ UNCHANGED <<machine, ram, file, mem, linux>>

\* From the start, from the position, from the end.
Lseek(f, whence, b) ==
  LET to == (CASE whence = 0 -> 0 [] whence = 1 -> pos[f] [] whence = 2 -> file.size) + b
  IN  /\ to \in Offsets /\ to <= machine.room
      /\ pos' = [pos EXCEPT ![f] = to]
      /\ UNCHANGED <<machine, ram, file, mem, linux>>

\* ftruncate, truncate; open's O_TRUNC and the inode's end are Truncate(0).
Truncate(s) ==
  /\ Becomes(InodeTrunc(Tree, s), s)
  /\ UNCHANGED <<machine, pos, linux>>

FileNext ==
  \/ \E w \in machine.writes, v \in machine.vals : Pwrite(w[1], w[2], v)
  \/ \E f \in machine.opens, n \in machine.counts, v \in machine.vals : FileWrite(f, n, v)
  \/ \E f \in machine.opens, n \in machine.counts : FileRead(f, n)
  \/ \E f \in machine.opens, k \in machine.seeks : Lseek(f, k[1], k[2])
  \/ \E s \in machine.sizes : Truncate(s)

(***************************************************************************)
(* The kernel's own memory.                                                *)
(***************************************************************************)

Kernel == {b \in ram.owned : b.how \in {"chunk", "block", "table"}}

Take(got, len, how) ==
  /\ Cardinality(Kernel) < MaxOwned
  /\ got.at # 0
  /\ ram' = Own(got, len, how)
  /\ UNCHANGED <<machine, file, mem, pos, linux>>

Give(A, block) ==
  /\ ram' = Disown(A, block)
  /\ UNCHANGED <<machine, file, mem, pos, linux>>

KmallocCall(total) ==
  IF total > Page THEN Take(Kmalloc(ram, total), Pages(total) * Page, "block")
  ELSE Take(Kmalloc(ram, total), ClassOf(total), "chunk")

KfreeCall(block) ==
  /\ block.how \in {"chunk", "block"}
  /\ Give(Kfree(ram, block.at, block.len), block)

\* A page of an address space or of a pipe.
TakePage == Take(Palloc(ram), Page, "table")
GivePage(block) == block.how = "table" /\ Give(Pfree(ram, block.at), block)

FsImportK0 ==
  /\ ~ram.imported
  /\ ram' = ImportK0(ram)
  /\ UNCHANGED <<machine, file, mem, pos, linux>>

(***************************************************************************)
(* boot_linux: memory for the kernel, the initrd if there is one, and four *)
(* pages.  Those four are not checked: where they do not fit there is no   *)
(* step.                                                                   *)
(***************************************************************************)
Page1(A) == ForLinux(PallocContig(A, Page, Page, LinuxMin), Page)
Pages4(A) == Page1(Page1(Page1(Page1(A))))

Slurp(A, b) == PallocContig(A, b.initrd, Page, LinuxMin)

BootLinux(b) ==
  LET load == PallocContig(ram, b.size, b.align, LinuxMin)
      A == ForLinux(load, b.size)
      rd == Slurp(A, b)
      B == IF b.initrd = 0 THEN A ELSE ForLinux(rd, b.initrd)
      fits == load.at # 0 /\ (b.initrd = 0 \/ rd.at # 0)
  IN  /\ linux = "no"
      /\ fits => Pages4(B).new # {}
      /\ ram' = IF load.at = 0 THEN A ELSE IF fits THEN Pages4(B) ELSE B
      /\ linux' = IF fits THEN "booted" ELSE "no memory"
      /\ UNCHANGED <<machine, file, mem, pos>>

HeapNext ==
  \/ \E total \in machine.totals : KmallocCall(total)
  \/ \E block \in ram.owned : KfreeCall(block) \/ GivePage(block)
  \/ machine.totals # {} /\ (TakePage \/ FsImportK0)
  \/ \E b \in machine.boots : BootLinux(b)

Next ==
  /\ linux # "booted"
  /\ \/ (FileNext \/ HeapNext) /\ UNCHANGED diskVars
     \/ DiskNext(machine.io) /\ UNCHANGED dataVars

Spec == Init /\ [][Next]_vars

(***************************************************************************)
(* Properties.                                                             *)
(***************************************************************************)

DataTypeOK ==
  /\ file.size \in Offsets /\ pos \in [Opens -> Offsets]
  /\ file.slots \in [Keys -> Nat] /\ \A p \in DOMAIN mem : mem[p] \in [0..Page - 1 -> Bytes]
  /\ ram.used \in Nat /\ \A p \in ram.free : p % Page = 0
  /\ \A r \in ram.new : r.start % Page = 0 /\ r.start <= r.end
  /\ bounce \in [0..Chunk * Sect - 1 -> Bytes]

\* Whatever was taken and given back, as pages, chunks and blocks, across the
\* regions, the import and an attempt to start Linux: nothing is handed out twice
\* or on two lists, and none of it is K1's or, before the import, K0's (mm.c 38-194).
MemoryApart == Apart(ram)

\* mem_used, which sysinfo and statfs report, is what is taken (mm.c 117-185, fs.c 713).
MemoryCounted == UsedIs(ram)

\* The file's pages are exactly the ones it was given and has not given back, each
\* in one slot, of a table that is itself in the tree: a truncation leaks none and
\* keeps none (fs.c 138-177).
PagesHeld ==
  LET used == {key \in Keys : file.slots[key] # 0}
  IN  /\ {b.at : b \in {c \in ram.owned : c.how = "page"}} = {file.slots[key] : key \in used}
      /\ \A j, k \in used : j # k => file.slots[j] # file.slots[k]
      /\ \A j \in used, k \in Keys : IsUnder(j, k) => k \in used

\* The bytes in pages are a file of bytes: holes and what a truncation cut off read
\* as zero when the file grows again, and an append lands at the end.
File == INSTANCE ByteFile WITH Vals <- Bytes, size <- file.size,
          bytes <- [o \in Offsets |-> IF o < file.size THEN ByteAt(o) ELSE 0]
ImplementsFile == File!Spec

=============================================================================
