------------------------------ MODULE K1Alloc ------------------------------
(***************************************************************************)
(* K1's physical memory (mm.c 14-194): the RAM the firmware's map leaves   *)
(* after what K0 and K1 occupy, a bump pointer over it, the list of free   *)
(* pages, and kmalloc's lists of chunks and of larger blocks.              *)
(*                                                                         *)
(* The allocator's state is one value, A, for the callers take several     *)
(* pages in one step.  The lists are sets: which free page comes next is   *)
(* the lowest.  Memory is counted in the least chunk (32 bytes in K1).     *)
(* Where the code panics for want of memory there is no step.              *)
(***************************************************************************)
EXTENDS Integers, FiniteSets, FiniteSetsExt

CONSTANTS
  Page,         \* the size of a page
  Classes,      \* the sizes of chunks (powers of two up to a page)
  BigMax,       \* the most pages of a block that is reused whole (1024)
  MaxReg,       \* RAM regions (40)
  LowEnd,       \* the end of the low memory that is K1's (4 MiB)
  FsImg, FsEnd, \* K0's boot image and file heap
  MmapArea, K0Bump  \* K0's mmap area

ASSUME AllocAssumption ==
  /\ Page \in Nat \ {0} /\ BigMax \in Nat /\ MaxReg \in Nat \ {0} /\ K0Bump \in Nat
  /\ Classes \subseteq {c \in 1..Page : Page % c = 0} /\ Page \in Classes
  /\ {LowEnd, FsImg, FsEnd, MmapArea} \subseteq Nat
  /\ 0 < LowEnd /\ LowEnd <= FsImg /\ FsImg <= FsEnd /\ FsEnd < MmapArea
  /\ FsImg % Page = 0 /\ MmapArea % Page = 0

AlignDn(x, a) == x - (x % a)
AlignUp(x, a) == AlignDn(x + a - 1, a)
Largest(x, y) == IF x < y THEN y ELSE x

Units(at, len) == at..(at + len - 1)

(***************************************************************************)
(* The regions.                                                            *)
(***************************************************************************)

\* What one entry of the firmware's map is cut into, in order; a part that the
\* code does not add is empty here.
Cut(entry) ==
  LET e == entry.addr + entry.len
      s0 == Largest(entry.addr, LowEnd)
      image == s0 < FsImg /\ e > FsImg
      s1 == Largest(IF image THEN FsImg ELSE s0, FsEnd)
      area == s1 < MmapArea /\ e > MmapArea /\ K0Bump > MmapArea
  IN  <<[start |-> s0, end |-> IF image THEN FsImg ELSE s0],
        [start |-> s1, end |-> IF area THEN MmapArea ELSE s1],
        [start |-> IF area THEN K0Bump ELSE s1, end |-> e]>>

RegAdd(r) == [start |-> AlignUp(r.start, Page), end |-> AlignDn(r.end, Page)]

\* The parts <<entry, part>> of an e820 map that have a page, and those before x.
PartAt(e820, x) == RegAdd(Cut(e820[x[1]])[x[2]])
Parts(e820) == {x \in (DOMAIN e820) \X (1..3) :
  e820[x[1]].type = 1 /\ PartAt(e820, x).start < PartAt(e820, x).end}
Before(e820, x) == {y \in Parts(e820) : y[1] < x[1] \/ (y[1] = x[1] /\ y[2] < x[2])}

\* The regions for an e820 map: as many as there is room for.
Regions(e820) ==
  {PartAt(e820, x) : x \in {y \in Parts(e820) : Cardinality(Before(e820, y)) < MaxReg}}

\* What is assumed of the map: the firmware names RAM once, and none of it begins
\* inside K0's mmap area.
MapOK(e820) ==
  /\ \A k \in DOMAIN e820 : e820[k].addr \in Nat /\ e820[k].len \in Nat
  /\ \A k \in DOMAIN e820 : e820[k].type = 1 => ~(e820[k].addr \in Units(MmapArea, K0Bump - MmapArea))
  /\ \A j, k \in DOMAIN e820 : j # k /\ e820[j].type = 1 /\ e820[k].type = 1 =>
       e820[j].addr + e820[j].len <= e820[k].addr \/ e820[k].addr + e820[k].len <= e820[j].addr

\* phys_init.  `new` is the current region from the bump pointer on, and the
\* regions above it.
PhysInit(e820) ==
  [new |-> Regions(e820), free |-> {}, chunks |-> [size \in Classes |-> {}],
   big |-> [n \in 1..BigMax |-> {}], used |-> 0, imported |-> FALSE, owned |-> {}]

(***************************************************************************)
(* Taking memory: each of these gives where it is, 0 for nowhere, and the  *)
(* allocator afterwards.                                                   *)
(***************************************************************************)

Lowest(regs) == CHOOSE r \in regs : \A s \in regs : r.start <= s.start

\* The bump pointer at `at`, in region r: what is left below is lost.
BumpTo(A, r, at) ==
  [A EXCEPT !.new = {[start |-> at, end |-> r.end]} \cup {s \in @ : s.start > r.start}]

\* n pages from the first region that has them.
Pbump(A, n) ==
  LET fits == {r \in A.new : r.start + n * Page <= r.end}
      r == Lowest(fits)
  IN  IF fits = {} THEN [at |-> 0, ram |-> A]
      ELSE [at |-> r.start, ram |-> BumpTo(A, r, r.start + n * Page)]

\* Memory for Linux: any alignment, at least `min`.  When there is none, the
\* regions have been passed all the same.
PallocContig(A, len, align, min) ==
  LET from(r) == AlignUp(Largest(r.start, min), align)
      fits == {r \in A.new : from(r) + len <= r.end}
      r == Lowest(fits)
  IN  IF fits = {} THEN [at |-> 0, ram |-> [A EXCEPT !.new = {}]]
      ELSE [at |-> from(r), ram |-> BumpTo(A, r, from(r) + AlignUp(len, Page))]

Palloc(A) ==
  LET got == IF A.free # {}
             THEN [at |-> Min(A.free), ram |-> [A EXCEPT !.free = @ \ {Min(A.free)}]]
             ELSE Pbump(A, 1)
  IN  [got EXCEPT !.ram.used = @ + Page]

\* The pages in P go back to the list.
PfreeAll(A, P, n) == [A EXCEPT !.free = @ \cup P, !.used = @ - n * Page]
Pfree(A, p) == PfreeAll(A, {p}, 1)

\* (A mutant: the pages are given back without having been counted.)
ImportCountedNot(A, n) == A
ImportCounted(A, n) == [A EXCEPT !.used = @ + n * Page]

\* K0's image goes to the allocator once its files are imported: counted, then freed.
ImportK0(A) ==
  LET pages == {p \in FsImg..(AlignUp(FsEnd, Page) - 1) : p % Page = 0}
      n == Cardinality(pages)
  IN  [PfreeAll(ImportCounted(A, n), pages, n) EXCEPT !.imported = TRUE]

Pages(total) == AlignUp(total, Page) \div Page
ClassOf(total) == Min({c \in Classes : c >= total})

\* A block of more than a page: one given back of the same size, or new pages.
\* (A mutant: one that is reused is not counted again.)
Reused(A, n) == [at |-> Min(A.big[n]), ram |-> [A EXCEPT !.big[n] = @ \ {Min(@)}]]
Reusable(A, n) == n <= BigMax /\ A.big[n] # {}
BigAllocOnce(A, n) ==
  IF Reusable(A, n) THEN Reused(A, n) ELSE [Pbump(A, n) EXCEPT !.ram.used = @ + n * Page]
BigAlloc(A, n) ==
  [(IF Reusable(A, n) THEN Reused(A, n) ELSE Pbump(A, n)) EXCEPT !.ram.used = @ + n * Page]

\* A chunk of its class; a new page is cut up when there is none.
ChunkAlloc(A, size) ==
  LET page == Palloc(A)
      cut == {page.at + k * size : k \in 0..(Page \div size) - 1}
      B == IF A.chunks[size] # {} THEN A ELSE [page.ram EXCEPT !.chunks[size] = cut]
      at == Min(B.chunks[size])
  IN  IF A.chunks[size] = {} /\ page.at = 0 THEN page
      ELSE [at |-> at, ram |-> [B EXCEPT !.chunks[size] = @ \ {at}]]

\* kmalloc of `total` units, its header included.
Kmalloc(A, total) ==
  IF total > Page THEN BigAlloc(A, Pages(total)) ELSE ChunkAlloc(A, ClassOf(total))

\* (A mutant: a block goes back to the list for one page more.)
BigFreeMore(A, at, n) ==
  IF n < BigMax THEN [A EXCEPT !.big[n + 1] = @ \cup {at}, !.used = @ - n * Page]
  ELSE PfreeAll(A, {at + i * Page : i \in 0..n - 1}, n)
BigFree(A, at, n) ==
  IF n <= BigMax THEN [A EXCEPT !.big[n] = @ \cup {at}, !.used = @ - n * Page]
  ELSE PfreeAll(A, {at + i * Page : i \in 0..n - 1}, n)

Kfree(A, at, total) ==
  IF total > Page THEN BigFree(A, at, Pages(total))
  ELSE [A EXCEPT !.chunks[ClassOf(total)] = @ \cup {at}]

(***************************************************************************)
(* Who has what: `owned` is for the properties.                            *)
(***************************************************************************)

Own(got, len, how) == [got.ram EXCEPT !.owned = @ \cup {[at |-> got.at, len |-> len, how |-> how]}]
ForLinux(got, len) == IF got.at = 0 THEN got.ram ELSE Own(got, len, "linux")
Disown(A, block) == [A EXCEPT !.owned = @ \ {block}]

\* The memory that is nobody's: on a list, or not reached by the bump pointer.
FreeBlocks(A) ==
  {[at |-> p, len |-> Page, how |-> "free page"] : p \in A.free}
  \cup (UNION {{[at |-> p, len |-> size, how |-> "free chunk"] : p \in A.chunks[size]} : size \in Classes})
  \cup (UNION {{[at |-> p, len |-> n * Page, how |-> "free block"] : p \in A.big[n]} : n \in 1..BigMax})
  \cup {[at |-> r.start, len |-> r.end - r.start, how |-> "new"] : r \in A.new}

KeptOut(A) == Units(0, LowEnd) \cup Units(MmapArea, K0Bump - MmapArea)
              \cup (IF A.imported THEN {} ELSE Units(FsImg, FsEnd - FsImg))

\* No piece of memory has two owners, or an owner and a place on a free list, or
\* two such places; and none of it is K1's, or K0's while K0's is needed.
Clear(b, c) == b.at + b.len <= c.at \/ c.at + c.len <= b.at
Apart(A) ==
  LET blocks == A.owned \cup FreeBlocks(A)
  IN  /\ \A b, c \in blocks : b # c => Clear(b, c)
      /\ \A b \in blocks : Units(b.at, b.len) \cap KeptOut(A) = {}

\* mem_used is the memory that was taken and not given back: pages, blocks, and
\* the pages that were cut into chunks.
Counted(A) ==
  {b \in A.owned : b.how \in {"page", "table", "block"}}
  \cup {b \in A.owned \cup FreeBlocks(A) : b.how \in {"chunk", "free chunk"}}
UsedIs(A) == A.used = Cardinality(UNION {Units(b.at, b.len) : b \in Counted(A)})

=============================================================================
