-------------------------------- MODULE K1Vm --------------------------------
(***************************************************************************)
(* Address spaces of the K1 kernel (k1/mm.c, and the parts of fork, exec   *)
(* and exit in k1/proc.c that make and free them).                         *)
(*                                                                         *)
(* An address is a page number, and every call works on whole pages but    *)
(* brk(2), which counts half pages.  Sums of addresses and lengths wrap    *)
(* round at MaxAddr, as 64-bit numbers do.  Of a page table only its last  *)
(* level is kept, and of a physical page the one value it holds.           *)
(***************************************************************************)
EXTENDS Integers, Functions, FiniteSetsExt

CONSTANTS
  Procs, Mms,         \* processes (1 is init) and struct mms that exist at once
  MaxPage,            \* one past the last page of user space
  MaxAddr,            \* page numbers there are, where they wrap round (2^52)
  MaxFrame,           \* physical pages
  LowPage, HighPage,  \* range_free's limits
  FirstPage,          \* the first page pte_get walks to (0x400000)
  MmapTop,            \* mm_new's mmap_top
  Vals,               \* what a page may hold: 0 is zeroes, 1 a file's bytes
  Images,             \* programs, see ImagesAssumption
  Machines,           \* machines: their pages and what programs ask for, see VmAssumption
  FileProts           \* the protections they map files with

Pages == 0..MaxPage - 1
Frames == 1..MaxFrame

ASSUME VmAssumption ==
  /\ {MaxPage, MaxAddr, MaxFrame, LowPage, HighPage, FirstPage, MmapTop} \subseteq Nat
  /\ Mms \subseteq Nat \ {0} /\ 1 \in Mms /\ 1 \in Procs /\ IsFiniteSet(Procs)
  /\ \A u \in Machines : /\ u.addrs \cup u.lens \subseteq 0..MaxAddr - 1
                      /\ u.prots \subseteq 0..7 /\ u.brks \subseteq Nat
                      /\ u.pages \in 1..MaxFrame
                      /\ u.files \subseteq Nat     \* lengths, 0 for MAP_ANON
  /\ FileProts \subseteq 0..7 /\ {0, 1} \subseteq Vals
  /\ LowPage <= FirstPage /\ MmapTop <= HighPage /\ HighPage <= MaxPage /\ MaxPage < MaxAddr

\* A program is the areas its segments make, of which filled pages hold bytes of
\* the file (load_elf), and its stack, whose top page holds the arguments.  Areas
\* that touch are one area (mm_map joins them), and none begins below 4 MiB.
Areas(im) == im.segs \cup {im.stack}
ASSUME ImagesAssumption == \A im \in Images :
  /\ im.segs # {} /\ IsFiniteSet(im.segs)
  /\ \A a \in Areas(im) : /\ a.start \in Nat /\ a.end \in Nat /\ a.filled \subseteq a.start..a.end - 1
                         /\ FirstPage <= a.start /\ a.start < a.end /\ a.end <= MaxPage
  /\ \A a, b \in Areas(im) : a # b => a.end < b.start \/ b.end < a.start

VARIABLES
  machine,      \* this machine
  current,      \* cur
  mmOf,         \* p->mm, 0 for none
  mms,          \* struct mm: refs, vmas, pt (the page table), brk0, brk, top
  frames,       \* what physical pages hold
  free,         \* the free physical pages
  stale         \* pages the TLB may give more rights to than the page table

vmVars == <<machine, current, mmOf, mms, frames, free, stale>>

NoPte == [frame |-> 0, w |-> FALSE, u |-> FALSE]
NoTable == [va \in Pages |-> NoPte]
NoMm == [refs |-> 0, vmas |-> {}, pt |-> NoTable, brk0 |-> 0, brk |-> 0, top |-> 0]

m == mmOf[current]
mm == mms[m]

\* The end of a range that a call names.
End(addr, len) == (addr + len) % MaxAddr

(* ---- VMAs ---- *)

\* The list of VMAs is a set: a VMA is only put where there is none, so no two
\* are alike, and with VmasDisjoint the first that vma_find meets is the only one.
Vma == [start : Pages, end : 1..MaxPage, prot : 0..7]

Inside(v, va) == v.start <= va /\ va < v.end
Mapped(vs, va) == \E v \in vs : Inside(v, va)
FindVma(vs, va) == CHOOSE v \in vs : Inside(v, va)
Overlaps(v, s, e) == v.start < e /\ v.end > s
RangeClearAtStart(vs, s, e) == \A v \in vs : ~Inside(v, s)   \* the end forgotten
RangeClear(vs, s, e) == \A v \in vs : ~Overlaps(v, s, e)

\* mm_unmap: a VMA in the way keeps what it has before s and after e.
VmasWithout(vs, s, e) ==
  {v \in vs : ~Overlaps(v, s, e)}
  \cup {[v EXCEPT !.end = s] : v \in {x \in vs : Overlaps(x, s, e) /\ x.start < s}}
  \cup {[v EXCEPT !.start = e] : v \in {x \in vs : Overlaps(x, s, e) /\ x.end > e}}

\* mm_map: extend the VMA that ends there with the same protection.
Extendable(vs, s, prot) == {v \in vs : v.end = s /\ v.prot = prot}
Extended(vs, v, e) == (vs \ {v}) \cup {[v EXCEPT !.end = e]}
VmasWith(vs, s, e, prot) ==
  IF Extendable(vs, s, prot) = {} THEN vs \cup {[start |-> s, end |-> e, prot |-> prot]}
  ELSE Extended(vs, CHOOSE v \in Extendable(vs, s, prot) : TRUE, e)

Straddles(v, at) == v.start < at /\ at < v.end
VmasSplit(vs, at) ==
  {v \in vs : ~Straddles(v, at)}
  \cup {[v EXCEPT !.end = at] : v \in {x \in vs : Straddles(x, at)}}
  \cup {[v EXCEPT !.start = at] : v \in {x \in vs : Straddles(x, at)}}

VmasProtected(vs, s, e, prot) ==
  {IF v.start >= s /\ v.end <= e THEN [v EXCEPT !.prot = prot] ELSE v :
     v \in VmasSplit(VmasSplit(vs, s), e)}

UserRange(s, e) == e > s /\ s >= LowPage /\ e <= HighPage
RangeFree(vs, s, e) == UserRange(s, e) /\ RangeClear(vs, s, e)

\* The loop of top_alloc steps under each VMA in its way: it ends at the
\* highest clear place at or below mmap_top.  Where there is none the code takes
\* an address that wraps round, and no outcome is modelled.
Below(top, vs, len) == {va \in Pages : va + len <= top /\ RangeClear(vs, va, va + len)}
TopAlloc(top, vs, len) == {va \in Below(top, vs, len) : \A x \in Below(top, vs, len) : x <= va}

(* ---- page tables ---- *)

Walkable(va) == FirstPage <= va /\ va < MaxPage
Present(pt, va) == pt[va].frame # 0
ProtBitsWritable(prot) == [w |-> TRUE, u |-> prot # 0]    \* read-only forgotten
ProtBits(prot) == [w |-> prot \in {2, 3, 6, 7}, u |-> prot # 0]
WithBits(e, prot) == [frame |-> e.frame, w |-> ProtBits(prot).w, u |-> ProtBits(prot).u]
Entry(f, prot) == WithBits([frame |-> f], prot)
FramesOf(pt, range) == {pt[va].frame : va \in {x \in range \cap Pages : Present(pt, x)}}

\* The free pages palloc gives to each of the addresses vas.  The order of the
\* free list is abstracted from: free pages hold nothing, so any will do.
Palloc(from, vas) == CHOOSE got \in Injection(vas, from) : TRUE
Enough(from, vas) == ExistsInjection(vas, from)
Taken(got) == Range(got)
Holding(fs, got) == [f \in Frames |-> IF f \in Taken(got) THEN 1 ELSE fs[f]]

\* palloc clears the page; pfree writes the link of the free list into it.
ZeroedNot(f) == frames         \* palloc without its memset
Zeroed(f) == [frames EXCEPT ![f] = 0]
Link == -1
Pfree(fs) ==
  /\ free' = free \cup fs
  /\ frames' = [f \in Frames |-> IF f \in fs THEN Link ELSE frames[f]]

Allows(e, write) == e.frame # 0 /\ e.u /\ (write => e.w)

\* The CPU may keep any translation it has used until CR3 is loaded: a page
\* whose entry loses its frame or a right meanwhile becomes stale.
FlushTlb == stale' = {}
KeepTlb(new) == stale' = stale \cup
  {va \in Pages : /\ Present(mm.pt, va)
                  /\ \/ new.pt[va].frame # mm.pt[va].frame
                     \/ mm.pt[va].w /\ ~new.pt[va].w
                     \/ mm.pt[va].u /\ ~new.pt[va].u}

\* copy_to_mm: an absent page is made writable by the user, whatever the VMA
\* says.
CopyTo(pt, got) ==
  [x \in Pages |-> IF x \in DOMAIN got THEN Entry(got[x], 7) ELSE pt[x]]

TableWithout(pt, s, e) ==
  [va \in Pages |-> IF va \in s..e - 1 THEN NoPte ELSE pt[va]]

\* mm_unmap, as a change of the mm.
Without(mem, s, e) ==
  [mem EXCEPT !.vmas = VmasWithout(@, s, e), !.pt = TableWithout(@, s, e)]

\* What a call makes of the struct mm of its process.
Becomes(new) == mms' = [mms EXCEPT ![m] = new] /\ UNCHANGED <<current, mmOf>>

(* ---- states ---- *)

\* mm_new and load_elf, with the stack exec_inner adds.
LoadedVmas(im) == {[start |-> a.start, end |-> a.end, prot |-> 3] : a \in Areas(im)}
LoadedPages(im) == UNION {a.filled : a \in Areas(im)}
ImageBrk(im) == 2 * Max({a.end : a \in im.segs})
Loaded(im, got) ==
  [refs |-> 1, vmas |-> LoadedVmas(im), pt |-> CopyTo(NoTable, got),
   brk0 |-> ImageBrk(im), brk |-> ImageBrk(im), top |-> MmapTop]
VmInit == \E im \in Images :
  LET got == Palloc(1..machine.pages, LoadedPages(im))
  IN  /\ machine \in Machines /\ Enough(1..machine.pages, LoadedPages(im))
      /\ current = 1
      /\ mmOf = [p \in Procs |-> IF p = 1 THEN 1 ELSE 0]
      /\ mms = [i \in Mms |-> IF i = 1 THEN Loaded(im, got) ELSE NoMm]
      /\ frames = Holding([f \in Frames |-> Link], got)
      /\ free = 1..machine.pages \ Taken(got)
      /\ stale = {}

(* ---- memory accesses ---- *)

Uses(c) == c \in machine.calls /\ m # 0

\* A store the page table allows.  (A load changes nothing.)
Store(va, v) ==
  /\ m # 0 /\ Allows(mm.pt[va], TRUE)
  /\ frames' = [frames EXCEPT ![mm.pt[va].frame] = v]
  /\ UNCHANGED <<current, mmOf, mms, free, stale>>

\* mm_fault serves an access the page table does not allow: a new zero page,
\* or the bits of the VMA.  (When it refuses, nothing changes: SIGSEGV.)
Fault(va, write) ==
  /\ m # 0 /\ ~Allows(mm.pt[va], write) /\ Mapped(mm.vmas, va)
  /\ LET prot == FindVma(mm.vmas, va).prot
     IN  /\ Allows(Entry(1, prot), write) /\ Walkable(va)
         /\ \/ /\ Present(mm.pt, va)
               /\ Becomes([mm EXCEPT !.pt[va] = WithBits(@, prot)])
               /\ stale' = stale \ {va}
               /\ UNCHANGED <<frames, free>>
            \/ /\ ~Present(mm.pt, va) /\ free # {}
               /\ LET got == CHOOSE f \in free : TRUE
                  IN  /\ Becomes([mm EXCEPT !.pt[va] = Entry(got, prot)])
                      /\ frames' = Zeroed(got)
                      /\ free' = free \ {got}
               /\ UNCHANGED stale

(* ---- system calls ---- *)

\* sys_mmap once it has chosen va; over is the struct mm it maps into, room the
\* free pages.  A file's bytes go only where pte_get can (copy_to_mm).
MapAt(over, top, va, len, prot, flen) ==
  LET room == free \cup FramesOf(mm.pt, va..End(va, len) - 1)
      filled == {x \in {End(va, i) : i \in 0..Min({len, flen}) - 1} : Walkable(x)}
      got == Palloc(room, filled)
  IN  /\ Enough(room, filled)
      /\ Becomes([over EXCEPT !.vmas = VmasWith(@, va, End(va, len), prot),
                              !.pt = CopyTo(@, got), !.top = top])
      /\ frames' = Holding([f \in Frames |-> IF f \in room THEN Link ELSE frames[f]], got)
      /\ free' = room \ Taken(got)

FileOr(prot, flen) == flen > 0 => prot \in FileProts

MmapFixed(addr, len, prot, flen) ==
  /\ Uses("fixed") /\ FileOr(prot, flen)
  /\ MapAt(Without(mm, addr, End(addr, len)), mm.top, addr, len, prot, flen)
  /\ FlushTlb
MmapHint(addr, len, prot, flen) ==
  /\ Uses("hint") /\ FileOr(prot, flen) /\ RangeFree(mm.vmas, addr, End(addr, len))
  /\ MapAt(mm, mm.top, addr, len, prot, flen)
  /\ KeepTlb(mms'[m])
MmapTopDown(len, prot, flen) ==
  /\ Uses("mmap") /\ FileOr(prot, flen)
  /\ \E va \in TopAlloc(mm.top, mm.vmas, len) : MapAt(mm, va, va, len, prot, flen)
  /\ KeepTlb(mms'[m])

UnmappingNoFlush(mem, s, e) ==       \* CR3 not loaded
  /\ Becomes(Without(mem, s, e))
  /\ Pfree(FramesOf(mem.pt, s..e - 1))
  /\ KeepTlb(mms'[m])
Unmapping(mem, s, e) ==
  /\ Becomes(Without(mem, s, e))
  /\ Pfree(FramesOf(mem.pt, s..e - 1))
  /\ FlushTlb

Munmap(addr, len) ==
  Uses("munmap") /\ Unmapping(mm, addr, End(addr, len))

Mprotect(addr, len, prot) ==
  /\ Uses("mprotect")
  /\ Becomes([mm EXCEPT
       !.vmas = VmasProtected(@, addr, End(addr, len), prot),
       !.pt = [va \in Pages |-> IF va \in addr..End(addr, len) - 1 /\ Present(@, va)
                                THEN WithBits(@[va], prot) ELSE @[va]]])
  /\ FlushTlb
  /\ UNCHANGED <<frames, free>>

\* The code does not look whether the mapping goes on to old + olen, as Linux
\* does: calls that name more than the mapping has are left out.
Remappable(old, olen) == Mapped(mm.vmas, old) /\ old + olen <= FindVma(mm.vmas, old).end
MayGrow(old, olen, nlen) ==
  /\ FindVma(mm.vmas, old).end = old + olen
  /\ RangeClear(mm.vmas, old + olen, End(old, nlen))

MremapShrink(old, olen, nlen) ==
  /\ Uses("mremap") /\ Remappable(old, olen) /\ nlen < olen
  /\ Unmapping(mm, old + nlen, old + olen)
MremapGrow(old, olen, nlen) ==
  /\ Uses("mremap") /\ Remappable(old, olen) /\ nlen > olen /\ MayGrow(old, olen, nlen)
  /\ Becomes([mm EXCEPT !.vmas = Extended(@, FindVma(@, old), End(old, nlen))])
  /\ KeepTlb(mms'[m])
  /\ UNCHANGED <<frames, free>>
\* The pages move without a copy: their entries leave the old place, so that
\* mm_unmap does not free them.  A page that goes where pte_get cannot is stored
\* through NULL in the code: no outcome is modelled.
MovedKept(pt, old, olen, va) ==     \* the old entries stay
  [x \in Pages |-> IF va <= x /\ x < va + olen THEN pt[old + x - va] ELSE pt[x]]
Moved(pt, old, olen, va) ==
  [x \in Pages |-> IF va <= x /\ x < va + olen THEN pt[old + x - va]
                   ELSE IF old <= x /\ x < old + olen THEN NoPte ELSE pt[x]]
MremapMove(old, olen, nlen) ==
  /\ Uses("mremap") /\ Remappable(old, olen) /\ nlen > olen /\ ~MayGrow(old, olen, nlen)
  /\ \E va \in TopAlloc(mm.top, mm.vmas, nlen) :
       /\ \A x \in {y \in Pages : old <= y /\ y < old + olen} :
            Present(mm.pt, x) => Walkable(va + x - old)
       /\ Unmapping([mm EXCEPT !.vmas = VmasWith(@, va, va + nlen, FindVma(@, old).prot),
                               !.pt = Moved(@, old, olen, va), !.top = va],
                    old, old + olen)

PageUp(b) == ((b + 1) \div 2) % MaxAddr
BrkShrink(b) ==
  /\ Uses("brk") /\ b >= mm.brk0 /\ PageUp(b) < PageUp(mm.brk)
  /\ Unmapping([mm EXCEPT !.brk = b], PageUp(b), PageUp(mm.brk))
BrkInPage(b) ==
  /\ Uses("brk") /\ b >= mm.brk0 /\ PageUp(b) = PageUp(mm.brk)
  /\ Becomes([mm EXCEPT !.brk = b])
  /\ UNCHANGED <<frames, free, stale>>
BrkGrow(b) ==
  /\ Uses("brk") /\ b >= mm.brk0 /\ PageUp(b) > PageUp(mm.brk)
  /\ RangeFree(mm.vmas, PageUp(mm.brk), PageUp(b))
  /\ Becomes([mm EXCEPT !.brk = b, !.vmas = VmasWith(@, PageUp(mm.brk), PageUp(b), 3)])
  /\ KeepTlb(mms'[m])
  /\ UNCHANGED <<frames, free>>

(* ---- processes ---- *)

\* mm_free of the current process's mm, after p's moves to `next`: its pages
\* go when the last user leaves.
Dropped(i) == [mms[i] EXCEPT !.refs = @ - 1]
AfterDropAlways(i) == NoMm      \* refs forgotten
AfterDrop(i) == IF Dropped(i).refs > 0 THEN Dropped(i) ELSE NoMm
FreedBy(i) == IF Dropped(i).refs > 0 THEN {} ELSE FramesOf(mms[i].pt, Pages)

\* mm_copy: every present page is copied, with its bits.
Fork(c, n) ==
  /\ Uses("fork") /\ mmOf[c] = 0 /\ mms[n] = NoMm
  /\ LET have == {va \in Pages : Present(mm.pt, va)}
         got == Palloc(free, have)
     IN  /\ Enough(free, have)
         /\ mms' = [mms EXCEPT ![n] = [mm EXCEPT !.refs = 1,
              !.pt = [va \in Pages |-> IF va \in have THEN [@[va] EXCEPT !.frame = got[va]]
                                       ELSE NoPte]]]
         /\ frames' = [f \in Frames |-> IF f \in Taken(got)
                         THEN frames[mm.pt[CHOOSE va \in have : got[va] = f].frame]
                         ELSE frames[f]]
         /\ free' = free \ Taken(got)
  /\ mmOf' = [mmOf EXCEPT ![c] = n]
  /\ UNCHANGED <<current, stale>>
VFork(c) ==
  /\ Uses("vfork") /\ mmOf[c] = 0
  /\ mms' = [mms EXCEPT ![m].refs = @ + 1]
  /\ mmOf' = [mmOf EXCEPT ![c] = m]
  /\ UNCHANGED <<current, frames, free, stale>>

\* The new space is made before the old one is dropped: both need room.
Exec(im, n) ==
  /\ Uses("exec") /\ mms[n] = NoMm /\ Enough(free, LoadedPages(im))
  /\ LET got == Palloc(free, LoadedPages(im))
     IN  /\ mms' = [mms EXCEPT ![n] = Loaded(im, got), ![m] = AfterDrop(m)]
         /\ frames' = Holding([f \in Frames |-> IF f \in FreedBy(m) THEN Link ELSE frames[f]], got)
         /\ free' = (free \ Taken(got)) \cup FreedBy(m)
  /\ mmOf' = [mmOf EXCEPT ![current] = n]
  /\ FlushTlb
  /\ UNCHANGED current

\* do_exit (init's ends the machine) and switch_to: schedule() loads another process's tables.
Exit ==
  /\ Uses("exit") /\ current # 1
  /\ mms' = [mms EXCEPT ![m] = AfterDrop(m)]
  /\ Pfree(FreedBy(m))
  /\ mmOf' = [mmOf EXCEPT ![current] = 0]
  /\ FlushTlb
  /\ UNCHANGED current
Switch(p) ==
  /\ p # current /\ mmOf[p] # 0
  /\ current' = p
  /\ FlushTlb
  /\ UNCHANGED <<mmOf, mms, frames, free>>

VmNext ==
  /\ \/ \E va \in Pages : (\E v \in Vals \ {0} : Store(va, v)) \/ \E w \in BOOLEAN : Fault(va, w)
     \/ \E a \in machine.addrs, n \in machine.lens :
          Munmap(a, n) \/ \E prot \in machine.prots : Mprotect(a, n, prot)
     \/ \E n \in machine.lens, prot \in machine.prots, f \in machine.files :
          \/ MmapTopDown(n, prot, f)
          \/ \E a \in machine.addrs : MmapFixed(a, n, prot, f) \/ MmapHint(a, n, prot, f)
     \/ \E a \in machine.addrs, o, n \in machine.lens :
          MremapShrink(a, o, n) \/ MremapGrow(a, o, n) \/ MremapMove(a, o, n)
     \/ \E b \in machine.brks : BrkShrink(b) \/ BrkInPage(b) \/ BrkGrow(b)
     \/ \E c \in Procs : VFork(c) \/ Switch(c) \/ \E n \in Mms : Fork(c, n)
     \/ \E im \in Images, n \in Mms : Exec(im, n)
     \/ Exit
  /\ UNCHANGED machine

VmSpec == VmInit /\ [][VmNext]_vmVars

(* ---- properties ---- *)

Pte == [frame : Frames \cup {0}, w : BOOLEAN, u : BOOLEAN]
Mm == [refs : Nat, vmas : SUBSET Vma, pt : [Pages -> Pte],
       brk0 : Nat, brk : Nat, top : 0..MaxPage]

\* Types, no VMA is empty, and refs counts the processes of a struct mm.
VmTypeOK ==
  /\ machine \in Machines /\ current \in Procs /\ mmOf \in [Procs -> Mms \cup {0}]
  /\ mms \in [Mms -> Mm] /\ frames \in [Frames -> Vals \cup {Link}]
  /\ free \subseteq 1..machine.pages /\ stale \subseteq Pages
  /\ \A i \in Mms :
       /\ mms[i].refs = Cardinality({p \in Procs : mmOf[p] = i})
       /\ \A v \in mms[i].vmas : v.start < v.end

\* However calls split, trim, extend and move mappings (mm_unmap, mm_map,
\* vma_split), a page is in one VMA at most: vma_find's answer is the answer.
VmasDisjoint ==
  \A i \in Mms : \A v, w \in mms[i].vmas : v # w => ~Overlaps(v, w.start, w.end)

\* "PROT_NONE pages are present but not user-accessible; read-only pages lack
\* W" (mm.c:319): the hardware never allows what the mapping does not, and no
\* page is left where there is no mapping.
EntriesMatch ==
  \A i \in Mms, va \in Pages : Present(mms[i].pt, va) =>
    /\ Mapped(mms[i].vmas, va)
    /\ mms[i].pt[va].u => FindVma(mms[i].vmas, va).prot # 0
    /\ mms[i].pt[va].w => FindVma(mms[i].vmas, va).prot \in {2, 3, 6, 7}

\* Every physical page is free or in one entry of one page table, through
\* copies, moves and the last user of a shared struct mm leaving: none is
\* freed twice, leaked or seen by two spaces.
FramesOnce ==
  \A f \in 1..machine.pages :
    Cardinality({e \in Mms \X Pages : mms[e[1]].pt[e[2]].frame = f})
      = IF f \in free THEN 0 ELSE 1

\* Every call that takes a page or a right away flushes the TLB, so that the
\* CPU never gives a program what its page table no longer does.
TlbFresh == stale = {}

\* The mappings and page tables together are the memory a Unix program has.
NoPage == [prot |-> 8, val |-> 0]
MemoryOf(i) ==
  [va \in Pages |->
     IF Mapped(mms[i].vmas, va)
     THEN [prot |-> FindVma(mms[i].vmas, va).prot,
           val |-> IF Present(mms[i].pt, va) THEN frames[mms[i].pt[va].frame] ELSE 0]
     ELSE NoPage]
ProgramMemory(im) ==
  [va \in Pages |-> IF Mapped(LoadedVmas(im), va)
                    THEN [prot |-> 3, val |-> IF va \in LoadedPages(im) THEN 1 ELSE 0]
                    ELSE NoPage]
ProgramMemories == {ProgramMemory(im) : im \in Images}
MapProts == {3} \cup UNION {u.prots : u \in Machines}
Memory == [i \in Mms |-> MemoryOf(i)]
User == INSTANCE UserMemory WITH
  Spaces <- Mms, Programs <- ProgramMemories, Prots <- MapProts,
  Reach <- {va \in Pages : Walkable(va)}, space <- mmOf, mem <- Memory
ImplementsMemory == User!Spec

=============================================================================
