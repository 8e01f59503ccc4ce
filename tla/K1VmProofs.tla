----------------------------- MODULE K1VmProofs -----------------------------
(***************************************************************************)
(* Address spaces, for every program and number of processes and pages,    *)
(* and every machine whose programs name ranges of user space (RangesFit): *)
(* the VMAs are disjoint, no page is left without one, every physical page *)
(* is free or in one place, and the TLB is fresh; and with files that are  *)
(* mapped writable, the page tables allow no more than the VMAs do and a   *)
(* program sees the memory of UserMemory.                                  *)
(***************************************************************************)
EXTENDS K1Vm, FiniteSetTheorems, NaturalsInduction, TLAPS

(***************************************************************************)
(* Numbers.                                                                *)
(***************************************************************************)

LEMMA Least ==
  ASSUME NEW S \in SUBSET Nat, S # {}
  PROVE  \E x \in S : \A y \in S : x <= y
<1> DEFINE R == OpToRel(<, Nat)
<1>1. \A x, y \in Nat : x < y => <<x, y>> \in R
  BY Zenon DEF OpToRel
<1>2. IsWellFoundedOn(R, Nat)
  BY NatLessThanWellFounded, Zenon
<1> HIDE DEF R
<1>3. PICK x \in S : \A y \in S : ~ (<<y, x>> \in R)
  BY <1>2, WFMin
<1>4. S \subseteq Nat
  OBVIOUS
<1>5. \A y \in S : ~ (y < x)
  BY <1>1, <1>4, <1>3, Zenon
<1> QED BY <1>5, <1>4

\* The least bound of a bounded set is in it.
LEMMA Greatest ==
  ASSUME NEW S \in SUBSET Nat, S # {}, NEW b \in Nat, \A x \in S : x <= b
  PROVE  \E x \in S : \A y \in S : y <= x
<1> DEFINE Bounds == {n \in Nat : \A x \in S : x <= n}
<1>1. Bounds \in SUBSET Nat /\ b \in Bounds
  OBVIOUS
<1>2. PICK n \in Bounds : \A k \in Bounds : n <= k
  BY <1>1, Least
<1>3. n \in S
  <2> SUFFICES ASSUME n \notin S PROVE FALSE
    OBVIOUS
  <2>1. PICK z \in S : TRUE
    OBVIOUS
  <2>2. n \in Nat /\ \A x \in S : x \in Nat /\ x <= n /\ x # n
    BY <1>2
  <2>3. n - 1 \in Nat /\ \A x \in S : x <= n - 1
    BY <2>1, <2>2
  <2>4. n - 1 \in Bounds
    BY <2>3
  <2> QED BY <1>2, <2>2, <2>4
<1> QED BY <1>2, <1>3

LEMMA MaxFacts ==
  ASSUME NEW S \in SUBSET Nat, S # {}, NEW b \in Nat, \A x \in S : x <= b
  PROVE  Max(S) \in S /\ \A y \in S : y <= Max(S)
<1>1. \E x \in S : \A y \in S : x >= y
  <2>1. PICK x \in S : \A y \in S : y <= x
    BY Greatest
  <2> QED BY <2>1
<1> QED BY <1>1 DEF Max

LEMMA MinFacts ==
  ASSUME NEW S \in SUBSET Nat, S # {}
  PROVE  Min(S) \in S /\ \A y \in S : Min(S) <= y
BY Least, Zenon DEF Min

LEMMA MinOfTwo ==
  ASSUME NEW a \in Nat, NEW b \in Nat
  PROVE  Min({a, b}) \in Nat /\ Min({a, b}) <= a
<1>1. Min({a, b}) \in {a, b} /\ \A y \in {a, b} : Min({a, b}) <= y
  BY MinFacts
<1> QED BY <1>1

LEMMA Constants ==
  /\ MaxPage \in Nat /\ MaxFrame \in Nat /\ LowPage \in Nat /\ HighPage \in Nat
  /\ FirstPage \in Nat /\ MmapTop \in Nat
  /\ LowPage <= FirstPage /\ MmapTop <= HighPage /\ HighPage <= MaxPage
  /\ Mms \subseteq Nat \ {0} /\ 1 \in Mms /\ 1 \in Procs /\ IsFiniteSet(Procs)
  /\ 0 \in Vals /\ 1 \in Vals /\ MaxAddr \in Nat /\ MaxPage < MaxAddr
BY VmAssumption

LEMMA PageUpNat == \A b \in Nat : PageUp(b) \in Nat
BY Constants DEF PageUp

\* Ranges that end in user space do not wrap round.
LEMMA EndIs ==
  ASSUME NEW a \in Nat, NEW n \in Nat, a + n <= MaxPage
  PROVE  End(a, n) = a + n
BY Constants DEF End

(***************************************************************************)
(* VMAs.  VmasOK is VmasDisjoint and the types of one list; Gives says     *)
(* what it is for, and what each operation does to it.                     *)
(***************************************************************************)

VmasOK(vs) ==
  /\ vs \subseteq Vma
  /\ \A v \in vs : v.start < v.end
  /\ \A v, w \in vs : v # w => ~Overlaps(v, w.start, w.end)

Gives(vs, va, prot) == \E v \in vs : Inside(v, va) /\ v.prot = prot

\* A page is in one VMA at most, so vma_find's answer is the one.
LEMMA FoundIs ==
  ASSUME NEW vs, VmasOK(vs), NEW va \in Pages, NEW v \in vs, Inside(v, va)
  PROVE  FindVma(vs, va) = v
<1>1. FindVma(vs, va) \in vs /\ Inside(FindVma(vs, va), va)
  BY Zenon DEF FindVma
<1>2. \A x, y \in vs : x # y => ~(Inside(x, va) /\ Inside(y, va))
  BY Constants DEF VmasOK, Overlaps, Inside, Vma, Pages
<1> QED BY <1>1, <1>2

LEMMA MappedGives ==
  ASSUME NEW vs, VmasOK(vs), NEW va \in Pages, Mapped(vs, va)
  PROVE  /\ FindVma(vs, va) \in vs /\ Inside(FindVma(vs, va), va)
         /\ FindVma(vs, va).prot \in 0..7
         /\ \A p : Gives(vs, va, p) <=> p = FindVma(vs, va).prot
<1>1. FindVma(vs, va) \in vs /\ Inside(FindVma(vs, va), va)
  BY Zenon DEF FindVma, Mapped
<1>2. \A v \in vs : Inside(v, va) => v = FindVma(vs, va)
  BY FoundIs, Zenon
<1>3. FindVma(vs, va).prot \in 0..7
  BY <1>1 DEF VmasOK, Vma
<1> QED BY <1>1, <1>2, <1>3, Zenon DEF Gives

LEMMA GivesMapped == \A vs, va : Mapped(vs, va) <=> \E p : Gives(vs, va, p)
BY DEF Mapped, Gives

\* vma_find on one list and on another that gives the page the same.
LEMMA SameGiven ==
  ASSUME NEW vs, NEW ws, VmasOK(vs), VmasOK(ws), NEW va \in Pages,
         \A p : Gives(ws, va, p) <=> Gives(vs, va, p)
  PROVE  /\ Mapped(ws, va) <=> Mapped(vs, va)
         /\ Mapped(vs, va) => FindVma(ws, va).prot = FindVma(vs, va).prot
BY MappedGives, GivesMapped, Zenon

\* A VMA cut at its ends is a VMA.
LEMMA Cut ==
  ASSUME NEW v \in Vma, NEW s \in Nat, v.start < s, s < v.end
  PROVE  /\ [v EXCEPT !.end = s] = [start |-> v.start, end |-> s, prot |-> v.prot]
         /\ [v EXCEPT !.start = s] = [start |-> s, end |-> v.end, prot |-> v.prot]
         /\ [v EXCEPT !.end = s] \in Vma /\ [v EXCEPT !.start = s] \in Vma
BY Constants DEF Vma, Pages

\* mm_unmap (mm.c:382) takes the range from the list and nothing else.
LEMMA WithoutPieces ==
  ASSUME NEW vs, VmasOK(vs), NEW s \in Nat, NEW e \in Nat, s <= e,
         NEW w \in VmasWithout(vs, s, e)
  PROVE  /\ w \in Vma /\ w.start < w.end /\ (w.end <= s \/ e <= w.start)
         /\ \E v \in vs : /\ v.start <= w.start /\ w.end <= v.end /\ w.prot = v.prot
                          /\ w.end <= s => w.start = v.start /\ (w.end = v.end \/ w.end = s)
                          /\ e <= w.start => w.end = v.end /\ (w.start = v.start \/ w.start = e)
<1>0. \A v \in vs : v \in Vma /\ v.start < v.end /\ v.start \in Nat /\ v.end \in Nat
  BY Constants DEF VmasOK, Vma, Pages
<1>1. CASE w \in vs /\ ~Overlaps(w, s, e)
  BY <1>0, <1>1 DEF Overlaps
<1>2. CASE \E v \in vs : Overlaps(v, s, e) /\ v.start < s /\ w = [v EXCEPT !.end = s]
  <2>1. PICK v \in vs : Overlaps(v, s, e) /\ v.start < s /\ w = [v EXCEPT !.end = s]
    BY <1>2
  <2>2. v \in Vma /\ v.start \in Nat /\ v.end \in Nat /\ v.start < s /\ s < v.end
    BY <2>1, <1>0 DEF Overlaps
  <2>3. w \in Vma /\ w = [start |-> v.start, end |-> s, prot |-> v.prot]
    BY <2>1, <2>2, Cut
  <2>4. w.start = v.start /\ w.end = s /\ w.prot = v.prot
    BY <2>3
  <2>5. w \in Vma /\ v \in vs
    BY <2>3
  <2> QED BY <2>2, <2>4, <2>5
<1>3. CASE \E v \in vs : Overlaps(v, s, e) /\ v.end > e /\ w = [v EXCEPT !.start = e]
  <2>1. PICK v \in vs : Overlaps(v, s, e) /\ v.end > e /\ w = [v EXCEPT !.start = e]
    BY <1>3
  <2>2. v \in Vma /\ v.start \in Nat /\ v.end \in Nat /\ v.start < e /\ e < v.end
    BY <2>1, <1>0 DEF Overlaps
  <2>3. w \in Vma /\ w = [start |-> e, end |-> v.end, prot |-> v.prot]
    BY <2>1, <2>2, Cut
  <2>4. w.start = e /\ w.end = v.end /\ w.prot = v.prot
    BY <2>3
  <2>5. w \in Vma /\ v \in vs
    BY <2>3
  <2> QED BY <2>2, <2>4, <2>5
<1> QED BY <1>1, <1>2, <1>3 DEF VmasWithout

LEMMA WithoutOK ==
  ASSUME NEW vs, VmasOK(vs), NEW s \in Nat, NEW e \in Nat, s <= e
  PROVE  VmasOK(VmasWithout(vs, s, e)) /\ RangeClear(VmasWithout(vs, s, e), s, e)
<1> DEFINE new == VmasWithout(vs, s, e)
<1>1. \A w \in new : /\ w \in Vma /\ w.start < w.end /\ (w.end <= s \/ e <= w.start)
                     /\ w.start \in Nat /\ w.end \in Nat
  BY WithoutPieces, Constants DEF Vma, Pages
<1>2. ASSUME NEW x \in new, NEW y \in new, x # y
      PROVE  ~Overlaps(x, y.start, y.end)
  <2> HIDE DEF new
  <2>1. PICK v \in vs : /\ v.start <= x.start /\ x.end <= v.end /\ x.prot = v.prot
                        /\ x.end <= s => x.start = v.start /\ (x.end = v.end \/ x.end = s)
                        /\ e <= x.start => x.end = v.end /\ (x.start = v.start \/ x.start = e)
    BY WithoutPieces DEF new
  <2>2. PICK u \in vs : /\ u.start <= y.start /\ y.end <= u.end /\ y.prot = u.prot
                        /\ y.end <= s => y.start = u.start /\ (y.end = u.end \/ y.end = s)
                        /\ e <= y.start => y.end = u.end /\ (y.start = u.start \/ y.start = e)
    BY WithoutPieces DEF new
  <2>3. /\ v.start \in Nat /\ v.end \in Nat /\ u.start \in Nat /\ u.end \in Nat
        /\ x.start \in Nat /\ x.end \in Nat /\ y.start \in Nat /\ y.end \in Nat
    BY <1>1, Constants DEF VmasOK, Vma, Pages
  <2>4. CASE v # u
    <3>1. v.end <= u.start \/ u.end <= v.start
      BY <2>4, <2>3 DEF VmasOK, Overlaps
    <3> QED BY <3>1, <2>1, <2>2, <2>3 DEF Overlaps
  <2>5. CASE v = u
    <3>1. x.end <= s /\ y.end <= s => x = y
      <4> SUFFICES ASSUME x.end <= s, y.end <= s PROVE x = y
        OBVIOUS
      <4>1. x.start = y.start /\ x.prot = y.prot
        BY <2>1, <2>2, <2>5
      <4>2. x.end = y.end
        BY <2>1, <2>2, <2>3, <2>5, <1>1
      <4> QED BY <4>1, <4>2, <1>1 DEF Vma
    <3>2. e <= x.start /\ e <= y.start => x = y
      <4> SUFFICES ASSUME e <= x.start, e <= y.start PROVE x = y
        OBVIOUS
      <4>1. x.end = y.end /\ x.prot = y.prot
        BY <2>1, <2>2, <2>5
      <4>2. x.start = y.start
        BY <2>1, <2>2, <2>3, <2>5, <1>1
      <4> QED BY <4>1, <4>2, <1>1 DEF Vma
    <3> QED BY <3>1, <3>2, <1>1, <1>2, <2>3 DEF Overlaps
  <2> QED BY <2>4, <2>5
<1> QED BY <1>1, <1>2 DEF VmasOK, RangeClear, Overlaps

LEMMA WithoutGives ==
  ASSUME NEW vs, VmasOK(vs), NEW s \in Nat, NEW e \in Nat, s <= e, NEW va \in Pages, NEW p
  PROVE  Gives(VmasWithout(vs, s, e), va, p) <=> Gives(vs, va, p) /\ va \notin s..e - 1
<1>0. va \in Nat
  BY Constants DEF Pages
<1>1. \A v \in vs : v \in Vma /\ v.start \in Nat /\ v.end \in Nat /\ v.start < v.end
  BY Constants DEF VmasOK, Vma, Pages
<1>2. ASSUME Gives(VmasWithout(vs, s, e), va, p)
      PROVE  Gives(vs, va, p) /\ va \notin s..e - 1
  <2>1. PICK w \in VmasWithout(vs, s, e) : Inside(w, va) /\ w.prot = p
    BY <1>2 DEF Gives
  <2>2. w \in Vma /\ w.start \in Nat /\ w.end \in Nat /\ (w.end <= s \/ e <= w.start)
    BY WithoutPieces, Constants DEF Vma, Pages
  <2>3. PICK v \in vs : v.start <= w.start /\ w.end <= v.end /\ w.prot = v.prot
    BY WithoutPieces
  <2>4. Inside(v, va)
    BY <2>1, <2>2, <2>3, <1>0, <1>1 DEF Inside
  <2> QED BY <2>1, <2>2, <2>3, <2>4, <1>0 DEF Gives, Inside
<1>3. ASSUME Gives(vs, va, p), va \notin s..e - 1
      PROVE  Gives(VmasWithout(vs, s, e), va, p)
  <2>1. PICK v \in vs : Inside(v, va) /\ v.prot = p
    BY <1>3 DEF Gives
  <2>0. v \in Vma /\ v.start \in Nat /\ v.end \in Nat /\ v.start <= va /\ va < v.end
    BY <2>1, <1>1 DEF Inside
  <2>2. CASE ~Overlaps(v, s, e)
    BY <2>1, <2>2 DEF Gives, VmasWithout
  <2>3. CASE Overlaps(v, s, e) /\ va < s
    <3>1. v.start < s /\ s < v.end
      BY <2>0, <2>3, <1>0 DEF Overlaps
    <3>2. [v EXCEPT !.end = s] \in VmasWithout(vs, s, e)
      BY <2>3, <3>1 DEF VmasWithout
    <3>3. Inside([v EXCEPT !.end = s], va) /\ [v EXCEPT !.end = s].prot = p
      BY <2>0, <2>1, <2>3 DEF Inside, Vma
    <3> QED BY <3>2, <3>3 DEF Gives
  <2>4. CASE Overlaps(v, s, e) /\ e <= va
    <3>0. v.end > e
      BY <2>0, <2>4, <1>0
    <3>1. [v EXCEPT !.start = e] \in VmasWithout(vs, s, e)
      BY <2>4, <3>0 DEF VmasWithout
    <3>2. Inside([v EXCEPT !.start = e], va) /\ [v EXCEPT !.start = e].prot = p
      BY <2>0, <2>1, <2>4 DEF Inside, Vma
    <3> QED BY <3>1, <3>2 DEF Gives
  <2> QED BY <2>2, <2>3, <2>4, <1>3, <1>0
<1> QED BY <1>2, <1>3

LEMMA SameVma ==
  ASSUME NEW x \in Vma, NEW y \in Vma, x.start = y.start, x.end = y.end, x.prot = y.prot
  PROVE  x = y
BY DEF Vma

\* mm_map and mremap add a range at the end of a VMA.
LEMMA ExtendedOK ==
  ASSUME NEW vs, VmasOK(vs), NEW v \in vs, NEW e \in 1..MaxPage, v.end < e,
         RangeClear(vs, v.end, e)
  PROVE  /\ VmasOK(Extended(vs, v, e))
         /\ \A va \in Pages : \A p :
              Gives(Extended(vs, v, e), va, p)
                <=> Gives(vs, va, p) \/ (va \in v.end..e - 1 /\ p = v.prot)
<1> DEFINE w == [v EXCEPT !.end = e]
<1>0. \A x \in vs : x \in Vma /\ x.start \in Nat /\ x.end \in Nat /\ x.start < x.end
  BY Constants DEF VmasOK, Vma, Pages
<1>1. w \in Vma /\ w.start = v.start /\ w.end = e /\ w.prot = v.prot
  BY <1>0 DEF Vma
<1>2. \A x \in vs \ {v} : x.end <= v.start \/ e <= x.start
  BY <1>0, Constants DEF VmasOK, RangeClear, Overlaps
<1>3. VmasOK(Extended(vs, v, e))
  <2> HIDE DEF w
  <2>1. \A x \in vs \ {v} : ~Overlaps(x, w.start, w.end) /\ ~Overlaps(w, x.start, x.end)
    BY <1>0, <1>1, <1>2, Constants DEF Overlaps
  <2>2. \A x, y \in (vs \ {v}) \cup {w} : x # y => ~Overlaps(x, y.start, y.end)
    BY <2>1 DEF VmasOK
  <2>3. \A x \in (vs \ {v}) \cup {w} : x \in Vma /\ x.start < x.end
    BY <1>0, <1>1, Constants
  <2> QED BY <2>2, <2>3 DEF VmasOK, Extended, w
<1>4. ASSUME NEW va \in Pages, NEW p
      PROVE  Gives(Extended(vs, v, e), va, p)
                <=> Gives(vs, va, p) \/ (va \in v.end..e - 1 /\ p = v.prot)
  <2>1. Gives(Extended(vs, v, e), va, p)
          <=> (\E x \in vs \ {v} : Inside(x, va) /\ x.prot = p) \/ (Inside(w, va) /\ w.prot = p)
    BY DEF Gives, Extended
  <2>2. Gives(vs, va, p)
          <=> (\E x \in vs \ {v} : Inside(x, va) /\ x.prot = p) \/ (Inside(v, va) /\ v.prot = p)
    BY DEF Gives
  <2>3. va \in Nat /\ v.start \in Nat /\ v.end \in Nat /\ v.start < v.end
    BY <1>0, Constants DEF Pages
  <2>4. Inside(w, va) <=> Inside(v, va) \/ va \in v.end..e - 1
    BY <1>1, <2>3, Constants DEF Inside
  <2> QED BY <1>1, <2>1, <2>2, <2>4
<1> QED BY <1>3, <1>4

LEMMA WithOK ==
  ASSUME NEW vs, VmasOK(vs), NEW s \in Pages, NEW e \in 1..MaxPage, s < e,
         NEW prot \in 0..7, RangeClear(vs, s, e)
  PROVE  /\ VmasOK(VmasWith(vs, s, e, prot))
         /\ \A va \in Pages : \A p :
              Gives(VmasWith(vs, s, e, prot), va, p)
                <=> Gives(vs, va, p) \/ (va \in s..e - 1 /\ p = prot)
<1>1. CASE Extendable(vs, s, prot) # {}
  <2> DEFINE v == CHOOSE v \in Extendable(vs, s, prot) : TRUE
  <2>1. v \in vs /\ v.end = s /\ v.prot = prot
    BY <1>1 DEF Extendable
  <2>2. VmasWith(vs, s, e, prot) = Extended(vs, v, e)
    BY <1>1 DEF VmasWith
  <2> HIDE DEF v
  <2> QED BY <2>1, <2>2, ExtendedOK
<1>2. CASE Extendable(vs, s, prot) = {}
  <2> DEFINE w == [start |-> s, end |-> e, prot |-> prot]
  <2>0. VmasWith(vs, s, e, prot) = vs \cup {w}
    BY <1>2 DEF VmasWith
  <2>1. w \in Vma /\ w.start = s /\ w.end = e /\ w.prot = prot
    BY DEF Vma
  <2> HIDE DEF w
  <2>2. \A x \in vs : x \in Vma /\ x.start \in Nat /\ x.end \in Nat /\ x.start < x.end
    BY Constants DEF VmasOK, Vma, Pages
  <2>3. \A x \in vs : ~Overlaps(x, w.start, w.end) /\ ~Overlaps(w, x.start, x.end)
    BY <2>1, <2>2, Constants DEF RangeClear, Overlaps, Pages
  <2>4. \A x, y \in vs \cup {w} : x # y => ~Overlaps(x, y.start, y.end)
    BY <2>3 DEF VmasOK
  <2>5. VmasOK(vs \cup {w})
    BY <2>1, <2>2, <2>4 DEF VmasOK
  <2>6. ASSUME NEW va \in Pages, NEW p
        PROVE  Gives(VmasWith(vs, s, e, prot), va, p)
                 <=> Gives(vs, va, p) \/ (va \in s..e - 1 /\ p = prot)
    <3>1. Gives(vs \cup {w}, va, p) <=> Gives(vs, va, p) \/ (Inside(w, va) /\ w.prot = p)
      BY DEF Gives
    <3>2. Inside(w, va) <=> va \in s..e - 1
      BY <2>1, Constants DEF Inside, Pages
    <3> QED BY <2>0, <2>1, <3>1, <3>2
  <2>7. VmasOK(VmasWith(vs, s, e, prot))
    BY <2>0, <2>5
  <2> QED BY <2>6, <2>7
<1> QED BY <1>1, <1>2

\* Cutting a VMA in two (vma_split) changes nothing that is given.
LEMMA SplitPieces ==
  ASSUME NEW vs, VmasOK(vs), NEW at \in Nat, NEW w \in VmasSplit(vs, at)
  PROVE  /\ w \in Vma /\ w.start < w.end /\ ~Straddles(w, at)
         /\ \E v \in vs : /\ v.start <= w.start /\ w.end <= v.end /\ w.prot = v.prot
                          /\ \/ w = v
                             \/ Straddles(v, at) /\ w.start = v.start /\ w.end = at
                             \/ Straddles(v, at) /\ w.start = at /\ w.end = v.end
<1>0. \A v \in vs : v \in Vma /\ v.start \in Nat /\ v.end \in Nat /\ v.start < v.end
  BY Constants DEF VmasOK, Vma, Pages
<1>1. CASE w \in vs /\ ~Straddles(w, at)
  BY <1>0, <1>1
<1>2. CASE \E v \in vs : Straddles(v, at) /\ w = [v EXCEPT !.end = at]
  <2>1. PICK v \in vs : Straddles(v, at) /\ w = [v EXCEPT !.end = at]
    BY <1>2
  <2>2. v \in Vma /\ v.start \in Nat /\ v.end \in Nat /\ v.start < at /\ at < v.end
    BY <2>1, <1>0 DEF Straddles
  <2>3. w \in Vma /\ w = [start |-> v.start, end |-> at, prot |-> v.prot]
    BY <2>1, <2>2, Cut
  <2>4. w \in Vma /\ w.prot = v.prot /\ w.start = v.start /\ w.end = at
    BY <2>3
  <2>5. Straddles(v, at)
    BY <2>1
  <2> QED BY <2>2, <2>4, <2>5 DEF Straddles
<1>3. CASE \E v \in vs : Straddles(v, at) /\ w = [v EXCEPT !.start = at]
  <2>1. PICK v \in vs : Straddles(v, at) /\ w = [v EXCEPT !.start = at]
    BY <1>3
  <2>2. v \in Vma /\ v.start \in Nat /\ v.end \in Nat /\ v.start < at /\ at < v.end
    BY <2>1, <1>0 DEF Straddles
  <2>3. w \in Vma /\ w = [start |-> at, end |-> v.end, prot |-> v.prot]
    BY <2>1, <2>2, Cut
  <2>4. w \in Vma /\ w.prot = v.prot /\ w.start = at /\ w.end = v.end
    BY <2>3
  <2>5. Straddles(v, at)
    BY <2>1
  <2> QED BY <2>2, <2>4, <2>5 DEF Straddles
<1> QED BY <1>1, <1>2, <1>3 DEF VmasSplit

LEMMA SplitOK ==
  ASSUME NEW vs, VmasOK(vs), NEW at \in Nat
  PROVE  /\ VmasOK(VmasSplit(vs, at))
         /\ \A va \in Pages : \A p : Gives(VmasSplit(vs, at), va, p) <=> Gives(vs, va, p)
<1> DEFINE new == VmasSplit(vs, at)
<1>0. \A v \in vs : v \in Vma /\ v.start \in Nat /\ v.end \in Nat /\ v.start < v.end
  BY Constants DEF VmasOK, Vma, Pages
<1>1. \A w \in new : w \in Vma /\ w.start < w.end /\ w.start \in Nat /\ w.end \in Nat
  BY SplitPieces, Constants DEF Vma, Pages
<1>2. ASSUME NEW x \in new, NEW y \in new, x # y
      PROVE  ~Overlaps(x, y.start, y.end)
  <2>1. PICK v \in vs : /\ v.start <= x.start /\ x.end <= v.end /\ x.prot = v.prot
                        /\ \/ x = v
                           \/ Straddles(v, at) /\ x.start = v.start /\ x.end = at
                           \/ Straddles(v, at) /\ x.start = at /\ x.end = v.end
    BY SplitPieces
  <2>2. PICK u \in vs : /\ u.start <= y.start /\ y.end <= u.end /\ y.prot = u.prot
                        /\ \/ y = u
                           \/ Straddles(u, at) /\ y.start = u.start /\ y.end = at
                           \/ Straddles(u, at) /\ y.start = at /\ y.end = u.end
    BY SplitPieces
  <2>3. /\ v.start \in Nat /\ v.end \in Nat /\ u.start \in Nat /\ u.end \in Nat
        /\ x.start \in Nat /\ x.end \in Nat /\ y.start \in Nat /\ y.end \in Nat
    BY <1>0, <1>1
  <2> HIDE DEF new
  <2>4. CASE v # u
    <3>1. v.end <= u.start \/ u.end <= v.start
      BY <2>4, <2>3 DEF VmasOK, Overlaps
    <3> QED BY <3>1, <2>1, <2>2, <2>3 DEF Overlaps
  <2>5. CASE v = u
    <3>1. ~Straddles(x, at) /\ ~Straddles(y, at)
      BY SplitPieces DEF new
    <3>2. CASE ~Straddles(v, at)
      BY <1>2, <2>1, <2>2, <2>5, <3>2
    <3>3. CASE Straddles(v, at)
      <4>1. /\ (x.start = v.start /\ x.end = at) \/ (x.start = at /\ x.end = v.end)
            /\ (y.start = v.start /\ y.end = at) \/ (y.start = at /\ y.end = v.end)
        BY <2>1, <2>2, <2>5, <3>1, <3>3
      <4>2. ~(x.start = y.start /\ x.end = y.end)
        BY <1>1, <1>2, <2>1, <2>2, <2>5, SameVma
      <4> QED BY <4>1, <4>2, <2>3, <3>3 DEF Overlaps, Straddles
    <3> QED BY <3>2, <3>3
  <2> QED BY <2>4, <2>5
<1>3. ASSUME NEW va \in Pages, NEW p
      PROVE  Gives(new, va, p) <=> Gives(vs, va, p)
  <2>0. va \in Nat
    BY Constants DEF Pages
  <2>1. ASSUME Gives(new, va, p) PROVE Gives(vs, va, p)
    <3>1. PICK w \in new : Inside(w, va) /\ w.prot = p
      BY <2>1 DEF Gives
    <3>2. PICK v \in vs : v.start <= w.start /\ w.end <= v.end /\ w.prot = v.prot
      BY SplitPieces
    <3>3. Inside(v, va)
      BY <3>1, <3>2, <1>0, <1>1, <2>0 DEF Inside
    <3> QED BY <3>1, <3>2, <3>3 DEF Gives
  <2>2. ASSUME Gives(vs, va, p) PROVE Gives(new, va, p)
    <3>1. PICK v \in vs : Inside(v, va) /\ v.prot = p
      BY <2>2 DEF Gives
    <3>2. v \in Vma /\ v.start \in Nat /\ v.end \in Nat /\ v.start <= va /\ va < v.end
      BY <1>0, <3>1 DEF Inside
    <3>3. CASE ~Straddles(v, at)
      BY <3>1, <3>3 DEF Gives, VmasSplit
    <3>4. CASE Straddles(v, at)
      <4>1. [v EXCEPT !.end = at] \in new /\ [v EXCEPT !.start = at] \in new
        BY <3>4 DEF VmasSplit
      <4>2. Inside([v EXCEPT !.end = at], va) \/ Inside([v EXCEPT !.start = at], va)
        BY <2>0, <3>2 DEF Inside, Vma
      <4>3. [v EXCEPT !.end = at].prot = p /\ [v EXCEPT !.start = at].prot = p
        BY <3>1, <3>2 DEF Vma
      <4> QED BY <4>1, <4>2, <4>3 DEF Gives
    <3> QED BY <3>3, <3>4
  <2> QED BY <2>1, <2>2
<1> QED BY <1>1, <1>2, <1>3 DEF VmasOK

\* sys_mprotect gives the range another protection, where it was mapped.
LEMMA ProtectedOK ==
  ASSUME NEW vs, VmasOK(vs), NEW s \in Nat, NEW e \in Nat, s <= e, NEW prot \in 0..7
  PROVE  /\ VmasOK(VmasProtected(vs, s, e, prot))
         /\ \A va \in Pages : \A p :
              Gives(VmasProtected(vs, s, e, prot), va, p)
                <=> IF va \in s..e - 1 THEN p = prot /\ Mapped(vs, va) ELSE Gives(vs, va, p)
<1> DEFINE once == VmasSplit(vs, s)
           split == VmasSplit(once, e)
           In(v) == v.start >= s /\ v.end <= e
           To(v) == IF In(v) THEN [v EXCEPT !.prot = prot] ELSE v
<1>1. VmasOK(once) /\ VmasOK(split)
  BY SplitOK
<1>2. \A va \in Pages : \A p : Gives(split, va, p) <=> Gives(vs, va, p)
  <2>1. \A va \in Pages : \A p : Gives(once, va, p) <=> Gives(vs, va, p)
    BY SplitOK
  <2> HIDE DEF once
  <2>2. \A va \in Pages : \A p : Gives(split, va, p) <=> Gives(once, va, p)
    BY <1>1, SplitOK
  <2> QED BY <2>1, <2>2
<1>3. \A v \in split : v \in Vma /\ v.start \in Nat /\ v.end \in Nat /\ v.start < v.end
  BY <1>1, Constants DEF VmasOK, Vma, Pages
<1>4. \A v \in split : ~Straddles(v, s) /\ ~Straddles(v, e)
  <2>1. ASSUME NEW v \in split PROVE ~Straddles(v, s) /\ ~Straddles(v, e)
    <3>1. \A x \in once : ~Straddles(x, s) /\ x.start \in Nat /\ x.end \in Nat
      BY SplitPieces, <1>1, Constants DEF VmasOK, Vma, Pages
    <3> HIDE DEF once
    <3>2. ~Straddles(v, e) /\ \E x \in once : x.start <= v.start /\ v.end <= x.end
      BY <1>1, SplitPieces
    <3> QED BY <3>1, <3>2, <1>3 DEF Straddles
  <2> QED BY <2>1
<1>5. VmasProtected(vs, s, e, prot) = {To(v) : v \in split}
  BY DEF VmasProtected
<1> HIDE DEF split
<1>6. \A v \in split : /\ To(v) \in Vma /\ To(v).start = v.start /\ To(v).end = v.end
                       /\ To(v).prot = IF In(v) THEN prot ELSE v.prot
  BY <1>3 DEF Vma
<1>7. VmasOK({To(v) : v \in split})
  <2> HIDE DEF To
  <2>1. \A v, u \in split : To(v) # To(u) => ~Overlaps(To(v), To(u).start, To(u).end)
    BY <1>1, <1>6 DEF VmasOK, Overlaps
  <2> QED BY <2>1, <1>3, <1>6 DEF VmasOK
<1>8. ASSUME NEW va \in Pages, NEW p
      PROVE  Gives({To(v) : v \in split}, va, p)
               <=> IF va \in s..e - 1 THEN p = prot /\ Mapped(vs, va) ELSE Gives(vs, va, p)
  <2>1. Gives({To(v) : v \in split}, va, p)
          <=> \E v \in split : Inside(v, va) /\ p = IF In(v) THEN prot ELSE v.prot
    <3> HIDE DEF To
    <3> QED BY <1>6 DEF Gives, Inside
  <2>2. \A v \in split : Inside(v, va) => (In(v) <=> va \in s..e - 1)
    BY <1>3, <1>4, Constants DEF Inside, Straddles, Pages
  <2>3. Mapped(vs, va) <=> \E v \in split : Inside(v, va)
    BY <1>2, GivesMapped DEF Gives
  <2>4. Gives(vs, va, p) <=> \E v \in split : Inside(v, va) /\ p = v.prot
    BY <1>2 DEF Gives
  <2> HIDE DEF In
  <2> QED BY <2>1, <2>2, <2>3, <2>4
<1> QED BY <1>5, <1>7, <1>8

(***************************************************************************)
(* Physical pages.  Owned is FramesOnce without the counting, for the      *)
(* tables ms and the free pages fr.                                        *)
(***************************************************************************)

FrameAt(ms, i, a) == ms[i].pt[a].frame
All == 1..machine.pages

Owned(ms, fr) ==
  /\ fr \subseteq All
  /\ \A i \in Mms, a \in Pages : FrameAt(ms, i, a) # 0 => FrameAt(ms, i, a) \in All \ fr
  /\ \A i, j \in Mms, a, b \in Pages :
       FrameAt(ms, i, a) # 0 /\ FrameAt(ms, i, a) = FrameAt(ms, j, b) => i = j /\ a = b
  /\ \A f \in All : f \in fr \/ \E i \in Mms, a \in Pages : FrameAt(ms, i, a) = f

LEMMA ZeroIsNone == 0 \notin All
BY DEF All

\* Entries taken out of a table, their pages given back (mm_unmap, free_level).
LEMMA FramesGiven ==
  ASSUME NEW ms, NEW ns, NEW fr, Owned(ms, fr),
         NEW i \in Mms, NEW D,
         \A j \in Mms, a \in Pages :
           FrameAt(ns, j, a) = IF j = i /\ a \in D THEN 0 ELSE FrameAt(ms, j, a)
  PROVE  Owned(ns, fr \cup FramesOf(ms[i].pt, D))
<1> DEFINE gone == FramesOf(ms[i].pt, D)
<1>0. gone = {FrameAt(ms, i, a) : a \in {x \in D \cap Pages : FrameAt(ms, i, x) # 0}}
  BY DEF FramesOf, Present, FrameAt
<1> HIDE DEF gone
<1>1. gone \subseteq All
  BY <1>0 DEF Owned
<1>2. \A j \in Mms, a \in Pages :
        FrameAt(ns, j, a) # 0 => FrameAt(ns, j, a) = FrameAt(ms, j, a) /\ ~(j = i /\ a \in D)
  OBVIOUS
<1>3. \A j \in Mms, a \in Pages : FrameAt(ns, j, a) # 0 => FrameAt(ns, j, a) \in All \ (fr \cup gone)
  BY <1>0, <1>2 DEF Owned
<1>4. \A j, k \in Mms, a, b \in Pages :
        FrameAt(ns, j, a) # 0 /\ FrameAt(ns, j, a) = FrameAt(ns, k, b) => j = k /\ a = b
  BY <1>2 DEF Owned
<1>5. ASSUME NEW f \in All
      PROVE  f \in fr \cup gone \/ \E j \in Mms, a \in Pages : FrameAt(ns, j, a) = f
  <2>1. CASE f \notin fr
    <3>1. PICK j \in Mms, a \in Pages : FrameAt(ms, j, a) = f
      BY <2>1 DEF Owned
    <3>2. CASE j = i /\ a \in D
      BY <1>0, <3>1, <3>2, ZeroIsNone
    <3>3. CASE ~(j = i /\ a \in D)
      BY <3>1, <3>3
    <3> QED BY <3>2, <3>3
  <2> QED BY <2>1
<1>6. fr \cup gone \subseteq All
  BY <1>1 DEF Owned
<1>7. Owned(ns, fr \cup gone)
  BY <1>3, <1>4, <1>5, <1>6 DEF Owned
<1> QED BY <1>7 DEF gone

\* Free pages put into absent entries (palloc in copy_to_mm, mm_fault, copy_level).
LEMMA FramesTaken ==
  ASSUME NEW ms, NEW ns, NEW fr, Owned(ms, fr),
         NEW i \in Mms, NEW vas \in SUBSET Pages, NEW got \in Injection(vas, fr),
         \A a \in vas : FrameAt(ms, i, a) = 0,
         \A j \in Mms, a \in Pages :
           FrameAt(ns, j, a) = IF j = i /\ a \in vas THEN got[a] ELSE FrameAt(ms, j, a)
  PROVE  Owned(ns, fr \ Taken(got))
<1>1. got \in [vas -> fr] /\ \A a, b \in vas : got[a] = got[b] => a = b
  BY Zenon DEF Injection, IsInjective
<1>2. Taken(got) = {got[a] : a \in vas}
  BY <1>1 DEF Taken, Range
<1>3. \A a \in vas : got[a] \in fr /\ got[a] \in Taken(got) /\ got[a] \in All
  BY <1>1, <1>2 DEF Owned
<1>4. \A j \in Mms, a \in Pages : FrameAt(ns, j, a) # 0 => FrameAt(ns, j, a) \in All \ (fr \ Taken(got))
  BY <1>3 DEF Owned
<1>5. ASSUME NEW j \in Mms, NEW k \in Mms, NEW a \in Pages, NEW b \in Pages,
             FrameAt(ns, j, a) # 0, FrameAt(ns, j, a) = FrameAt(ns, k, b)
      PROVE  j = k /\ a = b
  <2>1. CASE j = i /\ a \in vas /\ k = i /\ b \in vas
    BY <1>1, <1>5, <2>1
  <2>2. CASE ~(j = i /\ a \in vas) /\ ~(k = i /\ b \in vas)
    BY <1>5, <2>2 DEF Owned
  <2>3. CASE j = i /\ a \in vas /\ ~(k = i /\ b \in vas)
    BY <1>3, <1>5, <2>3 DEF Owned
  <2>4. CASE ~(j = i /\ a \in vas) /\ k = i /\ b \in vas
    BY <1>3, <1>5, <2>4 DEF Owned
  <2> QED BY <2>1, <2>2, <2>3, <2>4
<1>6. ASSUME NEW f \in All
      PROVE  f \in fr \ Taken(got) \/ \E j \in Mms, a \in Pages : FrameAt(ns, j, a) = f
  <2>1. CASE f \in Taken(got)
    BY <1>2, <2>1
  <2>2. CASE f \notin fr
    <3>1. PICK j \in Mms, a \in Pages : FrameAt(ms, j, a) = f
      BY <2>2 DEF Owned
    <3>2. ~(j = i /\ a \in vas)
      BY <3>1, ZeroIsNone
    <3> QED BY <3>1, <3>2
  <2> QED BY <2>1, <2>2
<1>7. fr \ Taken(got) \subseteq All
  BY DEF Owned
<1> QED BY <1>4, <1>5, <1>6, <1>7 DEF Owned

\* mremap moves a range of entries to where none is (mm.c:573).
IsMoved(ms, ns, i, old, va, n) ==
  /\ \A a \in va..va + n - 1 : FrameAt(ms, i, a) = 0
  /\ \A j \in Mms, a \in Pages :
       FrameAt(ns, j, a) =
         IF j = i /\ a \in va..va + n - 1 THEN FrameAt(ms, i, old + a - va)
         ELSE IF j = i /\ a \in old..old + n - 1 THEN 0 ELSE FrameAt(ms, j, a)

LEMMA FramesMoved ==
  ASSUME NEW ms, NEW ns, NEW fr, Owned(ms, fr),
         NEW i \in Mms, NEW old \in Nat, NEW va \in Nat, NEW n \in Nat,
         old + n <= MaxPage, va + n <= MaxPage, old + n <= va \/ va + n <= old,
         IsMoved(ms, ns, i, old, va, n)
  PROVE  Owned(ns, fr)
<1>0. /\ \A a \in va..va + n - 1 : FrameAt(ms, i, a) = 0
      /\ \A j \in Mms, a \in Pages :
           FrameAt(ns, j, a) =
             IF j = i /\ a \in va..va + n - 1 THEN FrameAt(ms, i, old + a - va)
             ELSE IF j = i /\ a \in old..old + n - 1 THEN 0 ELSE FrameAt(ms, j, a)
  BY DEF IsMoved
<1> DEFINE back(j, a) == IF j = i /\ a \in va..va + n - 1 THEN old + a - va ELSE a
<1>1. \A a \in Pages : a \in Nat /\ a < MaxPage
  BY Constants DEF Pages
<1>2. ASSUME NEW j \in Mms, NEW a \in Pages
      PROVE  /\ back(j, a) \in Pages
             /\ FrameAt(ns, j, a) # 0 => FrameAt(ns, j, a) = FrameAt(ms, j, back(j, a))
             /\ FrameAt(ns, j, a) # 0 /\ j = i =>
                  IF a \in va..va + n - 1 THEN back(j, a) \in old..old + n - 1
                  ELSE a \notin old..old + n - 1
  <2>0. a \in Nat /\ a < MaxPage
    BY <1>1
  <2>1. CASE j = i /\ a \in va..va + n - 1
    <3>1. back(j, a) = old + a - va /\ FrameAt(ns, j, a) = FrameAt(ms, i, old + a - va)
      BY <1>0, <2>1
    <3>2. old + a - va \in old..old + n - 1 /\ old + a - va \in Pages
      BY <2>0, <2>1, Constants DEF Pages
    <3> QED BY <2>1, <3>1, <3>2
  <2>2. CASE ~(j = i /\ a \in va..va + n - 1)
    BY <1>0, <2>0, <2>2
  <2> QED BY <2>1, <2>2
<1>3. \A j \in Mms, a \in Pages : FrameAt(ns, j, a) # 0 => FrameAt(ns, j, a) \in All \ fr
  BY <1>2 DEF Owned
<1>4. ASSUME NEW j \in Mms, NEW k \in Mms, NEW a \in Pages, NEW b \in Pages,
             FrameAt(ns, j, a) # 0, FrameAt(ns, j, a) = FrameAt(ns, k, b)
      PROVE  j = k /\ a = b
  <2>1. FrameAt(ms, j, back(j, a)) # 0 /\ FrameAt(ms, j, back(j, a)) = FrameAt(ms, k, back(k, b))
    BY <1>2, <1>4
  <2>2. back(j, a) \in Pages /\ back(k, b) \in Pages
    BY <1>2
  <2>3. j = k /\ back(j, a) = back(k, b)
    <3> HIDE DEF back
    <3> QED BY <2>1, <2>2 DEF Owned
  <2>4. /\ FrameAt(ns, j, a) # 0 /\ j = i =>
             IF a \in va..va + n - 1 THEN back(j, a) \in old..old + n - 1
             ELSE a \notin old..old + n - 1
        /\ FrameAt(ns, k, b) # 0 /\ k = i =>
             IF b \in va..va + n - 1 THEN back(k, b) \in old..old + n - 1
             ELSE b \notin old..old + n - 1
    BY <1>2
  <2> QED BY <1>1, <1>4, <2>3, <2>4
<1>5. ASSUME NEW f \in All
      PROVE  f \in fr \/ \E j \in Mms, a \in Pages : FrameAt(ns, j, a) = f
  <2>1. CASE f \notin fr
    <3>1. PICK j \in Mms, a \in Pages : FrameAt(ms, j, a) = f
      BY <2>1 DEF Owned
    <3>2. CASE j = i /\ a \in old..old + n - 1
      <4> DEFINE b == va + (a - old)
      <4>1. a \in Nat /\ b \in Pages /\ b \in va..va + n - 1 /\ old + b - va = a
        BY <1>1, <3>2, Constants DEF Pages
      <4> HIDE DEF b
      <4>2. FrameAt(ns, i, b) = FrameAt(ms, i, a)
        BY <1>0, <4>1
      <4> QED BY <3>1, <3>2, <4>1, <4>2
    <3>3. CASE ~(j = i /\ a \in old..old + n - 1)
      <4>1. ~(j = i /\ a \in va..va + n - 1)
        BY <1>0, <3>1, ZeroIsNone
      <4> QED BY <1>0, <3>1, <3>3, <4>1
    <3> QED BY <3>2, <3>3
  <2> QED BY <2>1
<1> QED BY <1>3, <1>4, <1>5 DEF Owned

LEMMA FramesSame ==
  ASSUME NEW ms, NEW ns, NEW fr, Owned(ms, fr),
         \A i \in Mms, a \in Pages : FrameAt(ns, i, a) = FrameAt(ms, i, a)
  PROVE  Owned(ns, fr)
BY DEF Owned

(***************************************************************************)
(* Page tables.                                                            *)
(***************************************************************************)

\* An entry allows no more than the protection p.
Right(e, p) == (e.u => p # 0) /\ (e.w => p \in {2, 3, 6, 7})

LEMMA EntryFacts ==
  ASSUME NEW f \in Frames, NEW prot
  PROVE  /\ Entry(f, prot) \in Pte /\ Entry(f, prot).frame = f
         /\ Right(Entry(f, prot), prot)
<1>1. /\ Entry(f, prot).u = (prot # 0) /\ Entry(f, prot).w = (prot \in {2, 3, 6, 7})
      /\ Entry(f, prot) \in Pte /\ Entry(f, prot).frame = f
  BY DEF Entry, WithBits, ProtBits, Pte
<1> QED BY <1>1, Zenon DEF Right

LEMMA WithBitsFacts ==
  ASSUME NEW e \in Pte, NEW prot
  PROVE  /\ WithBits(e, prot) \in Pte /\ WithBits(e, prot).frame = e.frame
         /\ Right(WithBits(e, prot), prot)
<1>1. /\ WithBits(e, prot).u = (prot # 0) /\ WithBits(e, prot).w = (prot \in {2, 3, 6, 7})
      /\ WithBits(e, prot) \in Pte /\ WithBits(e, prot).frame = e.frame
  BY DEF WithBits, ProtBits, Pte
<1> QED BY <1>1, Zenon DEF Right

LEMMA NoPteFacts ==
  NoPte \in Pte /\ NoPte.frame = 0 /\ NoTable \in [Pages -> Pte] /\ \A a \in Pages : NoTable[a] = NoPte
BY DEF NoPte, NoTable, Pte

LEMMA CopyFacts ==
  ASSUME NEW pt \in [Pages -> Pte], NEW vas \in SUBSET Pages, NEW got \in [vas -> Frames]
  PROVE  /\ CopyTo(pt, got) \in [Pages -> Pte]
         /\ \A a \in vas : CopyTo(pt, got)[a].frame = got[a]
         /\ \A a \in Pages \ vas : CopyTo(pt, got)[a] = pt[a]
<1>1. DOMAIN got = vas /\ \A a \in vas : got[a] \in Frames
  OBVIOUS
<1>2. \A a \in vas : Entry(got[a], 7) \in Pte /\ Entry(got[a], 7).frame = got[a]
  BY <1>1, EntryFacts
<1>3. \A a \in Pages : CopyTo(pt, got)[a] = IF a \in vas THEN Entry(got[a], 7) ELSE pt[a]
  BY <1>1 DEF CopyTo
<1>4. CopyTo(pt, got) = [a \in Pages |-> IF a \in vas THEN Entry(got[a], 7) ELSE pt[a]]
  BY <1>1 DEF CopyTo
<1> QED BY <1>2, <1>3, <1>4

LEMMA TableWithoutFacts ==
  ASSUME NEW pt \in [Pages -> Pte], NEW s, NEW e
  PROVE  /\ TableWithout(pt, s, e) \in [Pages -> Pte]
         /\ \A a \in Pages : TableWithout(pt, s, e)[a] = IF a \in s..e - 1 THEN NoPte ELSE pt[a]
BY NoPteFacts DEF TableWithout

LEMMA Received ==
  ASSUME NEW fr, NEW vas, Enough(fr, vas), NEW got, got = Palloc(fr, vas)
  PROVE  /\ got \in Injection(vas, fr) /\ got \in [vas -> fr]
         /\ Taken(got) = {got[a] : a \in vas}
<1>1. got \in Injection(vas, fr)
  BY Zenon DEF Enough, ExistsInjection, Palloc
<1>2. got \in [vas -> fr]
  BY <1>1 DEF Injection
<1> QED BY <1>1, <1>2 DEF Taken, Range

LEMMA HoldingType ==
  ASSUME NEW fs \in [Frames -> Vals \cup {Link}], NEW got
  PROVE  Holding(fs, got) \in [Frames -> Vals \cup {Link}]
BY Constants DEF Holding

LEMMA PfreeType ==
  ASSUME frames \in [Frames -> Vals \cup {Link}], NEW fs, Pfree(fs)
  PROVE  frames' \in [Frames -> Vals \cup {Link}] /\ free' = free \cup fs
BY DEF Pfree

(***************************************************************************)
(* The invariant.                                                          *)
(***************************************************************************)

\* A file's page is made writable whatever its VMA says (copy_to_mm), so rights
\* are as the VMAs have them only where files are mapped writable.
FilesWritable == FileProts \subseteq {2, 3, 6, 7}

\* mm_unmap, mm_map and mprotect do not look whether the end of their range is
\* past its start, and lengths that round up to nothing pass: the VMAs are sound
\* where programs name ranges of user space, none empty, none wrapping round.
RangesFit ==
  /\ \A n \in machine.lens : n > 0
  /\ \A a \in machine.addrs, n \in machine.lens : a + n <= MaxPage

RightsOK(vs, pt) == \A a \in Pages : \A p : Present(pt, a) /\ Gives(vs, a, p) => Right(pt[a], p)

MmOK(r) ==
  /\ r \in Mm /\ VmasOK(r.vmas)
  /\ \A a \in Pages : Present(r.pt, a) => Mapped(r.vmas, a)
  /\ FilesWritable => RightsOK(r.vmas, r.pt)

VmInv ==
  /\ VmTypeOK /\ RangesFit
  /\ \A i \in Mms : MmOK(mms[i]) /\ (mms[i].refs = 0 => mms[i] = NoMm)
  /\ Owned(mms, free)
  /\ TlbFresh

LEMMA MachineFacts ==
  ASSUME VmTypeOK
  PROVE  /\ 0 \notin 1..machine.pages /\ 1..machine.pages \subseteq Frames /\ 0 \notin Frames
         /\ RangesFit => machine.lens \subseteq Nat \ {0}
         /\ machine.prots \subseteq 0..7 /\ machine.brks \subseteq Nat /\ machine.files \subseteq Nat
BY VmAssumption DEF VmTypeOK, Frames, RangesFit

Users(f, i) == {p \in Procs : f[p] = i}

\* The struct mm of the process on the CPU has a user.
LEMMA CurrentMm ==
  ASSUME VmInv, m # 0
  PROVE  /\ m \in Mms /\ mm \in Mm /\ MmOK(mm) /\ mm.refs # 0
<1>1. m \in Mms
  BY DEF VmInv, VmTypeOK, m
<1>2. mm.refs = Cardinality(Users(mmOf, m)) /\ current \in Users(mmOf, m)
  BY <1>1 DEF VmInv, VmTypeOK, Users, m, mm
<1>3. IsFiniteSet(Users(mmOf, m))
  BY Constants, FS_Subset DEF Users
<1>4. mm.refs # 0
  BY <1>2, <1>3, FS_EmptySet
<1>5. MmOK(mm) /\ mm \in Mm
  BY <1>1 DEF VmInv, MmOK, mm
<1> QED BY <1>1, <1>4, <1>5

\* What a step on the struct mm of its process must show.
LEMMA OwnStep ==
  ASSUME VmInv, machine' = machine, m # 0, NEW new, Becomes(new), MmOK(new),
         new.refs = mm.refs, frames' \in [Frames -> Vals \cup {Link}],
         Owned(mms', free'), stale' = {}
  PROVE  VmInv'
<1>1. m \in Mms /\ mm.refs # 0
  BY CurrentMm
<1>2. mms' = [mms EXCEPT ![m] = new] /\ mmOf' = mmOf /\ current' = current
  BY DEF Becomes
<1>3. mms' \in [Mms -> Mm] /\ mms'[m] = new /\ \A i \in Mms \ {m} : mms'[i] = mms[i]
  BY <1>1, <1>2 DEF VmInv, VmTypeOK, MmOK
<1>4. \A i \in Mms : mms'[i].refs = mms[i].refs
  BY <1>3 DEF mm
<1>5. \A i \in Mms : MmOK(mms'[i]) /\ (mms'[i].refs = 0 => mms'[i] = NoMm)
  BY <1>1, <1>3 DEF VmInv
<1>6. \A i \in Mms : \A v \in mms'[i].vmas : v.start < v.end
  BY <1>5 DEF MmOK, VmasOK
<1>7. VmTypeOK'
  <2>1. \A i \in Mms : mms'[i].refs = Cardinality({p \in Procs : mmOf'[p] = i})
    BY <1>2, <1>4 DEF VmInv, VmTypeOK
  <2>2. free' \subseteq 1..machine'.pages /\ stale' \subseteq Pages
    BY DEF Owned, All
  <2>3. machine' \in Machines /\ current' \in Procs /\ mmOf' \in [Procs -> Mms \cup {0}]
    BY <1>2 DEF VmInv, VmTypeOK
  <2> QED BY <2>1, <2>2, <2>3, <1>3, <1>6 DEF VmTypeOK
<1>8. (\A i \in Mms : MmOK(mms[i]) /\ (mms[i].refs = 0 => mms[i] = NoMm))'
  BY <1>5
<1>9. Owned(mms, free)'
  BY DEF Owned, All
<1>10. RangesFit'
  BY DEF VmInv, RangesFit
<1> QED BY <1>7, <1>8, <1>9, <1>10 DEF VmInv, TlbFresh

\* The frames of the tables after such a step.
LEMMA OwnFrames ==
  ASSUME VmInv, m # 0, NEW new, Becomes(new)
  PROVE  /\ \A a \in Pages : FrameAt(mms, m, a) = mm.pt[a].frame
         /\ \A a \in Pages : FrameAt(mms', m, a) = new.pt[a].frame
         /\ \A j \in Mms \ {m}, a \in Pages : FrameAt(mms', j, a) = FrameAt(mms, j, a)
<1>1. mms' = [mms EXCEPT ![m] = new] /\ m \in Mms /\ mms \in [Mms -> Mm]
  BY CurrentMm DEF Becomes, VmInv, VmTypeOK
<1>2. \A j \in Mms : mms'[j] = IF j = m THEN new ELSE mms[j]
  BY <1>1
<1> QED BY <1>1, <1>2 DEF FrameAt, mm

(***************************************************************************)
(* Steps on the struct mm of the process.                                  *)
(***************************************************************************)

LEMMA StoreStep ==
  ASSUME VmInv, machine' = machine, NEW va \in Pages, NEW v \in Vals, Store(va, v)
  PROVE  VmInv'
<1>1. frames' \in [Frames -> Vals \cup {Link}]
  BY DEF Store, VmInv, VmTypeOK
<1>2. UNCHANGED <<machine, current, mmOf, mms, free, stale>>
  BY DEF Store
<1>3. VmTypeOK'
  BY <1>1, <1>2 DEF VmInv, VmTypeOK
<1>4. RangesFit'
  BY <1>2 DEF VmInv, RangesFit
<1> QED BY <1>2, <1>3, <1>4 DEF VmInv, TlbFresh, Owned, All

\* The TLB keeps a translation that loses nothing.
LEMMA KeptFresh ==
  ASSUME VmInv, NEW new, KeepTlb(new), \A a \in Pages : Present(mm.pt, a) => new.pt[a] = mm.pt[a]
  PROVE  stale' = {}
BY Zenon DEF KeepTlb, VmInv, TlbFresh

LEMMA FaultStep ==
  ASSUME VmInv, machine' = machine, NEW va \in Pages, NEW write, Fault(va, write)
  PROVE  VmInv'
<1> DEFINE prot == FindVma(mm.vmas, va).prot
<1>0. /\ m # 0 /\ Mapped(mm.vmas, va) /\ m \in Mms /\ mm \in Mm /\ MmOK(mm)
  BY CurrentMm DEF Fault
<1>1. mm.pt \in [Pages -> Pte] /\ frames \in [Frames -> Vals \cup {Link}] /\ stale = {}
  BY <1>0 DEF Mm, VmInv, VmTypeOK, TlbFresh
<1>4. \A p : Gives(mm.vmas, va, p) => p = prot
  BY <1>0, MappedGives DEF MmOK
<1>2. CASE /\ Present(mm.pt, va)
           /\ Becomes([mm EXCEPT !.pt[va] = WithBits(@, prot)])
           /\ stale' = stale \ {va}
           /\ UNCHANGED <<frames, free>>
  <2> DEFINE new == [mm EXCEPT !.pt[va] = WithBits(@, prot)]
  <2>1. /\ new \in Mm /\ new.vmas = mm.vmas /\ new.refs = mm.refs
        /\ \A a \in Pages : new.pt[a].frame = mm.pt[a].frame
        /\ \A a \in Pages \ {va} : new.pt[a] = mm.pt[a]
        /\ Right(new.pt[va], prot)
    <3>1. /\ WithBits(mm.pt[va], prot) \in Pte /\ WithBits(mm.pt[va], prot).frame = mm.pt[va].frame
          /\ Right(WithBits(mm.pt[va], prot), prot)
      BY <1>1, WithBitsFacts
    <3>2. new.pt = [mm.pt EXCEPT ![va] = WithBits(mm.pt[va], prot)]
      BY <1>0 DEF Mm
    <3> HIDE DEF prot
    <3>3. new.pt \in [Pages -> Pte]
      BY <1>1, <3>1, <3>2
    <3> QED BY <1>0, <1>1, <3>1, <3>2, <3>3 DEF Mm
  <2> HIDE DEF new
  <2>2. MmOK(new)
    BY <1>0, <1>4, <2>1 DEF MmOK, RightsOK, Present
  <2>3. Owned(mms', free')
    <3>0. Becomes(new)
      BY <1>2 DEF new
    <3>1. \A j \in Mms, a \in Pages : FrameAt(mms', j, a) = FrameAt(mms, j, a)
      <4>1. \A a \in Pages : FrameAt(mms', m, a) = FrameAt(mms, m, a)
        BY <1>0, <2>1, <3>0, OwnFrames
      <4> QED BY <1>0, <3>0, <4>1, OwnFrames
    <3> QED BY <1>2, <3>1, FramesSame DEF VmInv
  <2> QED BY <1>0, <1>1, <1>2, <2>1, <2>2, <2>3, OwnStep DEF new
<1>3. CASE /\ ~Present(mm.pt, va) /\ free # {}
           /\ LET got == CHOOSE f \in free : TRUE
              IN  /\ Becomes([mm EXCEPT !.pt[va] = Entry(got, prot)])
                  /\ frames' = Zeroed(got)
                  /\ free' = free \ {got}
           /\ UNCHANGED stale
  <2> DEFINE got == CHOOSE f \in free : TRUE
             new == [mm EXCEPT !.pt[va] = Entry(got, prot)]
  <2>1. got \in free /\ got \in Frames
    BY <1>3, MachineFacts DEF VmInv, VmTypeOK
  <2>2. Becomes(new) /\ frames' = Zeroed(got) /\ free' = free \ {got}
    BY <1>3
  <2>3. /\ new \in Mm /\ new.vmas = mm.vmas /\ new.refs = mm.refs
        /\ \A a \in Pages : new.pt[a].frame = IF a = va THEN got ELSE mm.pt[a].frame
        /\ \A a \in Pages \ {va} : new.pt[a] = mm.pt[a]
        /\ Right(new.pt[va], prot)
    <3>1. /\ Entry(got, prot) \in Pte /\ Entry(got, prot).frame = got
          /\ Right(Entry(got, prot), prot)
      BY <2>1, EntryFacts
    <3>2. new.pt = [mm.pt EXCEPT ![va] = Entry(got, prot)]
      BY <1>0 DEF Mm
    <3> HIDE DEF prot, got
    <3>3. new.pt \in [Pages -> Pte]
      BY <1>1, <3>1, <3>2
    <3> QED BY <1>0, <1>1, <3>1, <3>2, <3>3 DEF Mm
  <2> HIDE DEF new, got, prot
  <2>4. MmOK(new)
    BY <1>0, <1>4, <2>3 DEF MmOK, RightsOK, Present
  <2>5. frames' \in [Frames -> Vals \cup {Link}]
    BY <1>1, <2>2, Constants DEF Zeroed
  <2>6. Owned(mms', free')
    <3> DEFINE vas == {va}
               give == [a \in vas |-> got]
    <3>1. give \in Injection(vas, free) /\ Taken(give) = {got}
      BY <2>1, Zenon DEF Injection, IsInjective, Taken, Range
    <3>2. \A a \in vas : FrameAt(mms, m, a) = 0
      BY <1>0, <1>3, <2>2, OwnFrames DEF Present
    <3>3. \A a \in Pages : FrameAt(mms', m, a) = IF a \in vas THEN give[a] ELSE FrameAt(mms, m, a)
      BY <1>0, <2>2, <2>3, OwnFrames
    <3>4. vas \in SUBSET Pages
      OBVIOUS
    <3> HIDE DEF give, vas
    <3>5. \A j \in Mms, a \in Pages : FrameAt(mms', j, a) =
            IF j = m /\ a \in vas THEN give[a] ELSE FrameAt(mms, j, a)
      BY <1>0, <2>2, <3>3, OwnFrames
    <3>6. Owned(mms', free \ Taken(give))
      BY <1>0, <3>1, <3>2, <3>4, <3>5, FramesTaken DEF VmInv
    <3> QED BY <2>2, <3>1, <3>6
  <2> QED BY <1>0, <1>1, <1>3, <2>2, <2>3, <2>4, <2>5, <2>6, OwnStep
<1> QED BY <1>2, <1>3 DEF Fault

\* What mm_unmap leaves of a struct mm.
LEMMA WithoutMm ==
  ASSUME NEW mem, MmOK(mem), NEW s \in Nat, NEW e \in Nat, s <= e
  PROVE  /\ MmOK(Without(mem, s, e)) /\ Without(mem, s, e).refs = mem.refs
         /\ \A a \in Pages : Without(mem, s, e).pt[a] = IF a \in s..e - 1 THEN NoPte ELSE mem.pt[a]
         /\ RangeClear(Without(mem, s, e).vmas, s, e)
<1>0. PICK new : new = Without(mem, s, e)
  OBVIOUS
<1>1. mem \in Mm /\ mem.pt \in [Pages -> Pte] /\ VmasOK(mem.vmas)
  BY DEF MmOK, Mm
<1>3. VmasOK(VmasWithout(mem.vmas, s, e)) /\ RangeClear(VmasWithout(mem.vmas, s, e), s, e)
  BY <1>1, WithoutOK
<1>4. /\ TableWithout(mem.pt, s, e) \in [Pages -> Pte]
      /\ \A a \in Pages : TableWithout(mem.pt, s, e)[a] = IF a \in s..e - 1 THEN NoPte ELSE mem.pt[a]
  BY <1>1, TableWithoutFacts
<1>2. /\ new.vmas = VmasWithout(mem.vmas, s, e) /\ new.pt = TableWithout(mem.pt, s, e)
      /\ new.refs = mem.refs /\ new \in Mm
  <2> DEFINE vs == VmasWithout(mem.vmas, s, e)
             pt == TableWithout(mem.pt, s, e)
  <2>1. new = [mem EXCEPT !.vmas = vs, !.pt = pt]
    BY <1>0 DEF Without
  <2>2. vs \in SUBSET Vma /\ pt \in [Pages -> Pte]
    BY <1>3, <1>4 DEF VmasOK
  <2> HIDE DEF vs, pt
  <2>3. new \in Mm /\ new.vmas = vs /\ new.pt = pt /\ new.refs = mem.refs
    BY <1>1, <2>1, <2>2 DEF Mm
  <2> QED BY <2>3 DEF vs, pt
<1>6. ASSUME NEW a \in Pages, Present(TableWithout(mem.pt, s, e), a)
      PROVE  Mapped(VmasWithout(mem.vmas, s, e), a)
  <2>1. a \notin s..e - 1 /\ Mapped(mem.vmas, a)
    BY <1>4, <1>6, NoPteFacts DEF Present, MmOK
  <2> QED BY <1>1, <2>1, GivesMapped, WithoutGives
<1>5. ASSUME FilesWritable, NEW a \in Pages, NEW p, Present(TableWithout(mem.pt, s, e), a),
             Gives(VmasWithout(mem.vmas, s, e), a, p)
      PROVE  Right(TableWithout(mem.pt, s, e)[a], p)
  <2>1. a \notin s..e - 1 /\ TableWithout(mem.pt, s, e)[a] = mem.pt[a] /\ Present(mem.pt, a)
    BY <1>4, <1>5, NoPteFacts DEF Present
  <2>2. Gives(mem.vmas, a, p)
    BY <1>1, <1>5, WithoutGives
  <2> QED BY <1>5, <2>1, <2>2 DEF MmOK, RightsOK
<1>7. MmOK(new)
  BY <1>2, <1>3, <1>5, <1>6 DEF MmOK, RightsOK
<1>8. /\ new.refs = mem.refs /\ RangeClear(new.vmas, s, e)
      /\ \A a \in Pages : new.pt[a] = IF a \in s..e - 1 THEN NoPte ELSE mem.pt[a]
  BY <1>2, <1>3, <1>4
<1> QED BY <1>0, <1>7, <1>8

\* mm_unmap, of what the call has made of the struct mm so far.
LEMMA UnmappingStep ==
  ASSUME VmInv, machine' = machine, m # 0, NEW mem, MmOK(mem), mem.refs = mm.refs,
         NEW s \in Nat, NEW e \in Nat, s <= e,
         Owned([mms EXCEPT ![m] = mem], free),
         Unmapping(mem, s, e)
  PROVE  VmInv'
<1> DEFINE new == Without(mem, s, e)
           ms == [mms EXCEPT ![m] = mem]
           ns == mms'
           i == m
           D == s..e - 1
<1>1. /\ MmOK(new) /\ new.refs = mem.refs
      /\ \A a \in Pages : new.pt[a] = IF a \in D THEN NoPte ELSE mem.pt[a]
  <2>1. MmOK(new) /\ new.refs = mem.refs
    BY WithoutMm
  <2>2. \A a \in Pages : new.pt[a] = IF a \in s..e - 1 THEN NoPte ELSE mem.pt[a]
    BY WithoutMm
  <2> HIDE DEF new
  <2> QED BY <2>1, <2>2
<1>2. Becomes(new) /\ Pfree(FramesOf(mem.pt, D)) /\ stale' = {}
  BY DEF Unmapping, FlushTlb
<1>3. frames' \in [Frames -> Vals \cup {Link}] /\ free' = free \cup FramesOf(mem.pt, D)
  BY <1>2, PfreeType DEF VmInv, VmTypeOK
<1>4. i \in Mms /\ mms \in [Mms -> Mm]
  BY CurrentMm DEF VmInv, VmTypeOK
<1>5. ms[i] = mem /\ \A j \in Mms : ms[j] = IF j = i THEN mem ELSE mms[j]
  BY <1>4
<1>6. \A j \in Mms : ns[j] = IF j = i THEN new ELSE mms[j]
  BY <1>2, <1>4 DEF Becomes
<1> HIDE DEF new
<1>7. \A j \in Mms, a \in Pages :
        FrameAt(ns, j, a) = IF j = i /\ a \in D THEN 0 ELSE FrameAt(ms, j, a)
  <2> HIDE DEF ms, ns, i, D
  <2> QED BY <1>1, <1>5, <1>6, NoPteFacts DEF FrameAt
<1>8. Owned(ms, free)
  OBVIOUS
<1>9. Owned(ns, free \cup FramesOf(ms[i].pt, D))
  <2> HIDE DEF ms, ns, i, D
  <2> QED BY <1>4, <1>7, <1>8, FramesGiven
<1>10. Owned(mms', free')
  BY <1>3, <1>5, <1>9
<1> QED BY <1>1, <1>2, <1>3, <1>10, OwnStep

LEMMA OwnTable ==
  ASSUME VmInv, m # 0
  PROVE  Owned([mms EXCEPT ![m] = mm], free)
<1>1. [mms EXCEPT ![m] = mm] = mms
  BY CurrentMm DEF VmInv, VmTypeOK, mm
<1> QED BY <1>1 DEF VmInv

LEMMA ArgumentFacts ==
  ASSUME VmTypeOK, RangesFit, NEW addr \in machine.addrs, NEW len \in machine.lens
  PROVE  /\ addr \in Pages /\ addr \in Nat /\ len \in Nat /\ len > 0
         /\ addr + len <= MaxPage /\ End(addr, len) = addr + len
<1>1. addr \in Nat /\ len \in Nat /\ len > 0 /\ addr + len <= MaxPage
  BY VmAssumption DEF VmTypeOK, RangesFit
<1> QED BY <1>1, EndIs, Constants DEF Pages

LEMMA MunmapStep ==
  ASSUME VmInv, machine' = machine, NEW addr \in machine.addrs, NEW len \in machine.lens,
         Munmap(addr, len)
  PROVE  VmInv'
<1>1. m # 0 /\ mm \in Mm /\ MmOK(mm)
  BY CurrentMm DEF Munmap, Uses
<1>2. addr \in Nat /\ addr + len \in Nat /\ addr <= addr + len
  BY ArgumentFacts DEF VmInv
<1>3. Unmapping(mm, addr, addr + len)
  BY ArgumentFacts DEF Munmap, VmInv
<1>4. Owned([mms EXCEPT ![m] = mm], free)
  BY <1>1, OwnTable
<1> QED BY <1>1, <1>2, <1>3, <1>4, UnmappingStep

LEMMA MremapShrinkStep ==
  ASSUME VmInv, machine' = machine, NEW old \in machine.addrs, NEW olen \in machine.lens,
         NEW nlen \in machine.lens, MremapShrink(old, olen, nlen)
  PROVE  VmInv'
<1>1. m # 0 /\ mm \in Mm /\ MmOK(mm)
  BY CurrentMm DEF MremapShrink, Uses
<1>2. old + nlen \in Nat /\ old + olen \in Nat /\ old + nlen <= old + olen
  BY ArgumentFacts DEF VmInv, MremapShrink
<1>3. Unmapping(mm, old + nlen, old + olen)
  BY DEF MremapShrink
<1>4. Owned([mms EXCEPT ![m] = mm], free)
  BY <1>1, OwnTable
<1> QED BY <1>1, <1>2, <1>3, <1>4, UnmappingStep

LEMMA BrkShrinkStep ==
  ASSUME VmInv, machine' = machine, NEW b \in machine.brks, BrkShrink(b)
  PROVE  VmInv'
<1> DEFINE mem == [mm EXCEPT !.brk = b]
<1>1. m # 0 /\ mm \in Mm /\ MmOK(mm)
  BY CurrentMm DEF BrkShrink, Uses
<1>2. b \in Nat /\ mm.brk \in Nat
  BY <1>1, MachineFacts DEF VmInv, Mm
<1>3. PageUp(b) \in Nat /\ PageUp(mm.brk) \in Nat /\ PageUp(b) <= PageUp(mm.brk)
  BY <1>2, PageUpNat DEF BrkShrink
<1>4. /\ mem \in Mm /\ mem.refs = mm.refs /\ mem.vmas = mm.vmas /\ mem.pt = mm.pt
  BY <1>1, <1>2 DEF Mm
<1>5. Unmapping(mem, PageUp(b), PageUp(mm.brk))
  BY DEF BrkShrink
<1> HIDE DEF mem
<1>6. Owned([mms EXCEPT ![m] = mem], free)
  <2> DEFINE ms == [mms EXCEPT ![m] = mem]
             i == m
  <2>1. \A j \in Mms : ms[j] = IF j = i THEN mem ELSE mms[j]
    BY CurrentMm, <1>1 DEF VmInv, VmTypeOK
  <2>2. mem.pt = mms[i].pt
    BY <1>4 DEF mm
  <2> HIDE DEF ms, i
  <2>3. \A j \in Mms, a \in Pages : FrameAt(ms, j, a) = FrameAt(mms, j, a)
    BY <2>1, <2>2 DEF FrameAt
  <2>4. Owned(ms, free)
    BY <2>3, FramesSame DEF VmInv
  <2> QED BY <2>4 DEF ms
<1>7. MmOK(mem)
  BY <1>1, <1>4 DEF MmOK
<1> QED BY <1>1, <1>3, <1>4, <1>5, <1>6, <1>7, UnmappingStep

LEMMA RightWritable == \A e, p : p \in {2, 3, 6, 7} => Right(e, p)
BY DEF Right

\* sys_mmap, where the pages it maps are in no VMA of `over`, which otherwise has
\* the entries of the struct mm: the room it has, the pages it fills and what it
\* makes of `over`.
MapsAt(over, va, len, prot, flen, new, room, filled, got) ==
  /\ filled = {x \in va..va + Min({len, flen}) - 1 : Walkable(x)}
  /\ room = free \cup FramesOf(mm.pt, va..va + len - 1)
  /\ filled \subseteq va..va + len - 1 /\ (filled # {} => prot \in FileProts)
  /\ got \in Injection(filled, room) /\ got \in [filled -> room] /\ room \subseteq Frames
  /\ Becomes(new) /\ new \in Mm /\ new.refs = mm.refs /\ VmasOK(new.vmas)
  /\ \A a \in Pages : \A p :
       Gives(new.vmas, a, p) <=> Gives(over.vmas, a, p) \/ (a \in va..va + len - 1 /\ p = prot)
  /\ \A a \in filled : new.pt[a].frame = got[a]
  /\ \A a \in Pages \ filled : new.pt[a] = over.pt[a]
  /\ Owned([mms EXCEPT ![m] = over], room) /\ free' = room \ Taken(got)
  /\ frames' = Holding([f \in Frames |-> IF f \in room THEN Link ELSE frames[f]], got)

\* What sys_mmap does once it has chosen va, the end e, the room and the pages.
MapsTo(over, top, va, e, prot, room, filled) ==
  /\ Enough(room, filled) /\ free' = room \ Taken(Palloc(room, filled))
  /\ Becomes([over EXCEPT !.vmas = VmasWith(@, va, e, prot),
                          !.pt = CopyTo(@, Palloc(room, filled)), !.top = top])
  /\ frames' = Holding([f \in Frames |-> IF f \in room THEN Link ELSE frames[f]],
                       Palloc(room, filled))

\* A range that ends in user space does not wrap round on its way either.
LEMMA MapAtIs ==
  ASSUME NEW over, NEW top, NEW va \in Nat, NEW len \in Nat \ {0}, va + len <= MaxPage,
         NEW prot, NEW flen \in Nat, MapAt(over, top, va, len, prot, flen)
  PROVE  MapsTo(over, top, va, va + len, prot, free \cup FramesOf(mm.pt, va..va + len - 1),
                {x \in va..va + Min({len, flen}) - 1 : Walkable(x)})
<1>1. End(va, len) = va + len
  BY EndIs
<1>2. PICK k \in Nat : k = Min({len, flen}) /\ k <= len
  BY MinOfTwo
<1>3. {End(va, i) : i \in 0..k - 1} = va..va + k - 1
  <2>1. \A i \in 0..k - 1 : End(va, i) = va + i /\ va + i \in va..va + k - 1
    BY <1>2, EndIs, Constants
  <2>2. \A x \in va..va + k - 1 : x - va \in 0..k - 1 /\ va + (x - va) = x
    BY <1>2
  <2>3. \A x \in va..va + k - 1 : End(va, x - va) = x
    BY <2>1, <2>2
  <2> QED BY <2>1, <2>2, <2>3
<1> DEFINE filled == {x \in {End(va, i) : i \in 0..Min({len, flen}) - 1} : Walkable(x)}
<1>4. MapsTo(over, top, va, End(va, len), prot, free \cup FramesOf(mm.pt, va..End(va, len) - 1), filled)
  BY DEF MapAt, MapsTo
<1>5. filled = {x \in va..va + Min({len, flen}) - 1 : Walkable(x)}
  BY <1>2, <1>3
<1> HIDE DEF filled
<1>6. PICK e, span : e = va + len /\ span = va..va + len - 1
  OBVIOUS
<1>7. va..e - 1 = span
  BY <1>6
<1>8. MapsTo(over, top, va, e, prot, free \cup FramesOf(mm.pt, va..e - 1), filled)
  BY <1>1, <1>4, <1>6, Zenon
<1>9. MapsTo(over, top, va, e, prot, free \cup FramesOf(mm.pt, span), filled)
  BY <1>7, <1>8, Zenon
<1> QED BY <1>5, <1>6, <1>9, Zenon

LEMMA MapAtNew ==
  ASSUME VmInv, m # 0, NEW over, MmOK(over), over.refs = mm.refs, NEW top \in 0..MaxPage,
         NEW va \in Nat, NEW len \in Nat \ {0}, va + len <= MaxPage,
         NEW prot \in 0..7, NEW flen \in Nat, FileOr(prot, flen),
         RangeClear(over.vmas, va, va + len),
         \A a \in Pages : over.pt[a].frame = IF a \in va..va + len - 1 THEN 0 ELSE mm.pt[a].frame,
         MapAt(over, top, va, len, prot, flen)
  PROVE  \E new, room, filled, got : MapsAt(over, va, len, prot, flen, new, room, filled, got)
<1> DEFINE D == va..va + len - 1
           room == free \cup FramesOf(mm.pt, D)
           filled == {x \in va..va + Min({len, flen}) - 1 : Walkable(x)}
           got == Palloc(room, filled)
           vs == VmasWith(over.vmas, va, va + len, prot)
           pt == CopyTo(over.pt, got)
           new == [over EXCEPT !.vmas = vs, !.pt = pt, !.top = top]
           i == m
           ms == [mms EXCEPT ![m] = over]
           ns == mms'
<1>1. /\ over \in Mm /\ over.pt \in [Pages -> Pte] /\ VmasOK(over.vmas)
      /\ mms \in [Mms -> Mm] /\ i \in Mms /\ frames \in [Frames -> Vals \cup {Link}]
      /\ All \subseteq Frames /\ 0 \notin Frames
  BY CurrentMm, MachineFacts DEF MmOK, Mm, VmInv, VmTypeOK, All
<1>2. D \subseteq Pages /\ va \in Pages /\ va + len \in 1..MaxPage /\ va < va + len
  BY Constants DEF Pages
<1>3. filled \subseteq D /\ (filled # {} => prot \in FileProts)
  <2> DEFINE k == Min({len, flen})
  <2>1. k \in Nat /\ k <= len /\ k <= flen
    <3>1. k \in {len, flen} /\ \A y \in {len, flen} : k <= y
      BY MinFacts
    <3> QED BY <3>1
  <2> HIDE DEF k
  <2>2. filled \subseteq va..va + k - 1
    BY DEF k
  <2> HIDE DEF filled
  <2>3. filled \subseteq D
    BY <2>1, <2>2
  <2>4. ASSUME NEW x \in filled PROVE flen > 0
    <3>1. va <= x /\ x <= va + k - 1 /\ x \in Int
      BY <2>1, <2>2
    <3> QED BY <2>1, <3>1
  <2> QED BY <2>3, <2>4 DEF FileOr
<1>4. /\ Enough(room, filled) /\ Becomes(new) /\ free' = room \ Taken(got)
      /\ frames' = Holding([f \in Frames |-> IF f \in room THEN Link ELSE frames[f]], got)
  <2>1. MapsTo(over, top, va, va + len, prot, room, filled)
    BY MapAtIs
  <2> QED BY <2>1 DEF MapsTo
<1>6. \A j \in Mms : ms[j] = (IF j = i THEN over ELSE mms[j]) /\ ns[j] = IF j = i THEN new ELSE mms[j]
  BY <1>1, <1>4 DEF Becomes
<1> HIDE DEF D, ms, ns, new, room, filled
<1>7. Owned(ms, room)
  <2>1. \A j \in Mms, a \in Pages :
          FrameAt(ms, j, a) = IF j = i /\ a \in D THEN 0 ELSE FrameAt(mms, j, a)
    BY <1>1, <1>6 DEF FrameAt, mm, D
  <2>2. Owned(ms, free \cup FramesOf(mms[i].pt, D))
    <3> HIDE DEF i
    <3> QED BY <1>1, <2>1, FramesGiven DEF VmInv
  <2> QED BY <2>2 DEF mm, room
<1>8. /\ got \in Injection(filled, room) /\ got \in [filled -> room]
      /\ filled \subseteq Pages /\ room \subseteq Frames /\ got \in [filled -> Frames]
  <2>1. got \in Injection(filled, room) /\ got \in [filled -> room]
    BY <1>4, Received
  <2>2. room \subseteq Frames /\ filled \subseteq Pages
    BY <1>1, <1>2, <1>3, <1>7 DEF Owned
  <2> HIDE DEF got
  <2> QED BY <2>1, <2>2
<1> HIDE DEF got
<1>9. /\ pt \in [Pages -> Pte]
      /\ \A a \in filled : pt[a].frame = got[a]
      /\ \A a \in Pages \ filled : pt[a] = over.pt[a]
  <2> DEFINE opt == over.pt
  <2>1. opt \in [Pages -> Pte] /\ filled \in SUBSET Pages
    BY <1>1, <1>8
  <2>3. got \in [filled -> Frames]
    BY <1>8
  <2> HIDE DEF opt
  <2>2. /\ CopyTo(opt, got) \in [Pages -> Pte]
        /\ \A a \in filled : CopyTo(opt, got)[a].frame = got[a]
        /\ \A a \in Pages \ filled : CopyTo(opt, got)[a] = opt[a]
    BY <2>1, <2>3, CopyFacts
  <2> QED BY <2>2 DEF opt
<1>10. /\ VmasOK(vs)
       /\ \A a \in Pages : \A p : Gives(vs, a, p) <=> Gives(over.vmas, a, p) \/ (a \in D /\ p = prot)
  <2> DEFINE ovs == over.vmas
             e == va + len
  <2>1. VmasOK(ovs) /\ e \in 1..MaxPage /\ va < e /\ RangeClear(ovs, va, e)
    BY <1>1, <1>2
  <2> HIDE DEF ovs, e
  <2>2. /\ VmasOK(VmasWith(ovs, va, e, prot))
        /\ \A a \in Pages : \A p :
             Gives(VmasWith(ovs, va, e, prot), a, p) <=> Gives(ovs, a, p) \/ (a \in va..e - 1 /\ p = prot)
    BY <1>2, <2>1, WithOK
  <2> QED BY <2>2 DEF ovs, e, D
<1> HIDE DEF vs, pt
<1>11. /\ new \in Mm /\ new.vmas = vs /\ new.pt = pt /\ new.refs = mm.refs
  <2>1. vs \in SUBSET Vma
    BY <1>10 DEF VmasOK
  <2> QED BY <1>1, <1>9, <2>1 DEF Mm, new
<1>13. Owned([mms EXCEPT ![m] = over], room)
  BY <1>7 DEF ms
<1> SUFFICES MapsAt(over, va, len, prot, flen, new, room, filled, got)
  OBVIOUS
<1>14. /\ filled = {x \in va..va + Min({len, flen}) - 1 : Walkable(x)}
       /\ room = free \cup FramesOf(mm.pt, va..va + len - 1)
  BY DEF filled, room, D
<1>15. /\ filled \subseteq va..va + len - 1
       /\ \A a \in Pages : \A p :
            Gives(new.vmas, a, p) <=> Gives(over.vmas, a, p) \/ (a \in va..va + len - 1 /\ p = prot)
  BY <1>3, <1>10, <1>11 DEF D
<1> QED BY <1>3, <1>4, <1>8, <1>9, <1>10, <1>11, <1>13, <1>14, <1>15 DEF MapsAt

LEMMA MapAtStep ==
  ASSUME VmInv, m # 0, NEW over, MmOK(over), over.refs = mm.refs, NEW top \in 0..MaxPage,
         NEW va \in Nat, NEW len \in Nat \ {0}, va + len <= MaxPage,
         NEW prot \in 0..7, NEW flen \in Nat, FileOr(prot, flen),
         RangeClear(over.vmas, va, va + len),
         \A a \in Pages : over.pt[a].frame = IF a \in va..va + len - 1 THEN 0 ELSE mm.pt[a].frame,
         MapAt(over, top, va, len, prot, flen)
  PROVE  /\ frames' \in [Frames -> Vals \cup {Link}] /\ Owned(mms', free')
         /\ \E new : /\ Becomes(new) /\ MmOK(new) /\ new.refs = mm.refs
                     /\ \A a \in Pages : Present(over.pt, a) => new.pt[a] = over.pt[a]
<1>1. PICK new, room, filled, got : MapsAt(over, va, len, prot, flen, new, room, filled, got)
  BY MapAtNew
<1> DEFINE D == va..va + len - 1
           i == m
           ms == [mms EXCEPT ![m] = over]
           ns == mms'
<1>2. /\ over \in Mm /\ over.pt \in [Pages -> Pte] /\ VmasOK(over.vmas) /\ MmOK(over)
      /\ mms \in [Mms -> Mm] /\ i \in Mms /\ frames \in [Frames -> Vals \cup {Link}]
      /\ 0 \notin Frames
  BY CurrentMm, MachineFacts DEF MmOK, Mm, VmInv, VmTypeOK
<1>3. filled \subseteq D /\ (filled # {} => prot \in FileProts) /\ D \subseteq Pages
  <2>1. filled \subseteq D /\ (filled # {} => prot \in FileProts)
    BY <1>1, Zenon DEF MapsAt
  <2>2. D \subseteq Pages
    BY Constants DEF Pages
  <2> QED BY <2>1, <2>2
<1>4. /\ Becomes(new) /\ new \in Mm /\ new.refs = mm.refs /\ VmasOK(new.vmas)
      /\ free' = room \ Taken(got)
      /\ \A a \in Pages : \A p : Gives(new.vmas, a, p) <=> Gives(over.vmas, a, p) \/ (a \in D /\ p = prot)
      /\ \A a \in filled : new.pt[a].frame = got[a]
      /\ \A a \in Pages \ filled : new.pt[a] = over.pt[a]
  BY <1>1 DEF MapsAt
<1>5. frames' \in [Frames -> Vals \cup {Link}]
  <2> DEFINE fs == [f \in Frames |-> IF f \in room THEN Link ELSE frames[f]]
  <2>1. frames' = Holding(fs, got)
    BY <1>1 DEF MapsAt
  <2>2. fs \in [Frames -> Vals \cup {Link}]
    BY <1>2
  <2> HIDE DEF fs
  <2> QED BY <2>1, <2>2, HoldingType
<1>6. \A j \in Mms : ms[j] = (IF j = i THEN over ELSE mms[j]) /\ ns[j] = IF j = i THEN new ELSE mms[j]
  BY <1>2, <1>4 DEF Becomes
<1>7. Owned(ms, room)
  BY <1>1 DEF MapsAt
<1>8. got \in Injection(filled, room)
  BY <1>1 DEF MapsAt
<1> HIDE DEF D, ms, ns
<1>12. \A a \in filled : a \in D /\ over.pt[a].frame = 0
  BY <1>3 DEF D
<1>13. Owned(mms', free')
  <2>1. \A a \in filled : FrameAt(ms, i, a) = 0
    BY <1>2, <1>3, <1>6, <1>12 DEF FrameAt
  <2>2. \A j \in Mms, a \in Pages :
          FrameAt(ns, j, a) = IF j = i /\ a \in filled THEN got[a] ELSE FrameAt(ms, j, a)
    BY <1>3, <1>4, <1>6 DEF FrameAt
  <2>3. Owned(ns, room \ Taken(got))
    <3> HIDE DEF i
    <3>1. filled \in SUBSET Pages
      BY <1>3
    <3> QED BY <1>2, <1>7, <1>8, <2>1, <2>2, <3>1, FramesTaken
  <2> QED BY <1>4, <2>3 DEF ns
<1>14. ASSUME NEW a \in Pages, Present(new.pt, a)
       PROVE  (a \in D /\ a \in filled) \/ (Present(over.pt, a) /\ a \notin D /\ new.pt[a] = over.pt[a])
  <2>1. CASE a \in filled
    BY <1>3, <2>1
  <2>2. CASE a \notin filled
    BY <1>4, <1>14, <2>2 DEF Present, D
  <2> QED BY <2>1, <2>2
<1>15. MmOK(new)
  <2>1. ASSUME NEW a \in Pages, Present(new.pt, a) PROVE Mapped(new.vmas, a)
    <3>1. a \in D => Gives(new.vmas, a, prot)
      BY <1>4
    <3>2. Present(over.pt, a) => \E p : Gives(new.vmas, a, p)
      BY <1>2, <1>4, GivesMapped DEF MmOK
    <3> QED BY <1>14, <2>1, <3>1, <3>2, GivesMapped
  <2>2. ASSUME FilesWritable, NEW a \in Pages, NEW p, Present(new.pt, a), Gives(new.vmas, a, p)
        PROVE  Right(new.pt[a], p)
    <3>1. CASE a \in D /\ a \in filled
      <4>1. ~Gives(over.vmas, a, p)
        BY <1>2, <1>3, <3>1, Constants DEF D, RangeClear, Gives, Inside, Overlaps, VmasOK, Vma, Pages
      <4>2. p = prot /\ prot \in {2, 3, 6, 7}
        BY <1>3, <1>4, <2>2, <3>1, <4>1 DEF FilesWritable
      <4> QED BY <4>2, RightWritable
    <3>2. CASE Present(over.pt, a) /\ a \notin D /\ new.pt[a] = over.pt[a]
      <4>1. Gives(over.vmas, a, p)
        BY <1>4, <2>2, <3>2
      <4> QED BY <2>2, <3>2, <4>1 DEF MmOK, RightsOK
    <3> QED BY <1>14, <2>2, <3>1, <3>2
  <2> QED BY <1>4, <2>1, <2>2 DEF MmOK, RightsOK
<1>16. \A a \in Pages : Present(over.pt, a) => new.pt[a] = over.pt[a]
  BY <1>3, <1>4, <1>12 DEF Present
<1> QED BY <1>4, <1>5, <1>13, <1>15, <1>16

LEMMA MappingFacts ==
  ASSUME VmTypeOK, RangesFit, NEW len \in machine.lens, NEW prot \in machine.prots, NEW flen \in machine.files
  PROVE  len \in Nat \ {0} /\ prot \in 0..7 /\ flen \in Nat
BY MachineFacts

LEMMA MmapFixedStep ==
  ASSUME VmInv, machine' = machine, NEW addr \in machine.addrs, NEW len \in machine.lens,
         NEW prot \in machine.prots, NEW flen \in machine.files, MmapFixed(addr, len, prot, flen)
  PROVE  VmInv'
<1>0. PICK over, e : over = Without(mm, addr, e) /\ e = addr + len /\ e = End(addr, len)
  BY ArgumentFacts DEF VmInv
<1>1. m # 0 /\ mm \in Mm /\ MmOK(mm) /\ mm.top \in 0..MaxPage
  BY CurrentMm DEF MmapFixed, Uses, Mm
<1>2. /\ addr \in Nat /\ len \in Nat \ {0} /\ prot \in 0..7 /\ flen \in Nat
      /\ addr + len <= MaxPage /\ addr + len \in Nat /\ addr <= addr + len
  BY ArgumentFacts, MappingFacts DEF VmInv
<1>3. /\ MmOK(over) /\ over.refs = mm.refs /\ RangeClear(over.vmas, addr, e)
      /\ \A a \in Pages : over.pt[a] = IF a \in addr..e - 1 THEN NoPte ELSE mm.pt[a]
  <2>1. over = Without(mm, addr, e) /\ addr \in Nat /\ e \in Nat /\ addr <= e
    BY <1>0, <1>2
  <2>4. MmOK(mm)
    BY <1>1
  <2>2. MmOK(over) /\ over.refs = mm.refs /\ RangeClear(over.vmas, addr, e)
    BY <2>1, <2>4, WithoutMm
  <2>3. \A a \in Pages : over.pt[a] = IF a \in addr..e - 1 THEN NoPte ELSE mm.pt[a]
    BY <2>1, <2>4, WithoutMm
  <2> QED BY <2>2, <2>3
<1>4. MapAt(over, mm.top, addr, len, prot, flen) /\ FileOr(prot, flen) /\ stale' = {}
  BY <1>0 DEF MmapFixed, FlushTlb
<1>5. \A a \in Pages : over.pt[a].frame = IF a \in addr..addr + len - 1 THEN 0 ELSE mm.pt[a].frame
  BY <1>0, <1>2, <1>3, NoPteFacts
<1>6. RangeClear(over.vmas, addr, addr + len)
  BY <1>0, <1>3
<1>7. frames' \in [Frames -> Vals \cup {Link}] /\ Owned(mms', free')
  BY <1>1, <1>2, <1>3, <1>4, <1>5, <1>6, MapAtStep
<1>8. \E new : Becomes(new) /\ MmOK(new) /\ new.refs = mm.refs
  BY <1>1, <1>2, <1>3, <1>4, <1>5, <1>6, MapAtStep
<1> QED BY <1>1, <1>4, <1>7, <1>8, OwnStep

\* A page in no VMA is not present.
LEMMA ClearAbsent ==
  ASSUME NEW r, MmOK(r), NEW s \in Nat, NEW e \in Nat, RangeClear(r.vmas, s, e)
  PROVE  \A a \in Pages : a \in s..e - 1 => ~Present(r.pt, a) /\ r.pt[a].frame = 0
<1>1. ASSUME NEW a \in Pages, a \in s..e - 1 PROVE ~Mapped(r.vmas, a)
  BY <1>1, Constants DEF MmOK, RangeClear, Overlaps, Mapped, Inside, VmasOK, Vma, Pages
<1> QED BY <1>1 DEF MmOK, Present

\* sys_mmap where nothing is mapped: the TLB may stay.
LEMMA MapClearStep ==
  ASSUME VmInv, machine' = machine, m # 0, NEW top \in 0..MaxPage, NEW va \in Nat,
         NEW len \in Nat \ {0}, va + len <= MaxPage, NEW prot \in 0..7, NEW flen \in Nat,
         FileOr(prot, flen), RangeClear(mm.vmas, va, va + len),
         MapAt(mm, top, va, len, prot, flen), KeepTlb(mms'[m])
  PROVE  VmInv'
<1>1. mm \in Mm /\ MmOK(mm)
  BY CurrentMm
<1>2. \A a \in Pages : mm.pt[a].frame = IF a \in va..va + len - 1 THEN 0 ELSE mm.pt[a].frame
  <2> DEFINE e == va + len
  <2>1. e \in Nat
    OBVIOUS
  <2> HIDE DEF e
  <2>2. RangeClear(mm.vmas, va, e)
    BY DEF e
  <2>3. \A a \in Pages : a \in va..e - 1 => mm.pt[a].frame = 0
    BY <1>1, <2>1, <2>2, ClearAbsent
  <2> QED BY <2>3 DEF e
<1>3. /\ frames' \in [Frames -> Vals \cup {Link}] /\ Owned(mms', free')
      /\ \E new : /\ Becomes(new) /\ MmOK(new) /\ new.refs = mm.refs
                  /\ \A a \in Pages : Present(mm.pt, a) => new.pt[a] = mm.pt[a]
  BY <1>1, <1>2, MapAtStep
<1>4. PICK new : /\ Becomes(new) /\ MmOK(new) /\ new.refs = mm.refs
                 /\ \A a \in Pages : Present(mm.pt, a) => new.pt[a] = mm.pt[a]
  BY <1>3
<1>5. mms'[m] = new
  BY <1>4, CurrentMm DEF Becomes, VmInv, VmTypeOK
<1>6. stale' = {}
  BY <1>4, <1>5, KeptFresh
<1> QED BY <1>3, <1>4, <1>6, OwnStep

LEMMA TopFacts ==
  ASSUME NEW top \in 0..MaxPage, NEW vs, NEW len \in Nat \ {0}, NEW va \in TopAlloc(top, vs, len)
  PROVE  /\ va \in Pages /\ va \in Nat /\ va \in 0..MaxPage /\ va + len <= top /\ va + len <= MaxPage
         /\ RangeClear(vs, va, va + len)
BY Constants DEF TopAlloc, Below, Pages

LEMMA MmapHintStep ==
  ASSUME VmInv, machine' = machine, NEW addr \in machine.addrs, NEW len \in machine.lens,
         NEW prot \in machine.prots, NEW flen \in machine.files, MmapHint(addr, len, prot, flen)
  PROVE  VmInv'
<1>1. m # 0 /\ mm \in Mm /\ mm.top \in 0..MaxPage
  BY CurrentMm DEF MmapHint, Uses, Mm
<1>2. /\ addr \in Nat /\ len \in Nat \ {0} /\ prot \in 0..7 /\ flen \in Nat
      /\ addr + len <= MaxPage /\ RangeClear(mm.vmas, addr, addr + len)
  BY ArgumentFacts, MappingFacts, Constants DEF VmInv, MmapHint, RangeFree, UserRange
<1> QED BY <1>1, <1>2, MapClearStep DEF MmapHint

LEMMA MmapTopDownStep ==
  ASSUME VmInv, machine' = machine, NEW len \in machine.lens,
         NEW prot \in machine.prots, NEW flen \in machine.files, MmapTopDown(len, prot, flen)
  PROVE  VmInv'
<1>1. m # 0 /\ mm \in Mm /\ mm.top \in 0..MaxPage
  BY CurrentMm DEF MmapTopDown, Uses, Mm
<1>2. len \in Nat \ {0} /\ prot \in 0..7 /\ flen \in Nat
  BY MappingFacts DEF VmInv
<1>3. PICK va \in TopAlloc(mm.top, mm.vmas, len) : MapAt(mm, va, va, len, prot, flen)
  BY DEF MmapTopDown
<1>4. /\ va \in Nat /\ va \in 0..MaxPage /\ va + len <= MaxPage
      /\ RangeClear(mm.vmas, va, va + len)
  BY <1>1, <1>2, TopFacts
<1> QED BY <1>1, <1>2, <1>3, <1>4, MapClearStep DEF MmapTopDown

\* A step that leaves every page where it is.
LEMMA SameFrames ==
  ASSUME VmInv, m # 0, NEW new, Becomes(new), free' = free,
         \A a \in Pages : new.pt[a].frame = mm.pt[a].frame
  PROVE  Owned(mms', free')
<1>1. \A a \in Pages : FrameAt(mms', m, a) = FrameAt(mms, m, a)
  BY OwnFrames
<1>2. \A j \in Mms, a \in Pages : FrameAt(mms', j, a) = FrameAt(mms, j, a)
  BY <1>1, OwnFrames
<1> QED BY <1>2, FramesSame DEF VmInv

\* mprotect, up to the page e.
ProtectsTo(addr, e, prot) ==
  /\ Becomes([mm EXCEPT
       !.vmas = VmasProtected(@, addr, e, prot),
       !.pt = [a \in Pages |-> IF a \in addr..e - 1 /\ Present(@, a)
                               THEN WithBits(@[a], prot) ELSE @[a]]])
  /\ FlushTlb /\ UNCHANGED <<frames, free>>

LEMMA MprotectIs ==
  ASSUME VmInv, NEW addr \in machine.addrs, NEW len \in machine.lens,
         NEW prot \in machine.prots, Mprotect(addr, len, prot)
  PROVE  ProtectsTo(addr, addr + len, prot)
<1>1. End(addr, len) = addr + len
  BY ArgumentFacts DEF VmInv
<1>2. ProtectsTo(addr, End(addr, len), prot)
  BY DEF Mprotect, ProtectsTo
<1> QED BY <1>1, <1>2, Zenon

LEMMA MprotectStep ==
  ASSUME VmInv, machine' = machine, NEW addr \in machine.addrs, NEW len \in machine.lens,
         NEW prot \in machine.prots, Mprotect(addr, len, prot)
  PROVE  VmInv'
<1> DEFINE D == addr..(addr + len) - 1
           vs == VmasProtected(mm.vmas, addr, addr + len, prot)
           pt == [a \in Pages |-> IF a \in D /\ Present(mm.pt, a)
                                  THEN WithBits(mm.pt[a], prot) ELSE mm.pt[a]]
           new == [mm EXCEPT !.vmas = vs, !.pt = pt]
<1>1. /\ m # 0 /\ mm \in Mm /\ MmOK(mm) /\ mm.pt \in [Pages -> Pte] /\ VmasOK(mm.vmas)
      /\ frames \in [Frames -> Vals \cup {Link}]
  BY CurrentMm DEF Mprotect, Uses, Mm, MmOK, VmInv, VmTypeOK
<1>2. addr \in Nat /\ len \in Nat /\ addr + len \in Nat /\ addr <= addr + len /\ prot \in 0..7
  BY ArgumentFacts, MachineFacts DEF VmInv
<1>3. Becomes(new) /\ UNCHANGED <<frames, free>> /\ stale' = {}
  <2>1. ProtectsTo(addr, addr + len, prot)
    BY MprotectIs
  <2> QED BY <2>1 DEF ProtectsTo, FlushTlb
<1>11. PICK e : e = addr + len
  OBVIOUS
<1>12. e \in Nat /\ addr <= e /\ vs = VmasProtected(mm.vmas, addr, e, prot) /\ D = addr..e - 1
  <2>1. vs = VmasProtected(mm.vmas, addr, e, prot)
    BY <1>11
  <2>2. e \in Nat /\ addr <= e /\ D = addr..e - 1
    <3> HIDE DEF vs
    <3> QED BY <1>2, <1>11
  <2> HIDE DEF D, vs
  <2> QED BY <2>1, <2>2
<1> HIDE DEF D, vs
<1>4. VmasOK(vs)
  BY <1>1, <1>2, <1>12, ProtectedOK
<1>5. \A a \in Pages : \A p :
        Gives(vs, a, p) <=> IF a \in D THEN p = prot /\ Mapped(mm.vmas, a) ELSE Gives(mm.vmas, a, p)
  BY <1>1, <1>2, <1>12, ProtectedOK
<1>6. /\ pt \in [Pages -> Pte]
      /\ \A a \in Pages : /\ pt[a].frame = mm.pt[a].frame
                          /\ Present(mm.pt, a) /\ a \in D => Right(pt[a], prot)
                          /\ a \notin D => pt[a] = mm.pt[a]
  <2>1. \A a \in Pages : /\ WithBits(mm.pt[a], prot) \in Pte
                         /\ WithBits(mm.pt[a], prot).frame = mm.pt[a].frame
                         /\ Right(WithBits(mm.pt[a], prot), prot)
    <3>1. \A q \in Pte : /\ WithBits(q, prot) \in Pte /\ WithBits(q, prot).frame = q.frame
                         /\ Right(WithBits(q, prot), prot)
      BY WithBitsFacts
    <3>2. \A a \in Pages : mm.pt[a] \in Pte
      BY <1>1
    <3> QED BY <3>1, <3>2, Zenon
  <2>2. \A a \in Pages : mm.pt[a] \in Pte
    BY <1>1
  <2> QED BY <2>1, <2>2
<1> HIDE DEF pt
<1>7. new \in Mm /\ new.vmas = vs /\ new.pt = pt /\ new.refs = mm.refs
  BY <1>1, <1>4, <1>6 DEF Mm, VmasOK
<1> HIDE DEF new
<1>8. \A a \in Pages : Present(pt, a) <=> Present(mm.pt, a)
  BY <1>6 DEF Present
<1>9. MmOK(new)
  <2>1. ASSUME NEW a \in Pages, Present(mm.pt, a) PROVE Mapped(vs, a)
    BY <1>1, <1>5, <2>1, GivesMapped DEF MmOK
  <2>2. ASSUME FilesWritable, NEW a \in Pages, NEW p, Present(mm.pt, a), Gives(vs, a, p)
        PROVE  Right(pt[a], p)
    <3>1. CASE a \in D
      BY <1>5, <1>6, <2>2, <3>1
    <3>2. CASE a \notin D
      BY <1>1, <1>5, <1>6, <2>2, <3>2 DEF MmOK, RightsOK
    <3> QED BY <3>1, <3>2
  <2> QED BY <1>4, <1>7, <1>8, <2>1, <2>2 DEF MmOK, RightsOK
<1>10. Owned(mms', free')
  <2>1. \A a \in Pages : new.pt[a].frame = mm.pt[a].frame
    BY <1>6, <1>7
  <2> QED BY <1>1, <1>3, <2>1, SameFrames
<1> QED BY <1>1, <1>3, <1>7, <1>9, <1>10, OwnStep

\* A step that only adds a range to the VMAs, where there was none.
LEMMA GrownStep ==
  ASSUME VmInv, machine' = machine, m # 0, NEW new \in Mm, Becomes(new), new.pt = mm.pt,
         new.refs = mm.refs, VmasOK(new.vmas), NEW s \in Nat, NEW e \in Nat, RangeClear(mm.vmas, s, e),
         \A a \in Pages : \A p : Gives(mm.vmas, a, p) => Gives(new.vmas, a, p),
         \A a \in Pages : \A p : Gives(new.vmas, a, p) => Gives(mm.vmas, a, p) \/ a \in s..e - 1,
         KeepTlb(mms'[m]), UNCHANGED <<frames, free>>
  PROVE  VmInv'
<1>1. /\ m \in Mms /\ MmOK(mm) /\ frames \in [Frames -> Vals \cup {Link}]
  BY CurrentMm DEF VmInv, VmTypeOK
<1>2. mms'[m] = new
  BY <1>1 DEF Becomes, VmInv, VmTypeOK
<1>3. stale' = {}
  BY <1>2, KeptFresh
<1>4. Owned(mms', free')
  BY SameFrames
<1>5. MmOK(new)
  <2>1. \A a \in Pages : Present(mm.pt, a) => Mapped(new.vmas, a)
    BY <1>1, GivesMapped DEF MmOK
  <2>2. ASSUME FilesWritable, NEW a \in Pages, NEW p, Present(mm.pt, a), Gives(new.vmas, a, p)
        PROVE  Right(mm.pt[a], p)
    <3>1. a \notin s..e - 1
      BY <1>1, <2>2, ClearAbsent
    <3>2. Gives(mm.vmas, a, p)
      BY <2>2, <3>1
    <3> QED BY <1>1, <2>2, <3>2 DEF MmOK, RightsOK
  <2> QED BY <2>1, <2>2 DEF MmOK, RightsOK
<1> QED BY <1>1, <1>3, <1>4, <1>5, OwnStep

\* The old range of mremap lies in one VMA.
LEMMA RemappableFacts ==
  ASSUME VmInv, m # 0, NEW old \in machine.addrs, NEW olen \in machine.lens, Remappable(old, olen)
  PROVE  /\ FindVma(mm.vmas, old) \in mm.vmas /\ Inside(FindVma(mm.vmas, old), old)
         /\ FindVma(mm.vmas, old).prot \in 0..7 /\ FindVma(mm.vmas, old).start \in Nat
         /\ FindVma(mm.vmas, old).end \in Nat /\ FindVma(mm.vmas, old).end <= MaxPage
         /\ old \in Nat /\ old \in Pages /\ olen \in Nat \ {0}
         /\ old + olen <= FindVma(mm.vmas, old).end
<1>1. old \in Pages /\ old \in Nat /\ olen \in Nat \ {0}
  BY ArgumentFacts DEF VmInv
<1>2. MmOK(mm) /\ VmasOK(mm.vmas) /\ Mapped(mm.vmas, old) /\ old + olen <= FindVma(mm.vmas, old).end
  BY CurrentMm DEF MmOK, Remappable
<1> DEFINE v == FindVma(mm.vmas, old)
<1>3. v \in mm.vmas /\ Inside(v, old) /\ v.prot \in 0..7
  BY <1>1, <1>2, MappedGives
<1> HIDE DEF v
<1>4. v.start \in Nat /\ v.end \in Nat /\ v.end <= MaxPage
  BY <1>2, <1>3, Constants DEF VmasOK, Vma, Pages
<1> QED BY <1>1, <1>2, <1>3, <1>4 DEF v

LEMMA MremapGrowStep ==
  ASSUME VmInv, machine' = machine, NEW old \in machine.addrs, NEW olen \in machine.lens,
         NEW nlen \in machine.lens, MremapGrow(old, olen, nlen)
  PROVE  VmInv'
<1> DEFINE v == FindVma(mm.vmas, old)
           e == old + nlen
           new == [mm EXCEPT !.vmas = Extended(@, v, e)]
<1>1. m # 0 /\ mm \in Mm /\ VmasOK(mm.vmas)
  BY CurrentMm DEF MremapGrow, Uses, MmOK
<1>2. /\ v \in mm.vmas /\ v.end \in Nat /\ v.end = old + olen
      /\ old \in Nat /\ olen \in Nat \ {0} /\ nlen \in Nat \ {0} /\ olen < nlen
      /\ e <= MaxPage /\ RangeClear(mm.vmas, old + olen, e)
  BY <1>1, RemappableFacts, ArgumentFacts DEF MremapGrow, MayGrow, VmInv
<1>3. e \in 1..MaxPage /\ e \in Nat /\ v.end < e /\ RangeClear(mm.vmas, v.end, e)
  BY <1>2, Constants
<1>4. Becomes(new) /\ KeepTlb(mms'[m]) /\ UNCHANGED <<frames, free>>
  <2>1. End(old, nlen) = old + nlen
    BY ArgumentFacts DEF VmInv
  <2> QED BY <2>1 DEF MremapGrow
<1> HIDE DEF v, e
<1>5. /\ VmasOK(Extended(mm.vmas, v, e))
      /\ \A a \in Pages : \A p :
           Gives(Extended(mm.vmas, v, e), a, p)
             <=> Gives(mm.vmas, a, p) \/ (a \in v.end..e - 1 /\ p = v.prot)
  BY <1>1, <1>2, <1>3, ExtendedOK
<1>6. new \in Mm /\ new.pt = mm.pt /\ new.refs = mm.refs /\ new.vmas = Extended(mm.vmas, v, e)
  BY <1>1, <1>5 DEF Mm, VmasOK
<1> HIDE DEF new
<1>7. /\ VmasOK(new.vmas)
      /\ \A a \in Pages : \A p :
           Gives(new.vmas, a, p) <=> Gives(mm.vmas, a, p) \/ (a \in v.end..e - 1 /\ p = v.prot)
  BY <1>5, <1>6
<1>8. PICK s : s = v.end
  OBVIOUS
<1>9. \A a \in Pages : \A p : Gives(mm.vmas, a, p) => Gives(new.vmas, a, p)
  BY <1>7
<1>10. \A a \in Pages : \A p : Gives(new.vmas, a, p) => Gives(mm.vmas, a, p) \/ a \in s..e - 1
  BY <1>7, <1>8
<1>11. s \in Nat /\ e \in Nat /\ RangeClear(mm.vmas, s, e) /\ m # 0
  BY <1>1, <1>2, <1>3, <1>8
<1>12. VmasOK(new.vmas) /\ new \in Mm /\ new.pt = mm.pt /\ new.refs = mm.refs
  BY <1>6, <1>7
<1> QED BY <1>4, <1>9, <1>10, <1>11, <1>12, GrownStep

LEMMA BrkInPageStep ==
  ASSUME VmInv, machine' = machine, NEW b \in machine.brks, BrkInPage(b)
  PROVE  VmInv'
<1> DEFINE new == [mm EXCEPT !.brk = b]
<1>1. /\ m # 0 /\ mm \in Mm /\ MmOK(mm) /\ b \in Nat
      /\ frames \in [Frames -> Vals \cup {Link}] /\ stale = {}
  BY CurrentMm, MachineFacts DEF BrkInPage, Uses, VmInv, VmTypeOK, TlbFresh
<1>2. Becomes(new) /\ UNCHANGED <<frames, free, stale>>
  BY DEF BrkInPage
<1>3. new \in Mm /\ new.pt = mm.pt /\ new.refs = mm.refs /\ new.vmas = mm.vmas
  BY <1>1 DEF Mm
<1> HIDE DEF new
<1>4. MmOK(new)
  BY <1>1, <1>3 DEF MmOK
<1>5. Owned(mms', free')
  BY <1>1, <1>2, <1>3, SameFrames
<1> QED BY <1>1, <1>2, <1>3, <1>4, <1>5, OwnStep

LEMMA BrkGrowStep ==
  ASSUME VmInv, machine' = machine, NEW b \in machine.brks, BrkGrow(b)
  PROVE  VmInv'
<1> DEFINE s == PageUp(mm.brk)
           e == PageUp(b)
           new == [mm EXCEPT !.brk = b, !.vmas = VmasWith(@, s, e, 3)]
<1>1. m # 0 /\ mm \in Mm /\ VmasOK(mm.vmas) /\ b \in Nat /\ mm.brk \in Nat
  BY CurrentMm, MachineFacts DEF BrkGrow, Uses, VmInv, MmOK, Mm
<1>2. /\ s \in Nat /\ e \in Nat /\ s < e /\ e <= HighPage /\ RangeClear(mm.vmas, s, e)
  BY <1>1, PageUpNat DEF BrkGrow, RangeFree, UserRange
<1>3. Becomes(new) /\ KeepTlb(mms'[m]) /\ UNCHANGED <<frames, free>>
  BY DEF BrkGrow
<1> HIDE DEF s, e
<1>4. s \in Pages /\ e \in 1..MaxPage
  BY <1>2, Constants DEF Pages
<1>5. VmasOK(VmasWith(mm.vmas, s, e, 3))
  BY <1>1, <1>2, <1>4, WithOK
<1>6. \A a \in Pages : \A p :
        Gives(VmasWith(mm.vmas, s, e, 3), a, p) <=> Gives(mm.vmas, a, p) \/ (a \in s..e - 1 /\ p = 3)
  BY <1>1, <1>2, <1>4, WithOK
<1>7. new \in Mm /\ new.pt = mm.pt /\ new.refs = mm.refs /\ new.vmas = VmasWith(mm.vmas, s, e, 3)
  BY <1>1, <1>5 DEF Mm, VmasOK
<1> HIDE DEF new
<1>8. VmasOK(new.vmas) /\ \A a \in Pages : \A p :
        Gives(new.vmas, a, p) <=> Gives(mm.vmas, a, p) \/ (a \in s..e - 1 /\ p = 3)
  BY <1>5, <1>6, <1>7
<1> QED BY <1>1, <1>2, <1>3, <1>7, <1>8, GrownStep

\* A clear range gives nothing.
LEMMA ClearGivesNone ==
  ASSUME NEW vs, VmasOK(vs), NEW s \in Nat, NEW e \in Nat, RangeClear(vs, s, e)
  PROVE  \A a \in Pages : \A p : a \in s..e - 1 => ~Gives(vs, a, p)
<1>1. \A v \in vs : v.start \in Nat /\ v.end \in Nat
  BY Constants DEF VmasOK, Vma, Pages
<1>2. \A a \in Pages : a \in s..e - 1 => \A v \in vs : ~Inside(v, a)
  BY <1>1, Constants DEF RangeClear, Overlaps, Inside, Pages
<1> QED BY <1>2 DEF Gives

\* The entries of a table after mremap has moved some.
LEMMA MovedFacts ==
  ASSUME NEW pt \in [Pages -> Pte], NEW old \in Nat, NEW olen \in Nat, NEW va \in Nat,
         old + olen <= MaxPage, va + olen <= MaxPage
  PROVE  /\ Moved(pt, old, olen, va) \in [Pages -> Pte]
         /\ \A a \in Pages : a \in va..va + olen - 1 =>
              old + a - va \in Pages /\ old + a - va \in old..old + olen - 1
         /\ \A a \in Pages : Moved(pt, old, olen, va)[a] =
              IF a \in va..va + olen - 1 THEN pt[old + a - va]
              ELSE IF a \in old..old + olen - 1 THEN NoPte ELSE pt[a]
<1>1. \A a \in Pages : a \in Nat /\ a < MaxPage
  BY Constants DEF Pages
<1>2. \A a \in Pages : a \in va..va + olen - 1 =>
        old + a - va \in Pages /\ old + a - va \in old..old + olen - 1
  BY <1>1, Constants DEF Pages
<1>3. \A a \in Pages : (a \in va..va + olen - 1 <=> va <= a /\ a < va + olen)
                       /\ (a \in old..old + olen - 1 <=> old <= a /\ a < old + olen)
  BY <1>1
<1>4. \A a \in Pages : Moved(pt, old, olen, va)[a] =
        IF a \in va..va + olen - 1 THEN pt[old + a - va]
        ELSE IF a \in old..old + olen - 1 THEN NoPte ELSE pt[a]
  BY <1>3 DEF Moved
<1>5. \A a \in Pages : Moved(pt, old, olen, va)[a] \in Pte
  <2>1. ASSUME NEW a \in Pages PROVE Moved(pt, old, olen, va)[a] \in Pte
    <3>1. CASE a \in va..va + olen - 1
      BY <1>2, <1>4, <3>1
    <3>2. CASE a \notin va..va + olen - 1
      BY <1>4, <3>2, NoPteFacts
    <3> QED BY <3>1, <3>2
  <2> QED BY <2>1
<1>6. Moved(pt, old, olen, va) \in [Pages -> Pte]
  <2>1. Moved(pt, old, olen, va) = [a \in Pages |-> Moved(pt, old, olen, va)[a]]
    BY DEF Moved
  <2> QED BY <1>5, <2>1
<1> QED BY <1>2, <1>4, <1>6

\* What mremap makes of the struct mm before it unmaps the old range.
MovedTo(r, v, old, olen, va, e) ==
  [r EXCEPT !.vmas = VmasWith(r.vmas, va, e, v.prot), !.pt = Moved(r.pt, old, olen, va), !.top = va]

LEMMA MovedMm ==
  ASSUME NEW r, MmOK(r), NEW v \in r.vmas, NEW old \in Nat, NEW olen \in Nat \ {0},
         v.start <= old, old + olen <= v.end, NEW va \in Nat, NEW e \in Nat,
         va + olen <= e, e <= MaxPage, RangeClear(r.vmas, va, e)
  PROVE  /\ MmOK(MovedTo(r, v, old, olen, va, e))
         /\ MovedTo(r, v, old, olen, va, e).refs = r.refs
         /\ MovedTo(r, v, old, olen, va, e).pt = Moved(r.pt, old, olen, va)
         /\ old + olen <= va \/ va + olen <= old
<1> DEFINE vs == VmasWith(r.vmas, va, e, v.prot)
           pt == Moved(r.pt, old, olen, va)
           new == MovedTo(r, v, old, olen, va, e)
           N == va..va + olen - 1
           O == old..old + olen - 1
<1>1. /\ r \in Mm /\ r.pt \in [Pages -> Pte] /\ VmasOK(r.vmas)
      /\ \A a \in Pages : Present(r.pt, a) => Mapped(r.vmas, a)
      /\ FilesWritable => RightsOK(r.vmas, r.pt)
  BY DEF MmOK, Mm
<1>2. /\ v.start \in Nat /\ v.end \in Nat /\ v.end <= MaxPage /\ v.prot \in 0..7
  <2>1. v \in Vma
    BY <1>1 DEF VmasOK
  <2> QED BY <2>1, Constants DEF Vma, Pages
<1>3. old + olen <= MaxPage /\ va + olen <= MaxPage
  BY <1>2, Constants
<1>4. va \in Pages /\ e \in 1..MaxPage /\ va < e /\ va \in 0..MaxPage
  BY Constants DEF Pages
<1>5. old + olen <= va \/ e <= old
  BY <1>2, <1>4 DEF RangeClear, Overlaps
<1>6. VmasOK(vs)
  BY <1>1, <1>2, <1>4, WithOK
<1>7. \A a \in Pages : \A p : Gives(vs, a, p) <=> Gives(r.vmas, a, p) \/ (a \in va..e - 1 /\ p = v.prot)
  BY <1>1, <1>2, <1>4, WithOK
<1>8. pt \in [Pages -> Pte]
  BY <1>1, <1>3, MovedFacts
<1>9. \A a \in Pages : a \in N => old + a - va \in Pages /\ old + a - va \in O
  BY <1>1, <1>3, MovedFacts
<1>10. \A a \in Pages : pt[a] = IF a \in N THEN r.pt[old + a - va] ELSE IF a \in O THEN NoPte ELSE r.pt[a]
  BY <1>1, <1>3, MovedFacts
<1>11. \A a \in Pages : (a \in N => a \in va..e - 1) /\ (a \in O => Inside(v, a))
  BY <1>2, Constants DEF Inside, Pages
<1> HIDE DEF vs, pt, N, O
<1>12. new \in Mm /\ new.vmas = vs /\ new.pt = pt /\ new.refs = r.refs
  <2>1. vs \in SUBSET Vma
    BY <1>6 DEF VmasOK
  <2>2. new = [r EXCEPT !.vmas = vs, !.pt = pt, !.top = va]
    BY DEF vs, pt, MovedTo
  <2> HIDE DEF new
  <2> QED BY <1>1, <1>4, <1>8, <2>1, <2>2 DEF Mm
<1> HIDE DEF new
<1>13. ASSUME NEW a \in Pages, Present(pt, a)
       PROVE  \/ a \in N
              \/ pt[a] = r.pt[a] /\ Present(r.pt, a) /\ a \notin N
  BY <1>10, <1>13, NoPteFacts DEF Present
<1>14. ASSUME NEW a \in Pages, Present(pt, a) PROVE Mapped(vs, a)
  <2>1. a \in N => Gives(vs, a, v.prot)
    BY <1>7, <1>11
  <2>2. Present(r.pt, a) => \E p : Gives(vs, a, p)
    BY <1>1, <1>7, GivesMapped
  <2> QED BY <1>13, <1>14, <2>1, <2>2, GivesMapped
<1>15. ASSUME FilesWritable, NEW a \in Pages, NEW p, Present(pt, a), Gives(vs, a, p)
       PROVE  Right(pt[a], p)
  <2>1. CASE a \in N
    <3>1. ~Gives(r.vmas, a, p)
      <4>1. a \in va..e - 1
        BY <1>11, <2>1
      <4> QED BY <1>1, <4>1, ClearGivesNone
    <3>2. p = v.prot
      BY <1>7, <1>15, <3>1
    <3>3. PICK b \in Pages : b \in O /\ pt[a] = r.pt[b]
      BY <1>9, <1>10, <2>1
    <3>4. Gives(r.vmas, b, v.prot)
      BY <1>11, <3>3 DEF Gives
    <3>5. Present(r.pt, b)
      BY <1>15, <3>3 DEF Present
    <3> QED BY <1>1, <1>15, <3>2, <3>3, <3>4, <3>5 DEF RightsOK
  <2>2. CASE pt[a] = r.pt[a] /\ Present(r.pt, a) /\ a \notin N
    <3>1. CASE a \in va..e - 1
      <4>1. ~Mapped(r.vmas, a)
        BY <1>1, <3>1, ClearGivesNone, GivesMapped
      <4> QED BY <1>1, <2>2, <4>1
    <3>2. CASE a \notin va..e - 1
      <4>1. Gives(r.vmas, a, p)
        BY <1>7, <1>15, <3>2
      <4> QED BY <1>1, <1>15, <2>2, <4>1 DEF RightsOK
    <3> QED BY <3>1, <3>2
  <2> QED BY <1>13, <1>15, <2>1, <2>2
<1>16. MmOK(new)
  BY <1>6, <1>12, <1>14, <1>15 DEF MmOK, RightsOK
<1>17. old + olen <= va \/ va + olen <= old
  BY <1>5
<1> QED BY <1>12, <1>16, <1>17 DEF new, pt

LEMMA MremapMoveStep ==
  ASSUME VmInv, machine' = machine, NEW old \in machine.addrs, NEW olen \in machine.lens,
         NEW nlen \in machine.lens, MremapMove(old, olen, nlen)
  PROVE  VmInv'
<1> DEFINE v == FindVma(mm.vmas, old)
<1>1. m # 0 /\ mm \in Mm /\ MmOK(mm) /\ mm.top \in 0..MaxPage /\ mm.pt \in [Pages -> Pte]
  BY CurrentMm DEF MremapMove, Uses, Mm
<1>2. /\ v \in mm.vmas /\ v.start <= old /\ old + olen <= v.end
      /\ old \in Nat /\ olen \in Nat \ {0} /\ nlen \in Nat \ {0} /\ olen < nlen
      /\ v.end \in Nat /\ v.end <= MaxPage
  BY <1>1, RemappableFacts, MachineFacts DEF MremapMove, VmInv, Inside
<1>3. PICK va \in TopAlloc(mm.top, mm.vmas, nlen) :
        Unmapping([mm EXCEPT !.vmas = VmasWith(@, va, va + nlen, v.prot),
                             !.pt = Moved(@, old, olen, va), !.top = va], old, old + olen)
  BY DEF MremapMove
<1>4. va \in Pages /\ va \in Nat /\ va + nlen <= MaxPage /\ RangeClear(mm.vmas, va, va + nlen)
  BY <1>1, <1>2, TopFacts
<1> HIDE DEF v
<1>5. PICK e, o, mem : /\ e = va + nlen /\ o = old + olen
                       /\ mem = MovedTo(mm, v, old, olen, va, e)
  OBVIOUS
<1>6. /\ e \in Nat /\ va + olen <= e /\ e <= MaxPage /\ RangeClear(mm.vmas, va, e)
      /\ o \in Nat /\ old <= o /\ o <= MaxPage /\ va + olen <= MaxPage /\ old + olen <= MaxPage
  BY <1>2, <1>4, <1>5, Constants
<1>7. Unmapping(mem, old, o)
  BY <1>3, <1>5, Zenon DEF MovedTo
<1>8. /\ MmOK(mm) /\ v \in mm.vmas /\ old \in Nat /\ olen \in Nat \ {0}
      /\ v.start <= old /\ old + olen <= v.end
      /\ va \in Nat /\ e \in Nat /\ va + olen <= e /\ e <= MaxPage /\ RangeClear(mm.vmas, va, e)
  BY <1>1, <1>2, <1>4, <1>6
<1>9. MmOK(mem) /\ mem.refs = mm.refs
  BY <1>5, <1>8, MovedMm
<1>10. /\ mem.pt = Moved(mm.pt, old, olen, va)
       /\ old + olen <= va \/ va + olen <= old
  BY <1>5, <1>8, MovedMm
<1>11. Owned([mms EXCEPT ![m] = mem], free)
  <2> DEFINE ns == [mms EXCEPT ![m] = mem]
             i == m
  <2>1. i \in Mms /\ mms \in [Mms -> Mm] /\ mms[i] = mm
    BY <1>1, CurrentMm DEF VmInv, VmTypeOK, mm
  <2>2. \A j \in Mms : ns[j] = IF j = i THEN mem ELSE mms[j]
    BY <2>1
  <2> HIDE DEF ns, i
  <2>3. \A a \in Pages : mem.pt[a] =
          IF a \in va..va + olen - 1 THEN mm.pt[old + a - va]
          ELSE IF a \in old..old + olen - 1 THEN NoPte ELSE mm.pt[a]
    BY <1>1, <1>2, <1>4, <1>6, <1>10, MovedFacts
  <2>4. \A j \in Mms, a \in Pages :
          FrameAt(ns, j, a) =
            IF j = i /\ a \in va..va + olen - 1 THEN FrameAt(mms, i, old + a - va)
            ELSE IF j = i /\ a \in old..old + olen - 1 THEN 0 ELSE FrameAt(mms, j, a)
    BY <2>1, <2>2, <2>3, NoPteFacts DEF FrameAt
  <2>5. \A a \in va..va + olen - 1 : FrameAt(mms, i, a) = 0
    <3>1. \A a \in Pages : a \in va..e - 1 => mm.pt[a].frame = 0
      BY <1>1, <1>4, <1>6, ClearAbsent
    <3>2. \A a \in va..va + olen - 1 : a \in Pages /\ a \in va..e - 1
      BY <1>2, <1>4, <1>6, Constants DEF Pages
    <3> QED BY <2>1, <3>1, <3>2 DEF FrameAt
  <2>6. Owned(mms, free) /\ olen \in Nat
    BY <1>2 DEF VmInv
  <2>7. IsMoved(mms, ns, i, old, va, olen)
    BY <2>4, <2>5 DEF IsMoved
  <2>8. Owned(ns, free)
    BY <1>2, <1>4, <1>6, <1>10, <2>1, <2>6, <2>7, FramesMoved
  <2> QED BY <2>8 DEF ns, i
<1> QED BY <1>1, <1>2, <1>6, <1>7, <1>9, <1>11, UnmappingStep

(***************************************************************************)
(* Steps that make and free a struct mm, or share one.                     *)
(***************************************************************************)

\* What such a step must show.
LEMMA ProcessStep ==
  ASSUME VmInv, machine' = machine, current' \in Procs, mmOf' \in [Procs -> Mms \cup {0}],
         mms' \in [Mms -> Mm], \A i \in Mms : MmOK(mms'[i]),
         \A i \in Mms : mms'[i].refs = 0 => mms'[i] = NoMm,
         \A i \in Mms : mms'[i].refs = Cardinality(Users(mmOf', i)),
         frames' \in [Frames -> Vals \cup {Link}], Owned(mms', free'), stale' = {}
  PROVE  VmInv'
<1>1. \A i \in Mms : \A v \in mms'[i].vmas : v.start < v.end
  BY DEF MmOK, VmasOK
<1>2. free' \subseteq 1..machine'.pages /\ stale' \subseteq Pages /\ machine' \in Machines
  BY DEF Owned, All, VmInv, VmTypeOK
<1>3. VmTypeOK'
  BY <1>1, <1>2 DEF VmTypeOK, Users
<1>4. Owned(mms, free)'
  BY DEF Owned, All
<1>5. RangesFit'
  BY DEF VmInv, RangesFit
<1> QED BY <1>3, <1>4, <1>5 DEF VmInv, TlbFresh

LEMMA UsersFinite == \A f, i : IsFiniteSet(Users(f, i)) /\ Cardinality(Users(f, i)) \in Nat
BY Constants, FS_Subset, FS_CardinalityType DEF Users

\* A process leaves one struct mm for another.
Goes(f, p, n) == [f EXCEPT ![p] = n]

LEMMA UsersMove ==
  ASSUME NEW f \in [Procs -> Mms \cup {0}], NEW p \in Procs, NEW n \in Mms \cup {0}, f[p] # n
  PROVE  /\ Goes(f, p, n) \in [Procs -> Mms \cup {0}]
         /\ Cardinality(Users(Goes(f, p, n), n)) = Cardinality(Users(f, n)) + 1
         /\ Cardinality(Users(Goes(f, p, n), f[p])) = Cardinality(Users(f, f[p])) - 1
         /\ \A i : i # n /\ i # f[p] => Users(Goes(f, p, n), i) = Users(f, i)
<1> DEFINE g == Goes(f, p, n)
<1>0. g \in [Procs -> Mms \cup {0}] /\ \A q \in Procs : g[q] = IF q = p THEN n ELSE f[q]
  BY DEF Goes
<1> HIDE DEF g
<1>1. Users(g, n) = Users(f, n) \cup {p} /\ p \notin Users(f, n)
  BY <1>0 DEF Users
<1>6. PICK old : old = f[p]
  OBVIOUS
<1>2. Users(g, old) = Users(f, old) \ {p} /\ p \in Users(f, old)
  BY <1>0, <1>6 DEF Users
<1>3. Cardinality(Users(g, n)) = Cardinality(Users(f, n)) + 1
  BY <1>1, UsersFinite, FS_AddElement
<1>4. Cardinality(Users(g, old)) = Cardinality(Users(f, old)) - 1
  BY <1>2, UsersFinite, FS_RemoveElement
<1>5. ASSUME NEW i, i # n, i # f[p] PROVE Users(g, i) = Users(f, i)
  BY <1>0, <1>5 DEF Users
<1> QED BY <1>0, <1>3, <1>4, <1>5, <1>6 DEF g

LEMMA NoMmFacts ==
  /\ NoMm \in Mm /\ MmOK(NoMm) /\ NoMm.refs = 0 /\ \A a \in Pages : NoMm.pt[a].frame = 0
<1>1. NoMm \in Mm /\ NoMm.refs = 0 /\ NoMm.vmas = {} /\ NoMm.pt = NoTable
  BY NoPteFacts, Constants DEF NoMm, Mm
<1>2. \A a \in Pages : NoTable[a].frame = 0
  BY NoPteFacts
<1>3. VmasOK({})
  BY DEF VmasOK
<1>4. MmOK(NoMm)
  BY <1>1, <1>2, <1>3 DEF MmOK, RightsOK, Present
<1> QED BY <1>1, <1>2, <1>4

\* A struct mm nobody uses is NoMm, one that is NoMm has no users.
LEMMA UnusedMm ==
  ASSUME VmInv, NEW n \in Mms, mms[n] = NoMm
  PROVE  /\ Cardinality(Users(mmOf, n)) = 0 /\ (m # 0 => n # m)
         /\ \A a \in Pages : FrameAt(mms, n, a) = 0
<1>1. mms[n].refs = Cardinality(Users(mmOf, n))
  BY DEF VmInv, VmTypeOK, Users
<1>2. m # 0 => n # m
  BY CurrentMm, NoMmFacts DEF mm
<1> QED BY <1>1, <1>2, NoMmFacts DEF FrameAt

\* A program's mappings and pages.
LEMMA ImageFacts ==
  ASSUME NEW im \in Images
  PROVE  /\ VmasOK(LoadedVmas(im)) /\ LoadedPages(im) \in SUBSET Pages /\ ImageBrk(im) \in Nat
         /\ \A a \in LoadedPages(im) : Mapped(LoadedVmas(im), a)
         /\ \A a, p : Gives(LoadedVmas(im), a, p) => p = 3
<1> DEFINE vma(a) == [start |-> a.start, end |-> a.end, prot |-> 3]
<1>1. \A a \in Areas(im) : /\ a.start \in Nat /\ a.end \in Nat /\ a.start < a.end /\ a.end <= MaxPage
                           /\ a.filled \subseteq a.start..a.end - 1
  BY ImagesAssumption
<1>2. \A a, b \in Areas(im) : a # b => a.end < b.start \/ b.end < a.start
  BY ImagesAssumption
<1>3. LoadedVmas(im) = {vma(a) : a \in Areas(im)}
  BY DEF LoadedVmas
<1>4. \A a \in Areas(im) : /\ vma(a) \in Vma /\ vma(a).start = a.start /\ vma(a).end = a.end
                           /\ vma(a).prot = 3
  BY <1>1, Constants DEF Vma, Pages
<1> HIDE DEF vma
<1>5. VmasOK(LoadedVmas(im))
  <2>1. \A a, b \in Areas(im) : vma(a) # vma(b) => ~Overlaps(vma(a), vma(b).start, vma(b).end)
    BY <1>1, <1>2, <1>4 DEF Overlaps
  <2>2. \A a \in Areas(im) : vma(a).start < vma(a).end
    BY <1>1, <1>4
  <2> QED BY <1>3, <1>4, <2>1, <2>2 DEF VmasOK
<1>6. ASSUME NEW x \in LoadedPages(im) PROVE x \in Pages /\ Mapped(LoadedVmas(im), x)
  <2>1. PICK a \in Areas(im) : x \in a.filled
    BY DEF LoadedPages
  <2>2. a.start <= x /\ x < a.end /\ x \in Nat
    BY <1>1, <2>1
  <2>3. x \in Pages
    BY <1>1, <2>2, Constants DEF Pages
  <2>4. vma(a) \in LoadedVmas(im) /\ Inside(vma(a), x)
    BY <1>3, <1>4, <2>2 DEF Inside
  <2> QED BY <2>3, <2>4 DEF Mapped
<1>7. ImageBrk(im) \in Nat
  <2> DEFINE ends == {a.end : a \in im.segs}
  <2>1. ends \in SUBSET Nat /\ ends # {} /\ \A x \in ends : x <= MaxPage
    BY <1>1, ImagesAssumption DEF Areas
  <2> HIDE DEF ends
  <2>2. Max(ends) \in Nat
    BY <2>1, MaxFacts, Constants
  <2> QED BY <2>2 DEF ImageBrk, ends
<1>8. \A a, p : Gives(LoadedVmas(im), a, p) => p = 3
  BY <1>3, <1>4 DEF Gives
<1> QED BY <1>5, <1>6, <1>7, <1>8

\* The struct mm of a program just loaded.
LEMMA LoadedFacts ==
  ASSUME NEW im \in Images, NEW got \in [LoadedPages(im) -> Frames], 0 \notin Frames
  PROVE  /\ MmOK(Loaded(im, got)) /\ Loaded(im, got).refs = 1
         /\ \A a \in Pages : Loaded(im, got).pt[a].frame = IF a \in LoadedPages(im) THEN got[a] ELSE 0
<1> DEFINE vas == LoadedPages(im)
           pt == CopyTo(NoTable, got)
           new == Loaded(im, got)
<1>1. VmasOK(LoadedVmas(im)) /\ vas \in SUBSET Pages /\ ImageBrk(im) \in Nat
  BY ImageFacts
<1>2. got \in [vas -> Frames]
  OBVIOUS
<1> HIDE DEF vas
<1>3. /\ pt \in [Pages -> Pte]
      /\ \A a \in vas : pt[a].frame = got[a]
      /\ \A a \in Pages \ vas : pt[a] = NoTable[a]
  BY <1>1, <1>2, NoPteFacts, CopyFacts
<1>4. \A a \in Pages : pt[a].frame = IF a \in vas THEN got[a] ELSE 0
  BY <1>3, NoPteFacts
<1> HIDE DEF pt
<1>5. new \in Mm /\ new.refs = 1 /\ new.vmas = LoadedVmas(im) /\ new.pt = pt
  <2>1. LoadedVmas(im) \in SUBSET Vma /\ MmapTop \in 0..MaxPage
    BY <1>1, Constants DEF VmasOK
  <2>2. new = [refs |-> 1, vmas |-> LoadedVmas(im), pt |-> pt,
               brk0 |-> ImageBrk(im), brk |-> ImageBrk(im), top |-> MmapTop]
    BY DEF Loaded, pt
  <2> QED BY <1>1, <1>3, <2>1, <2>2 DEF Mm
<1> HIDE DEF new
<1>6. \A a \in Pages : Present(pt, a) => Mapped(LoadedVmas(im), a)
  BY <1>4, ImageFacts DEF Present, vas
<1>7. \A a \in Pages : \A p : Gives(LoadedVmas(im), a, p) => Right(pt[a], p)
  <2>1. \A a, p : Gives(LoadedVmas(im), a, p) => p = 3
    BY ImageFacts
  <2> QED BY <2>1, RightWritable
<1>8. MmOK(new)
  BY <1>1, <1>5, <1>6, <1>7 DEF MmOK, RightsOK
<1> QED BY <1>4, <1>5, <1>8 DEF new, vas

\* mm_free: the struct mm of the process loses a user, and its pages with the last.
LEMMA DropFacts ==
  ASSUME VmInv, m # 0
  PROVE  /\ AfterDrop(m) \in Mm /\ MmOK(AfterDrop(m)) /\ AfterDrop(m).refs = mm.refs - 1
         /\ AfterDrop(m).refs = 0 => AfterDrop(m) = NoMm
<1>1. m \in Mms /\ mm \in Mm /\ MmOK(mm) /\ mm.refs # 0 /\ mm.refs \in Nat
  BY CurrentMm DEF Mm
<1>2. Dropped(m) \in Mm /\ Dropped(m).refs = mm.refs - 1
      /\ Dropped(m).vmas = mm.vmas /\ Dropped(m).pt = mm.pt
  BY <1>1 DEF Dropped, Mm, mm
<1>3. MmOK(Dropped(m))
  BY <1>1, <1>2 DEF MmOK
<1>4. CASE Dropped(m).refs > 0
  BY <1>1, <1>2, <1>3, <1>4 DEF AfterDrop
<1>5. CASE ~(Dropped(m).refs > 0)
  BY <1>1, <1>2, <1>5, NoMmFacts DEF AfterDrop
<1> QED BY <1>4, <1>5

LEMMA DropFrames ==
  ASSUME VmInv, m # 0, NEW ms, NEW ns, NEW fr, Owned(ms, fr), ms[m] = mm,
         \A j \in Mms : ns[j] = IF j = m THEN AfterDrop(m) ELSE ms[j]
  PROVE  Owned(ns, fr \cup FreedBy(m))
<1>1. m \in Mms /\ mm.refs \in Nat /\ Dropped(m).pt = mm.pt
  BY CurrentMm DEF Mm, Dropped, mm
<1>2. CASE Dropped(m).refs > 0
  <2>1. \A j \in Mms, a \in Pages : FrameAt(ns, j, a) = FrameAt(ms, j, a)
    BY <1>1, <1>2 DEF FrameAt, AfterDrop
  <2>2. FreedBy(m) = {}
    BY <1>2 DEF FreedBy
  <2> QED BY <2>1, <2>2, FramesSame
<1>3. CASE ~(Dropped(m).refs > 0)
  <2>1. PICK D, i : D = Pages /\ i = m
    OBVIOUS
  <2>2. \A j \in Mms, a \in Pages :
          FrameAt(ns, j, a) = IF j = i /\ a \in D THEN 0 ELSE FrameAt(ms, j, a)
    BY <1>3, <2>1, NoMmFacts DEF FrameAt, AfterDrop
  <2>3. Owned(ns, fr \cup FramesOf(ms[i].pt, D))
    BY <1>1, <2>1, <2>2, FramesGiven
  <2>4. FreedBy(m) = FramesOf(ms[i].pt, D)
    BY <1>3, <2>1 DEF FreedBy, mm
  <2> QED BY <2>3, <2>4
<1> QED BY <1>2, <1>3

\* The counts of users when a process goes from one struct mm to another.
LEMMA RefsMove ==
  ASSUME VmInv, NEW p \in Procs, NEW n \in Mms \cup {0}, mmOf[p] # n, mmOf' = Goes(mmOf, p, n),
         mms' \in [Mms -> Mm],
         \A i \in Mms : mms'[i].refs = IF i = n THEN mms[i].refs + 1
                                       ELSE IF i = mmOf[p] THEN mms[i].refs - 1 ELSE mms[i].refs
  PROVE  /\ mmOf' \in [Procs -> Mms \cup {0}]
         /\ \A i \in Mms : mms'[i].refs = Cardinality(Users(mmOf', i))
<1>1. mmOf \in [Procs -> Mms \cup {0}] /\ \A i \in Mms : mms[i].refs = Cardinality(Users(mmOf, i))
  BY DEF VmInv, VmTypeOK, Users
<1>2. PICK g : g = Goes(mmOf, p, n)
  OBVIOUS
<1>3. g \in [Procs -> Mms \cup {0}]
  BY <1>1, <1>2, UsersMove
<1>4. Cardinality(Users(g, n)) = Cardinality(Users(mmOf, n)) + 1
  BY <1>1, <1>2, UsersMove
<1>5. Cardinality(Users(g, mmOf[p])) = Cardinality(Users(mmOf, mmOf[p])) - 1
  BY <1>1, <1>2, UsersMove
<1>6. \A i : i # n /\ i # mmOf[p] => Users(g, i) = Users(mmOf, i)
  BY <1>1, <1>2, UsersMove
<1>7. \A i \in Mms : mms'[i].refs = Cardinality(Users(g, i))
  BY <1>1, <1>4, <1>5, <1>6
<1> QED BY <1>2, <1>3, <1>7

LEMMA ExitStep ==
  ASSUME VmInv, machine' = machine, Exit
  PROVE  VmInv'
<1>1. /\ m # 0 /\ m \in Mms /\ current \in Procs /\ mmOf[current] = m
      /\ mms \in [Mms -> Mm] /\ free' = free \cup FreedBy(m) /\ stale' = {} /\ current' = current
      /\ mms' = [mms EXCEPT ![m] = AfterDrop(m)] /\ mmOf' = [mmOf EXCEPT ![current] = 0]
  BY CurrentMm DEF Exit, Uses, VmInv, VmTypeOK, m, Pfree, FlushTlb
<1>2. /\ AfterDrop(m) \in Mm /\ MmOK(AfterDrop(m)) /\ AfterDrop(m).refs = mm.refs - 1
      /\ AfterDrop(m).refs = 0 => AfterDrop(m) = NoMm
  BY <1>1, DropFacts
<1>3. mms' \in [Mms -> Mm] /\ \A i \in Mms : mms'[i] = IF i = m THEN AfterDrop(m) ELSE mms[i]
  BY <1>1, <1>2
<1>4. \A i \in Mms : MmOK(mms'[i]) /\ (mms'[i].refs = 0 => mms'[i] = NoMm)
  BY <1>2, <1>3 DEF VmInv
<1>5. /\ mmOf' \in [Procs -> Mms \cup {0}]
      /\ \A i \in Mms : mms'[i].refs = Cardinality(Users(mmOf', i))
  <2>1. \A i \in Mms : mms'[i].refs = IF i = 0 THEN mms[i].refs + 1
                                      ELSE IF i = mmOf[current] THEN mms[i].refs - 1 ELSE mms[i].refs
    BY <1>1, <1>2, <1>3, Constants DEF mm
  <2> QED BY <1>1, <1>3, <2>1, RefsMove DEF Goes
<1>6. Owned(mms', free')
  <2>1. mms[m] = mm /\ Owned(mms, free)
    BY DEF mm, VmInv
  <2> QED BY <1>1, <1>3, <2>1, DropFrames
<1>7. frames' \in [Frames -> Vals \cup {Link}]
  BY PfreeType DEF Exit, VmInv, VmTypeOK
<1> QED BY <1>1, <1>3, <1>4, <1>5, <1>6, <1>7, ProcessStep

LEMMA SwitchStep ==
  ASSUME VmInv, machine' = machine, NEW p \in Procs, Switch(p)
  PROVE  VmInv'
<1>1. current' = p /\ stale' = {} /\ UNCHANGED <<mmOf, mms, frames, free>>
  BY DEF Switch, FlushTlb
<1>2. Owned(mms', free')
  BY <1>1 DEF VmInv
<1>3. \A i \in Mms : mms'[i].refs = Cardinality(Users(mmOf', i))
  BY <1>1 DEF VmInv, VmTypeOK, Users
<1> QED BY <1>1, <1>2, <1>3, ProcessStep DEF VmInv, VmTypeOK

LEMMA VForkStep ==
  ASSUME VmInv, machine' = machine, NEW c \in Procs, VFork(c)
  PROVE  VmInv'
<1> DEFINE new == [mm EXCEPT !.refs = @ + 1]
<1>1. /\ m # 0 /\ m \in Mms /\ mm \in Mm /\ MmOK(mm) /\ mm.refs \in Nat /\ mms[m] = mm
      /\ mms \in [Mms -> Mm] /\ mmOf[c] = 0 /\ mmOf' = [mmOf EXCEPT ![c] = m]
      /\ UNCHANGED <<current, frames, free, stale>>
  BY CurrentMm DEF VFork, Uses, VmInv, VmTypeOK, Mm, mm
<1>2. /\ new \in Mm /\ new.refs = mm.refs + 1 /\ new.vmas = mm.vmas /\ new.pt = mm.pt
  <2>1. PICK k : k = mm.refs + 1
    OBVIOUS
  <2>2. k \in Nat /\ new = [mm EXCEPT !.refs = k]
    BY <1>1, <2>1
  <2> HIDE DEF new
  <2> QED BY <1>1, <2>1, <2>2 DEF Mm
<1>3. mms' = [mms EXCEPT ![m] = new]
  BY DEF VFork, mm
<1> HIDE DEF new
<1>4. mms' \in [Mms -> Mm] /\ \A i \in Mms : mms'[i] = IF i = m THEN new ELSE mms[i]
  BY <1>1, <1>2, <1>3
<1>5. \A i \in Mms : MmOK(mms'[i]) /\ (mms'[i].refs = 0 => mms'[i] = NoMm)
  <2>1. MmOK(new) /\ new.refs # 0
    BY <1>1, <1>2 DEF MmOK
  <2> QED BY <1>4, <2>1 DEF VmInv
<1>6. /\ mmOf' \in [Procs -> Mms \cup {0}]
      /\ \A i \in Mms : mms'[i].refs = Cardinality(Users(mmOf', i))
  <2>1. \A i \in Mms : mms'[i].refs = IF i = m THEN mms[i].refs + 1
                                      ELSE IF i = mmOf[c] THEN mms[i].refs - 1 ELSE mms[i].refs
    BY <1>1, <1>2, <1>4, Constants
  <2>2. PICK n \in Mms \cup {0} : n = m
    BY <1>1
  <2>3. mmOf[c] # n /\ mmOf' = Goes(mmOf, c, n)
    BY <1>1, <2>2 DEF Goes
  <2> QED BY <1>1, <1>4, <2>1, <2>2, <2>3, RefsMove
<1>7. Owned(mms', free')
  <2>1. \A j \in Mms, a \in Pages : FrameAt(mms', j, a) = FrameAt(mms, j, a)
    BY <1>1, <1>2, <1>4 DEF FrameAt
  <2> QED BY <1>1, <2>1, FramesSame DEF VmInv
<1>8. stale' = {} /\ current' \in Procs /\ frames' \in [Frames -> Vals \cup {Link}]
  BY <1>1 DEF VmInv, VmTypeOK, TlbFresh
<1> QED BY <1>4, <1>5, <1>6, <1>7, <1>8, ProcessStep

LEMMA ForkStep ==
  ASSUME VmInv, machine' = machine, NEW c \in Procs, NEW n \in Mms, Fork(c, n)
  PROVE  VmInv'
<1> DEFINE have == {va \in Pages : Present(mm.pt, va)}
           got == Palloc(free, have)
           pt == [va \in Pages |-> IF va \in have THEN [mm.pt[va] EXCEPT !.frame = got[va]] ELSE NoPte]
           new == [mm EXCEPT !.refs = 1, !.pt = pt]
           i == n
           ns == mms'
<1>1. /\ m # 0 /\ mm \in Mm /\ MmOK(mm) /\ mm.pt \in [Pages -> Pte]
      /\ mms \in [Mms -> Mm] /\ mmOf[c] = 0 /\ mms[n] = NoMm
      /\ 0 \notin Frames /\ free \subseteq Frames /\ frames \in [Frames -> Vals \cup {Link}]
      /\ Owned(mms, free)
  BY CurrentMm, MachineFacts DEF Fork, Uses, VmInv, VmTypeOK, Mm
<1>2. /\ Enough(free, have) /\ mms' = [mms EXCEPT ![n] = new] /\ free' = free \ Taken(got)
      /\ mmOf' = [mmOf EXCEPT ![c] = n] /\ UNCHANGED <<current, stale>>
      /\ frames' = [f \in Frames |-> IF f \in Taken(got)
                      THEN frames[mm.pt[CHOOSE va \in have : got[va] = f].frame] ELSE frames[f]]
  BY <1>1 DEF Fork, Mm
<1>4. have \in SUBSET Pages /\ \A a \in Pages : a \in have <=> mm.pt[a].frame # 0
  BY DEF Present
<1> HIDE DEF have
<1>3. /\ got \in Injection(have, free) /\ got \in [have -> free]
      /\ Taken(got) = {got[a] : a \in have}
  BY <1>2, Received
<1> HIDE DEF got
<1>5. \A a \in have : got[a] \in free /\ got[a] \in Frames /\ got[a] # 0
  BY <1>1, <1>3
<1>6. /\ pt \in [Pages -> Pte] /\ \A a \in Pages : pt[a].frame = IF a \in have THEN got[a] ELSE 0
      /\ \A a \in have : pt[a].w = mm.pt[a].w /\ pt[a].u = mm.pt[a].u
  <2>1. \A a \in have : LET x == [mm.pt[a] EXCEPT !.frame = got[a]]
                        IN  x \in Pte /\ x.frame = got[a] /\ x.w = mm.pt[a].w /\ x.u = mm.pt[a].u
    BY <1>1, <1>4, <1>5 DEF Pte
  <2> QED BY <1>4, <2>1, NoPteFacts
<1> HIDE DEF pt
<1>7. new \in Mm /\ new.refs = 1 /\ new.pt = pt /\ new.vmas = mm.vmas
  BY <1>1, <1>6 DEF Mm
<1> HIDE DEF new
<1>8. MmOK(new)
  <2>1. \A a \in Pages : Present(pt, a) => a \in have /\ Present(mm.pt, a)
    BY <1>4, <1>6 DEF Present
  <2>2. \A a \in have : \A p : Right(mm.pt[a], p) => Right(pt[a], p)
    BY <1>6, Zenon DEF Right
  <2> QED BY <1>1, <1>7, <2>1, <2>2 DEF MmOK, RightsOK
<1>9. mms' \in [Mms -> Mm] /\ \A j \in Mms : ns[j] = IF j = i THEN new ELSE mms[j]
  BY <1>1, <1>2, <1>7
<1>10. \A j \in Mms : MmOK(mms'[j]) /\ (mms'[j].refs = 0 => mms'[j] = NoMm)
  BY <1>7, <1>8, <1>9 DEF VmInv
<1>11. /\ mmOf' \in [Procs -> Mms \cup {0}]
       /\ \A j \in Mms : mms'[j].refs = Cardinality(Users(mmOf', j))
  <2>1. \A j \in Mms : mms'[j].refs = IF j = n THEN mms[j].refs + 1
                                      ELSE IF j = mmOf[c] THEN mms[j].refs - 1 ELSE mms[j].refs
    BY <1>1, <1>7, <1>9, Constants, NoMmFacts
  <2>2. mmOf[c] # n /\ mmOf' = Goes(mmOf, c, n) /\ n \in Mms \cup {0}
    BY <1>1, <1>2, Constants DEF Goes
  <2> QED BY <1>9, <2>1, <2>2, RefsMove
<1>12. Owned(mms', free')
  <2>1. \A a \in have : FrameAt(mms, i, a) = 0
    BY <1>1, <1>4, UnusedMm
  <2>2. \A j \in Mms, a \in Pages :
          FrameAt(ns, j, a) = IF j = i /\ a \in have THEN got[a] ELSE FrameAt(mms, j, a)
    <3>1. \A a \in Pages : FrameAt(mms, i, a) = 0
      BY <1>1, UnusedMm
    <3>2. \A a \in Pages : FrameAt(ns, i, a) = IF a \in have THEN got[a] ELSE 0
      BY <1>6, <1>7, <1>9 DEF FrameAt
    <3>3. \A j \in Mms \ {i}, a \in Pages : FrameAt(ns, j, a) = FrameAt(mms, j, a)
      BY <1>9 DEF FrameAt
    <3> HIDE DEF i, ns
    <3> QED BY <3>1, <3>2, <3>3
  <2>3. i \in Mms
    OBVIOUS
  <2> HIDE DEF i, ns
  <2>4. Owned(ns, free \ Taken(got))
    BY <1>1, <1>3, <1>4, <2>1, <2>2, <2>3, FramesTaken
  <2> QED BY <1>2, <2>4 DEF ns
<1>13. frames' \in [Frames -> Vals \cup {Link}]
  <2>1. ASSUME NEW f \in Frames, f \in Taken(got)
        PROVE  frames[mm.pt[CHOOSE va \in have : got[va] = f].frame] \in Vals \cup {Link}
    <3>1. PICK x : x = CHOOSE va \in have : got[va] = f
      OBVIOUS
    <3>2. \E va \in have : got[va] = f
      BY <1>3, <2>1
    <3>3. x \in have
      BY <3>1, <3>2
    <3>4. mm.pt[x].frame \in Frames
      BY <1>1, <1>4, <3>3 DEF Pte
    <3> QED BY <1>1, <3>1, <3>4
  <2> QED BY <1>1, <1>2, <2>1
<1>14. stale' = {} /\ current' \in Procs
  BY <1>2 DEF VmInv, VmTypeOK, TlbFresh
<1> QED BY <1>9, <1>10, <1>11, <1>12, <1>13, <1>14, ProcessStep

LEMMA ExecStep ==
  ASSUME VmInv, machine' = machine, NEW im \in Images, NEW n \in Mms, Exec(im, n)
  PROVE  VmInv'
<1> DEFINE vas == LoadedPages(im)
           got == Palloc(free, vas)
           new == Loaded(im, got)
           i == n
           ms == [mms EXCEPT ![n] = new]
           ns == mms'
<1>1. /\ m # 0 /\ m \in Mms /\ mm \in Mm /\ mms[n] = NoMm /\ mms[m] = mm /\ n # m /\ current \in Procs
      /\ mms \in [Mms -> Mm] /\ mmOf[current] = m /\ current' = current /\ stale' = {}
      /\ 0 \notin Frames /\ free \subseteq Frames /\ frames \in [Frames -> Vals \cup {Link}]
      /\ Owned(mms, free)
  BY CurrentMm, MachineFacts, UnusedMm DEF Exec, Uses, VmInv, VmTypeOK, Mm, mm, m, FlushTlb
<1>2. /\ Enough(free, vas) /\ mms' = [mms EXCEPT ![n] = new, ![m] = AfterDrop(m)]
      /\ free' = (free \ Taken(got)) \cup FreedBy(m) /\ mmOf' = [mmOf EXCEPT ![current] = n]
      /\ frames' = Holding([f \in Frames |-> IF f \in FreedBy(m) THEN Link ELSE frames[f]], got)
  BY DEF Exec
<1>3. vas \in SUBSET Pages
  BY ImageFacts
<1> HIDE DEF vas
<1>4. got \in Injection(vas, free) /\ got \in [vas -> free]
  BY <1>2, Received
<1> HIDE DEF got
<1>5. got \in [vas -> Frames]
  BY <1>1, <1>4
<1>6. MmOK(new) /\ new.refs = 1 /\ \A a \in Pages : new.pt[a].frame = IF a \in vas THEN got[a] ELSE 0
  BY <1>1, <1>5, LoadedFacts DEF vas
<1> HIDE DEF new
<1>7. /\ AfterDrop(m) \in Mm /\ MmOK(AfterDrop(m)) /\ AfterDrop(m).refs = mm.refs - 1
      /\ AfterDrop(m).refs = 0 => AfterDrop(m) = NoMm
  BY <1>1, DropFacts
<1>8. /\ mms' \in [Mms -> Mm] /\ ms[m] = mm
      /\ \A j \in Mms : ms[j] = IF j = i THEN new ELSE mms[j]
      /\ \A j \in Mms : ns[j] = IF j = m THEN AfterDrop(m) ELSE ms[j]
  <2>1. new \in Mm
    BY <1>6 DEF MmOK
  <2>2. ms \in [Mms -> Mm] /\ \A j \in Mms : ms[j] = IF j = i THEN new ELSE mms[j]
    BY <1>1, <2>1
  <2>3. ns = [ms EXCEPT ![m] = AfterDrop(m)]
    BY <1>2
  <2> HIDE DEF ms
  <2>4. ns \in [Mms -> Mm] /\ \A j \in Mms : ns[j] = IF j = m THEN AfterDrop(m) ELSE ms[j]
    BY <1>1, <1>7, <2>2, <2>3
  <2> QED BY <1>1, <2>2, <2>4
<1>9. \A j \in Mms : MmOK(mms'[j]) /\ (mms'[j].refs = 0 => mms'[j] = NoMm)
  <2>1. MmOK(new) /\ new.refs # 0
    BY <1>6
  <2>2. \A j \in Mms : MmOK(mms[j]) /\ (mms[j].refs = 0 => mms[j] = NoMm)
    BY DEF VmInv
  <2>3. \A j \in Mms : \/ mms'[j] = new \/ mms'[j] = AfterDrop(m) \/ mms'[j] = mms[j]
    BY <1>8
  <2> QED BY <1>7, <2>1, <2>2, <2>3
<1>10. /\ mmOf' \in [Procs -> Mms \cup {0}]
       /\ \A j \in Mms : mms'[j].refs = Cardinality(Users(mmOf', j))
  <2>1. \A j \in Mms : mms'[j].refs = IF j = n THEN mms[j].refs + 1
                                      ELSE IF j = mmOf[current] THEN mms[j].refs - 1 ELSE mms[j].refs
    BY <1>1, <1>6, <1>7, <1>8, NoMmFacts
  <2>2. mmOf[current] # n /\ mmOf' = Goes(mmOf, current, n) /\ n \in Mms \cup {0}
    BY <1>1, <1>2 DEF Goes
  <2> QED BY <1>1, <1>8, <2>1, <2>2, RefsMove
<1>11. Owned(mms', free')
  <2>1. \A a \in Pages : FrameAt(mms, i, a) = 0
    BY <1>1, UnusedMm
  <2>2. \A a \in vas : FrameAt(mms, i, a) = 0
    BY <1>3, <2>1
  <2>3. \A j \in Mms, a \in Pages :
          FrameAt(ms, j, a) = IF j = i /\ a \in vas THEN got[a] ELSE FrameAt(mms, j, a)
    <3>2. \A a \in Pages : FrameAt(ms, i, a) = IF a \in vas THEN got[a] ELSE 0
      BY <1>6, <1>8 DEF FrameAt
    <3>3. \A j \in Mms \ {i}, a \in Pages : FrameAt(ms, j, a) = FrameAt(mms, j, a)
      BY <1>8 DEF FrameAt
    <3> HIDE DEF i, ms
    <3> QED BY <2>1, <3>2, <3>3
  <2>4. i \in Mms
    OBVIOUS
  <2> HIDE DEF i, ms, ns
  <2>5. Owned(ms, free \ Taken(got))
    BY <1>1, <1>3, <1>4, <2>2, <2>3, <2>4, FramesTaken
  <2>6. Owned(ns, (free \ Taken(got)) \cup FreedBy(m))
    BY <1>1, <1>8, <2>5, DropFrames
  <2> QED BY <1>2, <2>6 DEF ns
<1>12. frames' \in [Frames -> Vals \cup {Link}]
  <2>1. [f \in Frames |-> IF f \in FreedBy(m) THEN Link ELSE frames[f]] \in [Frames -> Vals \cup {Link}]
    BY <1>1
  <2> QED BY <1>2, <2>1, HoldingType
<1> QED BY <1>1, <1>8, <1>9, <1>10, <1>11, <1>12, ProcessStep

(***************************************************************************)
(* The theorems.                                                           *)
(***************************************************************************)

LEMMA VmInitInv == VmInit /\ RangesFit => VmInv
<1> SUFFICES ASSUME VmInit, RangesFit PROVE VmInv
  OBVIOUS
<1>1. PICK im, got :
        /\ im \in Images /\ Enough(All, LoadedPages(im)) /\ got = Palloc(All, LoadedPages(im))
        /\ machine \in Machines /\ current = 1
        /\ mmOf = [p \in Procs |-> IF p = 1 THEN 1 ELSE 0]
        /\ mms = [i \in Mms |-> IF i = 1 THEN Loaded(im, got) ELSE NoMm]
        /\ frames = Holding([f \in Frames |-> Link], got)
        /\ free = All \ Taken(got) /\ stale = {}
  BY DEF VmInit, All
<1>0. im \in Images
  BY <1>1
<1>2. All \subseteq Frames /\ 0 \notin Frames /\ 0 \notin All
  BY <1>1, VmAssumption DEF All, Frames
<1> DEFINE vas == LoadedPages(im)
           new == Loaded(im, got)
           ms == [i \in Mms |-> NoMm]
           ns == mms
<1>3. got \in Injection(vas, All) /\ got \in [vas -> Frames] /\ vas \in SUBSET Pages
  <2> HIDE DEF vas
  <2>1. got \in Injection(vas, All) /\ got \in [vas -> All]
    BY <1>1, Received DEF vas
  <2>2. vas \in SUBSET Pages
    BY <1>0, ImageFacts DEF vas
  <2> QED BY <1>2, <2>1, <2>2
<1>4. MmOK(new) /\ new.refs = 1 /\ \A a \in Pages : new.pt[a].frame = IF a \in vas THEN got[a] ELSE 0
  BY <1>0, <1>2, <1>3, LoadedFacts
<1>5. ns = [i \in Mms |-> IF i = 1 THEN new ELSE NoMm]
  BY <1>1
<1> HIDE DEF new, vas
<1>6. mms \in [Mms -> Mm] /\ \A i \in Mms : MmOK(mms[i]) /\ (mms[i].refs = 0 => mms[i] = NoMm)
  BY <1>4, <1>5, NoMmFacts DEF MmOK
<1>7. Owned(mms, free)
  <2>1. Owned(ms, All)
    BY NoMmFacts DEF Owned, FrameAt
  <2>2. PICK i : i = 1
    OBVIOUS
  <2>3. \A j \in Mms, a \in Pages : FrameAt(ms, j, a) = 0
    BY NoMmFacts DEF FrameAt
  <2>4. \A j \in Mms, a \in Pages :
          FrameAt(ns, j, a) = IF j = i /\ a \in vas THEN got[a] ELSE FrameAt(ms, j, a)
    <3>1. \A j \in Mms, a \in Pages : FrameAt(ns, j, a) = IF j = i /\ a \in vas THEN got[a] ELSE 0
      BY <1>4, <1>5, <2>2, NoMmFacts DEF FrameAt
    <3> HIDE DEF ms, ns
    <3> QED BY <2>3, <3>1
  <2>5. i \in Mms /\ \A a \in vas : FrameAt(ms, i, a) = 0
    BY <1>3, <2>2, <2>3, Constants
  <2> HIDE DEF ms, ns
  <2>6. Owned(ns, All \ Taken(got))
    BY <1>3, <2>1, <2>4, <2>5, FramesTaken
  <2> QED BY <1>1, <2>6 DEF ns
<1>8. mmOf \in [Procs -> Mms \cup {0}] /\ \A i \in Mms : mms[i].refs = Cardinality(Users(mmOf, i))
  <2>1. Users(mmOf, 1) = {1} /\ \A i \in Mms \ {1} : Users(mmOf, i) = {}
    BY <1>1, Constants DEF Users
  <2>2. Cardinality(Users(mmOf, 1)) = 1 /\ \A i \in Mms \ {1} : Cardinality(Users(mmOf, i)) = 0
    BY <2>1, FS_EmptySet, FS_Singleton
  <2> QED BY <1>1, <1>4, <1>5, <2>2, Constants, NoMmFacts
<1>9. frames \in [Frames -> Vals \cup {Link}]
  <2>1. [f \in Frames |-> Link] \in [Frames -> Vals \cup {Link}]
    OBVIOUS
  <2> QED BY <1>1, <2>1, HoldingType
<1>10. \A i \in Mms : \A v \in mms[i].vmas : v.start < v.end
  BY <1>6 DEF MmOK, VmasOK
<1>11. VmTypeOK
  BY <1>1, <1>6, <1>8, <1>9, <1>10, Constants DEF VmTypeOK, Users, All
<1> QED BY <1>1, <1>6, <1>7, <1>11 DEF VmInv, TlbFresh

LEMMA VmNextInv == VmInv /\ [VmNext]_vmVars => VmInv'
<1> SUFFICES ASSUME VmInv, [VmNext]_vmVars PROVE VmInv'
  OBVIOUS
<1>1. CASE UNCHANGED vmVars
  <2>1. UNCHANGED <<machine, current, mmOf, mms, frames, free, stale>>
    BY <1>1 DEF vmVars
  <2>2. VmTypeOK'
    BY <2>1 DEF VmInv, VmTypeOK
  <2>3. Owned(mms, free)'
    BY <2>1 DEF VmInv, Owned, All
  <2>4. RangesFit'
    BY <2>1 DEF VmInv, RangesFit
  <2> QED BY <2>1, <2>2, <2>3, <2>4 DEF VmInv, TlbFresh
<1>2. CASE VmNext
  <2>0. machine' = machine
    BY <1>2 DEF VmNext
  <2>1. ASSUME NEW va \in Pages, NEW v \in Vals \ {0}, Store(va, v) PROVE VmInv'
    BY <2>0, <2>1, StoreStep
  <2>2. ASSUME NEW va \in Pages, NEW w \in BOOLEAN, Fault(va, w) PROVE VmInv'
    BY <2>0, <2>2, FaultStep
  <2>3. ASSUME NEW a \in machine.addrs, NEW n \in machine.lens, Munmap(a, n) PROVE VmInv'
    BY <2>0, <2>3, MunmapStep
  <2>4. ASSUME NEW a \in machine.addrs, NEW n \in machine.lens, NEW prot \in machine.prots,
               Mprotect(a, n, prot)
        PROVE  VmInv'
    BY <2>0, <2>4, MprotectStep
  <2>5. ASSUME NEW n \in machine.lens, NEW prot \in machine.prots, NEW f \in machine.files,
               MmapTopDown(n, prot, f)
        PROVE  VmInv'
    BY <2>0, <2>5, MmapTopDownStep
  <2>6. ASSUME NEW a \in machine.addrs, NEW n \in machine.lens, NEW prot \in machine.prots,
               NEW f \in machine.files, MmapFixed(a, n, prot, f)
        PROVE  VmInv'
    BY <2>0, <2>6, MmapFixedStep
  <2>7. ASSUME NEW a \in machine.addrs, NEW n \in machine.lens, NEW prot \in machine.prots,
               NEW f \in machine.files, MmapHint(a, n, prot, f)
        PROVE  VmInv'
    BY <2>0, <2>7, MmapHintStep
  <2>8. ASSUME NEW a \in machine.addrs, NEW o \in machine.lens, NEW n \in machine.lens,
               MremapShrink(a, o, n)
        PROVE  VmInv'
    BY <2>0, <2>8, MremapShrinkStep
  <2>9. ASSUME NEW a \in machine.addrs, NEW o \in machine.lens, NEW n \in machine.lens,
               MremapGrow(a, o, n)
        PROVE  VmInv'
    BY <2>0, <2>9, MremapGrowStep
  <2>10. ASSUME NEW a \in machine.addrs, NEW o \in machine.lens, NEW n \in machine.lens,
                MremapMove(a, o, n)
         PROVE  VmInv'
    BY <2>0, <2>10, MremapMoveStep
  <2>11. ASSUME NEW b \in machine.brks, BrkShrink(b) PROVE VmInv'
    BY <2>0, <2>11, BrkShrinkStep
  <2>12. ASSUME NEW b \in machine.brks, BrkInPage(b) PROVE VmInv'
    BY <2>0, <2>12, BrkInPageStep
  <2>13. ASSUME NEW b \in machine.brks, BrkGrow(b) PROVE VmInv'
    BY <2>0, <2>13, BrkGrowStep
  <2>14. ASSUME NEW c \in Procs, VFork(c) PROVE VmInv'
    BY <2>0, <2>14, VForkStep
  <2>15. ASSUME NEW c \in Procs, Switch(c) PROVE VmInv'
    BY <2>0, <2>15, SwitchStep
  <2>16. ASSUME NEW c \in Procs, NEW n \in Mms, Fork(c, n) PROVE VmInv'
    BY <2>0, <2>16, ForkStep
  <2>17. ASSUME NEW im \in Images, NEW n \in Mms, Exec(im, n) PROVE VmInv'
    BY <2>0, <2>17, ExecStep
  <2>18. CASE Exit
    BY <2>0, <2>18, ExitStep
  <2> QED BY <1>2, <2>1, <2>2, <2>3, <2>4, <2>5, <2>6, <2>7, <2>8, <2>9, <2>10, <2>11, <2>12,
             <2>13, <2>14, <2>15, <2>16, <2>17, <2>18, Zenon DEF VmNext
<1> QED BY <1>1, <1>2

LEMMA VmInvAlways == VmSpec /\ RangesFit => []VmInv
BY VmInitInv, VmNextInv, PTL DEF VmSpec

\* Every page table entry, VMA and count has its type, no VMA is empty, and refs
\* counts the processes that use a struct mm, so that mm_free (mm.c:255) frees
\* what the last of them leaves and nothing before.  (Where ranges fit: an mmap
\* whose length rounds up to nothing makes an empty VMA.)
THEOREM VmTypesHold == VmSpec /\ RangesFit => []VmTypeOK
<1>1. VmInv => VmTypeOK
  BY DEF VmInv
<1> QED BY <1>1, VmInvAlways, PTL

\* Whatever mm_map, mm_unmap, mremap and vma_split (mm.c:346) do to the list for
\* programs that name ranges of user space, no page is in two VMAs.  A munmap
\* whose end wraps round leaves two that overlap (run vm_wrap): the code does not
\* look at the length, so the hypothesis is the programs' to keep.
THEOREM VmasStayDisjoint == VmSpec /\ RangesFit => []VmasDisjoint
<1>1. VmInv => VmasDisjoint
  BY DEF VmInv, MmOK, VmasOK, VmasDisjoint
<1> QED BY <1>1, VmInvAlways, PTL

\* Every call that takes a page or a right away loads CR3 before it returns
\* (flush_tlb), and those that do not take nothing the CPU may have seen.
THEOREM TlbStaysFresh == VmSpec /\ RangesFit => []TlbFresh
<1>1. VmInv => TlbFresh
  BY DEF VmInv
<1> QED BY <1>1, VmInvAlways, PTL

\* Every physical page is free, or in one entry of one page table: no call frees
\* a page twice, leaks it, or leaves it to two spaces.
THEOREM FramesAreOnce == VmSpec /\ RangesFit => []FramesOnce
<1>1. VmInv => FramesOnce
  <2> SUFFICES ASSUME VmInv, NEW f \in 1..machine.pages
               PROVE  Cardinality({e \in Mms \X Pages : mms[e[1]].pt[e[2]].frame = f})
                        = IF f \in free THEN 0 ELSE 1
    BY DEF FramesOnce
  <2> DEFINE where == {e \in Mms \X Pages : mms[e[1]].pt[e[2]].frame = f}
  <2>1. f \in All /\ f # 0 /\ Owned(mms, free)
    BY ZeroIsNone DEF All, VmInv
  <2>2. \A e \in where : e \in Mms \X Pages /\ FrameAt(mms, e[1], e[2]) = f
    BY DEF FrameAt
  <2>3. CASE f \in free
    <3>1. where = {}
      BY <2>1, <2>2, <2>3 DEF Owned
    <3> QED BY <2>3, <3>1, FS_EmptySet
  <2>4. CASE f \notin free
    <3>1. PICK i \in Mms, a \in Pages : FrameAt(mms, i, a) = f
      BY <2>1, <2>4 DEF Owned
    <3>2. \A e \in where : e[1] = i /\ e[2] = a
      BY <2>1, <2>2, <3>1 DEF Owned
    <3>3. <<i, a>> \in where
      BY <3>1 DEF FrameAt
    <3>4. where = {<<i, a>>}
      BY <3>2, <3>3
    <3> QED BY <2>4, <3>4, FS_Singleton
  <2> QED BY <2>3, <2>4
<1> QED BY <1>1, VmInvAlways, PTL

\* "PROT_NONE pages are present but not user-accessible; read-only pages lack W"
\* (mm.c:319) where files are mapped writable; copy_to_mm (mm.c:369) makes a
\* file's page writable whatever its mapping says.
THEOREM EntriesStayMatched ==
  ASSUME FilesWritable PROVE VmSpec /\ RangesFit => []EntriesMatch
<1>1. VmInv => EntriesMatch
  <2> SUFFICES ASSUME VmInv, NEW i \in Mms, NEW a \in Pages, Present(mms[i].pt, a)
               PROVE  /\ Mapped(mms[i].vmas, a)
                      /\ mms[i].pt[a].u => FindVma(mms[i].vmas, a).prot # 0
                      /\ mms[i].pt[a].w => FindVma(mms[i].vmas, a).prot \in {2, 3, 6, 7}
    BY DEF EntriesMatch
  <2>1. MmOK(mms[i]) /\ VmasOK(mms[i].vmas) /\ Mapped(mms[i].vmas, a) /\ RightsOK(mms[i].vmas, mms[i].pt)
    BY DEF VmInv, MmOK
  <2>2. Gives(mms[i].vmas, a, FindVma(mms[i].vmas, a).prot)
    BY <2>1, MappedGives
  <2>3. Right(mms[i].pt[a], FindVma(mms[i].vmas, a).prot)
    BY <2>1, <2>2 DEF RightsOK
  <2> QED BY <2>1, <2>3 DEF Right
<1> QED BY <1>1, VmInvAlways, PTL

(***************************************************************************)
(* What a program sees: K1Vm implements UserMemory, for every machine,     *)
(* program and number of processes and pages whose ranges fit and whose    *)
(* files are mapped writable.  A step on the struct mm of the process on the CPU changes    *)
(* one memory (OwnCall), in one of the ways UserMemory has (CallStored and *)
(* so on): a lemma for each action shows which.  Steps that make, share or *)
(* leave a struct mm leave in each space with users what they should       *)
(* (SettleIs).  VmInv says what the steps rest on, KnownProts that the     *)
(* protections are those of UserMemory.                                    *)
(***************************************************************************)

\* The memory that VMAs, a page table and frames make, and what a page holds.
Holds(pt, fs, a) == IF Present(pt, a) THEN fs[pt[a].frame] ELSE 0
MemoryIn(vs, pt, fs) ==
  [a \in Pages |-> IF Mapped(vs, a) THEN [prot |-> FindVma(vs, a).prot, val |-> Holds(pt, fs, a)]
                   ELSE NoPage]

\* The memory of each struct mm, before and after a step.
LEMMA MemoriesAre ==
  /\ \A i \in Mms : Memory[i] = MemoryIn(mms[i].vmas, mms[i].pt, frames)
  /\ \A i \in Mms : Memory'[i] = MemoryIn(mms'[i].vmas, mms'[i].pt, frames')
BY DEF Memory, MemoryOf, MemoryIn, Holds

LEMMA PageGiven ==
  ASSUME NEW vs, VmasOK(vs), NEW pt, NEW fs, NEW a \in Pages
  PROVE  /\ \A p : Gives(vs, a, p) => MemoryIn(vs, pt, fs)[a] = [prot |-> p, val |-> Holds(pt, fs, a)]
         /\ (\A p : ~Gives(vs, a, p)) => MemoryIn(vs, pt, fs)[a] = NoPage
<1>1. MemoryIn(vs, pt, fs)[a] =
        IF Mapped(vs, a) THEN [prot |-> FindVma(vs, a).prot, val |-> Holds(pt, fs, a)] ELSE NoPage
  BY DEF MemoryIn
<1>2. \A p : Gives(vs, a, p) => Mapped(vs, a) /\ FindVma(vs, a).prot = p
  BY GivesMapped, MappedGives, Zenon
<1>3. (\A p : ~Gives(vs, a, p)) => ~Mapped(vs, a)
  BY GivesMapped, Zenon
<1> QED BY <1>1, <1>2, <1>3

(* ---- what one call may do, on whole pages ---- *)

LEMMA PageNumbers == \A a \in Pages : a \in Nat /\ a < MaxPage
BY Constants DEF Pages

Same(was, is) == \A a \in Pages : is[a] = was[a]

\* The pages between two that change.
LEMMA SpanIn ==
  ASSUME NEW C \in SUBSET Pages, NEW s \in Int, NEW e \in Int, C \subseteq s..e - 1
  PROVE  \A va \in User!Span(C) : va \in s..e - 1 /\ va \in Pages
<1> SUFFICES ASSUME NEW va \in Pages, NEW a \in C, NEW b \in C, a <= va, va <= b
             PROVE  va \in s..e - 1
  BY DEF User!Span
<1>1. va \in Int /\ a \in s..e - 1 /\ b \in s..e - 1
  BY PageNumbers
<1> QED BY <1>1

LEMMA CallRemoved ==
  ASSUME NEW was, NEW is, NEW s \in Int, NEW e \in Int,
         \A a \in Pages : is[a] = IF a \in s..e - 1 THEN NoPage ELSE was[a]
  PROVE  Same(was, is) \/ User!Call(was, is)
<1> DEFINE C == {a \in Pages : was[a] # is[a]}
<1>1. C \subseteq s..e - 1 /\ C \in SUBSET Pages
  OBVIOUS
<1>2. CASE C = {}
  BY <1>2 DEF Same
<1>3. CASE C # {}
  <2> HIDE DEF C
  <2>1. User!Span(C) \subseteq s..e - 1 /\ User!Span(C) \subseteq Pages
    BY <1>1, SpanIn
  <2>2. User!Removed(is, C)
    BY <2>1 DEF User!Removed, User!Unmapped, NoPage
  <2> QED BY <1>3, <2>2 DEF User!Call, C
<1> QED BY <1>2, <1>3

LEMMA CallStored ==
  ASSUME NEW was, NEW is, NEW va \in Pages, NEW v \in Vals,
         was[va] # NoPage, was[va].prot \in {2, 3, 6, 7},
         \A a \in Pages : is[a] = IF a = va THEN [prot |-> was[va].prot, val |-> v] ELSE was[a]
  PROVE  Same(was, is) \/ User!Call(was, is)
<1> DEFINE C == {a \in Pages : was[a] # is[a]}
<1>1. CASE is[va] = was[va]
  BY <1>1 DEF Same
<1>2. CASE is[va] # was[va]
  <2>1. C = {va}
    BY <1>2
  <2>2. is[va].prot = was[va].prot /\ is[va].val = v
    OBVIOUS
  <2> HIDE DEF C
  <2>3. User!Stored(was, is, C)
    BY <2>1, <2>2 DEF User!Stored, User!Unmapped, User!Writable, NoPage
  <2> QED BY <2>1, <2>3 DEF User!Call, C
<1> QED BY <1>1, <1>2

\* A range is mapped, and has a file's bytes below k.
RangeMapped(was, is, prot, s, e, k) ==
  \A a \in Pages : is[a] = IF a \in s..e - 1
                           THEN [prot |-> prot, val |-> IF a < k /\ Walkable(a) THEN 1 ELSE 0]
                           ELSE was[a]

LEMMA CallMapped ==
  ASSUME NEW was, NEW is, NEW prot \in MapProts, NEW s \in Int, NEW e \in Int, NEW k \in Int,
         RangeMapped(was, is, prot, s, e, k)
  PROVE  Same(was, is) \/ User!Call(was, is)
<1>0. \A a \in Pages : is[a] = IF a \in s..e - 1
                               THEN [prot |-> prot, val |-> IF a < k /\ Walkable(a) THEN 1 ELSE 0]
                               ELSE was[a]
  BY DEF RangeMapped
<1> DEFINE C == {a \in Pages : was[a] # is[a]}
<1>1. C \subseteq s..e - 1 /\ C \in SUBSET Pages
  BY <1>0
<1>2. CASE C = {}
  BY <1>2 DEF Same
<1>3. CASE C # {}
  <2> HIDE DEF C
  <2>1. \A a \in Pages : a \in s..e - 1 =>
          /\ is[a].prot = prot /\ is[a].val \in {0, 1}
          /\ is[a].val = 1 <=> a < k /\ Walkable(a)
    <3> SUFFICES ASSUME NEW a \in Pages, a \in s..e - 1
                 PROVE  /\ is[a].prot = prot /\ is[a].val \in {0, 1}
                        /\ is[a].val = 1 <=> a < k /\ Walkable(a)
      OBVIOUS
    <3>1. is[a] = [prot |-> prot, val |-> IF a < k /\ Walkable(a) THEN 1 ELSE 0]
      BY <1>0
    <3> QED BY <3>1
  <2>3. \A a \in User!Span(C) : a \in s..e - 1 /\ a \in Pages
    BY <1>1, SpanIn
  <2>5. \A x, y \in User!Span(C) \cap {a \in Pages : Walkable(a)} :
          x < y /\ is[x].val = 0 => is[y].val = 0
    <3>1. \A x \in User!Span(C) \cap {a \in Pages : Walkable(a)} :
            x \in Pages /\ x \in s..e - 1 /\ Walkable(x)
      BY <2>3, Zenon
    <3>2. ASSUME NEW x \in Pages, NEW y \in Pages, x \in s..e - 1, Walkable(x), y \in s..e - 1,
                 x < y, is[x].val = 0
          PROVE  is[y].val = 0
      <4>1. x \in Int /\ y \in Int
        BY PageNumbers
      <4>0. is[x].val # 1
        BY <3>2
      <4>2. ~(x < k)
        BY <2>1, <3>2, <4>0, Zenon
      <4>3. is[y].val \in {0, 1} /\ (is[y].val = 1 => y < k)
        BY <2>1, <3>2, Zenon
      <4> QED BY <3>2, <4>1, <4>2, <4>3
    <3> QED BY <3>1, <3>2, Zenon
  <2>7. User!Mapped(is, C)
    <3>1. PICK S : S = User!Span(C)
      OBVIOUS
    <3>2. PICK R : R = {a \in Pages : Walkable(a)}
      OBVIOUS
    <3>0. \A a \in S : a \in s..e - 1 /\ a \in Pages
      BY <2>3, <3>1
    <3>3. \A a \in S : /\ is[a].prot = prot /\ is[a].val \in {0, 1}
                       /\ a \notin R => is[a].val = 0
      BY <2>1, <3>0, <3>2
    <3>4. \A x, y \in S \cap R : x < y /\ is[x].val = 0 => is[y].val = 0
      BY <2>5, <3>1, <3>2, Zenon
    <3>5. \E q \in MapProts :
            /\ \A a \in S : /\ is[a].prot = q /\ is[a].val \in {0, 1}
                            /\ a \notin R => is[a].val = 0
            /\ \A x, y \in S \cap R : x < y /\ is[x].val = 0 => is[y].val = 0
      BY <3>3, <3>4, Zenon
    <3> QED BY <3>1, <3>2, <3>5, Zenon DEF User!Mapped
  <2> QED BY <1>3, <2>7 DEF User!Call, C
<1> QED BY <1>2, <1>3

RangeProtected(was, is, prot, s, e) ==
  \A a \in Pages :
    /\ was[a] # NoPage => was[a] = [prot |-> was[a].prot, val |-> was[a].val]
    /\ is[a] = IF a \in s..e - 1 /\ was[a] # NoPage
               THEN [prot |-> prot, val |-> was[a].val] ELSE was[a]

LEMMA CallProtected ==
  ASSUME NEW was, NEW is, NEW prot \in MapProts, NEW s \in Int, NEW e \in Int,
         RangeProtected(was, is, prot, s, e)
  PROVE  Same(was, is) \/ User!Call(was, is)
<1> USE DEF RangeProtected
<1> DEFINE C == {a \in Pages : was[a] # is[a]}
<1>1. C \subseteq s..e - 1 /\ C \in SUBSET Pages /\ \A a \in C : was[a] # NoPage
  OBVIOUS
<1>2. CASE C = {}
  BY <1>2 DEF Same
<1>3. CASE C # {}
  <2>1. \A a \in C : is[a] = [prot |-> prot, val |-> was[a].val]
    BY <1>1
  <2> HIDE DEF C
  <2>3. \A a \in User!Span(C) : a \in s..e - 1 /\ a \in Pages
    BY <1>1, SpanIn
  <2>4. \A a \in Pages : a \in s..e - 1 =>
          is[a] = IF was[a] = User!Unmapped THEN User!Unmapped ELSE [was[a] EXCEPT !.prot = prot]
    <3> SUFFICES ASSUME NEW a \in Pages, a \in s..e - 1
                 PROVE  is[a] = IF was[a] = NoPage THEN NoPage ELSE [was[a] EXCEPT !.prot = prot]
      BY DEF User!Unmapped, NoPage
    <3>1. CASE was[a] = NoPage
      BY <3>1
    <3>2. CASE was[a] # NoPage
      <4>1. PICK p, v : was[a] = [prot |-> p, val |-> v]
        BY <3>2
      <4>2. is[a] = [prot |-> prot, val |-> v]
        BY <3>2, <4>1
      <4> QED BY <3>2, <4>1, <4>2
    <3> QED BY <3>1, <3>2
  <2>5. User!Protected(was, is, C)
    BY <2>3, <2>4, Zenon DEF User!Protected
  <2> QED BY <1>3, <2>5 DEF User!Call, C
<1> QED BY <1>2, <1>3

\* The pages olen from old move to va, and zeroes follow them to e.
RangeMoved(was, is, old, olen, va, e, p) ==
  \A a \in Pages :
    /\ a \in old..old + olen - 1 => was[a] # NoPage /\ is[a] = NoPage
    /\ a \in va..e - 1 => was[a] = NoPage
    /\ a \notin old..old + olen - 1 =>
         is[a] = IF a \in va..e - 1
                 THEN [prot |-> p, val |-> IF a \in va..va + olen - 1 THEN was[old + a - va].val ELSE 0]
                 ELSE was[a]

LEMMA CallMoved ==
  ASSUME NEW was, NEW is, NEW old \in Nat, NEW va \in Nat, NEW olen \in Nat \ {0},
         NEW e \in Nat, va + olen <= e, old + olen <= MaxPage, e <= MaxPage,
         NEW p \in 0..7, p = was[old].prot, RangeMoved(was, is, old, olen, va, e, p)
  PROVE  User!Call(was, is)
<1> USE DEF RangeMoved
<1> DEFINE C == {a \in Pages : was[a] # is[a]}
           O == old..old + olen - 1
           N == va..e - 1
           gone == {a \in C : is[a] = User!Unmapped}
<1>1. O \subseteq Pages /\ N \subseteq Pages /\ old \in O /\ va \in N
  BY Constants DEF Pages
<1>2. \A a \in O : is[a] = NoPage /\ was[a] # NoPage
  BY <1>1
<1>3. \A a \in N : a \notin O /\ was[a] = NoPage
  BY <1>1
<1>4. \A a \in N : /\ is[a] # NoPage
                   /\ is[a] = [prot |-> p, val |-> IF a \in va..va + olen - 1 THEN was[old + a - va].val ELSE 0]
  <2> SUFFICES ASSUME NEW a \in N
               PROVE  /\ is[a] # NoPage
                      /\ is[a] = [prot |-> p, val |-> IF a \in va..va + olen - 1 THEN was[old + a - va].val ELSE 0]
    OBVIOUS
  <2>1. is[a] = [prot |-> p, val |-> IF a \in va..va + olen - 1 THEN was[old + a - va].val ELSE 0]
    BY <1>1, <1>3
  <2>2. is[a].prot # 8
    BY <2>1
  <2> QED BY <2>1, <2>2 DEF NoPage
<1>5. \A a \in Pages : a \notin O /\ a \notin N => is[a] = was[a]
  OBVIOUS
<1> HIDE DEF O, N, RangeMoved
<1>6. C = O \cup N
  <2>1. \A a \in O : a \in C
    BY <1>1, <1>2
  <2>2. \A a \in N : a \in C
    BY <1>1, <1>3, <1>4
  <2>3. \A a \in C : a \in O \/ a \in N
    BY <1>5
  <2> HIDE DEF C
  <2> QED BY <2>1, <2>2, <2>3
<1> HIDE DEF C
<1>7. gone = O /\ C \ gone = N
  BY <1>2, <1>3, <1>4, <1>6 DEF NoPage, User!Unmapped
<1> HIDE DEF gone
<1>8. User!Span(O) = O /\ User!Span(N) = N
  <2>1. \A a, b \in O : \A x \in Pages : a <= x /\ x <= b => x \in O
    BY <1>1, PageNumbers DEF O
  <2>2. \A a, b \in N : \A x \in Pages : a <= x /\ x <= b => x \in N
    BY <1>1, PageNumbers DEF N
  <2>3. \A a \in O : a <= a /\ a \in Pages
    BY <1>1, PageNumbers
  <2>4. \A a \in N : a <= a /\ a \in Pages
    BY <1>1, PageNumbers
  <2> QED BY <2>1, <2>2, <2>3, <2>4, Zenon DEF User!Span
<1>9. \A a \in O : old <= a
  BY DEF O
<1>10. \A a \in N : /\ va <= a /\ was[a] = User!Unmapped
                    /\ is[a] = [prot |-> was[old].prot,
                                val |-> IF old + a - va \in O THEN was[old + a - va].val ELSE 0]
  <2>1. \A a \in N : va <= a /\ (old + a - va \in O <=> a \in va..va + olen - 1)
    BY DEF N, O
  <2> QED BY <1>3, <1>4, <2>1 DEF NoPage, User!Unmapped
<1>11. User!Moved(was, is, C)
  BY <1>1, <1>7, <1>8, <1>9, <1>10, Zenon DEF User!Moved, gone
<1> QED BY <1>1, <1>6, <1>11 DEF User!Call, C

(* ---- memories ---- *)

\* Nothing but the frames of the table is read.
LEMMA MemoryKept ==
  ASSUME NEW vs, NEW pt, NEW fs, NEW gs,
         \A a \in Pages : pt[a].frame # 0 => gs[pt[a].frame] = fs[pt[a].frame]
  PROVE  MemoryIn(vs, pt, gs) = MemoryIn(vs, pt, fs)
<1>1. \A a \in Pages : Holds(pt, gs, a) = Holds(pt, fs, a)
  BY DEF Holds, Present
<1> QED BY <1>1 DEF MemoryIn

\* A page is unmapped, or has the protection of its VMA.
LEMMA PageIs ==
  ASSUME NEW vs, VmasOK(vs), NEW pt, NEW fs, NEW page, NEW a \in Pages, page = MemoryIn(vs, pt, fs)[a]
  PROVE  /\ page # NoPage <=> Mapped(vs, a)
         /\ page # NoPage => page = [prot |-> page.prot, val |-> page.val]
<1>1. CASE Mapped(vs, a)
  <2>1. PICK p : p \in 0..7 /\ Gives(vs, a, p)
    BY <1>1, MappedGives
  <2>2. page = [prot |-> p, val |-> Holds(pt, fs, a)]
    BY <2>1, PageGiven
  <2>3. page.prot = p /\ page.val = Holds(pt, fs, a) /\ p # 8
    BY <2>1, <2>2
  <2>4. page # NoPage
    BY <2>3 DEF NoPage
  <2> QED BY <1>1, <2>2, <2>3, <2>4
<1>2. CASE ~Mapped(vs, a)
  <2>1. \A p : ~Gives(vs, a, p)
    BY <1>2, GivesMapped
  <2>2. page = NoPage
    BY <2>1, PageGiven
  <2> QED BY <1>2, <2>2
<1> QED BY <1>1, <1>2

\* Two memories are alike on a page where both are given the same.
LEMMA PageSame ==
  ASSUME NEW vs, NEW ws, VmasOK(vs), VmasOK(ws), NEW pt, NEW qt, NEW fs, NEW gs, NEW a \in Pages,
         \A p : Gives(ws, a, p) <=> Gives(vs, a, p),
         Mapped(vs, a) => Holds(qt, gs, a) = Holds(pt, fs, a)
  PROVE  MemoryIn(ws, qt, gs)[a] = MemoryIn(vs, pt, fs)[a]
<1>1. CASE Mapped(vs, a)
  <2>1. PICK p : Gives(vs, a, p)
    BY <1>1, GivesMapped
  <2>2. MemoryIn(vs, pt, fs)[a] = [prot |-> p, val |-> Holds(pt, fs, a)]
    BY <2>1, PageGiven
  <2>3. MemoryIn(ws, qt, gs)[a] = [prot |-> p, val |-> Holds(qt, gs, a)]
    BY <2>1, PageGiven
  <2> QED BY <1>1, <2>2, <2>3
<1>2. CASE ~Mapped(vs, a)
  <2>1. \A p : ~Gives(vs, a, p) /\ ~Gives(ws, a, p)
    BY <1>2, GivesMapped
  <2> QED BY <2>1, PageGiven
<1> QED BY <1>1, <1>2

LEMMA NoMemory == \A fs : MemoryIn(NoMm.vmas, NoMm.pt, fs) = User!Fresh
<1>1. \A a : ~Mapped(NoMm.vmas, a)
  BY DEF NoMm, Mapped
<1> QED BY <1>1 DEF MemoryIn, User!Fresh, User!Unmapped, NoPage

\* What a program finds when it starts.
LEMMA LoadedMemory ==
  ASSUME NEW im \in Images, NEW got \in [LoadedPages(im) -> Frames], 0 \notin Frames,
         NEW fs, \A a \in LoadedPages(im) : fs[got[a]] = 1
  PROVE  MemoryIn(Loaded(im, got).vmas, Loaded(im, got).pt, fs) = ProgramMemory(im)
<1> DEFINE vs == LoadedVmas(im)
           pt == Loaded(im, got).pt
<1>1. Loaded(im, got).vmas = vs
  BY DEF Loaded
<1>2. VmasOK(vs) /\ \A a, p : Gives(vs, a, p) => p = 3
  BY ImageFacts
<1>3. \A a \in Pages : pt[a].frame = IF a \in LoadedPages(im) THEN got[a] ELSE 0
  BY LoadedFacts
<1> HIDE DEF vs, pt
<1>4. \A a \in Pages : Holds(pt, fs, a) = IF a \in LoadedPages(im) THEN 1 ELSE 0
  <2>1. \A a \in LoadedPages(im) : got[a] # 0
    OBVIOUS
  <2> QED BY <1>3, <2>1 DEF Holds, Present
<1>5. ASSUME NEW a \in Pages, Mapped(vs, a) PROVE FindVma(vs, a).prot = 3
  <2>1. Gives(vs, a, FindVma(vs, a).prot)
    BY <1>2, <1>5, MappedGives
  <2> QED BY <1>2, <2>1
<1>6. MemoryIn(vs, pt, fs) = ProgramMemory(im)
  BY <1>4, <1>5 DEF MemoryIn, ProgramMemory, vs
<1> QED BY <1>1, <1>6 DEF pt

(* ---- steps on the memory of the process ---- *)

\* Before the step, the memory of the process.
Now == MemoryIn(mm.vmas, mm.pt, frames)

\* The frames of the others keep what they hold.
OthersKept ==
  \A j \in Mms \ {m}, a \in Pages :
    FrameAt(mms, j, a) # 0 => frames'[FrameAt(mms, j, a)] = frames[FrameAt(mms, j, a)]

\* A step on the struct mm of the process is a step of UserMemory.
LEMMA OwnCall ==
  ASSUME VmInv, m # 0, NEW new, Becomes(new), OthersKept,
         NEW is, is = MemoryIn(new.vmas, new.pt, frames'),
         Same(Now, is) \/ User!Call(Now, is)
  PROVE  [User!Next]_(User!memVars)
<1>1. /\ m \in Mms /\ mms \in [Mms -> Mm] /\ current \in Procs /\ mmOf[current] = m
      /\ mmOf' = mmOf /\ mms' = [mms EXCEPT ![m] = new]
  BY CurrentMm DEF VmInv, VmTypeOK, m, Becomes
<1>2. /\ \A j \in Mms : Memory[j] = MemoryIn(mms[j].vmas, mms[j].pt, frames)
      /\ \A j \in Mms : Memory'[j] = MemoryIn(mms'[j].vmas, mms'[j].pt, frames')
  BY MemoriesAre
<1>3. Memory[m] = Now /\ Memory'[m] = is
  <2>1. mms'[m] = new
    BY <1>1
  <2> QED BY <1>1, <1>2, <2>1 DEF Now, mm
<1>4. \A j \in Mms \ {m} : Memory'[j] = Memory[j]
  <2> SUFFICES ASSUME NEW j \in Mms \ {m} PROVE Memory'[j] = Memory[j]
    OBVIOUS
  <2>1. mms'[j] = mms[j]
    BY <1>1
  <2>2. \A a \in Pages : mms[j].pt[a].frame # 0 => frames'[mms[j].pt[a].frame] = frames[mms[j].pt[a].frame]
    BY DEF OthersKept, FrameAt
  <2>3. MemoryIn(mms[j].vmas, mms[j].pt, frames') = MemoryIn(mms[j].vmas, mms[j].pt, frames)
    BY <2>2, MemoryKept
  <2> QED BY <1>2, <2>1, <2>3
<1>5. CASE User!Call(Now, is)
  <2>1. ~User!Unused(m)
    BY <1>1 DEF User!Unused
  <2>2. User!Call(Memory[m], Memory'[m])
    BY <1>3, <1>5
  <2> QED BY <1>1, <1>4, <2>1, <2>2, Zenon DEF User!Next
<1>6. CASE Same(Now, is)
  <2>1. is = Now
    BY <1>6 DEF Same, Now, MemoryIn
  <2>2. \A j \in Mms : Memory'[j] = Memory[j]
    BY <1>3, <1>4, <2>1
  <2>3. Memory' = Memory
    BY <2>2 DEF Memory
  <2> QED BY <1>1, <2>3 DEF User!memVars
<1> QED BY <1>5, <1>6

\* The others' frames are neither free nor the process's own.
LEMMA OthersAre ==
  ASSUME VmInv, m # 0, NEW ms, Owned(ms, free), \A j \in Mms \ {m} : ms[j] = mms[j],
         \A f \in All : f \notin free /\ (\A a \in Pages : FrameAt(ms, m, a) # f) => frames'[f] = frames[f]
  PROVE  OthersKept
<1> SUFFICES ASSUME NEW j \in Mms \ {m}, NEW a \in Pages, FrameAt(mms, j, a) # 0
             PROVE  frames'[FrameAt(mms, j, a)] = frames[FrameAt(mms, j, a)]
  BY DEF OthersKept
<1> DEFINE f == FrameAt(mms, j, a)
           i == m
<1>1. f = FrameAt(ms, j, a) /\ i \in Mms
  BY CurrentMm DEF FrameAt
<1> HIDE DEF f, i
<1>2. f \in All /\ f \notin free
  BY <1>1 DEF Owned, f
<1>3. \A x \in Pages : FrameAt(ms, i, x) # f
  BY <1>1 DEF Owned, f, i
<1> QED BY <1>2, <1>3 DEF f, i

LEMMA StoreCall ==
  ASSUME VmInv, FilesWritable, NEW va \in Pages, NEW v \in Vals, Store(va, v)
  PROVE  [User!Next]_(User!memVars)
<1> DEFINE f == mm.pt[va].frame
           is == MemoryIn(mm.vmas, mm.pt, frames')
<1>1. /\ m # 0 /\ m \in Mms /\ mm \in Mm /\ MmOK(mm) /\ mm.pt \in [Pages -> Pte] /\ VmasOK(mm.vmas)
      /\ Present(mm.pt, va) /\ mm.pt[va].w /\ Mapped(mm.vmas, va)
      /\ frames \in [Frames -> Vals \cup {Link}] /\ frames' = [frames EXCEPT ![f] = v]
      /\ RightsOK(mm.vmas, mm.pt) /\ UNCHANGED <<current, mmOf, mms, free, stale>>
  BY CurrentMm DEF Store, Allows, Present, MmOK, VmInv, VmTypeOK, Mm
<1>2. f # 0 /\ f \in Frames /\ f = FrameAt(mms, m, va)
  BY <1>1 DEF Present, Pte, FrameAt, mm
<1> HIDE DEF f
<1>3. \A j \in Mms, a \in Pages : FrameAt(mms, j, a) = f => j = m /\ a = va
  BY <1>1, <1>2 DEF VmInv, Owned
<1>4. Becomes(mm)
  BY <1>1 DEF Becomes, mm, VmInv, VmTypeOK
<1>5. \A x : x # f => frames'[x] = frames[x]
  BY <1>1
<1>6. OthersKept
  BY <1>3, <1>5 DEF OthersKept
<1>7. \A a \in Pages : Holds(mm.pt, frames', a) = IF a = va THEN v ELSE Holds(mm.pt, frames, a)
  <2>1. frames'[f] = v
    BY <1>1, <1>2
  <2>2. mm.pt[va].frame = f
    BY DEF f
  <2>3. \A a \in Pages : mm.pt[a].frame = f => a = va
    BY <1>1, <1>3 DEF FrameAt, mm
  <2> QED BY <1>1, <1>5, <2>1, <2>2, <2>3 DEF Holds, Present
<1>8. PICK p : /\ Gives(mm.vmas, va, p) /\ p \in {2, 3, 6, 7}
               /\ Now[va] = [prot |-> p, val |-> Holds(mm.pt, frames, va)]
               /\ is[va] = [prot |-> p, val |-> v]
  <2>1. PICK p : Gives(mm.vmas, va, p)
    BY <1>1, GivesMapped
  <2>2. Right(mm.pt[va], p)
    BY <1>1, <2>1 DEF RightsOK
  <2>3. p \in {2, 3, 6, 7}
    BY <1>1, <2>2 DEF Right
  <2>4. Now[va] = [prot |-> p, val |-> Holds(mm.pt, frames, va)]
    BY <1>1, <2>1, PageGiven DEF Now
  <2>5. is[va] = [prot |-> p, val |-> Holds(mm.pt, frames', va)]
    BY <1>1, <2>1, PageGiven
  <2> QED BY <1>7, <2>1, <2>3, <2>4, <2>5
<1>9. \A a \in Pages : a # va => is[a] = Now[a]
  BY <1>7 DEF MemoryIn, Now
<1> HIDE DEF is
<1>10. Now[va].prot = p /\ Now[va] # NoPage
  <2>1. Now[va].prot = p
    BY <1>8
  <2> QED BY <1>8, <2>1 DEF NoPage
<1>11. \A a \in Pages : is[a] = IF a = va THEN [prot |-> Now[va].prot, val |-> v] ELSE Now[a]
  BY <1>8, <1>9, <1>10
<1>12. Same(Now, is) \/ User!Call(Now, is)
  BY <1>8, <1>10, <1>11, CallStored
<1>13. is = MemoryIn(mm.vmas, mm.pt, frames')
  BY DEF is
<1> QED BY <1>1, <1>4, <1>6, <1>12, <1>13, OwnCall

\* A step that changes no page's VMA and no page's value.
LEMMA SameCall ==
  ASSUME VmInv, m # 0, NEW new, Becomes(new), OthersKept, new.vmas = mm.vmas,
         \A a \in Pages : Holds(new.pt, frames', a) = Holds(mm.pt, frames, a)
  PROVE  [User!Next]_(User!memVars)
<1>1. PICK is : is = MemoryIn(new.vmas, new.pt, frames')
  OBVIOUS
<1>2. is = Now
  BY <1>1 DEF MemoryIn, Now
<1> QED BY <1>1, <1>2, OwnCall DEF Same

\* The others keep what they hold when only the process's frames and free ones change.
LEMMA OwnFramesChange ==
  ASSUME VmInv, m # 0,
         \A f \in All : f \notin free /\ (\A a \in Pages : mm.pt[a].frame # f) => frames'[f] = frames[f]
  PROVE  OthersKept
<1>1. \A j \in Mms \ {m} : mms[j] = mms[j]
  OBVIOUS
<1>2. Owned(mms, free) /\ \A a \in Pages : FrameAt(mms, m, a) = mm.pt[a].frame
  BY DEF VmInv, FrameAt, mm
<1> QED BY <1>1, <1>2, OthersAre

LEMMA FaultCall ==
  ASSUME VmInv, NEW va \in Pages, NEW write, Fault(va, write)
  PROVE  [User!Next]_(User!memVars)
<1> DEFINE prot == FindVma(mm.vmas, va).prot
<1>1. /\ m # 0 /\ m \in Mms /\ mm \in Mm /\ mm.pt \in [Pages -> Pte]
      /\ frames \in [Frames -> Vals \cup {Link}]
  BY CurrentMm DEF Fault, Mm, VmInv, VmTypeOK
<1>2. CASE /\ Present(mm.pt, va)
           /\ Becomes([mm EXCEPT !.pt[va] = WithBits(@, prot)])
           /\ UNCHANGED frames
  <2> DEFINE new == [mm EXCEPT !.pt[va] = WithBits(@, prot)]
  <2>1. WithBits(mm.pt[va], prot).frame = mm.pt[va].frame
    BY DEF WithBits
  <2>2. new.vmas = mm.vmas /\ \A a \in Pages : new.pt[a].frame = mm.pt[a].frame
    BY <1>1, <2>1 DEF Mm
  <2>3. Becomes(new) /\ frames' = frames
    BY <1>2
  <2> HIDE DEF new
  <2>4. \A a \in Pages : Holds(new.pt, frames', a) = Holds(mm.pt, frames, a)
    BY <2>2, <2>3 DEF Holds, Present
  <2>5. OthersKept
    BY <2>3 DEF OthersKept
  <2> QED BY <1>1, <2>2, <2>3, <2>4, <2>5, SameCall
<1>3. CASE /\ ~Present(mm.pt, va) /\ free # {}
           /\ LET got == CHOOSE f \in free : TRUE
              IN  /\ Becomes([mm EXCEPT !.pt[va] = Entry(got, prot)])
                  /\ frames' = Zeroed(got)
  <2> DEFINE got == CHOOSE f \in free : TRUE
             new == [mm EXCEPT !.pt[va] = Entry(got, prot)]
  <2>1. got \in free /\ got \in Frames /\ got # 0
    BY <1>3, MachineFacts DEF VmInv, VmTypeOK
  <2>2. Becomes(new) /\ frames' = [frames EXCEPT ![got] = 0]
    BY <1>3 DEF Zeroed
  <2>3. Entry(got, prot).frame = got
    BY DEF Entry, WithBits
  <2>4. /\ new.vmas = mm.vmas
        /\ \A a \in Pages : new.pt[a].frame = IF a = va THEN got ELSE mm.pt[a].frame
    <3>1. new.pt = [mm.pt EXCEPT ![va] = Entry(got, prot)] /\ new.vmas = mm.vmas
      BY <1>1 DEF Mm
    <3> HIDE DEF prot, got, new
    <3> QED BY <1>1, <2>3, <3>1
  <2> HIDE DEF new, got
  <2>5. \A a \in Pages : mm.pt[a].frame # got
    BY <1>1, <2>1 DEF VmInv, Owned, FrameAt, mm
  <2>6. \A a \in Pages : Holds(new.pt, frames', a) = Holds(mm.pt, frames, a)
    <3>1. Holds(new.pt, frames', va) = 0 /\ Holds(mm.pt, frames, va) = 0
      BY <1>1, <1>3, <2>1, <2>2, <2>4 DEF Holds, Present
    <3>2. \A x : x # got => frames'[x] = frames[x]
      BY <1>1, <2>2
    <3>3. ASSUME NEW a \in Pages, a # va PROVE Holds(new.pt, frames', a) = Holds(mm.pt, frames, a)
      BY <2>4, <2>5, <3>2, <3>3 DEF Holds, Present
    <3> QED BY <3>1, <3>3
  <2>7. \A f \in All : f \notin free => frames'[f] = frames[f]
    BY <2>1, <2>2
  <2>8. OthersKept
    BY <1>1, <2>7, OwnFramesChange
  <2> QED BY <1>1, <2>2, <2>4, <2>6, <2>8, SameCall
<1> QED BY <1>2, <1>3 DEF Fault

LEMMA BrkInPageCall ==
  ASSUME VmInv, NEW b, BrkInPage(b)
  PROVE  [User!Next]_(User!memVars)
<1> DEFINE new == [mm EXCEPT !.brk = b]
<1>1. m # 0 /\ mm \in Mm /\ Becomes(new) /\ frames' = frames
  BY CurrentMm DEF BrkInPage, Uses
<1>2. new.vmas = mm.vmas /\ new.pt = mm.pt
  BY <1>1 DEF Mm
<1> HIDE DEF new
<1>3. OthersKept
  BY <1>1 DEF OthersKept
<1>4. \A a \in Pages : Holds(new.pt, frames', a) = Holds(mm.pt, frames, a)
  BY <1>1, <1>2
<1> QED BY <1>1, <1>2, <1>3, <1>4, SameCall

(* ---- unmapping ---- *)

\* What mm_unmap makes of the memory.
LEMMA UnmappingMemory ==
  ASSUME VmInv, m # 0, NEW mem, MmOK(mem), NEW s \in Nat, NEW e \in Nat, s <= e,
         Owned([mms EXCEPT ![m] = mem], free), Unmapping(mem, s, e)
  PROVE  /\ OthersKept
         /\ \E new : /\ Becomes(new)
                     /\ \A a \in Pages : MemoryIn(new.vmas, new.pt, frames')[a] =
                          IF a \in s..e - 1 THEN NoPage ELSE MemoryIn(mem.vmas, mem.pt, frames)[a]
<1> DEFINE ms == [mms EXCEPT ![m] = mem]
           D == s..e - 1
<1>0. PICK new : new = Without(mem, s, e)
  OBVIOUS
<1>1. /\ m \in Mms /\ mms \in [Mms -> Mm] /\ frames \in [Frames -> Vals \cup {Link}]
      /\ All \subseteq Frames /\ mem \in Mm /\ VmasOK(mem.vmas)
  BY CurrentMm, MachineFacts DEF VmInv, VmTypeOK, All, MmOK
<1>2. ms[m] = mem /\ \A j \in Mms \ {m} : ms[j] = mms[j]
  BY <1>1
<1>3. MmOK(new) /\ RangeClear(new.vmas, s, e)
  BY <1>0, WithoutMm
<1>4. \A a \in Pages : new.pt[a] = IF a \in s..e - 1 THEN NoPte ELSE mem.pt[a]
  BY <1>0, WithoutMm
<1>5. new.vmas = VmasWithout(mem.vmas, s, e)
  BY <1>0, <1>1 DEF Without, Mm
<1>6. Becomes(new) /\ frames' = [f \in Frames |-> IF f \in FramesOf(mem.pt, D) THEN Link ELSE frames[f]]
  BY <1>0 DEF Unmapping, Pfree
<1>7. Owned(ms, free)
  OBVIOUS
<1> HIDE DEF ms
<1>8. FramesOf(mem.pt, D) = {mem.pt[a].frame : a \in {x \in D \cap Pages : mem.pt[x].frame # 0}}
  BY DEF FramesOf, Present
<1> HIDE DEF D
<1>9. \A f \in All : f \notin free /\ (\A a \in Pages : FrameAt(ms, m, a) # f) => frames'[f] = frames[f]
  <2>1. \A a \in Pages : FrameAt(ms, m, a) = mem.pt[a].frame
    BY <1>2 DEF FrameAt
  <2> QED BY <1>1, <1>6, <1>8, <2>1
<1>10. OthersKept
  BY <1>2, <1>7, <1>9, OthersAre
<1>11. ASSUME NEW a \in Pages, a \in D
       PROVE  MemoryIn(new.vmas, new.pt, frames')[a] = NoPage
  <2>1. VmasOK(new.vmas)
    BY <1>3 DEF MmOK
  <2>2. \A p : ~Gives(new.vmas, a, p)
    BY <1>3, <1>11, <2>1, ClearGivesNone DEF D
  <2> QED BY <2>1, <2>2, PageGiven
<1>12. ASSUME NEW a \in Pages, a \notin D
       PROVE  MemoryIn(new.vmas, new.pt, frames')[a] = MemoryIn(mem.vmas, mem.pt, frames)[a]
  <2>1. VmasOK(new.vmas)
    BY <1>3 DEF MmOK
  <2>2. \A p : Gives(new.vmas, a, p) <=> Gives(mem.vmas, a, p)
    BY <1>1, <1>5, <1>12, WithoutGives DEF D
  <2>3. Holds(new.pt, frames', a) = Holds(mem.pt, frames, a)
    <3>1. new.pt[a] = mem.pt[a]
      BY <1>4, <1>12 DEF D
    <3>2. ASSUME mem.pt[a].frame # 0 PROVE frames'[mem.pt[a].frame] = frames[mem.pt[a].frame]
      <4>1. FrameAt(ms, m, a) = mem.pt[a].frame /\ \A b \in Pages : FrameAt(ms, m, b) = mem.pt[b].frame
        BY <1>2 DEF FrameAt
      <4>2. mem.pt[a].frame \in All /\ \A b \in Pages : mem.pt[b].frame = mem.pt[a].frame => b = a
        BY <1>1, <1>7, <3>2, <4>1 DEF Owned
      <4>3. mem.pt[a].frame \notin FramesOf(mem.pt, D)
        BY <1>8, <1>12, <4>2
      <4> QED BY <1>1, <1>6, <4>2, <4>3
    <3> QED BY <3>1, <3>2 DEF Holds, Present
  <2> QED BY <1>1, <2>1, <2>2, <2>3, PageSame
<1> QED BY <1>6, <1>10, <1>11, <1>12 DEF D

\* A call that only unmaps.
LEMMA UnmappingCall ==
  ASSUME VmInv, m # 0, NEW mem \in Mm, mem.vmas = mm.vmas, mem.pt = mm.pt,
         NEW s \in Nat, NEW e \in Nat, s <= e, Unmapping(mem, s, e)
  PROVE  [User!Next]_(User!memVars)
<1>1. m \in Mms /\ MmOK(mm) /\ mms \in [Mms -> Mm]
  BY CurrentMm DEF VmInv, VmTypeOK
<1>2. MmOK(mem)
  BY <1>1 DEF MmOK
<1>3. Owned([mms EXCEPT ![m] = mem], free)
  <2> DEFINE ms == [mms EXCEPT ![m] = mem]
             i == m
  <2>1. \A j \in Mms : ms[j] = IF j = i THEN mem ELSE mms[j]
    BY <1>1
  <2>2. mem.pt = mms[i].pt
    BY DEF mm
  <2> HIDE DEF ms, i
  <2>3. \A j \in Mms, a \in Pages : FrameAt(ms, j, a) = FrameAt(mms, j, a)
    BY <2>1, <2>2 DEF FrameAt
  <2>4. Owned(ms, free)
    BY <2>3, FramesSame DEF VmInv
  <2> QED BY <2>4 DEF ms
<1>4. OthersKept
  BY <1>2, <1>3, UnmappingMemory
<1>5. PICK new : /\ Becomes(new)
                 /\ \A a \in Pages : MemoryIn(new.vmas, new.pt, frames')[a] =
                      IF a \in s..e - 1 THEN NoPage ELSE MemoryIn(mem.vmas, mem.pt, frames)[a]
  BY <1>2, <1>3, UnmappingMemory
<1>6. PICK is : is = MemoryIn(new.vmas, new.pt, frames')
  OBVIOUS
<1>7. \A a \in Pages : is[a] = IF a \in s..e - 1 THEN NoPage ELSE Now[a]
  BY <1>5, <1>6 DEF Now
<1>8. Same(Now, is) \/ User!Call(Now, is)
  BY <1>7, CallRemoved
<1> QED BY <1>4, <1>5, <1>6, <1>8, OwnCall

LEMMA MunmapCall ==
  ASSUME VmInv, NEW addr \in machine.addrs, NEW len \in machine.lens, Munmap(addr, len)
  PROVE  [User!Next]_(User!memVars)
<1>1. m # 0 /\ mm \in Mm
  BY CurrentMm DEF Munmap, Uses
<1>2. addr \in Nat /\ addr + len \in Nat /\ addr <= addr + len
  BY ArgumentFacts DEF VmInv
<1>3. Unmapping(mm, addr, addr + len)
  BY ArgumentFacts DEF Munmap, VmInv
<1> QED BY <1>1, <1>2, <1>3, UnmappingCall

LEMMA MremapShrinkCall ==
  ASSUME VmInv, NEW old \in machine.addrs, NEW olen \in machine.lens, NEW nlen \in machine.lens,
         MremapShrink(old, olen, nlen)
  PROVE  [User!Next]_(User!memVars)
<1>1. m # 0 /\ mm \in Mm
  BY CurrentMm DEF MremapShrink, Uses
<1>2. old + nlen \in Nat /\ old + olen \in Nat /\ old + nlen <= old + olen
  BY ArgumentFacts DEF VmInv, MremapShrink
<1>3. Unmapping(mm, old + nlen, old + olen)
  BY DEF MremapShrink
<1> QED BY <1>1, <1>2, <1>3, UnmappingCall

LEMMA BrkShrinkCall ==
  ASSUME VmInv, NEW b \in machine.brks, BrkShrink(b)
  PROVE  [User!Next]_(User!memVars)
<1> DEFINE mem == [mm EXCEPT !.brk = b]
<1>1. m # 0 /\ mm \in Mm
  BY CurrentMm DEF BrkShrink, Uses
<1>2. b \in Nat /\ mm.brk \in Nat
  BY <1>1, MachineFacts DEF VmInv, Mm
<1>3. PageUp(b) \in Nat /\ PageUp(mm.brk) \in Nat /\ PageUp(b) <= PageUp(mm.brk)
  BY <1>2, PageUpNat DEF BrkShrink
<1>4. mem \in Mm /\ mem.vmas = mm.vmas /\ mem.pt = mm.pt
  BY <1>1, <1>2 DEF Mm
<1>5. Unmapping(mem, PageUp(b), PageUp(mm.brk))
  BY DEF BrkShrink
<1> HIDE DEF mem
<1> QED BY <1>1, <1>3, <1>4, <1>5, UnmappingCall

(* ---- mapping ---- *)

\* Every protection a page has is one a program asked for, or a segment's.
KnownProts == \A i \in Mms, a \in Pages : Memory[i][a] # NoPage => Memory[i][a].prot \in MapProts

LEMMA KnownFound ==
  ASSUME VmInv, KnownProts, m # 0, NEW a \in Pages, Mapped(mm.vmas, a)
  PROVE  FindVma(mm.vmas, a).prot \in MapProts
<1>1. m \in Mms /\ VmasOK(mm.vmas)
  BY CurrentMm DEF MmOK
<1>2. Memory[m] = Now
  BY <1>1, MemoriesAre DEF Now, mm
<1>3. PICK p : p = FindVma(mm.vmas, a).prot /\ Gives(mm.vmas, a, p)
  BY <1>1, MappedGives
<1>4. Now[a].prot = p /\ Now[a] # NoPage
  <2>1. Now[a] = [prot |-> p, val |-> Holds(mm.pt, frames, a)]
    BY <1>1, <1>3, PageGiven DEF Now
  <2>2. p # 8
    BY <1>1, <1>3, MappedGives
  <2> QED BY <2>1, <2>2 DEF NoPage
<1> QED BY <1>1, <1>2, <1>3, <1>4 DEF KnownProts

LEMMA AskedProts ==
  ASSUME VmInv PROVE machine.prots \subseteq MapProts /\ 3 \in MapProts
BY DEF MapProts, VmInv, VmTypeOK

\* A call that maps a range where nothing was, and puts nothing there.
LEMMA GrownCall ==
  ASSUME VmInv, m # 0, NEW new, Becomes(new), new.pt = mm.pt, VmasOK(new.vmas),
         NEW s \in Nat, NEW e \in Nat, RangeClear(mm.vmas, s, e), NEW prot \in MapProts,
         \A a \in Pages : \A p :
           Gives(new.vmas, a, p) <=> Gives(mm.vmas, a, p) \/ (a \in s..e - 1 /\ p = prot),
         frames' = frames
  PROVE  [User!Next]_(User!memVars)
<1>1. m \in Mms /\ MmOK(mm) /\ VmasOK(mm.vmas)
  BY CurrentMm DEF MmOK
<1>2. PICK is : is = MemoryIn(new.vmas, new.pt, frames')
  OBVIOUS
<1>3. ASSUME NEW a \in Pages, a \in s..e - 1 PROVE is[a] = [prot |-> prot, val |-> 0]
  <2>1. ~Present(mm.pt, a)
    BY <1>1, <1>3, ClearAbsent
  <2>2. Holds(new.pt, frames', a) = 0
    BY <2>1 DEF Holds
  <2>3. Gives(new.vmas, a, prot)
    BY <1>3
  <2> QED BY <1>2, <2>2, <2>3, PageGiven
<1>4. ASSUME NEW a \in Pages, a \notin s..e - 1 PROVE is[a] = Now[a]
  <2>1. \A p : Gives(new.vmas, a, p) <=> Gives(mm.vmas, a, p)
    BY <1>4
  <2>2. Holds(new.pt, frames', a) = Holds(mm.pt, frames, a)
    OBVIOUS
  <2> QED BY <1>1, <1>2, <2>1, <2>2, PageSame DEF Now
<1>5. \A a \in Pages : is[a] = IF a \in s..e - 1
                               THEN [prot |-> prot, val |-> IF a < s /\ Walkable(a) THEN 1 ELSE 0]
                               ELSE Now[a]
  <2> SUFFICES ASSUME NEW a \in Pages, a \in s..e - 1
               PROVE  is[a] = [prot |-> prot, val |-> IF a < s /\ Walkable(a) THEN 1 ELSE 0]
    BY <1>4
  <2>1. ~(a < s)
    BY PageNumbers
  <2> QED BY <1>3, <2>1
<1>6. Same(Now, is) \/ User!Call(Now, is)
  <2>1. s \in Int /\ e \in Int /\ RangeMapped(Now, is, prot, s, e, s)
    BY <1>5 DEF RangeMapped
  <2> QED BY <2>1, CallMapped
<1>7. OthersKept
  BY DEF OthersKept
<1> QED BY <1>2, <1>6, <1>7, OwnCall

LEMMA MremapGrowCall ==
  ASSUME VmInv, KnownProts, NEW old \in machine.addrs, NEW olen \in machine.lens,
         NEW nlen \in machine.lens, MremapGrow(old, olen, nlen)
  PROVE  [User!Next]_(User!memVars)
<1> DEFINE v == FindVma(mm.vmas, old)
           e == old + nlen
           new == [mm EXCEPT !.vmas = Extended(@, v, e)]
<1>1. m # 0 /\ mm \in Mm /\ VmasOK(mm.vmas)
  BY CurrentMm DEF MremapGrow, Uses, MmOK
<1>2. /\ v \in mm.vmas /\ v.end \in Nat /\ v.end = old + olen
      /\ old \in Nat /\ old \in Pages /\ olen \in Nat \ {0} /\ nlen \in Nat \ {0} /\ olen < nlen
      /\ e <= MaxPage /\ RangeClear(mm.vmas, old + olen, e)
  BY <1>1, RemappableFacts, ArgumentFacts DEF MremapGrow, MayGrow, VmInv
<1>3. e \in 1..MaxPage /\ e \in Nat /\ v.end < e /\ RangeClear(mm.vmas, v.end, e)
  BY <1>2, Constants
<1>4. Becomes(new) /\ frames' = frames
  <2>1. End(old, nlen) = old + nlen
    BY ArgumentFacts DEF VmInv
  <2> QED BY <2>1 DEF MremapGrow
<1>5. v.prot \in MapProts
  BY <1>1, <1>2, KnownFound DEF MremapGrow, Remappable
<1> HIDE DEF v, e
<1>6. /\ VmasOK(Extended(mm.vmas, v, e))
      /\ \A a \in Pages : \A p :
           Gives(Extended(mm.vmas, v, e), a, p)
             <=> Gives(mm.vmas, a, p) \/ (a \in v.end..e - 1 /\ p = v.prot)
  BY <1>1, <1>2, <1>3, ExtendedOK
<1>7. new.pt = mm.pt /\ new.vmas = Extended(mm.vmas, v, e)
  BY <1>1 DEF Mm
<1> HIDE DEF new
<1>8. PICK s, prot : s = v.end /\ prot = v.prot
  OBVIOUS
<1>9. /\ VmasOK(new.vmas) /\ prot \in MapProts /\ s \in Nat /\ RangeClear(mm.vmas, s, e)
      /\ \A a \in Pages : \A p :
           Gives(new.vmas, a, p) <=> Gives(mm.vmas, a, p) \/ (a \in s..e - 1 /\ p = prot)
  BY <1>2, <1>3, <1>5, <1>6, <1>7, <1>8
<1> QED BY <1>1, <1>3, <1>4, <1>7, <1>9, GrownCall

LEMMA BrkGrowCall ==
  ASSUME VmInv, NEW b \in machine.brks, BrkGrow(b)
  PROVE  [User!Next]_(User!memVars)
<1> DEFINE s == PageUp(mm.brk)
           e == PageUp(b)
           new == [mm EXCEPT !.brk = b, !.vmas = VmasWith(@, s, e, 3)]
<1>1. m # 0 /\ mm \in Mm /\ VmasOK(mm.vmas) /\ b \in Nat /\ mm.brk \in Nat
  BY CurrentMm, MachineFacts DEF BrkGrow, Uses, VmInv, MmOK, Mm
<1>2. /\ s \in Nat /\ e \in Nat /\ s < e /\ e <= HighPage /\ RangeClear(mm.vmas, s, e)
  BY <1>1, PageUpNat DEF BrkGrow, RangeFree, UserRange
<1>3. Becomes(new) /\ frames' = frames
  BY DEF BrkGrow
<1> HIDE DEF s, e
<1>4. s \in Pages /\ e \in 1..MaxPage
  BY <1>2, Constants DEF Pages
<1>5. VmasOK(VmasWith(mm.vmas, s, e, 3))
  BY <1>1, <1>2, <1>4, WithOK
<1>6. \A a \in Pages : \A p :
        Gives(VmasWith(mm.vmas, s, e, 3), a, p) <=> Gives(mm.vmas, a, p) \/ (a \in s..e - 1 /\ p = 3)
  BY <1>1, <1>2, <1>4, WithOK
<1>7. new.pt = mm.pt /\ new.vmas = VmasWith(mm.vmas, s, e, 3)
  BY <1>1 DEF Mm
<1> HIDE DEF new
<1>8. VmasOK(new.vmas) /\ \A a \in Pages : \A p :
        Gives(new.vmas, a, p) <=> Gives(mm.vmas, a, p) \/ (a \in s..e - 1 /\ p = 3)
  BY <1>5, <1>6, <1>7
<1>9. PICK prot \in MapProts : prot = 3
  BY AskedProts
<1>10. \A a \in Pages : \A p :
        Gives(new.vmas, a, p) <=> Gives(mm.vmas, a, p) \/ (a \in s..e - 1 /\ p = prot)
  BY <1>8, <1>9
<1> QED BY <1>1, <1>2, <1>3, <1>7, <1>8, <1>10, GrownCall

\* sys_mmap, into what `over` has outside the range.
LEMMA MapAtCall ==
  ASSUME VmInv, m # 0, NEW over, MmOK(over), over.refs = mm.refs, NEW top \in 0..MaxPage,
         NEW va \in Nat, NEW len \in Nat \ {0}, va + len <= MaxPage,
         NEW prot \in 0..7, prot \in MapProts, NEW flen \in Nat, FileOr(prot, flen),
         RangeClear(over.vmas, va, va + len),
         \A a \in Pages : over.pt[a].frame = IF a \in va..va + len - 1 THEN 0 ELSE mm.pt[a].frame,
         \A a \in Pages : a \notin va..va + len - 1 =>
           over.pt[a] = mm.pt[a] /\ \A p : Gives(over.vmas, a, p) <=> Gives(mm.vmas, a, p),
         MapAt(over, top, va, len, prot, flen)
  PROVE  [User!Next]_(User!memVars)
<1>1. PICK new, room, filled, got : MapsAt(over, va, len, prot, flen, new, room, filled, got)
  BY MapAtNew
<1> DEFINE D == va..va + len - 1
           ms == [mms EXCEPT ![m] = over]
           fs == [f \in Frames |-> IF f \in room THEN Link ELSE frames[f]]
<1>2. /\ m \in Mms /\ mms \in [Mms -> Mm] /\ MmOK(mm) /\ VmasOK(mm.vmas) /\ VmasOK(over.vmas)
      /\ All \subseteq Frames /\ 0 \notin Frames
  BY CurrentMm, MachineFacts DEF MmOK, VmInv, VmTypeOK, All
<1>3. /\ filled = {x \in va..va + Min({len, flen}) - 1 : Walkable(x)} /\ filled \subseteq D
      /\ got \in [filled -> room] /\ room \subseteq Frames
      /\ Becomes(new) /\ VmasOK(new.vmas)
      /\ \A a \in Pages : \A p : Gives(new.vmas, a, p) <=> Gives(over.vmas, a, p) \/ (a \in D /\ p = prot)
      /\ \A a \in filled : new.pt[a].frame = got[a]
      /\ \A a \in Pages \ filled : new.pt[a] = over.pt[a]
      /\ Owned(ms, room) /\ frames' = Holding(fs, got)
  BY <1>1 DEF MapsAt
<1>16. got \in [filled -> room] /\ room \subseteq Frames
  BY <1>1 DEF MapsAt
<1>4. ms[m] = over /\ \A j \in Mms \ {m} : ms[j] = mms[j]
  BY <1>2
<1> HIDE DEF ms
<1>5. \A f \in Frames : /\ f \in Taken(got) => frames'[f] = 1
                        /\ f \notin room => frames'[f] = frames[f]
  <2>1. Taken(got) \subseteq room
    BY <1>16 DEF Taken, Range
  <2> QED BY <1>3, <2>1 DEF Holding
<1>6. \A a \in filled : got[a] \in Taken(got) /\ got[a] \in Frames /\ got[a] # 0
  BY <1>2, <1>16 DEF Taken, Range
<1>7. ASSUME NEW j \in Mms, NEW a \in Pages, FrameAt(ms, j, a) # 0
      PROVE  frames'[FrameAt(ms, j, a)] = frames[FrameAt(ms, j, a)]
  <2>1. FrameAt(ms, j, a) \in All /\ FrameAt(ms, j, a) \notin room
    BY <1>3, <1>7 DEF Owned
  <2> QED BY <1>2, <1>5, <2>1
<1>8. OthersKept
  BY <1>4, <1>7 DEF OthersKept, FrameAt
<1>9. PICK is, k : is = MemoryIn(new.vmas, new.pt, frames') /\ k = va + Min({len, flen})
  OBVIOUS
<1>10. k \in Int /\ \A a \in Pages : a \in D => (a \in filled <=> a < k /\ Walkable(a))
  <2>1. Min({len, flen}) \in Nat
    BY MinOfTwo
  <2>2. PICK n \in Nat : n = Min({len, flen})
    BY <2>1
  <2>3. k = va + n /\ filled = {x \in va..va + n - 1 : Walkable(x)}
    BY <1>3, <1>9, <2>2
  <2> QED BY <2>3, PageNumbers
<1>11. ASSUME NEW a \in Pages, a \in D
       PROVE  is[a] = [prot |-> prot, val |-> IF a < k /\ Walkable(a) THEN 1 ELSE 0]
  <2>1. is[a] = [prot |-> prot, val |-> Holds(new.pt, frames', a)]
    BY <1>3, <1>9, <1>11, PageGiven
  <2>2. a \in filled => Holds(new.pt, frames', a) = 1
    <3>1. a \in filled => new.pt[a].frame = got[a]
      BY <1>3
    <3>2. a \in filled => frames'[got[a]] = 1 /\ got[a] # 0
      BY <1>5, <1>6
    <3> QED BY <3>1, <3>2 DEF Holds, Present
  <2>3. a \notin filled => Holds(new.pt, frames', a) = 0
    BY <1>3, <1>11 DEF Holds, Present
  <2> QED BY <1>10, <1>11, <2>1, <2>2, <2>3
<1>12. ASSUME NEW a \in Pages, a \notin D PROVE is[a] = Now[a]
  <2>1. \A p : Gives(new.vmas, a, p) <=> Gives(mm.vmas, a, p)
    BY <1>3, <1>12
  <2>2. new.pt[a] = mm.pt[a] /\ FrameAt(ms, m, a) = mm.pt[a].frame
    BY <1>3, <1>4, <1>12 DEF FrameAt
  <2>3. mm.pt[a].frame # 0 => frames'[mm.pt[a].frame] = frames[mm.pt[a].frame]
    BY <1>2, <1>7, <2>2
  <2>4. Holds(new.pt, frames', a) = Holds(mm.pt, frames, a)
    BY <2>2, <2>3 DEF Holds, Present
  <2> QED BY <1>2, <1>3, <1>9, <2>1, <2>4, PageSame DEF Now
<1>13. PICK e : e = va + len
  OBVIOUS
<1>14. /\ e \in Int /\ va \in Int
       /\ \A a \in Pages : is[a] = IF a \in va..e - 1
                                   THEN [prot |-> prot, val |-> IF a < k /\ Walkable(a) THEN 1 ELSE 0]
                                   ELSE Now[a]
  BY <1>11, <1>12, <1>13
<1>15. Same(Now, is) \/ User!Call(Now, is)
  <2>1. RangeMapped(Now, is, prot, va, e, k)
    BY <1>14 DEF RangeMapped
  <2> QED BY <1>10, <1>14, <2>1, CallMapped
<1> QED BY <1>3, <1>8, <1>9, <1>15, OwnCall

LEMMA MmapFixedCall ==
  ASSUME VmInv, NEW addr \in machine.addrs, NEW len \in machine.lens,
         NEW prot \in machine.prots, NEW flen \in machine.files, MmapFixed(addr, len, prot, flen)
  PROVE  [User!Next]_(User!memVars)
<1>0. PICK over, e : over = Without(mm, addr, e) /\ e = addr + len /\ e = End(addr, len)
  BY ArgumentFacts DEF VmInv
<1>1. m # 0 /\ mm \in Mm /\ MmOK(mm) /\ mm.top \in 0..MaxPage
  BY CurrentMm DEF MmapFixed, Uses, Mm
<1>2. /\ addr \in Nat /\ len \in Nat \ {0} /\ prot \in 0..7 /\ flen \in Nat /\ prot \in MapProts
      /\ addr + len <= MaxPage /\ addr + len \in Nat /\ addr <= addr + len
  BY ArgumentFacts, MappingFacts, AskedProts DEF VmInv
<1>3. over = Without(mm, addr, e) /\ addr \in Nat /\ e \in Nat /\ addr <= e
  BY <1>0, <1>2
<1>4. MmOK(over) /\ over.refs = mm.refs /\ RangeClear(over.vmas, addr, e)
  BY <1>1, <1>3, WithoutMm
<1>5. \A a \in Pages : over.pt[a] = IF a \in addr..e - 1 THEN NoPte ELSE mm.pt[a]
  <2>1. MmOK(mm) /\ addr \in Nat /\ e \in Nat /\ addr <= e
    BY <1>1, <1>3
  <2>2. \A a \in Pages : Without(mm, addr, e).pt[a] = IF a \in addr..e - 1 THEN NoPte ELSE mm.pt[a]
    BY <2>1, WithoutMm
  <2> QED BY <1>3, <2>2, Zenon
<1>6. over.vmas = VmasWithout(mm.vmas, addr, e)
  BY <1>1, <1>3 DEF Without, Mm
<1>7. ASSUME NEW a \in Pages, a \notin addr..e - 1
      PROVE  over.pt[a] = mm.pt[a] /\ \A p : Gives(over.vmas, a, p) <=> Gives(mm.vmas, a, p)
  BY <1>1, <1>3, <1>5, <1>6, <1>7, WithoutGives DEF MmOK
<1>8. MapAt(over, mm.top, addr, len, prot, flen) /\ FileOr(prot, flen)
  BY <1>0 DEF MmapFixed
<1>9. \A a \in Pages : over.pt[a].frame = IF a \in addr..addr + len - 1 THEN 0 ELSE mm.pt[a].frame
  BY <1>0, <1>2, <1>5, NoPteFacts
<1>10. RangeClear(over.vmas, addr, addr + len)
  BY <1>0, <1>4
<1>11. \A a \in Pages : a \notin addr..addr + len - 1 =>
         over.pt[a] = mm.pt[a] /\ \A p : Gives(over.vmas, a, p) <=> Gives(mm.vmas, a, p)
  <2>1. \A a \in Pages : a \notin addr..addr + len - 1 => a \notin addr..e - 1
    <3>1. e = addr + len /\ addr \in Nat /\ len \in Nat
      BY <1>0, <1>2
    <3> QED BY <3>1
  <2> QED BY <1>7, <2>1, Zenon
<1> QED BY <1>1, <1>2, <1>4, <1>8, <1>9, <1>10, <1>11, MapAtCall

\* sys_mmap where nothing is mapped.
LEMMA MapClearCall ==
  ASSUME VmInv, m # 0, NEW top \in 0..MaxPage, NEW va \in Nat,
         NEW len \in Nat \ {0}, va + len <= MaxPage, NEW prot \in 0..7, prot \in MapProts,
         NEW flen \in Nat, FileOr(prot, flen), RangeClear(mm.vmas, va, va + len),
         MapAt(mm, top, va, len, prot, flen)
  PROVE  [User!Next]_(User!memVars)
<1>1. mm \in Mm /\ MmOK(mm)
  BY CurrentMm
<1>2. \A a \in Pages : mm.pt[a].frame = IF a \in va..va + len - 1 THEN 0 ELSE mm.pt[a].frame
  <2> DEFINE e == va + len
  <2>1. e \in Nat
    OBVIOUS
  <2> HIDE DEF e
  <2>2. RangeClear(mm.vmas, va, e)
    BY DEF e
  <2>3. \A a \in Pages : a \in va..e - 1 => mm.pt[a].frame = 0
    BY <1>1, <2>1, <2>2, ClearAbsent
  <2> QED BY <2>3 DEF e
<1> QED BY <1>1, <1>2, MapAtCall

LEMMA MmapHintCall ==
  ASSUME VmInv, NEW addr \in machine.addrs, NEW len \in machine.lens,
         NEW prot \in machine.prots, NEW flen \in machine.files, MmapHint(addr, len, prot, flen)
  PROVE  [User!Next]_(User!memVars)
<1>1. m # 0 /\ mm \in Mm /\ mm.top \in 0..MaxPage
  BY CurrentMm DEF MmapHint, Uses, Mm
<1>2. /\ addr \in Nat /\ len \in Nat \ {0} /\ prot \in 0..7 /\ flen \in Nat /\ prot \in MapProts
      /\ addr + len <= MaxPage /\ RangeClear(mm.vmas, addr, addr + len)
  BY ArgumentFacts, MappingFacts, AskedProts, Constants DEF VmInv, MmapHint, RangeFree, UserRange
<1> QED BY <1>1, <1>2, MapClearCall DEF MmapHint

LEMMA MmapTopDownCall ==
  ASSUME VmInv, NEW len \in machine.lens,
         NEW prot \in machine.prots, NEW flen \in machine.files, MmapTopDown(len, prot, flen)
  PROVE  [User!Next]_(User!memVars)
<1>1. m # 0 /\ mm \in Mm /\ mm.top \in 0..MaxPage
  BY CurrentMm DEF MmapTopDown, Uses, Mm
<1>2. len \in Nat \ {0} /\ prot \in 0..7 /\ flen \in Nat /\ prot \in MapProts
  BY MappingFacts, AskedProts DEF VmInv
<1>3. PICK va \in TopAlloc(mm.top, mm.vmas, len) : MapAt(mm, va, va, len, prot, flen)
  BY DEF MmapTopDown
<1>4. /\ va \in Nat /\ va \in 0..MaxPage /\ va + len <= MaxPage
      /\ RangeClear(mm.vmas, va, va + len)
  BY <1>1, <1>2, TopFacts
<1> QED BY <1>1, <1>2, <1>3, <1>4, MapClearCall DEF MmapTopDown

(* ---- protecting and moving ---- *)

LEMMA NowIs ==
  ASSUME VmInv, m # 0, NEW a \in Pages
  PROVE  /\ Now[a] # NoPage <=> Mapped(mm.vmas, a)
         /\ Now[a] # NoPage => Now[a] = [prot |-> Now[a].prot, val |-> Now[a].val]
<1>1. VmasOK(mm.vmas)
  BY CurrentMm DEF MmOK
<1>2. PICK page : page = Now[a]
  OBVIOUS
<1>3. /\ page # NoPage <=> Mapped(mm.vmas, a)
      /\ page # NoPage => page = [prot |-> page.prot, val |-> page.val]
  BY <1>1, <1>2, PageIs DEF Now
<1> QED BY <1>2, <1>3

LEMMA MprotectCall ==
  ASSUME VmInv, NEW addr \in machine.addrs, NEW len \in machine.lens,
         NEW prot \in machine.prots, Mprotect(addr, len, prot)
  PROVE  [User!Next]_(User!memVars)
<1> DEFINE vs == VmasProtected(mm.vmas, addr, addr + len, prot)
           pt == [a \in Pages |-> IF a \in addr..(addr + len) - 1 /\ Present(mm.pt, a)
                                  THEN WithBits(mm.pt[a], prot) ELSE mm.pt[a]]
           new == [mm EXCEPT !.vmas = vs, !.pt = pt]
<1>1. m # 0 /\ mm \in Mm /\ VmasOK(mm.vmas)
  BY CurrentMm DEF Mprotect, Uses, MmOK
<1>2. /\ addr \in Nat /\ len \in Nat /\ addr + len \in Nat /\ addr <= addr + len
      /\ prot \in 0..7 /\ prot \in MapProts
  BY ArgumentFacts, MachineFacts, AskedProts DEF VmInv
<1>3. Becomes(new) /\ frames' = frames
  <2>1. ProtectsTo(addr, addr + len, prot)
    BY MprotectIs
  <2> QED BY <2>1 DEF ProtectsTo
<1>4. \A a \in Pages : pt[a].frame = mm.pt[a].frame
  BY DEF WithBits
<1> HIDE DEF pt
<1>5. PICK e : e = addr + len
  OBVIOUS
<1>6. e \in Nat /\ addr <= e /\ vs = VmasProtected(mm.vmas, addr, e, prot)
  <2>1. e \in Nat /\ addr <= e
    BY <1>2, <1>5
  <2>2. vs = VmasProtected(mm.vmas, addr, e, prot)
    BY <1>5
  <2> HIDE DEF vs
  <2> QED BY <2>1, <2>2
<1> HIDE DEF vs
<1>7. VmasOK(vs)
  BY <1>1, <1>2, <1>6, ProtectedOK
<1>8. \A a \in Pages : \A p :
        Gives(vs, a, p) <=> IF a \in addr..e - 1 THEN p = prot /\ Mapped(mm.vmas, a) ELSE Gives(mm.vmas, a, p)
  BY <1>1, <1>2, <1>6, ProtectedOK
<1>9. new.vmas = vs /\ new.pt = pt
  BY <1>1 DEF Mm
<1> HIDE DEF new
<1>10. PICK is : is = MemoryIn(new.vmas, new.pt, frames')
  OBVIOUS
<1>11. is = MemoryIn(vs, pt, frames)
  BY <1>3, <1>9, <1>10
<1>12. \A a \in Pages : Holds(pt, frames, a) = Holds(mm.pt, frames, a)
  BY <1>4 DEF Holds, Present
<1>13. ASSUME NEW a \in Pages, a \in addr..e - 1, Now[a] # NoPage
       PROVE  is[a] = [prot |-> prot, val |-> Now[a].val]
  <2>1. Mapped(mm.vmas, a)
    BY <1>1, <1>13, NowIs
  <2>2. PICK p : Gives(mm.vmas, a, p)
    BY <2>1, GivesMapped
  <2>3. Now[a] = [prot |-> p, val |-> Holds(mm.pt, frames, a)]
    BY <1>1, <2>2, PageGiven DEF Now
  <2>4. Gives(vs, a, prot)
    BY <1>8, <1>13, <2>1
  <2>5. is[a] = [prot |-> prot, val |-> Holds(pt, frames, a)]
    BY <1>7, <1>11, <2>4, PageGiven
  <2> QED BY <1>12, <2>3, <2>5
<1>14. ASSUME NEW a \in Pages, ~(a \in addr..e - 1 /\ Now[a] # NoPage)
       PROVE  is[a] = Now[a]
  <2>1. \A p : Gives(vs, a, p) <=> Gives(mm.vmas, a, p)
    <3>1. CASE a \in addr..e - 1
      <4>1. ~Mapped(mm.vmas, a)
        BY <1>1, <1>14, <3>1, NowIs
      <4> QED BY <1>8, <3>1, <4>1, GivesMapped
    <3>2. CASE a \notin addr..e - 1
      BY <1>8, <3>2
    <3> QED BY <3>1, <3>2
  <2> QED BY <1>1, <1>7, <1>11, <1>12, <2>1, PageSame DEF Now
<1>15. \A a \in Pages : Now[a] # NoPage => Now[a] = [prot |-> Now[a].prot, val |-> Now[a].val]
  BY <1>1, NowIs
<1>16. /\ addr \in Int /\ e \in Int
       /\ \A a \in Pages : is[a] = IF a \in addr..e - 1 /\ Now[a] # NoPage
                                   THEN [prot |-> prot, val |-> Now[a].val] ELSE Now[a]
  BY <1>2, <1>6, <1>13, <1>14
<1>17. Same(Now, is) \/ User!Call(Now, is)
  <2>1. RangeProtected(Now, is, prot, addr, e)
    BY <1>15, <1>16 DEF RangeProtected
  <2> QED BY <1>2, <1>16, <2>1, CallProtected
<1>18. OthersKept
  BY <1>3 DEF OthersKept
<1> QED BY <1>1, <1>3, <1>10, <1>17, <1>18, OwnCall

\* A range of a VMA of r and a place where nothing is, as long or longer.
Movable(r, v, old, olen, va, e) ==
  /\ MmOK(r) /\ v \in r.vmas /\ old \in Nat /\ olen \in Nat \ {0}
  /\ v.start <= old /\ old + olen <= v.end
  /\ va \in Nat /\ e \in Nat /\ va + olen <= e /\ e <= MaxPage /\ RangeClear(r.vmas, va, e)

\* What mremap makes of the memory.
LEMMA MovedMemory ==
  ASSUME NEW r, NEW v, NEW old, NEW olen, NEW va, NEW e, Movable(r, v, old, olen, va, e), NEW fs,
         NEW was, was = MemoryIn(r.vmas, r.pt, fs), NEW mem, mem = MovedTo(r, v, old, olen, va, e),
         NEW mid, mid = MemoryIn(mem.vmas, mem.pt, fs),
         NEW is, \A a \in Pages : is[a] = IF a \in old..old + olen - 1 THEN NoPage ELSE mid[a]
  PROVE  v.prot \in 0..7 /\ v.prot = was[old].prot /\ RangeMoved(was, is, old, olen, va, e, v.prot)
<1> DEFINE vs == VmasWith(r.vmas, va, e, v.prot)
           pt == Moved(r.pt, old, olen, va)
           N == va..va + olen - 1
           O == old..old + olen - 1
<1>0. /\ MmOK(r) /\ v \in r.vmas /\ old \in Nat /\ olen \in Nat \ {0}
      /\ v.start <= old /\ old + olen <= v.end
      /\ va \in Nat /\ e \in Nat /\ va + olen <= e /\ e <= MaxPage /\ RangeClear(r.vmas, va, e)
  BY DEF Movable
<1> USE <1>0
<1>1. /\ r \in Mm /\ r.pt \in [Pages -> Pte] /\ VmasOK(r.vmas)
  BY DEF MmOK, Mm
<1>2. /\ v.start \in Nat /\ v.end \in Nat /\ v.end <= MaxPage /\ v.prot \in 0..7
  <2>1. v \in Vma
    BY <1>1 DEF VmasOK
  <2> QED BY <2>1, Constants DEF Vma, Pages
<1>3. old + olen <= MaxPage /\ va + olen <= MaxPage
  BY <1>2, Constants
<1>4. va \in Pages /\ e \in 1..MaxPage /\ va < e /\ old \in Pages /\ old \in O
  BY <1>3, Constants DEF Pages
<1>6. VmasOK(vs)
  BY <1>1, <1>2, <1>4, WithOK
<1>7. \A a \in Pages : \A p : Gives(vs, a, p) <=> Gives(r.vmas, a, p) \/ (a \in va..e - 1 /\ p = v.prot)
  BY <1>1, <1>2, <1>4, WithOK
<1>9. \A a \in Pages : a \in N => old + a - va \in Pages /\ old + a - va \in O
  BY <1>1, <1>3, MovedFacts
<1>10. \A a \in Pages : pt[a] = IF a \in N THEN r.pt[old + a - va] ELSE IF a \in O THEN NoPte ELSE r.pt[a]
  BY <1>1, <1>3, MovedFacts
<1>11. \A a \in Pages : (a \in N => a \in va..e - 1) /\ (a \in O => Inside(v, a))
  BY <1>2, Constants DEF Inside, Pages
<1> HIDE DEF vs, pt, N, O
<1>12. mid = MemoryIn(vs, pt, fs)
  <2>1. mem.vmas = vs /\ mem.pt = pt
    BY <1>1 DEF MovedTo, vs, pt, Mm
  <2> QED BY <2>1
<1>13. ASSUME NEW a \in Pages, a \in O
       PROVE  was[a] = [prot |-> v.prot, val |-> Holds(r.pt, fs, a)]
  <2>1. Gives(r.vmas, a, v.prot)
    BY <1>11, <1>13 DEF Gives
  <2> QED BY <1>1, <2>1, PageGiven
<1>14. ASSUME NEW a \in Pages, a \in va..e - 1
       PROVE  was[a] = NoPage /\ ~Present(r.pt, a)
  <2>1. \A p : ~Gives(r.vmas, a, p)
    BY <1>1, <1>14, ClearGivesNone
  <2>2. ~Present(r.pt, a)
    BY <1>14, ClearAbsent
  <2> QED BY <1>1, <2>1, <2>2, PageGiven
<1>15. ASSUME NEW a \in Pages, a \notin O, a \in va..e - 1
       PROVE  mid[a] = [prot |-> v.prot, val |-> IF a \in N THEN was[old + a - va].val ELSE 0]
  <2>1. Gives(vs, a, v.prot)
    BY <1>7, <1>15
  <2>2. mid[a] = [prot |-> v.prot, val |-> Holds(pt, fs, a)]
    BY <1>6, <1>12, <2>1, PageGiven
  <2>3. CASE a \in N
    <3>1. PICK b : b = old + a - va
      OBVIOUS
    <3>2. b \in Pages /\ b \in O /\ pt[a] = r.pt[b]
      BY <1>9, <1>10, <2>3, <3>1
    <3>5. was[b] = [prot |-> v.prot, val |-> Holds(r.pt, fs, b)]
      BY <1>13, <3>2
    <3>3. was[b].val = Holds(r.pt, fs, b)
      BY <3>5
    <3>4. Holds(pt, fs, a) = Holds(r.pt, fs, b)
      BY <3>2 DEF Holds, Present
    <3> QED BY <2>2, <2>3, <3>1, <3>3, <3>4
  <2>4. CASE a \notin N
    <3>1. pt[a] = r.pt[a]
      BY <1>10, <1>15, <2>4
    <3>2. Holds(pt, fs, a) = 0
      BY <1>14, <1>15, <3>1 DEF Holds, Present
    <3> QED BY <2>2, <2>4, <3>2
  <2> QED BY <2>3, <2>4
<1>16. ASSUME NEW a \in Pages, a \notin O, a \notin va..e - 1
       PROVE  mid[a] = was[a]
  <2>1. \A p : Gives(vs, a, p) <=> Gives(r.vmas, a, p)
    BY <1>7, <1>16
  <2>2. pt[a] = r.pt[a]
    BY <1>10, <1>11, <1>16
  <2>3. Holds(pt, fs, a) = Holds(r.pt, fs, a)
    BY <2>2 DEF Holds, Present
  <2> QED BY <1>1, <1>6, <1>12, <2>1, <2>3, PageSame
<1>17. v.prot = was[old].prot
  <2>1. was[old] = [prot |-> v.prot, val |-> Holds(r.pt, fs, old)]
    BY <1>4, <1>13
  <2> QED BY <2>1
<1>18. \A a \in Pages : a \in O => was[a] # NoPage
  <2> SUFFICES ASSUME NEW a \in Pages, a \in O PROVE was[a] # NoPage
    OBVIOUS
  <2>2. was[a] = [prot |-> v.prot, val |-> Holds(r.pt, fs, a)]
    BY <1>13
  <2>1. was[a].prot = v.prot
    BY <2>2
  <2> QED BY <1>2, <2>1 DEF NoPage
<1>19. \A a \in Pages : is[a] = IF a \in O THEN NoPage ELSE mid[a]
  BY DEF O
<1>20. RangeMoved(was, is, old, olen, va, e, v.prot)
  <2>1. \A a \in Pages : a \in O => is[a] = NoPage
    BY <1>19
  <2>2. \A a \in Pages : a \notin O =>
          is[a] = IF a \in va..e - 1
                  THEN [prot |-> v.prot, val |-> IF a \in N THEN was[old + a - va].val ELSE 0]
                  ELSE was[a]
    BY <1>15, <1>16, <1>19
  <2> QED BY <1>14, <1>18, <2>1, <2>2 DEF N, O, RangeMoved
<1> QED BY <1>2, <1>17, <1>20

\* The struct mm before mremap unmaps, and the frames of its table.
LEMMA MovedOwned ==
  ASSUME VmInv, m # 0, NEW v, NEW old, NEW olen, NEW va, NEW e, Movable(mm, v, old, olen, va, e),
         NEW mem, mem = MovedTo(mm, v, old, olen, va, e)
  PROVE  MmOK(mem) /\ mem.refs = mm.refs /\ Owned([mms EXCEPT ![m] = mem], free)
<1>0. /\ MmOK(mm) /\ v \in mm.vmas /\ old \in Nat /\ olen \in Nat \ {0}
      /\ v.start <= old /\ old + olen <= v.end
      /\ va \in Nat /\ e \in Nat /\ va + olen <= e /\ e <= MaxPage /\ RangeClear(mm.vmas, va, e)
  BY DEF Movable
<1> USE <1>0
<1> DEFINE ns == [mms EXCEPT ![m] = mem]
           i == m
<1>1. i \in Mms /\ mms \in [Mms -> Mm] /\ mms[i] = mm /\ MmOK(mm) /\ mm.pt \in [Pages -> Pte]
  BY CurrentMm DEF VmInv, VmTypeOK, mm, Mm
<1>2. MmOK(mem) /\ mem.refs = mm.refs
  BY MovedMm
<1>3. mem.pt = Moved(mm.pt, old, olen, va) /\ (old + olen <= va \/ va + olen <= old)
  BY MovedMm
<1>4. v.end \in Nat /\ v.end <= MaxPage
  <2>1. v \in Vma
    BY <1>1 DEF MmOK, VmasOK
  <2> QED BY <2>1, Constants DEF Vma
<1>5. old + olen <= MaxPage /\ va + olen <= MaxPage
  BY <1>4, Constants
<1>6. \A j \in Mms : ns[j] = IF j = i THEN mem ELSE mms[j]
  BY <1>1
<1> HIDE DEF ns, i
<1>7. \A a \in Pages : mem.pt[a] =
        IF a \in va..va + olen - 1 THEN mm.pt[old + a - va]
        ELSE IF a \in old..old + olen - 1 THEN NoPte ELSE mm.pt[a]
  BY <1>1, <1>3, <1>5, MovedFacts
<1>8. \A j \in Mms, a \in Pages :
        FrameAt(ns, j, a) =
          IF j = i /\ a \in va..va + olen - 1 THEN FrameAt(mms, i, old + a - va)
          ELSE IF j = i /\ a \in old..old + olen - 1 THEN 0 ELSE FrameAt(mms, j, a)
  BY <1>1, <1>6, <1>7, NoPteFacts DEF FrameAt
<1>9. \A a \in va..va + olen - 1 : FrameAt(mms, i, a) = 0
  <2>1. \A a \in Pages : a \in va..e - 1 => mm.pt[a].frame = 0
    BY <1>1, ClearAbsent
  <2>2. \A a \in va..va + olen - 1 : a \in Pages /\ a \in va..e - 1
    BY Constants DEF Pages
  <2> QED BY <1>1, <2>1, <2>2 DEF FrameAt
<1>10. IsMoved(mms, ns, i, old, va, olen)
  BY <1>8, <1>9 DEF IsMoved
<1>11. Owned(ns, free)
  <2>1. Owned(mms, free) /\ olen \in Nat
    BY DEF VmInv
  <2> QED BY <1>1, <1>3, <1>5, <1>10, <2>1, FramesMoved
<1> QED BY <1>2, <1>11 DEF ns, i

LEMMA MremapMoveCall ==
  ASSUME VmInv, NEW old \in machine.addrs, NEW olen \in machine.lens,
         NEW nlen \in machine.lens, MremapMove(old, olen, nlen)
  PROVE  [User!Next]_(User!memVars)
<1> DEFINE v == FindVma(mm.vmas, old)
<1>1. m # 0 /\ mm \in Mm /\ MmOK(mm) /\ mm.top \in 0..MaxPage /\ mm.pt \in [Pages -> Pte]
  BY CurrentMm DEF MremapMove, Uses, Mm
<1>2. /\ v \in mm.vmas /\ v.start <= old /\ old + olen <= v.end
      /\ old \in Nat /\ olen \in Nat \ {0} /\ nlen \in Nat \ {0} /\ olen < nlen
      /\ v.end \in Nat /\ v.end <= MaxPage
  BY <1>1, RemappableFacts, MachineFacts DEF MremapMove, VmInv, Inside
<1>3. PICK va \in TopAlloc(mm.top, mm.vmas, nlen) :
        Unmapping([mm EXCEPT !.vmas = VmasWith(@, va, va + nlen, v.prot),
                             !.pt = Moved(@, old, olen, va), !.top = va], old, old + olen)
  BY DEF MremapMove
<1>4. va \in Pages /\ va \in Nat /\ va + nlen <= MaxPage /\ RangeClear(mm.vmas, va, va + nlen)
  BY <1>1, <1>2, TopFacts
<1> HIDE DEF v
<1>5. PICK e, o, mem : /\ e = va + nlen /\ o = old + olen
                       /\ mem = MovedTo(mm, v, old, olen, va, e)
  OBVIOUS
<1>6. /\ e \in Nat /\ va + olen <= e /\ e <= MaxPage /\ RangeClear(mm.vmas, va, e)
      /\ o \in Nat /\ old <= o /\ o <= MaxPage /\ va + olen <= MaxPage /\ old + olen <= MaxPage
  BY <1>2, <1>4, <1>5, Constants
<1>7. Unmapping(mem, old, o)
  BY <1>3, <1>5, Zenon DEF MovedTo
<1>8. Movable(mm, v, old, olen, va, e)
  BY <1>1, <1>2, <1>4, <1>6 DEF Movable
<1>9. MmOK(mem) /\ Owned([mms EXCEPT ![m] = mem], free)
  BY <1>1, <1>5, <1>8, MovedOwned
<1>10. PICK mid : mid = MemoryIn(mem.vmas, mem.pt, frames)
  OBVIOUS
<1>11. OthersKept
  BY <1>1, <1>2, <1>6, <1>7, <1>9, UnmappingMemory
<1>12. PICK new : /\ Becomes(new)
                  /\ \A a \in Pages : MemoryIn(new.vmas, new.pt, frames')[a] =
                       IF a \in old..o - 1 THEN NoPage ELSE mid[a]
  BY <1>1, <1>2, <1>6, <1>7, <1>9, <1>10, UnmappingMemory
<1>13. PICK is : is = MemoryIn(new.vmas, new.pt, frames')
  OBVIOUS
<1>14. \A a \in Pages : is[a] = IF a \in old..old + olen - 1 THEN NoPage ELSE mid[a]
  <2>1. o = old + olen /\ old \in Nat /\ olen \in Nat
    BY <1>2, <1>5
  <2> QED BY <1>12, <1>13, <2>1
<1>15. v.prot \in 0..7 /\ v.prot = Now[old].prot /\ RangeMoved(Now, is, old, olen, va, e, v.prot)
  <2>1. Now = MemoryIn(mm.vmas, mm.pt, frames) /\ mem = MovedTo(mm, v, old, olen, va, e)
    BY <1>5 DEF Now
  <2> QED BY <1>8, <1>10, <1>14, <2>1, MovedMemory
<1>16. PICK p \in 0..7 : p = Now[old].prot /\ RangeMoved(Now, is, old, olen, va, e, p)
  BY <1>15
<1>17. User!Call(Now, is)
  BY <1>2, <1>4, <1>6, <1>16, CallMoved
<1> QED BY <1>1, <1>11, <1>12, <1>13, <1>17, OwnCall

(* ---- processes ---- *)

LEMMA SpaceKept ==
  ASSUME NEW s \in Mms, mms'[s].vmas = mms[s].vmas, mms'[s].pt = mms[s].pt,
         \A a \in Pages : FrameAt(mms, s, a) # 0 => frames'[FrameAt(mms, s, a)] = frames[FrameAt(mms, s, a)]
  PROVE  Memory'[s] = Memory[s]
<1>1. /\ Memory[s] = MemoryIn(mms[s].vmas, mms[s].pt, frames)
      /\ Memory'[s] = MemoryIn(mms[s].vmas, mms[s].pt, frames')
  BY MemoriesAre
<1>2. \A a \in Pages : mms[s].pt[a].frame # 0 => frames'[mms[s].pt[a].frame] = frames[mms[s].pt[a].frame]
  BY DEF FrameAt
<1>3. MemoryIn(mms[s].vmas, mms[s].pt, frames') = MemoryIn(mms[s].vmas, mms[s].pt, frames)
  BY <1>2, MemoryKept
<1> QED BY <1>1, <1>3

\* What the spaces with users hold is what UserMemory says: the others are empty.
Leaves(sp, x) == mmOf' = sp /\ \A s \in Mms : (\E p \in Procs : sp[p] = s) => Memory'[s] = x[s]

LEMMA SettleIs ==
  ASSUME VmInv', NEW sp, NEW x, Leaves(sp, x)
  PROVE  User!Settle(sp, x)
<1> USE DEF Leaves
<1>1. ASSUME NEW s \in Mms, ~\E p \in Procs : sp[p] = s
      PROVE  Memory'[s] = User!Fresh
  <2>1. Users(sp, s) = {}
    BY <1>1 DEF Users
  <2>2. mms'[s].refs = 0
    BY <2>1, FS_EmptySet DEF VmInv, VmTypeOK, Users
  <2>3. mms'[s] = NoMm
    BY <2>2 DEF VmInv
  <2>4. Memory'[s] = MemoryIn(mms'[s].vmas, mms'[s].pt, frames')
    BY MemoriesAre
  <2> QED BY <2>3, <2>4, NoMemory
<1>2. PICK y : y = [s \in Mms |-> IF \E p \in Procs : sp[p] = s THEN x[s] ELSE User!Fresh]
  OBVIOUS
<1>3. \A s \in Mms : Memory'[s] = y[s]
  BY <1>1, <1>2
<1>4. Memory' = y
  <2>1. Memory' = [s \in Mms |-> Memory'[s]]
    BY DEF Memory
  <2>2. y = [s \in Mms |-> y[s]]
    BY <1>2
  <2> QED BY <1>3, <2>1, <2>2
<1> QED BY <1>2, <1>4, Zenon DEF User!Settle

\* Two processes that cannot be the same.
LEMMA CurrentIs ==
  ASSUME VmInv, m # 0
  PROVE  current \in {q \in Procs : mmOf[q] # 0} /\ mmOf[current] = m /\ m \in Mms
BY CurrentMm DEF VmInv, VmTypeOK, m

LEMMA SwitchCall ==
  ASSUME VmInv, NEW p, Switch(p)
  PROVE  [User!Next]_(User!memVars)
<1>1. UNCHANGED <<mmOf, mms, frames>>
  BY DEF Switch
<1>2. Memory' = Memory
  BY <1>1 DEF Memory, MemoryOf, Present
<1> QED BY <1>1, <1>2 DEF User!memVars

LEMMA VForkCall ==
  ASSUME VmInv, VmInv', NEW c \in Procs, VFork(c)
  PROVE  [User!Next]_(User!memVars)
<1>1. /\ m # 0 /\ mmOf[c] = 0 /\ mms' = [mms EXCEPT ![m].refs = @ + 1]
      /\ mmOf' = [mmOf EXCEPT ![c] = m] /\ frames' = frames
  BY DEF VFork, Uses
<1>2. current \in {q \in Procs : mmOf[q] # 0} /\ mmOf[current] = m /\ m \in Mms /\ mm \in Mm
  BY <1>1, CurrentIs, CurrentMm
<1>3. \A s \in Mms : mms'[s].vmas = mms[s].vmas /\ mms'[s].pt = mms[s].pt
  <2>1. mms \in [Mms -> Mm]
    BY DEF VmInv, VmTypeOK
  <2>2. PICK k : k = mms[m].refs + 1
    OBVIOUS
  <2>3. mms' = [mms EXCEPT ![m] = [mms[m] EXCEPT !.refs = k]]
    BY <1>1, <1>2, <2>1, <2>2
  <2> QED BY <1>2, <2>1, <2>3 DEF Mm
<1>4. \A s \in Mms : Memory'[s] = Memory[s]
  BY <1>1, <1>3, SpaceKept
<1>5. PICK sp : sp = [mmOf EXCEPT ![c] = mmOf[current]]
  OBVIOUS
<1>6. User!Settle(sp, Memory)
  BY <1>1, <1>2, <1>4, <1>5, SettleIs DEF Leaves
<1>7. User!Share(current, c)
  BY <1>5, <1>6 DEF User!Share
<1> QED BY <1>1, <1>2, <1>7 DEF User!Next

\* A space with users is there after the step.
LEMMA InUse ==
  ASSUME VmInv', NEW s \in Mms, \E p \in Procs : mmOf'[p] = s
  PROVE  mms'[s] # NoMm
<1>1. mms'[s].refs = Cardinality(Users(mmOf', s))
  BY DEF VmInv, VmTypeOK, Users
<1>2. Users(mmOf', s) # {} /\ IsFiniteSet(Users(mmOf', s))
  BY UsersFinite DEF Users
<1>3. Cardinality(Users(mmOf', s)) # 0
  BY <1>2, FS_EmptySet
<1> QED BY <1>1, <1>3, NoMmFacts

\* mm_free leaves the spaces that stay as they are.
LEMMA DropKeeps ==
  ASSUME VmInv, m # 0, NEW s \in Mms, s = m => AfterDrop(m) # NoMm
  PROVE  /\ s = m => AfterDrop(m).vmas = mms[s].vmas /\ AfterDrop(m).pt = mms[s].pt
         /\ \A a \in Pages : FrameAt(mms, s, a) # 0 =>
              /\ FrameAt(mms, s, a) \notin FreedBy(m) /\ FrameAt(mms, s, a) \notin free
              /\ FrameAt(mms, s, a) \in Frames
<1>1. m \in Mms /\ mm \in Mm /\ Owned(mms, free) /\ All \subseteq Frames
  BY CurrentMm, MachineFacts DEF VmInv, All
<1>2. \A a \in Pages : FrameAt(mms, s, a) # 0 => FrameAt(mms, s, a) \in All \ free
  BY <1>1 DEF Owned
<1>3. CASE s = m
  <2>1. Dropped(m).refs > 0 /\ AfterDrop(m) = Dropped(m) /\ FreedBy(m) = {}
    BY <1>3 DEF AfterDrop, FreedBy
  <2>2. Dropped(m).vmas = mm.vmas /\ Dropped(m).pt = mm.pt
    BY <1>1 DEF Dropped, mm, Mm
  <2> QED BY <1>1, <1>2, <1>3, <2>1, <2>2 DEF mm
<1>4. CASE s # m
  <2>1. \A f \in FreedBy(m) : \E b \in Pages : f = FrameAt(mms, m, b)
    BY DEF FreedBy, FramesOf, FrameAt
  <2>2. \A b \in Pages, a \in Pages : FrameAt(mms, s, a) # 0 => FrameAt(mms, s, a) # FrameAt(mms, m, b)
    BY <1>1, <1>4 DEF Owned
  <2> QED BY <1>1, <1>2, <1>4, <2>1, <2>2
<1> QED BY <1>3, <1>4

LEMMA ExitCall ==
  ASSUME VmInv, VmInv', Exit
  PROVE  [User!Next]_(User!memVars)
<1>1. /\ m # 0 /\ mms' = [mms EXCEPT ![m] = AfterDrop(m)] /\ mmOf' = [mmOf EXCEPT ![current] = 0]
      /\ frames' = [f \in Frames |-> IF f \in FreedBy(m) THEN Link ELSE frames[f]]
  BY DEF Exit, Uses, Pfree
<1>2. current \in {q \in Procs : mmOf[q] # 0} /\ m \in Mms /\ mms \in [Mms -> Mm]
  BY <1>1, CurrentIs DEF VmInv, VmTypeOK
<1>3. PICK sp : sp = [mmOf EXCEPT ![current] = 0]
  OBVIOUS
<1>4. ASSUME NEW s \in Mms, \E p \in Procs : sp[p] = s
      PROVE  Memory'[s] = Memory[s]
  <2>1. mms'[s] # NoMm
    BY <1>1, <1>3, <1>4, InUse
  <2>2. mms'[s] = IF s = m THEN AfterDrop(m) ELSE mms[s]
    BY <1>1, <1>2
  <2>3. /\ s = m => AfterDrop(m).vmas = mms[s].vmas /\ AfterDrop(m).pt = mms[s].pt
        /\ \A a \in Pages : FrameAt(mms, s, a) # 0 =>
             FrameAt(mms, s, a) \notin FreedBy(m) /\ FrameAt(mms, s, a) \in Frames
    BY <1>1, <2>1, <2>2, DropKeeps
  <2>4. mms'[s].vmas = mms[s].vmas /\ mms'[s].pt = mms[s].pt
    BY <2>2, <2>3
  <2>5. \A a \in Pages : FrameAt(mms, s, a) # 0 => frames'[FrameAt(mms, s, a)] = frames[FrameAt(mms, s, a)]
    BY <1>1, <2>3
  <2> QED BY <2>4, <2>5, SpaceKept
<1>5. User!Settle(sp, Memory)
  BY <1>1, <1>3, <1>4, SettleIs DEF Leaves
<1>6. User!Exit(current)
  BY <1>3, <1>5 DEF User!Exit
<1> QED BY <1>2, <1>6 DEF User!Next

LEMMA ExecCall ==
  ASSUME VmInv, VmInv', NEW im \in Images, NEW n \in Mms, Exec(im, n)
  PROVE  [User!Next]_(User!memVars)
<1> DEFINE vas == LoadedPages(im)
           got == Palloc(free, vas)
           new == Loaded(im, got)
           gs == [f \in Frames |-> IF f \in FreedBy(m) THEN Link ELSE frames[f]]
<1>1. /\ m # 0 /\ mms[n] = NoMm /\ mmOf' = [mmOf EXCEPT ![current] = n]
      /\ mms' = [mms EXCEPT ![n] = new, ![m] = AfterDrop(m)]
      /\ frames' = Holding(gs, got) /\ Enough(free, vas)
  BY DEF Exec, Uses
<1>2. /\ current \in {q \in Procs : mmOf[q] # 0} /\ m \in Mms /\ mms \in [Mms -> Mm]
      /\ n # m /\ \A p \in Procs : mmOf[p] # n
  <2>1. Users(mmOf, n) = {}
    BY <1>1, UnusedMm, UsersFinite, FS_EmptySet
  <2> QED BY <1>1, <2>1, CurrentIs, UnusedMm DEF VmInv, VmTypeOK, Users
<1>3. free \subseteq Frames /\ 0 \notin Frames
  BY MachineFacts DEF VmInv, VmTypeOK
<1> HIDE DEF vas
<1>4. got \in [vas -> free] /\ Taken(got) = {got[a] : a \in vas}
  BY <1>1, Received
<1> HIDE DEF got
<1>5. \A f \in Frames : frames'[f] = IF f \in Taken(got) THEN 1
                                     ELSE IF f \in FreedBy(m) THEN Link ELSE frames[f]
  BY <1>1 DEF Holding
<1> HIDE DEF gs
<1>6. mms'[n] = new /\ \A s \in Mms \ {n} : mms'[s] = IF s = m THEN AfterDrop(m) ELSE mms[s]
  BY <1>1, <1>2
<1>7. PICK pm : pm = ProgramMemory(im) /\ pm \in ProgramMemories
  BY DEF ProgramMemories
<1>8. Memory'[n] = pm
  <2>1. got \in [vas -> Frames] /\ \A a \in vas : frames'[got[a]] = 1
    BY <1>3, <1>4, <1>5
  <2>2. MemoryIn(Loaded(im, got).vmas, Loaded(im, got).pt, frames') = ProgramMemory(im)
    BY <1>3, <2>1, LoadedMemory DEF vas
  <2>3. Memory'[n] = MemoryIn(mms'[n].vmas, mms'[n].pt, frames')
    BY MemoriesAre
  <2> QED BY <1>6, <1>7, <2>2, <2>3 DEF new
<1> HIDE DEF new
<1>9. PICK sp, x : sp = [mmOf EXCEPT ![current] = n] /\ x = [Memory EXCEPT ![n] = pm]
  OBVIOUS
<1>10. \A s \in Mms : x[s] = IF s = n THEN pm ELSE Memory[s]
  BY <1>9 DEF Memory
<1>11. ASSUME NEW s \in Mms, s # n, \E p \in Procs : sp[p] = s
       PROVE  Memory'[s] = Memory[s]
  <2>1. mms'[s] # NoMm
    BY <1>1, <1>9, <1>11, InUse
  <2>2. mms'[s] = IF s = m THEN AfterDrop(m) ELSE mms[s]
    BY <1>6, <1>11
  <2>3. /\ s = m => AfterDrop(m).vmas = mms[s].vmas /\ AfterDrop(m).pt = mms[s].pt
        /\ \A a \in Pages : FrameAt(mms, s, a) # 0 =>
             /\ FrameAt(mms, s, a) \notin FreedBy(m) /\ FrameAt(mms, s, a) \notin free
             /\ FrameAt(mms, s, a) \in Frames
    BY <1>1, <2>1, <2>2, DropKeeps
  <2>4. mms'[s].vmas = mms[s].vmas /\ mms'[s].pt = mms[s].pt
    BY <2>2, <2>3
  <2>5. \A f \in Taken(got) : f \in free
    BY <1>4
  <2>6. \A a \in Pages : FrameAt(mms, s, a) # 0 => frames'[FrameAt(mms, s, a)] = frames[FrameAt(mms, s, a)]
    BY <1>5, <2>3, <2>5
  <2> QED BY <2>4, <2>6, SpaceKept
<1>12. User!Settle(sp, x)
  <2>1. \A s \in Mms : (\E p \in Procs : sp[p] = s) => Memory'[s] = x[s]
    BY <1>8, <1>10, <1>11
  <2>2. Leaves(sp, x)
    BY <1>1, <1>9, <2>1 DEF Leaves
  <2> QED BY <2>2, SettleIs
<1>13. User!Exec(current)
  BY <1>2, <1>7, <1>9, <1>12 DEF User!Exec, User!Unused
<1> QED BY <1>2, <1>13 DEF User!Next

\* A copy has the VMAs and in its frames what the frames of the process hold.
LEMMA ForkCall ==
  ASSUME VmInv, VmInv', NEW c \in Procs, NEW n \in Mms, Fork(c, n)
  PROVE  [User!Next]_(User!memVars)
<1> DEFINE have == {va \in Pages : Present(mm.pt, va)}
           got == Palloc(free, have)
           pt == [va \in Pages |-> IF va \in have THEN [mm.pt[va] EXCEPT !.frame = got[va]] ELSE NoPte]
           new == [mm EXCEPT !.refs = 1, !.pt = pt]
<1>1. /\ m # 0 /\ mm \in Mm /\ mm.pt \in [Pages -> Pte] /\ mms \in [Mms -> Mm]
      /\ mmOf[c] = 0 /\ mms[n] = NoMm /\ 0 \notin Frames /\ free \subseteq Frames
      /\ Owned(mms, free) /\ All \subseteq Frames
  BY CurrentMm, MachineFacts DEF Fork, Uses, VmInv, VmTypeOK, Mm, All
<1>2. /\ Enough(free, have) /\ mms' = [mms EXCEPT ![n] = new]
      /\ mmOf' = [mmOf EXCEPT ![c] = n]
      /\ frames' = [f \in Frames |-> IF f \in Taken(got)
                      THEN frames[mm.pt[CHOOSE va \in have : got[va] = f].frame] ELSE frames[f]]
  BY <1>1 DEF Fork, Mm
<1>3. \A a \in Pages : a \in have <=> mm.pt[a].frame # 0
  BY DEF Present
<1>4. /\ current \in {q \in Procs : mmOf[q] # 0} /\ mmOf[current] = m /\ m \in Mms
      /\ n # m /\ \A p \in Procs : mmOf[p] # n
  <2>1. Users(mmOf, n) = {}
    BY <1>1, UnusedMm, UsersFinite, FS_EmptySet
  <2> QED BY <1>1, <2>1, CurrentIs, UnusedMm DEF Users
<1>0. have \subseteq Pages
  OBVIOUS
<1> HIDE DEF have
<1>5. /\ got \in Injection(have, free) /\ got \in [have -> free]
      /\ Taken(got) = {got[a] : a \in have}
  BY <1>2, Received
<1> HIDE DEF got
<1>6. \A a, b \in have : got[a] = got[b] => a = b
  BY <1>5, Zenon DEF Injection, IsInjective
<1>7. \A a \in have : pt[a].frame = got[a] /\ got[a] \in free /\ got[a] \in Frames /\ got[a] # 0
  BY <1>0, <1>1, <1>5 DEF Pte
<1>8. \A a \in Pages : a \notin have => pt[a].frame = 0
  BY NoPteFacts
<1> HIDE DEF pt
<1>9. new.vmas = mm.vmas /\ new.pt = pt
  BY <1>1 DEF Mm
<1> HIDE DEF new
<1>10. \A a \in Pages : Holds(pt, frames', a) = Holds(mm.pt, frames, a)
  <2>1. ASSUME NEW a \in have
        PROVE  frames'[got[a]] = frames[mm.pt[a].frame]
    <3>1. PICK b : b = CHOOSE va \in have : got[va] = got[a]
      OBVIOUS
    <3>2. b \in have /\ got[b] = got[a]
      BY <3>1
    <3>3. b = a
      BY <1>6, <3>2
    <3>4. PICK f : f = got[a]
      OBVIOUS
    <3>5. f \in Taken(got) /\ f \in Frames
      BY <1>5, <1>7, <3>4
    <3>6. frames'[f] = frames[mm.pt[CHOOSE va \in have : got[va] = f].frame]
      BY <1>2, <3>5
    <3> QED BY <3>1, <3>3, <3>4, <3>6
  <2> QED BY <1>3, <1>7, <1>8, <2>1 DEF Holds, Present
<1>11. Memory'[n] = Memory[m]
  <2>1. mms'[n] = new
    BY <1>1, <1>2
  <2>2. Memory[m] = MemoryIn(mm.vmas, mm.pt, frames) /\ Memory'[n] = MemoryIn(mms'[n].vmas, mms'[n].pt, frames')
    BY <1>4, MemoriesAre DEF mm
  <2>3. MemoryIn(mm.vmas, pt, frames') = MemoryIn(mm.vmas, mm.pt, frames)
    BY <1>10 DEF MemoryIn
  <2> QED BY <1>9, <2>1, <2>2, <2>3
<1>12. ASSUME NEW s \in Mms, s # n PROVE Memory'[s] = Memory[s]
  <2>1. mms'[s] = mms[s]
    BY <1>1, <1>2, <1>12
  <2>2. \A a \in Pages : FrameAt(mms, s, a) # 0 => FrameAt(mms, s, a) \notin free /\ FrameAt(mms, s, a) \in Frames
    BY <1>1 DEF Owned
  <2>3. \A f \in Taken(got) : f \in free
    BY <1>5
  <2>4. \A a \in Pages : FrameAt(mms, s, a) # 0 => frames'[FrameAt(mms, s, a)] = frames[FrameAt(mms, s, a)]
    BY <1>2, <2>2, <2>3
  <2> QED BY <2>1, <2>4, SpaceKept
<1>13. PICK sp, x : sp = [mmOf EXCEPT ![c] = n] /\ x = [Memory EXCEPT ![n] = Memory[mmOf[current]]]
  OBVIOUS
<1>14. \A s \in Mms : x[s] = IF s = n THEN Memory[m] ELSE Memory[s]
  BY <1>4, <1>13 DEF Memory
<1>15. User!Settle(sp, x)
  <2>1. \A s \in Mms : Memory'[s] = x[s]
    BY <1>11, <1>12, <1>14
  <2>2. Leaves(sp, x)
    BY <1>2, <1>13, <2>1 DEF Leaves
  <2> QED BY <2>2, SettleIs
<1>16. User!Copy(current, c)
  BY <1>4, <1>13, <1>15 DEF User!Copy, User!Unused
<1> QED BY <1>1, <1>4, <1>16 DEF User!Next

(* ---- the protections of a memory ---- *)

Known(mem) == \A a \in Pages : mem[a] # NoPage => mem[a].prot \in MapProts

LEMMA InOwnSpan == \A C \in SUBSET Pages : \A a \in C : a \in User!Span(C) /\ a \in Pages
BY PageNumbers DEF User!Span

\* What a call does to a memory leaves protections that are known.
LEMMA CallKnown ==
  ASSUME NEW was, NEW is, Known(was), User!Call(was, is),
         \A a \in Pages : was[a] # NoPage => was[a] = [prot |-> was[a].prot, val |-> was[a].val]
  PROVE  Known(is)
<1> DEFINE C == {a \in Pages : was[a] # is[a]}
<1>0. NoPage = User!Unmapped
  BY DEF NoPage, User!Unmapped
<1>1. /\ C \in SUBSET Pages /\ \A a \in Pages \ C : is[a] = was[a]
      /\ User!Stored(was, is, C) \/ User!Mapped(is, C) \/ User!Removed(is, C)
         \/ User!Protected(was, is, C) \/ User!Moved(was, is, C)
  BY DEF User!Call
<1>2. \A a \in C : was[a] # is[a] /\ a \in Pages
  OBVIOUS
<1> HIDE DEF C
<1>3. \A a \in C : a \in User!Span(C)
  BY <1>1, InOwnSpan
<1> SUFFICES ASSUME NEW a \in C, is[a] # NoPage PROVE is[a].prot \in MapProts
  BY <1>1, <1>2 DEF Known
<1>4. CASE User!Stored(was, is, C)
  BY <1>0, <1>2, <1>4 DEF User!Stored, Known
<1>5. CASE User!Mapped(is, C)
  BY <1>3, <1>5, Zenon DEF User!Mapped
<1>6. CASE User!Removed(is, C)
  BY <1>0, <1>3, <1>6, Zenon DEF User!Removed
<1>7. CASE User!Protected(was, is, C)
  <2>1. PICK prot \in MapProts : \A b \in User!Span(C) :
          is[b] = IF was[b] = User!Unmapped THEN User!Unmapped ELSE [was[b] EXCEPT !.prot = prot]
    BY <1>7, Zenon DEF User!Protected
  <2>2. is[a] = IF was[a] = User!Unmapped THEN User!Unmapped ELSE [was[a] EXCEPT !.prot = prot]
    BY <1>3, <2>1, Zenon
  <2>3. was[a] # NoPage /\ is[a] = [was[a] EXCEPT !.prot = prot]
    BY <1>0, <2>2
  <2>4. PICK p, v : was[a] = [prot |-> p, val |-> v]
    BY <1>2, <2>3
  <2> QED BY <2>3, <2>4
<1>8. CASE User!Moved(was, is, C)
  <2> DEFINE gone == {x \in C : is[x] = User!Unmapped}
             news == C \ gone
  <2>1. a \in news
    BY <1>0
  <2>2. PICK from \in gone, to \in news :
          \A x \in news :
            LET old == from + x - to
            IN  /\ to <= x /\ was[x] = User!Unmapped
                /\ is[x] = [prot |-> was[from].prot,
                            val |-> IF old \in gone THEN was[old].val ELSE 0]
    BY <1>8, Zenon DEF User!Moved
  <2>3. is[a].prot = was[from].prot
    <3>1. PICK v : is[a] = [prot |-> was[from].prot, val |-> v]
      BY <2>1, <2>2, Zenon
    <3> QED BY <3>1
  <2>4. from \in Pages /\ was[from] # NoPage
    BY <1>0, <1>2
  <2> QED BY <2>3, <2>4 DEF Known
<1> QED BY <1>1, <1>4, <1>5, <1>6, <1>7, <1>8

LEMMA ProgramsKnown == \A x \in ProgramMemories : Known(x)
<1> SUFFICES ASSUME NEW im \in Images PROVE Known(ProgramMemory(im))
  BY DEF ProgramMemories
<1>1. 3 \in MapProts
  BY DEF MapProts
<1> QED BY <1>1 DEF Known, ProgramMemory

LEMMA FreshKnown == Known(User!Fresh)
BY DEF Known, User!Fresh, User!Unmapped, NoPage

LEMMA SettleKnown ==
  ASSUME NEW sp, NEW x, User!Settle(sp, x), \A s \in Mms : Known(x[s])
  PROVE  \A s \in Mms : Known(Memory'[s])
<1>1. Memory' = [s \in Mms |-> IF \E p \in Procs : sp[p] = s THEN x[s] ELSE User!Fresh]
  BY Zenon DEF User!Settle
<1>2. \A s \in Mms : Memory'[s] = IF \E p \in Procs : sp[p] = s THEN x[s] ELSE User!Fresh
  BY <1>1
<1> QED BY <1>2, FreshKnown

LEMMA KnownIs == KnownProts <=> \A i \in Mms : Known(Memory[i])
BY DEF KnownProts, Known

\* Known protections stay so whatever UserMemory does.
LEMMA KnownNext ==
  ASSUME VmInv, KnownProts, [User!Next]_(User!memVars)
  PROVE  KnownProts'
<1>0. \A i \in Mms : Known(Memory[i])
  BY KnownIs
<1> SUFFICES \A i \in Mms : Known(Memory'[i])
  BY DEF KnownProts, Known
<1>1. CASE UNCHANGED User!memVars
  <2>1. Memory' = Memory
    BY <1>1 DEF User!memVars
  <2> QED BY <1>0, <2>1
<1>2. ASSUME NEW s \in Mms, \A t \in Mms \ {s} : Memory'[t] = Memory[t], User!Call(Memory[s], Memory'[s])
      PROVE  \A i \in Mms : Known(Memory'[i])
  <2>1. ASSUME NEW a \in Pages, Memory[s][a] # NoPage
        PROVE  Memory[s][a] = [prot |-> Memory[s][a].prot, val |-> Memory[s][a].val]
    <3>1. Memory[s] = MemoryIn(mms[s].vmas, mms[s].pt, frames) /\ VmasOK(mms[s].vmas)
      BY MemoriesAre DEF VmInv, MmOK
    <3>2. PICK page : page = Memory[s][a]
      OBVIOUS
    <3>3. page # NoPage => page = [prot |-> page.prot, val |-> page.val]
      BY <3>1, <3>2, PageIs
    <3> QED BY <2>1, <3>2, <3>3
  <2>2. PICK was, is : was = Memory[s] /\ is = Memory'[s]
    OBVIOUS
  <2>3. /\ Known(was) /\ User!Call(was, is)
        /\ \A a \in Pages : was[a] # NoPage => was[a] = [prot |-> was[a].prot, val |-> was[a].val]
    BY <1>0, <1>2, <2>1, <2>2
  <2>4. Known(is)
    BY <2>3, CallKnown
  <2> QED BY <1>0, <1>2, <2>2, <2>4
<1>3. ASSUME NEW sp, NEW s \in Mms, NEW x, Known(x), User!Settle(sp, [Memory EXCEPT ![s] = x])
      PROVE  \A i \in Mms : Known(Memory'[i])
  <2>1. PICK y : y = [Memory EXCEPT ![s] = x]
    OBVIOUS
  <2>2. \A i \in Mms : y[i] = IF i = s THEN x ELSE Memory[i]
    BY <2>1 DEF Memory
  <2>3. User!Settle(sp, y) /\ \A i \in Mms : Known(y[i])
    BY <1>0, <1>3, <2>1, <2>2
  <2> QED BY <2>3, SettleKnown
<1>4. ASSUME NEW sp, User!Settle(sp, Memory)
      PROVE  \A i \in Mms : Known(Memory'[i])
  BY <1>0, <1>4, SettleKnown
<1>5. ASSUME NEW p \in {q \in Procs : mmOf[q] # 0}, NEW c, User!Copy(p, c)
      PROVE  \A i \in Mms : Known(Memory'[i])
  <2>1. mmOf[p] \in Mms
    BY DEF VmInv, VmTypeOK
  <2>2. PICK s, sp : s \in Mms /\ User!Settle(sp, [Memory EXCEPT ![s] = Memory[mmOf[p]]])
    BY <1>5, Zenon DEF User!Copy
  <2> QED BY <1>0, <1>3, <2>1, <2>2
<1>6. ASSUME NEW p, User!Exec(p)
      PROVE  \A i \in Mms : Known(Memory'[i])
  <2>1. PICK s, x, sp :
          s \in Mms /\ x \in ProgramMemories /\ User!Settle(sp, [Memory EXCEPT ![s] = x])
    BY <1>6, Zenon DEF User!Exec
  <2> QED BY <1>3, <2>1, ProgramsKnown
<1>7. ASSUME NEW p, User!Exit(p) PROVE \A i \in Mms : Known(Memory'[i])
  BY <1>4, <1>7, Zenon DEF User!Exit
<1>8. ASSUME NEW p, NEW c, User!Share(p, c) PROVE \A i \in Mms : Known(Memory'[i])
  BY <1>4, <1>8, Zenon DEF User!Share
<1>9. CASE User!Next
  BY <1>2, <1>5, <1>6, <1>7, <1>8, <1>9, Zenon DEF User!Next
<1> QED BY <1>1, <1>9

(* ---- the theorem ---- *)

\* The first program's memory is what its image says.
LEMMA InitMemory == VmInit => User!Init /\ KnownProts
<1> SUFFICES ASSUME VmInit PROVE User!Init /\ KnownProts
  OBVIOUS
<1>1. PICK im, got :
        /\ im \in Images /\ Enough(All, LoadedPages(im)) /\ got = Palloc(All, LoadedPages(im))
        /\ machine \in Machines /\ mmOf = [p \in Procs |-> IF p = 1 THEN 1 ELSE 0]
        /\ mms = [i \in Mms |-> IF i = 1 THEN Loaded(im, got) ELSE NoMm]
        /\ frames = Holding([f \in Frames |-> Link], got)
  BY DEF VmInit, All
<1>2. All \subseteq Frames /\ 0 \notin Frames /\ 1 \in Mms /\ 1 \in Procs
  BY <1>1, VmAssumption DEF All, Frames
<1>3. PICK vas : vas = LoadedPages(im)
  OBVIOUS
<1>4. got \in [vas -> All] /\ Taken(got) = {got[a] : a \in vas}
  BY <1>1, <1>3, Received
<1>5. got \in [vas -> Frames] /\ \A a \in vas : frames[got[a]] = 1
  BY <1>1, <1>2, <1>4 DEF Holding
<1>6. MemoryIn(Loaded(im, got).vmas, Loaded(im, got).pt, frames) = ProgramMemory(im)
  BY <1>1, <1>2, <1>3, <1>5, LoadedMemory
<1>7. PICK x \in ProgramMemories : x = ProgramMemory(im)
  BY <1>1 DEF ProgramMemories
<1>8. \A i \in Mms : Memory[i] = IF i = 1 THEN x ELSE User!Fresh
  <2>1. Memory[1] = MemoryIn(mms[1].vmas, mms[1].pt, frames) /\ mms[1] = Loaded(im, got)
    BY <1>1, <1>2, MemoriesAre
  <2>2. ASSUME NEW i \in Mms, i # 1 PROVE Memory[i] = User!Fresh
    <3>1. mms[i] = NoMm /\ Memory[i] = MemoryIn(mms[i].vmas, mms[i].pt, frames)
      BY <1>1, <2>2, MemoriesAre
    <3> QED BY <3>1, NoMemory
  <2> QED BY <1>6, <1>7, <2>1, <2>2
<1>9. PICK y : y = [i \in Mms |-> IF i = 1 THEN x ELSE User!Fresh]
  OBVIOUS
<1>10. Memory = y
  <2>1. Memory = [i \in Mms |-> Memory[i]] /\ \A i \in Mms : Memory[i] = y[i]
    BY <1>8, <1>9 DEF Memory
  <2> QED BY <1>9, <2>1
<1>11. User!Init
  BY <1>1, <1>2, <1>9, <1>10, Zenon DEF User!Init
<1>12. KnownProts
  BY <1>8, ProgramsKnown, FreshKnown, KnownIs
<1> QED BY <1>11, <1>12

\* Each step of the address spaces is a step of the memories, or none.
LEMMA NextMemory ==
  ASSUME FilesWritable, VmInv, VmInv', KnownProts, [VmNext]_vmVars
  PROVE  [User!Next]_(User!memVars)
<1>1. CASE UNCHANGED vmVars
  <2>1. UNCHANGED <<mmOf, mms, frames>>
    BY <1>1 DEF vmVars
  <2>2. Memory' = Memory
    BY <2>1 DEF Memory, MemoryOf, Present
  <2> QED BY <2>1, <2>2 DEF User!memVars
<1>2. CASE VmNext
  <2> DEFINE Kept == [User!Next]_(User!memVars)
  <2>1. ASSUME NEW va \in Pages, NEW v \in Vals \ {0}, Store(va, v) PROVE Kept
    BY <2>1, StoreCall
  <2>2. ASSUME NEW va \in Pages, NEW w \in BOOLEAN, Fault(va, w) PROVE Kept
    BY <2>2, FaultCall
  <2>3. ASSUME NEW a \in machine.addrs, NEW n \in machine.lens, Munmap(a, n) PROVE Kept
    BY <2>3, MunmapCall
  <2>4. ASSUME NEW a \in machine.addrs, NEW n \in machine.lens, NEW prot \in machine.prots,
               Mprotect(a, n, prot)
        PROVE  Kept
    BY <2>4, MprotectCall
  <2>5. ASSUME NEW n \in machine.lens, NEW prot \in machine.prots, NEW f \in machine.files,
               MmapTopDown(n, prot, f)
        PROVE  Kept
    BY <2>5, MmapTopDownCall
  <2>6. ASSUME NEW a \in machine.addrs, NEW n \in machine.lens, NEW prot \in machine.prots,
               NEW f \in machine.files, MmapFixed(a, n, prot, f)
        PROVE  Kept
    BY <2>6, MmapFixedCall
  <2>7. ASSUME NEW a \in machine.addrs, NEW n \in machine.lens, NEW prot \in machine.prots,
               NEW f \in machine.files, MmapHint(a, n, prot, f)
        PROVE  Kept
    BY <2>7, MmapHintCall
  <2>8. ASSUME NEW a \in machine.addrs, NEW o \in machine.lens, NEW n \in machine.lens,
               MremapShrink(a, o, n)
        PROVE  Kept
    BY <2>8, MremapShrinkCall
  <2>9. ASSUME NEW a \in machine.addrs, NEW o \in machine.lens, NEW n \in machine.lens,
               MremapGrow(a, o, n)
        PROVE  Kept
    BY <2>9, MremapGrowCall
  <2>10. ASSUME NEW a \in machine.addrs, NEW o \in machine.lens, NEW n \in machine.lens,
                MremapMove(a, o, n)
         PROVE  Kept
    BY <2>10, MremapMoveCall
  <2>11. ASSUME NEW b \in machine.brks, BrkShrink(b) PROVE Kept
    BY <2>11, BrkShrinkCall
  <2>12. ASSUME NEW b \in machine.brks, BrkInPage(b) PROVE Kept
    BY <2>12, BrkInPageCall
  <2>13. ASSUME NEW b \in machine.brks, BrkGrow(b) PROVE Kept
    BY <2>13, BrkGrowCall
  <2>14. ASSUME NEW c \in Procs, VFork(c) PROVE Kept
    BY <2>14, VForkCall
  <2>15. ASSUME NEW c \in Procs, Switch(c) PROVE Kept
    BY <2>15, SwitchCall
  <2>16. ASSUME NEW c \in Procs, NEW n \in Mms, Fork(c, n) PROVE Kept
    BY <2>16, ForkCall
  <2>17. ASSUME NEW im \in Images, NEW n \in Mms, Exec(im, n) PROVE Kept
    BY <2>17, ExecCall
  <2>18. CASE Exit
    BY <2>18, ExitCall
  <2> QED BY <1>2, <2>1, <2>2, <2>3, <2>4, <2>5, <2>6, <2>7, <2>8, <2>9, <2>10, <2>11, <2>12,
             <2>13, <2>14, <2>15, <2>16, <2>17, <2>18, Zenon DEF VmNext
<1> QED BY <1>1, <1>2

\* VMAs, page tables and physical pages make a Unix program's memory, through
\* faults, copies, moves and unmappings (mm.c, and fork, exec and exit in
\* proc.c): a page reads what its program last put there, or zeroes, and no
\* other program's step changes it.  It needs files to be mapped writable, as
\* copy_to_mm (mm.c:369) lets a program store into the pages of the others too.
THEOREM MemoryImplemented ==
  ASSUME FilesWritable PROVE VmSpec /\ RangesFit => ImplementsMemory
<1>1. VmInit /\ RangesFit => VmInv /\ KnownProts /\ User!Init
  BY VmInitInv, InitMemory
<1>2. VmInv /\ KnownProts /\ [VmNext]_vmVars =>
        VmInv' /\ KnownProts' /\ [User!Next]_(User!memVars)
  <2> SUFFICES ASSUME VmInv, KnownProts, [VmNext]_vmVars
               PROVE  VmInv' /\ KnownProts' /\ [User!Next]_(User!memVars)
    OBVIOUS
  <2>1. VmInv'
    BY VmNextInv
  <2>2. [User!Next]_(User!memVars)
    BY <2>1, NextMemory
  <2> QED BY <2>1, <2>2, KnownNext
<1> QED BY <1>1, <1>2, PTL DEF VmSpec, ImplementsMemory, User!Spec

=============================================================================
