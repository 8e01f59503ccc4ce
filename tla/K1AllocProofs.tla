--------------------------- MODULE K1AllocProofs ---------------------------
(***************************************************************************)
(* K1's physical memory, for every page size, map of the firmware and      *)
(* sequence of calls: what palloc, kmalloc and palloc_contig take, pfree   *)
(* and kfree give back and the import adds keeps the pieces of memory      *)
(* apart and mem_used exact.                                               *)
(***************************************************************************)
EXTENDS K1Alloc, FiniteSetTheorems, TLAPS

(* ---- numbers ---- *)

LEMMA Division ==
  ASSUME NEW x \in Nat, NEW d \in Nat, d > 0
  PROVE  x \div d \in Nat /\ x % d \in Nat /\ x % d < d /\ x = (x \div d) * d + (x % d)
  BY SMT

LEMMA Product == \A a \in Nat, b \in Nat : a * b \in Nat
  BY SMT

\* A multiple that is less than one past another is not greater.
LEMMA Multiples ==
  ASSUME NEW a \in Nat, NEW b \in Nat, NEW d \in Nat, d > 0
  PROVE  (a <= b => a * d <= b * d) /\ (a * d < b * d + d => a <= b)
  BY SMT

\* The quotient is the only one.
LEMMA Quotient ==
  ASSUME NEW q \in Nat, NEW r \in Nat, NEW d \in Nat, r < d
  PROVE  (q * d + r) \div d = q /\ (q * d + r) % d = r
<1> DEFINE x == q * d + r
           y == x \div d
           z == x % d
<1>1. x \in Nat /\ q * d \in Nat /\ d > 0 /\ x = q * d + r
  BY Product
<1> HIDE DEF x
<1>2. x = y * d + z /\ z < d /\ y \in Nat /\ z \in Nat
  BY <1>1, Division
<1> HIDE DEF y, z
<1>4. y * d \in Nat
  BY <1>2, Product
<1>5. q * d < y * d + d /\ y * d < q * d + d
  BY <1>1, <1>2, <1>4
<1>6. q <= y /\ y <= q
  BY <1>5, <1>2, <1>1, Multiples
<1>7. y = q
  BY <1>6, <1>2
<1>8. z = r
  BY <1>7, <1>1, <1>2
<1> QED BY <1>7, <1>8 DEF x, y, z

\* Rounding to a multiple, and the multiples on either side.
LEMMA AlignDown ==
  ASSUME NEW x \in Nat, NEW a \in Nat, a > 0
  PROVE  /\ AlignDn(x, a) \in Nat /\ AlignDn(x, a) <= x /\ x < AlignDn(x, a) + a
         /\ AlignDn(x, a) % a = 0 /\ AlignDn(x, a) = (x \div a) * a
<1>1. x \div a \in Nat /\ x % a \in Nat /\ x % a < a /\ x = (x \div a) * a + (x % a) /\ (x \div a) * a \in Nat
  BY Division, Product
<1>2. AlignDn(x, a) = (x \div a) * a
  BY <1>1 DEF AlignDn
<1>3. ((x \div a) * a + 0) % a = 0
  BY <1>1, Quotient
<1> QED BY <1>1, <1>2, <1>3

LEMMA AlignedUp ==
  ASSUME NEW x \in Nat, NEW a \in Nat, a > 0
  PROVE  /\ AlignUp(x, a) \in Nat /\ x <= AlignUp(x, a) /\ AlignUp(x, a) < x + a
         /\ AlignUp(x, a) % a = 0
<1> DEFINE w == x + a - 1
<1>1. w \in Nat /\ w = x + a - 1
  OBVIOUS
<1> HIDE DEF w
<1>2. /\ AlignDn(w, a) \in Nat /\ AlignDn(w, a) <= w /\ w < AlignDn(w, a) + a
      /\ AlignDn(w, a) % a = 0
  BY <1>1, AlignDown
<1>3. AlignUp(x, a) = AlignDn(w, a)
  BY DEF AlignUp, w
<1> QED BY <1>1, <1>2, <1>3

LEMMA AlignBetween ==
  ASSUME NEW x \in Nat, NEW y \in Nat, NEW a \in Nat, a > 0, y % a = 0
  PROVE  (x <= y => AlignUp(x, a) <= y) /\ (y <= x => y <= AlignDn(x, a))
<1>1. y = (y \div a) * a /\ y \div a \in Nat
  BY Division, Product
<1>2. ASSUME y <= x PROVE y <= AlignDn(x, a)
  <2>1. x \div a \in Nat /\ x % a < a /\ x % a \in Nat /\ x = (x \div a) * a + (x % a) /\ (x \div a) * a \in Nat
    BY Division, Product
  <2>2. (y \div a) * a < (x \div a) * a + a
    BY <1>1, <1>2, <2>1
  <2>3. y \div a <= x \div a
    BY <2>2, <2>1, <1>1, Multiples
  <2>4. (y \div a) * a <= (x \div a) * a
    BY <2>3, <2>1, <1>1, Multiples
  <2> QED BY <2>4, <1>1, AlignDown
<1>3. ASSUME x <= y PROVE AlignUp(x, a) <= y
  <2> DEFINE u == AlignUp(x, a)
  <2>1. u \in Nat /\ u < x + a /\ u % a = 0
    BY AlignedUp
  <2> HIDE DEF u
  <2>2. u = (u \div a) * a /\ u \div a \in Nat
    BY <2>1, Division, Product
  <2>3. (u \div a) * a < (y \div a) * a + a
    BY <2>1, <2>2, <1>1, <1>3
  <2>4. (u \div a) * a <= (y \div a) * a
    BY <2>3, <2>2, <1>1, Multiples
  <2> QED BY <2>4, <2>2, <1>1 DEF u
<1> QED BY <1>2, <1>3

\* Sums of multiples.
LEMMA AlignedSum ==
  ASSUME NEW x \in Nat, NEW n \in Nat, NEW a \in Nat, a > 0, x % a = 0
  PROVE  (x + n * a) % a = 0 /\ n * a \in Nat
<1> DEFINE q == x \div a
<1>1. x = q * a /\ q \in Nat
  BY Division, Product
<1> HIDE DEF q
<1>2. x + n * a = (q + n) * a + 0 /\ q + n \in Nat
  BY <1>1
<1>3. ((q + n) * a + 0) % a = 0
  BY <1>2, Quotient
<1> QED BY <1>2, <1>3, Product

LEMMA AlignedBy ==
  ASSUME NEW x \in Nat, NEW a \in Nat, NEW b \in Nat, a > 0, b > 0, x % a = 0, a % b = 0
  PROVE  x % b = 0
<1> DEFINE p == x \div a
           q == a \div b
<1>1. p \in Nat /\ q \in Nat /\ x = p * a /\ a = q * b
  BY Division, Product
<1> HIDE DEF p, q
<1>2. x = p * (q * b)
  BY <1>1
<1>3. p * (q * b) = (p * q) * b /\ p * q \in Nat
  BY <1>1
<1>4. ((p * q) * b + 0) % b = 0
  BY <1>3, Quotient
<1>5. (p * q) * b + 0 = x
  BY <1>2, <1>3
<1> QED BY <1>4, <1>5

(* ---- pieces of memory ---- *)

IsBlocks(B) == \A b \in B : b.at \in Nat /\ b.len \in Nat
AllClear(B) == \A b, c \in B : b # c => Clear(b, c)
Outside(B, lo, hi) == \A b \in B : b.at + b.len <= lo \/ hi <= b.at
Keeps(B, C) == \A lo, hi \in Nat : Outside(B, lo, hi) => Outside(C, lo, hi)
Within(c, b) == b.at <= c.at /\ c.at + c.len <= b.at + b.len

\* N is cut out of O: each piece of N lies in one of O, f says in which, and pieces
\* of the same one are clear of each other.
CutFrom(N, O, f) ==
  /\ f \in [N -> O]
  /\ \A n \in N : Within(n, f[n])
  /\ \A m, n \in N : m # n /\ f[m] = f[n] => Clear(m, n)

\* Where some pieces are cut up and others lost, all stay apart and where they were.
LEMMA CutUp ==
  ASSUME NEW B, NEW O, NEW N, NEW C, NEW f, IsBlocks(B), AllClear(B), O \subseteq B,
         IsBlocks(N), CutFrom(N, O, f), C \subseteq (B \ O) \cup N
  PROVE  /\ IsBlocks(C) /\ AllClear(C)
         /\ Keeps(B, C)
<1>1. IsBlocks(C)
  BY DEF IsBlocks
<1>2. ASSUME NEW b \in C, NEW c \in C, b # c PROVE Clear(b, c)
  <2>1. CASE b \in N /\ c \in N
    <3>1. f[b] \in B /\ f[c] \in B /\ Within(b, f[b]) /\ Within(c, f[c])
      BY <2>1 DEF CutFrom
    <3>2. CASE f[b] = f[c]
      BY <2>1, <3>2, <1>2 DEF CutFrom
    <3>3. CASE f[b] # f[c]
      <4>1. Clear(f[b], f[c])
        BY <3>1, <3>3 DEF AllClear
      <4>2. b.at \in Nat /\ b.len \in Nat /\ c.at \in Nat /\ c.len \in Nat
        BY <2>1 DEF IsBlocks
      <4>3. f[b].at \in Nat /\ f[b].len \in Nat /\ f[c].at \in Nat /\ f[c].len \in Nat
        BY <3>1 DEF IsBlocks
      <4> QED BY <3>1, <4>1, <4>2, <4>3 DEF Clear, Within
    <3> QED BY <3>2, <3>3
  <2>2. ASSUME NEW x \in N, NEW y \in B \ O PROVE Clear(x, y) /\ Clear(y, x)
    <3>1. f[x] \in O /\ Within(x, f[x])
      BY DEF CutFrom
    <3>2. f[x] # y /\ f[x] \in B
      BY <3>1
    <3>3. Clear(f[x], y)
      BY <3>2 DEF AllClear
    <3>4. x.at \in Nat /\ x.len \in Nat /\ y.at \in Nat /\ y.len \in Nat
      BY DEF IsBlocks
    <3>5. f[x].at \in Nat /\ f[x].len \in Nat
      BY <3>2 DEF IsBlocks
    <3> QED BY <3>1, <3>3, <3>4, <3>5 DEF Clear, Within
  <2>3. CASE b \in B \ O /\ c \in B \ O
    BY <2>3, <1>2 DEF AllClear
  <2> QED BY <2>1, <2>2, <2>3
<1>3. ASSUME NEW lo, NEW hi, lo \in Nat, hi \in Nat, Outside(B, lo, hi), NEW c \in C
      PROVE  c.at + c.len <= lo \/ hi <= c.at
  <2>1. CASE c \in B
    BY <2>1, <1>3 DEF Outside
  <2>2. CASE c \in N
    <3>1. f[c] \in B /\ Within(c, f[c])
      BY <2>2 DEF CutFrom
    <3>2. f[c].at + f[c].len <= lo \/ hi <= f[c].at
      BY <3>1, <1>3 DEF Outside
    <3>3. c.at \in Nat /\ c.len \in Nat /\ f[c].at \in Nat /\ f[c].len \in Nat
      BY <2>2, <3>1 DEF IsBlocks
    <3> QED BY <3>1, <3>2, <3>3, <1>3 DEF Within
  <2> QED BY <2>1, <2>2
<1> QED BY <1>1, <1>2, <1>3 DEF AllClear, Outside, Keeps

\* One piece is cut up.
LEMMA CutOne ==
  ASSUME NEW B, NEW b \in B, NEW N, NEW C, IsBlocks(B), AllClear(B),
         IsBlocks(N), AllClear(N), \A n \in N : Within(n, b), C \subseteq (B \ {b}) \cup N
  PROVE  /\ IsBlocks(C) /\ AllClear(C)
         /\ Keeps(B, C)
<1> DEFINE f == [n \in N |-> b]
<1>1. CutFrom(N, {b}, f)
  BY DEF CutFrom, AllClear
<1> HIDE DEF f
<1>2. {b} \subseteq B
  OBVIOUS
<1> QED BY <1>1, <1>2, CutUp

\* Pieces that are clear of each other share no unit.
LEMMA NoUnitTwice ==
  ASSUME NEW B, IsBlocks(B), AllClear(B), NEW b \in B, NEW c \in B, b # c
  PROVE  Units(b.at, b.len) \cap Units(c.at, c.len) = {}
<1>1. b.at \in Nat /\ b.len \in Nat /\ c.at \in Nat /\ c.len \in Nat /\ Clear(b, c)
  BY DEF IsBlocks, AllClear
<1> QED BY <1>1 DEF Clear, Units

LEMMA UnitsCount ==
  ASSUME NEW at \in Nat, NEW len \in Nat
  PROVE  IsFiniteSet(Units(at, len)) /\ Cardinality(Units(at, len)) = len
<1>1. IsFiniteSet(at..(at + len - 1)) /\ Cardinality(at..(at + len - 1)) = IF at > at + len - 1 THEN 0 ELSE (at + len - 1) - at + 1
  BY FS_Interval
<1> QED BY <1>1 DEF Units

LEMMA OutsideUnits ==
  ASSUME NEW B, IsBlocks(B), NEW lo \in Nat, NEW hi \in Int, lo < hi => Outside(B, lo, hi), NEW b \in B
  PROVE  Units(b.at, b.len) \cap Units(lo, hi - lo) = {}
<1>1. b.at \in Nat /\ b.len \in Nat
  BY DEF IsBlocks
<1>2. lo < hi => b.at + b.len <= lo \/ hi <= b.at
  BY DEF Outside
<1> QED BY <1>1, <1>2 DEF Units

(* ---- the allocator's invariant ---- *)

LEMMA Sizes ==
  /\ Page \in Nat /\ Page > 0 /\ BigMax \in Nat /\ K0Bump \in Nat
  /\ LowEnd \in Nat /\ FsImg \in Nat /\ FsEnd \in Nat /\ MmapArea \in Nat
  /\ 0 < LowEnd /\ LowEnd <= FsImg /\ FsImg <= FsEnd /\ FsEnd < MmapArea
  /\ FsImg % Page = 0 /\ MmapArea % Page = 0
  /\ \A size \in Classes : size \in Nat /\ size > 0 /\ size <= Page /\ Page % size = 0
  /\ Page \in Classes
BY AllocAssumption

Paged == {"page", "table", "block"}
Owners == {"page", "table", "block", "chunk", "linux"}

Ram == [new : SUBSET [start : Nat, end : Nat], free : SUBSET Nat,
        chunks : [Classes -> SUBSET Nat], big : [1..BigMax -> SUBSET Nat],
        used : Nat, imported : BOOLEAN, owned : SUBSET [at : Nat, len : Nat, how : Owners]]

\* What is owned has the size and place of its kind; pages are at multiples of Page.
BlockOK(b) ==
  /\ b.how \in {"page", "table"} => b.len = Page
  /\ b.how = "block" => b.len > Page /\ b.len % Page = 0
  /\ b.how = "chunk" => b.len \in Classes
  /\ b.how \in Paged => b.at % Page = 0
RegOK(r) == LowEnd <= r.start /\ r.start <= r.end /\ r.start % Page = 0 /\ r.end % Page = 0
Placed(A) ==
  /\ \A b \in A.owned : BlockOK(b)
  /\ \A r \in A.new : RegOK(r)
  /\ \A p \in A.free : p % Page = 0
  /\ \A n \in 1..BigMax : \A p \in A.big[n] : p % Page = 0

Blocks(A) == A.owned \cup FreeBlocks(A)
Taken(A) == UNION {Units(b.at, b.len) : b \in Counted(A)}

\* Until the import nothing touches the pages of K0's image.
ImageEnd == AlignUp(FsEnd, Page)
Bounded(A) ==
  /\ Outside(Blocks(A), 0, LowEnd)
  /\ MmapArea < K0Bump => Outside(Blocks(A), MmapArea, K0Bump)
  /\ ~A.imported => Outside(Blocks(A), FsImg, ImageEnd)

RamOK(A) ==
  /\ A \in Ram /\ Placed(A)
  /\ AllClear(Blocks(A)) /\ Bounded(A)
  /\ IsFiniteSet(Taken(A)) /\ A.used = Cardinality(Taken(A))

FreePage(p) == [at |-> p, len |-> Page, how |-> "free page"]
FreeChunk(p, size) == [at |-> p, len |-> size, how |-> "free chunk"]
FreeBig(p, n) == [at |-> p, len |-> n * Page, how |-> "free block"]
NewPart(r) == [at |-> r.start, len |-> r.end - r.start, how |-> "new"]

LEMMA BlockIs ==
  ASSUME NEW A, NEW b
  PROVE  b \in Blocks(A) <=>
           \/ b \in A.owned
           \/ \E p \in A.free : b = FreePage(p)
           \/ \E size \in Classes : \E p \in A.chunks[size] : b = FreeChunk(p, size)
           \/ \E n \in 1..BigMax : \E p \in A.big[n] : b = FreeBig(p, n)
           \/ \E r \in A.new : b = NewPart(r)
<1> DEFINE S1 == {[at |-> p, len |-> Page, how |-> "free page"] : p \in A.free}
           C(size) == {[at |-> p, len |-> size, how |-> "free chunk"] : p \in A.chunks[size]}
           S2 == UNION {C(size) : size \in Classes}
           B(n) == {[at |-> p, len |-> n * Page, how |-> "free block"] : p \in A.big[n]}
           S3 == UNION {B(n) : n \in 1..BigMax}
           S4 == {[at |-> r.start, len |-> r.end - r.start, how |-> "new"] : r \in A.new}
<1>1. b \in S1 <=> \E p \in A.free : b = FreePage(p)
  BY Zenon DEF FreePage
<1>2. b \in S2 <=> \E size \in Classes : \E p \in A.chunks[size] : b = FreeChunk(p, size)
  <2>1. \A size : b \in C(size) <=> \E p \in A.chunks[size] : b = FreeChunk(p, size)
    BY Zenon DEF FreeChunk
  <2> HIDE DEF C
  <2> QED BY <2>1, Zenon
<1>3. b \in S3 <=> \E n \in 1..BigMax : \E p \in A.big[n] : b = FreeBig(p, n)
  <2>1. \A n : b \in B(n) <=> \E p \in A.big[n] : b = FreeBig(p, n)
    BY Zenon DEF FreeBig
  <2> HIDE DEF B
  <2> QED BY <2>1, Zenon
<1>4. b \in S4 <=> \E r \in A.new : b = NewPart(r)
  BY Zenon DEF NewPart
<1>5. Blocks(A) = A.owned \cup (S1 \cup S2 \cup S3 \cup S4)
  BY DEF Blocks, FreeBlocks
<1> HIDE DEF S1, S2, S3, S4
<1> QED BY <1>1, <1>2, <1>3, <1>4, <1>5, Zenon

LEMMA TakenIs ==
  ASSUME NEW A, A \in Ram, NEW u
  PROVE  u \in Taken(A) <=>
           \/ \E b \in A.owned : b.how # "linux" /\ u \in Units(b.at, b.len)
           \/ \E size \in Classes : \E p \in A.chunks[size] : u \in Units(p, size)
<1>1. ASSUME NEW b PROVE
        b \in Counted(A) <=> \/ b \in A.owned /\ b.how # "linux"
                             \/ \E size \in Classes : \E p \in A.chunks[size] : b = FreeChunk(p, size)
  <2>1. ASSUME b \in Counted(A) PROVE
        \/ b \in A.owned /\ b.how # "linux"
        \/ \E size \in Classes : \E p \in A.chunks[size] : b = FreeChunk(p, size)
    <3>1. b \in Blocks(A) /\ b.how \in {"page", "table", "block", "chunk", "free chunk"}
      BY <2>1 DEF Counted, Blocks
    <3>2. CASE b \in A.owned
      BY <3>1, <3>2
    <3>3. CASE b \notin A.owned
      <4>1. \/ \E p \in A.free : b = FreePage(p)
            \/ \E size \in Classes : \E p \in A.chunks[size] : b = FreeChunk(p, size)
            \/ \E n \in 1..BigMax : \E p \in A.big[n] : b = FreeBig(p, n)
            \/ \E r \in A.new : b = NewPart(r)
        BY <3>1, <3>3, BlockIs, Zenon
      <4>2. /\ \A p : FreePage(p).how = "free page"
            /\ \A p, n : FreeBig(p, n).how = "free block"
            /\ \A r : NewPart(r).how = "new"
        BY DEF FreePage, FreeBig, NewPart
      <4>3. b.how # "free page" /\ b.how # "free block" /\ b.how # "new"
        BY <3>1
      <4> QED BY <4>1, <4>2, <4>3, Zenon
    <3> QED BY <3>2, <3>3
  <2>2. ASSUME b \in A.owned, b.how # "linux" PROVE b \in Counted(A)
    <3>1. b.how \in Owners
      BY <2>2 DEF Ram
    <3> QED BY <2>2, <3>1 DEF Counted, Owners
  <2>3. ASSUME NEW size \in Classes, NEW p \in A.chunks[size], b = FreeChunk(p, size) PROVE b \in Counted(A)
    <3>1. b \in Blocks(A)
      BY <2>3, BlockIs, Zenon
    <3>2. b.how = "free chunk"
      BY <2>3 DEF FreeChunk
    <3> QED BY <3>1, <3>2 DEF Counted, Blocks
  <2> QED BY <2>1, <2>2, <2>3
<1>2. u \in Taken(A) <=> \E b \in Counted(A) : u \in Units(b.at, b.len)
  BY Zenon DEF Taken
<1>3. ASSUME NEW size, NEW p PROVE FreeChunk(p, size).at = p /\ FreeChunk(p, size).len = size
  BY DEF FreeChunk
<1>4. ASSUME u \in Taken(A)
      PROVE  \/ \E b \in A.owned : b.how # "linux" /\ u \in Units(b.at, b.len)
             \/ \E size \in Classes : \E p \in A.chunks[size] : u \in Units(p, size)
  <2>1. PICK b \in Counted(A) : u \in Units(b.at, b.len)
    BY <1>2, <1>4
  <2>2. CASE b \in A.owned /\ b.how # "linux"
    BY <2>1, <2>2
  <2>3. ASSUME NEW size \in Classes, NEW p \in A.chunks[size], b = FreeChunk(p, size)
        PROVE  u \in Units(p, size)
    BY <2>1, <2>3, <1>3
  <2> QED BY <1>1, <2>2, <2>3
<1>5. ASSUME NEW b \in A.owned, b.how # "linux", u \in Units(b.at, b.len) PROVE u \in Taken(A)
  BY <1>1, <1>2, <1>5
<1>6. ASSUME NEW size \in Classes, NEW p \in A.chunks[size], u \in Units(p, size) PROVE u \in Taken(A)
  BY <1>1, <1>2, <1>3, <1>6
<1> QED BY <1>4, <1>5, <1>6

LEMMA BlocksTyped ==
  ASSUME NEW A, A \in Ram, Placed(A)
  PROVE  IsBlocks(Blocks(A))
<1> SUFFICES ASSUME NEW b \in Blocks(A) PROVE b.at \in Nat /\ b.len \in Nat
  BY DEF IsBlocks
<1>1. CASE b \in A.owned
  BY <1>1 DEF Ram
<1>2. ASSUME NEW p \in A.free, b = FreePage(p) PROVE b.at \in Nat /\ b.len \in Nat
  BY <1>2, Sizes DEF FreePage, Ram
<1>3. ASSUME NEW size \in Classes, NEW p \in A.chunks[size], b = FreeChunk(p, size)
      PROVE b.at \in Nat /\ b.len \in Nat
  <2>1. p \in Nat
    BY DEF Ram
  <2> QED BY <1>3, <2>1, Sizes DEF FreeChunk
<1>4. ASSUME NEW n \in 1..BigMax, NEW p \in A.big[n], b = FreeBig(p, n)
      PROVE b.at \in Nat /\ b.len \in Nat
  <2>1. p \in Nat /\ n \in Nat
    BY Sizes DEF Ram
  <2>2. n * Page \in Nat
    BY <2>1, Sizes, Product
  <2> QED BY <1>4, <2>1, <2>2 DEF FreeBig
<1>5. ASSUME NEW r \in A.new, b = NewPart(r) PROVE b.at \in Nat /\ b.len \in Nat
  <2>1. r.start \in Nat /\ r.end \in Nat /\ r.start <= r.end
    BY DEF Ram, Placed, RegOK
  <2> QED BY <1>5, <2>1 DEF NewPart
<1> QED BY <1>1, <1>2, <1>3, <1>4, <1>5, BlockIs

LEMMA BoundedCut ==
  ASSUME NEW A, NEW Z, Bounded(A), Keeps(Blocks(A), Blocks(Z)), Z.imported = A.imported
  PROVE  Bounded(Z)
<1>1. ImageEnd \in Nat /\ LowEnd \in Nat /\ 0 \in Nat /\ MmapArea \in Nat /\ K0Bump \in Nat /\ FsImg \in Nat
  BY Sizes, AlignedUp DEF ImageEnd
<1> QED BY <1>1 DEF Bounded, Keeps

\* The memory after a step that cuts pieces out of others.
LEMMA RamCut ==
  ASSUME NEW A, RamOK(A), NEW Z \in Ram, Placed(Z), Z.imported = A.imported,
         NEW O, NEW N, NEW f, O \subseteq Blocks(A), IsBlocks(N), CutFrom(N, O, f),
         Blocks(Z) \subseteq (Blocks(A) \ O) \cup N,
         IsFiniteSet(Taken(Z)), Z.used = Cardinality(Taken(Z))
  PROVE  RamOK(Z)
<1>1. IsBlocks(Blocks(A)) /\ AllClear(Blocks(A)) /\ Bounded(A)
  BY BlocksTyped DEF RamOK
<1>2. AllClear(Blocks(Z)) /\ Keeps(Blocks(A), Blocks(Z))
  BY <1>1, CutUp
<1>3. Bounded(Z)
  BY <1>1, <1>2, BoundedCut
<1> QED BY <1>2, <1>3 DEF RamOK

LEMMA RamCutOne ==
  ASSUME NEW A, RamOK(A), NEW Z \in Ram, Placed(Z), Z.imported = A.imported,
         NEW b \in Blocks(A), NEW N, IsBlocks(N), AllClear(N), \A n \in N : Within(n, b),
         Blocks(Z) \subseteq (Blocks(A) \ {b}) \cup N,
         IsFiniteSet(Taken(Z)), Z.used = Cardinality(Taken(Z))
  PROVE  RamOK(Z)
<1>1. IsBlocks(Blocks(A)) /\ AllClear(Blocks(A)) /\ Bounded(A)
  BY BlocksTyped DEF RamOK
<1>2. AllClear(Blocks(Z)) /\ Keeps(Blocks(A), Blocks(Z))
  BY <1>1, CutOne
<1>3. Bounded(Z)
  BY <1>1, <1>2, BoundedCut
<1> QED BY <1>2, <1>3 DEF RamOK

(* ---- taking memory ---- *)

\* Min of a set of naturals is in it.
LEMMA MinIn ==
  ASSUME NEW S \in SUBSET Nat, S # {}
  PROVE  Min(S) \in S /\ \A y \in S : Min(S) <= y
<1> DEFINE R == OpToRel(<, Nat)
<1>1. \A x, y \in Nat : x < y => <<x, y>> \in R
  BY Zenon DEF OpToRel
<1>2. IsWellFoundedOn(R, Nat)
  BY NatLessThanWellFounded, Zenon
<1> HIDE DEF R
<1>3. PICK x \in S : \A y \in S : ~ (<<y, x>> \in R)
  BY <1>2, WFMin
<1>4. S \subseteq Nat
  OBVIOUS
<1>5. \A y \in S : ~ (y < x)
  BY <1>1, <1>4, <1>3, Zenon
<1>6. \A y \in S : x <= y
  BY <1>5, <1>4
<1> QED
  BY <1>6 DEF Min

LEMMA LowestIn ==
  ASSUME NEW S, S \subseteq [start : Nat, end : Nat], S # {}
  PROVE  Lowest(S) \in S /\ \A s \in S : Lowest(S).start <= s.start
<1> DEFINE T == {s.start : s \in S}
<1>1. T \in SUBSET Nat /\ T # {}
  OBVIOUS
<1>2. Min(T) \in T /\ \A y \in T : Min(T) <= y
  BY <1>1, MinIn
<1>3. PICK r \in S : r.start = Min(T)
  BY <1>2
<1>4. \A s \in S : r.start <= s.start
  BY <1>2, <1>3
<1>5. \E x \in S : \A s \in S : x.start <= s.start
  BY <1>4
<1> QED BY <1>5 DEF Lowest

LEMMA WithinUnits ==
  ASSUME NEW x \in Nat, NEW m \in Nat, NEW y \in Nat, NEW n \in Nat, y <= x, x + m <= y + n
  PROVE  Units(x, m) \subseteq Units(y, n)
BY DEF Units

LEMMA Kinds ==
  /\ \A p : FreePage(p).at = p /\ FreePage(p).len = Page /\ FreePage(p).how = "free page"
  /\ \A p, n : FreeChunk(p, n).at = p /\ FreeChunk(p, n).len = n /\ FreeChunk(p, n).how = "free chunk"
  /\ \A p, n : FreeBig(p, n).at = p /\ FreeBig(p, n).len = n * Page /\ FreeBig(p, n).how = "free block"
  /\ \A r : NewPart(r).at = r.start /\ NewPart(r).len = r.end - r.start /\ NewPart(r).how = "new"
BY DEF FreePage, FreeChunk, FreeBig, NewPart

LEMMA OwnedKinds ==
  ASSUME NEW A, A \in Ram, NEW b \in A.owned
  PROVE  /\ b.at \in Nat /\ b.len \in Nat /\ b.how \in Owners /\ b \in Blocks(A)
         /\ b.how # "free page" /\ b.how # "free chunk" /\ b.how # "free block" /\ b.how # "new"
<1>1. b.at \in Nat /\ b.len \in Nat /\ b.how \in Owners
  BY DEF Ram
<1> QED BY <1>1 DEF Owners, Blocks

\* Which blocks there are, field by field.
LEMMA BlocksFrom ==
  ASSUME NEW A, NEW Z, NEW N,
         Z.owned \subseteq A.owned \cup N,
         \A p \in Z.free : p \in A.free \/ FreePage(p) \in N,
         \A size \in Classes : \A p \in Z.chunks[size] : p \in A.chunks[size] \/ FreeChunk(p, size) \in N,
         \A n \in 1..BigMax : \A p \in Z.big[n] : p \in A.big[n] \/ FreeBig(p, n) \in N,
         \A r \in Z.new : r \in A.new \/ NewPart(r) \in N
  PROVE  Blocks(Z) \subseteq Blocks(A) \cup N
<1> SUFFICES ASSUME NEW c \in Blocks(Z), c \notin N PROVE c \in Blocks(A)
  OBVIOUS
<1>1. CASE c \in Z.owned
  BY <1>1 DEF Blocks
<1>2. ASSUME NEW p \in Z.free, c = FreePage(p) PROVE c \in Blocks(A)
  BY <1>2, BlockIs, Zenon
<1>3. ASSUME NEW size \in Classes, NEW p \in Z.chunks[size], c = FreeChunk(p, size) PROVE c \in Blocks(A)
  BY <1>3, BlockIs, Zenon
<1>4. ASSUME NEW n \in 1..BigMax, NEW p \in Z.big[n], c = FreeBig(p, n) PROVE c \in Blocks(A)
  BY <1>4, BlockIs, Zenon
<1>5. ASSUME NEW r \in Z.new, c = NewPart(r) PROVE c \in Blocks(A)
  BY <1>5, BlockIs, Zenon
<1>6. \/ c \in Z.owned
      \/ \E p \in Z.free : c = FreePage(p)
      \/ \E size \in Classes : \E p \in Z.chunks[size] : c = FreeChunk(p, size)
      \/ \E n \in 1..BigMax : \E p \in Z.big[n] : c = FreeBig(p, n)
      \/ \E r \in Z.new : c = NewPart(r)
  BY BlockIs, Zenon
<1> QED BY <1>1, <1>2, <1>3, <1>4, <1>5, <1>6, Zenon

\* A block that is nobody's is on one list only.
LEMMA KindsDiffer ==
  ASSUME NEW A, A \in Ram, NEW b \in Blocks(A)
  PROVE  /\ b.how = "free page" => \E p \in A.free : b = FreePage(p)
         /\ b.how = "free chunk" => \E size \in Classes : \E p \in A.chunks[size] : b = FreeChunk(p, size)
         /\ b.how = "free block" => \E n \in 1..BigMax : \E p \in A.big[n] : b = FreeBig(p, n)
         /\ b.how = "new" => \E r \in A.new : b = NewPart(r)
<1>1. b \in A.owned => b.how # "free page" /\ b.how # "free chunk" /\ b.how # "free block" /\ b.how # "new"
  BY OwnedKinds
<1>2. \/ b \in A.owned
      \/ \E p \in A.free : b = FreePage(p)
      \/ \E size \in Classes : \E p \in A.chunks[size] : b = FreeChunk(p, size)
      \/ \E n \in 1..BigMax : \E p \in A.big[n] : b = FreeBig(p, n)
      \/ \E r \in A.new : b = NewPart(r)
  BY BlockIs, Zenon
<1>3. /\ "free page" # "free chunk" /\ "free page" # "free block" /\ "free page" # "new"
      /\ "free chunk" # "free block" /\ "free chunk" # "new" /\ "free block" # "new"
  OBVIOUS
<1>4. ASSUME NEW p, b = FreePage(p) PROVE b.how = "free page"
  BY <1>4 DEF FreePage
<1>5. ASSUME NEW p, NEW size, b = FreeChunk(p, size) PROVE b.how = "free chunk"
  BY <1>5 DEF FreeChunk
<1>6. ASSUME NEW p, NEW n, b = FreeBig(p, n) PROVE b.how = "free block"
  BY <1>6 DEF FreeBig
<1>7. ASSUME NEW r, b = NewPart(r) PROVE b.how = "new"
  BY <1>7 DEF NewPart
<1> QED BY <1>1, <1>2, <1>3, <1>4, <1>5, <1>6, <1>7, Zenon

LEMMA FreePageIs ==
  ASSUME NEW A, A \in Ram, NEW p
  PROVE  FreePage(p) \in Blocks(A) <=> p \in A.free
<1> SUFFICES ASSUME FreePage(p) \in Blocks(A) PROVE p \in A.free
  BY BlockIs, Zenon
<1>1. FreePage(p).how = "free page"
  BY DEF FreePage
<1>2. PICK q \in A.free : FreePage(p) = FreePage(q)
  BY <1>1, KindsDiffer, Zenon
<1> QED BY <1>2 DEF FreePage

LEMMA FreeChunkIs ==
  ASSUME NEW A, A \in Ram, NEW p, NEW size \in Classes
  PROVE  FreeChunk(p, size) \in Blocks(A) <=> p \in A.chunks[size]
<1> SUFFICES ASSUME FreeChunk(p, size) \in Blocks(A) PROVE p \in A.chunks[size]
  BY BlockIs, Zenon
<1>0. FreeChunk(p, size).how = "free chunk"
  BY DEF FreeChunk
<1>1. \E t \in Classes : \E q \in A.chunks[t] : FreeChunk(p, size) = FreeChunk(q, t)
  BY <1>0, KindsDiffer, Zenon
<1>2. PICK t \in Classes : \E q \in A.chunks[t] : FreeChunk(p, size) = FreeChunk(q, t)
  BY <1>1
<1>3. PICK q \in A.chunks[t] : FreeChunk(p, size) = FreeChunk(q, t)
  BY <1>2
<1>4. p = q /\ size = t
  BY <1>3 DEF FreeChunk
<1> QED BY <1>3, <1>4

LEMMA FreeBigIs ==
  ASSUME NEW A, A \in Ram, NEW p, NEW n \in 1..BigMax
  PROVE  FreeBig(p, n) \in Blocks(A) <=> p \in A.big[n]
<1> SUFFICES ASSUME FreeBig(p, n) \in Blocks(A) PROVE p \in A.big[n]
  BY BlockIs, Zenon
<1>0. FreeBig(p, n).how = "free block"
  BY DEF FreeBig
<1>1. \E m \in 1..BigMax : \E q \in A.big[m] : FreeBig(p, n) = FreeBig(q, m)
  BY <1>0, KindsDiffer, Zenon
<1>2. PICK m \in 1..BigMax : \E q \in A.big[m] : FreeBig(p, n) = FreeBig(q, m)
  BY <1>1
<1>3. PICK q \in A.big[m] : FreeBig(p, n) = FreeBig(q, m)
  BY <1>2
<1>4. q = p /\ m * Page = n * Page
  <2> DEFINE x == m * Page
             y == n * Page
  <2>1. [at |-> p, len |-> y, how |-> "free block"] = [at |-> q, len |-> x, how |-> "free block"]
    BY <1>3 DEF FreeBig
  <2> HIDE DEF x, y
  <2>2. q = p /\ x = y
    BY <2>1
  <2> QED BY <2>2 DEF x, y
<1>5. m \in Nat /\ n \in Nat
  BY Sizes
<1>6. m * Page \in Nat /\ n * Page \in Nat
  BY <1>5, Sizes, Product
<1>7. m * Page < n * Page + Page /\ n * Page < m * Page + Page
  BY <1>4, <1>6, Sizes
<1>8. m <= n /\ n <= m
  BY <1>5, <1>7, Sizes, Multiples
<1>9. m = n
  BY <1>5, <1>8
<1> QED BY <1>3, <1>4, <1>9

LEMMA NewPartIs ==
  ASSUME NEW A, A \in Ram, NEW r \in [start : Nat, end : Nat]
  PROVE  NewPart(r) \in Blocks(A) <=> r \in A.new
<1> SUFFICES ASSUME NewPart(r) \in Blocks(A) PROVE r \in A.new
  BY BlockIs, Zenon
<1>0. NewPart(r).how = "new"
  BY DEF NewPart
<1>1. PICK s \in A.new : NewPart(r) = NewPart(s)
  BY <1>0, KindsDiffer, Zenon
<1>2. s \in [start : Nat, end : Nat]
  BY DEF Ram
<1>3. s.start = r.start /\ s.end - s.start = r.end - r.start
  BY <1>1 DEF NewPart
<1>4. s.end = r.end
  BY <1>2, <1>3
<1>5. s = r
  BY <1>2, <1>3, <1>4
<1> QED BY <1>5

Memory(n, f, c, b, u, i, o) ==
  [new |-> n, free |-> f, chunks |-> c, big |-> b, used |-> u, imported |-> i, owned |-> o]

LEMMA MemoryWith ==
  ASSUME NEW n, NEW f, NEW c, NEW b, NEW u, NEW i, NEW o, NEW x
  PROVE  /\ [Memory(n, f, c, b, u, i, o) EXCEPT !.new = x] = Memory(x, f, c, b, u, i, o)
         /\ [Memory(n, f, c, b, u, i, o) EXCEPT !.free = x] = Memory(n, x, c, b, u, i, o)
         /\ [Memory(n, f, c, b, u, i, o) EXCEPT !.chunks = x] = Memory(n, f, x, b, u, i, o)
         /\ [Memory(n, f, c, b, u, i, o) EXCEPT !.big = x] = Memory(n, f, c, x, u, i, o)
         /\ [Memory(n, f, c, b, u, i, o) EXCEPT !.used = x] = Memory(n, f, c, b, x, i, o)
         /\ [Memory(n, f, c, b, u, i, o) EXCEPT !.imported = x] = Memory(n, f, c, b, u, x, o)
         /\ [Memory(n, f, c, b, u, i, o) EXCEPT !.owned = x] = Memory(n, f, c, b, u, i, x)
BY DEF Memory

LEMMA MemoryFields ==
  ASSUME NEW n, NEW f, NEW c, NEW b, NEW u, NEW i, NEW o, NEW Z, Z = Memory(n, f, c, b, u, i, o)
  PROVE  /\ Z.new = n /\ Z.free = f /\ Z.chunks = c /\ Z.big = b
         /\ Z.used = u /\ Z.imported = i /\ Z.owned = o
BY DEF Memory

LEMMA OwnMemory ==
  ASSUME NEW n, NEW f, NEW c, NEW b, NEW u, NEW i, NEW o, NEW got, NEW len, NEW how,
         got.ram = Memory(n, f, c, b, u, i, o),
         NEW e, e = [at |-> got.at, len |-> len, how |-> how]
  PROVE  Own(got, len, how) = Memory(n, f, c, b, u, i, o \cup {e})
<1> DEFINE Y == Memory(n, f, c, b, u, i, o)
           x == o \cup {e}
<1>1. Y.owned = o
  BY DEF Memory
<1>2. [Y EXCEPT !.owned = x] = Memory(n, f, c, b, u, i, x)
  BY DEF Memory
<1> HIDE DEF Y
<1>3. Own(got, len, how) = [Y EXCEPT !.owned = x]
  BY <1>1 DEF Own, Y
<1> QED BY <1>2, <1>3

LEMMA MemoryIs ==
  ASSUME NEW A, A \in Ram
  PROVE  A = Memory(A.new, A.free, A.chunks, A.big, A.used, A.imported, A.owned)
BY DEF Ram, Memory

LEMMA MemoryTyped ==
  ASSUME NEW n, n \subseteq [start : Nat, end : Nat], NEW f, f \subseteq Nat,
         NEW c \in [Classes -> SUBSET Nat], NEW b \in [1..BigMax -> SUBSET Nat],
         NEW u \in Nat, NEW i \in BOOLEAN, NEW o, o \subseteq [at : Nat, len : Nat, how : Owners]
  PROVE  Memory(n, f, c, b, u, i, o) \in Ram
BY DEF Ram, Memory

LEMMA RamTyped ==
  ASSUME NEW A, A \in Ram
  PROVE  /\ A.new \subseteq [start : Nat, end : Nat] /\ A.free \subseteq Nat
         /\ A.chunks \in [Classes -> SUBSET Nat] /\ A.big \in [1..BigMax -> SUBSET Nat]
         /\ A.used \in Nat /\ A.imported \in BOOLEAN
         /\ A.owned \subseteq [at : Nat, len : Nat, how : Owners]
BY DEF Ram

LEMMA CountMore ==
  ASSUME NEW S, NEW T, IsFiniteSet(S), IsFiniteSet(T), S \cap T = {}
  PROVE  /\ IsFiniteSet(S \cup T) /\ Cardinality(S \cup T) = Cardinality(S) + Cardinality(T)
         /\ Cardinality(S) \in Nat /\ Cardinality(T) \in Nat
<1>1. /\ IsFiniteSet(S \cup T)
      /\ Cardinality(S \cup T) = Cardinality(S) + Cardinality(T) - Cardinality(S \cap T)
  BY FS_Union
<1>2. Cardinality({}) = 0
  BY FS_EmptySet
<1>3. Cardinality(S \cap T) = 0
  BY <1>2
<1>4. Cardinality(S) \in Nat /\ Cardinality(T) \in Nat
  BY FS_CardinalityType
<1> DEFINE x == Cardinality(S)
           y == Cardinality(T)
           z == Cardinality(S \cap T)
           w == Cardinality(S \cup T)
<1>5. w = x + y - z /\ z = 0 /\ x \in Nat /\ y \in Nat
  BY <1>1, <1>3, <1>4
<1> HIDE DEF x, y, z, w
<1>6. w = x + y
  BY <1>5
<1> QED BY <1>1, <1>4, <1>6 DEF x, y, w

\* A piece goes to an owner, out of a block that was nobody's; M is what is left.
LEMMA TakeOne ==
  ASSUME NEW A, RamOK(A), NEW Z \in Ram, Placed(Z), Z.imported = A.imported, Z.chunks = A.chunks,
         NEW b \in Blocks(A), b.how \in {"free page", "free block", "new"},
         NEW e \in [at : Nat, len : Nat, how : Owners], e.how # "chunk",
         Z.owned = A.owned \cup {e},
         NEW M, IsBlocks(M), AllClear(M \cup {e}), \A n \in M \cup {e} : Within(n, b),
         Blocks(Z) \subseteq (Blocks(A) \ {b}) \cup (M \cup {e}),
         Z.used = IF e.how = "linux" THEN A.used ELSE A.used + e.len
  PROVE  /\ RamOK(Z)
         /\ \A c \in A.owned : Units(c.at, c.len) \cap Units(e.at, e.len) = {}
<1>1. A \in Ram /\ IsBlocks(Blocks(A)) /\ AllClear(Blocks(A)) /\ IsFiniteSet(Taken(A)) /\ A.used = Cardinality(Taken(A))
  BY BlocksTyped DEF RamOK
<1>2. e.at \in Nat /\ e.len \in Nat /\ b.at \in Nat /\ b.len \in Nat /\ Within(e, b)
  BY <1>1 DEF IsBlocks
<1>3. Units(e.at, e.len) \subseteq Units(b.at, b.len)
  <2> DEFINE x == e.at
             m == e.len
             y == b.at
             n == b.len
  <2>1. y <= x /\ x + m <= y + n /\ x \in Nat /\ m \in Nat /\ y \in Nat /\ n \in Nat
    BY <1>2 DEF Within
  <2> HIDE DEF x, y, m, n
  <2>2. Units(x, m) \subseteq Units(y, n)
    BY <2>1, WithinUnits
  <2> QED BY <2>2 DEF x, y, m, n
<1>4. \A c \in Blocks(A) : c # b => Units(c.at, c.len) \cap Units(b.at, b.len) = {}
  BY <1>1, NoUnitTwice
<1>5. b \notin A.owned
  BY <1>1 DEF Ram, Owners
<1>6. \A c \in A.owned : Units(c.at, c.len) \cap Units(e.at, e.len) = {}
  BY <1>3, <1>4, <1>5 DEF Blocks
<1>7. Taken(A) \cap Units(e.at, e.len) = {}
  <2> SUFFICES ASSUME NEW u \in Taken(A), u \in Units(e.at, e.len) PROVE FALSE
    OBVIOUS
  <2>1. ASSUME NEW c \in A.owned, u \in Units(c.at, c.len) PROVE FALSE
    BY <2>1, <1>6
  <2>2. ASSUME NEW size \in Classes, NEW p \in A.chunks[size], u \in Units(p, size) PROVE FALSE
    <3>1. FreeChunk(p, size) \in Blocks(A)
      BY BlockIs, Zenon
    <3>2. FreeChunk(p, size).at = p /\ FreeChunk(p, size).len = size /\ FreeChunk(p, size).how = "free chunk"
      BY DEF FreeChunk
    <3>3. FreeChunk(p, size) # b
      BY <3>2
    <3> QED BY <3>1, <3>2, <3>3, <1>3, <1>4, <2>2
  <2> QED BY <1>1, <2>1, <2>2, TakenIs
<1>8. Taken(Z) = IF e.how = "linux" THEN Taken(A) ELSE Taken(A) \cup Units(e.at, e.len)
  <2> SUFFICES ASSUME NEW u
               PROVE  u \in Taken(Z) <=> u \in Taken(A) \/ (e.how # "linux" /\ u \in Units(e.at, e.len))
    OBVIOUS
  <2>1. u \in Taken(Z) <=>
          \/ \E c \in A.owned \cup {e} : c.how # "linux" /\ u \in Units(c.at, c.len)
          \/ \E size \in Classes : \E p \in A.chunks[size] : u \in Units(p, size)
    BY TakenIs
  <2>2. u \in Taken(A) <=>
          \/ \E c \in A.owned : c.how # "linux" /\ u \in Units(c.at, c.len)
          \/ \E size \in Classes : \E p \in A.chunks[size] : u \in Units(p, size)
    BY <1>1, TakenIs
  <2> QED BY <2>1, <2>2
<1>9. IsFiniteSet(Taken(Z)) /\ Z.used = Cardinality(Taken(Z))
  <2>1. CASE e.how = "linux"
    BY <2>1, <1>1, <1>8
  <2>2. CASE e.how # "linux"
    <3>1. IsFiniteSet(Units(e.at, e.len)) /\ Cardinality(Units(e.at, e.len)) = e.len
      BY <1>2, UnitsCount
    <3> DEFINE S == Taken(A)
               T == Units(e.at, e.len)
    <3> HIDE DEF S, T
    <3>2. IsFiniteSet(S) /\ IsFiniteSet(T) /\ S \cap T = {}
      BY <3>1, <1>1, <1>7 DEF S, T
    <3>3. IsFiniteSet(S \cup T) /\ Cardinality(S \cup T) = Cardinality(S) + Cardinality(T)
      BY <3>2, CountMore
    <3>4. Cardinality(T) = e.len /\ A.used = Cardinality(S)
      BY <3>1, <1>1 DEF S, T
    <3>5. Taken(Z) = S \cup T /\ Z.used = A.used + e.len
      BY <2>2, <1>8 DEF S, T
    <3> QED BY <3>3, <3>4, <3>5
  <2> QED BY <2>1, <2>2
<1>10. IsBlocks(M \cup {e})
  BY <1>2 DEF IsBlocks
<1>11. RamOK(Z)
  BY <1>9, <1>10, RamCutOne
<1> QED BY <1>6, <1>11

\* What taking memory must have done: `got` is now the owner's, apart from what
\* was owned before.
Took(A, got, len, how) ==
  /\ got.at \in Nat
  /\ RamOK(Own(got, len, how))
  /\ Own(got, len, how).owned = A.owned \cup {[at |-> got.at, len |-> len, how |-> how]}
  /\ Own(got, len, how).imported = A.imported
  /\ \A c \in A.owned : Units(c.at, c.len) \cap Units(got.at, len) = {}

NewOK(n) == n \subseteq [start : Nat, end : Nat] /\ \A r \in n : RegOK(r)

\* What is left of the regions and the lists, when `b` is taken from them and M
\* remains of it.
LeftOK(A, n, f, g) ==
  /\ NewOK(n) /\ f \subseteq A.free
  /\ g \in [1..BigMax -> SUBSET Nat] /\ \A k \in 1..BigMax : g[k] \subseteq A.big[k]
CutOf(e, b, M) == IsBlocks(M) /\ AllClear(M \cup {e}) /\ \A m \in M \cup {e} : Within(m, b)
OutOf(A, n, f, g, b, M) ==
  /\ \A r \in n : (r \in A.new \/ NewPart(r) \in M) /\ (b = NewPart(r) => b \in M)
  /\ \A p \in f : b # FreePage(p)
  /\ \A k \in 1..BigMax : \A p \in g[k] : b # FreeBig(p, k)
UsedWith(A, e) == IF e.how = "linux" THEN A.used ELSE A.used + e.len
IsOwned(e) == e \in [at : Nat, len : Nat, how : Owners] /\ BlockOK(e) /\ e.how # "chunk"
IsFree(A, b) == b \in Blocks(A) /\ b.how \in {"free page", "free block", "new"}
IsLeft(Z, A, n, f, g, e) == Z = Memory(n, f, A.chunks, g, UsedWith(A, e), A.imported, A.owned \cup {e})

LEMMA LeftIs ==
  ASSUME NEW A, A \in Ram, NEW n, NEW f, NEW g, LeftOK(A, n, f, g), NEW e, IsOwned(e),
         NEW Z, IsLeft(Z, A, n, f, g, e)
  PROVE  /\ Z \in Ram
         /\ Z.new = n /\ Z.free = f /\ Z.chunks = A.chunks /\ Z.big = g
         /\ Z.used = UsedWith(A, e) /\ Z.imported = A.imported /\ Z.owned = A.owned \cup {e}
<1> DEFINE o == A.owned \cup {e}
           c == A.chunks
           i == A.imported
           u == UsedWith(A, e)
<1>1. f \subseteq Nat /\ c \in [Classes -> SUBSET Nat] /\ i \in BOOLEAN /\ A.used \in Nat /\ A.owned \subseteq [at : Nat, len : Nat, how : Owners]
  BY RamTyped DEF LeftOK
<1>2. u \in Nat
  BY <1>1 DEF UsedWith, IsOwned
<1>3. o \subseteq [at : Nat, len : Nat, how : Owners]
  BY <1>1 DEF IsOwned
<1>4. Z = Memory(n, f, c, g, u, i, o)
  BY DEF IsLeft
<1>5. n \subseteq [start : Nat, end : Nat] /\ g \in [1..BigMax -> SUBSET Nat]
  BY DEF LeftOK, NewOK
<1> HIDE DEF o, c, i, u
<1>6. Z \in Ram
  BY <1>1, <1>2, <1>3, <1>4, <1>5, MemoryTyped
<1>7. /\ Z.new = n /\ Z.free = f /\ Z.chunks = c /\ Z.big = g
      /\ Z.used = u /\ Z.imported = i /\ Z.owned = o
  BY <1>4 DEF Memory
<1> QED BY <1>6, <1>7 DEF o, c, i, u

LEMMA Takes ==
  ASSUME NEW A, RamOK(A), NEW n, NEW f, NEW g, LeftOK(A, n, f, g), NEW e, IsOwned(e),
         NEW Z, IsLeft(Z, A, n, f, g, e),
         NEW b, IsFree(A, b), NEW M, CutOf(e, b, M), OutOf(A, n, f, g, b, M)
  PROVE  /\ RamOK(Z) /\ Z.owned = A.owned \cup {e} /\ Z.imported = A.imported
         /\ \A c \in A.owned : Units(c.at, c.len) \cap Units(e.at, e.len) = {}
<1>1. A \in Ram /\ Placed(A)
  BY DEF RamOK
<1>2. /\ Z \in Ram
      /\ Z.new = n /\ Z.free = f /\ Z.chunks = A.chunks /\ Z.big = g
      /\ Z.used = UsedWith(A, e) /\ Z.imported = A.imported /\ Z.owned = A.owned \cup {e}
  BY <1>1, LeftIs
<1>3. Placed(Z)
  <2>1. (\A x \in A.owned : BlockOK(x)) /\ (\A p \in A.free : p % Page = 0) /\ (\A k \in 1..BigMax : \A p \in A.big[k] : p % Page = 0)
    BY <1>1 DEF Placed
  <2>2. \A k \in 1..BigMax : \A p \in Z.big[k] : p % Page = 0
    BY <2>1, <1>2 DEF LeftOK
  <2>3. \A p \in Z.free : p % Page = 0
    BY <2>1, <1>2 DEF LeftOK
  <2>4. \A r \in Z.new : RegOK(r)
    BY <1>2 DEF LeftOK, NewOK
  <2>5. \A x \in Z.owned : BlockOK(x)
    BY <2>1, <1>2 DEF IsOwned
  <2> QED BY <2>2, <2>3, <2>4, <2>5 DEF Placed
<1>4. Blocks(Z) \subseteq (Blocks(A) \ {b}) \cup (M \cup {e})
  <2> DEFINE N == M \cup {e}
  <2>1. Z.owned \subseteq A.owned \cup N
    BY <1>2
  <2>2. \A p \in Z.free : p \in A.free \/ FreePage(p) \in N
    BY <1>2 DEF LeftOK
  <2>3. \A size \in Classes : \A p \in Z.chunks[size] : p \in A.chunks[size] \/ FreeChunk(p, size) \in N
    BY <1>2
  <2>4. \A k \in 1..BigMax : \A p \in Z.big[k] : p \in A.big[k] \/ FreeBig(p, k) \in N
    BY <1>2 DEF LeftOK
  <2>5. \A r \in Z.new : r \in A.new \/ NewPart(r) \in N
    BY <1>2 DEF OutOf
  <2> HIDE DEF N
  <2>6. Blocks(Z) \subseteq Blocks(A) \cup N
    BY <2>1, <2>2, <2>3, <2>4, <2>5, BlocksFrom
  <2>7. b \in Blocks(Z) => b \in N
    <3> SUFFICES ASSUME b \in Blocks(Z) PROVE b \in N
      OBVIOUS
    <3>1. b.how = "free page" => \E p \in Z.free : b = FreePage(p)
      BY <1>2, KindsDiffer, Zenon
    <3>2. b.how = "free block" => \E k \in 1..BigMax : \E p \in Z.big[k] : b = FreeBig(p, k)
      BY <1>2, KindsDiffer, Zenon
    <3>3. b.how = "new" => \E r \in Z.new : b = NewPart(r)
      BY <1>2, KindsDiffer, Zenon
    <3>4. b.how # "free page" /\ b.how # "free block"
      BY <3>1, <3>2, <1>2, Zenon DEF OutOf
    <3>5. b.how = "new"
      BY <3>4 DEF IsFree
    <3> QED BY <3>3, <3>5, <1>2 DEF N, OutOf
  <2> QED BY <2>6, <2>7 DEF N
<1>5. IsBlocks(M) /\ AllClear(M \cup {e}) /\ \A m \in M \cup {e} : Within(m, b)
  BY DEF CutOf
<1>6. Z.used = IF e.how = "linux" THEN A.used ELSE A.used + e.len
  BY <1>2 DEF UsedWith
<1>7. e \in [at : Nat, len : Nat, how : Owners] /\ e.how # "chunk"
  BY DEF IsOwned
<1>8. b \in Blocks(A) /\ b.how \in {"free page", "free block", "new"}
  BY DEF IsFree
<1>9. RamOK(Z) /\ \A c \in A.owned : Units(c.at, c.len) \cap Units(e.at, e.len) = {}
  BY <1>2, <1>3, <1>4, <1>5, <1>6, <1>7, <1>8, TakeOne
<1> QED BY <1>2, <1>9

\* What taking memory must have done.
Piece(got, len, how) == [at |-> got.at, len |-> len, how |-> how]
LEMMA TookIs ==
  ASSUME NEW A, NEW got, NEW len, NEW how, NEW e, e = Piece(got, len, how), IsOwned(e),
         NEW Z, Z = Own(got, len, how), RamOK(Z), Z.owned = A.owned \cup {e}, Z.imported = A.imported,
         \A c \in A.owned : Units(c.at, c.len) \cap Units(e.at, e.len) = {}
  PROVE  Took(A, got, len, how)
<1>1. e.at = got.at /\ e.len = len /\ got.at \in Nat
  BY DEF IsOwned, Piece
<1>2. e = [at |-> got.at, len |-> len, how |-> how]
  BY DEF Piece
<1> QED BY <1>1, <1>2 DEF Took

LEMMA GotLeft ==
  ASSUME NEW A, NEW n, NEW f, NEW g, NEW u, NEW got, NEW len, NEW how,
         got.ram = Memory(n, f, A.chunks, g, u, A.imported, A.owned),
         NEW e, e = Piece(got, len, how), u = UsedWith(A, e)
  PROVE  IsLeft(Own(got, len, how), A, n, f, g, e)
<1> DEFINE o == A.owned
           c == A.chunks
           i == A.imported
<1>1. e = [at |-> got.at, len |-> len, how |-> how]
  BY DEF Piece
<1>2. got.ram = Memory(n, f, c, g, u, i, o)
  OBVIOUS
<1> HIDE DEF o, c, i
<1>3. Own(got, len, how) = Memory(n, f, c, g, u, i, o \cup {e})
  BY <1>1, <1>2, OwnMemory
<1> QED BY <1>3 DEF o, c, i, IsLeft

(* ---- each way of taking memory ---- *)

LEMMA MultipleOf ==
  ASSUME NEW n \in Nat, NEW a \in Nat, a > 0
  PROVE  (n * a) % a = 0
<1> DEFINE x == n * a
<1>1. (x + 0) % a = 0
  BY Quotient
<1>2. x \in Nat
  BY Product
<1> HIDE DEF x
<1>3. x + 0 = x
  BY <1>2
<1>4. x % a = 0
  BY <1>1, <1>3
<1> QED BY <1>4 DEF x

UsedPlus(got, k) == [got EXCEPT !.ram.used = @ + k]

LEMMA MoreUsed ==
  ASSUME NEW n, NEW f, NEW c, NEW b, NEW u, NEW i, NEW o, NEW at, NEW k, NEW Y,
         Y = [at |-> at, ram |-> Memory(n, f, c, b, u, i, o)]
  PROVE  UsedPlus(Y, k).at = at /\ UsedPlus(Y, k).ram = Memory(n, f, c, b, u + k, i, o)
<1> DEFINE M == Memory(n, f, c, b, u, i, o)
<1>1. M.used = u
  BY DEF Memory
<1>2. Y = [at |-> at, ram |-> M]
  OBVIOUS
<1> DEFINE x == u + k
<1> HIDE DEF x
<1>3. [M EXCEPT !.used = x] = Memory(n, f, c, b, x, i, o)
  BY DEF Memory
<1> HIDE DEF M
<1>4. UsedPlus(Y, k).at = at /\ UsedPlus(Y, k).ram = [M EXCEPT !.used = x]
  BY <1>1, <1>2 DEF x, UsedPlus
<1> QED BY <1>3, <1>4 DEF x

Above(A, r, to) == {[start |-> to, end |-> r.end]} \cup {s \in A.new : s.start > r.start}

LEMMA FromNew ==
  ASSUME NEW A, RamOK(A), NEW r \in A.new, NEW to \in Nat, NEW u, NEW got, NEW len, NEW how,
         got.ram = Memory(Above(A, r, to), A.free, A.chunks, A.big, u, A.imported, A.owned),
         NEW e, e = Piece(got, len, how), IsOwned(e), u = UsedWith(A, e),
         r.start <= e.at, e.at + e.len <= to, to <= r.end, to % Page = 0
  PROVE  Took(A, got, len, how)
<1> DEFINE t == [start |-> to, end |-> r.end]
           n == Above(A, r, to)
           b == NewPart(r)
           M == {NewPart(t)}
           Z == Own(got, len, how)
<1>1. A \in Ram /\ Placed(A)
  BY DEF RamOK
<1>2. r.start \in Nat /\ r.end \in Nat /\ r.end % Page = 0 /\ A.new \subseteq [start : Nat, end : Nat] /\ \A s \in A.new : RegOK(s)
  BY <1>1, RamTyped DEF Placed, RegOK
<1>7. e.at \in Nat /\ e.len \in Nat
  BY DEF IsOwned
<1>3. t \in [start : Nat, end : Nat] /\ t.start = to /\ t.end = r.end /\ RegOK(t)
  <2>1. t \in [start : Nat, end : Nat] /\ t.start = to /\ t.end = r.end
    BY <1>2
  <2>2. LowEnd <= r.start /\ LowEnd \in Nat
    BY <1>2, Sizes DEF RegOK
  <2>3. LowEnd <= to
    BY <2>2, <1>2, <1>7
  <2> HIDE DEF t
  <2> QED BY <2>1, <2>3, <1>2 DEF RegOK
<1>4. NewOK(n)
  <2>1. n = {t} \cup {s \in A.new : s.start > r.start}
    BY DEF Above
  <2> QED BY <2>1, <1>2, <1>3 DEF NewOK
<1>5. LeftOK(A, n, A.free, A.big)
  BY <1>1, <1>4, RamTyped DEF LeftOK
<1>6. IsFree(A, b)
  <2>1. b \in Blocks(A)
    BY BlockIs, Zenon
  <2>2. b.how = "new"
    BY DEF NewPart
  <2> QED BY <2>1, <2>2 DEF IsFree
<1>8. NewPart(t).at = to /\ NewPart(t).len = r.end - to /\ b.at = r.start /\ b.len = r.end - r.start
  BY <1>3 DEF NewPart
<1>9. CutOf(e, b, M)
  <2> DEFINE c == NewPart(t)
  <2>1. c.at \in Nat /\ c.len \in Nat
    BY <1>8, <1>2
  <2>2. c.at + c.len = r.end /\ b.at + b.len = r.end
    BY <1>8, <1>2
  <2>3. Within(c, b) /\ Within(e, b) /\ Clear(e, c) /\ Clear(c, e)
    BY <2>1, <2>2, <1>2, <1>7, <1>8 DEF Within, Clear
  <2>4. M = {c}
    OBVIOUS
  <2> HIDE DEF c, b, M
  <2> QED BY <2>1, <2>3, <2>4 DEF CutOf, IsBlocks, AllClear
<1>10. OutOf(A, n, A.free, A.big, b, M)
  <2>1. ASSUME NEW s \in n PROVE (s \in A.new \/ NewPart(s) \in M) /\ (b = NewPart(s) => b \in M)
    <3>1. CASE s = t
      BY <3>1
    <3>2. CASE s \in A.new /\ s.start > r.start
      <4>1. NewPart(s).at = s.start
        BY DEF NewPart
      <4>2. s.start \in Nat
        BY <1>2, <3>2
      <4> HIDE DEF b
      <4>3. b # NewPart(s)
        BY <4>1, <4>2, <3>2, <1>8, <1>2
      <4> QED BY <3>2, <4>3
    <3> QED BY <3>1, <3>2 DEF Above
  <2>2. b.how = "new"
    BY DEF NewPart
  <2>3. \A p : FreePage(p).how = "free page"
    BY DEF FreePage
  <2>4. \A p, k : FreeBig(p, k).how = "free block"
    BY DEF FreeBig
  <2>5. "new" # "free page" /\ "new" # "free block"
    OBVIOUS
  <2> HIDE DEF b, M, n
  <2>6. (\A p : b # FreePage(p)) /\ (\A p, k : b # FreeBig(p, k))
    BY <2>2, <2>3, <2>4, <2>5, Zenon
  <2> QED BY <2>1, <2>6 DEF OutOf
<1>11. IsLeft(Z, A, n, A.free, A.big, e)
  BY GotLeft
<1> DEFINE f == A.free
           g == A.big
<1>13. LeftOK(A, n, f, g) /\ OutOf(A, n, f, g, b, M) /\ IsLeft(Z, A, n, f, g, e)
  BY <1>5, <1>10, <1>11
<1> HIDE DEF n, b, M, Z, f, g
<1>12. /\ RamOK(Z) /\ Z.owned = A.owned \cup {e} /\ Z.imported = A.imported
       /\ \A c \in A.owned : Units(c.at, c.len) \cap Units(e.at, e.len) = {}
  BY <1>6, <1>9, <1>13, Takes
<1> QED BY <1>12, TookIs DEF Z

LEMMA BumpToIs ==
  ASSUME NEW A, A \in Ram, NEW r, NEW to
  PROVE  BumpTo(A, r, to) = Memory(Above(A, r, to), A.free, A.chunks, A.big, A.used, A.imported, A.owned)
<1> DEFINE x == Above(A, r, to)
<1>1. BumpTo(A, r, to) = [A EXCEPT !.new = x]
  BY DEF BumpTo, Above
<1> HIDE DEF x
<1>2. [A EXCEPT !.new = x] = Memory(x, A.free, A.chunks, A.big, A.used, A.imported, A.owned)
  BY DEF Memory, Ram
<1> QED BY <1>1, <1>2 DEF x

\* The bump pointer has no room, or moves over n pages of a region.
LEMMA PbumpIs ==
  ASSUME NEW A, A \in Ram, NEW n \in Nat
  PROVE  \/ Pbump(A, n) = [at |-> 0, ram |-> A]
         \/ \E r \in A.new :
              /\ r.start + n * Page <= r.end
              /\ Pbump(A, n) = [at |-> r.start, ram |-> Memory(Above(A, r, r.start + n * Page), A.free,
                                  A.chunks, A.big, A.used, A.imported, A.owned)]
<1> DEFINE fits == {r \in A.new : r.start + n * Page <= r.end}
           q == Lowest(fits)
<1>1. Pbump(A, n) = IF fits = {} THEN [at |-> 0, ram |-> A]
                    ELSE [at |-> q.start, ram |-> BumpTo(A, q, q.start + n * Page)]
  BY DEF Pbump
<1>2. CASE fits = {}
  BY <1>1, <1>2
<1>3. CASE fits # {}
  <2>1. fits \subseteq [start : Nat, end : Nat]
    BY RamTyped
  <2>2. q \in fits
    BY <2>1, <1>3, LowestIn
  <2>3. q \in A.new /\ q.start + n * Page <= q.end
    BY <2>2
  <2> DEFINE to == q.start + n * Page
  <2>4. BumpTo(A, q, to) = Memory(Above(A, q, to), A.free, A.chunks, A.big, A.used, A.imported, A.owned)
    BY BumpToIs
  <2>5. Pbump(A, n) = [at |-> q.start, ram |-> Memory(Above(A, q, to), A.free, A.chunks, A.big, A.used, A.imported, A.owned)]
    BY <1>1, <1>3, <2>4
  <2> HIDE DEF q, fits
  <2> QED BY <2>3, <2>5
<1> QED BY <1>2, <1>3

\* The bump pointer's memory, counted.
LEMMA BumpTaken ==
  ASSUME NEW A, RamOK(A), NEW n \in Nat, NEW how \in {"page", "table", "block"},
         how \in {"page", "table"} => n = 1, how = "block" => n * Page > Page,
         NEW got, got = UsedPlus(Pbump(A, n), n * Page), got.at # 0
  PROVE  Took(A, got, n * Page, how)
<1> DEFINE len == n * Page
           u == A.used + len
           e == Piece(got, len, how)
<1>1. A \in Ram /\ Placed(A) /\ A.used \in Nat /\ len \in Nat /\ Page \in Nat /\ Page > 0
  BY Sizes, Product, RamTyped DEF RamOK
<1>2. UsedPlus([at |-> 0, ram |-> A], len).at = 0
  BY DEF UsedPlus
<1>3. PICK r \in A.new :
        /\ r.start + n * Page <= r.end
        /\ Pbump(A, n) = [at |-> r.start, ram |-> Memory(Above(A, r, r.start + n * Page), A.free,
                            A.chunks, A.big, A.used, A.imported, A.owned)]
  BY <1>1, <1>2, PbumpIs
<1> DEFINE to == r.start + len
           Y == Memory(Above(A, r, to), A.free, A.chunks, A.big, A.used, A.imported, A.owned)
<1>4. r.start \in Nat /\ r.end \in Nat /\ RegOK(r)
  BY <1>1, RamTyped DEF Placed
<1>5. Pbump(A, n) = [at |-> r.start, ram |-> Y]
  BY <1>3
<1> HIDE DEF len
<1>8. got.at = r.start /\ got.ram = Memory(Above(A, r, to), A.free, A.chunks, A.big, u, A.imported, A.owned)
  <2> DEFINE n1 == Above(A, r, to)
             f1 == A.free
             c1 == A.chunks
             b1 == A.big
             u1 == A.used
             i1 == A.imported
             o1 == A.owned
             W == Pbump(A, n)
  <2>1. W = [at |-> r.start, ram |-> Memory(n1, f1, c1, b1, u1, i1, o1)] /\ got = UsedPlus(W, len)
    BY <1>5 DEF len
  <2> HIDE DEF n1, f1, c1, b1, u1, i1, o1, W
  <2>2. got.at = r.start /\ got.ram = Memory(n1, f1, c1, b1, u1 + len, i1, o1)
    BY <2>1, MoreUsed
  <2> QED BY <2>2 DEF n1, f1, c1, b1, u1, i1, o1, u
<1>9. e.at = r.start /\ e.len = len /\ e.how = how
  BY <1>8 DEF Piece
<1>10. r.start % Page = 0 /\ to % Page = 0 /\ len % Page = 0 /\ 0 % Page = 0
  <2>1. r.start % Page = 0
    BY <1>4 DEF RegOK
  <2>2. (r.start + n * Page) % Page = 0
    BY <2>1, <1>1, <1>4, AlignedSum
  <2>3. 0 % Page = 0
    BY <1>1
  <2>4. (n * Page) % Page = 0
    BY <1>1, MultipleOf
  <2> QED BY <2>1, <2>2, <2>3, <2>4 DEF len
<1>11. how \in {"page", "table"} => len = Page
  BY <1>1 DEF len
<1>12. IsOwned(e)
  <2>1. e \in [at : Nat, len : Nat, how : Owners] /\ e.how # "chunk"
    BY <1>1, <1>4, <1>8 DEF Piece, Owners
  <2>2. how = "block" => len > Page
    BY DEF len
  <2>3. BlockOK(e)
    BY <2>2, <1>9, <1>10, <1>11 DEF BlockOK
  <2> QED BY <2>1, <2>3 DEF IsOwned
<1>13. u = UsedWith(A, e)
  BY <1>9 DEF UsedWith
<1> HIDE DEF e, u, to
<1>14. to \in Nat /\ r.start <= e.at /\ e.at + e.len <= to /\ to <= r.end
  BY <1>1, <1>3, <1>4, <1>9 DEF to, len
<1>15. Took(A, got, len, how)
  <2>1. got.ram = Memory(Above(A, r, to), A.free, A.chunks, A.big, u, A.imported, A.owned)
    BY <1>8 DEF to, u
  <2>2. e = Piece(got, len, how)
    BY DEF e
  <2>3. to \in Nat /\ to % Page = 0
    BY <1>10, <1>14 DEF to
  <2> QED BY <2>1, <2>2, <2>3, <1>12, <1>13, <1>14, FromNew
<1> QED BY <1>15 DEF len

LEMMA LeqSelf == \A x, y \in Nat : x <= x /\ x + y <= x + y
OBVIOUS

LEMMA WithinSame ==
  ASSUME NEW c, NEW b, c.at \in Nat, c.len \in Nat, c.at = b.at, c.len = b.len
  PROVE  Within(c, b)
<1>1. b.at \in Nat /\ b.len \in Nat /\ b.at = c.at /\ b.len = c.len
  OBVIOUS
<1> QED BY <1>1, Zenon, LeqSelf DEF Within

Whole(b, e) == b.how \in {"free page", "free block"} /\ b.at = e.at /\ b.len = e.len
Unlisted(b, f, g) ==
  (\A p \in f : b # FreePage(p)) /\ \A k \in 1..BigMax : \A p \in g[k] : b # FreeBig(p, k)

LEMMA FromList ==
  ASSUME NEW A, RamOK(A), NEW f, NEW g, LeftOK(A, A.new, f, g), NEW u, NEW got, NEW len, NEW how,
         got.ram = Memory(A.new, f, A.chunks, g, u, A.imported, A.owned),
         NEW e, e = Piece(got, len, how), IsOwned(e), u = UsedWith(A, e),
         NEW b \in Blocks(A), Whole(b, e), Unlisted(b, f, g)
  PROVE  Took(A, got, len, how)
<1> DEFINE n == A.new
           M == {}
           Z == Own(got, len, how)
<1>1. IsFree(A, b) /\ b.how # "new"
  BY DEF IsFree, Whole
<1>2. e.at \in Nat /\ e.len \in Nat
  BY DEF IsOwned
<1>3. CutOf(e, b, M)
  <2>0. b.at \in Nat /\ b.len \in Nat /\ b.at = e.at /\ b.len = e.len
    BY <1>2 DEF Whole
  <2>1. Within(e, b)
    BY <2>0, <1>2, Zenon, LeqSelf DEF Within
  <2> QED BY <2>1 DEF CutOf, IsBlocks, AllClear
<1>4. OutOf(A, n, f, g, b, M)
  <2>1. ASSUME NEW r \in n PROVE b # NewPart(r)
    <3>1. NewPart(r).how = "new"
      BY DEF NewPart
    <3> QED BY <3>1, <1>1
  <2> QED BY <2>1 DEF OutOf, Unlisted
<1>5. IsLeft(Z, A, n, f, g, e) /\ LeftOK(A, n, f, g)
  BY GotLeft
<1>7. CutOf(e, b, M) /\ OutOf(A, n, f, g, b, M) /\ IsFree(A, b) /\ IsOwned(e) /\ RamOK(A)
  BY <1>1, <1>3, <1>4
<1> HIDE DEF n, M, Z
<1>6. /\ RamOK(Z) /\ Z.owned = A.owned \cup {e} /\ Z.imported = A.imported
      /\ \A c \in A.owned : Units(c.at, c.len) \cap Units(e.at, e.len) = {}
  BY <1>7, <1>5, Takes
<1> QED BY <1>6, TookIs DEF Z

LEMMA LessFree ==
  ASSUME NEW A, A \in Ram, NEW x
  PROVE  [A EXCEPT !.free = x] = Memory(A.new, x, A.chunks, A.big, A.used, A.imported, A.owned)
BY DEF Memory, Ram

LEMMA LessBig ==
  ASSUME NEW A, A \in Ram, NEW x
  PROVE  [A EXCEPT !.big = x] = Memory(A.new, A.free, A.chunks, x, A.used, A.imported, A.owned)
BY DEF Memory, Ram

LEMMA PallocIs ==
  ASSUME NEW A
  PROVE  /\ A.free = {} => Palloc(A) = UsedPlus(Pbump(A, 1), Page)
         /\ A.free # {} => Palloc(A) = UsedPlus([at |-> Min(A.free), ram |-> [A EXCEPT !.free = @ \ {Min(A.free)}]], Page)
BY Zenon DEF Palloc, UsedPlus

\* palloc: a page of the list, or the bump pointer's.
LEMMA PallocTaken ==
  ASSUME NEW A, RamOK(A), NEW how \in {"page", "table"}, Palloc(A).at # 0
  PROVE  Took(A, Palloc(A), Page, how)
<1>1. A \in Ram /\ Placed(A) /\ A.used \in Nat
  BY RamTyped DEF RamOK
<1>2. CASE A.free = {}
  <2>1. 1 * Page = Page
    BY Sizes
  <2>2. Palloc(A) = UsedPlus(Pbump(A, 1), 1 * Page)
    BY <1>2, <2>1, PallocIs
  <2>3. how # "block" /\ how \in {"page", "table", "block"}
    OBVIOUS
  <2> DEFINE got == Palloc(A)
             k == 1
  <2>4. got = UsedPlus(Pbump(A, k), k * Page) /\ got.at # 0 /\ k \in Nat /\ k = 1
    BY <2>2
  <2> HIDE DEF got, k
  <2>5. Took(A, got, k * Page, how)
    BY <2>3, <2>4, BumpTaken
  <2> QED BY <2>1, <2>4, <2>5 DEF got
<1>3. CASE A.free # {}
  <2> DEFINE p == Min(A.free)
             F == A.free \ {p}
             g == A.big
             got == Palloc(A)
             e == Piece(got, Page, how)
             b == FreePage(p)
             u == A.used + Page
  <2>1. A.free \in SUBSET Nat
    BY <1>1, RamTyped
  <2>2. p \in A.free /\ p \in Nat
    BY <2>1, <1>3, MinIn
  <2>3. p % Page = 0
    BY <2>2, <1>1 DEF Placed
  <2> HIDE DEF p
  <2>4. got = UsedPlus([at |-> p, ram |-> [A EXCEPT !.free = F]], Page)
    BY <1>3, PallocIs, Zenon DEF p
  <2> HIDE DEF F
  <2>5. [A EXCEPT !.free = F] = Memory(A.new, F, A.chunks, A.big, A.used, A.imported, A.owned)
    BY <1>1, LessFree
  <2>6. got.at = p /\ got.ram = Memory(A.new, F, A.chunks, g, u, A.imported, A.owned)
    <3> DEFINE Y == [at |-> p, ram |-> Memory(A.new, F, A.chunks, A.big, A.used, A.imported, A.owned)]
    <3>1. UsedPlus(Y, Page).at = p /\ UsedPlus(Y, Page).ram = Memory(A.new, F, A.chunks, A.big, A.used + Page, A.imported, A.owned)
      BY MoreUsed
    <3> HIDE DEF got
    <3>2. got = UsedPlus(Y, Page)
      BY <2>4, <2>5
    <3> HIDE DEF Y
    <3> QED BY <3>1, <3>2
  <2> HIDE DEF got
  <2>7. e.at = p /\ e.len = Page /\ e.how = how /\ e = [at |-> p, len |-> Page, how |-> how]
    BY <2>6 DEF Piece
  <2>8. IsOwned(e)
    <3>1. e \in [at : Nat, len : Nat, how : Owners] /\ e.how # "chunk" /\ e.how # "block"
      BY <2>2, <2>7, Sizes DEF Owners
    <3> HIDE DEF e
    <3>2. BlockOK(e)
      BY <2>3, <2>7, <3>1 DEF BlockOK
    <3> QED BY <3>1, <3>2 DEF IsOwned
  <2>9. u = UsedWith(A, e)
    <3>1. e.how # "linux"
      BY <2>7
    <3> QED BY <2>7, <3>1 DEF UsedWith
  <2>10. b \in Blocks(A)
    BY <2>2, BlockIs, Zenon
  <2>11. b.how = "free page" /\ b.at = p /\ b.len = Page
    BY DEF FreePage
  <2>12. \A q \in F : b # FreePage(q)
    BY DEF FreePage, F
  <2>13. \A k \in 1..BigMax : \A q \in g[k] : b # FreeBig(q, k)
    <3>1. \A k, q : FreeBig(q, k).how = "free block"
      BY DEF FreeBig
    <3>2. "free block" # "free page"
      OBVIOUS
    <3> QED BY <2>11, <3>1, <3>2, Zenon
  <2>14. LeftOK(A, A.new, F, g)
    BY <1>1, RamTyped DEF LeftOK, NewOK, F, Placed
  <2>15. Whole(b, e) /\ Unlisted(b, F, g)
    <3> HIDE DEF b, g
    <3> QED BY <2>7, <2>11, <2>12, <2>13 DEF Whole, Unlisted
  <2> HIDE DEF b, u, g
  <2>16. e = Piece(got, Page, how)
    OBVIOUS
  <2> HIDE DEF e
  <2>17. Took(A, got, Page, how)
    BY <2>6, <2>8, <2>9, <2>10, <2>14, <2>15, <2>16, FromList
  <2> QED BY <2>17 DEF got
<1> QED BY <1>2, <1>3

\* A block of more than a page.
LEMMA BigTaken ==
  ASSUME NEW A, RamOK(A), NEW n \in Nat, n * Page > Page, BigAlloc(A, n).at # 0
  PROVE  Took(A, BigAlloc(A, n), n * Page, "block")
<1>1. A \in Ram /\ Placed(A) /\ A.used \in Nat
  BY RamTyped DEF RamOK
<1>2. BigAlloc(A, n) = UsedPlus(IF Reusable(A, n) THEN Reused(A, n) ELSE Pbump(A, n), n * Page)
  BY Zenon DEF BigAlloc, UsedPlus
<1>3. CASE ~Reusable(A, n)
  <2> DEFINE got == BigAlloc(A, n)
             how == "block"
  <2>1. got = UsedPlus(Pbump(A, n), n * Page)
    BY <1>2, <1>3, Zenon
  <2> HIDE DEF got
  <2>2. got.at # 0
    BY DEF got
  <2>3. how \in {"page", "table", "block"} /\ how \notin {"page", "table"}
    OBVIOUS
  <2> HIDE DEF how
  <2>4. Took(A, got, n * Page, how)
    BY <2>1, <2>2, <2>3, BumpTaken
  <2> QED BY <2>4 DEF got, how
<1>4. CASE Reusable(A, n)
  <2> DEFINE p == Min(A.big[n])
             g == [A.big EXCEPT ![n] = A.big[n] \ {p}]
             f == A.free
             got == BigAlloc(A, n)
             len == n * Page
             e == Piece(got, len, "block")
             b == FreeBig(p, n)
             u == A.used + len
  <2>1. n \in 1..BigMax /\ A.big[n] # {} /\ len \in Nat
    <3>1. n # 0
      <4> SUFFICES ASSUME n = 0 PROVE FALSE
        OBVIOUS
      <4>1. 0 * Page = 0
        BY Sizes
      <4> QED BY <4>1, Sizes
    <3> QED BY <1>4, <3>1, Sizes, Product DEF Reusable
  <2>2. A.big \in [1..BigMax -> SUBSET Nat]
    BY <1>1, RamTyped
  <2>3. A.big[n] \in SUBSET Nat
    BY <2>1, <2>2
  <2>4. p \in A.big[n] /\ p \in Nat
    BY <2>1, <2>3, MinIn
  <2>5. p % Page = 0
    BY <2>1, <2>4, <1>1 DEF Placed
  <2>6. g \in [1..BigMax -> SUBSET Nat] /\ (\A k \in 1..BigMax : g[k] \subseteq A.big[k]) /\ g[n] = A.big[n] \ {p}
    BY <2>1, <2>2
  <2>7. [A EXCEPT !.big[n] = @ \ {Min(@)}] = [A EXCEPT !.big = g]
    OBVIOUS
  <2> HIDE DEF p, g
  <2>8. Reused(A, n) = [at |-> p, ram |-> [A EXCEPT !.big = g]]
    BY <2>7 DEF Reused, p
  <2>9. [A EXCEPT !.big = g] = Memory(A.new, A.free, A.chunks, g, A.used, A.imported, A.owned)
    BY <1>1, LessBig
  <2>10. got.at = p /\ got.ram = Memory(A.new, f, A.chunks, g, u, A.imported, A.owned)
    <3> HIDE DEF got, len
    <3> DEFINE Y == [at |-> p, ram |-> Memory(A.new, A.free, A.chunks, g, A.used, A.imported, A.owned)]
    <3>1. UsedPlus(Y, len).at = p /\ UsedPlus(Y, len).ram = Memory(A.new, A.free, A.chunks, g, A.used + len, A.imported, A.owned)
      BY MoreUsed
    <3>2. got = UsedPlus(Y, len)
      BY <2>8, <2>9, <1>2, <1>4 DEF got, len
    <3> HIDE DEF Y
    <3> QED BY <3>1, <3>2
  <2> HIDE DEF got
  <2>11. len % Page = 0 /\ len > Page
    BY Sizes, MultipleOf
  <2>12. b \in Blocks(A)
    BY <2>1, <2>4, BlockIs, Zenon
  <2>13. b.how = "free block" /\ b.at = p /\ b.len = len
    BY DEF FreeBig
  <2>14. \A q \in f : b # FreePage(q)
    <3>1. \A q : FreePage(q).how = "free page"
      BY DEF FreePage
    <3>2. "free block" # "free page"
      OBVIOUS
    <3> QED BY <2>13, <3>1, <3>2, Zenon
  <2>15. \A k \in 1..BigMax : \A q \in g[k] : b # FreeBig(q, k)
    <3> SUFFICES ASSUME NEW k \in 1..BigMax, NEW q \in g[k], b = FreeBig(q, k) PROVE FALSE
      OBVIOUS
    <3>1. k \in Nat /\ q \in Nat
      BY <2>6, Sizes
    <3>2. k * Page = n * Page /\ q = p
      <4> DEFINE x == k * Page
                 y == n * Page
      <4>1. [at |-> p, len |-> y, how |-> "free block"] = [at |-> q, len |-> x, how |-> "free block"]
        BY DEF FreeBig
      <4> HIDE DEF x, y
      <4>2. q = p /\ x = y
        BY <4>1
      <4> QED BY <4>2 DEF x, y
    <3>3. k = n
      <4>1. k * Page \in Nat /\ n * Page \in Nat
        BY <3>1, Sizes, Product
      <4>2. k * Page < n * Page + Page /\ n * Page < k * Page + Page
        BY <3>2, <4>1, Sizes
      <4>3. k <= n /\ n <= k
        BY <3>1, <4>2, Sizes, Multiples
      <4> QED BY <3>1, <4>3
    <3> QED BY <3>2, <3>3, <2>6
  <2> HIDE DEF len
  <2>16. e.at = p /\ e.len = len /\ e.how = "block" /\ e = [at |-> p, len |-> len, how |-> "block"]
    BY <2>10 DEF Piece
  <2>17. IsOwned(e)
    <3>1. e \in [at : Nat, len : Nat, how : Owners] /\ e.how # "chunk"
      BY <2>1, <2>4, <2>16 DEF Owners
    <3> HIDE DEF e
    <3>2. BlockOK(e)
      BY <2>5, <2>11, <2>16 DEF BlockOK
    <3> QED BY <3>1, <3>2 DEF IsOwned
  <2>18. u = UsedWith(A, e)
    <3>1. e.how # "linux"
      BY <2>16
    <3> QED BY <2>16, <3>1 DEF UsedWith
  <2>19. LeftOK(A, A.new, f, g)
    BY <1>1, <2>6, RamTyped DEF LeftOK, NewOK, Placed
  <2>20. Whole(b, e) /\ Unlisted(b, f, g)
    <3> HIDE DEF b, f
    <3> QED BY <2>13, <2>14, <2>15, <2>16 DEF Whole, Unlisted
  <2> HIDE DEF b, u, f
  <2>21. e = Piece(got, len, "block")
    OBVIOUS
  <2> HIDE DEF e
  <2>22. Took(A, got, len, "block")
    BY <2>10, <2>12, <2>17, <2>18, <2>19, <2>20, <2>21, FromList
  <2> QED BY <2>22 DEF got, len
<1> QED BY <1>3, <1>4

(* ---- chunks ---- *)

LEMMA TookFields ==
  ASSUME NEW A, NEW n, NEW f, NEW c, NEW g, NEW u, NEW got, NEW len, NEW how,
         got.ram = Memory(n, f, c, g, u, A.imported, A.owned),
         NEW e, e = Piece(got, len, how), e.at \in Nat, RamOK(Own(got, len, how)),
         \A x \in A.owned : Units(x.at, x.len) \cap Units(e.at, e.len) = {}
  PROVE  Took(A, got, len, how)
<1> DEFINE o == A.owned
           i == A.imported
           Z == Own(got, len, how)
<1>1. e = [at |-> got.at, len |-> len, how |-> how] /\ got.ram = Memory(n, f, c, g, u, i, o)
  BY DEF Piece
<1> HIDE DEF o, i
<1>2. Z = Memory(n, f, c, g, u, i, o \cup {e})
  BY <1>1, OwnMemory
<1> HIDE DEF Z
<1>3. Z.owned = o \cup {e} /\ Z.imported = i
  BY <1>2 DEF Memory
<1>4. e.at = got.at /\ e.len = len
  BY <1>1
<1> QED BY <1>1, <1>3, <1>4 DEF Took, Z, o, i

\* Pieces of one size, one after the other.
LEMMA PiecesOf ==
  ASSUME NEW at \in Nat, NEW size \in Nat, size > 0, NEW m \in Nat
  PROVE  /\ \A k \in 0..m - 1 : at + k * size \in Nat /\ at <= at + k * size /\ at + k * size + size <= at + m * size
         /\ \A j, k \in 0..m - 1 : j < k => at + j * size + size <= at + k * size
         /\ \A u \in Units(at, m * size) : \E k \in 0..m - 1 : u \in Units(at + k * size, size)
<1>1. ASSUME NEW k \in 0..m - 1
      PROVE  at + k * size \in Nat /\ at <= at + k * size /\ at + k * size + size <= at + m * size
  <2>1. k \in Nat /\ k + 1 \in Nat /\ k + 1 <= m
    OBVIOUS
  <2>2. k * size \in Nat /\ (k + 1) * size <= m * size /\ m * size \in Nat
    BY <2>1, Product, Multiples
  <2>3. (k + 1) * size = k * size + size
    BY <2>1
  <2> QED BY <2>2, <2>3
<1>2. ASSUME NEW j \in 0..m - 1, NEW k \in 0..m - 1, j < k
      PROVE  at + j * size + size <= at + k * size
  <2>1. j \in Nat /\ k \in Nat /\ j + 1 \in Nat /\ j + 1 <= k
    BY <1>2
  <2>2. j * size \in Nat /\ (j + 1) * size <= k * size /\ k * size \in Nat
    BY <2>1, Product, Multiples
  <2>3. (j + 1) * size = j * size + size
    BY <2>1
  <2> QED BY <2>2, <2>3
<1>3. ASSUME NEW u \in Units(at, m * size) PROVE \E k \in 0..m - 1 : u \in Units(at + k * size, size)
  <2> DEFINE x == u - at
             k == x \div size
             r == x % size
  <2>1. m * size \in Nat
    BY Product
  <2>2. u \in Nat /\ x \in Nat /\ x < m * size /\ u = at + x
    BY <2>1 DEF Units
  <2> HIDE DEF x
  <2>3. k \in Nat /\ r \in Nat /\ r < size /\ x = k * size + r
    BY <2>2, Division
  <2> HIDE DEF k, r
  <2>4. k * size \in Nat
    BY <2>3, Product
  <2>5. k < m
    <3>1. ~ (m <= k)
      <4> SUFFICES ASSUME m <= k PROVE FALSE
        OBVIOUS
      <4>1. m * size <= k * size
        BY <2>3, Multiples
      <4> QED BY <4>1, <2>1, <2>2, <2>3, <2>4
    <3> QED BY <3>1, <2>3
  <2>6. u \in Units(at + k * size, size)
    BY <2>2, <2>3, <2>4 DEF Units
  <2>7. k \in 0..m - 1
    BY <2>3, <2>5
  <2> QED BY <2>6, <2>7
<1> QED BY <1>1, <1>2, <1>3

ChunkLeft(Z, Y, size, C, e, o) ==
  Z = Memory(Y.new, Y.free, [Y.chunks EXCEPT ![size] = C], Y.big, Y.used, Y.imported, o \cup {e})
IsChunk(e, size) == e \in [at : Nat, len : Nat, how : Owners] /\ e.how = "chunk" /\ e.len = size

ChunkAfter(Z, Y, size, C, e, o) ==
  /\ Z \in Ram /\ Placed(Z)
  /\ Z.new = Y.new /\ Z.free = Y.free /\ Z.big = Y.big /\ Z.used = Y.used /\ Z.imported = Y.imported
  /\ Z.owned = o \cup {e}
  /\ Z.chunks[size] = C /\ \A t \in Classes : t # size => Z.chunks[t] = Y.chunks[t]

LEMMA OwnerIs ==
  ASSUME NEW A, NEW b \in Blocks(A), b.how \in Owners
  PROVE  b \in A.owned
<1>1. b.how # "free page" /\ b.how # "free chunk" /\ b.how # "free block" /\ b.how # "new"
  BY DEF Owners
<1>2. \/ b \in A.owned
      \/ \E p \in A.free : b = FreePage(p)
      \/ \E size \in Classes : \E p \in A.chunks[size] : b = FreeChunk(p, size)
      \/ \E n \in 1..BigMax : \E p \in A.big[n] : b = FreeBig(p, n)
      \/ \E r \in A.new : b = NewPart(r)
  BY BlockIs, Zenon
<1>3. ASSUME NEW p, b = FreePage(p) PROVE FALSE
  BY <1>1, <1>3 DEF FreePage
<1>4. ASSUME NEW p, NEW size, b = FreeChunk(p, size) PROVE FALSE
  BY <1>1, <1>4 DEF FreeChunk
<1>5. ASSUME NEW p, NEW n, b = FreeBig(p, n) PROVE FALSE
  BY <1>1, <1>5 DEF FreeBig
<1>6. ASSUME NEW r, b = NewPart(r) PROVE FALSE
  BY <1>1, <1>6 DEF NewPart
<1> QED BY <1>2, <1>3, <1>4, <1>5, <1>6, Zenon

LEMMA ChunkIs ==
  ASSUME NEW A, A \in Ram, NEW b \in Blocks(A), b.how = "free chunk"
  PROVE  \E p \in A.chunks[b.len] : b = FreeChunk(p, b.len)
<1>1. \E size \in Classes : \E p \in A.chunks[size] : b = FreeChunk(p, size)
  BY KindsDiffer, Zenon
<1>2. PICK size \in Classes : \E p \in A.chunks[size] : b = FreeChunk(p, size)
  BY <1>1
<1>3. PICK p \in A.chunks[size] : b = FreeChunk(p, size)
  BY <1>2
<1>4. b.len = size
  BY <1>3 DEF FreeChunk
<1> QED BY <1>3, <1>4

LEMMA ChunkFields ==
  ASSUME NEW Y, RamOK(Y), NEW size \in Classes, NEW C \in SUBSET Nat, NEW e, IsChunk(e, size),
         NEW o, o \subseteq Y.owned, NEW Z, ChunkLeft(Z, Y, size, C, e, o)
  PROVE  ChunkAfter(Z, Y, size, C, e, o)
<1> DEFINE n == Y.new
           f == Y.free
           c == [Y.chunks EXCEPT ![size] = C]
           g == Y.big
           u == Y.used
           i == Y.imported
           w == o \cup {e}
<1>1. Y \in Ram /\ Placed(Y)
  BY DEF RamOK
<1>2. /\ n \subseteq [start : Nat, end : Nat] /\ f \subseteq Nat
      /\ Y.chunks \in [Classes -> SUBSET Nat] /\ g \in [1..BigMax -> SUBSET Nat] /\ u \in Nat /\ i \in BOOLEAN
      /\ Y.owned \subseteq [at : Nat, len : Nat, how : Owners]
  BY <1>1, RamTyped
<1>3. c \in [Classes -> SUBSET Nat] /\ c[size] = C /\ \A t \in Classes : t # size => c[t] = Y.chunks[t]
  BY <1>2
<1>4. w \subseteq [at : Nat, len : Nat, how : Owners]
  BY <1>2 DEF IsChunk
<1>5. Z = Memory(n, f, c, g, u, i, w)
  BY DEF ChunkLeft
<1> HIDE DEF n, f, c, g, u, i, w
<1>6. Z \in Ram
  BY <1>2, <1>3, <1>4, <1>5, MemoryTyped
<1>7. Z.new = n /\ Z.free = f /\ Z.chunks = c /\ Z.big = g /\ Z.used = u /\ Z.imported = i /\ Z.owned = w
  BY <1>5 DEF Memory
<1>8. BlockOK(e)
  BY DEF BlockOK, IsChunk, Paged
<1>9. Placed(Z)
  BY <1>1, <1>7, <1>8 DEF Placed, n, f, g, w
<1> QED BY <1>3, <1>6, <1>7, <1>9 DEF n, f, g, u, i, w, ChunkAfter

\* A chunk changes hands, or a page is cut up: what is counted does not change.
ChunksFrom(Y, size, C, b, N) ==
  \A p \in C : (p \in Y.chunks[size] /\ b # FreeChunk(p, size)) \/ FreeChunk(p, size) \in N
CutInto(b, N) == IsBlocks(N) /\ AllClear(N) /\ \A n \in N : Within(n, b)
Leaves(b, o, size) ==
  \/ b.how = "free chunk" /\ b.len = size
  \/ b.how = "table" /\ b \notin o

LEMMA ChunkMoves ==
  ASSUME NEW Y, RamOK(Y), NEW size \in Classes, NEW C \in SUBSET Nat, NEW e, IsChunk(e, size),
         NEW o, o \subseteq Y.owned, NEW Z, ChunkLeft(Z, Y, size, C, e, o),
         NEW b \in Blocks(Y), Leaves(b, o, size), NEW N, CutInto(b, N), e \in N,
         ChunksFrom(Y, size, C, b, N), Taken(Z) = Taken(Y)
  PROVE  RamOK(Z)
<1>0. ChunkAfter(Z, Y, size, C, e, o)
  BY ChunkFields
<1>1. /\ Z \in Ram /\ Placed(Z)
      /\ Z.new = Y.new /\ Z.free = Y.free /\ Z.big = Y.big /\ Z.used = Y.used /\ Z.imported = Y.imported
      /\ Z.owned = o \cup {e}
      /\ Z.chunks[size] = C /\ \A t \in Classes : t # size => Z.chunks[t] = Y.chunks[t]
  BY <1>0 DEF ChunkAfter
<1>2. Y \in Ram /\ IsFiniteSet(Taken(Y)) /\ Y.used = Cardinality(Taken(Y))
  BY DEF RamOK
<1>3. Blocks(Z) \subseteq Blocks(Y) \cup N
  <2>1. Z.owned \subseteq Y.owned \cup N
    BY <1>1
  <2>2. \A p \in Z.free : p \in Y.free \/ FreePage(p) \in N
    BY <1>1
  <2>3. \A t \in Classes : \A p \in Z.chunks[t] : p \in Y.chunks[t] \/ FreeChunk(p, t) \in N
    BY <1>1 DEF ChunksFrom
  <2>4. \A k \in 1..BigMax : \A p \in Z.big[k] : p \in Y.big[k] \/ FreeBig(p, k) \in N
    BY <1>1
  <2>5. \A r \in Z.new : r \in Y.new \/ NewPart(r) \in N
    BY <1>1
  <2> QED BY <2>1, <2>2, <2>3, <2>4, <2>5, BlocksFrom
<1>4. b \in Blocks(Z) => b \in N
  <2> SUFFICES ASSUME b \in Blocks(Z) PROVE b \in N
    OBVIOUS
  <2>1. CASE b.how = "free chunk" /\ b.len = size
    <3>2. Z \in Ram /\ b.how = "free chunk"
      BY <1>1, <2>1
    <3>0. \E p \in Z.chunks[b.len] : b = FreeChunk(p, b.len)
      BY <3>2, ChunkIs, Zenon
    <3>1. \E p \in Z.chunks[size] : b = FreeChunk(p, size)
      BY <3>0, <2>1
    <3>4. \E p \in C : b = FreeChunk(p, size)
      BY <3>1, <1>1
    <3> QED BY <3>4, Zenon DEF ChunksFrom
  <2>2. CASE b.how = "table" /\ b \notin o
    <3>7. b \in Z.owned
      BY <2>2, OwnerIs DEF Owners
    <3> QED BY <3>7, <2>2, <1>1
  <2> QED BY <2>1, <2>2 DEF Leaves
<1>5. Blocks(Z) \subseteq (Blocks(Y) \ {b}) \cup N
  BY <1>3, <1>4
<1>6. IsBlocks(N) /\ AllClear(N) /\ \A n \in N : Within(n, b)
  BY DEF CutInto
<1>7. IsFiniteSet(Taken(Z)) /\ Z.used = Cardinality(Taken(Z)) /\ Z.imported = Y.imported
  BY <1>1, <1>2
<1> QED BY <1>1, <1>5, <1>6, <1>7, RamCutOne

\* A chunk of the list.
LEMMA ChunkFromList ==
  ASSUME NEW A, RamOK(A), NEW size \in Classes, NEW at \in A.chunks[size],
         NEW e, e = [at |-> at, len |-> size, how |-> "chunk"],
         NEW Z, ChunkLeft(Z, A, size, A.chunks[size] \ {at}, e, A.owned)
  PROVE  RamOK(Z) /\ \A c \in A.owned : Units(c.at, c.len) \cap Units(e.at, e.len) = {}
<1> DEFINE C == A.chunks[size] \ {at}
           b == FreeChunk(at, size)
           N == {e}
           o == A.owned
<1>1. A \in Ram /\ Placed(A) /\ IsBlocks(Blocks(A)) /\ AllClear(Blocks(A))
  BY BlocksTyped DEF RamOK
<1>2. C \in SUBSET Nat /\ at \in Nat /\ size \in Nat
  BY <1>1, RamTyped, Sizes
<1>3. e.at = at /\ e.len = size /\ e.how = "chunk" /\ IsChunk(e, size)
  BY <1>2 DEF IsChunk, Owners
<1>4. b \in Blocks(A) /\ b.at = at /\ b.len = size /\ b.how = "free chunk"
  <2>1. b \in Blocks(A)
    BY BlockIs, Zenon
  <2> QED BY <2>1 DEF FreeChunk
<1>5. CutInto(b, N)
  <2> HIDE DEF b
  <2>0. e.at = b.at /\ e.len = b.len /\ e.at \in Nat /\ e.len \in Nat
    BY <1>2, <1>3, <1>4
  <2>1. Within(e, b)
    BY <2>0, WithinSame
  <2> QED BY <2>1, <1>2, <1>3 DEF CutInto, IsBlocks, AllClear
<1>6. ChunksFrom(A, size, C, b, N)
  BY DEF ChunksFrom, FreeChunk
<1>7. Leaves(b, o, size)
  <2> HIDE DEF b
  <2> QED BY <1>4 DEF Leaves
<1>8. ChunkLeft(Z, A, size, C, e, o)
  OBVIOUS
<1> HIDE DEF C, o
<1>9. ChunkAfter(Z, A, size, C, e, o)
  <2>1. o \subseteq A.owned
    BY DEF o
  <2> QED BY <2>1, <1>2, <1>3, <1>8, ChunkFields
<1>10. Taken(Z) = Taken(A)
  <2> SUFFICES ASSUME NEW u PROVE u \in Taken(Z) <=> u \in Taken(A)
    OBVIOUS
  <2>1. u \in Taken(Z) <=>
          \/ \E c \in o \cup {e} : c.how # "linux" /\ u \in Units(c.at, c.len)
          \/ \E t \in Classes : \E p \in Z.chunks[t] : u \in Units(p, t)
    BY <1>9, TakenIs DEF ChunkAfter
  <2>2. u \in Taken(A) <=>
          \/ \E c \in o : c.how # "linux" /\ u \in Units(c.at, c.len)
          \/ \E t \in Classes : \E p \in A.chunks[t] : u \in Units(p, t)
    BY <1>1, TakenIs DEF o
  <2>3. (\E c \in o \cup {e} : c.how # "linux" /\ u \in Units(c.at, c.len))
          <=> (\E c \in o : c.how # "linux" /\ u \in Units(c.at, c.len)) \/ u \in Units(at, size)
    BY <1>3
  <2>4. (\E t \in Classes : \E p \in A.chunks[t] : u \in Units(p, t))
          <=> (\E t \in Classes : \E p \in Z.chunks[t] : u \in Units(p, t)) \/ u \in Units(at, size)
    <3>1. Z.chunks[size] = A.chunks[size] \ {at} /\ \A t \in Classes : t # size => Z.chunks[t] = A.chunks[t]
      BY <1>9 DEF ChunkAfter, C
    <3>2. ASSUME NEW t \in Classes, NEW p \in A.chunks[t], u \in Units(p, t)
          PROVE  (\E s \in Classes : \E q \in Z.chunks[s] : u \in Units(q, s)) \/ u \in Units(at, size)
      BY <3>1, <3>2
    <3>3. ASSUME NEW t \in Classes, NEW p \in Z.chunks[t], u \in Units(p, t)
          PROVE  \E s \in Classes : \E q \in A.chunks[s] : u \in Units(q, s)
      BY <3>1, <3>3
    <3>4. u \in Units(at, size) => \E s \in Classes : \E q \in A.chunks[s] : u \in Units(q, s)
      OBVIOUS
    <3> QED BY <3>2, <3>3, <3>4
  <2> QED BY <2>1, <2>2, <2>3, <2>4
<1>11. RamOK(Z)
  <2>1. o \subseteq A.owned /\ e \in N
    BY DEF o
  <2> HIDE DEF b, N
  <2> QED BY <2>1, <1>2, <1>3, <1>4, <1>5, <1>6, <1>7, <1>8, <1>10, ChunkMoves
<1>12. ASSUME NEW c \in A.owned PROVE Units(c.at, c.len) \cap Units(e.at, e.len) = {}
  <2>1. c \in Blocks(A) /\ c.how # "free chunk"
    BY <1>1, OwnedKinds
  <2> HIDE DEF b
  <2>2. Units(c.at, c.len) \cap Units(b.at, b.len) = {}
    BY <2>1, <1>1, <1>4, NoUnitTwice
  <2> QED BY <2>2, <1>3, <1>4
<1> QED BY <1>11, <1>12

\* A page cut into chunks, one of them taken.
Pieces(at, size) == {at + k * size : k \in 0..(Page \div size) - 1}

LEMMA PiecesIs ==
  ASSUME NEW size \in Classes, NEW at \in Nat
  PROVE  /\ Pieces(at, size) \in SUBSET Nat /\ at \in Pieces(at, size)
         /\ \A p \in Pieces(at, size) : at <= p /\ p + size <= at + Page
         /\ \A p, q \in Pieces(at, size) : p # q => p + size <= q \/ q + size <= p
         /\ \A u : u \in Units(at, Page) <=> \E p \in Pieces(at, size) : u \in Units(p, size)
<1> DEFINE m == Page \div size
<1>1. size \in Nat /\ size > 0 /\ m \in Nat /\ Page = m * size /\ Page > 0 /\ Page \in Nat
  <2>1. size \in Nat /\ size > 0 /\ Page \in Nat /\ Page > 0 /\ Page % size = 0
    BY Sizes
  <2>2. m \in Nat /\ Page = m * size + (Page % size)
    BY <2>1, Division
  <2>3. m * size \in Nat
    BY <2>1, <2>2, Product
  <2> QED BY <2>1, <2>2, <2>3
<1> HIDE DEF m
<1>2. /\ \A k \in 0..m - 1 : at + k * size \in Nat /\ at <= at + k * size /\ at + k * size + size <= at + m * size
      /\ \A j, k \in 0..m - 1 : j < k => at + j * size + size <= at + k * size
      /\ \A u \in Units(at, m * size) : \E k \in 0..m - 1 : u \in Units(at + k * size, size)
  BY <1>1, PiecesOf
<1>3. Pieces(at, size) = {at + k * size : k \in 0..m - 1}
  BY DEF Pieces, m
<1>4. ASSUME NEW p \in Pieces(at, size) PROVE p \in Nat /\ at <= p /\ p + size <= at + Page
  <2>1. PICK k \in 0..m - 1 : p = at + k * size
    BY <1>3
  <2> QED BY <2>1, <1>1, <1>2
<1>5. at \in Pieces(at, size)
  <2>1. m # 0
    <3>1. m = 0 => m * size = 0
      BY <1>1
    <3> QED BY <3>1, <1>1
  <2>2. 0 \in 0..m - 1 /\ at + 0 * size = at
    BY <2>1, <1>1
  <2> QED BY <2>2, <1>3
<1>6. ASSUME NEW p \in Pieces(at, size), NEW q \in Pieces(at, size), p # q
      PROVE  p + size <= q \/ q + size <= p
  <2>1. PICK j \in 0..m - 1 : p = at + j * size
    BY <1>3
  <2>2. PICK k \in 0..m - 1 : q = at + k * size
    BY <1>3
  <2>3. j # k
    BY <2>1, <2>2, <1>6
  <2>4. j < k \/ k < j
    BY <2>3
  <2>5. j < k => at + j * size + size <= at + k * size
    BY <1>2
  <2>6. k < j => at + k * size + size <= at + j * size
    BY <1>2
  <2> QED BY <2>1, <2>2, <2>4, <2>5, <2>6
<1>7. ASSUME NEW u, u \in Units(at, Page) PROVE \E p \in Pieces(at, size) : u \in Units(p, size)
  <2>1. u \in Units(at, m * size)
    BY <1>1, <1>7
  <2>2. PICK k \in 0..m - 1 : u \in Units(at + k * size, size)
    BY <2>1, <1>2
  <2> DEFINE p == at + k * size
  <2>3. p \in Pieces(at, size)
    BY <1>3
  <2> HIDE DEF p
  <2>4. u \in Units(p, size)
    BY <2>2 DEF p
  <2> QED BY <2>3, <2>4
<1>8. ASSUME NEW u, NEW p \in Pieces(at, size), u \in Units(p, size) PROVE u \in Units(at, Page)
  <2>1. Units(p, size) \subseteq Units(at, Page)
    BY <1>1, <1>4, WithinUnits
  <2> QED BY <2>1, <1>8
<1> QED BY <1>4, <1>5, <1>6, <1>7, <1>8

LEMMA ChunkCut ==
  ASSUME NEW Y, RamOK(Y), NEW t \in Y.owned, NEW at \in Nat, t = [at |-> at, len |-> Page, how |-> "table"],
         NEW size \in Classes, Y.chunks[size] = {}, NEW p \in Pieces(at, size),
         NEW e, e = [at |-> p, len |-> size, how |-> "chunk"],
         NEW Z, ChunkLeft(Z, Y, size, Pieces(at, size) \ {p}, e, Y.owned \ {t})
  PROVE  RamOK(Z) /\ Units(e.at, e.len) \subseteq Units(at, Page)
<1> DEFINE C == Pieces(at, size) \ {p}
           o == Y.owned \ {t}
           N == {FreeChunk(q, size) : q \in C} \cup {e}
<1>1. Y \in Ram /\ Placed(Y) /\ IsBlocks(Blocks(Y)) /\ AllClear(Blocks(Y))
  BY BlocksTyped DEF RamOK
<1>2. /\ Pieces(at, size) \in SUBSET Nat /\ at \in Pieces(at, size)
      /\ \A q \in Pieces(at, size) : at <= q /\ q + size <= at + Page
      /\ \A q, r \in Pieces(at, size) : q # r => q + size <= r \/ r + size <= q
      /\ \A u : u \in Units(at, Page) <=> \E q \in Pieces(at, size) : u \in Units(q, size)
  BY PiecesIs
<1>3. C \in SUBSET Nat /\ p \in Nat /\ size \in Nat /\ Page \in Nat
  BY <1>2, Sizes
<1>4. e.at = p /\ e.len = size /\ e.how = "chunk" /\ IsChunk(e, size)
  BY <1>3 DEF IsChunk, Owners
<1>5. t \in Blocks(Y) /\ t.at = at /\ t.len = Page /\ t.how = "table"
  BY DEF Blocks
<1>6. ASSUME NEW n \in N PROVE n.at \in Pieces(at, size) /\ n.len = size
  <2>1. CASE n = e
    BY <2>1, <1>4
  <2>2. ASSUME NEW q \in C, n = FreeChunk(q, size) PROVE n.at \in Pieces(at, size) /\ n.len = size
    BY <2>2 DEF FreeChunk
  <2> QED BY <2>1, <2>2
<1>7. ASSUME NEW m \in N, NEW n \in N, m # n PROVE m.at # n.at
  <2>1. \A q \in C : FreeChunk(q, size).at = q /\ q # p
    BY DEF FreeChunk
  <2> QED BY <2>1, <1>7, <1>4
<1>8. CutInto(t, N)
  <2> HIDE DEF N
  <2>1. IsBlocks(N)
    BY <1>6, <1>2, <1>3 DEF IsBlocks
  <2>2. ASSUME NEW m \in N, NEW n \in N, m # n PROVE Clear(m, n)
    <3>1. m.at \in Pieces(at, size) /\ n.at \in Pieces(at, size) /\ m.at # n.at /\ m.len = size /\ n.len = size
      BY <1>6, <1>7, <2>2
    <3>2. m.at + size <= n.at \/ n.at + size <= m.at
      BY <3>1, <1>2
    <3> QED BY <3>1, <3>2 DEF Clear
  <2>3. ASSUME NEW n \in N PROVE Within(n, t)
    <3>1. n.at \in Pieces(at, size) /\ n.len = size
      BY <1>6
    <3>2. at <= n.at /\ n.at + size <= at + Page
      BY <3>1, <1>2
    <3> QED BY <3>1, <3>2, <1>5 DEF Within
  <2> QED BY <2>1, <2>2, <2>3 DEF CutInto, AllClear
<1>9. ChunksFrom(Y, size, C, t, N)
  BY DEF ChunksFrom
<1>10. Leaves(t, o, size)
  BY <1>5 DEF Leaves
<1>11. ChunkLeft(Z, Y, size, C, e, o) /\ o \subseteq Y.owned /\ e \in N /\ t \in Blocks(Y)
  BY <1>5
<1>12. Y.owned = o \cup {t} /\ Pieces(at, size) = C \cup {p}
  OBVIOUS
<1> HIDE DEF C, o, N
<1>13. ChunkAfter(Z, Y, size, C, e, o)
  BY <1>3, <1>4, <1>11, ChunkFields
<1>14. Taken(Z) = Taken(Y)
  <2> SUFFICES ASSUME NEW u PROVE u \in Taken(Z) <=> u \in Taken(Y)
    OBVIOUS
  <2>1. u \in Taken(Z) <=>
          \/ \E c \in o \cup {e} : c.how # "linux" /\ u \in Units(c.at, c.len)
          \/ \E s \in Classes : \E q \in Z.chunks[s] : u \in Units(q, s)
    BY <1>13, TakenIs DEF ChunkAfter
  <2>2. u \in Taken(Y) <=>
          \/ \E c \in o \cup {t} : c.how # "linux" /\ u \in Units(c.at, c.len)
          \/ \E s \in Classes : \E q \in Y.chunks[s] : u \in Units(q, s)
    BY <1>1, <1>12, TakenIs
  <2>3. (\E c \in o \cup {e} : c.how # "linux" /\ u \in Units(c.at, c.len))
          <=> (\E c \in o : c.how # "linux" /\ u \in Units(c.at, c.len)) \/ u \in Units(p, size)
    BY <1>4
  <2>4. (\E c \in o \cup {t} : c.how # "linux" /\ u \in Units(c.at, c.len))
          <=> (\E c \in o : c.how # "linux" /\ u \in Units(c.at, c.len)) \/ u \in Units(at, Page)
    BY <1>5
  <2>5. (\E s \in Classes : \E q \in Z.chunks[s] : u \in Units(q, s))
          <=> (\E s \in Classes : \E q \in Y.chunks[s] : u \in Units(q, s)) \/ (\E q \in C : u \in Units(q, size))
    <3>1. Z.chunks[size] = C /\ Y.chunks[size] = {} /\ \A s \in Classes : s # size => Z.chunks[s] = Y.chunks[s]
      BY <1>13 DEF ChunkAfter
    <3>2. ASSUME NEW s \in Classes, NEW q \in Z.chunks[s], u \in Units(q, s)
          PROVE  (\E r \in Classes : \E x \in Y.chunks[r] : u \in Units(x, r)) \/ (\E x \in C : u \in Units(x, size))
      BY <3>1, <3>2
    <3>3. ASSUME NEW s \in Classes, NEW q \in Y.chunks[s], u \in Units(q, s)
          PROVE  \E r \in Classes : \E x \in Z.chunks[r] : u \in Units(x, r)
      BY <3>1, <3>3
    <3>4. (\E q \in C : u \in Units(q, size)) => \E s \in Classes : \E q \in Z.chunks[s] : u \in Units(q, s)
      BY <3>1
    <3> QED BY <3>2, <3>3, <3>4
  <2>6. u \in Units(at, Page) <=> (\E q \in C : u \in Units(q, size)) \/ u \in Units(p, size)
    BY <1>2, <1>12
  <2> QED BY <2>1, <2>2, <2>3, <2>4, <2>5, <2>6
<1>15. RamOK(Z)
  BY <1>3, <1>4, <1>8, <1>9, <1>10, <1>11, <1>14, ChunkMoves
<1>16. Units(p, size) \subseteq Units(at, Page)
  BY <1>2
<1> QED BY <1>4, <1>15, <1>16

\* palloc leaves the lists of chunks, what is owned and the import as they were.
LEMMA PallocForm ==
  ASSUME NEW A, A \in Ram
  PROVE  \E n, f, g, u : Palloc(A).ram = Memory(n, f, A.chunks, g, u, A.imported, A.owned)
<1>1. CASE A.free # {}
  <2> DEFINE p == Min(A.free)
             F == A.free \ {p}
             Y == [at |-> p, ram |-> Memory(A.new, F, A.chunks, A.big, A.used, A.imported, A.owned)]
  <2>1. [A EXCEPT !.free = F] = Memory(A.new, F, A.chunks, A.big, A.used, A.imported, A.owned)
    BY LessFree
  <2>2. Palloc(A) = UsedPlus([at |-> p, ram |-> [A EXCEPT !.free = F]], Page)
    BY <1>1, PallocIs, Zenon
  <2> HIDE DEF F, p
  <2>3. UsedPlus(Y, Page).ram = Memory(A.new, F, A.chunks, A.big, A.used + Page, A.imported, A.owned)
    BY MoreUsed
  <2>4. Palloc(A) = UsedPlus(Y, Page)
    BY <2>1, <2>2
  <2> HIDE DEF Y
  <2> QED BY <2>3, <2>4
<1>2. CASE A.free = {}
  <2>1. Palloc(A) = UsedPlus(Pbump(A, 1), Page)
    BY <1>2, PallocIs
  <2>2. CASE Pbump(A, 1) = [at |-> 0, ram |-> A]
    <3> DEFINE Y == [at |-> 0, ram |-> Memory(A.new, A.free, A.chunks, A.big, A.used, A.imported, A.owned)]
    <3>1. UsedPlus(Y, Page).ram = Memory(A.new, A.free, A.chunks, A.big, A.used + Page, A.imported, A.owned)
      BY MoreUsed
    <3>2. Pbump(A, 1) = Y
      BY <2>2, MemoryIs
    <3> HIDE DEF Y
    <3> QED BY <2>1, <3>1, <3>2
  <2>3. CASE \E r \in A.new : Pbump(A, 1) = [at |-> r.start, ram |-> Memory(Above(A, r, r.start + 1 * Page), A.free,
                                A.chunks, A.big, A.used, A.imported, A.owned)]
    <3>1. PICK r \in A.new : Pbump(A, 1) = [at |-> r.start, ram |-> Memory(Above(A, r, r.start + 1 * Page), A.free,
                                A.chunks, A.big, A.used, A.imported, A.owned)]
      BY <2>3
    <3> DEFINE n == Above(A, r, r.start + 1 * Page)
    <3> HIDE DEF n
    <3> DEFINE Y == [at |-> r.start, ram |-> Memory(n, A.free, A.chunks, A.big, A.used, A.imported, A.owned)]
    <3>2. UsedPlus(Y, Page).ram = Memory(n, A.free, A.chunks, A.big, A.used + Page, A.imported, A.owned)
      BY MoreUsed
    <3>3. Pbump(A, 1) = Y
      BY <3>1 DEF n
    <3> HIDE DEF Y
    <3> QED BY <2>1, <3>2, <3>3
  <2>4. 1 \in Nat
    OBVIOUS
  <2> QED BY <2>2, <2>3, <2>4, PbumpIs
<1> QED BY <1>1, <1>2

LEMMA ChunksWith ==
  ASSUME NEW A, A \in Ram, NEW x
  PROVE  [A EXCEPT !.chunks = x] = Memory(A.new, A.free, x, A.big, A.used, A.imported, A.owned)
BY DEF Memory, Ram

\* kmalloc of a chunk.
LEMMA ChunkTaken ==
  ASSUME NEW A, RamOK(A), NEW size \in Classes, ChunkAlloc(A, size).at # 0
  PROVE  Took(A, ChunkAlloc(A, size), size, "chunk")
<1> DEFINE page == Palloc(A)
           cut == Pieces(page.at, size)
           B == IF A.chunks[size] # {} THEN A ELSE [page.ram EXCEPT !.chunks[size] = cut]
           at == Min(B.chunks[size])
           got == ChunkAlloc(A, size)
           e == Piece(got, size, "chunk")
           how == "chunk"
<1>1. got = IF A.chunks[size] = {} /\ page.at = 0 THEN page
            ELSE [at |-> at, ram |-> [B EXCEPT !.chunks[size] = @ \ {at}]]
  BY DEF ChunkAlloc, Pieces
<1>2. A \in Ram /\ A.chunks \in [Classes -> SUBSET Nat]
  BY RamTyped DEF RamOK
<1>3. ~ (A.chunks[size] = {} /\ page.at = 0)
  BY <1>1
<1>4. got = [at |-> at, ram |-> [B EXCEPT !.chunks[size] = @ \ {at}]]
  BY <1>1, <1>3
<1> HIDE DEF got
<1>5. CASE A.chunks[size] # {}
  <2> DEFINE c == [A.chunks EXCEPT ![size] = A.chunks[size] \ {at}]
  <2>1. B = A
    BY <1>5
  <2>2. at \in A.chunks[size] /\ at \in Nat
    BY <2>1, <1>2, <1>5, MinIn
  <2> HIDE DEF B
  <2>3. [A EXCEPT !.chunks[size] = @ \ {at}] = [A EXCEPT !.chunks = c]
    OBVIOUS
  <2> HIDE DEF at
  <2>4. got.at = at /\ got.ram = [A EXCEPT !.chunks = c]
    BY <1>4, <2>1, <2>3
  <2> HIDE DEF c
  <2>5. got.ram = Memory(A.new, A.free, c, A.big, A.used, A.imported, A.owned)
    BY <2>4, <1>2, ChunksWith
  <2>6. e = [at |-> at, len |-> size, how |-> how] /\ e.at = at /\ e.at \in Nat
    BY <2>2, <2>4 DEF Piece
  <2> DEFINE Z == Own(got, size, how)
  <2>7. ChunkLeft(Z, A, size, A.chunks[size] \ {at}, e, A.owned)
    <3> DEFINE n1 == A.new
               f1 == A.free
               b1 == A.big
               u1 == A.used
               i1 == A.imported
               o1 == A.owned
    <3>1. got.ram = Memory(n1, f1, c, b1, u1, i1, o1) /\ e = [at |-> got.at, len |-> size, how |-> how]
      BY <2>4, <2>5, <2>6
    <3> HIDE DEF n1, f1, b1, u1, i1, o1, e, Z
    <3>2. Own(got, size, how) = Memory(n1, f1, c, b1, u1, i1, o1 \cup {e})
      BY <3>1, OwnMemory
    <3> QED BY <3>2 DEF ChunkLeft, c, n1, f1, b1, u1, i1, o1, Z
  <2> HIDE DEF Z
  <2>8. RamOK(Z) /\ \A x \in A.owned : Units(x.at, x.len) \cap Units(e.at, e.len) = {}
    BY <2>2, <2>6, <2>7, ChunkFromList
  <2>9. RamOK(Own(got, size, how)) /\ e = Piece(got, size, how)
    BY <2>8 DEF Z
  <2> HIDE DEF e, how
  <2>10. Took(A, got, size, how)
    BY <2>5, <2>6, <2>8, <2>9, TookFields
  <2> QED BY <2>10 DEF how, got
<1>6. CASE A.chunks[size] = {}
  <2> DEFINE Y == Own(page, Page, "table")
             t == [at |-> page.at, len |-> Page, how |-> "table"]
  <2>1. page.at # 0 /\ Took(A, page, Page, "table")
    <3>1. "table" \in {"page", "table"}
      OBVIOUS
    <3> QED BY <1>3, <1>6, <3>1, PallocTaken
  <2>2. /\ page.at \in Nat /\ RamOK(Y) /\ Y.owned = A.owned \cup {t} /\ Y.imported = A.imported
        /\ \A x \in A.owned : Units(x.at, x.len) \cap Units(page.at, Page) = {}
    BY <2>1 DEF Took
  <2>3. PICK n, f, g, u : page.ram = Memory(n, f, A.chunks, g, u, A.imported, A.owned)
    BY <1>2, PallocForm
  <2> HIDE DEF page
  <2>4. at \in cut /\ at \in Nat
    <3>1. cut \in SUBSET Nat /\ cut # {}
      BY <2>2, PiecesIs
    <3>2. B.chunks[size] = cut
      <4>1. page.ram.chunks = A.chunks
        BY <2>3 DEF Memory
      <4>2. page.ram = [new |-> n, free |-> f, chunks |-> A.chunks, big |-> g, used |-> u, imported |-> A.imported, owned |-> A.owned]
        BY <2>3 DEF Memory
      <4> HIDE DEF cut
      <4>3. [page.ram EXCEPT !.chunks[size] = cut].chunks = [A.chunks EXCEPT ![size] = cut]
        BY <4>2
      <4> QED BY <4>3, <1>2, <1>6
    <3>3. Min(cut) \in cut
      BY <3>1, MinIn
    <3> HIDE DEF B, cut
    <3> QED BY <3>1, <3>2, <3>3 DEF at
  <2> DEFINE c == [A.chunks EXCEPT ![size] = cut \ {at}]
  <2>5. got.at = at /\ got.ram = Memory(n, f, c, g, u, A.imported, A.owned)
    <3> DEFINE i == A.imported
               o == A.owned
               M == Memory(n, f, A.chunks, g, u, i, o)
               d == [A.chunks EXCEPT ![size] = cut]
    <3>1. [M EXCEPT !.chunks[size] = cut] = Memory(n, f, d, g, u, i, o)
      <4> HIDE DEF i, o, cut
      <4> QED BY DEF Memory
    <3>2. B = Memory(n, f, d, g, u, i, o)
      BY <1>6, <2>3, <3>1
    <3>3. d[size] = cut /\ [d EXCEPT ![size] = cut \ {at}] = c
      <4> HIDE DEF cut, at, B
      <4> QED BY <1>2
    <3> HIDE DEF B, at, d, c, cut, i, o
    <3>4. [B EXCEPT !.chunks[size] = @ \ {at}] = Memory(n, f, [d EXCEPT ![size] = cut \ {at}], g, u, i, o)
      BY <3>2, <3>3 DEF Memory
    <3> QED BY <1>4, <3>3, <3>4 DEF i, o
  <2> HIDE DEF at, B, cut
  <2>6. e = [at |-> at, len |-> size, how |-> how] /\ e.at = at /\ e.len = size /\ e.at \in Nat
    BY <2>4, <2>5 DEF Piece
  <2> DEFINE Z == Own(got, size, how)
  <2>7. t \notin A.owned
    <3> SUFFICES ASSUME t \in A.owned PROVE FALSE
      OBVIOUS
    <3>1. Units(t.at, t.len) \cap Units(page.at, Page) = {}
      BY <2>2
    <3>2. t.at = page.at /\ t.len = Page
      OBVIOUS
    <3>3. page.at \in Units(page.at, Page)
      BY <2>2, Sizes DEF Units
    <3> QED BY <3>1, <3>2, <3>3
  <2>8. ChunkLeft(Z, Y, size, cut \ {at}, e, Y.owned \ {t})
    <3> DEFINE i == A.imported
               o == A.owned
               d == A.chunks
    <3>1. got.ram = Memory(n, f, c, g, u, i, o) /\ e = [at |-> got.at, len |-> size, how |-> how]
          /\ page.ram = Memory(n, f, d, g, u, i, o) /\ t = [at |-> page.at, len |-> Page, how |-> "table"]
      BY <2>3, <2>5, <2>6
    <3>2. Y.owned \ {t} = o
      BY <2>2, <2>7
    <3>3. c = [d EXCEPT ![size] = cut \ {at}]
      OBVIOUS
    <3> HIDE DEF i, o, d, e, Z, Y, t, c
    <3>4. Own(got, size, how) = Memory(n, f, c, g, u, i, o \cup {e})
      BY <3>1, OwnMemory
    <3>5. Own(page, Page, "table") = Memory(n, f, d, g, u, i, o \cup {t})
      BY <3>1, OwnMemory
    <3>6. Y.new = n /\ Y.free = f /\ Y.chunks = d /\ Y.big = g /\ Y.used = u /\ Y.imported = i
      BY <3>5 DEF Memory, Y
    <3> QED BY <3>2, <3>3, <3>4, <3>6 DEF ChunkLeft, Z
  <2>9. Y.chunks[size] = {}
    <3> DEFINE i == A.imported
               o == A.owned
               d == A.chunks
    <3>1. page.ram = Memory(n, f, d, g, u, i, o) /\ t = [at |-> page.at, len |-> Page, how |-> "table"]
      BY <2>3
    <3> HIDE DEF i, o, d, t
    <3>5. Own(page, Page, "table") = Memory(n, f, d, g, u, i, o \cup {t})
      BY <3>1, OwnMemory
    <3>6. Y.chunks = d
      BY <3>5 DEF Memory
    <3> QED BY <3>6, <1>6 DEF d
  <2> DEFINE p == page.at
  <2>10. t \in Y.owned /\ p \in Nat /\ t = [at |-> p, len |-> Page, how |-> "table"] /\ at \in Pieces(p, size)
         /\ ChunkLeft(Z, Y, size, Pieces(p, size) \ {at}, e, Y.owned \ {t}) /\ RamOK(Y) /\ e = [at |-> at, len |-> size, how |-> "chunk"]
    BY <2>2, <2>4, <2>6, <2>8 DEF cut
  <2> HIDE DEF Y, Z, t, e, p
  <2>11. RamOK(Z) /\ Units(e.at, e.len) \subseteq Units(p, Page)
    BY <2>9, <2>10, ChunkCut
  <2>12. \A x \in A.owned : Units(x.at, x.len) \cap Units(e.at, e.len) = {}
    BY <2>2, <2>11 DEF p
  <2>13. RamOK(Own(got, size, how)) /\ e = Piece(got, size, how)
    BY <2>11 DEF Z, e
  <2> HIDE DEF how, c
  <2>14. Took(A, got, size, how)
    BY <2>5, <2>6, <2>12, <2>13, TookFields
  <2> QED BY <2>14 DEF how, got
<1> QED BY <1>5, <1>6

(* ---- kmalloc and palloc_contig ---- *)

LEMMA PagesOf ==
  ASSUME NEW total \in Nat
  PROVE  /\ Pages(total) \in Nat /\ total <= Pages(total) * Page /\ Pages(total) * Page \in Nat
         /\ total % Page = 0 => Pages(total) * Page = total
<1> DEFINE u == AlignUp(total, Page)
           q == u \div Page
<1>1. u \in Nat /\ total <= u /\ u % Page = 0 /\ Page \in Nat /\ Page > 0
  BY Sizes, AlignedUp
<1>2. total % Page = 0 => u <= total
  BY <1>1, AlignBetween
<1>3. q = Pages(total)
  BY DEF Pages
<1> HIDE DEF u
<1>4. q \in Nat /\ u = q * Page + (u % Page) /\ q * Page \in Nat
  BY <1>1, Division, Product
<1> HIDE DEF q
<1>5. q * Page = u
  BY <1>1, <1>4
<1>6. (total % Page = 0) => u = total
  BY <1>1, <1>2
<1> QED BY <1>1, <1>3, <1>4, <1>5, <1>6

LEMMA ClassIs ==
  ASSUME NEW total \in Nat, total <= Page
  PROVE  /\ ClassOf(total) \in Classes /\ total <= ClassOf(total)
         /\ total \in Classes => ClassOf(total) = total
<1> DEFINE S == {c \in Classes : c >= total}
<1>1. S \in SUBSET Nat /\ S # {}
  BY Sizes
<1>2. Min(S) \in S /\ \A y \in S : Min(S) <= y
  BY <1>1, MinIn
<1>3. ClassOf(total) = Min(S)
  BY DEF ClassOf
<1> DEFINE m == Min(S)
<1>4. m \in Classes /\ m \in Nat /\ total <= m /\ (total \in Classes => m <= total)
  BY <1>1, <1>2
<1> HIDE DEF m, S
<1>5. total \in Classes => m = total
  BY <1>4
<1> QED BY <1>3, <1>4, <1>5 DEF m

LEMMA KmallocTaken ==
  ASSUME NEW A, RamOK(A), NEW total \in Nat, Kmalloc(A, total).at # 0
  PROVE  /\ total > Page => Took(A, Kmalloc(A, total), Pages(total) * Page, "block")
         /\ total <= Page => Took(A, Kmalloc(A, total), ClassOf(total), "chunk")
<1>1. CASE total > Page
  <2> DEFINE n == Pages(total)
  <2>1. n \in Nat /\ n * Page > Page
    BY <1>1, PagesOf, Sizes
  <2>2. Kmalloc(A, total) = BigAlloc(A, n)
    BY <1>1 DEF Kmalloc
  <2> HIDE DEF n
  <2>3. BigAlloc(A, n).at # 0
    BY <2>2
  <2>4. Took(A, BigAlloc(A, n), n * Page, "block")
    BY <2>1, <2>3, BigTaken
  <2>5. ~ (total <= Page)
    BY <1>1, Sizes
  <2> QED BY <2>2, <2>4, <2>5 DEF n
<1>2. CASE ~ (total > Page)
  <2> DEFINE s == ClassOf(total)
  <2>1. s \in Classes
    BY <1>2, ClassIs, Sizes
  <2>2. Kmalloc(A, total) = ChunkAlloc(A, s)
    BY <1>2 DEF Kmalloc
  <2> HIDE DEF s
  <2>3. Took(A, ChunkAlloc(A, s), s, "chunk")
    BY <2>1, <2>2, ChunkTaken
  <2> QED BY <1>2, <2>2, <2>3 DEF s
<1> QED BY <1>1, <1>2

\* What is not Linux's stays whose it is.
Same(A, Z) == Z.imported = A.imported /\ \A b : b.how # "linux" => (b \in Z.owned <=> b \in A.owned)

LEMMA LinuxTaken ==
  ASSUME NEW A, RamOK(A), NEW len \in Nat, NEW align \in Nat, align > 0, align % Page = 0, NEW min \in Nat
  PROVE  /\ RamOK(ForLinux(PallocContig(A, len, align, min), len))
         /\ Same(A, ForLinux(PallocContig(A, len, align, min), len))
<1> DEFINE from(r) == AlignUp(Largest(r.start, min), align)
           fits == {r \in A.new : from(r) + len <= r.end}
           q == Lowest(fits)
           got == PallocContig(A, len, align, min)
           e == Piece(got, len, "linux")
           at == from(q)
           to == at + AlignUp(len, Page)
<1>1. A \in Ram /\ Placed(A)
  BY DEF RamOK
<1>2. got = IF fits = {} THEN [at |-> 0, ram |-> [A EXCEPT !.new = {}]]
            ELSE [at |-> at, ram |-> BumpTo(A, q, to)]
  BY DEF PallocContig
<1> HIDE DEF got
<1>3. CASE fits = {}
  <2> DEFINE Z == [A EXCEPT !.new = {}]
  <2>1. got.at = 0 /\ got.ram = Z
    BY <1>2, <1>3
  <2>2. ForLinux(got, len) = Z
    BY <2>1 DEF ForLinux
  <2>3. /\ Z \in Ram /\ Z.new = {} /\ Z.free = A.free /\ Z.chunks = A.chunks /\ Z.big = A.big
        /\ Z.used = A.used /\ Z.imported = A.imported /\ Z.owned = A.owned
    BY <1>1 DEF Ram
  <2> HIDE DEF Z
  <2>4. Placed(Z)
    BY <1>1, <2>3 DEF Placed
  <2>5. Blocks(Z) \subseteq Blocks(A) \cup {}
    BY <2>3, BlocksFrom
  <2>6. Taken(Z) = Taken(A)
    <3>1. ASSUME NEW u PROVE u \in Taken(Z) <=> u \in Taken(A)
      BY <1>1, <2>3, TakenIs
    <3> QED BY <3>1
  <2>7. IsFiniteSet(Taken(Z)) /\ Z.used = Cardinality(Taken(Z))
    BY <2>3, <2>6 DEF RamOK
  <2> DEFINE f == [x \in {} |-> x]
             O == {}
             N == {}
  <2>8. O \subseteq Blocks(A) /\ IsBlocks(N) /\ CutFrom(N, O, f) /\ Blocks(Z) \subseteq (Blocks(A) \ O) \cup N
    BY <2>5 DEF IsBlocks, CutFrom
  <2> HIDE DEF f, O, N
  <2>9. RamOK(Z)
    BY <2>3, <2>4, <2>7, <2>8, RamCut
  <2>10. Same(A, Z)
    BY <2>3 DEF Same
  <2> QED BY <2>2, <2>9, <2>10 DEF got
<1>4. CASE fits # {}
  <2>1. fits \subseteq [start : Nat, end : Nat]
    BY <1>1, RamTyped
  <2>2. q \in fits
    BY <2>1, <1>4, LowestIn
  <2>3. q \in A.new /\ from(q) + len <= q.end
    BY <2>2
  <2>4. got.at = at /\ got.ram = BumpTo(A, q, to)
    BY <1>2, <1>4
  <2> HIDE DEF q, fits
  <2>5. q.start \in Nat /\ q.end \in Nat /\ LowEnd <= q.start /\ q.start % Page = 0 /\ q.end % Page = 0 /\ 0 < LowEnd /\ LowEnd \in Nat
        /\ Page \in Nat /\ Page > 0
    BY <1>1, <2>3, RamTyped, Sizes DEF Placed, RegOK
  <2> DEFINE l == Largest(q.start, min)
  <2>6. l \in Nat /\ q.start <= l
    BY <2>5 DEF Largest
  <2> HIDE DEF l
  <2>7. at \in Nat /\ l <= at /\ at % align = 0
    <3>1. AlignUp(l, align) \in Nat /\ l <= AlignUp(l, align) /\ AlignUp(l, align) % align = 0
      BY <2>6, AlignedUp
    <3> QED BY <3>1 DEF l
  <2> HIDE DEF at
  <2>8. at % Page = 0 /\ at + len <= q.end
    <3>1. at % Page = 0
      BY <2>5, <2>7, AlignedBy
    <3> QED BY <3>1, <2>3 DEF at
  <2>9. AlignUp(len, Page) \in Nat /\ len <= AlignUp(len, Page) /\ AlignUp(len, Page) % Page = 0
    BY <2>5, AlignedUp
  <2>10. to \in Nat /\ at + len <= to
    BY <2>7, <2>9
  <2>11. to % Page = 0
    <3> DEFINE w == AlignUp(len, Page)
               k == w \div Page
    <3>1. w \in Nat /\ w % Page = 0
      BY <2>9
    <3> HIDE DEF w
    <3>2. k \in Nat /\ w = k * Page + (w % Page) /\ k * Page \in Nat
      BY <3>1, <2>5, Division, Product
    <3> HIDE DEF k
    <3>3. w = k * Page
      BY <3>1, <3>2
    <3>4. (at + k * Page) % Page = 0
      BY <2>7, <2>8, <2>5, <3>2, AlignedSum
    <3> QED BY <3>3, <3>4 DEF w
  <2>12. to <= q.end
    <3> DEFINE d == q.end - at
    <3>1. d \in Nat /\ len <= d
      BY <2>5, <2>7, <2>8
    <3>2. d % Page = 0
      <4> DEFINE x == q.end \div Page
                 y == at \div Page
      <4>1. x \in Nat /\ y \in Nat /\ q.end = x * Page + (q.end % Page) /\ at = y * Page + (at % Page) /\ x * Page \in Nat /\ y * Page \in Nat
        BY <2>5, <2>7, Division, Product
      <4> HIDE DEF x, y
      <4>2. q.end = x * Page /\ at = y * Page
        BY <4>1, <2>5, <2>8
      <4>3. y * Page < x * Page + Page
        BY <4>1, <4>2, <2>5, <3>1
      <4>4. y <= x
        BY <4>1, <4>3, <2>5, Multiples
      <4>5. x - y \in Nat /\ (x - y) * Page = x * Page - y * Page
        BY <4>1, <4>4, <2>5
      <4>6. ((x - y) * Page) % Page = 0
        BY <4>5, <2>5, MultipleOf
      <4> QED BY <4>2, <4>5, <4>6
    <3> HIDE DEF d
    <3>3. AlignUp(len, Page) <= d
      BY <3>1, <3>2, <2>5, AlignBetween
    <3> QED BY <3>3, <3>1, <2>5, <2>7, <2>9 DEF d
  <2> HIDE DEF to
  <2> DEFINE u == A.used
  <2>13. got.ram = Memory(Above(A, q, to), A.free, A.chunks, A.big, u, A.imported, A.owned)
    BY <2>4, <1>1, BumpToIs
  <2>14. e.at = at /\ e.len = len /\ e.how = "linux" /\ e = [at |-> at, len |-> len, how |-> "linux"]
    BY <2>4 DEF Piece
  <2>15. IsOwned(e)
    <3>1. e \in [at : Nat, len : Nat, how : Owners]
      BY <2>7, <2>14 DEF Owners
    <3> HIDE DEF e
    <3>2. BlockOK(e)
      BY <2>14 DEF BlockOK, Paged
    <3> QED BY <3>1, <3>2, <2>14 DEF IsOwned
  <2>16. u = UsedWith(A, e)
    BY <2>14 DEF UsedWith
  <2>17. q.start <= e.at /\ e.at + e.len <= to
    BY <2>5, <2>6, <2>7, <2>10, <2>14
  <2>18. e = Piece(got, len, "linux")
    OBVIOUS
  <2> DEFINE how == "linux"
  <2>19. e = Piece(got, len, how) /\ e.how = how
    BY <2>14, <2>18
  <2> HIDE DEF e, u, how
  <2>20. Took(A, got, len, how)
    BY <2>3, <2>10, <2>11, <2>12, <2>13, <2>15, <2>16, <2>17, <2>19, FromNew
  <2>21. got.at # 0
    BY <2>4, <2>5, <2>6, <2>7
  <2> DEFINE Z == Own(got, len, how)
  <2>22. ForLinux(got, len) = Z
    BY <2>21 DEF ForLinux, how
  <2>23. RamOK(Z) /\ Z.owned = A.owned \cup {[at |-> got.at, len |-> len, how |-> how]} /\ Z.imported = A.imported
    BY <2>20 DEF Took
  <2> HIDE DEF Z
  <2>24. Same(A, Z)
    <3>1. [at |-> got.at, len |-> len, how |-> how].how = "linux"
      BY DEF how
    <3> QED BY <2>23, <3>1 DEF Same
  <2> QED BY <2>22, <2>23, <2>24 DEF got
<1> QED BY <1>3, <1>4

(* ---- giving memory back ---- *)

UnitsOf(O) == UNION {Units(b.at, b.len) : b \in O}

LEMMA UnitsOfIs == \A O, u : u \in UnitsOf(O) <=> \E b \in O : u \in Units(b.at, b.len)
BY Zenon DEF UnitsOf

\* The units of n pages are n * Page.
LEMMA PagesUnits ==
  ASSUME NEW O, IsFiniteSet(O), IsBlocks(O), AllClear(O), \A b \in O : b.len = Page
  PROVE  IsFiniteSet(UnitsOf(O)) /\ Cardinality(UnitsOf(O)) = Cardinality(O) * Page
<1> DEFINE I == 0..Page - 1
           S == O \X I
           U == UnitsOf(O)
           f == [x \in S |-> x[1].at + x[2]]
<1>1. Page \in Nat /\ Page > 0 /\ IsFiniteSet(I) /\ Cardinality(I) = Page
  <2>1. Page \in Nat /\ Page > 0
    BY Sizes
  <2>2. IsFiniteSet(0..Page - 1) /\ Cardinality(0..Page - 1) = IF 0 > Page - 1 THEN 0 ELSE (Page - 1) - 0 + 1
    BY <2>1, FS_Interval
  <2> QED BY <2>1, <2>2
<1>2. IsFiniteSet(S) /\ Cardinality(S) = Cardinality(O) * Page
  <2> HIDE DEF I
  <2>1. IsFiniteSet(S) /\ Cardinality(S) = Cardinality(O) * Cardinality(I)
    BY <1>1, FS_Product
  <2> QED BY <2>1, <1>1
<1>3. ASSUME NEW b \in O, NEW i \in I
      PROVE  b.at + i \in U /\ b.at + i \in Units(b.at, b.len)
  <2>1. b.at \in Nat /\ b.len = Page
    BY DEF IsBlocks
  <2>2. b.at + i \in Units(b.at, b.len)
    BY <2>1, <1>1 DEF Units
  <2> QED BY <2>2, UnitsOfIs, Zenon
<1>4. f \in [S -> U]
  <2>1. ASSUME NEW x \in S PROVE x[1].at + x[2] \in U
    <3>1. x[1] \in O /\ x[2] \in I
      OBVIOUS
    <3> HIDE DEF I, S, U
    <3> QED BY <3>1, <1>3
  <2> HIDE DEF S, U
  <2> QED BY <2>1
<1>5. ASSUME NEW x \in S, NEW y \in S, f[x] = f[y] PROVE x = y
  <2>1. x[1] \in O /\ x[2] \in I /\ y[1] \in O /\ y[2] \in I /\ x = <<x[1], x[2]>> /\ y = <<y[1], y[2]>>
    OBVIOUS
  <2>2. x[1].at + x[2] = y[1].at + y[2]
    BY <1>5
  <2> DEFINE b == x[1]
             c == y[1]
             i == x[2]
             j == y[2]
  <2>3. b \in O /\ c \in O /\ i \in I /\ j \in I /\ b.at + i = c.at + j
    BY <2>1, <2>2
  <2> HIDE DEF b, c, i, j
  <2>4. b.at + i \in Units(b.at, b.len) /\ b.at + i \in Units(c.at, c.len)
    BY <2>3, <1>3
  <2>5. b = c
    <3> SUFFICES ASSUME b # c PROVE FALSE
      OBVIOUS
    <3>1. Units(b.at, b.len) \cap Units(c.at, c.len) = {}
      BY <2>3, NoUnitTwice
    <3> QED BY <3>1, <2>4
  <2>6. i = j
    <3>1. b.at \in Nat
      BY <2>3 DEF IsBlocks
    <3> QED BY <3>1, <2>3, <2>5
  <2> QED BY <2>1, <2>5, <2>6 DEF b, c, i, j
<1>6. ASSUME NEW u \in U PROVE \E x \in S : f[x] = u
  <2>1. PICK b \in O : u \in Units(b.at, b.len)
    BY UnitsOfIs, Zenon
  <2>2. b.at \in Nat /\ b.len = Page
    BY DEF IsBlocks
  <2> DEFINE i == u - b.at
             x == <<b, i>>
  <2>3. i \in I /\ b.at + i = u
    BY <2>1, <2>2, <1>1 DEF Units
  <2>4. x \in S
    BY <2>3
  <2>5. f[x] = x[1].at + x[2]
    BY <2>4
  <2> QED BY <2>3, <2>4, <2>5
<1>7. f \in Surjection(S, U) /\ f \in Injection(S, U)
  <2> HIDE DEF S, U, f
  <2>1. f \in Surjection(S, U)
    BY <1>4, <1>6 DEF Surjection
  <2>2. f \in Injection(S, U)
    BY <1>4, <1>5 DEF Injection, IsInjective
  <2> QED BY <2>1, <2>2
<1> HIDE DEF S, U, f
<1>8. IsFiniteSet(U) /\ Cardinality(U) = Cardinality(S)
  BY <1>2, <1>7, FS_Surjection
<1> QED BY <1>2, <1>8 DEF U

\* The blocks O go back, as the pages and blocks on the lists f and g that are in N.
GivenBack(Z, A, f, g, c, O) ==
  Z = Memory(A.new, f, A.chunks, g, A.used - c, A.imported, A.owned \ O)
ListsOK(f, g) ==
  /\ f \subseteq Nat /\ \A p \in f : p % Page = 0
  /\ g \in [1..BigMax -> SUBSET Nat] /\ \A k \in 1..BigMax : \A p \in g[k] : p % Page = 0
ListsFrom(A, f, g, N) ==
  /\ \A p \in f : p \in A.free \/ FreePage(p) \in N
  /\ \A k \in 1..BigMax : \A p \in g[k] : p \in A.big[k] \/ FreeBig(p, k) \in N
Gives(A, O) == O \subseteq A.owned /\ \A b \in O : b.how \in {"page", "table", "block"}
CutPieces(N, O, h) == IsBlocks(N) /\ CutFrom(N, O, h) /\ \A n \in N : n.how \in {"free page", "free block"}

LEMMA Given ==
  ASSUME NEW A, RamOK(A), NEW O, Gives(A, O), NEW c, IsFiniteSet(UnitsOf(O)), c = Cardinality(UnitsOf(O)),
         NEW f, NEW g, ListsOK(f, g), NEW N, NEW h, CutPieces(N, O, h), ListsFrom(A, f, g, N),
         NEW Z, GivenBack(Z, A, f, g, c, O)
  PROVE  RamOK(Z)
<1>1. /\ A \in Ram /\ Placed(A) /\ IsBlocks(Blocks(A)) /\ AllClear(Blocks(A))
      /\ IsFiniteSet(Taken(A)) /\ A.used = Cardinality(Taken(A))
  BY BlocksTyped DEF RamOK
<1> DEFINE n == A.new
           d == A.chunks
           i == A.imported
           u == A.used - c
           o == A.owned \ O
<1>2. Z = Memory(n, f, d, g, u, i, o)
  BY DEF GivenBack
<1>3. O \subseteq Blocks(A) /\ O \subseteq A.owned
  BY DEF Blocks, Gives
<1> HIDE DEF u, o
<1>4. Z.new = n /\ Z.free = f /\ Z.chunks = d /\ Z.big = g /\ Z.used = u /\ Z.imported = i /\ Z.owned = o
  <2> HIDE DEF n, d, i
  <2> QED BY <1>2 DEF Memory
\* What is counted: without the units of O.
<1>5. \A x : x \in Taken(A) <=>
        \/ \E b \in A.owned : b.how # "linux" /\ x \in Units(b.at, b.len)
        \/ \E s \in Classes : \E p \in A.chunks[s] : x \in Units(p, s)
  BY <1>1, TakenIs
<1> DEFINE T == {x \in Taken(A) : \/ \E b \in o : b.how # "linux" /\ x \in Units(b.at, b.len)
                                  \/ \E s \in Classes : \E p \in A.chunks[s] : x \in Units(p, s)}
           U == UnitsOf(O)
<1>6. T \cap U = {}
  <2> SUFFICES ASSUME NEW x \in T, x \in U PROVE FALSE
    OBVIOUS
  <2>1. PICK b \in O : x \in Units(b.at, b.len)
    BY UnitsOfIs, Zenon
  <2>2. b \in Blocks(A) /\ b \in A.owned
    BY <1>3
  <2>3. ASSUME NEW e \in o, x \in Units(e.at, e.len) PROVE FALSE
    <3>1. e \in Blocks(A) /\ e # b
      BY DEF o, Blocks
    <3>2. Units(b.at, b.len) \cap Units(e.at, e.len) = {}
      BY <2>2, <3>1, <1>1, NoUnitTwice
    <3> QED BY <3>2, <2>1, <2>3
  <2>4. ASSUME NEW s \in Classes, NEW p \in A.chunks[s], x \in Units(p, s) PROVE FALSE
    <3> DEFINE e == FreeChunk(p, s)
    <3>1. e \in Blocks(A)
      BY BlockIs, Zenon
    <3>2. e.how = "free chunk" /\ e.at = p /\ e.len = s
      BY DEF FreeChunk
    <3> HIDE DEF e
    <3>3. e # b
      BY <3>2, <2>2, <1>1, OwnedKinds
    <3>4. Units(b.at, b.len) \cap Units(e.at, e.len) = {}
      BY <2>2, <3>1, <3>3, <1>1, NoUnitTwice
    <3> QED BY <3>2, <3>4, <2>1, <2>4
  <2> QED BY <2>3, <2>4
<1>7. T \cup U = Taken(A)
  <2>1. ASSUME NEW x, x \in Taken(A) PROVE x \in T \/ x \in U
    <3>1. CASE \E b \in A.owned : b.how # "linux" /\ x \in Units(b.at, b.len)
      <4>1. PICK b \in A.owned : b.how # "linux" /\ x \in Units(b.at, b.len)
        BY <3>1
      <4>2. CASE b \in O
        BY <4>1, <4>2, UnitsOfIs, Zenon
      <4>3. CASE b \notin O
        BY <4>1, <4>3, <2>1 DEF o
      <4> QED BY <4>2, <4>3
    <3>2. CASE \E s \in Classes : \E p \in A.chunks[s] : x \in Units(p, s)
      BY <3>2, <2>1
    <3> QED BY <3>1, <3>2, <2>1, <1>5
  <2>2. ASSUME NEW x, x \in U PROVE x \in Taken(A)
    <3>1. PICK b \in O : x \in Units(b.at, b.len)
      BY <2>2, UnitsOfIs, Zenon
    <3>2. b \in A.owned /\ b.how # "linux"
      BY DEF Gives
    <3> QED BY <3>1, <3>2, <1>5
  <2> HIDE DEF U
  <2> QED BY <2>1, <2>2
<1> HIDE DEF T, U
<1>8. IsFiniteSet(T) /\ IsFiniteSet(U) /\ c = Cardinality(U)
  <2>1. T \subseteq Taken(A)
    BY <1>7
  <2>2. IsFiniteSet(T)
    BY <2>1, <1>1, FS_Subset
  <2> QED BY <2>2 DEF U
<1>9. u = Cardinality(T) /\ u \in Nat
  <2>1. Cardinality(T \cup U) = Cardinality(T) + Cardinality(U) /\ Cardinality(T) \in Nat /\ Cardinality(U) \in Nat
    BY <1>6, <1>8, CountMore
  <2> DEFINE x == Cardinality(T)
             y == Cardinality(U)
             z == Cardinality(Taken(A))
  <2>2. z = x + y /\ x \in Nat /\ y \in Nat
    BY <2>1, <1>7
  <2>3. u = z - y
    BY <1>1, <1>8 DEF u
  <2> HIDE DEF x, y, z
  <2>4. u = x
    BY <2>2, <2>3
  <2> QED BY <2>2, <2>4 DEF x
<1>10. Z \in Ram
  <2>1. n \subseteq [start : Nat, end : Nat] /\ d \in [Classes -> SUBSET Nat] /\ i \in BOOLEAN
        /\ o \subseteq [at : Nat, len : Nat, how : Owners]
    BY <1>1, RamTyped DEF o
  <2>2. f \subseteq Nat /\ g \in [1..BigMax -> SUBSET Nat]
    BY DEF ListsOK
  <2> HIDE DEF n, d, i
  <2> QED BY <1>2, <1>9, <2>1, <2>2, MemoryTyped
<1>11. Placed(Z)
  <2>1. \A b \in Z.owned : BlockOK(b)
    BY <1>1, <1>4 DEF Placed, o
  <2>2. \A r \in Z.new : RegOK(r)
    BY <1>1, <1>4 DEF Placed
  <2>3. (\A p \in Z.free : p % Page = 0) /\ (\A k \in 1..BigMax : \A p \in Z.big[k] : p % Page = 0)
    BY <1>4 DEF ListsOK
  <2> QED BY <2>1, <2>2, <2>3 DEF Placed
<1>12. Taken(Z) = T
  <2>1. \A x : x \in Taken(Z) <=>
          \/ \E b \in o : b.how # "linux" /\ x \in Units(b.at, b.len)
          \/ \E s \in Classes : \E p \in A.chunks[s] : x \in Units(p, s)
    BY <1>4, <1>10, TakenIs
  <2>2. \A x \in Taken(Z) : x \in Taken(A)
    BY <2>1, <1>5 DEF o
  <2> QED BY <2>1, <2>2 DEF T
<1>13. Blocks(Z) \subseteq (Blocks(A) \ O) \cup N
  <2>1. Blocks(Z) \subseteq Blocks(A) \cup N
    <3>1. Z.owned \subseteq A.owned \cup N
      BY <1>4 DEF o
    <3>2. \A p \in Z.free : p \in A.free \/ FreePage(p) \in N
      BY <1>4 DEF ListsFrom
    <3>3. \A s \in Classes : \A p \in Z.chunks[s] : p \in A.chunks[s] \/ FreeChunk(p, s) \in N
      BY <1>4
    <3>4. \A k \in 1..BigMax : \A p \in Z.big[k] : p \in A.big[k] \/ FreeBig(p, k) \in N
      BY <1>4 DEF ListsFrom
    <3>5. \A r \in Z.new : r \in A.new \/ NewPart(r) \in N
      BY <1>4
    <3> QED BY <3>1, <3>2, <3>3, <3>4, <3>5, BlocksFrom
  <2>2. ASSUME NEW b \in O, b \in Blocks(Z) PROVE FALSE
    <3>1. b.how \in Owners
      BY DEF Gives, Owners
    <3>2. b \in Z.owned
      BY <2>2, <3>1, OwnerIs
    <3> QED BY <3>2, <1>4 DEF o
  <2> QED BY <2>1, <2>2
<1>14. Z.imported = A.imported /\ IsFiniteSet(Taken(Z)) /\ Z.used = Cardinality(Taken(Z))
  BY <1>4, <1>8, <1>9, <1>12
<1>15. IsBlocks(N) /\ CutFrom(N, O, h)
  BY DEF CutPieces
<1> QED BY <1>3, <1>10, <1>11, <1>13, <1>14, <1>15, RamCut

(* ---- pfree and kfree ---- *)

PagesOwned(A, O) == O \subseteq A.owned /\ \A b \in O : b.how \in {"page", "table"}

LEMMA TwoFields == \A A, x, y : [A EXCEPT !.free = x, !.used = y] = [[A EXCEPT !.free = x] EXCEPT !.used = y]
OBVIOUS

LEMMA PfreeMemory ==
  ASSUME NEW n, NEW f, NEW c, NEW b, NEW u, NEW i, NEW o, NEW P, NEW k
  PROVE  PfreeAll(Memory(n, f, c, b, u, i, o), P, k) = Memory(n, f \cup P, c, b, u - k * Page, i, o)
<1> DEFINE A == Memory(n, f, c, b, u, i, o)
           x == f \cup P
           w == u - k * Page
<1>1. A.free = f /\ A.used = u
  BY DEF Memory
<1>2. [A EXCEPT !.free = x] = Memory(n, x, c, b, u, i, o)
  <2> HIDE DEF x, w
  <2> QED BY DEF Memory
<1>3. [Memory(n, x, c, b, u, i, o) EXCEPT !.used = w] = Memory(n, x, c, b, w, i, o)
  <2> HIDE DEF x, w
  <2> QED BY DEF Memory
<1> HIDE DEF A
<1>4. PfreeAll(A, P, k) = [A EXCEPT !.free = x, !.used = w]
  BY <1>1 DEF PfreeAll
<1> HIDE DEF x, w
<1>5. [A EXCEPT !.free = x, !.used = w] = [[A EXCEPT !.free = x] EXCEPT !.used = w]
  BY TwoFields, Zenon
<1>6. PfreeAll(A, P, k) = Memory(n, x, c, b, w, i, o)
  BY <1>2, <1>3, <1>4, <1>5, Zenon
<1> QED BY <1>6, Zenon DEF A, x, w

GivesPages(Z, A, P, k, O) == Z = [PfreeAll(A, P, k) EXCEPT !.owned = @ \ O]

LEMMA PfreeForm ==
  ASSUME NEW n, NEW f, NEW c, NEW b, NEW u, NEW i, NEW o, NEW A, A = Memory(n, f, c, b, u, i, o),
         NEW P, NEW k, NEW O, NEW Z, GivesPages(Z, A, P, k, O)
  PROVE  Z = Memory(n, f \cup P, c, b, u - k * Page, i, o \ O)
<1> DEFINE x == f \cup P
           w == u - k * Page
           z == o \ O
           Y == Memory(n, x, c, b, w, i, o)
<1>3. PfreeAll(A, P, k) = Y
  BY PfreeMemory
<1> HIDE DEF x, w
<1>4. Y.owned = o
  BY DEF Memory
<1>5. [Y EXCEPT !.owned = z] = Memory(n, x, c, b, w, i, z)
  <2> HIDE DEF z
  <2> QED BY DEF Memory
<1> HIDE DEF Y
<1>6. Z = [Y EXCEPT !.owned = z]
  BY <1>3, <1>4 DEF GivesPages
<1> QED BY <1>5, <1>6 DEF x, w, z

StartsOf(P, O) == P = {b.at : b \in O}

LEMMA PagesGiven ==
  ASSUME NEW A, RamOK(A), NEW O, PagesOwned(A, O), IsFiniteSet(O), NEW k, k = Cardinality(O),
         NEW P, StartsOf(P, O),
         NEW Z, GivesPages(Z, A, P, k, O)
  PROVE  RamOK(Z) /\ Z.owned = A.owned \ O /\ Z.imported = A.imported
<1>0. P = {b.at : b \in O}
  BY DEF StartsOf
<1> USE <1>0
<1>1. A \in Ram /\ Placed(A) /\ IsBlocks(Blocks(A)) /\ AllClear(Blocks(A))
  BY BlocksTyped DEF RamOK
<1>2. \A b \in O : b \in A.owned /\ b \in Blocks(A) /\ BlockOK(b) /\ b.len = Page /\ b.at % Page = 0 /\ b.at \in Nat
  <2> SUFFICES ASSUME NEW b \in O
        PROVE b \in A.owned /\ b \in Blocks(A) /\ BlockOK(b) /\ b.len = Page /\ b.at % Page = 0 /\ b.at \in Nat
    OBVIOUS
  <2>1. b \in A.owned /\ b.how \in {"page", "table"}
    BY DEF PagesOwned
  <2>2. BlockOK(b) /\ b \in Blocks(A)
    BY <2>1, <1>1 DEF Placed, Blocks
  <2>3. b.at \in Nat
    BY <2>2, <1>1 DEF IsBlocks
  <2> QED BY <2>1, <2>2, <2>3 DEF BlockOK, Paged
<1>3. IsBlocks(O) /\ AllClear(O) /\ \A b \in O : b.len = Page
  <2>1. O \subseteq Blocks(A)
    BY <1>2
  <2> QED BY <2>1, <1>1, <1>2 DEF IsBlocks, AllClear
<1> DEFINE f == A.free \cup P
           g == A.big
           c == k * Page
           N == {FreePage(p) : p \in P}
           h == [m \in N |-> CHOOSE b \in O : b.at = m.at]
<1>4. IsFiniteSet(UnitsOf(O)) /\ c = Cardinality(UnitsOf(O))
  BY <1>3, PagesUnits
<1>5. Z = Memory(A.new, f, A.chunks, g, A.used - c, A.imported, A.owned \ O)
  <2>1. A = Memory(A.new, A.free, A.chunks, A.big, A.used, A.imported, A.owned)
    BY <1>1, MemoryIs
  <2> DEFINE a == A.new
             d == A.chunks
             u == A.used
             i == A.imported
             o == A.owned
             l == A.free
  <2>2. A = Memory(a, l, d, g, u, i, o)
    BY <2>1
  <2> HIDE DEF a, d, u, i, o, l, g
  <2>4. Z = Memory(a, l \cup P, d, g, u - k * Page, i, o \ O)
    BY <2>2, PfreeForm
  <2> QED BY <2>4, Zenon DEF a, d, u, i, o, l
<1>6. ListsOK(f, g)
  <2>1. A.free \subseteq Nat /\ g \in [1..BigMax -> SUBSET Nat]
    BY <1>1, RamTyped
  <2>2. (\A p \in A.free : p % Page = 0) /\ \A x \in 1..BigMax : \A p \in g[x] : p % Page = 0
    BY <1>1 DEF Placed
  <2>3. \A p \in P : p \in Nat /\ p % Page = 0
    BY <1>2
  <2> HIDE DEF g
  <2> QED BY <2>1, <2>2, <2>3 DEF ListsOK
<1>7. ListsFrom(A, f, g, N)
  BY DEF ListsFrom
<1>8. \A m \in N : \E b \in O : m = FreePage(b.at)
  OBVIOUS
<1>9. \A m \in N : h[m] \in O /\ h[m].at = m.at /\ m.len = Page /\ m.at \in Nat /\ m.how = "free page" /\ m = FreePage(m.at)
  <2> SUFFICES ASSUME NEW m \in N
               PROVE  h[m] \in O /\ h[m].at = m.at /\ m.len = Page /\ m.at \in Nat /\ m.how = "free page" /\ m = FreePage(m.at)
    OBVIOUS
  <2>1. PICK b \in O : m = FreePage(b.at)
    BY <1>8
  <2>2. m.at = b.at /\ m.len = Page /\ m.how = "free page"
    BY <2>1 DEF FreePage
  <2>3. h[m] = CHOOSE d \in O : d.at = m.at
    OBVIOUS
  <2> HIDE DEF N, h
  <2>4. h[m] \in O /\ h[m].at = m.at
    BY <2>2, <2>3
  <2> QED BY <2>1, <2>2, <2>4, <1>2
<1>10. CutPieces(N, O, h)
  <2>1. h \in [N -> O]
    <3>1. \A m \in N : (CHOOSE b \in O : b.at = m.at) \in O
      BY <1>9
    <3> HIDE DEF N
    <3> QED BY <3>1
  <2> HIDE DEF N, h
  <2>2. \A m \in N : Within(m, h[m])
    <3> SUFFICES ASSUME NEW m \in N PROVE Within(m, h[m])
      OBVIOUS
    <3>1. h[m].at = m.at /\ h[m].len = Page /\ m.len = Page /\ m.at \in Nat
      BY <1>9, <1>2
    <3> QED BY <3>1, Sizes DEF Within
  <2>3. \A m, n \in N : m # n /\ h[m] = h[n] => Clear(m, n)
    <3> SUFFICES ASSUME NEW m \in N, NEW n \in N, h[m] = h[n] PROVE m = n
      OBVIOUS
    <3>1. m = FreePage(m.at) /\ n = FreePage(n.at) /\ h[m].at = m.at /\ h[n].at = n.at
      BY <1>9
    <3> QED BY <3>1, Zenon
  <2>4. IsBlocks(N) /\ \A m \in N : m.how \in {"free page", "free block"}
    BY <1>9, Sizes DEF IsBlocks
  <2> QED BY <2>1, <2>2, <2>3, <2>4 DEF CutPieces, CutFrom
<1>11. Gives(A, O)
  BY DEF Gives, PagesOwned
<1> HIDE DEF f, g, c, N, h
<1>12. GivenBack(Z, A, f, g, c, O)
  <2> USE DEF g
  <2> QED BY <1>5, Zenon DEF GivenBack
<1>13. RamOK(Z)
  BY <1>4, <1>6, <1>7, <1>10, <1>11, <1>12, Given
<1>14. Z.owned = A.owned \ O /\ Z.imported = A.imported
  <2> DEFINE a == A.new
             d == A.chunks
             u == A.used - c
             i == A.imported
             o == A.owned \ O
  <2>1. Z = Memory(a, f, d, g, u, i, o)
    BY <1>5
  <2> HIDE DEF a, d, u, i, o
  <2>2. Z.owned = o /\ Z.imported = i
    BY <2>1, MemoryFields
  <2> QED BY <2>2 DEF o, i
<1> QED BY <1>13, <1>14

LEMMA OneList ==
  /\ \A A, s, x : [A EXCEPT !.chunks[s] = @ \cup x] = [A EXCEPT !.chunks = [A.chunks EXCEPT ![s] = A.chunks[s] \cup x]]
  /\ \A A, s, x, y : [A EXCEPT !.big[s] = @ \cup x, !.used = y]
                       = [[A EXCEPT !.big = [A.big EXCEPT ![s] = A.big[s] \cup x]] EXCEPT !.used = y]
OBVIOUS

LEMMA DisownMemory ==
  ASSUME NEW n, NEW f, NEW c, NEW b, NEW u, NEW i, NEW o, NEW e
  PROVE  Disown(Memory(n, f, c, b, u, i, o), e) = Memory(n, f, c, b, u, i, o \ {e})
<1> DEFINE z == o \ {e}
<1>1. Memory(n, f, c, b, u, i, o).owned = o
  BY DEF Memory
<1>2. [Memory(n, f, c, b, u, i, o) EXCEPT !.owned = z] = Memory(n, f, c, b, u, i, z)
  <2> HIDE DEF z
  <2> QED BY DEF Memory
<1> QED BY <1>1, <1>2 DEF Disown

GaveChunk(Z, A, s, at, e) == Z = Disown([A EXCEPT !.chunks[s] = @ \cup {at}], e)
GaveBig(Z, A, s, at, l, e) == Z = Disown([A EXCEPT !.big[s] = @ \cup {at}, !.used = @ - l], e)
Gave(Z, A, e) == Z = Disown(Kfree(A, e.at, e.len), e)

LEMMA ChunkBack ==
  ASSUME NEW n, NEW f, NEW c, NEW b, NEW u, NEW i, NEW o, NEW e, NEW s, NEW at,
         NEW Y, Y = Memory(n, f, c, b, u, i, o), NEW Z, GaveChunk(Z, Y, s, at, e)
  PROVE  Z = Memory(n, f, [c EXCEPT ![s] = c[s] \cup {at}], b, u, i, o \ {e})
<1> DEFINE A == Memory(n, f, c, b, u, i, o)
           x == {at}
           d == [c EXCEPT ![s] = c[s] \cup x]
<1>1. A.chunks = c
  BY DEF Memory
<1>2. [A EXCEPT !.chunks = d] = Memory(n, f, d, b, u, i, o)
  <2> HIDE DEF d
  <2> QED BY DEF Memory
<1>3. [A EXCEPT !.chunks[s] = @ \cup x] = [A EXCEPT !.chunks = [A.chunks EXCEPT ![s] = A.chunks[s] \cup x]]
  <2> HIDE DEF A, x
  <2> QED BY OneList, Zenon
<1> HIDE DEF A
<1>4. [A EXCEPT !.chunks[s] = @ \cup x] = Memory(n, f, d, b, u, i, o)
  BY <1>1, <1>2, <1>3
<1>5. Disown(Memory(n, f, d, b, u, i, o), e) = Memory(n, f, d, b, u, i, o \ {e})
  <2> HIDE DEF d
  <2> QED BY DisownMemory
<1> HIDE DEF d
<1>6. Disown([A EXCEPT !.chunks[s] = @ \cup x], e) = Memory(n, f, d, b, u, i, o \ {e})
  BY <1>4, <1>5, Zenon
<1>7. Z = Disown([A EXCEPT !.chunks[s] = @ \cup x], e)
  BY Zenon DEF GaveChunk, A, x
<1> QED BY <1>6, <1>7, Zenon DEF x, d

LEMMA BigBack ==
  ASSUME NEW n, NEW f, NEW c, NEW b, NEW u, NEW i, NEW o, NEW e, NEW s, NEW at, NEW l,
         NEW Y, Y = Memory(n, f, c, b, u, i, o), NEW Z, GaveBig(Z, Y, s, at, l, e)
  PROVE  Z = Memory(n, f, c, [b EXCEPT ![s] = b[s] \cup {at}], u - l, i, o \ {e})
<1> DEFINE A == Memory(n, f, c, b, u, i, o)
           x == {at}
           d == [b EXCEPT ![s] = b[s] \cup x]
           w == u - l
           v == A.used - l
<1>1. A.big = b /\ A.used = u
  BY DEF Memory
<1>2. [A EXCEPT !.big = d] = Memory(n, f, c, d, u, i, o)
  <2> HIDE DEF d
  <2> QED BY DEF Memory
<1>3. [Memory(n, f, c, d, u, i, o) EXCEPT !.used = w] = Memory(n, f, c, d, w, i, o)
  <2> HIDE DEF d, w
  <2> QED BY DEF Memory
<1>4. v = w
  BY <1>1
<1>5. [A EXCEPT !.big[s] = @ \cup x, !.used = v] = [[A EXCEPT !.big = [A.big EXCEPT ![s] = A.big[s] \cup x]] EXCEPT !.used = v]
  <2> HIDE DEF A, x, v
  <2> QED BY OneList, Zenon
<1> HIDE DEF A
<1>6. [A EXCEPT !.big[s] = @ \cup x, !.used = v] = Memory(n, f, c, d, w, i, o)
  <2> HIDE DEF v, w
  <2> QED BY <1>1, <1>2, <1>3, <1>4, <1>5
<1>7. Disown(Memory(n, f, c, d, w, i, o), e) = Memory(n, f, c, d, w, i, o \ {e})
  <2> HIDE DEF d, w
  <2> QED BY DisownMemory
<1> HIDE DEF d
<1>8. Disown([A EXCEPT !.big[s] = @ \cup x, !.used = @ - l], e) = Memory(n, f, c, d, w, i, o \ {e})
  BY <1>6, <1>7, Zenon
<1>9. Z = Disown([A EXCEPT !.big[s] = @ \cup x, !.used = @ - l], e)
  BY Zenon DEF GaveBig, A, x
<1> QED BY <1>8, <1>9, Zenon DEF x, d, w

LEMMA FreePagesGive ==
  ASSUME NEW A, NEW P, NEW k, NEW e
  PROVE  GivesPages(Disown(PfreeAll(A, P, k), e), A, P, k, {e})
BY DEF GivesPages, Disown

\* A chunk goes back to its list.
LEMMA ChunkGiven ==
  ASSUME NEW A, RamOK(A), NEW e, e \in A.owned, e.how = "chunk",
         NEW Z, Gave(Z, A, e)
  PROVE  RamOK(Z) /\ Z.owned = A.owned \ {e} /\ Z.imported = A.imported
<1> DEFINE at == e.at
           s == e.len
           C == A.chunks[s] \cup {at}
           d == [A.chunks EXCEPT ![s] = C]
           o == A.owned \ {e}
           n1 == A.new
           f1 == A.free
           c1 == A.chunks
           g1 == A.big
           u1 == A.used
           i1 == A.imported
           o1 == A.owned
<1>1. /\ A \in Ram /\ Placed(A) /\ IsBlocks(Blocks(A)) /\ AllClear(Blocks(A))
      /\ IsFiniteSet(Taken(A)) /\ A.used = Cardinality(Taken(A)) /\ e \in Blocks(A)
  BY BlocksTyped DEF RamOK, Blocks
<1>2. at \in Nat /\ s \in Classes /\ s <= Page /\ s \in Nat /\ ~ (s > Page)
  <2>1. e.at \in Nat /\ e.len \in Nat
    BY <1>1 DEF IsBlocks
  <2>2. BlockOK(e)
    BY <1>1 DEF Placed
  <2>3. s \in Classes
    BY <2>2 DEF BlockOK
  <2> QED BY <2>1, <2>3, Sizes
<1>3. ClassOf(s) = s
  BY <1>2, ClassIs
<1>4. A = Memory(n1, f1, c1, g1, u1, i1, o1)
  BY <1>1, MemoryIs
<1>5. Z = Memory(n1, f1, d, g1, u1, i1, o)
  <2>1. Kfree(A, at, s) = [A EXCEPT !.chunks[s] = @ \cup {at}]
    BY <1>2, <1>3 DEF Kfree
  <2> HIDE DEF at, s, n1, f1, g1, u1, i1, o1, c1
  <2>3. GaveChunk(Z, A, s, at, e)
    BY <2>1 DEF at, s, Gave, GaveChunk
  <2>4. Z = Memory(n1, f1, [c1 EXCEPT ![s] = c1[s] \cup {at}], g1, u1, i1, o1 \ {e})
    BY <2>3, <1>4, ChunkBack
  <2> QED BY <2>4, Zenon DEF c1, o1, at
<1> HIDE DEF at, s
<1>6. d \in [Classes -> SUBSET Nat] /\ d[s] = C /\ \A t \in Classes : t # s => d[t] = A.chunks[t]
  <2>1. A.chunks \in [Classes -> SUBSET Nat]
    BY <1>1, RamTyped
  <2>2. C \subseteq Nat
    BY <2>1, <1>2
  <2> HIDE DEF C
  <2> QED BY <2>1, <2>2, <1>2
<1> HIDE DEF C, d, n1, f1, c1, g1, u1, i1, o1, o
<1>7. Z.new = n1 /\ Z.free = f1 /\ Z.chunks = d /\ Z.big = g1 /\ Z.used = u1 /\ Z.imported = i1 /\ Z.owned = o
  BY <1>5, MemoryFields
<1>8. Z \in Ram
  <2>1. n1 \subseteq [start : Nat, end : Nat] /\ f1 \subseteq Nat /\ g1 \in [1..BigMax -> SUBSET Nat]
        /\ u1 \in Nat /\ i1 \in BOOLEAN /\ o \subseteq [at : Nat, len : Nat, how : Owners]
    BY <1>1, RamTyped DEF n1, f1, g1, u1, i1, o
  <2> QED BY <2>1, <1>5, <1>6, MemoryTyped
<1>9. Placed(Z)
  <2>1. /\ \A b \in o : BlockOK(b)
        /\ \A r \in n1 : RegOK(r)
        /\ \A p \in f1 : p % Page = 0
        /\ \A k \in 1..BigMax : \A p \in g1[k] : p % Page = 0
    BY <1>1 DEF Placed, n1, f1, g1, o
  <2> QED BY <2>1, <1>7 DEF Placed
<1> DEFINE N == {FreeChunk(at, s)}
           m == FreeChunk(at, s)
<1>10. m.at = at /\ m.len = s /\ m.how = "free chunk"
  BY DEF FreeChunk
<1> HIDE DEF m
<1>11. IsBlocks({m}) /\ AllClear({m}) /\ \A n \in {m} : Within(n, e)
  <2>1. Within(m, e)
    <3>1. m.at = at /\ m.len = s /\ e.at = at /\ e.len = s
      BY <1>10 DEF at, s
    <3> QED BY <3>1, <1>2, WithinSame
  <2> QED BY <2>1, <1>2, <1>10 DEF IsBlocks, AllClear
<1>12. Blocks(Z) \subseteq (Blocks(A) \ {e}) \cup {m}
  <2>1. Blocks(Z) \subseteq Blocks(A) \cup {m}
    <3>1. Z.owned \subseteq A.owned \cup {m}
      BY <1>7 DEF o
    <3>2. \A p \in Z.free : p \in A.free \/ FreePage(p) \in {m}
      BY <1>7 DEF f1
    <3>3. \A t \in Classes : \A p \in Z.chunks[t] : p \in A.chunks[t] \/ FreeChunk(p, t) \in {m}
      <4> SUFFICES ASSUME NEW t \in Classes, NEW p \in Z.chunks[t] PROVE p \in A.chunks[t] \/ FreeChunk(p, t) \in {m}
        OBVIOUS
      <4>1. CASE t = s
        <5>1. p \in A.chunks[s] \/ p = at
          BY <4>1, <1>6, <1>7 DEF C
        <5> QED BY <4>1, <5>1 DEF m
      <4>2. CASE t # s
        BY <4>2, <1>6, <1>7
      <4> QED BY <4>1, <4>2
    <3>4. \A k \in 1..BigMax : \A p \in Z.big[k] : p \in A.big[k] \/ FreeBig(p, k) \in {m}
      BY <1>7 DEF g1
    <3>5. \A r \in Z.new : r \in A.new \/ NewPart(r) \in {m}
      BY <1>7 DEF n1
    <3> QED BY <3>1, <3>2, <3>3, <3>4, <3>5, BlocksFrom
  <2>2. e \notin Blocks(Z)
    <3>1. e.how \in Owners
      BY DEF Owners
    <3> QED BY <3>1, <1>8, <1>7, OwnerIs DEF o
  <2> QED BY <2>1, <2>2
<1>13. Taken(Z) = Taken(A)
  <2> SUFFICES ASSUME NEW u PROVE u \in Taken(Z) <=> u \in Taken(A)
    OBVIOUS
  <2>1. u \in Taken(Z) <=> \/ \E b \in o : b.how # "linux" /\ u \in Units(b.at, b.len)
                           \/ \E t \in Classes : \E p \in d[t] : u \in Units(p, t)
    BY <1>7, <1>8, TakenIs
  <2>2. u \in Taken(A) <=> \/ \E b \in A.owned : b.how # "linux" /\ u \in Units(b.at, b.len)
                           \/ \E t \in Classes : \E p \in A.chunks[t] : u \in Units(p, t)
    BY <1>1, TakenIs
  <2>3. ASSUME NEW b \in A.owned, b.how # "linux", u \in Units(b.at, b.len) PROVE u \in Taken(Z)
    <3>1. CASE b = e
      <4>1. u \in Units(at, s) /\ at \in d[s]
        BY <2>3, <3>1, <1>6 DEF at, s, C
      <4> QED BY <4>1, <2>1, <1>2
    <3>2. CASE b # e
      BY <3>2, <2>3, <2>1 DEF o
    <3> QED BY <3>1, <3>2
  <2>4. ASSUME NEW t \in Classes, NEW p \in d[t], u \in Units(p, t) PROVE u \in Taken(A)
    <3>1. CASE p \in A.chunks[t]
      BY <3>1, <2>2, <2>4
    <3>2. CASE p \notin A.chunks[t]
      <4>1. t = s /\ p = at
        BY <3>2, <1>6 DEF C
      <4>2. u \in Units(e.at, e.len) /\ e.how # "linux"
        BY <4>1, <2>4 DEF at, s
      <4> QED BY <4>2, <2>2
    <3> QED BY <3>1, <3>2
  <2>5. \A t \in Classes : A.chunks[t] \subseteq d[t]
    BY <1>6 DEF C
  <2> QED BY <2>1, <2>2, <2>3, <2>4, <2>5 DEF o
<1>14. Z.imported = A.imported /\ IsFiniteSet(Taken(Z)) /\ Z.used = Cardinality(Taken(Z))
  BY <1>1, <1>7, <1>13 DEF i1, u1
<1>15. RamOK(Z)
  BY <1>1, <1>8, <1>9, <1>11, <1>12, <1>14, RamCutOne
<1> QED BY <1>7, <1>15 DEF o, i1

\* A block is given back: in one piece, or page by page.
LEMMA OneGiven ==
  ASSUME NEW A, RamOK(A), NEW e, e \in A.owned, e.how = "block",
         NEW f, NEW g, ListsOK(f, g), NEW N, IsBlocks(N), AllClear(N), \A m \in N : Within(m, e),
         \A m \in N : m.how \in {"free page", "free block"}, ListsFrom(A, f, g, N),
         NEW Z, GivenBack(Z, A, f, g, e.len, {e})
  PROVE  RamOK(Z)
<1> DEFINE h == [m \in N |-> e]
           O == {e}
           c == e.len
<1>1. IsBlocks(Blocks(A)) /\ e \in Blocks(A)
  BY BlocksTyped DEF RamOK, Blocks
<1>2. e.at \in Nat /\ c \in Nat
  BY <1>1 DEF IsBlocks
<1>3. UnitsOf(O) = Units(e.at, e.len)
  BY DEF UnitsOf
<1>4. IsFiniteSet(UnitsOf(O)) /\ c = Cardinality(UnitsOf(O))
  BY <1>2, <1>3, UnitsCount
<1>5. Gives(A, O)
  BY DEF Gives
<1>6. CutPieces(N, O, h)
  BY DEF CutPieces, CutFrom, AllClear
<1>7. GivenBack(Z, A, f, g, c, O)
  OBVIOUS
<1> HIDE DEF O, c, h
<1> QED BY <1>4, <1>5, <1>6, <1>7, Given

LEMMA BlockGiven ==
  ASSUME NEW A, RamOK(A), NEW e, e \in A.owned, e.how = "block", NEW Z, Gave(Z, A, e)
  PROVE  RamOK(Z) /\ Z.owned = A.owned \ {e} /\ Z.imported = A.imported
<1> DEFINE at == e.at
           len == e.len
           n == Pages(len)
           n1 == A.new
           f1 == A.free
           c1 == A.chunks
           g1 == A.big
           u1 == A.used
           i1 == A.imported
           o1 == A.owned
           P == {at + i * Page : i \in 0..n - 1}
<1>1. A \in Ram /\ Placed(A) /\ IsBlocks(Blocks(A)) /\ AllClear(Blocks(A)) /\ e \in Blocks(A)
  BY BlocksTyped DEF RamOK, Blocks
<1>2. at \in Nat /\ len \in Nat /\ len > Page /\ len % Page = 0 /\ at % Page = 0
  <2>1. BlockOK(e) /\ e.at \in Nat /\ e.len \in Nat
    BY <1>1 DEF Placed, IsBlocks
  <2> QED BY <2>1 DEF BlockOK, Paged
<1>3. n \in Nat /\ n * Page = len /\ n > 0
  <2>1. n \in Nat /\ n * Page = len
    BY <1>2, PagesOf
  <2> HIDE DEF n, len
  <2>2. n # 0
    <3> SUFFICES ASSUME n = 0 PROVE FALSE
      OBVIOUS
    <3>1. n * Page = 0
      BY Sizes
    <3> QED BY <3>1, <2>1, <1>2, Sizes
  <2> QED BY <2>1, <2>2
<1>4. A = Memory(n1, f1, c1, g1, u1, i1, o1)
  BY <1>1, MemoryIs
<1>5. Gave(Z, A, e) /\ Kfree(A, at, len) = BigFree(A, at, n)
  BY <1>2 DEF Kfree
<1>6. f1 \subseteq Nat /\ g1 \in [1..BigMax -> SUBSET Nat] /\ (\A p \in f1 : p % Page = 0)
      /\ \A k \in 1..BigMax : \A p \in g1[k] : p % Page = 0
  BY <1>1, RamTyped DEF Placed
<1> DEFINE Done == RamOK(Z) /\ Z.owned = A.owned \ {e} /\ Z.imported = A.imported
<1>7. CASE n <= BigMax
  <2> DEFINE g == [g1 EXCEPT ![n] = g1[n] \cup {at}]
             m == FreeBig(at, n)
  <2>1. n \in 1..BigMax
    BY <1>7, <1>3, Sizes
  <2>2. Z = Memory(n1, f1, c1, g, u1 - len, i1, o1 \ {e})
    <3>1. BigFree(A, at, n) = [A EXCEPT !.big[n] = @ \cup {at}, !.used = @ - n * Page]
      BY <1>7 DEF BigFree
    <3> DEFINE l == n * Page
    <3>2. GaveBig(Z, A, n, at, l, e)
      BY <3>1, <1>5 DEF Gave, GaveBig
    <3>3. l = len
      BY <1>3
    <3> HIDE DEF l, n, at, len, n1, f1, c1, g1, u1, i1, o1
    <3>4. Z = Memory(n1, f1, c1, [g1 EXCEPT ![n] = g1[n] \cup {at}], u1 - l, i1, o1 \ {e})
      BY <3>2, <1>4, BigBack
    <3> QED BY <3>4, <3>3, Zenon DEF g
  <2>3. m.at = at /\ m.len = len /\ m.how = "free block"
    BY <1>3 DEF FreeBig
  <2> HIDE DEF n
  <2>4. ListsOK(f1, g)
    BY <1>6, <1>2, <2>1 DEF ListsOK
  <2>5. ListsFrom(A, f1, g, {m})
    <3>1. \A k \in 1..BigMax : \A p \in g[k] : p \in A.big[k] \/ (k = n /\ p = at)
      BY <1>6, <2>1
    <3> HIDE DEF g
    <3> QED BY <3>1 DEF ListsFrom, m
  <2> HIDE DEF g, m
  <2>6. Within(m, e)
    <3>1. m.at = e.at /\ m.len = e.len /\ m.at \in Nat /\ m.len \in Nat
      BY <2>3, <1>2
    <3> QED BY <3>1, WithinSame
  <2>7. IsBlocks({m}) /\ AllClear({m}) /\ (\A x \in {m} : Within(x, e)) /\ \A x \in {m} : x.how \in {"free page", "free block"}
    BY <2>3, <2>6, <1>2 DEF IsBlocks, AllClear
  <2>8. GivenBack(Z, A, f1, g, e.len, {e})
    BY <2>2 DEF GivenBack
  <2>9. RamOK(Z)
    <3> HIDE DEF f1
    <3> QED BY <2>4, <2>5, <2>7, <2>8, OneGiven
  <2>10. Z.owned = o1 \ {e} /\ Z.imported = i1
    <3> DEFINE u == u1 - len
               o == o1 \ {e}
    <3>1. Z = Memory(n1, f1, c1, g, u, i1, o)
      BY <2>2
    <3> HIDE DEF u, o, n1, f1, c1, i1, o1
    <3>2. Z.owned = o /\ Z.imported = i1
      BY <3>1, MemoryFields
    <3> QED BY <3>2 DEF o
  <2> QED BY <2>9, <2>10
<1>8. CASE ~ (n <= BigMax)
  <2> DEFINE f == f1 \cup P
             N == {FreePage(p) : p \in P}
  <2>1. Z = Memory(n1, f, c1, g1, u1 - len, i1, o1 \ {e})
    <3>1. BigFree(A, at, n) = PfreeAll(A, P, n)
      BY <1>8 DEF BigFree
    <3>2. Z = Disown(PfreeAll(A, P, n), e)
      BY <3>1, <1>5 DEF Gave
    <3> HIDE DEF n, at, len, n1, f1, c1, g1, u1, i1, o1, P
    <3>3. GivesPages(Z, A, P, n, {e})
      BY <3>2, FreePagesGive, Zenon
    <3>4. Z = Memory(n1, f1 \cup P, c1, g1, u1 - n * Page, i1, o1 \ {e})
      BY <3>3, <1>4, PfreeForm
    <3> QED BY <3>4, <1>3, Zenon DEF f
  <2> HIDE DEF n
  <2>2. ASSUME NEW i \in 0..n - 1
        PROVE  at + i * Page \in Nat /\ (at + i * Page) % Page = 0 /\ at <= at + i * Page
               /\ at + i * Page + Page <= at + len
    <3>1. at + i * Page \in Nat /\ at <= at + i * Page /\ at + i * Page + Page <= at + n * Page
      BY <1>2, <1>3, Sizes, PiecesOf
    <3>2. (at + i * Page) % Page = 0
      <4>1. i \in Nat /\ Page \in Nat /\ Page > 0 /\ at \in Nat /\ at % Page = 0
        BY <1>2, Sizes
      <4> HIDE DEF at, P
      <4> QED BY <4>1, AlignedSum
    <3> QED BY <3>1, <3>2, <1>3
  <2>3. ListsOK(f, g1)
    <3>1. \A p \in P : p \in Nat /\ p % Page = 0
      BY <2>2
    <3> HIDE DEF P, f1, g1
    <3> QED BY <3>1, <1>6 DEF ListsOK
  <2>4. ListsFrom(A, f, g1, N)
    <3> HIDE DEF P
    <3> QED BY DEF ListsFrom
  <2>5. \A m \in N : \E i \in 0..n - 1 : m.at = at + i * Page /\ m.len = Page /\ m.how = "free page" /\ m = FreePage(at + i * Page)
    <3> SUFFICES ASSUME NEW m \in N
                 PROVE  \E i \in 0..n - 1 : m.at = at + i * Page /\ m.len = Page /\ m.how = "free page" /\ m = FreePage(at + i * Page)
      OBVIOUS
    <3>1. PICK p \in P : m = FreePage(p)
      <4> HIDE DEF P
      <4> QED OBVIOUS
    <3>2. PICK i \in 0..n - 1 : p = at + i * Page
      OBVIOUS
    <3>3. m.at = p /\ m.len = Page /\ m.how = "free page"
      BY <3>1 DEF FreePage
    <3> QED BY <3>1, <3>2, <3>3
  <2> HIDE DEF N
  <2>6. ASSUME NEW m \in N PROVE m.at \in Nat /\ m.len \in Nat /\ Within(m, e) /\ m.how \in {"free page", "free block"}
    <3>1. PICK i \in 0..n - 1 : m.at = at + i * Page /\ m.len = Page /\ m.how = "free page"
      BY <2>5
    <3>2. at + i * Page \in Nat /\ at <= at + i * Page /\ at + i * Page + Page <= at + len
      BY <2>2
    <3> DEFINE x == at + i * Page
    <3>3. m.at = x /\ m.len = Page /\ x \in Nat /\ e.at <= x /\ x + Page <= e.at + e.len
      BY <3>1, <3>2
    <3> HIDE DEF x
    <3> QED BY <3>1, <3>3, Sizes DEF Within
  <2>7. AllClear(N)
    <3> SUFFICES ASSUME NEW x \in N, NEW y \in N, x # y PROVE Clear(x, y)
      BY DEF AllClear
    <3>1. PICK i \in 0..n - 1 : x.at = at + i * Page /\ x.len = Page /\ x = FreePage(at + i * Page)
      BY <2>5
    <3>2. PICK j \in 0..n - 1 : y.at = at + j * Page /\ y.len = Page /\ y = FreePage(at + j * Page)
      BY <2>5
    <3>3. i # j
      BY <3>1, <3>2
    <3>4. /\ i < j => at + i * Page + Page <= at + j * Page
          /\ j < i => at + j * Page + Page <= at + i * Page
      BY <1>2, <1>3, Sizes, PiecesOf
    <3>5. i < j \/ j < i
      BY <3>3, <1>3
    <3> QED BY <3>1, <3>2, <3>4, <3>5 DEF Clear
  <2> HIDE DEF f, P
  <2>8. GivenBack(Z, A, f, g1, e.len, {e})
    BY <2>1 DEF GivenBack
  <2>9. RamOK(Z)
    <3>1. IsBlocks(N) /\ (\A m \in N : Within(m, e)) /\ \A m \in N : m.how \in {"free page", "free block"}
      BY <2>6 DEF IsBlocks
    <3> HIDE DEF g1
    <3> QED BY <3>1, <2>3, <2>4, <2>7, <2>8, OneGiven
  <2>10. Z.owned = o1 \ {e} /\ Z.imported = i1
    <3> DEFINE u == u1 - len
               o == o1 \ {e}
    <3>1. Z = Memory(n1, f, c1, g1, u, i1, o)
      BY <2>1
    <3> HIDE DEF u, o, n1, c1, g1, i1, o1
    <3>2. Z.owned = o /\ Z.imported = i1
      BY <3>1, MemoryFields
    <3> QED BY <3>2 DEF o
  <2> QED BY <2>9, <2>10
<1> QED BY <1>7, <1>8

LEMMA KfreeGiven ==
  ASSUME NEW A, RamOK(A), NEW e, e \in A.owned, e.how \in {"chunk", "block"},
         NEW Z, Z = Disown(Kfree(A, e.at, e.len), e)
  PROVE  RamOK(Z) /\ Z.owned = A.owned \ {e} /\ Z.imported = A.imported
<1>1. Gave(Z, A, e)
  BY DEF Gave
<1> QED BY <1>1, ChunkGiven, BlockGiven

(* ---- K0's image joins ---- *)

LEMMA NextMultiple ==
  ASSUME NEW x \in Nat, NEW y \in Nat, NEW a \in Nat, a > 0, x % a = 0, y % a = 0, x < y
  PROVE  x + a <= y
<1> DEFINE q == x \div a
           r == y \div a
<1>1. q \in Nat /\ r \in Nat /\ x = q * a /\ y = r * a
  BY Division, Product
<1> HIDE DEF q, r
<1>2. ~ (r <= q)
  <2> SUFFICES ASSUME r <= q PROVE FALSE
    OBVIOUS
  <2>1. r * a <= q * a
    BY <1>1, Multiples
  <2> QED BY <2>1, <1>1
<1>3. (q + 1) * a <= r * a /\ (q + 1) * a = q * a + a
  <2>1. q + 1 \in Nat /\ q + 1 <= r
    BY <1>1, <1>2
  <2> QED BY <2>1, <1>1, Multiples
<1> QED BY <1>1, <1>3

IsImport(Z, A, P, k, t) == Z = [PfreeAll(ImportCounted(A, k), P, k) EXCEPT !.imported = t]

LEMMA ImportForm ==
  ASSUME NEW n, NEW f, NEW c, NEW b, NEW u \in Nat, NEW i, NEW o, NEW A, A = Memory(n, f, c, b, u, i, o),
         NEW P, NEW k \in Nat, NEW t, NEW Z, IsImport(Z, A, P, k, t)
  PROVE  Z = Memory(n, f \cup P, c, b, u, t, o)
<1> DEFINE l == k * Page
           w == u + l
           x == f \cup P
           M == Memory(n, f, c, b, w, i, o)
           v == w - k * Page
           Y == Memory(n, x, c, b, v, i, o)
<1>1. ImportCounted(A, k) = M
  <2>1. A.used = u
    BY MemoryFields
  <2>2. ImportCounted(A, k) = [A EXCEPT !.used = w]
    BY <2>1 DEF ImportCounted
  <2> HIDE DEF w
  <2>3. [A EXCEPT !.used = w] = M
    <3>1. A = Memory(n, f, c, b, u, i, o)
      OBVIOUS
    <3> DEFINE G == Memory(n, f, c, b, u, i, o)
    <3>2. [G EXCEPT !.used = w] = M
      BY DEF Memory
    <3> QED BY <3>1, <3>2, Zenon
  <2> QED BY <2>2, <2>3
<1>2. PfreeAll(M, P, k) = Y
  <2> HIDE DEF w
  <2> QED BY PfreeMemory
<1>3. v = u
  <2>1. l \in Nat
    BY Sizes, Product
  <2>2. v = w - l
    OBVIOUS
  <2> HIDE DEF l, v
  <2>3. w = u + l
    OBVIOUS
  <2> HIDE DEF w
  <2> QED BY <2>1, <2>2, <2>3
<1>4. [Y EXCEPT !.imported = t] = Memory(n, x, c, b, v, t, o)
  <2> HIDE DEF x, v
  <2> QED BY DEF Memory
<1> HIDE DEF M, Y, v, w, l, x
<1>5. Z = [Y EXCEPT !.imported = t]
  BY <1>1, <1>2, Zenon DEF IsImport
<1> QED BY <1>3, <1>4, <1>5, Zenon DEF x

ImportPages == {p \in FsImg..(ImageEnd - 1) : p % Page = 0}

LEMMA ImportPagesIn ==
  /\ IsFiniteSet(ImportPages) /\ ImageEnd \in Nat /\ ImageEnd <= MmapArea /\ FsImg <= ImageEnd
  /\ \A p \in ImportPages : p \in Nat /\ p % Page = 0 /\ FsImg <= p /\ p + Page <= ImageEnd
<1>1. ImageEnd \in Nat /\ ImageEnd % Page = 0 /\ FsEnd <= ImageEnd
  BY Sizes, AlignedUp DEF ImageEnd
<1>2. ImageEnd <= MmapArea
  <2>1. FsEnd <= MmapArea
    BY Sizes
  <2> QED BY <2>1, Sizes, AlignBetween DEF ImageEnd
<1>3. ASSUME NEW p \in ImportPages PROVE p \in Nat /\ p % Page = 0 /\ FsImg <= p /\ p + Page <= ImageEnd
  <2>1. p \in Nat /\ p % Page = 0 /\ FsImg <= p /\ p < ImageEnd
    BY <1>1, Sizes DEF ImportPages
  <2> QED BY <2>1, <1>1, Sizes, NextMultiple
<1>4. IsFiniteSet(ImportPages)
  <2>1. IsFiniteSet(FsImg..(ImageEnd - 1))
    BY <1>1, Sizes, FS_Interval
  <2>2. ImportPages \subseteq FsImg..(ImageEnd - 1)
    BY DEF ImportPages
  <2> QED BY <2>1, <2>2, FS_Subset
<1> QED BY <1>1, <1>2, <1>3, <1>4, Sizes

\* fs_import_k0: the pages of the image are now the list's.
LEMMA Imported ==
  ASSUME NEW A, RamOK(A), ~ A.imported
  PROVE  RamOK(ImportK0(A)) /\ ImportK0(A).owned = A.owned /\ ImportK0(A).imported = TRUE
<1> DEFINE P == ImportPages
           k == Cardinality(P)
           Z == ImportK0(A)
           n1 == A.new
           f1 == A.free
           c1 == A.chunks
           g1 == A.big
           u1 == A.used
           i1 == A.imported
           o1 == A.owned
           f == f1 \cup P
           t == TRUE
<1>1. /\ A \in Ram /\ Placed(A) /\ IsBlocks(Blocks(A)) /\ AllClear(Blocks(A)) /\ Bounded(A)
      /\ IsFiniteSet(Taken(A)) /\ A.used = Cardinality(Taken(A))
  BY BlocksTyped DEF RamOK
<1>2. k \in Nat
  BY ImportPagesIn, FS_CardinalityType
<1>3. A = Memory(n1, f1, c1, g1, u1, i1, o1) /\ u1 \in Nat
  BY <1>1, MemoryIs, RamTyped
<1>4. Z = Memory(n1, f, c1, g1, u1, t, o1)
  <2>1. IsImport(Z, A, P, k, t)
    BY DEF ImportK0, ImportPages, ImageEnd, IsImport
  <2> HIDE DEF Z, k, t, P, n1, f1, c1, g1, u1, i1, o1
  <2>2. Z = Memory(n1, f1 \cup P, c1, g1, u1, t, o1)
    BY <2>1, <1>2, <1>3, ImportForm
  <2> QED BY <2>2, Zenon DEF f
<1> HIDE DEF Z
<1>5. Z.new = n1 /\ Z.free = f /\ Z.chunks = c1 /\ Z.big = g1 /\ Z.used = u1 /\ Z.imported = t /\ Z.owned = o1
  <2> HIDE DEF n1, f, c1, g1, u1, o1, t
  <2> QED BY <1>4, MemoryFields
<1>6. Z \in Ram
  <2>1. n1 \subseteq [start : Nat, end : Nat] /\ f1 \subseteq Nat /\ c1 \in [Classes -> SUBSET Nat]
        /\ g1 \in [1..BigMax -> SUBSET Nat] /\ u1 \in Nat /\ o1 \subseteq [at : Nat, len : Nat, how : Owners]
    BY <1>1, RamTyped
  <2>2. f \subseteq Nat
    <3> HIDE DEF f1
    <3> QED BY <2>1, ImportPagesIn
  <2>3. t \in BOOLEAN
    OBVIOUS
  <2> HIDE DEF n1, f, c1, g1, u1, o1, t
  <2> QED BY <2>1, <2>2, <2>3, <1>4, MemoryTyped
<1>7. Placed(Z)
  <2>1. /\ \A b \in o1 : BlockOK(b)
        /\ \A r \in n1 : RegOK(r)
        /\ \A p \in f1 : p % Page = 0
        /\ \A x \in 1..BigMax : \A p \in g1[x] : p % Page = 0
    BY <1>1 DEF Placed
  <2>2. \A p \in f : p % Page = 0
    <3> HIDE DEF f1
    <3> QED BY <2>1, ImportPagesIn
  <2> HIDE DEF n1, f, c1, g1, u1, o1
  <2> QED BY <2>1, <2>2, <1>5 DEF Placed
<1> DEFINE N == {FreePage(p) : p \in P}
<1>8. Blocks(Z) \subseteq Blocks(A) \cup N
  <2>1. Z.owned \subseteq A.owned \cup N
    BY <1>5
  <2>2. \A p \in Z.free : p \in A.free \/ FreePage(p) \in N
    <3> HIDE DEF P
    <3> QED BY <1>5
  <2>3. \A s \in Classes : \A p \in Z.chunks[s] : p \in A.chunks[s] \/ FreeChunk(p, s) \in N
    BY <1>5
  <2>4. \A x \in 1..BigMax : \A p \in Z.big[x] : p \in A.big[x] \/ FreeBig(p, x) \in N
    BY <1>5
  <2>5. \A r \in Z.new : r \in A.new \/ NewPart(r) \in N
    BY <1>5
  <2> HIDE DEF N
  <2> QED BY <2>1, <2>2, <2>3, <2>4, <2>5, BlocksFrom
<1>9. \A b \in N : b.at \in Nat /\ b.len = Page /\ FsImg <= b.at /\ b.at + b.len <= ImageEnd /\ b.at % Page = 0 /\ b = FreePage(b.at)
  <2> SUFFICES ASSUME NEW b \in N
        PROVE b.at \in Nat /\ b.len = Page /\ FsImg <= b.at /\ b.at + b.len <= ImageEnd /\ b.at % Page = 0 /\ b = FreePage(b.at)
    OBVIOUS
  <2>1. PICK p \in ImportPages : b = FreePage(p)
    <3> HIDE DEF P
    <3> QED BY DEF P
  <2>2. b.at = p /\ b.len = Page
    BY <2>1 DEF FreePage
  <2> QED BY <2>1, <2>2, ImportPagesIn
<1> HIDE DEF N
<1>10. ASSUME NEW b \in N, NEW c \in Blocks(A) PROVE Clear(b, c) /\ Clear(c, b)
  <2>1. c.at + c.len <= FsImg \/ ImageEnd <= c.at
    BY <1>1 DEF Bounded, Outside
  <2>2. c.at \in Nat /\ c.len \in Nat
    BY <1>1 DEF IsBlocks
  <2> QED BY <2>1, <2>2, <1>9, Sizes, ImportPagesIn DEF Clear
<1>11. ASSUME NEW b \in N, NEW c \in N, b # c PROVE Clear(b, c)
  <2>1. b.at # c.at
    BY <1>9, <1>11
  <2>2. b.at < c.at \/ c.at < b.at
    BY <2>1, <1>9
  <2>3. (b.at < c.at => b.at + Page <= c.at) /\ (c.at < b.at => c.at + Page <= b.at)
    BY <1>9, Sizes, NextMultiple
  <2> QED BY <2>2, <2>3, <1>9 DEF Clear
<1>12. AllClear(Blocks(Z))
  <2> SUFFICES ASSUME NEW b \in Blocks(Z), NEW c \in Blocks(Z), b # c PROVE Clear(b, c)
    BY DEF AllClear
  <2>1. (b \in Blocks(A) \/ b \in N) /\ (c \in Blocks(A) \/ c \in N)
    BY <1>8
  <2>2. CASE b \in Blocks(A) /\ c \in Blocks(A)
    BY <2>2, <1>1 DEF AllClear
  <2> QED BY <2>1, <2>2, <1>10, <1>11
<1>13. Bounded(Z)
  <2>1. ASSUME NEW b \in Blocks(Z) PROVE b.at + b.len <= 0 \/ LowEnd <= b.at
    <3>1. CASE b \in Blocks(A)
      BY <3>1, <1>1 DEF Bounded, Outside
    <3>2. CASE b \in N
      BY <3>2, <1>9, Sizes
    <3> QED BY <3>1, <3>2, <1>8
  <2>2. ASSUME NEW b \in Blocks(Z), MmapArea < K0Bump PROVE b.at + b.len <= MmapArea \/ K0Bump <= b.at
    <3>1. CASE b \in Blocks(A)
      BY <2>2, <3>1, <1>1 DEF Bounded, Outside
    <3>2. CASE b \in N
      BY <3>2, <1>9, Sizes, ImportPagesIn
    <3> QED BY <3>1, <3>2, <1>8
  <2> QED BY <2>1, <2>2, <1>5 DEF Bounded, Outside
<1>14. Taken(Z) = Taken(A)
  <2> SUFFICES ASSUME NEW u PROVE u \in Taken(Z) <=> u \in Taken(A)
    OBVIOUS
  <2> HIDE DEF f, n1, u1
  <2> QED BY <1>1, <1>5, <1>6, TakenIs
<1>15. RamOK(Z)
  BY <1>1, <1>5, <1>6, <1>7, <1>12, <1>13, <1>14 DEF RamOK
<1> QED BY <1>5, <1>15 DEF Z

(* ---- what the properties say ---- *)

LEMMA ApartIs ==
  ASSUME NEW A, RamOK(A)
  PROVE  Apart(A) /\ UsedIs(A)
<1>1. /\ A \in Ram /\ Placed(A) /\ IsBlocks(Blocks(A)) /\ AllClear(Blocks(A)) /\ Bounded(A)
      /\ A.used = Cardinality(Taken(A))
  BY BlocksTyped DEF RamOK
<1>2. ASSUME NEW b \in Blocks(A) PROVE Units(b.at, b.len) \cap KeptOut(A) = {}
  <2>1. Units(b.at, b.len) \cap Units(0, LowEnd - 0) = {}
    <3>1. Outside(Blocks(A), 0, LowEnd)
      BY <1>1 DEF Bounded
    <3>2. 0 \in Nat /\ LowEnd \in Int
      BY Sizes
    <3> HIDE DEF Blocks
    <3> QED BY <3>1, <3>2, <1>1, OutsideUnits
  <2>2. Units(b.at, b.len) \cap Units(MmapArea, K0Bump - MmapArea) = {}
    <3>1. MmapArea < K0Bump => Outside(Blocks(A), MmapArea, K0Bump)
      BY <1>1 DEF Bounded
    <3>2. MmapArea \in Nat /\ K0Bump \in Int
      BY Sizes
    <3> QED BY <3>1, <3>2, <1>1, OutsideUnits
  <2>3. ~ A.imported => Units(b.at, b.len) \cap Units(FsImg, FsEnd - FsImg) = {}
    <3> SUFFICES ASSUME ~ A.imported PROVE Units(b.at, b.len) \cap Units(FsImg, FsEnd - FsImg) = {}
      OBVIOUS
    <3>1. Outside(Blocks(A), FsImg, ImageEnd) /\ FsEnd <= ImageEnd /\ ImageEnd \in Nat
      BY <1>1, Sizes, AlignedUp DEF Bounded, ImageEnd
    <3>2. b.at \in Nat /\ b.len \in Nat /\ (b.at + b.len <= FsImg \/ ImageEnd <= b.at)
      BY <3>1, <1>1 DEF Outside, IsBlocks
    <3> QED BY <3>1, <3>2, Sizes DEF Units
  <2>4. Units(0, LowEnd - 0) = Units(0, LowEnd)
    BY Sizes DEF Units
  <2> DEFINE U == Units(b.at, b.len)
             X == Units(0, LowEnd)
             Y == Units(MmapArea, K0Bump - MmapArea)
             W == Units(FsImg, FsEnd - FsImg)
  <2>5. U \cap X = {} /\ U \cap Y = {} /\ (~ A.imported => U \cap W = {})
    BY <2>1, <2>2, <2>3, <2>4
  <2>6. KeptOut(A) = X \cup Y \cup (IF A.imported THEN {} ELSE W)
    BY DEF KeptOut
  <2> HIDE DEF U, X, Y, W
  <2>7. U \cap KeptOut(A) = {}
    BY <2>5, <2>6
  <2> QED BY <2>7 DEF U
<1>3. Apart(A)
  BY <1>1, <1>2 DEF Apart, Blocks, AllClear
<1>4. UsedIs(A)
  BY <1>1 DEF UsedIs, Taken
<1> QED BY <1>3, <1>4

(* ---- the memory at the start ---- *)

EntryOK(e) == e.addr \in Nat /\ e.len \in Nat /\ ~ (e.addr \in Units(MmapArea, K0Bump - MmapArea))

\* Where the parts of an entry lie.
PartIn(c, e, i) ==
  /\ c.start \in Nat /\ c.end \in Nat /\ e.addr <= c.start /\ c.end <= e.addr + e.len /\ LowEnd <= c.start
  /\ i = 1 => c.end <= FsImg
  /\ i # 1 => FsEnd <= c.start
  /\ i = 2 => c.end <= MmapArea
  /\ i = 3 /\ MmapArea < K0Bump => K0Bump <= c.start \/ c.end <= MmapArea

LEMMA LargestIs ==
  ASSUME NEW x \in Nat, NEW y \in Nat
  PROVE  Largest(x, y) \in Nat /\ x <= Largest(x, y) /\ y <= Largest(x, y) /\ Largest(x, y) \in {x, y}
BY DEF Largest

LEMMA CutIs ==
  ASSUME NEW e, EntryOK(e), NEW i \in 1..3, Cut(e)[i].start < Cut(e)[i].end
  PROVE  PartIn(Cut(e)[i], e, i) /\ (i = 2 => MmapArea <= Cut(e)[3].start)
<1> DEFINE a == e.addr
           z == e.addr + e.len
           s0 == Largest(a, LowEnd)
           image == s0 < FsImg /\ z > FsImg
           s1 == Largest(IF image THEN FsImg ELSE s0, FsEnd)
           area == s1 < MmapArea /\ z > MmapArea /\ K0Bump > MmapArea
           c1 == [start |-> s0, end |-> IF image THEN FsImg ELSE s0]
           c2 == [start |-> s1, end |-> IF area THEN MmapArea ELSE s1]
           c3 == [start |-> IF area THEN K0Bump ELSE s1, end |-> z]
           C == <<c1, c2, c3>>
<1>1. Cut(e) = C
  BY DEF Cut
<1>2. a \in Nat /\ z \in Nat /\ a <= z /\ e.len \in Nat
  BY DEF EntryOK
<1>3. s0 \in Nat /\ a <= s0 /\ LowEnd <= s0 /\ s0 \in {a, LowEnd}
  BY <1>2, Sizes, LargestIs
<1> HIDE DEF s0
<1>4. s1 \in Nat /\ s0 <= s1 /\ FsEnd <= s1 /\ s1 \in {s0, FsImg, FsEnd} /\ (s1 = FsImg => s1 = FsEnd \/ image)
  <2> DEFINE t == IF image THEN FsImg ELSE s0
  <2>1. t \in Nat /\ s0 <= t /\ (t = s0 \/ t = FsImg)
    BY <1>3, Sizes
  <2> HIDE DEF t
  <2>2. s1 \in Nat /\ t <= s1 /\ FsEnd <= s1 /\ s1 \in {t, FsEnd} /\ s1 = Largest(t, FsEnd)
    <3>1. s1 = Largest(t, FsEnd)
      BY DEF t
    <3> HIDE DEF s1
    <3> QED BY <3>1, <2>1, Sizes, LargestIs
  <2> HIDE DEF s1
  <2>3. s1 = FsImg => s1 = FsEnd \/ image
    <3> SUFFICES ASSUME s1 = FsImg, s1 # FsEnd PROVE image
      OBVIOUS
    <3>1. FsImg = FsEnd \/ FsImg < FsEnd
      BY Sizes
    <3> QED BY <3>1, <2>2, Sizes
  <2> QED BY <2>1, <2>2, <2>3, <1>3, Sizes
<1> HIDE DEF s1
<1>5. /\ ~ area /\ MmapArea < K0Bump => K0Bump <= s1 \/ z <= MmapArea
  <2> SUFFICES ASSUME ~ area, MmapArea < K0Bump, ~ (z <= MmapArea) PROVE K0Bump <= s1
    OBVIOUS
  <2>1. MmapArea <= s1 /\ s1 = a
    BY <1>2, <1>3, <1>4, Sizes
  <2>2. ~ (a \in Units(MmapArea, K0Bump - MmapArea))
    BY DEF EntryOK
  <2> QED BY <2>1, <2>2, <1>2, Sizes DEF Units
<1>6. /\ area => s1 < MmapArea /\ z > MmapArea /\ K0Bump > MmapArea
      /\ image => s0 < FsImg /\ z > FsImg
  OBVIOUS
<1> HIDE DEF a, z, image, area
<1>7. CASE i = 1
  <2>1. Cut(e)[i] = c1
    BY <1>1, <1>7
  <2>2. image
    BY <2>1, <1>3
  <2>3. c1.start = s0 /\ c1.end = FsImg
    BY <2>2
  <2> HIDE DEF c1
  <2>4. PartIn(c1, e, 1)
    BY <2>2, <2>3, <1>2, <1>3, <1>6, Sizes DEF PartIn, a, z
  <2> QED BY <2>1, <2>4, <1>7
<1>8. CASE i = 2
  <2>1. Cut(e)[i] = c2 /\ Cut(e)[3] = c3
    BY <1>1, <1>8
  <2>2. area
    BY <2>1, <1>4
  <2>3. c2.start = s1 /\ c2.end = MmapArea /\ c3.start = K0Bump
    BY <2>2
  <2> HIDE DEF c2, c3
  <2>4. PartIn(c2, e, 2)
    BY <2>2, <2>3, <1>2, <1>3, <1>4, <1>6, Sizes DEF PartIn, a, z
  <2>5. MmapArea <= c3.start
    BY <2>2, <2>3, <1>6, Sizes
  <2> QED BY <2>1, <2>4, <2>5, <1>8
<1>9. CASE i = 3
  <2>1. Cut(e)[i] = c3
    BY <1>1, <1>9
  <2>2. c3.end = z /\ (area => c3.start = K0Bump) /\ (~ area => c3.start = s1)
    OBVIOUS
  <2> HIDE DEF c3
  <2>3. PartIn(c3, e, 3)
    <3>1. c3.start \in Nat /\ c3.end \in Nat /\ a <= c3.start /\ LowEnd <= c3.start /\ FsEnd <= c3.start
      <4>1. CASE area
        BY <4>1, <2>2, <1>2, <1>3, <1>4, <1>6, Sizes
      <4>2. CASE ~ area
        BY <4>2, <2>2, <1>2, <1>3, <1>4, Sizes
      <4> QED BY <4>1, <4>2
    <3>2. MmapArea < K0Bump => K0Bump <= c3.start \/ c3.end <= MmapArea
      <4>1. K0Bump <= K0Bump
        BY Sizes
      <4> QED BY <4>1, <2>2, <1>5
    <3>3. c3.end <= e.addr + e.len
      BY <2>2, <1>2 DEF z
    <3> QED BY <3>1, <3>2, <3>3 DEF PartIn, a
  <2> QED BY <2>1, <2>3, <1>9
<1> QED BY <1>7, <1>8, <1>9

\* A region that has a page, of an entry's part.
LEMMA RegAddIs ==
  ASSUME NEW c, c.start \in Nat, c.end \in Nat, NEW r, r = RegAdd(c), r.start < r.end
  PROVE  /\ r \in [start : Nat, end : Nat] /\ c.start <= r.start /\ r.end <= c.end /\ c.start < c.end
         /\ r.start % Page = 0 /\ r.end % Page = 0
<1>1. r = [start |-> AlignUp(c.start, Page), end |-> AlignDn(c.end, Page)]
  BY DEF RegAdd
<1>2. /\ AlignUp(c.start, Page) \in Nat /\ c.start <= AlignUp(c.start, Page) /\ AlignUp(c.start, Page) % Page = 0
      /\ AlignDn(c.end, Page) \in Nat /\ AlignDn(c.end, Page) <= c.end /\ AlignDn(c.end, Page) % Page = 0
  BY Sizes, AlignedUp, AlignDown
<1> DEFINE x == AlignUp(c.start, Page)
           y == AlignDn(c.end, Page)
<1>3. r = [start |-> x, end |-> y] /\ r.start = x /\ r.end = y
  BY <1>1
<1>4. x \in Nat /\ c.start <= x /\ x % Page = 0 /\ y \in Nat /\ y <= c.end /\ y % Page = 0
  BY <1>2
<1> HIDE DEF x, y
<1>5. c.start < c.end
  BY <1>3, <1>4
<1> QED BY <1>3, <1>4, <1>5

LEMMA CutTyped ==
  ASSUME NEW e, EntryOK(e), NEW i \in 1..3
  PROVE  Cut(e)[i].start \in Nat /\ Cut(e)[i].end \in Nat
<1> DEFINE a == e.addr
           z == e.addr + e.len
           s0 == Largest(a, LowEnd)
           image == s0 < FsImg /\ z > FsImg
           s1 == Largest(IF image THEN FsImg ELSE s0, FsEnd)
           area == s1 < MmapArea /\ z > MmapArea /\ K0Bump > MmapArea
           c1 == [start |-> s0, end |-> IF image THEN FsImg ELSE s0]
           c2 == [start |-> s1, end |-> IF area THEN MmapArea ELSE s1]
           c3 == [start |-> IF area THEN K0Bump ELSE s1, end |-> z]
           C == <<c1, c2, c3>>
<1>1. Cut(e) = C
  BY DEF Cut
<1>2. a \in Nat /\ z \in Nat
  BY DEF EntryOK
<1>3. s0 \in Nat
  BY <1>2, Sizes, LargestIs
<1> HIDE DEF s0, a, z
<1>4. s1 \in Nat
  <2> DEFINE t == IF image THEN FsImg ELSE s0
  <2>1. t \in Nat
    BY <1>3, Sizes
  <2> HIDE DEF t
  <2>2. Largest(t, FsEnd) \in Nat
    BY <2>1, Sizes, LargestIs
  <2> QED BY <2>2 DEF t
<1> HIDE DEF s1, image, area
<1>5. c1.start \in Nat /\ c1.end \in Nat /\ c2.start \in Nat /\ c2.end \in Nat /\ c3.start \in Nat /\ c3.end \in Nat
  BY <1>2, <1>3, <1>4, Sizes
<1> HIDE DEF c1, c2, c3
<1>6. C[1] = c1 /\ C[2] = c2 /\ C[3] = c3
  OBVIOUS
<1>7. i = 1 \/ i = 2 \/ i = 3
  OBVIOUS
<1> HIDE DEF C
<1> QED BY <1>1, <1>5, <1>6, <1>7

\* Where a part's region lies, and on which side of its entry's other parts.
RegionIn(r, e, i) ==
  /\ r \in [start : Nat, end : Nat] /\ RegOK(r) /\ r.start < r.end
  /\ e.addr <= r.start /\ r.end <= e.addr + e.len
  /\ i = 1 => r.end <= FsImg
  /\ i # 1 => ImageEnd <= r.start
  /\ i = 2 => r.end <= MmapArea
  /\ i = 3 /\ MmapArea < K0Bump => K0Bump <= r.start \/ r.end <= MmapArea

EntryAt(e820, x) == e820[x[1]]

LEMMA PartsIn ==
  ASSUME NEW e820, MapOK(e820), NEW x \in Parts(e820)
  PROVE  /\ x = <<x[1], x[2]>> /\ x[1] \in DOMAIN e820 /\ x[2] \in 1..3
         /\ EntryOK(EntryAt(e820, x)) /\ EntryAt(e820, x).type = 1
         /\ PartAt(e820, x) = RegAdd(Cut(EntryAt(e820, x))[x[2]])
         /\ PartAt(e820, x).start < PartAt(e820, x).end
<1>1. x \in (DOMAIN e820) \X (1..3) /\ e820[x[1]].type = 1 /\ PartAt(e820, x).start < PartAt(e820, x).end
  BY DEF Parts
<1>2. x = <<x[1], x[2]>> /\ x[1] \in DOMAIN e820 /\ x[2] \in 1..3
  BY <1>1
<1>3. EntryOK(e820[x[1]])
  BY <1>1, <1>2 DEF MapOK, EntryOK
<1> QED BY <1>1, <1>2, <1>3 DEF EntryAt, PartAt

LEMMA PartIs ==
  ASSUME NEW e820, MapOK(e820), NEW x \in Parts(e820)
  PROVE  /\ RegionIn(PartAt(e820, x), EntryAt(e820, x), x[2])
         /\ x[2] = 2 => \A y \in Parts(e820) : y[1] = x[1] /\ y[2] = 3 => MmapArea <= PartAt(e820, y).start
<1> DEFINE e == EntryAt(e820, x)
           i == x[2]
           c == Cut(e)[i]
           r == PartAt(e820, x)
<1>1. i \in 1..3 /\ EntryOK(e) /\ r = RegAdd(c) /\ r.start < r.end
  BY PartsIn
<1>2. c.start \in Nat /\ c.end \in Nat
  BY <1>1, CutTyped
<1>3. /\ r \in [start : Nat, end : Nat] /\ c.start <= r.start /\ r.end <= c.end /\ c.start < c.end
      /\ r.start % Page = 0 /\ r.end % Page = 0
  <2> HIDE DEF r, c
  <2> QED BY <1>1, <1>2, RegAddIs
<1>4. PartIn(c, e, i) /\ (i = 2 => MmapArea <= Cut(e)[3].start)
  <2> HIDE DEF e, i, r
  <2> QED BY <1>1, <1>3, CutIs
<1>5. RegionIn(r, e, i)
  <2> HIDE DEF r, c, i
  <2>1. e.addr \in Nat /\ e.len \in Nat
    BY <1>1 DEF EntryOK
  <2>2. e.addr <= r.start /\ r.end <= e.addr + e.len /\ LowEnd <= r.start /\ r.start \in Nat /\ r.end \in Nat
    <3> HIDE DEF e
    <3> QED BY <1>2, <1>3, <1>4, <2>1, Sizes DEF PartIn
  <2>3. i # 1 => ImageEnd <= r.start
    <3> SUFFICES ASSUME i # 1 PROVE ImageEnd <= r.start
      OBVIOUS
    <3>1. FsEnd <= r.start
      <4> HIDE DEF e
      <4> QED BY <1>2, <1>3, <1>4, <2>2, Sizes DEF PartIn
    <3> QED BY <3>1, <2>2, <1>3, Sizes, AlignBetween DEF ImageEnd
  <2>4. i = 1 => r.end <= FsImg
    BY <1>2, <1>3, <1>4, <2>2, Sizes DEF PartIn
  <2>5. i = 2 => r.end <= MmapArea
    BY <1>2, <1>3, <1>4, <2>2, Sizes DEF PartIn
  <2>6. i = 3 /\ MmapArea < K0Bump => K0Bump <= r.start \/ r.end <= MmapArea
    BY <1>2, <1>3, <1>4, <2>2, Sizes DEF PartIn
  <2>7. RegOK(r) /\ r.start < r.end
    BY <2>2, <1>1, <1>3 DEF RegOK
  <2> HIDE DEF e
  <2> QED BY <1>3, <2>2, <2>3, <2>4, <2>5, <2>6, <2>7 DEF RegionIn
<1>6. ASSUME i = 2, NEW y \in Parts(e820), y[1] = x[1], y[2] = 3 PROVE MmapArea <= PartAt(e820, y).start
  <2> DEFINE s == PartAt(e820, y)
             d == Cut(e)[3]
  <2>1. s = RegAdd(d) /\ s.start < s.end
    <3>1. EntryAt(e820, y) = e
      BY <1>6 DEF EntryAt
    <3> QED BY <3>1, <1>6, PartsIn
  <2>2. d.start \in Nat /\ d.end \in Nat
    BY <1>1, CutTyped
  <2>3. s \in [start : Nat, end : Nat] /\ d.start <= s.start
    <3> HIDE DEF s, d
    <3> QED BY <2>1, <2>2, RegAddIs
  <2>4. MmapArea <= d.start
    BY <1>4, <1>6
  <2> HIDE DEF s, d
  <2>5. MmapArea <= s.start
    BY <2>2, <2>3, <2>4, Sizes
  <2> QED BY <2>5 DEF s
<1> QED BY <1>5, <1>6

RegionClear(r, s) == r.end <= s.start \/ s.end <= r.start

LEMMA PartsApart ==
  ASSUME NEW e820, MapOK(e820), NEW x \in Parts(e820), NEW y \in Parts(e820), x # y
  PROVE  RegionClear(PartAt(e820, x), PartAt(e820, y))
<1> DEFINE r == PartAt(e820, x)
           s == PartAt(e820, y)
           d == EntryAt(e820, x)
           e == EntryAt(e820, y)
<1>1. /\ RegionIn(r, d, x[2]) /\ RegionIn(s, e, y[2])
      /\ x[2] = 2 /\ y[1] = x[1] /\ y[2] = 3 => MmapArea <= s.start
      /\ y[2] = 2 /\ x[1] = y[1] /\ x[2] = 3 => MmapArea <= r.start
  BY PartIs
<1>2. /\ x = <<x[1], x[2]>> /\ y = <<y[1], y[2]>> /\ x[2] \in 1..3 /\ y[2] \in 1..3
      /\ x[1] \in DOMAIN e820 /\ y[1] \in DOMAIN e820
      /\ EntryOK(d) /\ EntryOK(e) /\ d.type = 1 /\ e.type = 1
  BY PartsIn
<1>3. r.start \in Nat /\ r.end \in Nat /\ s.start \in Nat /\ s.end \in Nat
  <2> HIDE DEF r, s, d, e
  <2> QED BY <1>1 DEF RegionIn
<1>4. CASE x[1] # y[1]
  <2>1. d.addr + d.len <= e.addr \/ e.addr + e.len <= d.addr
    BY <1>2, <1>4 DEF MapOK, EntryAt
  <2>2. d.addr \in Nat /\ d.len \in Nat /\ e.addr \in Nat /\ e.len \in Nat
    BY <1>2 DEF EntryOK
  <2>3. d.addr <= r.start /\ r.end <= d.addr + d.len /\ e.addr <= s.start /\ s.end <= e.addr + e.len
    <3> HIDE DEF r, s, d, e
    <3> QED BY <1>1 DEF RegionIn
  <2> DEFINE d1 == d.addr
             d2 == d.addr + d.len
             e1 == e.addr
             e2 == e.addr + e.len
  <2>4. d1 \in Nat /\ d2 \in Nat /\ e1 \in Nat /\ e2 \in Nat /\ (d2 <= e1 \/ e2 <= d1)
        /\ d1 <= r.start /\ r.end <= d2 /\ e1 <= s.start /\ s.end <= e2
    BY <2>1, <2>2, <2>3
  <2> HIDE DEF d1, d2, e1, e2, r, s, d, e
  <2>5. RegionClear(r, s)
    BY <2>4, <1>3 DEF RegionClear
  <2> QED BY <2>5 DEF r, s
<1>5. CASE x[1] = y[1]
  <2>1. x[2] # y[2]
    BY <1>2, <1>5
  <2> DEFINE i == x[2]
             j == y[2]
  <2>2. /\ i \in 1..3 /\ j \in 1..3 /\ i # j
        /\ RegionIn(r, d, i) /\ RegionIn(s, e, j)
        /\ i = 2 /\ j = 3 => MmapArea <= s.start
        /\ j = 2 /\ i = 3 => MmapArea <= r.start
    BY <1>1, <1>2, <1>5, <2>1
  <2> HIDE DEF i, j, r, s, d, e
  <2>3. /\ i = 1 => r.end <= FsImg
        /\ i # 1 => ImageEnd <= r.start
        /\ i = 2 => r.end <= MmapArea
        /\ j = 1 => s.end <= FsImg
        /\ j # 1 => ImageEnd <= s.start
        /\ j = 2 => s.end <= MmapArea
    BY <2>2 DEF RegionIn
  <2>4. RegionClear(r, s)
    BY <2>2, <2>3, <1>3, Sizes, ImportPagesIn DEF RegionClear
  <2> QED BY <2>4 DEF r, s
<1> QED BY <1>4, <1>5

\* The regions do not overlap, and leave out what is K1's and K0's.
LEMMA RegionsIn ==
  ASSUME NEW e820, MapOK(e820), NEW r \in Regions(e820)
  PROVE  /\ r \in [start : Nat, end : Nat] /\ RegOK(r)
         /\ r.end <= FsImg \/ ImageEnd <= r.start
         /\ MmapArea < K0Bump => r.end <= MmapArea \/ K0Bump <= r.start
         /\ \A s \in Regions(e820) : s # r => RegionClear(r, s)
<1>1. PICK x \in Parts(e820) : r = PartAt(e820, x)
  BY DEF Regions
<1> DEFINE e == EntryAt(e820, x)
           i == x[2]
<1>2. RegionIn(r, e, i) /\ i \in 1..3
  BY <1>1, PartIs, PartsIn
<1> HIDE DEF e, i
<1>3. FsImg <= MmapArea
  BY Sizes
<1>4. r.end <= FsImg \/ ImageEnd <= r.start
  BY <1>2 DEF RegionIn
<1>5. MmapArea < K0Bump => r.end <= MmapArea \/ K0Bump <= r.start
  <2>1. r.end \in Nat
    BY <1>2 DEF RegionIn
  <2>2. i = 1 => r.end <= MmapArea
    BY <1>2, <1>3, <2>1, Sizes DEF RegionIn
  <2> QED BY <1>2, <2>2 DEF RegionIn
<1>6. ASSUME NEW s \in Regions(e820), s # r PROVE RegionClear(r, s)
  <2>1. PICK y \in Parts(e820) : s = PartAt(e820, y)
    BY DEF Regions
  <2>2. x # y
    BY <1>1, <1>6, <2>1
  <2> QED BY <1>1, <2>1, <2>2, PartsApart
<1> QED BY <1>2, <1>4, <1>5, <1>6 DEF RegionIn

LEMMA InitOK ==
  ASSUME NEW e820, MapOK(e820)
  PROVE  RamOK(PhysInit(e820)) /\ PhysInit(e820).owned = {} /\ PhysInit(e820).imported = FALSE
<1> DEFINE A == PhysInit(e820)
           n == Regions(e820)
           c == [size \in Classes |-> {}]
           g == [k \in 1..BigMax |-> {}]
<1>1. A.new = n /\ A.free = {} /\ A.chunks = c /\ A.big = g /\ A.used = 0 /\ A.imported = FALSE /\ A.owned = {}
  BY DEF PhysInit
<1>2. A \in Ram
  <2>1. n \subseteq [start : Nat, end : Nat]
    BY RegionsIn
  <2>2. c \in [Classes -> SUBSET Nat] /\ g \in [1..BigMax -> SUBSET Nat]
    OBVIOUS
  <2>3. A = [new |-> n, free |-> {}, chunks |-> c, big |-> g, used |-> 0, imported |-> FALSE, owned |-> {}]
    BY DEF PhysInit
  <2> HIDE DEF A, n, c, g
  <2> QED BY <2>1, <2>2, <2>3 DEF Ram
<1>3. Placed(A)
  <2>1. \A r \in n : RegOK(r)
    BY RegionsIn
  <2> HIDE DEF A, n
  <2> QED BY <1>1, <2>1 DEF Placed
<1>4. \A b \in Blocks(A) : \E r \in n : b = NewPart(r) /\ b.at = r.start /\ b.at + b.len = r.end
  <2> SUFFICES ASSUME NEW b \in Blocks(A) PROVE \E r \in n : b = NewPart(r) /\ b.at = r.start /\ b.at + b.len = r.end
    OBVIOUS
  <2>1. PICK r \in n : b = NewPart(r)
    <3>1. \A size \in Classes : A.chunks[size] = {}
      BY <1>1
    <3>2. \A k \in 1..BigMax : A.big[k] = {}
      BY <1>1
    <3> HIDE DEF A, n, c, g
    <3>3. \/ b \in A.owned
          \/ \E p \in A.free : b = FreePage(p)
          \/ \E size \in Classes : \E p \in A.chunks[size] : b = FreeChunk(p, size)
          \/ \E k \in 1..BigMax : \E p \in A.big[k] : b = FreeBig(p, k)
          \/ \E r \in A.new : b = NewPart(r)
      BY BlockIs, Zenon
    <3>4. A.owned = {} /\ A.free = {} /\ A.new = n
      BY <1>1
    <3> QED BY <3>1, <3>2, <3>3, <3>4
  <2>2. r.start \in Nat /\ r.end \in Nat /\ r.start <= r.end
    BY RegionsIn DEF RegOK
  <2>3. b.at = r.start /\ b.len = r.end - r.start
    BY <2>1 DEF NewPart
  <2> HIDE DEF A, n
  <2> QED BY <2>1, <2>2, <2>3
<1> HIDE DEF A
<1>5. AllClear(Blocks(A))
  <2> SUFFICES ASSUME NEW b \in Blocks(A), NEW d \in Blocks(A), b # d PROVE Clear(b, d)
    BY DEF AllClear
  <2>1. PICK r \in n : b = NewPart(r) /\ b.at = r.start /\ b.at + b.len = r.end
    BY <1>4
  <2>2. PICK s \in n : d = NewPart(s) /\ d.at = s.start /\ d.at + d.len = s.end
    BY <1>4
  <2>3. r # s
    BY <2>1, <2>2
  <2>4. RegionClear(r, s)
    BY <2>3, RegionsIn
  <2> QED BY <2>1, <2>2, <2>4 DEF RegionClear, Clear
<1>6. Bounded(A)
  <2>1. ASSUME NEW b \in Blocks(A)
        PROVE  /\ LowEnd <= b.at
               /\ b.at + b.len <= FsImg \/ ImageEnd <= b.at
               /\ MmapArea < K0Bump => b.at + b.len <= MmapArea \/ K0Bump <= b.at
    <3>1. PICK r \in n : b = NewPart(r) /\ b.at = r.start /\ b.at + b.len = r.end
      BY <1>4
    <3>2. /\ RegOK(r) /\ (r.end <= FsImg \/ ImageEnd <= r.start)
          /\ MmapArea < K0Bump => r.end <= MmapArea \/ K0Bump <= r.start
      BY RegionsIn
    <3> QED BY <3>1, <3>2 DEF RegOK
  <2> QED BY <2>1 DEF Bounded, Outside
<1>7. Taken(A) = {}
  <2> SUFFICES ASSUME NEW u PROVE ~ (u \in Taken(A))
    OBVIOUS
  <2>1. \A size \in Classes : c[size] = {}
    OBVIOUS
  <2> HIDE DEF c
  <2> QED BY <1>1, <1>2, <2>1, TakenIs
<1>8. IsFiniteSet(Taken(A)) /\ A.used = Cardinality(Taken(A))
  BY <1>1, <1>7, FS_EmptySet
<1>9. RamOK(A)
  BY <1>2, <1>3, <1>5, <1>6, <1>8 DEF RamOK
<1> QED BY <1>1, <1>9 DEF A

=============================================================================
