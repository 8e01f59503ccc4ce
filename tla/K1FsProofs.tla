---------------------------- MODULE K1FsProofs ----------------------------
(***************************************************************************)
(* K1's names, for every machine and number of processes, inodes, files    *)
(* and names: the hash tables are the lists, the directories are a tree,   *)
(* an inode lasts as long as its names and users, a reading of a directory *)
(* loses no more names than were removed, and all of it is FileTree.       *)
(***************************************************************************)
EXTENDS K1Fs, FiniteSetTheorems, NaturalsInduction, WellFoundedInduction, TLAPS

(* ---- numbers ---- *)

\* A set of naturals with 0 and every successor has them all.
LEMMA AllNat ==
  ASSUME NEW S \in SUBSET Nat, 0 \in S, \A n \in S : n + 1 \in S
  PROVE  \A n \in Nat : n \in S
<1> DEFINE R == OpToRel(<, Nat)
<1>1. \A x, y \in Nat : x < y => <<x, y>> \in R
  BY Zenon DEF OpToRel
<1>2. IsWellFoundedOn(R, Nat)
  BY NatLessThanWellFounded, Zenon
<1> HIDE DEF R
<1> SUFFICES ASSUME Nat \ S # {} PROVE FALSE
  OBVIOUS
<1>3. PICK x \in Nat \ S : \A y \in Nat \ S : ~ (<<y, x>> \in R)
  <2>1. Nat \ S \subseteq Nat
    OBVIOUS
  <2> QED BY <2>1, <1>2, WFMin
<1>4. x # 0 /\ x - 1 \in Nat /\ x - 1 < x
  OBVIOUS
<1>5. x - 1 \in S
  BY <1>1, <1>3, <1>4
<1>6. x \in S
  BY <1>5, <1>4
<1> QED BY <1>6

\* Min of a set of naturals is in it.
LEMMA MinIn ==
  ASSUME NEW S \in SUBSET Nat, S # {}
  PROVE  Min(S) \in S /\ \A y \in S : Min(S) <= y
<1> DEFINE R == OpToRel(<, Nat)
<1>1. \A x, y \in Nat : x < y => <<x, y>> \in R
  BY Zenon DEF OpToRel
<1>2. IsWellFoundedOn(R, Nat)
  BY NatLessThanWellFounded, Zenon
<1> HIDE DEF R
<1>3. PICK x \in S : \A y \in S : ~ (<<y, x>> \in R)
  BY <1>2, WFMin
<1>4. S \subseteq Nat
  OBVIOUS
<1>5. \A y \in S : ~ (y < x)
  BY <1>1, <1>4, <1>3, Zenon
<1>6. \A y \in S : x <= y
  BY <1>5, <1>4
<1> QED BY <1>6, Zenon DEF Min

\* A function on the naturals whose next value st gives.
Iterates(g, D, st) == g[0] = D /\ \A n \in Nat : g[n + 1] = st[<<n + 1, g[n]>>]
Upto(g, D, st, m) == g[0] = D /\ \A n \in Nat : n < m => g[n + 1] = st[<<n + 1, g[n]>>]

LEMMA Recursion ==
  ASSUME NEW S, NEW D \in S, NEW st \in [Nat \X S -> S]
  PROVE  \E g \in [Nat -> S] : Iterates(g, D, st)
<1> DEFINE Some(m) == {g \in [Nat -> S] : Upto(g, D, st, m)}
<1>1. \A m \in Nat : Some(m) # {}
  <2> DEFINE T == {m \in Nat : Some(m) # {}}
  <2>1. 0 \in T
    <3>1. [n \in Nat |-> D] \in Some(0)
      BY DEF Upto
    <3> QED BY <3>1
  <2>2. ASSUME NEW m \in T PROVE m + 1 \in T
    <3>1. PICK g : g \in Some(m)
      OBVIOUS
    <3> DEFINE h == [n \in Nat |-> IF n = m + 1 THEN st[<<m + 1, g[m]>>] ELSE g[n]]
    <3>2. h \in [Nat -> S]
      <4>1. m \in Nat /\ g \in [Nat -> S]
        BY <3>1
      <4>2. <<m + 1, g[m]>> \in Nat \X S
        BY <4>1
      <4>3. st[<<m + 1, g[m]>>] \in S
        BY <4>2
      <4> QED BY <4>1, <4>3
    <3>3. Upto(h, D, st, m + 1)
      <4>1. m \in Nat /\ Upto(g, D, st, m)
        BY <3>1
      <4>2. h[0] = D
        BY <4>1 DEF Upto
      <4>3. ASSUME NEW n \in Nat, n < m + 1 PROVE h[n + 1] = st[<<n + 1, h[n]>>]
        <5>1. h[n] = g[n]
          BY <4>1, <4>3
        <5>2. CASE n = m
          BY <5>1, <5>2, <4>1
        <5>3. CASE n # m
          <6>1. n < m /\ h[n + 1] = g[n + 1]
            BY <4>1, <4>3, <5>3
          <6> QED BY <6>1, <4>1, <5>1 DEF Upto
        <5> QED BY <5>2, <5>3
      <4> HIDE DEF h
      <4> QED BY <4>2, <4>3 DEF Upto
    <3>4. m + 1 \in Nat
      OBVIOUS
    <3> HIDE DEF h
    <3>5. h \in Some(m + 1)
      BY <3>2, <3>3
    <3> QED BY <3>4, <3>5
  <2>3. T \in SUBSET Nat
    OBVIOUS
  <2> HIDE DEF T
  <2>4. \A m \in Nat : m \in T
    BY <2>1, <2>2, <2>3, AllNat
  <2> QED BY <2>4 DEF T
<1> DEFINE G(m) == CHOOSE g : g \in Some(m)
<1>2. \A m \in Nat : G(m) \in Some(m)
  BY <1>1
<1> HIDE DEF Some
<1>3. \A m \in Nat : G(m) \in [Nat -> S] /\ Upto(G(m), D, st, m)
  BY <1>2 DEF Some
<1> HIDE DEF G
<1>4. \A n \in Nat : \A m \in Nat : n <= m => G(m)[n] = G(n)[n]
  <2> DEFINE T == {n \in Nat : \A m \in Nat, l \in Nat : n <= m /\ n <= l => G(m)[n] = G(l)[n]}
  <2>1. 0 \in T
    BY <1>3 DEF Upto
  <2>2. ASSUME NEW n \in T PROVE n + 1 \in T
    <3>1. n \in Nat
      OBVIOUS
    <3>2. ASSUME NEW m \in Nat, NEW l \in Nat, n + 1 <= m, n + 1 <= l PROVE G(m)[n + 1] = G(l)[n + 1]
      <4>1. n < m /\ n < l /\ n <= m /\ n <= l
        BY <3>1, <3>2
      <4>2. G(m)[n] = G(l)[n]
        BY <4>1
      <4>3. G(m)[n + 1] = st[<<n + 1, G(m)[n]>>]
        BY <3>1, <4>1, <1>3 DEF Upto
      <4>4. G(l)[n + 1] = st[<<n + 1, G(l)[n]>>]
        BY <3>1, <4>1, <1>3 DEF Upto
      <4> QED BY <4>2, <4>3, <4>4
    <3> QED BY <3>1, <3>2
  <2>3. T \in SUBSET Nat
    OBVIOUS
  <2> HIDE DEF T
  <2>4. \A n \in Nat : n \in T
    BY <2>1, <2>2, <2>3, AllNat
  <2> QED BY <2>4 DEF T
<1> DEFINE g == [n \in Nat |-> G(n)[n]]
<1>5. g \in [Nat -> S]
  BY <1>3
<1>6. g[0] = D
  BY <1>3 DEF Upto
<1>7. ASSUME NEW n \in Nat PROVE g[n + 1] = st[<<n + 1, g[n]>>]
  <2>1. n + 1 \in Nat /\ n < n + 1 /\ n <= n + 1
    OBVIOUS
  <2>2. G(n + 1)[n + 1] = st[<<n + 1, G(n + 1)[n]>>]
    BY <2>1, <1>3 DEF Upto
  <2>3. G(n + 1)[n] = G(n)[n]
    BY <2>1, <1>4
  <2>4. g[n + 1] = G(n + 1)[n + 1] /\ g[n] = G(n)[n]
    BY <2>1
  <2> QED BY <2>2, <2>3, <2>4
<1> HIDE DEF g
<1> QED BY <1>5, <1>6, <1>7 DEF Iterates

(* ---- counting ---- *)

Tally(D, g, i) == Cardinality({z \in D : g[z] = i})
One(b) == IF b THEN 1 ELSE 0

LEMMA TallyNat ==
  ASSUME NEW D, IsFiniteSet(D), NEW g, NEW i
  PROVE  /\ Tally(D, g, i) \in Nat /\ IsFiniteSet({z \in D : g[z] = i})
         /\ Tally(D, g, i) = 0 <=> \A z \in D : g[z] # i
<1> DEFINE S == {z \in D : g[z] = i}
<1>1. S \in SUBSET D
  OBVIOUS
<1>2. IsFiniteSet(S)
  BY <1>1, FS_Subset
<1>3. Cardinality(S) \in Nat /\ (Cardinality(S) = 0 <=> S = {})
  BY <1>2, FS_CardinalityType, FS_EmptySet
<1>4. S = {} <=> \A z \in D : g[z] # i
  OBVIOUS
<1> QED BY <1>2, <1>3, <1>4 DEF Tally

\* One place more or less.
LEMMA TallyChange ==
  ASSUME NEW D, IsFiniteSet(D), NEW g, NEW h, NEW x \in D, \A z \in D : z # x => h[z] = g[z], NEW i
  PROVE  Tally(D, h, i) = (Tally(D, g, i) - One(g[x] = i)) + One(h[x] = i)
<1> DEFINE S == {z \in D : g[z] = i}
           T == {z \in D : h[z] = i}
           R == S \ {x}
<1>1. IsFiniteSet(S) /\ Cardinality(S) \in Nat
  BY TallyNat DEF Tally
<1>2. R = T \ {x}
  OBVIOUS
<1>3. (h[x] = i => T = R \cup {x}) /\ (h[x] # i => T = R)
  OBVIOUS
<1>4. (g[x] = i => x \in S) /\ (g[x] # i => x \notin S) /\ x \notin R
  OBVIOUS
<1> HIDE DEF T
<1>5. IsFiniteSet(R) /\ Cardinality(R) = IF x \in S THEN Cardinality(S) - 1 ELSE Cardinality(S)
  BY <1>1, FS_RemoveElement
<1> HIDE DEF R, S
<1>6. Cardinality(R \cup {x}) = Cardinality(R) + 1
  BY <1>4, <1>5, FS_AddElement
<1>7. Cardinality(R) = Cardinality(S) - One(g[x] = i)
  BY <1>4, <1>5, <1>1 DEF One
<1>8. Cardinality(R) \in Int
  BY <1>1, <1>7 DEF One
<1>9. Cardinality(T) = Cardinality(R) + One(h[x] = i)
  <2>1. CASE h[x] = i
    BY <2>1, <1>3, <1>6, <1>8 DEF One
  <2>2. CASE h[x] # i
    BY <2>2, <1>3, <1>8 DEF One
  <2> QED BY <2>1, <2>2
<1> QED BY <1>7, <1>9, <1>1 DEF Tally, S, T

\* A one-to-one map into a finite set.
LEMMA OneToOne ==
  ASSUME NEW S, NEW T, IsFiniteSet(T), NEW m, m \in [S -> T],
         \A x, y \in S : m[x] = m[y] => x = y
  PROVE  IsFiniteSet(S) /\ Cardinality(S) <= Cardinality(T)
<1>1. m \in Injection(S, T)
  BY Zenon DEF Injection, IsInjective
<1> QED BY <1>1, FS_Injection

LEMMA OneToOneOnto ==
  ASSUME NEW S, NEW T, IsFiniteSet(T), NEW m, m \in [S -> T],
         \A x, y \in S : m[x] = m[y] => x = y, \A z \in T : \E x \in S : m[x] = z
  PROVE  IsFiniteSet(S) /\ Cardinality(S) = Cardinality(T)
<1>1. m \in Injection(S, T)
  BY Zenon DEF Injection, IsInjective
<1>2. m \in Surjection(S, T)
  BY Zenon DEF Surjection
<1> QED BY <1>1, <1>2, FS_Injection

(* ---- what there is ---- *)

LEMMA Constants ==
  /\ IsFiniteSet(Procs) /\ Procs \subseteq Nat /\ Procs # {}
  /\ Root \in Inodes /\ Root = 1 /\ None = 0 /\ Inodes \subseteq Nat /\ None \notin Inodes /\ IsFiniteSet(Inodes)
  /\ Files \subseteq Nat /\ IsFiniteSet(Files) /\ Cardinality(Files) \in Nat /\ Files = 1..Cardinality(Files)
  /\ IsFiniteSet(Names) /\ "" \notin Names /\ "." \notin Names /\ ".." \notin Names
  /\ Hash \in [Names -> Nat] /\ ListMax \in Nat /\ HashMin \in Nat /\ HashMin > 0
  /\ MaxLinks \in Nat /\ MaxHops \in Nat /\ MaxHops > 0
<1>1. Cardinality(Files) \in Nat /\ Files = 1..Cardinality(Files) /\ IsFiniteSet(Files)
  BY FsAssumption, FS_CardinalityType
<1>2. Files \subseteq Nat
  <2> DEFINE c == Cardinality(Files)
  <2>1. c \in Nat /\ Files = 1..c
    BY <1>1
  <2> HIDE DEF c
  <2> QED BY <2>1
<1>3. IsFiniteSet(Procs) /\ Procs \subseteq Nat /\ Procs # {}
  BY FsAssumption
<1>4. 1 \in Inodes /\ Inodes \subseteq Nat \ {0} /\ IsFiniteSet(Inodes)
  BY FsAssumption
<1>5. IsFiniteSet(Names) /\ Names \cap {"", ".", ".."} = {} /\ Hash \in [Names -> Nat]
  BY FsAssumption
<1>6. ListMax \in Nat /\ HashMin \in Nat \ {0} /\ MaxLinks \in Nat /\ MaxHops \in Nat \ {0}
  BY FsAssumption
<1>7. Inodes \subseteq Nat /\ None \notin Inodes /\ Root \in Inodes /\ Root = 1 /\ None = 0
  BY <1>4 DEF None, Root
<1>8. "" \notin Names /\ "." \notin Names /\ ".." \notin Names
  BY <1>5
<1>9. HashMin > 0 /\ MaxHops > 0 /\ HashMin \in Nat /\ MaxHops \in Nat
  BY <1>6
<1> QED BY <1>1, <1>2, <1>3, <1>4, <1>5, <1>6, <1>7, <1>8, <1>9

Kinds == {"free", "dir", "reg", "fifo", "link"}
Entry == [name : Names, ino : Inodes]
Comps == Seq(Names \cup {".", ".."})
Paths == [base : Int, comps : Comps, slash : BOOLEAN]
InodeRec == [kind : Kinds, nlink : Int, refs : Int, lost : Nat, parent : Inodes \cup {None},
             dents : Seq(Entry), htab : Seq(SUBSET Entry), target : Paths]
Table == [Inodes -> InodeRec]
Uses == [Inodes -> Nat]

LEMMA PathIs == ASSUME NEW path, PathOK(path) PROVE path \in Paths
BY DEF PathOK, Paths, Comps

LEMMA FreeIs ==
  /\ Free \in InodeRec
  /\ Free.kind = "free" /\ Free.nlink = 0 /\ Free.refs = 0 /\ Free.lost = 0 /\ Free.parent = None
  /\ Free.dents = <<>> /\ Free.htab = <<>>
<1>1. NoPath \in Paths
  BY DEF NoPath, Paths, Comps, AtCwd
<1>2. <<>> \in Seq(Entry) /\ <<>> \in Seq(SUBSET Entry)
  OBVIOUS
<1>3. "free" \in Kinds
  BY DEF Kinds
<1> QED BY <1>1, <1>2, <1>3 DEF Free, InodeRec

LEMMA TableFields ==
  ASSUME NEW I \in Table, NEW i \in Inodes
  PROVE  /\ I[i] \in InodeRec /\ I[i].kind \in Kinds /\ I[i].nlink \in Int /\ I[i].refs \in Int /\ I[i].lost \in Nat
         /\ I[i].parent \in Inodes \cup {None} /\ I[i].dents \in Seq(Entry)
         /\ I[i].htab \in Seq(SUBSET Entry) /\ I[i].target \in Paths
<1>1. I[i] \in InodeRec
  BY DEF Table
<1> QED BY <1>1 DEF InodeRec

\* The elements of sequences.
LEMMA EntriesAre ==
  ASSUME NEW I \in Table, NEW d \in Inodes
  PROVE  /\ \A e : e \in Entries(I, d) <=> \E k \in 1..Len(I[d].dents) : e = I[d].dents[k]
         /\ Entries(I, d) \subseteq Entry
         /\ \A e \in Entries(I, d) : e \in Entry /\ e.name \in Names /\ e.ino \in Inodes /\ e = [name |-> e.name, ino |-> e.ino]
         /\ I[d].dents = <<>> <=> Entries(I, d) = {}
<1> DEFINE s == I[d].dents
<1>1. s \in Seq(Entry)
  BY TableFields
<1> HIDE DEF s
<1>2. DOMAIN s = 1..Len(s) /\ Len(s) \in Nat /\ \A k \in 1..Len(s) : s[k] \in Entry
  BY <1>1
<1>3. \A e : e \in ToSet(s) <=> \E k \in 1..Len(s) : e = s[k]
  BY <1>2 DEF ToSet
<1>4. \A e \in ToSet(s) : e \in Entry
  BY <1>2, <1>3
<1>5. \A e \in Entry : e.name \in Names /\ e.ino \in Inodes /\ e = [name |-> e.name, ino |-> e.ino]
  BY DEF Entry
<1>6. s = <<>> <=> ToSet(s) = {}
  <2>1. ASSUME s # <<>> PROVE ToSet(s) # {}
    <3>1. 1 \in 1..Len(s)
      BY <1>1, <2>1
    <3> QED BY <3>1, <1>3
  <2>2. ASSUME s = <<>> PROVE ToSet(s) = {}
    BY <2>2, <1>3
  <2> QED BY <2>1, <2>2
<1> QED BY <1>3, <1>4, <1>5, <1>6 DEF Entries, s

LEMMA RemovedAt ==
  ASSUME NEW T, NEW s \in Seq(T), NEW k \in 1..Len(s), NEW r, r = RemoveAt(s, k)
  PROVE  /\ r \in Seq(T) /\ Len(r) = Len(s) - 1
         /\ \A j \in 1..Len(r) : r[j] = IF j < k THEN s[j] ELSE s[j + 1]
<1> DEFINE a == SubSeq(s, 1, k - 1)
           b == SubSeq(s, k + 1, Len(s))
<1>1. k \in Nat /\ 1 <= k /\ k <= Len(s) /\ Len(s) \in Nat
  OBVIOUS
<1>2. a \in Seq(T) /\ Len(a) = k - 1 /\ \A j \in 1..k - 1 : a[j] = s[j]
  BY <1>1
<1>3. b \in Seq(T) /\ Len(b) = Len(s) - k /\ \A j \in 1..Len(s) - k : b[j] = s[k + j]
  BY <1>1
<1>4. r = a \o b
  BY DEF RemoveAt
<1> HIDE DEF a, b
<1>5. r \in Seq(T) /\ Len(r) = Len(s) - 1
  BY <1>1, <1>2, <1>3, <1>4
<1>6. ASSUME NEW j \in 1..Len(r), j < k PROVE r[j] = s[j]
  BY <1>6, <1>1, <1>2, <1>3, <1>4, <1>5
<1>7. ASSUME NEW j \in 1..Len(r), ~(j < k) PROVE r[j] = s[j + 1]
  <2>1. j - (k - 1) \in 1..Len(s) - k /\ j > Len(a) /\ j <= Len(a) + Len(b)
    BY <1>7, <1>1, <1>2, <1>3, <1>5
  <2>2. r[j] = b[j - Len(a)]
    <3>1. Len(r) = Len(a) + Len(b) /\ Len(a) \in Nat /\ Len(b) \in Nat
      BY <1>1, <1>2, <1>3, <1>5
    <3>2. j \in 1..Len(a) + Len(b) /\ ~(j <= Len(a))
      BY <3>1, <2>1
    <3> QED BY <3>2, <1>2, <1>3, <1>4
  <2>3. b[j - (k - 1)] = s[k + (j - (k - 1))]
    BY <2>1, <1>3
  <2>4. k + (j - (k - 1)) = j + 1
    BY <1>1
  <2> QED BY <2>2, <2>3, <2>4, <1>2
<1> QED BY <1>5, <1>6, <1>7

LEMMA Appended ==
  ASSUME NEW T, NEW s \in Seq(T), NEW e \in T, NEW r, r = Append(s, e)
  PROVE  /\ r \in Seq(T) /\ Len(r) = Len(s) + 1 /\ r # <<>>
         /\ \A j \in 1..Len(s) : r[j] = s[j]
         /\ r[Len(s) + 1] = e
OBVIOUS

LEMMA ChangedAt ==
  ASSUME NEW T, NEW s \in Seq(T), NEW k \in 1..Len(s), NEW v \in T, NEW r, r = [s EXCEPT ![k] = v]
  PROVE  /\ r \in Seq(T) /\ Len(r) = Len(s)
         /\ \A j \in 1..Len(s) : r[j] = IF j = k THEN v ELSE s[j]
OBVIOUS

LEMMA ListMaxNat == ListMax \in Nat
BY Constants

(* ---- a directory: its list and its table ---- *)

Distinct(s) == \A j, k \in 1..Len(s) : s[j].name = s[k].name => j = k
Chains(s, h) == \A b \in 1..Len(h) : h[b] = {e \in ToSet(s) : Bucket(Len(h), e.name) = b}

\* List s and table h are of one directory; a table is larger than ListMax, so
\* one that has become too small is made anew.
DentsOK(s, h) ==
  /\ Distinct(s) /\ Chains(s, h)
  /\ h = <<>> => Len(s) <= ListMax
  /\ h # <<>> => Len(h) > ListMax

LEMMA Bucketed ==
  ASSUME NEW size \in Nat, size > 0, NEW n \in Names
  PROVE  Bucket(size, n) \in 1..size
<1>1. Hash[n] \in Nat
  BY Constants
<1> DEFINE h == Hash[n]
<1> HIDE DEF h
<1>2. h \in Nat => h % size \in 0..size - 1
  OBVIOUS
<1>3. h % size \in 0..size - 1
  BY <1>1, <1>2 DEF h
<1> QED BY <1>3 DEF Bucket, h

LEMMA SetOf ==
  ASSUME NEW s \in Seq(Entry)
  PROVE  /\ \A e : e \in ToSet(s) <=> \E k \in 1..Len(s) : e = s[k]
         /\ \A e \in ToSet(s) : e \in Entry /\ e.name \in Names /\ e.ino \in Inodes /\ e = [name |-> e.name, ino |-> e.ino]
         /\ \A k \in 1..Len(s) : s[k] \in ToSet(s)
<1>2. DOMAIN s = 1..Len(s) /\ Len(s) \in Nat /\ \A k \in 1..Len(s) : s[k] \in Entry
  OBVIOUS
<1>3. \A e : e \in ToSet(s) <=> \E k \in 1..Len(s) : e = s[k]
  BY <1>2 DEF ToSet
<1>4. \A e \in ToSet(s) : e \in Entry
  BY <1>2, <1>3
<1>5. \A e \in Entry : e.name \in Names /\ e.ino \in Inodes /\ e = [name |-> e.name, ino |-> e.ino]
  BY DEF Entry
<1> QED BY <1>3, <1>4, <1>5

\* No two entries have one name.
LEMMA OneEntry ==
  ASSUME NEW s \in Seq(Entry), Distinct(s)
  PROVE  \A e, f \in ToSet(s) : e.name = f.name => e = f
<1> SUFFICES ASSUME NEW e \in ToSet(s), NEW f \in ToSet(s), e.name = f.name PROVE e = f
  OBVIOUS
<1>1. PICK j \in 1..Len(s) : e = s[j]
  BY SetOf
<1>2. PICK k \in 1..Len(s) : f = s[k]
  BY SetOf
<1>3. j = k
  BY <1>1, <1>2 DEF Distinct
<1> QED BY <1>1, <1>2, <1>3

Has(I, d, n, i) == [name |-> n, ino |-> i] \in Entries(I, d)
DirOK(I, d) ==
  /\ I[d].kind # "dir" => I[d].dents = <<>> /\ I[d].htab = <<>>
  /\ DentsOK(I[d].dents, I[d].htab)

LEMMA HasIs ==
  ASSUME NEW I \in Table, NEW d \in Inodes
  PROVE  /\ \A n, i : Has(I, d, n, i) => n \in Names /\ i \in Inodes
         /\ \A e : e \in Entries(I, d) <=> \E n \in Names, i \in Inodes : Has(I, d, n, i) /\ e = [name |-> n, ino |-> i]
         /\ \A n : n \in NamesIn(I, d) <=> \E i \in Inodes : Has(I, d, n, i)
<1>1. \A e \in Entries(I, d) : e.name \in Names /\ e.ino \in Inodes /\ e = [name |-> e.name, ino |-> e.ino]
  BY EntriesAre
<1>2. \A n, i : Has(I, d, n, i) => n \in Names /\ i \in Inodes
  <2> SUFFICES ASSUME NEW n, NEW i, Has(I, d, n, i) PROVE n \in Names /\ i \in Inodes
    OBVIOUS
  <2> DEFINE e == [name |-> n, ino |-> i]
  <2>1. e \in Entries(I, d) /\ e.name = n /\ e.ino = i
    BY DEF Has
  <2> HIDE DEF e
  <2> QED BY <2>1, <1>1
<1>3. ASSUME NEW e PROVE e \in Entries(I, d) <=> \E n \in Names, i \in Inodes : Has(I, d, n, i) /\ e = [name |-> n, ino |-> i]
  BY <1>1 DEF Has
<1>4. ASSUME NEW n PROVE n \in NamesIn(I, d) <=> \E i \in Inodes : Has(I, d, n, i)
  <2>1. ASSUME n \in NamesIn(I, d) PROVE \E i \in Inodes : Has(I, d, n, i)
    <3>1. PICK e \in Entries(I, d) : n = e.name
      BY <2>1 DEF NamesIn
    <3> QED BY <3>1, <1>1 DEF Has
  <2>2. ASSUME NEW i \in Inodes, Has(I, d, n, i) PROVE n \in NamesIn(I, d)
    <3>1. [name |-> n, ino |-> i].name = n
      OBVIOUS
    <3> QED BY <3>1, <2>2 DEF NamesIn, Has
  <2> QED BY <2>1, <2>2
<1> QED BY <1>2, <1>3, <1>4

LEMMA HasOnce ==
  ASSUME NEW I \in Table, NEW d \in Inodes, DirOK(I, d), NEW n, NEW i, NEW j, Has(I, d, n, i), Has(I, d, n, j)
  PROVE  i = j
<1> DEFINE e == [name |-> n, ino |-> i]
           f == [name |-> n, ino |-> j]
<1>1. e \in Entries(I, d) /\ f \in Entries(I, d) /\ e.name = f.name /\ e.ino = i /\ f.ino = j
  BY DEF Has
<1>2. I[d].dents \in Seq(Entry) /\ Distinct(I[d].dents)
  BY TableFields DEF DirOK, DentsOK
<1> HIDE DEF e, f
<1>3. e = f
  BY <1>1, <1>2, OneEntry DEF Entries
<1> QED BY <1>1, <1>3

LEMMA LookupIs ==
  ASSUME NEW I \in Table, NEW d \in Inodes, DirOK(I, d), NEW n \in Names
  PROVE  /\ DirLookup(I, d, n) \in Inodes \cup {None}
         /\ \A i \in Inodes : DirLookup(I, d, n) = i <=> Has(I, d, n, i)
         /\ DirLookup(I, d, n) = None <=> n \notin NamesIn(I, d)
<1> DEFINE h == I[d].htab
           chain == IF h = <<>> THEN Entries(I, d) ELSE h[Bucket(Len(h), n)]
           found == {e \in chain : e.name = n}
           named == {e \in Entries(I, d) : e.name = n}
<1>1. h \in Seq(SUBSET Entry) /\ Len(h) \in Nat /\ (h # <<>> => Len(h) > 0)
  BY TableFields
<1>2. found = named
  <2>1. CASE h = <<>>
    BY <2>1
  <2>2. CASE h # <<>>
    <3>1. Bucket(Len(h), n) \in 1..Len(h)
      BY <2>2, <1>1, Bucketed
    <3>2. h[Bucket(Len(h), n)] = {e \in Entries(I, d) : Bucket(Len(h), e.name) = Bucket(Len(h), n)}
      BY <3>1 DEF DirOK, DentsOK, Chains, Entries
    <3> QED BY <3>2, <2>2
  <2> QED BY <2>1, <2>2
<1>3. DirLookup(I, d, n) = IF found = {} THEN None ELSE (CHOOSE e \in found : TRUE).ino
  BY DEF DirLookup
<1>4. \A e \in Entries(I, d) : e \in Entry /\ e.name \in Names /\ e.ino \in Inodes /\ e = [name |-> e.name, ino |-> e.ino]
  BY EntriesAre
<1> HIDE DEF found
<1>5. CASE found = {}
  <2>1. DirLookup(I, d, n) = None
    BY <1>3, <1>5
  <2>2. n \notin NamesIn(I, d)
    BY <1>2, <1>5 DEF NamesIn
  <2>3. \A i \in Inodes : ~Has(I, d, n, i)
    BY <2>2, HasIs
  <2> QED BY <2>1, <2>2, <2>3, Constants
<1>6. CASE found # {}
  <2> DEFINE e == CHOOSE x \in found : TRUE
  <2>1. e \in found
    BY <1>6
  <2>2. DirLookup(I, d, n) = e.ino
    BY <1>3, <1>6
  <2> HIDE DEF e
  <2>3. e \in Entries(I, d) /\ e.name = n /\ e.ino \in Inodes /\ e = [name |-> n, ino |-> e.ino]
    BY <2>1, <1>2, <1>4
  <2>4. Has(I, d, n, e.ino)
    BY <2>3 DEF Has
  <2>5. n \in NamesIn(I, d)
    BY <2>4, <2>3, HasIs
  <2>6. \A i \in Inodes : Has(I, d, n, i) => i = e.ino
    BY <2>4, HasOnce
  <2> QED BY <2>2, <2>3, <2>4, <2>5, <2>6, Constants
<1> QED BY <1>5, <1>6

\* The size of a new table.
SizeSteps(n, size) ==
  size = [k \in Nat |-> IF k = 0 THEN HashMin
                        ELSE IF size[k - 1] < 2 * n THEN 2 * size[k - 1] ELSE size[k - 1]]

LEMMA TableSizeIs ==
  ASSUME NEW n \in Nat
  PROVE  TableSize(n) \in Nat /\ TableSize(n) > n
<1> DEFINE st == [x \in Nat \X Nat |-> IF x[2] < 2 * n THEN 2 * x[2] ELSE x[2]]
<1>1. st \in [Nat \X Nat -> Nat]
  OBVIOUS
<1>2. PICK g \in [Nat -> Nat] : Iterates(g, HashMin, st)
  <2> HIDE DEF st
  <2> QED BY <1>1, Recursion, Constants
<1>3. \A m \in Nat : st[<<m + 1, g[m]>>] = IF g[m] < 2 * n THEN 2 * g[m] ELSE g[m]
  OBVIOUS
<1>4. SizeSteps(n, g)
  <2>1. ASSUME NEW k \in Nat PROVE g[k] = IF k = 0 THEN HashMin ELSE IF g[k - 1] < 2 * n THEN 2 * g[k - 1] ELSE g[k - 1]
    <3>1. CASE k = 0
      BY <3>1, <1>2 DEF Iterates
    <3>2. CASE k # 0
      <4>1. k - 1 \in Nat /\ (k - 1) + 1 = k
        BY <3>2
      <4>2. g[(k - 1) + 1] = st[<<(k - 1) + 1, g[k - 1]>>]
        BY <4>1, <1>2 DEF Iterates
      <4> QED BY <4>1, <4>2, <1>3, <3>2
    <3> QED BY <3>1, <3>2
  <2> QED BY <2>1 DEF SizeSteps
<1> DEFINE s == CHOOSE size : SizeSteps(n, size)
<1>5. SizeSteps(n, s)
  BY <1>4
<1>6. TableSize(n) = s[n]
  BY DEF TableSize, SizeSteps
<1> HIDE DEF s, st
<1>7. s[0] = HashMin /\ \A k \in Nat : s[k + 1] = IF s[k] < 2 * n THEN 2 * s[k] ELSE s[k]
  <2>1. s[0] = HashMin
    BY <1>5 DEF SizeSteps
  <2>2. ASSUME NEW k \in Nat PROVE s[k + 1] = IF s[k] < 2 * n THEN 2 * s[k] ELSE s[k]
    <3>1. k + 1 \in Nat /\ k + 1 # 0 /\ (k + 1) - 1 = k
      OBVIOUS
    <3> QED BY <3>1, <1>5 DEF SizeSteps
  <2> QED BY <2>1, <2>2
<1> DEFINE T == {k \in Nat : s[k] \in Nat /\ s[k] > 0 /\ (s[k] >= 2 * n \/ s[k] >= k + 1)}
<1>8. 0 \in T
  <2>1. s[0] = HashMin
    BY <1>7
  <2>2. HashMin \in Nat /\ HashMin > 0
    BY Constants
  <2>3. s[0] >= 0 + 1
    BY <2>1, <2>2
  <2> QED BY <2>1, <2>2, <2>3
<1>9. ASSUME NEW k \in T PROVE k + 1 \in T
  BY <1>7
<1>10. T \in SUBSET Nat
  OBVIOUS
<1> HIDE DEF T
<1>11. n \in T
  BY <1>8, <1>9, <1>10, AllNat
<1>12. s[n] \in Nat /\ s[n] > n
  BY <1>11 DEF T
<1> QED BY <1>6, <1>12

LEMMA RehashOK ==
  ASSUME NEW s \in Seq(Entry), Distinct(s), Len(s) > ListMax
  PROVE  Rehash(s) \in Seq(SUBSET Entry) /\ DentsOK(s, Rehash(s))
<1> DEFINE size == TableSize(Len(s))
           h == [b \in 1..size |-> {e \in ToSet(s) : Bucket(size, e.name) = b}]
<1>1. size \in Nat /\ size > Len(s)
  BY TableSizeIs
<1>2. Rehash(s) = h
  BY DEF Rehash
<1> HIDE DEF size
<1>3. \A e \in ToSet(s) : e \in Entry
  BY SetOf
<1>4. \A b \in 1..size : h[b] \in SUBSET Entry
  BY <1>3
<1>5. h \in Seq(SUBSET Entry) /\ Len(h) = size
  <2>1. h \in [1..size -> SUBSET Entry]
    BY <1>4
  <2> HIDE DEF h
  <2> QED BY <2>1, <1>1
<1>6. Chains(s, h)
  <2>1. \A b \in 1..size : h[b] = {e \in ToSet(s) : Bucket(size, e.name) = b}
    OBVIOUS
  <2> HIDE DEF h
  <2> QED BY <2>1, <1>5 DEF Chains
<1> HIDE DEF h
<1>7. ListMax \in Nat /\ Len(s) \in Nat
  BY ListMaxNat
<1>8. h # <<>> /\ Len(h) > ListMax
  BY <1>1, <1>5, <1>7
<1> QED BY <1>2, <1>5, <1>6, <1>8 DEF DentsOK

LEMMA AppendSet ==
  ASSUME NEW s \in Seq(Entry), NEW e \in Entry
  PROVE  /\ Append(s, e) \in Seq(Entry)
         /\ ToSet(Append(s, e)) = ToSet(s) \cup {e}
         /\ Distinct(s) /\ (\A f \in ToSet(s) : f.name # e.name) => Distinct(Append(s, e))
<1> DEFINE r == Append(s, e)
<1>1. /\ r \in Seq(Entry) /\ Len(r) = Len(s) + 1 /\ Len(s) \in Nat
      /\ \A j \in 1..Len(s) : r[j] = s[j]
      /\ r[Len(s) + 1] = e
  BY Appended
<1> HIDE DEF r
<1>2. ToSet(r) = ToSet(s) \cup {e}
  <2>1. \A k \in 1..Len(r) : k \in 1..Len(s) \/ k = Len(s) + 1
    BY <1>1
  <2>2. \A k \in 1..Len(s) : k \in 1..Len(r)
    BY <1>1
  <2>3. Len(s) + 1 \in 1..Len(r)
    BY <1>1
  <2>4. ASSUME NEW f \in ToSet(r) PROVE f \in ToSet(s) \cup {e}
    <3>1. PICK k \in 1..Len(r) : f = r[k]
      BY <1>1, SetOf
    <3> QED BY <3>1, <2>1, <1>1, SetOf
  <2>5. ASSUME NEW f \in ToSet(s) PROVE f \in ToSet(r)
    <3>1. PICK k \in 1..Len(s) : f = s[k]
      BY SetOf
    <3>2. f = r[k] /\ k \in 1..Len(r)
      BY <3>1, <2>2, <1>1
    <3> QED BY <3>2, <1>1, SetOf
  <2>6. e \in ToSet(r)
    BY <2>3, <1>1, SetOf
  <2> QED BY <2>4, <2>5, <2>6
<1>3. ASSUME Distinct(s), \A f \in ToSet(s) : f.name # e.name PROVE Distinct(r)
  <2> SUFFICES ASSUME NEW j \in 1..Len(r), NEW k \in 1..Len(r), r[j].name = r[k].name PROVE j = k
    BY DEF Distinct
  <2>1. \A l \in 1..Len(s) : s[l].name # e.name
    BY <1>3, SetOf
  <2>2. (j \in 1..Len(s) \/ j = Len(s) + 1) /\ (k \in 1..Len(s) \/ k = Len(s) + 1)
    BY <1>1
  <2>3. CASE j \in 1..Len(s) /\ k \in 1..Len(s)
    BY <2>3, <1>1, <1>3 DEF Distinct
  <2>4. CASE j = Len(s) + 1 /\ k = Len(s) + 1
    BY <2>4
  <2>5. CASE j \in 1..Len(s) /\ k = Len(s) + 1
    BY <2>5, <2>1, <1>1
  <2>6. CASE j = Len(s) + 1 /\ k \in 1..Len(s)
    BY <2>6, <2>1, <1>1
  <2> QED BY <2>2, <2>3, <2>4, <2>5, <2>6
<1> QED BY <1>1, <1>2, <1>3 DEF r

LEMMA RemovedSet ==
  ASSUME NEW s \in Seq(Entry), Distinct(s), NEW k \in 1..Len(s)
  PROVE  /\ RemoveAt(s, k) \in Seq(Entry)
         /\ ToSet(RemoveAt(s, k)) = ToSet(s) \ {s[k]}
         /\ Distinct(RemoveAt(s, k)) /\ Len(RemoveAt(s, k)) = Len(s) - 1
<1> DEFINE r == RemoveAt(s, k)
<1>1. /\ r \in Seq(Entry) /\ Len(r) = Len(s) - 1 /\ Len(s) \in Nat /\ Len(r) \in Nat
      /\ \A j \in 1..Len(r) : r[j] = IF j < k THEN s[j] ELSE s[j + 1]
  BY RemovedAt
<1> HIDE DEF r
<1> DEFINE at(j) == IF j < k THEN j ELSE j + 1
<1>2. \A j \in 1..Len(r) : at(j) \in 1..Len(s) /\ at(j) # k /\ r[j] = s[at(j)]
  BY <1>1
<1>3. \A i, j \in 1..Len(r) : at(i) = at(j) => i = j
  BY <1>1
<1>4. \A l \in 1..Len(s) : l # k => \E j \in 1..Len(r) : at(j) = l
  <2> SUFFICES ASSUME NEW l \in 1..Len(s), l # k PROVE \E j \in 1..Len(r) : at(j) = l
    OBVIOUS
  <2>1. CASE l < k
    <3>1. l \in 1..Len(r) /\ at(l) = l
      BY <2>1, <1>1
    <3> QED BY <3>1
  <2>2. CASE ~(l < k)
    <3>1. l - 1 \in 1..Len(r) /\ at(l - 1) = l
      BY <2>2, <1>1
    <3> QED BY <3>1
  <2> QED BY <2>1, <2>2
<1> HIDE DEF at
<1>5. \A l \in 1..Len(s) : l # k => s[l] # s[k]
  BY DEF Distinct
<1>6. ToSet(r) = ToSet(s) \ {s[k]}
  <2>1. ASSUME NEW f \in ToSet(r) PROVE f \in ToSet(s) \ {s[k]}
    <3>1. PICK j \in 1..Len(r) : f = r[j]
      BY <1>1, SetOf
    <3>2. f = s[at(j)] /\ at(j) \in 1..Len(s) /\ at(j) # k
      BY <3>1, <1>2
    <3> QED BY <3>2, <1>5, SetOf
  <2>2. ASSUME NEW f \in ToSet(s), f # s[k] PROVE f \in ToSet(r)
    <3>1. PICK l \in 1..Len(s) : f = s[l]
      BY SetOf
    <3>2. PICK j \in 1..Len(r) : at(j) = l
      BY <3>1, <2>2, <1>4
    <3>3. r[j] = f
      BY <3>1, <3>2, <1>2
    <3> QED BY <3>3, <1>1, SetOf
  <2> QED BY <2>1, <2>2
<1>7. Distinct(r)
  <2> SUFFICES ASSUME NEW i \in 1..Len(r), NEW j \in 1..Len(r), r[i].name = r[j].name PROVE i = j
    BY DEF Distinct
  <2>1. at(i) = at(j)
    BY <1>2 DEF Distinct
  <2> QED BY <2>1, <1>3
<1> QED BY <1>1, <1>6, <1>7 DEF r

NewTable(s, h, e) ==
  LET t == Append(s, e)
  IN  IF h # <<>> /\ Len(t) <= Len(h) THEN [h EXCEPT ![Bucket(Len(h), e.name)] = @ \cup {e}]
      ELSE IF Len(t) > ListMax THEN Rehash(t) ELSE h

LEMMA AddOK ==
  ASSUME NEW s \in Seq(Entry), NEW h \in Seq(SUBSET Entry), DentsOK(s, h), NEW e \in Entry,
         \A f \in ToSet(s) : f.name # e.name
  PROVE  NewTable(s, h, e) \in Seq(SUBSET Entry) /\ DentsOK(Append(s, e), NewTable(s, h, e))
<1> DEFINE t == Append(s, e)
<1>1. t \in Seq(Entry) /\ ToSet(t) = ToSet(s) \cup {e} /\ Distinct(t)
  BY AppendSet DEF DentsOK
<1>2. Len(t) \in Nat /\ Len(h) \in Nat /\ ListMax \in Nat
  BY <1>1, ListMaxNat
<1>0. NewTable(s, h, e) = IF h # <<>> /\ Len(t) <= Len(h) THEN [h EXCEPT ![Bucket(Len(h), e.name)] = @ \cup {e}]
      ELSE IF Len(t) > ListMax THEN Rehash(t) ELSE h
  BY DEF NewTable
<1> HIDE DEF t
<1>3. CASE h # <<>> /\ Len(t) <= Len(h)
  <2> DEFINE x == Bucket(Len(h), e.name)
             v == h[x] \cup {e}
             g == [h EXCEPT ![x] = @ \cup {e}]
  <2>1. x \in 1..Len(h)
    <3>1. e.name \in Names
      BY DEF Entry
    <3>2. Len(h) > 0
      BY <1>3, <1>2
    <3> QED BY <3>1, <3>2, <1>2, Bucketed
  <2>2. NewTable(s, h, e) = g
    BY <1>0, <1>3
  <2>3. e.name \in Names /\ x = Bucket(Len(h), e.name)
    BY DEF Entry
  <2> HIDE DEF x
  <2>4. \A b \in 1..Len(h) : h[b] \in SUBSET Entry
    OBVIOUS
  <2>5. g \in Seq(SUBSET Entry) /\ Len(g) = Len(h) /\ \A b \in 1..Len(h) : g[b] = IF b = x THEN h[b] \cup {e} ELSE h[b]
    <3>1. v \in SUBSET Entry
      BY <2>1, <2>4
    <3>2. g = [h EXCEPT ![x] = v]
      OBVIOUS
    <3>3. v = h[x] \cup {e}
      OBVIOUS
    <3> HIDE DEF v, g
    <3>4. g \in Seq(SUBSET Entry) /\ Len(g) = Len(h) /\ \A b \in 1..Len(h) : g[b] = IF b = x THEN v ELSE h[b]
      BY <3>1, <3>2, <2>1, ChangedAt
    <3> QED BY <3>3, <3>4
  <2> HIDE DEF g
  <2>6. Chains(t, g)
    <3> SUFFICES ASSUME NEW b \in 1..Len(h) PROVE g[b] = {f \in ToSet(t) : Bucket(Len(h), f.name) = b}
      BY <2>5 DEF Chains
    <3>1. h[b] = {f \in ToSet(s) : Bucket(Len(h), f.name) = b}
      BY DEF DentsOK, Chains
    <3>2. CASE b = x
      BY <3>1, <3>2, <2>3, <2>5, <1>1
    <3>3. CASE b # x
      BY <3>1, <3>3, <2>3, <2>5, <1>1
    <3> QED BY <3>2, <3>3
  <2>7. g # <<>> /\ Len(g) > ListMax
    BY <2>5, <1>3, <1>2 DEF DentsOK
  <2> QED BY <2>2, <2>5, <2>6, <2>7, <1>1 DEF DentsOK, t
<1>4. CASE ~(h # <<>> /\ Len(t) <= Len(h)) /\ Len(t) > ListMax
  <2>1. NewTable(s, h, e) = Rehash(t)
    BY <1>0, <1>4
  <2> QED BY <2>1, <1>1, <1>4, RehashOK DEF t
<1>5. CASE ~(h # <<>> /\ Len(t) <= Len(h)) /\ ~(Len(t) > ListMax)
  <2>1. NewTable(s, h, e) = h
    BY <1>0, <1>5
  <2>2. h = <<>>
    BY <1>5, <1>2 DEF DentsOK
  <2>3. Len(h) = 0
    BY <2>2
  <2>4. Chains(t, h)
    BY <2>3 DEF Chains
  <2> QED BY <2>1, <2>2, <2>4, <1>1, <1>2, <1>5 DEF DentsOK, t
<1> QED BY <1>3, <1>4, <1>5

OldTable(h, e) == IF h = <<>> THEN h ELSE [h EXCEPT ![Bucket(Len(h), e.name)] = @ \ {e}]

LEMMA RemoveOK ==
  ASSUME NEW s \in Seq(Entry), NEW h \in Seq(SUBSET Entry), DentsOK(s, h), NEW k \in 1..Len(s)
  PROVE  OldTable(h, s[k]) \in Seq(SUBSET Entry) /\ DentsOK(RemoveAt(s, k), OldTable(h, s[k]))
<1> DEFINE t == RemoveAt(s, k)
           e == s[k]
<1>1. t \in Seq(Entry) /\ ToSet(t) = ToSet(s) \ {e} /\ Distinct(t) /\ Len(t) = Len(s) - 1
  BY RemovedSet DEF DentsOK
<1>2. Len(t) \in Nat /\ Len(h) \in Nat /\ ListMax \in Nat /\ Len(s) \in Nat
  BY <1>1, ListMaxNat
<1>3. e \in Entry /\ e.name \in Names
  <2>1. e \in ToSet(s)
    BY SetOf
  <2> QED BY <2>1, SetOf
<1> HIDE DEF t, e
<1>4. CASE h = <<>>
  <2>1. OldTable(h, e) = h
    BY <1>4 DEF OldTable
  <2>2. Len(h) = 0
    BY <1>4
  <2>3. Chains(t, h)
    BY <2>2 DEF Chains
  <2>4. Len(t) <= ListMax
    BY <1>4, <1>1, <1>2 DEF DentsOK
  <2> QED BY <2>1, <2>3, <2>4, <1>1, <1>4 DEF DentsOK, t, e
<1>5. CASE h # <<>>
  <2> DEFINE x == Bucket(Len(h), e.name)
             v == h[x] \ {e}
             g == [h EXCEPT ![x] = @ \ {e}]
  <2>1. x \in 1..Len(h)
    <3>1. Len(h) > 0
      BY <1>5, <1>2
    <3> QED BY <3>1, <1>2, <1>3, Bucketed
  <2>2. OldTable(h, e) = g
    BY <1>5 DEF OldTable
  <2>3. x = Bucket(Len(h), e.name)
    OBVIOUS
  <2> HIDE DEF x
  <2>4. \A b \in 1..Len(h) : h[b] \in SUBSET Entry
    OBVIOUS
  <2>5. g \in Seq(SUBSET Entry) /\ Len(g) = Len(h) /\ \A b \in 1..Len(h) : g[b] = IF b = x THEN h[b] \ {e} ELSE h[b]
    <3>1. v \in SUBSET Entry
      BY <2>1, <2>4
    <3>2. g = [h EXCEPT ![x] = v]
      OBVIOUS
    <3>3. v = h[x] \ {e}
      OBVIOUS
    <3> HIDE DEF v, g
    <3>4. g \in Seq(SUBSET Entry) /\ Len(g) = Len(h) /\ \A b \in 1..Len(h) : g[b] = IF b = x THEN v ELSE h[b]
      BY <3>1, <3>2, <2>1, ChangedAt
    <3> QED BY <3>3, <3>4
  <2> HIDE DEF g
  <2>6. Chains(t, g)
    <3> SUFFICES ASSUME NEW b \in 1..Len(h) PROVE g[b] = {f \in ToSet(t) : Bucket(Len(h), f.name) = b}
      BY <2>5 DEF Chains
    <3>1. h[b] = {f \in ToSet(s) : Bucket(Len(h), f.name) = b}
      BY DEF DentsOK, Chains
    <3>2. CASE b = x
      BY <3>1, <3>2, <2>3, <2>5, <1>1
    <3>3. CASE b # x
      BY <3>1, <3>3, <2>3, <2>5, <1>1
    <3> QED BY <3>2, <3>3
  <2>7. g # <<>> /\ Len(g) > ListMax
    BY <2>5, <1>5, <1>2 DEF DentsOK
  <2> QED BY <2>2, <2>5, <2>6, <2>7, <1>1 DEF DentsOK, t, e
<1> QED BY <1>4, <1>5 DEF e

LEMMA NoneOK == DentsOK(<<>>, <<>>)
<1>1. Len(<<>>) = 0 /\ ListMax \in Nat
  BY Constants
<1> QED BY <1>1 DEF DentsOK, Distinct, Chains

(* ---- the names of an inode ---- *)

Spots(I, i) == {x \in Inodes \X Names : Has(I, x[1], x[2], i)}
SpotsIn(I, i, d) == {x \in Spots(I, i) : x[1] = d}
SpotsOut(I, i, d) == {x \in Spots(I, i) : x[1] # d}

LEMMA SpotsAre ==
  ASSUME NEW I \in Table, NEW i \in Inodes
  PROVE  /\ \A d \in Inodes : \A n : <<d, n>> \in Spots(I, i) <=> Has(I, d, n, i)
         /\ \A x \in Spots(I, i) : x[1] \in Inodes /\ x[2] \in Names /\ x = <<x[1], x[2]>> /\ Has(I, x[1], x[2], i)
         /\ IsFiniteSet(Spots(I, i)) /\ Cardinality(Spots(I, i)) \in Nat
         /\ Cardinality(Spots(I, i)) = 0 <=> Spots(I, i) = {}
<1>1. ASSUME NEW d \in Inodes, NEW n PROVE <<d, n>> \in Spots(I, i) <=> Has(I, d, n, i)
  <2>1. Has(I, d, n, i) => n \in Names
    BY HasIs
  <2>2. <<d, n>>[1] = d /\ <<d, n>>[2] = n
    OBVIOUS
  <2>3. n \in Names => <<d, n>> \in Inodes \X Names
    OBVIOUS
  <2>4. <<d, n>> \in Inodes \X Names => n \in Names
    OBVIOUS
  <2> QED BY <2>1, <2>2, <2>3, <2>4 DEF Spots
<1>2. \A x \in Spots(I, i) : x[1] \in Inodes /\ x[2] \in Names /\ x = <<x[1], x[2]>> /\ Has(I, x[1], x[2], i)
  BY DEF Spots
<1>3. Spots(I, i) \in SUBSET (Inodes \X Names)
  BY DEF Spots
<1>4. IsFiniteSet(Inodes \X Names)
  BY Constants, FS_Product
<1>5. IsFiniteSet(Spots(I, i))
  BY <1>3, <1>4, FS_Subset
<1>6. Cardinality(Spots(I, i)) \in Nat /\ (Cardinality(Spots(I, i)) = 0 <=> Spots(I, i) = {})
  BY <1>5, FS_CardinalityType, FS_EmptySet
<1> QED BY <1>1, <1>2, <1>5, <1>6

LEMMA SpotsSplit ==
  ASSUME NEW I \in Table, NEW i \in Inodes, NEW d \in Inodes
  PROVE  /\ Cardinality({e \in Entries(I, d) : e.ino = i}) = Cardinality(SpotsIn(I, i, d))
         /\ Cardinality(SpotsIn(I, i, d)) \in Nat /\ Cardinality(SpotsOut(I, i, d)) \in Nat
         /\ Cardinality(Spots(I, i)) = Cardinality(SpotsIn(I, i, d)) + Cardinality(SpotsOut(I, i, d))
<1> DEFINE S == Spots(I, i)
           A == SpotsIn(I, i, d)
           B == SpotsOut(I, i, d)
<1>1. IsFiniteSet(S)
  BY SpotsAre
<1>2. A \in SUBSET S /\ B \in SUBSET S /\ A \cup B = S /\ A \cap B = {}
  BY DEF SpotsIn, SpotsOut
<1>3. IsFiniteSet(A) /\ IsFiniteSet(B)
  BY <1>1, <1>2, FS_Subset
<1> HIDE DEF A, B, S
<1>4. Cardinality(A) \in Nat /\ Cardinality(B) \in Nat
  BY <1>3, FS_CardinalityType
<1>5. Cardinality(A \cup B) = Cardinality(A) + Cardinality(B) - Cardinality(A \cap B)
  BY <1>3, FS_Union
<1>6. Cardinality(A \cap B) = 0
  BY <1>2, FS_EmptySet
<1>7. Cardinality(S) = Cardinality(A) + Cardinality(B)
  BY <1>2, <1>4, <1>5, <1>6
<1> DEFINE E == {e \in Entries(I, d) : e.ino = i}
           m == [e \in E |-> <<d, e.name>>]
<1>8. \A e \in E : e.name \in Names /\ e = [name |-> e.name, ino |-> i] /\ Has(I, d, e.name, i)
  BY EntriesAre DEF Has
<1>9. m \in [E -> A]
  <2>1. ASSUME NEW e \in E PROVE <<d, e.name>> \in A
    <3>1. <<d, e.name>> \in Spots(I, i) /\ <<d, e.name>>[1] = d
      BY <1>8, SpotsAre
    <3> QED BY <3>1 DEF A, SpotsIn
  <2> QED BY <2>1
<1>10. \A e, f \in E : m[e] = m[f] => e = f
  <2> SUFFICES ASSUME NEW e \in E, NEW f \in E, m[e] = m[f] PROVE e = f
    OBVIOUS
  <2>1. e.name = f.name
    OBVIOUS
  <2> QED BY <2>1, <1>8
<1>11. \A x \in A : \E e \in E : m[e] = x
  <2> SUFFICES ASSUME NEW x \in A PROVE \E e \in E : m[e] = x
    OBVIOUS
  <2>1. x \in Spots(I, i) /\ x[1] = d
    BY DEF A, SpotsIn
  <2>2. x = <<d, x[2]>> /\ Has(I, d, x[2], i)
    BY <2>1, SpotsAre
  <2> DEFINE e == [name |-> x[2], ino |-> i]
  <2>3. e \in E /\ e.name = x[2]
    BY <2>2 DEF Has
  <2>4. m[e] = <<d, x[2]>>
    BY <2>3
  <2> QED BY <2>2, <2>3, <2>4
<1> HIDE DEF E, m
<1>12. Cardinality(E) = Cardinality(A)
  BY <1>3, <1>9, <1>10, <1>11, OneToOneOnto
<1> QED BY <1>4, <1>7, <1>12 DEF A, B, S, E

(* ---- what a table of inodes is like ---- *)

NamedDirs(I) == {d \in Inodes : IsDir(I, d) /\ Spots(I, d) # {}}
FreeOK(I, i) == I[i].kind = "free" => I[i] = Free

\* A directory has one name, in its parent.
OneName(I, i) ==
  IsDir(I, i) => /\ \A x \in Spots(I, i) : I[i].parent = x[1]
                 /\ \A x, y \in Spots(I, i) : x = y
NoLoop(I) == \A S \in SUBSET NamedDirs(I) : S # {} => \E d \in S : I[d].parent \notin S

Shape(I) ==
  /\ I \in Table
  /\ \A i \in Inodes : DirOK(I, i) /\ FreeOK(I, i) /\ OneName(I, i)
  /\ Spots(I, Root) = {} /\ IsDir(I, Root) /\ NoLoop(I)

\* u[i] users hold inode i.
Counted(I, i, u) ==
  /\ I[i].refs = u[i]
  /\ I[i].nlink = (I[i].lost + Cardinality(Spots(I, i))) + One(i = Root)
\* It is there as long as it has names and users.
Lasts(I, i, u) == I[i].kind = "free" <=> (i # Root /\ u[i] = 0 /\ I[i].nlink = 0)

Base(I, u) == Shape(I) /\ u \in Uses /\ \A i \in Inodes : Counted(I, i, u)
Sound(I, u) == Base(I, u) /\ \A i \in Inodes : Lasts(I, i, u)
\* The same, but x may still have to go.
Loose(I, u, x) == Base(I, u) /\ I[x].kind # "free" /\ \A i \in Inodes \ {x} : Lasts(I, i, u)

\* What does not change unless the inode goes.
SameNode(I, J, i) ==
  /\ J[i].kind = I[i].kind /\ J[i].dents = I[i].dents /\ J[i].htab = I[i].htab
  /\ J[i].parent = I[i].parent /\ J[i].target = I[i].target
RemainsBut(I, J, x) ==
  /\ \A i \in Inodes : i # x => SameNode(I, J, i)
  /\ J[x].kind = "free" \/ SameNode(I, J, x)
Remains(I, J) == \A i \in Inodes : J[i].kind = "free" \/ SameNode(I, J, i)

LEMMA ShapeIs ==
  ASSUME NEW I, Shape(I)
  PROVE  /\ I \in Table
         /\ \A i \in Inodes : DirOK(I, i) /\ FreeOK(I, i) /\ OneName(I, i)
         /\ \A d \in Inodes : \A n, i : Has(I, d, n, i) => IsDir(I, d) /\ i \in Inodes /\ i # Root
<1>1. I \in Table
  BY DEF Shape
<1>2. \A i \in Inodes : DirOK(I, i) /\ FreeOK(I, i) /\ OneName(I, i)
  BY DEF Shape
<1>3. ASSUME NEW d \in Inodes, NEW n, NEW i, Has(I, d, n, i) PROVE IsDir(I, d) /\ i \in Inodes /\ i # Root
  <2>1. i \in Inodes
    BY <1>1, <1>3, HasIs
  <2>2. i # Root
    <3>1. <<d, n>> \in Spots(I, i)
      BY <1>1, <1>3, <2>1, SpotsAre
    <3> QED BY <3>1 DEF Shape
  <2>3. IsDir(I, d)
    <3>1. Entries(I, d) # {}
      BY <1>3 DEF Has
    <3>2. I[d].dents # <<>>
      BY <3>1, <1>1, EntriesAre
    <3> QED BY <3>2, <1>2 DEF DirOK, IsDir
  <2> QED BY <2>1, <2>2, <2>3
<1> QED BY <1>1, <1>2, <1>3

\* What has a name is there, and so is what has a user.
LEMMA SoundIs ==
  ASSUME NEW I, NEW u, Sound(I, u)
  PROVE  /\ I \in Table /\ Shape(I) /\ u \in Uses
         /\ \A d \in Inodes : \A n, i : Has(I, d, n, i) => IsDir(I, d) /\ i \in Inodes /\ i # Root /\ I[i].kind # "free"
         /\ \A i \in Inodes : u[i] > 0 => I[i].kind # "free"
         /\ IsDir(I, Root)
<1>1. I \in Table /\ Shape(I) /\ u \in Uses /\ IsDir(I, Root)
  BY DEF Sound, Base, Shape
<1>2. ASSUME NEW d \in Inodes, NEW n, NEW i, Has(I, d, n, i) PROVE IsDir(I, d) /\ i \in Inodes /\ i # Root /\ I[i].kind # "free"
  <2>1. IsDir(I, d) /\ i \in Inodes /\ i # Root
    BY <1>1, <1>2, ShapeIs
  <2>2. <<d, n>> \in Spots(I, i)
    BY <1>1, <1>2, <2>1, SpotsAre
  <2>3. Cardinality(Spots(I, i)) \in Nat /\ Cardinality(Spots(I, i)) # 0
    BY <1>1, <2>1, <2>2, SpotsAre
  <2>4. Counted(I, i, u) /\ Lasts(I, i, u)
    BY <2>1 DEF Sound, Base
  <2>5. I[i].lost \in Nat
    BY <1>1, <2>1, TableFields
  <2>6. I[i].nlink # 0
    BY <2>1, <2>3, <2>4, <2>5 DEF Counted, One
  <2> QED BY <2>1, <2>4, <2>6 DEF Lasts
<1>3. ASSUME NEW i \in Inodes, u[i] > 0 PROVE I[i].kind # "free"
  <2>1. u[i] # 0
    BY <1>3
  <2>2. Lasts(I, i, u)
    BY DEF Sound
  <2> QED BY <2>1, <2>2 DEF Lasts
<1> QED BY <1>1, <1>2, <1>3

(* ---- users come and go ---- *)

Plus(u, i) == [u EXCEPT ![i] = @ + 1]
Minus(u, i) == [u EXCEPT ![i] = @ - 1]

RefsAt(I, x, r) == [I EXCEPT ![x].refs = r]
UsersAt(u, x, r) == [u EXCEPT ![x] = r]
Set(u, v, x, r) == \A i \in Inodes : v[i] = IF i = x THEN r ELSE u[i]
AllSame(I, J) == \A i \in Inodes : SameNode(I, J, i) /\ J[i].nlink = I[i].nlink /\ J[i].lost = I[i].lost

LEMMA SameEntries ==
  ASSUME NEW I, NEW J, NEW d, J[d].dents = I[d].dents
  PROVE  Entries(J, d) = Entries(I, d) /\ \A n, i : Has(J, d, n, i) = Has(I, d, n, i)
BY DEF Entries, Has

LEMMA SameSpots ==
  ASSUME NEW I, NEW J, \A d \in Inodes : J[d].dents = I[d].dents
  PROVE  \A i : Spots(J, i) = Spots(I, i)
<1>1. \A d \in Inodes : \A n, i : Has(J, d, n, i) = Has(I, d, n, i)
  BY SameEntries
<1> SUFFICES ASSUME NEW i PROVE Spots(J, i) = Spots(I, i)
  OBVIOUS
<1>2. \A x \in Inodes \X Names : Has(J, x[1], x[2], i) = Has(I, x[1], x[2], i)
  BY <1>1
<1> QED BY <1>2 DEF Spots

\* Nodes whose names and parents have not changed have the same shape.
LEMMA SameShape ==
  ASSUME NEW I, Shape(I), NEW J \in Table, \A i \in Inodes : SameNode(I, J, i), \A i \in Inodes : FreeOK(J, i)
  PROVE  Shape(J) /\ \A i \in Inodes : Spots(J, i) = Spots(I, i)
<1>1. \A i : Spots(J, i) = Spots(I, i)
  BY SameSpots DEF SameNode
<1>2. \A i \in Inodes : IsDir(J, i) = IsDir(I, i) /\ J[i].parent = I[i].parent
  BY DEF SameNode, IsDir
<1>3. Root \in Inodes
  BY Constants
<1>4. NamedDirs(J) = NamedDirs(I)
  BY <1>1, <1>2 DEF NamedDirs
<1>5. ASSUME NEW i \in Inodes PROVE DirOK(J, i) /\ OneName(J, i)
  <2>1. DirOK(I, i) /\ OneName(I, i)
    BY DEF Shape
  <2>2. DirOK(J, i)
    BY <2>1 DEF DirOK, SameNode
  <2>3. OneName(J, i)
    BY <2>1, <1>1, <1>2 DEF OneName
  <2> QED BY <2>2, <2>3
<1>6. NoLoop(J)
  <2>1. NoLoop(I)
    BY DEF Shape
  <2>2. NamedDirs(J) \subseteq Inodes
    BY DEF NamedDirs
  <2>3. ASSUME NEW S \in SUBSET NamedDirs(J), S # {} PROVE \E d \in S : J[d].parent \notin S
    <3>1. PICK d \in S : I[d].parent \notin S
      BY <2>1, <2>3, <1>4 DEF NoLoop
    <3> QED BY <3>1, <1>2, <2>2
  <2> QED BY <2>3 DEF NoLoop
<1> QED BY <1>1, <1>2, <1>3, <1>5, <1>6 DEF Shape

LEMMA RefsChange ==
  ASSUME NEW I, NEW u, Base(I, u), NEW x \in Inodes, NEW r \in Nat, I[x].kind # "free",
         NEW J, J = RefsAt(I, x, r), NEW v, v = UsersAt(u, x, r)
  PROVE  Base(J, v) /\ AllSame(I, J) /\ Set(u, v, x, r)
<1>1. I \in Table /\ u \in Uses /\ Shape(I)
  BY DEF Base, Shape
<1>2. I[x] \in InodeRec
  BY <1>1, TableFields
<1>3. [I[x] EXCEPT !.refs = r] \in InodeRec
  <2>1. r \in Int
    OBVIOUS
  <2> QED BY <1>2, <2>1 DEF InodeRec
<1>0. J = [I EXCEPT ![x].refs = r] /\ v = [u EXCEPT ![x] = r]
  BY DEF RefsAt, UsersAt
<1>4. J \in Table
  BY <1>0, <1>1, <1>3 DEF Table
<1>5. \A i \in Inodes : i # x => J[i] = I[i]
  BY <1>0, <1>1 DEF Table
<1>6. J[x] = [I[x] EXCEPT !.refs = r]
  BY <1>0, <1>1 DEF Table
<1>7. /\ SameNode(I, J, x) /\ J[x].nlink = I[x].nlink /\ J[x].lost = I[x].lost
      /\ J[x].refs = r
  BY <1>6, <1>2 DEF InodeRec, SameNode
<1>8. \A i \in Inodes : SameNode(I, J, i) /\ J[i].nlink = I[i].nlink /\ J[i].lost = I[i].lost
  BY <1>5, <1>7 DEF SameNode
<1>9. v \in Uses /\ \A i \in Inodes : v[i] = IF i = x THEN r ELSE u[i]
  BY <1>0, <1>1 DEF Uses
<1>10. ASSUME NEW i \in Inodes PROVE FreeOK(J, i)
  <2>1. CASE i = x
    BY <2>1, <1>7 DEF FreeOK, SameNode
  <2>2. CASE i # x
    <3>1. FreeOK(I, i)
      BY <1>1 DEF Shape
    <3> QED BY <3>1, <2>2, <1>5 DEF FreeOK
  <2> QED BY <2>1, <2>2
<1>11. Shape(J) /\ \A i \in Inodes : Spots(J, i) = Spots(I, i)
  BY <1>1, <1>4, <1>8, <1>10, SameShape
<1>12. ASSUME NEW i \in Inodes PROVE Counted(J, i, v)
  <2>1. Counted(I, i, u)
    BY DEF Base
  <2>2. J[i].refs = v[i]
    BY <2>1, <1>5, <1>7, <1>9 DEF Counted
  <2>3. J[i].nlink = (J[i].lost + Cardinality(Spots(J, i))) + One(i = Root)
    BY <2>1, <1>8, <1>11 DEF Counted
  <2> QED BY <2>2, <2>3 DEF Counted
<1> QED BY <1>8, <1>9, <1>11, <1>12 DEF Base, AllSame, Set

LEMMA HoldSound ==
  ASSUME NEW I, NEW u, Sound(I, u), NEW x \in Inodes, I[x].kind # "free"
  PROVE  /\ Sound(Hold(I, x), Plus(u, x))
         /\ AllSame(I, Hold(I, x))
<1> DEFINE J == Hold(I, x)
           v == Plus(u, x)
           r == u[x] + 1
<1>1. Base(I, u) /\ \A i \in Inodes : Lasts(I, i, u)
  BY DEF Sound
<1>2. u[x] \in Nat /\ I[x].refs = u[x]
  BY <1>1 DEF Base, Uses, Counted
<1>3. r \in Nat
  BY <1>2
<1>4. J = RefsAt(I, x, r) /\ v = UsersAt(u, x, r)
  BY <1>2 DEF Hold, Plus, RefsAt, UsersAt
<1> HIDE DEF J, v, r
<1>5. Base(J, v) /\ AllSame(I, J) /\ Set(u, v, x, r)
  <2>1. Base(I, u) /\ r \in Nat /\ I[x].kind # "free"
    BY <1>1, <1>3
  <2> QED BY <2>1, <1>4, RefsChange
<1>6. ASSUME NEW i \in Inodes PROVE Lasts(J, i, v)
  <2>1. Lasts(I, i, u)
    BY <1>1
  <2>2. J[i].kind = I[i].kind /\ J[i].nlink = I[i].nlink
    BY <1>5 DEF SameNode, AllSame
  <2>3. CASE i = x
    <3>1. v[x] # 0
      BY <1>5, <1>2 DEF r, Set
    <3> QED BY <3>1, <2>2, <2>3 DEF Lasts
  <2>4. CASE i # x
    BY <2>1, <2>2, <2>4, <1>5 DEF Lasts, Set
  <2> QED BY <2>3, <2>4
<1>7. Sound(J, v)
  BY <1>5, <1>6 DEF Sound
<1> QED BY <1>5, <1>7 DEF J, v

(* ---- an inode that nobody needs goes ---- *)

LEMMA FreedIs ==
  ASSUME NEW I \in Table, NEW x \in Inodes, NEW J, J = InodeFree(I, x)
  PROVE  /\ J \in Table /\ J[x] = Free
         /\ \A i \in Inodes \ {x} :
              /\ SameNode(I, J, i) /\ J[i].nlink = I[i].nlink /\ J[i].refs = I[i].refs
              /\ J[i].lost = I[i].lost + Cardinality(SpotsIn(I, i, x))
<1> DEFINE c(i) == Cardinality({e \in Entries(I, x) : e.ino = i})
<1>1. ASSUME NEW i \in Inodes PROVE c(i) = Cardinality(SpotsIn(I, i, x)) /\ c(i) \in Nat
  BY SpotsSplit
<1>2. J = [i \in Inodes |-> IF i = x THEN Free ELSE [I[i] EXCEPT !.lost = @ + c(i)]]
  BY DEF InodeFree
<1> HIDE DEF c
<1>3. J[x] = Free
  BY <1>2
<1>4. ASSUME NEW i \in Inodes \ {x} PROVE /\ J[i] \in InodeRec
              /\ SameNode(I, J, i) /\ J[i].nlink = I[i].nlink /\ J[i].refs = I[i].refs
              /\ J[i].lost = I[i].lost + Cardinality(SpotsIn(I, i, x))
  <2>1. J[i] = [I[i] EXCEPT !.lost = @ + c(i)]
    BY <1>2
  <2>2. I[i] \in InodeRec /\ I[i].lost \in Nat
    BY TableFields
  <2>3. I[i].lost + c(i) \in Nat
    BY <2>2, <1>1
  <2>4. J[i] \in InodeRec
    BY <2>1, <2>2, <2>3 DEF InodeRec
  <2>5. SameNode(I, J, i)
    BY <2>1, <2>2 DEF InodeRec, SameNode
  <2>6. J[i].nlink = I[i].nlink /\ J[i].refs = I[i].refs /\ J[i].lost = I[i].lost + c(i)
    BY <2>1, <2>2 DEF InodeRec
  <2> QED BY <2>4, <2>5, <2>6, <1>1
<1>5. J \in Table
  <2>1. \A i \in Inodes : J[i] \in InodeRec
    BY <1>3, <1>4, FreeIs
  <2>2. J = [i \in Inodes |-> J[i]]
    BY <1>2
  <2> QED BY <2>1, <2>2 DEF Table
<1> QED BY <1>3, <1>4, <1>5

LEMMA FreedSound ==
  ASSUME NEW I, NEW u, NEW x \in Inodes, Loose(I, u, x), x # Root, I[x].nlink = 0, I[x].refs <= 0
  PROVE  Sound(InodeFree(I, x), u) /\ RemainsBut(I, InodeFree(I, x), x)
<1> DEFINE J == InodeFree(I, x)
<1>1. Base(I, u) /\ Shape(I) /\ I \in Table /\ u \in Uses
  BY DEF Loose, Base, Shape
<1>2. /\ J \in Table /\ J[x] = Free
      /\ \A i \in Inodes \ {x} :
              /\ SameNode(I, J, i) /\ J[i].nlink = I[i].nlink /\ J[i].refs = I[i].refs
              /\ J[i].lost = I[i].lost + Cardinality(SpotsIn(I, i, x))
  BY <1>1, FreedIs
<1> HIDE DEF J
<1>3. u[x] = 0 /\ Spots(I, x) = {}
  <2>1. u[x] \in Nat /\ Counted(I, x, u)
    BY <1>1 DEF Base, Uses
  <2>2. I[x].lost \in Nat /\ Cardinality(Spots(I, x)) \in Nat
    BY <1>1, TableFields, SpotsAre
  <2>3. u[x] = 0 /\ Cardinality(Spots(I, x)) = 0
    BY <2>1, <2>2 DEF Counted, One
  <2> QED BY <2>3, <1>1, SpotsAre
<1>4. \A d \in Inodes : \A n, i : Has(J, d, n, i) <=> (d # x /\ Has(I, d, n, i))
  <2>1. ASSUME NEW d \in Inodes, d # x PROVE \A n, i : Has(J, d, n, i) = Has(I, d, n, i)
    BY <2>1, <1>2, SameEntries DEF SameNode
  <2>2. \A n, i : ~Has(J, x, n, i)
    <3>1. J[x].dents = <<>>
      BY <1>2, FreeIs
    <3>2. Entries(J, x) = {}
      BY <3>1, <1>2, EntriesAre
    <3> QED BY <3>2 DEF Has
  <2> QED BY <2>1, <2>2
<1>5. \A i \in Inodes : Spots(J, i) = SpotsOut(I, i, x)
  <2> SUFFICES ASSUME NEW i \in Inodes PROVE Spots(J, i) = SpotsOut(I, i, x)
    OBVIOUS
  <2>1. \A y \in Inodes \X Names : Has(J, y[1], y[2], i) <=> (y[1] # x /\ Has(I, y[1], y[2], i))
    BY <1>4
  <2> QED BY <2>1 DEF Spots, SpotsOut
<1>6. \A i \in Inodes : Spots(J, i) \subseteq Spots(I, i)
  BY <1>5 DEF SpotsOut
<1>7. \A i \in Inodes : IsDir(J, i) => i # x /\ IsDir(I, i) /\ J[i].parent = I[i].parent
  BY <1>2, FreeIs DEF SameNode, IsDir
<1>8. ASSUME NEW i \in Inodes PROVE DirOK(J, i) /\ FreeOK(J, i) /\ OneName(J, i)
  <2>1. DirOK(I, i) /\ FreeOK(I, i) /\ OneName(I, i)
    BY <1>1 DEF Shape
  <2>2. CASE i = x
    <3>1. DirOK(J, i)
      BY <2>2, <1>2, FreeIs, NoneOK DEF DirOK
    <3>2. FreeOK(J, i) /\ ~IsDir(J, i)
      BY <2>2, <1>2, FreeIs DEF FreeOK, IsDir
    <3> QED BY <3>1, <3>2 DEF OneName
  <2>3. CASE i # x
    <3>1. SameNode(I, J, i)
      BY <2>3, <1>2
    <3>2. DirOK(J, i)
      BY <3>1, <2>1 DEF DirOK, SameNode
    <3>3. I[i].kind # "free"  \/ J[i] = Free
      <4> SUFFICES ASSUME I[i].kind = "free" PROVE J[i] = Free
        OBVIOUS
      <4>1. I[i] = Free
        BY <2>1 DEF FreeOK
      <4>2. Lasts(I, i, u) /\ Counted(I, i, u)
        BY <2>3, <1>1 DEF Loose, Base
      <4>3. I[i].nlink = 0 /\ i # Root
        BY <4>2 DEF Lasts
      <4>4. I[i].lost \in Nat /\ Cardinality(Spots(I, i)) \in Nat
        BY <1>1, TableFields, SpotsAre
      <4>5. Cardinality(Spots(I, i)) = 0
        BY <4>2, <4>3, <4>4 DEF Counted, One
      <4>6. Cardinality(SpotsIn(I, i, x)) = 0
        <5>1. Cardinality(SpotsIn(I, i, x)) \in Nat /\ Cardinality(SpotsOut(I, i, x)) \in Nat
              /\ Cardinality(Spots(I, i)) = Cardinality(SpotsIn(I, i, x)) + Cardinality(SpotsOut(I, i, x))
          BY <1>1, SpotsSplit
        <5> QED BY <5>1, <4>5
      <4>7. J[i].lost = I[i].lost /\ J[i].nlink = I[i].nlink /\ J[i].refs = I[i].refs
        BY <2>3, <1>2, <4>4, <4>6
      <4>8. J[i] \in InodeRec /\ I[i] \in InodeRec
        BY <1>1, <1>2, TableFields
      <4>9. J[i] = I[i]
        BY <4>7, <4>8, <3>1 DEF InodeRec, SameNode
      <4> QED BY <4>1, <4>9
    <3>4. FreeOK(J, i)
      BY <3>1, <3>3 DEF FreeOK, SameNode
    <3>5. OneName(J, i)
      BY <2>1, <1>6, <1>7 DEF OneName
    <3> QED BY <3>2, <3>4, <3>5
  <2> QED BY <2>2, <2>3
<1>9. NoLoop(J)
  <2>1. NamedDirs(J) \subseteq NamedDirs(I) /\ NamedDirs(J) \subseteq Inodes
    BY <1>6, <1>7 DEF NamedDirs
  <2>2. NoLoop(I)
    BY <1>1 DEF Shape
  <2>3. ASSUME NEW S \in SUBSET NamedDirs(J), S # {} PROVE \E d \in S : J[d].parent \notin S
    <3>1. PICK d \in S : I[d].parent \notin S
      BY <2>1, <2>2, <2>3 DEF NoLoop
    <3>2. d \in Inodes /\ IsDir(J, d)
      BY DEF NamedDirs
    <3> QED BY <3>1, <3>2, <1>7
  <2> QED BY <2>3 DEF NoLoop
<1>10. Spots(J, Root) = {} /\ IsDir(J, Root)
  <2>1. Root \in Inodes /\ Spots(I, Root) = {} /\ IsDir(I, Root)
    BY <1>1, Constants DEF Shape
  <2>2. SameNode(I, J, Root)
    BY <2>1, <1>2
  <2> QED BY <2>1, <2>2, <1>6 DEF SameNode, IsDir
<1>11. Shape(J)
  BY <1>2, <1>8, <1>9, <1>10 DEF Shape
<1>12. ASSUME NEW i \in Inodes PROVE Counted(J, i, u) /\ Lasts(J, i, u)
  <2>1. CASE i = x
    <3>1. Spots(J, x) = {} /\ J[x].refs = 0 /\ J[x].nlink = 0 /\ J[x].lost = 0 /\ J[x].kind = "free"
      BY <1>2, <1>3, <1>6, FreeIs
    <3>2. Cardinality(Spots(J, x)) = 0
      BY <3>1, FS_EmptySet
    <3> QED BY <2>1, <3>1, <3>2, <1>3 DEF Counted, Lasts, One
  <2>2. CASE i # x
    <3>1. Counted(I, i, u) /\ Lasts(I, i, u)
      BY <2>2, <1>1 DEF Base, Loose
    <3>2. J[i].kind = I[i].kind /\ J[i].nlink = I[i].nlink /\ J[i].refs = I[i].refs
              /\ J[i].lost = I[i].lost + Cardinality(SpotsIn(I, i, x))
      BY <2>2, <1>2 DEF SameNode
    <3>3. Cardinality(Spots(I, i)) = Cardinality(SpotsIn(I, i, x)) + Cardinality(SpotsOut(I, i, x))
      BY <1>1, SpotsSplit
    <3>4. Cardinality(SpotsIn(I, i, x)) \in Nat /\ Cardinality(SpotsOut(I, i, x)) \in Nat /\ I[i].lost \in Nat
      BY <1>1, SpotsSplit, TableFields
    <3>5. Cardinality(Spots(J, i)) = Cardinality(SpotsOut(I, i, x))
      BY <1>5
    <3>6. J[i].lost + Cardinality(Spots(J, i)) = I[i].lost + Cardinality(Spots(I, i))
      BY <3>2, <3>3, <3>4, <3>5
    <3>7. Counted(J, i, u)
      BY <3>1, <3>2, <3>6 DEF Counted
    <3>8. Lasts(J, i, u)
      BY <3>1, <3>2 DEF Lasts
    <3> QED BY <3>7, <3>8
  <2> QED BY <2>1, <2>2
<1>13. Sound(J, u)
  BY <1>1, <1>11, <1>12 DEF Sound, Base
<1>14. RemainsBut(I, J, x)
  <2>1. \A i \in Inodes : i # x => SameNode(I, J, i)
    BY <1>2
  <2>2. J[x].kind = "free"
    BY <1>2, FreeIs
  <2> QED BY <2>1, <2>2 DEF RemainsBut
<1> QED BY <1>13, <1>14 DEF J

\* Iput lets the inode go if and only if nobody needs it.
LEMMA IputSound ==
  ASSUME NEW I, NEW u, NEW x \in Inodes, Loose(I, u, x)
  PROVE  /\ Sound(Iput(I, x), u) /\ RemainsBut(I, Iput(I, x), x)
         /\ I[x].nlink # 0 \/ u[x] # 0 \/ x = Root => Iput(I, x) = I
<1>1. u[x] \in Nat /\ Counted(I, x, u)
  BY DEF Loose, Base, Uses
<1>2. CASE I[x].nlink = 0 /\ I[x].refs <= 0 /\ x # Root
  <2>1. Iput(I, x) = InodeFree(I, x)
    BY <1>2 DEF Iput
  <2>2. u[x] = 0
    BY <1>1, <1>2 DEF Counted
  <2> QED BY <1>2, <2>1, <2>2, FreedSound
<1>3. CASE ~(I[x].nlink = 0 /\ I[x].refs <= 0 /\ x # Root)
  <2>1. Iput(I, x) = I
    BY <1>3 DEF Iput
  <2>2. ~(x # Root /\ u[x] = 0 /\ I[x].nlink = 0)
    BY <1>1, <1>3 DEF Counted
  <2>3. Lasts(I, x, u)
    BY <2>2 DEF Lasts, Loose
  <2>4. Sound(I, u)
    BY <2>3 DEF Sound, Loose
  <2>5. RemainsBut(I, I, x)
    BY DEF RemainsBut, SameNode
  <2> QED BY <2>1, <2>4, <2>5
<1> QED BY <1>2, <1>3

LEMMA LetGoSound ==
  ASSUME NEW I, NEW u, Sound(I, u), NEW x \in Inodes, u[x] > 0
  PROVE  /\ Sound(LetGo(I, x), Minus(u, x)) /\ RemainsBut(I, LetGo(I, x), x)
         /\ I[x].nlink # 0 => LetGo(I, x) = [I EXCEPT ![x].refs = @ - 1]
<1> DEFINE r == u[x] - 1
           J == [I EXCEPT ![x].refs = r]
           v == [u EXCEPT ![x] = r]
<1>1. Base(I, u) /\ \A i \in Inodes : Lasts(I, i, u)
  BY DEF Sound
<1>2. u[x] \in Nat /\ I[x].refs = u[x]
  BY <1>1 DEF Base, Uses, Counted
<1>3. r \in Nat /\ I[x].kind # "free"
  BY <1>2, SoundIs
<1>4. LetGo(I, x) = Iput(J, x) /\ Minus(u, x) = v /\ J = [I EXCEPT ![x].refs = @ - 1]
  BY <1>2 DEF LetGo, Minus
<1>5. J = RefsAt(I, x, r) /\ v = UsersAt(u, x, r)
  BY DEF RefsAt, UsersAt
<1> HIDE DEF J, v, r
<1>6. Base(J, v) /\ AllSame(I, J) /\ Set(u, v, x, r)
  <2>1. Base(I, u) /\ r \in Nat /\ I[x].kind # "free"
    BY <1>1, <1>3
  <2> QED BY <2>1, <1>5, RefsChange
<1>7. \A i \in Inodes \ {x} : Lasts(J, i, v)
  BY <1>1, <1>6 DEF Lasts, SameNode, AllSame, Set
<1>8. J[x].kind # "free"
  BY <1>3, <1>6 DEF SameNode, AllSame
<1>9. Loose(J, v, x)
  BY <1>6, <1>7, <1>8 DEF Loose
<1>10. Sound(Iput(J, x), v) /\ RemainsBut(J, Iput(J, x), x) /\ (J[x].nlink # 0 => Iput(J, x) = J)
  BY <1>9, IputSound
<1>11. RemainsBut(I, Iput(J, x), x)
  BY <1>6, <1>10 DEF RemainsBut, SameNode, AllSame
<1>12. I[x].nlink # 0 => Iput(J, x) = J
  BY <1>6, <1>10 DEF AllSame
<1> QED BY <1>4, <1>10, <1>11, <1>12

(* ---- one directory's list and one inode's count change ---- *)

\* J is I with list s and table h in directory d, c more names for i, and i's
\* parent p.
Edited(I, J, d, s, h, i, c, p) ==
  /\ J \in Table
  /\ \A j \in Inodes : J[j].kind = I[j].kind /\ J[j].refs = I[j].refs /\ J[j].lost = I[j].lost /\ J[j].target = I[j].target
  /\ J[i].nlink = I[i].nlink + c /\ J[i].parent = p
  /\ \A j \in Inodes \ {i} : J[j].nlink = I[j].nlink /\ J[j].parent = I[j].parent
  /\ J[d].dents = s /\ J[d].htab = h
  /\ \A j \in Inodes \ {d} : J[j].dents = I[j].dents /\ J[j].htab = I[j].htab

WithDents(r, s, h) == [r EXCEPT !.dents = s, !.htab = h]
WithName(r, c, p) == [r EXCEPT !.nlink = @ + c, !.parent = p]
PutDents(I, d, s, h) == [I EXCEPT ![d] = WithDents(@, s, h)]
PutName(K, i, c, p) == [K EXCEPT ![i] = WithName(@, c, p)]

LEMMA DentsEdit ==
  ASSUME NEW r \in InodeRec, NEW s \in Seq(Entry), NEW h \in Seq(SUBSET Entry)
  PROVE  /\ WithDents(r, s, h) \in InodeRec /\ WithDents(r, s, h).dents = s /\ WithDents(r, s, h).htab = h
         /\ WithDents(r, s, h).kind = r.kind /\ WithDents(r, s, h).refs = r.refs /\ WithDents(r, s, h).lost = r.lost
         /\ WithDents(r, s, h).target = r.target /\ WithDents(r, s, h).nlink = r.nlink /\ WithDents(r, s, h).parent = r.parent
BY DEF InodeRec, WithDents

LEMMA NameEdit ==
  ASSUME NEW r \in InodeRec, NEW c \in Int, NEW p \in Inodes \cup {None}
  PROVE  /\ WithName(r, c, p) \in InodeRec /\ WithName(r, c, p).nlink = r.nlink + c /\ WithName(r, c, p).parent = p
         /\ WithName(r, c, p).kind = r.kind /\ WithName(r, c, p).refs = r.refs /\ WithName(r, c, p).lost = r.lost
         /\ WithName(r, c, p).target = r.target /\ WithName(r, c, p).dents = r.dents /\ WithName(r, c, p).htab = r.htab
<1>1. r.nlink \in Int /\ r.nlink + c \in Int
  BY DEF InodeRec
<1> QED BY <1>1 DEF InodeRec, WithName

LEMMA EditIs ==
  ASSUME NEW I \in Table, NEW d \in Inodes, NEW s \in Seq(Entry), NEW h \in Seq(SUBSET Entry),
         NEW i \in Inodes, NEW c \in Int, NEW p \in Inodes \cup {None},
         NEW K, NEW J, K = PutDents(I, d, s, h), J = PutName(K, i, c, p)
  PROVE  Edited(I, J, d, s, h, i, c, p)
<1>1. \A j \in Inodes : I[j] \in InodeRec
  BY DEF Table
<1>2. K[d] = WithDents(I[d], s, h) /\ \A j \in Inodes : j # d => K[j] = I[j]
  BY DEF Table, PutDents
<1>3. K \in Table
  <2>1. WithDents(I[d], s, h) \in InodeRec
    BY <1>1, DentsEdit
  <2> QED BY <2>1 DEF Table, PutDents
<1>4. J[i] = WithName(K[i], c, p) /\ \A j \in Inodes : j # i => J[j] = K[j]
  BY <1>3 DEF Table, PutName
<1>5. J \in Table
  <2>1. K[i] \in InodeRec
    BY <1>3 DEF Table
  <2>2. WithName(K[i], c, p) \in InodeRec
    BY <2>1, NameEdit
  <2> QED BY <2>2, <1>3 DEF Table, PutName
<1>6. \A j \in Inodes : K[j].kind = I[j].kind /\ K[j].refs = I[j].refs /\ K[j].lost = I[j].lost /\ K[j].target = I[j].target
                        /\ K[j].nlink = I[j].nlink /\ K[j].parent = I[j].parent
  <2> SUFFICES ASSUME NEW j \in Inodes
               PROVE  /\ K[j].kind = I[j].kind /\ K[j].refs = I[j].refs /\ K[j].lost = I[j].lost /\ K[j].target = I[j].target
                      /\ K[j].nlink = I[j].nlink /\ K[j].parent = I[j].parent
    OBVIOUS
  <2>1. CASE j = d
    <3>1. K[j] = WithDents(I[j], s, h) /\ I[j] \in InodeRec
      BY <2>1, <1>1, <1>2
    <3> QED BY <3>1, DentsEdit
  <2>2. CASE j # d
    <3>1. K[j] = I[j]
      BY <2>2, <1>2
    <3> QED BY <3>1
  <2> QED BY <2>1, <2>2
<1>7. K[d].dents = s /\ K[d].htab = h
  <2>1. K[d] = WithDents(I[d], s, h) /\ I[d] \in InodeRec
    BY <1>1, <1>2
  <2> QED BY <2>1, DentsEdit
<1>8. \A j \in Inodes \ {d} : K[j].dents = I[j].dents /\ K[j].htab = I[j].htab
  BY <1>2
<1>9. \A j \in Inodes : J[j].kind = K[j].kind /\ J[j].refs = K[j].refs /\ J[j].lost = K[j].lost /\ J[j].target = K[j].target
                        /\ J[j].dents = K[j].dents /\ J[j].htab = K[j].htab
  <2> SUFFICES ASSUME NEW j \in Inodes
               PROVE  /\ J[j].kind = K[j].kind /\ J[j].refs = K[j].refs /\ J[j].lost = K[j].lost /\ J[j].target = K[j].target
                      /\ J[j].dents = K[j].dents /\ J[j].htab = K[j].htab
    OBVIOUS
  <2>1. CASE j = i
    <3>1. J[j] = WithName(K[j], c, p) /\ K[j] \in InodeRec
      BY <2>1, <1>3, <1>4 DEF Table
    <3> QED BY <3>1, NameEdit
  <2>2. CASE j # i
    <3>1. J[j] = K[j]
      BY <2>2, <1>4
    <3> QED BY <3>1
  <2> QED BY <2>1, <2>2
<1>10. J[i].nlink = I[i].nlink + c /\ J[i].parent = p
  <2>1. J[i] = WithName(K[i], c, p) /\ K[i] \in InodeRec
    BY <1>3, <1>4 DEF Table
  <2>2. J[i].nlink = K[i].nlink + c /\ J[i].parent = p
    BY <2>1, NameEdit
  <2> QED BY <2>2, <1>6
<1>11. \A j \in Inodes \ {i} : J[j].nlink = I[j].nlink /\ J[j].parent = I[j].parent
  <2>1. \A j \in Inodes \ {i} : J[j] = K[j]
    BY <1>4
  <2> QED BY <2>1, <1>6
<1>12. \A j \in Inodes : J[j].kind = I[j].kind /\ J[j].refs = I[j].refs /\ J[j].lost = I[j].lost /\ J[j].target = I[j].target
  BY <1>6, <1>9
<1>13. J[d].dents = s /\ J[d].htab = h /\ \A j \in Inodes \ {d} : J[j].dents = I[j].dents /\ J[j].htab = I[j].htab
  BY <1>7, <1>8, <1>9
<1> QED BY <1>5, <1>10, <1>11, <1>12, <1>13 DEF Edited

LEMMA DirAddIs ==
  ASSUME NEW I \in Table, NEW d \in Inodes, NEW n \in Names, NEW i \in Inodes, DirOK(I, d), n \notin NamesIn(I, d)
  PROVE  \E s, h : /\ Edited(I, DirAdd(I, d, n, i), d, s, h, i, 1, IF IsDir(I, i) THEN d ELSE I[i].parent)
                   /\ s = Append(I[d].dents, [name |-> n, ino |-> i])
                   /\ DentsOK(s, h) /\ ToSet(s) = Entries(I, d) \cup {[name |-> n, ino |-> i]}
<1> DEFINE e == [name |-> n, ino |-> i]
           t == I[d].dents
           g == I[d].htab
           s == Append(t, e)
           h == NewTable(t, g, e)
           p == IF IsDir(I, i) THEN d ELSE I[i].parent
           K == PutDents(I, d, s, h)
           J == PutName(K, i, 1, p)
<1>1. t \in Seq(Entry) /\ g \in Seq(SUBSET Entry) /\ p \in Inodes \cup {None} /\ e \in Entry
  BY TableFields DEF Entry
<1>2. DentsOK(t, g) /\ \A f \in ToSet(t) : f.name # e.name
  BY DEF DirOK, NamesIn, Entries
<1> HIDE DEF t, g, e
<1>3. h \in Seq(SUBSET Entry) /\ DentsOK(s, h)
  BY <1>1, <1>2, AddOK
<1>4. s \in Seq(Entry) /\ ToSet(s) = ToSet(t) \cup {e}
  BY <1>1, AppendSet
<1>5. Edited(I, J, d, s, h, i, 1, p)
  <2> HIDE DEF s, h, p
  <2>1. 1 \in Int
    OBVIOUS
  <2> QED BY <2>1, <1>1, <1>3, <1>4, EditIs
<1>6. DirAdd(I, d, n, i) = J
  <2> DEFINE A == [I EXCEPT ![d].dents = s, ![d].htab = h]
             B == [A EXCEPT ![i].nlink = @ + 1, ![i].parent = IF IsDir(I, i) THEN d ELSE @]
  <2>1. DirAdd(I, d, n, i) = B
    <3>1. e.name = n
      BY DEF e
    <3>2. h = IF g # <<>> /\ Len(s) <= Len(g) THEN [g EXCEPT ![Bucket(Len(g), n)] = @ \cup {e}]
              ELSE IF Len(s) > ListMax THEN Rehash(s) ELSE g
      BY <3>1 DEF NewTable
    <3> HIDE DEF s, h
    <3> QED BY <3>2 DEF DirAdd, s, t, e, g
  <2> HIDE DEF s, h
  <2>2. A = K
    BY DEF WithDents, Table, PutDents
  <2>3. K[i].parent = I[i].parent
    <3>1. WithDents(I[d], s, h).parent = I[d].parent
      <4>1. I[d] \in InodeRec /\ h \in Seq(SUBSET Entry) /\ s \in Seq(Entry)
        BY <1>3, <1>4 DEF Table
      <4> QED BY <4>1 DEF WithDents, InodeRec
    <3>2. K[i] = IF i = d THEN WithDents(I[d], s, h) ELSE I[i]
      BY DEF Table, PutDents
    <3> QED BY <3>1, <3>2
  <2> HIDE DEF A, K
  <2>4. B = J
    BY <2>2, <2>3 DEF WithName, PutName
  <2> QED BY <2>1, <2>4
<1> HIDE DEF s, h, J, p
<1>7. /\ Edited(I, DirAdd(I, d, n, i), d, s, h, i, 1, p)
      /\ s = Append(t, e) /\ DentsOK(s, h) /\ ToSet(s) = ToSet(t) \cup {e}
  BY <1>3, <1>4, <1>5, <1>6 DEF s
<1> QED BY <1>7 DEF p, t, e, Entries

LEMMA DirRemoveIs ==
  ASSUME NEW I \in Table, NEW d \in Inodes, NEW n \in Names, NEW i \in Inodes, DirOK(I, d), Has(I, d, n, i)
  PROVE  \E J, s, h : \E k \in 1..Len(I[d].dents) :
           /\ DirRemove(I, d, n) = Iput(J, i)
           /\ Edited(I, J, d, s, h, i, -1, I[i].parent)
           /\ I[d].dents[k].name = n /\ s = RemoveAt(I[d].dents, k)
           /\ DentsOK(s, h) /\ ToSet(s) = Entries(I, d) \ {[name |-> n, ino |-> i]}
<1> DEFINE t == I[d].dents
           g == I[d].htab
           k == Place(t, n)
           e == t[k]
           s == RemoveAt(t, k)
           h == OldTable(g, e)
           p == I[i].parent
           K == PutDents(I, d, s, h)
           J == PutName(K, i, -1, p)
<1>1. t \in Seq(Entry) /\ g \in Seq(SUBSET Entry) /\ p \in Inodes \cup {None} /\ DentsOK(t, g)
  BY TableFields DEF DirOK
<1>2. k \in 1..Len(t) /\ e = [name |-> n, ino |-> i] /\ e.name = n /\ e.ino = i
  <2>1. PICK x \in 1..Len(t) : [name |-> n, ino |-> i] = t[x]
    BY EntriesAre DEF Has
  <2>2. DOMAIN t = 1..Len(t)
    BY <1>1
  <2>3. t[x].name = n
    BY <2>1
  <2>4. k \in 1..Len(t) /\ t[k].name = n
    <3> HIDE DEF t
    <3> QED BY <2>1, <2>2, <2>3 DEF Place
  <2>5. k = x
    <3> HIDE DEF t, k
    <3> QED BY <2>1, <2>3, <2>4, <1>1 DEF DentsOK, Distinct
  <2>6. e = t[x] /\ t[x].ino = i
    BY <2>1, <2>5
  <2> HIDE DEF e, t, k
  <2> QED BY <2>1, <2>3, <2>4, <2>6
<1> HIDE DEF t, g, k, e
<1>3. h \in Seq(SUBSET Entry) /\ DentsOK(s, h)
  BY <1>1, <1>2, RemoveOK DEF e
<1>4. s \in Seq(Entry) /\ ToSet(s) = ToSet(t) \ {e}
  BY <1>1, <1>2, RemovedSet DEF DentsOK, e
<1>5. Edited(I, J, d, s, h, i, -1, p)
  <2> HIDE DEF s, h, p
  <2>1. -1 \in Int
    OBVIOUS
  <2> QED BY <2>1, <1>1, <1>3, <1>4, EditIs
<1>6. DirRemove(I, d, n) = Iput(J, i)
  <2> DEFINE A == [I EXCEPT ![d].dents = RemoveAt(@, k), ![d].htab = h]
             B == [A EXCEPT ![e.ino].nlink = @ - 1]
  <2>1. DirRemove(I, d, n) = Iput(B, e.ino)
    <3>1. h = IF g = <<>> THEN g ELSE [g EXCEPT ![Bucket(Len(g), n)] = @ \ {e}]
      BY <1>2 DEF OldTable
    <3> HIDE DEF h
    <3> QED BY <3>1 DEF DirRemove, t, e, g, k
  <2> HIDE DEF h
  <2>2. A = K
    <3>1. A = [I EXCEPT ![d].dents = s, ![d].htab = h]
      BY DEF t, Table
    <3> HIDE DEF A, s
    <3> QED BY <3>1 DEF WithDents, Table, PutDents
  <2> HIDE DEF s
  <2>3. K[i].parent = p /\ K[i] \in InodeRec
    <3>1. WithDents(I[d], s, h).parent = I[d].parent /\ WithDents(I[d], s, h) \in InodeRec
      <4>1. I[d] \in InodeRec
        BY DEF Table
      <4> QED BY <4>1, <1>3, <1>4, DentsEdit
    <3>2. K[i] = IF i = d THEN WithDents(I[d], s, h) ELSE I[i]
      BY DEF Table, PutDents
    <3> QED BY <3>1, <3>2 DEF Table
  <2> HIDE DEF A, K, p
  <2>4. B = J
    <3>1. B = [K EXCEPT ![i] = [K[i] EXCEPT !.nlink = @ - 1]]
      BY <2>2, <1>2
    <3>2. WithName(K[i], -1, p) = [K[i] EXCEPT !.nlink = @ - 1]
      <4> DEFINE r == K[i]
      <4>1. r \in InodeRec /\ r.parent = p
        BY <2>3
      <4> HIDE DEF r
      <4>2. r.nlink \in Int /\ r.nlink + -1 = r.nlink - 1
        BY <4>1 DEF InodeRec
      <4>3. WithName(r, -1, p) = [r EXCEPT !.nlink = r.nlink - 1, !.parent = p]
        BY <4>2 DEF WithName
      <4>4. [r EXCEPT !.nlink = r.nlink - 1, !.parent = p] = [r EXCEPT !.nlink = r.nlink - 1]
        BY <4>1 DEF InodeRec
      <4>5. WithName(r, -1, p) = [r EXCEPT !.nlink = @ - 1]
        BY <4>3, <4>4
      <4> QED BY <4>5 DEF r
    <3> QED BY <3>1, <3>2 DEF PutName
  <2> QED BY <2>1, <2>4, <1>2
<1> HIDE DEF s, h, J, p
<1>7. /\ DirRemove(I, d, n) = Iput(J, i)
      /\ Edited(I, J, d, s, h, i, -1, p)
      /\ k \in 1..Len(t) /\ t[k].name = n /\ s = RemoveAt(t, k) /\ DentsOK(s, h) /\ ToSet(s) = ToSet(t) \ {[name |-> n, ino |-> i]}
  BY <1>2, <1>3, <1>4, <1>5, <1>6 DEF s, e
<1>8. /\ DirRemove(I, d, n) = Iput(J, i)
      /\ Edited(I, J, d, s, h, i, -1, I[i].parent)
      /\ k \in 1..Len(I[d].dents) /\ I[d].dents[k].name = n /\ s = RemoveAt(I[d].dents, k)
      /\ DentsOK(s, h) /\ ToSet(s) = Entries(I, d) \ {[name |-> n, ino |-> i]}
  BY <1>7 DEF p, t, Entries
<1> HIDE DEF k
<1> QED BY <1>8

\* What an edit leaves of the names.
Less(I, J, d, n, i) == \A x \in Inodes : \A m, j : Has(J, x, m, j) <=> Has(I, x, m, j) /\ ~(x = d /\ m = n /\ j = i)
More(I, J, d, n, i) == \A x \in Inodes : \A m, j : Has(J, x, m, j) <=> Has(I, x, m, j) \/ (x = d /\ m = n /\ j = i)

LEMMA EditNames ==
  ASSUME NEW I \in Table, NEW d \in Inodes, NEW n \in Names, NEW i \in Inodes, NEW J, NEW s, NEW h, NEW c, NEW p,
         Edited(I, J, d, s, h, i, c, p), NEW e, e = [name |-> n, ino |-> i]
  PROVE  /\ ToSet(s) = Entries(I, d) \ {e} => Less(I, J, d, n, i)
         /\ ToSet(s) = Entries(I, d) \cup {e} => More(I, J, d, n, i)
<1>1. Entries(J, d) = ToSet(s)
  BY DEF Entries, Edited
<1>2. \A x \in Inodes : x # d => \A m, j : Has(J, x, m, j) = Has(I, x, m, j)
  <2> SUFFICES ASSUME NEW x \in Inodes, x # d PROVE \A m, j : Has(J, x, m, j) = Has(I, x, m, j)
    OBVIOUS
  <2>1. J[x].dents = I[x].dents
    BY DEF Edited
  <2> QED BY <2>1, SameEntries
<1>3. \A m, j : [name |-> m, ino |-> j] = e <=> m = n /\ j = i
  <2> SUFFICES ASSUME NEW m, NEW j PROVE [name |-> m, ino |-> j] = e <=> m = n /\ j = i
    OBVIOUS
  <2> DEFINE f == [name |-> m, ino |-> j]
  <2>1. f.name = m /\ f.ino = j /\ e.name = n /\ e.ino = i
    OBVIOUS
  <2> QED BY <2>1
<1>4. ASSUME ToSet(s) = Entries(I, d) \ {e} PROVE Less(I, J, d, n, i)
  <2>1. \A m, j : Has(J, d, m, j) <=> Has(I, d, m, j) /\ ~(m = n /\ j = i)
    BY <1>1, <1>3, <1>4 DEF Has
  <2> QED BY <2>1, <1>2 DEF Less
<1>5. ASSUME ToSet(s) = Entries(I, d) \cup {e} PROVE More(I, J, d, n, i)
  <2>1. \A m, j : Has(J, d, m, j) <=> Has(I, d, m, j) \/ (m = n /\ j = i)
    <3> SUFFICES ASSUME NEW m, NEW j PROVE Has(J, d, m, j) <=> Has(I, d, m, j) \/ (m = n /\ j = i)
      OBVIOUS
    <3> DEFINE f == [name |-> m, ino |-> j]
    <3>1. f = e <=> m = n /\ j = i
      BY <1>3
    <3>2. Has(J, d, m, j) <=> f \in ToSet(s)
      BY <1>1 DEF Has
    <3>3. Has(I, d, m, j) <=> f \in Entries(I, d)
      BY DEF Has
    <3> HIDE DEF f
    <3>4. f \in ToSet(s) <=> f \in Entries(I, d) \/ f = e
      BY <1>5
    <3> QED BY <3>1, <3>2, <3>3, <3>4
  <2> QED BY <2>1, <1>2 DEF More
<1> QED BY <1>4, <1>5

Elsewhere(I, J, i) == \A j \in Inodes : j # i => Spots(J, j) = Spots(I, j)
LessAt(I, J, d, n, i) == Elsewhere(I, J, i) /\ Spots(J, i) = Spots(I, i) \ {<<d, n>>}
MoreAt(I, J, d, n, i) == Elsewhere(I, J, i) /\ Spots(J, i) = Spots(I, i) \cup {<<d, n>>}

LEMMA LessSpots ==
  ASSUME NEW I \in Table, NEW J, NEW d \in Inodes, NEW n \in Names, NEW i \in Inodes, Less(I, J, d, n, i)
  PROVE  LessAt(I, J, d, n, i)
<1>1. \A x \in Inodes \X Names : x = <<d, n>> <=> x[1] = d /\ x[2] = n
  OBVIOUS
<1>2. ASSUME NEW j \in Inodes PROVE \A x \in Inodes \X Names : Has(J, x[1], x[2], j) <=> Has(I, x[1], x[2], j) /\ ~(x = <<d, n>> /\ j = i)
  <2>1. \A x \in Inodes \X Names : Has(J, x[1], x[2], j) <=> Has(I, x[1], x[2], j) /\ ~(x[1] = d /\ x[2] = n /\ j = i)
    BY DEF Less
  <2> QED BY <2>1, <1>1
<1>3. ASSUME NEW j \in Inodes, j # i PROVE Spots(J, j) = Spots(I, j)
  BY <1>2, <1>3 DEF Spots
<1>4. Spots(J, i) = Spots(I, i) \ {<<d, n>>}
  BY <1>2 DEF Spots
<1> QED BY <1>3, <1>4 DEF LessAt, Elsewhere

LEMMA MoreSpots ==
  ASSUME NEW I \in Table, NEW J, NEW d \in Inodes, NEW n \in Names, NEW i \in Inodes, More(I, J, d, n, i)
  PROVE  MoreAt(I, J, d, n, i)
<1>1. \A x \in Inodes \X Names : x = <<d, n>> <=> x[1] = d /\ x[2] = n
  OBVIOUS
<1>2. ASSUME NEW j \in Inodes PROVE \A x \in Inodes \X Names : Has(J, x[1], x[2], j) <=> Has(I, x[1], x[2], j) \/ (x = <<d, n>> /\ j = i)
  <2>1. \A x \in Inodes \X Names : Has(J, x[1], x[2], j) <=> Has(I, x[1], x[2], j) \/ (x[1] = d /\ x[2] = n /\ j = i)
    BY DEF More
  <2> QED BY <2>1, <1>1
<1>3. ASSUME NEW j \in Inodes, j # i PROVE Spots(J, j) = Spots(I, j)
  BY <1>2, <1>3 DEF Spots
<1>4. <<d, n>> \in Inodes \X Names
  OBVIOUS
<1>5. Spots(J, i) = Spots(I, i) \cup {<<d, n>>}
  BY <1>2, <1>4 DEF Spots
<1> QED BY <1>3, <1>5 DEF MoreAt, Elsewhere

(* ---- a name is taken away ---- *)

\* J is I without name n of i in d, and i may have gone.
Removed(I, J, d, n, i) ==
  /\ J \in Table /\ i # d
  /\ \A j \in Inodes : j # i => J[j].kind = I[j].kind /\ J[j].parent = I[j].parent /\ J[j].target = I[j].target
  /\ \A j \in Inodes : j # i /\ j # d => SameNode(I, J, j)
  /\ J[i].kind = "free" \/ SameNode(I, J, i)
  /\ \E k \in 1..Len(I[d].dents) : I[d].dents[k].name = n /\ J[d].dents = RemoveAt(I[d].dents, k)

LEMMA SameRecord ==
  ASSUME NEW r \in InodeRec, NEW q \in InodeRec,
         r.kind = q.kind, r.nlink = q.nlink, r.refs = q.refs, r.lost = q.lost, r.parent = q.parent,
         r.dents = q.dents, r.htab = q.htab, r.target = q.target
  PROVE  r = q
BY DEF InodeRec

\* No directory is in itself.
LEMMA NotInItself ==
  ASSUME NEW I, Shape(I), NEW d \in Inodes, NEW n
  PROVE  ~Has(I, d, n, d)
<1> SUFFICES ASSUME Has(I, d, n, d) PROVE FALSE
  OBVIOUS
<1>1. I \in Table /\ IsDir(I, d) /\ OneName(I, d) /\ NoLoop(I)
  BY ShapeIs DEF Shape
<1>2. <<d, n>> \in Spots(I, d)
  BY <1>1, SpotsAre
<1>3. I[d].parent = d
  BY <1>1, <1>2 DEF OneName
<1>4. {d} \in SUBSET NamedDirs(I)
  BY <1>1, <1>2 DEF NamedDirs
<1>5. \E x \in {d} : I[x].parent \notin {d}
  BY <1>1, <1>4 DEF NoLoop
<1> QED BY <1>3, <1>5

LEMMA LessShape ==
  ASSUME NEW I, Shape(I), NEW d \in Inodes, NEW n \in Names, NEW i \in Inodes, Has(I, d, n, i), NEW K, NEW s, NEW h,
         Edited(I, K, d, s, h, i, -1, I[i].parent), DentsOK(s, h), Less(I, K, d, n, i), I[i].kind # "free"
  PROVE  Shape(K)
<1>1. I \in Table /\ K \in Table /\ IsDir(I, d)
  BY ShapeIs DEF Edited
<1>0. LessAt(I, K, d, n, i)
  BY <1>1, LessSpots
<1>2. \A j \in Inodes : j # i => Spots(K, j) = Spots(I, j)
  BY <1>0 DEF LessAt, Elsewhere
<1>3. Spots(K, i) = Spots(I, i) \ {<<d, n>>}
  BY <1>0 DEF LessAt
<1>4. \A j \in Inodes : Spots(K, j) \subseteq Spots(I, j)
  BY <1>2, <1>3
<1>5. \A j \in Inodes : K[j].kind = I[j].kind /\ K[j].parent = I[j].parent /\ (IsDir(K, j) <=> IsDir(I, j))
  BY DEF Edited, IsDir
<1>6. ASSUME NEW j \in Inodes PROVE DirOK(K, j) /\ FreeOK(K, j) /\ OneName(K, j)
  <2>1. DirOK(I, j) /\ FreeOK(I, j) /\ OneName(I, j)
    BY DEF Shape
  <2>2. DirOK(K, j)
    <3>1. CASE j = d
      <4>1. K[d].dents = s /\ K[d].htab = h /\ K[d].kind = "dir"
        BY <1>1, <1>5 DEF Edited, IsDir
      <4> QED BY <3>1, <4>1 DEF DirOK
    <3>2. CASE j # d
      <4>1. K[j].dents = I[j].dents /\ K[j].htab = I[j].htab
        BY <3>2 DEF Edited
      <4> QED BY <4>1, <2>1, <1>5 DEF DirOK
    <3> QED BY <3>1, <3>2
  <2>3. FreeOK(K, j)
    <3> SUFFICES ASSUME K[j].kind = "free" PROVE K[j] = Free
      BY DEF FreeOK
    <3>1. I[j] = Free /\ j # i /\ j # d
      BY <2>1, <1>1, <1>5 DEF FreeOK, IsDir
    <3>2. /\ K[j].kind = I[j].kind /\ K[j].refs = I[j].refs /\ K[j].lost = I[j].lost /\ K[j].target = I[j].target
          /\ K[j].nlink = I[j].nlink /\ K[j].parent = I[j].parent
          /\ K[j].dents = I[j].dents /\ K[j].htab = I[j].htab
      BY <3>1 DEF Edited
    <3>3. K[j] \in InodeRec /\ I[j] \in InodeRec
      BY <1>1 DEF Table
    <3>4. K[j] = I[j]
      BY <3>2, <3>3, SameRecord
    <3> QED BY <3>1, <3>4
  <2>4. OneName(K, j)
    BY <2>1, <1>4, <1>5 DEF OneName
  <2> QED BY <2>2, <2>3, <2>4
<1>7. NoLoop(K)
  <2>1. NamedDirs(K) \subseteq NamedDirs(I) /\ NamedDirs(K) \subseteq Inodes
    BY <1>4, <1>5 DEF NamedDirs
  <2>2. NoLoop(I)
    BY DEF Shape
  <2>3. ASSUME NEW S \in SUBSET NamedDirs(K), S # {} PROVE \E x \in S : K[x].parent \notin S
    <3>1. PICK x \in S : I[x].parent \notin S
      BY <2>1, <2>2, <2>3 DEF NoLoop
    <3>2. x \in Inodes
      BY <2>1
    <3> QED BY <3>1, <3>2, <1>5
  <2> QED BY <2>3 DEF NoLoop
<1>8. Spots(K, Root) = {} /\ IsDir(K, Root)
  <2>1. Root \in Inodes /\ Spots(I, Root) = {} /\ IsDir(I, Root)
    BY Constants DEF Shape
  <2> QED BY <2>1, <1>4, <1>5
<1> QED BY <1>1, <1>6, <1>7, <1>8 DEF Shape

LEMMA LessLoose ==
  ASSUME NEW I, NEW u, Sound(I, u), NEW d \in Inodes, NEW n \in Names, NEW i \in Inodes, Has(I, d, n, i), NEW K, NEW s, NEW h,
         Edited(I, K, d, s, h, i, -1, I[i].parent), DentsOK(s, h), Less(I, K, d, n, i)
  PROVE  Loose(K, u, i)
<1>1. I \in Table /\ Shape(I) /\ u \in Uses /\ I[i].kind # "free" /\ i # Root
  BY SoundIs
<1>2. Shape(K)
  BY <1>1, LessShape
<1>0. LessAt(I, K, d, n, i)
  BY <1>1, LessSpots
<1>3. \A j \in Inodes : j # i => Spots(K, j) = Spots(I, j)
  BY <1>0 DEF LessAt, Elsewhere
<1>4. Spots(K, i) = Spots(I, i) \ {<<d, n>>}
  BY <1>0 DEF LessAt
<1>5. \A j \in Inodes : K[j].kind = I[j].kind /\ K[j].refs = I[j].refs /\ K[j].lost = I[j].lost
  BY DEF Edited
<1>6. \A j \in Inodes : j # i => K[j].nlink = I[j].nlink
  BY DEF Edited
<1>7. K[i].nlink = I[i].nlink + -1
  BY DEF Edited
<1>8. Cardinality(Spots(K, i)) = Cardinality(Spots(I, i)) - 1
  <2>1. <<d, n>> \in Spots(I, i) /\ IsFiniteSet(Spots(I, i))
    BY <1>1, SpotsAre
  <2> QED BY <2>1, <1>4, FS_RemoveElement
<1>9. ASSUME NEW j \in Inodes PROVE Counted(K, j, u)
  <2>1. Counted(I, j, u)
    BY DEF Sound, Base
  <2>2. CASE j # i
    BY <2>1, <2>2, <1>3, <1>5, <1>6 DEF Counted
  <2>3. CASE j = i
    <3>1. I[i].lost \in Nat /\ Cardinality(Spots(I, i)) \in Nat /\ I[i].nlink \in Int
      BY <1>1, TableFields, SpotsAre
    <3>2. I[i].nlink = (I[i].lost + Cardinality(Spots(I, i))) + One(i = Root)
      BY <2>1, <2>3 DEF Counted
    <3>3. K[i].nlink = (K[i].lost + Cardinality(Spots(K, i))) + One(i = Root)
      BY <1>1, <1>5, <1>7, <1>8, <3>1, <3>2 DEF One
    <3> QED BY <2>1, <2>3, <3>3, <1>5 DEF Counted
  <2> QED BY <2>2, <2>3
<1>10. \A j \in Inodes \ {i} : Lasts(K, j, u)
  BY <1>5, <1>6 DEF Lasts, Sound
<1>11. K[i].kind # "free"
  BY <1>1, <1>5
<1> QED BY <1>1, <1>2, <1>9, <1>10, <1>11 DEF Loose, Base

LEMMA RemoveSound ==
  ASSUME NEW I, NEW u, Sound(I, u), NEW d \in Inodes, NEW n \in Names, NEW i \in Inodes, Has(I, d, n, i),
         I[i].dents = <<>> \/ u[i] > 0
  PROVE  /\ Sound(DirRemove(I, d, n), u)
         /\ Removed(I, DirRemove(I, d, n), d, n, i)
         /\ Less(I, DirRemove(I, d, n), d, n, i)
<1> DEFINE J == DirRemove(I, d, n)
<1>1. I \in Table /\ Shape(I) /\ DirOK(I, d) /\ i # d
  BY SoundIs, ShapeIs, NotInItself
<1> HIDE DEF J
<1>2. PICK K, s, h : \E k \in 1..Len(I[d].dents) :
           /\ J = Iput(K, i)
           /\ Edited(I, K, d, s, h, i, -1, I[i].parent)
           /\ I[d].dents[k].name = n /\ s = RemoveAt(I[d].dents, k)
           /\ DentsOK(s, h) /\ ToSet(s) = Entries(I, d) \ {[name |-> n, ino |-> i]}
  BY <1>1, DirRemoveIs DEF J
<1>3. PICK k \in 1..Len(I[d].dents) :
           /\ J = Iput(K, i)
           /\ Edited(I, K, d, s, h, i, -1, I[i].parent)
           /\ I[d].dents[k].name = n /\ s = RemoveAt(I[d].dents, k)
           /\ DentsOK(s, h) /\ ToSet(s) = Entries(I, d) \ {[name |-> n, ino |-> i]}
  BY <1>2
<1>4. Less(I, K, d, n, i)
  BY <1>1, <1>3, EditNames
<1>5. Loose(K, u, i)
  BY <1>3, <1>4, LessLoose
<1>6. Sound(J, u) /\ RemainsBut(K, J, i) /\ (u[i] # 0 => J = K)
  BY <1>3, <1>5, IputSound
<1>7. J \in Table /\ K \in Table
  BY <1>6, <1>3, SoundIs DEF Edited
<1>8. Removed(I, J, d, n, i)
  <2>1. \A j \in Inodes : K[j].kind = I[j].kind /\ K[j].target = I[j].target /\ K[j].parent = I[j].parent
    BY <1>3 DEF Edited
  <2>2. \A j \in Inodes : j # d => K[j].dents = I[j].dents /\ K[j].htab = I[j].htab
    BY <1>3 DEF Edited
  <2>3. \A j \in Inodes : j # i => SameNode(K, J, j)
    BY <1>6 DEF RemainsBut
  <2>4. \A j \in Inodes : j # i => J[j].kind = I[j].kind /\ J[j].parent = I[j].parent /\ J[j].target = I[j].target
    BY <2>1, <2>3 DEF SameNode
  <2>5. \A j \in Inodes : j # i /\ j # d => SameNode(I, J, j)
    BY <2>1, <2>2, <2>3 DEF SameNode
  <2>6. J[i].kind = "free" \/ SameNode(I, J, i)
    BY <2>1, <2>2, <1>1, <1>6 DEF RemainsBut, SameNode
  <2>7. J[d].dents = RemoveAt(I[d].dents, k)
    <3>1. K[d].dents = s /\ SameNode(K, J, d)
      BY <1>1, <1>3, <2>3 DEF Edited
    <3> QED BY <3>1, <1>3 DEF SameNode
  <2> QED BY <1>1, <1>3, <1>7, <2>4, <2>5, <2>6, <2>7 DEF Removed
<1>9. Less(I, J, d, n, i)
  <2>1. \A x \in Inodes : x # i => \A m, j : Has(J, x, m, j) <=> Has(K, x, m, j)
    <3> SUFFICES ASSUME NEW x \in Inodes, x # i PROVE \A m, j : Has(J, x, m, j) = Has(K, x, m, j)
      OBVIOUS
    <3>1. J[x].dents = K[x].dents
      BY <1>6 DEF RemainsBut, SameNode
    <3> QED BY <3>1, SameEntries
  <2>2. \A m, j : Has(J, i, m, j) = Has(K, i, m, j)
    <3>1. CASE u[i] # 0
      BY <3>1, <1>6
    <3>2. CASE ~(u[i] # 0)
      <4>1. I[i].dents = <<>>
        <5>1. ~(u[i] > 0)
          BY <3>2
        <5> QED BY <5>1
      <4>2. K[i].dents = <<>>
        BY <4>1, <1>1, <1>3 DEF Edited
      <4>3. J[i].dents = <<>>
        <5>1. J[i].kind = "free" => J[i] = Free
          BY <1>6, SoundIs, ShapeIs DEF FreeOK
        <5> QED BY <5>1, <4>2, <1>6, FreeIs DEF RemainsBut, SameNode
      <4>4. J[i].dents = K[i].dents
        BY <4>2, <4>3
      <4> QED BY <4>4, SameEntries
    <3> QED BY <3>1, <3>2
  <2> QED BY <2>1, <2>2, <1>4 DEF Less
<1> QED BY <1>6, <1>8, <1>9 DEF J

(* ---- a name is given ---- *)

\* d is neither i nor below it: a set of inodes with d, with the parents of its
\* named directories, and without i.
Above(I, T, i, d) == T \in SUBSET Inodes /\ d \in T /\ i \notin T /\ \A x \in T \cap NamedDirs(I) : I[x].parent \in T
NotBelow(I, i, d) == \E T : Above(I, T, i, d)

\* J is I with name n for i in d.
Added(I, J, d, n, i) ==
  /\ J \in Table /\ i # d
  /\ \A j \in Inodes : J[j].kind = I[j].kind /\ J[j].target = I[j].target
  /\ \A j \in Inodes : j # i /\ j # d => SameNode(I, J, j)
  /\ \A j \in Inodes : j # d => J[j].dents = I[j].dents
  /\ \A j \in Inodes : j # i => J[j].parent = I[j].parent
  /\ J[d].dents = Append(I[d].dents, [name |-> n, ino |-> i])
  /\ J[i].nlink # 0

LEMMA MoreShape ==
  ASSUME NEW I, Shape(I), NEW d \in Inodes, NEW n \in Names, NEW i \in Inodes, I[i].kind # "free", IsDir(I, d), i # d, i # Root,
         IsDir(I, i) => Spots(I, i) = {} /\ NotBelow(I, i, d),
         NEW J, NEW s, NEW h, NEW p, Edited(I, J, d, s, h, i, 1, p), IsDir(I, i) => p = d, DentsOK(s, h),
         More(I, J, d, n, i)
  PROVE  Shape(J)
<1>1. I \in Table /\ J \in Table
  BY ShapeIs DEF Edited
<1>0. MoreAt(I, J, d, n, i)
  BY <1>1, MoreSpots
<1>2. \A j \in Inodes : j # i => Spots(J, j) = Spots(I, j)
  BY <1>0 DEF MoreAt, Elsewhere
<1>3. Spots(J, i) = Spots(I, i) \cup {<<d, n>>}
  BY <1>0 DEF MoreAt
<1>4. \A j \in Inodes : J[j].kind = I[j].kind /\ (IsDir(J, j) <=> IsDir(I, j))
  BY DEF Edited, IsDir
<1>5. \A j \in Inodes : j # i => J[j].parent = I[j].parent
  BY DEF Edited
<1>6. IsDir(I, i) => J[i].parent = d
  BY DEF Edited
<1>7. ASSUME NEW j \in Inodes PROVE DirOK(J, j) /\ FreeOK(J, j) /\ OneName(J, j)
  <2>1. DirOK(I, j) /\ FreeOK(I, j) /\ OneName(I, j)
    BY DEF Shape
  <2>2. DirOK(J, j)
    <3>1. CASE j = d
      <4>1. J[d].dents = s /\ J[d].htab = h /\ J[d].kind = "dir"
        BY <1>1, <1>4 DEF Edited, IsDir
      <4> QED BY <3>1, <4>1 DEF DirOK
    <3>2. CASE j # d
      <4>1. J[j].dents = I[j].dents /\ J[j].htab = I[j].htab
        BY <3>2 DEF Edited
      <4> QED BY <4>1, <2>1, <1>4 DEF DirOK
    <3> QED BY <3>1, <3>2
  <2>3. FreeOK(J, j)
    <3> SUFFICES ASSUME J[j].kind = "free" PROVE J[j] = Free
      BY DEF FreeOK
    <3>1. I[j] = Free /\ j # i /\ j # d
      BY <2>1, <1>1, <1>4 DEF FreeOK, IsDir
    <3>2. /\ J[j].kind = I[j].kind /\ J[j].refs = I[j].refs /\ J[j].lost = I[j].lost /\ J[j].target = I[j].target
          /\ J[j].nlink = I[j].nlink /\ J[j].parent = I[j].parent
          /\ J[j].dents = I[j].dents /\ J[j].htab = I[j].htab
      BY <3>1 DEF Edited
    <3>3. J[j] \in InodeRec /\ I[j] \in InodeRec
      BY <1>1 DEF Table
    <3>4. J[j] = I[j]
      BY <3>2, <3>3, SameRecord
    <3> QED BY <3>1, <3>4
  <2>4. OneName(J, j)
    <3> SUFFICES ASSUME IsDir(J, j) PROVE /\ \A x \in Spots(J, j) : J[j].parent = x[1]
                                          /\ \A x, y \in Spots(J, j) : x = y
      BY DEF OneName
    <3>1. CASE j = i
      <4>1. Spots(J, j) = {<<d, n>>} /\ J[j].parent = d
        BY <3>1, <1>3, <1>4, <1>6
      <4> QED BY <4>1
    <3>2. CASE j # i
      BY <3>2, <2>1, <1>2, <1>4, <1>5 DEF OneName
    <3> QED BY <3>1, <3>2
  <2> QED BY <2>2, <2>3, <2>4
<1>8. NoLoop(J)
  <2> SUFFICES ASSUME NEW S \in SUBSET NamedDirs(J), S # {}, \A x \in S : J[x].parent \in S PROVE FALSE
    BY DEF NoLoop
  <2>1. S \subseteq Inodes /\ \A x \in S : IsDir(I, x) /\ (x # i => x \in NamedDirs(I))
    BY <1>2, <1>4 DEF NamedDirs
  <2>2. \A R \in SUBSET NamedDirs(I) : R # {} => \E x \in R : I[x].parent \notin R
    BY DEF Shape, NoLoop
  <2>3. CASE i \notin S
    <3>1. S \in SUBSET NamedDirs(I) /\ \A x \in S : I[x].parent \in S
      BY <2>1, <2>3, <1>5
    <3> QED BY <3>1, <2>2
  <2>4. CASE i \in S
    <3>1. IsDir(I, i) /\ d \in S
      BY <2>1, <2>4, <1>6
    <3>2. PICK T : Above(I, T, i, d)
      BY <3>1 DEF NotBelow
    <3>3. S \cap T # {} /\ S \cap T \in SUBSET NamedDirs(I)
      BY <3>1, <3>2, <2>1 DEF Above
    <3>4. ASSUME NEW x \in S \cap T PROVE I[x].parent \in S \cap T
      <4>1. x \in NamedDirs(I) /\ x # i /\ x \in Inodes
        BY <3>2, <3>3, <2>1 DEF Above
      <4>2. I[x].parent \in T
        BY <3>2, <4>1 DEF Above
      <4>3. J[x].parent = I[x].parent
        BY <4>1, <1>5
      <4> QED BY <4>2, <4>3
    <3> QED BY <3>3, <3>4, <2>2
  <2> QED BY <2>3, <2>4
<1>9. Spots(J, Root) = {} /\ IsDir(J, Root)
  <2>1. Root \in Inodes /\ Spots(I, Root) = {} /\ IsDir(I, Root)
    BY Constants DEF Shape
  <2> QED BY <2>1, <1>2, <1>4
<1> QED BY <1>1, <1>7, <1>8, <1>9 DEF Shape

LEMMA MoreSound ==
  ASSUME NEW I, NEW u, NEW i \in Inodes, Loose(I, u, i), NEW d \in Inodes, NEW n \in Names, i # Root, ~Has(I, d, n, i),
         NEW J, NEW s, NEW h, NEW p, Edited(I, J, d, s, h, i, 1, p), Shape(J), More(I, J, d, n, i)
  PROVE  Sound(J, u) /\ J[i].nlink # 0
<1>1. I \in Table /\ J \in Table /\ u \in Uses /\ I[i].kind # "free"
  BY DEF Edited, Loose, Base, Shape
<1>0. MoreAt(I, J, d, n, i)
  BY <1>1, MoreSpots
<1>2. \A j \in Inodes : j # i => Spots(J, j) = Spots(I, j)
  BY <1>0 DEF MoreAt, Elsewhere
<1>3. Spots(J, i) = Spots(I, i) \cup {<<d, n>>}
  BY <1>0 DEF MoreAt
<1>4. \A j \in Inodes : J[j].kind = I[j].kind /\ J[j].refs = I[j].refs /\ J[j].lost = I[j].lost
  BY DEF Edited
<1>5. \A j \in Inodes : j # i => J[j].nlink = I[j].nlink
  BY DEF Edited
<1>6. J[i].nlink = I[i].nlink + 1
  BY DEF Edited
<1>7. Cardinality(Spots(J, i)) = Cardinality(Spots(I, i)) + 1
  <2>1. <<d, n>> \notin Spots(I, i) /\ IsFiniteSet(Spots(I, i))
    BY <1>1, SpotsAre
  <2> QED BY <2>1, <1>3, FS_AddElement
<1>8. I[i].lost \in Nat /\ Cardinality(Spots(I, i)) \in Nat /\ I[i].nlink \in Int
  BY <1>1, TableFields, SpotsAre
<1>9. I[i].nlink = (I[i].lost + Cardinality(Spots(I, i))) + One(i = Root)
  BY DEF Loose, Base, Counted
<1>10. J[i].nlink = (J[i].lost + Cardinality(Spots(J, i))) + One(i = Root)
  BY <1>4, <1>6, <1>7, <1>8, <1>9 DEF One
<1>11. J[i].nlink # 0
  BY <1>4, <1>7, <1>8, <1>10 DEF One
<1>12. ASSUME NEW j \in Inodes PROVE Counted(J, j, u)
  <2>1. Counted(I, j, u)
    BY DEF Loose, Base
  <2>2. CASE j # i
    BY <2>1, <2>2, <1>2, <1>4, <1>5 DEF Counted
  <2>3. CASE j = i
    BY <2>1, <2>3, <1>10, <1>4 DEF Counted
  <2> QED BY <2>2, <2>3
<1>13. ASSUME NEW j \in Inodes PROVE Lasts(J, j, u)
  <2>1. CASE j = i
    BY <2>1, <1>1, <1>4, <1>11 DEF Lasts
  <2>2. CASE j # i
    <3>1. Lasts(I, j, u)
      BY <2>2 DEF Loose
    <3> QED BY <3>1, <2>2, <1>4, <1>5 DEF Lasts
  <2> QED BY <2>1, <2>2
<1> QED BY <1>1, <1>11, <1>12, <1>13 DEF Sound, Base

LEMMA AddSound ==
  ASSUME NEW I, NEW u, NEW i \in Inodes, Loose(I, u, i), NEW d \in Inodes, NEW n \in Names, IsDir(I, d),
         n \notin NamesIn(I, d), i # Root, i # d, IsDir(I, i) => Spots(I, i) = {} /\ NotBelow(I, i, d)
  PROVE  /\ Sound(DirAdd(I, d, n, i), u)
         /\ Added(I, DirAdd(I, d, n, i), d, n, i)
         /\ More(I, DirAdd(I, d, n, i), d, n, i)
<1> DEFINE J == DirAdd(I, d, n, i)
           p == IF IsDir(I, i) THEN d ELSE I[i].parent
<1>1. I \in Table /\ Shape(I) /\ DirOK(I, d) /\ I[i].kind # "free"
  BY DEF Loose, Base, Shape
<1>2. ~Has(I, d, n, i)
  BY <1>1, HasIs
<1>3. PICK s, h : /\ Edited(I, J, d, s, h, i, 1, p)
                  /\ s = Append(I[d].dents, [name |-> n, ino |-> i])
                  /\ DentsOK(s, h) /\ ToSet(s) = Entries(I, d) \cup {[name |-> n, ino |-> i]}
  BY <1>1, DirAddIs
<1> HIDE DEF J
<1>4. IsDir(I, i) => p = d
  OBVIOUS
<1> HIDE DEF p
<1>5. More(I, J, d, n, i)
  BY <1>1, <1>3, EditNames
<1>6. Shape(J)
  BY <1>1, <1>3, <1>4, <1>5, MoreShape
<1>7. Sound(J, u) /\ J[i].nlink # 0
  BY <1>2, <1>3, <1>5, <1>6, MoreSound
<1>8. Added(I, J, d, n, i)
  <2>1. \A j \in Inodes : J[j].kind = I[j].kind /\ J[j].target = I[j].target
    BY <1>3 DEF Edited
  <2>2. \A j \in Inodes : j # d => J[j].dents = I[j].dents /\ J[j].htab = I[j].htab
    BY <1>3 DEF Edited
  <2>3. \A j \in Inodes : j # i => J[j].parent = I[j].parent
    BY <1>3 DEF Edited
  <2>4. \A j \in Inodes : j # i /\ j # d => SameNode(I, J, j)
    BY <2>1, <2>2, <2>3 DEF SameNode
  <2>5. J[d].dents = Append(I[d].dents, [name |-> n, ino |-> i]) /\ J \in Table
    BY <1>3 DEF Edited
  <2> QED BY <1>7, <2>1, <2>2, <2>3, <2>4, <2>5 DEF Added
<1> QED BY <1>5, <1>7, <1>8 DEF J

(* ---- a new inode ---- *)

PutNode(I, x, node) == [I EXCEPT ![x] = node]
IsNew(node, r) ==
  /\ node \in InodeRec /\ node.kind # "free" /\ node.nlink = 0 /\ node.lost = 0 /\ node.refs = r
  /\ node.dents = <<>> /\ node.htab = <<>>
Others(I, J, x) == \A j \in Inodes : j # x => J[j] = I[j]

LEMMA FreeNode ==
  ASSUME NEW I, NEW u, Sound(I, u), NEW x \in Inodes, I[x].kind = "free"
  PROVE  x # Root /\ u[x] = 0 /\ Spots(I, x) = {} /\ I[x] = Free
<1>1. Lasts(I, x, u) /\ Counted(I, x, u) /\ FreeOK(I, x) /\ I \in Table
  BY DEF Sound, Base, Shape
<1>2. x # Root /\ u[x] = 0 /\ I[x].nlink = 0 /\ I[x] = Free
  BY <1>1 DEF Lasts, FreeOK
<1>3. Cardinality(Spots(I, x)) \in Nat /\ (Cardinality(Spots(I, x)) = 0 <=> Spots(I, x) = {}) /\ I[x].lost \in Nat
  BY <1>1, SpotsAre, TableFields
<1>4. I[x].nlink = (I[x].lost + Cardinality(Spots(I, x))) + One(x = Root)
  BY <1>1 DEF Counted
<1>5. Cardinality(Spots(I, x)) = 0
  BY <1>2, <1>3, <1>4 DEF One
<1> QED BY <1>2, <1>3, <1>5

LEMMA NewShape ==
  ASSUME NEW I, Shape(I), NEW x \in Inodes, I[x] = Free, Spots(I, x) = {}, x # Root, NEW node, NEW r, IsNew(node, r),
         NEW J, J = PutNode(I, x, node)
  PROVE  /\ Shape(J) /\ J[x] = node /\ Others(I, J, x)
         /\ \A j \in Inodes : Spots(J, j) = Spots(I, j)
<1>1. I \in Table
  BY DEF Shape
<1>2. J \in Table
  BY <1>1 DEF PutNode, IsNew, Table
<1>3. J[x] = node /\ \A j \in Inodes : j # x => J[j] = I[j]
  BY <1>1 DEF PutNode, Table
<1>4. \A j \in Inodes : J[j].dents = I[j].dents
  <2>1. J[x].dents = <<>> /\ I[x].dents = <<>>
    BY <1>3, FreeIs DEF IsNew
  <2> QED BY <2>1, <1>3
<1>5. \A j : Spots(J, j) = Spots(I, j)
  BY <1>4, SameSpots
<1>6. ASSUME NEW j \in Inodes PROVE DirOK(J, j) /\ FreeOK(J, j) /\ OneName(J, j)
  <2>1. DirOK(I, j) /\ FreeOK(I, j) /\ OneName(I, j)
    BY DEF Shape
  <2>2. CASE j = x
    <3>1. J[j].dents = <<>> /\ J[j].htab = <<>> /\ J[j].kind # "free"
      BY <2>2, <1>3 DEF IsNew
    <3>2. DirOK(J, j)
      BY <3>1, NoneOK DEF DirOK
    <3>3. OneName(J, j)
      BY <2>2, <1>5 DEF OneName
    <3> QED BY <3>1, <3>2, <3>3 DEF FreeOK
  <2>3. CASE j # x
    <3>1. J[j] = I[j]
      BY <2>3, <1>3
    <3>2. DirOK(J, j) /\ FreeOK(J, j)
      BY <2>1, <3>1 DEF DirOK, FreeOK
    <3>3. OneName(J, j)
      BY <2>1, <3>1, <1>5 DEF OneName, IsDir
    <3> QED BY <3>2, <3>3
  <2> QED BY <2>2, <2>3
<1>7. NoLoop(J)
  <2>1. \A j \in NamedDirs(J) : j \in Inodes /\ j # x /\ J[j] = I[j] /\ j \in NamedDirs(I)
    BY <1>3, <1>5 DEF NamedDirs, IsDir
  <2>2. NoLoop(I)
    BY DEF Shape
  <2>3. ASSUME NEW S \in SUBSET NamedDirs(J), S # {} PROVE \E y \in S : J[y].parent \notin S
    <3>1. S \in SUBSET NamedDirs(I)
      BY <2>1
    <3>2. PICK y \in S : I[y].parent \notin S
      BY <3>1, <2>2, <2>3 DEF NoLoop
    <3> QED BY <3>2, <2>1
  <2> QED BY <2>3 DEF NoLoop
<1>8. Spots(J, Root) = {} /\ IsDir(J, Root)
  <2>1. Root \in Inodes /\ Spots(I, Root) = {} /\ IsDir(I, Root)
    BY Constants DEF Shape
  <2>2. J[Root] = I[Root]
    BY <2>1, <1>3
  <2> QED BY <2>1, <2>2, <1>5 DEF IsDir
<1> QED BY <1>2, <1>3, <1>5, <1>6, <1>7, <1>8 DEF Shape, Others

LEMMA NewSound ==
  ASSUME NEW I, NEW u, Sound(I, u), NEW x \in Inodes, I[x].kind = "free", NEW node, NEW r \in Nat, IsNew(node, r),
         NEW J, J = PutNode(I, x, node), NEW v, v = UsersAt(u, x, r)
  PROVE  /\ Loose(J, v, x) /\ J[x] = node /\ Others(I, J, x) /\ Spots(J, x) = {} /\ x # Root
         /\ r > 0 => Sound(J, v)
         /\ r = 0 => v = u
<1>1. I \in Table /\ Shape(I) /\ u \in Uses
  BY SoundIs
<1>2. x # Root /\ u[x] = 0 /\ Spots(I, x) = {} /\ I[x] = Free
  BY FreeNode
<1>3. Shape(J) /\ J[x] = node /\ Others(I, J, x) /\ \A j \in Inodes : Spots(J, j) = Spots(I, j)
  BY <1>1, <1>2, NewShape
<1>4. v \in Uses /\ Set(u, v, x, r)
  BY <1>1 DEF Uses, UsersAt, Set
<1>5. v[x] = r /\ \A j \in Inodes : j # x => v[j] = u[j]
  BY <1>4 DEF Set
<1>6. ASSUME NEW j \in Inodes, j # x PROVE Counted(J, j, v) /\ Lasts(J, j, v)
  <2>1. Counted(I, j, u) /\ Lasts(I, j, u)
    BY DEF Sound, Base
  <2>2. J[j] = I[j] /\ v[j] = u[j] /\ Spots(J, j) = Spots(I, j)
    BY <1>3, <1>5, <1>6 DEF Others
  <2> QED BY <2>1, <2>2 DEF Counted, Lasts
<1>7. Counted(J, x, v)
  <2>1. Cardinality(Spots(J, x)) = 0
    BY <1>2, <1>3, FS_EmptySet
  <2> QED BY <2>1, <1>2, <1>3, <1>5 DEF IsNew, Counted, One
<1>8. Base(J, v)
  BY <1>3, <1>4, <1>6, <1>7 DEF Base
<1>9. J[x].kind # "free"
  BY <1>3 DEF IsNew
<1>10. Loose(J, v, x)
  BY <1>6, <1>8, <1>9 DEF Loose
<1>11. r > 0 => Sound(J, v)
  <2> SUFFICES ASSUME r > 0 PROVE Sound(J, v)
    OBVIOUS
  <2>1. Lasts(J, x, v)
    BY <1>5, <1>9 DEF Lasts
  <2> QED BY <2>1, <1>6, <1>8 DEF Sound
<1>12. r = 0 => v = u
  BY <1>1, <1>2 DEF UsersAt, Uses
<1> QED BY <1>2, <1>3, <1>10, <1>11, <1>12

\* A new inode with a name.
LEMMA MakeSound ==
  ASSUME NEW I, NEW u, Sound(I, u), NEW x \in Inodes, I[x].kind = "free", NEW node, IsNew(node, 0),
         NEW d \in Inodes, IsDir(I, d), NEW n \in Names, n \notin NamesIn(I, d),
         NEW J, J = PutNode(I, x, node), NEW K, K = DirAdd(J, d, n, x)
  PROVE  /\ Sound(K, u) /\ x # d /\ Others(I, J, x) /\ J[x] = node
         /\ Added(J, K, d, n, x) /\ More(I, K, d, n, x)
<1> DEFINE v == UsersAt(u, x, 0)
<1>1. /\ Loose(J, v, x) /\ J[x] = node /\ Others(I, J, x) /\ Spots(J, x) = {} /\ x # Root
      /\ 0 = 0 => v = u
  BY NewSound
<1> HIDE DEF v
<1>2. Loose(J, u, x)
  BY <1>1
<1>3. x # d
  BY DEF IsDir
<1>4. J[d] = I[d] /\ IsDir(J, d)
  BY <1>1, <1>3 DEF Others, IsDir
<1>5. n \notin NamesIn(J, d)
  BY <1>4 DEF NamesIn, Entries
<1>6. NotBelow(J, x, d)
  <2> DEFINE T == Inodes \ {x}
  <2>1. ASSUME NEW y \in T \cap NamedDirs(J) PROVE J[y].parent \in T
    <3>1. Shape(J) /\ J \in Table /\ Shape(I) /\ I \in Table
      BY <1>2, SoundIs DEF Loose, Base, Shape
    <3>2. y \in Inodes /\ y # x /\ IsDir(J, y) /\ Spots(J, y) # {}
      BY DEF NamedDirs
    <3>3. PICK z \in Spots(J, y) : TRUE
      BY <3>2
    <3>4. J[y].parent = z[1] /\ z[1] \in Inodes /\ Has(J, z[1], z[2], y)
      BY <3>1, <3>2, SpotsAre, ShapeIs DEF OneName
    <3>5. z[1] # x
      <4>1. IsDir(I, x) => FALSE
        BY DEF IsDir
      <4>2. Entries(J, z[1]) # {}
        BY <3>4 DEF Has
      <4>3. J[z[1]].dents # <<>>
        BY <4>2, <3>1, <3>4, EntriesAre
      <4> QED BY <4>3, <1>1 DEF IsNew
    <3> QED BY <3>4, <3>5
  <2>2. d \in T /\ x \notin T /\ T \in SUBSET Inodes
    BY <1>3
  <2> HIDE DEF T
  <2>3. Above(J, T, x, d)
    BY <2>1, <2>2 DEF Above
  <2> QED BY <2>3 DEF NotBelow
<1>7. Sound(K, u) /\ Added(J, K, d, n, x) /\ More(J, K, d, n, x)
  BY <1>1, <1>2, <1>3, <1>4, <1>5, <1>6, AddSound
<1>8. \A y \in Inodes : \A m, j : Has(J, y, m, j) = Has(I, y, m, j)
  <2> SUFFICES ASSUME NEW y \in Inodes PROVE \A m, j : Has(J, y, m, j) = Has(I, y, m, j)
    OBVIOUS
  <2>1. J[y].dents = I[y].dents
    <3>1. CASE y = x
      <4>1. I[x].dents = <<>> /\ J[x].dents = <<>>
        BY <1>1, FreeNode, FreeIs DEF IsNew
      <4> QED BY <3>1, <4>1
    <3>2. CASE y # x
      BY <3>2, <1>1 DEF Others
    <3> QED BY <3>1, <3>2
  <2> QED BY <2>1, SameEntries
<1>9. More(I, K, d, n, x)
  BY <1>7, <1>8 DEF More
<1> QED BY <1>1, <1>3, <1>7, <1>9

(* ---- who uses what ---- *)

UsesBy(c, a, b) == [i \in Inodes |-> (Tally(Procs, c, i) + Tally(Files, a, i)) + Tally(Files, b, i)]
\* x takes i in h, and has nothing in g.
Takes(D, g, h, x, i) == x \in D /\ g[x] = None /\ h[x] = i /\ \A z \in D : z # x => h[z] = g[z]

LEMMA TallyTakes ==
  ASSUME NEW D, IsFiniteSet(D), NEW g, NEW h, NEW x, NEW i \in Inodes, Takes(D, g, h, x, i), NEW j \in Inodes
  PROVE  Tally(D, h, j) = Tally(D, g, j) + One(j = i) /\ Tally(D, g, j) \in Nat
<1>1. x \in D /\ \A z \in D : z # x => h[z] = g[z]
  BY DEF Takes
<1>2. Tally(D, h, j) = (Tally(D, g, j) - One(g[x] = j)) + One(h[x] = j)
  BY <1>1, TallyChange
<1>3. g[x] # j
  BY Constants DEF Takes
<1>4. h[x] = j <=> j = i
  BY DEF Takes
<1>5. Tally(D, g, j) \in Nat
  BY TallyNat
<1> QED BY <1>2, <1>3, <1>4, <1>5 DEF One

LEMMA UsesNat == ASSUME NEW c, NEW a, NEW b PROVE UsesBy(c, a, b) \in Uses
<1>1. \A i : Tally(Procs, c, i) \in Nat /\ Tally(Files, a, i) \in Nat /\ Tally(Files, b, i) \in Nat
  BY TallyNat, Constants
<1> QED BY <1>1 DEF UsesBy, Uses

LEMMA PlusIs ==
  ASSUME NEW u \in Uses, NEW i \in Inodes
  PROVE  /\ Plus(u, i) \in Uses /\ Plus(u, i)[i] > 0 /\ Minus(Plus(u, i), i) = u
         /\ \A j \in Inodes : Plus(u, i)[j] = u[j] + One(j = i)
<1>1. u[i] \in Nat /\ (u[i] + 1) - 1 = u[i]
  BY DEF Uses
<1>2. Plus(u, i) \in Uses /\ Plus(u, i)[i] = u[i] + 1 /\ \A j \in Inodes : j # i => Plus(u, i)[j] = u[j]
  BY <1>1 DEF Plus, Uses
<1>3. Minus(Plus(u, i), i) = u
  BY <1>1 DEF Plus, Minus, Uses
<1>4. ASSUME NEW j \in Inodes PROVE Plus(u, i)[j] = u[j] + One(j = i)
  <2>1. u[j] \in Nat
    BY DEF Uses
  <2> QED BY <1>2, <2>1 DEF One
<1> QED BY <1>1, <1>2, <1>3, <1>4

LEMMA PlusAny ==
  ASSUME NEW u \in Uses, NEW v \in Uses, NEW i \in Inodes, \A j \in Inodes : v[j] = u[j] + One(j = i)
  PROVE  v = Plus(u, i)
<1>1. Plus(u, i) \in Uses /\ \A j \in Inodes : Plus(u, i)[j] = u[j] + One(j = i)
  BY PlusIs
<1>2. \A j \in Inodes : v[j] = Plus(u, i)[j]
  BY <1>1
<1> HIDE DEF Plus
<1> QED BY <1>1, <1>2 DEF Uses

LEMMA CwdTakes ==
  ASSUME NEW c, NEW d, NEW a, NEW b, NEW x, NEW i \in Inodes, Takes(Procs, c, d, x, i)
  PROVE  UsesBy(d, a, b) = Plus(UsesBy(c, a, b), i)
<1> DEFINE u == UsesBy(c, a, b)
           v == UsesBy(d, a, b)
<1>1. u \in Uses /\ v \in Uses
  BY UsesNat
<1>2. ASSUME NEW j \in Inodes PROVE v[j] = u[j] + One(j = i)
  <2>1. Tally(Procs, d, j) = Tally(Procs, c, j) + One(j = i) /\ Tally(Procs, c, j) \in Nat
    BY Constants, TallyTakes
  <2>2. Tally(Files, a, j) \in Nat /\ Tally(Files, b, j) \in Nat /\ One(j = i) \in Nat
    BY TallyNat, Constants DEF One
  <2>3. u[j] = (Tally(Procs, c, j) + Tally(Files, a, j)) + Tally(Files, b, j)
        /\ v[j] = (Tally(Procs, d, j) + Tally(Files, a, j)) + Tally(Files, b, j)
    BY DEF UsesBy
  <2> QED BY <2>1, <2>2, <2>3
<1> HIDE DEF u, v
<1>3. v = Plus(u, i)
  BY <1>1, <1>2, PlusAny
<1> QED BY <1>3 DEF u, v

LEMMA InoTakes ==
  ASSUME NEW c, NEW a, NEW e, NEW b, NEW x, NEW i \in Inodes, Takes(Files, a, e, x, i)
  PROVE  UsesBy(c, e, b) = Plus(UsesBy(c, a, b), i)
<1> DEFINE u == UsesBy(c, a, b)
           v == UsesBy(c, e, b)
<1>1. u \in Uses /\ v \in Uses
  BY UsesNat
<1>2. ASSUME NEW j \in Inodes PROVE v[j] = u[j] + One(j = i)
  <2>1. Tally(Files, e, j) = Tally(Files, a, j) + One(j = i) /\ Tally(Files, a, j) \in Nat
    BY Constants, TallyTakes
  <2>2. Tally(Procs, c, j) \in Nat /\ Tally(Files, b, j) \in Nat /\ One(j = i) \in Nat
    BY TallyNat, Constants DEF One
  <2>3. u[j] = (Tally(Procs, c, j) + Tally(Files, a, j)) + Tally(Files, b, j)
        /\ v[j] = (Tally(Procs, c, j) + Tally(Files, e, j)) + Tally(Files, b, j)
    BY DEF UsesBy
  <2> QED BY <2>1, <2>2, <2>3
<1> HIDE DEF u, v
<1>3. v = Plus(u, i)
  BY <1>1, <1>2, PlusAny
<1> QED BY <1>3 DEF u, v

LEMMA DirTakes ==
  ASSUME NEW c, NEW a, NEW b, NEW e, NEW x, NEW i \in Inodes, Takes(Files, b, e, x, i)
  PROVE  UsesBy(c, a, e) = Plus(UsesBy(c, a, b), i)
<1> DEFINE u == UsesBy(c, a, b)
           v == UsesBy(c, a, e)
<1>1. u \in Uses /\ v \in Uses
  BY UsesNat
<1>2. ASSUME NEW j \in Inodes PROVE v[j] = u[j] + One(j = i)
  <2>1. Tally(Files, e, j) = Tally(Files, b, j) + One(j = i) /\ Tally(Files, b, j) \in Nat
    BY Constants, TallyTakes
  <2>2. Tally(Procs, c, j) \in Nat /\ Tally(Files, a, j) \in Nat /\ One(j = i) \in Nat
    BY TallyNat, Constants DEF One
  <2>3. u[j] = (Tally(Procs, c, j) + Tally(Files, a, j)) + Tally(Files, b, j)
        /\ v[j] = (Tally(Procs, c, j) + Tally(Files, a, j)) + Tally(Files, e, j)
    BY DEF UsesBy
  <2> QED BY <2>1, <2>2, <2>3
<1> HIDE DEF u, v
<1>3. v = Plus(u, i)
  BY <1>1, <1>2, PlusAny
<1> QED BY <1>3 DEF u, v

\* One who lets go of i.
LEMMA LetGoPlus ==
  ASSUME NEW I, NEW u \in Uses, NEW x \in Inodes, Sound(I, Plus(u, x))
  PROVE  Sound(LetGo(I, x), u) /\ RemainsBut(I, LetGo(I, x), x)
<1>1. Plus(u, x)[x] > 0 /\ Minus(Plus(u, x), x) = u
  BY PlusIs
<1> QED BY <1>1, LetGoSound

(* ---- files are put ---- *)

FileRec == [ino : Inodes \cup {None}, dir : Inodes \cup {None}, name : Names \cup {""}, pos : Nat,
            read : [Names -> Nat], stayed : SUBSET Names, gone : Nat]
FileTable == [Files -> FileRec]
Inos(F) == [f \in Files |-> F[f].ino]
Dirs(F) == [f \in Files |-> F[f].dir]
Users(C, F) == UsesBy(C, Inos(F), Dirs(F))
PutFiles(F, S) == [f \in Files |-> IF f \in S THEN Closed ELSE F[f]]

LEMMA ClosedIs == Closed \in FileRec /\ Closed.ino = None /\ Closed.dir = None /\ Closed.pos = 0 /\ Closed.stayed = {} /\ Closed.gone = 0
<1>1. None \in Inodes \cup {None} /\ [n \in Names |-> 0] \in [Names -> Nat]
  BY DEF None
<1> QED BY <1>1 DEF Closed, FileRec

LEMMA RemainsOnly ==
  ASSUME NEW I, NEW J, NEW x, RemainsBut(I, J, x) PROVE Remains(I, J)
BY DEF RemainsBut, Remains

LEMMA RemainsTrans ==
  ASSUME NEW I, NEW J, NEW K, Remains(I, J), Remains(J, K)
  PROVE  Remains(I, K)
BY DEF Remains, SameNode

\* f of files F is put.
PutOne(F, J, f) == LET K == LetGo(J, F[f].ino) IN IF F[f].dir = None THEN K ELSE LetGo(K, F[f].dir)

LEMMA PutOneSound ==
  ASSUME NEW C, NEW F, NEW G, NEW f \in Files, F[f].ino \in Inodes, F[f].dir \in Inodes \cup {None},
         G[f] = Closed, \A g \in Files : g # f => G[g] = F[g],
         NEW I, Sound(I, Users(C, F))
  PROVE  Sound(PutOne(F, I, f), Users(C, G)) /\ Remains(I, PutOne(F, I, f))
<1> DEFINE i == F[f].ino
           d == F[f].dir
           J == LetGo(I, i)
           u == UsesBy(C, Inos(G), Dirs(F))
           v == Users(C, G)
<1>1. Takes(Files, Inos(G), Inos(F), f, i)
  BY ClosedIs DEF Takes, Inos
<1>2. Users(C, F) = Plus(u, i) /\ u \in Uses /\ v \in Uses
  BY <1>1, InoTakes, UsesNat DEF Users
<1> HIDE DEF u
<1>3. Sound(J, u) /\ Remains(I, J)
  BY <1>2, LetGoPlus, RemainsOnly
<1>4. CASE d = None
  <2>1. Dirs(G) = Dirs(F)
    <3>1. \A g \in Files : G[g].dir = F[g].dir
      BY <1>4, ClosedIs
    <3> QED BY <3>1 DEF Dirs
  <2>2. u = v
    BY <2>1 DEF u, Users
  <2>3. PutOne(F, I, f) = J
    BY <1>4 DEF PutOne
  <2> QED BY <2>2, <2>3, <1>3
<1>5. CASE d # None
  <2>1. d \in Inodes
    BY <1>5
  <2>2. Takes(Files, Dirs(G), Dirs(F), f, d)
    BY ClosedIs DEF Takes, Dirs
  <2>3. u = Plus(v, d)
    BY <2>1, <2>2, DirTakes DEF u, Users
  <2> HIDE DEF v, J, d
  <2>4. Sound(LetGo(J, d), v) /\ Remains(J, LetGo(J, d))
    BY <1>2, <1>3, <2>1, <2>3, LetGoPlus, RemainsOnly
  <2>5. PutOne(F, I, f) = LetGo(J, d)
    BY <1>5 DEF PutOne, J, d
  <2> QED BY <1>3, <2>4, <2>5, RemainsTrans DEF v
<1> QED BY <1>4, <1>5

PutStep(S, J, k) == IF k \in S THEN PutOne(files, J, k) ELSE J
After(C, S, k) == Users(C, PutFiles(files, S \cap 1..k))

LEMMA PutRuns ==
  ASSUME files \in FileTable, NEW S \in SUBSET Files, \A f \in S : files[f].ino \in Inodes,
         NEW C, NEW I, Sound(I, Users(C, files)), NEW g, g[0] = I,
         \A k \in Nat : Sound(g[k], After(C, S, k)) => g[k + 1] = PutStep(S, g[k], k + 1)
  PROVE  \A k \in Nat : Sound(g[k], After(C, S, k)) /\ Remains(I, g[k])
<1> DEFINE T == {k \in Nat : Sound(g[k], After(C, S, k)) /\ Remains(I, g[k])}
<1>1. 0 \in T
  <2>1. PutFiles(files, S \cap 1..0) = files
    <3>1. S \cap 1..0 = {}
      OBVIOUS
    <3> QED BY <3>1 DEF PutFiles, FileTable
  <2>2. Remains(I, I)
    BY DEF Remains, SameNode
  <2> QED BY <2>1, <2>2 DEF After
<1>2. ASSUME NEW k \in T PROVE k + 1 \in T
  <2>1. k \in Nat /\ Sound(g[k], After(C, S, k)) /\ Remains(I, g[k])
    OBVIOUS
  <2>2. g[k + 1] = PutStep(S, g[k], k + 1)
    BY <2>1
  <2>3. CASE k + 1 \notin S
    <3>1. S \cap 1..(k + 1) = S \cap 1..k
      BY <2>1, <2>3
    <3>2. g[k + 1] = g[k]
      BY <2>2, <2>3 DEF PutStep
    <3>3. After(C, S, k + 1) = After(C, S, k)
      BY <3>1 DEF After
    <3> QED BY <2>1, <3>2, <3>3
  <2>4. CASE k + 1 \in S
    <3> DEFINE F == PutFiles(files, S \cap 1..k)
               G == PutFiles(files, S \cap 1..(k + 1))
               f == k + 1
    <3>1. f \in Files /\ f \in S /\ f \notin S \cap 1..k /\ f \in S \cap 1..(k + 1)
      BY <2>1, <2>4
    <3>2. \A h \in Files : h # f => (h \in S \cap 1..k <=> h \in S \cap 1..(k + 1))
      <4>1. Files \subseteq Nat
        BY Constants
      <4> QED BY <4>1, <2>1
    <3>3. F[f] = files[f] /\ G[f] = Closed /\ \A h \in Files : h # f => G[h] = F[h]
      BY <3>1, <3>2 DEF PutFiles
    <3>4. files[f].ino \in Inodes /\ files[f].dir \in Inodes \cup {None}
      BY <3>1 DEF FileTable, FileRec
    <3>5. g[k + 1] = PutOne(F, g[k], f)
      BY <2>2, <3>1, <3>3 DEF PutStep, PutOne
    <3>6. Sound(g[k], Users(C, F))
      BY <2>1 DEF After
    <3>7. Users(C, G) = After(C, S, k + 1)
      BY DEF After
    <3> HIDE DEF F, G, f
    <3>8. Sound(PutOne(F, g[k], f), Users(C, G)) /\ Remains(g[k], PutOne(F, g[k], f))
      BY <3>1, <3>3, <3>4, <3>6, PutOneSound
    <3>9. Sound(g[k + 1], After(C, S, k + 1)) /\ Remains(I, g[k + 1])
      BY <3>5, <3>7, <3>8, <2>1, RemainsTrans
    <3> QED BY <3>9, <2>1
  <2> QED BY <2>3, <2>4
<1>3. T \in SUBSET Nat
  OBVIOUS
<1> HIDE DEF T
<1>4. \A k \in Nat : k \in T
  BY <1>1, <1>2, <1>3, AllNat
<1> QED BY <1>4 DEF T

PutSteps(I, S, g) ==
  g = [k \in Nat |-> IF k = 0 THEN I ELSE IF k \in S THEN FilePut(g[k - 1], k) ELSE g[k - 1]]

LEMMA PutSound ==
  ASSUME files \in FileTable, NEW S \in SUBSET Files, \A f \in S : files[f].ino \in Inodes,
         NEW C, NEW I, Sound(I, Users(C, files))
  PROVE  Sound(Put(I, S), Users(C, PutFiles(files, S))) /\ Remains(I, Put(I, S))
<1> DEFINE st == [x \in Nat \X Table |-> IF PutStep(S, x[2], x[1]) \in Table THEN PutStep(S, x[2], x[1]) ELSE x[2]]
<1>1. st \in [Nat \X Table -> Table]
  OBVIOUS
<1>2. I \in Table
  BY SoundIs
<1>3. PICK g \in [Nat -> Table] : Iterates(g, I, st)
  <2> HIDE DEF st
  <2> QED BY <1>1, <1>2, Recursion
<1>4. \A k \in Nat : \A J \in Table : PutStep(S, J, k + 1) \in Table => st[<<k + 1, J>>] = PutStep(S, J, k + 1)
  <2> SUFFICES ASSUME NEW k \in Nat, NEW J \in Table, PutStep(S, J, k + 1) \in Table PROVE st[<<k + 1, J>>] = PutStep(S, J, k + 1)
    OBVIOUS
  <2>1. <<k + 1, J>> \in Nat \X Table
    OBVIOUS
  <2> QED BY <2>1
<1> HIDE DEF st
<1>5. ASSUME NEW k \in Nat, NEW J, Sound(J, After(C, S, k)) PROVE PutStep(S, J, k + 1) \in Table
  <2> DEFINE F == PutFiles(files, S \cap 1..k)
             G == PutFiles(files, S \cap 1..(k + 1))
             f == k + 1
  <2>1. CASE f \notin S
    BY <2>1, <1>5, SoundIs DEF PutStep
  <2>2. CASE f \in S
    <3>1. f \in Files /\ f \in S /\ f \notin S \cap 1..k /\ f \in S \cap 1..(k + 1)
      BY <2>2
    <3>2. \A h \in Files : h # f => (h \in S \cap 1..k <=> h \in S \cap 1..(k + 1))
      <4>1. Files \subseteq Nat
        BY Constants
      <4> QED BY <4>1
    <3>3. F[f] = files[f] /\ G[f] = Closed /\ \A h \in Files : h # f => G[h] = F[h]
      BY <3>1, <3>2 DEF PutFiles
    <3>4. files[f].ino \in Inodes /\ files[f].dir \in Inodes \cup {None}
      BY <3>1 DEF FileTable, FileRec
    <3>5. PutStep(S, J, k + 1) = PutOne(F, J, f)
      BY <3>1, <3>3 DEF PutStep, PutOne
    <3>6. Sound(J, Users(C, F))
      BY <1>5 DEF After
    <3> HIDE DEF F, G, f
    <3>7. Sound(PutOne(F, J, f), Users(C, G))
      BY <3>1, <3>3, <3>4, <3>6, PutOneSound
    <3> QED BY <3>5, <3>7, SoundIs
  <2> QED BY <2>1, <2>2
<1>6. ASSUME NEW k \in Nat, Sound(g[k], After(C, S, k)) PROVE g[k + 1] = PutStep(S, g[k], k + 1)
  <2>1. PutStep(S, g[k], k + 1) \in Table
    BY <1>5, <1>6
  <2>2. g[k + 1] = st[<<k + 1, g[k]>>] /\ g[k] \in Table
    BY <1>3 DEF Iterates
  <2> QED BY <2>1, <2>2, <1>4
<1>7. g[0] = I
  BY <1>3 DEF Iterates
<1>8. \A k \in Nat : Sound(g[k], After(C, S, k))
  BY <1>6, <1>7, PutRuns
<1>9. \A J, k : PutOne(files, J, k) = FilePut(J, k)
  BY DEF PutOne, FilePut
<1>10. PutSteps(I, S, g)
  <2>1. ASSUME NEW k \in Nat PROVE g[k] = IF k = 0 THEN I ELSE IF k \in S THEN FilePut(g[k - 1], k) ELSE g[k - 1]
    <3>1. CASE k = 0
      BY <3>1, <1>7
    <3>2. CASE k # 0
      <4>1. k - 1 \in Nat /\ (k - 1) + 1 = k
        BY <3>2
      <4>2. g[(k - 1) + 1] = PutStep(S, g[k - 1], (k - 1) + 1)
        BY <4>1, <1>6, <1>8
      <4>3. g[k] = PutStep(S, g[k - 1], k)
        BY <4>1, <4>2
      <4> QED BY <3>2, <4>3, <1>9 DEF PutStep
    <3> QED BY <3>1, <3>2
  <2> QED BY <2>1 DEF PutSteps
<1> DEFINE s == CHOOSE r : PutSteps(I, S, r)
<1>11. PutSteps(I, S, s)
  BY <1>10
<1>12. Put(I, S) = s[Cardinality(Files)]
  BY DEF Put, PutSteps
<1> HIDE DEF s
<1>13. s[0] = I
  BY <1>11 DEF PutSteps
<1>14. ASSUME NEW k \in Nat PROVE s[k + 1] = PutStep(S, s[k], k + 1)
  <2>1. k + 1 \in Nat /\ k + 1 # 0 /\ (k + 1) - 1 = k
    OBVIOUS
  <2>2. s[k + 1] = IF k + 1 \in S THEN FilePut(s[k], k + 1) ELSE s[k]
    BY <2>1, <1>11 DEF PutSteps
  <2> QED BY <2>2, <1>9 DEF PutStep
<1>15. \A k \in Nat : Sound(s[k], After(C, S, k)) /\ Remains(I, s[k])
  BY <1>13, <1>14, PutRuns
<1>16. Cardinality(Files) \in Nat /\ S \cap 1..Cardinality(Files) = S
  BY Constants
<1> QED BY <1>12, <1>15, <1>16 DEF After

(* ---- where paths lead ---- *)

Alive(I) == {None} \cup {i \in Inodes : I[i].kind # "free"}
DirOrNone(I, i) == i = None \/ (i \in Inodes /\ IsDir(I, i))
LeadsOK(I) == {l \in [Inodes \X Inodes -> Inodes \cup {None}] :
                 \A d, link \in Inodes : d \in Alive(I) => l[<<d, link>>] \in Alive(I)}
Whole(I) == \E u : Sound(I, u)

LEMMA WholeIs ==
  ASSUME NEW I, Whole(I)
  PROVE  /\ I \in Table /\ \A d \in Inodes : DirOK(I, d)
         /\ \A d \in Inodes : \A n, i : Has(I, d, n, i) => IsDir(I, d) /\ i \in Inodes /\ I[i].kind # "free"
         /\ Root \in Inodes /\ IsDir(I, Root)
         /\ \A i : DirOrNone(I, i) => i \in Alive(I)
<1>1. PICK u : Sound(I, u)
  BY DEF Whole
<1>2. I \in Table /\ Shape(I)
  BY <1>1, SoundIs
<1>3. \A d \in Inodes : DirOK(I, d)
  BY <1>2, ShapeIs
<1>4. \A d \in Inodes : \A n, i : Has(I, d, n, i) => IsDir(I, d) /\ i \in Inodes /\ I[i].kind # "free"
  BY <1>1, SoundIs
<1>5. Root \in Inodes /\ IsDir(I, Root)
  BY <1>1, SoundIs, Constants
<1>6. \A i : DirOrNone(I, i) => i \in Alive(I)
  BY DEF DirOrNone, Alive, IsDir
<1> QED BY <1>2, <1>3, <1>4, <1>5, <1>6

LEMMA LookupAlive ==
  ASSUME NEW I, Whole(I), NEW d \in Inodes, NEW n \in Names
  PROVE  /\ DirLookup(I, d, n) \in Alive(I)
         /\ DirLookup(I, d, n) # None => Has(I, d, n, DirLookup(I, d, n)) /\ IsDir(I, d)
         /\ DirLookup(I, d, n) = None <=> n \notin NamesIn(I, d)
<1> DEFINE i == DirLookup(I, d, n)
<1>1. I \in Table /\ DirOK(I, d) /\ \A m, j : Has(I, d, m, j) => IsDir(I, d) /\ j \in Inodes /\ I[j].kind # "free"
  BY WholeIs
<1>2. /\ i \in Inodes \cup {None}
      /\ \A j \in Inodes : i = j <=> Has(I, d, n, j)
      /\ i = None <=> n \notin NamesIn(I, d)
  BY <1>1, LookupIs
<1> HIDE DEF i
<1>3. i # None => Has(I, d, n, i) /\ IsDir(I, d) /\ i \in Inodes /\ I[i].kind # "free"
  BY <1>1, <1>2
<1>4. i \in Alive(I)
  BY <1>3 DEF Alive
<1> QED BY <1>2, <1>3, <1>4 DEF i

LEMMA UpAlive ==
  ASSUME NEW I, Whole(I), NEW c \in Inodes
  PROVE  DirOrNone(I, Up(I, c))
<1>1. I[c].parent \in Inodes \cup {None} /\ Root \in Inodes /\ IsDir(I, Root)
  BY WholeIs, TableFields
<1> DEFINE p == I[c].parent
<1>2. CASE p = None
  <2>1. Up(I, c) = Root
    BY <1>2 DEF Up
  <2> QED BY <2>1, <1>1 DEF DirOrNone
<1>3. CASE p # None /\ IsDir(I, p)
  <2>1. Up(I, c) = p
    BY <1>3 DEF Up
  <2> QED BY <2>1, <1>1, <1>3 DEF DirOrNone
<1>4. CASE p # None /\ ~IsDir(I, p)
  <2>1. Up(I, c) = None
    BY <1>4 DEF Up
  <2> QED BY <2>1 DEF DirOrNone
<1> QED BY <1>2, <1>3, <1>4

LEMMA StepAlive ==
  ASSUME NEW I, Whole(I), NEW c \in Inodes \cup {None}, NEW comps \in Comps, NEW k \in 1..Len(comps),
         NEW slash \in BOOLEAN, NEW follow \in BOOLEAN, NEW leads \in LeadsOK(I)
  PROVE  /\ WalkStep(I, c, comps, k, slash, follow, leads) \in Alive(I)
         /\ k = Len(comps) /\ slash => DirOrNone(I, WalkStep(I, c, comps, k, slash, follow, leads))
<1> DEFINE n == comps[k]
           last == k = Len(comps)
           next == Component(I, c, n)
           onto == next # None /\ IsLink(I, next) /\ (~last \/ follow \/ slash)
           at == IF onto THEN leads[c, next] ELSE next
           out == IF c = None \/ ~IsDir(I, c) \/ at = None \/ (last /\ slash /\ ~IsDir(I, at)) THEN None ELSE at
<1>1. WalkStep(I, c, comps, k, slash, follow, leads) = out
  BY DEF WalkStep, Through, Arrived
<1>2. CASE c = None \/ ~IsDir(I, c)
  <2>1. out = None
    BY <1>2
  <2> QED BY <1>1, <2>1 DEF Alive, DirOrNone
<1>3. CASE ~(c = None \/ ~IsDir(I, c))
  <2>1. c \in Inodes /\ c \in Alive(I)
    BY <1>3 DEF Alive, IsDir
  <2>2. n \in Names \cup {".", ".."}
    BY DEF Comps
  <2>3. next \in Alive(I)
    <3> HIDE DEF n
    <3>1. CASE n = "."
      BY <3>1, <2>1 DEF Component
    <3>2. CASE n = ".."
      <4>1. next = Up(I, c)
        BY <3>2 DEF Component
      <4>2. DirOrNone(I, Up(I, c))
        BY <2>1, UpAlive
      <4> QED BY <4>1, <4>2, WholeIs
    <3>3. CASE n # "." /\ n # ".."
      <4>1. next = DirLookup(I, c, n) /\ n \in Names
        BY <3>3, <2>2 DEF Component
      <4> QED BY <4>1, <2>1, LookupAlive
    <3> QED BY <3>1, <3>2, <3>3
  <2> HIDE DEF n, next, last
  <2>4. at \in Alive(I)
    <3>1. CASE onto
      <4>1. next \in Inodes /\ at = leads[<<c, next>>]
        BY <3>1, <2>3 DEF Alive
      <4> QED BY <4>1, <2>1 DEF LeadsOK
    <3>2. CASE ~onto
      BY <3>2, <2>3
    <3> QED BY <3>1, <3>2
  <2> HIDE DEF at
  <2>5. out \in Alive(I) /\ (last /\ slash => DirOrNone(I, out))
    BY <2>4 DEF Alive, DirOrNone
  <2> QED BY <1>1, <2>5 DEF last
<1> QED BY <1>2, <1>3

WalkSteps(I, start, comps, slash, follow, leads, at) ==
  at = [k \in 0..Len(comps) |-> IF k = 0 THEN start ELSE WalkStep(I, at[k - 1], comps, k, slash, follow, leads)]

LEMMA WalkAlive ==
  ASSUME NEW I, Whole(I), NEW start \in Inodes \cup {None}, NEW comps \in Comps,
         NEW slash \in BOOLEAN, NEW follow \in BOOLEAN, NEW leads \in LeadsOK(I)
  PROVE  /\ WalkFrom(I, start, comps, slash, follow, leads) \in Alive(I) \cup {start}
         /\ slash /\ comps # <<>> => DirOrNone(I, WalkFrom(I, start, comps, slash, follow, leads))
<1> DEFINE N == Len(comps)
           step(k, c) == WalkStep(I, c, comps, k, slash, follow, leads)
           W == Alive(I) \cup {start}
           st == [x \in Nat \X W |-> IF x[1] \in 1..N THEN step(x[1], x[2]) ELSE x[2]]
<1>0. W \subseteq Inodes \cup {None}
  BY DEF Alive
<1>1. \A k \in 1..N : \A c \in W : step(k, c) \in W /\ (k = N /\ slash => DirOrNone(I, step(k, c)))
  BY <1>0, StepAlive
<1>2. N \in Nat /\ (comps # <<>> => N > 0)
  BY DEF Comps
<1>00. start \in W
  OBVIOUS
<1> HIDE DEF step, N, W
<1>3. st \in [Nat \X W -> W]
  BY <1>1
<1>4. PICK g \in [Nat -> W] : Iterates(g, start, st)
  <2> HIDE DEF st
  <2> QED BY <1>3, <1>00, Recursion
<1>5. \A k \in Nat : st[<<k + 1, g[k]>>] = IF k + 1 \in 1..N THEN step(k + 1, g[k]) ELSE g[k]
  OBVIOUS
<1> HIDE DEF st
<1>6. g[0] = start
  BY <1>4 DEF Iterates
<1>7. \A k \in 1..N : g[k] = step(k, g[k - 1])
  <2> SUFFICES ASSUME NEW k \in 1..N PROVE g[k] = step(k, g[k - 1])
    OBVIOUS
  <2>1. k - 1 \in Nat /\ (k - 1) + 1 = k
    BY <1>2
  <2>2. g[(k - 1) + 1] = st[<<(k - 1) + 1, g[k - 1]>>]
    BY <2>1, <1>4 DEF Iterates
  <2> QED BY <2>1, <2>2, <1>5
<1> DEFINE h == [k \in 0..N |-> g[k]]
<1>8. h = [k \in 0..N |-> IF k = 0 THEN start ELSE step(k, h[k - 1])]
  <2>1. ASSUME NEW k \in 0..N PROVE h[k] = IF k = 0 THEN start ELSE step(k, h[k - 1])
    <3>1. CASE k = 0
      BY <3>1, <1>6
    <3>2. CASE k # 0
      <4>1. k \in 1..N /\ k - 1 \in 0..N
        BY <3>2, <1>2
      <4>2. h[k] = g[k] /\ h[k - 1] = g[k - 1]
        BY <4>1
      <4> QED BY <4>1, <4>2, <3>2, <1>7
    <3> QED BY <3>1, <3>2
  <2> QED BY <2>1
<1> HIDE DEF h
<1>9. WalkSteps(I, start, comps, slash, follow, leads, h)
  BY <1>8 DEF WalkSteps, step, N
<1> DEFINE s == CHOOSE at : WalkSteps(I, start, comps, slash, follow, leads, at)
<1>10. WalkSteps(I, start, comps, slash, follow, leads, s)
  BY <1>9
<1>11. WalkFrom(I, start, comps, slash, follow, leads) = s[N]
  BY DEF WalkFrom, WalkSteps, N
<1> HIDE DEF s
<1>12. s = [k \in 0..N |-> IF k = 0 THEN start ELSE step(k, s[k - 1])]
  BY <1>10 DEF WalkSteps, step, N
<1> DEFINE T == {k \in Nat : k \in 0..N => s[k] \in W}
<1>13. 0 \in T
  BY <1>12, <1>2, <1>00
<1>14. ASSUME NEW k \in T PROVE k + 1 \in T
  <2> SUFFICES ASSUME k + 1 \in 0..N PROVE s[k + 1] \in W
    OBVIOUS
  <2>1. k \in Nat /\ k \in 0..N /\ k + 1 \in 1..N /\ (k + 1) - 1 = k /\ k + 1 # 0
    BY <1>2
  <2>2. s[k] \in W
    BY <2>1
  <2>3. s[k + 1] = step(k + 1, s[k])
    BY <2>1, <1>12
  <2> QED BY <2>1, <2>2, <2>3, <1>1
<1>15. T \in SUBSET Nat
  OBVIOUS
<1> HIDE DEF T
<1>16. \A k \in Nat : k \in T
  BY <1>13, <1>14, <1>15, AllNat
<1>17. s[N] \in W
  BY <1>16, <1>2 DEF T
<1>18. slash /\ comps # <<>> => DirOrNone(I, s[N])
  <2> SUFFICES ASSUME slash, comps # <<>> PROVE DirOrNone(I, s[N])
    OBVIOUS
  <2>1. N \in 1..N /\ N - 1 \in 0..N /\ N # 0 /\ N - 1 \in Nat /\ N \in 0..N
    BY <1>2
  <2>2. s[N - 1] \in W
    BY <2>1, <1>16 DEF T
  <2>3. s[N] = step(N, s[N - 1])
    BY <2>1, <1>12
  <2> QED BY <2>1, <2>2, <2>3, <1>1
<1> QED BY <1>11, <1>17, <1>18 DEF W

LEMMA TargetIs ==
  ASSUME NEW I, Whole(I), NEW i \in Inodes
  PROVE  I[i].target \in Paths /\ I[i].target.comps \in Comps /\ I[i].target.slash \in BOOLEAN
<1>1. I[i].target \in Paths
  BY WholeIs, TableFields
<1> QED BY <1>1 DEF Paths

LEMMA WalkOK ==
  ASSUME NEW I, Whole(I), NEW d \in Inodes \cup {None}, NEW path \in Paths, NEW follow \in BOOLEAN, NEW leads \in LeadsOK(I)
  PROVE  /\ Walk(I, d, path, follow, leads) \in Inodes \cup {None}
         /\ d \in Alive(I) => Walk(I, d, path, follow, leads) \in Alive(I)
<1> DEFINE start == IF path.base = AtRoot THEN Root ELSE d
<1>1. start \in Inodes \cup {None} /\ (d \in Alive(I) => start \in Alive(I))
  BY WholeIs DEF Alive, IsDir
<1>2. path.comps \in Comps /\ path.slash \in BOOLEAN
  BY DEF Paths
<1> HIDE DEF start
<1>3. WalkFrom(I, start, path.comps, path.slash, follow, leads) \in Alive(I) \cup {start}
  BY <1>1, <1>2, WalkAlive
<1>4. None \in Alive(I) /\ Alive(I) \subseteq Inodes \cup {None}
  BY DEF Alive
<1>5. Walk(I, d, path, follow, leads) = IF path.base = AtCwd /\ path.comps = <<>> THEN None
         ELSE WalkFrom(I, start, path.comps, path.slash, follow, leads)
  BY DEF Walk, start
<1> QED BY <1>1, <1>3, <1>4, <1>5

NextLeads(I, l) == [x \in Inodes \X Inodes |-> Walk(I, x[1], I[x[2]].target, TRUE, l)]
NoLeads == [x \in Inodes \X Inodes |-> None]

LEMMA NextLeadsOK ==
  ASSUME NEW I, Whole(I)
  PROVE  /\ NoLeads \in LeadsOK(I)
         /\ \A l \in LeadsOK(I) : NextLeads(I, l) \in LeadsOK(I)
<1>1. NoLeads \in LeadsOK(I)
  BY DEF NoLeads, LeadsOK, Alive
<1>2. ASSUME NEW l \in LeadsOK(I) PROVE NextLeads(I, l) \in LeadsOK(I)
  <2> DEFINE to(d, link) == Walk(I, d, I[link].target, TRUE, l)
  <2>1. \A d, link \in Inodes : to(d, link) \in Inodes \cup {None} /\ (d \in Alive(I) => to(d, link) \in Alive(I))
    <3> SUFFICES ASSUME NEW d \in Inodes, NEW link \in Inodes PROVE to(d, link) \in Inodes \cup {None} /\ (d \in Alive(I) => to(d, link) \in Alive(I))
      OBVIOUS
    <3>1. I[link].target \in Paths
      BY TargetIs
    <3> QED BY <3>1, WalkOK
  <2>2. NextLeads(I, l) = [x \in Inodes \X Inodes |-> to(x[1], x[2])]
    BY DEF NextLeads
  <2> HIDE DEF to
  <2> QED BY <2>1, <2>2 DEF LeadsOK
<1> QED BY <1>1, <1>2

LeadSteps(I, leads) ==
  leads = [n \in Nat |->
            [x \in Inodes \X Inodes |-> IF n = 0 THEN None ELSE Walk(I, x[1], I[x[2]].target, TRUE, leads[n - 1])]]

LEMMA LeadsAlive ==
  ASSUME NEW I, Whole(I)
  PROVE  Leads(I) \in LeadsOK(I)
<1> DEFINE L == LeadsOK(I)
           st == [x \in Nat \X L |-> NextLeads(I, x[2])]
           row(n, l) == [x \in Inodes \X Inodes |-> IF n = 0 THEN None ELSE Walk(I, x[1], I[x[2]].target, TRUE, l)]
<1>1. NoLeads \in L /\ \A l \in L : NextLeads(I, l) \in L
  BY NextLeadsOK
<1>2. row(0, 0) = NoLeads /\ \A n \in Nat : \A l : n # 0 => row(n, l) = NextLeads(I, l)
  BY DEF NoLeads, NextLeads
<1>3. \A l, m : row(0, l) = row(0, m)
  OBVIOUS
<1> HIDE DEF row, L
<1>4. st \in [Nat \X L -> L]
  BY <1>1
<1>5. PICK g \in [Nat -> L] : Iterates(g, NoLeads, st)
  <2> HIDE DEF st
  <2> QED BY <1>1, <1>4, Recursion
<1>6. \A k \in Nat : st[<<k + 1, g[k]>>] = NextLeads(I, g[k])
  OBVIOUS
<1> HIDE DEF st
<1>7. g = [n \in Nat |-> row(n, g[n - 1])]
  <2>1. ASSUME NEW n \in Nat PROVE g[n] = row(n, g[n - 1])
    <3>1. CASE n = 0
      <4>1. g[0] = NoLeads
        BY <1>5 DEF Iterates
      <4> QED BY <4>1, <3>1, <1>2, <1>3
    <3>2. CASE n # 0
      <4>1. n - 1 \in Nat /\ (n - 1) + 1 = n
        BY <3>2
      <4>2. g[(n - 1) + 1] = st[<<(n - 1) + 1, g[n - 1]>>]
        BY <4>1, <1>5 DEF Iterates
      <4>3. g[n] = NextLeads(I, g[n - 1])
        BY <4>1, <4>2, <1>6
      <4> QED BY <4>3, <3>2, <1>2
    <3> QED BY <3>1, <3>2
  <2> QED BY <2>1
<1>8. LeadSteps(I, g)
  BY <1>7 DEF LeadSteps, row
<1> DEFINE s == CHOOSE l : LeadSteps(I, l)
<1>9. LeadSteps(I, s)
  BY <1>8
<1>10. Leads(I) = s[MaxLinks]
  BY DEF Leads, LeadSteps
<1> HIDE DEF s
<1>11. s = [n \in Nat |-> row(n, s[n - 1])]
  BY <1>9 DEF LeadSteps, row
<1> DEFINE T == {n \in Nat : s[n] \in L}
<1>12. 0 \in T
  <2>1. s[0] = row(0, s[0 - 1])
    BY <1>11
  <2>2. s[0] = NoLeads
    BY <2>1, <1>2, <1>3
  <2> QED BY <2>2, <1>1
<1>13. ASSUME NEW n \in T PROVE n + 1 \in T
  <2>1. n \in Nat /\ n + 1 # 0 /\ (n + 1) - 1 = n /\ s[n] \in L
    OBVIOUS
  <2>2. s[n + 1] = row(n + 1, s[(n + 1) - 1])
    BY <2>1, <1>11
  <2>3. s[n + 1] = NextLeads(I, s[n])
    BY <2>1, <2>2, <1>2
  <2> QED BY <2>1, <2>3, <1>1
<1>14. T \in SUBSET Nat
  OBVIOUS
<1> HIDE DEF T
<1>15. MaxLinks \in T
  BY <1>12, <1>13, <1>14, AllNat, Constants
<1> QED BY <1>10, <1>15 DEF T, L

LEMMA LastOf2 ==
  ASSUME NEW comps \in Comps, comps # <<>>
  PROVE  /\ Last(comps) \in Names \cup {".", ".."}
         /\ Front(comps) \in Comps /\ Len(Front(comps)) = Len(comps) - 1
         /\ Len(comps) # 1 => Front(comps) # <<>>
<1>1. Len(comps) \in Nat /\ Len(comps) > 0 /\ comps[Len(comps)] \in Names \cup {".", ".."}
  BY DEF Comps
<1>2. Last(comps) = comps[Len(comps)] /\ Front(comps) = SubSeq(comps, 1, Len(comps) - 1)
  BY DEF Last, Front
<1>3. Front(comps) \in Comps /\ Len(Front(comps)) = Len(comps) - 1
  <2>1. \A T : \A s \in Seq(T) : s # <<>> => SubSeq(s, 1, Len(s) - 1) \in Seq(T) /\ Len(SubSeq(s, 1, Len(s) - 1)) = Len(s) - 1
    OBVIOUS
  <2> QED BY <2>1, <1>2 DEF Comps
<1>4. Len(comps) # 1 => Front(comps) # <<>>
  BY <1>1, <1>3
<1> QED BY <1>1, <1>2, <1>3, <1>4

LEMMA ParentIs ==
  ASSUME NEW I, Whole(I), NEW start \in Inodes \cup {None}, NEW comps \in Comps
  PROVE  /\ DirOrNone(I, ParentFrom(I, start, comps))
         /\ ParentFrom(I, start, comps) # None => comps # <<>> /\ Last(comps) \in Names
<1> DEFINE P == ParentFrom(I, start, comps)
<1>1. CASE start = None \/ comps = <<>> \/ Last(comps) \in {".", ".."}
  <2>1. P = None
    BY <1>1 DEF ParentFrom
  <2> QED BY <2>1 DEF DirOrNone
<1>2. CASE ~(start = None \/ comps = <<>> \/ Last(comps) \in {".", ".."})
  <2>1. Last(comps) \in Names /\ start \in Inodes /\ comps # <<>>
    BY <1>2, LastOf2
  <2>2. CASE Len(comps) = 1
    <3>1. P = IF IsDir(I, start) THEN start ELSE None
      BY <1>2, <2>2 DEF ParentFrom
    <3> QED BY <3>1, <2>1 DEF DirOrNone
  <2>3. CASE Len(comps) # 1
    <3>1. P = WalkFrom(I, start, Front(comps), TRUE, TRUE, Leads(I))
      BY <1>2, <2>3 DEF ParentFrom
    <3>2. Front(comps) \in Comps /\ Front(comps) # <<>>
      BY <2>1, <2>3, LastOf2
    <3>3. Leads(I) \in LeadsOK(I)
      BY LeadsAlive
    <3>4. DirOrNone(I, WalkFrom(I, start, Front(comps), TRUE, TRUE, Leads(I)))
      BY <2>1, <3>2, <3>3, WalkAlive
    <3> QED BY <2>1, <3>1, <3>4
  <2> QED BY <2>2, <2>3
<1> QED BY <1>1, <1>2

(* ---- the name a file was opened under ---- *)

NameRec == [dir : Inodes \cup {None}, name : Names \cup {""}]
NameAt(I) == {r \in NameRec : r.dir # None => IsDir(I, r.dir) /\ r.name \in Names}

LEMMA OnwardOK ==
  ASSUME NEW I, Whole(I), NEW at \in NameAt(I)
  PROVE  Onward(I, at) \in NameAt(I)
<1> DEFINE e == DirLookup(I, at.dir, at.name)
           to == I[e].target
           start == IF to.base = AtRoot THEN Root ELSE at.dir
           next == ParentFrom(I, start, to.comps)
           stay == at.dir = None \/ e = None \/ ~IsLink(I, e)
           r == [dir |-> next, name |-> IF next = None THEN "" ELSE Last(to.comps)]
<1>1. Onward(I, at) = IF stay THEN at ELSE r
  BY DEF Onward, NameIn
<1>2. CASE stay
  BY <1>1, <1>2
<1>3. CASE ~stay
  <2>1. at.dir \in Inodes /\ at.name \in Names
    BY <1>3 DEF NameAt, NameRec
  <2>2. e \in Inodes
    <3>1. DirLookup(I, at.dir, at.name) \in Alive(I)
      BY <2>1, LookupAlive
    <3> QED BY <3>1, <1>3 DEF Alive
  <2> HIDE DEF e
  <2>3. to.comps \in Comps
    BY <2>2, TargetIs
  <2>4. start \in Inodes \cup {None}
    BY <2>1, WholeIs
  <2> HIDE DEF to, start
  <2>5. DirOrNone(I, next) /\ (next # None => to.comps # <<>> /\ Last(to.comps) \in Names)
    BY <2>3, <2>4, ParentIs
  <2> HIDE DEF next
  <2>6. r.dir = next /\ r.dir \in Inodes \cup {None} /\ r.name \in Names \cup {""} /\ (next # None => IsDir(I, next) /\ r.name \in Names)
    BY <2>5 DEF DirOrNone
  <2>7. r \in NameAt(I)
    BY <2>6 DEF NameAt, NameRec
  <2> QED BY <2>7, <1>1, <1>3
<1> QED BY <1>2, <1>3

NameSteps(I, first, at) == at = [k \in Nat |-> IF k = 0 THEN first ELSE Onward(I, at[k - 1])]

Recorded(I, r) == r = Closed \/ \E d \in Inodes, n \in Names : IsDir(I, d) /\ r = [Closed EXCEPT !.dir = d, !.name = n]
LEMMA RecordIs ==
  ASSUME NEW I, Whole(I), NEW i \in Inodes, NEW dir \in Inodes, IsDir(I, dir), NEW name \in Names,
         NEW r, r = RecordName(I, i, dir, name)
  PROVE  Recorded(I, r)
<1> DEFINE A == NameAt(I)
           first == NameIn(dir, name)
           st == [x \in Nat \X A |-> Onward(I, x[2])]
<1>1. first \in A
  BY WholeIs, Constants DEF NameAt, NameRec, NameIn
<1>2. \A a \in A : Onward(I, a) \in A
  BY OnwardOK
<1> HIDE DEF A, first
<1>3. st \in [Nat \X A -> A]
  BY <1>2
<1>4. PICK g \in [Nat -> A] : Iterates(g, first, st)
  <2> HIDE DEF st
  <2> QED BY <1>1, <1>3, Recursion
<1>5. \A k \in Nat : st[<<k + 1, g[k]>>] = Onward(I, g[k])
  OBVIOUS
<1> HIDE DEF st
<1>6. NameSteps(I, first, g)
  <2>1. ASSUME NEW k \in Nat PROVE g[k] = IF k = 0 THEN first ELSE Onward(I, g[k - 1])
    <3>1. CASE k = 0
      BY <3>1, <1>4 DEF Iterates
    <3>2. CASE k # 0
      <4>1. k - 1 \in Nat /\ (k - 1) + 1 = k
        BY <3>2
      <4>2. g[(k - 1) + 1] = st[<<(k - 1) + 1, g[k - 1]>>]
        BY <4>1, <1>4 DEF Iterates
      <4> QED BY <4>1, <4>2, <1>5, <3>2
    <3> QED BY <3>1, <3>2
  <2> QED BY <2>1 DEF NameSteps
<1> DEFINE s == CHOOSE at : NameSteps(I, first, at)
           end == s[MaxHops - 1]
<1>7. NameSteps(I, first, s)
  BY <1>6
<1>8. r = IF end.dir # None /\ DirLookup(I, end.dir, end.name) = i
          THEN [Closed EXCEPT !.dir = end.dir, !.name = end.name] ELSE Closed
  BY DEF RecordName, FileNamed, NameSteps, first
<1> HIDE DEF s
<1> DEFINE T == {k \in Nat : s[k] \in A}
<1>9. 0 \in T
  <2>1. s[0] = first
    BY <1>7 DEF NameSteps
  <2> QED BY <2>1, <1>1
<1>10. ASSUME NEW k \in T PROVE k + 1 \in T
  <2>1. k \in Nat /\ s[k] \in A /\ k + 1 \in Nat /\ k + 1 # 0 /\ (k + 1) - 1 = k
    OBVIOUS
  <2>2. s[k + 1] = Onward(I, s[k])
    BY <2>1, <1>7 DEF NameSteps
  <2> QED BY <2>1, <2>2, <1>2
<1>11. T \in SUBSET Nat
  OBVIOUS
<1> HIDE DEF T
<1>12. \A k \in Nat : k \in T
  BY <1>9, <1>10, <1>11, AllNat
<1>13. MaxHops - 1 \in Nat
  <2>1. MaxHops \in Nat /\ MaxHops > 0
    BY Constants
  <2> QED BY <2>1
<1>14. end \in A
  BY <1>12, <1>13 DEF T
<1> HIDE DEF end
<1>15. end.dir # None => end.dir \in Inodes /\ IsDir(I, end.dir) /\ end.name \in Names
  BY <1>14 DEF A, NameAt, NameRec
<1> QED BY <1>8, <1>15 DEF Recorded

(* ---- rename's question ---- *)

UpSteps(nd, up) ==
  up = [n \in Nat |-> IF n = 0 THEN nd
                      ELSE IF up[n - 1] \in {None, Root} THEN up[n - 1] ELSE inodes[up[n - 1]].parent]

LEMMA AncestorIs ==
  ASSUME NEW u, Sound(inodes, u), NEW src \in Inodes, NEW nd \in Inodes, ~IsAncestor(src, nd)
  PROVE  NotBelow(inodes, src, nd) /\ src # nd /\ src # Root
<1> DEFINE W == Inodes \cup {None}
           C == Cardinality(Inodes)
           above(v) == IF v \in {None, Root} THEN v ELSE inodes[v].parent
           st == [x \in Nat \X W |-> above(x[2])]
<1>1. inodes \in Table /\ Shape(inodes)
  BY SoundIs
<1>2. nd \in W /\ \A v \in W : above(v) \in W
  <2>1. \A v \in Inodes : inodes[v].parent \in W
    BY <1>1, TableFields
  <2> QED BY <2>1
<1>3. C \in Nat
  BY Constants, FS_CardinalityType
<1> HIDE DEF above, W, C
<1>4. st \in [Nat \X W -> W]
  BY <1>2
<1>5. PICK g \in [Nat -> W] : Iterates(g, nd, st)
  <2> HIDE DEF st
  <2> QED BY <1>2, <1>4, Recursion
<1>6. \A k \in Nat : st[<<k + 1, g[k]>>] = above(g[k])
  OBVIOUS
<1> HIDE DEF st
<1>7. UpSteps(nd, g)
  <2>1. ASSUME NEW k \in Nat PROVE g[k] = IF k = 0 THEN nd ELSE above(g[k - 1])
    <3>1. CASE k = 0
      BY <3>1, <1>5 DEF Iterates
    <3>2. CASE k # 0
      <4>1. k - 1 \in Nat /\ (k - 1) + 1 = k
        BY <3>2
      <4>2. g[(k - 1) + 1] = st[<<(k - 1) + 1, g[k - 1]>>]
        BY <4>1, <1>5 DEF Iterates
      <4> QED BY <4>1, <4>2, <1>6, <3>2
    <3> QED BY <3>1, <3>2
  <2> QED BY <2>1 DEF UpSteps, above
<1> DEFINE up == CHOOSE f : UpSteps(nd, f)
<1>8. UpSteps(nd, up)
  BY <1>7
<1>9. IsAncestor(src, nd) <=> \/ src = Root
                              \/ \E n \in 0..C : up[n] = src
                              \/ up[C] \notin {None, Root}
  BY DEF IsAncestor, UpSteps, C
<1> HIDE DEF up
<1>10. src # Root /\ (\A n \in 0..C : up[n] # src) /\ up[C] \in {None, Root}
  BY <1>9
<1>11. up[0] = nd /\ \A n \in Nat : up[n + 1] = above(up[n])
  <2>1. up[0] = nd
    BY <1>8 DEF UpSteps
  <2>2. ASSUME NEW n \in Nat PROVE up[n + 1] = above(up[n])
    <3>1. n + 1 \in Nat /\ n + 1 # 0 /\ (n + 1) - 1 = n
      OBVIOUS
    <3> QED BY <3>1, <1>8 DEF UpSteps, above
  <2> QED BY <2>1, <2>2
<1> DEFINE T == {up[n] : n \in 0..C} \cap Inodes
<1>12. nd \in T /\ src \notin T /\ T \in SUBSET Inodes /\ src # nd
  <2>1. 0 \in 0..C
    BY <1>3
  <2> QED BY <2>1, <1>10, <1>11
<1>13. ASSUME NEW x \in T \cap NamedDirs(inodes) PROVE inodes[x].parent \in T
  <2>1. x \in Inodes /\ IsDir(inodes, x) /\ Spots(inodes, x) # {} /\ x # Root /\ x # None
    BY <1>1, Constants DEF NamedDirs, Shape
  <2>2. PICK n \in 0..C : x = up[n]
    OBVIOUS
  <2>3. n # C /\ n \in Nat /\ n + 1 \in 0..C
    BY <2>1, <2>2, <1>10, <1>3
  <2>4. up[n + 1] = inodes[x].parent
    BY <2>1, <2>2, <2>3, <1>11 DEF above
  <2>5. inodes[x].parent \in Inodes
    <3>1. PICK z \in Spots(inodes, x) : TRUE
      BY <2>1
    <3> QED BY <1>1, <2>1, SpotsAre, ShapeIs DEF OneName
  <2>6. up[n + 1] \in {up[m] : m \in 0..C}
    BY <2>3
  <2> QED BY <2>4, <2>5, <2>6
<1> HIDE DEF T
<1>14. Above(inodes, T, src, nd)
  BY <1>12, <1>13 DEF Above
<1> QED BY <1>10, <1>12, <1>14 DEF NotBelow

(* ---- room ---- *)

LEMMA NewInodeIs ==
  ASSUME machine \in Machines, RoomForInode
  PROVE  NewInode(inodes) \in Inodes /\ inodes[NewInode(inodes)] = Free
<1> DEFINE U == {i \in Inodes : inodes[i] # Free}
           S == {i \in Inodes : inodes[i] = Free}
<1>1. Cardinality(U) < machine.inodes /\ machine.inodes \in Nat /\ machine.inodes <= Cardinality(Inodes)
  BY FsAssumption DEF RoomForInode
<1>2. Cardinality(Inodes) \in Nat /\ U \in SUBSET Inodes
  BY Constants, FS_CardinalityType
<1>3. S # {}
  <2> SUFFICES ASSUME S = {} PROVE FALSE
    OBVIOUS
  <2>1. U = Inodes
    OBVIOUS
  <2> QED BY <2>1, <1>1, <1>2
<1>4. S \in SUBSET Nat
  BY Constants
<1> HIDE DEF U
<1>5. Min(S) \in S
  <2> HIDE DEF S
  <2> QED BY <1>3, <1>4, MinIn
<1> QED BY <1>5 DEF NewInode

LEMMA NewFileIs ==
  ASSUME RoomForFile
  PROVE  NewFile \in Files /\ files[NewFile] = Closed
<1> DEFINE S == {f \in Files : files[f] = Closed}
<1>1. S # {}
  BY DEF RoomForFile
<1>2. S \in SUBSET Nat
  BY Constants
<1>3. Min(S) \in S
  <2> HIDE DEF S
  <2> QED BY <1>1, <1>2, MinIn
<1> QED BY <1>3 DEF NewFile

(* ---- readings of directories ---- *)

\* The places of list s before r's position that have not been returned, with
\* those beyond its end.
Missed(s, r) == {k \in 1..r.pos - 2 : ~(k <= Len(s) /\ r.read[s[k].name] > 0)}
AtMost(s, r) == Cardinality(Missed(s, r)) <= r.gone \/ r.gone = Cardinality(Names)
ReadOnce(s, r) == \A n \in Names : r.read[n] <= 1
ReadThere(s, r) == \A n \in Names : r.read[n] > 0 => \E k \in 1..Len(s) : k <= r.pos - 2 /\ s[k].name = n
StayedThere(s, r) == \A n \in r.stayed : \E k \in 1..Len(s) : s[k].name = n
ReadOK(s, r) == ReadOnce(s, r) /\ ReadThere(s, r) /\ StayedThere(s, r) /\ AtMost(s, r)

LEMMA ReadFields ==
  ASSUME NEW r \in FileRec
  PROVE  r.pos \in Nat /\ r.read \in [Names -> Nat] /\ r.gone \in Nat /\ r.stayed \in SUBSET Names
BY DEF FileRec

LEMMA MissedFinite ==
  ASSUME NEW r \in FileRec, NEW s
  PROVE  IsFiniteSet(Missed(s, r)) /\ Cardinality(Missed(s, r)) \in Nat
<1>1. r.pos - 2 \in Int
  BY ReadFields
<1>2. IsFiniteSet(1..r.pos - 2)
  BY <1>1, FS_Interval
<1>3. Missed(s, r) \in SUBSET (1..r.pos - 2)
  BY DEF Missed
<1>4. IsFiniteSet(Missed(s, r))
  BY <1>2, <1>3, FS_Subset
<1> QED BY <1>4, FS_CardinalityType

LEMMA SeqNames ==
  ASSUME NEW s \in Seq(Entry)
  PROVE  Len(s) \in Nat /\ \A k \in 1..Len(s) : s[k].name \in Names
<1>1. \A k \in 1..Len(s) : s[k] \in Entry
  OBVIOUS
<1> QED BY <1>1 DEF Entry

\* An empty position has missed nothing.
LEMMA ReadStart ==
  ASSUME NEW s \in Seq(Entry), NEW r \in FileRec, r.pos = 0, \A n \in Names : r.read[n] = 0,
         \A n \in r.stayed : \E k \in 1..Len(s) : s[k].name = n
  PROVE  ReadOK(s, r)
<1>1. Missed(s, r) = {}
  <2>1. 1..0 - 2 = {}
    OBVIOUS
  <2> QED BY <2>1 DEF Missed
<1>2. Cardinality(Missed(s, r)) = 0 /\ r.gone \in Nat
  BY <1>1, FS_EmptySet, ReadFields
<1>3. AtMost(s, r)
  BY <1>2 DEF AtMost
<1>4. ReadOnce(s, r)
  BY DEF ReadOnce
<1>5. ReadThere(s, r)
  BY DEF ReadThere
<1> QED BY <1>3, <1>4, <1>5 DEF ReadOK, StayedThere

\* A new name at the end of the list.
LEMMA ReadAppended ==
  ASSUME NEW s \in Seq(Entry), NEW e \in Entry, NEW r \in FileRec, ReadOK(s, r),
         \A k \in 1..Len(s) : s[k].name # e.name, NEW t, t = Append(s, e)
  PROVE  ReadOK(t, r)
<1>1. Len(s) \in Nat /\ Len(t) = Len(s) + 1 /\ (\A k \in 1..Len(s) : t[k] = s[k]) /\ t[Len(s) + 1] = e
  BY Appended
<1>2. e.name \in Names /\ r.read \in [Names -> Nat] /\ r.pos \in Nat
  BY ReadFields DEF Entry
<1>3. r.read[e.name] = 0
  <2>1. ~(r.read[e.name] > 0)
    BY <1>2 DEF ReadOK, ReadThere
  <2> QED BY <2>1, <1>2
<1>4. \A k \in 1..Len(s) : k \in 1..Len(t)
  BY <1>1
<1>5. ReadThere(t, r)
  BY <1>1, <1>4 DEF ReadOK, ReadThere
<1>6. StayedThere(t, r)
  BY <1>1, <1>4 DEF ReadOK, StayedThere
<1>7. ReadOnce(t, r)
  BY DEF ReadOK, ReadOnce
<1>8. Missed(t, r) \subseteq Missed(s, r)
  <2> SUFFICES ASSUME NEW k \in Missed(t, r) PROVE k \in Missed(s, r)
    OBVIOUS
  <2>1. k \in 1..r.pos - 2 /\ ~(k <= Len(t) /\ r.read[t[k].name] > 0)
    BY DEF Missed
  <2>2. k \in Nat /\ k >= 1
    BY <2>1, <1>2
  <2>3. CASE k <= Len(s)
    <3>1. t[k] = s[k] /\ k <= Len(t)
      BY <2>2, <2>3, <1>1
    <3> QED BY <2>1, <3>1 DEF Missed
  <2>4. CASE ~(k <= Len(s))
    BY <2>1, <2>4 DEF Missed
  <2> QED BY <2>3, <2>4
<1>9. Cardinality(Missed(t, r)) <= Cardinality(Missed(s, r))
  BY <1>8, MissedFinite, FS_Subset
<1>10. AtMost(t, r)
  <2>1. Cardinality(Missed(t, r)) \in Nat /\ Cardinality(Missed(s, r)) \in Nat /\ r.gone \in Nat
    BY MissedFinite, ReadFields
  <2>2. Cardinality(Missed(s, r)) <= r.gone \/ r.gone = Cardinality(Names)
    BY DEF ReadOK, AtMost
  <2> QED BY <2>1, <2>2, <1>9 DEF AtMost
<1> QED BY <1>5, <1>6, <1>7, <1>10 DEF ReadOK

\* r after name n has gone.
Forget(r, n) == [r EXCEPT !.read[n] = 0, !.stayed = @ \ {n},
                          !.gone = IF r.pos = 0 THEN 0 ELSE Min({@ + 1, Cardinality(Names)})]

LEMMA MinOfTwo ==
  ASSUME NEW a \in Nat, NEW b \in Nat
  PROVE  Min({a, b}) \in Nat /\ (Min({a, b}) = a \/ Min({a, b}) = b) /\ Min({a, b}) <= a /\ Min({a, b}) <= b
<1>1. {a, b} \in SUBSET Nat /\ {a, b} # {}
  OBVIOUS
<1>2. Min({a, b}) \in {a, b} /\ \A y \in {a, b} : Min({a, b}) <= y
  BY <1>1, MinIn
<1> QED BY <1>2

LEMMA NamesNat == Cardinality(Names) \in Nat
BY Constants, FS_CardinalityType

LEMMA ForgetIs ==
  ASSUME NEW r \in FileRec, NEW n \in Names
  PROVE  /\ Forget(r, n) \in FileRec /\ Forget(r, n).ino = r.ino /\ Forget(r, n).dir = r.dir /\ Forget(r, n).pos = r.pos
         /\ \A m \in Names : Forget(r, n).read[m] = IF m = n THEN 0 ELSE r.read[m]
         /\ Forget(r, n).stayed = r.stayed \ {n}
         /\ r.pos = 0 => Forget(r, n).gone = 0
         /\ r.pos # 0 => Forget(r, n).gone = r.gone + 1 \/ Forget(r, n).gone = Cardinality(Names)
         /\ r.pos # 0 => Forget(r, n).gone <= r.gone + 1 /\ Forget(r, n).gone <= Cardinality(Names)
<1> DEFINE g == IF r.pos = 0 THEN 0 ELSE Min({r.gone + 1, Cardinality(Names)})
           q == [r.read EXCEPT ![n] = 0]
<1>1. r.pos \in Nat /\ r.read \in [Names -> Nat] /\ r.gone \in Nat /\ r.stayed \in SUBSET Names
  BY ReadFields
<1>2. g \in Nat /\ (r.pos = 0 => g = 0)
      /\ (r.pos # 0 => (g = r.gone + 1 \/ g = Cardinality(Names)) /\ g <= r.gone + 1 /\ g <= Cardinality(Names))
  <2>1. r.gone + 1 \in Nat /\ Cardinality(Names) \in Nat
    BY <1>1, NamesNat
  <2> DEFINE m == Min({r.gone + 1, Cardinality(Names)})
  <2>2. m \in Nat /\ (m = r.gone + 1 \/ m = Cardinality(Names)) /\ m <= r.gone + 1 /\ m <= Cardinality(Names)
    BY <2>1, MinOfTwo
  <2> HIDE DEF m
  <2>3. g = IF r.pos = 0 THEN 0 ELSE m
    BY DEF m
  <2> HIDE DEF g
  <2> QED BY <2>2, <2>3
<1>3. q \in [Names -> Nat] /\ \A m \in Names : q[m] = IF m = n THEN 0 ELSE r.read[m]
  BY <1>1
<1>4. Forget(r, n) = [r EXCEPT !.read = q, !.stayed = r.stayed \ {n}, !.gone = g]
  BY DEF Forget, FileRec
<1> HIDE DEF g, q
<1>5. Forget(r, n) \in FileRec /\ Forget(r, n).ino = r.ino /\ Forget(r, n).dir = r.dir /\ Forget(r, n).pos = r.pos
      /\ Forget(r, n).read = q /\ Forget(r, n).stayed = r.stayed \ {n} /\ Forget(r, n).gone = g
  <2>1. r.stayed \ {n} \in SUBSET Names
    BY <1>1
  <2> QED BY <1>2, <1>3, <1>4, <2>1 DEF FileRec
<1> QED BY <1>2, <1>3, <1>5

\* The entry at k0 goes.
LEMMA ReadRemoved ==
  ASSUME NEW s \in Seq(Entry), Distinct(s), NEW r \in FileRec, ReadOK(s, r), NEW k0 \in 1..Len(s),
         NEW n, n = s[k0].name, NEW t, t = RemoveAt(s, k0), NEW q, q = Forget(r, n)
  PROVE  ReadOK(t, q)
<1>1. Len(s) \in Nat /\ Len(t) = Len(s) - 1 /\ \A j \in 1..Len(t) : t[j] = IF j < k0 THEN s[j] ELSE s[j + 1]
  BY RemovedAt
<1>2. n \in Names /\ k0 \in Nat
  BY SeqNames, <1>1
<1>3. r.read \in [Names -> Nat] /\ r.pos \in Nat /\ r.gone \in Nat /\ r.stayed \in SUBSET Names
  BY ReadFields
<1>4. /\ q \in FileRec /\ q.pos = r.pos
      /\ \A m \in Names : q.read[m] = IF m = n THEN 0 ELSE r.read[m]
      /\ q.stayed = r.stayed \ {n}
      /\ r.pos = 0 => q.gone = 0
      /\ r.pos # 0 => q.gone = r.gone + 1 \/ q.gone = Cardinality(Names)
  BY <1>2, ForgetIs
<1>5. \A k \in 1..Len(s) : k # k0 => s[k].name # n
  BY DEF Distinct
\* where k was
<1> DEFINE old(k) == IF k < k0 THEN k ELSE k + 1
<1>6. \A k \in 1..Len(t) : old(k) \in 1..Len(s) /\ t[k] = s[old(k)] /\ t[k].name # n /\ t[k].name \in Names
  <2> SUFFICES ASSUME NEW k \in 1..Len(t) PROVE old(k) \in 1..Len(s) /\ t[k] = s[old(k)] /\ t[k].name # n /\ t[k].name \in Names
    OBVIOUS
  <2>1. old(k) \in 1..Len(s) /\ old(k) # k0 /\ t[k] = s[old(k)]
    BY <1>1, <1>2
  <2> HIDE DEF old
  <2> QED BY <2>1, <1>5, SeqNames
<1>7. \A l \in 1..Len(s) : l # k0 => \E k \in 1..Len(t) : k <= l /\ old(k) = l
  <2> SUFFICES ASSUME NEW l \in 1..Len(s), l # k0 PROVE \E k \in 1..Len(t) : k <= l /\ old(k) = l
    OBVIOUS
  <2>1. CASE l < k0
    <3>1. l \in 1..Len(t) /\ old(l) = l /\ l <= l
      BY <2>1, <1>1, <1>2
    <3> QED BY <3>1
  <2>2. CASE ~(l < k0)
    <3>1. l - 1 \in 1..Len(t) /\ old(l - 1) = l /\ l - 1 <= l
      BY <2>2, <1>1, <1>2
    <3> QED BY <3>1
  <2> QED BY <2>1, <2>2
<1>8. ReadOnce(t, q)
  BY <1>4 DEF ReadOK, ReadOnce
<1>9. ReadThere(t, q)
  <2> SUFFICES ASSUME NEW m \in Names, q.read[m] > 0 PROVE \E k \in 1..Len(t) : k <= q.pos - 2 /\ t[k].name = m
    BY DEF ReadThere
  <2>1. m # n /\ r.read[m] > 0
    BY <1>4
  <2>2. PICK l \in 1..Len(s) : l <= r.pos - 2 /\ s[l].name = m
    BY <2>1 DEF ReadOK, ReadThere
  <2>3. l # k0
    BY <2>1, <2>2
  <2>4. PICK k \in 1..Len(t) : k <= l /\ old(k) = l
    BY <2>3, <1>7
  <2>5. t[k].name = m
    BY <2>2, <2>4, <1>6
  <2>6. k <= q.pos - 2
    BY <2>2, <2>4, <1>1, <1>3, <1>4
  <2> QED BY <2>5, <2>6
<1>10. StayedThere(t, q)
  <2> SUFFICES ASSUME NEW m \in q.stayed PROVE \E k \in 1..Len(t) : t[k].name = m
    BY DEF StayedThere
  <2>1. m # n /\ m \in r.stayed
    BY <1>4
  <2>2. PICK l \in 1..Len(s) : s[l].name = m
    BY <2>1 DEF ReadOK, StayedThere
  <2>3. l # k0
    BY <2>1, <2>2
  <2>4. PICK k \in 1..Len(t) : k <= l /\ old(k) = l
    BY <2>3, <1>7
  <2> QED BY <2>2, <2>4, <1>6
<1>11. AtMost(t, q)
  <2>1. CASE r.pos = 0
    <3>1. Missed(t, q) = {}
      <4>1. 1..0 - 2 = {}
        OBVIOUS
      <4> QED BY <4>1, <1>4, <2>1 DEF Missed
    <3>2. Cardinality(Missed(t, q)) = 0
      BY <3>1, FS_EmptySet
    <3> QED BY <3>2, <2>1, <1>4 DEF AtMost
  <2>2. CASE r.pos # 0
    <3> DEFINE M == Missed(t, q)
               N == Missed(s, r)
               R == M \ {r.pos - 2}
               m == [k \in R |-> old(k)]
    <3>1. IsFiniteSet(M) /\ IsFiniteSet(N) /\ Cardinality(M) \in Nat /\ Cardinality(N) \in Nat
      BY <1>4, MissedFinite
    <3>2. ASSUME NEW k \in R PROVE old(k) \in N
      <4>1. k \in 1..r.pos - 2 /\ k # r.pos - 2 /\ ~(k <= Len(t) /\ q.read[t[k].name] > 0)
        BY <1>4 DEF Missed
      <4>2. k \in Nat /\ k >= 1 /\ old(k) \in 1..r.pos - 2
        BY <4>1, <1>2, <1>3
      <4>3. CASE k \in 1..Len(t)
        <5>1. ~(q.read[t[k].name] > 0)
          BY <4>1, <4>3
        <5>2. ~(r.read[t[k].name] > 0) /\ t[k] = s[old(k)]
          BY <5>1, <4>3, <1>4, <1>6
        <5> HIDE DEF old
        <5> QED BY <5>2, <4>2 DEF Missed
      <4>4. CASE k \notin 1..Len(t)
        <5>1. ~(old(k) <= Len(s))
          BY <4>2, <4>4, <1>1, <1>2
        <5> HIDE DEF old
        <5> QED BY <5>1, <4>2 DEF Missed
      <4> QED BY <4>3, <4>4
    <3>3. \A j, k \in R : old(j) = old(k) => j = k
      <4> SUFFICES ASSUME NEW j \in R, NEW k \in R, old(j) = old(k) PROVE j = k
        OBVIOUS
      <4>1. j \in 1..q.pos - 2 /\ k \in 1..q.pos - 2
        BY DEF Missed
      <4> QED BY <4>1, <1>2, <1>3, <1>4
    <3> HIDE DEF M, N
    <3>4. m \in [R -> N]
      BY <3>2
    <3>5. \A j, k \in R : m[j] = m[k] => j = k
      BY <3>3
    <3> HIDE DEF m
    <3>6. IsFiniteSet(R) /\ Cardinality(R) <= Cardinality(N)
      BY <3>1, <3>4, <3>5, OneToOne
    <3>7. Cardinality(R) \in Nat /\ Cardinality(R) >= Cardinality(M) - 1
      <4>1. Cardinality(R) = IF r.pos - 2 \in M THEN Cardinality(M) - 1 ELSE Cardinality(M)
        BY <3>1, FS_RemoveElement
      <4>2. Cardinality(R) \in Nat
        BY <3>6, FS_CardinalityType
      <4> QED BY <4>1, <4>2, <3>1
    <3>8. Cardinality(M) <= Cardinality(N) + 1
      BY <3>1, <3>6, <3>7
    <3>9. CASE q.gone = Cardinality(Names)
      BY <3>9 DEF AtMost
    <3>10. CASE q.gone # Cardinality(Names)
      <4>1. q.gone = r.gone + 1 /\ q.gone <= Cardinality(Names)
        BY <3>10, <2>2, <1>2, <1>4, ForgetIs
      <4>2. r.gone # Cardinality(Names)
        BY <4>1, <1>3, NamesNat
      <4>3. Cardinality(N) <= r.gone
        BY <4>2 DEF ReadOK, AtMost, N
      <4>4. Cardinality(M) <= q.gone
        BY <4>1, <4>3, <3>1, <3>8, <1>3
      <4> QED BY <4>4 DEF AtMost, M
    <3> QED BY <3>9, <3>10
  <2> QED BY <2>1, <2>2
<1> QED BY <1>8, <1>9, <1>10, <1>11 DEF ReadOK

\* A reading at the end has missed, of the names that stayed, no more than have gone.
LEMMA ReadDone ==
  ASSUME NEW s \in Seq(Entry), NEW r \in FileRec, ReadOK(s, r), r.pos >= 2 + Len(s)
  PROVE  Cardinality({n \in r.stayed : r.read[n] = 0}) <= r.gone
<1> DEFINE S == {n \in r.stayed : r.read[n] = 0}
           at(n) == CHOOSE k \in 1..Len(s) : s[k].name = n
           m == [n \in S |-> at(n)]
<1>1. r.read \in [Names -> Nat] /\ r.pos \in Nat /\ r.gone \in Nat /\ r.stayed \in SUBSET Names /\ Len(s) \in Nat
  BY ReadFields
<1>2. \A n \in r.stayed : \E k \in 1..Len(s) : s[k].name = n
  BY DEF ReadOK, StayedThere
<1>3. \A n \in S : at(n) \in 1..Len(s) /\ s[at(n)].name = n
  BY <1>2
<1> HIDE DEF at
<1>4. ASSUME NEW n \in S PROVE at(n) \in Missed(s, r)
  <2>1. at(n) \in 1..Len(s) /\ r.read[s[at(n)].name] = 0
    BY <1>3
  <2>2. at(n) \in 1..r.pos - 2
    BY <2>1, <1>1
  <2> QED BY <2>1, <2>2 DEF Missed
<1>5. m \in [S -> Missed(s, r)]
  BY <1>4
<1>6. \A x, y \in S : m[x] = m[y] => x = y
  BY <1>3
<1>7. IsFiniteSet(Missed(s, r)) /\ Cardinality(Missed(s, r)) \in Nat
  BY MissedFinite
<1> HIDE DEF m
<1>8. IsFiniteSet(S) /\ Cardinality(S) <= Cardinality(Missed(s, r))
  <2> HIDE DEF S
  <2> QED BY <1>5, <1>6, <1>7, OneToOne
<1>9. Cardinality(S) \in Nat /\ Cardinality(S) <= Cardinality(Names) /\ Cardinality(Names) \in Nat
  <2>1. S \in SUBSET Names /\ IsFiniteSet(Names)
    BY <1>1, Constants
  <2> HIDE DEF S
  <2> QED BY <2>1, FS_Subset, FS_CardinalityType
<1> HIDE DEF S
<1>10. Cardinality(Missed(s, r)) <= r.gone \/ r.gone = Cardinality(Names)
  BY DEF ReadOK, AtMost
<1>11. Cardinality(S) <= r.gone
  BY <1>1, <1>7, <1>8, <1>9, <1>10
<1> QED BY <1>11 DEF S

Counts(s, pos, end, n) == Cardinality({j \in Listed(s, pos, end) : s[j].name = n})
Reread(r, s, end) == [r EXCEPT !.pos = end, !.read = [n \in Names |-> @[n] + Counts(s, r.pos, end, n)]]

LEMMA CountsAre ==
  ASSUME NEW s \in Seq(Entry), Distinct(s), NEW pos \in Nat, NEW end \in Nat, NEW n \in Names
  PROVE  /\ Counts(s, pos, end, n) \in Nat /\ Counts(s, pos, end, n) <= 1
         /\ Counts(s, pos, end, n) > 0 <=> \E j \in 1..Len(s) : pos < j + 2 /\ j + 2 <= end /\ s[j].name = n
<1> DEFINE S == {j \in Listed(s, pos, end) : s[j].name = n}
<1>1. S = {j \in 1..Len(s) : (pos < j + 2 /\ j + 2 <= end) /\ s[j].name = n}
  <2>1. DOMAIN s = 1..Len(s)
    OBVIOUS
  <2> QED BY <2>1 DEF Listed
<1>2. \A i, j \in S : i = j
  BY <1>1 DEF Distinct
<1>3. CASE S = {}
  <2>1. Counts(s, pos, end, n) = 0
    BY <1>3, FS_EmptySet DEF Counts
  <2>2. ~ \E j \in 1..Len(s) : pos < j + 2 /\ j + 2 <= end /\ s[j].name = n
    BY <1>1, <1>3
  <2> QED BY <2>1, <2>2
<1>4. CASE S # {}
  <2>1. PICK j : j \in S
    BY <1>4
  <2>2. S = {j}
    BY <2>1, <1>2
  <2>3. Counts(s, pos, end, n) = 1
    BY <2>2, FS_Singleton DEF Counts
  <2>4. \E i \in 1..Len(s) : pos < i + 2 /\ i + 2 <= end /\ s[i].name = n
    BY <2>1, <1>1
  <2> QED BY <2>3, <2>4
<1> QED BY <1>3, <1>4

LEMMA RereadIs ==
  ASSUME NEW s \in Seq(Entry), Distinct(s), NEW r \in FileRec, NEW end \in Nat
  PROVE  /\ Reread(r, s, end) \in FileRec
         /\ Reread(r, s, end).ino = r.ino /\ Reread(r, s, end).dir = r.dir /\ Reread(r, s, end).pos = end
         /\ Reread(r, s, end).stayed = r.stayed /\ Reread(r, s, end).gone = r.gone
         /\ \A n \in Names : Reread(r, s, end).read[n] = r.read[n] + Counts(s, r.pos, end, n)
<1> DEFINE q == [n \in Names |-> r.read[n] + Counts(s, r.pos, end, n)]
<1>1. r.pos \in Nat /\ r.read \in [Names -> Nat]
  BY ReadFields
<1>2. q \in [Names -> Nat] /\ \A n \in Names : q[n] = r.read[n] + Counts(s, r.pos, end, n)
  <2>1. \A n \in Names : Counts(s, r.pos, end, n) \in Nat /\ r.read[n] \in Nat
    BY <1>1, CountsAre
  <2> QED BY <2>1
<1>3. Reread(r, s, end) = [r EXCEPT !.pos = end, !.read = q]
  BY DEF Reread
<1> HIDE DEF q
<1>4. Reread(r, s, end) \in FileRec
         /\ Reread(r, s, end).ino = r.ino /\ Reread(r, s, end).dir = r.dir /\ Reread(r, s, end).pos = end
         /\ Reread(r, s, end).stayed = r.stayed /\ Reread(r, s, end).gone = r.gone /\ Reread(r, s, end).read = q
  BY <1>2, <1>3 DEF FileRec
<1> QED BY <1>2, <1>4

\* Reading on.
LEMMA ReadMore ==
  ASSUME NEW s \in Seq(Entry), Distinct(s), NEW r \in FileRec, ReadOK(s, r), NEW k \in Nat,
         NEW end, end = Min({r.pos + k, 2 + Len(s)}), r.pos < 2 + Len(s), NEW q, q = Reread(r, s, end)
  PROVE  ReadOK(s, q) /\ q \in FileRec /\ q.ino = r.ino /\ q.dir = r.dir
<1>1. r.pos \in Nat /\ r.read \in [Names -> Nat] /\ r.gone \in Nat /\ Len(s) \in Nat
  BY ReadFields
<1>2. end \in Nat /\ r.pos <= end
  <2>1. r.pos + k \in Nat /\ 2 + Len(s) \in Nat /\ r.pos <= r.pos + k
    BY <1>1
  <2> DEFINE m == Min({r.pos + k, 2 + Len(s)})
  <2>2. m \in Nat /\ (m = r.pos + k \/ m = 2 + Len(s))
    BY <2>1, MinOfTwo
  <2> HIDE DEF m
  <2>3. end = m
    BY DEF m
  <2> QED BY <2>1, <2>2, <2>3, <1>1
<1>3. /\ q \in FileRec /\ q.ino = r.ino /\ q.dir = r.dir /\ q.pos = end /\ q.stayed = r.stayed /\ q.gone = r.gone
      /\ \A n \in Names : q.read[n] = r.read[n] + Counts(s, r.pos, end, n)
  BY <1>2, RereadIs
<1>4. \A n \in Names : /\ Counts(s, r.pos, end, n) \in Nat /\ Counts(s, r.pos, end, n) <= 1
                       /\ Counts(s, r.pos, end, n) > 0 <=> \E j \in 1..Len(s) : r.pos < j + 2 /\ j + 2 <= end /\ s[j].name = n
  BY <1>1, <1>2, CountsAre
<1>5. ASSUME NEW n \in Names, r.read[n] > 0 PROVE Counts(s, r.pos, end, n) = 0
  <2> DEFINE c == Counts(s, r.pos, end, n)
  <2>0. c \in Nat
    BY <1>4
  <2> HIDE DEF c
  <2> SUFFICES ASSUME c > 0 PROVE FALSE
    BY <2>0 DEF c
  <2>1. PICK j \in 1..Len(s) : r.pos < j + 2 /\ j + 2 <= end /\ s[j].name = n
    BY <1>4 DEF c
  <2>2. PICK l \in 1..Len(s) : l <= r.pos - 2 /\ s[l].name = n
    BY <1>5 DEF ReadOK, ReadThere
  <2>3. j = l
    BY <2>1, <2>2 DEF Distinct
  <2> QED BY <2>1, <2>2, <2>3, <1>1
<1>6. ReadOnce(s, q)
  <2> SUFFICES ASSUME NEW n \in Names PROVE q.read[n] <= 1
    BY DEF ReadOnce
  <2>1. r.read[n] \in Nat /\ r.read[n] <= 1
    BY <1>1 DEF ReadOK, ReadOnce
  <2> DEFINE c == Counts(s, r.pos, end, n)
             a == r.read[n]
  <2>2. c \in Nat /\ c <= 1 /\ q.read[n] = a + c /\ (a > 0 => c = 0) /\ a \in Nat /\ a <= 1
    BY <2>1, <1>3, <1>4, <1>5
  <2> HIDE DEF a, c
  <2>3. a + c <= 1
    BY <2>2
  <2> QED BY <2>2, <2>3
<1>7. ReadThere(s, q)
  <2> SUFFICES ASSUME NEW n \in Names, q.read[n] > 0 PROVE \E j \in 1..Len(s) : j <= end - 2 /\ s[j].name = n
    BY <1>3 DEF ReadThere
  <2>1. CASE r.read[n] > 0
    <3>1. PICK l \in 1..Len(s) : l <= r.pos - 2 /\ s[l].name = n
      BY <2>1 DEF ReadOK, ReadThere
    <3>2. l <= end - 2
      BY <3>1, <1>1, <1>2
    <3> QED BY <3>1, <3>2
  <2>2. CASE ~(r.read[n] > 0)
    <3>1. r.read[n] = 0
      BY <2>2, <1>1
    <3>2. Counts(s, r.pos, end, n) > 0
      <4> DEFINE c == Counts(s, r.pos, end, n)
      <4>1. c \in Nat /\ q.read[n] = 0 + c
        BY <3>1, <1>3, <1>4
      <4> HIDE DEF c
      <4>2. c > 0
        BY <4>1
      <4> QED BY <4>2 DEF c
    <3>3. PICK j \in 1..Len(s) : r.pos < j + 2 /\ j + 2 <= end /\ s[j].name = n
      BY <3>2, <1>4
    <3>4. j <= end - 2
      BY <3>3, <1>2
    <3> QED BY <3>3, <3>4
  <2> QED BY <2>1, <2>2
<1>8. StayedThere(s, q)
  BY <1>3 DEF ReadOK, StayedThere
<1>9. Missed(s, q) \subseteq Missed(s, r)
  <2> SUFFICES ASSUME NEW j \in Missed(s, q) PROVE j \in Missed(s, r)
    OBVIOUS
  <2>1. j \in 1..end - 2 /\ ~(j <= Len(s) /\ q.read[s[j].name] > 0)
    BY <1>3 DEF Missed
  <2>2. j \in Nat /\ j >= 1 /\ j + 2 <= end
    BY <2>1, <1>2
  <2>3. end <= 2 + Len(s)
    <3>1. r.pos + k \in Nat /\ 2 + Len(s) \in Nat
      BY <1>1
    <3> QED BY <3>1, MinOfTwo
  <2>4. j \in 1..Len(s)
    BY <2>2, <2>3, <1>1, <1>2
  <2>5. s[j].name \in Names /\ ~(q.read[s[j].name] > 0)
    BY <2>1, <2>4, SeqNames
  <2> DEFINE n == s[j].name
  <2>6. q.read[n] = r.read[n] + Counts(s, r.pos, end, n) /\ Counts(s, r.pos, end, n) \in Nat /\ r.read[n] \in Nat
    BY <2>5, <1>1, <1>3, <1>4
  <2>7. ~(Counts(s, r.pos, end, n) > 0) /\ ~(r.read[n] > 0)
    <3> HIDE DEF n
    <3>1. ~(q.read[n] > 0)
      BY <2>5 DEF n
    <3> QED BY <3>1, <2>6
  <2>8. ~(r.pos < j + 2)
    BY <2>2, <2>4, <2>5, <2>7, <1>4
  <2>9. j \in 1..r.pos - 2
    BY <2>2, <2>8, <1>1
  <2> QED BY <2>7, <2>9 DEF Missed
<1>10. Cardinality(Missed(s, q)) <= Cardinality(Missed(s, r))
  BY <1>9, MissedFinite, FS_Subset
<1>11. AtMost(s, q)
  <2>1. Cardinality(Missed(s, q)) \in Nat /\ Cardinality(Missed(s, r)) \in Nat /\ r.gone \in Nat
    BY <1>3, MissedFinite, ReadFields
  <2>2. Cardinality(Missed(s, r)) <= r.gone \/ r.gone = Cardinality(Names)
    BY DEF ReadOK, AtMost
  <2> QED BY <2>1, <2>2, <1>3, <1>10 DEF AtMost
<1> QED BY <1>3, <1>6, <1>7, <1>8, <1>11 DEF ReadOK

(* ---- all the readers ---- *)

Readers(I, F) == \A f \in Files : F[f].ino # None => ReadOK(I[F[f].ino].dents, F[f])
\* What a file holds is there.
Holding(I, F) == \A f \in Files : F[f].ino # None => F[f].ino \in Inodes /\ I[F[f].ino].kind # "free"

LEMMA ReadersStay ==
  ASSUME NEW I, NEW J, NEW F, Readers(I, F), Holding(I, F), Holding(J, F), Remains(I, J)
  PROVE  Readers(J, F)
<1> SUFFICES ASSUME NEW f \in Files, F[f].ino # None PROVE ReadOK(J[F[f].ino].dents, F[f])
  BY DEF Readers
<1> DEFINE i == F[f].ino
<1>1. i \in Inodes /\ J[i].kind # "free"
  BY DEF Holding
<1>2. J[i].dents = I[i].dents
  BY <1>1 DEF Remains, SameNode
<1> QED BY <1>2 DEF Readers

LEMMA ReadersAdded ==
  ASSUME NEW I \in Table, NEW J, NEW d \in Inodes, NEW n \in Names, NEW i \in Inodes, Added(I, J, d, n, i),
         n \notin NamesIn(I, d), NEW F \in FileTable, Readers(I, F), Holding(I, F)
  PROVE  Readers(J, F)
<1> SUFFICES ASSUME NEW f \in Files, F[f].ino # None PROVE ReadOK(J[F[f].ino].dents, F[f])
  BY DEF Readers
<1> DEFINE x == F[f].ino
<1>1. x \in Inodes /\ ReadOK(I[x].dents, F[f]) /\ F[f] \in FileRec
  BY DEF Holding, Readers, FileTable
<1> HIDE DEF x
<1>2. CASE x # d
  <2>1. J[x].dents = I[x].dents
    BY <1>1, <1>2 DEF Added
  <2> QED BY <2>1, <1>1 DEF x
<1>3. CASE x = d
  <2> DEFINE e == [name |-> n, ino |-> i]
             s == I[d].dents
             t == J[d].dents
  <2>1. e \in Entry /\ s \in Seq(Entry) /\ e.name = n
    BY TableFields DEF Entry
  <2>2. t = Append(s, e)
    BY DEF Added
  <2>3. \A k \in 1..Len(s) : s[k].name # n
    <3>1. \A k \in 1..Len(s) : s[k] \in ToSet(s)
      BY <2>1, SetOf
    <3> QED BY <3>1 DEF NamesIn, Entries
  <2>4. ReadOK(s, F[f])
    BY <1>1, <1>3
  <2> HIDE DEF e, s, t
  <2>5. ReadOK(t, F[f])
    BY <2>1, <2>2, <2>3, <2>4, <1>1, ReadAppended
  <2> QED BY <2>5, <1>3 DEF t, x
<1> QED BY <1>2, <1>3

LEMMA ForgottenIs ==
  ASSUME NEW F \in FileTable, NEW d \in Inodes, NEW n \in Names
  PROVE  /\ Forgotten(F, d, n) \in FileTable
         /\ \A f \in Files : /\ Forgotten(F, d, n)[f].ino = F[f].ino /\ Forgotten(F, d, n)[f].dir = F[f].dir
                             /\ F[f].ino = d => Forgotten(F, d, n)[f] = Forget(F[f], n)
                             /\ F[f].ino # d => Forgotten(F, d, n)[f] = F[f]
<1> DEFINE G == Forgotten(F, d, n)
<1>1. \A f \in Files : F[f] \in FileRec
  BY DEF FileTable
<1>2. ASSUME NEW f \in Files PROVE (F[f].ino = d => G[f] = Forget(F[f], n)) /\ (F[f].ino # d => G[f] = F[f])
  BY DEF Forgotten, Forget
<1>3. G = [f \in Files |-> G[f]]
  BY DEF Forgotten
<1> HIDE DEF G
<1>4. ASSUME NEW f \in Files PROVE G[f] \in FileRec /\ G[f].ino = F[f].ino /\ G[f].dir = F[f].dir
  <2>1. Forget(F[f], n) \in FileRec /\ Forget(F[f], n).ino = F[f].ino /\ Forget(F[f], n).dir = F[f].dir
    BY <1>1, ForgetIs
  <2> QED BY <2>1, <1>1, <1>2
<1>5. G \in FileTable
  BY <1>3, <1>4 DEF FileTable
<1> QED BY <1>2, <1>4, <1>5 DEF G

LEMMA ReadersRemoved ==
  ASSUME NEW I, Shape(I), NEW J, NEW d \in Inodes, NEW n \in Names, NEW i \in Inodes, Removed(I, J, d, n, i),
         NEW F \in FileTable, Readers(I, F), Holding(I, F), Holding(J, F)
  PROVE  Readers(J, Forgotten(F, d, n))
<1> DEFINE G == Forgotten(F, d, n)
<1>1. I \in Table /\ \A x \in Inodes : DirOK(I, x)
  BY ShapeIs
<1>2. \A f \in Files : /\ G[f].ino = F[f].ino
                       /\ F[f].ino = d => G[f] = Forget(F[f], n)
                       /\ F[f].ino # d => G[f] = F[f]
  BY ForgottenIs
<1> HIDE DEF G
<1>3. ASSUME NEW f \in Files, G[f].ino # None PROVE ReadOK(J[G[f].ino].dents, G[f])
  <2> DEFINE x == F[f].ino
  <2>1. x \in Inodes /\ J[x].kind # "free" /\ ReadOK(I[x].dents, F[f]) /\ F[f] \in FileRec /\ G[f].ino = x
    BY <1>2, <1>3 DEF Holding, Readers, FileTable
  <2> HIDE DEF x
  <2>2. CASE x # d
    <3>1. J[x].dents = I[x].dents
      BY <2>1, <2>2 DEF Removed, SameNode
    <3>2. G[f] = F[f]
      BY <1>2, <2>2 DEF x
    <3> QED BY <3>1, <3>2, <2>1
  <2>3. CASE x = d
    <3> DEFINE s == I[d].dents
               t == J[d].dents
    <3>1. PICK k \in 1..Len(s) : s[k].name = n /\ t = RemoveAt(s, k)
      BY DEF Removed
    <3>2. s \in Seq(Entry) /\ Distinct(s)
      BY <1>1, TableFields DEF DirOK, DentsOK
    <3>3. ReadOK(s, F[f]) /\ G[f] = Forget(F[f], n)
      BY <2>1, <2>3, <1>2 DEF x
    <3> HIDE DEF s, t
    <3>4. ReadOK(t, G[f])
      BY <3>1, <3>2, <3>3, <2>1, ReadRemoved
    <3> QED BY <3>4, <2>1, <2>3 DEF t
  <2> QED BY <2>2, <2>3
<1> QED BY <1>3 DEF Readers, G

(* ---- the state ---- *)

ProcsOK(L, C, D, I) == \A p \in Procs :
  /\ p \in L => C[p] \in Inodes /\ IsDir(I, C[p])
  /\ p \notin L => C[p] = None /\ D[p] = {}
OpenOK(L, D, F) == \A f \in Files :
  /\ F[f] # Closed <=> \E p \in L : f \in D[p]
  /\ F[f] # Closed => F[f].ino \in Inodes
DirsOK(F, I) == \A f \in Files : F[f].dir # None => IsDir(I, F[f].dir)
StateOK(L, C, D, F, I) ==
  /\ L \subseteq Procs /\ C \in [Procs -> Inodes \cup {None}] /\ D \in [Procs -> SUBSET Files] /\ F \in FileTable
  /\ ProcsOK(L, C, D, I) /\ OpenOK(L, D, F) /\ DirsOK(F, I)
  /\ Sound(I, Users(C, F)) /\ Readers(I, F)
FsInv == machine \in Machines /\ StateOK(live, cwd, fds, files, inodes)

\* No inode changes its kind, but that it comes or goes.
KindsKept(I, J) == \A i \in Inodes : I[i].kind = "free" \/ J[i].kind = "free" \/ J[i].kind = I[i].kind

LEMMA StateIs ==
  ASSUME NEW L, NEW C, NEW D, NEW F, NEW I, StateOK(L, C, D, F, I)
  PROVE  /\ L \subseteq Procs /\ C \in [Procs -> Inodes \cup {None}] /\ D \in [Procs -> SUBSET Files] /\ F \in FileTable
         /\ ProcsOK(L, C, D, I) /\ OpenOK(L, D, F) /\ DirsOK(F, I)
         /\ Sound(I, Users(C, F)) /\ Readers(I, F) /\ I \in Table /\ Shape(I) /\ Whole(I) /\ Users(C, F) \in Uses
<1>1. Sound(I, Users(C, F))
  BY DEF StateOK
<1>2. I \in Table /\ Shape(I) /\ Users(C, F) \in Uses
  BY <1>1, SoundIs
<1>3. Whole(I)
  BY <1>1 DEF Whole
<1> QED BY <1>1, <1>2, <1>3 DEF StateOK

LEMMA FileIs ==
  ASSUME NEW F \in FileTable, NEW f \in Files
  PROVE  /\ F[f] \in FileRec /\ F[f].ino \in Inodes \cup {None} /\ F[f].dir \in Inodes \cup {None}
<1>1. F[f] \in FileRec
  BY DEF FileTable
<1> QED BY <1>1 DEF FileRec

\* Whom a process or a file uses is there.
LEMMA UsedIsThere ==
  ASSUME NEW C \in [Procs -> Inodes \cup {None}], NEW F \in FileTable, NEW I, Sound(I, Users(C, F))
  PROVE  /\ \A p \in Procs : C[p] # None => I[C[p]].kind # "free"
         /\ \A f \in Files : F[f].ino # None => F[f].ino \in Inodes /\ I[F[f].ino].kind # "free"
         /\ \A f \in Files : F[f].dir # None => F[f].dir \in Inodes /\ I[F[f].dir].kind # "free"
<1> DEFINE u == Users(C, F)
<1>1. \A i \in Inodes : u[i] > 0 => I[i].kind # "free"
  BY SoundIs
<1>2. ASSUME NEW i \in Inodes
      PROVE  /\ u[i] = (Tally(Procs, C, i) + Tally(Files, Inos(F), i)) + Tally(Files, Dirs(F), i)
             /\ Tally(Procs, C, i) \in Nat /\ Tally(Files, Inos(F), i) \in Nat /\ Tally(Files, Dirs(F), i) \in Nat
             /\ Tally(Procs, C, i) = 0 <=> \A z \in Procs : C[z] # i
             /\ Tally(Files, Inos(F), i) = 0 <=> \A z \in Files : Inos(F)[z] # i
             /\ Tally(Files, Dirs(F), i) = 0 <=> \A z \in Files : Dirs(F)[z] # i
  <2>1. u[i] = (Tally(Procs, C, i) + Tally(Files, Inos(F), i)) + Tally(Files, Dirs(F), i)
    BY DEF Users, UsesBy
  <2>2. IsFiniteSet(Procs) /\ IsFiniteSet(Files)
    BY Constants
  <2> QED BY <2>1, <2>2, TallyNat
<1> HIDE DEF u
<1>3. ASSUME NEW i \in Inodes
      PROVE  /\ (\E z \in Procs : C[z] = i) => I[i].kind # "free"
             /\ (\E z \in Files : Inos(F)[z] = i) => I[i].kind # "free"
             /\ (\E z \in Files : Dirs(F)[z] = i) => I[i].kind # "free"
  <2> DEFINE a == Tally(Procs, C, i)
             b == Tally(Files, Inos(F), i)
             c == Tally(Files, Dirs(F), i)
  <2>1. u[i] = (a + b) + c /\ a \in Nat /\ b \in Nat /\ c \in Nat
    BY <1>2
  <2>2. /\ (\E z \in Procs : C[z] = i) => a # 0
        /\ (\E z \in Files : Inos(F)[z] = i) => b # 0
        /\ (\E z \in Files : Dirs(F)[z] = i) => c # 0
    BY <1>2
  <2> HIDE DEF a, b, c
  <2>3. a # 0 \/ b # 0 \/ c # 0 => u[i] > 0
    BY <2>1
  <2>4. a # 0 \/ b # 0 \/ c # 0 => I[i].kind # "free"
    BY <2>3, <1>1
  <2> QED BY <2>2, <2>4
<1>4. \A f \in Files : Inos(F)[f] = F[f].ino /\ Dirs(F)[f] = F[f].dir
  BY DEF Inos, Dirs
<1>5. \A f \in Files : F[f].ino \in Inodes \cup {None} /\ F[f].dir \in Inodes \cup {None}
  BY FileIs
<1>6. \A p \in Procs : C[p] \in Inodes \cup {None}
  OBVIOUS
<1>7. \A p \in Procs : C[p] # None => I[C[p]].kind # "free"
  BY <1>3, <1>6
<1>8. \A f \in Files : F[f].ino # None => F[f].ino \in Inodes /\ I[F[f].ino].kind # "free"
  BY <1>3, <1>4, <1>5
<1>9. \A f \in Files : F[f].dir # None => F[f].dir \in Inodes /\ I[F[f].dir].kind # "free"
  BY <1>3, <1>4, <1>5
<1> QED BY <1>7, <1>8, <1>9

LEMMA Held ==
  ASSUME NEW L, NEW C, NEW D, NEW F, NEW I, StateOK(L, C, D, F, I)
  PROVE  Holding(I, F)
BY StateIs, UsedIsThere DEF Holding

LEMMA KeepKinds ==
  ASSUME NEW L, NEW C, NEW D, NEW F, NEW I, StateOK(L, C, D, F, I), NEW J, Sound(J, Users(C, F)), KindsKept(I, J)
  PROVE  ProcsOK(L, C, D, J) /\ DirsOK(F, J) /\ Holding(J, F)
<1>1. C \in [Procs -> Inodes \cup {None}] /\ F \in FileTable /\ Sound(I, Users(C, F)) /\ ProcsOK(L, C, D, I) /\ DirsOK(F, I)
  BY StateIs
<1>2. /\ \A p \in Procs : C[p] # None => I[C[p]].kind # "free"
      /\ \A f \in Files : F[f].dir # None => F[f].dir \in Inodes /\ I[F[f].dir].kind # "free"
  BY <1>1, UsedIsThere
<1>3. /\ \A p \in Procs : C[p] # None => J[C[p]].kind # "free"
      /\ \A f \in Files : F[f].ino # None => F[f].ino \in Inodes /\ J[F[f].ino].kind # "free"
      /\ \A f \in Files : F[f].dir # None => F[f].dir \in Inodes /\ J[F[f].dir].kind # "free"
  BY <1>1, UsedIsThere
<1>4. None \notin Inodes
  BY Constants
<1>5. ProcsOK(L, C, D, J)
  BY <1>1, <1>2, <1>3, <1>4 DEF ProcsOK, KindsKept, IsDir
<1>6. DirsOK(F, J)
  BY <1>1, <1>2, <1>3 DEF DirsOK, KindsKept, IsDir
<1>7. Holding(J, F)
  BY <1>3 DEF Holding
<1> QED BY <1>5, <1>6, <1>7

\* Other inodes, the same processes and files.
LEMMA NodesChange ==
  ASSUME NEW L, NEW C, NEW D, NEW F, NEW I, StateOK(L, C, D, F, I), NEW J, Sound(J, Users(C, F)), KindsKept(I, J),
         Readers(J, F)
  PROVE  StateOK(L, C, D, F, J)
BY StateIs, KeepKinds DEF StateOK

(* ---- what a call's paths are ---- *)

LEMMA Inputs ==
  ASSUME FsInv
  PROVE  /\ \A path \in machine.paths : path \in Paths
         /\ \A path \in machine.opens : path \in Paths
         /\ \A path \in machine.targets : path \in Paths
         /\ machine.rooms \subseteq Nat
<1>1. machine \in Machines
  BY DEF FsInv
<1>2. machine.rooms \subseteq Nat /\ \A path \in machine.paths \cup machine.opens \cup machine.targets : PathOK(path)
  BY <1>1, FsAssumption
<1> QED BY <1>2, PathIs

LEMMA Now ==
  ASSUME FsInv
  PROVE  StateOK(live, cwd, fds, files, inodes) /\ machine \in Machines
BY DEF FsInv

LEMMA BaseAlive ==
  ASSUME FsInv, NEW p \in live, NEW path \in Paths
  PROVE  AtBase(p, path) \in Alive(inodes)
<1>1. live \subseteq Procs /\ files \in FileTable /\ ProcsOK(live, cwd, fds, inodes) /\ Whole(inodes) /\ fds \in [Procs -> SUBSET Files]
  BY Now, StateIs
<1>2. Holding(inodes, files)
  BY Now, Held
<1>3. \A i : DirOrNone(inodes, i) => i \in Alive(inodes)
  BY <1>1, WholeIs
<1>4. Root \in Inodes /\ IsDir(inodes, Root)
  BY <1>1, WholeIs
<1>5. cwd[p] \in Alive(inodes) /\ Root \in Alive(inodes)
  BY <1>1, <1>3, <1>4 DEF ProcsOK, DirOrNone
<1>6. ASSUME path.base \in fds[p] PROVE files[path.base].ino \in Alive(inodes)
  <2>1. path.base \in Files
    BY <1>1, <1>6
  <2> QED BY <2>1, <1>2 DEF Holding, Alive
<1>7. None \in Alive(inodes)
  BY DEF Alive
<1> QED BY <1>5, <1>6, <1>7 DEF AtBase

LEMMA AliveIs ==
  ASSUME NEW I, NEW i \in Alive(I)
  PROVE  i \in Inodes \cup {None} /\ (i # None => i \in Inodes /\ I[i].kind # "free")
BY DEF Alive

LEMMA NameiAlive ==
  ASSUME FsInv, NEW p \in live, NEW path \in Paths, NEW follow \in BOOLEAN
  PROVE  Namei(p, path, follow) \in Alive(inodes)
<1> DEFINE b == AtBase(p, path)
<1>1. b \in Alive(inodes) /\ b \in Inodes \cup {None}
  BY BaseAlive, AliveIs
<1>2. Whole(inodes)
  BY Now, StateIs
<1>3. Leads(inodes) \in LeadsOK(inodes)
  BY <1>2, LeadsAlive
<1> HIDE DEF b
<1>4. Walk(inodes, b, path, follow, Leads(inodes)) \in Alive(inodes)
  BY <1>1, <1>2, <1>3, WalkOK
<1>5. None \in Alive(inodes)
  BY DEF Alive
<1> QED BY <1>1, <1>4, <1>5 DEF Namei, b

LEMMA ParentAtIs ==
  ASSUME FsInv, NEW p \in live, NEW path \in Paths
  PROVE  ParentAt(p, path) # None => /\ ParentAt(p, path) \in Inodes /\ IsDir(inodes, ParentAt(p, path))
                                     /\ path.comps # <<>> /\ Last(path.comps) \in Names
<1>1. AtBase(p, path) \in Inodes \cup {None} /\ Whole(inodes)
  BY BaseAlive, AliveIs, Now, StateIs
<1>2. path.comps \in Comps
  BY DEF Paths
<1> HIDE DEF Comps
<1>3. /\ DirOrNone(inodes, ParentAt(p, path))
      /\ ParentAt(p, path) # None => path.comps # <<>> /\ Last(path.comps) \in Names
  BY <1>1, <1>2, ParentIs DEF ParentAt
<1> QED BY <1>3 DEF DirOrNone

(* ---- names made and taken away ---- *)

LEMMA MakeState ==
  ASSUME NEW L, NEW C, NEW D, NEW F, NEW I, StateOK(L, C, D, F, I), NEW x \in Inodes, I[x].kind = "free",
         NEW node, IsNew(node, 0), NEW d \in Inodes, IsDir(I, d), NEW n \in Names, n \notin NamesIn(I, d),
         NEW J, J = PutNode(I, x, node), NEW K, K = DirAdd(J, d, n, x)
  PROVE  StateOK(L, C, D, F, K) /\ K[x].kind = node.kind /\ KindsKept(I, K)
<1>1. Sound(I, Users(C, F)) /\ I \in Table /\ F \in FileTable /\ Readers(I, F)
  BY StateIs
<1>2. Sound(K, Users(C, F)) /\ x # d /\ Others(I, J, x) /\ J[x] = node /\ Added(J, K, d, n, x)
  BY <1>1, MakeSound
<1>3. \A i \in Inodes : i # x => J[i] = I[i]
  BY <1>2 DEF Others
<1>4. J \in Table
  BY <1>1 DEF PutNode, Table, IsNew
<1>5. node.kind # "free"
  BY DEF IsNew
<1>6. Holding(I, F)
  BY Held
<1>7. \A f \in Files : F[f].ino # None => J[F[f].ino] = I[F[f].ino] /\ F[f].ino # x
  BY <1>3, <1>6 DEF Holding
<1>8. Holding(J, F)
  BY <1>6, <1>7 DEF Holding
<1>9. Readers(J, F)
  BY <1>1, <1>7 DEF Readers
<1>10. n \notin NamesIn(J, d)
  BY <1>2, <1>3 DEF NamesIn, Entries
<1>11. Readers(K, F)
  BY <1>1, <1>2, <1>4, <1>8, <1>9, <1>10, ReadersAdded
<1>12. \A j \in Inodes : K[j].kind = J[j].kind
  BY <1>2 DEF Added
<1>13. KindsKept(I, K)
  BY <1>3, <1>12 DEF KindsKept
<1> QED BY <1>1, <1>2, <1>11, <1>12, <1>13, NodesChange

LEMMA LinkState ==
  ASSUME NEW L, NEW C, NEW D, NEW F, NEW I, StateOK(L, C, D, F, I), NEW i \in Inodes, I[i].kind # "free", ~IsDir(I, i),
         NEW d \in Inodes, IsDir(I, d), NEW n \in Names, n \notin NamesIn(I, d), NEW K, K = DirAdd(I, d, n, i)
  PROVE  StateOK(L, C, D, F, K) /\ More(I, K, d, n, i) /\ Added(I, K, d, n, i)
<1>1. Sound(I, Users(C, F)) /\ I \in Table /\ F \in FileTable /\ Readers(I, F)
  BY StateIs
<1>2. Loose(I, Users(C, F), i)
  BY <1>1 DEF Sound, Loose
<1>3. i # d /\ i # Root
  BY <1>1, SoundIs
<1>4. Sound(K, Users(C, F)) /\ Added(I, K, d, n, i) /\ More(I, K, d, n, i)
  BY <1>2, <1>3, AddSound
<1>5. Holding(I, F)
  BY Held
<1>6. Readers(K, F)
  BY <1>1, <1>4, <1>5, ReadersAdded
<1>7. KindsKept(I, K)
  BY <1>4 DEF Added, KindsKept
<1> QED BY <1>4, <1>6, <1>7, NodesChange

LEMMA RemoveKinds ==
  ASSUME NEW I, NEW J, NEW d, NEW n, NEW i, Removed(I, J, d, n, i)
  PROVE  KindsKept(I, J)
BY DEF Removed, KindsKept, SameNode

\* The files after a name has gone.
LEMMA ForgottenState ==
  ASSUME NEW L, NEW C, NEW D, NEW F, NEW I, StateOK(L, C, D, F, I), NEW d \in Inodes, IsDir(I, d), NEW n \in Names,
         NEW G, G = Forgotten(F, d, n), NEW J
  PROVE  /\ G \in FileTable /\ Inos(G) = Inos(F) /\ Dirs(G) = Dirs(F) /\ Users(C, G) = Users(C, F)
         /\ OpenOK(L, D, G) /\ (DirsOK(F, J) => DirsOK(G, J)) /\ (Holding(J, F) => Holding(J, G))
<1>1. F \in FileTable /\ OpenOK(L, D, F)
  BY StateIs
<1>2. /\ G \in FileTable
      /\ \A f \in Files : /\ G[f].ino = F[f].ino /\ G[f].dir = F[f].dir
                          /\ F[f].ino # d => G[f] = F[f]
  BY <1>1, ForgottenIs
<1>3. Inos(G) = Inos(F) /\ Dirs(G) = Dirs(F)
  BY <1>2 DEF Inos, Dirs
<1>4. \A f \in Files : G[f] # Closed <=> F[f] # Closed
  <2> TAKE f \in Files
  <2>1. CASE F[f].ino # d
    BY <2>1, <1>2
  <2>2. CASE F[f].ino = d
    <3>1. d # None
      BY Constants
    <3>2. G[f].ino # None /\ F[f].ino # None
      BY <2>2, <3>1, <1>2
    <3> QED BY <3>2, ClosedIs
  <2> QED BY <2>1, <2>2
<1>5. OpenOK(L, D, G)
  BY <1>1, <1>2, <1>4 DEF OpenOK
<1>6. (DirsOK(F, J) => DirsOK(G, J)) /\ (Holding(J, F) => Holding(J, G))
  BY <1>2 DEF DirsOK, Holding
<1> QED BY <1>2, <1>3, <1>5, <1>6 DEF Users

LEMMA UnlinkState ==
  ASSUME NEW L, NEW C, NEW D, NEW F, NEW I, StateOK(L, C, D, F, I), NEW d \in Inodes, NEW n \in Names,
         NEW i \in Inodes, Has(I, d, n, i), I[i].dents = <<>> \/ Users(C, F)[i] > 0,
         NEW J, J = DirRemove(I, d, n), NEW G, G = Forgotten(F, d, n)
  PROVE  StateOK(L, C, D, G, J) /\ Less(I, J, d, n, i) /\ Removed(I, J, d, n, i) /\ Users(C, G) = Users(C, F)
<1>1. /\ Sound(I, Users(C, F)) /\ Shape(I) /\ F \in FileTable /\ Readers(I, F)
      /\ L \subseteq Procs /\ C \in [Procs -> Inodes \cup {None}] /\ D \in [Procs -> SUBSET Files]
  BY StateIs
<1>2. Sound(J, Users(C, F)) /\ Removed(I, J, d, n, i) /\ Less(I, J, d, n, i)
  BY <1>1, RemoveSound
<1>3. IsDir(I, d)
  BY <1>1, SoundIs
<1>4. KindsKept(I, J)
  BY <1>2, RemoveKinds
<1>5. ProcsOK(L, C, D, J) /\ DirsOK(F, J) /\ Holding(J, F)
  BY <1>2, <1>4, KeepKinds
<1>6. /\ G \in FileTable /\ Users(C, G) = Users(C, F)
      /\ OpenOK(L, D, G) /\ DirsOK(G, J)
  BY <1>3, <1>5, ForgottenState
<1>7. Holding(I, F)
  BY Held
<1>8. Readers(J, G)
  BY <1>1, <1>2, <1>5, <1>7, ReadersRemoved
<1>9. StateOK(L, C, D, G, J)
  BY <1>1, <1>2, <1>5, <1>6, <1>8 DEF StateOK
<1> QED BY <1>2, <1>6, <1>9

(* ---- files are opened and closed ---- *)

\* A file g that has just been opened.
JustOpened(g, i, S) == g \in FileRec /\ g.ino = i /\ g.pos = 0 /\ (\A n \in Names : g.read[n] = 0) /\ g.stayed \subseteq S

\* Files G are F with g at x, and sets E are D with x at p.
OneFile(F, G, x, g) == G = [F EXCEPT ![x] = g]
OneDesc(D, E, p, x) == E = [D EXCEPT ![p] = @ \cup {x}]
OnlyAt(F, G, x, g) == G[x] = g /\ \A f \in Files : f # x => G[f] = F[f]
DentsKept(I, J) == \A i \in Inodes : I[i].kind # "free" => J[i].dents = I[i].dents
DirUsers(C, F, G, i, d) ==
  /\ d = None => Users(C, G) = Plus(Users(C, F), i)
  /\ d # None => Users(C, G) = Plus(Plus(Users(C, F), i), d) /\ d \in Inodes

LEMMA OneMore ==
  ASSUME NEW L, NEW C, NEW D, NEW F, NEW I, StateOK(L, C, D, F, I), NEW p \in L, NEW x \in Files, F[x] = Closed,
         NEW i \in Inodes, NEW g, NEW S, JustOpened(g, i, S), NEW G, OneFile(F, G, x, g), NEW E, OneDesc(D, E, p, x)
  PROVE  /\ G \in FileTable /\ E \in [Procs -> SUBSET Files] /\ OpenOK(L, E, G)
         /\ OnlyAt(F, G, x, g) /\ DirUsers(C, F, G, i, g.dir)
<1>1. F \in FileTable /\ D \in [Procs -> SUBSET Files] /\ L \subseteq Procs /\ OpenOK(L, D, F)
  BY StateIs
<1>2. g \in FileRec /\ g.ino = i
  BY DEF JustOpened
<1>3. G \in FileTable /\ G[x] = g /\ \A f \in Files : f # x => G[f] = F[f]
  BY <1>1, <1>2 DEF FileTable, OneFile
<1>4. E \in [Procs -> SUBSET Files] /\ x \in E[p] /\ \A q \in Procs : \A f : f # x => (f \in E[q] <=> f \in D[q])
  BY <1>1 DEF OneDesc
<1>5. None \notin Inodes
  BY Constants
<1>6. g # Closed
  BY <1>2, <1>5, ClosedIs
<1>7. OpenOK(L, E, G)
  <2> SUFFICES ASSUME NEW f \in Files
               PROVE (G[f] # Closed <=> \E q \in L : f \in E[q]) /\ (G[f] # Closed => G[f].ino \in Inodes)
    BY DEF OpenOK
  <2>1. CASE f = x
    BY <2>1, <1>2, <1>3, <1>4, <1>6
  <2>2. CASE f # x
    BY <2>2, <1>1, <1>3, <1>4 DEF OpenOK
  <2> QED BY <2>1, <2>2
<1> DEFINE w == UsesBy(C, Inos(G), Dirs(F))
<1>8. Takes(Files, Inos(F), Inos(G), x, i)
  BY <1>2, <1>3, ClosedIs DEF Takes, Inos
<1>9. w = Plus(Users(C, F), i)
  BY <1>8, InoTakes DEF Users
<1>10. ASSUME g.dir = None PROVE Users(C, G) = Plus(Users(C, F), i)
  <2>1. \A f \in Files : G[f].dir = F[f].dir
    BY <1>3, <1>10, ClosedIs
  <2>2. Dirs(G) = Dirs(F)
    BY <2>1 DEF Dirs
  <2>3. Users(C, G) = w
    BY <2>2 DEF Users
  <2> QED BY <2>3, <1>9
<1>11. ASSUME g.dir # None PROVE Users(C, G) = Plus(Plus(Users(C, F), i), g.dir) /\ g.dir \in Inodes
  <2>1. g.dir \in Inodes
    BY <1>2, <1>11 DEF FileRec
  <2>2. Takes(Files, Dirs(F), Dirs(G), x, g.dir)
    BY <1>3, ClosedIs DEF Takes, Dirs
  <2>3. Users(C, G) = Plus(w, g.dir)
    BY <2>1, <2>2, DirTakes DEF Users
  <2> QED BY <2>1, <2>3, <1>9
<1> QED BY <1>3, <1>4, <1>7, <1>10, <1>11 DEF OnlyAt, DirUsers

LEMMA ReadersOpened ==
  ASSUME NEW I \in Table, NEW J, DentsKept(I, J),
         NEW F \in FileTable, Readers(I, F), Holding(I, F), NEW x \in Files, NEW i \in Inodes, J[i].dents \in Seq(Entry),
         NEW g, JustOpened(g, i, NamesIn(J, i)), NEW G, OnlyAt(F, G, x, g)
  PROVE  Readers(J, G)
<1> SUFFICES ASSUME NEW f \in Files, G[f].ino # None PROVE ReadOK(J[G[f].ino].dents, G[f])
  BY DEF Readers
<1>1. CASE f # x
  <2>1. G[f] = F[f] /\ F[f].ino # None
    BY <1>1 DEF OnlyAt
  <2>2. J[F[f].ino].dents = I[F[f].ino].dents
    BY <2>1 DEF Holding, DentsKept
  <2> QED BY <2>1, <2>2 DEF Readers
<1>2. CASE f = x
  <2> DEFINE s == J[i].dents
  <2>1. \A n \in g.stayed : \E k \in 1..Len(s) : s[k].name = n
    <3>1. \A e : e \in ToSet(s) <=> \E k \in 1..Len(s) : e = s[k]
      BY SetOf
    <3>2. \A n \in g.stayed : \E e \in ToSet(s) : e.name = n
      BY DEF JustOpened, NamesIn, Entries
    <3> QED BY <3>1, <3>2
  <2>2. g \in FileRec /\ g.pos = 0 /\ (\A n \in Names : g.read[n] = 0) /\ g.ino = i
    BY DEF JustOpened
  <2> HIDE DEF s
  <2>3. s \in Seq(Entry)
    BY DEF s
  <2>4. ReadOK(s, g)
    BY <2>1, <2>2, <2>3, ReadStart
  <2> QED BY <1>2, <2>2, <2>4 DEF s, OnlyAt
<1> QED BY <1>1, <1>2

Taken(I, i, d) == LET J == Hold(I, i) IN IF d = None THEN J ELSE Hold(J, d)

LEMMA AllSameTrans ==
  ASSUME NEW I, NEW J, NEW K, AllSame(I, J), AllSame(J, K) PROVE AllSame(I, K)
BY DEF AllSame, SameNode

LEMMA SameKinds ==
  ASSUME NEW I, NEW J, AllSame(I, J)
  PROVE  KindsKept(I, J) /\ \A i \in Inodes : J[i].kind = I[i].kind /\ J[i].dents = I[i].dents /\ J[i].nlink = I[i].nlink /\ J[i].htab = I[i].htab
BY DEF AllSame, SameNode, KindsKept

LEMMA OpenState ==
  ASSUME NEW L, NEW C, NEW D, NEW F, NEW I, StateOK(L, C, D, F, I), NEW p \in L, NEW x \in Files, F[x] = Closed,
         NEW i \in Inodes, I[i].kind # "free", NEW g, JustOpened(g, i, NamesIn(I, i)), g.dir # None => IsDir(I, g.dir),
         NEW G, OneFile(F, G, x, g), NEW E, OneDesc(D, E, p, x), NEW J, J = Taken(I, i, g.dir)
  PROVE  StateOK(L, C, E, G, J) /\ AllSame(I, J)
<1> DEFINE u == Users(C, F)
           v == Users(C, G)
<1>1. Sound(I, u) /\ I \in Table /\ F \in FileTable /\ L \subseteq Procs /\ C \in [Procs -> Inodes \cup {None}] /\ Readers(I, F)
      /\ ProcsOK(L, C, D, I) /\ DirsOK(F, I) /\ D \in [Procs -> SUBSET Files]
  BY StateIs
<1>2. /\ G \in FileTable /\ E \in [Procs -> SUBSET Files] /\ OpenOK(L, E, G)
      /\ OnlyAt(F, G, x, g) /\ DirUsers(C, F, G, i, g.dir)
  BY OneMore
<1>0. /\ \A f \in Files : f # x => G[f] = F[f]
      /\ G[x] = g
      /\ g.dir = None => v = Plus(u, i)
      /\ g.dir # None => v = Plus(Plus(u, i), g.dir) /\ g.dir \in Inodes
  BY <1>2 DEF OnlyAt, DirUsers
<1> HIDE DEF u, v
<1>3. Sound(Hold(I, i), Plus(u, i)) /\ AllSame(I, Hold(I, i))
  BY <1>1, HoldSound
<1>4. Sound(J, v) /\ AllSame(I, J)
  <2>1. CASE g.dir = None
    <3>1. J = Hold(I, i)
      BY <2>1 DEF Taken
    <3> QED BY <2>1, <3>1, <1>0, <1>3
  <2>2. CASE g.dir # None
    <3> DEFINE H == Hold(I, i)
               d == g.dir
    <3>1. J = Hold(H, d) /\ d \in Inodes /\ v = Plus(Plus(u, i), d)
      BY <2>2, <1>0 DEF Taken
    <3>2. H[d].kind = "dir"
      BY <2>2, <3>1, <1>3 DEF AllSame, SameNode, IsDir
    <3>3. Sound(H, Plus(u, i)) /\ AllSame(I, H)
      BY <1>3
    <3> HIDE DEF H, d
    <3>4. H[d].kind # "free"
      BY <3>2
    <3>5. Sound(Hold(H, d), Plus(Plus(u, i), d)) /\ AllSame(H, Hold(H, d))
      BY <3>1, <3>3, <3>4, HoldSound
    <3> QED BY <3>1, <3>3, <3>5, AllSameTrans
  <2> QED BY <2>1, <2>2
<1>5. \A j \in Inodes : J[j].kind = I[j].kind /\ J[j].dents = I[j].dents
  BY <1>4, SameKinds
<1>6. NamesIn(J, i) = NamesIn(I, i) /\ J[i].dents \in Seq(Entry)
  BY <1>1, <1>5, TableFields DEF NamesIn, Entries
<1>7. Holding(I, F)
  BY Held
<1>11. DentsKept(I, J) /\ JustOpened(g, i, NamesIn(J, i))
  BY <1>5, <1>6 DEF DentsKept
<1>8. Readers(J, G)
  BY <1>1, <1>2, <1>6, <1>7, <1>11, ReadersOpened
<1>9. ProcsOK(L, C, E, J)
  BY <1>1, <1>5 DEF ProcsOK, IsDir, OneDesc
<1>10. DirsOK(G, J)
  <2> SUFFICES ASSUME NEW f \in Files, G[f].dir # None PROVE IsDir(J, G[f].dir)
    BY DEF DirsOK
  <2>1. G[f].dir \in Inodes
    BY <1>2, FileIs
  <2>2. IsDir(I, G[f].dir)
    BY <1>0, <1>1, <1>2 DEF DirsOK
  <2> QED BY <2>1, <2>2, <1>5 DEF IsDir
<1> QED BY <1>1, <1>2, <1>4, <1>8, <1>9, <1>10 DEF StateOK, v

\* A file without a name.
LEMMA MapsOpened ==
  ASSUME NEW L, NEW C, NEW D, NEW F, NEW I, StateOK(L, C, D, F, I), NEW p \in L, NEW x \in Files, F[x] = Closed,
         NEW i \in Inodes, I[i].kind = "free", NEW node, IsNew(node, 1), NEW g, JustOpened(g, i, {}), g.dir = None,
         NEW G, OneFile(F, G, x, g), NEW E, OneDesc(D, E, p, x), NEW J, J = PutNode(I, i, node)
  PROVE  StateOK(L, C, E, G, J) /\ KindsKept(I, J) /\ Others(I, J, i)
<1> DEFINE u == Users(C, F)
           v == Users(C, G)
<1>1. Sound(I, u) /\ u \in Uses /\ I \in Table /\ F \in FileTable /\ L \subseteq Procs /\ C \in [Procs -> Inodes \cup {None}] /\ Readers(I, F)
      /\ ProcsOK(L, C, D, I) /\ DirsOK(F, I) /\ D \in [Procs -> SUBSET Files]
  BY StateIs
<1>2. /\ G \in FileTable /\ E \in [Procs -> SUBSET Files] /\ OpenOK(L, E, G)
      /\ OnlyAt(F, G, x, g) /\ DirUsers(C, F, G, i, g.dir)
  BY OneMore
<1>0. /\ \A f \in Files : f # x => G[f] = F[f]
      /\ G[x] = g /\ v = Plus(u, i)
  BY <1>2 DEF OnlyAt, DirUsers
<1> HIDE DEF u, v
<1>3. u[i] = 0
  BY <1>1, FreeNode
<1>4. v = UsersAt(u, i, 1)
  BY <1>0, <1>3 DEF Plus, UsersAt
<1>5. Sound(J, v) /\ J[i] = node /\ Others(I, J, i)
  <2>1. 1 \in Nat /\ 1 > 0
    OBVIOUS
  <2> QED BY <2>1, <1>1, <1>4, NewSound
<1>6. \A j \in Inodes : I[j].kind # "free" => J[j] = I[j]
  BY <1>5 DEF Others
<1>7. Holding(I, F)
  BY Held
<1>8. J[i].dents = <<>> /\ node.kind # "free"
  BY <1>5 DEF IsNew
<1>9. J[i].dents \in Seq(Entry)
  BY <1>8
<1>10. JustOpened(g, i, NamesIn(J, i))
  BY DEF JustOpened
<1>15. DentsKept(I, J)
  BY <1>6 DEF DentsKept
<1>11. Readers(J, G)
  BY <1>1, <1>2, <1>7, <1>9, <1>10, <1>15, ReadersOpened
<1>12. ProcsOK(L, C, E, J)
  BY <1>1, <1>6 DEF ProcsOK, IsDir, OneDesc
<1>13. DirsOK(G, J)
  <2> SUFFICES ASSUME NEW f \in Files, G[f].dir # None PROVE IsDir(J, G[f].dir)
    BY DEF DirsOK
  <2>1. G[f].dir \in Inodes
    BY <1>2, FileIs
  <2>2. IsDir(I, G[f].dir)
    BY <1>0, <1>1, <1>2 DEF DirsOK
  <2> QED BY <2>1, <2>2, <1>6 DEF IsDir
<1>14. KindsKept(I, J)
  BY <1>6 DEF KindsKept
<1> QED BY <1>1, <1>2, <1>5, <1>11, <1>12, <1>13, <1>14 DEF StateOK, v

LEMMA RemainsKinds ==
  ASSUME NEW I, NEW J, Remains(I, J) PROVE KindsKept(I, J)
BY DEF Remains, SameNode, KindsKept

\* p lets go of the files of R.
Lost(D, E, p, R) == E = [D EXCEPT ![p] = @ \ R]

LEMMA PutState ==
  ASSUME StateOK(live, cwd, fds, files, inodes), NEW p \in live, NEW R \in SUBSET fds[p],
         NEW S, S = LastOf(p, R), NEW E, Lost(fds, E, p, R), NEW G, G = PutFiles(files, S), NEW J, J = Put(inodes, S)
  PROVE  StateOK(live, cwd, E, G, J) /\ Remains(inodes, J)
<1>1. /\ live \subseteq Procs /\ cwd \in [Procs -> Inodes \cup {None}] /\ fds \in [Procs -> SUBSET Files] /\ files \in FileTable
      /\ ProcsOK(live, cwd, fds, inodes) /\ OpenOK(live, fds, files) /\ DirsOK(files, inodes)
      /\ Sound(inodes, Users(cwd, files)) /\ Readers(inodes, files)
  BY StateIs
<1>2. S \in SUBSET Files /\ S \subseteq R /\ S \subseteq fds[p]
  BY <1>1 DEF LastOf
<1>3. \A f \in S : files[f].ino \in Inodes
  BY <1>1, <1>2 DEF OpenOK
<1>4. Sound(J, Users(cwd, G)) /\ Remains(inodes, J)
  BY <1>1, <1>2, <1>3, PutSound
<1>5. G \in FileTable
  BY <1>1, <1>2, ClosedIs DEF FileTable, PutFiles
<1>6. \A f \in Files : G[f] = Closed \/ (f \notin S /\ G[f] = files[f])
  BY DEF PutFiles
<1>7. \A f \in S : G[f] = Closed
  BY <1>2 DEF PutFiles
<1>8. E \in [Procs -> SUBSET Files] /\ E[p] = fds[p] \ R /\ \A q \in Procs : q # p => E[q] = fds[q]
  BY <1>1 DEF Lost
<1>9. OpenOK(live, E, G)
  <2> SUFFICES ASSUME NEW f \in Files
               PROVE (G[f] # Closed <=> \E q \in live : f \in E[q]) /\ (G[f] # Closed => G[f].ino \in Inodes)
    BY DEF OpenOK
  <2>1. CASE f \in S
    <3>1. \A q \in Procs \ {p} : f \notin fds[q]
      BY <2>1 DEF LastOf
    <3>2. f \in R
      BY <2>1, <1>2
    <3>3. \A q \in live : f \notin E[q]
      BY <3>1, <3>2, <1>1, <1>8
    <3> QED BY <2>1, <3>3, <1>7
  <2>2. CASE f \notin S
    <3>1. G[f] = files[f]
      BY <2>2 DEF PutFiles
    <3>2. (\E q \in live : f \in fds[q]) <=> \E q \in live : f \in E[q]
      <4>1. CASE f \in R
        <5>1. PICK q \in Procs \ {p} : f \in fds[q]
          BY <2>2, <4>1 DEF LastOf
        <5>2. q \in live
          BY <5>1, <1>1 DEF ProcsOK
        <5>3. f \in E[q]
          BY <5>1, <1>8
        <5> QED BY <5>1, <5>2, <5>3
      <4>2. CASE f \notin R
        BY <4>2, <1>1, <1>8
      <4> QED BY <4>1, <4>2
    <3> QED BY <3>1, <3>2, <1>1 DEF OpenOK
  <2> QED BY <2>1, <2>2
<1>10. \A q \in Procs : fds[q] = {} => E[q] = {}
  BY <1>8
<1>11. ASSUME NEW q \in Procs, q \in live PROVE cwd[q] \in Inodes /\ IsDir(J, cwd[q])
  <2>1. cwd[q] \in Inodes /\ IsDir(inodes, cwd[q])
    BY <1>1, <1>11 DEF ProcsOK
  <2>2. J[cwd[q]].kind # "free"
    <3>1. cwd[q] # None
      BY <2>1, Constants
    <3> QED BY <1>1, <1>4, <1>5, <3>1, UsedIsThere
  <2> QED BY <1>4, <2>1, <2>2 DEF Remains, SameNode, IsDir
<1>12. ProcsOK(live, cwd, E, J)
  BY <1>1, <1>10, <1>11 DEF ProcsOK
<1>13. Holding(J, G)
  BY <1>1, <1>4, <1>5, UsedIsThere DEF Holding
<1>14. DirsOK(G, J)
  <2> SUFFICES ASSUME NEW f \in Files, G[f].dir # None PROVE IsDir(J, G[f].dir)
    BY DEF DirsOK
  <2>1. G[f].dir \in Inodes /\ J[G[f].dir].kind # "free"
    BY <1>1, <1>4, <1>5, UsedIsThere
  <2>2. G[f] = files[f]
    BY <1>6, ClosedIs
  <2>3. IsDir(inodes, G[f].dir)
    BY <2>2, <1>1 DEF DirsOK
  <2> QED BY <1>4, <2>1, <2>3 DEF Remains, SameNode, IsDir
<1>15. Readers(J, G)
  <2> SUFFICES ASSUME NEW f \in Files, G[f].ino # None PROVE ReadOK(J[G[f].ino].dents, G[f])
    BY DEF Readers
  <2>1. G[f] = files[f]
    BY <1>6, ClosedIs
  <2>2. G[f].ino \in Inodes /\ J[G[f].ino].kind # "free"
    BY <1>13 DEF Holding
  <2>3. J[G[f].ino].dents = inodes[G[f].ino].dents
    BY <1>4, <2>2 DEF Remains, SameNode
  <2> QED BY <1>1, <2>1, <2>3 DEF Readers
<1> QED BY <1>1, <1>4, <1>5, <1>8, <1>9, <1>12, <1>14, <1>15 DEF StateOK

(* ---- processes come, go and move ---- *)

Works(C, B, p, i) == B = [C EXCEPT ![p] = i]
Copies(D, E, c, p) == E = [D EXCEPT ![c] = D[p]]
There(C, F, I) ==
  /\ \A q \in Procs : C[q] # None => I[C[q]].kind # "free"
  /\ \A f \in Files : F[f].ino # None => F[f].ino \in Inodes /\ I[F[f].ino].kind # "free"
  /\ \A f \in Files : F[f].dir # None => F[f].dir \in Inodes /\ I[F[f].dir].kind # "free"

LEMMA AreThere ==
  ASSUME NEW C \in [Procs -> Inodes \cup {None}], NEW F \in FileTable, NEW I, Sound(I, Users(C, F))
  PROVE  There(C, F, I)
BY UsedIsThere DEF There

\* p works in i, and in none before.
CwdAt(C, B, p, i) == p \in Procs /\ C[p] = None /\ B[p] = i /\ \A q \in Procs : q # p => B[q] = C[q]
LEMMA CwdPlus ==
  ASSUME NEW C, NEW B, NEW F, NEW p, NEW i \in Inodes, CwdAt(C, B, p, i)
  PROVE  Users(B, F) = Plus(Users(C, F), i)
<1>1. Takes(Procs, C, B, p, i)
  BY DEF Takes, CwdAt
<1> QED BY <1>1, CwdTakes DEF Users

LEMMA ForkState ==
  ASSUME NEW L, NEW C, NEW D, NEW F, NEW I, StateOK(L, C, D, F, I), NEW p \in L, NEW c \in Procs, c \notin L,
         NEW B, Works(C, B, c, C[p]), NEW E, Copies(D, E, c, p), NEW J, J = Hold(I, C[p])
  PROVE  StateOK(L \cup {c}, B, E, F, J) /\ AllSame(I, J)
<1>1. /\ L \subseteq Procs /\ C \in [Procs -> Inodes \cup {None}] /\ D \in [Procs -> SUBSET Files] /\ F \in FileTable
      /\ ProcsOK(L, C, D, I) /\ OpenOK(L, D, F) /\ DirsOK(F, I) /\ Sound(I, Users(C, F)) /\ Readers(I, F)
  BY StateIs
<1>2. C[p] \in Inodes /\ IsDir(I, C[p]) /\ C[c] = None /\ D[c] = {}
  BY <1>1 DEF ProcsOK
<1>3. B \in [Procs -> Inodes \cup {None}] /\ B[c] = C[p] /\ \A q \in Procs : q # c => B[q] = C[q]
  BY <1>1 DEF Works
<1>4. E \in [Procs -> SUBSET Files] /\ E[c] = D[p] /\ \A q \in Procs : q # c => E[q] = D[q]
  BY <1>1 DEF Copies
<1>15. CwdAt(C, B, c, C[p])
  BY <1>2, <1>3 DEF CwdAt
<1>5. Users(B, F) = Plus(Users(C, F), C[p])
  BY <1>2, <1>15, CwdPlus
<1>6. I[C[p]].kind # "free"
  BY <1>2 DEF IsDir
<1>7. Sound(J, Users(B, F)) /\ AllSame(I, J)
  BY <1>1, <1>2, <1>5, <1>6, HoldSound
<1>8. \A j \in Inodes : J[j].kind = I[j].kind /\ J[j].dents = I[j].dents
  BY <1>7, SameKinds
<1>9. ProcsOK(L \cup {c}, B, E, J)
  BY <1>1, <1>2, <1>3, <1>4, <1>8 DEF ProcsOK, IsDir
<1>10. OpenOK(L \cup {c}, E, F)
  <2>1. \A f \in Files : (\E q \in L \cup {c} : f \in E[q]) <=> \E q \in L : f \in D[q]
    BY <1>1, <1>4
  <2> QED BY <1>1, <2>1 DEF OpenOK
<1>11. Holding(I, F)
  BY Held
<1>12. \A f \in Files : F[f].dir # None => F[f].dir \in Inodes
  BY <1>1, FileIs
<1>13. DirsOK(F, J)
  BY <1>1, <1>8, <1>12 DEF DirsOK, IsDir
<1>14. Readers(J, F)
  BY <1>1, <1>8, <1>11 DEF Readers, Holding
<1> QED BY <1>1, <1>3, <1>4, <1>7, <1>9, <1>10, <1>13, <1>14 DEF StateOK

LEMMA LeaveState ==
  ASSUME NEW L, NEW C, NEW D, NEW F, NEW I, StateOK(L, C, D, F, I), NEW p \in L, D[p] = {},
         NEW B, Works(C, B, p, None), NEW J, J = LetGo(I, C[p])
  PROVE  StateOK(L \ {p}, B, D, F, J) /\ Remains(I, J)
<1>1. /\ L \subseteq Procs /\ C \in [Procs -> Inodes \cup {None}] /\ D \in [Procs -> SUBSET Files] /\ F \in FileTable
      /\ ProcsOK(L, C, D, I) /\ OpenOK(L, D, F) /\ DirsOK(F, I) /\ Sound(I, Users(C, F)) /\ Readers(I, F)
  BY StateIs
<1>2. C[p] \in Inodes
  BY <1>1 DEF ProcsOK
<1>3. B \in [Procs -> Inodes \cup {None}] /\ B[p] = None /\ \A q \in Procs : q # p => B[q] = C[q]
  BY <1>1 DEF Works
<1>14. CwdAt(B, C, p, C[p])
  BY <1>1, <1>3 DEF CwdAt
<1>4. Users(C, F) = Plus(Users(B, F), C[p])
  BY <1>2, <1>14, CwdPlus
<1>5. Users(B, F) \in Uses
  BY UsesNat DEF Users
<1>6. Sound(J, Users(B, F)) /\ Remains(I, J)
  BY <1>1, <1>2, <1>4, <1>5, LetGoPlus, RemainsOnly
<1>15. There(B, F, J)
  BY <1>1, <1>3, <1>6, AreThere
<1>7. /\ \A q \in Procs : B[q] # None => J[B[q]].kind # "free"
      /\ \A f \in Files : F[f].ino # None => F[f].ino \in Inodes /\ J[F[f].ino].kind # "free"
      /\ \A f \in Files : F[f].dir # None => F[f].dir \in Inodes /\ J[F[f].dir].kind # "free"
  BY <1>15 DEF There
<1>8. \A j \in Inodes : J[j].kind # "free" => J[j].kind = I[j].kind /\ J[j].dents = I[j].dents
  BY <1>6 DEF Remains, SameNode
<1>9. None \notin Inodes
  BY Constants
<1>10. ProcsOK(L \ {p}, B, D, J)
  BY <1>1, <1>3, <1>7, <1>8, <1>9 DEF ProcsOK, IsDir
<1>11. OpenOK(L \ {p}, D, F)
  BY <1>1 DEF OpenOK
<1>12. DirsOK(F, J)
  BY <1>1, <1>7, <1>8 DEF DirsOK, IsDir
<1>13. Readers(J, F)
  BY <1>1, <1>7, <1>8 DEF Readers
<1> QED BY <1>1, <1>3, <1>6, <1>10, <1>11, <1>12, <1>13 DEF StateOK

LEMMA PlusTwice ==
  ASSUME NEW u \in Uses, NEW i \in Inodes, NEW j \in Inodes
  PROVE  Plus(Plus(u, i), j) = Plus(Plus(u, j), i)
<1>1. u[i] \in Nat /\ u[j] \in Nat
  BY DEF Uses
<1> QED BY <1>1 DEF Plus, Uses

LEMMA ChdirState ==
  ASSUME NEW L, NEW C, NEW D, NEW F, NEW I, StateOK(L, C, D, F, I), NEW p \in L, NEW i \in Inodes, IsDir(I, i),
         NEW B, Works(C, B, p, i), NEW J, J = LetGo(Hold(I, i), C[p])
  PROVE  StateOK(L, B, D, F, J) /\ Remains(I, J)
<1> DEFINE A == [C EXCEPT ![p] = None]
           H == Hold(I, i)
           w == Users(A, F)
           c == C[p]
<1>1. /\ L \subseteq Procs /\ C \in [Procs -> Inodes \cup {None}] /\ D \in [Procs -> SUBSET Files] /\ F \in FileTable
      /\ ProcsOK(L, C, D, I) /\ OpenOK(L, D, F) /\ DirsOK(F, I) /\ Sound(I, Users(C, F)) /\ Readers(I, F)
  BY StateIs
<1>2. c \in Inodes
  BY <1>1 DEF ProcsOK
<1>3. B \in [Procs -> Inodes \cup {None}] /\ B[p] = i /\ \A q \in Procs : q # p => B[q] = C[q]
  BY <1>1 DEF Works
<1>4. A[p] = None /\ \A q \in Procs : q # p => B[q] = A[q] /\ C[q] = A[q]
  BY <1>1, <1>3
<1>5. w \in Uses
  BY UsesNat DEF Users
<1> HIDE DEF A
<1>14. CwdAt(A, C, p, c) /\ CwdAt(A, B, p, i)
  BY <1>1, <1>3, <1>4 DEF CwdAt
<1>6. Users(C, F) = Plus(w, c) /\ Users(B, F) = Plus(w, i)
  BY <1>2, <1>14, CwdPlus
<1> HIDE DEF w, H, c
<1>7. I[i].kind # "free"
  BY DEF IsDir
<1>8. Sound(H, Plus(Plus(w, c), i)) /\ AllSame(I, H)
  BY <1>1, <1>6, <1>7, HoldSound DEF H
<1>9. Sound(H, Plus(Plus(w, i), c))
  BY <1>2, <1>5, <1>8, PlusTwice
<1>10. Plus(w, i) \in Uses
  BY <1>5, PlusIs
<1>11. J = LetGo(H, c)
  BY DEF H, c
<1>12. Sound(J, Plus(w, i)) /\ Remains(H, J)
  BY <1>2, <1>9, <1>10, <1>11, LetGoPlus, RemainsOnly
<1>13. Sound(J, Users(B, F)) /\ Remains(I, J)
  BY <1>6, <1>8, <1>12 DEF AllSame, Remains, SameNode
<1>15. There(B, F, J)
  BY <1>1, <1>3, <1>13, AreThere
<1>16. /\ \A q \in Procs : B[q] # None => J[B[q]].kind # "free"
       /\ \A f \in Files : F[f].ino # None => F[f].ino \in Inodes /\ J[F[f].ino].kind # "free"
       /\ \A f \in Files : F[f].dir # None => F[f].dir \in Inodes /\ J[F[f].dir].kind # "free"
  BY <1>15 DEF There
<1>17. \A j \in Inodes : J[j].kind # "free" => J[j].kind = I[j].kind /\ J[j].dents = I[j].dents
  BY <1>13 DEF Remains, SameNode
<1>18. None \notin Inodes
  BY Constants
<1>19. ProcsOK(L, B, D, J)
  BY <1>1, <1>3, <1>16, <1>17, <1>18 DEF ProcsOK, IsDir
<1>20. DirsOK(F, J)
  BY <1>1, <1>16, <1>17 DEF DirsOK, IsDir
<1>21. Readers(J, F)
  BY <1>1, <1>16, <1>17 DEF Readers
<1> QED BY <1>1, <1>3, <1>13, <1>19, <1>20, <1>21 DEF StateOK

(* ---- directories are read ---- *)

LEMMA ReadState ==
  ASSUME NEW L, NEW C, NEW D, NEW F, NEW I, StateOK(L, C, D, F, I), NEW f \in Files, F[f].ino \in Inodes,
         NEW g \in FileRec, g.ino = F[f].ino, g.dir = F[f].dir, ReadOK(I[F[f].ino].dents, g), NEW G, OneFile(F, G, f, g)
  PROVE  StateOK(L, C, D, G, I) /\ Users(C, G) = Users(C, F)
<1>1. /\ L \subseteq Procs /\ C \in [Procs -> Inodes \cup {None}] /\ D \in [Procs -> SUBSET Files] /\ F \in FileTable
      /\ ProcsOK(L, C, D, I) /\ OpenOK(L, D, F) /\ DirsOK(F, I) /\ Sound(I, Users(C, F)) /\ Readers(I, F)
  BY StateIs
<1>2. G \in FileTable /\ G[f] = g /\ \A x \in Files : x # f => G[x] = F[x]
  BY <1>1 DEF FileTable, OneFile
<1>3. \A x \in Files : G[x].ino = F[x].ino /\ G[x].dir = F[x].dir
  BY <1>2
<1>4. Users(C, G) = Users(C, F)
  <2>1. Inos(G) = Inos(F) /\ Dirs(G) = Dirs(F)
    BY <1>3 DEF Inos, Dirs
  <2> QED BY <2>1 DEF Users
<1>5. \A x \in Files : G[x] # Closed <=> F[x] # Closed
  <2>1. None \notin Inodes
    BY Constants
  <2> QED BY <1>2, <2>1, ClosedIs
<1>6. OpenOK(L, D, G)
  BY <1>1, <1>3, <1>5 DEF OpenOK
<1>7. DirsOK(G, I)
  BY <1>1, <1>3 DEF DirsOK
<1>8. Readers(I, G)
  BY <1>1, <1>2 DEF Readers
<1> QED BY <1>1, <1>2, <1>4, <1>6, <1>7, <1>8 DEF StateOK

(* ---- a name is moved ---- *)

\* Whatever d is not below, it is not below when a name has gone.
LEMMA StillNotBelow ==
  ASSUME NEW I \in Table, NEW J \in Table, NEW x \in Inodes, NEW m \in Names, NEW i \in Inodes, Less(I, J, x, m, i), Removed(I, J, x, m, i),
         NEW s, NEW d, NotBelow(I, s, d)
  PROVE  NotBelow(J, s, d)
<1>1. PICK T : Above(I, T, s, d)
  BY DEF NotBelow
<1>2. \A j \in Inodes : Spots(J, j) \subseteq Spots(I, j)
  <2>1. LessAt(I, J, x, m, i)
    BY LessSpots
  <2> QED BY <2>1 DEF LessAt, Elsewhere
<1>3. \A j \in NamedDirs(J) : j \in NamedDirs(I) /\ J[j].parent = I[j].parent
  BY <1>2 DEF NamedDirs, IsDir, Removed, SameNode
<1>4. Above(J, T, s, d)
  BY <1>1, <1>3 DEF Above
<1> QED BY <1>4 DEF NotBelow

LEMMA NotBelowSame ==
  ASSUME NEW I, NEW J, AllSame(I, J), NEW s, NEW d, NotBelow(I, s, d)
  PROVE  NotBelow(J, s, d)
<1>1. PICK T : Above(I, T, s, d)
  BY DEF NotBelow
<1>2. \A j \in Inodes : J[j].dents = I[j].dents
  BY SameKinds
<1>3. \A j : Spots(J, j) = Spots(I, j)
  BY <1>2, SameSpots
<1>4. \A j \in NamedDirs(J) : j \in NamedDirs(I) /\ J[j].parent = I[j].parent
  BY <1>3 DEF NamedDirs, IsDir, AllSame, SameNode
<1>5. Above(J, T, s, d)
  BY <1>1, <1>4 DEF Above
<1> QED BY <1>5 DEF NotBelow

\* dst made way for src.
Cleared(I, J, nd, nl, dst) ==
  IF dst = None THEN J = I ELSE dst \in Inodes /\ Removed(I, J, nd, nl, dst) /\ Less(I, J, nd, nl, dst)

\* The names of J are those of I but for dst's, which is gone, and src's, which is
\* elsewhere.
Moved(I, J, od, ol, nd, nl, src, dst) ==
  \A x \in Inodes : \A m, j :
    Has(J, x, m, j) <=> \/ Has(I, x, m, j) /\ ~(x = nd /\ m = nl /\ j = dst) /\ ~(x = od /\ m = ol /\ j = src)
                        \/ x = nd /\ m = nl /\ j = src
NoneNew(I, J) == \A j \in Inodes : I[j].kind = "free" => J[j].kind = "free"
KindsSame(I, J) == \A j \in Inodes : J[j].kind = I[j].kind

\* The second half: src, which is held, leaves od for nd.
MoveSrc(J, od, ol, nd, nl, src) ==
  LET K == DirRemove(Hold(J, src), od, ol)
      L == DirAdd(K, nd, nl, src)
  IN  [L EXCEPT ![src].refs = @ - 1]
MoveOK(J, M, od, ol, nd, nl, src) ==
  \A x \in Inodes : \A m, j :
    Has(M, x, m, j) <=> \/ Has(J, x, m, j) /\ ~(x = od /\ m = ol /\ j = src)
                        \/ x = nd /\ m = nl /\ j = src

LEMMA RefsOnly ==
  ASSUME NEW I \in Table, NEW x \in Inodes, NEW J, J = [I EXCEPT ![x].refs = @ - 1]
  PROVE  AllSame(I, J)
<1>1. \A i \in Inodes : i # x => J[i] = I[i]
  BY DEF Table
<1>2. J[x] = [I[x] EXCEPT !.refs = @ - 1] /\ I[x] \in InodeRec
  BY DEF Table
<1>3. /\ J[x].kind = I[x].kind /\ J[x].dents = I[x].dents /\ J[x].htab = I[x].htab
      /\ J[x].parent = I[x].parent /\ J[x].target = I[x].target /\ J[x].nlink = I[x].nlink /\ J[x].lost = I[x].lost
  BY <1>2 DEF InodeRec
<1> QED BY <1>1, <1>3 DEF AllSame, SameNode

MoveSteps(J, od, ol, nd, nl, src, H, K, L, M) ==
  /\ H = Hold(J, src) /\ K = DirRemove(H, od, ol) /\ L = DirAdd(K, nd, nl, src)
  /\ M = [L EXCEPT ![src].refs = @ - 1]

LEMMA MoveSound ==
  ASSUME NEW J, NEW u, Sound(J, u), NEW od \in Inodes, NEW ol \in Names, NEW nd \in Inodes, NEW nl \in Names, NEW src \in Inodes,
         Has(J, od, ol, src), IsDir(J, nd), nl \notin NamesIn(J, nd),
         IsDir(J, src) => NotBelow(J, src, nd) /\ src # nd,
         NEW H, NEW K, NEW L, NEW M, MoveSteps(J, od, ol, nd, nl, src, H, K, L, M)
  PROVE  /\ AllSame(J, H) /\ Shape(H) /\ H \in Table
         /\ Removed(H, K, od, ol, src) /\ Less(H, K, od, ol, src) /\ K[src].kind # "free" /\ K \in Table
         /\ Added(K, L, nd, nl, src) /\ More(K, L, nd, nl, src) /\ nl \notin NamesIn(K, nd) /\ L \in Table
         /\ AllSame(L, M) /\ Sound(M, u)
<1> DEFINE v == Plus(u, src)
<1>0. H = Hold(J, src) /\ K = DirRemove(H, od, ol) /\ L = DirAdd(K, nd, nl, src) /\ M = [L EXCEPT ![src].refs = @ - 1]
  BY DEF MoveSteps
<1>1. J \in Table /\ u \in Uses /\ src # Root /\ J[src].kind # "free"
  BY SoundIs
<1>2. Sound(H, v) /\ AllSame(J, H)
  BY <1>0, <1>1, HoldSound
<1>3. v \in Uses /\ v[src] > 0 /\ Minus(v, src) = u
  BY <1>1, PlusIs
<1> HIDE DEF v
<1>4. H \in Table /\ Shape(H)
  BY <1>2, SoundIs
<1>5. \A d \in Inodes : H[d].dents = J[d].dents /\ H[d].kind = J[d].kind
  BY <1>2, SameKinds
<1>6. \A d \in Inodes : \A n, i : Has(H, d, n, i) = Has(J, d, n, i)
  BY <1>5, SameEntries
<1>7. Sound(K, v) /\ Removed(H, K, od, ol, src) /\ Less(H, K, od, ol, src)
  <2>1. Has(H, od, ol, src)
    BY <1>6
  <2> QED BY <1>0, <1>2, <1>3, <2>1, RemoveSound
<1>8. K[src].kind # "free" /\ K \in Table /\ Shape(K)
  BY <1>3, <1>7, SoundIs
<1>9. Loose(K, v, src)
  BY <1>7, <1>8 DEF Sound, Loose
<1>10. src # nd
  BY DEF IsDir
<1>11. IsDir(K, nd) /\ (IsDir(K, src) => IsDir(J, src))
  BY <1>5, <1>7, <1>8, <1>10 DEF Removed, SameNode, IsDir
<1>12. nl \notin NamesIn(K, nd)
  <2>1. /\ nl \in NamesIn(K, nd) <=> \E i \in Inodes : Has(K, nd, nl, i)
        /\ nl \in NamesIn(J, nd) <=> \E i \in Inodes : Has(J, nd, nl, i)
    BY <1>1, <1>8, HasIs
  <2>2. \A i : Has(K, nd, nl, i) => Has(J, nd, nl, i)
    BY <1>6, <1>7 DEF Less
  <2> QED BY <2>1, <2>2
<1>13. ASSUME IsDir(K, src) PROVE Spots(K, src) = {} /\ NotBelow(K, src, nd)
  <2>1. IsDir(J, src) /\ IsDir(H, src)
    BY <1>5, <1>11, <1>13 DEF IsDir
  <2>2. OneName(H, src) /\ Has(H, od, ol, src)
    BY <1>4, <1>6 DEF Shape
  <2>3. <<od, ol>> \in Spots(H, src)
    BY <2>2, <1>4, SpotsAre
  <2>4. \A y \in Spots(H, src) : y = <<od, ol>>
    BY <2>1, <2>2, <2>3 DEF OneName
  <2>5. LessAt(H, K, od, ol, src)
    BY <1>4, <1>7, LessSpots
  <2>6. Spots(K, src) = {}
    BY <2>4, <2>5 DEF LessAt
  <2>7. NotBelow(H, src, nd)
    BY <2>1, <1>2, NotBelowSame
  <2>8. NotBelow(K, src, nd)
    BY <2>7, <1>4, <1>7, <1>8, StillNotBelow
  <2> QED BY <2>6, <2>8
<1>14. Sound(L, v) /\ Added(K, L, nd, nl, src) /\ More(K, L, nd, nl, src)
  BY <1>0, <1>1, <1>9, <1>10, <1>11, <1>12, <1>13, AddSound
<1>15. L \in Table /\ L[src].nlink # 0
  BY <1>14 DEF Added
<1>16. Sound(M, u)
  <2>1. Sound(LetGo(L, src), Minus(v, src)) /\ LetGo(L, src) = [L EXCEPT ![src].refs = @ - 1]
    BY <1>3, <1>14, <1>15, LetGoSound
  <2> QED BY <2>1, <1>0, <1>3
<1>17. AllSame(L, M)
  BY <1>0, <1>15, RefsOnly
<1> QED BY <1>2, <1>4, <1>7, <1>8, <1>12, <1>14, <1>15, <1>16, <1>17

LEMMA MoveNames ==
  ASSUME NEW J, NEW H, NEW K, NEW L, NEW M, AllSame(J, H), NEW od \in Inodes, NEW ol, NEW nd \in Inodes, NEW nl, NEW src \in Inodes,
         Less(H, K, od, ol, src), More(K, L, nd, nl, src), AllSame(L, M), Removed(H, K, od, ol, src), K[src].kind # "free",
         Added(K, L, nd, nl, src)
  PROVE  MoveOK(J, M, od, ol, nd, nl, src) /\ KindsSame(J, M) /\ KindsSame(J, K)
<1>1. \A d \in Inodes : \A n, i : Has(H, d, n, i) = Has(J, d, n, i)
  <2>1. \A d \in Inodes : H[d].dents = J[d].dents
    BY SameKinds
  <2> QED BY <2>1, SameEntries
<1>2. \A d \in Inodes : \A n, i : Has(M, d, n, i) = Has(L, d, n, i)
  <2>1. \A d \in Inodes : M[d].dents = L[d].dents
    BY SameKinds
  <2> QED BY <2>1, SameEntries
<1>3. MoveOK(J, M, od, ol, nd, nl, src)
  BY <1>1, <1>2 DEF MoveOK, Less, More
<1>4. \A j \in Inodes : H[j].kind = J[j].kind /\ M[j].kind = L[j].kind
  BY SameKinds
<1>5. \A j \in Inodes : K[j].kind = H[j].kind /\ L[j].kind = K[j].kind
  BY DEF Removed, Added, SameNode
<1> QED BY <1>3, <1>4, <1>5 DEF KindsSame

LEMMA MoveState ==
  ASSUME NEW L, NEW C, NEW D, NEW F, NEW I, StateOK(L, C, D, F, I), NEW od \in Inodes, NEW ol \in Names, NEW nd \in Inodes, NEW nl \in Names,
         NEW src \in Inodes, Has(I, od, ol, src), IsDir(I, nd), nl \notin NamesIn(I, nd),
         IsDir(I, src) => NotBelow(I, src, nd) /\ src # nd,
         NEW M, M = MoveSrc(I, od, ol, nd, nl, src), NEW G, G = Forgotten(F, od, ol)
  PROVE  StateOK(L, C, D, G, M) /\ MoveOK(I, M, od, ol, nd, nl, src) /\ KindsSame(I, M) /\ Users(C, G) = Users(C, F)
<1> DEFINE u == Users(C, F)
           H == Hold(I, src)
           K == DirRemove(H, od, ol)
           N == DirAdd(K, nd, nl, src)
<1>1. /\ L \subseteq Procs /\ C \in [Procs -> Inodes \cup {None}] /\ D \in [Procs -> SUBSET Files] /\ F \in FileTable
      /\ Sound(I, u) /\ Readers(I, F)
  BY StateIs
<1>2. M = [N EXCEPT ![src].refs = @ - 1]
  BY DEF MoveSrc
<1>3. IsDir(I, od)
  BY <1>1, SoundIs
<1>16. MoveSteps(I, od, ol, nd, nl, src, H, K, N, M)
  BY <1>2 DEF MoveSteps
<1> HIDE DEF u, H, K, N
<1>4. /\ AllSame(I, H) /\ Shape(H) /\ H \in Table
      /\ Removed(H, K, od, ol, src) /\ Less(H, K, od, ol, src) /\ K[src].kind # "free" /\ K \in Table
      /\ Added(K, N, nd, nl, src) /\ More(K, N, nd, nl, src) /\ nl \notin NamesIn(K, nd) /\ N \in Table
      /\ AllSame(N, M) /\ Sound(M, u)
  BY <1>1, <1>16, MoveSound
<1>5. MoveOK(I, M, od, ol, nd, nl, src) /\ KindsSame(I, M) /\ KindsSame(I, K)
  BY <1>4, MoveNames
<1>6. Holding(I, F)
  BY Held
<1>7. /\ \A j \in Inodes : H[j].kind = I[j].kind /\ H[j].dents = I[j].dents
      /\ \A j \in Inodes : M[j].kind = N[j].kind /\ M[j].dents = N[j].dents
  BY <1>4, SameKinds
<1>8. Holding(H, F) /\ Holding(K, F)
  BY <1>5, <1>6, <1>7 DEF Holding, KindsSame
<1>9. Readers(H, F)
  BY <1>1, <1>6, <1>7 DEF Readers, Holding
<1>10. Readers(K, G)
  BY <1>1, <1>4, <1>8, <1>9, ReadersRemoved
<1>11. /\ G \in FileTable /\ Users(C, G) = u
       /\ OpenOK(L, D, G) /\ (DirsOK(F, M) => DirsOK(G, M)) /\ (Holding(K, F) => Holding(K, G))
  BY <1>3, ForgottenState DEF u
<1>12. Readers(N, G)
  BY <1>4, <1>8, <1>10, <1>11, ReadersAdded
<1>13. Readers(M, G)
  <2>1. \A f \in Files : G[f].ino # None => G[f].ino \in Inodes
    BY <1>8, <1>11 DEF Holding
  <2> QED BY <1>7, <1>12, <2>1 DEF Readers
<1>14. KindsKept(I, M)
  BY <1>5 DEF KindsSame, KindsKept
<1>15. ProcsOK(L, C, D, M) /\ DirsOK(F, M)
  BY <1>4, <1>14, KeepKinds DEF u
<1> QED BY <1>1, <1>4, <1>5, <1>11, <1>13, <1>15 DEF StateOK, u

\* What rename asks of its two names.
MayMove(I, od, ol, nd, nl, src, dst) ==
  /\ Has(I, od, ol, src) /\ IsDir(I, nd) /\ dst # src
  /\ IsDir(I, src) => NotBelow(I, src, nd) /\ src # nd
  /\ IF dst = None THEN nl \notin NamesIn(I, nd) ELSE Has(I, nd, nl, dst) /\ I[dst].dents = <<>>

LEMMA ClearState ==
  ASSUME NEW L, NEW C, NEW D, NEW F, NEW I, StateOK(L, C, D, F, I), NEW od \in Inodes, NEW ol \in Names, NEW nd \in Inodes, NEW nl \in Names,
         NEW src \in Inodes, NEW dst \in Inodes, MayMove(I, od, ol, nd, nl, src, dst),
         NEW J, J = DirRemove(I, nd, nl), NEW E, E = Forgotten(F, nd, nl)
  PROVE  /\ StateOK(L, C, D, E, J) /\ Less(I, J, nd, nl, dst) /\ Users(C, E) = Users(C, F)
         /\ Has(J, od, ol, src) /\ IsDir(J, nd) /\ nl \notin NamesIn(J, nd) /\ (IsDir(J, src) => NotBelow(J, src, nd) /\ src # nd)
         /\ NoneNew(I, J) /\ KindsKept(I, J)
<1>1. dst # None
  BY Constants
<1>2. /\ Has(I, od, ol, src) /\ IsDir(I, nd) /\ dst # src
      /\ IsDir(I, src) => NotBelow(I, src, nd) /\ src # nd
      /\ Has(I, nd, nl, dst) /\ I[dst].dents = <<>>
  BY <1>1 DEF MayMove
<1>3. StateOK(L, C, D, E, J) /\ Less(I, J, nd, nl, dst) /\ Removed(I, J, nd, nl, dst) /\ Users(C, E) = Users(C, F)
  BY <1>2, UnlinkState
<1>4. I \in Table /\ J \in Table /\ Shape(I)
  BY <1>3, StateIs
<1>5. Has(J, od, ol, src)
  BY <1>2, <1>3 DEF Less
<1>6. J[src].kind = I[src].kind /\ J[nd].kind = I[nd].kind
  BY <1>2, <1>3 DEF Removed
<1>7. nl \notin NamesIn(J, nd)
  <2>1. nl \in NamesIn(J, nd) <=> \E i \in Inodes : Has(J, nd, nl, i)
    BY <1>4, HasIs
  <2>2. ASSUME NEW i \in Inodes, Has(J, nd, nl, i) PROVE FALSE
    <3>1. Has(I, nd, nl, i) /\ i # dst
      BY <1>3, <2>2 DEF Less
    <3>2. DirOK(I, nd)
      BY <1>4, ShapeIs
    <3> QED BY <1>2, <1>4, <3>1, <3>2, HasOnce
  <2> QED BY <2>1, <2>2
<1>8. IsDir(J, src) => NotBelow(J, src, nd) /\ src # nd
  <2>1. ASSUME IsDir(J, src) PROVE NotBelow(J, src, nd) /\ src # nd
    <3>1. NotBelow(I, src, nd) /\ src # nd
      BY <1>2, <1>6, <2>1 DEF IsDir
    <3>2. NotBelow(J, src, nd)
      BY <1>3, <1>4, <3>1, StillNotBelow
    <3> QED BY <3>1, <3>2
  <2> QED BY <2>1
<1>9. NoneNew(I, J) /\ KindsKept(I, J)
  BY <1>3 DEF Removed, NoneNew, KindsKept, SameNode
<1> QED BY <1>2, <1>3, <1>5, <1>6, <1>7, <1>8, <1>9 DEF IsDir

LEMMA RenameState ==
  ASSUME NEW L, NEW C, NEW D, NEW F, NEW I, StateOK(L, C, D, F, I), NEW od \in Inodes, NEW ol \in Names, NEW nd \in Inodes, NEW nl \in Names,
         NEW src \in Inodes, NEW dst \in Inodes \cup {None}, MayMove(I, od, ol, nd, nl, src, dst),
         NEW M, M = Renamed(I, od, ol, nd, nl, src, dst),
         NEW G, G = Forgotten(IF dst = None THEN F ELSE Forgotten(F, nd, nl), od, ol)
  PROVE  StateOK(L, C, D, G, M) /\ Moved(I, M, od, ol, nd, nl, src, dst) /\ NoneNew(I, M) /\ KindsKept(I, M) /\ Users(C, G) = Users(C, F)
<1>1. CASE dst = None
  <2>1. M = MoveSrc(I, od, ol, nd, nl, src) /\ G = Forgotten(F, od, ol)
    BY <1>1 DEF Renamed, MoveSrc
  <2>2. /\ Has(I, od, ol, src) /\ IsDir(I, nd) /\ nl \notin NamesIn(I, nd)
        /\ IsDir(I, src) => NotBelow(I, src, nd) /\ src # nd
    BY <1>1 DEF MayMove
  <2>3. StateOK(L, C, D, G, M) /\ MoveOK(I, M, od, ol, nd, nl, src) /\ KindsSame(I, M) /\ Users(C, G) = Users(C, F)
    BY <2>1, <2>2, MoveState
  <2>4. \A x \in Inodes : \A m, j : Has(I, x, m, j) => j # dst
    <3>1. I \in Table /\ None \notin Inodes
      BY StateIs, Constants
    <3> QED BY <1>1, <3>1, HasIs
  <2>5. Moved(I, M, od, ol, nd, nl, src, dst)
    BY <2>3, <2>4 DEF MoveOK, Moved
  <2> QED BY <2>3, <2>5 DEF KindsSame, NoneNew, KindsKept
<1>2. CASE dst # None
  <2> DEFINE J == DirRemove(I, nd, nl)
             E == Forgotten(F, nd, nl)
  <2>1. dst \in Inodes
    BY <1>2
  <2>2. M = MoveSrc(J, od, ol, nd, nl, src) /\ G = Forgotten(E, od, ol)
    BY <1>2 DEF Renamed, MoveSrc
  <2>3. /\ StateOK(L, C, D, E, J) /\ Less(I, J, nd, nl, dst) /\ Users(C, E) = Users(C, F)
        /\ Has(J, od, ol, src) /\ IsDir(J, nd) /\ nl \notin NamesIn(J, nd) /\ (IsDir(J, src) => NotBelow(J, src, nd) /\ src # nd)
        /\ NoneNew(I, J) /\ KindsKept(I, J)
    BY <2>1, ClearState
  <2> HIDE DEF J, E
  <2>4. StateOK(L, C, D, G, M) /\ MoveOK(J, M, od, ol, nd, nl, src) /\ KindsSame(J, M) /\ Users(C, G) = Users(C, E)
    BY <2>2, <2>3, MoveState
  <2>5. Moved(I, M, od, ol, nd, nl, src, dst)
    BY <2>3, <2>4 DEF MoveOK, Moved, Less
  <2>6. NoneNew(I, M) /\ KindsKept(I, M)
    BY <2>3, <2>4 DEF KindsSame, NoneNew, KindsKept
  <2> QED BY <2>3, <2>4, <2>5, <2>6
<1> QED BY <1>1, <1>2

(* ---- what a step does ---- *)

SameNames(I, J, d) == \A n, i : Has(J, d, n, i) <=> Has(I, d, n, i)
OnlyNew(I, J, x) == \A j \in Inodes : j # x /\ I[j].kind = "free" => J[j].kind = "free"
UseStep(I, J) ==
  /\ \A d \in Inodes : J[d].kind = "free" \/ SameNames(I, J, d)
  /\ \E x \in Inodes : OnlyNew(I, J, x)
AddStep(I, J) == \E d \in Inodes : \E n \in Names : \E i \in Inodes :
  /\ More(I, J, d, n, i) /\ IsDir(I, d) /\ n \notin NamesIn(I, d)
  /\ \/ I[i].kind = "free" /\ J[i].kind # "free" /\ OnlyNew(I, J, i)
     \/ I[i].kind # "free" /\ ~IsDir(I, i) /\ NoneNew(I, J)
UnlinkStep(I, J) == \E d \in Inodes : \E n \in Names : \E i \in Inodes :
  Has(I, d, n, i) /\ Less(I, J, d, n, i) /\ I[i].dents = <<>> /\ NoneNew(I, J)
MoveStep(I, J) == \E od \in Inodes : \E ol \in Names : \E nd \in Inodes : \E nl \in Names :
  \E src \in Inodes : \E dst \in Inodes \cup {None} :
    /\ MayMove(I, od, ol, nd, nl, src, dst) /\ Moved(I, J, od, ol, nd, nl, src, dst) /\ NoneNew(I, J)
    /\ dst # None => IsDir(I, dst) = IsDir(I, src)
Step(I, J) == KindsKept(I, J) /\ (UseStep(I, J) \/ AddStep(I, J) \/ UnlinkStep(I, J) \/ MoveStep(I, J))

LEMMA RemainsStep ==
  ASSUME NEW I, NEW J, Remains(I, J)
  PROVE  Step(I, J)
<1>1. KindsKept(I, J)
  BY RemainsKinds
<1>2. \A d \in Inodes : J[d].kind = "free" \/ SameNames(I, J, d)
  <2>1. \A d \in Inodes : J[d].kind = "free" \/ J[d].dents = I[d].dents
    BY DEF Remains, SameNode
  <2> QED BY <2>1, SameEntries DEF SameNames
<1>3. Root \in Inodes /\ OnlyNew(I, J, Root)
  BY Constants DEF Remains, SameNode, OnlyNew
<1> QED BY <1>1, <1>2, <1>3 DEF Step, UseStep

LEMMA AllSameStep ==
  ASSUME NEW I, NEW J, AllSame(I, J)
  PROVE  Step(I, J)
<1>1. Remains(I, J)
  BY DEF AllSame, Remains
<1> QED BY <1>1, RemainsStep

(* ---- the calls that open ---- *)

FileFor(I, i, dir, name) == IF IsDir(I, i) \/ dir = None THEN Closed ELSE RecordName(I, i, dir, name)
OpenFile(I, f, i) == [f EXCEPT !.ino = i, !.stayed = IF IsDir(I, i) THEN NamesIn(I, i) ELSE {}]

LEMMA RecordFile ==
  ASSUME NEW I, Whole(I), NEW i \in Inodes, NEW dir, DirOrNone(I, dir), NEW name, dir # None => name \in Names,
         NEW f, f = FileFor(I, i, dir, name), NEW g, g = OpenFile(I, f, i)
  PROVE  JustOpened(g, i, NamesIn(I, i)) /\ g.dir = f.dir /\ (g.dir # None => IsDir(I, g.dir))
<1>1. f = Closed \/ \E d \in Inodes, n \in Names : IsDir(I, d) /\ f = [Closed EXCEPT !.dir = d, !.name = n]
  <2>1. CASE IsDir(I, i) \/ dir = None
    BY <2>1 DEF FileFor
  <2>2. CASE ~(IsDir(I, i) \/ dir = None)
    <3>1. dir \in Inodes /\ IsDir(I, dir) /\ name \in Names /\ f = RecordName(I, i, dir, name)
      BY <2>2 DEF DirOrNone, FileFor
    <3>2. Recorded(I, RecordName(I, i, dir, name))
      BY <3>1, RecordIs
    <3> QED BY <3>1, <3>2 DEF Recorded
  <2> QED BY <2>1, <2>2
<1>2. /\ f \in FileRec /\ f.pos = 0 /\ (\A n \in Names : f.read[n] = 0)
      /\ f.dir # None => IsDir(I, f.dir)
  <2>1. Closed \in FileRec /\ Closed.pos = 0 /\ (\A n \in Names : Closed.read[n] = 0) /\ Closed.dir = None
    BY ClosedIs DEF Closed
  <2>2. CASE f = Closed
    BY <2>1, <2>2
  <2>3. ASSUME NEW d \in Inodes, NEW n \in Names, IsDir(I, d), f = [Closed EXCEPT !.dir = d, !.name = n]
        PROVE  f \in FileRec /\ f.pos = 0 /\ f.read = Closed.read /\ f.dir = d
    BY <2>1, <2>3 DEF FileRec
  <2> QED BY <1>1, <2>1, <2>2, <2>3
<1>3. NamesIn(I, i) \in SUBSET Names
  <2>1. I \in Table
    BY WholeIs
  <2> QED BY <2>1, HasIs
<1>4. /\ g \in FileRec /\ g.ino = i /\ g.dir = f.dir /\ g.pos = f.pos /\ g.read = f.read
      /\ g.stayed \subseteq NamesIn(I, i)
  <2> DEFINE S == IF IsDir(I, i) THEN NamesIn(I, i) ELSE {}
  <2>1. S \in SUBSET Names /\ S \subseteq NamesIn(I, i)
    BY <1>3
  <2>2. g = [f EXCEPT !.ino = i, !.stayed = S]
    BY DEF OpenFile
  <2> HIDE DEF S
  <2>3. g \in FileRec /\ g.ino = i /\ g.dir = f.dir /\ g.pos = f.pos /\ g.read = f.read /\ g.stayed = S
    BY <1>2, <2>1, <2>2 DEF FileRec
  <2> QED BY <2>1, <2>3
<1>5. JustOpened(g, i, NamesIn(I, i))
  BY <1>2, <1>4 DEF JustOpened
<1> QED BY <1>2, <1>4, <1>5

LEMMA OpenedState ==
  ASSUME FsInv, NEW I, StateOK(live, cwd, fds, files, I), NEW p \in live, NEW path \in Paths, NEW i \in Inodes,
         I[i].kind # "free", Opened(p, I, i, path), UNCHANGED <<machine, live, cwd>>
  PROVE  FsInv' /\ AllSame(I, inodes')
<1>1. CASE Cardinality(fds[p]) = machine.nfd
  <2>1. inodes' = I /\ files' = files /\ fds' = fds
    BY <1>1 DEF Opened
  <2>2. FsInv'
    BY <2>1, Now DEF FsInv
  <2>3. AllSame(I, inodes')
    BY <2>1 DEF AllSame, SameNode
  <2> QED BY <2>2, <2>3
<1>2. CASE Cardinality(fds[p]) # machine.nfd
  <2> DEFINE dir == ParentFrom(I, AtBase(p, path), path.comps)
             name == Last(path.comps)
             f == FileFor(I, i, dir, name)
             g == OpenFile(I, f, i)
             x == NewFile
  <2>1. /\ RoomForFile
        /\ inodes' = IF f.dir = None THEN Hold(I, i) ELSE Hold(Hold(I, i), f.dir)
        /\ files' = [files EXCEPT ![x] = g]
        /\ fds' = [fds EXCEPT ![p] = @ \cup {x}]
    BY <1>2 DEF Opened, FileFor, OpenFile
  <2>2. Whole(I) /\ AtBase(p, path) \in Inodes \cup {None} /\ path.comps \in Comps
    BY StateIs, BaseAlive, AliveIs DEF Paths
  <2>3. DirOrNone(I, dir) /\ (dir # None => name \in Names)
    BY <2>2, ParentIs
  <2> HIDE DEF dir, name
  <2>4. JustOpened(g, i, NamesIn(I, i)) /\ g.dir = f.dir /\ (g.dir # None => IsDir(I, g.dir))
    BY <2>2, <2>3, RecordFile
  <2>5. x \in Files /\ files[x] = Closed
    BY <2>1, NewFileIs
  <2> HIDE DEF f, g, x
  <2>6. inodes' = Taken(I, i, g.dir)
    BY <2>1, <2>4 DEF Taken
  <2>7. OneFile(files, files', x, g) /\ OneDesc(fds, fds', p, x)
    BY <2>1 DEF OneFile, OneDesc
  <2>8. StateOK(live, cwd, fds', files', inodes') /\ AllSame(I, inodes')
    BY <2>4, <2>5, <2>6, <2>7, OpenState
  <2> QED BY <2>8, Now DEF FsInv
<1> QED BY <1>1, <1>2

LEMMA OpenInv ==
  ASSUME FsInv, NEW p, NEW path \in machine.opens, Open(p, path)
  PROVE  FsInv' /\ Step(inodes, inodes')
<1> DEFINE i == Namei(p, path, TRUE)
<1>1. p \in live /\ path \in Paths /\ i # None /\ Opened(p, inodes, i, path) /\ UNCHANGED <<machine, live, cwd>>
  BY Inputs DEF Open, Calls
<1>2. i \in Inodes /\ inodes[i].kind # "free"
  BY <1>1, NameiAlive, AliveIs
<1> HIDE DEF i
<1>3. FsInv' /\ AllSame(inodes, inodes')
  BY <1>1, <1>2, Now, OpenedState
<1> QED BY <1>3, AllSameStep

LEMMA FreshIs ==
  /\ IsNew(Fresh("dir"), 0) /\ IsNew(Fresh("reg"), 0) /\ IsNew(Fresh("fifo"), 0)
  /\ \A target \in Paths : IsNew([Fresh("link") EXCEPT !.target = target], 0)
  /\ IsNew([Fresh("reg") EXCEPT !.refs = 1], 1)
<1>1. ASSUME NEW k \in {"dir", "reg", "fifo", "link"}
      PROVE  /\ IsNew(Fresh(k), 0) /\ IsNew([Fresh(k) EXCEPT !.refs = 1], 1)
             /\ \A target \in Paths : IsNew([Fresh(k) EXCEPT !.target = target], 0)
  <2> DEFINE r == Fresh(k)
  <2>1. /\ r \in InodeRec /\ r.kind = k /\ r.nlink = 0 /\ r.refs = 0 /\ r.lost = 0
        /\ r.dents = <<>> /\ r.htab = <<>>
    BY FreeIs DEF Fresh, InodeRec, Kinds
  <2>2. k # "free"
    OBVIOUS
  <2> HIDE DEF r
  <2>3. IsNew(r, 0)
    BY <2>1, <2>2 DEF IsNew
  <2>4. IsNew([r EXCEPT !.refs = 1], 1)
    BY <2>1, <2>2 DEF IsNew, InodeRec
  <2>5. \A target \in Paths : IsNew([r EXCEPT !.target = target], 0)
    BY <2>1, <2>2 DEF IsNew, InodeRec
  <2> QED BY <2>3, <2>4, <2>5 DEF r
<1> QED BY <1>1

LEMMA MadeStep ==
  ASSUME NEW I, NEW u, Sound(I, u), NEW x \in Inodes, I[x].kind = "free", NEW node, IsNew(node, 0),
         NEW d \in Inodes, IsDir(I, d), NEW n \in Names, n \notin NamesIn(I, d),
         NEW J, J = PutNode(I, x, node), NEW K, K = DirAdd(J, d, n, x), NEW M, AllSame(K, M)
  PROVE  Step(I, M)
<1>1. x # d /\ Others(I, J, x) /\ J[x] = node /\ Added(J, K, d, n, x) /\ More(I, K, d, n, x)
  BY MakeSound
<1>2. node.kind # "free"
  BY DEF IsNew
<1>3. /\ \A j \in Inodes : M[j].dents = K[j].dents
      /\ \A j \in Inodes : M[j].kind = K[j].kind
  BY SameKinds
<1>4. \A j \in Inodes : K[j].kind = J[j].kind
  BY <1>1 DEF Added
<1>5. M[x].kind # "free" /\ OnlyNew(I, M, x)
  BY <1>1, <1>2, <1>3, <1>4 DEF OnlyNew, Others
<1>6. \A j \in Inodes : \A m, i : Has(M, j, m, i) = Has(K, j, m, i)
  BY <1>3, SameEntries
<1>7. More(I, M, d, n, x)
  BY <1>1, <1>6 DEF More
<1>8. AddStep(I, M)
  BY <1>5, <1>7 DEF AddStep
<1>9. KindsKept(I, M)
  BY <1>1, <1>3, <1>4 DEF KindsKept, Others
<1> QED BY <1>8, <1>9 DEF Step

LEMMA SameAsIs == ASSUME NEW I PROVE AllSame(I, I)
BY DEF AllSame, SameNode

\* The name that is not there, and a place for the new inode.
LEMMA RoomIs ==
  ASSUME FsInv, RoomForInode, NEW d \in Inodes, NEW n \in Names, DirLookup(inodes, d, n) = None
  PROVE  NewInode(inodes) \in Inodes /\ inodes[NewInode(inodes)].kind = "free" /\ n \notin NamesIn(inodes, d)
<1>1. NewInode(inodes) \in Inodes /\ inodes[NewInode(inodes)] = Free
  BY NewInodeIs, Now
<1>2. n \notin NamesIn(inodes, d)
  BY LookupAlive, Now, StateIs
<1> QED BY <1>1, <1>2, FreeIs

LEMMA OpenCreatInv ==
  ASSUME FsInv, NEW p, NEW path \in machine.paths, OpenCreat(p, path)
  PROVE  FsInv' /\ Step(inodes, inodes')
<1> DEFINE d == ParentAt(p, path)
           n == Last(path.comps)
           i == DirLookup(inodes, d, n)
           to == inodes[i].target
           at == IF ~IsLink(inodes, i) THEN i ELSE Walk(inodes, d, to, TRUE, Leads(inodes))
           new == NewInode(inodes)
           J == PutNode(inodes, new, Fresh("reg"))
           K == DirAdd(J, d, n, new)
<1>1. /\ p \in live /\ path \in Paths /\ d # None /\ UNCHANGED <<machine, live, cwd>>
      /\ \/ i # None /\ at # None /\ Opened(p, inodes, at, path)
         \/ i = None /\ RoomForInode /\ Opened(p, K, new, path)
  BY Inputs DEF OpenCreat, Calls, PutNode
<1>2. d \in Inodes /\ IsDir(inodes, d) /\ n \in Names
  BY <1>1, ParentAtIs
<1>3. Whole(inodes) /\ StateOK(live, cwd, fds, files, inodes)
  BY Now, StateIs
<1> HIDE DEF d, n
<1>4. CASE i # None /\ at # None /\ Opened(p, inodes, at, path)
  <2>1. i \in Inodes /\ inodes[i].kind # "free"
    BY <1>2, <1>3, <1>4, LookupAlive, AliveIs
  <2>2. ASSUME IsLink(inodes, i) PROVE Walk(inodes, d, to, TRUE, Leads(inodes)) \in Alive(inodes)
    <3>1. d \in Alive(inodes) /\ d \in Inodes \cup {None}
      BY <1>2, <1>3, WholeIs DEF DirOrNone
    <3>2. to \in Paths
      BY <1>3, <2>1, TargetIs
    <3> QED BY <1>3, <3>1, <3>2, WalkOK, LeadsAlive
  <2>3. at \in Inodes /\ inodes[at].kind # "free"
    BY <1>4, <2>1, <2>2, AliveIs
  <2> HIDE DEF at, i
  <2>4. FsInv' /\ AllSame(inodes, inodes')
    BY <1>1, <1>3, <1>4, <2>3, OpenedState
  <2> QED BY <2>4, AllSameStep
<1>5. CASE i = None /\ RoomForInode /\ Opened(p, K, new, path)
  <2>1. new \in Inodes /\ inodes[new].kind = "free" /\ n \notin NamesIn(inodes, d)
    BY <1>2, <1>5, RoomIs
  <2>2. IsNew(Fresh("reg"), 0) /\ Fresh("reg").kind # "free"
    BY FreshIs DEF IsNew
  <2> HIDE DEF i, new
  <2>3. StateOK(live, cwd, fds, files, K) /\ K[new].kind = Fresh("reg").kind
    BY <1>2, <1>3, <2>1, <2>2, MakeState
  <2>4. K[new].kind # "free"
    BY <2>2, <2>3
  <2> HIDE DEF K
  <2>5. FsInv' /\ AllSame(K, inodes')
    BY <1>1, <1>5, <2>1, <2>3, <2>4, OpenedState
  <2>6. Sound(inodes, Users(cwd, files)) /\ K = DirAdd(J, d, n, new)
    BY <1>3, StateIs DEF K
  <2> HIDE DEF J
  <2>7. J = PutNode(inodes, new, Fresh("reg"))
    BY DEF J
  <2>8. Step(inodes, inodes')
    BY <1>2, <2>1, <2>2, <2>5, <2>6, <2>7, MadeStep
  <2> QED BY <2>5, <2>8
<1> QED BY <1>1, <1>4, <1>5

LEMMA OpenProcMapsInv ==
  ASSUME FsInv, NEW p, OpenProcMaps(p)
  PROVE  FsInv' /\ Step(inodes, inodes')
<1> DEFINE i == NewInode(inodes)
           x == NewFile
           g == [Closed EXCEPT !.ino = i]
           node == [Fresh("reg") EXCEPT !.refs = 1]
<1>1. /\ p \in live /\ RoomForInode /\ RoomForFile
      /\ inodes' = PutNode(inodes, i, node)
      /\ OneFile(files, files', x, g) /\ OneDesc(fds, fds', p, x)
      /\ UNCHANGED <<machine, live, cwd>>
  BY DEF OpenProcMaps, Calls, PutNode, OneFile, OneDesc
<1>2. i \in Inodes /\ inodes[i].kind = "free" /\ x \in Files /\ files[x] = Closed
  BY <1>1, NewInodeIs, NewFileIs, FreeIs, Now
<1>3. IsNew(node, 1)
  BY FreshIs
<1> HIDE DEF i, x, node
<1>4. JustOpened(g, i, {}) /\ g.dir = None
  <2>1. Closed \in FileRec /\ Closed.dir = None /\ Closed.pos = 0 /\ Closed.stayed = {} /\ \A n \in Names : Closed.read[n] = 0
    BY ClosedIs DEF Closed
  <2> QED BY <2>1, <1>2 DEF JustOpened, FileRec
<1> HIDE DEF g
<1>5. StateOK(live, cwd, fds', files', inodes') /\ KindsKept(inodes, inodes') /\ Others(inodes, inodes', i)
  BY <1>1, <1>2, <1>3, <1>4, Now, MapsOpened
<1>6. FsInv'
  BY <1>1, <1>5, Now DEF FsInv
<1>7. \A d \in Inodes : inodes'[d].dents = inodes[d].dents
  <2>1. inodes'[i] = node
    <3>1. inodes \in Table
      BY Now, StateIs
    <3> QED BY <1>1, <1>2, <3>1 DEF PutNode, Table
  <2>2. inodes[i].dents = <<>>
    <3>1. inodes[i] = Free
      BY <1>2, Now, StateIs DEF Shape, FreeOK
    <3> QED BY <3>1, FreeIs
  <2> QED BY <1>3, <1>5, <2>1, <2>2 DEF Others, IsNew
<1>8. ASSUME NEW d \in Inodes PROVE SameNames(inodes, inodes', d)
  <2> DEFINE H == inodes'
  <2>1. H[d].dents = inodes[d].dents
    BY <1>7
  <2> HIDE DEF H
  <2>2. \A n, e : Has(H, d, n, e) = Has(inodes, d, n, e)
    BY <2>1, SameEntries
  <2>3. SameNames(inodes, H, d)
    BY <2>2 DEF SameNames
  <2> QED BY <2>3 DEF H
<1>9. OnlyNew(inodes, inodes', i)
  BY <1>5 DEF Others, OnlyNew
<1>10. UseStep(inodes, inodes')
  BY <1>2, <1>8, <1>9 DEF UseStep
<1> QED BY <1>5, <1>6, <1>10 DEF Step

(* ---- the calls that close, fork, exit and move about ---- *)

LEMMA StateNext ==
  ASSUME FsInv, StateOK(live', cwd', fds', files', inodes'), UNCHANGED machine
  PROVE  FsInv'
BY DEF FsInv

LEMMA CloseInv ==
  ASSUME FsInv, NEW p, NEW f \in Files, Close(p, f)
  PROVE  FsInv' /\ Step(inodes, inodes')
<1> DEFINE S == LastOf(p, {f})
<1>1. /\ p \in live /\ {f} \in SUBSET fds[p] /\ UNCHANGED <<machine, live, cwd>>
      /\ inodes' = Put(inodes, S) /\ files' = PutFiles(files, S) /\ Lost(fds, fds', p, {f})
  BY DEF Close, Calls, PutFiles, Lost
<1> HIDE DEF S
<1>2. S = LastOf(p, {f})
  BY DEF S
<1>3. StateOK(live, cwd, fds', files', inodes') /\ Remains(inodes, inodes')
  BY <1>1, <1>2, Now, PutState
<1>4. FsInv'
  BY <1>1, <1>3, StateNext
<1> QED BY <1>3, <1>4, RemainsStep

LEMMA ExitInv ==
  ASSUME FsInv, NEW p, Exit(p)
  PROVE  FsInv' /\ Step(inodes, inodes')
<1> DEFINE S == LastOf(p, fds[p])
           E == [fds EXCEPT ![p] = {}]
           G == PutFiles(files, S)
           J == Put(inodes, S)
<1>1. /\ p \in live /\ live' = live \ {p} /\ UNCHANGED machine
      /\ inodes' = LetGo(J, cwd[p]) /\ files' = G /\ fds' = E /\ Works(cwd, cwd', p, None)
  BY DEF Exit, Calls, PutFiles, Works
<1>2. fds \in [Procs -> SUBSET Files] /\ live \subseteq Procs
  BY Now, StateIs
<1>3. Lost(fds, E, p, fds[p]) /\ E[p] = {} /\ fds[p] \in SUBSET fds[p]
  BY <1>1, <1>2 DEF Lost
<1>4. StateOK(live, cwd, E, G, J) /\ Remains(inodes, J)
  BY <1>1, <1>3, Now, PutState
<1> HIDE DEF E, G, J
<1>5. StateOK(live \ {p}, cwd', E, G, inodes') /\ Remains(J, inodes')
  BY <1>1, <1>3, <1>4, LeaveState
<1>6. FsInv'
  BY <1>1, <1>5, StateNext
<1>7. Remains(inodes, inodes')
  BY <1>4, <1>5, RemainsTrans
<1> QED BY <1>6, <1>7, RemainsStep

LEMMA ForkInv ==
  ASSUME FsInv, NEW p, NEW c \in Procs, Fork(p, c)
  PROVE  FsInv' /\ Step(inodes, inodes')
<1>1. /\ p \in live /\ c \notin live /\ live' = live \cup {c} /\ UNCHANGED <<machine, files>>
      /\ Works(cwd, cwd', c, cwd[p]) /\ Copies(fds, fds', c, p) /\ inodes' = Hold(inodes, cwd[p])
  BY DEF Fork, Calls, Works, Copies
<1>2. StateOK(live \cup {c}, cwd', fds', files, inodes') /\ AllSame(inodes, inodes')
  BY <1>1, Now, ForkState
<1>3. FsInv'
  BY <1>1, <1>2, StateNext
<1> QED BY <1>2, <1>3, AllSameStep

LEMMA ChdirInv ==
  ASSUME FsInv, NEW p \in live, NEW i \in Inodes, Chdir(p, i)
  PROVE  FsInv' /\ Step(inodes, inodes')
<1>1. /\ IsDir(inodes, i) /\ UNCHANGED <<machine, live, fds, files>>
      /\ Works(cwd, cwd', p, i) /\ inodes' = LetGo(Hold(inodes, i), cwd[p])
  BY DEF Chdir, Works
<1>2. StateOK(live, cwd', fds, files, inodes') /\ Remains(inodes, inodes')
  BY <1>1, Now, ChdirState
<1>3. FsInv'
  BY <1>1, <1>2, StateNext
<1> QED BY <1>2, <1>3, RemainsStep

LEMMA ChdirPathInv ==
  ASSUME FsInv, NEW p, NEW path \in machine.paths, ChdirPath(p, path)
  PROVE  FsInv' /\ Step(inodes, inodes')
<1>1. p \in live /\ path \in Paths /\ Chdir(p, Namei(p, path, TRUE)) /\ Namei(p, path, TRUE) # None
  BY Inputs DEF ChdirPath, Calls, Chdir
<1>2. Namei(p, path, TRUE) \in Inodes
  BY <1>1, NameiAlive, AliveIs
<1> QED BY <1>1, <1>2, ChdirInv

LEMMA FchdirInv ==
  ASSUME FsInv, NEW p, NEW f \in Files, Fchdir(p, f)
  PROVE  FsInv' /\ Step(inodes, inodes')
<1>1. p \in live /\ Chdir(p, files[f].ino) /\ files[f].ino # None
  BY DEF Fchdir, Calls, Chdir
<1>2. files[f].ino \in Inodes
  BY <1>1, Now, StateIs, FileIs
<1> QED BY <1>1, <1>2, ChdirInv

(* ---- the calls that read ---- *)

\* A file that somebody has open.
LEMMA OpenIs ==
  ASSUME FsInv, NEW p \in live, NEW f \in Files, f \in fds[p]
  PROVE  /\ files[f] \in FileRec /\ files[f].ino \in Inodes /\ ReadOK(inodes[files[f].ino].dents, files[f])
         /\ inodes[files[f].ino].dents \in Seq(Entry) /\ Distinct(inodes[files[f].ino].dents)
<1>1. OpenOK(live, fds, files) /\ files \in FileTable /\ Readers(inodes, files) /\ inodes \in Table /\ Shape(inodes)
  BY Now, StateIs
<1>2. files[f] \in FileRec /\ files[f].ino \in Inodes
  BY <1>1, FileIs DEF OpenOK
<1>3. files[f].ino # None
  BY <1>2, Constants
<1>4. ReadOK(inodes[files[f].ino].dents, files[f])
  BY <1>1, <1>3 DEF Readers
<1>5. DirOK(inodes, files[f].ino) /\ inodes[files[f].ino].dents \in Seq(Entry)
  BY <1>1, <1>2, ShapeIs, TableFields
<1>6. Distinct(inodes[files[f].ino].dents)
  BY <1>5 DEF DirOK, DentsOK
<1> QED BY <1>2, <1>4, <1>5, <1>6

LEMMA GetdentsInv ==
  ASSUME FsInv, NEW p, NEW f \in Files, NEW k \in machine.rooms, Getdents(p, f, k)
  PROVE  FsInv' /\ Step(inodes, inodes')
<1> DEFINE d == files[f].ino
           s == inodes[d].dents
           r == files[f]
           end == Min({r.pos + k, 2 + Len(s)})
           g == Reread(r, s, end)
<1>1. p \in live /\ f \in fds[p] /\ r.pos < 2 + Len(s) /\ UNCHANGED <<machine, live, cwd, fds, inodes>>
  BY DEF Getdents, Calls
<1>2. k \in Nat
  BY Inputs
<1>3. /\ r \in FileRec /\ d \in Inodes /\ ReadOK(s, r) /\ s \in Seq(Entry) /\ Distinct(s)
  BY <1>1, OpenIs
<1>4. files' = [files EXCEPT ![f] = g]
  <2>1. files' = [files EXCEPT ![f].pos = end,
           ![f].read = [n \in Names |-> @[n] + Cardinality({j \in Listed(s, r.pos, end) : s[j].name = n})]]
    BY DEF Getdents
  <2>2. files \in FileTable
    BY Now, StateIs
  <2> HIDE DEF end, s
  <2> QED BY <2>1, <2>2 DEF Reread, Counts, FileTable
<1> HIDE DEF s, d, g
<1>5. ReadOK(s, g) /\ g \in FileRec /\ g.ino = r.ino /\ g.dir = r.dir
  <2>1. g = Reread(r, s, end)
    BY DEF g
  <2> QED BY <1>1, <1>2, <1>3, <2>1, ReadMore
<1>6. OneFile(files, files', f, g)
  BY <1>4 DEF OneFile
<1>7. StateOK(live, cwd, fds, files', inodes)
  BY <1>3, <1>5, <1>6, Now, ReadState DEF s, d
<1>8. FsInv'
  BY <1>1, <1>7, StateNext
<1>9. AllSame(inodes, inodes')
  BY <1>1, SameAsIs
<1> QED BY <1>8, <1>9, AllSameStep

LEMMA RewindInv ==
  ASSUME FsInv, NEW p, NEW f \in Files, Rewind(p, f)
  PROVE  FsInv' /\ Step(inodes, inodes')
<1> DEFINE d == files[f].ino
           s == inodes[d].dents
           r == files[f]
           g == [r EXCEPT !.pos = 0, !.read = Closed.read, !.gone = 0, !.stayed = NamesIn(inodes, d)]
<1>1. p \in live /\ f \in fds[p] /\ UNCHANGED <<machine, live, cwd, fds, inodes>>
  BY DEF Rewind, Calls
<1>2. r \in FileRec /\ d \in Inodes /\ s \in Seq(Entry)
  BY <1>1, OpenIs
<1>3. files' = [files EXCEPT ![f] = g]
  BY Now, StateIs DEF Rewind, FileTable
<1>4. NamesIn(inodes, d) \in SUBSET Names
  <2>1. inodes \in Table
    BY Now, StateIs
  <2> QED BY <1>2, <2>1, HasIs
<1>5. Closed.read \in [Names -> Nat] /\ \A n \in Names : Closed.read[n] = 0
  BY DEF Closed
<1>6. /\ g \in FileRec /\ g.ino = d /\ g.dir = r.dir /\ g.pos = 0 /\ g.read = Closed.read
      /\ g.stayed = NamesIn(inodes, d)
  <2> HIDE DEF d
  <2> QED BY <1>2, <1>4, <1>5 DEF FileRec, d
<1>7. \A n \in NamesIn(inodes, d) : \E k \in 1..Len(s) : s[k].name = n
  <2>1. \A e \in ToSet(s) : \E k \in 1..Len(s) : e = s[k]
    BY <1>2, SetOf
  <2> QED BY <2>1 DEF NamesIn, Entries
<1> HIDE DEF g
<1>8. ReadOK(s, g)
  <2> HIDE DEF s
  <2> QED BY <1>2, <1>5, <1>6, <1>7, ReadStart
<1>9. OneFile(files, files', f, g)
  BY <1>3 DEF OneFile
<1>10. StateOK(live, cwd, fds, files', inodes)
  BY <1>2, <1>6, <1>8, <1>9, Now, ReadState
<1>11. FsInv'
  BY <1>1, <1>10, StateNext
<1>12. AllSame(inodes, inodes')
  BY <1>1, SameAsIs
<1> QED BY <1>11, <1>12, AllSameStep

(* ---- the calls that make, move and take away names ---- *)

LEMMA MakeInv ==
  ASSUME FsInv, NEW p \in live, NEW path \in Paths, NEW node, IsNew(node, 0), Make(p, path, node)
  PROVE  FsInv' /\ Step(inodes, inodes')
<1> DEFINE d == ParentAt(p, path)
           n == Last(path.comps)
           x == NewInode(inodes)
           J == PutNode(inodes, x, node)
<1>1. /\ d # None /\ DirLookup(inodes, d, n) = None /\ RoomForInode
      /\ inodes' = DirAdd(J, d, n, x) /\ UNCHANGED <<machine, live, cwd, fds, files>>
  BY DEF Make, PutNode
<1>2. d \in Inodes /\ IsDir(inodes, d) /\ n \in Names
  BY <1>1, ParentAtIs
<1> HIDE DEF d, n
<1>3. x \in Inodes /\ inodes[x].kind = "free" /\ n \notin NamesIn(inodes, d)
  BY <1>1, <1>2, RoomIs
<1>4. StateOK(live, cwd, fds, files, inodes) /\ Sound(inodes, Users(cwd, files))
  BY Now, StateIs
<1> HIDE DEF x, J
<1>5. J = PutNode(inodes, x, node)
  BY DEF J
<1>6. StateOK(live, cwd, fds, files, inodes')
  BY <1>1, <1>2, <1>3, <1>4, <1>5, MakeState
<1>7. FsInv'
  BY <1>1, <1>6, StateNext
<1>8. AllSame(inodes', inodes')
  BY SameAsIs
<1>9. Step(inodes, inodes')
  BY <1>1, <1>2, <1>3, <1>4, <1>5, <1>8, MadeStep
<1> QED BY <1>7, <1>9

LEMMA MkdiratInv ==
  ASSUME FsInv, NEW p, NEW path \in machine.paths, Mkdirat(p, path)
  PROVE  FsInv' /\ Step(inodes, inodes')
<1>1. p \in live /\ path \in Paths /\ Make(p, path, Fresh("dir"))
  BY Inputs DEF Mkdirat, Calls
<1>2. IsNew(Fresh("dir"), 0)
  BY FreshIs
<1> QED BY <1>1, <1>2, MakeInv

LEMMA MknodAtInv ==
  ASSUME FsInv, NEW p, NEW path \in machine.paths, MknodAt(p, path)
  PROVE  FsInv' /\ Step(inodes, inodes')
<1>1. p \in live /\ path \in Paths /\ Make(p, path, Fresh("fifo"))
  BY Inputs DEF MknodAt, Calls
<1>2. IsNew(Fresh("fifo"), 0)
  BY FreshIs
<1> QED BY <1>1, <1>2, MakeInv

LEMMA SymlinkatInv ==
  ASSUME FsInv, NEW p, NEW path \in machine.paths, NEW target \in machine.targets, Symlinkat(p, path, target)
  PROVE  FsInv' /\ Step(inodes, inodes')
<1>1. p \in live /\ path \in Paths /\ Make(p, path, [Fresh("link") EXCEPT !.target = target])
  BY Inputs DEF Symlinkat, Calls
<1>2. IsNew([Fresh("link") EXCEPT !.target = target], 0)
  BY Inputs, FreshIs
<1> QED BY <1>1, <1>2, MakeInv

LEMMA UnlinkatInv ==
  ASSUME FsInv, NEW p, NEW path \in machine.paths, NEW dir \in BOOLEAN, Unlinkat(p, path, dir)
  PROVE  FsInv' /\ Step(inodes, inodes')
<1> DEFINE d == ParentAt(p, path)
           n == Last(path.comps)
           i == DirLookup(inodes, d, n)
<1>1. /\ p \in live /\ path \in Paths /\ d # None /\ i # None
      /\ dir = IsDir(inodes, i) /\ (dir => inodes[i].dents = <<>>)
      /\ inodes' = DirRemove(inodes, d, n) /\ files' = Forgotten(files, d, n)
      /\ UNCHANGED <<machine, live, cwd, fds>>
  BY Inputs DEF Unlinkat, Calls
<1>2. d \in Inodes /\ IsDir(inodes, d) /\ n \in Names
  BY <1>1, ParentAtIs
<1>3. StateOK(live, cwd, fds, files, inodes) /\ Whole(inodes) /\ Shape(inodes)
  BY Now, StateIs
<1> HIDE DEF d, n
<1>4. i \in Inodes /\ Has(inodes, d, n, i)
  BY <1>1, <1>2, <1>3, LookupAlive, AliveIs
<1> HIDE DEF i
<1>5. inodes[i].dents = <<>>
  <2>1. DirOK(inodes, i)
    BY <1>3, <1>4, ShapeIs
  <2> QED BY <1>1, <2>1 DEF DirOK, IsDir
<1>6. StateOK(live, cwd, fds, files', inodes') /\ Less(inodes, inodes', d, n, i) /\ Removed(inodes, inodes', d, n, i)
  BY <1>1, <1>2, <1>3, <1>4, <1>5, UnlinkState
<1>7. FsInv'
  BY <1>1, <1>6, StateNext
<1>8. NoneNew(inodes, inodes') /\ KindsKept(inodes, inodes')
  BY <1>6 DEF Removed, NoneNew, KindsKept, SameNode
<1>9. UnlinkStep(inodes, inodes')
  BY <1>2, <1>4, <1>5, <1>6, <1>8 DEF UnlinkStep
<1> QED BY <1>7, <1>8, <1>9 DEF Step

LEMMA LinkatInv ==
  ASSUME FsInv, NEW p, NEW old \in machine.paths, NEW path \in machine.paths, NEW follow \in BOOLEAN, Linkat(p, old, path, follow)
  PROVE  FsInv' /\ Step(inodes, inodes')
<1> DEFINE i == Namei(p, old, follow)
           d == ParentAt(p, path)
           n == Last(path.comps)
<1>1. /\ p \in live /\ path \in Paths /\ old \in Paths /\ i # None /\ ~IsDir(inodes, i)
      /\ d # None /\ DirLookup(inodes, d, n) = None
      /\ inodes' = DirAdd(inodes, d, n, i) /\ UNCHANGED <<machine, live, cwd, fds, files>>
  BY Inputs DEF Linkat, Calls
<1>2. d \in Inodes /\ IsDir(inodes, d) /\ n \in Names
  BY <1>1, ParentAtIs
<1>3. i \in Inodes /\ inodes[i].kind # "free"
  BY <1>1, NameiAlive, AliveIs
<1>4. StateOK(live, cwd, fds, files, inodes) /\ Whole(inodes)
  BY Now, StateIs
<1> HIDE DEF d, n, i
<1>5. n \notin NamesIn(inodes, d)
  BY <1>1, <1>2, <1>4, LookupAlive
<1>6. StateOK(live, cwd, fds, files, inodes') /\ More(inodes, inodes', d, n, i) /\ Added(inodes, inodes', d, n, i)
  BY <1>1, <1>2, <1>3, <1>4, <1>5, LinkState
<1>7. FsInv'
  BY <1>1, <1>6, StateNext
<1>8. NoneNew(inodes, inodes') /\ KindsKept(inodes, inodes')
  BY <1>6 DEF Added, NoneNew, KindsKept
<1>9. AddStep(inodes, inodes')
  BY <1>1, <1>2, <1>3, <1>5, <1>6, <1>8 DEF AddStep
<1> QED BY <1>7, <1>8, <1>9 DEF Step

LEMMA RenameatInv ==
  ASSUME FsInv, NEW p, NEW old \in machine.paths, NEW path \in machine.paths, Renameat(p, old, path)
  PROVE  FsInv' /\ Step(inodes, inodes')
<1> DEFINE od == ParentAt(p, old)
           nd == ParentAt(p, path)
           ol == Last(old.comps)
           nl == Last(path.comps)
           src == DirLookup(inodes, od, ol)
           dst == DirLookup(inodes, nd, nl)
<1>1. /\ p \in live /\ path \in Paths /\ old \in Paths
      /\ od # None /\ nd # None /\ src # None /\ dst # src
      /\ ~(IsDir(inodes, src) /\ IsAncestor(src, nd))
      /\ (dst # None => IsDir(inodes, dst) = IsDir(inodes, src) /\ (IsDir(inodes, dst) => inodes[dst].dents = <<>>))
      /\ inodes' = Renamed(inodes, od, ol, nd, nl, src, dst)
      /\ files' = Forgotten(IF dst = None THEN files ELSE Forgotten(files, nd, nl), od, ol)
      /\ UNCHANGED <<machine, live, cwd, fds>>
  BY Inputs DEF Renameat, Calls
<1>2. /\ od \in Inodes /\ IsDir(inodes, od) /\ ol \in Names
      /\ nd \in Inodes /\ IsDir(inodes, nd) /\ nl \in Names
  BY <1>1, ParentAtIs
<1>3. StateOK(live, cwd, fds, files, inodes) /\ Whole(inodes) /\ Shape(inodes) /\ Sound(inodes, Users(cwd, files))
  BY Now, StateIs
<1> HIDE DEF od, nd, ol, nl
<1>4. /\ src \in Inodes /\ Has(inodes, od, ol, src)
      /\ dst \in Inodes \cup {None}
      /\ dst = None => nl \notin NamesIn(inodes, nd)
      /\ dst # None => Has(inodes, nd, nl, dst)
  BY <1>1, <1>2, <1>3, LookupAlive, AliveIs
<1> HIDE DEF src, dst
<1>5. IsDir(inodes, src) => NotBelow(inodes, src, nd) /\ src # nd
  BY <1>1, <1>2, <1>3, <1>4, AncestorIs
<1>6. dst # None => inodes[dst].dents = <<>>
  <2>1. dst # None => DirOK(inodes, dst)
    BY <1>3, <1>4, ShapeIs
  <2> QED BY <1>1, <2>1 DEF DirOK, IsDir
<1>7. MayMove(inodes, od, ol, nd, nl, src, dst)
  BY <1>1, <1>2, <1>4, <1>5, <1>6 DEF MayMove
<1>8. /\ StateOK(live, cwd, fds, files', inodes') /\ Moved(inodes, inodes', od, ol, nd, nl, src, dst)
      /\ NoneNew(inodes, inodes') /\ KindsKept(inodes, inodes')
  BY <1>1, <1>2, <1>3, <1>4, <1>7, RenameState
<1>9. FsInv'
  BY <1>1, <1>8, StateNext
<1>10. MoveStep(inodes, inodes')
  BY <1>1, <1>2, <1>4, <1>7, <1>8 DEF MoveStep
<1> QED BY <1>8, <1>9, <1>10 DEF Step

(* ---- every step ---- *)

LEMMA NextInv ==
  ASSUME FsInv, FsNext
  PROVE  FsInv' /\ Step(inodes, inodes')
<1>1. PICK p \in Procs :
        \/ OpenProcMaps(p)
        \/ \E q \in Procs : Fork(p, q)
        \/ Exit(p)
        \/ \E f \in Files : Close(p, f) \/ Fchdir(p, f) \/ Rewind(p, f)
        \/ \E f \in Files : \E k \in machine.rooms : Getdents(p, f, k)
        \/ \E path \in machine.opens : Open(p, path)
        \/ \E path \in machine.paths :
             \/ OpenCreat(p, path) \/ ChdirPath(p, path)
             \/ Mkdirat(p, path) \/ MknodAt(p, path)
             \/ \E target \in machine.targets : Symlinkat(p, path, target)
             \/ \E dir \in BOOLEAN : Unlinkat(p, path, dir)
             \/ \E old \in machine.paths : \E follow \in BOOLEAN : Linkat(p, old, path, follow)
             \/ \E old \in machine.paths : Renameat(p, old, path)
  BY DEF FsNext
<1>2. CASE OpenProcMaps(p) \/ (\E q \in Procs : Fork(p, q)) \/ Exit(p)
  BY <1>2, OpenProcMapsInv, ForkInv, ExitInv
<1>3. CASE \E f \in Files : Close(p, f) \/ Fchdir(p, f) \/ Rewind(p, f)
  BY <1>3, CloseInv, FchdirInv, RewindInv
<1>4. CASE \E f \in Files : \E k \in machine.rooms : Getdents(p, f, k)
  BY <1>4, GetdentsInv
<1>5. CASE \E path \in machine.opens : Open(p, path)
  BY <1>5, OpenInv
<1>6. ASSUME NEW path \in machine.paths,
             OpenCreat(p, path) \/ ChdirPath(p, path) \/ Mkdirat(p, path) \/ MknodAt(p, path)
      PROVE  FsInv' /\ Step(inodes, inodes')
  BY <1>6, OpenCreatInv, ChdirPathInv, MkdiratInv, MknodAtInv
<1>7. ASSUME NEW path \in machine.paths,
             \/ \E target \in machine.targets : Symlinkat(p, path, target)
             \/ \E dir \in BOOLEAN : Unlinkat(p, path, dir)
      PROVE  FsInv' /\ Step(inodes, inodes')
  BY <1>7, SymlinkatInv, UnlinkatInv
<1>8. ASSUME NEW path \in machine.paths,
             \/ \E old \in machine.paths : \E follow \in BOOLEAN : Linkat(p, old, path, follow)
             \/ \E old \in machine.paths : Renameat(p, old, path)
      PROVE  FsInv' /\ Step(inodes, inodes')
  BY <1>8, LinkatInv, RenameatInv
<1> QED BY <1>1, <1>2, <1>3, <1>4, <1>5, <1>6, <1>7, <1>8

(* ---- the beginning ---- *)

LEMMA NoUsers ==
  ASSUME NEW C, NEW F, \A p \in Procs : C[p] = None, \A f \in Files : F[f] = Closed
  PROVE  Users(C, F) \in Uses /\ \A i \in Inodes : Users(C, F)[i] = 0
<1>1. Users(C, F) \in Uses
  BY UsesNat DEF Users
<1>2. ASSUME NEW i \in Inodes PROVE Users(C, F)[i] = 0
  <2>1. i # None /\ IsFiniteSet(Procs) /\ IsFiniteSet(Files)
    BY Constants
  <2>2. \A z \in Procs : C[z] # i
    BY <2>1
  <2>3. \A z \in Files : Inos(F)[z] # i /\ Dirs(F)[z] # i
    BY <2>1, ClosedIs DEF Inos, Dirs
  <2>4. Tally(Procs, C, i) = 0 /\ Tally(Files, Inos(F), i) = 0 /\ Tally(Files, Dirs(F), i) = 0
    BY <2>1, <2>2, <2>3, TallyNat
  <2> QED BY <2>4 DEF Users, UsesBy
<1> QED BY <1>1, <1>2

RootNode == [Fresh("dir") EXCEPT !.nlink = 1, !.refs = 1, !.parent = Root]
OnlyRoot(I) == I = [i \in Inodes |-> IF i = Root THEN RootNode ELSE Free]

LEMMA RootIs ==
  /\ RootNode \in InodeRec /\ RootNode.kind = "dir" /\ RootNode.nlink = 1 /\ RootNode.refs = 1 /\ RootNode.lost = 0
  /\ RootNode.parent = Root /\ RootNode.dents = <<>> /\ RootNode.htab = <<>>
<1>1. Root \in Inodes
  BY Constants
<1> DEFINE q == [Free EXCEPT !.kind = "dir"]
           r == [q EXCEPT !.nlink = 1]
           t == [r EXCEPT !.refs = 1]
<1>2. /\ q \in InodeRec /\ q.kind = "dir" /\ q.lost = 0 /\ q.dents = <<>> /\ q.htab = <<>>
  <2>1. "dir" \in Kinds
    BY DEF Kinds
  <2> QED BY <2>1, FreeIs DEF InodeRec
<1>3. RootNode = [t EXCEPT !.parent = Root]
  BY DEF RootNode, Fresh
<1> HIDE DEF q
<1>4. r \in InodeRec /\ r.kind = "dir" /\ r.nlink = 1 /\ r.lost = 0 /\ r.dents = <<>> /\ r.htab = <<>>
  BY <1>2 DEF InodeRec
<1> HIDE DEF r
<1>5. t \in InodeRec /\ t.kind = "dir" /\ t.nlink = 1 /\ t.refs = 1 /\ t.lost = 0 /\ t.dents = <<>> /\ t.htab = <<>>
  BY <1>4 DEF InodeRec
<1> HIDE DEF t
<1> QED BY <1>1, <1>3, <1>5 DEF InodeRec

LEMMA InitSound ==
  ASSUME NEW I, OnlyRoot(I), NEW u \in Uses, \A i \in Inodes : u[i] = One(i = Root)
  PROVE  Sound(I, u)
<1>1. Root \in Inodes
  BY Constants
<1>2. I \in Table
  BY RootIs, FreeIs DEF OnlyRoot, Table
<1>3. /\ \A i \in Inodes : I[i].dents = <<>> /\ I[i].htab = <<>> /\ I[i].lost = 0
      /\ \A i \in Inodes : i # Root => I[i] = Free
      /\ I[Root] = RootNode
  BY <1>1, RootIs, FreeIs DEF OnlyRoot
<1>4. \A d \in Inodes : Entries(I, d) = {}
  BY <1>2, <1>3, EntriesAre
<1>5. \A i \in Inodes : Spots(I, i) = {}
  BY <1>4 DEF Spots, Has
<1>6. \A i \in Inodes : DirOK(I, i)
  BY <1>3, NoneOK DEF DirOK
<1>7. \A i \in Inodes : FreeOK(I, i) /\ OneName(I, i)
  BY <1>3, <1>5, RootIs DEF FreeOK, OneName
<1>8. NamedDirs(I) = {}
  BY <1>5 DEF NamedDirs
<1>9. NoLoop(I)
  BY <1>8 DEF NoLoop
<1>10. Shape(I)
  BY <1>1, <1>2, <1>3, <1>5, <1>6, <1>7, <1>9, RootIs DEF Shape, IsDir
<1>11. ASSUME NEW i \in Inodes PROVE Counted(I, i, u) /\ Lasts(I, i, u)
  <2>1. Cardinality(Spots(I, i)) = 0 /\ I[i].lost = 0
    BY <1>3, <1>5, FS_EmptySet
  <2>2. CASE i = Root
    <3>1. I[i].nlink = 1 /\ I[i].refs = 1 /\ I[i].kind = "dir" /\ u[i] = 1 /\ One(i = Root) = 1
      BY <2>2, <1>3, RootIs DEF One
    <3> QED BY <2>1, <2>2, <3>1 DEF Counted, Lasts
  <2>3. CASE i # Root
    <3>1. I[i].nlink = 0 /\ I[i].refs = 0 /\ I[i].kind = "free" /\ u[i] = 0 /\ One(i = Root) = 0
      BY <2>3, <1>3, FreeIs DEF One
    <3> QED BY <2>1, <2>3, <3>1 DEF Counted, Lasts
  <2> QED BY <2>2, <2>3
<1> QED BY <1>10, <1>11 DEF Sound, Base

LEMMA InitInv ==
  ASSUME FsInit
  PROVE  FsInv
<1> DEFINE first == Min(Procs)
           none == [p \in Procs |-> None]
           u == Users(none, files)
           v == Users(cwd, files)
<1>1. first \in Procs
  BY Constants, MinIn
<1> HIDE DEF first
<1>2. /\ machine \in Machines /\ live = {first} /\ OnlyRoot(inodes)
      /\ \A p \in Procs : cwd[p] = IF p = first THEN Root ELSE None
      /\ cwd \in [Procs -> Inodes \cup {None}] /\ fds = [p \in Procs |-> {}] /\ files = [f \in Files |-> Closed]
  BY Constants DEF FsInit, first, OnlyRoot, RootNode
<1>3. CwdAt(none, cwd, first, Root) /\ Root \in Inodes
  BY <1>1, <1>2, Constants DEF CwdAt
<1>4. u \in Uses /\ \A i \in Inodes : u[i] = 0
  <2>1. (\A p \in Procs : none[p] = None) /\ (\A f \in Files : files[f] = Closed)
    BY <1>2
  <2> HIDE DEF none
  <2> QED BY <2>1, NoUsers
<1> HIDE DEF none
<1>5. v = Plus(u, Root)
  BY <1>3, CwdPlus
<1> HIDE DEF u, v
<1>6. v \in Uses /\ \A i \in Inodes : v[i] = u[i] + One(i = Root)
  BY <1>3, <1>4, <1>5, PlusIs
<1>7. \A i \in Inodes : v[i] = One(i = Root)
  BY <1>4, <1>6 DEF One
<1>8. Sound(inodes, v)
  BY <1>2, <1>6, <1>7, InitSound
<1>9. IsDir(inodes, Root)
  BY <1>8, SoundIs
<1>10. \A f \in Files : files[f].ino = None /\ files[f].dir = None
  BY <1>2, ClosedIs
<1>11. ProcsOK(live, cwd, fds, inodes)
  BY <1>2, <1>3, <1>9 DEF ProcsOK
<1>12. OpenOK(live, fds, files)
  BY <1>1, <1>2 DEF OpenOK
<1>13. DirsOK(files, inodes) /\ Readers(inodes, files)
  BY <1>10 DEF DirsOK, Readers
<1>14. files \in FileTable /\ fds \in [Procs -> SUBSET Files] /\ live \subseteq Procs
  BY <1>1, <1>2, ClosedIs DEF FileTable
<1> QED BY <1>2, <1>8, <1>11, <1>12, <1>13, <1>14 DEF FsInv, StateOK, v

\* The inductive invariant: the state, the counts of every inode, the shape of the
\* directories and what their readers have returned (FsInv).
THEOREM AlwaysInv == FsSpec => []FsInv
<1>1. FsInit => FsInv
  BY InitInv
<1>2. FsInv /\ [FsNext]_fsVars => FsInv'
  <2>1. ASSUME FsInv, FsNext PROVE FsInv'
    BY <2>1, NextInv
  <2>2. ASSUME FsInv, UNCHANGED fsVars PROVE FsInv'
    <3>1. /\ machine' = machine /\ live' = live /\ cwd' = cwd /\ fds' = fds /\ files' = files /\ inodes' = inodes
      BY <2>2 DEF fsVars
    <3> QED BY <2>2, <3>1 DEF FsInv
  <2> QED BY <2>1, <2>2
<1> QED BY <1>1, <1>2, PTL DEF FsSpec

(* ---- what it gives ---- *)

LEMMA TypeOf ==
  ASSUME FsInv
  PROVE  FsTypeOK
<1>1. /\ live \subseteq Procs /\ ProcsOK(live, cwd, fds, inodes) /\ OpenOK(live, fds, files) /\ DirsOK(files, inodes)
      /\ inodes \in Table /\ files \in FileTable /\ Sound(inodes, Users(cwd, files)) /\ Shape(inodes)
  BY Now, StateIs
<1>2. Holding(inodes, files)
  BY Now, Held
<1>3. None \notin Inodes
  BY Constants
<1>4. \A f \in Files : files[f] # Closed => Live(files[f].ino)
  BY <1>1, <1>2, <1>3 DEF OpenOK, Holding, Live
<1>5. ASSUME NEW i \in Inodes, NEW k \in DOMAIN inodes[i].dents PROVE Live(inodes[i].dents[k].ino)
  <2> DEFINE s == inodes[i].dents
  <2>1. s \in Seq(Entry)
    BY <1>1, TableFields
  <2>2. k \in 1..Len(s)
    BY <2>1
  <2>3. s[k] \in Entries(inodes, i) /\ s[k] = [name |-> s[k].name, ino |-> s[k].ino]
    BY <1>1, <2>2, EntriesAre
  <2> HIDE DEF s
  <2>4. Has(inodes, i, s[k].name, s[k].ino)
    BY <2>3 DEF Has
  <2>5. inodes[s[k].ino].kind # "free"
    BY <1>1, <2>4, SoundIs
  <2> QED BY <2>5 DEF Live, s
<1>6. \A i \in Inodes : inodes[i].kind \in {"free", "dir", "reg", "fifo", "link"}
  BY <1>1, TableFields DEF Kinds
<1>7. \A p \in live : IsDir(inodes, cwd[p])
  BY <1>1 DEF ProcsOK
<1>8. \A f \in Files : /\ files[f] # Closed <=> \E p \in live : f \in fds[p]
                       /\ files[f].dir # None => IsDir(inodes, files[f].dir)
  BY <1>1 DEF OpenOK, DirsOK
<1> QED BY <1>1, <1>4, <1>5, <1>6, <1>7, <1>8, Now DEF FsTypeOK

LEMMA TableMatches ==
  ASSUME FsInv
  PROVE  TableMatchesList
<1> SUFFICES ASSUME NEW d \in Inodes
             PROVE  LET dents == inodes[d].dents
                        htab == inodes[d].htab
                    IN  /\ Cardinality(NamesIn(inodes, d)) = Len(dents)
                        /\ htab = <<>> => Len(dents) <= ListMax
                        /\ \A k \in DOMAIN dents : DirLookup(inodes, d, dents[k].name) = dents[k].ino
                        /\ \A b \in DOMAIN htab : htab[b] = {e \in Entries(inodes, d) : Bucket(Len(htab), e.name) = b}
  BY DEF TableMatchesList
<1> DEFINE s == inodes[d].dents
           h == inodes[d].htab
<1>1. inodes \in Table /\ DirOK(inodes, d)
  BY Now, StateIs, ShapeIs
<1>2. s \in Seq(Entry) /\ h \in Seq(SUBSET Entry) /\ Distinct(s) /\ Chains(s, h) /\ (h = <<>> => Len(s) <= ListMax)
  BY <1>1, TableFields DEF DirOK, DentsOK
<1>3. \A k \in 1..Len(s) : Has(inodes, d, s[k].name, s[k].ino) /\ s[k].name \in Names /\ s[k].ino \in Inodes
  <2>1. \A k \in 1..Len(s) : s[k] \in Entries(inodes, d) /\ s[k] = [name |-> s[k].name, ino |-> s[k].ino] /\ s[k].name \in Names /\ s[k].ino \in Inodes
    BY <1>1, EntriesAre
  <2> QED BY <2>1 DEF Has
<1>4. \A n : n \in NamesIn(inodes, d) <=> \E k \in 1..Len(s) : s[k].name = n
  <2>1. \A e : e \in Entries(inodes, d) <=> \E k \in 1..Len(s) : e = s[k]
    BY <1>1, EntriesAre
  <2> QED BY <2>1 DEF NamesIn
<1>5. \A k \in DOMAIN s : DirLookup(inodes, d, s[k].name) = s[k].ino
  <2>1. DOMAIN s = 1..Len(s)
    BY <1>2
  <2> HIDE DEF s
  <2> QED BY <1>1, <1>3, <2>1, LookupIs
<1>6. Cardinality(NamesIn(inodes, d)) = Len(s)
  <2> DEFINE m == [k \in 1..Len(s) |-> s[k].name]
             T == NamesIn(inodes, d)
  <2>1. Len(s) \in Nat /\ IsFiniteSet(1..Len(s)) /\ Cardinality(1..Len(s)) = Len(s)
    <3>1. Len(s) \in Nat
      BY <1>2
    <3> HIDE DEF s
    <3>2. IsFiniteSet(1..Len(s)) /\ Cardinality(1..Len(s)) = IF 1 > Len(s) THEN 0 ELSE Len(s) - 1 + 1
      BY <3>1, FS_Interval
    <3> QED BY <3>1, <3>2
  <2>2. IsFiniteSet(T)
    <3>1. T \in SUBSET Names
      BY <1>3, <1>4
    <3> QED BY <3>1, Constants, FS_Subset
  <2> HIDE DEF T, s
  <2>3. m \in [1..Len(s) -> T]
    BY <1>4 DEF T
  <2>4. \A x, y \in 1..Len(s) : m[x] = m[y] => x = y
    BY <1>2 DEF Distinct
  <2>5. \A z \in T : \E x \in 1..Len(s) : m[x] = z
    BY <1>4 DEF T
  <2> HIDE DEF m
  <2>6. Cardinality(1..Len(s)) = Cardinality(T)
    <3> DEFINE P == 1..Len(s)
    <3>1. m \in [P -> T]
      BY <2>3
    <3>2. \A x, y \in P : m[x] = m[y] => x = y
      BY <2>4
    <3>3. \A z \in T : \E x \in P : m[x] = z
      BY <2>5
    <3> HIDE DEF P
    <3>4. Cardinality(P) = Cardinality(T)
      BY <2>2, <3>1, <3>2, <3>3, OneToOneOnto
    <3> QED BY <3>4 DEF P
  <2> QED BY <2>1, <2>6 DEF T
<1>7. \A b \in DOMAIN h : h[b] = {e \in Entries(inodes, d) : Bucket(Len(h), e.name) = b}
  <2>1. DOMAIN h = 1..Len(h)
    BY <1>2
  <2> QED BY <1>2, <2>1 DEF Chains, Entries
<1> QED BY <1>2, <1>5, <1>6, <1>7

LEMMA NamesOfIs ==
  ASSUME FsInv, NEW i \in Inodes
  PROVE  NamesOf(inodes, i) = Spots(inodes, i)
<1>1. inodes \in Table /\ \A d \in Inodes : DirOK(inodes, d)
  BY Now, StateIs, ShapeIs
<1>2. ASSUME NEW x \in Inodes \X Names PROVE DirLookup(inodes, x[1], x[2]) = i <=> Has(inodes, x[1], x[2], i)
  <2>1. x[1] \in Inodes /\ x[2] \in Names
    OBVIOUS
  <2> QED BY <1>1, <2>1, LookupIs
<1> QED BY <1>2 DEF NamesOf, Spots

LEMMA NamedIs ==
  ASSUME FsInv, NEW d \in Inodes, HasName(inodes, d)
  PROVE  d \in NamedDirs(inodes)
<1>1. IsDir(inodes, d) /\ d # Root /\ inodes[d].nlink > inodes[d].lost
  BY DEF HasName
<1>2. inodes \in Table /\ Sound(inodes, Users(cwd, files))
  BY Now, StateIs
<1>3. Counted(inodes, d, Users(cwd, files))
  BY <1>2 DEF Sound, Base
<1> DEFINE c == Cardinality(Spots(inodes, d))
           l == inodes[d].lost
           m == inodes[d].nlink
<1>4. c \in Nat /\ (c = 0 <=> Spots(inodes, d) = {})
  BY <1>2, SpotsAre
<1>5. m = l + c
  <2>1. m = (l + c) + One(d = Root) /\ l \in Nat
    BY <1>2, <1>3, TableFields DEF Counted
  <2>2. One(d = Root) = 0
    BY <1>1 DEF One
  <2> HIDE DEF c, l, m
  <2> QED BY <2>1, <2>2, <1>4
<1>6. c # 0
  <2>1. m > l /\ l \in Nat
    BY <1>1, <1>2, TableFields
  <2> HIDE DEF c, l, m
  <2> QED BY <2>1, <1>5
<1> QED BY <1>1, <1>4, <1>6 DEF NamedDirs

LEMMA Rooted ==
  ASSUME FsInv
  PROVE  TreeRooted
<1>1. Shape(inodes) /\ inodes \in Table
  BY Now, StateIs
<1>2. ASSUME NEW d \in Inodes, HasName(inodes, d)
      PROVE  \E n \in Names : NamesOf(inodes, d) = {<<inodes[d].parent, n>>}
  <2>1. Spots(inodes, d) # {} /\ IsDir(inodes, d)
    BY <1>2, NamedIs DEF NamedDirs
  <2>2. PICK x \in Spots(inodes, d) : TRUE
    BY <2>1
  <2>3. x[2] \in Names /\ x = <<x[1], x[2]>>
    BY <1>1, <2>2, SpotsAre
  <2>4. inodes[d].parent = x[1] /\ \A y \in Spots(inodes, d) : y = x
    BY <1>1, <2>1, <2>2 DEF Shape, OneName
  <2>5. Spots(inodes, d) = {<<inodes[d].parent, x[2]>>}
    BY <2>2, <2>3, <2>4
  <2>6. NamesOf(inodes, d) = {<<inodes[d].parent, x[2]>>}
    BY <2>5, NamesOfIs
  <2> QED BY <2>3, <2>6
<1>3. ASSUME NEW S \in SUBSET {d \in Inodes : HasName(inodes, d)}, S # {}
      PROVE  \E d \in S : inodes[d].parent \notin S
  <2>1. S \in SUBSET NamedDirs(inodes)
    BY NamedIs
  <2> QED BY <1>1, <1>3, <2>1 DEF Shape, NoLoop
<1> QED BY <1>2, <1>3 DEF TreeRooted

LEMMA ReadersAre ==
  ASSUME FsInv, NEW f \in Files
  PROVE  /\ files[f] \in FileRec
         /\ files[f].ino = None => files[f] = Closed
         /\ files[f].ino # None => /\ files[f].ino \in Inodes /\ ReadOK(inodes[files[f].ino].dents, files[f])
                                   /\ inodes[files[f].ino].dents \in Seq(Entry)
<1>1. files \in FileTable /\ OpenOK(live, fds, files) /\ Readers(inodes, files) /\ inodes \in Table
  BY Now, StateIs
<1>2. files[f] \in FileRec /\ files[f].ino \in Inodes \cup {None} /\ None \notin Inodes
  BY <1>1, FileIs, Constants
<1>3. files[f].ino = None => files[f] = Closed
  BY <1>1, <1>2 DEF OpenOK
<1>4. files[f].ino \in Inodes => inodes[files[f].ino].dents \in Seq(Entry)
  BY <1>1, TableFields
<1> QED BY <1>1, <1>2, <1>3, <1>4 DEF Readers

LEMMA NotTwice ==
  ASSUME FsInv
  PROVE  NoEntryTwice
<1> SUFFICES ASSUME NEW f \in Files, NEW n \in Names PROVE files[f].read[n] <= 1
  BY DEF NoEntryTwice
<1>1. CASE files[f].ino = None
  <2>1. files[f] = Closed
    BY <1>1, ReadersAre
  <2>2. Closed.read[n] = 0
    BY DEF Closed
  <2> QED BY <2>1, <2>2
<1>2. CASE files[f].ino # None
  BY <1>2, ReadersAre DEF ReadOK, ReadOnce
<1> QED BY <1>1, <1>2

LEMMA SkipsFew ==
  ASSUME FsInv
  PROVE  SkipsForRemovals
<1> SUFFICES ASSUME NEW f \in Files, files[f].ino # None, files[f].pos >= 2 + Len(inodes[files[f].ino].dents)
             PROVE  Cardinality({n \in files[f].stayed : files[f].read[n] = 0}) <= files[f].gone
  BY DEF SkipsForRemovals
<1>1. files[f] \in FileRec /\ ReadOK(inodes[files[f].ino].dents, files[f]) /\ inodes[files[f].ino].dents \in Seq(Entry)
  BY ReadersAre
<1> QED BY <1>1, ReadDone

\* The inodes, processes and files are always what they should be: who works or
\* reads somewhere, and what every directory names, is there (FsTypeOK).
THEOREM FsAlwaysTyped == FsSpec => []FsTypeOK
<1>1. FsInv => FsTypeOK
  BY TypeOf
<1> QED BY <1>1, AlwaysInv, PTL

\* The hash table of a directory holds what its list holds, and a lookup finds it:
\* for every hash function, number of names and size of table (dir_add, dir_remove,
\* rehash, fs.c:227-294).
THEOREM TableIsList == FsSpec => []TableMatchesList
<1>1. FsInv => TableMatchesList
  BY TableMatches
<1> QED BY <1>1, AlwaysInv, PTL

\* The directories that have names are a tree, whatever is made, moved and removed
\* (rename's is_ancestor, sys.c:541-549, and dir_add's parent, fs.c:262-263).
THEOREM AlwaysRooted == FsSpec => []TreeRooted
<1>1. FsInv => TreeRooted
  BY Rooted
<1> QED BY <1>1, AlwaysInv, PTL

\* A reading of a directory never returns an entry twice; a name that was taken away
\* and made again is another entry (sys_getdents64, sys.c:359-416).
THEOREM NeverTwice == FsSpec => []NoEntryTwice
<1>1. FsInv => NoEntryTwice
  BY NotTwice
<1> QED BY <1>1, AlwaysInv, PTL

\* A reading misses no more names than were removed while it went on
\* (sys_getdents64, sys.c:359-416).
THEOREM MissesFew == FsSpec => []SkipsForRemovals
<1>1. FsInv => SkipsForRemovals
  BY SkipsFew
<1> QED BY <1>1, AlwaysInv, PTL

(* ---- the tree of names ---- *)

LEMMA HasMap ==
  ASSUME NEW I, Shape(I), NEW d \in Inodes
  PROVE  /\ NameMap(I)[d] = [n \in NamesIn(I, d) |-> DirLookup(I, d, n)]
         /\ DOMAIN NameMap(I)[d] = NamesIn(I, d)
         /\ \A n \in NamesIn(I, d) : NameMap(I)[d][n] \in Inodes
         /\ \A n, i : n \in NamesIn(I, d) /\ NameMap(I)[d][n] = i <=> Has(I, d, n, i)
<1>1. I \in Table /\ DirOK(I, d)
  BY ShapeIs
<1>2. NameMap(I)[d] = [n \in NamesIn(I, d) |-> DirLookup(I, d, n)]
  BY DEF NameMap
<1>3. \A n \in NamesIn(I, d) : NameMap(I)[d][n] = DirLookup(I, d, n)
  BY <1>2
<1>4. DOMAIN NameMap(I)[d] = NamesIn(I, d)
  BY <1>2
<1>5. /\ \A n, i : Has(I, d, n, i) => n \in Names /\ i \in Inodes
      /\ \A n : n \in NamesIn(I, d) <=> \E i \in Inodes : Has(I, d, n, i)
  BY <1>1, HasIs
<1>6. \A n \in Names : /\ DirLookup(I, d, n) \in Inodes \cup {None}
                       /\ \A i \in Inodes : DirLookup(I, d, n) = i <=> Has(I, d, n, i)
                       /\ DirLookup(I, d, n) = None <=> n \notin NamesIn(I, d)
  BY <1>1, LookupIs
<1>7. \A n \in NamesIn(I, d) : NameMap(I)[d][n] \in Inodes
  BY <1>3, <1>5, <1>6
<1>8. \A n, i : n \in NamesIn(I, d) /\ NameMap(I)[d][n] = i <=> Has(I, d, n, i)
  BY <1>3, <1>5, <1>6, <1>7
<1> QED BY <1>2, <1>4, <1>7, <1>8

\* t is what directory d of J names.
TableOf(J, d, S, t) ==
  /\ t = [n \in S |-> t[n]]
  /\ \A n, i : n \in S /\ t[n] = i <=> Has(J, d, n, i)

LEMMA DirMapIs ==
  ASSUME NEW J, Shape(J), NEW d \in Inodes, NEW S, NEW t, TableOf(J, d, S, t)
  PROVE  NameMap(J)[d] = t
<1> DEFINE N == NamesIn(J, d)
           m == NameMap(J)[d]
<1>1. m = [n \in N |-> DirLookup(J, d, n)] /\ \A n, i : n \in N /\ m[n] = i <=> Has(J, d, n, i)
  BY HasMap
<1>2. t = [n \in S |-> t[n]] /\ \A n, i : n \in S /\ t[n] = i <=> Has(J, d, n, i)
  BY DEF TableOf
<1>3. \A n \in N : m[n] = DirLookup(J, d, n)
  BY <1>1
<1> HIDE DEF N, m
<1>4. \A n : (n \in N <=> n \in S) /\ (n \in N => m[n] = t[n])
  BY <1>1, <1>2
<1>5. N = S
  BY <1>4
<1>6. \A n \in S : DirLookup(J, d, n) = t[n]
  BY <1>3, <1>4, <1>5
<1>7. [n \in N |-> DirLookup(J, d, n)] = [n \in S |-> t[n]]
  BY <1>5, <1>6
<1>8. m = t
  BY <1>1, <1>2, <1>7
<1> QED BY <1>8 DEF m

LEMMA SameMap ==
  ASSUME NEW I, Shape(I), NEW J, Shape(J), NEW d \in Inodes, SameNames(I, J, d)
  PROVE  NameMap(J)[d] = NameMap(I)[d]
<1> DEFINE t == NameMap(I)[d]
           S == NamesIn(I, d)
<1>1. t = [n \in S |-> DirLookup(I, d, n)] /\ \A n, i : n \in S /\ t[n] = i <=> Has(I, d, n, i)
  BY HasMap
<1>2. t = [n \in S |-> t[n]]
  BY <1>1
<1> HIDE DEF t, S
<1>3. TableOf(J, d, S, t)
  BY <1>1, <1>2 DEF TableOf, SameNames
<1>4. NameMap(J)[d] = t
  BY <1>3, DirMapIs
<1> QED BY <1>4 DEF t

LEMMA WithMap ==
  ASSUME NEW I, Shape(I), NEW J, Shape(J), NEW d \in Inodes, NEW n, NEW i,
         \A m, j : Has(J, d, m, j) <=> (Has(I, d, m, j) /\ m # n) \/ (m = n /\ j = i)
  PROVE  NameMap(J)[d] = Tree!With(NameMap(I)[d], n, i)
<1> DEFINE t == NameMap(I)[d]
           S == NamesIn(I, d)
           w == Tree!With(t, n, i)
<1>1. DOMAIN t = S /\ \A m, j : m \in S /\ t[m] = j <=> Has(I, d, m, j)
  BY HasMap
<1> HIDE DEF t, S
<1>2. w = [m \in S \cup {n} |-> IF m = n THEN i ELSE t[m]]
  BY <1>1 DEF Tree!With
<1>3. \A m \in S \cup {n} : w[m] = IF m = n THEN i ELSE t[m]
  BY <1>2
<1>4. w = [m \in S \cup {n} |-> w[m]]
  BY <1>2
<1> HIDE DEF w
<1>5. \A m, j : m \in S \cup {n} /\ w[m] = j <=> Has(J, d, m, j)
  <2> TAKE m, j
  <2>1. CASE m = n
    BY <2>1, <1>3
  <2>2. CASE m # n
    BY <2>2, <1>1, <1>3
  <2> QED BY <2>1, <2>2
<1>6. TableOf(J, d, S \cup {n}, w)
  BY <1>4, <1>5 DEF TableOf
<1>7. NameMap(J)[d] = w
  BY <1>6, DirMapIs
<1> QED BY <1>7 DEF w, t

LEMMA WithoutMap ==
  ASSUME NEW I, Shape(I), NEW J, Shape(J), NEW d \in Inodes, NEW n,
         \A m, j : Has(J, d, m, j) <=> Has(I, d, m, j) /\ m # n
  PROVE  NameMap(J)[d] = Tree!Without(NameMap(I)[d], n)
<1> DEFINE t == NameMap(I)[d]
           S == NamesIn(I, d)
           w == Tree!Without(t, n)
<1>1. DOMAIN t = S /\ \A m, j : m \in S /\ t[m] = j <=> Has(I, d, m, j)
  BY HasMap
<1> HIDE DEF t, S
<1>2. w = [m \in S \ {n} |-> t[m]]
  BY <1>1 DEF Tree!Without
<1>3. \A m \in S \ {n} : w[m] = t[m]
  BY <1>2
<1>4. w = [m \in S \ {n} |-> w[m]]
  BY <1>2
<1> HIDE DEF w
<1>5. \A m, j : m \in S \ {n} /\ w[m] = j <=> Has(J, d, m, j)
  BY <1>1, <1>3
<1>6. TableOf(J, d, S \ {n}, w)
  BY <1>4, <1>5 DEF TableOf
<1>7. NameMap(J)[d] = w
  BY <1>6, DirMapIs
<1> QED BY <1>7 DEF w, t

LEMMA NamedSpots ==
  ASSUME NEW I, Shape(I), NEW i \in Inodes
  PROVE  (\E d \in Inodes : \E n \in DOMAIN NameMap(I)[d] : NameMap(I)[d][n] = i) <=> Spots(I, i) # {}
<1>1. I \in Table
  BY ShapeIs
<1>2. /\ \A d \in Inodes : \A n : <<d, n>> \in Spots(I, i) <=> Has(I, d, n, i)
      /\ \A x \in Spots(I, i) : x[1] \in Inodes /\ Has(I, x[1], x[2], i)
  BY <1>1, SpotsAre
<1>3. ASSUME NEW d \in Inodes
      PROVE  \A n : (n \in DOMAIN NameMap(I)[d] /\ NameMap(I)[d][n] = i) <=> Has(I, d, n, i)
  <2> DEFINE t == NameMap(I)[d]
  <2>1. DOMAIN t = NamesIn(I, d)
    BY HasMap
  <2>2. \A n, j : n \in NamesIn(I, d) /\ t[n] = j <=> Has(I, d, n, j)
    BY HasMap
  <2> HIDE DEF t
  <2>3. \A n : (n \in DOMAIN t /\ t[n] = i) <=> Has(I, d, n, i)
    BY <2>1, <2>2
  <2> QED BY <2>3 DEF t
<1>4. ASSUME NEW d \in Inodes, NEW n \in DOMAIN NameMap(I)[d], NameMap(I)[d][n] = i PROVE Spots(I, i) # {}
  <2>1. Has(I, d, n, i)
    BY <1>3, <1>4
  <2>2. <<d, n>> \in Spots(I, i)
    BY <1>2, <2>1
  <2> QED BY <2>2
<1>5. ASSUME Spots(I, i) # {} PROVE \E d \in Inodes : \E n \in DOMAIN NameMap(I)[d] : NameMap(I)[d][n] = i
  <2>1. PICK x \in Spots(I, i) : TRUE
    BY <1>5
  <2>2. x[1] \in Inodes /\ Has(I, x[1], x[2], i)
    BY <1>2
  <2>3. x[2] \in DOMAIN NameMap(I)[x[1]] /\ NameMap(I)[x[1]][x[2]] = i
    BY <1>3, <2>2
  <2> QED BY <2>2, <2>3
<1> QED BY <1>4, <1>5

LEMMA UserMapIs ==
  ASSUME FsInv, NEW i \in Inodes
  PROVE  /\ UserMap[i] \in Nat
         /\ UserMap[i] = Users(cwd, files)[i] + inodes[i].lost
         /\ Users(cwd, files)[i] \in Nat /\ inodes[i].lost \in Nat
<1>1. /\ live \subseteq Procs /\ ProcsOK(live, cwd, fds, inodes) /\ inodes \in Table /\ Users(cwd, files) \in Uses
  BY Now, StateIs
<1>2. i # None /\ IsFiniteSet(Procs) /\ IsFiniteSet(Files)
  BY Constants
<1>3. {p \in live : cwd[p] = i} = {p \in Procs : cwd[p] = i}
  BY <1>1, <1>2 DEF ProcsOK
<1>4. {f \in Files : Inos(files)[f] = i} = {f \in Files : files[f].ino = i} /\ {f \in Files : Dirs(files)[f] = i} = {f \in Files : files[f].dir = i}
  BY DEF Inos, Dirs
<1>5. Used(i) = (Tally(Procs, cwd, i) + Tally(Files, Inos(files), i)) + Tally(Files, Dirs(files), i)
  BY <1>3, <1>4 DEF Used, Tally
<1>6. Used(i) = Users(cwd, files)[i]
  BY <1>5 DEF Users, UsesBy
<1>7. Users(cwd, files)[i] \in Nat /\ inodes[i].lost \in Nat
  BY <1>1, TableFields DEF Uses
<1>8. UserMap[i] = Used(i) + inodes[i].lost
  BY DEF UserMap
<1> QED BY <1>6, <1>7, <1>8

\* A node is there if and only if it has a name or a user.
NodesOK == \A i \in Inodes :
  KindMap(inodes)[i] = "free" <=> i # Root /\ ~Tree!Named(i) /\ UserMap[i] = 0
MapsOK == Tree!TypeOK /\ NodesOK /\ Shape(inodes)

LEMMA MapsRight ==
  ASSUME FsInv
  PROVE  MapsOK
<1>1. Shape(inodes) /\ inodes \in Table /\ Sound(inodes, Users(cwd, files))
  BY Now, StateIs
<1>2. \A i \in Inodes : KindMap(inodes)[i] = inodes[i].kind
  BY DEF KindMap
<1>3. Tree!TypeOK
  <2>1. KindMap(inodes) \in [Inodes -> {"free", "dir", "reg", "fifo", "link"}]
    <3>1. \A i \in Inodes : inodes[i].kind \in {"free", "dir", "reg", "fifo", "link"}
      BY <1>1, TableFields DEF Kinds
    <3> QED BY <3>1 DEF KindMap
  <2>2. DOMAIN NameMap(inodes) = Inodes
    BY DEF NameMap
  <2>3. ASSUME NEW d \in Inodes
        PROVE  /\ DOMAIN NameMap(inodes)[d] \subseteq Names
               /\ \A n \in DOMAIN NameMap(inodes)[d] : NameMap(inodes)[d][n] \in Inodes
               /\ KindMap(inodes)[d] # "dir" => DOMAIN NameMap(inodes)[d] = {}
    <3>1. /\ DOMAIN NameMap(inodes)[d] = NamesIn(inodes, d)
          /\ \A n \in NamesIn(inodes, d) : NameMap(inodes)[d][n] \in Inodes
      BY <1>1, HasMap
    <3>2. NamesIn(inodes, d) \subseteq Names
      BY <1>1, HasIs
    <3>3. ASSUME inodes[d].kind # "dir" PROVE NamesIn(inodes, d) = {}
      <4>1. inodes[d].dents = <<>>
        BY <1>1, <3>3, ShapeIs DEF DirOK
      <4>2. Entries(inodes, d) = {}
        BY <1>1, <4>1, EntriesAre
      <4> QED BY <4>2 DEF NamesIn
    <3> QED BY <3>1, <3>2, <3>3, <1>2
  <2>4. UserMap \in [Inodes -> Nat]
    BY UserMapIs DEF UserMap
  <2> QED BY <2>1, <2>2, <2>3, <2>4 DEF Tree!TypeOK
<1>4. NodesOK
  <2> SUFFICES ASSUME NEW i \in Inodes
               PROVE  KindMap(inodes)[i] = "free" <=> i # Root /\ ~Tree!Named(i) /\ UserMap[i] = 0
    BY DEF NodesOK
  <2> DEFINE u == Users(cwd, files)[i]
             l == inodes[i].lost
             c == Cardinality(Spots(inodes, i))
             m == inodes[i].nlink
  <2>1. UserMap[i] = u + l /\ u \in Nat /\ l \in Nat
    BY UserMapIs
  <2>2. m = (l + c) + One(i = Root) /\ (inodes[i].kind = "free" <=> (i # Root /\ u = 0 /\ m = 0))
    BY <1>1 DEF Sound, Base, Counted, Lasts
  <2>3. c \in Nat /\ (c = 0 <=> Spots(inodes, i) = {})
    BY <1>1, SpotsAre
  <2>4. Tree!Named(i) <=> Spots(inodes, i) # {}
    BY <1>1, NamedSpots DEF Tree!Named
  <2>5. i # Root => One(i = Root) = 0
    BY DEF One
  <2> HIDE DEF u, l, c, m
  <2>6. i # Root => (u = 0 /\ m = 0 <=> c = 0 /\ u + l = 0)
    BY <2>1, <2>2, <2>3, <2>5
  <2> QED BY <1>2, <2>1, <2>2, <2>3, <2>4, <2>6
<1> QED BY <1>1, <1>3, <1>4 DEF MapsOK

LEMMA MapsAlways == FsInv => MapsOK
BY MapsRight

LEMMA MapsNext == FsInv' => MapsOK'
BY MapsAlways, PTL

LEMMA KeptStep ==
  ASSUME MapsOK, MapsOK', KindsKept(inodes, inodes')
  PROVE  Tree!Kept
<1>1. \A i \in Inodes : KindMap(inodes)[i] = inodes[i].kind /\ KindMap(inodes)'[i] = inodes'[i].kind
  BY DEF KindMap
<1>2. \A i \in Inodes : KindMap(inodes)'[i] = "free" <=> i # Root /\ ~Tree!Named(i)' /\ UserMap'[i] = 0
  BY DEF MapsOK, NodesOK
<1>3. UserMap' \in [Inodes -> Nat]
  BY DEF MapsOK, Tree!TypeOK
<1>4. \A i \in Inodes : UserMap'[i] \in Nat /\ (UserMap'[i] > 0 <=> UserMap'[i] # 0)
  BY <1>3
<1>5. inodes[Root].kind # "free" /\ Root \in Inodes
  BY Constants DEF MapsOK, Shape, IsDir
<1>6. \A i \in Inodes : inodes[i].kind = "free" \/ inodes'[i].kind = "free" \/ inodes'[i].kind = inodes[i].kind
  BY DEF KindsKept
<1> SUFFICES ASSUME NEW i \in Inodes
             PROVE  /\ KindMap(inodes)[i] # "free" => KindMap(inodes)'[i] = IF i = Root \/ Tree!Named(i)' \/ UserMap'[i] > 0
                                                                            THEN KindMap(inodes)[i] ELSE "free"
                    /\ KindMap(inodes)[i] = "free" => (KindMap(inodes)'[i] = "free" <=> ~Tree!Named(i)' /\ UserMap'[i] = 0)
  BY DEF Tree!Kept
<1>7. CASE inodes[i].kind # "free"
  <2>1. CASE i = Root \/ Tree!Named(i)' \/ UserMap'[i] > 0
    <3>1. KindMap(inodes)'[i] # "free"
      BY <2>1, <1>2, <1>4
    <3> QED BY <3>1, <2>1, <1>7, <1>1, <1>6
  <2>2. CASE ~(i = Root \/ Tree!Named(i)' \/ UserMap'[i] > 0)
    <3>1. KindMap(inodes)'[i] = "free"
      BY <2>2, <1>2, <1>4
    <3> QED BY <3>1, <2>2, <1>7, <1>1
  <2> QED BY <2>1, <2>2
<1>8. CASE inodes[i].kind = "free"
  BY <1>8, <1>1, <1>2, <1>5
<1> QED BY <1>7, <1>8

(* ---- the steps of the tree ---- *)

LEMMA OtherMaps ==
  ASSUME NEW I, NEW J, NEW d \in Inodes, \A x \in Inodes : x # d => NameMap(J)[x] = NameMap(I)[x]
  PROVE  NameMap(J) = [NameMap(I) EXCEPT ![d] = NameMap(J)[d]]
<1> DEFINE A == NameMap(I)
           B == NameMap(J)
<1>1. A = [x \in Inodes |-> A[x]] /\ B = [x \in Inodes |-> B[x]]
  BY DEF NameMap
<1>2. \A x \in Inodes : x # d => B[x] = A[x]
  OBVIOUS
<1> HIDE DEF A, B
<1>3. B = [A EXCEPT ![d] = B[d]]
  BY <1>1, <1>2
<1> QED BY <1>3 DEF A, B

\* Directory d has name n of i more.
Named1(A, B, d, n, i) ==
  /\ d \in {x \in Inodes : B[x] # A[x]} /\ n \notin DOMAIN A[d] /\ n \in DOMAIN B[d] /\ B[d][n] = i
  /\ B = [A EXCEPT ![d] = Tree!With(@, n, i)]

LEMMA AddMaps ==
  ASSUME NEW I, Shape(I), NEW J, Shape(J), NEW d \in Inodes, NEW n, NEW i \in Inodes,
         More(I, J, d, n, i), n \notin NamesIn(I, d)
  PROVE  Named1(NameMap(I), NameMap(J), d, n, i)
<1> DEFINE A == NameMap(I)
           B == NameMap(J)
<1>1. I \in Table
  BY ShapeIs
<1>2. \A j : ~Has(I, d, n, j)
  BY <1>1, HasIs
<1>3. \A m, j : Has(J, d, m, j) <=> (Has(I, d, m, j) /\ m # n) \/ (m = n /\ j = i)
  BY <1>2 DEF More
<1>4. B[d] = Tree!With(A[d], n, i)
  BY <1>3, WithMap
<1>5. ASSUME NEW x \in Inodes, x # d PROVE B[x] = A[x]
  <2>1. SameNames(I, J, x)
    BY <1>5 DEF More, SameNames
  <2> QED BY <2>1, SameMap
<1>6. B = [A EXCEPT ![d] = B[d]]
  BY <1>5, OtherMaps
<1>7. DOMAIN A[d] = NamesIn(I, d)
  BY HasMap
<1>8. \A m, j : m \in NamesIn(J, d) /\ B[d][m] = j <=> Has(J, d, m, j)
  BY HasMap
<1>9. DOMAIN B[d] = NamesIn(J, d)
  BY HasMap
<1>10. n \in DOMAIN B[d] /\ B[d][n] = i
  BY <1>3, <1>8, <1>9
<1>11. DOMAIN A = Inodes
  BY DEF NameMap
<1> HIDE DEF A, B
<1>12. n \notin DOMAIN A[d] /\ B[d] # A[d]
  BY <1>7, <1>10
<1>13. B = [A EXCEPT ![d] = Tree!With(@, n, i)]
  BY <1>4, <1>6, <1>11
<1>14. Named1(A, B, d, n, i)
  BY <1>10, <1>12, <1>13 DEF Named1
<1> QED BY <1>14 DEF A, B

\* Directory d has no name n more, which was of i.
Unnamed(A, B, d, n, i) ==
  /\ d \in {x \in Inodes : B[x] # A[x]} /\ n \in DOMAIN A[d] \ DOMAIN B[d] /\ A[d][n] = i /\ DOMAIN A[i] = {}
  /\ B = [A EXCEPT ![d] = Tree!Without(@, n)]

LEMMA NoDents ==
  ASSUME NEW I, Shape(I), NEW i \in Inodes, I[i].dents = <<>>
  PROVE  DOMAIN NameMap(I)[i] = {}
<1>1. I \in Table
  BY ShapeIs
<1>2. Entries(I, i) = {}
  BY <1>1, EntriesAre
<1>3. NamesIn(I, i) = {}
  BY <1>2 DEF NamesIn
<1> QED BY <1>3, HasMap

LEMMA UnlinkMaps ==
  ASSUME NEW I, Shape(I), NEW J, Shape(J), NEW d \in Inodes, NEW n, NEW i \in Inodes,
         Has(I, d, n, i), Less(I, J, d, n, i), I[i].dents = <<>>
  PROVE  Unnamed(NameMap(I), NameMap(J), d, n, i)
<1> DEFINE A == NameMap(I)
           B == NameMap(J)
<1>1. I \in Table /\ DirOK(I, d)
  BY ShapeIs
<1>2. \A j : Has(I, d, n, j) => j = i
  BY <1>1, HasOnce
<1>3. \A m, j : Has(J, d, m, j) <=> Has(I, d, m, j) /\ m # n
  BY <1>2 DEF Less
<1>4. B[d] = Tree!Without(A[d], n)
  BY <1>3, WithoutMap
<1>5. ASSUME NEW x \in Inodes, x # d PROVE B[x] = A[x]
  <2>1. SameNames(I, J, x)
    BY <1>5 DEF Less, SameNames
  <2> QED BY <2>1, SameMap
<1>6. B = [A EXCEPT ![d] = B[d]]
  BY <1>5, OtherMaps
<1>7. DOMAIN A[d] = NamesIn(I, d)
  BY HasMap
<1>8. \A m, j : m \in NamesIn(I, d) /\ A[d][m] = j <=> Has(I, d, m, j)
  BY HasMap
<1>9. n \in DOMAIN A[d] /\ A[d][n] = i
  BY <1>7, <1>8
<1>10. DOMAIN A = Inodes
  BY DEF NameMap
<1>11. DOMAIN A[i] = {}
  BY NoDents
<1> HIDE DEF A, B
<1>12. n \notin DOMAIN B[d]
  BY <1>4 DEF Tree!Without
<1>13. B = [A EXCEPT ![d] = Tree!Without(@, n)]
  BY <1>4, <1>6, <1>10
<1>14. Unnamed(A, B, d, n, i)
  BY <1>9, <1>11, <1>12, <1>13 DEF Unnamed
<1> QED BY <1>14 DEF A, B

LEMMA MovedMap ==
  ASSUME NEW I, Shape(I), NEW J, Shape(J), NEW d \in Inodes, NEW n, NEW m, NEW i,
         \A l, j : Has(J, d, l, j) <=> (Has(I, d, l, j) /\ l # n /\ l # m) \/ (l = m /\ j = i)
  PROVE  NameMap(J)[d] = Tree!With(Tree!Without(NameMap(I)[d], n), m, i)
<1> DEFINE t == NameMap(I)[d]
           S == NamesIn(I, d)
           v == Tree!Without(t, n)
           w == Tree!With(v, m, i)
           T == (S \ {n}) \cup {m}
<1>1. DOMAIN t = S /\ \A l, j : l \in S /\ t[l] = j <=> Has(I, d, l, j)
  BY HasMap
<1> HIDE DEF t, S
<1>2. v = [l \in S \ {n} |-> t[l]]
  BY <1>1 DEF Tree!Without
<1>3. DOMAIN v = S \ {n} /\ \A l \in S \ {n} : v[l] = t[l]
  BY <1>2
<1> HIDE DEF v
<1>4. w = [l \in T |-> IF l = m THEN i ELSE v[l]]
  BY <1>3 DEF Tree!With
<1>5. \A l \in T : w[l] = IF l = m THEN i ELSE v[l]
  BY <1>4
<1>6. w = [l \in T |-> w[l]]
  BY <1>4
<1> HIDE DEF w
<1>7. \A l, j : l \in T /\ w[l] = j <=> Has(J, d, l, j)
  <2> TAKE l, j
  <2>1. CASE l = m
    BY <2>1, <1>5
  <2>2. CASE l # m
    BY <2>2, <1>1, <1>3, <1>5
  <2> QED BY <2>1, <2>2
<1> HIDE DEF T
<1>8. TableOf(J, d, T, w)
  BY <1>6, <1>7 DEF TableOf
<1>9. NameMap(J)[d] = w
  BY <1>8, DirMapIs
<1> QED BY <1>9 DEF w, v, t

\* The name n of directory d has become name m of e, which was free or of an empty o.
Carried(A, B, d, n, e, m, i) ==
  /\ d \in {x \in Inodes : B[x] # A[x]} /\ n \in DOMAIN A[d] \ DOMAIN B[d] /\ A[d][n] = i
  /\ e \in {x \in Inodes : B[x] # A[x]} /\ m \in DOMAIN B[e] /\ <<d, n>> # <<e, m>>
  /\ B = LET taken == [A EXCEPT ![d] = Tree!Without(@, n)] IN [taken EXCEPT ![e] = Tree!With(@, m, i)]
Replaced(I, A, e, m, i) ==
  m \in DOMAIN A[e] => IsDir(I, A[e][m]) = IsDir(I, i) /\ A[e][m] \in Inodes /\ DOMAIN A[A[e][m]] = {}

LEMMA TakenAt ==
  ASSUME NEW A, DOMAIN A = Inodes, NEW B, DOMAIN B = Inodes, B = [x \in Inodes |-> B[x]], A = [x \in Inodes |-> A[x]],
         NEW d \in Inodes, NEW n, NEW e \in Inodes, NEW m, NEW i,
         \A x \in Inodes : x # d /\ x # e => B[x] = A[x],
         d # e => B[d] = Tree!Without(A[d], n) /\ B[e] = Tree!With(A[e], m, i),
         d = e => B[e] = Tree!With(Tree!Without(A[d], n), m, i)
  PROVE  B = LET taken == [A EXCEPT ![d] = Tree!Without(@, n)] IN [taken EXCEPT ![e] = Tree!With(@, m, i)]
<1> DEFINE v == Tree!Without(A[d], n)
           t == [A EXCEPT ![d] = v]
           w == Tree!With(t[e], m, i)
           r == [t EXCEPT ![e] = w]
<1>1. d # e => B[d] = v /\ t[e] = A[e] /\ B[e] = w
  OBVIOUS
<1>2. d = e => t[e] = v /\ B[e] = w
  OBVIOUS
<1>3. t = [x \in Inodes |-> IF x = d THEN v ELSE A[x]]
  OBVIOUS
<1> HIDE DEF v
<1>4. \A x \in Inodes : t[x] = IF x = d THEN v ELSE A[x]
  BY <1>3
<1>5. DOMAIN t = Inodes
  BY <1>3
<1> HIDE DEF t, w
<1>6. r = [x \in Inodes |-> IF x = e THEN w ELSE t[x]]
  BY <1>5
<1>7. \A x \in Inodes : B[x] = IF x = e THEN w ELSE t[x]
  BY <1>1, <1>2, <1>4
<1>8. B = r
  BY <1>6, <1>7
<1> QED BY <1>8 DEF r, w, t, v

LEMMA MoveMaps ==
  ASSUME NEW I, Shape(I), NEW J, Shape(J), NEW od \in Inodes, NEW ol \in Names, NEW nd \in Inodes, NEW nl \in Names,
         NEW src \in Inodes, NEW dst \in Inodes \cup {None}, MayMove(I, od, ol, nd, nl, src, dst),
         Moved(I, J, od, ol, nd, nl, src, dst), dst # None => IsDir(I, dst) = IsDir(I, src)
  PROVE  /\ Carried(NameMap(I), NameMap(J), od, ol, nd, nl, src)
         /\ Replaced(I, NameMap(I), nd, nl, src)
<1> DEFINE A == NameMap(I)
           B == NameMap(J)
<1>1. I \in Table /\ DirOK(I, od) /\ DirOK(I, nd) /\ None \notin Inodes
  BY ShapeIs, Constants
<1>2. Has(I, od, ol, src) /\ dst # src
  BY DEF MayMove
<1>3. \A j : Has(I, od, ol, j) <=> j = src
  BY <1>1, <1>2, HasOnce
<1>4. \A j : Has(I, nd, nl, j) => j = dst /\ dst # None /\ I[dst].dents = <<>>
  <2>1. CASE dst = None
    <3>1. nl \notin NamesIn(I, nd)
      BY <2>1 DEF MayMove
    <3> QED BY <1>1, <3>1, HasIs
  <2>2. CASE dst # None
    <3>1. Has(I, nd, nl, dst) /\ I[dst].dents = <<>>
      BY <2>2 DEF MayMove
    <3> QED BY <1>1, <2>2, <3>1, HasOnce
  <2> QED BY <2>1, <2>2
<1>5. <<od, ol>> # <<nd, nl>>
  BY <1>2, <1>4
<1>6. ASSUME NEW x \in Inodes, x # od, x # nd PROVE B[x] = A[x]
  <2>1. SameNames(I, J, x)
    BY <1>6 DEF Moved, SameNames
  <2> QED BY <2>1, SameMap
<1>7. ASSUME od # nd PROVE B[od] = Tree!Without(A[od], ol) /\ B[nd] = Tree!With(A[nd], nl, src)
  <2>1. \A m, j : Has(J, od, m, j) <=> Has(I, od, m, j) /\ m # ol
    BY <1>3, <1>7 DEF Moved
  <2>2. \A m, j : Has(J, nd, m, j) <=> (Has(I, nd, m, j) /\ m # nl) \/ (m = nl /\ j = src)
    BY <1>4, <1>7 DEF Moved
  <2>3. B[od] = Tree!Without(A[od], ol)
    BY <2>1, WithoutMap
  <2>4. B[nd] = Tree!With(A[nd], nl, src)
    BY <2>2, WithMap
  <2> QED BY <2>3, <2>4
<1>8. ASSUME od = nd PROVE B[nd] = Tree!With(Tree!Without(A[od], ol), nl, src)
  <2>1. \A m, j : Has(J, od, m, j) <=> (Has(I, od, m, j) /\ m # ol /\ m # nl) \/ (m = nl /\ j = src)
    BY <1>3, <1>4, <1>8 DEF Moved
  <2>2. B[od] = Tree!With(Tree!Without(A[od], ol), nl, src)
    BY <2>1, MovedMap
  <2> QED BY <1>8, <2>2
<1>9. DOMAIN A = Inodes /\ DOMAIN B = Inodes /\ A = [x \in Inodes |-> A[x]] /\ B = [x \in Inodes |-> B[x]]
  BY DEF NameMap
<1>10. /\ DOMAIN A[od] = NamesIn(I, od) /\ DOMAIN A[nd] = NamesIn(I, nd)
       /\ DOMAIN B[od] = NamesIn(J, od) /\ DOMAIN B[nd] = NamesIn(J, nd)
  BY HasMap
<1>11. \A m, j : m \in NamesIn(I, od) /\ A[od][m] = j <=> Has(I, od, m, j)
  BY HasMap
<1>12. \A m, j : m \in NamesIn(I, nd) /\ A[nd][m] = j <=> Has(I, nd, m, j)
  BY HasMap
<1>13. \A m, j : m \in NamesIn(J, nd) /\ B[nd][m] = j <=> Has(J, nd, m, j)
  BY HasMap
<1>14. \A m, j : m \in NamesIn(J, od) /\ B[od][m] = j <=> Has(J, od, m, j)
  BY HasMap
<1>15. Has(J, nd, nl, src) /\ ~Has(I, nd, nl, src) /\ \A j : ~Has(J, od, ol, j)
  BY <1>2, <1>3, <1>4, <1>5 DEF Moved
<1>16. dst # None => DOMAIN A[dst] = {}
  <2>1. ASSUME dst # None PROVE I[dst].dents = <<>>
    BY <2>1 DEF MayMove
  <2> QED BY <2>1, NoDents
<1> HIDE DEF A, B
<1>17. ol \in DOMAIN A[od] /\ A[od][ol] = src /\ ol \notin DOMAIN B[od]
  BY <1>2, <1>10, <1>11, <1>14, <1>15
<1>18. nl \in DOMAIN B[nd] /\ B[nd][nl] = src
  BY <1>10, <1>13, <1>15
<1>19. A[nd] # B[nd]
  BY <1>10, <1>12, <1>15, <1>18
<1>20. A[od] # B[od]
  BY <1>17
<1>21. B = LET taken == [A EXCEPT ![od] = Tree!Without(@, ol)] IN [taken EXCEPT ![nd] = Tree!With(@, nl, src)]
  BY <1>6, <1>7, <1>8, <1>9, TakenAt
<1>22. Carried(A, B, od, ol, nd, nl, src)
  BY <1>5, <1>17, <1>18, <1>19, <1>20, <1>21 DEF Carried
<1>23. Replaced(I, A, nd, nl, src)
  <2> SUFFICES ASSUME nl \in DOMAIN A[nd]
               PROVE  IsDir(I, A[nd][nl]) = IsDir(I, src) /\ A[nd][nl] \in Inodes /\ DOMAIN A[A[nd][nl]] = {}
    BY DEF Replaced
  <2>1. A[nd][nl] = dst /\ dst # None
    BY <1>4, <1>10, <1>12
  <2> QED BY <2>1, <1>16
<1> QED BY <1>22, <1>23 DEF A, B

LEMMA NewIs ==
  Tree!New = {i \in Inodes : inodes[i].kind = "free" /\ inodes'[i].kind # "free"}
<1>1. \A i \in Inodes : KindMap(inodes)[i] = inodes[i].kind /\ KindMap(inodes)'[i] = inodes'[i].kind
  BY DEF KindMap
<1> QED BY <1>1 DEF Tree!New

LEMMA ChangedIs ==
  Tree!Changed = {d \in Inodes : NameMap(inodes')[d] # NameMap(inodes)[d]}
BY DEF Tree!Changed, NameMap

LEMMA NoneNewTree ==
  ASSUME NoneNew(inodes, inodes')
  PROVE  Tree!New = {}
BY NewIs DEF NoneNew

LEMMA UseTree ==
  ASSUME Shape(inodes), Shape(inodes'), UseStep(inodes, inodes')
  PROVE  Tree!Use
<1>1. \A d \in Tree!Changed : KindMap(inodes)'[d] = "free"
  <2> SUFFICES ASSUME NEW d \in Tree!Changed PROVE KindMap(inodes)'[d] = "free"
    OBVIOUS
  <2>1. d \in Inodes /\ NameMap(inodes')[d] # NameMap(inodes)[d]
    BY ChangedIs
  <2>2. ~SameNames(inodes, inodes', d)
    BY <2>1, SameMap
  <2>3. inodes'[d].kind = "free"
    BY <2>1, <2>2 DEF UseStep
  <2> QED BY <2>1, <2>3 DEF KindMap
<1>2. \A i, j \in Tree!New : i = j
  BY NewIs DEF UseStep, OnlyNew
<1> QED BY <1>1, <1>2 DEF Tree!Use

LEMMA AddTree ==
  ASSUME Shape(inodes), Shape(inodes'), AddStep(inodes, inodes')
  PROVE  \E d \in Tree!Changed : \E n \in DOMAIN NameMap(inodes')[d] : Tree!Add(d, n, NameMap(inodes')[d][n])
<1>1. PICK d \in Inodes : \E n \in Names : \E i \in Inodes :
        /\ More(inodes, inodes', d, n, i) /\ IsDir(inodes, d) /\ n \notin NamesIn(inodes, d)
        /\ \/ inodes[i].kind = "free" /\ inodes'[i].kind # "free" /\ OnlyNew(inodes, inodes', i)
           \/ inodes[i].kind # "free" /\ ~IsDir(inodes, i) /\ NoneNew(inodes, inodes')
  BY DEF AddStep
<1>2. PICK n \in Names : \E i \in Inodes :
        /\ More(inodes, inodes', d, n, i) /\ IsDir(inodes, d) /\ n \notin NamesIn(inodes, d)
        /\ \/ inodes[i].kind = "free" /\ inodes'[i].kind # "free" /\ OnlyNew(inodes, inodes', i)
           \/ inodes[i].kind # "free" /\ ~IsDir(inodes, i) /\ NoneNew(inodes, inodes')
  BY <1>1
<1>3. PICK i \in Inodes :
        /\ More(inodes, inodes', d, n, i) /\ IsDir(inodes, d) /\ n \notin NamesIn(inodes, d)
        /\ \/ inodes[i].kind = "free" /\ inodes'[i].kind # "free" /\ OnlyNew(inodes, inodes', i)
           \/ inodes[i].kind # "free" /\ ~IsDir(inodes, i) /\ NoneNew(inodes, inodes')
  BY <1>2
<1> DEFINE A == NameMap(inodes)
           B == NameMap(inodes')
<1>4. Named1(A, B, d, n, i)
  BY <1>3, AddMaps
<1>5. d \in Tree!Changed
  BY <1>4, ChangedIs DEF Named1
<1>6. n \in DOMAIN B[d] /\ B[d][n] = i
  BY <1>4 DEF Named1
<1>7. Tree!New = {i} \/ (Tree!New = {} /\ KindMap(inodes)[i] # "dir")
  <2>1. CASE inodes[i].kind = "free" /\ inodes'[i].kind # "free" /\ OnlyNew(inodes, inodes', i)
    BY <2>1, NewIs DEF OnlyNew
  <2>2. CASE inodes[i].kind # "free" /\ ~IsDir(inodes, i) /\ NoneNew(inodes, inodes')
    <3>1. KindMap(inodes)[i] # "dir"
      BY <2>2 DEF KindMap, IsDir
    <3> QED BY <2>2, <3>1, NoneNewTree
  <2> QED BY <1>3, <2>1, <2>2
<1>8. KindMap(inodes)[d] = "dir"
  BY <1>3 DEF KindMap, IsDir
<1>9. n \notin DOMAIN A[d] /\ B = [A EXCEPT ![d] = Tree!With(@, n, i)]
  BY <1>4 DEF Named1
<1>10. NameMap(inodes)' = B
  BY DEF NameMap
<1> HIDE DEF A, B
<1>11. Tree!Add(d, n, i)
  BY <1>7, <1>8, <1>9, <1>10 DEF Tree!Add, A
<1> QED BY <1>5, <1>6, <1>11 DEF B

LEMMA UnlinkTree ==
  ASSUME Shape(inodes), Shape(inodes'), UnlinkStep(inodes, inodes')
  PROVE  \E d \in Tree!Changed : \E n \in DOMAIN NameMap(inodes)[d] \ DOMAIN NameMap(inodes')[d] : Tree!Unlink(d, n)
<1>1. PICK d \in Inodes : \E n \in Names : \E i \in Inodes :
        Has(inodes, d, n, i) /\ Less(inodes, inodes', d, n, i) /\ inodes[i].dents = <<>> /\ NoneNew(inodes, inodes')
  BY DEF UnlinkStep
<1>2. PICK n \in Names : \E i \in Inodes :
        Has(inodes, d, n, i) /\ Less(inodes, inodes', d, n, i) /\ inodes[i].dents = <<>> /\ NoneNew(inodes, inodes')
  BY <1>1
<1>3. PICK i \in Inodes :
        Has(inodes, d, n, i) /\ Less(inodes, inodes', d, n, i) /\ inodes[i].dents = <<>> /\ NoneNew(inodes, inodes')
  BY <1>2
<1> DEFINE A == NameMap(inodes)
           B == NameMap(inodes')
<1>4. Unnamed(A, B, d, n, i)
  BY <1>3, UnlinkMaps
<1>5. d \in Tree!Changed
  BY <1>4, ChangedIs DEF Unnamed
<1>6. n \in DOMAIN A[d] \ DOMAIN B[d] /\ A[d][n] = i /\ DOMAIN A[i] = {} /\ B = [A EXCEPT ![d] = Tree!Without(@, n)]
  BY <1>4 DEF Unnamed
<1>7. Tree!New = {}
  BY <1>3, NoneNewTree
<1>8. NameMap(inodes)' = B
  BY DEF NameMap
<1> HIDE DEF A, B
<1>9. Tree!Unlink(d, n)
  BY <1>6, <1>7, <1>8 DEF Tree!Unlink, A
<1> QED BY <1>5, <1>6, <1>9 DEF A, B

LEMMA MoveTree ==
  ASSUME Shape(inodes), Shape(inodes'), MoveStep(inodes, inodes')
  PROVE  \E d \in Tree!Changed : \E n \in DOMAIN NameMap(inodes)[d] \ DOMAIN NameMap(inodes')[d] :
           \E e \in Tree!Changed : \E m \in DOMAIN NameMap(inodes')[e] : Tree!Move(d, n, e, m)
<1> DEFINE MoveIs(od, ol, nd, nl, src, dst) ==
             /\ MayMove(inodes, od, ol, nd, nl, src, dst) /\ Moved(inodes, inodes', od, ol, nd, nl, src, dst)
             /\ NoneNew(inodes, inodes') /\ (dst # None => IsDir(inodes, dst) = IsDir(inodes, src))
<1>1. \E od \in Inodes : \E ol \in Names : \E nd \in Inodes : \E nl \in Names :
        \E src \in Inodes : \E dst \in Inodes \cup {None} : MoveIs(od, ol, nd, nl, src, dst)
  BY DEF MoveStep
<1> HIDE DEF MoveIs
<1> SUFFICES ASSUME NEW d \in Inodes, NEW n \in Names, NEW e \in Inodes, NEW m \in Names, NEW i \in Inodes,
                    NEW o \in Inodes \cup {None}, MoveIs(d, n, e, m, i, o)
             PROVE  /\ d \in Tree!Changed /\ n \in DOMAIN NameMap(inodes)[d] \ DOMAIN NameMap(inodes')[d]
                    /\ e \in Tree!Changed /\ m \in DOMAIN NameMap(inodes')[e] /\ Tree!Move(d, n, e, m)
  BY <1>1
<1> DEFINE A == NameMap(inodes)
           B == NameMap(inodes')
           K == KindMap(inodes)
<1>2. Carried(A, B, d, n, e, m, i) /\ Replaced(inodes, A, e, m, i) /\ IsDir(inodes, e) /\ NoneNew(inodes, inodes')
  <2>1. /\ MayMove(inodes, d, n, e, m, i, o) /\ Moved(inodes, inodes', d, n, e, m, i, o)
        /\ NoneNew(inodes, inodes') /\ (o # None => IsDir(inodes, o) = IsDir(inodes, i))
    BY DEF MoveIs
  <2>2. Carried(A, B, d, n, e, m, i) /\ Replaced(inodes, A, e, m, i)
    BY <2>1, MoveMaps
  <2> QED BY <2>1, <2>2 DEF MayMove
<1>3. d \in Tree!Changed /\ e \in Tree!Changed
  BY <1>2, ChangedIs DEF Carried
<1>4. Tree!New = {}
  BY <1>2, NoneNewTree
<1>5. NameMap(inodes)' = B
  BY DEF NameMap
<1>6. \A x \in Inodes : K[x] = "dir" <=> IsDir(inodes, x)
  BY DEF KindMap, IsDir
<1> HIDE DEF A, B, K
<1>7. /\ n \in DOMAIN A[d] \ DOMAIN B[d] /\ A[d][n] = i /\ m \in DOMAIN B[e] /\ <<d, n>> # <<e, m>>
      /\ B = LET taken == [A EXCEPT ![d] = Tree!Without(@, n)] IN [taken EXCEPT ![e] = Tree!With(@, m, A[d][n])]
  BY <1>2 DEF Carried
<1>8. K[e] = "dir"
  BY <1>2, <1>6
<1>9. m \in DOMAIN A[e] => (K[A[e][m]] = "dir") = (K[A[d][n]] = "dir") /\ DOMAIN A[A[e][m]] = {}
  <2> SUFFICES ASSUME m \in DOMAIN A[e]
               PROVE  (K[A[e][m]] = "dir") = (K[A[d][n]] = "dir") /\ DOMAIN A[A[e][m]] = {}
    OBVIOUS
  <2>1. IsDir(inodes, A[e][m]) = IsDir(inodes, i) /\ A[e][m] \in Inodes /\ DOMAIN A[A[e][m]] = {}
    BY <1>2 DEF Replaced
  <2> QED BY <2>1, <1>6, <1>7
<1>10. Tree!Move(d, n, e, m)
  BY <1>4, <1>5, <1>7, <1>8, <1>9 DEF Tree!Move, A, K
<1> QED BY <1>3, <1>7, <1>10 DEF A, B

LEMMA StepTree ==
  ASSUME MapsOK, MapsOK', Step(inodes, inodes')
  PROVE  Tree!Next
<1>1. Shape(inodes) /\ Shape(inodes') /\ Tree!TypeOK'
  BY DEF MapsOK
<1>2. Tree!Kept
  BY KeptStep DEF Step
<1>3. NameMap(inodes)' = NameMap(inodes')
  BY DEF NameMap
<1>4. UseStep(inodes, inodes') => Tree!Use
  BY <1>1, UseTree
<1>5. AddStep(inodes, inodes') =>
        \E d \in Tree!Changed : \E n \in DOMAIN NameMap(inodes)'[d] : Tree!Add(d, n, NameMap(inodes)'[d][n])
  BY <1>1, <1>3, AddTree
<1>6. UnlinkStep(inodes, inodes') =>
        \E d \in Tree!Changed : \E n \in DOMAIN NameMap(inodes)[d] \ DOMAIN NameMap(inodes)'[d] : Tree!Unlink(d, n)
  BY <1>1, <1>3, UnlinkTree
<1>7. MoveStep(inodes, inodes') =>
        \E d \in Tree!Changed : \E n \in DOMAIN NameMap(inodes)[d] \ DOMAIN NameMap(inodes)'[d] :
          \E e \in Tree!Changed : \E m \in DOMAIN NameMap(inodes)'[e] : Tree!Move(d, n, e, m)
  BY <1>1, <1>3, MoveTree
<1>8. UseStep(inodes, inodes') \/ AddStep(inodes, inodes') \/ UnlinkStep(inodes, inodes') \/ MoveStep(inodes, inodes')
  BY DEF Step
<1> QED BY <1>1, <1>2, <1>4, <1>5, <1>6, <1>7, <1>8 DEF Tree!Next

LEMMA InitTree ==
  ASSUME FsInit
  PROVE  Tree!Init
<1>1. FsInv /\ OnlyRoot(inodes) /\ cwd = [p \in Procs |-> IF p \in {Min(Procs)} THEN Root ELSE None]
      /\ files = [f \in Files |-> Closed]
  BY InitInv DEF FsInit, OnlyRoot, RootNode
<1>2. MapsOK /\ Shape(inodes) /\ inodes \in Table
  BY <1>1, MapsRight, Now, StateIs
<1>3. \A i \in Inodes : inodes[i].dents = <<>> /\ inodes[i].kind = (IF i = Root THEN "dir" ELSE "free")
  BY <1>1, RootIs, FreeIs DEF OnlyRoot
<1>4. KindMap(inodes) = [i \in Inodes |-> IF i = Root THEN "dir" ELSE "free"]
  BY <1>3 DEF KindMap
<1>5. ASSUME NEW d \in Inodes PROVE NameMap(inodes)[d] = Tree!Empty
  <2>1. Entries(inodes, d) = {}
    BY <1>2, <1>3, EntriesAre
  <2>2. TableOf(inodes, d, {}, Tree!Empty)
    BY <2>1 DEF TableOf, Tree!Empty, Has
  <2> QED BY <1>2, <2>2, DirMapIs
<1>6. NameMap(inodes) = [d \in Inodes |-> Tree!Empty]
  <2> DEFINE A == NameMap(inodes)
  <2>1. A = [d \in Inodes |-> A[d]]
    BY DEF NameMap
  <2> HIDE DEF A
  <2>2. \A d \in Inodes : A[d] = Tree!Empty
    BY <1>5 DEF A
  <2> QED BY <2>1, <2>2 DEF A
<1>7. UserMap \in [Inodes -> Nat]
  BY <1>2 DEF MapsOK, Tree!TypeOK
<1>8. ASSUME NEW i \in Inodes \ {Root} PROVE UserMap[i] = 0
  <2>1. KindMap(inodes)[i] = "free"
    BY <1>4
  <2> QED BY <1>2, <2>1 DEF MapsOK, NodesOK
<1> QED BY <1>4, <1>6, <1>7, <1>8 DEF Tree!Init

\* The names are those of a Unix file system: one call makes, takes or moves one,
\* and an inode is freed when it has no names and no users, no earlier and no
\* later (inode_free and iput, fs.c:182-202).
THEOREM FsIsTree == FsSpec => ImplementsTree
<1>1. FsInit => Tree!Init
  BY InitTree
<1>2. FsInv /\ FsInv' /\ [FsNext]_fsVars => [Tree!Next]_(Tree!treeVars)
  <2>1. ASSUME FsInv, FsInv', FsNext PROVE Tree!Next
    <3>1. MapsOK /\ MapsOK'
      BY <2>1, MapsAlways, MapsNext
    <3> QED BY <2>1, <3>1, NextInv, StepTree
  <2>2. ASSUME UNCHANGED fsVars PROVE UNCHANGED Tree!treeVars
    BY <2>2 DEF fsVars, Tree!treeVars, KindMap, NameMap, UserMap, Used
  <2> QED BY <2>1, <2>2
<1> QED BY <1>1, <1>2, AlwaysInv, PTL DEF FsSpec, ImplementsTree, Tree!Spec

=============================================================================
