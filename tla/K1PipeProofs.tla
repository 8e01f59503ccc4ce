---------------------------- MODULE K1PipeProofs ----------------------------
(***************************************************************************)
(* The pipes, descriptors and poll of K1Pipe, for every number of          *)
(* processes, descriptors, files and pipes: the counts of files and of the *)
(* ends of pipes are exact, no wakeup of a pipe is lost, a pipe outlives   *)
(* the calls blocked on it, a sleeping poller misses nothing but a ring    *)
(* that filled, and what K1Proc's proofs keep of the processes holds with  *)
(* the calls on descriptors among theirs.                                  *)
(***************************************************************************)
EXTENDS K1WakeProofs, K1Pipe, FiniteSetTheorems, NaturalsInduction

(* ---- sets and counts ---- *)

\* Min of a set of naturals is in it.
LEMMA MinIn ==
  ASSUME NEW S \in SUBSET Nat, S # {}
  PROVE  Min(S) \in S /\ \A y \in S : Min(S) <= y
<1> DEFINE R == OpToRel(<, Nat)
<1>1. \A x, y \in Nat : x < y => <<x, y>> \in R
  BY Zenon DEF OpToRel
<1>2. IsWellFoundedOn(R, Nat)
  BY NatLessThanWellFounded, Zenon
<1> HIDE DEF R
<1>3. PICK x \in S : \A y \in S : ~ (<<y, x>> \in R)
  BY <1>2, WFMin
<1>4. S \subseteq Nat
  OBVIOUS
<1>5. \A y \in S : ~ (y < x)
  BY <1>1, <1>4, <1>3, Zenon
<1>6. \A y \in S : x <= y
  BY <1>5, <1>4
<1> QED
  BY <1>6 DEF Min

\* The processes, descriptors, files and pipes are finitely many numbers.
LEMMA PipeSets ==
  /\ IsFiniteSet(Pids) /\ IsFiniteSet(FDs) /\ IsFiniteSet(Files)
  /\ Pids \subseteq Nat /\ FDs \subseteq Nat /\ Files \subseteq Nat \ {0} /\ Pipes \subseteq Nat \ {0}
  /\ PipeSize \in Nat \ {0}
  /\ 1..MaxFiles = Files /\ 0..MaxFiles = Files \cup {0} /\ 0..MaxPipes = Pipes \cup {0}
<1>1. MaxPid \in Int /\ MaxFd \in Nat /\ MaxFiles \in Nat /\ MaxPipes \in Nat /\ PipeSize \in Nat \ {0}
  BY MaxPidAssumption, PipeAssumption
<1>2. IsFiniteSet(1..MaxPid) /\ IsFiniteSet(0..MaxFd - 1) /\ IsFiniteSet(1..MaxFiles)
  BY <1>1, FS_Interval
<1>3. 0..MaxFiles = Files \cup {0} /\ 0..MaxPipes = Pipes \cup {0}
  BY <1>1 DEF Files, Pipes
<1> QED
  BY <1>1, <1>2, <1>3 DEF Pids, FDs, Files, Pipes

\* A finite set and its part: what is left when the part is taken out.
LEMMA TakeOut ==
  ASSUME NEW S, NEW T, IsFiniteSet(S), T \subseteq S
  PROVE  /\ IsFiniteSet(T) /\ IsFiniteSet(S \ T)
         /\ Cardinality(S \ T) = Cardinality(S) - Cardinality(T)
         /\ Cardinality(S) \in Nat /\ Cardinality(T) \in Nat /\ Cardinality(T) <= Cardinality(S)
<1>1. S \cap T = T /\ T \in SUBSET S
  OBVIOUS
<1>2. IsFiniteSet(T) /\ Cardinality(T) <= Cardinality(S)
  BY <1>1, FS_Subset
<1>3. IsFiniteSet(S \ T) /\ Cardinality(S \ T) = Cardinality(S) - Cardinality(S \cap T)
  BY FS_Difference
<1> QED
  BY <1>1, <1>2, <1>3, FS_CardinalityType

\* And with something more put in.
LEMMA PutIn ==
  ASSUME NEW S, NEW x, IsFiniteSet(S), x \notin S
  PROVE  /\ IsFiniteSet(S \cup {x}) /\ Cardinality(S \cup {x}) = Cardinality(S) + 1
         /\ Cardinality(S) \in Nat
BY FS_AddElement, FS_CardinalityType

\* How many descriptors of a row of descriptors hold file f.
InRow(row, f) == {d \in FDs : row[d] = f}
CntOf(row, f) == Cardinality(InRow(row, f))

\* Such a count is a number.
LEMMA CntType ==
  ASSUME NEW row, NEW f
  PROVE  IsFiniteSet(InRow(row, f)) /\ CntOf(row, f) \in Nat
<1>1. InRow(row, f) \subseteq FDs
  BY DEF InRow
<1> QED
  BY <1>1, PipeSets, FS_Subset, FS_CardinalityType DEF CntOf

\* Closing the descriptors D of a row.
RowCut(row, row2, D) == \A d \in FDs : row2[d] = IF d \in D THEN 0 ELSE row[d]

LEMMA RowDrop ==
  ASSUME NEW row, NEW row2, NEW D \in SUBSET FDs, NEW f, f # 0, RowCut(row, row2, D)
  PROVE  /\ CntOf(row2, f) = CntOf(row, f) - Cardinality({d \in D : row[d] = f})
         /\ Cardinality({d \in D : row[d] = f}) \in Nat
         /\ Cardinality({d \in D : row[d] = f}) <= CntOf(row, f)
<1> DEFINE out == {d \in D : row[d] = f}
<1>1. out \subseteq InRow(row, f)
  BY DEF InRow
<1>2. InRow(row2, f) = InRow(row, f) \ out
  BY DEF InRow, RowCut
<1> QED
  BY <1>1, <1>2, CntType, TakeOut DEF CntOf

\* Opening a closed descriptor of a row.
RowSet(row, row2, e, g) == \A d \in FDs : row2[d] = IF d = e THEN g ELSE row[d]

LEMMA RowOpen ==
  ASSUME NEW row, NEW row2, NEW e \in FDs, NEW g, g # 0, row[e] = 0, NEW f, f # 0,
         RowSet(row, row2, e, g)
  PROVE  CntOf(row2, f) = IF f = g THEN CntOf(row, f) + 1 ELSE CntOf(row, f)
<1>1. CASE f = g
  <2>1. InRow(row2, f) = InRow(row, f) \cup {e} /\ e \notin InRow(row, f)
    BY <1>1 DEF InRow, RowSet
  <2> QED
    BY <1>1, <2>1, CntType, PutIn DEF CntOf
<1>2. CASE f # g
  <2>1. InRow(row2, f) = InRow(row, f)
    BY <1>2 DEF InRow, RowSet
  <2> QED
    BY <1>2, <2>1 DEF CntOf
<1> QED
  BY <1>1, <1>2

\* A row without f.
LEMMA RowNone ==
  ASSUME NEW row, NEW f, \A d \in FDs : row[d] # f
  PROVE  CntOf(row, f) = 0
<1>1. InRow(row, f) = {}
  BY DEF InRow
<1> QED
  BY <1>1, FS_EmptySet DEF CntOf

(* ---- the files ---- *)

\* The descriptors, of any process, that hold file f in the tables t.
HoldersIn(t, f) == {x \in Pids \X FDs : t[x[1]][x[2]] = f}
Holders(f) == HoldersIn(fd, f)

\* CountsExact's first half: what a file's count counts.
HeldCounts == \A f \in Files : refs[f] = Cardinality(Holders(f))

\* An open file has a pipe.
FilesOpen == \A f \in Files : refs[f] = 0 <=> fpipe[f] = 0

ReadEnds(i) == {f \in Files : fpipe[f] = i /\ wend[f] # 1}
WriteEnds(i) == {f \in Files : fpipe[f] = i /\ wend[f] # 0}
EndCounts == \A i \in Pipes : /\ readers[i] = Cardinality(ReadEnds(i))
                              /\ writers[i] = Cardinality(WriteEnds(i))

FdTypes == /\ fd \in [Pids -> [FDs -> Files \cup {0}]]
           /\ cloexec \in [Pids -> [FDs -> BOOLEAN]]
EndTypes == /\ fpipe \in [Files -> Pipes \cup {0}] /\ wend \in [Files -> 0..2]
            /\ readers \in [Pipes -> Nat] /\ writers \in [Pipes -> Nat]
            /\ level \in [Pipes -> 0..PipeSize]
            /\ fifo \in Pipes \cup {0}

FileInv == /\ FdTypes /\ refs \in [Files -> Nat] /\ HeldCounts
           /\ EndTypes /\ EndCounts /\ FilesOpen

\* What a run checks is part of it.
LEMMA FileInvGives == FileInv => PipeTypeOK /\ CountsExact
BY PipeSets DEF FileInv, FdTypes, EndTypes, PipeTypeOK, CountsExact, HeldCounts, Holders, HoldersIn,
   EndCounts, ReadEnds, WriteEnds

\* Who holds a file: a process q, and the others.
LEMMA HoldersSplit ==
  ASSUME NEW t, NEW q \in Pids, NEW f
  PROVE  /\ IsFiniteSet(HoldersIn(t, f))
         /\ Cardinality(HoldersIn(t, f)) =
              Cardinality({x \in HoldersIn(t, f) : x[1] # q}) + CntOf(t[q], f)
         /\ Cardinality(HoldersIn(t, f)) \in Nat /\ CntOf(t[q], f) \in Nat
         /\ CntOf(t[q], f) <= Cardinality(HoldersIn(t, f))
<1> DEFINE row == InRow(t[q], f)
           own == {q} \X row
<1>1. IsFiniteSet(Pids \X FDs) /\ HoldersIn(t, f) \in SUBSET (Pids \X FDs)
  BY PipeSets, FS_Product DEF HoldersIn
<1>2. IsFiniteSet(HoldersIn(t, f))
  BY <1>1, FS_Subset
<1>3. own \subseteq HoldersIn(t, f) /\ HoldersIn(t, f) \ own = {x \in HoldersIn(t, f) : x[1] # q}
  BY DEF HoldersIn, InRow
<1>4. IsFiniteSet(row) /\ Cardinality(row) = CntOf(t[q], f) /\ CntOf(t[q], f) \in Nat
  BY CntType DEF CntOf
<1> HIDE DEF row
<1>5. IsFiniteSet({q}) /\ Cardinality({q}) = 1
  BY FS_Singleton
<1>6. IsFiniteSet(own) /\ Cardinality(own) = 1 * Cardinality(row)
  BY <1>4, <1>5, FS_Product
<1> HIDE DEF own
<1>7. /\ Cardinality(HoldersIn(t, f) \ own) = Cardinality(HoldersIn(t, f)) - Cardinality(own)
      /\ Cardinality(HoldersIn(t, f)) \in Nat /\ Cardinality(own) <= Cardinality(HoldersIn(t, f))
  BY <1>2, <1>3, TakeOut
<1>8. Cardinality(own) = CntOf(t[q], f)
  BY <1>4, <1>6
<1>9. Cardinality({x \in HoldersIn(t, f) : x[1] # q}) = Cardinality(HoldersIn(t, f)) - CntOf(t[q], f)
  BY <1>3, <1>7, <1>8
<1> QED
  BY <1>2, <1>4, <1>7, <1>8, <1>9

\* When only q's row changes, only q's part of the count does.
LEMMA RowChange ==
  ASSUME NEW t, NEW u, NEW q \in Pids, \A p \in Pids \ {q} : u[p] = t[p], NEW f
  PROVE  Cardinality(HoldersIn(u, f)) = Cardinality(HoldersIn(t, f)) - CntOf(t[q], f) + CntOf(u[q], f)
<1>1. {x \in HoldersIn(u, f) : x[1] # q} = {x \in HoldersIn(t, f) : x[1] # q}
  BY DEF HoldersIn
<1>2. {x \in HoldersIn(t, f) : x[1] # q} \subseteq HoldersIn(t, f)
  OBVIOUS
<1>3. Cardinality({x \in HoldersIn(t, f) : x[1] # q}) \in Nat
  BY <1>2, HoldersSplit, TakeOut
<1> QED
  BY <1>1, <1>3, HoldersSplit

\* A file that a descriptor outside cur's D holds outlives the closing of D.
LEMMA HeldOutside ==
  ASSUME FileInv, cur \in Pids, NEW D \in SUBSET FDs,
         NEW p \in Pids, NEW e \in FDs, fd[p][e] # 0, p # cur \/ e \notin D
  PROVE  /\ fd[p][e] \in Files /\ fd[p][e] \notin Put(D)
         /\ RefsAfter(D)[fd[p][e]] \in Nat \ {0}
<1> DEFINE f == fd[p][e]
           out == {d \in D : fd[cur][d] = f}
           gone == {cur} \X out
<1>1. f \in Files
  BY DEF FileInv, FdTypes
<1>2. refs[f] = Cardinality(HoldersIn(fd, f)) /\ IsFiniteSet(HoldersIn(fd, f)) /\ refs[f] \in Nat
  BY <1>1, HoldersSplit DEF FileInv, HeldCounts, Holders
<1>3. IsFiniteSet(out)
  BY PipeSets, FS_Subset
<1>4. IsFiniteSet({cur}) /\ Cardinality({cur}) = 1
  BY FS_Singleton
<1>5. <<p, e>> \notin gone /\ <<p, e>> \in HoldersIn(fd, f) /\ gone \subseteq HoldersIn(fd, f)
  BY DEF HoldersIn
<1>6. RefsAfter(D)[f] = refs[f] - Cardinality(out)
  BY <1>1 DEF RefsAfter
<1> HIDE DEF out, f
<1>7. IsFiniteSet(gone) /\ Cardinality(gone) = 1 * Cardinality(out) /\ Cardinality(out) \in Nat
  BY <1>3, <1>4, FS_Product, FS_CardinalityType
<1> HIDE DEF gone
<1>8. /\ IsFiniteSet(gone \cup {<<p, e>>})
      /\ Cardinality(gone \cup {<<p, e>>}) = Cardinality(gone) + 1
  BY <1>5, <1>7, PutIn
<1>9. Cardinality(gone \cup {<<p, e>>}) <= Cardinality(HoldersIn(fd, f))
  BY <1>2, <1>5, TakeOut
<1>10. RefsAfter(D)[f] \in Nat \ {0}
  BY <1>2, <1>6, <1>7, <1>8, <1>9
<1> QED
  BY <1>1, <1>10 DEF Put, f

(* ---- the last reference ---- *)

\* What the last close does to the ends of the pipes.
LEMMA PutEndsOK ==
  ASSUME FileInv, NEW D \in SUBSET FDs, PutEnds(D)
  PROVE  EndTypes' /\ EndCounts'
<1> USE DEF FileInv, EndTypes
<1> DEFINE out == Put(D)
<1>0. out \subseteq Files
  BY DEF Put
<1>1. /\ fpipe' = [f \in Files |-> IF f \in out THEN 0 ELSE fpipe[f]]
      /\ wend' = [f \in Files |-> IF f \in out THEN 0 ELSE wend[f]]
      /\ readers' = [i \in Pipes |->
           readers[i] - Cardinality({f \in out : fpipe[f] = i /\ wend[f] # 1})]
      /\ writers' = [i \in Pipes |->
           writers[i] - Cardinality({f \in out : fpipe[f] = i /\ wend[f] # 0})]
  BY DEF PutEnds, ReadersAfter, WritersAfter
<1>2. /\ level' = [i \in Pipes |-> IF i \in Freed(D) THEN 0 ELSE level[i]]
      /\ fifo' = IF fifo \in Freed(D) THEN 0 ELSE fifo
  BY DEF PutEnds
<1> HIDE DEF out
<1>3. ASSUME NEW i \in Pipes
      PROVE  readers'[i] = Cardinality(ReadEnds(i)') /\ readers'[i] \in Nat
  <2> DEFINE gone == {f \in out : fpipe[f] = i /\ wend[f] # 1}
  <2>1. gone \subseteq ReadEnds(i) /\ ReadEnds(i) \in SUBSET Files
    BY <1>0 DEF ReadEnds
  <2>2. IsFiniteSet(ReadEnds(i))
    BY <2>1, PipeSets, FS_Subset
  <2>3. ReadEnds(i)' = ReadEnds(i) \ gone
    BY <1>0, <1>1, PipeSets DEF ReadEnds
  <2>4. readers'[i] = readers[i] - Cardinality(gone)
    BY <1>1
  <2>5. readers[i] = Cardinality(ReadEnds(i))
    BY DEF EndCounts
  <2> HIDE DEF gone
  <2>6. /\ Cardinality(ReadEnds(i) \ gone) = Cardinality(ReadEnds(i)) - Cardinality(gone)
        /\ Cardinality(ReadEnds(i)) \in Nat /\ Cardinality(gone) \in Nat
        /\ Cardinality(gone) <= Cardinality(ReadEnds(i))
    BY <2>1, <2>2, TakeOut
  <2> QED
    BY <2>3, <2>4, <2>5, <2>6
<1>4. ASSUME NEW i \in Pipes
      PROVE  writers'[i] = Cardinality(WriteEnds(i)') /\ writers'[i] \in Nat
  <2> DEFINE gone == {f \in out : fpipe[f] = i /\ wend[f] # 0}
  <2>1. gone \subseteq WriteEnds(i) /\ WriteEnds(i) \in SUBSET Files
    BY <1>0 DEF WriteEnds
  <2>2. IsFiniteSet(WriteEnds(i))
    BY <2>1, PipeSets, FS_Subset
  <2>3. WriteEnds(i)' = WriteEnds(i) \ gone
    BY <1>0, <1>1, PipeSets DEF WriteEnds
  <2>4. writers'[i] = writers[i] - Cardinality(gone)
    BY <1>1
  <2>5. writers[i] = Cardinality(WriteEnds(i))
    BY DEF EndCounts
  <2> HIDE DEF gone
  <2>6. /\ Cardinality(WriteEnds(i) \ gone) = Cardinality(WriteEnds(i)) - Cardinality(gone)
        /\ Cardinality(WriteEnds(i)) \in Nat /\ Cardinality(gone) \in Nat
        /\ Cardinality(gone) <= Cardinality(WriteEnds(i))
    BY <2>1, <2>2, TakeOut
  <2> QED
    BY <2>3, <2>4, <2>5, <2>6
<1>5. EndCounts'
  BY <1>3, <1>4 DEF EndCounts
<1>6. readers' \in [Pipes -> Nat]
  BY <1>1, <1>3
<1>7. writers' \in [Pipes -> Nat]
  BY <1>1, <1>4
<1>8. fpipe' \in [Files -> Pipes \cup {0}] /\ wend' \in [Files -> 0..2]
  BY <1>1
<1>9. level' \in [Pipes -> 0..PipeSize] /\ fifo' \in Pipes \cup {0}
  BY <1>2, PipeSets
<1> QED
  BY <1>5, <1>6, <1>7, <1>8, <1>9

(* ---- what a call does to the files ---- *)

\* The descriptors of the others are left alone, and so are the pipes of the
\* files they hold.
RowsKept == \A p \in Pids \ {cur} : fd'[p] = fd[p]
EndsKept == \A p \in Pids \ {cur} : \A d \in FDs :
  fd[p][d] # 0 => fpipe'[fd[p][d]] = fpipe[fd[p][d]]

\* Who sleeps on on a pipe has missed nothing: the pipe holds what it held and
\* has the ends it had.
Announced ==
  \A p \in Pids \ {cur} : \A i \in Pipes : state'[p] = "sleep" /\ chan[p] = PipeChan(i) =>
    /\ level'[i] = level[i]
    /\ readers[i] > 0 => readers'[i] > 0
    /\ writers[i] > 0 => writers'[i] > 0

\* The counts of references follow the row of the running process.
LEMMA RefsFollow ==
  ASSUME FileInv, NEW q \in Pids, \A p \in Pids \ {q} : fd'[p] = fd[p],
         refs' = [f \in Files |-> refs'[f]],
         \A f \in Files : refs'[f] = refs[f] - CntOf(fd[q], f) + CntOf(fd'[q], f)
  PROVE  HeldCounts' /\ refs' \in [Files -> Nat]
<1>1. ASSUME NEW f \in Files
      PROVE  refs'[f] = Cardinality(HoldersIn(fd', f)) /\ refs'[f] \in Nat
  <2>1. refs[f] = Cardinality(HoldersIn(fd, f))
    BY DEF FileInv, HeldCounts, Holders
  <2>2. Cardinality(HoldersIn(fd', f)) =
          Cardinality(HoldersIn(fd, f)) - CntOf(fd[q], f) + CntOf(fd'[q], f)
    BY RowChange
  <2>3. Cardinality(HoldersIn(fd', f)) \in Nat
    BY HoldersSplit
  <2> QED
    BY <2>1, <2>2, <2>3
<1> QED
  BY <1>1 DEF HeldCounts, Holders

\* Closing descriptors of the running process.
LEMMA DropOK ==
  ASSUME FileInv, cur \in Pids, NEW D \in SUBSET FDs, FdTypes', RowsKept,
         RowCut(fd[cur], fd'[cur], D),
         refs' = RefsAfter(D), PutEnds(D)
  PROVE  FileInv' /\ EndsKept
<1>1. ASSUME NEW f \in Files
      PROVE  /\ refs'[f] = refs[f] - CntOf(fd[cur], f) + CntOf(fd'[cur], f)
             /\ refs[f] = 0 => refs'[f] = 0
  <2>1. f # 0
    BY PipeSets
  <2>2. /\ CntOf(fd'[cur], f) = CntOf(fd[cur], f) - Cardinality({d \in D : fd[cur][d] = f})
        /\ Cardinality({d \in D : fd[cur][d] = f}) \in Nat
        /\ Cardinality({d \in D : fd[cur][d] = f}) <= CntOf(fd[cur], f)
    BY <2>1, RowDrop
  <2>3. refs'[f] = refs[f] - Cardinality({d \in D : fd[cur][d] = f}) /\ refs[f] \in Nat
    BY DEF RefsAfter, FileInv
  <2>4. CntOf(fd[cur], f) \in Nat /\ CntOf(fd[cur], f) <= refs[f]
    BY HoldersSplit DEF FileInv, HeldCounts, Holders
  <2> QED
    BY <2>2, <2>3, <2>4
<1>2. refs' = [f \in Files |-> refs'[f]]
  BY DEF RefsAfter
<1>3. HeldCounts' /\ refs' \in [Files -> Nat]
  BY <1>1, <1>2, RefsFollow DEF RowsKept
<1>4. EndTypes' /\ EndCounts'
  BY PutEndsOK
<1>5. ASSUME NEW f \in Files PROVE refs'[f] = 0 <=> fpipe'[f] = 0
  <2>1. fpipe'[f] = IF f \in Put(D) THEN 0 ELSE fpipe[f]
    BY DEF PutEnds
  <2>2. f \in Put(D) <=> refs[f] > 0 /\ refs'[f] = 0
    BY DEF Put
  <2>3. refs[f] \in Nat /\ (refs[f] = 0 <=> fpipe[f] = 0)
    BY DEF FileInv, FilesOpen
  <2> QED
    BY <1>1, <2>1, <2>2, <2>3
<1>6. FilesOpen'
  BY <1>5 DEF FilesOpen
<1>7. EndsKept
  <2> SUFFICES ASSUME NEW p \in Pids \ {cur}, NEW d \in FDs, fd[p][d] # 0
               PROVE  fpipe'[fd[p][d]] = fpipe[fd[p][d]]
    BY DEF EndsKept
  <2>1. fd[p][d] \in Files /\ fd[p][d] \notin Put(D)
    BY HeldOutside
  <2> QED
    BY <2>1 DEF PutEnds
<1> QED
  BY <1>3, <1>4, <1>6, <1>7 DEF FileInv

\* The wakeups of the last closes only wake.
LEMMA PutWakes ==
  ASSUME NEW D, state \in [Pids -> States]
  PROVE  Wakes(state, WokenByPut(D))
BY DEF Wakes, WokenByPut, States

\* A sleeper that the last closes do not wake has lost no end of its pipe.
LEMMA PutAnnounces ==
  ASSUME FileInv, NEW D \in SUBSET FDs, PutEnds(D),
         \A p \in Pids \ {cur} : state'[p] = "sleep" => WokenByPut(D)[p] = "sleep"
  PROVE  Announced
<1> SUFFICES ASSUME NEW p \in Pids \ {cur}, NEW i \in Pipes,
                    state'[p] = "sleep", chan[p] = PipeChan(i)
             PROVE  /\ level'[i] = level[i]
                    /\ readers[i] > 0 => readers'[i] > 0
                    /\ writers[i] > 0 => writers'[i] > 0
  BY DEF Announced
<1>1. WokenByPut(D)[p] = "sleep"
  OBVIOUS
<1>2. \A f \in Put(D) : fpipe[f] # i
  <2> SUFFICES ASSUME NEW f \in Put(D), fpipe[f] = i PROVE FALSE
    OBVIOUS
  <2>1. Put(D) # {} /\ chan[p] = PipeChan(fpipe[f])
    OBVIOUS
  <2>2. WokenByPut(D)[p] = "run" \/ state[p] # "sleep"
    BY <2>1 DEF WokenByPut
  <2> QED
    BY <1>1, <2>2 DEF WokenByPut
<1>3. /\ {f \in Put(D) : fpipe[f] = i /\ wend[f] # 1} = {}
      /\ {f \in Put(D) : fpipe[f] = i /\ wend[f] # 0} = {}
  BY <1>2
<1>4. readers[i] \in Nat /\ writers[i] \in Nat
  BY DEF FileInv, EndTypes
<1>5. Cardinality({f \in Put(D) : fpipe[f] = i /\ wend[f] # 1}) = 0
  BY <1>3, FS_EmptySet
<1>6. Cardinality({f \in Put(D) : fpipe[f] = i /\ wend[f] # 0}) = 0
  BY <1>3, FS_EmptySet
<1>7. ReadersAfter(D)[i] = readers[i] /\ WritersAfter(D)[i] = writers[i]
  BY <1>4, <1>5, <1>6 DEF ReadersAfter, WritersAfter
<1>8. i \notin Freed(D)
  BY <1>7 DEF Freed, PipeFree
<1> QED
  BY <1>7, <1>8 DEF PutEnds

\* close.
LEMMA CloseOK ==
  ASSUME FileInv, cur \in Pids, Close
  PROVE  FileInv' /\ RowsKept /\ EndsKept /\ Announced
<1>1. PICK d \in OpenFds :
        /\ fd' = [fd EXCEPT ![cur][d] = 0]
        /\ cloexec' = [cloexec EXCEPT ![cur][d] = FALSE]
        /\ refs' = RefsAfter({d}) /\ PutEnds({d})
        /\ state' = WokenByPut({d})
  BY DEF Close
<1>2. {d} \in SUBSET FDs
  BY DEF OpenFds
<1>3. FdTypes' /\ RowsKept /\ RowCut(fd[cur], fd'[cur], {d})
  BY <1>1 DEF FileInv, FdTypes, RowsKept, RowCut
<1>4. FileInv' /\ EndsKept
  BY <1>1, <1>2, <1>3, DropOK
<1>5. Announced
  BY <1>1, <1>2, PutAnnounces
<1> QED
  BY <1>3, <1>4, <1>5

\* exec's and exit's closing.
LEMMA DropFdsOK ==
  ASSUME FileInv, cur \in Pids, NEW D \in SUBSET FDs, DropFds(D)
  PROVE  FileInv' /\ RowsKept /\ EndsKept
<1>1. FdTypes'
  BY DEF DropFds, FileInv, FdTypes
<1>2. RowsKept /\ RowCut(fd[cur], fd'[cur], D)
  BY DEF DropFds, FileInv, FdTypes, RowsKept, RowCut
<1> QED
  BY <1>1, <1>2, DropOK DEF DropFds

\* The pipes stay as they are.
LEMMA EndsSame ==
  ASSUME FileInv, UNCHANGED <<fpipe, wend, readers, writers, level, fifo>>
  PROVE  EndTypes' /\ EndCounts' /\ EndsKept /\ Announced
BY DEF FileInv, EndTypes, EndCounts, ReadEnds, WriteEnds, EndsKept, Announced

\* The least closed descriptor.
LEMMA FreeFd ==
  ASSUME FreeFds # {}
  PROVE  Min(FreeFds) \in FDs /\ fd[cur][Min(FreeFds)] = 0
<1>1. FreeFds \in SUBSET Nat
  BY PipeSets DEF FreeFds
<1>2. Min(FreeFds) \in FreeFds
  BY <1>1, MinIn
<1> QED
  BY <1>2 DEF FreeFds

\* A file that a descriptor holds is open.
LEMMA HeldRefs ==
  ASSUME FileInv, NEW p \in Pids, NEW d \in FDs, fd[p][d] # 0
  PROVE  /\ fd[p][d] \in Files /\ refs[fd[p][d]] # 0
         /\ PipeOf(p, d) \in Pipes /\ ~PipeFree(PipeOf(p, d))
<1> DEFINE f == fd[p][d]
<1>1. f \in Files
  BY DEF FileInv, FdTypes
<1>2. <<p, d>> \in HoldersIn(fd, f) /\ refs[f] = Cardinality(HoldersIn(fd, f))
  BY <1>1 DEF HoldersIn, FileInv, HeldCounts, Holders
<1>3. IsFiniteSet(HoldersIn(fd, f))
  BY HoldersSplit
<1>4. refs[f] # 0
  BY <1>2, <1>3, FS_EmptySet
<1>5. fpipe[f] \in Pipes
  BY <1>1, <1>4 DEF FileInv, FilesOpen, EndTypes
<1>6. f \in ReadEnds(fpipe[f]) \/ f \in WriteEnds(fpipe[f])
  BY <1>1 DEF ReadEnds, WriteEnds
<1>7. IsFiniteSet(ReadEnds(fpipe[f])) /\ IsFiniteSet(WriteEnds(fpipe[f]))
  <2>1. ReadEnds(fpipe[f]) \in SUBSET Files /\ WriteEnds(fpipe[f]) \in SUBSET Files
    BY DEF ReadEnds, WriteEnds
  <2> QED
    BY <2>1, PipeSets, FS_Subset
<1>8. /\ readers[fpipe[f]] = Cardinality(ReadEnds(fpipe[f]))
      /\ writers[fpipe[f]] = Cardinality(WriteEnds(fpipe[f]))
  BY <1>5 DEF FileInv, EndCounts
<1>9. readers[fpipe[f]] # 0 \/ writers[fpipe[f]] # 0
  BY <1>6, <1>7, <1>8, FS_EmptySet
<1> QED
  BY <1>1, <1>4, <1>5, <1>9 DEF PipeOf, PipeFree

\* dup: one more descriptor, one more reference.
LEMMA DupOK ==
  ASSUME FileInv, cur \in Pids, Dup
  PROVE  FileInv' /\ RowsKept /\ EndsKept /\ Announced
<1>1. PICK d \in OpenFds, ce \in CloseOnExec :
        /\ IF FreeFds = {} THEN UNCHANGED <<fd, cloexec, refs>>
           ELSE /\ fd' = [fd EXCEPT ![cur][Min(FreeFds)] = fd[cur][d]]
                /\ cloexec' = [cloexec EXCEPT ![cur][Min(FreeFds)] = ce]
                /\ refs' = [refs EXCEPT ![fd[cur][d]] = @ + 1]
        /\ UNCHANGED <<fpipe, wend, readers, writers, level, fifo>>
  BY DEF Dup
<1>2. EndTypes' /\ EndCounts' /\ EndsKept /\ Announced
  BY <1>1, EndsSame
<1>3. CASE FreeFds = {}
  <2>1. UNCHANGED <<fd, cloexec, refs, fpipe>>
    BY <1>1, <1>3
  <2> QED
    BY <1>2, <2>1 DEF FileInv, FdTypes, HeldCounts, Holders, HoldersIn, FilesOpen, RowsKept
<1>4. CASE FreeFds # {}
  <2> DEFINE e == Min(FreeFds)
             g == fd[cur][d]
  <2>1. e \in FDs /\ fd[cur][e] = 0
    BY <1>4, FreeFd
  <2>2. g \in Files /\ g # 0 /\ ce \in BOOLEAN
    BY PipeAssumption, PipeSets DEF OpenFds, FileInv, FdTypes
  <2> HIDE DEF e
  <2>3. /\ fd' = [fd EXCEPT ![cur][e] = g] /\ cloexec' = [cloexec EXCEPT ![cur][e] = ce]
        /\ refs' = [refs EXCEPT ![g] = @ + 1]
    BY <1>1, <1>4 DEF e
  <2> HIDE DEF g
  <2>4. FdTypes' /\ RowsKept /\ \A x \in FDs : fd'[cur][x] = IF x = e THEN g ELSE fd[cur][x]
    BY <2>1, <2>2, <2>3 DEF FileInv, FdTypes, RowsKept
  <2>5. ASSUME NEW f \in Files
        PROVE  refs'[f] = refs[f] - CntOf(fd[cur], f) + CntOf(fd'[cur], f)
    <3>1. CntOf(fd'[cur], f) = IF f = g THEN CntOf(fd[cur], f) + 1 ELSE CntOf(fd[cur], f)
      <4>1. f # 0
        BY PipeSets
      <4>2. RowSet(fd[cur], fd'[cur], e, g)
        BY <2>4 DEF RowSet
      <4> QED
        BY <2>1, <2>2, <4>1, <4>2, RowOpen
    <3>2. CntOf(fd[cur], f) \in Nat /\ refs[f] \in Nat
      BY CntType DEF FileInv
    <3>3. refs'[f] = IF f = g THEN refs[f] + 1 ELSE refs[f]
      BY <2>3 DEF FileInv
    <3> QED
      BY <3>1, <3>2, <3>3
  <2>6. refs' = [f \in Files |-> refs'[f]]
    BY <2>3 DEF FileInv
  <2>7. HeldCounts' /\ refs' \in [Files -> Nat]
    BY <2>4, <2>5, <2>6, RefsFollow DEF RowsKept
  <2>8. refs[g] # 0
    BY <2>2, HeldRefs DEF g, OpenFds
  <2>9. FilesOpen'
    <3>1. fpipe' = fpipe
      BY <1>1
    <3> QED
      BY <2>2, <2>3, <2>8, <3>1 DEF FileInv, FilesOpen
  <2> QED
    BY <1>2, <2>4, <2>7, <2>9 DEF FileInv
<1> QED
  BY <1>3, <1>4

\* What is left of a file when D closes.
LEMMA PutOpen ==
  ASSUME FileInv, cur \in Pids, NEW D \in SUBSET FDs, PutEnds(D), NEW f \in Files
  PROVE  /\ RefsAfter(D)[f] = refs[f] - Cardinality({d \in D : fd[cur][d] = f})
         /\ Cardinality({d \in D : fd[cur][d] = f}) \in Nat
         /\ RefsAfter(D)[f] \in Nat
         /\ RefsAfter(D)[f] = 0 <=> fpipe'[f] = 0
<1> DEFINE c == Cardinality({d \in D : fd[cur][d] = f})
           row2 == [d \in FDs |-> IF d \in D THEN 0 ELSE fd[cur][d]]
<1>1. f # 0
  BY PipeSets
<1>2. RowCut(fd[cur], row2, D)
  BY DEF RowCut
<1> HIDE DEF row2
<1>3. c \in Nat /\ c <= CntOf(fd[cur], f)
  BY <1>1, <1>2, RowDrop
<1>4. RefsAfter(D)[f] = refs[f] - c /\ refs[f] \in Nat
  BY DEF RefsAfter, FileInv
<1>5. CntOf(fd[cur], f) \in Nat /\ CntOf(fd[cur], f) <= refs[f]
  BY HoldersSplit DEF FileInv, HeldCounts, Holders
<1>6. fpipe'[f] = IF f \in Put(D) THEN 0 ELSE fpipe[f]
  BY DEF PutEnds
<1>7. f \in Put(D) <=> refs[f] > 0 /\ RefsAfter(D)[f] = 0
  BY DEF Put
<1>8. refs[f] = 0 <=> fpipe[f] = 0
  BY DEF FileInv, FilesOpen
<1> HIDE DEF c
<1>9. RefsAfter(D)[f] \in Nat
  BY <1>3, <1>4, <1>5
<1>10. RefsAfter(D)[f] = 0 <=> fpipe'[f] = 0
  BY <1>3, <1>4, <1>5, <1>6, <1>7, <1>8
<1> QED
  BY <1>3, <1>4, <1>9, <1>10 DEF c

\* The others' files keep their pipes.
LEMMA PutKeeps ==
  ASSUME FileInv, cur \in Pids, NEW D \in SUBSET FDs, PutEnds(D)
  PROVE  EndsKept
<1> SUFFICES ASSUME NEW p \in Pids \ {cur}, NEW d \in FDs, fd[p][d] # 0
             PROVE  fpipe'[fd[p][d]] = fpipe[fd[p][d]]
  BY DEF EndsKept
<1>1. fd[p][d] \in Files /\ fd[p][d] \notin Put(D)
  BY HeldOutside
<1> QED
  BY <1>1 DEF PutEnds

FilesFollow == FileInv' /\ RowsKept /\ EndsKept /\ Announced

\* dup2 and dup3: what was at the new descriptor closes, then it opens again.
LEMMA Dup3OK ==
  ASSUME FileInv, cur \in Pids, Dup3
  PROVE  FilesFollow
<1>1. PICK d \in OpenFds, ce \in CloseOnExec : \E e \in FDs \ {d} :
        LET old == {e} \cap OpenFds IN
        /\ refs' = [RefsAfter(old) EXCEPT ![fd[cur][d]] = @ + 1]
        /\ PutEnds(old)
        /\ fd' = [fd EXCEPT ![cur][e] = fd[cur][d]]
        /\ cloexec' = [cloexec EXCEPT ![cur][e] = ce]
        /\ state' = WokenByPut(old)
  BY DEF Dup3
<1>2. PICK e \in FDs \ {d} :
        LET old == {e} \cap OpenFds IN
        /\ refs' = [RefsAfter(old) EXCEPT ![fd[cur][d]] = @ + 1]
        /\ PutEnds(old)
        /\ fd' = [fd EXCEPT ![cur][e] = fd[cur][d]]
        /\ cloexec' = [cloexec EXCEPT ![cur][e] = ce]
        /\ state' = WokenByPut(old)
  BY <1>1
<1> DEFINE old == {e} \cap OpenFds
           g == fd[cur][d]
           mid == [x \in FDs |-> IF x \in old THEN 0 ELSE fd[cur][x]]
<1>3. old \in SUBSET FDs /\ d \notin old /\ d \in FDs /\ e \in FDs /\ fd[cur][d] # 0
  BY DEF OpenFds
<1>4. g \in Files /\ g # 0 /\ ce \in BOOLEAN
  BY PipeAssumption, PipeSets DEF OpenFds, FileInv, FdTypes
<1>5. g \notin Put(old) /\ RefsAfter(old)[g] \in Nat \ {0}
  BY <1>3, HeldOutside
<1>6. RowCut(fd[cur], mid, old)
  BY DEF RowCut
<1>7. mid[e] = 0
  BY <1>3 DEF OpenFds
<1>8. FdTypes' /\ RowsKept
  BY <1>2, <1>3, <1>4 DEF FileInv, FdTypes, RowsKept
<1>9. RowSet(mid, fd'[cur], e, g)
  BY <1>2, <1>3 DEF RowSet, FileInv, FdTypes
<1>10. refs' = [RefsAfter(old) EXCEPT ![g] = @ + 1] /\ PutEnds(old) /\ state' = WokenByPut(old)
  BY <1>2
<1> HIDE DEF mid, old, g
<1>11. ASSUME NEW f \in Files
       PROVE  /\ refs'[f] = refs[f] - CntOf(fd[cur], f) + CntOf(fd'[cur], f)
              /\ refs'[f] = 0 <=> fpipe'[f] = 0
  <2> DEFINE c == Cardinality({x \in old : fd[cur][x] = f})
  <2>1. f # 0
    BY PipeSets
  <2>2. CntOf(mid, f) = CntOf(fd[cur], f) - c
    BY <1>3, <1>6, <2>1, RowDrop
  <2>3. CntOf(fd'[cur], f) = IF f = g THEN CntOf(mid, f) + 1 ELSE CntOf(mid, f)
    BY <1>3, <1>4, <1>7, <1>9, <2>1, RowOpen
  <2>4. /\ RefsAfter(old)[f] = refs[f] - c /\ c \in Nat
        /\ RefsAfter(old)[f] \in Nat /\ (RefsAfter(old)[f] = 0 <=> fpipe'[f] = 0)
    BY <1>3, <1>10, PutOpen
  <2>5. refs'[f] = IF f = g THEN RefsAfter(old)[f] + 1 ELSE RefsAfter(old)[f]
    BY <1>10 DEF RefsAfter
  <2>6. refs[f] \in Nat /\ CntOf(fd[cur], f) \in Nat
    BY CntType DEF FileInv
  <2> HIDE DEF c
  <2>7. refs'[f] = refs[f] - CntOf(fd[cur], f) + CntOf(fd'[cur], f)
    BY <2>2, <2>3, <2>4, <2>5, <2>6
  <2>8. refs'[f] = 0 <=> fpipe'[f] = 0
    BY <1>5, <2>4, <2>5
  <2> QED
    BY <2>7, <2>8
<1>12. refs' = [f \in Files |-> refs'[f]]
  BY <1>10 DEF RefsAfter
<1>13. HeldCounts' /\ refs' \in [Files -> Nat]
  BY <1>8, <1>11, <1>12, RefsFollow DEF RowsKept
<1>14. EndTypes' /\ EndCounts' /\ EndsKept
  BY <1>3, <1>10, PutEndsOK, PutKeeps
<1>15. Announced
  BY <1>3, <1>10, PutAnnounces
<1>16. FilesOpen'
  BY <1>11 DEF FilesOpen
<1> QED
  BY <1>8, <1>13, <1>14, <1>15, <1>16 DEF FileInv, FilesFollow

\* A file that is not open is no end of a pipe.
LEMMA FreshFile ==
  ASSUME FileInv, NEW f \in Files, refs[f] = 0
  PROVE  \A j \in Pipes : f \notin ReadEnds(j) /\ f \notin WriteEnds(j)
<1>1. fpipe[f] = 0
  BY DEF FileInv, FilesOpen
<1> QED
  BY <1>1, PipeSets DEF ReadEnds, WriteEnds

\* The ends of a pipe are finitely many.
LEMMA EndSets ==
  ASSUME NEW j
  PROVE  IsFiniteSet(ReadEnds(j)) /\ IsFiniteSet(WriteEnds(j))
<1>1. ReadEnds(j) \in SUBSET Files /\ WriteEnds(j) \in SUBSET Files
  BY DEF ReadEnds, WriteEnds
<1> QED
  BY <1>1, PipeSets, FS_Subset

\* An end more: the counts of pipe i go up as f's direction says.
LEMMA OneEnd ==
  ASSUME FileInv, NEW f \in Files, refs[f] = 0, NEW i \in Pipes, NEW e \in 0..2,
         fpipe' = [fpipe EXCEPT ![f] = i], wend' = [wend EXCEPT ![f] = e],
         readers' = IF e # 1 THEN [readers EXCEPT ![i] = @ + 1] ELSE readers,
         writers' = IF e # 0 THEN [writers EXCEPT ![i] = @ + 1] ELSE writers
  PROVE  EndCounts'
<1> USE DEF FileInv, EndTypes
<1> SUFFICES ASSUME NEW j \in Pipes
             PROVE  /\ readers'[j] = Cardinality(ReadEnds(j)')
                    /\ writers'[j] = Cardinality(WriteEnds(j)')
  BY DEF EndCounts
<1>1. readers[j] = Cardinality(ReadEnds(j)) /\ writers[j] = Cardinality(WriteEnds(j))
  BY DEF EndCounts
<1>2. f \notin ReadEnds(j) /\ f \notin WriteEnds(j)
  BY FreshFile
<1>3. readers'[j] = Cardinality(ReadEnds(j)')
  <2>1. CASE j = i /\ e # 1
    <3>1. ReadEnds(j)' = ReadEnds(j) \cup {f}
      BY <2>1, PipeSets DEF ReadEnds
    <3>2. Cardinality(ReadEnds(j) \cup {f}) = Cardinality(ReadEnds(j)) + 1
      BY <1>2, EndSets, PutIn
    <3>3. readers'[j] = readers[j] + 1
      BY <2>1
    <3> QED
      BY <1>1, <3>1, <3>2, <3>3
  <2>2. CASE ~(j = i /\ e # 1)
    <3>1. ReadEnds(j)' = ReadEnds(j)
      BY <2>2, <1>2 DEF ReadEnds
    <3>2. readers'[j] = readers[j]
      BY <2>2
    <3> QED
      BY <1>1, <3>1, <3>2
  <2> QED
    BY <2>1, <2>2
<1>4. writers'[j] = Cardinality(WriteEnds(j)')
  <2>1. CASE j = i /\ e # 0
    <3>1. WriteEnds(j)' = WriteEnds(j) \cup {f}
      BY <2>1, PipeSets DEF WriteEnds
    <3>2. Cardinality(WriteEnds(j) \cup {f}) = Cardinality(WriteEnds(j)) + 1
      BY <1>2, EndSets, PutIn
    <3>3. writers'[j] = writers[j] + 1
      BY <2>1
    <3> QED
      BY <1>1, <3>1, <3>2, <3>3
  <2>2. CASE ~(j = i /\ e # 0)
    <3>1. WriteEnds(j)' = WriteEnds(j)
      BY <2>2, <1>2 DEF WriteEnds
    <3>2. writers'[j] = writers[j]
      BY <2>2
    <3> QED
      BY <1>1, <3>1, <3>2
  <2> QED
    BY <2>1, <2>2
<1> QED
  BY <1>3, <1>4

\* The least file not in use.
LEMMA FreeFile ==
  ASSUME NEW S \in SUBSET FreeFiles, S # {}
  PROVE  Min(S) \in S /\ Min(S) \in Files /\ refs[Min(S)] = 0
<1>1. S \in SUBSET Nat
  BY PipeSets DEF FreeFiles
<1>2. Min(S) \in S
  BY <1>1, MinIn
<1> QED
  BY <1>2 DEF FreeFiles

\* Nothing of the files changes, only who is awake.
LEMMA FilesStay ==
  ASSUME FileInv, UNCHANGED pipeVars
  PROVE  FilesFollow
<1>1. EndTypes' /\ EndCounts' /\ EndsKept /\ Announced
  BY EndsSame DEF pipeVars
<1> QED
  BY <1>1 DEF FilesFollow, pipeVars, FileInv, FdTypes, HeldCounts, Holders, HoldersIn, FilesOpen, RowsKept

\* open of the FIFO.
LEMMA OpenFifoOK ==
  ASSUME FileInv, cur \in Pids, OpenFifo
  PROVE  FilesFollow
<1> DEFINE f == Min(FreeFiles)
           e == Min(FreeFds)
<1>1. PICK end \in Fifo, ce \in CloseOnExec, i \in Pipes :
        /\ FreeFiles # {}
        /\ IF FreeFds = {}
           THEN UNCHANGED <<fd, cloexec, refs, fpipe, wend, readers, writers, fifo>>
           ELSE /\ fifo' = i
                /\ fd' = [fd EXCEPT ![cur][e] = f]
                /\ cloexec' = [cloexec EXCEPT ![cur][e] = ce]
                /\ refs' = [refs EXCEPT ![f] = 1]
                /\ fpipe' = [fpipe EXCEPT ![f] = i]
                /\ wend' = [wend EXCEPT ![f] = end]
                /\ readers' = IF end # 1 THEN [readers EXCEPT ![i] = @ + 1] ELSE readers
                /\ writers' = IF end # 0 THEN [writers EXCEPT ![i] = @ + 1] ELSE writers
        /\ level' = level
  BY DEF OpenFifo
<1>2. CASE FreeFds = {}
  BY <1>1, <1>2, FilesStay DEF pipeVars
<1>3. CASE FreeFds # {}
  <2>1. f \in Files /\ refs[f] = 0
    BY <1>1, FreeFile
  <2>2. e \in FDs /\ fd[cur][e] = 0
    BY <1>3, FreeFd
  <2>3. end \in 0..2 /\ ce \in BOOLEAN /\ f # 0
    BY <2>1, PipeAssumption, PipeSets
  <2> HIDE DEF e
  <2>4. /\ fifo' = i /\ level' = level
        /\ fd' = [fd EXCEPT ![cur][e] = f]
        /\ cloexec' = [cloexec EXCEPT ![cur][e] = ce]
    BY <1>1, <1>3 DEF e
  <2>5. /\ refs' = [refs EXCEPT ![f] = 1]
        /\ fpipe' = [fpipe EXCEPT ![f] = i]
        /\ wend' = [wend EXCEPT ![f] = end]
    BY <1>1, <1>3
  <2>6. /\ readers' = IF end # 1 THEN [readers EXCEPT ![i] = @ + 1] ELSE readers
        /\ writers' = IF end # 0 THEN [writers EXCEPT ![i] = @ + 1] ELSE writers
    BY <1>1, <1>3
  <2> HIDE DEF f
  <2>7. EndCounts'
    BY <2>1, <2>3, <2>5, <2>6, OneEnd
  <2>8. FdTypes' /\ RowsKept /\ RowSet(fd[cur], fd'[cur], e, f)
    BY <2>1, <2>2, <2>3, <2>4 DEF FileInv, FdTypes, RowsKept, RowSet
  <2>9. ASSUME NEW g \in Files
        PROVE  /\ refs'[g] = refs[g] - CntOf(fd[cur], g) + CntOf(fd'[cur], g)
               /\ refs'[g] = 0 <=> fpipe'[g] = 0
    <3>1. g # 0
      BY PipeSets
    <3>2. CntOf(fd'[cur], g) = IF g = f THEN CntOf(fd[cur], g) + 1 ELSE CntOf(fd[cur], g)
      BY <2>2, <2>3, <2>8, <3>1, RowOpen
    <3>3. CntOf(fd[cur], g) \in Nat /\ refs[g] \in Nat
      BY CntType DEF FileInv
    <3>4. refs'[g] = IF g = f THEN refs[g] + 1 ELSE refs[g]
      BY <2>1, <2>5 DEF FileInv
    <3>5. fpipe'[g] = IF g = f THEN i ELSE fpipe[g]
      BY <2>5 DEF FileInv, EndTypes
    <3>6. (refs[g] = 0 <=> fpipe[g] = 0) /\ i # 0
      BY PipeSets DEF FileInv, FilesOpen
    <3>7. refs'[g] = refs[g] - CntOf(fd[cur], g) + CntOf(fd'[cur], g)
      BY <3>2, <3>3, <3>4
    <3>8. refs'[g] = 0 <=> fpipe'[g] = 0
      BY <3>3, <3>4, <3>5, <3>6
    <3> QED
      BY <3>7, <3>8
  <2>10. refs' = [g \in Files |-> refs'[g]]
    BY <2>5 DEF FileInv
  <2>11. HeldCounts' /\ refs' \in [Files -> Nat]
    BY <2>8, <2>9, <2>10, RefsFollow DEF RowsKept
  <2>12. FilesOpen'
    BY <2>9 DEF FilesOpen
  <2>13. EndTypes'
    BY <2>1, <2>3, <2>4, <2>5, <2>6 DEF FileInv, EndTypes
  <2>14. EndsKept
    <3> SUFFICES ASSUME NEW p \in Pids \ {cur}, NEW d \in FDs, fd[p][d] # 0
                 PROVE  fpipe'[fd[p][d]] = fpipe[fd[p][d]]
      BY DEF EndsKept
    <3>1. fd[p][d] \in Files /\ refs[fd[p][d]] # 0
      BY HeldRefs
    <3>2. fd[p][d] # f
      BY <2>1, <3>1
    <3> QED
      BY <2>5, <3>1, <3>2 DEF FileInv, EndTypes
  <2>15. Announced
    BY <2>4, <2>6 DEF Announced, FileInv, EndTypes
  <2> QED
    BY <2>7, <2>8, <2>11, <2>12, <2>13, <2>14, <2>15 DEF FileInv, FilesFollow
<1> QED
  BY <1>2, <1>3

\* Two things and more: one is left when one is taken.
LEMMA AnotherOne ==
  ASSUME NEW S, NEW x \in S, IsFiniteSet(S), ~(Cardinality(S) < 2)
  PROVE  S \ {x} # {}
<1> SUFFICES ASSUME S \ {x} = {} PROVE FALSE
  OBVIOUS
<1>1. S = {x}
  OBVIOUS
<1>2. Cardinality(S) = 1
  BY <1>1, FS_Singleton
<1> QED
  BY <1>2

\* pipe2: a pipe of no ends gets one of each.
LEMMA PipeCallOK ==
  ASSUME FileInv, cur \in Pids, PipeCall
  PROVE  FilesFollow
<1> DEFINE x == Min(FreeFds)
           y == Min(FreeFds \ {x})
           r == Min(FreeFiles)
           w == Min(FreeFiles \ {r})
<1>1. PICK i \in Pipes, ce \in CloseOnExec :
        /\ PipeFree(i) /\ Cardinality(FreeFiles) > 1
        /\ IF Cardinality(FreeFds) < 2
           THEN UNCHANGED pipeVars
           ELSE /\ fd' = [fd EXCEPT ![cur][x] = r, ![cur][y] = w]
                /\ cloexec' = [cloexec EXCEPT ![cur][x] = ce, ![cur][y] = ce]
                /\ refs' = [refs EXCEPT ![r] = 1, ![w] = 1]
                /\ fpipe' = [fpipe EXCEPT ![r] = i, ![w] = i]
                /\ wend' = [wend EXCEPT ![r] = 0, ![w] = 1]
                /\ readers' = [readers EXCEPT ![i] = 1]
                /\ writers' = [writers EXCEPT ![i] = 1]
                /\ UNCHANGED <<level, fifo, state>>
  BY DEF PipeCall
<1>2. CASE Cardinality(FreeFds) < 2
  BY <1>1, <1>2, FilesStay
<1>3. CASE ~(Cardinality(FreeFds) < 2)
  <2>1. /\ IsFiniteSet(FreeFds) /\ IsFiniteSet(FreeFiles) /\ FreeFds # {} /\ FreeFiles # {}
        /\ Cardinality(FreeFiles) \in Nat
    <3>1. FreeFds \in SUBSET FDs /\ FreeFiles \in SUBSET Files
      BY DEF FreeFds, FreeFiles
    <3>2. IsFiniteSet(FreeFds) /\ IsFiniteSet(FreeFiles)
      BY <3>1, PipeSets, FS_Subset
    <3>3. ~(Cardinality(FreeFds) < 2) /\ Cardinality(FreeFiles) > 1
      BY <1>1, <1>3
    <3>4. FreeFds # {} /\ FreeFiles # {}
      BY ONLY <3>2, <3>3, FS_EmptySet
    <3> QED
      BY <3>2, <3>4, FS_CardinalityType
  <2>2. x \in FreeFds /\ x \in FDs /\ fd[cur][x] = 0
    <3>1. FreeFds \in SUBSET Nat
      BY PipeSets DEF FreeFds
    <3> QED
      BY <2>1, <3>1, MinIn DEF FreeFds
  <2>3. r \in FreeFiles /\ r \in Files /\ refs[r] = 0
    BY <2>1, FreeFile
  <2> HIDE DEF x, r
  <2>4. FreeFds \ {x} # {} /\ FreeFiles \ {r} # {}
    <3>1. ~(Cardinality(FreeFiles) < 2)
      BY <1>1, <2>1
    <3> QED
      BY <1>3, <2>1, <2>2, <2>3, <3>1, AnotherOne
  <2>5. y \in FDs /\ fd[cur][y] = 0 /\ y # x
    <3>1. FreeFds \ {x} \in SUBSET Nat
      BY PipeSets DEF FreeFds
    <3>2. y \in FreeFds \ {x}
      BY <2>4, <3>1, MinIn
    <3> QED
      BY <3>2 DEF FreeFds
  <2>6. w \in Files /\ refs[w] = 0 /\ w # r
    <3>1. FreeFiles \ {r} \in SUBSET FreeFiles
      OBVIOUS
    <3>2. w \in FreeFiles \ {r} /\ w \in Files /\ refs[w] = 0
      BY <2>4, <3>1, FreeFile
    <3> QED
      BY <3>2
  <2>7. ce \in BOOLEAN /\ r # 0 /\ w # 0 /\ i # 0
    BY <2>3, <2>6, PipeAssumption, PipeSets
  <2> HIDE DEF y, w
  <2>8. /\ fd' = [fd EXCEPT ![cur][x] = r, ![cur][y] = w]
        /\ cloexec' = [cloexec EXCEPT ![cur][x] = ce, ![cur][y] = ce]
        /\ refs' = [refs EXCEPT ![r] = 1, ![w] = 1]
        /\ UNCHANGED <<level, fifo, state>>
    BY <1>1, <1>3 DEF x, y, r, w
  <2>9. /\ fpipe' = [fpipe EXCEPT ![r] = i, ![w] = i]
        /\ wend' = [wend EXCEPT ![r] = 0, ![w] = 1]
        /\ readers' = [readers EXCEPT ![i] = 1]
        /\ writers' = [writers EXCEPT ![i] = 1]
    BY <1>1, <1>3 DEF x, y, r, w
  <2>10. readers[i] = 0 /\ writers[i] = 0
    BY <1>1 DEF PipeFree
  <2> DEFINE mid == [d \in FDs |-> IF d = x THEN r ELSE fd[cur][d]]
  <2>11. FdTypes' /\ RowsKept
    BY <2>2, <2>3, <2>5, <2>6, <2>7, <2>8 DEF FileInv, FdTypes, RowsKept
  <2>12. RowSet(fd[cur], mid, x, r) /\ RowSet(mid, fd'[cur], y, w) /\ mid[y] = 0
    <3>1. fd'[cur] = [fd[cur] EXCEPT ![x] = r, ![y] = w]
      BY <2>8 DEF FileInv, FdTypes
    <3>2. fd[cur] \in [FDs -> Files \cup {0}]
      BY DEF FileInv, FdTypes
    <3> QED
      BY <2>2, <2>5, <3>1, <3>2 DEF RowSet
  <2> HIDE DEF mid
  <2>13. ASSUME NEW g \in Files
         PROVE  /\ refs'[g] = refs[g] - CntOf(fd[cur], g) + CntOf(fd'[cur], g)
                /\ refs'[g] = 0 <=> fpipe'[g] = 0
    <3>1. g # 0
      BY PipeSets
    <3>2. CntOf(mid, g) = IF g = r THEN CntOf(fd[cur], g) + 1 ELSE CntOf(fd[cur], g)
      BY <2>2, <2>7, <2>12, <3>1, RowOpen
    <3>3. CntOf(fd'[cur], g) = IF g = w THEN CntOf(mid, g) + 1 ELSE CntOf(mid, g)
      BY <2>5, <2>7, <2>12, <3>1, RowOpen
    <3>4. CntOf(fd[cur], g) \in Nat /\ refs[g] \in Nat
      BY CntType DEF FileInv
    <3>5. refs'[g] = IF g = r \/ g = w THEN refs[g] + 1 ELSE refs[g]
      BY <2>3, <2>6, <2>8 DEF FileInv
    <3>6. fpipe'[g] = IF g = r \/ g = w THEN i ELSE fpipe[g]
      BY <2>9 DEF FileInv, EndTypes
    <3>7. refs[g] = 0 <=> fpipe[g] = 0
      BY DEF FileInv, FilesOpen
    <3>8. refs'[g] = refs[g] - CntOf(fd[cur], g) + CntOf(fd'[cur], g)
      BY <2>6, <3>2, <3>3, <3>4, <3>5
    <3>9. refs'[g] = 0 <=> fpipe'[g] = 0
      BY <2>7, <3>4, <3>5, <3>6, <3>7
    <3> QED
      BY <3>8, <3>9
  <2>14. refs' = [g \in Files |-> refs'[g]]
    BY <2>8 DEF FileInv
  <2>15. HeldCounts' /\ refs' \in [Files -> Nat]
    BY <2>11, <2>13, <2>14, RefsFollow DEF RowsKept
  <2>16. FilesOpen'
    BY <2>13 DEF FilesOpen
  <2>17. EndTypes'
    BY <2>3, <2>6, <2>8, <2>9 DEF FileInv, EndTypes
  <2>18. ASSUME NEW j \in Pipes
         PROVE  /\ readers'[j] = Cardinality(ReadEnds(j)')
                /\ writers'[j] = Cardinality(WriteEnds(j)')
    <3>1. readers[j] = Cardinality(ReadEnds(j)) /\ writers[j] = Cardinality(WriteEnds(j))
      BY DEF FileInv, EndCounts
    <3>2. /\ r \notin ReadEnds(j) /\ r \notin WriteEnds(j)
          /\ w \notin ReadEnds(j) /\ w \notin WriteEnds(j)
      BY <2>3, <2>6, FreshFile
    <3>3. /\ ReadEnds(j)' = IF j = i THEN ReadEnds(j) \cup {r} ELSE ReadEnds(j)
          /\ WriteEnds(j)' = IF j = i THEN WriteEnds(j) \cup {w} ELSE WriteEnds(j)
      <4>1. ASSUME NEW g \in Files
            PROVE  /\ fpipe'[g] = IF g = r \/ g = w THEN i ELSE fpipe[g]
                   /\ wend'[g] = IF g = r THEN 0 ELSE IF g = w THEN 1 ELSE wend[g]
        BY <2>6, <2>9 DEF FileInv, EndTypes
      <4> QED
        BY <2>3, <2>6, <3>2, <4>1 DEF ReadEnds, WriteEnds
    <3>4. /\ Cardinality(ReadEnds(j) \cup {r}) = Cardinality(ReadEnds(j)) + 1
          /\ Cardinality(WriteEnds(j) \cup {w}) = Cardinality(WriteEnds(j)) + 1
      BY <3>2, EndSets, PutIn
    <3>5. /\ readers'[j] = IF j = i THEN 1 ELSE readers[j]
          /\ writers'[j] = IF j = i THEN 1 ELSE writers[j]
      BY <2>9 DEF FileInv, EndTypes
    <3> QED
      BY <2>10, <3>1, <3>3, <3>4, <3>5
  <2>19. EndCounts'
    BY <2>18 DEF EndCounts
  <2>20. EndsKept
    <3> SUFFICES ASSUME NEW p \in Pids \ {cur}, NEW d \in FDs, fd[p][d] # 0
                 PROVE  fpipe'[fd[p][d]] = fpipe[fd[p][d]]
      BY DEF EndsKept
    <3>1. fd[p][d] \in Files /\ refs[fd[p][d]] # 0
      BY HeldRefs
    <3>2. fd[p][d] # r /\ fd[p][d] # w
      BY <2>3, <2>6, <3>1
    <3> QED
      BY <2>9, <3>1, <3>2 DEF FileInv, EndTypes
  <2>21. Announced
    BY <2>8, <2>9, <2>10 DEF Announced, FileInv, EndTypes
  <2> QED
    BY <2>11, <2>15, <2>16, <2>17, <2>19, <2>20, <2>21 DEF FileInv, FilesFollow
<1> QED
  BY <1>2, <1>3

\* Only the levels of the pipes change.
LEMMA LevelOnly ==
  ASSUME FileInv, KeepFiles, level' \in [Pipes -> 0..PipeSize],
         NEW i, \A j \in Pipes : j # i => level'[j] = level[j],
         \/ level' = level
         \/ \A p \in Pids \ {cur} : state'[p] = "sleep" => chan[p] # PipeChan(i)
  PROVE  FilesFollow
<1> USE DEF KeepFiles
<1>1. EndTypes' /\ EndCounts' /\ EndsKept
  BY DEF FileInv, EndTypes, EndCounts, ReadEnds, WriteEnds, EndsKept
<1>2. Announced
  BY DEF Announced, PipeChan
<1>3. FdTypes' /\ refs' \in [Files -> Nat] /\ HeldCounts' /\ FilesOpen' /\ RowsKept
  BY DEF FileInv, FdTypes, HeldCounts, Holders, HoldersIn, FilesOpen, RowsKept
<1> QED
  BY <1>1, <1>2, <1>3 DEF FilesFollow, FileInv

\* What a read takes is there.
LEMMA TakesSome ==
  ASSUME NEW n \in Nat \ {0}, NEW m \in Nat \ {0}
  PROVE  Min({n, m}) \in Nat \ {0} /\ Min({n, m}) <= m
<1>1. {n, m} \in SUBSET Nat /\ {n, m} # {}
  OBVIOUS
<1>2. Min({n, m}) \in {n, m} /\ \A y \in {n, m} : Min({n, m}) <= y
  BY <1>1, MinIn
<1> QED
  BY <1>2

\* A read, up to its return or its sleep.
LEMMA ReadOK ==
  ASSUME FileInv, state \in [Pids -> States], cur \in Pids, NEW d \in FDs, fd[cur][d] # 0,
         NEW n \in Nat \ {0}, ReadPass(d, n)
  PROVE  FilesFollow
<1> DEFINE i == PipeOf(cur, d)
<1>1. i \in Pipes
  BY HeldRefs
<1>2. level \in [Pipes -> 0..PipeSize] /\ PipeSize \in Nat
  BY PipeSets DEF FileInv, EndTypes
<1>3. KeepFiles
  BY DEF ReadPass
<1>4. CASE level' = level
  BY <1>2, <1>3, <1>4, LevelOnly
<1>5. CASE /\ level[i] > 0
           /\ level' = [level EXCEPT ![i] = @ - Min({n, level[i]})]
           /\ state' = WokenPipe(state, i)
  <2> HIDE DEF i
  <2>1. level[i] \in Nat \ {0} /\ level[i] <= PipeSize
    BY <1>1, <1>2, <1>5
  <2>2. Min({n, level[i]}) \in Nat \ {0} /\ Min({n, level[i]}) <= level[i]
    BY <2>1, TakesSome
  <2>3. level' \in [Pipes -> 0..PipeSize] /\ \A j \in Pipes : j # i => level'[j] = level[j]
    BY <1>1, <1>2, <1>5, <2>1, <2>2
  <2>4. \A p \in Pids \ {cur} : state'[p] = "sleep" => chan[p] # PipeChan(i)
    BY <1>5 DEF WokenPipe, Woken, States
  <2> QED
    BY <1>3, <2>3, <2>4, LevelOnly
<1> QED
  BY <1>4, <1>5 DEF ReadPass

\* A write, up to its return or its sleep.
LEMMA WriteOK ==
  ASSUME FileInv, state \in [Pids -> States], cur \in Pids, NEW d \in FDs, fd[cur][d] # 0,
         NEW n \in Nat \ {0}, NEW done, WritePass(d, n, done)
  PROVE  FilesFollow
<1> DEFINE i == PipeOf(cur, d)
<1>1. i \in Pipes
  BY HeldRefs
<1>2. level \in [Pipes -> 0..PipeSize] /\ PipeSize \in Nat
  BY PipeSets DEF FileInv, EndTypes
<1>3. KeepFiles
  BY DEF WritePass
<1>4. CASE level' = level
  BY <1>2, <1>3, <1>4, LevelOnly
<1>5. CASE /\ level' = [level EXCEPT ![i] = @ + n] /\ n <= Space(i)
           /\ state' = WokenPipe(state, i)
  <2> HIDE DEF i
  <2>1. level' \in [Pipes -> 0..PipeSize] /\ \A j \in Pipes : j # i => level'[j] = level[j]
    BY <1>1, <1>2, <1>5 DEF Space
  <2>2. \A p \in Pids \ {cur} : state'[p] = "sleep" => chan[p] # PipeChan(i)
    BY <1>5 DEF WokenPipe, Woken, States
  <2> QED
    BY <1>3, <2>1, <2>2, LevelOnly
<1>6. CASE /\ level' = [level EXCEPT ![i] = PipeSize]
           /\ \/ state' = Woken(state, PipeChan(i))
              \/ state' = [Woken(state, PipeChan(i)) EXCEPT ![cur] = "sleep"]
  <2> HIDE DEF i
  <2>1. level' \in [Pipes -> 0..PipeSize] /\ \A j \in Pipes : j # i => level'[j] = level[j]
    BY <1>1, <1>2, <1>6
  <2>2. \A p \in Pids \ {cur} : state'[p] = "sleep" => chan[p] # PipeChan(i)
    BY <1>6 DEF Woken, States
  <2> QED
    BY <1>3, <2>1, <2>2, LevelOnly
<1> QED
  BY <1>4, <1>5, <1>6 DEF WritePass

\* fork gives a process of no files, q, those of the running one.
LEMMA ForkFilesOK ==
  ASSUME FileInv, cur \in Pids, nextpid \in Pids, nextpid # cur,
         \A d \in FDs : fd[nextpid][d] = 0, ForkFiles
  PROVE  /\ FileInv' /\ EndsKept
         /\ \A p \in Pids \ {nextpid} : fd'[p] = fd[p]
<1> DEFINE q == nextpid
<1>1. /\ fd' = [fd EXCEPT ![q] = fd[cur]] /\ cloexec' = [cloexec EXCEPT ![q] = cloexec[cur]]
      /\ refs' = [f \in Files |-> refs[f] + Cardinality({d \in FDs : fd[cur][d] = f})]
      /\ UNCHANGED <<fpipe, wend, readers, writers, level, fifo>>
  BY DEF ForkFiles
<1> HIDE DEF q
<1>2. q \in Pids /\ \A d \in FDs : fd[q][d] = 0
  BY DEF q
<1>3. FdTypes' /\ fd'[q] = fd[cur] /\ \A p \in Pids \ {q} : fd'[p] = fd[p]
  BY <1>1, <1>2 DEF FileInv, FdTypes
<1>4. ASSUME NEW f \in Files
      PROVE  /\ refs'[f] = refs[f] - CntOf(fd[q], f) + CntOf(fd'[q], f)
             /\ refs'[f] = 0 <=> fpipe'[f] = 0
  <2>1. f # 0
    BY PipeSets
  <2>2. CntOf(fd[q], f) = 0
    BY <1>2, <2>1, RowNone
  <2>3. CntOf(fd[cur], f) \in Nat /\ refs[f] \in Nat /\ CntOf(fd[cur], f) <= refs[f]
    BY HoldersSplit DEF FileInv, HeldCounts, Holders
  <2>4. refs'[f] = refs[f] + CntOf(fd[cur], f)
    BY <1>1 DEF CntOf, InRow
  <2>5. fpipe'[f] = fpipe[f] /\ (refs[f] = 0 <=> fpipe[f] = 0)
    BY <1>1 DEF FileInv, FilesOpen
  <2>6. refs'[f] = refs[f] - CntOf(fd[q], f) + CntOf(fd'[q], f)
    BY <1>3, <2>2, <2>3, <2>4
  <2>7. refs'[f] = 0 <=> fpipe'[f] = 0
    BY <2>3, <2>4, <2>5
  <2> QED
    BY <2>6, <2>7
<1>5. refs' = [f \in Files |-> refs'[f]]
  BY <1>1
<1>6. HeldCounts' /\ refs' \in [Files -> Nat]
  BY <1>2, <1>3, <1>4, <1>5, RefsFollow
<1>7. EndTypes' /\ EndCounts' /\ EndsKept
  BY <1>1, EndsSame
<1>8. FilesOpen'
  BY <1>4 DEF FilesOpen
<1> QED
  BY <1>3, <1>6, <1>7, <1>8 DEF FileInv, q

(* ---- what the calls on descriptors do to the processes ---- *)

\* What the proofs about K1Proc keep of its processes.
PipeProc == TreeInv /\ CallInv /\ SuspendInv /\ NoSleepThroughSignal

\* A call on descriptors: the running process leaves the CPU and goes on with
\* x; the others are at most woken.  It sleeps only before no signal.
OthersWoken ==
  \A p \in Pids \ {cur} : /\ state'[p] = state[p] \/ (state[p] = "sleep" /\ state'[p] = "run")
                          /\ chan'[p] = chan[p]
OwnSignals ==
  /\ sigpend' \in [Pids -> SUBSET Sigs]
  /\ sigmask' \in [Pids -> SUBSET (Sigs \ Unmaskable)]
  /\ suspend' \in [Pids -> SUBSET SUBSET (Sigs \ Unmaskable)]
  /\ \A p \in Pids \ {cur} : sigpend'[p] = sigpend[p] /\ sigmask'[p] = sigmask[p]
                             /\ suspend'[p] = suspend[p]
Turn(x) ==
  /\ state[cur] = "run" /\ Hands(x)
  /\ x \in PCs /\ x.call # "vfork" /\ x.at # "exit"
  /\ state' \in [Pids -> States] /\ chan' \in [Pids -> Chans] /\ OthersWoken
  /\ state'[cur] \in {"run", "sleep"}
  /\ state'[cur] = "sleep" =>
       x.at = "blocked" /\ sigpend'[cur] \ (sigmask'[cur] \ {KILL}) = {}
  /\ OwnSignals
  /\ x.at = "redo" => RestartOK /\ UNCHANGED <<sigpend, sigmask>>
  /\ UNCHANGED <<treeVars, sa, frames, asyncfull, alarm>>

\* A turn keeps the types.
LEMMA TurnTypes ==
  ASSUME TypeOK, NEW x, Turn(x)
  PROVE  TypeOK'
<1>1. SchedTypeOK'
  BY DEF TypeOK, SchedTypeOK, Turn, Hands, States
<1>2. TreeTypeOK'
  BY TypeSame DEF TypeOK, Turn
<1>3. SigTypeOK'
  BY DEF TypeOK, SigTypeOK, Turn, OwnSignals, Unmaskable
<1> QED
  BY <1>1, <1>2, <1>3 DEF TypeOK, Turn

\* A turn bears, ends and reaps no one.
LEMMA TurnQuiet ==
  ASSUME TypeOK, NEW x, Turn(x)
  PROVE  Quiet
<1> USE DEF TypeOK, SchedTypeOK
<1>1. /\ pc' = [pc EXCEPT ![cur] = x] /\ cur' = cur /\ cur \in Pids
      /\ \/ x.at = "blocked" /\ mode' = "sched"
         \/ x.at \in {"user", "redo"} /\ mode' = "ret"
  BY DEF Turn, Hands
<1>2. /\ state[cur] = "run" /\ state'[cur] \in {"run", "sleep"} /\ OthersWoken
      /\ state'[cur] = "sleep" => x.at = "blocked"
      /\ UNCHANGED <<nextpid, ppid, status>>
  BY DEF Turn, treeVars
<1>3. CurRuns'
  BY <1>1, <1>2 DEF CurRuns
<1>4. \A p \in Pids : state'[p] = state[p] \/ (Live(p) /\ state'[p] \in {"run", "sleep"})
  BY <1>2 DEF OthersWoken, Live
<1>5. \A p \in Pids : pc'[p] = pc[p] \/ (p = cur /\ state[cur] = "run")
  BY <1>1, <1>2
<1> QED
  BY <1>2, <1>3, <1>4, <1>5 DEF Quiet

\* A turn keeps what is proved of the processes.
LEMMA TurnKeeps ==
  ASSUME PipeProc, NEW x, Turn(x)
  PROVE  PipeProc'
<1>1. TypeOK /\ cur \in Pids /\ pc \in [Pids -> PCs]
  BY DEF PipeProc, TreeInv, TypeOK, SchedTypeOK
<1>2. TypeOK' /\ Quiet
  BY <1>1, TurnTypes, TurnQuiet
<1>3. TreeInv'
  BY <1>2, TreeQuiet DEF PipeProc, TreeInv, Quiet
<1>4. GoesOn(x) /\ frames' = frames
  BY DEF Turn, Hands, GoesOn
<1>5. CallInv'
  BY <1>1, <1>4, CallGoesOn DEF PipeProc, CallInv
<1>6. DeadStay
  BY <1>2 DEF DeadStay, Quiet, Live
<1>7. Hands(x) /\ Alone
  BY DEF Turn, OwnSignals, Alone
<1>8. Dying' /\ WaitMasks'
  BY <1>1, <1>6, <1>7, HandsKeeps DEF PipeProc, SuspendInv
<1>9. FreeClean'
  <2>1. state[cur] = "run" /\ state'[cur] \in {"run", "sleep"} /\ OthersWoken
    BY DEF Turn
  <2> QED
    BY <1>7, <2>1 DEF FreeClean, OthersWoken, Alone, PipeProc, SuspendInv
<1>10. FramesLive'
  BY <1>4 DEF FramesLive, PipeProc, SuspendInv
<1>11. pc' = [pc EXCEPT ![cur] = x] /\ cur' = cur
  BY DEF Turn, Hands
<1>12. RestartAllowed'
  <2>1. x.at = "redo" => RestartOK /\ UNCHANGED <<sigpend, sigmask, sa>>
    BY DEF Turn
  <2>2. x.at = "redo" => RestartOK'
    BY <2>1, <1>11 DEF RestartOK, IsNextSignal, Deliverable, Ignored
  <2> QED
    BY <1>1, <1>11, <2>2 DEF RestartAllowed
<1>13. SuspendInv'
  BY <1>8, <1>9, <1>10, <1>12 DEF SuspendInv
<1>14. ASSUME NEW p \in Pids, state'[p] = "sleep" PROVE Heard(p)
  <2>1. CASE p = cur
    BY <1>14, <2>1 DEF Turn, Heard
  <2>2. CASE p # cur
    BY <1>1, <1>11, <1>14, <2>2 DEF Turn, OthersWoken, OwnSignals, Heard
  <2> QED
    BY <2>1, <2>2
<1>15. NoSleepThroughSignal'
  BY <1>14, HeardKeeps DEF PipeProc
<1> QED
  BY <1>3, <1>5, <1>13, <1>15 DEF PipeProc

\* The ways these calls leave the CPU are turns.
LEMMA TurnReturn ==
  ASSUME TypeOK, state[cur] = "run", Return, chan' = chan, Wakes(state, state'), OwnSignals,
         UNCHANGED <<treeVars, sa, frames, asyncfull, alarm>>
  PROVE  Turn(User)
<1>1. Hands(User)
  BY WaysHand
<1>2. User \in PCs /\ User.call # "vfork" /\ User.at = "user"
  BY PcTypes DEF User
<1>3. cur \in Pids /\ state'[cur] = "run" /\ state' \in [Pids -> States] /\ OthersWoken
  BY DEF TypeOK, SchedTypeOK, Wakes, OthersWoken
<1>4. chan' \in [Pids -> Chans]
  BY DEF TypeOK, SchedTypeOK
<1> QED
  BY <1>1, <1>2, <1>3, <1>4 DEF Turn

LEMMA SameSignals ==
  ASSUME TypeOK, UNCHANGED <<sigpend, sigmask, suspend>>
  PROVE  OwnSignals
BY DEF TypeOK, SigTypeOK, OwnSignals, Unmaskable

LEMMA TurnRestart ==
  ASSUME TypeOK, state[cur] = "run", NEW c \in Calls, c # "vfork", NEW a \in Triples,
         Restart(c, a), UNCHANGED <<sigpend, sigmask, suspend>>,
         UNCHANGED <<treeVars, sa, frames, asyncfull, alarm>>
  PROVE  Turn(Redo(c, a)) \/ Turn(User)
<1>1. /\ state' = state /\ chan' = chan /\ cur' = cur /\ mode' = "ret"
      /\ pc' = [pc EXCEPT ![cur] = IF RestartOK THEN Redo(c, a) ELSE User]
  BY DEF Restart
<1>2. OwnSignals /\ OthersWoken
  BY <1>1, SameSignals DEF OthersWoken
<1>3. state' \in [Pids -> States] /\ chan' \in [Pids -> Chans] /\ state'[cur] = "run"
  BY <1>1 DEF TypeOK, SchedTypeOK, States
<1>4. CASE RestartOK
  <2>1. /\ Redo(c, a) \in PCs /\ Redo(c, a).at = "redo" /\ Redo(c, a).call = c
        /\ Hands(Redo(c, a))
    BY <1>1, <1>4, PcTypes DEF Redo, Hands
  <2> QED
    BY <1>2, <1>3, <1>4, <2>1 DEF Turn
<1>5. CASE ~RestartOK
  <2>1. Hands(User) /\ User \in PCs /\ User.at = "user" /\ User.call = "none"
    BY <1>1, <1>5, PcTypes DEF User, Hands
  <2> QED
    BY <1>2, <1>3, <2>1 DEF Turn
<1> QED
  BY <1>4, <1>5

LEMMA TurnSleep ==
  ASSUME TypeOK, state[cur] = "run", NEW c \in Calls, c # "vfork", NEW a \in Triples,
         NEW ch \in Chans, mode' = "sched", cur' = cur,
         pc' = [pc EXCEPT ![cur] = Blocked(c, a)],
         NEW st0, Wakes(state, st0), state' = [st0 EXCEPT ![cur] = "sleep"],
         chan' = [chan EXCEPT ![cur] = ch], OwnSignals,
         sigpend'[cur] \ (sigmask'[cur] \ {KILL}) = {},
         UNCHANGED <<treeVars, sa, frames, asyncfull, alarm>>
  PROVE  Turn(Blocked(c, a))
<1>1. /\ Blocked(c, a) \in PCs /\ Blocked(c, a).at = "blocked" /\ Blocked(c, a).call = c
      /\ Hands(Blocked(c, a))
  BY PcTypes DEF Blocked, Hands
<1>2. /\ state' \in [Pids -> States] /\ state'[cur] = "sleep" /\ OthersWoken
      /\ chan' \in [Pids -> Chans]
  BY DEF TypeOK, SchedTypeOK, Wakes, States, OthersWoken
<1> QED
  BY <1>1, <1>2 DEF Turn

LEMMA TurnYield ==
  ASSUME TypeOK, state[cur] = "run", NEW c \in Calls, c # "vfork", NEW a \in Triples,
         YieldIn(c, a), OwnSignals,
         UNCHANGED <<treeVars, sa, frames, asyncfull, alarm>>
  PROVE  Turn(Blocked(c, a))
<1>1. /\ Blocked(c, a) \in PCs /\ Blocked(c, a).at = "blocked" /\ Blocked(c, a).call = c
      /\ Hands(Blocked(c, a))
  BY PcTypes, WaysHand DEF Blocked
<1>2. /\ state' \in [Pids -> States] /\ chan' \in [Pids -> Chans] /\ OthersWoken
      /\ state'[cur] = "run"
  BY DEF YieldIn, TypeOK, SchedTypeOK, States, OthersWoken
<1> QED
  BY <1>1, <1>2 DEF Turn

(* ---- what a process inside a call on a pipe holds ---- *)

PipeCalls == {"read", "write"} \cup Polls

LEMMA PollNames ==
  /\ \A c \in Polls : c \notin {"read", "write", "vfork", "none"}
  /\ \A c \in {"none", "vfork", "wait4", "pause", "sigsuspend", "nanosleep", "yield"} :
       c \notin PipeCalls
BY DEF PipeCalls, Polls, Selects, Masked, Timed

\* A process that has ended has no file open.
Closed(p) == ~Live(p) => \A d \in FDs : fd[p][d] = 0

\* A process in a call on a pipe has an end of it open.
HoldsEnd(p) == Live(p) /\ InPipe(pc[p]) =>
  /\ pc[p].arg[1] \in FDs /\ fd[p][pc[p].arg[1]] # 0
  /\ pc[p].call \in {"read", "write"} => pc[p].arg[2] \in Nat \ {0} /\ pc[p].arg[3] \in Nat

\* A process asleep in read sleeps on the pipe, which is empty and has a
\* writer; one asleep in write, on a full pipe that has a reader.
SleepsOnPipe(p) == state[p] = "sleep" =>
  /\ pc[p].at = "blocked"
  /\ pc[p].call \in {"read", "write"} => chan[p] = PipeChan(PipeOf(p, pc[p].arg[1]))
  /\ pc[p].call = "read" => level[PipeOf(p, pc[p].arg[1])] = 0
                            /\ writers[PipeOf(p, pc[p].arg[1])] > 0
  /\ pc[p].call = "write" => level[PipeOf(p, pc[p].arg[1])] = PipeSize
                             /\ readers[PipeOf(p, pc[p].arg[1])] > 0

Side(p) == Closed(p) /\ HoldsEnd(p) /\ SleepsOnPipe(p)

Sides == \A p \in Pids : Side(p)
KernelBlocked == mode = "kernel" => pc[cur].at = "blocked"

\* A process that runs outside the calls on pipes.
LEMMA SideOut ==
  ASSUME NEW p, state'[p] = "run", ~InPipe(pc'[p])
  PROVE  Side(p)'
BY DEF Side, Closed, HoldsEnd, SleepsOnPipe, Live

\* A process outside every call is in none on a pipe.
LEMMA UserOut == /\ ~InPipe(User) /\ \A c, a : ~InPipe(Redo(c, a))
                 /\ \A st : ~InPipe(Exiting(st))
BY DEF InPipe, User, Redo, Exiting

\* A process in a call is runnable and its call is one of the menu.
LEMMA CallRuns ==
  ASSUME TypeOK, CurRuns
  PROVE  /\ \A c, a : Calling(c, a) => c \in Calls /\ state[cur] = "run"
         /\ \A c : Resumed(c) /\ c # "none" => c \in Calls /\ state[cur] = "run"
<1>1. pc[cur].call \in Calls \cup {"none"}
  BY DEF TypeOK, SchedTypeOK, PCs
<1> QED
  BY <1>1 DEF Calling, Resumed, CurRuns

\* The arguments of a blocked call.
LEMMA PipeArgs ==
  ASSUME NEW d \in FDs \cup Int, NEW n \in Int, NEW m \in Int
  PROVE  <<d, n, m>> \in Triples /\ <<d, n, m>>[1] = d /\ <<d, n, m>>[2] = n /\ <<d, n, m>>[3] = m
BY PipeSets DEF Triples

\* What a process of these calls sleeps on.
LEMMA PipeChans ==
  /\ Pollq \in Chans /\ \A i \in Pipes : PipeChan(i) \in Chans
BY PipeSets DEF Pollq, PipeChan, Chans

\* The wakeups of a pipe only wake.
LEMMA PipeWakes ==
  ASSUME state \in [Pids -> States], NEW i
  PROVE  Wakes(state, WokenPipe(state, i)) /\ Wakes(state, Woken(state, PipeChan(i)))
         /\ Wakes(state, Woken(state, Pollq))
BY DEF Wakes, WokenPipe, Woken, States

\* One step of the running process, in a call on its descriptors.
Serves == \E x : Turn(x)
CurSide == \A p \in Pids : p = cur => Side(p)'

\* The calls that return.
LEMMA ReturnServes ==
  ASSUME TypeOK, state[cur] = "run", Return, chan' = chan, Wakes(state, state'), OwnSignals,
         UNCHANGED <<treeVars, sa, frames, asyncfull, alarm>>
  PROVE  Serves /\ CurSide
<1>1. Turn(User)
  BY TurnReturn
<1>2. ASSUME NEW p \in Pids, p = cur PROVE Side(p)'
  <2>1. state'[p] = "run" /\ pc'[p] = User
    BY <1>2 DEF TypeOK, SchedTypeOK, Return, Wakes
  <2> QED
    BY <2>1, SideOut, UserOut
<1> QED
  BY <1>1, <1>2 DEF Serves, CurSide

\* A call that is made again later.
LEMMA RestartServes ==
  ASSUME TypeOK, state[cur] = "run", NEW c \in Calls, c # "vfork", NEW a \in Triples,
         Restart(c, a), UNCHANGED <<sigpend, sigmask, suspend>>,
         UNCHANGED <<treeVars, sa, frames, asyncfull, alarm>>
  PROVE  Serves /\ CurSide
<1>1. Turn(Redo(c, a)) \/ Turn(User)
  BY TurnRestart
<1>2. ASSUME NEW p \in Pids, p = cur PROVE Side(p)'
  <2>1. state'[p] = "run" /\ pc'[p] \in {User, Redo(c, a)}
    BY <1>2 DEF TypeOK, SchedTypeOK, Restart
  <2> QED
    BY <2>1, SideOut, UserOut
<1> QED
  BY <1>1, <1>2 DEF Serves, CurSide

\* The calls that close, copy and open.
LEMMA DescServes ==
  ASSUME TypeOK, CurRuns, Close \/ Dup \/ Dup3 \/ PipeCall \/ OpenFifo
  PROVE  Serves /\ CurSide
<1>1. state \in [Pids -> States]
  BY DEF TypeOK, SchedTypeOK, States
<1>2. state[cur] = "run"
  BY CallRuns DEF Close, Dup, Dup3, PipeCall, OpenFifo
<1>3. Return /\ chan' = chan
  BY DEF Close, Dup, Dup3, PipeCall, OpenFifo, ReturnOnly
<1>4. UNCHANGED <<treeVars, sigVars, alarm>>
  BY DEF Close, Dup, Dup3, PipeCall, OpenFifo
<1>5. Wakes(state, state')
  <2>1. \/ \E D : state' = WokenByPut(D)
        \/ state' = state \/ state' = Woken(state, Pollq) \/ \E i : state' = WokenPipe(state, i)
    <3>1. CASE Close
      BY <3>1 DEF Close
    <3>2. CASE Dup
      BY <3>2 DEF Dup, ReturnOnly
    <3>3. CASE Dup3
      <4>1. PICK d, e : state' = WokenByPut({e} \cap OpenFds)
        BY <3>3 DEF Dup3
      <4> QED
        BY <4>1
    <3>4. CASE PipeCall
      BY <3>4 DEF PipeCall
    <3>5. CASE OpenFifo
      BY <3>5 DEF OpenFifo
    <3> QED
      BY <3>1, <3>2, <3>3, <3>4, <3>5
  <2> QED
    BY <1>1, <2>1, PutWakes, PipeWakes, NoneWakes
<1>6. OwnSignals
  BY <1>4, SameSignals DEF sigVars
<1> QED
  BY <1>2, <1>3, <1>4, <1>5, <1>6, ReturnServes DEF sigVars

\* A pass of read.
LEMMA ReadServes ==
  ASSUME TypeOK, FileInv, state[cur] = "run", "read" \in Calls,
         NEW d \in FDs, fd[cur][d] # 0, NEW n \in Nat \ {0}, ReadPass(d, n)
  PROVE  Serves /\ CurSide
<1> DEFINE i == PipeOf(cur, d)
<1>1. state \in [Pids -> States] /\ i \in Pipes /\ cur \in Pids
  BY HeldRefs DEF TypeOK, SchedTypeOK, States
<1>2. /\ UNCHANGED <<treeVars, sa, frames, asyncfull, alarm>> /\ KeepFiles
      /\ UNCHANGED <<sigpend, sigmask, suspend>>
  BY DEF ReadPass, KeepProcs, sigVars
<1>3. OwnSignals
  BY <1>2, SameSignals
<1>4. <<d, n, 0>> \in Triples /\ <<d, n, 0>>[1] = d /\ <<d, n, 0>>[2] = n /\ <<d, n, 0>>[3] = 0
  BY PipeArgs
<1>5. CASE Return /\ chan' = chan /\ (state' = state \/ state' = WokenPipe(state, i))
  <2>1. Wakes(state, state')
    BY <1>1, <1>5, PipeWakes, NoneWakes
  <2> QED
    BY <1>2, <1>3, <1>5, <2>1, ReturnServes
<1>6. CASE Restart("read", <<d, n, 0>>)
  BY <1>2, <1>4, <1>6, RestartServes
<1>7. CASE /\ SleepOn(PipeChan(i), "read", <<d, n, 0>>) /\ ~SignalPending
           /\ level[i] = 0 /\ level' = level /\ writers[i] > 0
  <2> DEFINE a == <<d, n, 0>>
  <2>1. /\ state' = [state EXCEPT ![cur] = "sleep"]
        /\ chan' = [chan EXCEPT ![cur] = PipeChan(i)]
        /\ pc' = [pc EXCEPT ![cur] = Blocked("read", a)]
        /\ mode' = "sched" /\ cur' = cur
    BY <1>7 DEF SleepOn
  <2>2. sigpend'[cur] \ (sigmask'[cur] \ {KILL}) = {}
    BY <1>2, <1>7 DEF SignalPending, Deliverable
  <2>3. Wakes(state, state) /\ PipeChan(i) \in Chans
    BY <1>1, NoneWakes, PipeChans
  <2> HIDE DEF a, i
  <2>4. a \in Triples
    BY <1>4 DEF a
  <2>5. Turn(Blocked("read", a))
    BY <1>2, <1>3, <2>1, <2>2, <2>3, <2>4, TurnSleep
  <2>6. ASSUME NEW p \in Pids, p = cur PROVE Side(p)'
    <3>1. state'[p] = "sleep" /\ chan'[p] = PipeChan(i) /\ pc'[p] = Blocked("read", a)
      BY <1>1, <2>1, <2>6 DEF TypeOK, SchedTypeOK
    <3>2. /\ pc'[p].at = "blocked" /\ pc'[p].call = "read" /\ pc'[p].arg = a
          /\ a[1] = d /\ a[2] = n /\ a[3] = 0
      BY <1>4, <3>1 DEF Blocked, a
    <3>3. fd' = fd /\ fpipe' = fpipe /\ writers' = writers /\ level' = level
      BY <1>2, <1>7 DEF KeepFiles
    <3>4. PipeOf(p, d)' = i
      BY <2>6, <3>3 DEF PipeOf, i
    <3>5. level'[i] = 0 /\ writers'[i] > 0
      BY <1>7, <3>3
    <3>6. Closed(p)' /\ HoldsEnd(p)'
      BY <2>6, <3>1, <3>2, <3>3 DEF Closed, HoldsEnd, InPipe, Live
    <3>7. SleepsOnPipe(p)'
      BY <3>1, <3>2, <3>4, <3>5 DEF SleepsOnPipe, PipeChan
    <3> QED
      BY <3>6, <3>7 DEF Side
  <2> QED
    BY <2>5, <2>6 DEF Serves, CurSide
<1> QED
  BY <1>5, <1>6, <1>7 DEF ReadPass, ReturnOnly

\* A write that a signal interrupts before its first byte.
LEMMA RedoServes ==
  ASSUME TypeOK, state[cur] = "run", NEW c \in Calls, c # "vfork", NEW a \in Triples,
         RestartOK, mode' = "ret", cur' = cur, chan' = chan, Wakes(state, state'),
         pc' = [pc EXCEPT ![cur] = Redo(c, a)],
         UNCHANGED <<sigpend, sigmask, suspend>>,
         UNCHANGED <<treeVars, sa, frames, asyncfull, alarm>>
  PROVE  Serves /\ CurSide
<1>1. /\ Redo(c, a) \in PCs /\ Redo(c, a).at = "redo" /\ Redo(c, a).call = c
      /\ Hands(Redo(c, a))
  BY PcTypes DEF Redo, Hands
<1>2. /\ state' \in [Pids -> States] /\ OthersWoken /\ state'[cur] = "run"
      /\ chan' \in [Pids -> Chans]
  BY DEF TypeOK, SchedTypeOK, Wakes, OthersWoken
<1>3. Turn(Redo(c, a))
  BY <1>1, <1>2, SameSignals DEF Turn
<1>4. ASSUME NEW p \in Pids, p = cur PROVE Side(p)'
  <2>1. state'[p] = "run" /\ pc'[p] = Redo(c, a)
    BY <1>2, <1>4 DEF TypeOK, SchedTypeOK
  <2> QED
    BY <2>1, SideOut, UserOut
<1> QED
  BY <1>3, <1>4 DEF Serves, CurSide

\* SIGPIPE is sent to the writer alone.
LEMMA PipeSignal ==
  ASSUME TypeOK, sigpend' = Pended(state, {cur}, PIPE), UNCHANGED <<sigmask, suspend>>
  PROVE  OwnSignals
<1>1. sigpend' \in [Pids -> SUBSET Sigs]
  BY SigpipeAssumption, PendedType
<1>2. \A p \in Pids \ {cur} : sigpend'[p] = sigpend[p]
  BY DEF Pended
<1> QED
  BY <1>1, <1>2 DEF TypeOK, SigTypeOK, OwnSignals, Unmaskable

\* A pass of write.
LEMMA WriteServes ==
  ASSUME TypeOK, FileInv, state[cur] = "run", "write" \in Calls,
         NEW d \in FDs, fd[cur][d] # 0, NEW n \in Nat \ {0}, NEW done \in Nat,
         WritePass(d, n, done)
  PROVE  Serves /\ CurSide
<1> DEFINE i == PipeOf(cur, d)
<1>1. state \in [Pids -> States] /\ i \in Pipes /\ cur \in Pids
  BY HeldRefs DEF TypeOK, SchedTypeOK, States
<1>2. UNCHANGED <<treeVars, sa, frames, asyncfull, alarm>> /\ KeepFiles
      /\ UNCHANGED <<sigmask, suspend>>
  BY DEF WritePass, KeepProcs, sigVars
<1>3. sigpend' = sigpend \/ (ReturnOnly /\ sigpend' = Pended(state, {cur}, PIPE))
  BY DEF WritePass, KeepProcs, sigVars
<1>4. OwnSignals
  BY <1>2, <1>3, SameSignals, PipeSignal
<1>5. CASE Return /\ chan' = chan /\ (state' = state \/ state' = WokenPipe(state, i)
                                      \/ state' = Woken(state, PipeChan(i)))
  <2>1. Wakes(state, state')
    BY <1>1, <1>5, PipeWakes, NoneWakes
  <2> QED
    BY <1>2, <1>4, <1>5, <2>1, ReturnServes
<1>6. CASE /\ mode' = "ret" /\ cur' = cur /\ chan' = chan /\ sigpend' = sigpend
           /\ state' = Woken(state, PipeChan(i))
           /\ RestartOK /\ pc' = [pc EXCEPT ![cur] = Redo("write", <<d, n, 0>>)]
  <2>1. Wakes(state, state')
    BY <1>1, <1>6, PipeWakes
  <2>2. <<d, n, 0>> \in Triples
    BY PipeArgs
  <2> QED
    BY <1>2, <1>6, <2>1, <2>2, RedoServes
<1>7. CASE /\ readers[i] > 0 /\ n > Space(i) /\ ~SignalPending
           /\ level' = [level EXCEPT ![i] = PipeSize] /\ sigpend' = sigpend
           /\ state' = [Woken(state, PipeChan(i)) EXCEPT ![cur] = "sleep"]
           /\ chan' = [chan EXCEPT ![cur] = PipeChan(i)]
           /\ pc' = [pc EXCEPT ![cur] = Blocked("write", <<d, n - Space(i), done + Space(i)>>)]
           /\ mode' = "sched" /\ cur' = cur
  <2> DEFINE a == <<d, n - Space(i), done + Space(i)>>
             st0 == Woken(state, PipeChan(i))
  <2>1. Wakes(state, st0) /\ PipeChan(i) \in Chans
    BY <1>1, PipeWakes, PipeChans
  <2>2. sigpend'[cur] \ (sigmask'[cur] \ {KILL}) = {}
    BY <1>2, <1>7 DEF SignalPending, Deliverable
  <2>3. Space(i) \in Nat
    <3>1. level[i] \in 0..PipeSize /\ PipeSize \in Nat
      BY <1>1, PipeSets DEF FileInv, EndTypes
    <3> QED
      BY <3>1 DEF Space
  <2>4. n - Space(i) \in Nat \ {0} /\ done + Space(i) \in Nat
    BY <1>7, <2>3
  <2>5. /\ a \in Triples /\ a[1] = d /\ a[2] = n - Space(i) /\ a[3] = done + Space(i)
    BY <2>4, PipeArgs
  <2>6. /\ state' = [st0 EXCEPT ![cur] = "sleep"]
        /\ chan' = [chan EXCEPT ![cur] = PipeChan(i)]
        /\ pc' = [pc EXCEPT ![cur] = Blocked("write", a)]
    BY <1>7
  <2> HIDE DEF a, st0, i
  <2>7. mode' = "sched" /\ cur' = cur
    BY <1>7
  <2>8. Turn(Blocked("write", a))
    BY <1>2, <1>4, <2>1, <2>2, <2>5, <2>6, <2>7, TurnSleep
  <2>9. ASSUME NEW p \in Pids, p = cur PROVE Side(p)'
    <3>1. state'[p] = "sleep" /\ chan'[p] = PipeChan(i) /\ pc'[p] = Blocked("write", a)
      BY <1>1, <2>1, <2>6, <2>9 DEF TypeOK, SchedTypeOK, Wakes
    <3>2. pc'[p].at = "blocked" /\ pc'[p].call = "write" /\ pc'[p].arg = a
      BY <3>1 DEF Blocked
    <3>3. fd' = fd /\ fpipe' = fpipe /\ readers' = readers
      BY <1>2 DEF KeepFiles
    <3>4. PipeOf(p, d)' = i
      BY <2>9, <3>3 DEF PipeOf, i
    <3>5. level'[i] = PipeSize /\ readers'[i] > 0
      BY <1>1, <1>7, <3>3 DEF FileInv, EndTypes
    <3>6. Closed(p)' /\ HoldsEnd(p)'
      BY <2>4, <2>5, <2>9, <3>1, <3>2, <3>3 DEF Closed, HoldsEnd, InPipe, Live
    <3>7. SleepsOnPipe(p)'
      BY <2>5, <3>1, <3>2, <3>4, <3>5 DEF SleepsOnPipe, PipeChan
    <3> QED
      BY <3>6, <3>7 DEF Side
  <2> QED
    BY <2>8, <2>9 DEF Serves, CurSide
<1>8. UNCHANGED sigVars => sigpend' = sigpend
  BY DEF sigVars
<1> QED
  BY <1>5, <1>6, <1>7, <1>8 DEF WritePass, ReturnOnly, Return, KeepProcs

\* The mask a poll gives back is one a process can have.
LEMMA UnsuspendOwn ==
  ASSUME TypeOK, Unsuspend, sigpend' = sigpend
  PROVE  OwnSignals
<1>1. ProgramMask \in SUBSET (Sigs \ Unmaskable)
  BY MaskType
<1> QED
  BY <1>1 DEF Unsuspend, TypeOK, SigTypeOK, OwnSignals, Unmaskable

\* A poll that finds nothing, and the descriptor it looked at.
Nothing(c, d, ev) == ~Answers(c, cur, d, ev) /\ (ev # 0 => d \in FDs)

\* It goes on to wait in the call.
LEMMA PollStays ==
  ASSUME TypeOK, FileInv, cur \in Pids, NEW c \in Polls, NEW d, NEW ev, Nothing(c, d, ev),
         state'[cur] \in {"run", "sleep"}, pc'[cur] = Blocked(c, <<d, ev, 0>>), KeepFiles
  PROVE  CurSide
<1> DEFINE a == <<d, ev, 0>>
<1>1. ASSUME NEW p \in Pids, p = cur PROVE Side(p)'
  <2>1. state'[p] \in {"run", "sleep"} /\ pc'[p] = Blocked(c, a)
    BY <1>1
  <2>2. pc'[p].at = "blocked" /\ pc'[p].call = c /\ pc'[p].arg[1] = d /\ pc'[p].arg[2] = ev
    BY <2>1 DEF Blocked
  <2>3. fd' = fd /\ c \notin {"read", "write"}
    BY PollNames DEF KeepFiles
  <2>4. ev # 0 => d \in FDs /\ fd[p][d] # 0
    BY <1>1 DEF Nothing, Answers
  <2> HIDE DEF a
  <2>5. Closed(p)'
    BY <2>1 DEF Closed, Live
  <2>6. HoldsEnd(p)'
    BY <2>2, <2>3, <2>4 DEF HoldsEnd, InPipe, Watching
  <2>7. SleepsOnPipe(p)'
    BY <2>2, <2>3 DEF SleepsOnPipe
  <2> QED
    BY <2>5, <2>6, <2>7 DEF Side
<1> QED
  BY <1>1 DEF CurSide

\* A poll that sleeps.
LEMMA PollSleeps ==
  ASSUME TypeOK, FileInv, state[cur] = "run", NEW c \in Polls, c \in Calls,
         NEW d \in Int, NEW ev \in Int, Nothing(c, d, ev), SleepOn(Pollq, c, <<d, ev, 0>>),
         OwnSignals, sigpend'[cur] \ (sigmask'[cur] \ {KILL}) = {}, KeepFiles,
         UNCHANGED <<treeVars, sa, frames, asyncfull, alarm>>
  PROVE  Serves /\ CurSide
<1> DEFINE a == <<d, ev, 0>>
<1>1. /\ state' = [state EXCEPT ![cur] = "sleep"]
      /\ chan' = [chan EXCEPT ![cur] = Pollq]
      /\ pc' = [pc EXCEPT ![cur] = Blocked(c, a)]
      /\ mode' = "sched" /\ cur' = cur
  BY DEF SleepOn
<1>2. a \in Triples /\ c # "vfork"
  BY PipeArgs, PollNames
<1>3. Wakes(state, state) /\ Pollq \in Chans
  BY NoneWakes, PipeChans DEF TypeOK, SchedTypeOK, States
<1>4. cur \in Pids /\ state'[cur] = "sleep" /\ pc'[cur] = Blocked(c, a)
  BY <1>1 DEF TypeOK, SchedTypeOK
<1>5. CurSide
  BY <1>4, PollStays
<1> HIDE DEF a
<1>6. Turn(Blocked(c, a))
  BY <1>1, <1>2, <1>3, TurnSleep
<1> QED
  BY <1>5, <1>6 DEF Serves

\* A poll with a timeout, which yields instead.
LEMMA PollYields ==
  ASSUME TypeOK, FileInv, state[cur] = "run", NEW c \in Polls, c \in Calls,
         NEW d \in Int, NEW ev \in Int, Nothing(c, d, ev), YieldIn(c, <<d, ev, 0>>),
         OwnSignals, KeepFiles, UNCHANGED <<treeVars, sa, frames, asyncfull, alarm>>
  PROVE  Serves /\ CurSide
<1>1. <<d, ev, 0>> \in Triples /\ c # "vfork"
  BY PipeArgs, PollNames
<1>2. Turn(Blocked(c, <<d, ev, 0>>))
  BY <1>1, TurnYield
<1>3. cur \in Pids /\ state'[cur] = "run" /\ pc'[cur] = Blocked(c, <<d, ev, 0>>)
  BY DEF YieldIn, TypeOK, SchedTypeOK
<1>4. CurSide
  BY <1>3, PollStays
<1> QED
  BY <1>2, <1>4 DEF Serves

\* A pass of poll or select.
LEMMA PollServes ==
  ASSUME TypeOK, FileInv, state[cur] = "run", NEW c \in Polls, c \in Calls,
         NEW d \in Int, NEW ev \in Int, ev # 0 => d \in FDs, PollPass(c, d, ev)
  PROVE  Serves /\ CurSide
<1>1. /\ KeepFiles /\ UNCHANGED <<treeVars, sa, frames, asyncfull, alarm>> /\ sigpend' = sigpend
  BY DEF PollPass
<1>2. Wakes(state, state)
  BY NoneWakes DEF TypeOK, SchedTypeOK, States
<1>3. CASE ReturnOnly /\ (Unsuspend \/ UNCHANGED <<sigmask, suspend>>)
  BY <1>1, <1>2, <1>3, UnsuspendOwn, SameSignals, ReturnServes DEF ReturnOnly
<1>4. CASE Restart(c, <<d, Asked(c, ev), 0>>) /\ UNCHANGED <<sigmask, suspend>>
  <2>1. Asked(c, ev) \in Int
    BY DEF Asked
  <2>2. <<d, Asked(c, ev), 0>> \in Triples /\ c # "vfork"
    BY <2>1, PipeArgs, PollNames
  <2> QED
    BY <1>1, <1>4, <2>2, RestartServes
<1>5. CASE /\ SleepOn(Pollq, c, <<d, ev, 0>>) \/ YieldIn(c, <<d, ev, 0>>)
           /\ UNCHANGED <<sigmask, suspend>> /\ ~SignalPending /\ ~Answers(c, cur, d, ev)
  <2>1. sigpend'[cur] \ (sigmask'[cur] \ {KILL}) = {} /\ OwnSignals
    BY <1>1, <1>5, SameSignals DEF SignalPending, Deliverable
  <2>2. Nothing(c, d, ev)
    BY <1>5 DEF Nothing
  <2> QED
    BY <1>1, <1>5, <2>1, <2>2, PollSleeps, PollYields
<1> QED
  BY <1>3, <1>4, <1>5 DEF PollPass

\* ppoll or pselect6 with a mask, up to its first wait.
LEMMA PPollServes ==
  ASSUME TypeOK, CurRuns, FileInv, PPoll
  PROVE  Serves /\ CurSide
<1>1. PICK c \in Masked, d \in FDs, ev \in {POLLIN, POLLOUT}, m \in Masks :
    /\ Calling(c, <<d, ev, 0>>)
    /\ \/ ReturnOnly /\ UNCHANGED <<sigmask, suspend>>
       \/ /\ ~Answers(c, cur, d, ev)
          /\ suspend' = [suspend EXCEPT ![cur] = {sigmask[cur]}]
          /\ sigmask' = [sigmask EXCEPT ![cur] = m \ Unmaskable]
          /\ IF Deliverable(cur, m \ Unmaskable) # {} THEN ReturnOnly
             ELSE IF c \in Timed THEN YieldIn(c, <<d, ev, 0>>)
                                 ELSE SleepOn(Pollq, c, <<d, ev, 0>>)
    /\ KeepFiles
    /\ UNCHANGED <<treeVars, sa, frames, asyncfull, alarm>> /\ sigpend' = sigpend
  BY DEF PPoll
<1>2. c \in Calls /\ state[cur] = "run" /\ d \in Int /\ ev \in Int /\ cur \in Pids /\ c \in Polls
  BY <1>1, CallRuns, PipeSets DEF POLLIN, POLLOUT, TypeOK, SchedTypeOK, Polls
<1>3. Wakes(state, state)
  BY NoneWakes DEF TypeOK, SchedTypeOK, States
<1>4. OwnSignals
  <2>1. CASE UNCHANGED <<sigmask, suspend>>
    BY <1>1, <2>1, SameSignals
  <2>2. CASE /\ suspend' = [suspend EXCEPT ![cur] = {sigmask[cur]}]
             /\ sigmask' = [sigmask EXCEPT ![cur] = m \ Unmaskable]
    <3>1. m \in SUBSET Sigs
      BY MenusAssumption
    <3> QED
      BY <1>1, <1>2, <2>2, <3>1 DEF TypeOK, SigTypeOK, OwnSignals, Unmaskable
  <2> QED
    BY <1>1, <2>1, <2>2
<1>5. CASE ReturnOnly
  BY <1>1, <1>2, <1>3, <1>4, <1>5, ReturnServes DEF ReturnOnly
<1>6. CASE /\ SleepOn(Pollq, c, <<d, ev, 0>>) \/ YieldIn(c, <<d, ev, 0>>)
           /\ Deliverable(cur, m \ Unmaskable) = {} /\ ~Answers(c, cur, d, ev)
           /\ sigmask' = [sigmask EXCEPT ![cur] = m \ Unmaskable]
  <2>1. sigpend'[cur] \ (sigmask'[cur] \ {KILL}) = {}
    BY <1>1, <1>2, <1>6 DEF Deliverable, TypeOK, SigTypeOK
  <2>2. Nothing(c, d, ev)
    BY <1>1, <1>6 DEF Nothing
  <2> QED
    BY <1>1, <1>2, <1>4, <1>6, <2>1, <2>2, PollSleeps, PollYields
<1> QED
  BY <1>1, <1>5, <1>6

\* What p's sleep and its descriptors rest on is left alone.
EndsKeptFor(p) == \A d \in FDs : fd[p][d] # 0 => fpipe'[fd[p][d]] = fpipe[fd[p][d]]
StillFor(p) == \A i \in Pipes : chan[p] = PipeChan(i) =>
  /\ level'[i] = level[i]
  /\ readers[i] > 0 => readers'[i] > 0
  /\ writers[i] > 0 => writers'[i] > 0

\* A process that at most is woken.
LEMMA SideKept ==
  ASSUME FileInv, NEW p \in Pids, Side(p), Kept(p), Live(p)' <=> Live(p), fd'[p] = fd[p],
         EndsKeptFor(p), state'[p] = "sleep" => StillFor(p)
  PROVE  Side(p)'
<1> DEFINE d == pc[p].arg[1]
<1>1. pc'[p] = pc[p] /\ fd'[p] = fd[p]
  BY DEF Kept
<1>2. Closed(p)'
  BY <1>1 DEF Side, Closed
<1>3. HoldsEnd(p)'
  BY <1>1 DEF Side, HoldsEnd
<1>4. SleepsOnPipe(p)'
  <2> SUFFICES ASSUME state'[p] = "sleep" PROVE SleepsOnPipe(p)'
    BY DEF SleepsOnPipe
  <2>1. state[p] = "sleep" /\ chan'[p] = chan[p] /\ StillFor(p)
    BY DEF Kept
  <2>2. pc[p].at = "blocked"
    BY <2>1 DEF Side, SleepsOnPipe
  <2>3. CASE pc[p].call \in {"read", "write"}
    <3>1. d \in FDs /\ fd[p][d] # 0
      BY <2>1, <2>2, <2>3 DEF Side, HoldsEnd, InPipe, Live
    <3>2. PipeOf(p, d) \in Pipes
      BY <3>1, HeldRefs
    <3>3. PipeOf(p, d)' = PipeOf(p, pc[p].arg[1])
      BY <1>1, <3>1 DEF PipeOf, EndsKeptFor
    <3>4. chan[p] = PipeChan(PipeOf(p, d))
      BY <2>1, <2>3 DEF Side, SleepsOnPipe
    <3> DEFINE i == PipeOf(p, d)
    <3>5. /\ pc[p].call = "read" => level[i] = 0 /\ writers[i] > 0
          /\ pc[p].call = "write" => level[i] = PipeSize /\ readers[i] > 0
      BY <2>1 DEF Side, SleepsOnPipe
    <3>6. PipeOf(p, pc[p].arg[1])' = i
      BY <1>1, <3>3
    <3> HIDE DEF i
    <3>7. level'[i] = level[i] /\ (readers[i] > 0 => readers'[i] > 0)
          /\ (writers[i] > 0 => writers'[i] > 0)
      BY <2>1, <3>2, <3>4 DEF StillFor, i
    <3>8. chan'[p] = PipeChan(i)
      BY <2>1, <3>4 DEF i
    <3> QED
      BY <1>1, <2>2, <3>5, <3>6, <3>7, <3>8 DEF SleepsOnPipe, PipeChan
  <2>4. CASE pc[p].call \notin {"read", "write"}
    BY <1>1, <2>2, <2>4 DEF SleepsOnPipe
  <2> QED
    BY <2>3, <2>4
<1> QED
  BY <1>2, <1>3, <1>4 DEF Side

\* A process that goes on outside the calls on pipes.
Elsewhere(p) == ~InPipe(pc'[p]) /\ (state'[p] = "sleep" => pc'[p].at = "blocked")

LEMMA SideElse ==
  ASSUME NEW p \in Pids, Side(p), Elsewhere(p), Live(p)' <=> Live(p), fd'[p] = fd[p]
  PROVE  Side(p)'
<1>1. Closed(p)'
  BY DEF Side, Closed
<1>2. HoldsEnd(p)' /\ SleepsOnPipe(p)'
  BY DEF HoldsEnd, SleepsOnPipe, Elsewhere, InPipe
<1> QED
  BY <1>1, <1>2 DEF Side

(* ---- the steps of K1Proc that leave the files alone ---- *)

\* The ways out of the calls that are not on pipes.
LEMMA ElseWays ==
  ASSUME TypeOK, state[cur] = "run"
  PROVE  /\ Return /\ Wakes(state, state') => Elsewhere(cur)
         /\ ReturnOnly => Elsewhere(cur)
         /\ \A st : GoExit(st) => Elsewhere(cur)
         /\ \A c, a : Restart(c, a) => Elsewhere(cur)
         /\ \A c, a : YieldIn(c, a) /\ c \notin PipeCalls => Elsewhere(cur)
         /\ \A ch, c, a : SleepOn(ch, c, a) /\ c \notin PipeCalls => Elsewhere(cur)
<1> USE DEF TypeOK, SchedTypeOK, Elsewhere, InPipe, PipeCalls, Watching
<1>1. Return /\ Wakes(state, state') => Elsewhere(cur)
  BY DEF Return, User, Wakes
<1>2. ReturnOnly => Elsewhere(cur)
  BY DEF ReturnOnly, Return, User
<1>3. \A st : GoExit(st) => Elsewhere(cur)
  BY DEF GoExit, Exiting
<1>4. \A c, a : Restart(c, a) => Elsewhere(cur)
  BY DEF Restart, Redo, User
<1>5. \A c, a : YieldIn(c, a) /\ c \notin PipeCalls => Elsewhere(cur)
  BY DEF YieldIn, Blocked
<1>6. \A ch, c, a : SleepOn(ch, c, a) /\ c \notin PipeCalls => Elsewhere(cur)
  BY DEF SleepOn, Blocked
<1> QED
  BY <1>1, <1>2, <1>3, <1>4, <1>5, <1>6

\* The calls.
LEMMA ElseCalls ==
  ASSUME TypeOK, CurRuns, CallInv,
         \/ VForkResume \/ Exit \/ Pause \/ Sigsuspend \/ PauseResume \/ Nanosleep \/ Yield
         \/ Alarm \/ Kill \/ Setpgid \/ Sigaction \/ Sigprocmask \/ Sigreturn
  PROVE  Elsewhere(cur)
<1>1. state[cur] = "run"
  BY DEF VForkResume, Exit, Pause, Sigsuspend, PauseResume, Nanosleep, Yield, Alarm, Kill, Setpgid,
         Sigaction, Sigprocmask, Sigreturn, Calling, Resumed, CurRuns
<1>2. CASE VForkResume
  BY <1>1, <1>2, ElseWays, PollNames DEF VForkResume
<1>3. CASE Exit
  BY <1>1, <1>3, ElseWays DEF Exit
<1>4. ASSUME NEW c \in {"pause", "sigsuspend"}, NEW m, PauseLoop(c, m) PROVE Elsewhere(cur)
  BY <1>1, <1>4, ElseWays, PollNames DEF PauseLoop
<1>5. CASE Pause \/ Sigsuspend
  BY <1>4, <1>5 DEF Pause, Sigsuspend
<1>6. CASE PauseResume
  <2>1. pc[cur].call \in {"pause", "sigsuspend"} /\ PauseLoop(pc[cur].call, sigmask[cur])
    BY <1>6 DEF PauseResume, Resumed
  <2> QED
    BY <1>4, <2>1
<1>7. CASE Nanosleep \/ Yield
  BY <1>1, <1>7, ElseWays, PollNames DEF Nanosleep, Yield
<1>8. CASE Alarm \/ Setpgid \/ Sigaction \/ Sigprocmask
  BY <1>1, <1>8, ElseWays DEF Alarm, Setpgid, Sigaction, Sigprocmask
<1>9. CASE Kill
  <2>1. Wakes(state, state')
    BY <1>9, RousedWakes DEF Kill, TypeOK, SchedTypeOK, States
  <2> QED
    BY <1>1, <1>9, <2>1, ElseWays DEF Kill
<1>10. CASE Sigreturn
  <2>1. frames[cur] # <<>> /\ frames[cur] \in Seq(Frames) /\ cur \in Pids
    BY <1>10 DEF Sigreturn, TypeOK, SigTypeOK, SchedTypeOK
  <2>2. frames[cur][1].saved.at # "blocked"
    BY <2>1 DEF CallInv, FramesOut
  <2>3. pc'[cur] = frames[cur][1].saved /\ state' = state
    BY <1>10, <2>1 DEF Sigreturn, TypeOK, SchedTypeOK
  <2> QED
    BY <1>1, <2>2, <2>3 DEF Elsewhere, InPipe
<1> QED
  BY <1>2, <1>3, <1>5, <1>6, <1>7, <1>8, <1>9, <1>10

\* The traps, the tails of the calls and the scheduler.
LEMMA ElseTraps ==
  ASSUME TypeOK, CurRuns, CallInv,
         \/ Tick \/ Fault \/ CheckTimers \/ Schedule \/ Halted \/ InitExit
         \/ DeliverNothing \/ DeliverFatal \/ DeliverHandler
  PROVE  Kept(cur) \/ Elsewhere(cur)
<1> USE DEF TypeOK, SchedTypeOK
<1>1. ASSUME NEW st, GoExit(st), mode \in {"user", "ret", "tick", "fault", "sigret"}
      PROVE  Elsewhere(cur)
  BY <1>1, ElseWays DEF CurRuns
<1>2. UNCHANGED <<state, chan, pc>> => Kept(cur)
  BY DEF Kept
<1>3. CASE Tick \/ InitExit \/ Halted
  BY <1>2, <1>3 DEF Tick, InitExit, Halted, vars, schedVars
<1>4. CASE Fault
  BY <1>1, <1>2, <1>4 DEF Fault
<1>5. CASE CheckTimers
  <2>1. PICK due \in SUBSET ArmedTimers : state' = Roused(state, due, ALRM)
    BY <1>5 DEF CheckTimers
  <2>2. Wakes(state, state')
    BY <2>1, RousedWakes DEF States
  <2> QED
    BY <1>5, <2>2 DEF CheckTimers, Kept, Wakes
<1>6. CASE Schedule
  BY <1>6 DEF Schedule, SchedulePass, SwitchTo, IsNext, Kept
<1>7. CASE DeliverNothing \/ DeliverFatal
  BY <1>1, <1>2, <1>7 DEF DeliverNothing, DeliverFatal, Delivering
<1>8. CASE DeliverHandler
  <2>1. mode \in {"ret", "tick", "fault", "sigret"} /\ state[cur] = "run"
    BY <1>8 DEF DeliverHandler, Delivering, CurRuns
  <2>2. GoExit(SEGV) \/ (pc' = [pc EXCEPT ![cur] = User] /\ state' = state)
    BY <1>8 DEF DeliverHandler
  <2> QED
    BY <1>1, <2>1, <2>2 DEF Elsewhere, InPipe, User
<1> QED
  BY <1>3, <1>4, <1>5, <1>6, <1>7, <1>8

\* A step of K1Proc that makes, ends and replaces no process: whether a
\* process is live stays, and each at most is woken or goes on outside the
\* calls on pipes.
Aside == \A p \in Pids : (Live(p)' <=> Live(p)) /\ (Kept(p) \/ Elsewhere(p))

LEMMA QuietLives ==
  ASSUME Quiet
  PROVE  \A p \in Pids : Live(p)' <=> Live(p)
BY DEF Quiet, Live

LEMMA AsideSteps ==
  ASSUME PipeProc, OtherProcStep
  PROVE  Aside
<1>0. TypeOK /\ CurRuns /\ CallInv /\ cur \in Pids
  BY DEF PipeProc, TreeInv, TypeOK, SchedTypeOK
<1>1. ASSUME Quiet, Others, Kept(cur) \/ Elsewhere(cur)
      PROVE  Aside
  BY <1>1, QuietLives DEF Aside, Others
<1>2. CASE \/ Exit \/ Pause \/ Sigsuspend \/ PauseResume \/ Nanosleep \/ Yield \/ Alarm
           \/ Kill \/ Setpgid \/ Sigaction \/ Sigprocmask
  BY <1>0, <1>1, <1>2, QuietCalls, OrdinaryCalls, ElseCalls
<1>3. CASE Sigreturn
  BY <1>0, <1>1, <1>3, QuietCalls, OrdinaryTraps, ElseCalls
<1>4. CASE VForkResume
  <2>1. Others
    BY <1>0, <1>4 DEF VForkResume, SleepOn, ReturnOnly, Return, Others, Kept, TypeOK, SchedTypeOK
  <2> QED
    BY <1>0, <1>1, <1>4, <2>1, QuietCalls, ElseCalls
<1>5. CASE \/ Tick \/ Fault \/ CheckTimers \/ Schedule \/ Halted \/ InitExit
           \/ DeliverNothing \/ DeliverFatal \/ DeliverHandler
  BY <1>0, <1>1, <1>5, QuietTraps, OrdinaryTraps, ElseTraps
<1>6. CASE Wait4 \/ WaitNoHang \/ Wait4Resume
  <2>1. PICK a, nohang : Wait4Pass(a, nohang)
    BY <1>6 DEF Wait4, WaitNoHang, Wait4Resume
  <2>2. state[cur] = "run"
    BY <1>0, <1>6 DEF Wait4, WaitNoHang, Wait4Resume, Calling, Resumed, CurRuns
  <2>3. CASE Quiet /\ Others /\ ~\E z \in ZombiesOf(a) : Reap(z)
    <3>1. Elsewhere(cur)
      BY <1>0, <2>1, <2>2, <2>3, ElseWays, PollNames DEF Wait4Pass
    <3> QED
      BY <1>1, <2>3, <3>1
  <2>4. ASSUME NEW z \in Pids, Reaps(z), Reap(z)
        PROVE  Aside
    <3>1. /\ state' = [state EXCEPT ![z] = "free"] /\ chan' = [chan EXCEPT ![z] = NoChan]
          /\ pc' = [pc EXCEPT ![z] = User, ![cur] = User]
          /\ state[z] = "zombie" /\ z # cur
      BY <2>4 DEF Reap, Reaps
    <3>2. ASSUME NEW p \in Pids PROVE (Live(p)' <=> Live(p)) /\ (Kept(p) \/ Elsewhere(p))
      BY <1>0, <2>2, <3>1 DEF Live, Kept, Elsewhere, InPipe, User, TypeOK, SchedTypeOK
    <3> QED
      BY <3>2 DEF Aside
  <2>5. ASSUME NEW z \in ZombiesOf(a), Reap(z)
        PROVE  z \in Pids /\ Reaps(z) /\ Reap(z)
    BY <1>0, <2>2, <2>5 DEF ZombiesOf, Waited, Children, Reap, Reaps
  <2>6. CASE ~\E z \in ZombiesOf(a) : Reap(z)
    <3>1. Others
      BY <1>0, <2>1, <2>2, <2>6 DEF Wait4Pass, ReturnOnly, Return, Restart, GoExit, SleepOn, Others,
           Kept, TypeOK, SchedTypeOK
    <3>2. UNCHANGED <<nextpid, ppid, status>>
      BY <2>1, <2>6 DEF Wait4Pass, treeVars
    <3>3. Quiet
      BY <1>0, <2>1, <2>2, <2>6, <3>2, QuietSched DEF Wait4Pass
    <3> QED
      BY <2>3, <2>6, <3>1, <3>3
  <2> QED
    BY <2>4, <2>5, <2>6
<1> QED
  BY <1>2, <1>3, <1>4, <1>5, <1>6 DEF OtherProcStep

\* The sides of a step that leaves the files alone.
LEMMA AsideSides ==
  ASSUME FileInv, Sides, Aside, UNCHANGED pipeVars
  PROVE  Sides'
<1> SUFFICES ASSUME NEW p \in Pids PROVE Side(p)'
  BY DEF Sides
<1>1. Side(p) /\ (Live(p)' <=> Live(p)) /\ fd'[p] = fd[p]
  BY DEF Sides, Aside, pipeVars
<1>2. EndsKeptFor(p) /\ StillFor(p)
  BY DEF EndsKeptFor, StillFor, pipeVars
<1>3. CASE Kept(p)
  BY <1>1, <1>2, <1>3, SideKept
<1>4. CASE Elsewhere(p)
  BY <1>1, <1>4, SideElse
<1> QED
  BY <1>3, <1>4 DEF Aside

\* A process that comes back inside a call on a pipe still has the end open.
LEMMA ResumedEnd ==
  ASSUME TypeOK, CurRuns, Sides, KernelBlocked, NEW c \in PipeCalls, Resumed(c)
  PROVE  /\ c \in Calls /\ state[cur] = "run"
         /\ pc[cur].arg[1] \in Int /\ pc[cur].arg[2] \in Int
         /\ c \in {"read", "write"} \/ pc[cur].arg[2] # 0 =>
              pc[cur].arg[1] \in FDs /\ fd[cur][pc[cur].arg[1]] # 0
         /\ c \in {"read", "write"} => pc[cur].arg[2] \in Nat \ {0} /\ pc[cur].arg[3] \in Nat
<1>1. cur \in Pids /\ pc[cur] \in PCs
  BY DEF TypeOK, SchedTypeOK
<1>2. c \in Calls /\ state[cur] = "run"
  BY PollNames, CallRuns
<1>3. /\ pc[cur].call = c
      /\ c \in {"read", "write"} \/ pc[cur].arg[2] # 0 => InPipe(pc[cur])
  BY DEF Resumed, KernelBlocked, InPipe, Watching, PipeCalls
<1>4. HoldsEnd(cur)
  BY <1>1 DEF Sides, Side
<1>5. pc[cur].arg[1] \in Int /\ pc[cur].arg[2] \in Int
  BY <1>1 DEF PCs
<1> QED
  BY <1>2, <1>3, <1>4, <1>5 DEF HoldsEnd, Live

\* The calls on descriptors.
PipeMakes == Close \/ Dup \/ Dup3 \/ PipeCall \/ OpenFifo
PipeMoves == Read \/ ReadResume \/ Write \/ WriteResume
PipePolls == Poll \/ PPoll \/ PollResume \/ ReadWriteElse

\* Descriptors that are made, copied and closed.
LEMMA MakesStep ==
  ASSUME TypeOK, CurRuns, FileInv, PipeMakes
  PROVE  Serves /\ CurSide /\ FilesFollow
<1>1. cur \in Pids
  BY DEF TypeOK, SchedTypeOK
<1>2. Serves /\ CurSide
  BY DescServes DEF PipeMakes
<1>3. FilesFollow
  <2>1. CASE Close \/ Dup
    BY <1>1, <2>1, CloseOK, DupOK DEF FilesFollow
  <2>2. CASE Dup3 \/ PipeCall \/ OpenFifo
    BY <1>1, <2>2, Dup3OK, PipeCallOK, OpenFifoOK
  <2> QED
    BY <2>1, <2>2 DEF PipeMakes
<1> QED
  BY <1>2, <1>3

\* Bytes that are read and written.
LEMMA MovesStep ==
  ASSUME TypeOK, CurRuns, FileInv, Sides, KernelBlocked, PipeMoves
  PROVE  Serves /\ CurSide /\ FilesFollow
<1>1. cur \in Pids /\ state \in [Pids -> States]
  BY DEF TypeOK, SchedTypeOK, States
<1>2. CASE Read \/ ReadResume
  <2>1. PICK d, n : /\ "read" \in Calls /\ state[cur] = "run"
                    /\ d \in FDs /\ fd[cur][d] # 0 /\ n \in Nat \ {0} /\ ReadPass(d, n)
    <3>1. CASE Read
      <4>1. PICK d \in OpenFds, n \in Sizes : Calling("read", <<d, n, 0>>) /\ ReadPass(d, n)
        BY <3>1 DEF Read
      <4>2. "read" \in Calls /\ state[cur] = "run" /\ d \in FDs /\ fd[cur][d] # 0
            /\ n \in Nat \ {0}
        BY <4>1, CallRuns, PipeAssumption DEF OpenFds
      <4> QED
        BY <4>1, <4>2
    <3>2. CASE ReadResume
      <4>1. Resumed("read") /\ ReadPass(pc[cur].arg[1], pc[cur].arg[2]) /\ "read" \in PipeCalls
        BY <3>2 DEF ReadResume, PipeCalls
      <4> QED
        BY <4>1, ResumedEnd
    <3> QED
      BY <1>2, <3>1, <3>2
  <2> QED
    BY <1>1, <2>1, ReadServes, ReadOK
<1>3. CASE Write \/ WriteResume
  <2>1. PICK d, n, done : /\ "write" \in Calls /\ state[cur] = "run" /\ done \in Nat
                          /\ d \in FDs /\ fd[cur][d] # 0 /\ n \in Nat \ {0}
                          /\ WritePass(d, n, done)
    <3>1. CASE Write
      <4>1. PICK d \in OpenFds, n \in Sizes : Calling("write", <<d, n, 0>>) /\ WritePass(d, n, 0)
        BY <3>1 DEF Write
      <4>2. "write" \in Calls /\ state[cur] = "run" /\ d \in FDs /\ fd[cur][d] # 0
            /\ n \in Nat \ {0}
        BY <4>1, CallRuns, PipeAssumption DEF OpenFds
      <4> QED
        BY <4>1, <4>2
    <3>2. CASE WriteResume
      <4>1. /\ Resumed("write") /\ "write" \in PipeCalls
            /\ WritePass(pc[cur].arg[1], pc[cur].arg[2], pc[cur].arg[3])
        BY <3>2 DEF WriteResume, PipeCalls
      <4> QED
        BY <4>1, ResumedEnd
    <3> QED
      BY <1>3, <3>1, <3>2
  <2> QED
    BY <1>1, <2>1, WriteServes, WriteOK
<1> QED
  BY <1>2, <1>3 DEF PipeMoves

\* Looks of poll, and calls that are on no pipe: the files stay.
LEMMA PollsLook ==
  ASSUME PipePolls
  PROVE  UNCHANGED pipeVars
<1>1. PPoll \/ ReadWriteElse \/ \E c, d, ev : PollPass(c, d, ev)
  BY DEF PipePolls, Poll, PollResume
<1> QED
  BY <1>1 DEF PPoll, PollPass, ReadWriteElse, KeepFiles, pipeVars

\* A pass of poll is made by a process in that call.
LEMMA PassCalls ==
  ASSUME TypeOK, CurRuns, Sides, KernelBlocked, Poll \/ PollResume
  PROVE  \E c \in Polls, d \in Int, ev \in Int :
           /\ c \in Calls /\ state[cur] = "run" /\ (ev # 0 => d \in FDs) /\ PollPass(c, d, ev)
<1>1. CASE Poll
  <2>1. PICK c \in Polls \ Masked, d \in FDs, ev \in {0, POLLIN, POLLOUT} :
          Calling(c, <<d, ev, 0>>) /\ PollPass(c, d, ev)
    BY <1>1 DEF Poll
  <2>2. c \in Calls /\ state[cur] = "run" /\ d \in Int /\ ev \in Int
    BY <2>1, CallRuns, PipeSets DEF POLLIN, POLLOUT
  <2> QED
    BY <2>1, <2>2
<1>2. CASE PollResume
  <2>1. PICK c \in Polls : Resumed(c) /\ PollPass(c, pc[cur].arg[1], pc[cur].arg[2])
    BY <1>2 DEF PollResume
  <2>2. c \in PipeCalls
    BY DEF PipeCalls
  <2> QED
    BY <2>1, <2>2, ResumedEnd
<1> QED
  BY <1>1, <1>2

LEMMA PollsStep ==
  ASSUME TypeOK, CurRuns, FileInv, Sides, KernelBlocked, PipePolls
  PROVE  Serves /\ CurSide /\ FilesFollow
<1>1. FilesFollow
  BY PollsLook, FilesStay
<1>2. CASE Poll \/ PollResume
  BY <1>1, <1>2, PassCalls, PollServes
<1>3. CASE PPoll
  BY <1>1, <1>3, PPollServes
<1>4. CASE ReadWriteElse
  <2>1. /\ ReturnOnly /\ UNCHANGED <<treeVars, sa, frames, asyncfull, alarm>>
        /\ UNCHANGED <<sigpend, sigmask, suspend>>
    BY <1>4 DEF ReadWriteElse, KeepProcs, sigVars
  <2>2. state[cur] = "run"
    BY <1>4, CallRuns DEF ReadWriteElse
  <2>3. Wakes(state, state)
    BY NoneWakes DEF TypeOK, SchedTypeOK, States
  <2> QED
    BY <1>1, <2>1, <2>2, <2>3, SameSignals, ReturnServes DEF ReturnOnly
<1> QED
  BY <1>2, <1>3, <1>4 DEF PipePolls

\* A step of the running process that its descriptors follow: the others at
\* most wake.
LEMMA FollowSides ==
  ASSUME FileInv, Sides, CurSide, RowsKept, EndsKept, Announced,
         \A p \in Pids \ {cur} : Kept(p) /\ (Live(p)' <=> Live(p))
  PROVE  Sides'
<1>1. ASSUME NEW p \in Pids, p # cur PROVE Side(p)'
  <2>1. Kept(p) /\ (Live(p)' <=> Live(p))
    BY <1>1
  <2>2. fd'[p] = fd[p] /\ EndsKeptFor(p) /\ (state'[p] = "sleep" => StillFor(p))
    BY <1>1 DEF RowsKept, EndsKept, Announced, EndsKeptFor, StillFor
  <2>3. Side(p)
    BY DEF Sides
  <2> QED
    BY <2>1, <2>2, <2>3, SideKept
<1>2. ASSUME NEW p \in Pids PROVE Side(p)'
  BY <1>1 DEF CurSide
<1> QED
  BY <1>2 DEF Sides

\* A turn is such a step.
LEMMA ServedSides ==
  ASSUME FileInv, Sides, Serves, CurSide, RowsKept, EndsKept, Announced
  PROVE  Sides'
<1>1. PICK x : Turn(x)
  BY DEF Serves
<1>2. OthersWoken /\ pc' = [pc EXCEPT ![cur] = x]
  BY <1>1 DEF Turn, Hands
<1>3. ASSUME NEW p \in Pids \ {cur} PROVE Kept(p) /\ (Live(p)' <=> Live(p))
  BY <1>2 DEF OthersWoken, Kept, Live
<1> QED
  BY <1>3, FollowSides

\* The calls on descriptors keep everything.
LEMMA ServedStep ==
  ASSUME PipeProc, FileInv, Sides, KernelBlocked, PipeMakes \/ PipeMoves \/ PipePolls
  PROVE  PipeProc' /\ FileInv' /\ Sides' /\ KernelBlocked'
<1>1. TypeOK /\ CurRuns
  BY DEF PipeProc, TreeInv
<1>2. Serves /\ CurSide /\ FilesFollow
  BY <1>1, MakesStep, MovesStep, PollsStep
<1>3. FileInv' /\ Sides'
  BY <1>2, ServedSides DEF FilesFollow
<1>4. PICK x : Turn(x)
  BY <1>2 DEF Serves
<1>5. PipeProc'
  BY <1>4, TurnKeeps
<1>6. KernelBlocked'
  BY <1>4 DEF Turn, Hands, KernelBlocked
<1> QED
  BY <1>3, <1>5, <1>6

\* Only the scheduler gives the CPU to a process inside a call.
LEMMA WaysMode ==
  /\ Return \/ ReturnOnly => mode' # "kernel"
  /\ \A st : GoExit(st) => mode' # "kernel"
  /\ \A c, a : Restart(c, a) \/ YieldIn(c, a) => mode' # "kernel"
  /\ \A ch, c, a : SleepOn(ch, c, a) => mode' # "kernel"
BY DEF Return, ReturnOnly, GoExit, Restart, YieldIn, SleepOn

LEMMA KernelStep ==
  ASSUME KernelBlocked, OtherProcStep
  PROVE  KernelBlocked'
<1>1. CASE Exit \/ Alarm \/ Kill \/ Setpgid \/ Sigaction \/ Sigprocmask \/ Nanosleep \/ Yield
  <2>1. mode' # "kernel"
    BY <1>1, WaysMode DEF Exit, Alarm, Kill, Setpgid, Sigaction, Sigprocmask, Nanosleep, Yield
  <2> QED
    BY <2>1 DEF KernelBlocked
<1>2. CASE Wait4 \/ WaitNoHang \/ Wait4Resume
  <2>1. PICK a, nohang : Wait4Pass(a, nohang)
    BY <1>2 DEF Wait4, WaitNoHang, Wait4Resume
  <2>2. mode' # "kernel"
    BY <2>1, WaysMode DEF Wait4Pass, Reap
  <2> QED
    BY <2>2 DEF KernelBlocked
<1>3. CASE Pause \/ Sigsuspend \/ PauseResume \/ VForkResume
  <2>1. mode' # "kernel"
    BY <1>3, WaysMode DEF Pause, Sigsuspend, PauseResume, VForkResume, PauseLoop
  <2> QED
    BY <2>1 DEF KernelBlocked
<1>4. CASE Tick \/ Fault \/ CheckTimers \/ Sigreturn \/ InitExit
  <2>1. mode' # "kernel"
    BY <1>4, WaysMode DEF Tick, Fault, CheckTimers, Sigreturn, InitExit
  <2> QED
    BY <2>1 DEF KernelBlocked
<1>5. CASE DeliverNothing \/ DeliverFatal \/ DeliverHandler
  <2>1. mode' # "kernel"
    BY <1>5, WaysMode DEF DeliverNothing, DeliverFatal, DeliverHandler, GoOn
  <2> QED
    BY <2>1 DEF KernelBlocked
<1>6. CASE Schedule
  BY <1>6 DEF Schedule, SchedulePass, SwitchTo, KernelBlocked
<1>7. CASE Halted
  BY <1>7 DEF Halted, vars, schedVars, KernelBlocked
<1> QED
  BY <1>1, <1>2, <1>3, <1>4, <1>5, <1>6, <1>7 DEF OtherProcStep

\* A step of K1Proc alone.
LEMMA ProcStep ==
  ASSUME PipeProc, Next
  PROVE  PipeProc'
<1>1. TreeInv /\ TypeOK /\ CurRuns /\ CallInv /\ SuspendInv /\ NoSleepThroughSignal
  BY DEF PipeProc, TreeInv
<1>2. TreeInv'
  BY <1>1, TreeStep
<1>3. CallInv'
  BY <1>1, CallStep
<1>4. SuspendInv'
  BY <1>1, SuspendStep
<1>5. NoSleepThroughSignal'
  BY <1>1, HeardStep
<1> QED
  BY <1>2, <1>3, <1>4, <1>5 DEF PipeProc

\* fork and vfork: the child shares what its parent holds.
LEMMA ForkStep ==
  ASSUME PipeProc, FileInv, Sides, PipeFork
  PROVE  PipeProc' /\ FileInv' /\ Sides' /\ KernelBlocked'
<1>1. /\ TypeOK /\ CurRuns /\ Fresh /\ cur \in Pids
      /\ state \in [Pids -> States] /\ chan \in [Pids -> Chans] /\ pc \in [Pids -> PCs]
  BY DEF PipeProc, TreeInv, TypeOK, SchedTypeOK, States
<1>2. PipeProc'
  BY ProcStep DEF PipeFork, Next, SystemCall
<1>3. state[cur] = "run" /\ nextpid \in Pids
  BY <1>1, CallRuns DEF PipeFork, Fork, VFork, NewChild
<1>4. state[nextpid] = "free" /\ pc[nextpid] = User /\ nextpid # cur
  BY <1>1, <1>3, MaxPidAssumption DEF Fresh, Pids
<1>5. \A d \in FDs : fd[nextpid][d] = 0
  BY <1>3, <1>4 DEF Sides, Side, Closed, Live
<1>6. /\ FileInv' /\ \A p \in Pids \ {nextpid} : fd'[p] = fd[p]
  BY <1>1, <1>3, <1>4, <1>5, ForkFilesOK DEF PipeFork
<1>7. UNCHANGED <<fpipe, readers, writers, level>>
  BY DEF PipeFork, ForkFiles
<1>8. \/ /\ state' = [state EXCEPT ![nextpid] = "run"] /\ chan' = chan
         /\ pc' = [pc EXCEPT ![cur] = User] /\ mode' = "ret"
      \/ /\ state' = [state EXCEPT ![nextpid] = "run", ![cur] = "sleep"]
         /\ chan' = [chan EXCEPT ![cur] = ProcChan(nextpid)]
         /\ pc' = [pc EXCEPT ![cur] = Blocked("vfork", Arg(nextpid))] /\ mode' = "sched"
  BY DEF PipeFork, Fork, VFork, NewChild, Return
<1>9. KernelBlocked'
  BY <1>8 DEF KernelBlocked
<1>10. ASSUME NEW p \in Pids PROVE Side(p)'
  <2>1. CASE p = nextpid
    <3>1. state'[p] = "run" /\ pc'[p] = User
      BY <1>1, <1>4, <1>8, <2>1
    <3> QED
      BY <3>1, SideOut, UserOut
  <2>2. CASE p = cur
    <3>1. Elsewhere(p) /\ (Live(p)' <=> Live(p))
      BY <1>1, <1>3, <1>4, <1>8, <2>2, PollNames, UserOut
         DEF Elsewhere, InPipe, Watching, PipeCalls, Blocked, Live
    <3>2. fd'[p] = fd[p] /\ Side(p)
      BY <1>4, <1>6, <2>2 DEF Sides
    <3> QED
      BY <3>1, <3>2, SideElse
  <2>3. CASE p \notin {nextpid, cur}
    <3>1. Kept(p) /\ (Live(p)' <=> Live(p))
      BY <1>1, <1>8, <2>3 DEF Kept, Live
    <3>2. fd'[p] = fd[p] /\ Side(p) /\ EndsKeptFor(p) /\ StillFor(p)
      BY <1>6, <1>7, <2>3 DEF Sides, EndsKeptFor, StillFor
    <3> QED
      BY <3>1, <3>2, SideKept
  <2> QED
    BY <2>1, <2>2, <2>3
<1> QED
  BY <1>2, <1>6, <1>9, <1>10 DEF Sides

\* The others in exec and exit: they at most wake, and who sleeps on was not
\* woken by a close.
ClosesAside(D) == \A p \in Pids \ {cur} :
  /\ Kept(p) /\ (Live(p)' <=> Live(p))
  /\ state'[p] = "sleep" => WokenByPut(D)[p] = "sleep"

LEMMA ExecOthers ==
  ASSUME TypeOK, NEW D, ExecWith(WokenByPut(D))
  PROVE  ClosesAside(D)
<1> DEFINE st0 == WokenByPut(D)
<1>1. /\ state \in [Pids -> States] /\ pc \in [Pids -> PCs]
      /\ state' = ReleasedState(st0) /\ chan' = chan /\ pc' = [pc EXCEPT ![cur] = User]
  BY DEF TypeOK, SchedTypeOK, States, ExecWith, Return
<1>2. Wakes(state, st0)
  BY <1>1, PutWakes
<1> HIDE DEF st0
<1>3. Wakes(st0, state')
  BY <1>1, <1>2, ReleasedWakes DEF Wakes
<1>4. ASSUME NEW p \in Pids \ {cur}
      PROVE  /\ Kept(p) /\ (Live(p)' <=> Live(p))
             /\ state'[p] = "sleep" => st0[p] = "sleep"
  BY <1>1, <1>2, <1>3 DEF Wakes, Kept, Live
<1> QED
  BY <1>4 DEF ClosesAside, st0

LEMMA ExitOthers ==
  ASSUME TypeOK, cur \in Pids, NEW D, ExitWith(WokenByPut(D))
  PROVE  ClosesAside(D)
<1> DEFINE st0 == WokenByPut(D)
           st1 == WokenByOrphans(ReleasedState(st0))
           st2 == [st1 EXCEPT ![cur] = "zombie"]
           st3 == Roused(st2, Parents, CHLD)
<1>1. /\ state \in [Pids -> States]
      /\ state' = WokenParents(st3) /\ chan' = chan /\ pc' = pc
  BY DEF TypeOK, SchedTypeOK, States, ExitWith
<1>2. Wakes(state, st0)
  BY <1>1, PutWakes
<1> HIDE DEF st0
<1>3. Wakes(st0, ReleasedState(st0))
  BY <1>2, ReleasedWakes DEF Wakes
<1>4. Wakes(ReleasedState(st0), st1)
  BY <1>3, OrphansWakes DEF Wakes
<1> HIDE DEF st1
<1>5. st2 \in [Pids -> States] /\ \A p \in Pids \ {cur} : st2[p] = st1[p]
  BY <1>4 DEF Wakes, States
<1> HIDE DEF st2
<1>6. Wakes(st2, st3)
  BY <1>5, RousedWakes
<1> HIDE DEF st3
<1>7. Wakes(st3, state')
  BY <1>1, <1>6, ParentsWakes DEF Wakes
<1>8. ASSUME NEW p \in Pids \ {cur}
      PROVE  /\ state'[p] = "sleep" => st0[p] = "sleep"
             /\ state'[p] = state[p] \/ (state[p] = "sleep" /\ state'[p] = "run")
  BY <1>2, <1>3, <1>4, <1>5, <1>6, <1>7 DEF Wakes
<1>9. ASSUME NEW p \in Pids \ {cur}
      PROVE  /\ Kept(p) /\ (Live(p)' <=> Live(p))
             /\ state'[p] = "sleep" => st0[p] = "sleep"
  BY <1>1, <1>8 DEF Kept, Live
<1> QED
  BY <1>9 DEF ClosesAside, st0

\* exec: the close-on-exec descriptors close, and the old stack's frames go.
LEMMA ExecStep ==
  ASSUME PipeProc, FileInv, Sides, PipeExec
  PROVE  PipeProc' /\ FileInv' /\ Sides' /\ KernelBlocked'
<1> DEFINE D == CloexecFds
           st0 == WokenByPut(D)
<1>1. /\ TypeOK /\ CurRuns /\ TreeInv /\ CallInv /\ SuspendInv /\ NoSleepThroughSignal
      /\ cur \in Pids /\ state \in [Pids -> States]
      /\ frames \in [Pids -> Seq(Frames)] /\ pc \in [Pids -> PCs]
  BY DEF PipeProc, TreeInv, TypeOK, SchedTypeOK, SigTypeOK, States
<1>2. ExecWith(st0) /\ DropFds(D) /\ D \in SUBSET FDs
  BY DEF PipeExec, CloexecFds, OpenFds
<1>3. Wakes(state, st0)
  BY <1>1, PutWakes
<1> HIDE DEF D, st0
<1>4. TypeOK' /\ Quiet /\ Wakes(state, state')
  BY <1>1, <1>2, <1>3, TypeExec, QuietExec
<1>5. TreeInv'
  BY <1>1, <1>4, TreeQuiet DEF TreeInv, Quiet
<1>6. /\ state[cur] = "run" /\ Return /\ pc' = [pc EXCEPT ![cur] = User] /\ cur' = cur
      /\ mode' = "ret" /\ frames' = [frames EXCEPT ![cur] = <<>>]
      /\ UNCHANGED <<chan, suspend, sigmask, sigpend>>
  BY <1>1, <1>2, CallRuns DEF ExecWith, Return
<1>7. GoesOn(User) /\ Hands(User)
  BY <1>6, WaysOn, WaysHand
<1>8. \A p \in Pids : frames'[p] = frames[p] \/ frames'[p] = <<>>
  BY <1>1, <1>6
<1>9. CallInv'
  <2>1. OutOfVfork' /\ OutOfCall'
    BY <1>1, <1>7, CallGoesOn
  <2>2. FramesOut'
    BY <1>1, <1>8 DEF CallInv, FramesOut
  <2> QED
    BY <2>1, <2>2 DEF CallInv
<1>10. SuspendInv'
  <2>1. DeadStay /\ Alone
    BY <1>4, <1>6 DEF DeadStay, Alone, Wakes
  <2>2. Dying' /\ WaitMasks'
    BY <1>1, <1>7, <2>1, HandsKeeps DEF SuspendInv
  <2>3. FreeClean'
    BY <1>1, <1>4, <1>6 DEF SuspendInv, FreeClean, Wakes
  <2>4. FramesLive'
    BY <1>1, <1>8 DEF SuspendInv, FramesLive
  <2>5. RestartAllowed'
    BY <1>1, <1>6 DEF RestartAllowed, User
  <2> QED
    BY <2>2, <2>3, <2>4, <2>5 DEF SuspendInv
<1>11. Silent
  BY <1>1, <1>4, <1>6, SilentRun
<1>12. NoSleepThroughSignal'
  BY <1>1, <1>11, SilentHeard, HeardKeeps
<1>13. FileInv' /\ RowsKept /\ EndsKept
  BY <1>1, <1>2, DropFdsOK
<1>14. ClosesAside(D)
  BY <1>1, <1>2, ExecOthers DEF st0
<1>15. Announced
  BY <1>2, <1>14, PutAnnounces DEF DropFds, ClosesAside
<1>16. CurSide
  <2>1. ASSUME NEW p \in Pids, p = cur PROVE Side(p)'
    <3>1. state'[p] = "run" /\ pc'[p] = User
      BY <1>1, <1>4, <1>6, <2>1 DEF Wakes
    <3> QED
      BY <3>1, SideOut, UserOut
  <2> QED
    BY <2>1 DEF CurSide
<1>17. Sides'
  BY <1>13, <1>14, <1>15, <1>16, FollowSides DEF ClosesAside
<1> QED
  BY <1>5, <1>6, <1>9, <1>10, <1>12, <1>13, <1>17 DEF PipeProc, KernelBlocked

\* exit: every descriptor closes.
LEMMA ExitStep ==
  ASSUME PipeProc, FileInv, Sides, PipeDoExit
  PROVE  PipeProc' /\ FileInv' /\ Sides' /\ KernelBlocked'
<1> DEFINE D == OpenFds
           st0 == WokenByPut(D)
<1>1. /\ TypeOK /\ CurRuns /\ TreeInv /\ CallInv /\ SuspendInv /\ NoSleepThroughSignal
      /\ cur \in Pids /\ state \in [Pids -> States]
  BY DEF PipeProc, TreeInv, TypeOK, SchedTypeOK, States
<1>2. /\ mode = "exit" /\ cur # 1 /\ ExitWith(st0) /\ DropFds(D)
      /\ D \in SUBSET FDs /\ \A d \in FDs : d \in D \/ fd[cur][d] = 0
  BY DEF PipeDoExit, OpenFds
<1>3. Wakes(state, st0)
  BY <1>1, PutWakes
<1> HIDE DEF D, st0
<1>4. TypeOK' /\ Ends
  BY <1>1, <1>2, <1>3, TypeEnd, ExitWithEnds
<1>5. TreeInv'
  BY <1>1, <1>4, TreeEnds DEF TreeInv
<1>6. /\ pc' = pc /\ cur' = cur /\ chan' = chan /\ frames' = frames /\ suspend' = suspend
      /\ mode' = "sched"
  BY <1>2 DEF ExitWith
<1>7. /\ state[cur] = "run" /\ state'[cur] = "zombie"
      /\ \A p \in Pids \ {cur} : state'[p] = state[p] \/ (state[p] = "sleep" /\ state'[p] = "run")
  BY <1>4 DEF Ends
<1>8. CallInv'
  BY <1>1, <1>6 DEF CallInv, OutOfVfork, OutOfCall, FramesOut
<1>9. SuspendInv'
  <2>1. Dying'
    BY <1>1, <1>6, <1>7 DEF SuspendInv, Dying
  <2>2. WaitMasks'
    BY <1>1, <1>2, <1>6 DEF SuspendInv, WaitMasks
  <2>3. FreeClean'
    BY <1>1, <1>6, <1>7 DEF SuspendInv, FreeClean
  <2>4. FramesLive' /\ RestartAllowed'
    BY <1>1, <1>6 DEF SuspendInv, FramesLive, RestartAllowed
  <2> QED
    BY <2>1, <2>2, <2>3, <2>4 DEF SuspendInv
<1>10. NoSleepThroughSignal'
  BY <1>1, <1>2, <1>3, EndHeard, HeardKeeps
<1>11. FileInv' /\ RowsKept /\ EndsKept
  BY <1>1, <1>2, DropFdsOK
<1>12. ClosesAside(D)
  BY <1>1, <1>2, ExitOthers DEF st0
<1>13. Announced
  BY <1>2, <1>12, PutAnnounces DEF DropFds, ClosesAside
<1>14. CurSide
  <2>1. ASSUME NEW p \in Pids, p = cur PROVE Side(p)'
    <3>1. \A d \in FDs : fd'[p][d] = 0
      BY <1>1, <1>2, <2>1 DEF DropFds, FileInv, FdTypes
    <3> QED
      BY <1>7, <2>1, <3>1 DEF Side, Closed, HoldsEnd, SleepsOnPipe, Live
  <2> QED
    BY <2>1 DEF CurSide
<1>15. Sides'
  BY <1>11, <1>12, <1>13, <1>14, FollowSides DEF ClosesAside
<1> QED
  BY <1>5, <1>6, <1>8, <1>9, <1>10, <1>11, <1>15 DEF PipeProc, KernelBlocked

(* ---- the whole ---- *)

\* The invariant of the processes together with their descriptors.
PipeInv == PipeProc /\ FileInv /\ Sides /\ KernelBlocked

\* At the start nothing is open.
LEMMA FilesInit == PipeInit => FileInv
<1> SUFFICES ASSUME PipeInit PROVE FileInv
  OBVIOUS
<1>1. /\ fd = [p \in Pids |-> [d \in FDs |-> 0]] /\ cloexec = [p \in Pids |-> [d \in FDs |-> FALSE]]
      /\ refs = [f \in Files |-> 0] /\ fpipe = [f \in Files |-> 0] /\ wend = [f \in Files |-> 0]
      /\ readers = [i \in Pipes |-> 0] /\ writers = [i \in Pipes |-> 0]
      /\ level = [i \in Pipes |-> 0] /\ fifo = 0
  BY DEF PipeInit
<1>2. FdTypes /\ EndTypes /\ refs \in [Files -> Nat] /\ FilesOpen
  BY <1>1, PipeSets DEF FdTypes, EndTypes, FilesOpen
<1>3. HeldCounts
  <2>1. ASSUME NEW f \in Files PROVE refs[f] = Cardinality(Holders(f))
    <3>1. Holders(f) = {}
      BY <1>1, PipeSets DEF Holders, HoldersIn
    <3> QED
      BY <1>1, <3>1, FS_EmptySet
  <2> QED
    BY <2>1 DEF HeldCounts
<1>4. EndCounts
  <2>1. ASSUME NEW i \in Pipes
        PROVE  readers[i] = Cardinality(ReadEnds(i)) /\ writers[i] = Cardinality(WriteEnds(i))
    <3>1. ReadEnds(i) = {} /\ WriteEnds(i) = {}
      BY <1>1, PipeSets DEF ReadEnds, WriteEnds
    <3> QED
      BY <1>1, <3>1, FS_EmptySet
  <2> QED
    BY <2>1 DEF EndCounts
<1> QED
  BY <1>2, <1>3, <1>4 DEF FileInv

\* The invariant holds at the start.
LEMMA PipeInitInv == PipeInit => PipeInv
<1> SUFFICES ASSUME PipeInit PROVE PipeInv
  OBVIOUS
<1>1. Init
  BY DEF PipeInit
<1>2. /\ mode = "user" /\ \A p \in Pids : state[p] # "sleep" /\ pc[p] = User /\ fd[p] = [d \in FDs |-> 0]
  BY DEF PipeInit, Init
<1>3. NoSleepThroughSignal
  BY <1>2 DEF NoSleepThroughSignal
<1>4. PipeProc
  BY <1>1, <1>3, TreeInit, CallInit, SuspendInit DEF PipeProc
<1>5. Sides
  BY <1>2 DEF Sides, Side, Closed, HoldsEnd, SleepsOnPipe, InPipe, User
<1>6. KernelBlocked
  BY <1>2 DEF KernelBlocked
<1> QED
  BY <1>4, <1>5, <1>6, FilesInit DEF PipeInv

\* A step of the processes that leaves the descriptors alone.
LEMMA OtherStep ==
  ASSUME PipeInv, OtherProcStep
  PROVE  PipeInv'
<1>1. PipeProc /\ FileInv /\ Sides /\ KernelBlocked /\ UNCHANGED pipeVars
  BY DEF PipeInv, OtherProcStep
<1>2. Next
  BY DEF OtherProcStep, Next, SystemCall
<1>3. PipeProc'
  BY <1>1, <1>2, ProcStep
<1>4. FileInv'
  BY <1>1, FilesStay DEF FilesFollow
<1>5. Sides'
  BY <1>1, AsideSteps, AsideSides
<1>6. KernelBlocked'
  BY <1>1, KernelStep
<1> QED
  BY <1>3, <1>4, <1>5, <1>6 DEF PipeInv

\* A step in which nothing changes.
LEMMA StillStep ==
  ASSUME PipeInv, UNCHANGED allVars
  PROVE  PipeInv'
<1>1. /\ PipeProc /\ FileInv /\ Sides /\ KernelBlocked /\ UNCHANGED pipeVars /\ UNCHANGED vars
  BY DEF PipeInv, allVars
<1>2. UNCHANGED <<mode, cur, state, chan, pc, sigpend, sigmask>>
  BY <1>1 DEF vars, schedVars, sigVars
<1>3. TypeOK /\ TreeInv /\ CallInv /\ SuspendInv /\ NoSleepThroughSignal
  BY <1>1 DEF PipeProc, TreeInv
<1>4. NoSleepThroughSignal'
  BY <1>2, <1>3 DEF NoSleepThroughSignal, Deliverable
<1>5. PipeProc'
  BY <1>1, <1>3, <1>4, TreeStep, CallStep, SuspendStep DEF PipeProc
<1>6. FileInv'
  BY <1>1, FilesStay DEF FilesFollow
<1>7. Aside
  BY <1>2 DEF Aside, Kept, Live
<1>8. Sides' /\ KernelBlocked'
  BY <1>1, <1>2, <1>7, AsideSides DEF KernelBlocked
<1> QED
  BY <1>5, <1>6, <1>8 DEF PipeInv

\* Every step keeps the invariant.
LEMMA PipeStep == PipeInv /\ [PipeNext]_allVars => PipeInv'
<1> SUFFICES ASSUME PipeInv, [PipeNext]_allVars PROVE PipeInv'
  OBVIOUS
<1>1. PipeProc /\ FileInv /\ Sides /\ KernelBlocked
  BY DEF PipeInv
<1>2. CASE OtherProcStep
  BY <1>2, OtherStep
<1>3. CASE PipeFork \/ PipeExec \/ PipeDoExit
  BY <1>1, <1>3, ForkStep, ExecStep, ExitStep DEF PipeInv
<1>4. CASE PipeMakes \/ PipeMoves \/ PipePolls
  BY <1>1, <1>4, ServedStep DEF PipeInv
<1>5. CASE UNCHANGED allVars
  BY <1>5, StillStep
<1> QED
  BY <1>2, <1>3, <1>4, <1>5 DEF PipeNext, PipeMakes, PipeMoves, PipePolls

\* The whole invariant holds in every run.
LEMMA PipeInvHolds == PipeSpec => []PipeInv
BY PipeInitInv, PipeStep, PTL DEF PipeSpec

\* The descriptors, the files and the pipes keep their types: no count goes
\* below zero and no ring over PIPESZ.
THEOREM PipeTypesHold == PipeSpec => []PipeTypeOK
<1>1. PipeInv => PipeTypeOK
  BY FileInvGives DEF PipeInv
<1> QED
  BY <1>1, PipeInvHolds, PTL

\* file_put, file_dup, fork, exec and exit: f->refs is the number of
\* descriptors that hold f, a pipe's readers and writers are its open ends.
THEOREM CountsAlwaysExact == PipeSpec => []CountsExact
<1>1. PipeInv => CountsExact
  BY FileInvGives DEF PipeInv
<1> QED
  BY <1>1, PipeInvHolds, PTL

\* pipe_read, pipe_write and do_poll: a pipe a process is blocked on is not
\* freed under it.
THEOREM BlockedPipesOpen == PipeSpec => []BlockedOnOpenPipe
<1>1. PipeInv => BlockedOnOpenPipe
  <2> SUFFICES ASSUME PipeInv, NEW p \in Pids, Live(p), InPipe(pc[p])
               PROVE  LET d == pc[p].arg[1] IN
                      fd[p][d] # 0 /\ PipeOf(p, d) # 0 /\ ~PipeFree(PipeOf(p, d))
    BY DEF BlockedOnOpenPipe
  <2>1. FileInv /\ HoldsEnd(p)
    BY DEF PipeInv, Sides, Side
  <2>2. pc[p].arg[1] \in FDs /\ fd[p][pc[p].arg[1]] # 0
    BY <2>1 DEF HoldsEnd
  <2>3. PipeOf(p, pc[p].arg[1]) \in Pipes /\ ~PipeFree(PipeOf(p, pc[p].arg[1]))
    BY <2>1, <2>2, HeldRefs
  <2> QED
    BY <2>2, <2>3, PipeSets
<1> QED
  BY <1>1, PipeInvHolds, PTL

\* pipe_read, pipe_write and pipe_put: no wakeup of a pipe is lost.
THEOREM NoPipeWakeupLost == PipeSpec => []PipeSleepersWait
<1>1. PipeInv => PipeSleepersWait
  BY DEF PipeInv, Sides, Side, SleepsOnPipe, PipeSleepersWait
<1> QED
  BY <1>1, PipeInvHolds, PTL

\* mask_after_wait with ppoll among the calls: no user code runs under the mask
\* of a wait, except the handler that ends it.
THEOREM PollMasksEnd == PipeSpec => []WaitMaskEnds
<1>1. PipeInv => WaitMaskEnds
  <2> SUFFICES ASSUME PipeInv, mode \in {"user", "entry"} PROVE suspend[cur] = {}
    BY DEF WaitMaskEnds
  <2> QED
    BY NotWaiting DEF PipeInv, PipeProc, TreeInv, SuspendInv
<1> QED
  BY <1>1, PipeInvHolds, PTL

\* send_signal with the sleeps of pipes and poll: no process sleeps with a
\* signal it does not mask.
THEOREM PipeSignalsHeard == PipeSpec => []NoSleepThroughSignal
<1>1. PipeInv => NoSleepThroughSignal
  BY DEF PipeInv, PipeProc
<1> QED
  BY <1>1, PipeInvHolds, PTL

(* ---- what a sleeping poller can miss ---- *)

\* A poller sleeps on pollq, and was not ready, but for a ring filled since.
\* (A select for writing does not mind the writers.)
Unready(c, f, ev) ==
  /\ wend[f] # 1 /\ (c \in Selects => ev = POLLIN) => writers[fpipe[f]] > 0
                    /\ (ev = POLLIN => level[fpipe[f]] \in {0, PipeSize})
  /\ wend[f] # 0 /\ (c \in Selects => ev \in {POLLIN, POLLOUT}) => readers[fpipe[f]] > 0
                    /\ (ev = POLLOUT => level[fpipe[f]] = PipeSize)
PollWaits(p) == state[p] = "sleep" /\ Watching(pc[p]) =>
  chan[p] = Pollq /\ Unready(pc[p].call, fd[p][pc[p].arg[1]], pc[p].arg[2])
PollsWait == \A p \in Pids : PollWaits(p)

\* What p's sleep in poll rests on: its files keep their ends, no pipe loses its
\* last reader or writer, and no level moves but to a full ring.
EndKeptFor(p) == \A d \in FDs : fd[p][d] # 0 =>
  fpipe'[fd[p][d]] = fpipe[fd[p][d]] /\ wend'[fd[p][d]] = wend[fd[p][d]]
OnlyFills == \A i \in Pipes : /\ level'[i] \in {level[i], PipeSize}
                              /\ readers[i] > 0 => readers'[i] > 0
                              /\ writers[i] > 0 => writers'[i] > 0
PollStill(p) == state'[p] = "sleep" /\ chan[p] = Pollq => EndKeptFor(p) /\ OnlyFills

LEMMA PollKept ==
  ASSUME FileInv, NEW p \in Pids, Side(p), PollWaits(p), Kept(p), fd'[p] = fd[p], PollStill(p)
  PROVE  PollWaits(p)'
<1> DEFINE d == pc[p].arg[1]
           ev == pc[p].arg[2]
           f == fd[p][d]
           i == fpipe[f]
           c == pc[p].call
<1> SUFFICES ASSUME state'[p] = "sleep", Watching(pc[p])'
             PROVE  chan'[p] = Pollq /\ Unready(pc[p].call, fd[p][pc[p].arg[1]], pc[p].arg[2])'
  BY DEF PollWaits
<1>1. pc'[p] = pc[p] /\ state[p] = "sleep" /\ chan'[p] = chan[p] /\ Watching(pc[p])
  BY DEF Kept, Watching
<1>2. chan[p] = Pollq /\ Unready(c, f, ev)
  BY <1>1 DEF PollWaits
<1>3. EndKeptFor(p) /\ OnlyFills
  BY <1>2 DEF PollStill
<1>4. d \in FDs /\ f # 0
  BY <1>1 DEF Side, SleepsOnPipe, HoldsEnd, InPipe, Live
<1>5. i \in Pipes
  BY <1>4, HeldRefs DEF PipeOf
<1>6. fpipe'[f] = i /\ wend'[f] = wend[f]
  BY <1>3, <1>4 DEF EndKeptFor
<1>7. /\ level'[i] \in {level[i], PipeSize} /\ (readers[i] > 0 => readers'[i] > 0)
      /\ (writers[i] > 0 => writers'[i] > 0)
  BY <1>3, <1>5 DEF OnlyFills
<1>8. f' = f /\ ev' = ev /\ c' = c
  BY <1>1
<1> HIDE DEF d, ev, c
<1>9. /\ wend[f] # 1 /\ (c \in Selects => ev = POLLIN) => writers[i] > 0 /\ (ev = POLLIN => level[i] \in {0, PipeSize})
      /\ wend[f] # 0 /\ (c \in Selects => ev \in {POLLIN, POLLOUT})
         => readers[i] > 0 /\ (ev = POLLOUT => level[i] = PipeSize)
  BY <1>2 DEF Unready
<1> HIDE DEF f, i
<1>10. /\ wend'[f] # 1 /\ (c \in Selects => ev = POLLIN)
            => writers'[fpipe'[f]] > 0 /\ (ev = POLLIN => level'[fpipe'[f]] \in {0, PipeSize})
       /\ wend'[f] # 0 /\ (c \in Selects => ev \in {POLLIN, POLLOUT})
            => readers'[fpipe'[f]] > 0 /\ (ev = POLLOUT => level'[fpipe'[f]] = PipeSize)
  BY <1>6, <1>7, <1>9
<1>11. Unready(c, f, ev)'
  BY <1>8, <1>10 DEF Unready
<1> QED
  BY <1>1, <1>2, <1>11 DEF f, d, ev, c

\* A process outside poll waits for nothing there.
LEMMA PollElse ==
  ASSUME NEW p, state'[p] # "sleep" \/ ~Watching(pc'[p])
  PROVE  PollWaits(p)'
BY DEF PollWaits, Watching

\* The running process in such a step.
CurPolls == \A p \in Pids : p = cur => PollWaits(p)'
PollFollow == \A p \in Pids \ {cur} : PollStill(p)

LEMMA FollowPolls ==
  ASSUME FileInv, Sides, PollsWait, CurPolls, PollFollow, RowsKept,
         \A p \in Pids \ {cur} : Kept(p)
  PROVE  PollsWait'
<1>1. ASSUME NEW p \in Pids, p # cur PROVE PollWaits(p)'
  BY <1>1, PollKept DEF Sides, PollsWait, PollFollow, RowsKept
<1> QED
  BY <1>1 DEF CurPolls, PollsWait

\* Nothing of the files changes.
LEMMA StillPolls ==
  ASSUME FileInv, UNCHANGED <<fpipe, wend, readers, writers>>,
         level' = level \/ \E i \in Pipes : level' = [level EXCEPT ![i] = PipeSize]
  PROVE  \A p : PollStill(p)
<1>1. OnlyFills
  BY DEF OnlyFills, FileInv, EndTypes
<1> QED
  BY <1>1 DEF PollStill, EndKeptFor

\* The last closes wake every poller; no other close takes an end away.
LEMMA PutPolls ==
  ASSUME FileInv, cur \in Pids, NEW D \in SUBSET FDs, PutEnds(D),
         \A p \in Pids \ {cur} : state'[p] = "sleep" => WokenByPut(D)[p] = "sleep"
  PROVE  PollFollow
<1> SUFFICES ASSUME NEW p \in Pids \ {cur}, state'[p] = "sleep", chan[p] = Pollq
             PROVE  EndKeptFor(p) /\ OnlyFills
  BY DEF PollFollow, PollStill
<1>1. Put(D) = {}
  BY DEF WokenByPut
<1>2. \A i \in Pipes : ReadersAfter(D)[i] = readers[i] /\ WritersAfter(D)[i] = writers[i]
  <2>1. ASSUME NEW i \in Pipes
        PROVE  ReadersAfter(D)[i] = readers[i] /\ WritersAfter(D)[i] = writers[i]
    <3> DEFINE rs == {f \in Put(D) : fpipe[f] = i /\ wend[f] # 1}
               ws == {f \in Put(D) : fpipe[f] = i /\ wend[f] # 0}
    <3>1. rs = {} /\ ws = {}
      BY <1>1
    <3>2. readers[i] \in Nat /\ writers[i] \in Nat
      BY DEF FileInv, EndTypes
    <3>3. /\ ReadersAfter(D)[i] = readers[i] - Cardinality(rs)
          /\ WritersAfter(D)[i] = writers[i] - Cardinality(ws)
      BY DEF ReadersAfter, WritersAfter
    <3> HIDE DEF rs, ws
    <3>4. Cardinality(rs) = 0 /\ Cardinality(ws) = 0
      BY <3>1, FS_EmptySet
    <3> QED
      BY <3>2, <3>3, <3>4
  <2> QED
    BY <2>1
<1>3. Freed(D) = {}
  BY <1>2 DEF Freed, PipeFree
<1>4. /\ fpipe' = [f \in Files |-> fpipe[f]] /\ wend' = [f \in Files |-> wend[f]]
      /\ level' = [i \in Pipes |-> level[i]]
      /\ \A i \in Pipes : readers'[i] = readers[i] /\ writers'[i] = writers[i]
  BY <1>1, <1>2, <1>3 DEF PutEnds
<1>5. OnlyFills
  BY <1>4 DEF OnlyFills
<1>6. EndKeptFor(p)
  BY <1>4 DEF EndKeptFor, FileInv, FdTypes
<1> QED
  BY <1>5, <1>6

\* When the pollers are woken none of them waits.
LEMMA WokenPolls ==
  ASSUME state \in [Pids -> States],
         state' = Woken(state, Pollq) \/ \E i : state' = WokenPipe(state, i)
  PROVE  PollFollow
<1>1. ASSUME NEW p \in Pids, chan[p] = Pollq PROVE state'[p] # "sleep"
  <2>1. CASE state' = Woken(state, Pollq)
    BY <1>1, <2>1 DEF Woken
  <2>2. ASSUME NEW i, state' = WokenPipe(state, i) PROVE state'[p] # "sleep"
    BY <1>1, <2>2 DEF WokenPipe, Woken
  <2> QED
    BY <2>1, <2>2
<1> QED
  BY <1>1 DEF PollFollow, PollStill

\* The running process goes on outside poll.
LEMMA OutOfPoll ==
  ASSUME TypeOK, NEW x, pc' = [pc EXCEPT ![cur] = x], x.call \notin Polls
  PROVE  CurPolls
<1>1. ASSUME NEW p \in Pids, p = cur PROVE PollWaits(p)'
  <2>1. pc'[p] = x
    BY <1>1 DEF TypeOK, SchedTypeOK
  <2> QED
    BY <2>1, PollElse DEF Watching
<1> QED
  BY <1>1 DEF CurPolls

\* Or awake.
LEMMA AwakeOfPoll ==
  ASSUME state'[cur] # "sleep"
  PROVE  CurPolls
<1>1. ASSUME NEW p \in Pids, p = cur PROVE PollWaits(p)'
  BY <1>1, PollElse
<1> QED
  BY <1>1 DEF CurPolls

\* pipe2 gives the ends of a pipe that had none to files no one holds.
LEMMA PipeCallPolls ==
  ASSUME TypeOK, FileInv, PipeCall
  PROVE  PollFollow
<1> DEFINE x == Min(FreeFds)
           y == Min(FreeFds \ {x})
           r == Min(FreeFiles)
           w == Min(FreeFiles \ {r})
<1>1. PICK i, ce : /\ i \in Pipes /\ PipeFree(i) /\ Cardinality(FreeFiles) > 1
        /\ IF Cardinality(FreeFds) < 2
           THEN /\ state' = Woken(state, Pollq)
                /\ UNCHANGED pipeVars
           ELSE /\ fd' = [fd EXCEPT ![cur][x] = r, ![cur][y] = w]
                /\ cloexec' = [cloexec EXCEPT ![cur][x] = ce, ![cur][y] = ce]
                /\ refs' = [refs EXCEPT ![r] = 1, ![w] = 1]
                /\ fpipe' = [fpipe EXCEPT ![r] = i, ![w] = i]
                /\ wend' = [wend EXCEPT ![r] = 0, ![w] = 1]
                /\ readers' = [readers EXCEPT ![i] = 1]
                /\ writers' = [writers EXCEPT ![i] = 1]
                /\ UNCHANGED <<level, fifo, state>>
  BY Zenon DEF PipeCall
<1>2. CASE state' = Woken(state, Pollq)
  BY <1>2, WokenPolls DEF TypeOK, SchedTypeOK, States
<1>3. CASE /\ fpipe' = [fpipe EXCEPT ![r] = i, ![w] = i]
           /\ wend' = [wend EXCEPT ![r] = 0, ![w] = 1]
           /\ readers' = [readers EXCEPT ![i] = 1] /\ writers' = [writers EXCEPT ![i] = 1]
           /\ level' = level
  <2>1. IsFiniteSet(FreeFiles) /\ FreeFiles \in SUBSET FreeFiles /\ FreeFiles # {}
    <3>1. FreeFiles \subseteq Files
      BY DEF FreeFiles
    <3>2. IsFiniteSet(FreeFiles)
      BY <3>1, PipeSets, FS_Subset
    <3>3. FreeFiles # {}
      BY <1>1, FS_EmptySet
    <3> QED
      BY <3>2, <3>3
  <2>2. r \in FreeFiles /\ refs[r] = 0
    BY <2>1, FreeFile
  <2> HIDE DEF r
  <2>3. FreeFiles \ {r} # {} /\ FreeFiles \ {r} \in SUBSET FreeFiles
    <3>1. Cardinality(FreeFiles) \in Nat /\ Cardinality(FreeFiles) > 1
      BY <1>1, <2>1, FS_CardinalityType
    <3>2. ~(Cardinality(FreeFiles) < 2)
      BY <3>1
    <3>3. FreeFiles \ {r} # {}
      BY <2>1, <2>2, <3>2, AnotherOne
    <3> QED
      BY <3>3
  <2>4. refs[w] = 0
    BY <2>3, FreeFile
  <2> HIDE DEF w
  <2>5. ASSUME NEW p \in Pids PROVE EndKeptFor(p)
    <3> SUFFICES ASSUME NEW d \in FDs, fd[p][d] # 0
                 PROVE  /\ fpipe'[fd[p][d]] = fpipe[fd[p][d]]
                        /\ wend'[fd[p][d]] = wend[fd[p][d]]
      BY DEF EndKeptFor
    <3>1. fd[p][d] \in Files /\ fd[p][d] # r /\ fd[p][d] # w
      BY <2>2, <2>4, HeldRefs
    <3> QED
      BY <1>3, <3>1 DEF FileInv, EndTypes
  <2>6. OnlyFills
    BY <1>3 DEF OnlyFills, FileInv, EndTypes
  <2> QED
    BY <2>5, <2>6 DEF PollFollow, PollStill
<1> QED
  BY <1>1, <1>2, <1>3

\* An open of the FIFO adds an end.
LEMMA OpenFifoPolls ==
  ASSUME TypeOK, FileInv, OpenFifo
  PROVE  PollFollow
<1> DEFINE f == Min(FreeFiles)
<1>1. PICK i, end : /\ i \in Pipes /\ FreeFiles # {}
        /\ \/ state' = WokenPipe(state, i)
           \/ /\ fpipe' = [fpipe EXCEPT ![f] = i]
              /\ wend' = [wend EXCEPT ![f] = end]
              /\ readers' = IF end # 1 THEN [readers EXCEPT ![i] = @ + 1] ELSE readers
              /\ writers' = IF end # 0 THEN [writers EXCEPT ![i] = @ + 1] ELSE writers
              /\ level' = level
  BY Zenon DEF OpenFifo
<1>2. CASE state' = WokenPipe(state, i)
  BY <1>2, WokenPolls DEF TypeOK, SchedTypeOK, States
<1>3. CASE /\ fpipe' = [fpipe EXCEPT ![f] = i]
           /\ wend' = [wend EXCEPT ![f] = end]
           /\ readers' = IF end # 1 THEN [readers EXCEPT ![i] = @ + 1] ELSE readers
           /\ writers' = IF end # 0 THEN [writers EXCEPT ![i] = @ + 1] ELSE writers
           /\ level' = level
  <2>1. refs[f] = 0
    BY <1>1, FreeFile
  <2> HIDE DEF f
  <2>2. ASSUME NEW p \in Pids PROVE EndKeptFor(p)
    <3> SUFFICES ASSUME NEW d \in FDs, fd[p][d] # 0
                 PROVE  /\ fpipe'[fd[p][d]] = fpipe[fd[p][d]]
                        /\ wend'[fd[p][d]] = wend[fd[p][d]]
      BY DEF EndKeptFor
    <3>1. fd[p][d] \in Files /\ fd[p][d] # f
      BY <2>1, HeldRefs
    <3> QED
      BY <1>3, <3>1 DEF FileInv, EndTypes
  <2>3. OnlyFills
    BY <1>1, <1>3 DEF OnlyFills, FileInv, EndTypes
  <2> QED
    BY <2>2, <2>3 DEF PollFollow, PollStill
<1> QED
  BY <1>1, <1>2, <1>3

\* Descriptors that are made, copied and closed.
LEMMA MakesPolls ==
  ASSUME TypeOK, FileInv, PipeMakes
  PROVE  PollFollow /\ CurPolls
<1>1. CurPolls
  <2>1. pc' = [pc EXCEPT ![cur] = User] /\ User.call = "none"
    BY DEF PipeMakes, Close, Dup, Dup3, PipeCall, OpenFifo, ReturnOnly, Return, User
  <2> QED
    BY <2>1, PollNames, OutOfPoll
<1>2. cur \in Pids
  BY DEF TypeOK, SchedTypeOK
<1>3. ASSUME NEW D \in SUBSET FDs, PutEnds(D), state' = WokenByPut(D) PROVE PollFollow
  BY <1>2, <1>3, PutPolls
<1>4. CASE Close
  <2>1. PICK d \in OpenFds : PutEnds({d}) /\ state' = WokenByPut({d})
    BY <1>4 DEF Close
  <2>2. {d} \in SUBSET FDs
    BY DEF OpenFds
  <2> QED
    BY <1>1, <1>3, <2>1, <2>2
<1>5. CASE Dup3
  <2>1. PICK e \in FDs : PutEnds({e} \cap OpenFds) /\ state' = WokenByPut({e} \cap OpenFds)
    BY <1>5 DEF Dup3
  <2>2. {e} \cap OpenFds \in SUBSET FDs
    BY DEF OpenFds
  <2> QED
    BY <1>1, <1>3, <2>1, <2>2
<1>6. CASE Dup
  <2>1. UNCHANGED <<fpipe, wend, readers, writers, level>>
    BY <1>6 DEF Dup
  <2> QED
    BY <1>1, <2>1, StillPolls DEF PollFollow
<1> QED
  BY <1>1, <1>4, <1>5, <1>6, PipeCallPolls, OpenFifoPolls DEF PipeMakes

\* Bytes that are read and written: only a filled ring wakes no poller.
LEMMA MovesPolls ==
  ASSUME TypeOK, CurRuns, FileInv, Sides, KernelBlocked, PipeMoves
  PROVE  PollFollow /\ CurPolls
<1>1. cur \in Pids /\ state \in [Pids -> States]
  BY DEF TypeOK, SchedTypeOK, States
<1>2. ASSUME NEW d, NEW n, ReadPass(d, n) PROVE PollFollow /\ CurPolls
  <2>1. PICK x : pc' = [pc EXCEPT ![cur] = x] /\ x.call \in {"none", "read"}
    <3>1. Return => pc' = [pc EXCEPT ![cur] = User] /\ User.call = "none"
      BY DEF Return, User
    <3>2. \A a : Redo("read", a).call = "read" /\ Blocked("read", a).call = "read"
                 /\ User.call = "none"
      BY DEF Redo, Blocked, User
    <3>3. CASE Restart("read", <<d, n, 0>>)
      BY <3>2, <3>3 DEF Restart
    <3>4. ASSUME NEW ch, SleepOn(ch, "read", <<d, n, 0>>)
          PROVE  \E x : pc' = [pc EXCEPT ![cur] = x] /\ x.call \in {"none", "read"}
      BY <3>2, <3>4 DEF SleepOn
    <3> QED
      BY <1>2, <3>1, <3>3, <3>4 DEF ReadPass, ReturnOnly
  <2>2. (\E i : state' = WokenPipe(state, i)) \/ level' = level
    BY <1>2 DEF ReadPass
  <2>3. KeepFiles
    BY <1>2 DEF ReadPass
  <2>4. PollFollow
    BY <1>1, <2>2, <2>3, WokenPolls, StillPolls DEF KeepFiles, PollFollow
  <2> QED
    BY <2>1, <2>4, PollNames, OutOfPoll
<1>3. ASSUME NEW d, NEW n, NEW done, PipeOf(cur, d) \in Pipes, WritePass(d, n, done)
      PROVE  PollFollow /\ CurPolls
  <2> DEFINE i == PipeOf(cur, d)
  <2>1. PICK x : pc' = [pc EXCEPT ![cur] = x] /\ x.call \in {"none", "write"}
    <3>1. Return => pc' = [pc EXCEPT ![cur] = User] /\ User.call = "none"
      BY DEF Return, User
    <3>2. \A a : Redo("write", a).call = "write" /\ Blocked("write", a).call = "write"
                 /\ User.call = "none"
      BY DEF Redo, Blocked, User
    <3> QED
      BY <1>3, <3>1, <3>2 DEF WritePass, ReturnOnly
  <2>2. \/ state' = WokenPipe(state, i) \/ level' = level
        \/ level' = [level EXCEPT ![i] = PipeSize]
    BY <1>3 DEF WritePass
  <2>3. KeepFiles
    BY <1>3 DEF WritePass
  <2> HIDE DEF i
  <2>4. i \in Pipes
    BY <1>3 DEF i
  <2>5. PollFollow
    BY <1>1, <2>2, <2>3, <2>4, WokenPolls, StillPolls DEF KeepFiles, PollFollow
  <2> QED
    BY <2>1, <2>5, PollNames, OutOfPoll
<1>4. CASE Read \/ ReadResume
  <2>1. PICK d, n : ReadPass(d, n)
    BY <1>4 DEF Read, ReadResume
  <2> QED
    BY <1>2, <2>1
<1>5. CASE Write
  <2>1. PICK d \in OpenFds, n \in Sizes : WritePass(d, n, 0)
    BY <1>5 DEF Write
  <2>2. d \in FDs /\ fd[cur][d] # 0
    BY DEF OpenFds
  <2>3. PipeOf(cur, d) \in Pipes
    BY <1>1, <2>2, HeldRefs
  <2> QED
    BY <1>3, <2>1, <2>3
<1>6. CASE WriteResume
  <2>1. /\ Resumed("write") /\ "write" \in PipeCalls
        /\ WritePass(pc[cur].arg[1], pc[cur].arg[2], pc[cur].arg[3])
    BY <1>6 DEF WriteResume, PipeCalls
  <2>2. pc[cur].arg[1] \in FDs /\ fd[cur][pc[cur].arg[1]] # 0
    BY <2>1, ResumedEnd
  <2>3. PipeOf(cur, pc[cur].arg[1]) \in Pipes
    BY <1>1, <2>2, HeldRefs
  <2> QED
    BY <1>3, <2>1, <2>3
<1> QED
  BY <1>4, <1>5, <1>6 DEF PipeMoves

\* A poll sleeps on what was not ready.
LEMMA NotReady ==
  ASSUME FileInv, NEW p \in Pids, NEW d \in FDs, fd[p][d] # 0, NEW ev, ev # 0, NEW c,
         ~Answers(c, p, d, ev)
  PROVE  Unready(c, fd[p][d], ev)
<1> DEFINE f == fd[p][d]
           i == fpipe[f]
<1>1. i \in Pipes
  BY HeldRefs DEF PipeOf
<1>2. /\ wend[f] # 1 /\ (c \in Selects => ev = POLLIN)
         => ~(writers[i] = 0 \/ (ev = POLLIN /\ level[i] > 0))
      /\ wend[f] # 0 /\ (c \in Selects => ev \in {POLLIN, POLLOUT})
         => ~(readers[i] = 0 \/ (ev = POLLOUT /\ level[i] < PipeSize))
  BY DEF Answers, Selected, Ready, POLLIN, POLLOUT
<1> HIDE DEF f
<1> HIDE DEF i
<1>3. /\ writers[i] \in Nat /\ readers[i] \in Nat /\ level[i] \in 0..PipeSize
      /\ PipeSize \in Nat \ {0}
  BY <1>1, PipeSets DEF FileInv, EndTypes
<1>4. /\ wend[f] # 1 /\ (c \in Selects => ev = POLLIN)
         => writers[i] > 0 /\ (ev = POLLIN => level[i] \in {0, PipeSize})
      /\ wend[f] # 0 /\ (c \in Selects => ev \in {POLLIN, POLLOUT})
         => readers[i] > 0 /\ (ev = POLLOUT => level[i] = PipeSize)
  BY <1>2, <1>3
<1> QED
  BY <1>4 DEF Unready, i, f

LEMMA SleepPolls ==
  ASSUME TypeOK, FileInv, NEW d, NEW ev, NEW c,
         Nothing(c, d, ev), SleepOn(Pollq, c, <<d, ev, 0>>), UNCHANGED pipeVars
  PROVE  CurPolls
<1>1. ASSUME NEW p \in Pids, p = cur PROVE PollWaits(p)'
  <2>1. chan'[p] = Pollq /\ pc'[p].call = c /\ pc'[p].arg[1] = d /\ pc'[p].arg[2] = ev
    BY <1>1 DEF SleepOn, Blocked, TypeOK, SchedTypeOK
  <2>2. CASE ev = 0
    BY <2>1, <2>2, PollElse DEF Watching
  <2>3. CASE ev # 0
    <3>1. d \in FDs /\ fd[p][d] # 0
      BY <1>1, <2>3 DEF Nothing, Answers
    <3>2. Unready(c, fd[p][d], ev)
      BY <1>1, <2>3, <3>1, NotReady DEF Nothing
    <3>3. Unready(c, fd[p][d], ev)'
      BY <3>2 DEF Unready, pipeVars
    <3>4. Unready(pc[p].call, fd[p][pc[p].arg[1]], pc[p].arg[2])'
      BY <2>1, <3>3
    <3> QED
      BY <2>1, <3>4 DEF PollWaits, Pollq
  <2> QED
    BY <2>2, <2>3
<1> QED
  BY <1>1 DEF CurPolls

\* Looks of poll: the files stay, and one that goes on to wait has found nothing.
LEMMA LooksWait ==
  ASSUME TypeOK, CurRuns, Sides, KernelBlocked, PipePolls
  PROVE  /\ state[cur] = "run"
         /\ \/ state' = state
            \/ \E c, d, ev : Nothing(c, d, ev) /\ SleepOn(Pollq, c, <<d, ev, 0>>)
<1>1. CASE Poll \/ PollResume
  <2>1. PICK c \in Polls, d \in Int, ev \in Int :
          state[cur] = "run" /\ (ev # 0 => d \in FDs) /\ PollPass(c, d, ev)
    BY <1>1, PassCalls
  <2> QED
    BY <2>1 DEF PollPass, ReturnOnly, Restart, YieldIn, Nothing
<1>2. CASE PPoll
  <2>1. PICK c \in Masked, d \in FDs, ev \in {POLLIN, POLLOUT} :
          /\ Calling(c, <<d, ev, 0>>)
          /\ \/ state' = state
             \/ ~Answers(c, cur, d, ev) /\ SleepOn(Pollq, c, <<d, ev, 0>>)
    BY <1>2 DEF PPoll, ReturnOnly, YieldIn
  <2> QED
    BY <2>1, CallRuns DEF Nothing
<1>3. CASE ReadWriteElse
  BY <1>3, CallRuns DEF ReadWriteElse, ReturnOnly
<1> QED
  BY <1>1, <1>2, <1>3 DEF PipePolls

LEMMA PollsPolls ==
  ASSUME TypeOK, CurRuns, FileInv, Sides, KernelBlocked, PipePolls
  PROVE  PollFollow /\ CurPolls
<1>1. UNCHANGED pipeVars
  BY PollsLook
<1>2. PollFollow
  BY <1>1, StillPolls DEF pipeVars, PollFollow
<1>3. CASE state' = state
  BY <1>2, <1>3, LooksWait, AwakeOfPoll
<1>4. CASE \E c, d, ev : Nothing(c, d, ev) /\ SleepOn(Pollq, c, <<d, ev, 0>>)
  BY <1>1, <1>2, <1>4, SleepPolls
<1> QED
  BY <1>3, <1>4, LooksWait

\* The calls on descriptors.
LEMMA ServedPolls ==
  ASSUME PipeInv, PollsWait, PipeMakes \/ PipeMoves \/ PipePolls
  PROVE  PollsWait'
<1>1. TypeOK /\ CurRuns /\ FileInv /\ Sides /\ KernelBlocked
  BY DEF PipeInv, PipeProc, TreeInv
<1>2. PollFollow /\ CurPolls
  BY <1>1, MakesPolls, MovesPolls, PollsPolls
<1>3. Serves /\ FilesFollow
  BY <1>1, MakesStep, MovesStep, PollsStep
<1>4. PICK x : Turn(x)
  BY <1>3 DEF Serves
<1>5. \A p \in Pids \ {cur} : Kept(p)
  BY <1>4 DEF Turn, Hands, OthersWoken, Kept
<1> QED
  BY <1>1, <1>2, <1>3, <1>5, FollowPolls DEF FilesFollow

\* fork and vfork.
LEMMA ForkPolls ==
  ASSUME PipeInv, PollsWait, PipeFork
  PROVE  PollsWait'
<1>1. /\ TypeOK /\ CurRuns /\ Fresh /\ FileInv /\ Sides /\ cur \in Pids
      /\ state \in [Pids -> States] /\ chan \in [Pids -> Chans] /\ pc \in [Pids -> PCs]
  BY DEF PipeInv, PipeProc, TreeInv, TypeOK, SchedTypeOK, States
<1>2. state[cur] = "run" /\ nextpid \in Pids
  BY <1>1, CallRuns DEF PipeFork, Fork, VFork, NewChild
<1>3. nextpid # cur
  BY <1>1, <1>2, MaxPidAssumption DEF Fresh, Pids
<1>4. /\ UNCHANGED <<fpipe, wend, readers, writers, level>>
      /\ fd' = [fd EXCEPT ![nextpid] = fd[cur]]
  BY DEF PipeFork, ForkFiles
<1>5. \/ /\ state' = [state EXCEPT ![nextpid] = "run"] /\ chan' = chan
         /\ pc' = [pc EXCEPT ![cur] = User]
      \/ /\ state' = [state EXCEPT ![nextpid] = "run", ![cur] = "sleep"]
         /\ chan' = [chan EXCEPT ![cur] = ProcChan(nextpid)]
         /\ pc' = [pc EXCEPT ![cur] = Blocked("vfork", Arg(nextpid))]
  BY DEF PipeFork, Fork, VFork, NewChild, Return
<1>6. ASSUME NEW p \in Pids PROVE PollWaits(p)'
  <2>1. CASE p = nextpid
    <3>1. state'[p] = "run"
      BY <1>1, <1>3, <1>5, <2>1
    <3> QED
      BY <3>1, PollElse
  <2>2. CASE p = cur
    <3>1. pc'[p].call \in {"none", "vfork"}
      BY <1>1, <1>5, <2>2 DEF User, Blocked
    <3> QED
      BY <3>1, PollNames, PollElse DEF Watching
  <2>3. CASE p \notin {nextpid, cur}
    <3>1. Kept(p) /\ fd'[p] = fd[p]
      BY <1>1, <1>4, <1>5, <2>3 DEF Kept, FileInv, FdTypes
    <3>2. Side(p) /\ PollWaits(p) /\ PollStill(p)
      BY <1>1, <1>4, StillPolls DEF Sides, PollsWait
    <3> QED
      BY <1>1, <3>1, <3>2, PollKept
  <2> QED
    BY <2>1, <2>2, <2>3
<1> QED
  BY <1>6 DEF PollsWait

\* exec and exit.
LEMMA DropPolls ==
  ASSUME PipeInv, PollsWait, PipeExec \/ PipeDoExit
  PROVE  PollsWait'
<1>1. /\ TypeOK /\ CurRuns /\ FileInv /\ Sides /\ cur \in Pids
      /\ state \in [Pids -> States] /\ pc \in [Pids -> PCs]
  BY DEF PipeInv, PipeProc, TreeInv, TypeOK, SchedTypeOK, States
<1>2. PICK D \in SUBSET FDs : DropFds(D) /\ ClosesAside(D)
  <2>1. CASE PipeExec
    <3>1. CloexecFds \in SUBSET FDs /\ DropFds(CloexecFds) /\ ExecWith(WokenByPut(CloexecFds))
      BY <2>1 DEF PipeExec, CloexecFds, OpenFds
    <3> QED
      BY <1>1, <3>1, ExecOthers
  <2>2. CASE PipeDoExit
    <3>1. OpenFds \in SUBSET FDs /\ DropFds(OpenFds) /\ ExitWith(WokenByPut(OpenFds))
      BY <2>2 DEF PipeDoExit, OpenFds
    <3> QED
      BY <1>1, <3>1, ExitOthers
  <2> QED
    BY <2>1, <2>2
<1>3. CurPolls
  <2>1. CASE PipeExec
    <3>1. pc' = [pc EXCEPT ![cur] = User] /\ User.call = "none"
      BY <2>1 DEF PipeExec, ExecWith, Return, User
    <3> QED
      BY <1>1, <3>1, PollNames, OutOfPoll
  <2>2. CASE PipeDoExit
    <3>1. ExitWith(WokenByPut(OpenFds)) /\ mode = "exit" /\ cur # 1
      BY <2>2 DEF PipeDoExit
    <3>2. Wakes(state, WokenByPut(OpenFds))
      BY <1>1, PutWakes
    <3>3. Ends
      BY <1>1, <3>1, <3>2, ExitWithEnds
    <3>4. state'[cur] = "zombie"
      BY <3>3 DEF Ends
    <3> QED
      BY <3>4, AwakeOfPoll
  <2> QED
    BY <2>1, <2>2
<1>4. PutEnds(D) /\ RowsKept
  BY <1>1, <1>2, DropFdsOK DEF DropFds
<1>5. PollFollow
  BY <1>1, <1>2, <1>4, PutPolls DEF ClosesAside
<1>6. \A p \in Pids \ {cur} : Kept(p)
  BY <1>2 DEF ClosesAside
<1> QED
  BY <1>1, <1>3, <1>4, <1>5, <1>6, FollowPolls

\* The steps that leave the descriptors alone.
LEMMA AsidePolls ==
  ASSUME FileInv, Sides, PollsWait, Aside, UNCHANGED pipeVars
  PROVE  PollsWait'
<1>1. ASSUME NEW p \in Pids PROVE PollWaits(p)'
  <2>1. Side(p) /\ PollWaits(p) /\ fd'[p] = fd[p]
    BY DEF Sides, PollsWait, pipeVars
  <2>2. PollStill(p)
    BY StillPolls DEF pipeVars
  <2>3. CASE Kept(p)
    BY <2>1, <2>2, <2>3, PollKept
  <2>4. CASE Elsewhere(p)
    <3>1. state'[p] # "sleep" \/ ~Watching(pc'[p])
      BY <2>4 DEF Elsewhere, InPipe
    <3> QED
      BY <3>1, PollElse
  <2> QED
    BY <2>3, <2>4 DEF Aside
<1> QED
  BY <1>1 DEF PollsWait

\* Every step keeps what the pollers rest on.
LEMMA PollsStay == PipeInv /\ PollsWait /\ [PipeNext]_allVars => PollsWait'
<1> SUFFICES ASSUME PipeInv, PollsWait, [PipeNext]_allVars PROVE PollsWait'
  OBVIOUS
<1>1. PipeProc /\ FileInv /\ Sides
  BY DEF PipeInv
<1>2. CASE OtherProcStep
  BY <1>1, <1>2, AsideSteps, AsidePolls DEF OtherProcStep
<1>3. CASE PipeFork \/ PipeExec \/ PipeDoExit
  BY <1>3, ForkPolls, DropPolls
<1>4. CASE PipeMakes \/ PipeMoves \/ PipePolls
  BY <1>4, ServedPolls
<1>5. CASE UNCHANGED allVars
  <2>1. UNCHANGED pipeVars /\ UNCHANGED <<state, chan, pc>>
    BY <1>5 DEF allVars, vars, schedVars
  <2>2. Aside
    BY <2>1 DEF Aside, Kept, Live
  <2> QED
    BY <1>1, <2>1, <2>2, AsidePolls
<1> QED
  BY <1>2, <1>3, <1>4, <1>5 DEF PipeNext, PipeMakes, PipeMoves, PipePolls

\* At the start no one sleeps.
LEMMA PollsInit == PipeInit => PollsWait
BY DEF PipeInit, Init, PollsWait, PollWaits

\* So a poller asleep on a ready descriptor waits on a full ring.
LEMMA MissedIsFull == PipeInv /\ PollsWait => OnlyFullRingMissed
<1> SUFFICES ASSUME PipeInv, PollsWait, NEW p \in Pids, PollerMissed(p)
             PROVE  FullRingMissed(p)
  BY DEF OnlyFullRingMissed
<1> DEFINE d == pc[p].arg[1]
           ev == pc[p].arg[2]
           f == fd[p][d]
           i == fpipe[f]
           c == pc[p].call
<1>1. state[p] = "sleep" /\ Watching(pc[p]) /\ Answers(c, p, d, ev)
  BY DEF PollerMissed
<1>2. FileInv /\ Side(p) /\ Unready(c, f, ev)
  BY <1>1 DEF PipeInv, Sides, PollsWait, PollWaits
<1>3. d \in FDs /\ f # 0
  BY <1>1, <1>2 DEF Side, SleepsOnPipe, HoldsEnd, InPipe, Live
<1>4. i \in Pipes
  BY <1>2, <1>3, HeldRefs DEF PipeOf
<1>5. /\ c \in Selects => ev \in {POLLIN, POLLOUT}
      /\ \/ /\ wend[f] # 1 /\ (c \in Selects => ev = POLLIN)
            /\ writers[i] = 0 \/ (ev = POLLIN /\ level[i] > 0)
         \/ /\ wend[f] # 0
            /\ readers[i] = 0 \/ (ev = POLLOUT /\ level[i] < PipeSize)
  BY <1>1, <1>3 DEF Answers, Selected, Ready
<1>6. /\ wend[f] # 1 /\ (c \in Selects => ev = POLLIN)
         => writers[i] > 0 /\ (ev = POLLIN => level[i] \in {0, PipeSize})
      /\ wend[f] # 0 /\ (c \in Selects => ev \in {POLLIN, POLLOUT})
         => readers[i] > 0 /\ (ev = POLLOUT => level[i] = PipeSize)
  BY <1>2 DEF Unready
<1> HIDE DEF i
<1>7. /\ writers[i] \in Nat /\ readers[i] \in Nat /\ level[i] \in 0..PipeSize
      /\ PipeSize \in Nat \ {0}
  BY <1>2, <1>4, PipeSets DEF FileInv, EndTypes
<1>8. /\ ev = POLLIN /\ wend[f] # 1 /\ level[i] = PipeSize
      /\ writers[i] > 0 /\ (wend[f] # 0 => readers[i] > 0)
  BY <1>5, <1>6, <1>7
<1> QED
  BY <1>8 DEF FullRingMissed, i

\* Every step keeps what the pollers rest on, and so do all steps.
LEMMA PollsHold == PipeSpec => [](PipeInv /\ PollsWait)
<1>1. PipeInit => PipeInv /\ PollsWait
  BY PipeInitInv, PollsInit
<1>2. PipeInv /\ PollsWait /\ [PipeNext]_allVars => PipeInv' /\ PollsWait'
  BY PipeStep, PollsStay
<1> QED
  BY <1>1, <1>2, PTL DEF PipeSpec

\* do_poll and do_select with pipe_write, file_put and send_signal: of what its call
\* was last made with, all a process asleep in poll, ppoll, select or pselect6 can
\* miss is that the ring has filled, whoever is killed or interrupted meanwhile.  (A
\* select that a signal restarted was last made with the sets do_select has emptied:
\* it watches nothing, which SelectKeepsAsking is about and this is not.)
THEOREM PollersMissOnlyFull == PipeSpec => []OnlyFullRingMissed
BY MissedIsFull, PollsHold, PTL

(* ---- where no signal ends a write ---- *)

\* A writer asleep on the full ring of pipe i.
WriterOn(q, i) == state[q] = "sleep" /\ pc[q].call = "write" /\ PipeOf(q, pc[q].arg[1]) = i
HasWriter(i) == \E q \in Pids : WriterOn(q, i)

\* No ring fills that was not full.
NoneFills == \A i \in Pipes : level'[i] = PipeSize => level[i] = PipeSize

\* A writer that sleeps on.
Spared(q) == pc'[q] = pc[q] /\ state'[q] = "sleep"
WriterKept(q) == Spared(q) /\ fd'[q] = fd[q] /\ EndsKeptFor(q)
AsleepInWrite(q) == state[q] = "sleep" /\ pc[q].call = "write"

\* A poller that misses something after a step it slept through: its pipe is
\* full, and if it was full before it missed that already.
LEMMA MissedBefore ==
  ASSUME FileInv, NEW p \in Pids, Side(p), PollWaits(p), Kept(p), fd'[p] = fd[p], PollStill(p),
         PollerMissed(p)', FullRingMissed(p)', NEW i, i = PipeOf(p, pc[p].arg[1])
  PROVE  /\ i \in Pipes /\ PipeOf(p, pc[p].arg[1])' = i
         /\ state[p] = "sleep" /\ chan[p] = Pollq
         /\ level'[i] = PipeSize /\ (level[i] = PipeSize => PollerMissed(p))
<1> DEFINE d == pc[p].arg[1]
           f == fd[p][d]
<1>1. /\ state'[p] = "sleep" /\ pc'[p] = pc[p] /\ state[p] = "sleep"
      /\ Watching(pc[p])
  BY DEF PollerMissed, Watching, Kept
<1>2. chan[p] = Pollq
  BY <1>1 DEF PollWaits
<1>3. EndKeptFor(p)
  BY <1>1, <1>2 DEF PollStill
<1>4. d \in FDs /\ f # 0
  BY <1>1 DEF Side, SleepsOnPipe, HoldsEnd, InPipe, Live
<1>5. i \in Pipes
  BY <1>4, HeldRefs
<1>6. fpipe'[f] = i /\ wend'[f] = wend[f] /\ fpipe[f] = i
  BY <1>3, <1>4 DEF EndKeptFor, PipeOf
<1>7. fd'[p][pc'[p].arg[1]] = f
  BY <1>1
<1>8. PipeOf(p, pc[p].arg[1])' = i
  BY <1>6, <1>7 DEF PipeOf
<1>9. pc[p].arg[2] = POLLIN /\ wend[f] # 1 /\ level'[i] = PipeSize
  BY <1>1, <1>6, <1>7 DEF FullRingMissed
<1>10. level[i] = PipeSize => Answers(pc[p].call, p, d, pc[p].arg[2])
  BY <1>6, <1>9, PipeSets DEF Answers, Selected, Ready, POLLIN
<1> QED
  BY <1>1, <1>2, <1>5, <1>8, <1>9, <1>10 DEF PollerMissed

\* A writer that sleeps on is still on its pipe.
LEMMA WriterStays ==
  ASSUME NEW q \in Pids, Side(q), NEW i, WriterOn(q, i), WriterKept(q)
  PROVE  WriterOn(q, i)'
<1> DEFINE d == pc[q].arg[1]
<1>1. d \in FDs /\ fd[q][d] # 0
  BY DEF Side, SleepsOnPipe, HoldsEnd, InPipe, Live, WriterOn
<1>2. pc'[q] = pc[q] /\ state'[q] = "sleep" /\ fd'[q] = fd[q]
  BY DEF WriterKept, Spared
<1>3. fpipe'[fd[q][d]] = fpipe[fd[q][d]]
  BY <1>1 DEF WriterKept, EndsKeptFor
<1>4. PipeOf(q, pc[q].arg[1])' = PipeOf(q, pc[q].arg[1])
  BY <1>2, <1>3 DEF PipeOf
<1> QED
  BY <1>2, <1>4 DEF WriterOn

\* A step in which no ring fills and the writers sleep on leaves every poller
\* that slept through it with the writer it had.
LEMMA StillHasWriter ==
  ASSUME FileInv, Sides, PollsWait, PollSleepersWait, NEW p \in Pids,
         Kept(p), fd'[p] = fd[p], PollStill(p), PollerMissed(p)', FullRingMissed(p)',
         NoneFills, \A q \in Pids : AsleepInWrite(q) => WriterKept(q)
  PROVE  HasWriter(PipeOf(p, pc[p].arg[1]))'
<1>1. PICK i : i = PipeOf(p, pc[p].arg[1])
  OBVIOUS
<1>2. Side(p) /\ PollWaits(p)
  BY DEF Sides, PollsWait
<1>3. /\ i \in Pipes /\ PipeOf(p, pc[p].arg[1])' = i
      /\ level'[i] = PipeSize /\ (level[i] = PipeSize => PollerMissed(p))
  BY <1>1, <1>2, MissedBefore
<1>4. PollerMissed(p)
  BY <1>3 DEF NoneFills
<1>5. PICK q \in Pids : WriterOn(q, i)
  BY <1>1, <1>4 DEF PollSleepersWait, WriterOn
<1>6. WriterKept(q) /\ Side(q)
  BY <1>5 DEF WriterOn, AsleepInWrite, Sides
<1>7. WriterOn(q, i)'
  BY <1>5, <1>6, WriterStays
<1> QED
  BY <1>3, <1>7 DEF HasWriter, WriterOn

(* ---- the steps that leave the files alone ---- *)

\* A process that a signal is about to take out of its sleep.
Signalled(q) == /\ pc'[q] = pc[q] /\ state[q] = "sleep" /\ state'[q] \in {"run", "sleep"}
                /\ sigpend'[q] \ (sigmask'[q] \ {KILL}) # {}

\* send_signal wakes whom it leaves a signal to deliver.
LEMMA RousedSignalled ==
  ASSUME TypeOK, NEW st \in [Pids -> States], NEW S, NEW s, NEW q \in Pids,
         st[q] = "sleep", Roused(st, S, s)[q] # "sleep"
  PROVE  /\ Pended(st, S, s)[q] \ (sigmask[q] \ {KILL}) # {}
         /\ Roused(st, S, s)[q] = "run"
<1>1. /\ q \in S /\ Accepts(st, q, s) /\ (s = KILL \/ (sigpend[q] \cup {s}) \ sigmask[q] # {})
      /\ Roused(st, S, s)[q] = "run"
  BY DEF Roused
<1>2. Pended(st, S, s)[q] = sigpend[q] \cup {s}
  BY <1>1 DEF Pended
<1> QED
  BY <1>1, <1>2

\* How the running process leaves the CPU is nothing to another that sleeps.
LEMMA WaysSpare ==
  ASSUME TypeOK, state[cur] = "run", NEW q \in Pids, state[q] = "sleep"
  PROVE  /\ \A st : ReturnOnly \/ GoExit(st) => Spared(q)
         /\ \A c, a : Restart(c, a) \/ YieldIn(c, a) => Spared(q)
         /\ \A ch, c, a : SleepOn(ch, c, a) => Spared(q)
BY DEF ReturnOnly, Return, GoExit, Restart, YieldIn, SleepOn, Spared, TypeOK, SchedTypeOK

\* Of those steps only a signal ends the sleep of a write.
LEMMA OnlySignals ==
  ASSUME PipeProc, OtherProcStep, NEW q \in Pids, AsleepInWrite(q)
  PROVE  Spared(q) \/ Signalled(q)
<1>0. TypeOK /\ CurRuns /\ state[q] = "sleep" /\ cur \in Pids
      /\ pc \in [Pids -> PCs] /\ state \in [Pids -> States]
  BY DEF PipeProc, TreeInv, AsleepInWrite, TypeOK, SchedTypeOK, States
<1>1. ASSUME NEW S, NEW s, state' = Roused(state, S, s), sigpend' = Pended(state, S, s),
             sigmask' = sigmask, pc'[q] = pc[q]
      PROVE  Spared(q) \/ Signalled(q)
  <2>1. CASE state'[q] = "sleep"
    BY <1>1, <2>1 DEF Spared
  <2>2. CASE state'[q] # "sleep"
    BY <1>0, <1>1, <2>2, RousedSignalled DEF Signalled
  <2> QED
    BY <2>1, <2>2
<1>2. CASE \/ VForkResume \/ Exit \/ Pause \/ Sigsuspend \/ PauseResume \/ Nanosleep \/ Yield
           \/ Alarm \/ Setpgid \/ Sigaction \/ Sigprocmask
  <2>1. state[cur] = "run"
    BY <1>0, <1>2 DEF VForkResume, Exit, Pause, Sigsuspend, PauseResume, Nanosleep, Yield, Alarm,
       Setpgid, Sigaction, Sigprocmask, Calling, Resumed, CurRuns
  <2>2. ASSUME NEW c, NEW m, PauseLoop(c, m) PROVE Spared(q)
    BY <1>0, <2>1, <2>2, WaysSpare DEF PauseLoop
  <2>3. CASE Pause \/ Sigsuspend \/ PauseResume
    BY <2>2, <2>3 DEF Pause, Sigsuspend, PauseResume
  <2>4. CASE VForkResume \/ Exit \/ Nanosleep \/ Yield
    BY <1>0, <2>1, <2>4, WaysSpare DEF VForkResume, Exit, Nanosleep, Yield
  <2>5. CASE Alarm \/ Setpgid \/ Sigaction \/ Sigprocmask
    BY <1>0, <2>1, <2>5, WaysSpare DEF Alarm, Setpgid, Sigaction, Sigprocmask
  <2> QED
    BY <1>2, <2>3, <2>4, <2>5
<1>3. CASE Kill
  <2>1. PICK k \in KillPids, s \in KillSigs :
          /\ sigpend' = Pended(state, KillTargets(k), s)
          /\ state' = Roused(state, KillTargets(k), s)
          /\ Return /\ sigmask' = sigmask
    BY <1>3 DEF Kill
  <2>2. state[cur] = "run"
    BY <1>0, <1>3 DEF Kill, Calling, CurRuns
  <2>3. pc'[q] = pc[q]
    BY <1>0, <2>1, <2>2 DEF Return
  <2> QED
    BY <1>1, <2>1, <2>3
<1>4. CASE CheckTimers
  <2>1. PICK due \in SUBSET ArmedTimers :
          sigpend' = Pended(state, due, ALRM) /\ state' = Roused(state, due, ALRM)
    BY <1>4 DEF CheckTimers
  <2>2. pc' = pc /\ sigmask' = sigmask
    BY <1>4 DEF CheckTimers
  <2> QED
    BY <1>1, <2>1, <2>2
<1>5. CASE Sigreturn
  <2>1. state[cur] = "run" /\ state' = state /\ \E x : pc' = [pc EXCEPT ![cur] = x]
    BY <1>0, <1>5 DEF Sigreturn, CurRuns
  <2> QED
    BY <1>0, <2>1 DEF Spared
<1>6. CASE Wait4 \/ WaitNoHang \/ Wait4Resume
  <2>1. PICK a, nohang : Wait4Pass(a, nohang)
    BY <1>6 DEF Wait4, WaitNoHang, Wait4Resume
  <2>2. state[cur] = "run"
    BY <1>0, <1>6 DEF Wait4, WaitNoHang, Wait4Resume, Calling, Resumed, CurRuns
  <2>3. ASSUME NEW z \in ZombiesOf(a), Reap(z) PROVE Spared(q)
    <3>1. state[z] = "zombie"
      BY DEF ZombiesOf
    <3>2. state' = [state EXCEPT ![z] = "free"] /\ pc' = [pc EXCEPT ![z] = User, ![cur] = User]
      BY <2>3 DEF Reap
    <3> QED
      BY <1>0, <2>2, <3>1, <3>2 DEF Spared
  <2> QED
    BY <1>0, <2>1, <2>2, <2>3, WaysSpare DEF Wait4Pass
<1>7. CASE Tick \/ InitExit \/ Halted \/ Schedule
  BY <1>0, <1>7 DEF Tick, InitExit, Halted, vars, schedVars, Schedule, SchedulePass, SwitchTo, Spared
<1>8. CASE Fault \/ DeliverNothing \/ DeliverFatal \/ DeliverHandler
  <2>1. state[cur] = "run"
    BY <1>0, <1>8 DEF Fault, DeliverNothing, DeliverFatal, DeliverHandler, Delivering, CurRuns
  <2>2. CASE \E st : GoExit(st)
    BY <1>0, <2>1, <2>2, WaysSpare
  <2>3. CASE UNCHANGED <<state, pc>>
    BY <1>0, <2>3 DEF Spared
  <2>4. CASE state' = state /\ pc' = [pc EXCEPT ![cur] = User]
    BY <1>0, <2>1, <2>4 DEF Spared
  <2>5. CASE Fault
    BY <2>2, <2>3, <2>5 DEF Fault
  <2>6. CASE DeliverNothing
    BY <2>2, <2>3, <2>6 DEF DeliverNothing
  <2>7. CASE DeliverFatal
    BY <2>2, <2>7 DEF DeliverFatal
  <2>8. CASE DeliverHandler
    BY <2>2, <2>4, <2>8 DEF DeliverHandler
  <2> QED
    BY <1>8, <2>5, <2>6, <2>7, <2>8
<1> QED
  BY <1>2, <1>3, <1>4, <1>5, <1>6, <1>7, <1>8 DEF OtherProcStep

\* What programs that catch no signals and send none keep to: no signal comes
\* in the middle of a write.  A process that makes one, or sleeps in one, has
\* nothing to deliver.
WritesUninterrupted ==
  \A p \in Pids :
    /\ Live(p)
    /\ \/ p = cur /\ mode \in {"user", "entry"}
       \/ pc[p].at = "blocked" /\ pc[p].call = "write"
    => Deliverable(p, sigmask[p]) = {}

\* No signal ends the sleep of a write.
LEMMA NotSignalled ==
  ASSUME WritesUninterrupted', NEW q \in Pids, Side(q), AsleepInWrite(q), Signalled(q)
  PROVE  FALSE
<1>1. pc'[q] = pc[q] /\ pc[q].at = "blocked" /\ pc[q].call = "write"
  BY DEF Side, SleepsOnPipe, AsleepInWrite, Signalled
<1>2. Live(q)'
  BY DEF Live, Signalled
<1>3. Deliverable(q, sigmask[q])' = {}
  BY <1>1, <1>2 DEF WritesUninterrupted
<1> QED
  BY <1>3 DEF Deliverable, Signalled

\* So a step that leaves the files alone leaves the pollers their writers.
LEMMA AsideWaits ==
  ASSUME PipeInv, PollsWait, PollSleepersWait, OtherProcStep,
         PipeInv', OnlyFullRingMissed', WritesUninterrupted'
  PROVE  PollSleepersWait'
<1>1. PipeProc /\ FileInv /\ Sides /\ Sides'
  BY DEF PipeInv
<1>2. Aside /\ UNCHANGED pipeVars
  BY <1>1, AsideSteps DEF OtherProcStep
<1>3. NoneFills /\ \A r : PollStill(r) /\ fd'[r] = fd[r] /\ EndsKeptFor(r)
  BY <1>1, <1>2, StillPolls DEF NoneFills, pipeVars, EndsKeptFor
<1>4. ASSUME NEW q \in Pids, AsleepInWrite(q) PROVE WriterKept(q)
  <2>1. Side(q)
    BY <1>1 DEF Sides
  <2>2. Spared(q)
    BY <1>1, <1>4, <2>1, OnlySignals, NotSignalled
  <2> QED
    BY <1>3, <2>2 DEF WriterKept
<1>5. ASSUME NEW p \in Pids, PollerMissed(p)' PROVE HasWriter(PipeOf(p, pc[p].arg[1]))'
  <2>1. Side(p)'
    BY <1>1 DEF Sides
  <2>2. InPipe(pc'[p])
    BY <1>5, <2>1 DEF Side, SleepsOnPipe, PollerMissed, InPipe, Watching
  <2>3. Kept(p)
    BY <1>2, <2>2 DEF Aside, Elsewhere
  <2>4. FullRingMissed(p)'
    BY <1>5 DEF OnlyFullRingMissed
  <2> QED
    BY <1>1, <1>3, <1>4, <1>5, <2>3, <2>4, StillHasWriter
<1> QED
  BY <1>5 DEF PollSleepersWait, HasWriter, WriterOn

(* ---- the calls on descriptors ---- *)

\* Where a poller sleeps through the step, no ring fills and no writer wakes.
Calm == \A p \in Pids \ {cur} : state'[p] = "sleep" /\ chan[p] = Pollq =>
  NoneFills /\ \A q \in Pids \ {cur} : AsleepInWrite(q) => state'[q] = "sleep"

\* The running process does not go to sleep on what is ready.
CurLooked == \A p \in Pids : p = cur => ~PollerMissed(p)'

\* And so does a calm step of the calls on descriptors.
LEMMA CalmWaits ==
  ASSUME FileInv, Sides, PollsWait, PollSleepersWait, OnlyFullRingMissed',
         \A p \in Pids \ {cur} : Kept(p), ~AsleepInWrite(cur),
         RowsKept, EndsKept, PollFollow, Calm, CurLooked
  PROVE  PollSleepersWait'
<1>1. ASSUME NEW p \in Pids, PollerMissed(p)' PROVE HasWriter(PipeOf(p, pc[p].arg[1]))'
  <2>1. p # cur
    BY <1>1 DEF CurLooked
  <2>2. Kept(p) /\ fd'[p] = fd[p] /\ PollStill(p) /\ PollWaits(p)
    BY <2>1 DEF RowsKept, PollFollow, PollsWait
  <2>3. state'[p] = "sleep" /\ chan[p] = Pollq
    BY <1>1, <2>2 DEF PollerMissed, Kept, PollWaits
  <2>4. NoneFills /\ \A q \in Pids \ {cur} : AsleepInWrite(q) => state'[q] = "sleep"
    BY <2>1, <2>3 DEF Calm
  <2>5. ASSUME NEW q \in Pids, AsleepInWrite(q) PROVE WriterKept(q)
    <3>1. q # cur
      BY <2>5
    <3>2. Spared(q)
      BY <2>4, <2>5, <3>1 DEF Spared, Kept
    <3>3. fd'[q] = fd[q] /\ EndsKeptFor(q)
      BY <3>1 DEF RowsKept, EndsKept, EndsKeptFor
    <3> QED
      BY <3>2, <3>3 DEF WriterKept
  <2>6. FullRingMissed(p)'
    BY <1>1 DEF OnlyFullRingMissed
  <2> QED
    BY <1>1, <2>2, <2>4, <2>5, <2>6, StillHasWriter
<1> QED
  BY <1>1 DEF PollSleepersWait, HasWriter, WriterOn

\* The last closes wake the pollers or no one, and fill nothing.
LEMMA PutCalm ==
  ASSUME FileInv, NEW D, PutEnds(D),
         \A p \in Pids \ {cur} : state'[p] = "sleep" => WokenByPut(D)[p] = "sleep",
         \A q \in Pids \ {cur} : AsleepInWrite(q) /\ WokenByPut(D)[q] = "sleep" => state'[q] = "sleep"
  PROVE  Calm
<1> SUFFICES ASSUME NEW p \in Pids \ {cur}, state'[p] = "sleep", chan[p] = Pollq
             PROVE  NoneFills /\ \A q \in Pids \ {cur} : AsleepInWrite(q) => state'[q] = "sleep"
  BY DEF Calm
<1>1. Put(D) = {}
  BY DEF WokenByPut
<1>2. \A q \in Pids \ {cur} : AsleepInWrite(q) => state'[q] = "sleep"
  BY <1>1 DEF WokenByPut, AsleepInWrite
<1>3. level' = [i \in Pipes |-> IF i \in Freed(D) THEN 0 ELSE level[i]]
  BY DEF PutEnds
<1>4. NoneFills
  BY <1>3, PipeSets DEF NoneFills
<1> QED
  BY <1>2, <1>4

\* Where the pollers are woken, none sleeps through.
LEMMA WokenCalm ==
  ASSUME state \in [Pids -> States],
         state' = Woken(state, Pollq) \/ \E i : state' = WokenPipe(state, i)
  PROVE  Calm
<1>1. ASSUME NEW p \in Pids, chan[p] = Pollq PROVE state'[p] # "sleep"
  <2>1. CASE state' = Woken(state, Pollq)
    BY <1>1, <2>1 DEF Woken
  <2>2. ASSUME NEW i, state' = WokenPipe(state, i) PROVE state'[p] # "sleep"
    BY <1>1, <2>2 DEF WokenPipe, Woken
  <2> QED
    BY <2>1, <2>2
<1> QED
  BY <1>1 DEF Calm

\* Nor where no one else is woken and no ring changes.
LEMMA StillCalm ==
  ASSUME level' = level, \A q \in Pids \ {cur} : state'[q] = state[q]
  PROVE  Calm
BY DEF Calm, NoneFills, AsleepInWrite

\* The calls that make, copy and close descriptors are calm.
LEMMA MakesCalm ==
  ASSUME TypeOK, FileInv, PipeMakes
  PROVE  Calm /\ CurLooked
<1>1. CurLooked
  <2>1. pc' = [pc EXCEPT ![cur] = User] /\ User.call = "none"
    BY DEF PipeMakes, Close, Dup, Dup3, PipeCall, OpenFifo, ReturnOnly, Return, User
  <2> QED
    BY <2>1, PollNames DEF CurLooked, PollerMissed, Watching, PipeCalls, TypeOK, SchedTypeOK
<1>2. state \in [Pids -> States]
  BY DEF TypeOK, SchedTypeOK, States
<1>3. ASSUME NEW D, PutEnds(D), state' = WokenByPut(D) PROVE Calm
  BY <1>3, PutCalm
<1>4. CASE Close
  <2>1. PICK d \in OpenFds : PutEnds({d}) /\ state' = WokenByPut({d})
    BY <1>4 DEF Close
  <2> QED
    BY <1>1, <1>3, <2>1
<1>5. CASE Dup3
  <2>1. PICK e \in FDs : PutEnds({e} \cap OpenFds) /\ state' = WokenByPut({e} \cap OpenFds)
    BY <1>5 DEF Dup3
  <2> QED
    BY <1>1, <1>3, <2>1
<1>6. CASE Dup
  BY <1>1, <1>6, StillCalm DEF Dup, ReturnOnly
<1>7. CASE PipeCall
  <2>1. state' = Woken(state, Pollq) \/ UNCHANGED <<level, state>>
    BY <1>7 DEF PipeCall
  <2> QED
    BY <1>1, <1>2, <2>1, WokenCalm, StillCalm
<1>8. CASE OpenFifo
  <2>1. level' = level /\ (state' = state \/ \E i : state' = WokenPipe(state, i))
    BY <1>8 DEF OpenFifo
  <2> QED
    BY <1>1, <1>2, <2>1, WokenCalm, StillCalm
<1> QED
  BY <1>4, <1>5, <1>6, <1>7, <1>8 DEF PipeMakes

\* A look of poll that sleeps has found nothing.
LEMMA LookedSleep ==
  ASSUME TypeOK, NEW d, NEW ev, NEW c, UNCHANGED pipeVars,
         Nothing(c, d, ev), SleepOn(Pollq, c, <<d, ev, 0>>)
  PROVE  CurLooked
<1> SUFFICES ASSUME NEW p \in Pids, p = cur, PollerMissed(p)' PROVE FALSE
  BY DEF CurLooked
<1>1. pc'[p].call = c /\ pc'[p].arg[1] = d /\ pc'[p].arg[2] = ev
  BY DEF SleepOn, Blocked, TypeOK, SchedTypeOK
<1>2. Answers(c, p, d, ev)'
  BY <1>1 DEF PollerMissed
<1>3. Answers(c, p, d, ev)
  BY <1>2 DEF Answers, Selected, Ready, pipeVars
<1> QED
  BY <1>3 DEF Nothing

\* So are the looks of poll.
LEMMA PollsCalm ==
  ASSUME TypeOK, CurRuns, FileInv, Sides, KernelBlocked, PipePolls
  PROVE  Calm /\ CurLooked
<1>1. UNCHANGED pipeVars
  BY PollsLook
<1>2. state[cur] = "run"
  BY LooksWait
<1>3. \/ state' = state
      \/ \E c, d, ev : Nothing(c, d, ev) /\ SleepOn(Pollq, c, <<d, ev, 0>>)
  BY LooksWait
<1>4. \A q \in Pids \ {cur} : state'[q] = state[q]
  BY <1>3 DEF SleepOn, TypeOK, SchedTypeOK
<1>5. Calm
  BY <1>1, <1>4, StillCalm DEF pipeVars
<1>6. state' = state => CurLooked
  BY <1>2 DEF CurLooked, PollerMissed
<1>7. CurLooked
  BY <1>1, <1>3, <1>6, LookedSleep
<1> QED
  BY <1>5, <1>7

\* cur has filled the ring of pipe i through descriptor d and sleeps.
FillsRing(d, i) ==
  /\ level' = [level EXCEPT ![i] = PipeSize]
  /\ state' = [Woken(state, PipeChan(i)) EXCEPT ![cur] = "sleep"]
  /\ chan' = [chan EXCEPT ![cur] = PipeChan(i)]
  /\ \E a, b : pc' = [pc EXCEPT ![cur] = Blocked("write", <<d, a, b>>)]
  /\ KeepFiles

\* A writer that fills the ring and sleeps is the one the pollers of its pipe
\* wait for; other pipes' writers sleep on.
LEMMA FillWaits ==
  ASSUME PipeInv, PollsWait, PollSleepersWait, OnlyFullRingMissed', PollFollow,
         state[cur] = "run", NEW i \in Pipes, NEW d, PipeOf(cur, d) = i, FillsRing(d, i)
  PROVE  PollSleepersWait'
<1>0. PICK n, m :
        /\ level' = [level EXCEPT ![i] = PipeSize]
        /\ state' = [Woken(state, PipeChan(i)) EXCEPT ![cur] = "sleep"]
        /\ chan' = [chan EXCEPT ![cur] = PipeChan(i)]
        /\ pc' = [pc EXCEPT ![cur] = Blocked("write", <<d, n, m>>)] /\ KeepFiles
  BY DEF FillsRing
<1>1. FileInv /\ Sides /\ cur \in Pids /\ state \in [Pids -> States]
      /\ chan \in [Pids -> Chans] /\ pc \in [Pids -> PCs]
  BY DEF PipeInv, PipeProc, TreeInv, TypeOK, SchedTypeOK, States
<1>2. \E c \in Pids : c = cur /\ WriterOn(c, i)'
  <2>1. PICK c \in Pids : c = cur
    BY <1>1
  <2>2. pc'[c] = Blocked("write", <<d, n, m>>) /\ state'[c] = "sleep"
    BY <1>0, <1>1, <2>1 DEF Woken
  <2>3. pc'[c].call = "write" /\ pc'[c].arg[1] = d
    BY <2>2 DEF Blocked
  <2>4. PipeOf(c, pc[c].arg[1])' = PipeOf(c, d)
    BY <1>0, <2>3 DEF PipeOf, KeepFiles
  <2> QED
    BY <2>1, <2>2, <2>3, <2>4 DEF WriterOn
<1>3. ASSUME NEW p \in Pids, PollerMissed(p)' PROVE HasWriter(PipeOf(p, pc[p].arg[1]))'
  <2>1. p # cur
    BY <1>1, <1>2, <1>3, PollNames DEF PollerMissed, Watching, WriterOn
  <2>2. Kept(p) /\ fd'[p] = fd[p] /\ PollStill(p) /\ PollWaits(p) /\ Side(p)
    BY <1>0, <1>1, <2>1 DEF Kept, Woken, KeepFiles, PollFollow, PollsWait, Sides
  <2>3. PICK j : j = PipeOf(p, pc[p].arg[1])
    OBVIOUS
  <2>4. FullRingMissed(p)'
    BY <1>3 DEF OnlyFullRingMissed
  <2>5. /\ j \in Pipes /\ PipeOf(p, pc[p].arg[1])' = j
        /\ level'[j] = PipeSize /\ (level[j] = PipeSize => PollerMissed(p))
    BY <1>1, <1>3, <2>2, <2>3, <2>4, MissedBefore
  <2>6. CASE j = i
    BY <1>1, <1>2, <2>5, <2>6 DEF HasWriter
  <2>7. CASE j # i
    <3>1. PollerMissed(p)
      BY <1>0, <1>1, <2>5, <2>7 DEF FileInv, EndTypes
    <3>2. PICK q \in Pids : WriterOn(q, j)
      BY <2>3, <3>1 DEF PollSleepersWait, WriterOn
    <3>3. q # cur /\ chan[q] = PipeChan(j) /\ Side(q)
      BY <1>1, <3>2 DEF WriterOn, Sides, Side, SleepsOnPipe
    <3>4. Spared(q)
      BY <1>0, <1>1, <2>7, <3>2, <3>3 DEF Woken, PipeChan, Spared, WriterOn
    <3>5. WriterKept(q)
      BY <1>0, <3>4 DEF WriterKept, KeepFiles, EndsKeptFor
    <3>6. WriterOn(q, j)'
      BY <3>2, <3>3, <3>5, WriterStays
    <3> QED
      BY <2>5, <3>6 DEF HasWriter
  <2> QED
    BY <2>6, <2>7
<1> QED
  BY <1>3 DEF PollSleepersWait, HasWriter, WriterOn

\* Bytes that are read, or written without filling the ring, wake the pollers.
LEMMA ReadCalm ==
  ASSUME TypeOK, NEW d, NEW n, ReadPass(d, n)
  PROVE  Calm
<1>1. state \in [Pids -> States]
  BY DEF TypeOK, SchedTypeOK, States
<1>2. \/ \E i : state' = WokenPipe(state, i)
      \/ level' = level /\ (state' = state \/ state' = [state EXCEPT ![cur] = "sleep"])
  BY DEF ReadPass, ReturnOnly, Restart, SleepOn
<1> QED
  BY <1>1, <1>2, WokenCalm, StillCalm

\* A write that no signal ends is calm or fills the ring.
LEMMA WriteCalm ==
  ASSUME TypeOK, ~SignalPending, NEW d, NEW n, NEW done, NEW i, i = PipeOf(cur, d),
         WritePass(d, n, done)
  PROVE  Calm \/ FillsRing(d, i)
<1>1. state \in [Pids -> States]
  BY DEF TypeOK, SchedTypeOK, States
<1>2. \/ state' = WokenPipe(state, i)
      \/ level' = level /\ state' = state
      \/ FillsRing(d, i)
  BY DEF WritePass, ReturnOnly, FillsRing
<1> QED
  BY <1>1, <1>2, WokenCalm, StillCalm

\* What the calls on descriptors do besides.
LEMMA ServedKeeps ==
  ASSUME PipeInv, PipeMakes \/ PipeMoves \/ PipePolls
  PROVE  /\ PollFollow /\ RowsKept /\ EndsKept /\ ~AsleepInWrite(cur)
         /\ \A p \in Pids \ {cur} : Kept(p)
<1>1. TypeOK /\ CurRuns /\ FileInv /\ Sides /\ KernelBlocked
  BY DEF PipeInv, PipeProc, TreeInv
<1>2. PollFollow
  BY <1>1, MakesPolls, MovesPolls, PollsPolls
<1>3. Serves /\ FilesFollow
  BY <1>1, MakesStep, MovesStep, PollsStep
<1>4. PICK x : Turn(x)
  BY <1>3 DEF Serves
<1>5. (\A p \in Pids \ {cur} : Kept(p)) /\ state[cur] = "run"
  BY <1>4 DEF Turn, Hands, OthersWoken, Kept
<1> QED
  BY <1>2, <1>3, <1>5 DEF FilesFollow, AsleepInWrite

\* The steps of read and write.
LEMMA MovesWaits ==
  ASSUME PipeInv, PollsWait, PollSleepersWait, WritesUninterrupted, PipeMoves, OnlyFullRingMissed'
  PROVE  PollSleepersWait'
<1>1. TypeOK /\ CurRuns /\ FileInv /\ Sides /\ KernelBlocked /\ cur \in Pids
  BY DEF PipeInv, PipeProc, TreeInv, TypeOK, SchedTypeOK
<1>2. /\ PollFollow /\ RowsKept /\ EndsKept /\ ~AsleepInWrite(cur)
      /\ \A p \in Pids \ {cur} : Kept(p)
  BY ServedKeeps
<1>3. CurLooked
  <2>1. PICK x : pc' = [pc EXCEPT ![cur] = x] /\ x.call \in {"none", "read", "write"}
    <3>1. User.call = "none" /\ \A c, a : Redo(c, a).call = c /\ Blocked(c, a).call = c
      BY DEF User, Redo, Blocked
    <3>2. CASE Read \/ ReadResume
      <4>1. PICK d, n : ReadPass(d, n)
        BY <3>2 DEF Read, ReadResume
      <4>2. PICK x \in {User, Redo("read", <<d, n, 0>>), Blocked("read", <<d, n, 0>>)} :
              pc' = [pc EXCEPT ![cur] = x]
        BY <4>1 DEF ReadPass, ReturnOnly, Return, Restart, SleepOn
      <4>3. x.call \in {"none", "read", "write"}
        BY <3>1
      <4> QED
        BY <4>2, <4>3
    <3>3. CASE Write \/ WriteResume
      <4>1. PICK d, n, done : WritePass(d, n, done)
        BY <3>3 DEF Write, WriteResume
      <4>2. PICK x \in {User, Redo("write", <<d, n, 0>>),
                      Blocked("write", <<d, n - Space(PipeOf(cur, d)), done + Space(PipeOf(cur, d))>>)} :
              pc' = [pc EXCEPT ![cur] = x]
        BY <4>1 DEF WritePass, ReturnOnly, Return
      <4>3. x.call \in {"none", "read", "write"}
        BY <3>1
      <4> QED
        BY <4>2, <4>3
    <3> QED
      BY <3>2, <3>3 DEF PipeMoves
  <2> QED
    BY <1>1, <2>1, PollNames DEF CurLooked, PollerMissed, Watching, TypeOK, SchedTypeOK
<1>4. ASSUME Calm PROVE PollSleepersWait'
  BY <1>1, <1>2, <1>3, <1>4, CalmWaits
<1>5. ASSUME NEW d, NEW n, NEW done, WritePass(d, n, done), state[cur] = "run",
             PipeOf(cur, d) \in Pipes, ~SignalPending
      PROVE  PollSleepersWait'
  <2>1. PICK i \in Pipes : i = PipeOf(cur, d)
    BY <1>5
  <2>2. Calm \/ FillsRing(d, i)
    BY <1>1, <1>5, <2>1, WriteCalm
  <2>3. CASE FillsRing(d, i)
    BY <1>2, <1>5, <2>1, <2>3, FillWaits
  <2> QED
    BY <1>4, <2>2, <2>3
<1>6. CASE Read \/ ReadResume
  <2>1. PICK d, n : ReadPass(d, n)
    BY <1>6 DEF Read, ReadResume
  <2> QED
    BY <1>1, <1>4, <2>1, ReadCalm
<1>7. CASE Write
  <2>1. PICK d \in OpenFds, n \in Sizes : Calling("write", <<d, n, 0>>) /\ WritePass(d, n, 0)
    BY <1>7 DEF Write
  <2>2. state[cur] = "run" /\ mode \in {"user", "entry"} /\ d \in FDs /\ fd[cur][d] # 0
    BY <1>1, <2>1, CallRuns DEF OpenFds, Calling
  <2>3. PipeOf(cur, d) \in Pipes
    BY <1>1, <2>2, HeldRefs
  <2>4. ~SignalPending
    BY <1>1, <2>2 DEF WritesUninterrupted, SignalPending, Live
  <2> QED
    BY <1>5, <2>1, <2>2, <2>3, <2>4
<1>8. CASE WriteResume
  <2>1. /\ Resumed("write") /\ "write" \in PipeCalls
        /\ WritePass(pc[cur].arg[1], pc[cur].arg[2], pc[cur].arg[3])
    BY <1>8 DEF WriteResume, PipeCalls
  <2>2. state[cur] = "run" /\ pc[cur].arg[1] \in FDs /\ fd[cur][pc[cur].arg[1]] # 0
    BY <1>1, <2>1, ResumedEnd
  <2>3. PipeOf(cur, pc[cur].arg[1]) \in Pipes
    BY <1>1, <2>2, HeldRefs
  <2>4. pc[cur].at = "blocked" /\ pc[cur].call = "write"
    BY <1>1, <2>1 DEF Resumed, KernelBlocked
  <2>5. ~SignalPending
    BY <1>1, <2>2, <2>4 DEF WritesUninterrupted, SignalPending, Live
  <2>6. PICK d, n, done : /\ d = pc[cur].arg[1] /\ n = pc[cur].arg[2] /\ done = pc[cur].arg[3]
    OBVIOUS
  <2> QED
    BY <1>5, <2>1, <2>2, <2>3, <2>5, <2>6
<1> QED
  BY <1>6, <1>7, <1>8 DEF PipeMoves

(* ---- fork, exec and exit ---- *)

\* A child shares its parent's files and is in no call.
LEMMA ForkWaits ==
  ASSUME PipeInv, PollsWait, PollSleepersWait, PipeFork, OnlyFullRingMissed'
  PROVE  PollSleepersWait'
<1>1. /\ TypeOK /\ CurRuns /\ Fresh /\ FileInv /\ Sides /\ cur \in Pids
      /\ state \in [Pids -> States] /\ chan \in [Pids -> Chans] /\ pc \in [Pids -> PCs]
  BY DEF PipeInv, PipeProc, TreeInv, TypeOK, SchedTypeOK, States
<1>2. state[cur] = "run" /\ nextpid \in Pids
  BY <1>1, CallRuns DEF PipeFork, Fork, VFork, NewChild
<1>3. nextpid # cur /\ state[nextpid] = "free"
  BY <1>1, <1>2, MaxPidAssumption DEF Fresh, Pids
<1>4. /\ UNCHANGED <<fpipe, wend, readers, writers, level>>
      /\ fd' = [fd EXCEPT ![nextpid] = fd[cur]]
  BY DEF PipeFork, ForkFiles
<1>5. \/ /\ state' = [state EXCEPT ![nextpid] = "run"] /\ chan' = chan
         /\ pc' = [pc EXCEPT ![cur] = User]
      \/ /\ state' = [state EXCEPT ![nextpid] = "run", ![cur] = "sleep"]
         /\ chan' = [chan EXCEPT ![cur] = ProcChan(nextpid)]
         /\ pc' = [pc EXCEPT ![cur] = Blocked("vfork", Arg(nextpid))]
  BY DEF PipeFork, Fork, VFork, NewChild, Return
<1>6. NoneFills
  BY <1>4 DEF NoneFills
<1>7. ASSUME NEW q \in Pids, AsleepInWrite(q) PROVE WriterKept(q)
  <2>1. q \notin {nextpid, cur}
    BY <1>2, <1>3, <1>7 DEF AsleepInWrite
  <2>2. Spared(q)
    BY <1>1, <1>5, <1>7, <2>1 DEF Spared, AsleepInWrite
  <2>3. fd'[q] = fd[q] /\ EndsKeptFor(q)
    BY <1>1, <1>4, <2>1 DEF EndsKeptFor, FileInv, FdTypes
  <2> QED
    BY <2>2, <2>3 DEF WriterKept
<1>8. ASSUME NEW p \in Pids, PollerMissed(p)' PROVE HasWriter(PipeOf(p, pc[p].arg[1]))'
  <2>1. state'[p] = "sleep" /\ pc'[p].call \in Polls
    BY <1>8 DEF PollerMissed, Watching
  <2>2. p \notin {nextpid, cur}
    BY <1>1, <1>2, <1>3, <1>5, <2>1, PollNames DEF User, Blocked
  <2>3. Kept(p) /\ fd'[p] = fd[p]
    BY <1>1, <1>4, <1>5, <2>2 DEF Kept, FileInv, FdTypes
  <2>4. PollStill(p)
    BY <1>1, <1>4, StillPolls
  <2>5. FullRingMissed(p)'
    BY <1>8 DEF OnlyFullRingMissed
  <2> QED
    BY <1>1, <1>6, <1>7, <1>8, <2>3, <2>4, <2>5, StillHasWriter
<1> QED
  BY <1>8 DEF PollSleepersWait, HasWriter, WriterOn

\* exec wakes whom its closes wake and the vfork parent.
LEMMA ExecSpares ==
  ASSUME TypeOK, NEW D, ExecWith(WokenByPut(D)), NEW q \in Pids \ {cur}, NEW i,
         chan[q] = PipeChan(i), WokenByPut(D)[q] = "sleep"
  PROVE  state'[q] = "sleep"
BY DEF ExecWith, ReleasedState, Woken, ProcChan, PipeChan

\* exit, and whom SIGCHLD rouses.
LEMMA ExitSpares ==
  ASSUME TypeOK, NEW D, ExitWith(WokenByPut(D)), NEW q \in Pids \ {cur}, NEW i,
         chan[q] = PipeChan(i), state[q] = "sleep", WokenByPut(D)[q] = "sleep"
  PROVE  Spared(q) \/ Signalled(q)
<1> DEFINE st0 == WokenByPut(D)
           st1 == WokenByOrphans(ReleasedState(st0))
           st2 == [st1 EXCEPT ![cur] = "zombie"]
           st3 == Roused(st2, Parents, CHLD)
<1>1. /\ state \in [Pids -> States] /\ cur \in Pids
      /\ state' = WokenParents(st3) /\ chan' = chan /\ pc' = pc
      /\ sigpend' = Pended(st2, Parents, CHLD) /\ sigmask' = sigmask
  BY DEF TypeOK, SchedTypeOK, States, ExitWith
<1>2. Wakes(state, st0) /\ st0[q] = "sleep"
  BY <1>1, PutWakes
<1> HIDE DEF st0
<1>3. Wakes(st0, ReleasedState(st0)) /\ ReleasedState(st0)[q] = "sleep"
  BY <1>2, ReleasedWakes DEF Wakes, ReleasedState, Woken, ProcChan, PipeChan
<1>4. Wakes(ReleasedState(st0), st1) /\ st1[q] = "sleep"
  BY <1>3, OrphansWakes DEF Wakes, WokenByOrphans, ProcChan, PipeChan
<1> HIDE DEF st1
<1>5. st2 \in [Pids -> States] /\ st2[q] = "sleep"
  BY <1>1, <1>4 DEF Wakes, States
<1> HIDE DEF st2
<1>6. CASE st3[q] = "sleep"
  <2>1. state'[q] = "sleep"
    BY <1>1, <1>6 DEF WokenParents, ProcChan, PipeChan
  <2> QED
    BY <1>1, <2>1 DEF Spared
<1>7. CASE st3[q] # "sleep"
  <2>1. st3[q] = "run" /\ Pended(st2, Parents, CHLD)[q] \ (sigmask[q] \ {KILL}) # {}
    BY <1>5, <1>7, RousedSignalled
  <2>2. state'[q] = "run"
    BY <1>1, <2>1 DEF WokenParents
  <2> QED
    BY <1>1, <2>1, <2>2 DEF Signalled
<1> QED
  BY <1>6, <1>7

\* The closes of exec and exit.
LEMMA DropWaits ==
  ASSUME PipeInv, PollsWait, PollSleepersWait, PipeExec \/ PipeDoExit,
         OnlyFullRingMissed', WritesUninterrupted'
  PROVE  PollSleepersWait'
<1>1. /\ TypeOK /\ CurRuns /\ FileInv /\ Sides /\ cur \in Pids
      /\ state \in [Pids -> States] /\ pc \in [Pids -> PCs]
  BY DEF PipeInv, PipeProc, TreeInv, TypeOK, SchedTypeOK, States
<1>2. state[cur] = "run"
  BY <1>1, CallRuns DEF PipeExec, ExecWith, PipeDoExit, CurRuns
<1>3. ASSUME NEW q \in Pids, AsleepInWrite(q)
      PROVE  Side(q) /\ q # cur /\ chan[q] = PipeChan(PipeOf(q, pc[q].arg[1]))
  BY <1>1, <1>2, <1>3 DEF AsleepInWrite, Sides, Side, SleepsOnPipe
<1>4. PICK D \in SUBSET FDs :
        /\ DropFds(D) /\ ClosesAside(D)
        /\ \A q \in Pids \ {cur} : AsleepInWrite(q) /\ WokenByPut(D)[q] = "sleep" => state'[q] = "sleep"
  <2>1. CASE PipeExec
    <3>1. CloexecFds \in SUBSET FDs /\ DropFds(CloexecFds) /\ ExecWith(WokenByPut(CloexecFds))
      BY <2>1 DEF PipeExec, CloexecFds, OpenFds
    <3>2. ASSUME NEW q \in Pids \ {cur}, AsleepInWrite(q), WokenByPut(CloexecFds)[q] = "sleep"
          PROVE  state'[q] = "sleep"
      <4>1. PICK i : chan[q] = PipeChan(i)
        BY <1>3, <3>2
      <4> QED
        BY <1>1, <3>1, <3>2, <4>1, ExecSpares
    <3> QED
      BY <1>1, <3>1, <3>2, ExecOthers
  <2>2. CASE PipeDoExit
    <3>1. OpenFds \in SUBSET FDs /\ DropFds(OpenFds) /\ ExitWith(WokenByPut(OpenFds))
      BY <2>2 DEF PipeDoExit, OpenFds
    <3>2. ASSUME NEW q \in Pids \ {cur}, AsleepInWrite(q), WokenByPut(OpenFds)[q] = "sleep"
          PROVE  state'[q] = "sleep"
      <4>1. PICK i : chan[q] = PipeChan(i)
        BY <1>3, <3>2
      <4>2. Spared(q) \/ Signalled(q)
        BY <1>1, <3>1, <3>2, <4>1, ExitSpares DEF AsleepInWrite
      <4> QED
        BY <1>3, <3>2, <4>2, NotSignalled DEF Spared
    <3> QED
      BY <1>1, <3>1, <3>2, ExitOthers
  <2> QED
    BY <2>1, <2>2
<1>5. PutEnds(D) /\ RowsKept /\ EndsKept
  BY <1>1, <1>4, DropFdsOK DEF DropFds
<1>6. PollFollow /\ Calm
  BY <1>1, <1>4, <1>5, PutPolls, PutCalm DEF ClosesAside
<1>7. CurLooked
  <2>1. CASE PipeExec
    <3>1. pc'[cur] = User /\ User.call = "none"
      BY <1>1, <2>1 DEF PipeExec, ExecWith, Return, User
    <3> QED
      BY <3>1, PollNames DEF CurLooked, PollerMissed, Watching, PipeCalls
  <2>2. CASE PipeDoExit
    <3>1. ExitWith(WokenByPut(OpenFds)) /\ mode = "exit" /\ cur # 1
      BY <2>2 DEF PipeDoExit
    <3>2. Wakes(state, WokenByPut(OpenFds))
      BY <1>1, PutWakes
    <3>3. state'[cur] = "zombie"
      BY <1>1, <3>1, <3>2, ExitWithEnds DEF Ends, PipeInv, PipeProc, TreeInv
    <3> QED
      BY <3>3 DEF CurLooked, PollerMissed
  <2> QED
    BY <2>1, <2>2
<1>8. (\A p \in Pids \ {cur} : Kept(p)) /\ ~AsleepInWrite(cur)
  BY <1>2, <1>4 DEF ClosesAside, AsleepInWrite
<1> QED
  BY <1>1, <1>5, <1>6, <1>7, <1>8, CalmWaits

\* Every step.
LEMMA WaitsStep ==
  ASSUME PipeInv, PollsWait, PollSleepersWait, WritesUninterrupted, [PipeNext]_allVars,
         PipeInv', OnlyFullRingMissed', WritesUninterrupted'
  PROVE  PollSleepersWait'
<1>1. CASE OtherProcStep
  BY <1>1, AsideWaits
<1>2. CASE PipeFork \/ PipeExec \/ PipeDoExit
  BY <1>2, ForkWaits, DropWaits
<1>3. CASE PipeMakes \/ PipePolls
  <2>1. TypeOK /\ CurRuns /\ FileInv /\ Sides /\ KernelBlocked
    BY DEF PipeInv, PipeProc, TreeInv
  <2>2. Calm /\ CurLooked
    BY <1>3, <2>1, MakesCalm, PollsCalm
  <2> QED
    BY <1>3, <2>1, <2>2, ServedKeeps, CalmWaits
<1>4. CASE PipeMoves
  BY <1>4, MovesWaits
<1>5. CASE UNCHANGED allVars
  BY <1>5 DEF allVars, vars, schedVars, pipeVars, PollSleepersWait, PollerMissed,
           Answers, Selected, Ready, PipeOf
<1> QED
  BY <1>1, <1>2, <1>3, <1>4, <1>5 DEF PipeNext, PipeMakes, PipeMoves, PipePolls

\* do_poll and do_select with pipe_write and poll_wakeup: as long as no signal reaches
\* a process that makes a write, no process sleeps in poll or select on a descriptor
\* ready for what the call was last made with, but beside a writer that filled the
\* ring and will wake it: the bytes it misses are those of a write still going on.
\* Without the hypothesis it is false: a writer killed or interrupted there wakes no
\* poller, and PollersMissOnlyFull is what remains.
THEOREM PollersWaitForWriters ==
  PipeSpec /\ []WritesUninterrupted => []PollSleepersWait
<1>1. PipeInit => PollSleepersWait
  BY DEF PipeInit, Init, PollSleepersWait, PollerMissed
<1>2. /\ PipeInv /\ PollsWait /\ PollSleepersWait /\ WritesUninterrupted /\ [PipeNext]_allVars
      /\ PipeInv' /\ OnlyFullRingMissed' /\ WritesUninterrupted'
      => PollSleepersWait'
  BY WaitsStep
<1> QED
  BY <1>1, <1>2, PollsHold, MissedIsFull, PTL DEF PipeSpec

=============================================================================
