------------------------------- MODULE K1Fs -------------------------------
(***************************************************************************)
(* The names of K1's RAM file system: inodes with their counts, a          *)
(* directory as a list in creation order and a hash table once it is       *)
(* large, the walk along a path, and the calls that make, move and take    *)
(* away names, with the descriptors and working directories that keep an   *)
(* inode after its last name (fs.c, sys.c).                                *)
(*                                                                         *)
(* A call that fails changes nothing and is no step.  What a file holds is *)
(* K1Data's; descriptor numbers, dup and pipes are K1Pipe's: here a        *)
(* process has an open file or has not, and the last one to let go of it   *)
(* puts it.                                                                *)
(*                                                                         *)
(* A name is in a directory once (TableMatchesList), so which of several   *)
(* a search would meet first does not matter: a hash chain is a set.       *)
(***************************************************************************)
EXTENDS Integers, Sequences, SequencesExt, FiniteSets, FiniteSetsExt

CONSTANTS
  Procs,
  Inodes,       \* the memory for inodes: 1..n, 1 for the root
  Files,        \* the memory for open files: 1..n
  Names,
  Hash,         \* the hash of each name
  ListMax,      \* entries up to which a directory is a list only (16)
  HashMin,      \* the least size of a hash table (64)
  MaxLinks,     \* the symbolic links that may nest (40)
  MaxHops,      \* the links record_name follows (8)
  Machines      \* what the processes do: records
                \* [calls, paths, opens, targets, rooms, inodes, nfd]

\* A path as a machine names it: what it is made of is a name, "." or "..".
PathOK(path) ==
  /\ path.base \in Int /\ path.slash \in BOOLEAN
  /\ path.comps \in Seq(Names \cup {".", ".."})
  /\ path = [base |-> path.base, comps |-> path.comps, slash |-> path.slash]

ASSUME FsAssumption ==
  /\ Procs # {} /\ Procs \subseteq Nat /\ IsFiniteSet(Procs)
  /\ 1 \in Inodes /\ Inodes \subseteq Nat \ {0} /\ IsFiniteSet(Inodes)
  /\ IsFiniteSet(Files) /\ Files = 1..Cardinality(Files)
  /\ IsFiniteSet(Names) /\ Names \cap {"", ".", ".."} = {} /\ Hash \in [Names -> Nat]
  /\ ListMax \in Nat /\ HashMin \in Nat \ {0} /\ MaxLinks \in Nat /\ MaxHops \in Nat \ {0}
  /\ \A m \in Machines :
       /\ m.inodes \in Nat /\ m.inodes <= Cardinality(Inodes) /\ m.rooms \subseteq Nat
       /\ \A path \in m.paths \cup m.opens \cup m.targets : PathOK(path)

VARIABLES
  machine,
  live,         \* the processes there are
  cwd,          \* cwd[p]: the inode p works in
  fds,          \* fds[p]: the files p has open
  files,        \* files[f]: Closed, or [ino, dir, name, pos, read, stayed, gone]
  inodes        \* inodes[i]: Free, or an inode

fsVars == <<machine, live, cwd, fds, files, inodes>>

Root == 1
None == 0

(* A path goes from a base: the working directory, the root, or an open     *)
(* directory.  No components and a file for base is /proc/self/fd/N.        *)
AtCwd == 0
AtRoot == -1
NoPath == [base |-> AtCwd, comps |-> <<>>, slash |-> FALSE]

Free == [kind |-> "free", nlink |-> 0, refs |-> 0, lost |-> 0, parent |-> None,
         dents |-> <<>>, htab |-> <<>>, target |-> NoPath]
Fresh(kind) == [Free EXCEPT !.kind = kind]
Closed == [ino |-> None, dir |-> None, name |-> "", pos |-> 0,
           read |-> [n \in Names |-> 0], stayed |-> {}, gone |-> 0]

IsDir(I, i) == I[i].kind = "dir"
IsLink(I, i) == I[i].kind = "link"

\* kmalloc's block for the next inode or file; the lowest free one stands for it.
NewInode(I) == Min({i \in Inodes : I[i] = Free})
RoomForInode == Cardinality({i \in Inodes : inodes[i] # Free}) < machine.inodes
NewFile == Min({f \in Files : files[f] = Closed})
RoomForFile == \E f \in Files : files[f] = Closed

(***************************************************************************)
(* Inodes and directories.  I is the inodes, before or after a change.  The *)
(* field `lost` is for the properties: the names whose directory is gone.  *)
(***************************************************************************)

\* The entries of a directory, and the names in it.
Entries(I, d) == ToSet(I[d].dents)
NamesIn(I, d) == {e.name : e \in Entries(I, d)}

\* The entries go with their directory, and what they name keeps its nlink: it
\* has lost a name.
InodeFree(I, i) == [j \in Inodes |->
  IF j = i THEN Free
  ELSE [I[j] EXCEPT !.lost = @ + Cardinality({e \in Entries(I, i) : e.ino = j})]]

\* (A mutant: an inode is freed with its last name, whoever uses it.)
IputUsed(I, i) == IF I[i].nlink = 0 /\ i # Root THEN InodeFree(I, i) ELSE I

Iput(I, i) == IF I[i].nlink = 0 /\ I[i].refs <= 0 /\ i # Root
              THEN InodeFree(I, i) ELSE I

Hold(I, i) == [I EXCEPT ![i].refs = @ + 1]
LetGo(I, i) == Iput([I EXCEPT ![i].refs = @ - 1], i)

Bucket(size, n) == (Hash[n] % size) + 1

DirLookup(I, d, n) ==
  LET chain == IF I[d].htab = <<>> THEN Entries(I, d)
               ELSE I[d].htab[Bucket(Len(I[d].htab), n)]
      found == {e \in chain : e.name = n}
  IN  IF found = {} THEN None ELSE (CHOOSE e \in found : TRUE).ino

\* The least table for n entries, doubled until it has two places for each.
TableSize(n) ==
  LET size[k \in Nat] ==
        IF k = 0 THEN HashMin
        ELSE IF size[k - 1] < 2 * n THEN 2 * size[k - 1] ELSE size[k - 1]
  IN  size[n]

Rehash(dents) ==
  LET size == TableSize(Len(dents))
  IN  [b \in 1..size |-> {e \in ToSet(dents) : Bucket(size, e.name) = b}]

\* (A mutant: the newest entry comes first in the list.)
DirAddFirst(I, d, n, i) ==
  LET dents == <<[name |-> n, ino |-> i]>> \o I[d].dents
      J == [I EXCEPT ![d].dents = dents,
                     ![d].htab = IF @ # <<>> \/ Len(dents) > ListMax THEN Rehash(dents) ELSE @]
  IN  [J EXCEPT ![i].nlink = @ + 1, ![i].parent = IF IsDir(I, i) THEN d ELSE @]

DirAdd(I, d, n, i) ==
  LET e == [name |-> n, ino |-> i]
      old == I[d].htab
      dents == Append(I[d].dents, e)
      htab == IF old # <<>> /\ Len(dents) <= Len(old)
              THEN [old EXCEPT ![Bucket(Len(old), n)] = @ \cup {e}]
              ELSE IF Len(dents) > ListMax THEN Rehash(dents) ELSE old
      J == [I EXCEPT ![d].dents = dents, ![d].htab = htab]
  IN  [J EXCEPT ![i].nlink = @ + 1, ![i].parent = IF IsDir(I, i) THEN d ELSE @]

\* Where the list has name n.
Place(dents, n) == CHOOSE k \in DOMAIN dents : dents[k].name = n

\* (A mutant: the entry stays in its chain.)
DirRemoveListed(I, d, n) ==
  LET k == Place(I[d].dents, n)
      i == I[d].dents[k].ino
  IN  Iput([I EXCEPT ![d].dents = RemoveAt(@, k), ![i].nlink = @ - 1], i)

DirRemove(I, d, n) ==
  LET k == Place(I[d].dents, n)
      e == I[d].dents[k]
      old == I[d].htab
      htab == IF old = <<>> THEN old ELSE [old EXCEPT ![Bucket(Len(old), n)] = @ \ {e}]
      J == [I EXCEPT ![d].dents = RemoveAt(@, k), ![d].htab = htab]
  IN  Iput([J EXCEPT ![e.ino].nlink = @ - 1], e.ino)

(***************************************************************************)
(* Paths.  Each of these is None when the path has no such inode.          *)
(***************************************************************************)

\* The directory above c.  One that is gone is no inode: the code would read
\* freed memory there.
Up(I, c) == CASE I[c].parent = None -> Root
              [] I[c].parent # None /\ IsDir(I, I[c].parent) -> I[c].parent
              [] OTHER -> None

\* What component n is in directory c, where a link that is to be followed leads
\* from there, and what is found there if it has to be a directory.
Component(I, c, n) == CASE n = "." -> c [] n = ".." -> Up(I, c) [] OTHER -> DirLookup(I, c, n)
Through(I, c, i, follow, leads) == IF i # None /\ IsLink(I, i) /\ follow THEN leads[c, i] ELSE i
Arrived(I, i, dir) == IF i = None \/ (dir /\ ~IsDir(I, i)) THEN None ELSE i

\* Where component k leads from c: `slash` when a slash follows the last one,
\* `follow` when a link there is to be followed, to leads[c, link].
WalkStep(I, c, comps, k, slash, follow, leads) ==
  LET last == k = Len(comps)
      i == Component(I, c, comps[k])
  IN  IF c = None \/ ~IsDir(I, c) THEN None
      ELSE Arrived(I, Through(I, c, i, ~last \/ follow \/ slash, leads), last /\ slash)

WalkFrom(I, start, comps, slash, follow, leads) ==
  LET at[k \in 0..Len(comps)] ==
        IF k = 0 THEN start ELSE WalkStep(I, at[k - 1], comps, k, slash, follow, leads)
  IN  at[Len(comps)]

\* Where a path leads from directory d.
Walk(I, d, path, follow, leads) ==
  IF path.base = AtCwd /\ path.comps = <<>> THEN None
  ELSE WalkFrom(I, IF path.base = AtRoot THEN Root ELSE d, path.comps, path.slash, follow, leads)

\* Where a link leads from a directory, for each pair of the two; MaxLinks links
\* may nest.
Leads(I) ==
  LET leads[n \in Nat] ==
        [x \in Inodes \X Inodes |-> IF n = 0 THEN None ELSE Walk(I, x[1], I[x[2]].target, TRUE, leads[n - 1])]
  IN  leads[MaxLinks]

\* Where process p's path starts.
AtBase(p, path) ==
  CASE path.base = AtCwd -> cwd[p]
    [] path.base = AtRoot -> Root
    [] OTHER -> IF path.base \in fds[p] THEN files[path.base].ino ELSE None

IsSelfFd(path) == path.base > 0 /\ path.comps = <<>>

Namei(p, path, follow) ==
  IF AtBase(p, path) = None THEN None
  ELSE IF IsSelfFd(path) THEN AtBase(p, path)
  ELSE Walk(inodes, AtBase(p, path), path, follow, Leads(inodes))

\* The directory that would hold the last component, from start.
ParentFrom(I, start, comps) ==
  IF start = None \/ comps = <<>> \/ Last(comps) \in {".", ".."} THEN None
  ELSE IF Len(comps) = 1 THEN IF IsDir(I, start) THEN start ELSE None
  ELSE WalkFrom(I, start, Front(comps), TRUE, TRUE, Leads(I))

ParentAt(p, path) == ParentFrom(inodes, AtBase(p, path), path.comps)

\* Where the link that a name is of leads; any other name stays.  NameIn: there is
\* no name where there is no directory.
NameIn(d, name) == [dir |-> d, name |-> IF d = None THEN "" ELSE name]
Onward(I, at) ==
  LET e == DirLookup(I, at.dir, at.name)
      to == I[e].target
  IN  IF at.dir = None \/ e = None \/ ~IsLink(I, e) THEN at
      ELSE NameIn(ParentFrom(I, IF to.base = AtRoot THEN Root ELSE at.dir, to.comps), Last(to.comps))

\* The directory and name that file i was opened under, the links at the end
\* of its path followed; none where they do not lead to it.
FileNamed(I, i, at) == IF at.dir # None /\ DirLookup(I, at.dir, at.name) = i
                       THEN [Closed EXCEPT !.dir = at.dir, !.name = at.name] ELSE Closed
RecordName(I, i, dir, name) ==
  LET at[k \in Nat] == IF k = 0 THEN NameIn(dir, name) ELSE Onward(I, at[k - 1])
  IN  FileNamed(I, i, at[MaxHops - 1])

(***************************************************************************)
(* The calls that open and close.                                          *)
(***************************************************************************)

FsInit ==
  /\ machine \in Machines
  /\ live = {Min(Procs)}
  /\ cwd = [p \in Procs |-> IF p \in live THEN Root ELSE None]
  /\ fds = [p \in Procs |-> {}]
  /\ files = [f \in Files |-> Closed]
  /\ inodes = [i \in Inodes |->
       IF i = Root THEN [Fresh("dir") EXCEPT !.nlink = 1, !.refs = 1, !.parent = Root] ELSE Free]

\* p makes the call named, which the machine makes.
Calls(p, call) == p \in live /\ call \in machine.calls

\* Process p opens inode i by path; with no descriptor left it has only made it.
Opened(p, I, i, path) ==
  IF Cardinality(fds[p]) = machine.nfd
  THEN /\ inodes' = I
       /\ UNCHANGED <<files, fds>>
  ELSE LET dir == ParentFrom(I, AtBase(p, path), path.comps)
           f == IF IsDir(I, i) \/ dir = None THEN Closed
                ELSE RecordName(I, i, dir, Last(path.comps))
           J == Hold(I, i)
       IN  /\ RoomForFile
           /\ inodes' = IF f.dir = None THEN J ELSE Hold(J, f.dir)
           /\ files' = [files EXCEPT ![NewFile] =
                [f EXCEPT !.ino = i, !.stayed = IF IsDir(I, i) THEN NamesIn(I, i) ELSE {}]]
           /\ fds' = [fds EXCEPT ![p] = @ \cup {NewFile}]

Open(p, path) ==
  LET i == Namei(p, path, TRUE)
  IN  /\ Calls(p, "open") /\ i # None
      /\ Opened(p, inodes, i, path)
      /\ UNCHANGED <<machine, live, cwd>>

OpenCreat(p, path) ==
  LET d == ParentAt(p, path)
      n == Last(path.comps)
      i == DirLookup(inodes, d, n)
      to == inodes[i].target
      at == IF ~IsLink(inodes, i) THEN i
            ELSE Walk(inodes, d, to, TRUE, Leads(inodes))
  IN  /\ Calls(p, "creat") /\ d # None
      /\ \/ i # None /\ at # None /\ Opened(p, inodes, at, path)
         \/ /\ i = None /\ RoomForInode
            /\ LET new == NewInode(inodes)
               IN  Opened(p, DirAdd([inodes EXCEPT ![new] = Fresh("reg")], d, n, new), new, path)
      /\ UNCHANGED <<machine, live, cwd>>

\* /proc/self/maps: a file without a name, for as long as it is open.
OpenProcMaps(p) ==
  /\ Calls(p, "maps") /\ Cardinality(fds[p]) < machine.nfd /\ RoomForInode /\ RoomForFile
  /\ inodes' = [inodes EXCEPT ![NewInode(inodes)] = [Fresh("reg") EXCEPT !.refs = 1]]
  /\ files' = [files EXCEPT ![NewFile] = [Closed EXCEPT !.ino = NewInode(inodes)]]
  /\ fds' = [fds EXCEPT ![p] = @ \cup {NewFile}]
  /\ UNCHANGED <<machine, live, cwd>>

\* (A mutant: the directory that record_name held is not let go.)
FilePutInode(I, f) == LetGo(I, files[f].ino)

FilePut(I, f) ==
  LET J == LetGo(I, files[f].ino)
  IN  IF files[f].dir = None THEN J ELSE LetGo(J, files[f].dir)

\* The files that p alone has open, of those in F.
LastOf(p, F) == {f \in F : \A q \in Procs \ {p} : f \notin fds[q]}
Put(I, F) ==
  LET after[k \in Nat] ==
        IF k = 0 THEN I ELSE IF k \in F THEN FilePut(after[k - 1], k) ELSE after[k - 1]
  IN  after[Cardinality(Files)]

Close(p, f) ==
  /\ Calls(p, "close") /\ f \in fds[p]
  /\ inodes' = Put(inodes, LastOf(p, {f}))
  /\ files' = [g \in Files |-> IF g \in LastOf(p, {f}) THEN Closed ELSE files[g]]
  /\ fds' = [fds EXCEPT ![p] = @ \ {f}]
  /\ UNCHANGED <<machine, live, cwd>>

Fork(p, c) ==
  /\ Calls(p, "fork") /\ c \notin live
  /\ live' = live \cup {c}
  /\ cwd' = [cwd EXCEPT ![c] = cwd[p]]
  /\ fds' = [fds EXCEPT ![c] = fds[p]]
  /\ inodes' = Hold(inodes, cwd[p])
  /\ UNCHANGED <<machine, files>>

\* The files first, then the working directory; the last process stays.
Exit(p) ==
  LET last == LastOf(p, fds[p])
  IN  /\ Calls(p, "exit") /\ live # {p}
      /\ live' = live \ {p}
      /\ inodes' = LetGo(Put(inodes, last), cwd[p])
      /\ files' = [f \in Files |-> IF f \in last THEN Closed ELSE files[f]]
      /\ fds' = [fds EXCEPT ![p] = {}]
      /\ cwd' = [cwd EXCEPT ![p] = None]
      /\ UNCHANGED machine

Chdir(p, i) ==
  /\ i # None /\ IsDir(inodes, i)
  /\ inodes' = LetGo(Hold(inodes, i), cwd[p])
  /\ cwd' = [cwd EXCEPT ![p] = i]
  /\ UNCHANGED <<machine, live, fds, files>>

ChdirPath(p, path) == Calls(p, "chdir") /\ Chdir(p, Namei(p, path, TRUE))
Fchdir(p, f) == Calls(p, "fchdir") /\ f \in fds[p] /\ Chdir(p, files[f].ino)

(***************************************************************************)
(* The calls that read, make, move and take away names.                    *)
(***************************************************************************)

\* (A mutant: one entry too many is passed over.)
ListedPastPos(dents, pos, end) == {k \in DOMAIN dents : pos < k + 1 /\ k + 2 <= end}
Listed(dents, pos, end) == {k \in DOMAIN dents : pos < k + 2 /\ k + 2 <= end}

\* What getdents64 lists, "." and ".." first; k is the room in the buffer.
\* read, stayed and gone belong to the properties only: how often the entry of
\* each name has been returned since that entry was made, the names of the start
\* that have been there ever since, and how many have been removed since it began
\* (no more are counted than there are names).
Getdents(p, f, k) ==
  LET d == files[f].ino
      dents == inodes[d].dents
      pos == files[f].pos
      end == Min({pos + k, 2 + Len(dents)})
  IN  /\ Calls(p, "getdents") /\ f \in fds[p] /\ IsDir(inodes, d)
      /\ pos < 2 + Len(dents)
      /\ files' = [files EXCEPT ![f].pos = end,
           ![f].read = [n \in Names |-> @[n] + Cardinality({j \in Listed(dents, pos, end) : dents[j].name = n})]]
      /\ UNCHANGED <<machine, live, cwd, fds, inodes>>

\* lseek(fd, 0, SEEK_SET) on a directory.
Rewind(p, f) ==
  /\ Calls(p, "rewind") /\ f \in fds[p] /\ IsDir(inodes, files[f].ino) /\ files[f].pos # 0
  /\ files' = [files EXCEPT ![f].pos = 0, ![f].read = Closed.read, ![f].gone = 0,
                            ![f].stayed = NamesIn(inodes, files[f].ino)]
  /\ UNCHANGED <<machine, live, cwd, fds, inodes>>

\* The readers of d after the entry of name n has gone from it.  What is made again
\* under that name is another entry, which no reader has been given yet.
Forgotten(F, d, n) == [f \in Files |->
  IF F[f].ino # d THEN F[f]
  ELSE [F[f] EXCEPT !.read[n] = 0, !.stayed = @ \ {n},
                        !.gone = IF F[f].pos = 0 THEN 0 ELSE Min({@ + 1, Cardinality(Names)})]]

\* mkdir, mknod and symlink: a new inode of some kind under a new name.
Make(p, path, inode) ==
  LET d == ParentAt(p, path)
      n == Last(path.comps)
      new == NewInode(inodes)
  IN  /\ d # None /\ DirLookup(inodes, d, n) = None /\ RoomForInode
      /\ inodes' = DirAdd([inodes EXCEPT ![new] = inode], d, n, new)
      /\ UNCHANGED <<machine, live, cwd, fds, files>>

Mkdirat(p, path) == Calls(p, "mkdir") /\ Make(p, path, Fresh("dir"))
MknodAt(p, path) == Calls(p, "mknod") /\ Make(p, path, Fresh("fifo"))
Symlinkat(p, path, target) ==
  Calls(p, "symlink") /\ Make(p, path, [Fresh("link") EXCEPT !.target = target])

\* rmdir when `dir`, else unlink.
Unlinkat(p, path, dir) ==
  LET d == ParentAt(p, path)
      n == Last(path.comps)
      i == DirLookup(inodes, d, n)
  IN  /\ Calls(p, "unlink") /\ d # None /\ i # None
      /\ dir = IsDir(inodes, i)
      /\ dir => inodes[i].dents = <<>> /\ i # Root
      /\ inodes' = DirRemove(inodes, d, n)
      /\ files' = Forgotten(files, d, n)
      /\ UNCHANGED <<machine, live, cwd, fds>>

Linkat(p, old, path, follow) ==
  LET i == Namei(p, old, follow)
      d == ParentAt(p, path)
      n == Last(path.comps)
  IN  /\ Calls(p, "link") /\ i # None /\ ~IsDir(inodes, i)
      /\ d # None /\ DirLookup(inodes, d, n) = None
      /\ inodes' = DirAdd(inodes, d, n, i)
      /\ UNCHANGED <<machine, live, cwd, fds, files>>

\* src goes from name ol of od to name nl of nd, where dst was.
Renamed(I, od, ol, nd, nl, src, dst) ==
  LET J == IF dst = None THEN I ELSE DirRemove(I, nd, nl)
      K == DirRemove(Hold(J, src), od, ol)
      L == DirAdd(K, nd, nl, src)
  IN  [L EXCEPT ![src].refs = @ - 1]

\* (A mutant: only the directory itself is looked at.)
IsAncestorNear(src, nd) == src = nd

\* Whether a directory src is nd or above it.  The parent of a removed directory
\* may be gone and its memory in use again: where that makes a cycle the code
\* does not return, and no outcome is modelled.
IsAncestor(src, nd) ==
  LET up[n \in Nat] == IF n = 0 THEN nd
                       ELSE IF up[n - 1] \in {None, Root} THEN up[n - 1] ELSE inodes[up[n - 1]].parent
  IN  \/ src = Root
      \/ \E n \in 0..Cardinality(Inodes) : up[n] = src
      \/ up[Cardinality(Inodes)] \notin {None, Root}

Renameat(p, old, path) ==
  LET od == ParentAt(p, old)
      nd == ParentAt(p, path)
      ol == Last(old.comps)
      nl == Last(path.comps)
      src == DirLookup(inodes, od, ol)
      dst == DirLookup(inodes, nd, nl)
  IN  /\ Calls(p, "rename") /\ od # None /\ nd # None /\ src # None /\ dst # src
      /\ ~(IsDir(inodes, src) /\ IsAncestor(src, nd))
      /\ dst # None => /\ IsDir(inodes, dst) = IsDir(inodes, src)
                       /\ IsDir(inodes, dst) => inodes[dst].dents = <<>>
      /\ inodes' = Renamed(inodes, od, ol, nd, nl, src, dst)
      /\ files' = Forgotten(IF dst = None THEN files ELSE Forgotten(files, nd, nl), od, ol)
      /\ UNCHANGED <<machine, live, cwd, fds>>

FsNext == \E p \in Procs :
  \/ OpenProcMaps(p)
  \/ \E q \in Procs : Fork(p, q)
  \/ Exit(p)
  \/ \E f \in Files : Close(p, f) \/ Fchdir(p, f) \/ Rewind(p, f)
  \/ \E f \in Files, k \in machine.rooms : Getdents(p, f, k)
  \/ \E path \in machine.opens : Open(p, path)
  \/ \E path \in machine.paths :
       \/ OpenCreat(p, path) \/ ChdirPath(p, path)
       \/ Mkdirat(p, path) \/ MknodAt(p, path)
       \/ \E target \in machine.targets : Symlinkat(p, path, target)
       \/ \E dir \in BOOLEAN : Unlinkat(p, path, dir)
       \/ \E old \in machine.paths, follow \in BOOLEAN : Linkat(p, old, path, follow)
       \/ \E old \in machine.paths : Renameat(p, old, path)

FsSpec == FsInit /\ [][FsNext]_fsVars

(***************************************************************************)
(* What must hold.                                                         *)
(***************************************************************************)

Live(i) == inodes[i].kind # "free"
Used(i) == Cardinality({p \in live : cwd[p] = i}) + Cardinality({f \in Files : files[f].ino = i})
           + Cardinality({f \in Files : files[f].dir = i})

\* The state: inodes are of the kinds there are, what a process or a file holds
\* is an inode, and a file is open as long as a process has it.
FsTypeOK ==
  /\ machine \in Machines /\ live \subseteq Procs
  /\ \A p \in live : IsDir(inodes, cwd[p])
  /\ \A f \in Files :
       /\ files[f] # Closed <=> \E p \in live : f \in fds[p]
       /\ files[f] # Closed => Live(files[f].ino)
       /\ files[f].dir # None => IsDir(inodes, files[f].dir)
  /\ \A i \in Inodes :
       /\ inodes[i].kind \in {"free", "dir", "reg", "fifo", "link"}
       /\ \A k \in DOMAIN inodes[i].dents : Live(inodes[i].dents[k].ino)

\* A directory's hash table holds what its list holds: each entry, in the chain of
\* its name and in no other; so a lookup finds the names that getdents64 lists, and
\* no name is there twice (dir_add, dir_remove, rehash, fs.c:227-294).
TableMatchesList == \A d \in Inodes :
  LET dents == inodes[d].dents
      htab == inodes[d].htab
  IN  /\ Cardinality(NamesIn(inodes, d)) = Len(dents)
      /\ htab = <<>> => Len(dents) <= ListMax
      /\ \A k \in DOMAIN dents : DirLookup(inodes, d, dents[k].name) = dents[k].ino
      /\ \A b \in DOMAIN htab : htab[b] = {e \in Entries(inodes, d) : Bucket(Len(htab), e.name) = b}

\* Every directory that has a name has one only, in its parent, and none is its
\* own ancestor: no directories that have names are each in another of them
\* (rename asks is_ancestor, sys.c:541-549).
HasName(I, d) == d # Root /\ IsDir(I, d) /\ I[d].nlink > I[d].lost
NamesOf(I, i) == {x \in Inodes \X Names : DirLookup(I, x[1], x[2]) = i}
TreeRooted ==
  /\ \A d \in Inodes : HasName(inodes, d) => \E n \in Names : NamesOf(inodes, d) = {<<inodes[d].parent, n>>}
  /\ \A S \in SUBSET {d \in Inodes : HasName(inodes, d)} : S # {} => \E d \in S : inodes[d].parent \notin S

\* One reading of a directory returns no entry twice, whatever is made and removed
\* between its calls (sys_getdents64's position, sys.c:359-416): a removal moves
\* entries down, never one that was returned up past the position.  A name that is
\* taken away, or renamed over, and made again is a new entry at the end: getdents64
\* may return that name once more, and this property does not forbid it.
NoEntryTwice == \A f \in Files, n \in Names : files[f].read[n] <= 1

\* A reading that has come to the end has returned every name that was there all
\* along, but for one at most for each name removed meanwhile: its position is an
\* index, and a removal moves the next entry below it.
SkipsForRemovals == \A f \in Files :
  files[f].ino # None /\ files[f].pos >= 2 + Len(inodes[files[f].ino].dents) =>
    Cardinality({n \in files[f].stayed : files[f].read[n] = 0}) <= files[f].gone

\* The names, and what keeps an inode, are those of a Unix file system: one call
\* makes, takes or moves one name, and an inode is freed when it has no names and
\* no users, no earlier and no later (fs.c:5-6), but for one that lost a name.
KindMap(I) == [i \in Inodes |-> I[i].kind]
NameMap(I) == [d \in Inodes |-> [n \in NamesIn(I, d) |-> DirLookup(I, d, n)]]
UserMap == [i \in Inodes |-> Used(i) + inodes[i].lost]
Tree == INSTANCE FileTree WITH
  Nodes <- Inodes, Top <- Root,
  kind <- KindMap(inodes), names <- NameMap(inodes), users <- UserMap
ImplementsTree == Tree!Spec

=============================================================================
