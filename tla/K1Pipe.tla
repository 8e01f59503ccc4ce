------------------------------- MODULE K1Pipe -------------------------------
(***************************************************************************)
(* Pipes, FIFOs, descriptors and poll of the K1 kernel (k1/fs.c, k1/sys.c) *)
(* composed with its processes, scheduler and signals (K1Proc).            *)
(*                                                                         *)
(* A descriptor is a pipe's open file or 0 (closed, or a file that never   *)
(* blocks).  Of a ring only the number of bytes in it is kept.             *)
(***************************************************************************)
EXTENDS K1Proc, FiniteSetsExt

CONSTANTS
  MaxFd,        \* descriptors per process (NFD)
  MaxFiles,     \* struct files that exist at once
  MaxPipes,     \* struct pipes that exist at once
  PipeSize,     \* PIPESZ
  Sizes,        \* the byte counts programs read and write
  Fifo,         \* how programs open the FIFO: a set of wend values
  CloseOnExec   \* the O_CLOEXEC values they use

ASSUME PipeAssumption ==
  /\ MaxFd \in Nat /\ MaxFiles \in Nat /\ MaxPipes \in Nat
  /\ PipeSize \in Nat \ {0} /\ Sizes \subseteq Nat \ {0}
  /\ Fifo \subseteq 0..2 /\ CloseOnExec \subseteq BOOLEAN

FDs   == 0..MaxFd - 1
Files == 1..MaxFiles
Pipes == 1..MaxPipes
PIPE  == 13
ASSUME SigpipeAssumption == PIPE \in Sigs

VARIABLES
  fd, cloexec,          \* fd[p][d]: the open file, 0 for none
  refs, fpipe, wend,    \* struct file: 0 read end, 1 write end, 2 both
  readers, writers,     \* struct pipe
  level,                \* p->w - p->r
  fifo                  \* the FIFO inode's pipe, 0 while no one has it open

pipeVars == <<fd, cloexec, refs, fpipe, wend, readers, writers, level, fifo>>
allVars == <<vars, pipeVars>>

Pollq == <<"poll", 0>>
PipeChan(i) == <<"pipe", i>>

PipeOf(p, d) == fpipe[fd[p][d]]
PipeFree(i) == readers[i] = 0 /\ writers[i] = 0
WokenSleepers(st, i) == Woken(st, PipeChan(i))      \* poll_wakeup forgotten
WokenPollers(st, i) == Woken(st, Pollq)             \* wakeup(p) forgotten
WokenPipe(st, i) == Woken(Woken(st, PipeChan(i)), Pollq)

(* ---- descriptors ---- *)

FreeFds == {d \in FDs : fd[cur][d] = 0}
FreeFiles == {f \in Files : refs[f] = 0}

\* file_put of the current process's descriptors D: what the counts become.
RefsOncePerFile(D) ==       \* one reference per file, not per descriptor
  [f \in Files |-> IF \E d \in D : fd[cur][d] = f THEN refs[f] - 1 ELSE refs[f]]
RefsAfter(D) == [f \in Files |-> refs[f] - Cardinality({d \in D : fd[cur][d] = f})]
Put(D) == {f \in Files : refs[f] > 0 /\ RefsAfter(D)[f] = 0}
ReadersAfter(D) ==
  [i \in Pipes |-> readers[i] - Cardinality({f \in Put(D) : fpipe[f] = i /\ wend[f] # 1})]
WritersAfter(D) ==
  [i \in Pipes |-> writers[i] - Cardinality({f \in Put(D) : fpipe[f] = i /\ wend[f] # 0})]
Freed(D) == {i \in Pipes : ~PipeFree(i) /\ ReadersAfter(D)[i] = 0 /\ WritersAfter(D)[i] = 0}

\* The last reference to a file takes its end off the pipe and wakes the
\* pipe's sleepers and every poller; the last end frees the pipe.
PutEnds(D) ==
  /\ fpipe' = [f \in Files |-> IF f \in Put(D) THEN 0 ELSE fpipe[f]]
  /\ wend' = [f \in Files |-> IF f \in Put(D) THEN 0 ELSE wend[f]]
  /\ readers' = ReadersAfter(D)
  /\ writers' = WritersAfter(D)
  /\ level' = [i \in Pipes |-> IF i \in Freed(D) THEN 0 ELSE level[i]]
  /\ fifo' = IF fifo \in Freed(D) THEN 0 ELSE fifo

UnwokenByPut(D) == state    \* the last close wakes no one
WokenByPut(D) ==
  [p \in Pids |->
     IF /\ state[p] = "sleep" /\ Put(D) # {}
        /\ chan[p] \in {Pollq} \cup {PipeChan(fpipe[f]) : f \in Put(D)}
     THEN "run" ELSE state[p]]

OpenFds == {d \in FDs : fd[cur][d] # 0}

Close ==
  \E d \in OpenFds :
    /\ Calling("close", NoArg)
    /\ fd' = [fd EXCEPT ![cur][d] = 0]
    /\ cloexec' = [cloexec EXCEPT ![cur][d] = FALSE]
    /\ refs' = RefsAfter({d}) /\ PutEnds({d})
    /\ state' = WokenByPut({d})
    /\ Return /\ chan' = chan
    /\ UNCHANGED <<treeVars, sigVars, alarm>>

\* dup and fcntl(F_DUPFD): the lowest free descriptor, or EMFILE.
Dup ==
  \E d \in OpenFds, ce \in CloseOnExec :
    /\ Calling("dup", NoArg)
    /\ IF FreeFds = {} THEN UNCHANGED <<fd, cloexec, refs>>
       ELSE /\ fd' = [fd EXCEPT ![cur][Min(FreeFds)] = fd[cur][d]]
            /\ cloexec' = [cloexec EXCEPT ![cur][Min(FreeFds)] = ce]
            /\ refs' = [refs EXCEPT ![fd[cur][d]] = @ + 1]
    /\ ReturnOnly
    /\ UNCHANGED <<fpipe, wend, readers, writers, level, fifo, treeVars, sigVars, alarm>>

\* dup2 and dup3 first put the file that was at the new descriptor.
Dup3 ==
  \E d \in OpenFds, ce \in CloseOnExec : \E e \in FDs \ {d} :
    LET old == {e} \cap OpenFds IN
    /\ Calling("dup3", NoArg)
    /\ refs' = [RefsAfter(old) EXCEPT ![fd[cur][d]] = @ + 1]
    /\ PutEnds(old)
    /\ fd' = [fd EXCEPT ![cur][e] = fd[cur][d]]
    /\ cloexec' = [cloexec EXCEPT ![cur][e] = ce]
    /\ state' = WokenByPut(old)
    /\ Return /\ chan' = chan
    /\ UNCHANGED <<treeVars, sigVars, alarm>>

(* ---- making pipes ---- *)

\* pipe2: two open files on the two lowest descriptors.  Without room for
\* both, what was made is put again, which wakes the pollers.
PipeCall ==
  \E i \in Pipes, ce \in CloseOnExec :
    LET x == Min(FreeFds)
        y == Min(FreeFds \ {x})
        r == Min(FreeFiles)
        w == Min(FreeFiles \ {r})
    IN
    /\ Calling("pipe", NoArg) /\ PipeFree(i) /\ Cardinality(FreeFiles) > 1
    /\ IF Cardinality(FreeFds) < 2
       THEN /\ state' = Woken(state, Pollq)
            /\ UNCHANGED pipeVars
       ELSE /\ fd' = [fd EXCEPT ![cur][x] = r, ![cur][y] = w]
            /\ cloexec' = [cloexec EXCEPT ![cur][x] = ce, ![cur][y] = ce]
            /\ refs' = [refs EXCEPT ![r] = 1, ![w] = 1]
            /\ fpipe' = [fpipe EXCEPT ![r] = i, ![w] = i]
            /\ wend' = [wend EXCEPT ![r] = 0, ![w] = 1]
            /\ readers' = [readers EXCEPT ![i] = 1]
            /\ writers' = [writers EXCEPT ![i] = 1]
            /\ UNCHANGED <<level, fifo, state>>
    /\ Return /\ chan' = chan
    /\ UNCHANGED <<treeVars, sigVars, alarm>>

\* sys_open_at of the FIFO: its pipe is made by the first opener; opens do
\* not wait for the other end.  Without a free descriptor the file is put
\* again, which wakes the pipe's sleepers and the pollers.
OpenFifo ==
  \E e \in Fifo, ce \in CloseOnExec, i \in Pipes :
    LET f == Min(FreeFiles) IN
    /\ Calling("openfifo", NoArg) /\ FreeFiles # {}
    /\ IF fifo = 0 THEN PipeFree(i) ELSE i = fifo
    /\ IF FreeFds = {}
       THEN /\ state' = WokenPipe(state, i)
            /\ UNCHANGED <<fd, cloexec, refs, fpipe, wend, readers, writers, fifo>>
       ELSE /\ fifo' = i
            /\ fd' = [fd EXCEPT ![cur][Min(FreeFds)] = f]
            /\ cloexec' = [cloexec EXCEPT ![cur][Min(FreeFds)] = ce]
            /\ refs' = [refs EXCEPT ![f] = 1]
            /\ fpipe' = [fpipe EXCEPT ![f] = i]
            /\ wend' = [wend EXCEPT ![f] = e]
            /\ readers' = IF e # 1 THEN [readers EXCEPT ![i] = @ + 1] ELSE readers
            /\ writers' = IF e # 0 THEN [writers EXCEPT ![i] = @ + 1] ELSE writers
            /\ UNCHANGED state
    /\ Return /\ chan' = chan
    /\ UNCHANGED <<level, treeVars, sigVars, alarm>>

(* ---- read and write ---- *)

SpaceOffByOne(i) == PipeSize + 1 - level[i]
Space(i) == PipeSize - level[i]

KeepFiles == UNCHANGED <<fd, cloexec, refs, fpipe, wend, readers, writers, fifo>>
KeepProcs == UNCHANGED <<treeVars, sigVars, alarm>>

\* pipe_read of n bytes: one pass of its loop and, with data there, the rest.
ReadPass(d, n) ==
  LET i == PipeOf(cur, d) IN
  /\ \/ /\ level[i] > 0
        /\ level' = [level EXCEPT ![i] = @ - Min({n, level[i]})]
        /\ state' = WokenPipe(state, i)
        /\ Return /\ chan' = chan
     \/ /\ level[i] = 0 /\ level' = level
        /\ \/ writers[i] = 0 /\ ReturnOnly
           \/ writers[i] > 0 /\ SignalPending /\ Restart("read", <<d, n, 0>>)
           \/ writers[i] > 0 /\ ~SignalPending
              /\ SleepOn(PipeChan(i), "read", <<d, n, 0>>)
  /\ KeepFiles /\ KeepProcs

Read ==
  \E d \in OpenFds, n \in Sizes :
    Calling("read", <<d, n, 0>>) /\ wend[fd[cur][d]] # 1 /\ ReadPass(d, n)
ReadResume == Resumed("read") /\ ReadPass(pc[cur].arg[1], pc[cur].arg[2])

\* pipe_write with n bytes left, done of them written before: up to its
\* return or its sleep.  Filling the ring wakes the pipe's sleepers only.
WritePass(d, n, done) ==
  LET i == PipeOf(cur, d)
      space == Space(i)
  IN
  \/ /\ readers[i] = 0
     /\ sigpend' = Pended(state, {cur}, PIPE)
     /\ ReturnOnly
     /\ UNCHANGED <<level, treeVars, sigmask, sa, suspend, frames, asyncfull, alarm>>
     /\ KeepFiles
  \/ /\ readers[i] > 0 /\ n <= space
     /\ level' = [level EXCEPT ![i] = @ + n]
     /\ state' = WokenPipe(state, i)
     /\ Return /\ chan' = chan
     /\ KeepFiles /\ KeepProcs
  \/ /\ readers[i] > 0 /\ n > space
     /\ level' = [level EXCEPT ![i] = PipeSize]
     /\ IF SignalPending
        THEN /\ state' = Woken(state, PipeChan(i))
             /\ mode' = "ret" /\ UNCHANGED <<cur, chan>>
             /\ pc' = [pc EXCEPT ![cur] = IF done + space = 0 /\ RestartOK
                                          THEN Redo("write", <<d, n, 0>>) ELSE User]
        ELSE /\ state' = [Woken(state, PipeChan(i)) EXCEPT ![cur] = "sleep"]
             /\ chan' = [chan EXCEPT ![cur] = PipeChan(i)]
             /\ pc' = [pc EXCEPT ![cur] = Blocked("write", <<d, n - space, done + space>>)]
             /\ mode' = "sched" /\ cur' = cur
     /\ KeepFiles /\ KeepProcs

Write ==
  \E d \in OpenFds, n \in Sizes :
    Calling("write", <<d, n, 0>>) /\ wend[fd[cur][d]] # 0 /\ WritePass(d, n, 0)
WriteResume ==
  Resumed("write") /\ WritePass(pc[cur].arg[1], pc[cur].arg[2], pc[cur].arg[3])

\* A descriptor that is closed or open for the other direction (EBADF), or a
\* file that never blocks: the call returns at once.
ReadWriteElse ==
  \E c \in {"read", "write"}, d \in FDs, n \in Sizes :
    /\ Calling(c, <<d, n, 0>>)
    /\ fd[cur][d] # 0 => wend[fd[cur][d]] = (IF c = "read" THEN 1 ELSE 0)
    /\ ReturnOnly
    /\ UNCHANGED pipeVars /\ KeepProcs

(* ---- poll and select ---- *)

POLLIN == 1
POLLOUT == 4

\* The calls by what they wait with: sets instead of a list, a mask for the
\* wait (ppoll and pselect6 with one), a timeout.
Selects == {"select", "selecttimed", "pselect", "pselecttimed"}
Masked  == {"ppoll", "ppolltimed", "pselect", "pselecttimed"}
Timed   == {"polltimed", "selecttimed", "ppolltimed", "pselecttimed"}
Polls   == {"poll"} \cup Selects \cup Masked \cup Timed

\* poll_one: POLLIN or POLLOUT if asked, POLLHUP and POLLERR anyway.
Ready(p, d, ev) ==
  LET f == fd[p][d]
      i == fpipe[f]
  IN \/ wend[f] # 1 /\ (writers[i] = 0 \/ (ev = POLLIN /\ level[i] > 0))
     \/ wend[f] # 0 /\ (readers[i] = 0 \/ (ev = POLLOUT /\ level[i] < PipeSize))

\* What do_select counts: d in the read set, any of these; d in the write set,
\* no hangup.
Selected(p, d, ev) ==
  LET f == fd[p][d]
      i == fpipe[f]
  IN \/ ev = POLLIN /\ Ready(p, d, ev)
     \/ ev = POLLOUT /\ wend[f] # 0 /\ (readers[i] = 0 \/ level[i] < PipeSize)

\* A look at d that ends the call: no open file (POLLNVAL, EBADF), a file that
\* never blocks, or a pipe with something to tell.  ev = 0: d is in no set.
Answers(call, p, d, ev) ==
  /\ ev # 0
  /\ fd[p][d] # 0 => IF call \in Selects THEN Selected(p, d, ev) ELSE Ready(p, d, ev)

\* What the program's arguments ask for after a look that found nothing:
\* do_select takes what is not ready out of the program's own sets.
Asked(call, ev) == IF call \in Selects THEN 0 ELSE ev

\* One pass of do_poll or do_select: an answer, a deadline that has passed, a
\* signal, or the wait.  mask_after_wait puts the program's mask back with a
\* result, and turns ERESTART into an EINTR that is never restarted.
PollPass(call, d, ev) ==
  /\ \/ (Answers(call, cur, d, ev) \/ call \in Timed) /\ ReturnOnly /\ Unsuspend
     \/ /\ ~Answers(call, cur, d, ev)
        /\ IF SignalPending
           THEN IF call \in Masked THEN ReturnOnly ELSE Restart(call, <<d, Asked(call, ev), 0>>)
           ELSE IF call \in Timed THEN YieldIn(call, <<d, ev, 0>>)
                                  ELSE SleepOn(Pollq, call, <<d, ev, 0>>)
        /\ UNCHANGED <<sigmask, suspend>>
  /\ KeepFiles
  /\ UNCHANGED <<level, treeVars, sigpend, sa, frames, asyncfull, alarm>>

\* Programs ask for something; a select that is made again may not.
Poll ==
  \E c \in Polls \ Masked, d \in FDs, ev \in {0, POLLIN, POLLOUT} :
    Calling(c, <<d, ev, 0>>) /\ (ev = 0 => pc[cur] # User) /\ PollPass(c, d, ev)
PollResume ==
  \E c \in Polls : Resumed(c) /\ PollPass(c, pc[cur].arg[1], pc[cur].arg[2])

\* ppoll and pselect6 with a mask: mask_during_wait, then the first pass.
PPoll ==
  \E c \in Masked, d \in FDs, ev \in {POLLIN, POLLOUT}, m \in Masks :
    /\ Calling(c, <<d, ev, 0>>)
    /\ \/ /\ Answers(c, cur, d, ev) \/ c \in Timed
          /\ ReturnOnly /\ UNCHANGED <<sigmask, suspend>>
       \/ /\ ~Answers(c, cur, d, ev)
          /\ suspend' = [suspend EXCEPT ![cur] = {sigmask[cur]}]
          /\ sigmask' = [sigmask EXCEPT ![cur] = m \ Unmaskable]
          /\ IF Deliverable(cur, m \ Unmaskable) # {} THEN ReturnOnly
             ELSE IF c \in Timed THEN YieldIn(c, <<d, ev, 0>>)
                                 ELSE SleepOn(Pollq, c, <<d, ev, 0>>)
    /\ KeepFiles
    /\ UNCHANGED <<level, treeVars, sigpend, sa, frames, asyncfull, alarm>>

(* ---- the process calls, with what they do to the descriptors ---- *)

\* do_fork: the child shares every open file.
ForkFilesNoRefs ==          \* copies the table without f->refs++
  /\ fd' = [fd EXCEPT ![nextpid] = fd[cur]]
  /\ cloexec' = [cloexec EXCEPT ![nextpid] = cloexec[cur]]
  /\ UNCHANGED <<refs, fpipe, wend, readers, writers, level, fifo>>
ForkFiles ==
  /\ fd' = [fd EXCEPT ![nextpid] = fd[cur]]
  /\ cloexec' = [cloexec EXCEPT ![nextpid] = cloexec[cur]]
  /\ refs' = [f \in Files |-> refs[f] + Cardinality({d \in FDs : fd[cur][d] = f})]
  /\ UNCHANGED <<fpipe, wend, readers, writers, level, fifo>>

PipeFork == (Fork \/ VFork) /\ ForkFiles

\* The descriptors D of cur close inside exec or exit.
DropFds(D) ==
  /\ fd' = [fd EXCEPT ![cur] = [d \in FDs |-> IF d \in D THEN 0 ELSE @[d]]]
  /\ cloexec' = [cloexec EXCEPT ![cur] = [d \in FDs |-> IF d \in D THEN FALSE ELSE @[d]]]
  /\ refs' = RefsAfter(D) /\ PutEnds(D)

CloexecFds == {d \in OpenFds : cloexec[cur][d]}
PipeExec == ExecWith(WokenByPut(CloexecFds)) /\ DropFds(CloexecFds)

\* do_exit closes every descriptor before anything else.
PipeDoExit ==
  /\ mode = "exit" /\ cur # 1
  /\ ExitWith(WokenByPut(OpenFds))
  /\ DropFds(OpenFds)

OtherProcStep ==
  /\ \/ Exit \/ Wait4 \/ WaitNoHang \/ Pause \/ Sigsuspend \/ Alarm \/ Kill
     \/ Setpgid \/ Sigaction \/ Sigprocmask \/ Sigreturn \/ Nanosleep \/ Yield
     \/ VForkResume \/ Wait4Resume \/ PauseResume \/ Tick \/ Fault \/ CheckTimers
     \/ DeliverNothing \/ DeliverFatal \/ DeliverHandler \/ InitExit \/ Schedule
     \/ Halted
  /\ UNCHANGED pipeVars

PipeInit ==
  /\ Init
  /\ fd = [p \in Pids |-> [d \in FDs |-> 0]]
  /\ cloexec = [p \in Pids |-> [d \in FDs |-> FALSE]]
  /\ refs = [f \in Files |-> 0]
  /\ fpipe = [f \in Files |-> 0]
  /\ wend = [f \in Files |-> 0]
  /\ readers = [i \in Pipes |-> 0]
  /\ writers = [i \in Pipes |-> 0]
  /\ level = [i \in Pipes |-> 0]
  /\ fifo = 0

PipeNext ==
  \/ OtherProcStep \/ PipeFork \/ PipeExec \/ PipeDoExit
  \/ Close \/ Dup \/ Dup3 \/ PipeCall \/ OpenFifo
  \/ Read \/ ReadResume \/ Write \/ WriteResume \/ ReadWriteElse
  \/ Poll \/ PPoll \/ PollResume

PipeSpec == PipeInit /\ [][PipeNext]_allVars

(* ---- properties ---- *)

\* The types of the descriptors, files and pipes.
PipeTypeOK ==
  /\ fd \in [Pids -> [FDs -> 0..MaxFiles]]
  /\ cloexec \in [Pids -> [FDs -> BOOLEAN]]
  /\ refs \in [Files -> Nat] /\ fpipe \in [Files -> 0..MaxPipes]
  /\ wend \in [Files -> 0..2]
  /\ readers \in [Pipes -> Nat] /\ writers \in [Pipes -> Nat]
  /\ level \in [Pipes -> 0..PipeSize]
  /\ fifo \in 0..MaxPipes

\* Every count is the number of things it counts: a file's references are the
\* descriptors that hold it in live processes, a pipe's readers and writers
\* are its open ends.  A wrong one is an end of file that never comes, or a
\* pipe freed under its users.
CountsExact ==
  /\ \A f \in Files :
       refs[f] = Cardinality({x \in Pids \X FDs : fd[x[1]][x[2]] = f})
  /\ \A i \in Pipes :
       /\ readers[i] = Cardinality({f \in Files : fpipe[f] = i /\ wend[f] # 1})
       /\ writers[i] = Cardinality({f \in Files : fpipe[f] = i /\ wend[f] # 0})

\* No wakeup of a pipe is lost: a process asleep in read has nothing to read
\* and may still get something, one asleep in write has no room and someone
\* may still make some.
PipeSleepersWait ==
  \A p \in Pids : state[p] = "sleep" =>
    LET i == PipeOf(p, pc[p].arg[1]) IN
    /\ pc[p].call = "read" => level[i] = 0 /\ writers[i] > 0
    /\ pc[p].call = "write" => level[i] = PipeSize /\ readers[i] > 0

\* What a process goes on with: a poll of something, a call on a pipe.
Watching(x) == x.call \in Polls /\ x.arg[2] # 0
InPipe(x) == x.at = "blocked" /\ (x.call \in {"read", "write"} \/ Watching(x))

\* A pipe's struct is not freed while a process is blocked on it: blocked
\* processes hold an end of it open.  (A select with empty sets is on none.)
BlockedOnOpenPipe ==
  \A p \in Pids :
    LET d == pc[p].arg[1] IN
    Live(p) /\ InPipe(pc[p])
      => fd[p][d] # 0 /\ PipeOf(p, d) # 0 /\ ~PipeFree(PipeOf(p, d))

PollerMissed(p) == state[p] = "sleep" /\ Watching(pc[p])
                   /\ Answers(pc[p].call, p, pc[p].arg[1], pc[p].arg[2])

\* No process sleeps in poll or select on a descriptor that is ready for what
\* the call was last made with (see SelectKeepsAsking), but for bytes of a
\* writer that filled the ring and sleeps in the middle of its write (or, with
\* signals, died or was interrupted there: see OnlyFullRingMissed).
PollSleepersWait ==
  \A p \in Pids : PollerMissed(p) =>
    \E q \in Pids : state[q] = "sleep" /\ pc[q].call = "write"
                   /\ PipeOf(q, pc[q].arg[1]) = PipeOf(p, pc[p].arg[1])

\* All that a sleeping poller can miss, whoever is killed or interrupted while
\* it sleeps, is that the ring is full: never an end of file, a broken pipe,
\* bytes in a ring with room, or room.
FullRingMissed(p) ==
  LET f == fd[p][pc[p].arg[1]] IN
  /\ pc[p].arg[2] = POLLIN /\ wend[f] # 1 /\ level[fpipe[f]] = PipeSize
  /\ writers[fpipe[f]] > 0 /\ (wend[f] # 0 => readers[fpipe[f]] > 0)
OnlyFullRingMissed == \A p \in Pids : PollerMissed(p) => FullRingMissed(p)

\* "After an interrupted blocking call: restart it transparently"
\* (proc.c:574): no program asks select for nothing, so none sleeps in a
\* select that watches nothing.
SelectKeepsAsking ==
  \A p \in Pids : state[p] = "sleep" /\ pc[p].call \in Selects => pc[p].arg[2] # 0

\* "k1: deadlock" (proc.c:91): when K1 panics for want of a runnable process,
\* no process polls a descriptor that is ready.
DeadlockIsReal ==
  mode = "panic" => \A p \in Pids : ~PollerMissed(p)

=============================================================================
