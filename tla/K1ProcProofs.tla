---------------------------- MODULE K1ProcProofs ----------------------------
(***************************************************************************)
(* Proofs about K1Proc, for every number of processes and every menu of    *)
(* calls, signals, masks and handlers: its types, and its process tree (no *)
(* process is without a live parent, and the tree implements ProcLife).    *)
(***************************************************************************)
EXTENDS K1Proc, SequenceTheorems, TLAPS

USE DEF Unmaskable

States == {"free", "run", "sleep", "zombie"}


(* ---- wakeups ---- *)

\* st2 is st with some sleepers made runnable.
Wakes(st, st2) ==
  /\ st2 \in [Pids -> States]
  /\ \A p \in Pids : st2[p] = st[p] \/ (st[p] = "sleep" /\ st2[p] = "run")

\* wakeup() only makes sleepers runnable.
LEMMA WokenWakes ==
  ASSUME NEW st \in [Pids -> States], NEW c
  PROVE  Wakes(st, Woken(st, c))
BY DEF Wakes, Woken, States

\* So does the rest of what changes the states of other processes.
LEMMA RousedWakes ==
  ASSUME NEW st \in [Pids -> States], NEW S, NEW s
  PROVE  Wakes(st, Roused(st, S, s))
BY DEF Wakes, Roused, States

\* vfork_release only wakes.
LEMMA ReleasedWakes ==
  ASSUME NEW st \in [Pids -> States]
  PROVE  Wakes(st, ReleasedState(st))
BY WokenWakes DEF Wakes, ReleasedState, States

\* do_exit's wakeup of the parent only wakes.
LEMMA ParentsWakes ==
  ASSUME NEW st \in [Pids -> States]
  PROVE  Wakes(st, WokenParents(st))
BY DEF Wakes, WokenParents, States

\* do_exit's wakeup(procs) only wakes.
LEMMA OrphansWakes ==
  ASSUME NEW st \in [Pids -> States]
  PROVE  Wakes(st, WokenByOrphans(st))
BY DEF Wakes, WokenByOrphans, States

\* And the states that stay as they are.
LEMMA NoneWakes ==
  ASSUME NEW st \in [Pids -> States]
  PROVE  Wakes(st, st)
BY DEF Wakes

\* Signals sent are signals of Sigs.
LEMMA PendedType ==
  ASSUME TypeOK, NEW st, NEW S, NEW s \in Sigs
  PROVE  Pended(st, S, s) \in [Pids -> SUBSET Sigs]
BY DEF TypeOK, SigTypeOK, Pended

(* ---- types ---- *)

Triples == Int \X Int \X Int

\* What a process goes on with is a record of PCs.
LEMMA PcTypes ==
  /\ User \in PCs
  /\ NoArg \in Triples
  /\ \A a \in Int : Arg(a) \in Triples
  /\ \A st \in Int : Exiting(st) \in PCs
  /\ \A c \in Calls, a \in Triples : Blocked(c, a) \in PCs /\ Redo(c, a) \in PCs
<1>1. NoArg \in Triples /\ \A a \in Int : Arg(a) \in Triples
  BY DEF NoArg, Arg, Triples
<1>2. User \in PCs
  BY <1>1 DEF User, PCs, Triples
<1>3. \A st \in Int : Exiting(st) \in PCs
  BY <1>1 DEF Exiting, PCs, Triples
<1>4. \A c \in Calls, a \in Triples : Blocked(c, a) \in PCs /\ Redo(c, a) \in PCs
  BY DEF Blocked, Redo, PCs, Triples
<1> QED
  BY <1>1, <1>2, <1>3, <1>4

\* The initial state is well typed.
LEMMA TypeInit == Init => TypeOK
<1> SUFFICES ASSUME Init PROVE TypeOK
  OBVIOUS
<1> USE MaxPidAssumption DEF Init, Pids
<1>1. cur \in Pids /\ nextpid \in 2..MaxPid + 1
  OBVIOUS
<1>2. pc \in [Pids -> PCs]
  BY PcTypes
<1>3. chan \in [Pids -> Chans]
  BY DEF Chans, NoChan
<1>4. Default \in [Sigs -> SigActs]
  BY DEF Default, SigDfl, SigActs
<1>5. sa \in [Pids -> [Sigs -> SigActs]]
  BY <1>4
<1>6. frames \in [Pids -> Seq(Frames)]
  OBVIOUS
<1>7. suspend \in [Pids -> SUBSET SUBSET (Sigs \ Unmaskable)]
  OBVIOUS
<1>8. /\ state \in [Pids -> {"free", "run", "sleep", "zombie"}]
      /\ ppid \in [Pids -> Pids \cup {0}]
      /\ pgid \in [Pids -> Pids \cup {0}]
      /\ status \in [Pids -> Int]
      /\ vparent \in [Pids -> Pids \cup {0}]
  OBVIOUS
<1>9. /\ sigpend \in [Pids -> SUBSET Sigs]
      /\ sigmask \in [Pids -> SUBSET (Sigs \ Unmaskable)]
      /\ alarm \in [Pids -> {"off", "once", "every"}]
      /\ asyncfull \in BOOLEAN
      /\ mode = "user"
  OBVIOUS
<1> QED
  BY <1>1, <1>2, <1>3, <1>5, <1>6, <1>7, <1>8, <1>9
     DEF TypeOK, SchedTypeOK, TreeTypeOK, SigTypeOK

\* The ways a call leaves the CPU.
LEMMA TypeSched ==
  ASSUME SchedTypeOK
  PROVE  /\ Return /\ chan' = chan /\ state' \in [Pids -> States] => SchedTypeOK'
         /\ ReturnOnly => SchedTypeOK'
         /\ \A st \in Int : GoExit(st) => SchedTypeOK'
         /\ \A c \in Calls, a \in Triples : Restart(c, a) \/ YieldIn(c, a) => SchedTypeOK'
         /\ \A q \in Int, c \in Calls, a \in Triples : SleepOn(ProcChan(q), c, a) => SchedTypeOK'
         /\ UNCHANGED schedVars => SchedTypeOK'
<1> USE DEF SchedTypeOK
<1>1. Return /\ chan' = chan /\ state' \in [Pids -> States] => SchedTypeOK'
  BY PcTypes DEF Return, States
<1>2. ReturnOnly => SchedTypeOK'
  BY PcTypes DEF ReturnOnly, Return
<1>3. \A st \in Int : GoExit(st) => SchedTypeOK'
  BY PcTypes DEF GoExit
<1>4. \A c \in Calls, a \in Triples : Restart(c, a) \/ YieldIn(c, a) => SchedTypeOK'
  BY PcTypes DEF Restart, YieldIn
<1>5. \A q \in Int, c \in Calls, a \in Triples : SleepOn(ProcChan(q), c, a) => SchedTypeOK'
  BY PcTypes DEF SleepOn, ProcChan, Chans
<1>6. UNCHANGED schedVars => SchedTypeOK'
  BY DEF schedVars
<1> QED
  BY <1>1, <1>2, <1>3, <1>4, <1>5, <1>6


\* The tree's and the signals' variables keep their types when they do not
\* change.
LEMMA TypeSame ==
  /\ TreeTypeOK /\ UNCHANGED treeVars => TreeTypeOK'
  /\ SigTypeOK /\ UNCHANGED sigVars => SigTypeOK'
BY DEF TreeTypeOK, SigTypeOK, treeVars, sigVars

\* exec, whatever its closing of files has woken.
LEMMA TypeExec ==
  ASSUME TypeOK, NEW st0, Wakes(state, st0), ExecWith(st0)
  PROVE  TypeOK'
<1> USE DEF TypeOK, ExecWith
<1>1. Wakes(st0, ReleasedState(st0))
  BY ReleasedWakes DEF Wakes
<1>2. SchedTypeOK'
  BY <1>1, TypeSched DEF Wakes
<1>3. TreeTypeOK'
  <2>1. vparent' = [vparent EXCEPT ![cur] = 0] /\ UNCHANGED <<nextpid, ppid, pgid, status>>
    BY DEF ReleasedVparent
  <2> QED
    BY <2>1 DEF TreeTypeOK
<1>4. SigDfl \in SigActs
  BY DEF SigDfl, SigActs
<1>5. sa' \in [Pids -> [Sigs -> SigActs]] /\ frames' \in [Pids -> Seq(Frames)]
  BY <1>4 DEF SigTypeOK, SchedTypeOK
<1>6. SigTypeOK'
  BY <1>5 DEF SigTypeOK
<1> QED
  BY <1>2, <1>3, <1>6

\* The system calls that make processes and replace their programs.
LEMMA TypeMake ==
  ASSUME TypeOK, Fork \/ VFork \/ VForkResume \/ Exec
  PROVE  TypeOK'
<1> USE MaxPidAssumption DEF TypeOK
<1>1. ASSUME NEW c, NEW vp \in Pids \cup {0}, NewChild(c, vp)
      PROVE  c \in Pids /\ TreeTypeOK' /\ SigTypeOK' /\ UNCHANGED alarm
  <2>1. c \in Pids /\ UNCHANGED alarm
    BY <1>1 DEF NewChild
  <2>2. TreeTypeOK'
    <3>1. /\ c = nextpid /\ c \in Pids /\ nextpid' = nextpid + 1
          /\ ppid' = [ppid EXCEPT ![c] = cur]
          /\ pgid' = [pgid EXCEPT ![c] = pgid[cur]]
          /\ vparent' = [vparent EXCEPT ![c] = vp]
          /\ status' = status
      BY <1>1 DEF NewChild
    <3>2. cur \in Pids
      BY DEF SchedTypeOK
    <3>3. nextpid' \in 2..MaxPid + 1
      BY <3>1 DEF TreeTypeOK, Pids
    <3> QED
      BY <3>1, <3>2, <3>3 DEF TreeTypeOK
  <2>3. SigTypeOK'
    BY <1>1 DEF NewChild, SchedTypeOK, SigTypeOK
  <2> QED
    BY <2>1, <2>2, <2>3
<1>2. CASE Fork
  <2>1. PICK c \in Pids : NewChild(c, 0) /\ state' = [state EXCEPT ![c] = "run"] /\ Return /\ chan' = chan
    BY <1>2 DEF Fork
  <2>2. state' \in [Pids -> States]
    BY <2>1 DEF SchedTypeOK, States
  <2> QED
    BY <1>1, <2>1, <2>2, TypeSched
<1>3. CASE VFork
  <2>1. PICK c \in Pids :
          /\ Calling("vfork", NoArg) /\ NewChild(c, cur)
          /\ state' = [state EXCEPT ![c] = "run", ![cur] = "sleep"]
          /\ chan' = [chan EXCEPT ![cur] = ProcChan(c)]
          /\ pc' = [pc EXCEPT ![cur] = Blocked("vfork", Arg(c))]
          /\ mode' = "sched" /\ cur' = cur
    BY <1>3 DEF VFork
  <2>2. cur \in Pids \cup {0}
    BY DEF SchedTypeOK
  <2>3. Blocked("vfork", Arg(c)) \in PCs
    BY <2>1, PcTypes DEF Calling, Pids
  <2>4. ProcChan(c) \in Chans
    BY DEF ProcChan, Chans, Pids
  <2>5. SchedTypeOK'
    BY <2>1, <2>3, <2>4 DEF SchedTypeOK
  <2> QED
    BY <1>1, <2>1, <2>2, <2>5
<1>4. CASE VForkResume
  <2> USE <1>4 DEF VForkResume
  <2>1. pc[cur].call \in Calls \cup {"none"} /\ pc[cur].call = "vfork"
    BY DEF Resumed, SchedTypeOK, PCs
  <2>2. pc[cur].arg[1] \in Int /\ Arg(pc[cur].arg[1]) \in Triples
    BY PcTypes DEF SchedTypeOK, PCs
  <2> QED
    BY <2>1, <2>2, TypeSched, TypeSame
<1>5. CASE Exec
  BY <1>5, NoneWakes, TypeExec DEF Exec, SchedTypeOK, States
<1> QED
  BY <1>2, <1>3, <1>4, <1>5

\* Signal numbers and exit codes are integers.
LEMMA Numbers == /\ Sigs \subseteq Int
                 /\ KILL \in Sigs /\ SEGV \in Sigs /\ ALRM \in Sigs /\ CHLD \in Sigs
                 /\ \A c \in Codes : 256 * c \in Int
BY SigsAssumption, MenusAssumption

\* do_exit, whatever its closing of files has woken.
LEMMA TypeEnd ==
  ASSUME TypeOK, NEW st0, Wakes(state, st0), ExitWith(st0)
  PROVE  TypeOK'
<1> USE DEF TypeOK, ExitWith
<1> DEFINE st1 == WokenByOrphans(ReleasedState(st0))
           st2 == [st1 EXCEPT ![cur] = "zombie"]
           st3 == Roused(st2, Parents, CHLD)
<1>1. st1 \in [Pids -> States]
  BY ReleasedWakes, OrphansWakes DEF Wakes
<1>2. st2 \in [Pids -> States]
  BY <1>1 DEF States
<1>3. st3 \in [Pids -> States] /\ WokenParents(st3) \in [Pids -> States]
  <2>1. st3 \in [Pids -> States]
    BY <1>2, RousedWakes DEF Wakes
  <2> QED
    BY <2>1, ParentsWakes DEF Wakes
<1>4. state' = WokenParents(st3) /\ sigpend' = Pended(st2, Parents, CHLD)
  OBVIOUS
<1> HIDE DEF st1, st2, st3
<1>5. SchedTypeOK'
  BY <1>3, <1>4 DEF SchedTypeOK, States
<1>6. TreeTypeOK'
  <2>1. status' = [status EXCEPT ![cur] = pc[cur].arg[1]] /\ pc[cur].arg[1] \in Int
    BY DEF SchedTypeOK, PCs
  <2>2. 1 \in Pids
    BY MaxPidAssumption DEF Pids
  <2>3. ppid' \in [Pids -> Pids \cup {0}]
    BY <2>2 DEF TreeTypeOK, Reparented
  <2>4. vparent' \in [Pids -> Pids \cup {0}]
    BY DEF TreeTypeOK, ReleasedVparent
  <2> QED
    BY <2>1, <2>3, <2>4 DEF TreeTypeOK
<1>7. SigTypeOK'
  <2>1. sigpend' \in [Pids -> SUBSET Sigs]
    BY <1>4, PendedType, Numbers
  <2> QED
    BY <2>1 DEF SigTypeOK
<1> QED
  BY <1>5, <1>6, <1>7

\* exit and wait4.
LEMMA TypeExit ==
  ASSUME TypeOK, Exit \/ InitExit \/ DoExit \/ Wait4 \/ WaitNoHang \/ Wait4Resume
  PROVE  TypeOK'
<1> USE DEF TypeOK
<1>1. CASE Exit
  BY <1>1, Numbers, TypeSched, TypeSame DEF Exit
<1>2. CASE InitExit
  BY <1>2, TypeSame DEF InitExit, SchedTypeOK
<1>3. CASE DoExit
  BY <1>3, NoneWakes, TypeEnd DEF DoExit, SchedTypeOK, States
<1>4. ASSUME NEW z, Reap(z)
      PROVE  TypeOK'
  <2>1. SchedTypeOK'
    <3>1. /\ mode' = "ret" /\ cur' = cur
          /\ state' = [state EXCEPT ![z] = "free"]
          /\ chan' = [chan EXCEPT ![z] = NoChan]
          /\ pc' = [pc EXCEPT ![z] = User, ![cur] = User]
      BY <1>4 DEF Reap
    <3>2. NoChan \in Chans /\ User \in PCs
      BY PcTypes DEF Chans, NoChan
    <3> QED
      BY <3>1, <3>2 DEF SchedTypeOK
  <2>2. TreeTypeOK'
    <3>1. /\ nextpid' = nextpid /\ vparent' = vparent
          /\ ppid' = [ppid EXCEPT ![z] = 0]
          /\ pgid' = [pgid EXCEPT ![z] = 0]
          /\ status' = [status EXCEPT ![z] = 0]
      BY <1>4 DEF Reap
    <3>2. ppid' \in [Pids -> Pids \cup {0}] /\ pgid' \in [Pids -> Pids \cup {0}]
      BY <3>1 DEF TreeTypeOK
    <3>3. status' \in [Pids -> Int]
      <4>1. 0 \in Int
        OBVIOUS
      <4> QED
        BY <3>1, <4>1 DEF TreeTypeOK
    <3> QED
      BY <3>1, <3>2, <3>3 DEF TreeTypeOK
  <2>3. SigTypeOK'
    <3>1. Default \in [Sigs -> SigActs]
      BY DEF Default, SigDfl, SigActs
    <3>2. /\ sigpend' = [sigpend EXCEPT ![z] = {}]
          /\ sigmask' = [sigmask EXCEPT ![z] = {}]
          /\ sa' = [sa EXCEPT ![z] = Default]
          /\ suspend' = [suspend EXCEPT ![z] = {}]
          /\ frames' = [frames EXCEPT ![z] = <<>>]
          /\ asyncfull' = asyncfull
      BY <1>4 DEF Reap
    <3>3. sigpend' \in [Pids -> SUBSET Sigs] /\ sa' \in [Pids -> [Sigs -> SigActs]]
      BY <3>1, <3>2 DEF SigTypeOK
    <3>4. /\ sigmask' \in [Pids -> SUBSET (Sigs \ Unmaskable)]
          /\ suspend' \in [Pids -> SUBSET SUBSET (Sigs \ Unmaskable)]
      BY <3>2 DEF SigTypeOK
    <3>5. frames' \in [Pids -> Seq(Frames)]
      <4>1. <<>> \in Seq(Frames)
        OBVIOUS
      <4> QED
        BY <3>2, <4>1 DEF SigTypeOK
    <3> QED
      BY <3>2, <3>3, <3>4, <3>5 DEF SigTypeOK
  <2>4. alarm' \in [Pids -> {"off", "once", "every"}]
    BY <1>4 DEF Reap
  <2> QED
    BY <2>1, <2>2, <2>3, <2>4
<1>5. ASSUME NEW a \in Int, NEW nohang, Wait4Pass(a, nohang), nohang \/ "wait4" \in Calls
      PROVE  TypeOK'
  <2>1. Arg(a) \in Triples /\ SEGV \in Int /\ cur \in Int
    BY PcTypes, Numbers DEF SchedTypeOK, Pids
  <2> QED
    BY <1>4, <1>5, <2>1, TypeSched, TypeSame DEF Wait4Pass
<1>6. CASE Wait4
  BY <1>5, <1>6, MenusAssumption DEF Wait4, Calling
<1>7. CASE WaitNoHang
  BY <1>5, <1>7, MenusAssumption DEF WaitNoHang
<1>8. CASE Wait4Resume
  <2>1. pc[cur].call = "wait4" /\ pc[cur].call \in Calls \cup {"none"} /\ pc[cur].arg[1] \in Int
    BY <1>8 DEF Wait4Resume, Resumed, SchedTypeOK, PCs
  <2> QED
    BY <1>5, <1>8, <2>1 DEF Wait4Resume
<1> QED
  BY <1>1, <1>2, <1>3, <1>6, <1>7, <1>8

\* The calls that wait for a signal, the clock or the other processes.
LEMMA TypePause ==
  ASSUME TypeOK, Pause \/ Sigsuspend \/ PauseResume \/ Nanosleep \/ Yield \/ Alarm
  PROVE  TypeOK'
<1> USE DEF TypeOK
<1>1. cur \in Int /\ NoArg \in Triples /\ pc[cur].call \in Calls \cup {"none"}
  <2>1. cur \in Pids /\ pc[cur] \in PCs
    BY DEF SchedTypeOK
  <2>2. cur \in Int
    BY <2>1 DEF Pids
  <2>3. pc[cur].call \in Calls \cup {"none"}
    BY <2>1 DEF PCs
  <2> QED
    BY <2>2, <2>3, PcTypes
<1>2. ASSUME NEW call \in Calls, NEW m, PauseLoop(call, m)
      PROVE  SchedTypeOK'
  BY <1>1, <1>2, TypeSched DEF PauseLoop
<1>3. CASE Pause
  BY <1>2, <1>3, TypeSame DEF Pause, Calling
<1>4. CASE Sigsuspend
  <2>1. PICK m \in Masks :
          /\ Calling("sigsuspend", NoArg)
          /\ suspend' = [suspend EXCEPT ![cur] = {sigmask[cur]}]
          /\ sigmask' = [sigmask EXCEPT ![cur] = m \ Unmaskable]
          /\ PauseLoop("sigsuspend", m \ Unmaskable)
          /\ UNCHANGED <<treeVars, sigpend, sa, frames, asyncfull, alarm>>
    BY <1>4 DEF Sigsuspend
  <2>2. m \ Unmaskable \in SUBSET (Sigs \ Unmaskable)
    BY MenusAssumption
  <2>3. sigmask' \in [Pids -> SUBSET (Sigs \ Unmaskable)]
    BY <2>1, <2>2 DEF SigTypeOK
  <2>4. suspend' \in [Pids -> SUBSET SUBSET (Sigs \ Unmaskable)]
    BY <2>1 DEF SigTypeOK, SchedTypeOK
  <2>5. SigTypeOK'
    BY <2>1, <2>3, <2>4 DEF SigTypeOK
  <2> QED
    BY <1>2, <2>1, <2>5, TypeSame DEF Calling
<1>5. CASE PauseResume
  <2>1. pc[cur].call \in Calls
    BY <1>1, <1>5 DEF PauseResume, Resumed
  <2> QED
    BY <1>2, <1>5, <2>1, TypeSame DEF PauseResume
<1>6. CASE Nanosleep
  <2>1. "nanosleep" \in Calls
    BY <1>1, <1>6 DEF Nanosleep, Resumed, Calling
  <2> QED
    BY <1>1, <1>6, <2>1, TypeSched, TypeSame DEF Nanosleep
<1>7. CASE Yield
  <2>1. "yield" \in Calls
    BY <1>1, <1>7 DEF Yield, Resumed, Calling
  <2> QED
    BY <1>1, <1>7, <2>1, TypeSched, TypeSame DEF Yield
<1>8. CASE Alarm
  <2>1. alarm' \in [Pids -> {"off", "once", "every"}]
    BY <1>8 DEF Alarm
  <2> QED
    BY <1>8, <2>1, TypeSched, TypeSame DEF Alarm
<1> QED
  BY <1>3, <1>4, <1>5, <1>6, <1>7, <1>8

\* The signal calls.
LEMMA TypeSignal ==
  ASSUME TypeOK, Kill \/ Setpgid \/ Sigaction \/ Sigprocmask \/ Sigreturn
  PROVE  TypeOK'
<1> USE DEF TypeOK
<1>1. CASE Kill
  <2>1. PICK k \in KillPids, s \in KillSigs :
          /\ sigpend' = Pended(state, KillTargets(k), s)
          /\ state' = Roused(state, KillTargets(k), s)
          /\ Return /\ chan' = chan
          /\ UNCHANGED <<treeVars, sigmask, sa, suspend, frames, asyncfull, alarm>>
    BY <1>1 DEF Kill
  <2>2. s \in Sigs
    BY MenusAssumption
  <2>3. sigpend' \in [Pids -> SUBSET Sigs]
    BY <2>1, <2>2, PendedType
  <2>4. state' \in [Pids -> States]
    BY <2>1, RousedWakes DEF Wakes, SchedTypeOK, States
  <2>5. SigTypeOK'
    BY <2>1, <2>3 DEF SigTypeOK
  <2> QED
    BY <2>1, <2>4, <2>5, TypeSched, TypeSame
<1>2. CASE Setpgid
  <2>1. pgid' \in [Pids -> Pids \cup {0}] /\ UNCHANGED <<nextpid, ppid, status, vparent>>
    BY <1>2 DEF Setpgid, TreeTypeOK
  <2>2. TreeTypeOK'
    BY <2>1 DEF TreeTypeOK
  <2> QED
    BY <1>2, <2>2, TypeSched, TypeSame DEF Setpgid
<1>3. CASE Sigaction
  <2>1. PICK s \in ActSigs \ Unmaskable, act \in Acts :
          /\ sa' = [sa EXCEPT ![cur][s] = act]
          /\ sigpend' = sigpend \/ sigpend' = [sigpend EXCEPT ![cur] = @ \ {s}]
          /\ ReturnOnly
          /\ UNCHANGED <<treeVars, sigmask, suspend, frames, asyncfull, alarm>>
    BY <1>3 DEF Sigaction
  <2>2. act \in SigActs
    BY MenusAssumption
  <2>3. sa' \in [Pids -> [Sigs -> SigActs]]
    BY <2>1, <2>2 DEF SigTypeOK
  <2>4. sigpend' \in [Pids -> SUBSET Sigs]
    <3>1. sigpend[cur] \ {s} \in SUBSET Sigs
      BY DEF SigTypeOK, SchedTypeOK
    <3> QED
      BY <2>1, <3>1 DEF SigTypeOK
  <2>5. SigTypeOK'
    BY <2>1, <2>3, <2>4 DEF SigTypeOK
  <2> QED
    BY <2>1, <2>5, TypeSched, TypeSame
<1>4. CASE Sigprocmask
  <2>1. PICK m \in Masks :
          /\ \E new \in {sigmask[cur] \cup m, sigmask[cur] \ m, m} :
               sigmask' = [sigmask EXCEPT ![cur] = new \ Unmaskable]
          /\ ReturnOnly
          /\ UNCHANGED <<treeVars, sigpend, sa, suspend, frames, asyncfull, alarm>>
    BY <1>4 DEF Sigprocmask
  <2>2. PICK new \in {sigmask[cur] \cup m, sigmask[cur] \ m, m} :
          sigmask' = [sigmask EXCEPT ![cur] = new \ Unmaskable]
    BY <2>1
  <2>3. new \ Unmaskable \in SUBSET (Sigs \ Unmaskable)
    BY <2>2, MenusAssumption DEF SigTypeOK, SchedTypeOK
  <2>4. sigmask' \in [Pids -> SUBSET (Sigs \ Unmaskable)]
    BY <2>2, <2>3 DEF SigTypeOK
  <2>5. SigTypeOK'
    BY <2>1, <2>4 DEF SigTypeOK
  <2> QED
    BY <2>1, <2>5, TypeSched, TypeSame
<1>5. CASE Sigreturn
  <2> DEFINE f == frames[cur][1]
  <2>1. frames[cur] \in Seq(Frames) /\ frames[cur] # <<>>
    BY <1>5 DEF Sigreturn, SigTypeOK, SchedTypeOK
  <2>2. f \in Frames /\ Tail(frames[cur]) \in Seq(Frames)
    BY <2>1
  <2> HIDE DEF f
  <2>3. /\ pc' = [pc EXCEPT ![cur] = f.saved]
        /\ sigmask' = [sigmask EXCEPT ![cur] = f.mask \ Unmaskable]
        /\ frames' = [frames EXCEPT ![cur] = Tail(@)]
        /\ asyncfull' = (f.full \/ asyncfull)
        /\ mode' = "sigret"
        /\ UNCHANGED <<cur, state, chan, treeVars, sigpend, sa, suspend, alarm>>
    BY <1>5 DEF Sigreturn, f
  <2>4. SchedTypeOK'
    BY <2>2, <2>3 DEF SchedTypeOK, Frames
  <2>5. sigmask' \in [Pids -> SUBSET (Sigs \ Unmaskable)]
    BY <2>2, <2>3 DEF SigTypeOK, Frames
  <2>6. frames' \in [Pids -> Seq(Frames)]
    BY <2>2, <2>3 DEF SigTypeOK
  <2>7. SigTypeOK'
    BY <2>3, <2>5, <2>6 DEF SigTypeOK
  <2> QED
    BY <2>3, <2>4, <2>7, TypeSame
<1> QED
  BY <1>1, <1>2, <1>3, <1>4, <1>5

\* What deliver_signals puts in the frame is a frame.
LEMMA MaskType == TypeOK => ProgramMask \in SUBSET (Sigs \ Unmaskable)
BY DEF TypeOK, SchedTypeOK, SigTypeOK, ProgramMask

\* Ticks, faults and the clock.
LEMMA TypeTrap ==
  ASSUME TypeOK, Tick \/ Fault \/ CheckTimers \/ Schedule \/ Halted
  PROVE  TypeOK'
<1> USE DEF TypeOK
<1>1. CASE Tick
  BY <1>1, TypeSame DEF Tick, SchedTypeOK, SigTypeOK
<1>2. CASE Fault
  <2>1. SchedTypeOK'
    BY <1>2, Numbers, TypeSched DEF Fault, SchedTypeOK
  <2>2. sigpend' \in [Pids -> SUBSET Sigs] /\ asyncfull' \in BOOLEAN
    <3>1. sigpend[cur] \cup {SEGV} \in SUBSET Sigs
      BY Numbers DEF SigTypeOK, SchedTypeOK
    <3>2. sigpend \in [Pids -> SUBSET Sigs] /\ asyncfull \in BOOLEAN
      BY DEF SigTypeOK
    <3>3. \/ UNCHANGED <<sigpend, asyncfull>>
          \/ asyncfull' = TRUE /\ sigpend' = [sigpend EXCEPT ![cur] = @ \cup {SEGV}]
      BY <1>2 DEF Fault
    <3> QED
      BY <3>1, <3>2, <3>3
  <2>3. SigTypeOK'
    BY <1>2, <2>2 DEF Fault, SigTypeOK
  <2> QED
    BY <1>2, <2>1, <2>3, TypeSame DEF Fault
<1>3. CASE CheckTimers
  <2>1. PICK due \in SUBSET ArmedTimers :
          /\ alarm' = [p \in Pids |-> IF p \in due /\ alarm[p] = "once" THEN "off" ELSE alarm[p]]
          /\ sigpend' = Pended(state, due, ALRM)
          /\ state' = Roused(state, due, ALRM)
    BY <1>3 DEF CheckTimers
  <2>2. state' \in [Pids -> States]
    BY <2>1, RousedWakes DEF Wakes, SchedTypeOK, States
  <2>3. SchedTypeOK'
    BY <1>3, <2>2 DEF CheckTimers, SchedTypeOK, States
  <2>4. sigpend' \in [Pids -> SUBSET Sigs]
    BY <2>1, PendedType, Numbers
  <2>5. SigTypeOK'
    BY <1>3, <2>4 DEF CheckTimers, SigTypeOK
  <2>6. alarm' \in [Pids -> {"off", "once", "every"}]
    BY <2>1
  <2> QED
    BY <1>3, <2>3, <2>5, <2>6, TypeSame DEF CheckTimers
<1>4. CASE Schedule
  <2>1. SchedTypeOK'
    BY <1>4 DEF Schedule, SchedulePass, SwitchTo, SchedTypeOK, Chans, NoChan
  <2> QED
    BY <1>4, <2>1, TypeSame DEF Schedule
<1>5. CASE Halted
  BY <1>5, TypeSame, TypeSched DEF Halted, vars
<1> QED
  BY <1>1, <1>2, <1>3, <1>4, <1>5

\* deliver_signals.
LEMMA TypeDeliver ==
  ASSUME TypeOK, DeliverNothing \/ DeliverFatal \/ DeliverHandler
  PROVE  TypeOK'
<1> USE DEF TypeOK
<1>1. GoOn /\ UNCHANGED <<cur, state, chan, pc>> => SchedTypeOK'
  BY DEF GoOn, SchedTypeOK
<1>2. ASSUME NEW s, sigpend' = [sigpend EXCEPT ![cur] = @ \ {s}]
      PROVE  sigpend' \in [Pids -> SUBSET Sigs]
  <2>1. sigpend[cur] \ {s} \in SUBSET Sigs
    BY DEF SigTypeOK, SchedTypeOK
  <2> QED
    BY <1>2, <2>1 DEF SigTypeOK
<1>3. CASE DeliverNothing
  <2>1. SchedTypeOK'
    BY <1>1, <1>3, Numbers, TypeSched DEF DeliverNothing
  <2>2. sigpend' \in [Pids -> SUBSET Sigs]
    BY <1>2, <1>3 DEF DeliverNothing, SigTypeOK
  <2>3. /\ sigmask' \in [Pids -> SUBSET (Sigs \ Unmaskable)]
        /\ suspend' \in [Pids -> SUBSET SUBSET (Sigs \ Unmaskable)]
        /\ asyncfull' \in BOOLEAN
    <3>1. CASE mode = "ret"
      <4>1. /\ sigmask' = [sigmask EXCEPT ![cur] = ProgramMask]
            /\ suspend' = [suspend EXCEPT ![cur] = {}]
            /\ asyncfull' = asyncfull
        BY <1>3, <3>1 DEF DeliverNothing, Unsuspend
      <4> QED
        BY <4>1, MaskType DEF SigTypeOK
    <3>2. CASE mode # "ret"
      BY <1>3, <3>2 DEF DeliverNothing, SigTypeOK
    <3> QED
      BY <3>1, <3>2
  <2>4. SigTypeOK'
    BY <1>3, <2>2, <2>3 DEF DeliverNothing, SigTypeOK
  <2> QED
    BY <1>3, <2>1, <2>4, TypeSame DEF DeliverNothing
<1>4. CASE DeliverFatal
  <2>1. PICK s \in Sigs :
          /\ sigpend' = [sigpend EXCEPT ![cur] = @ \ {s}]
          /\ GoExit(s)
          /\ UNCHANGED <<treeVars, sigmask, sa, suspend, frames, asyncfull, alarm>>
    BY <1>4 DEF DeliverFatal
  <2>2. SigTypeOK'
    BY <1>2, <2>1 DEF SigTypeOK
  <2> QED
    BY <2>1, <2>2, Numbers, TypeSched, TypeSame
<1>5. CASE DeliverHandler
  <2> DEFINE frame(s) == [sig |-> s, saved |-> pc[cur], full |-> asyncfull,
                          addr |-> mode = "fault", mask |-> ProgramMask]
             newmask(s) == (sigmask[cur] \cup sa[cur][s].mask
                            \cup (IF sa[cur][s].nodefer THEN {} ELSE {s})) \ Unmaskable
  <2>1. PICK s \in Sigs :
          /\ sigpend' = [sigpend EXCEPT ![cur] = @ \ {s}]
          /\ \/ GoExit(SEGV) /\ UNCHANGED <<sigmask, sa, suspend, frames, asyncfull>>
             \/ /\ frames' = [frames EXCEPT ![cur] = <<frame(s)>> \o @]
                /\ asyncfull' = FALSE
                /\ suspend' = [suspend EXCEPT ![cur] = {}]
                /\ sigmask' = [sigmask EXCEPT ![cur] = newmask(s)]
                /\ sa' = [sa EXCEPT ![cur][s].handler = "dfl"] \/ sa' = sa
                /\ pc' = [pc EXCEPT ![cur] = User]
                /\ GoOn
                /\ UNCHANGED <<cur, state, chan>>
          /\ UNCHANGED <<treeVars, alarm>>
    BY <1>5 DEF DeliverHandler
  <2>2. frame(s) \in Frames
    <3>1. pc[cur] \in PCs /\ asyncfull \in BOOLEAN /\ ProgramMask \in SUBSET Sigs
      BY MaskType DEF SchedTypeOK, SigTypeOK
    <3> QED
      BY <3>1 DEF Frames
  <2>3. newmask(s) \in SUBSET (Sigs \ Unmaskable)
    <3>1. sa[cur][s] \in SigActs /\ sigmask[cur] \in SUBSET Sigs
      BY DEF SchedTypeOK, SigTypeOK
    <3> QED
      BY <3>1 DEF SigActs
  <2> HIDE DEF frame, newmask
  <2>4. sigpend' \in [Pids -> SUBSET Sigs]
    BY <1>2, <2>1
  <2>5. CASE GoExit(SEGV) /\ UNCHANGED <<sigmask, sa, suspend, frames, asyncfull>>
    <3>1. SigTypeOK'
      BY <2>4, <2>5 DEF SigTypeOK
    <3> QED
      BY <2>1, <2>5, <3>1, Numbers, TypeSched, TypeSame
  <2>6. CASE ~(GoExit(SEGV) /\ UNCHANGED <<sigmask, sa, suspend, frames, asyncfull>>)
    <3>1. SchedTypeOK'
      BY <2>1, <2>6, PcTypes DEF GoOn, SchedTypeOK
    <3>2. frames' \in [Pids -> Seq(Frames)]
      <4>1. frames[cur] \in Seq(Frames)
        BY DEF SchedTypeOK, SigTypeOK
      <4>2. <<frame(s)>> \o frames[cur] \in Seq(Frames)
        BY <2>2, <4>1
      <4> QED
        BY <2>1, <2>6, <4>2 DEF SigTypeOK
    <3>3. sigmask' \in [Pids -> SUBSET (Sigs \ Unmaskable)]
      BY <2>1, <2>3, <2>6 DEF SigTypeOK
    <3>4. suspend' \in [Pids -> SUBSET SUBSET (Sigs \ Unmaskable)]
      BY <2>1, <2>6 DEF SigTypeOK
    <3>5. sa' \in [Pids -> [Sigs -> SigActs]]
      <4>1. sa[cur][s] \in SigActs
        BY DEF SchedTypeOK, SigTypeOK
      <4>2. [sa[cur][s] EXCEPT !.handler = "dfl"] \in SigActs
        BY <4>1 DEF SigActs
      <4>3. CASE sa' = sa
        BY <4>3 DEF SigTypeOK
      <4>4. CASE sa' = [sa EXCEPT ![cur][s].handler = "dfl"]
        <5>1. sa' = [sa EXCEPT ![cur] = [sa[cur] EXCEPT ![s] = [sa[cur][s] EXCEPT !.handler = "dfl"]]]
          BY <4>4
        <5>2. [sa[cur] EXCEPT ![s] = [sa[cur][s] EXCEPT !.handler = "dfl"]] \in [Sigs -> SigActs]
          BY <4>2 DEF SchedTypeOK, SigTypeOK
        <5> QED
          BY <5>1, <5>2 DEF SigTypeOK
      <4> QED
        BY <2>1, <2>6, <4>3, <4>4
    <3>6. SigTypeOK'
      BY <2>1, <2>4, <2>6, <3>2, <3>3, <3>4, <3>5 DEF SigTypeOK
    <3> QED
      BY <2>1, <3>1, <3>6, TypeSame
  <2> QED
    BY <2>5, <2>6
<1> QED
  BY <1>3, <1>4, <1>5

\* Every step keeps the types.
LEMMA TypeStep == TypeOK /\ [Next]_vars => TypeOK'
<1> SUFFICES ASSUME TypeOK, [Next]_vars PROVE TypeOK'
  OBVIOUS
<1>1. CASE Next
  BY <1>1, TypeMake, TypeExit, TypePause, TypeSignal, TypeTrap, TypeDeliver DEF Next, SystemCall
<1>2. CASE UNCHANGED vars
  BY <1>2, TypeSame, TypeSched DEF vars, TypeOK
<1> QED
  BY <1>1, <1>2

\* The types of the scheduler's, the tree's and the signals' variables hold
\* in every state of every run, whatever programs do.
THEOREM TypeCorrect == Spec => []TypeOK
<1>1. Init => TypeOK
  BY TypeInit
<1>2. TypeOK /\ [Next]_vars => TypeOK'
  BY TypeStep
<1> QED
  BY <1>1, <1>2, PTL DEF Spec

(***************************************************************************)
(* The process tree.                                                       *)
(*                                                                         *)
(* Most steps are Quiet: no process is born, dies or is reaped.  Each part *)
(* of the inductive invariant is shown for the quiet steps at once, and    *)
(* then for fork, exit and reap one by one.                                *)
(***************************************************************************)

\* The process that owns the CPU outside schedule() is runnable.
CurRuns == mode \notin {"sched", "off", "panic"} => state[cur] = "run"

\* init never dies: when it exits the machine stops.
InitLive == Live(1)

\* Pids from nextpid on have not been used.
Fresh == \A p \in Pids : p >= nextpid => state[p] = "free" /\ pc[p] = User

TreeInv == TypeOK /\ CurRuns /\ InitLive /\ Fresh /\ ParentLive

\* Whether a process is live, a zombie or gone does not change, nor does
\* what a process but the running one goes on with.
Quiet ==
  /\ UNCHANGED <<nextpid, ppid, status>>
  /\ \A p \in Pids : state'[p] = state[p] \/ (Live(p) /\ state'[p] \in {"run", "sleep"})
  /\ \A p \in Pids : pc'[p] = pc[p] \/ (p = cur /\ state[cur] = "run")
  /\ CurRuns'

\* Wakeups are quiet, and so is every way a call leaves the CPU.
LEMMA QuietSched ==
  ASSUME TypeOK, state[cur] = "run", UNCHANGED <<nextpid, ppid, status>>
  PROVE  /\ Return /\ Wakes(state, state') => Quiet
         /\ ReturnOnly => Quiet
         /\ \A st : GoExit(st) => Quiet
         /\ \A c, a : Restart(c, a) \/ YieldIn(c, a) => Quiet
         /\ \A q, c, a : SleepOn(ProcChan(q), c, a) => Quiet
<1> USE DEF Quiet, CurRuns, Live, TypeOK, SchedTypeOK
<1>1. Return /\ Wakes(state, state') => Quiet
  BY DEF Return, Wakes
<1>2. ReturnOnly => Quiet
  BY DEF ReturnOnly, Return
<1>3. \A st : GoExit(st) => Quiet
  BY DEF GoExit
<1>4. \A c, a : Restart(c, a) \/ YieldIn(c, a) => Quiet
  BY DEF Restart, YieldIn
<1>5. \A q, c, a : SleepOn(ProcChan(q), c, a) => Quiet
  BY DEF SleepOn
<1> QED
  BY <1>1, <1>2, <1>3, <1>4, <1>5

\* exec is quiet, whatever its closing of files has woken.
LEMMA QuietExec ==
  ASSUME TypeOK, CurRuns, NEW st0, Wakes(state, st0), ExecWith(st0)
  PROVE  Quiet /\ Wakes(state, state')
<1>1. Wakes(st0, ReleasedState(st0))
  BY ReleasedWakes DEF Wakes
<1>2. Wakes(state, state')
  BY <1>1 DEF ExecWith, Wakes
<1> QED
  BY <1>2, QuietSched DEF ExecWith, Calling, CurRuns

\* The calls that neither make nor end a process.
LEMMA QuietCalls ==
  ASSUME TypeOK, CurRuns,
         \/ VForkResume \/ Exec \/ Exit \/ Pause \/ Sigsuspend \/ PauseResume
         \/ Nanosleep \/ Yield \/ Alarm \/ Kill \/ Setpgid \/ Sigaction
         \/ Sigprocmask \/ Sigreturn
  PROVE  Quiet
<1>1. CASE VForkResume
  BY <1>1, QuietSched DEF VForkResume, Resumed, CurRuns, treeVars
<1>2. CASE Exec
  <2>1. Wakes(state, state)
    BY NoneWakes DEF TypeOK, SchedTypeOK, States
  <2> QED
    BY <1>2, <2>1, QuietExec DEF Exec
<1>3. CASE Exit
  BY <1>3, QuietSched DEF Exit, Calling, CurRuns, treeVars
<1>4. ASSUME NEW c, NEW m, PauseLoop(c, m), UNCHANGED treeVars, mode \in {"user", "entry", "kernel"}
      PROVE  Quiet
  BY <1>4, QuietSched DEF PauseLoop, CurRuns, treeVars
<1>5. CASE Pause
  BY <1>4, <1>5 DEF Pause, Calling
<1>6. CASE Sigsuspend
  BY <1>4, <1>6 DEF Sigsuspend, Calling
<1>7. CASE PauseResume
  BY <1>4, <1>7 DEF PauseResume, Resumed
<1>8. CASE Nanosleep
  BY <1>8, QuietSched DEF Nanosleep, Calling, Resumed, CurRuns, treeVars
<1>9. CASE Yield
  BY <1>9, QuietSched DEF Yield, Calling, Resumed, CurRuns, treeVars
<1>10. CASE Alarm
  BY <1>10, QuietSched DEF Alarm, Calling, CurRuns, treeVars
<1>11. CASE Kill
  <2>1. Wakes(state, state')
    BY <1>11, RousedWakes DEF Kill, TypeOK, SchedTypeOK, States
  <2> QED
    BY <1>11, <2>1, QuietSched DEF Kill, Calling, CurRuns, treeVars
<1>12. CASE Setpgid
  BY <1>12, QuietSched DEF Setpgid, Calling, CurRuns
<1>13. CASE Sigaction
  BY <1>13, QuietSched DEF Sigaction, Calling, CurRuns, treeVars
<1>14. CASE Sigprocmask
  BY <1>14, QuietSched DEF Sigprocmask, Calling, CurRuns, treeVars
<1>15. CASE Sigreturn
  BY <1>15 DEF Sigreturn, Quiet, CurRuns, treeVars, TypeOK, SchedTypeOK
<1> QED
  BY <1>1, <1>2, <1>3, <1>5, <1>6, <1>7, <1>8, <1>9, <1>10, <1>11, <1>12, <1>13, <1>14, <1>15

\* Traps, the clock, deliver_signals and the scheduler.
LEMMA QuietTraps ==
  ASSUME TypeOK, CurRuns,
         \/ Tick \/ Fault \/ CheckTimers \/ Schedule \/ Halted \/ InitExit
         \/ DeliverNothing \/ DeliverFatal \/ DeliverHandler
  PROVE  Quiet
<1>1. CASE Tick
  BY <1>1 DEF Tick, Quiet, CurRuns, treeVars, TypeOK, SchedTypeOK
<1>2. CASE Fault
  <2>1. CASE GoExit(SEGV)
    BY <1>2, <2>1, QuietSched DEF Fault, CurRuns, treeVars
  <2>2. CASE UNCHANGED <<cur, state, chan, pc>>
    BY <1>2, <2>2 DEF Fault, Quiet, CurRuns, treeVars, TypeOK, SchedTypeOK
  <2> QED
    BY <1>2, <2>1, <2>2 DEF Fault
<1>3. CASE CheckTimers
  <2>1. Wakes(state, state')
    BY <1>3, RousedWakes DEF CheckTimers, TypeOK, SchedTypeOK, States
  <2> QED
    BY <1>3, <2>1 DEF CheckTimers, Wakes, Quiet, CurRuns, Live, treeVars, TypeOK, SchedTypeOK
<1>4. CASE Schedule
  BY <1>4 DEF Schedule, SchedulePass, SwitchTo, IsNext, Quiet, CurRuns, treeVars, TypeOK, SchedTypeOK
<1>5. CASE Halted
  BY <1>5 DEF Halted, Quiet, CurRuns, vars, schedVars, treeVars, TypeOK, SchedTypeOK
<1>6. CASE InitExit
  BY <1>6 DEF InitExit, Quiet, CurRuns, treeVars, TypeOK, SchedTypeOK
<1>7. ASSUME Delivering, GoOn, UNCHANGED <<cur, state, treeVars>>, pc' = pc \/ pc' = [pc EXCEPT ![cur] = User]
      PROVE  Quiet
  BY <1>7 DEF Delivering, GoOn, Quiet, CurRuns, treeVars, TypeOK, SchedTypeOK
<1>8. ASSUME Delivering, NEW st, GoExit(st), UNCHANGED treeVars
      PROVE  Quiet
  BY <1>8, QuietSched DEF Delivering, CurRuns, treeVars
<1>9. CASE DeliverNothing
  BY <1>7, <1>8, <1>9 DEF DeliverNothing
<1>10. CASE DeliverFatal
  BY <1>8, <1>10 DEF DeliverFatal
<1>11. CASE DeliverHandler
  BY <1>7, <1>8, <1>11 DEF DeliverHandler
<1> QED
  BY <1>1, <1>2, <1>3, <1>4, <1>5, <1>6, <1>9, <1>10, <1>11

(* ---- the steps that are not quiet ---- *)

\* fork: the child c is a new process of cur.
Bears(c) ==
  /\ state[cur] = "run" /\ c \in Pids /\ c = nextpid
  /\ nextpid' = nextpid + 1
  /\ ppid' = [ppid EXCEPT ![c] = cur]
  /\ status' = status
  /\ state'[c] = "run"
  /\ \A p \in Pids \ {c} : state'[p] = state[p] \/ (p = cur /\ state'[p] = "sleep")
  /\ \A p \in Pids : pc'[p] = pc[p] \/ p = cur
  /\ CurRuns'

\* exit: cur is a zombie and its children are init's.
Ends ==
  /\ state[cur] = "run" /\ cur # 1
  /\ nextpid' = nextpid
  /\ ppid' = Reparented
  /\ status' = [status EXCEPT ![cur] = pc[cur].arg[1]]
  /\ state'[cur] = "zombie"
  /\ \A p \in Pids \ {cur} : state'[p] = state[p] \/ (state[p] = "sleep" /\ state'[p] = "run")
  /\ pc' = pc /\ mode' = "sched"

\* wait4: cur reaps its zombie child z.
Reaps(z) ==
  /\ state[cur] = "run" /\ z \in Pids \ {cur} /\ state[z] = "zombie" /\ ppid[z] = cur
  /\ nextpid' = nextpid
  /\ ppid' = [ppid EXCEPT ![z] = 0]
  /\ status' = [status EXCEPT ![z] = 0]
  /\ state' = [state EXCEPT ![z] = "free"]
  /\ pc' = [pc EXCEPT ![z] = User, ![cur] = User]
  /\ cur' = cur

\* fork and vfork make the next pid a child of cur.
LEMMA ForkBears ==
  ASSUME TypeOK, CurRuns, Fresh, Fork \/ VFork
  PROVE  \E c \in Pids : Bears(c)
<1> USE DEF TypeOK, SchedTypeOK
<1>1. mode \in {"user", "entry"} /\ state[cur] = "run"
  BY DEF Fork, VFork, Calling, CurRuns
<1>2. nextpid # cur
  BY <1>1 DEF Fresh, TreeTypeOK, Pids
<1>3. CASE Fork
  <2>1. PICK c \in Pids :
          /\ NewChild(c, 0)
          /\ state' = [state EXCEPT ![c] = "run"]
          /\ Return /\ chan' = chan
    BY <1>3 DEF Fork
  <2>2. /\ c = nextpid /\ nextpid' = nextpid + 1 /\ status' = status
        /\ ppid' = [ppid EXCEPT ![c] = cur]
    BY <2>1 DEF NewChild
  <2>3. pc' = [pc EXCEPT ![cur] = User] /\ cur' = cur
    BY <2>1 DEF Return
  <2> QED
    BY <1>1, <1>2, <2>1, <2>2, <2>3 DEF Bears, CurRuns
<1>4. CASE VFork
  BY <1>1, <1>2, <1>4 DEF VFork, NewChild, Bears, CurRuns
<1> QED
  BY <1>3, <1>4

\* do_exit makes cur a zombie and wakes some sleepers, no more, whatever its
\* closing of files has woken.
LEMMA ExitWithEnds ==
  ASSUME TypeOK, CurRuns, NEW st0, Wakes(state, st0), mode = "exit", cur # 1, ExitWith(st0)
  PROVE  Ends
<1> DEFINE st1 == WokenByOrphans(ReleasedState(st0))
           st2 == [st1 EXCEPT ![cur] = "zombie"]
           st3 == Roused(st2, Parents, CHLD)
<1>1. st1 \in [Pids -> States] /\ \A p \in Pids : st1[p] = state[p] \/ (state[p] = "sleep" /\ st1[p] = "run")
  <2>1. Wakes(st0, ReleasedState(st0))
    BY ReleasedWakes DEF Wakes
  <2>2. Wakes(ReleasedState(st0), st1)
    BY <2>1, OrphansWakes DEF Wakes
  <2> QED
    BY <2>1, <2>2 DEF Wakes
<1>2. st2 \in [Pids -> States] /\ st2[cur] = "zombie"
      /\ \A p \in Pids \ {cur} : st2[p] = st1[p]
  BY <1>1 DEF States, TypeOK, SchedTypeOK
<1>3. Wakes(st2, st3) /\ Wakes(st3, WokenParents(st3))
  <2> HIDE DEF st2
  <2>1. Wakes(st2, st3)
    BY <1>2, RousedWakes
  <2> HIDE DEF st3
  <2>2. st3 \in [Pids -> States]
    BY <2>1 DEF Wakes
  <2> QED
    BY <2>1, <2>2, ParentsWakes
<1>4. /\ state' = WokenParents(st3) /\ mode' = "sched" /\ cur # 1 /\ mode = "exit"
      /\ ppid' = Reparented /\ status' = [status EXCEPT ![cur] = pc[cur].arg[1]]
      /\ UNCHANGED <<cur, pc, nextpid>>
  BY DEF ExitWith
<1> HIDE DEF st1, st2, st3
<1>5. cur \in Pids /\ state[cur] = "run"
  BY <1>4 DEF TypeOK, SchedTypeOK, CurRuns
<1> QED
  BY <1>1, <1>2, <1>3, <1>4, <1>5 DEF Ends, Wakes

\* So does an exit of K1Proc alone.
LEMMA ExitEnds ==
  ASSUME TypeOK, CurRuns, DoExit
  PROVE  Ends
<1>1. Wakes(state, state)
  BY NoneWakes DEF TypeOK, SchedTypeOK, States
<1>2. mode = "exit" /\ cur # 1 /\ ExitWith(state)
  BY DEF DoExit
<1> QED
  BY <1>1, <1>2, ExitWithEnds

\* wait4 is quiet or frees one zombie child of cur.
LEMMA WaitReaps ==
  ASSUME TypeOK, CurRuns, Wait4 \/ WaitNoHang \/ Wait4Resume
  PROVE  Quiet \/ \E z \in Pids : Reaps(z) /\ Reap(z)
<1>1. PICK a, nohang : Wait4Pass(a, nohang)
  BY DEF Wait4, WaitNoHang, Wait4Resume
<1>2. state[cur] = "run" /\ cur \in Pids
  BY DEF Wait4, WaitNoHang, Wait4Resume, Calling, Resumed, CurRuns, TypeOK, SchedTypeOK
<1>3. ASSUME NEW z \in ZombiesOf(a), Reap(z)
      PROVE  z \in Pids /\ Reaps(z) /\ Reap(z)
  BY <1>2, <1>3 DEF ZombiesOf, Waited, Children, Reap, Reaps
<1>4. UNCHANGED treeVars => UNCHANGED <<nextpid, ppid, status>>
  BY DEF treeVars
<1> QED
  BY <1>1, <1>2, <1>3, <1>4, QuietSched DEF Wait4Pass

(* ---- the invariant ---- *)

\* The machine starts with init alone.
LEMMA TreeInit == Init => TreeInv
<1> SUFFICES ASSUME Init PROVE TreeInv
  OBVIOUS
<1>1. TypeOK
  BY TypeInit
<1>2. CurRuns /\ InitLive /\ Fresh /\ ParentLive
  BY MaxPidAssumption DEF Init, CurRuns, InitLive, Fresh, ParentLive, Live, Pids
<1> QED
  BY <1>1, <1>2 DEF TreeInv

\* A quiet step leaves the tree as it is.
LEMMA TreeQuiet ==
  ASSUME TreeInv, Quiet
  PROVE  InitLive' /\ Fresh' /\ ParentLive'
<1> USE DEF TreeInv
<1>1. \A p \in Pids : (Live(p) <=> Live(p)') /\ (state[p] = "free" <=> state'[p] = "free")
  BY DEF Quiet, Live
<1>2. 1 \in Pids
  BY MaxPidAssumption DEF Pids
<1>3. InitLive'
  BY <1>1, <1>2 DEF InitLive, Live
<1>4. Fresh'
  BY <1>1 DEF Fresh, Quiet
<1>5. ParentLive'
  BY <1>1 DEF ParentLive, Quiet
<1> QED
  BY <1>3, <1>4, <1>5

\* A child's parent is the live process that forked it.
LEMMA TreeBears ==
  ASSUME TreeInv, NEW c \in Pids, Bears(c)
  PROVE  InitLive' /\ Fresh' /\ ParentLive'
<1> USE DEF TreeInv, TypeOK, SchedTypeOK, TreeTypeOK
<1>1. \A p \in Pids : (Live(p) => state'[p] \in {"run", "sleep"}) /\ (p # c => (state[p] = "free" <=> state'[p] = "free"))
  BY DEF Bears, Live
<1>2. 1 \in Pids /\ nextpid \in Int /\ Pids \subseteq Int
  BY MaxPidAssumption DEF Pids
<1>3. InitLive'
  BY <1>1, <1>2 DEF InitLive, Live
<1>4. Fresh'
  <2> SUFFICES ASSUME NEW p \in Pids, p >= nextpid' PROVE state'[p] = "free" /\ pc'[p] = User
    BY DEF Fresh
  <2>1. p # c /\ p >= nextpid
    BY <1>2 DEF Bears
  <2>2. state[p] = "free" /\ pc[p] = User
    BY <2>1 DEF Fresh
  <2> QED
    BY <1>1, <2>1, <2>2 DEF Bears
<1>5. ParentLive'
  <2> SUFFICES ASSUME NEW p \in Pids \ {1}, state'[p] # "free"
               PROVE  ppid'[p] \in Pids /\ state'[ppid'[p]] \in {"run", "sleep"}
    BY DEF ParentLive, Live
  <2>1. CASE p = c
    <3>1. ppid'[p] = cur /\ Live(cur)
      BY <2>1 DEF Bears, Live
    <3> QED
      BY <1>1, <3>1
  <2>2. CASE p # c
    <3>1. ppid'[p] = ppid[p] /\ state[p] # "free"
      BY <1>1, <2>2 DEF Bears
    <3> QED
      BY <1>1, <3>1 DEF ParentLive
  <2> QED
    BY <2>1, <2>2
<1> QED
  BY <1>3, <1>4, <1>5

\* The children of a process that exits go to init, which is live.
LEMMA TreeEnds ==
  ASSUME TreeInv, Ends
  PROVE  CurRuns' /\ InitLive' /\ Fresh' /\ ParentLive'
<1> USE DEF TreeInv, TypeOK, SchedTypeOK, TreeTypeOK
<1>1. \A p \in Pids \ {cur} : (Live(p) => state'[p] \in {"run", "sleep"}) /\ (state[p] = "free" <=> state'[p] = "free")
  BY DEF Ends, Live
<1>2. 1 \in Pids
  BY MaxPidAssumption DEF Pids
<1>3. InitLive'
  BY <1>1, <1>2 DEF InitLive, Live, Ends
<1>4. Fresh'
  BY <1>1 DEF Fresh, Ends
<1>5. ParentLive'
  <2> SUFFICES ASSUME NEW p \in Pids \ {1}, state'[p] # "free"
               PROVE  ppid'[p] \in Pids /\ state'[ppid'[p]] \in {"run", "sleep"}
    BY DEF ParentLive, Live
  <2>1. state[p] # "free"
    BY <1>1 DEF Ends
  <2>2. CASE ppid[p] = cur
    <3>1. ppid'[p] = 1
      BY <2>1, <2>2 DEF Ends, Reparented, Children
    <3> QED
      BY <1>2, <1>3, <3>1 DEF InitLive, Live
  <2>3. CASE ppid[p] # cur
    <3>1. ppid'[p] = ppid[p]
      BY <2>3 DEF Ends, Reparented, Children
    <3> QED
      BY <1>1, <2>1, <2>3, <3>1 DEF ParentLive
  <2> QED
    BY <2>2, <2>3
<1> QED
  BY <1>3, <1>4, <1>5 DEF CurRuns, Ends

\* A reaped zombie was no one's live parent.
LEMMA TreeReaps ==
  ASSUME TreeInv, NEW z \in Pids, Reaps(z)
  PROVE  CurRuns' /\ InitLive' /\ Fresh' /\ ParentLive'
<1> USE DEF TreeInv, TypeOK, SchedTypeOK, TreeTypeOK
<1>1. \A p \in Pids : (Live(p) <=> Live(p)') /\ (p # z => state[p] = state'[p])
  BY DEF Reaps, Live
<1>2. 1 \in Pids
  BY MaxPidAssumption DEF Pids
<1>3. InitLive'
  BY <1>1, <1>2 DEF InitLive, Live
<1>4. Fresh'
  BY DEF Fresh, Reaps
<1>5. ParentLive'
  BY <1>1 DEF ParentLive, Reaps
<1>6. CurRuns'
  BY DEF CurRuns, Reaps
<1> QED
  BY <1>3, <1>4, <1>5, <1>6

\* Every step is quiet, a birth, an end or a reap.
LEMMA StepKinds ==
  ASSUME TreeInv, Next
  PROVE  Quiet \/ (\E c \in Pids : Bears(c)) \/ Ends \/ \E z \in Pids : Reaps(z)
BY QuietCalls, QuietTraps, ForkBears, ExitEnds, WaitReaps DEF TreeInv, Next, SystemCall

\* The tree's invariant is inductive.
LEMMA TreeStep == TreeInv /\ [Next]_vars => TreeInv'
<1> SUFFICES ASSUME TreeInv, [Next]_vars PROVE TreeInv'
  OBVIOUS
<1>1. TypeOK'
  BY TypeStep DEF TreeInv
<1>2. CASE Next
  <2>1. CASE Quiet
    BY <1>1, <2>1, TreeQuiet DEF TreeInv, Quiet
  <2>2. CASE \E c \in Pids : Bears(c)
    BY <1>1, <2>2, TreeBears DEF TreeInv, Bears
  <2>3. CASE Ends
    BY <1>1, <2>3, TreeEnds DEF TreeInv
  <2>4. CASE \E z \in Pids : Reaps(z)
    BY <1>1, <2>4, TreeReaps DEF TreeInv
  <2> QED
    BY <1>2, <2>1, <2>2, <2>3, <2>4, StepKinds
<1>3. CASE UNCHANGED vars
  BY <1>1, <1>3 DEF vars, schedVars, treeVars, TreeInv, CurRuns, InitLive, Fresh, ParentLive, Live
<1> QED
  BY <1>2, <1>3

\* In every run init lives, the process on the CPU is runnable, pids to come
\* are unused, and every process has a live parent.
THEOREM TreeInvariant == Spec => []TreeInv
<1>1. Init => TreeInv
  BY TreeInit
<1>2. TreeInv /\ [Next]_vars => TreeInv'
  BY TreeStep
<1> QED
  BY <1>1, <1>2, PTL DEF Spec

\* do_exit's reparenting: in every run, every process but init has a parent
\* that can still reap it.
THEOREM ParentAlwaysLive == Spec => []ParentLive
<1>1. TreeInv => ParentLive
  BY DEF TreeInv
<1> QED
  BY <1>1, TreeInvariant, PTL

(* ---- the refinement ---- *)

\* What ProcLife sees of a K1 state.
LifeOf == [p \in Pids |-> IF state[p] = "free" THEN "none"
                         ELSE IF state[p] = "zombie" THEN "dead" ELSE "alive"]

\* K1's initial state is ProcLife's.
LEMMA LifeInit == Init => Life!Init
BY DEF Init, Life!Init

\* A step of K1 is a step of ProcLife or changes nothing it sees.
LEMMA LifeStep ==
  ASSUME TreeInv, [Next]_vars
  PROVE  [Life!Next]_(Life!lifeVars)
<1> USE DEF TreeInv, TypeOK, SchedTypeOK, TreeTypeOK
<1>1. CASE Quiet
  <2>1. LifeOf' = LifeOf
    BY <1>1 DEF Quiet, LifeOf, Live
  <2> QED
    BY <1>1, <2>1 DEF Quiet, LifeOf, Life!lifeVars
<1>2. ASSUME NEW c \in Pids, Bears(c)
      PROVE  Life!Born
  <2>1. LifeOf[cur] = "alive" /\ LifeOf[nextpid] = "none"
    BY <1>2 DEF Bears, LifeOf, Fresh, Pids
  <2>2. LifeOf' = [LifeOf EXCEPT ![nextpid] = "alive"]
    BY <1>2 DEF Bears, LifeOf
  <2> QED
    BY <1>2, <2>1, <2>2 DEF Bears, LifeOf, Life!Born
<1>3. ASSUME Ends
      PROVE  Life!Dies
  <2>1. LifeOf[cur] = "alive"
    BY <1>3 DEF Ends, LifeOf
  <2>2. LifeOf' = [LifeOf EXCEPT ![cur] = "dead"]
    BY <1>3 DEF Ends, LifeOf
  <2>3. status' \in [Pids -> Int] /\ \A q \in Pids \ {cur} : status'[q] = status[q]
    BY <1>3, TypeStep DEF Ends, Next
  <2>4. ppid' = [q \in Pids |-> IF LifeOf[q] # "none" /\ ppid[q] = cur THEN 1 ELSE ppid[q]]
    BY <1>3 DEF Ends, Reparented, Children, LifeOf
  <2> QED
    BY <1>3, <2>1, <2>2, <2>3, <2>4 DEF Ends, LifeOf, Life!Dies
<1>4. ASSUME NEW z \in Pids, Reaps(z)
      PROVE  Life!Waited(z)
  <2>1. LifeOf[cur] = "alive" /\ LifeOf[z] = "dead"
    BY <1>4 DEF Reaps, LifeOf
  <2>2. LifeOf' = [LifeOf EXCEPT ![z] = "none"]
    BY <1>4 DEF Reaps, LifeOf
  <2> QED
    BY <1>4, <2>1, <2>2 DEF Reaps, LifeOf, Life!Waited
<1>5. CASE UNCHANGED vars
  BY <1>5 DEF vars, schedVars, treeVars, Life!lifeVars
<1>6. cur' \in Pids
  BY TypeStep
<1>7. CASE Next /\ ~Quiet
  <2>1. CASE \E c \in Pids : Bears(c)
    BY <1>2, <1>6, <2>1 DEF Life!Next
  <2>2. CASE Ends
    BY <1>3, <1>6, <2>2 DEF Life!Next
  <2>3. CASE \E z \in Pids : Reaps(z)
    BY <1>4, <1>6, <2>3 DEF Life!Next
  <2> QED
    BY <1>7, <2>1, <2>2, <2>3, StepKinds
<1> QED
  BY <1>1, <1>5, <1>7

\* K1's process tree implements ProcLife: fork is the only birth, a process
\* dies once, and its status goes to its parent of the moment and to no one
\* else.
THEOREM LivesImplemented == Spec => ImplementsLife
<1>1. Init => Life!Init
  BY LifeInit
<1>2. TreeInv /\ [Next]_vars => [Life!Next]_(Life!lifeVars)
  BY LifeStep
<1> QED
  BY <1>1, <1>2, TreeInvariant, PTL DEF Spec, ImplementsLife, Life!Spec

=============================================================================
