---------------------------- MODULE K1WakeProofs ----------------------------
(***************************************************************************)
(* No wakeup of K1Proc is lost, for every number of processes: not the one *)
(* of a vfork parent, not the one of a parent in wait4, not the one of a   *)
(* sleeper a signal must interrupt; and no process outlives the mask of its*)
(* wait.                                                                   *)
(***************************************************************************)
EXTENDS K1ProcProofs

(* ---- where a process can be in a call ---- *)

\* vfork is never made again: it is only ever blocked in.
OutOfVfork == \A p \in Pids : pc[p].at # "blocked" => pc[p].call # "vfork"

\* Only the kernel runs inside a blocking call.
OutOfCall == mode \notin {"kernel", "sched", "off", "panic"} => pc[cur].at # "blocked"

\* No signal frame was pushed inside a blocking call.
FramesOut == \A p \in Pids : \A i \in 1..Len(frames[p]) :
  frames[p][i].saved.at # "blocked" /\ frames[p][i].saved.call # "vfork"

CallInv == OutOfVfork /\ OutOfCall /\ FramesOut

\* The running process goes on with x, which it may.
GoesOn(x) ==
  /\ pc' = [pc EXCEPT ![cur] = x] /\ cur' = cur
  /\ IF x.at = "blocked" THEN mode' = "sched" ELSE x.call # "vfork"

\* Every way a call leaves the CPU.
LEMMA WaysOn ==
  /\ Return \/ ReturnOnly => GoesOn(User)
  /\ \A st : GoExit(st) => GoesOn(Exiting(st))
  /\ \A c, a : Restart(c, a) /\ c # "vfork" => GoesOn(Redo(c, a)) \/ GoesOn(User)
  /\ \A c, a : YieldIn(c, a) => GoesOn(Blocked(c, a))
  /\ \A ch, c, a : SleepOn(ch, c, a) => GoesOn(Blocked(c, a))
BY DEF Return, ReturnOnly, GoExit, Restart, YieldIn, SleepOn, GoesOn, User, Exiting, Redo, Blocked

\* A process that goes on as one of these ways lets it stays out of the wrong
\* calls, and no frame of another is touched.
LEMMA CallGoesOn ==
  ASSUME TypeOK, CallInv, NEW x, GoesOn(x)
  PROVE  /\ OutOfVfork' /\ OutOfCall'
         /\ frames' = frames => FramesOut'
<1> USE DEF CallInv, GoesOn, TypeOK, SchedTypeOK
<1>1. OutOfVfork'
  BY DEF OutOfVfork
<1>2. OutOfCall'
  BY DEF OutOfCall
<1>3. frames' = frames => FramesOut'
  BY DEF FramesOut
<1> QED
  BY <1>1, <1>2, <1>3

\* How each call of a program, and each blocked call, goes on.
LEMMA CallsGoOn ==
  ASSUME TypeOK, CallInv,
         \/ Fork \/ VFork \/ Exec \/ Exit \/ Wait4 \/ WaitNoHang \/ Pause \/ Sigsuspend
         \/ Alarm \/ Kill \/ Setpgid \/ Sigaction \/ Sigprocmask \/ Nanosleep \/ Yield
         \/ VForkResume \/ Wait4Resume \/ PauseResume
  PROVE  (\E x : GoesOn(x)) \/ \E z \in Pids : Reap(z)
<1>1. CASE Fork \/ Exec \/ Exit \/ Alarm \/ Kill \/ Setpgid \/ Sigaction \/ Sigprocmask
  BY <1>1, WaysOn DEF Fork, Exec, ExecWith, Exit, Alarm, Kill, Setpgid, Sigaction, Sigprocmask
<1>2. CASE VFork
  <2>1. PICK c \in Pids : /\ pc' = [pc EXCEPT ![cur] = Blocked("vfork", Arg(c))]
                          /\ mode' = "sched" /\ cur' = cur
    BY <1>2 DEF VFork
  <2>2. GoesOn(Blocked("vfork", Arg(c)))
    BY <2>1 DEF GoesOn, Blocked
  <2> QED
    BY <2>2
<1>3. CASE VForkResume
  BY <1>3, WaysOn DEF VForkResume
<1>4. ASSUME NEW a, NEW nohang, Wait4Pass(a, nohang)
      PROVE  (\E x : GoesOn(x)) \/ \E z \in Pids : Reap(z)
  BY <1>4, WaysOn DEF Wait4Pass, ZombiesOf, Waited, Children
<1>5. CASE Wait4 \/ WaitNoHang \/ Wait4Resume
  BY <1>4, <1>5 DEF Wait4, WaitNoHang, Wait4Resume
<1>6. CASE Pause \/ Sigsuspend \/ PauseResume
  BY <1>6, WaysOn DEF Pause, Sigsuspend, PauseResume, PauseLoop
<1>7. CASE Nanosleep \/ Yield
  BY <1>7, WaysOn DEF Nanosleep, Yield
<1> QED
  BY <1>1, <1>2, <1>3, <1>5, <1>6, <1>7

\* Every frame of the next state is a frame of this one, or is pushed by
\* deliver_signals and saves what the process was about to go on with.
FramesKept ==
  \A p \in Pids : \A i \in 1..Len(frames'[p]) :
    \/ Delivering /\ frames'[p][i].saved = pc[cur]
    \/ \E q \in Pids : \E j \in 1..Len(frames[q]) : frames'[p][i] = frames[q][j]

\* The calls and traps that leave the signal frames alone.
LEMMA FramesSame ==
  ASSUME TypeOK,
         \/ Exit \/ Pause \/ Sigsuspend \/ Alarm \/ Kill \/ Setpgid \/ Sigaction
         \/ Sigprocmask \/ Nanosleep \/ Yield \/ VForkResume \/ PauseResume \/ Tick
         \/ Fault \/ CheckTimers \/ DeliverNothing \/ DeliverFatal \/ InitExit
         \/ DoExit \/ Schedule \/ Halted
  PROVE  frames' = frames
BY DEF Exit, Pause, Sigsuspend, Alarm, Kill, Setpgid, Sigaction, Sigprocmask, Nanosleep,
       Yield, VForkResume, PauseResume, Tick, Fault, CheckTimers, DeliverNothing,
       DeliverFatal, InitExit, DoExit, ExitWith, Schedule, Halted, sigVars, vars

\* Every step keeps the frames, pops one, or pushes one that saves what the
\* process was about to go on with.
LEMMA FramesStep ==
  ASSUME TypeOK, Next
  PROVE  FramesKept
<1> USE DEF TypeOK, SchedTypeOK
<1>1. \A p \in Pids : frames[p] \in Seq(Frames)
  BY DEF SigTypeOK
<1>2. frames' = frames => FramesKept
  BY DEF FramesKept
<1>3. ASSUME NEW p \in Pids, NEW q \in Pids, frames' = [frames EXCEPT ![p] = frames[q]]
      PROVE  FramesKept
  BY <1>3, frames \in [Pids -> Seq(Frames)] DEF FramesKept, SigTypeOK
<1>4. ASSUME NEW p \in Pids, frames' = [frames EXCEPT ![p] = <<>>]
      PROVE  FramesKept
  BY <1>4, frames \in [Pids -> Seq(Frames)] DEF FramesKept, SigTypeOK
<1>5. CASE Fork \/ VFork
  BY <1>3, <1>5 DEF Fork, VFork, NewChild
<1>6. CASE Exec
  BY <1>4, <1>6 DEF Exec, ExecWith
<1>7. CASE Wait4 \/ WaitNoHang \/ Wait4Resume
  <2>1. PICK a, nohang : Wait4Pass(a, nohang)
    BY <1>7 DEF Wait4, WaitNoHang, Wait4Resume
  <2>2. UNCHANGED sigVars => frames' = frames
    BY DEF sigVars
  <2>3. ASSUME NEW z \in ZombiesOf(a), Reap(z)
        PROVE  FramesKept
    BY <1>4, <2>3 DEF ZombiesOf, Waited, Children, Reap
  <2> QED
    BY <1>2, <2>1, <2>2, <2>3 DEF Wait4Pass
<1>8. CASE Sigreturn
  <2>1. frames[cur] # <<>> /\ frames' = [frames EXCEPT ![cur] = Tail(@)]
    BY <1>8 DEF Sigreturn
  <2>2. frames'[cur] = Tail(frames[cur]) /\ \A p \in Pids \ {cur} : frames'[p] = frames[p]
    BY <2>1 DEF SigTypeOK
  <2>3. \A i \in 1..Len(frames'[cur]) :
          i + 1 \in 1..Len(frames[cur]) /\ frames'[cur][i] = frames[cur][i + 1]
    <3>1. frames[cur] \in Seq(Frames) /\ frames[cur] # <<>>
      BY <1>1, <2>1
    <3>2. Len(frames[cur]) \in Nat
      BY <3>1
    <3> QED
      BY <2>2, <3>1, <3>2, HeadTailProperties
  <2> QED
    BY <2>2, <2>3 DEF FramesKept
<1>9. CASE DeliverHandler
  <2>1. PICK f : /\ Delivering /\ f.saved = pc[cur]
                 /\ frames' = frames \/ frames' = [frames EXCEPT ![cur] = <<f>> \o @]
    BY <1>9 DEF DeliverHandler
  <2>2. CASE frames' = [frames EXCEPT ![cur] = <<f>> \o @]
    <3>1. frames'[cur] = <<f>> \o frames[cur] /\ \A p \in Pids \ {cur} : frames'[p] = frames[p]
      BY <2>2 DEF SigTypeOK
    <3>2. \A i \in 1..Len(frames'[cur]) :
            \/ i = 1 /\ frames'[cur][i] = f
            \/ i - 1 \in 1..Len(frames[cur]) /\ frames'[cur][i] = frames[cur][i - 1]
      BY <1>1, <3>1
    <3> QED
      BY <2>1, <3>1, <3>2 DEF FramesKept
  <2> QED
    BY <1>2, <2>1, <2>2
<1> QED
  BY <1>2, <1>5, <1>6, <1>7, <1>8, <1>9, FramesSame DEF Next, SystemCall

\* At the start no one is in a call.
LEMMA CallInit == Init => CallInv
<1> SUFFICES ASSUME Init PROVE CallInv
  OBVIOUS
<1>1. OutOfVfork /\ OutOfCall
  BY TypeInit DEF Init, OutOfVfork, OutOfCall, User, TypeOK, SchedTypeOK
<1>2. \A p \in Pids : Len(frames[p]) = 0
  BY DEF Init
<1>3. FramesOut
  BY <1>2 DEF FramesOut
<1> QED
  BY <1>1, <1>3 DEF CallInv

\* A frame is pushed on the way back to user code, never inside a call.
LEMMA FramesOutKept ==
  ASSUME TypeOK, CallInv, FramesKept
  PROVE  FramesOut'
<1> USE DEF CallInv, TypeOK, SchedTypeOK
<1>1. Delivering => pc[cur].at # "blocked" /\ pc[cur].call # "vfork"
  BY DEF Delivering, OutOfCall, OutOfVfork
<1>2. SUFFICES ASSUME NEW p \in Pids, NEW i \in 1..Len(frames'[p])
               PROVE  frames'[p][i].saved.at # "blocked" /\ frames'[p][i].saved.call # "vfork"
  BY DEF FramesOut
<1>3. CASE Delivering /\ frames'[p][i].saved = pc[cur]
  BY <1>1, <1>3
<1>4. CASE \E q \in Pids : \E j \in 1..Len(frames[q]) : frames'[p][i] = frames[q][j]
  BY <1>4 DEF FramesOut
<1> QED
  BY <1>2, <1>3, <1>4 DEF FramesKept

\* The traps, the tails of the calls and the scheduler leave no one in a call
\* it was not in.
LEMMA CallTraps ==
  ASSUME TypeOK, CallInv,
         \/ Tick \/ Fault \/ CheckTimers \/ Schedule \/ Halted \/ InitExit \/ DoExit
         \/ DeliverNothing \/ DeliverFatal \/ DeliverHandler \/ Sigreturn
  PROVE  OutOfVfork' /\ OutOfCall'
<1> USE DEF CallInv, TypeOK, SchedTypeOK
<1>1. ASSUME NEW st, GoExit(st) PROVE OutOfVfork' /\ OutOfCall'
  BY <1>1, WaysOn, CallGoesOn
<1>2. ASSUME pc' = pc, cur' = cur, mode' \in {"sched", "off", "panic"} \/ pc[cur].at # "blocked"
      PROVE  OutOfVfork' /\ OutOfCall'
  BY <1>2 DEF OutOfVfork, OutOfCall
<1>3. ASSUME pc' = [pc EXCEPT ![cur] = User], cur' = cur
      PROVE  OutOfVfork' /\ OutOfCall'
  BY <1>3 DEF OutOfVfork, OutOfCall, User
<1>4. mode \in {"user", "entry", "ret", "tick", "fault", "sigret", "exit"} => pc[cur].at # "blocked"
  BY DEF OutOfCall
<1>5. CASE Tick
  BY <1>2, <1>4, <1>5 DEF Tick
<1>6. CASE Fault
  BY <1>1, <1>2, <1>4, <1>6 DEF Fault
<1>7. CASE CheckTimers
  BY <1>2, <1>4, <1>7 DEF CheckTimers
<1>8. CASE Schedule
  BY <1>2, <1>8 DEF Schedule, SchedulePass, SwitchTo, OutOfVfork, OutOfCall
<1>9. CASE Halted
  BY <1>2, <1>9 DEF Halted, vars, schedVars
<1>10. CASE InitExit
  BY <1>2, <1>10 DEF InitExit
<1>11. CASE DoExit
  BY <1>2, <1>11 DEF DoExit, ExitWith
<1>12. Delivering => pc[cur].at # "blocked"
  BY <1>4 DEF Delivering
<1>13. CASE DeliverNothing
  BY <1>1, <1>2, <1>12, <1>13 DEF DeliverNothing
<1>14. CASE DeliverFatal
  BY <1>1, <1>14 DEF DeliverFatal
<1>15. CASE DeliverHandler
  BY <1>1, <1>3, <1>15 DEF DeliverHandler
<1>16. CASE Sigreturn
  <2>1. frames[cur] \in Seq(Frames) /\ frames[cur] # <<>>
    BY <1>16 DEF Sigreturn, SigTypeOK
  <2>2. 1 \in 1..Len(frames[cur])
    BY <2>1
  <2>3. frames[cur][1].saved.at # "blocked" /\ frames[cur][1].saved.call # "vfork"
    BY <2>2 DEF FramesOut
  <2>4. pc' = [pc EXCEPT ![cur] = frames[cur][1].saved] /\ cur' = cur
    BY <1>16 DEF Sigreturn
  <2> QED
    BY <2>3, <2>4 DEF OutOfVfork, OutOfCall
<1> QED
  BY <1>5, <1>6, <1>7, <1>8, <1>9, <1>10, <1>11, <1>13, <1>14, <1>15, <1>16

\* No step takes user code into a blocked call, or a call back to vfork.
LEMMA CallStep ==
  ASSUME TypeOK, CallInv, [Next]_vars
  PROVE  CallInv'
<1>1. CASE Next
  <2>1. FramesOut'
    BY <1>1, FramesStep, FramesOutKept
  <2>2. ASSUME NEW z \in Pids, Reap(z) PROVE OutOfVfork' /\ OutOfCall'
    BY <2>2 DEF Reap, OutOfVfork, OutOfCall, User, CallInv, TypeOK, SchedTypeOK
  <2>3. OutOfVfork' /\ OutOfCall'
    BY <1>1, <2>2, CallTraps, CallsGoOn, CallGoesOn DEF Next, SystemCall
  <2> QED
    BY <2>1, <2>3 DEF CallInv
<1>2. CASE UNCHANGED vars
  BY <1>2 DEF vars, schedVars, sigVars, CallInv, OutOfVfork, OutOfCall, FramesOut
<1> QED
  BY <1>1, <1>2

(* ---- the ordinary steps ---- *)

\* p does not run, and at most is woken.
Kept(p) ==
  /\ pc'[p] = pc[p]
  /\ state'[p] = "sleep" => state[p] = "sleep" /\ chan'[p] = chan[p]

\* cur goes on outside vfork; if it sleeps in wait4, it has found no zombie.
Moves ==
  /\ pc[cur].call # "vfork" /\ pc'[cur].call # "vfork"
  /\ state'[cur] = "sleep" /\ pc'[cur].call = "wait4" =>
       chan'[cur] = ProcChan(cur) /\ ZombiesOf(pc'[cur].arg[1]) = {}

\* cur looks at its vfork child: it is released, or goes back to sleep.
Looks ==
  /\ pc[cur].call = "vfork"
  /\ \/ pc'[cur].call # "vfork" /\ state'[cur] = "run" /\ vparent[pc[cur].arg[1]] # cur
     \/ /\ pc'[cur] = pc[cur] /\ chan'[cur] = ProcChan(pc[cur].arg[1])
        /\ vparent[pc[cur].arg[1]] = cur

Others == \A p \in Pids \ {cur} : Kept(p)

Ordinary ==
  /\ Quiet /\ vparent' = vparent /\ Others
  /\ Kept(cur) \/ Moves \/ Looks

\* Every way a call leaves the CPU lets the others be and moves cur on.
LEMMA OrdinarySched ==
  ASSUME TypeOK, state[cur] = "run", pc[cur].call # "vfork"
  PROVE  /\ Return /\ chan' = chan /\ Wakes(state, state') => Others /\ Moves
         /\ ReturnOnly => Others /\ Moves
         /\ \A st : GoExit(st) => Others /\ Moves
         /\ \A c, a : Restart(c, a) /\ c # "vfork" => Others /\ Moves
         /\ \A c, a : YieldIn(c, a) /\ c # "vfork" => Others /\ Moves
         /\ \A q, c, a : SleepOn(ProcChan(q), c, a) /\ c \notin {"vfork", "wait4"} => Others /\ Moves
         /\ \A a : SleepOn(ProcChan(cur), "wait4", Arg(a)) /\ ZombiesOf(a) = {} => Others /\ Moves
<1> USE DEF TypeOK, SchedTypeOK, Others, Kept, Moves
<1>1. Return /\ chan' = chan /\ Wakes(state, state') => Others /\ Moves
  BY DEF Return, Wakes, User
<1>2. ReturnOnly => Others /\ Moves
  BY DEF ReturnOnly, Return, User
<1>3. \A st : GoExit(st) => Others /\ Moves
  BY DEF GoExit, Exiting
<1>4. \A c, a : Restart(c, a) /\ c # "vfork" => Others /\ Moves
  BY DEF Restart, Redo, User
<1>5. \A c, a : YieldIn(c, a) /\ c # "vfork" => Others /\ Moves
  BY DEF YieldIn, Blocked
<1>6. \A q, c, a : SleepOn(ProcChan(q), c, a) /\ c \notin {"vfork", "wait4"} => Others /\ Moves
  BY DEF SleepOn, Blocked
<1>7. \A a : SleepOn(ProcChan(cur), "wait4", Arg(a)) /\ ZombiesOf(a) = {} => Others /\ Moves
  BY DEF SleepOn, Blocked, Arg
<1> QED
  BY <1>1, <1>2, <1>3, <1>4, <1>5, <1>6, <1>7

\* A process in user code, or back in a call other than vfork, is not in vfork.
LEMMA NotInVfork ==
  ASSUME TypeOK, CallInv
  PROVE  /\ mode \notin {"kernel", "sched", "off", "panic"} => pc[cur].call # "vfork"
         /\ \A c, a : Calling(c, a) => mode \in {"user", "entry"}
         /\ \A c : Resumed(c) /\ c # "vfork" => pc[cur].call # "vfork"
BY DEF CallInv, OutOfCall, OutOfVfork, Calling, Resumed, TypeOK, SchedTypeOK

\* The calls that neither make, end nor release a process are ordinary.
LEMMA OrdinaryCalls ==
  ASSUME TypeOK, CurRuns, CallInv,
         \/ Exit \/ Pause \/ Sigsuspend \/ PauseResume \/ Nanosleep \/ Yield \/ Alarm
         \/ Kill \/ Setpgid \/ Sigaction \/ Sigprocmask
  PROVE  Others /\ Moves
<1>1. CASE Exit
  BY <1>1, OrdinarySched, NotInVfork DEF Exit, CurRuns
<1>2. ASSUME NEW c, NEW m, PauseLoop(c, m), c \in {"pause", "sigsuspend"},
             mode \in {"user", "entry", "kernel"}, pc[cur].call # "vfork"
      PROVE  Others /\ Moves
  BY <1>2, OrdinarySched DEF PauseLoop, CurRuns
<1>3. CASE Pause
  BY <1>2, <1>3, NotInVfork DEF Pause
<1>4. CASE Sigsuspend
  BY <1>2, <1>4, NotInVfork DEF Sigsuspend
<1>5. CASE PauseResume
  <2>1. mode = "kernel" /\ pc[cur].call \in {"pause", "sigsuspend"} /\ PauseLoop(pc[cur].call, sigmask[cur])
    BY <1>5 DEF PauseResume, Resumed
  <2> QED
    BY <1>2, <2>1
<1>6. CASE Nanosleep
  BY <1>6, OrdinarySched, NotInVfork DEF Nanosleep, CurRuns, Resumed
<1>7. CASE Yield
  BY <1>7, OrdinarySched, NotInVfork DEF Yield, CurRuns, Resumed
<1>8. CASE Alarm
  BY <1>8, OrdinarySched, NotInVfork DEF Alarm, CurRuns
<1>9. CASE Kill
  <2>1. Wakes(state, state')
    BY <1>9, RousedWakes DEF Kill, TypeOK, SchedTypeOK, States
  <2> QED
    BY <1>9, <2>1, OrdinarySched, NotInVfork DEF Kill, CurRuns
<1>10. CASE Setpgid
  BY <1>10, OrdinarySched, NotInVfork DEF Setpgid, CurRuns
<1>11. CASE Sigaction
  BY <1>11, OrdinarySched, NotInVfork DEF Sigaction, CurRuns
<1>12. CASE Sigprocmask
  BY <1>12, OrdinarySched, NotInVfork DEF Sigprocmask, CurRuns
<1> QED
  BY <1>1, <1>3, <1>4, <1>5, <1>6, <1>7, <1>8, <1>9, <1>10, <1>11, <1>12

\* So are the passes of wait4 that reap no one.
LEMMA OrdinaryWaits ==
  ASSUME TypeOK, CurRuns, CallInv, Wait4 \/ WaitNoHang \/ Wait4Resume
  PROVE  (Others /\ Moves /\ UNCHANGED treeVars) \/ \E z \in Pids : Reaps(z) /\ Reap(z)
<1>1. PICK a, nohang : Wait4Pass(a, nohang)
  BY DEF Wait4, WaitNoHang, Wait4Resume
<1>2. state[cur] = "run" /\ pc[cur].call # "vfork"
  BY NotInVfork DEF Wait4, WaitNoHang, Wait4Resume, Calling, Resumed, CurRuns
<1>3. ASSUME NEW z \in ZombiesOf(a), Reap(z)
      PROVE  z \in Pids /\ Reaps(z) /\ Reap(z)
  BY <1>2, <1>3 DEF ZombiesOf, Waited, Children, Reap, Reaps, TypeOK, SchedTypeOK
<1> QED
  BY <1>1, <1>2, <1>3, OrdinarySched DEF Wait4Pass

\* The vfork parent's look at its child.
LEMMA OrdinaryLook ==
  ASSUME TypeOK, CurRuns, VForkResume,
         NEW c \in Pids, pc[cur] = Blocked("vfork", Arg(c))
  PROVE  Others /\ Looks
<1> USE DEF TypeOK, SchedTypeOK, Others, Kept, Looks
<1>1. pc[cur].call = "vfork" /\ state[cur] = "run"
  BY DEF VForkResume, Resumed, CurRuns
<1>2. CASE vparent[pc[cur].arg[1]] = cur
  <2>1. SleepOn(ProcChan(pc[cur].arg[1]), "vfork", Arg(pc[cur].arg[1]))
    BY <1>2 DEF VForkResume
  <2> QED
    BY <1>1, <1>2, <2>1 DEF SleepOn, Blocked, Arg
<1>3. CASE vparent[pc[cur].arg[1]] # cur
  <2>1. ReturnOnly
    BY <1>3 DEF VForkResume
  <2> QED
    BY <1>1, <1>3, <2>1 DEF ReturnOnly, Return, User
<1> QED
  BY <1>2, <1>3

\* The traps, the tails of the calls and the scheduler are ordinary too.
LEMMA OrdinaryTraps ==
  ASSUME TypeOK, CurRuns, CallInv,
         \/ Tick \/ Fault \/ CheckTimers \/ Schedule \/ Halted \/ InitExit
         \/ DeliverNothing \/ DeliverFatal \/ DeliverHandler \/ Sigreturn
  PROVE  Others /\ (Kept(cur) \/ Moves)
<1> USE DEF TypeOK, SchedTypeOK, Others, Kept
<1>1. ASSUME NEW st, GoExit(st), mode \in {"user", "ret", "tick", "fault", "sigret"}
      PROVE  Others /\ Moves
  BY <1>1, OrdinarySched, NotInVfork DEF CurRuns
<1>2. ASSUME UNCHANGED <<state, chan, pc>>
      PROVE  Others /\ Kept(cur)
  BY <1>2
<1>3. CASE Tick \/ InitExit \/ Halted
  BY <1>2, <1>3 DEF Tick, InitExit, Halted, vars, schedVars
<1>4. CASE Fault
  BY <1>1, <1>2, <1>4 DEF Fault
<1>5. CASE CheckTimers
  <2>1. PICK due \in SUBSET ArmedTimers : state' = Roused(state, due, ALRM)
    BY <1>5 DEF CheckTimers
  <2>2. Wakes(state, state')
    BY <2>1, RousedWakes DEF ArmedTimers, States
  <2> QED
    BY <1>5, <2>2 DEF CheckTimers, Wakes
<1>6. CASE Schedule
  <2>1. CASE \E q \in Pids : IsNext(q) /\ SwitchTo(q)
    BY <2>1 DEF IsNext, SwitchTo
  <2>2. CASE UNCHANGED <<state, chan, pc>>
    BY <1>2, <2>2
  <2> QED
    BY <1>6, <2>1, <2>2 DEF Schedule, SchedulePass
<1>7. CASE DeliverNothing \/ DeliverFatal
  BY <1>1, <1>2, <1>7 DEF DeliverNothing, DeliverFatal, Delivering
<1>8. ASSUME NEW x, pc' = [pc EXCEPT ![cur] = x], x.call # "vfork", UNCHANGED <<state, chan>>,
             mode \notin {"kernel", "sched", "off", "panic"}
      PROVE  Others /\ Moves
  BY <1>8, NotInVfork DEF Moves, CurRuns
<1>9. CASE DeliverHandler
  BY <1>1, <1>8, <1>9 DEF DeliverHandler, Delivering, User
<1>10. CASE Sigreturn
  <2>1. frames[cur] \in Seq(Frames) /\ frames[cur] # <<>>
    BY <1>10 DEF Sigreturn, SigTypeOK
  <2>2. frames[cur][1].saved.call # "vfork"
    BY <2>1 DEF CallInv, FramesOut
  <2> QED
    BY <1>8, <1>10, <2>2 DEF Sigreturn
<1> QED
  BY <1>3, <1>4, <1>5, <1>6, <1>7, <1>9, <1>10

(* ---- the invariant ---- *)

\* A live process in vfork is blocked on a child of its own.
VforkChild ==
  \A p \in Pids : Live(p) /\ pc[p].call = "vfork" =>
    \E c \in Pids : /\ pc[p] = Blocked("vfork", Arg(c))
                    /\ ppid[c] = p /\ state[c] # "free"

\* A sleeper in vfork sleeps on its child, which still holds it; a sleeper in
\* wait4 sleeps on itself.
VforkSleep ==
  \A p \in Pids : state[p] = "sleep" /\ pc[p].call = "vfork" =>
    chan[p] = ProcChan(pc[p].arg[1]) /\ vparent[pc[p].arg[1]] = p
WaitSleep ==
  \A p \in Pids : state[p] = "sleep" /\ pc[p].call = "wait4" => chan[p] = ProcChan(p)

WakeInv ==
  /\ VforkChild /\ VforkSleep /\ VforkHolder /\ vparent[1] = 0
  /\ WaitSleep /\ NoMissedChild

\* cur gives its vfork parent up, and wakes it if it had one.
Releases ==
  /\ vparent' = ReleasedVparent
  /\ vparent[cur] # 0 => \A p \in Pids : state[p] = "sleep" /\ chan[p] = ProcChan(cur)
                                           => state'[p] = "run"

\* No one is behind what cur's vfork child would hold when cur is not in vfork.
LEMMA NotHeld ==
  ASSUME TypeOK, WakeInv, pc[cur].call # "vfork", NEW c \in Pids
  PROVE  vparent[c] # cur
<1> SUFFICES ASSUME vparent[c] = cur PROVE FALSE
  OBVIOUS
<1>1. cur # 0
  BY DEF TypeOK, SchedTypeOK, Pids
<1>2. pc[cur] = Blocked("vfork", Arg(c))
  BY <1>1 DEF WakeInv, VforkHolder
<1> QED
  BY <1>2 DEF Blocked

\* A quiet step keeps the vfork parents' children, and lets no one sleep in
\* wait4 on anything but itself or before a zombie.
LEMMA QuietSleepers ==
  ASSUME TreeInv, TypeOK', WakeInv, Quiet, Others, Kept(cur) \/ Moves \/ Looks
  PROVE  VforkChild' /\ WaitSleep' /\ NoMissedChild'
<1> USE DEF TreeInv, TypeOK, SchedTypeOK, TreeTypeOK
<1>1. \A p \in Pids : /\ Live(p) <=> Live(p)'
                      /\ state[p] = "free" <=> state'[p] = "free"
                      /\ state[p] = "zombie" <=> state'[p] = "zombie"
  BY DEF Quiet, Live
<1>2. ppid' = ppid
  BY DEF Quiet
<1>3. VforkChild'
  BY <1>1, <1>2 DEF Others, Kept, Moves, Looks, WakeInv, VforkChild
<1>4. WaitSleep'
  BY <1>1 DEF Others, Kept, Moves, Looks, WakeInv, WaitSleep
<1>5. NoMissedChild'
  <2>1. \A p \in Pids : \A a : AwaitedBy(p, a)' = AwaitedBy(p, a)
    BY <1>1, <1>2 DEF AwaitedBy
  <2>2. \A p \in Pids : Kept(p) /\ ~MissesChild(p) => ~MissesChild(p)'
    BY <2>1 DEF Kept, MissesChild
  <2>3. ASSUME Looks, NEW p \in Pids, p = cur PROVE ~MissesChild(p)'
    BY <2>3, <1>1 DEF Looks, MissesChild, WakeInv, NoMissedChild
  <2>4. ASSUME Moves, NEW p \in Pids, p = cur, state'[p] = "sleep", pc'[p].call = "wait4",
               NEW a \in Int, a = pc'[p].arg[1], a = -1 \/ a > 0
        PROVE  AwaitedBy(p, a)' = {}
    <3>1. ZombiesOf(a) = {}
      BY <2>4 DEF Moves
    <3>2. AwaitedBy(p, a) \subseteq ZombiesOf(a)
      BY <2>4 DEF AwaitedBy, ZombiesOf, Waited, Children
    <3> QED
      BY <2>1, <2>4, <3>1, <3>2
  <2>5. ASSUME Moves, NEW p \in Pids, p = cur PROVE ~MissesChild(p)'
    <3>1. pc'[p].arg[1] \in Int
      BY DEF PCs
    <3> QED
      BY <2>4, <2>5, <3>1 DEF MissesChild
  <2> QED
    BY <2>2, <2>3, <2>5 DEF Others, WakeInv, NoMissedChild
<1> QED
  BY <1>3, <1>4, <1>5

\* An ordinary step keeps the invariant.
LEMMA WakeOrdinary ==
  ASSUME TreeInv, TypeOK', WakeInv, Ordinary
  PROVE  WakeInv'
<1> USE DEF TreeInv, TypeOK, SchedTypeOK, TreeTypeOK
<1>1. \A p \in Pids : Live(p) <=> Live(p)'
  BY DEF Ordinary, Quiet, Live
<1>2. ppid' = ppid /\ vparent' = vparent
  BY DEF Ordinary, Quiet
<1>3. VforkSleep'
  BY <1>2 DEF Ordinary, Others, Kept, Moves, Looks, WakeInv, VforkSleep
<1>4. VforkHolder'
  BY <1>1, <1>2 DEF Ordinary, Others, Kept, Moves, Looks, WakeInv, VforkHolder, Blocked, Arg
<1> QED
  BY <1>2, <1>3, <1>4, QuietSleepers DEF Ordinary, WakeInv

\* exec is ordinary but for the vfork parent it releases.
LEMMA ExecReleases ==
  ASSUME TypeOK, CurRuns, CallInv, Exec
  PROVE  Others /\ Moves /\ Releases
<1> USE DEF TypeOK, SchedTypeOK
<1>1. state' = ReleasedState(state) /\ vparent' = ReleasedVparent /\ Return /\ chan' = chan
  BY DEF Exec, ExecWith
<1>2. Wakes(state, state')
  BY <1>1, ReleasedWakes DEF States
<1>3. Others /\ Moves
  BY <1>1, <1>2, OrdinarySched, NotInVfork DEF Exec, ExecWith, CurRuns, Calling
<1>4. Releases
  BY <1>1 DEF Releases, ReleasedState, Woken
<1> QED
  BY <1>3, <1>4

\* When cur releases its vfork parent, no one sleeps on in vfork for it.
LEMMA ReleasedSleep ==
  ASSUME TypeOK, WakeInv, Releases,
         NEW p \in Pids, Kept(p), state'[p] = "sleep", pc'[p].call = "vfork"
  PROVE  chan'[p] = ProcChan(pc'[p].arg[1]) /\ vparent'[pc'[p].arg[1]] = p
<1> USE DEF TypeOK, SchedTypeOK, TreeTypeOK
<1>1. state[p] = "sleep" /\ chan'[p] = chan[p] /\ pc'[p] = pc[p] /\ p # 0
  BY DEF Kept, Pids
<1>2. PICK c \in Pids : pc[p] = Blocked("vfork", Arg(c))
  BY <1>1 DEF WakeInv, VforkChild, Live
<1>3. pc[p].arg[1] = c
  BY <1>2 DEF Blocked, Arg
<1>4. chan[p] = ProcChan(c) /\ vparent[c] = p
  BY <1>1, <1>3 DEF WakeInv, VforkSleep
<1>5. c # cur
  BY <1>1, <1>4 DEF Releases
<1> QED
  BY <1>1, <1>3, <1>4, <1>5 DEF Releases, ReleasedVparent

\* Who still holds its parent then held it before, and it is not cur.
LEMMA ReleasedHolder ==
  ASSUME TypeOK, WakeInv, Releases, pc[cur].call # "vfork",
         NEW c \in Pids, vparent'[c] # 0
  PROVE  c # cur /\ vparent'[c] = vparent[c] /\ vparent[c] # cur
BY NotHeld DEF TypeOK, SchedTypeOK, TreeTypeOK, Releases, ReleasedVparent

\* A step that is ordinary but for the release keeps the invariant.
LEMMA WakeExec ==
  ASSUME TreeInv, TypeOK', WakeInv, Quiet, Others, Moves, Releases
  PROVE  WakeInv'
<1> USE DEF TreeInv, TypeOK, SchedTypeOK, TreeTypeOK
<1>1. \A p \in Pids : Live(p) <=> Live(p)'
  BY DEF Quiet, Live
<1>2. ppid' = ppid
  BY DEF Quiet
<1>3. VforkSleep'
  BY ReleasedSleep DEF Others, Moves, VforkSleep
<1>4. VforkHolder'
  <2> SUFFICES ASSUME NEW c \in Pids, vparent'[c] # 0
               PROVE  /\ state'[c] \in {"run", "sleep"} /\ ppid'[c] = vparent'[c]
                      /\ pc'[vparent'[c]] = Blocked("vfork", Arg(c))
    BY DEF VforkHolder, Live
  <2>1. vparent'[c] = vparent[c] /\ vparent[c] # cur
    BY ReleasedHolder DEF Moves
  <2>2. Live(c) /\ ppid[c] = vparent[c] /\ pc[vparent[c]] = Blocked("vfork", Arg(c))
    BY <2>1 DEF WakeInv, VforkHolder
  <2>3. vparent[c] \in Pids
    BY <2>1
  <2> QED
    BY <1>1, <1>2, <2>1, <2>2, <2>3 DEF Others, Kept, Live
<1>5. vparent'[1] = 0
  BY MaxPidAssumption DEF Releases, ReleasedVparent, WakeInv, Pids
<1> QED
  BY <1>3, <1>4, <1>5, QuietSleepers DEF WakeInv

\* fork and vfork: the child c is in user code; cur goes on, or is blocked in
\* vfork on c, which holds it.
Forks(c) ==
  /\ c # cur /\ state[c] = "free" /\ pc'[c] = User /\ pc[cur].call # "vfork"
  /\ \A p \in Pids \ {c, cur} : Kept(p)
  /\ \/ vparent' = [vparent EXCEPT ![c] = 0] /\ pc'[cur] = User /\ state'[cur] = "run"
     \/ /\ vparent' = [vparent EXCEPT ![c] = cur]
        /\ pc'[cur] = Blocked("vfork", Arg(c)) /\ chan'[cur] = ProcChan(c)

\* fork and vfork are such steps.
LEMMA ForkForks ==
  ASSUME TreeInv, CallInv, Fork \/ VFork
  PROVE  \E c \in Pids : Bears(c) /\ Forks(c)
<1> USE DEF TreeInv, TypeOK, SchedTypeOK, TreeTypeOK
<1>1. PICK c \in Pids : Bears(c)
  BY ForkBears
<1>2. pc[cur].call # "vfork" /\ c = nextpid /\ state[cur] = "run"
  BY <1>1, NotInVfork DEF Bears, Fork, VFork, Calling
<1>3. c # cur /\ state[c] = "free" /\ pc[c] = User
  BY <1>1, <1>2 DEF Fresh, Pids
<1>4. CASE Fork
  <2>1. /\ vparent' = [vparent EXCEPT ![c] = 0] /\ state' = [state EXCEPT ![c] = "run"]
        /\ chan' = chan /\ pc' = [pc EXCEPT ![cur] = User]
    BY <1>2, <1>4 DEF Fork, NewChild, Return
  <2> QED
    BY <1>1, <1>2, <1>3, <2>1 DEF Forks, Kept
<1>5. CASE VFork
  <2>1. /\ vparent' = [vparent EXCEPT ![c] = cur]
        /\ state' = [state EXCEPT ![c] = "run", ![cur] = "sleep"]
        /\ chan' = [chan EXCEPT ![cur] = ProcChan(c)]
        /\ pc' = [pc EXCEPT ![cur] = Blocked("vfork", Arg(c))]
    BY <1>2, <1>5 DEF VFork, NewChild
  <2> QED
    BY <1>1, <1>2, <1>3, <2>1 DEF Forks, Kept
<1> QED
  BY <1>4, <1>5

\* fork and vfork keep the invariant.
LEMMA WakeForks ==
  ASSUME TreeInv, TypeOK', WakeInv, NEW c \in Pids, Bears(c), Forks(c)
  PROVE  WakeInv'
<1> USE DEF TreeInv, TypeOK, SchedTypeOK, TreeTypeOK
<1>1. /\ \A p \in Pids : Live(p) => state'[p] \in {"run", "sleep"}
      /\ \A p \in Pids : state[p] # "free" => state'[p] # "free"
      /\ \A p \in Pids : state'[p] = "zombie" => state[p] = "zombie"
      /\ state'[c] = "run"
  BY DEF Bears, Live
<1>2. ppid'[c] = cur /\ \A p \in Pids \ {c} : ppid'[p] = ppid[p]
  BY DEF Bears
<1>3. \A p \in Pids \ {c} : vparent'[p] = vparent[p]
  BY DEF Forks
<1>4. VforkChild'
  <2> SUFFICES ASSUME NEW p \in Pids, state'[p] \in {"run", "sleep"}, pc'[p].call = "vfork"
               PROVE  \E d \in Pids : /\ pc'[p] = Blocked("vfork", Arg(d))
                                      /\ ppid'[d] = p /\ state'[d] # "free"
    BY DEF VforkChild, Live
  <2>1. CASE p = cur
    BY <1>1, <1>2, <2>1 DEF Forks, User
  <2>2. CASE p # cur
    <3>1. p # c /\ pc'[p] = pc[p] /\ Live(p)
      BY <2>2 DEF Forks, User, Kept, Bears, Live
    <3>2. PICK d \in Pids : pc[p] = Blocked("vfork", Arg(d)) /\ ppid[d] = p /\ state[d] # "free"
      BY <3>1 DEF WakeInv, VforkChild
    <3> QED
      BY <1>1, <1>2, <3>1, <3>2 DEF Forks
  <2> QED
    BY <2>1, <2>2
<1>5. VforkSleep'
  <2> SUFFICES ASSUME NEW p \in Pids, state'[p] = "sleep", pc'[p].call = "vfork"
               PROVE  chan'[p] = ProcChan(pc'[p].arg[1]) /\ vparent'[pc'[p].arg[1]] = p
    BY DEF VforkSleep
  <2>1. CASE p = cur
    BY <2>1 DEF Forks, User, Blocked, Arg
  <2>2. CASE p # cur
    <3>1. p # c /\ pc'[p] = pc[p] /\ state[p] = "sleep" /\ chan'[p] = chan[p]
      BY <2>2 DEF Forks, User, Kept
    <3>2. PICK d \in Pids : pc[p] = Blocked("vfork", Arg(d)) /\ ppid[d] = p /\ state[d] # "free"
      BY <3>1 DEF WakeInv, VforkChild, Live
    <3>3. pc[p].arg[1] = d /\ d # c
      BY <3>2 DEF Blocked, Arg, Forks
    <3> QED
      BY <1>3, <3>1, <3>3 DEF WakeInv, VforkSleep
  <2> QED
    BY <2>1, <2>2
<1>6. VforkHolder'
  <2> SUFFICES ASSUME NEW d \in Pids, vparent'[d] # 0
               PROVE  /\ state'[d] \in {"run", "sleep"} /\ ppid'[d] = vparent'[d]
                      /\ pc'[vparent'[d]] = Blocked("vfork", Arg(d))
    BY DEF VforkHolder, Live
  <2>1. CASE d = c
    BY <1>1, <1>2, <2>1 DEF Forks
  <2>2. CASE d # c
    <3>1. vparent'[d] = vparent[d] /\ vparent[d] # cur
      BY <1>3, <2>2, NotHeld DEF Forks
    <3>2. Live(d) /\ ppid[d] = vparent[d] /\ pc[vparent[d]] = Blocked("vfork", Arg(d))
      BY <3>1 DEF WakeInv, VforkHolder
    <3>3. vparent[d] \in Pids /\ vparent[d] # c
      <4>1. pc[c].call # "vfork"
        BY DEF Bears, Forks, User
      <4> QED
        BY <3>1, <3>2, <4>1 DEF Blocked
    <3> QED
      BY <1>1, <1>2, <2>2, <3>1, <3>2, <3>3 DEF Forks, Kept
  <2> QED
    BY <2>1, <2>2
<1>7. vparent'[1] = 0
  <2>1. c # 1
    BY DEF InitLive, Live, Forks
  <2> QED
    BY <1>3, <2>1, MaxPidAssumption DEF WakeInv, Pids
<1>8. \A p \in Pids : state'[p] = "sleep" /\ pc'[p].call = "wait4" => p # c /\ p # cur /\ Kept(p)
  BY DEF Forks, User, Blocked
<1>9. WaitSleep'
  BY <1>8 DEF Kept, WakeInv, WaitSleep
<1>10. NoMissedChild'
  <2>1. \A p \in Pids : \A a : AwaitedBy(p, a)' \subseteq AwaitedBy(p, a)
    BY <1>1, <1>2 DEF AwaitedBy
  <2>2. \A p \in Pids : MissesChild(p)' => Kept(p)
    BY <1>8 DEF MissesChild
  <2>3. \A p \in Pids : MissesChild(p)' => MissesChild(p)
    BY <2>1, <2>2 DEF Kept, MissesChild
  <2> QED
    BY <2>3 DEF WakeInv, NoMissedChild
<1> QED
  BY <1>4, <1>5, <1>6, <1>7, <1>9, <1>10 DEF WakeInv

\* exit: the process no longer holds its vfork parent, and whoever sleeps on
\* its vfork child or in wait4 is awake.
Leaves ==
  /\ Releases /\ pc[cur].call # "vfork" /\ chan' = chan
  /\ ppid[cur] \in Pids /\ state[ppid[cur]] # "free" =>
       \A p \in Pids : state[p] = "sleep" /\ chan[p] = ProcChan(ppid[cur]) => state'[p] = "run"

\* do_exit is such a step.
LEMMA ExitLeaves ==
  ASSUME TreeInv, CallInv, DoExit
  PROVE  Ends /\ Leaves
<1> USE DEF TreeInv, TypeOK, SchedTypeOK, TreeTypeOK
<1> DEFINE st1 == WokenByOrphans(ReleasedState(state))
           st2 == [st1 EXCEPT ![cur] = "zombie"]
           st3 == Roused(st2, Parents, CHLD)
<1>1. state' = WokenParents(st3) /\ vparent' = ReleasedVparent /\ chan' = chan
  BY DEF DoExit, ExitWith
<1>2. pc[cur].call # "vfork" /\ state[cur] = "run"
  BY NotInVfork DEF DoExit, CurRuns
<1>3. Ends
  BY ExitEnds
<1>4. \A p \in Pids \ {cur} : state'[p] \in {state[p], "run"}
  BY <1>3 DEF Ends
<1> HIDE DEF st3, st2, st1
<1>5. ASSUME NEW p \in Pids, state[p] = "sleep", chan[p] = ProcChan(cur), vparent[cur] # 0
      PROVE  state'[p] = "run"
  <2>1. ReleasedState(state)[p] = "run"
    BY <1>5 DEF ReleasedState, Woken
  <2>2. Wakes(ReleasedState(state), st1) /\ st1 \in [Pids -> States]
    BY ReleasedWakes, OrphansWakes DEF Wakes, States, st1
  <2>3. st2[p] = "run" /\ st2 \in [Pids -> States]
    BY <1>2, <1>5, <2>1, <2>2 DEF Wakes, States, st2
  <2>4. st3[p] = "run" /\ st3 \in [Pids -> States]
    BY <2>3, RousedWakes DEF Wakes, st3
  <2> QED
    BY <1>1, <2>4, ParentsWakes DEF Wakes
<1>6. ASSUME NEW p \in Pids, state[p] = "sleep", chan[p] = ProcChan(ppid[cur]),
             state[ppid[cur]] # "free", ppid[cur] \in Pids
      PROVE  state'[p] = "run"
  <2>1. ppid[cur] \in Parents
    BY <1>6 DEF Parents
  <2>2. state'[p] # "sleep"
    BY <1>1, <1>6, <2>1 DEF WokenParents
  <2> QED
    BY <1>2, <1>4, <1>6, <2>2
<1> QED
  BY <1>1, <1>2, <1>3, <1>5, <1>6 DEF Leaves, Releases

\* exit keeps the invariant.
LEMMA WakeLeaves ==
  ASSUME TreeInv, WakeInv, Ends, Leaves
  PROVE  WakeInv'
<1> USE DEF TreeInv, TypeOK, SchedTypeOK, TreeTypeOK
<1>1. \A p \in Pids \ {cur} : /\ Live(p) => state'[p] \in {"run", "sleep"}
                              /\ state'[p] \in {"run", "sleep"} => Live(p)
                              /\ state'[p] = "zombie" => state[p] = "zombie"
                              /\ state'[p] = "sleep" => state[p] = "sleep"
  BY DEF Ends, Live
<1>2. /\ pc' = pc /\ chan' = chan /\ state'[cur] = "zombie"
      /\ \A p \in Pids : state[p] # "free" => state'[p] # "free"
  BY <1>1 DEF Ends, Leaves, Live
<1>3. \A p \in Pids : ppid[p] # cur => ppid'[p] = ppid[p]
  BY DEF Ends, Reparented, Children
<1>4. VforkChild'
  <2> SUFFICES ASSUME NEW p \in Pids, state'[p] \in {"run", "sleep"}, pc'[p].call = "vfork"
               PROVE  \E d \in Pids : /\ pc'[p] = Blocked("vfork", Arg(d))
                                      /\ ppid'[d] = p /\ state'[d] # "free"
    BY DEF VforkChild, Live
  <2>1. p # cur /\ Live(p)
    BY <1>1, <1>2
  <2>2. PICK d \in Pids : pc[p] = Blocked("vfork", Arg(d)) /\ ppid[d] = p /\ state[d] # "free"
    BY <1>2, <2>1 DEF WakeInv, VforkChild
  <2> QED
    BY <1>2, <1>3, <2>1, <2>2
<1>5. \A p \in Pids : state'[p] = "sleep" => Kept(p)
  BY <1>1, <1>2 DEF Kept
<1>6. VforkSleep'
  BY <1>5, ReleasedSleep DEF Leaves, VforkSleep
<1>7. VforkHolder'
  <2> SUFFICES ASSUME NEW c \in Pids, vparent'[c] # 0
               PROVE  /\ state'[c] \in {"run", "sleep"} /\ ppid'[c] = vparent'[c]
                      /\ pc'[vparent'[c]] = Blocked("vfork", Arg(c))
    BY DEF VforkHolder, Live
  <2>1. c # cur /\ vparent'[c] = vparent[c] /\ vparent[c] # cur
    BY ReleasedHolder DEF Leaves
  <2>2. Live(c) /\ ppid[c] = vparent[c] /\ pc[vparent[c]] = Blocked("vfork", Arg(c))
    BY <2>1 DEF WakeInv, VforkHolder
  <2> QED
    BY <1>1, <1>2, <1>3, <2>1, <2>2
<1>8. vparent'[1] = 0
  BY MaxPidAssumption DEF Leaves, Releases, ReleasedVparent, WakeInv, Pids
<1>9. WaitSleep'
  BY <1>5 DEF Kept, WakeInv, WaitSleep
<1>10. NoMissedChild'
  <2>1. ASSUME NEW p \in Pids \ {1}, NEW a, state'[p] = "sleep", pc'[p].call = "wait4"
        PROVE  AwaitedBy(p, a)' \subseteq AwaitedBy(p, a)
    <3>1. p # cur /\ state[p] = "sleep" /\ chan[p] = ProcChan(p)
      BY <1>2, <1>5, <2>1 DEF Kept, WakeInv, WaitSleep
    <3>2. ASSUME NEW z \in Pids, ppid'[z] = p PROVE ppid[z] = p
      BY <3>2, <1>3 DEF Ends, Reparented, Children
    <3>3. ppid'[cur] # p
      <4>1. ppid[cur] = p => state'[p] = "run"
        BY <3>1 DEF Leaves
      <4> QED
        BY <2>1, <3>2, <4>1
    <3> QED
      BY <1>1, <3>2, <3>3 DEF AwaitedBy
  <2>2. \A p \in Pids \ {1} : MissesChild(p)' => MissesChild(p)
    BY <1>2, <1>5, <2>1 DEF Kept, MissesChild
  <2> QED
    BY <2>2 DEF WakeInv, NoMissedChild
<1> QED
  BY <1>4, <1>6, <1>7, <1>8, <1>9, <1>10 DEF WakeInv

\* wait4's reaping keeps the invariant.
LEMMA WakeReaps ==
  ASSUME TreeInv, WakeInv, pc[cur].call # "vfork", NEW z \in Pids, Reaps(z), Reap(z)
  PROVE  WakeInv'
<1> USE DEF TreeInv, TypeOK, SchedTypeOK, TreeTypeOK
<1>1. /\ vparent' = vparent /\ chan' = [chan EXCEPT ![z] = NoChan]
      /\ state' = [state EXCEPT ![z] = "free"] /\ ppid' = [ppid EXCEPT ![z] = 0]
      /\ pc' = [pc EXCEPT ![z] = User, ![cur] = User]
      /\ state[z] = "zombie" /\ ppid[z] = cur /\ z # cur /\ state[cur] = "run"
  BY DEF Reaps, Reap
<1>2. \A p \in Pids : p # z /\ p # cur => Kept(p)
  BY <1>1 DEF Kept
<1>3. \A p \in Pids : Live(p)' => Live(p) /\ p # z
  BY <1>1 DEF Live
<1>4. VforkChild'
  <2> SUFFICES ASSUME NEW p \in Pids, state'[p] \in {"run", "sleep"}, pc'[p].call = "vfork"
               PROVE  \E d \in Pids : /\ pc'[p] = Blocked("vfork", Arg(d))
                                      /\ ppid'[d] = p /\ state'[d] # "free"
    BY DEF VforkChild, Live
  <2>1. p # cur /\ p # z /\ Live(p) /\ pc'[p] = pc[p]
    BY <1>1 DEF User, Live
  <2>2. PICK d \in Pids : pc[p] = Blocked("vfork", Arg(d)) /\ ppid[d] = p /\ state[d] # "free"
    BY <2>1 DEF WakeInv, VforkChild
  <2> QED
    BY <1>1, <2>1, <2>2
<1>5. VforkSleep'
  BY <1>1 DEF WakeInv, VforkSleep, User
<1>6. VforkHolder'
  <2> SUFFICES ASSUME NEW c \in Pids, vparent'[c] # 0
               PROVE  /\ state'[c] \in {"run", "sleep"} /\ ppid'[c] = vparent'[c]
                      /\ pc'[vparent'[c]] = Blocked("vfork", Arg(c))
    BY DEF VforkHolder, Live
  <2>1. vparent'[c] = vparent[c] /\ vparent[c] # cur
    BY <1>1, NotHeld
  <2>2. Live(c) /\ ppid[c] = vparent[c] /\ pc[vparent[c]] = Blocked("vfork", Arg(c))
    BY <2>1 DEF WakeInv, VforkHolder
  <2>3. c # z /\ c # 1
    BY <1>1, <2>1, <2>2 DEF WakeInv, Live
  <2>4. vparent[c] # z
    BY <1>1, <2>2, <2>3 DEF ParentLive, Live
  <2> QED
    BY <1>1, <2>1, <2>2, <2>3, <2>4 DEF Live
<1>7. vparent'[1] = 0
  BY <1>1 DEF WakeInv
<1>8. \A p \in Pids : state'[p] = "sleep" => Kept(p)
  BY <1>1, <1>2
<1>9. WaitSleep'
  BY <1>8 DEF Kept, WakeInv, WaitSleep
<1>10. NoMissedChild'
  <2>1. \A p \in Pids : \A a : AwaitedBy(p, a)' \subseteq AwaitedBy(p, a)
    BY <1>1 DEF AwaitedBy
  <2>2. \A p \in Pids : MissesChild(p)' => Kept(p)
    BY <1>8 DEF MissesChild
  <2>3. \A p \in Pids : MissesChild(p)' => MissesChild(p)
    BY <2>1, <2>2 DEF Kept, MissesChild
  <2> QED
    BY <2>3 DEF WakeInv, NoMissedChild
<1> QED
  BY <1>4, <1>5, <1>6, <1>7, <1>9, <1>10 DEF WakeInv

\* At the start no one sleeps.
LEMMA WakeInit == Init => WakeInv
<1> SUFFICES ASSUME Init PROVE WakeInv
  OBVIOUS
<1>1. TypeOK
  BY TypeInit
<1>2. \A p \in Pids : pc[p] = User /\ vparent[p] = 0
  BY DEF Init
<1>3. VforkChild /\ VforkSleep /\ WaitSleep /\ NoMissedChild
  BY <1>2 DEF VforkChild, VforkSleep, WaitSleep, NoMissedChild, MissesChild, User
<1>4. VforkHolder /\ vparent[1] = 0
  BY <1>2, MaxPidAssumption DEF VforkHolder, Pids
<1> QED
  BY <1>3, <1>4 DEF WakeInv

\* The calls that leave vfork_parent alone.
LEMMA VparentSame ==
  ASSUME \/ VForkResume \/ Exit \/ Wait4 \/ WaitNoHang \/ Wait4Resume \/ Pause \/ Sigsuspend
         \/ PauseResume \/ Nanosleep \/ Yield \/ Alarm \/ Kill \/ Setpgid \/ Sigaction
         \/ Sigprocmask \/ Sigreturn \/ Tick \/ Fault \/ CheckTimers \/ Schedule \/ Halted
         \/ InitExit \/ DeliverNothing \/ DeliverFatal \/ DeliverHandler
  PROVE  vparent' = vparent
BY DEF VForkResume, Exit, Wait4, WaitNoHang, Wait4Resume, Wait4Pass, Reap, Pause, Sigsuspend,
       PauseResume, Nanosleep, Yield, Alarm, Kill, Setpgid, Sigaction, Sigprocmask, Sigreturn,
       Tick, Fault, CheckTimers, Schedule, Halted, InitExit, DeliverNothing, DeliverFatal,
       DeliverHandler, treeVars, vars

\* Every step keeps the invariant on vfork and wait4.
LEMMA WakeStep ==
  ASSUME TreeInv, TypeOK', CallInv, WakeInv, [Next]_vars
  PROVE  WakeInv'
<1> USE DEF TreeInv
<1>1. CASE \/ Exit \/ Pause \/ Sigsuspend \/ PauseResume \/ Nanosleep \/ Yield \/ Alarm
           \/ Kill \/ Setpgid \/ Sigaction \/ Sigprocmask
  BY <1>1, OrdinaryCalls, QuietCalls, VparentSame, WakeOrdinary DEF Ordinary
<1>2. CASE \/ Tick \/ Fault \/ CheckTimers \/ Schedule \/ Halted \/ InitExit
           \/ DeliverNothing \/ DeliverFatal \/ DeliverHandler \/ Sigreturn
  BY <1>2, OrdinaryTraps, QuietCalls, QuietTraps, VparentSame, WakeOrdinary DEF Ordinary
<1>3. CASE VForkResume
  <2>1. PICK c \in Pids : pc[cur] = Blocked("vfork", Arg(c))
    BY <1>3 DEF VForkResume, Resumed, CurRuns, WakeInv, VforkChild, Live, TypeOK, SchedTypeOK
  <2> QED
    BY <1>3, <2>1, OrdinaryLook, QuietCalls, VparentSame, WakeOrdinary DEF Ordinary
<1>4. CASE Wait4 \/ WaitNoHang \/ Wait4Resume
  <2>1. pc[cur].call # "vfork"
    BY <1>4, NotInVfork DEF Wait4, WaitNoHang, Wait4Resume, Calling, Resumed
  <2>2. Quiet \/ \E z \in Pids : Reaps(z) /\ Reap(z)
    BY <1>4, WaitReaps
  <2>3. (Others /\ Moves) \/ \E z \in Pids : Reaps(z) /\ Reap(z)
    BY <1>4, OrdinaryWaits
  <2>4. CASE \E z \in Pids : Reaps(z) /\ Reap(z)
    BY <2>1, <2>4, WakeReaps
  <2>5. CASE Quiet /\ Others /\ Moves
    BY <1>4, <2>5, VparentSame, WakeOrdinary DEF Ordinary
  <2> QED
    BY <2>2, <2>3, <2>4, <2>5
<1>5. CASE Exec
  BY <1>5, ExecReleases, QuietCalls, WakeExec
<1>6. CASE Fork \/ VFork
  BY <1>6, ForkForks, WakeForks
<1>7. CASE DoExit
  BY <1>7, ExitLeaves, WakeLeaves
<1>8. CASE UNCHANGED vars
  BY <1>8 DEF vars, schedVars, treeVars, WakeInv, VforkChild, VforkSleep, VforkHolder,
     WaitSleep, NoMissedChild, MissesChild, AwaitedBy, Live
<1> QED
  BY <1>1, <1>2, <1>3, <1>4, <1>5, <1>6, <1>7, <1>8 DEF Next, SystemCall

(* ---- no one sleeps through a signal ---- *)

\* A sleeper slept before with all that is pending for it now under the same
\* mask, or it can hear no signal.
Heard(p) ==
  \/ /\ state[p] = "sleep" /\ pc'[p] = pc[p]
     /\ sigmask'[p] = sigmask[p] /\ sigpend'[p] \subseteq sigpend[p]
  \/ sigpend'[p] \ (sigmask'[p] \ {KILL}) = {}
  \/ pc'[p].call = "vfork"

\* If every sleeper of the next state is Heard, none sleeps through a signal.
LEMMA HeardKeeps ==
  ASSUME NoSleepThroughSignal, \A p \in Pids : state'[p] = "sleep" => Heard(p)
  PROVE  NoSleepThroughSignal'
BY DEF NoSleepThroughSignal, Heard, Deliverable

\* send_signal: whoever is still asleep can hear nothing new.
LEMMA SentHeard ==
  ASSUME TypeOK, NoSleepThroughSignal, NEW st \in [Pids -> States], NEW S, NEW s,
         \A p \in Pids : st[p] = "sleep" => state[p] = "sleep",
         sigpend' = Pended(st, S, s), sigmask' = sigmask,
         NEW p \in Pids, Roused(st, S, s)[p] = "sleep", pc'[p] = pc[p]
  PROVE  Heard(p)
<1> USE DEF TypeOK, SchedTypeOK, SigTypeOK, States
<1>1. st[p] = "sleep" /\ state[p] = "sleep"
  BY DEF Roused
<1>2. CASE p \in S /\ Accepts(st, p, s)
  <2>1. s # KILL /\ (sigpend[p] \cup {s}) \ sigmask[p] = {}
    BY <1>1, <1>2 DEF Roused
  <2>2. sigpend'[p] = sigpend[p] \cup {s}
    BY <1>2 DEF Pended
  <2>3. KILL \notin sigmask[p]
    OBVIOUS
  <2> QED
    BY <2>1, <2>2, <2>3 DEF Heard
<1>3. CASE ~(p \in S /\ Accepts(st, p, s))
  <2>1. sigpend'[p] = sigpend[p]
    BY <1>3 DEF Pended
  <2> QED
    BY <1>1, <2>1 DEF Heard
<1> QED
  BY <1>2, <1>3

\* A step that puts no one to sleep, and does to no sleeper a thing that
\* could let it hear a signal.
Silent ==
  \A p \in Pids : state'[p] = "sleep" =>
    /\ state[p] = "sleep" /\ pc'[p] = pc[p]
    /\ sigmask'[p] = sigmask[p] /\ sigpend'[p] \subseteq sigpend[p]

\* The sleepers of a silent step are Heard.
LEMMA SilentHeard ==
  ASSUME Silent, NEW p \in Pids, state'[p] = "sleep"
  PROVE  Heard(p)
BY DEF Silent, Heard

\* The ways a call leaves the CPU without a signal sent or a mask changed
\* under a sleeper.
LEMMA SleepHeard ==
  ASSUME TypeOK, state[cur] = "run"
  PROVE  /\ ReturnOnly \/ (\E st : GoExit(st)) \/ (\E c, a : Restart(c, a) \/ YieldIn(c, a)) =>
              \A p \in Pids : /\ state'[p] = "sleep" => state[p] = "sleep" /\ p # cur
                              /\ p # cur => pc'[p] = pc[p]
         /\ \A q, c, a : SleepOn(ProcChan(q), c, a) =>
              \A p \in Pids : /\ state'[p] = "sleep" /\ p # cur => state[p] = "sleep"
                              /\ p # cur => pc'[p] = pc[p]
BY DEF ReturnOnly, Return, GoExit, Restart, YieldIn, SleepOn, TypeOK, SchedTypeOK

\* The calls that put the process to sleep look at the pending signals first,
\* under the mask they sleep with; vfork alone does not.
LEMMA WaitsHeard ==
  ASSUME TypeOK, CurRuns, NoSleepThroughSignal,
         \/ VForkResume \/ Wait4 \/ WaitNoHang \/ Wait4Resume \/ Pause \/ Sigsuspend \/ PauseResume,
         VForkResume => pc'[cur].call = "vfork" \/ state'[cur] = "run"
  PROVE  \A p \in Pids : state'[p] = "sleep" => Heard(p)
<1> USE DEF TypeOK, SchedTypeOK, SigTypeOK
<1>1. state[cur] = "run"
  BY DEF VForkResume, Wait4, WaitNoHang, Wait4Resume, Pause, Sigsuspend, PauseResume, Calling,
     Resumed, CurRuns
<1>2. ASSUME UNCHANGED <<sigpend, sigmask>>, NEW q, NEW c, NEW a, SleepOn(ProcChan(q), c, a),
             c = "vfork" \/ Deliverable(cur, sigmask[cur]) = {}
      PROVE  \A p \in Pids : state'[p] = "sleep" => Heard(p)
  BY <1>1, <1>2, SleepHeard DEF SleepOn, Blocked, Heard, Deliverable
<1>3. ASSUME \A p \in Pids \ {cur} : sigmask'[p] = sigmask[p], sigpend' = sigpend,
             ReturnOnly \/ (\E st : GoExit(st)) \/ (\E c, a : Restart(c, a) \/ YieldIn(c, a))
      PROVE  Silent
  BY <1>1, <1>3, SleepHeard DEF Silent
<1>4. CASE VForkResume
  BY <1>2, <1>3, <1>4, SilentHeard DEF VForkResume, sigVars
<1>5. ASSUME NEW a, NEW nohang, Wait4Pass(a, nohang)
      PROVE  \A p \in Pids : state'[p] = "sleep" => Heard(p)
  <2>1. ASSUME NEW z \in ZombiesOf(a), Reap(z)
        PROVE  Silent
    BY <1>1, <2>1 DEF ZombiesOf, Waited, Children, Reap, Silent
  <2>2. UNCHANGED sigVars => UNCHANGED <<sigpend, sigmask>>
    BY DEF sigVars
  <2> QED
    BY <1>2, <1>3, <1>5, <2>1, <2>2, SilentHeard DEF Wait4Pass, SignalPending
<1>6. CASE Wait4 \/ WaitNoHang \/ Wait4Resume
  BY <1>5, <1>6 DEF Wait4, WaitNoHang, Wait4Resume
<1>7. CASE Pause \/ PauseResume
  <2>1. PICK c : PauseLoop(c, sigmask[cur])
    BY <1>7 DEF Pause, PauseResume
  <2>2. UNCHANGED <<sigpend, sigmask>>
    BY <1>7 DEF Pause, PauseResume, sigVars
  <2> QED
    BY <1>2, <1>3, <2>1, <2>2, SilentHeard DEF PauseLoop
<1>8. CASE Sigsuspend
  <2>1. PICK m \in Masks : /\ sigmask' = [sigmask EXCEPT ![cur] = m \ Unmaskable]
                           /\ PauseLoop("sigsuspend", m \ Unmaskable) /\ sigpend' = sigpend
    BY <1>8 DEF Sigsuspend
  <2>2. CASE ReturnOnly
    BY <1>3, <2>1, <2>2, SilentHeard
  <2>3. CASE Deliverable(cur, m \ Unmaskable) = {} /\ SleepOn(ProcChan(cur), "sigsuspend", NoArg)
    BY <1>1, <2>1, <2>3, SleepHeard DEF Heard, Deliverable
  <2> QED
    BY <2>1, <2>2, <2>3 DEF PauseLoop
<1> QED
  BY <1>4, <1>6, <1>7, <1>8

\* What the running process does to its own mask, signals and course is
\* silent, whoever it wakes.
LEMMA SilentRun ==
  ASSUME TypeOK, state[cur] = "run", Wakes(state, state'),
         \E x : pc' = pc \/ pc' = [pc EXCEPT ![cur] = x],
         \E m : sigmask' = sigmask \/ sigmask' = [sigmask EXCEPT ![cur] = m],
         \E s : sigpend' = sigpend \/ sigpend' = [sigpend EXCEPT ![cur] = s]
  PROVE  Silent
BY DEF Silent, Wakes, TypeOK, SchedTypeOK, SigTypeOK

\* The calls that send no signal are silent.
LEMMA SilentCalls ==
  ASSUME TypeOK, CurRuns,
         \/ Fork \/ Exec \/ Exit \/ Nanosleep \/ Yield \/ Alarm \/ Setpgid \/ Sigaction
         \/ Sigprocmask \/ Sigreturn
  PROVE  Silent
<1> USE DEF TypeOK, SchedTypeOK
<1>1. state[cur] = "run"
  BY DEF Fork, Exec, ExecWith, Exit, Nanosleep, Yield, Alarm, Setpgid, Sigaction, Sigprocmask,
     Sigreturn, Calling, Resumed, CurRuns
<1>2. UNCHANGED state => Wakes(state, state')
  BY DEF Wakes, States
<1>3. CASE Fork
  BY <1>1, <1>3 DEF Fork, NewChild, Return, Silent, SigTypeOK
<1>4. CASE Exec
  BY <1>1, <1>4, SilentRun, ReleasedWakes DEF Exec, ExecWith, Return, States
<1>5. CASE Exit \/ Alarm \/ Setpgid
  BY <1>1, <1>2, <1>5, SilentRun DEF Exit, Alarm, Setpgid, GoExit, ReturnOnly, Return, sigVars
<1>6. CASE Nanosleep \/ Yield
  BY <1>1, <1>2, <1>6, SilentRun DEF Nanosleep, Yield, YieldIn, ReturnOnly, Return, sigVars
<1>7. CASE Sigaction
  <2>1. \E s : sigpend' = sigpend \/ sigpend' = [sigpend EXCEPT ![cur] = s]
    <3>1. PICK s \in ActSigs \ Unmaskable, act \in Acts :
             sigpend' = IF \/ act.handler = "ign"
                           \/ act.handler = "dfl" /\ s \in IgnoredByDefault
                        THEN [sigpend EXCEPT ![cur] = @ \ {s}] ELSE sigpend
      BY <1>7 DEF Sigaction
    <3> QED
      BY <3>1
  <2> QED
    BY <1>1, <1>2, <1>7, <2>1, SilentRun DEF Sigaction, ReturnOnly, Return
<1>8. CASE Sigprocmask
  <2>1. /\ \E m : sigmask' = [sigmask EXCEPT ![cur] = m]
        /\ sigpend' = sigpend /\ ReturnOnly
    BY <1>8 DEF Sigprocmask
  <2> QED
    BY <1>1, <1>2, <2>1, SilentRun DEF ReturnOnly, Return
<1>9. CASE Sigreturn
  <2>1. /\ \E m : sigmask' = [sigmask EXCEPT ![cur] = m]
        /\ \E x : pc' = [pc EXCEPT ![cur] = x]
        /\ sigpend' = sigpend /\ state' = state
    BY <1>9 DEF Sigreturn
  <2> QED
    BY <1>1, <1>2, <2>1, SilentRun
<1> QED
  BY <1>3, <1>4, <1>5, <1>6, <1>7, <1>8, <1>9

\* The traps, the deliveries and the scheduler are silent.
LEMMA SilentTraps ==
  ASSUME TypeOK, CurRuns,
         \/ Tick \/ Fault \/ Schedule \/ Halted \/ InitExit
         \/ DeliverNothing \/ DeliverFatal \/ DeliverHandler
  PROVE  Silent
<1> USE DEF TypeOK, SchedTypeOK
<1>1. UNCHANGED <<state, pc, sigmask, sigpend>> => Silent
  BY DEF Silent
<1>2. UNCHANGED state => Wakes(state, state')
  BY DEF Wakes, States
<1>3. CASE Tick \/ InitExit \/ Halted
  BY <1>1, <1>3 DEF Tick, InitExit, Halted, vars, schedVars, sigVars
<1>4. CASE Schedule
  BY <1>1, <1>4 DEF Schedule, SchedulePass, SwitchTo, sigVars
<1>5. CASE Fault
  <2>1. state[cur] = "run"
    BY <1>5 DEF Fault, CurRuns
  <2>2. /\ \E s : sigpend' = sigpend \/ sigpend' = [sigpend EXCEPT ![cur] = s]
        /\ \E x : pc' = pc \/ pc' = [pc EXCEPT ![cur] = x]
        /\ sigmask' = sigmask /\ state' = state
    BY <1>5 DEF Fault, GoExit
  <2> QED
    BY <1>2, <2>1, <2>2, SilentRun
<1>6. CASE DeliverNothing \/ DeliverFatal \/ DeliverHandler
  <2>1. state[cur] = "run"
    BY <1>6 DEF DeliverNothing, DeliverFatal, DeliverHandler, Delivering, CurRuns
  <2>2. \E s : sigpend' = sigpend \/ sigpend' = [sigpend EXCEPT ![cur] = s]
    BY <1>6 DEF DeliverNothing, DeliverFatal, DeliverHandler
  <2>3. \E x : pc' = pc \/ pc' = [pc EXCEPT ![cur] = x]
    BY <1>6 DEF DeliverNothing, DeliverFatal, DeliverHandler, GoExit
  <2>4. \E m : sigmask' = sigmask \/ sigmask' = [sigmask EXCEPT ![cur] = m]
    BY <1>6 DEF DeliverNothing, DeliverFatal, DeliverHandler, Unsuspend
  <2>5. state' = state
    BY <1>6 DEF DeliverNothing, DeliverFatal, DeliverHandler, GoExit
  <2> QED
    BY <1>2, <2>1, <2>2, <2>3, <2>4, <2>5, SilentRun
<1> QED
  BY <1>3, <1>4, <1>5, <1>6

\* The SIGCHLD of an exit, whatever its closing of files has woken.
LEMMA EndHeard ==
  ASSUME TypeOK, NoSleepThroughSignal, NEW st0, Wakes(state, st0), ExitWith(st0),
         NEW p \in Pids, state'[p] = "sleep"
  PROVE  Heard(p)
<1> USE DEF TypeOK, SchedTypeOK
<1> DEFINE st2 == [WokenByOrphans(ReleasedState(st0)) EXCEPT ![cur] = "zombie"]
<1>1. /\ sigpend' = Pended(st2, Parents, CHLD)
      /\ state' = WokenParents(Roused(st2, Parents, CHLD))
      /\ pc' = pc /\ sigmask' = sigmask
  BY DEF ExitWith
<1>2. Wakes(st0, ReleasedState(st0))
  BY ReleasedWakes DEF Wakes
<1>3. Wakes(ReleasedState(st0), WokenByOrphans(ReleasedState(st0)))
  BY <1>2, OrphansWakes DEF Wakes
<1>4. st2 \in [Pids -> States] /\ \A q \in Pids : st2[q] = "sleep" => state[q] = "sleep"
  BY <1>2, <1>3 DEF Wakes, States
<1> HIDE DEF st2
<1>5. Wakes(st2, Roused(st2, Parents, CHLD))
  BY <1>4, RousedWakes
<1>6. Roused(st2, Parents, CHLD)[p] = "sleep"
  BY <1>1, <1>5, ParentsWakes DEF Wakes
<1> QED
  BY <1>1, <1>4, <1>6, SentHeard

\* kill, the alarms and the SIGCHLD of an exit.
LEMMA SendHeard ==
  ASSUME TypeOK, CurRuns, NoSleepThroughSignal, Kill \/ CheckTimers \/ DoExit
  PROVE  \A p \in Pids : state'[p] = "sleep" => Heard(p)
<1> USE DEF TypeOK, SchedTypeOK
<1> SUFFICES ASSUME NEW p \in Pids, state'[p] = "sleep" PROVE Heard(p)
  OBVIOUS
<1>1. CASE Kill
  <2>1. PICK k \in KillPids, s \in KillSigs :
          /\ sigpend' = Pended(state, KillTargets(k), s)
          /\ state' = Roused(state, KillTargets(k), s)
          /\ Return /\ sigmask' = sigmask
    BY <1>1 DEF Kill
  <2>2. state[cur] = "run"
    BY <1>1 DEF Kill, Calling, CurRuns
  <2>3. Wakes(state, state')
    BY <2>1, RousedWakes DEF States
  <2>4. pc'[p] = pc[p]
    BY <2>1, <2>2, <2>3 DEF Return, Wakes
  <2> QED
    BY <2>1, <2>4, SentHeard DEF States
<1>2. CASE CheckTimers
  <2>1. PICK due \in SUBSET ArmedTimers :
          sigpend' = Pended(state, due, ALRM) /\ state' = Roused(state, due, ALRM)
    BY <1>2 DEF CheckTimers
  <2>2. pc' = pc /\ sigmask' = sigmask
    BY <1>2 DEF CheckTimers
  <2> QED
    BY <2>1, <2>2, SentHeard DEF States
<1>3. CASE DoExit
  BY <1>3, NoneWakes, EndHeard DEF DoExit, States
<1> QED
  BY <1>1, <1>2, <1>3

\* The vfork parent goes to sleep whatever is pending for it.
LEMMA VForkHeard ==
  ASSUME TypeOK, CurRuns, VFork
  PROVE  \A p \in Pids : state'[p] = "sleep" => Heard(p)
<1> USE DEF TypeOK, SchedTypeOK
<1>1. PICK c \in Pids : /\ state' = [state EXCEPT ![c] = "run", ![cur] = "sleep"]
                        /\ pc' = [pc EXCEPT ![cur] = Blocked("vfork", Arg(c))]
                        /\ sigmask' = [sigmask EXCEPT ![c] = sigmask[cur]] /\ sigpend' = sigpend
  BY DEF VFork, NewChild
<1> QED
  BY <1>1 DEF Heard, Blocked, SigTypeOK

\* No step puts a process to sleep before a signal it can hear.
LEMMA HeardStep ==
  ASSUME TypeOK, CurRuns, NoSleepThroughSignal, Next
  PROVE  NoSleepThroughSignal'
<1>1. VForkResume => pc'[cur].call = "vfork" \/ state'[cur] = "run"
  BY DEF VForkResume, Resumed, CurRuns, ReturnOnly, SleepOn, Blocked, TypeOK, SchedTypeOK
<1> QED
  BY <1>1, HeardKeeps, SilentHeard, WaitsHeard, SilentCalls, SilentTraps, SendHeard, VForkHeard
     DEF Next, SystemCall

(* ---- the theorems ---- *)

WakeAll == TreeInv /\ CallInv /\ WakeInv /\ NoSleepThroughSignal

\* The whole invariant holds in every run.
THEOREM WakeInvariant == Spec => []WakeAll
<1>1. Init => WakeAll
  <2> SUFFICES ASSUME Init PROVE NoSleepThroughSignal
    BY TreeInit, CallInit, WakeInit DEF WakeAll
  <2> QED
    BY DEF Init, NoSleepThroughSignal, Deliverable
<1>2. WakeAll /\ [Next]_vars => WakeAll'
  <2> SUFFICES ASSUME WakeAll, [Next]_vars PROVE WakeAll'
    OBVIOUS
  <2>1. TreeInv /\ TypeOK /\ CurRuns /\ CallInv /\ WakeInv /\ NoSleepThroughSignal
    BY DEF WakeAll, TreeInv
  <2>2. TreeInv' /\ TypeOK'
    BY <2>1, TreeStep DEF TreeInv
  <2>3. CallInv' /\ WakeInv'
    BY <2>1, <2>2, CallStep, WakeStep
  <2>4. NoSleepThroughSignal'
    BY <2>1, HeardStep DEF vars, schedVars, sigVars, NoSleepThroughSignal, Deliverable
  <2> QED
    BY <2>2, <2>3, <2>4 DEF WakeAll
<1> QED
  BY <1>1, <1>2, PTL DEF Spec

\* do_fork's while (c->vfork_parent == cur): in every run the child a vfork
\* parent is blocked on is still in procs, and the parent never sleeps there
\* once the child has released it.
THEOREM VforkAlwaysHeld == Spec => []VforkHeld
<1>1. WakeAll => VforkHeld
  <2> SUFFICES ASSUME WakeAll, NEW p \in Pids, Live(p), pc[p].call = "vfork"
               PROVE  /\ state[pc[p].arg[1]] # "free"
                      /\ state[p] = "sleep" => vparent[pc[p].arg[1]] = p
    BY DEF VforkHeld, Live
  <2>1. PICK c \in Pids : pc[p] = Blocked("vfork", Arg(c)) /\ state[c] # "free"
    BY DEF WakeAll, WakeInv, VforkChild
  <2> QED
    BY <2>1 DEF WakeAll, WakeInv, VforkSleep, Blocked, Arg
<1> QED
  BY <1>1, WakeInvariant, PTL

\* vfork_release comes before the end: in every run a child that still holds
\* its parent is alive and its parent waits for it in vfork.
THEOREM VforkAlwaysReleases == Spec => []VforkHolder
<1>1. WakeAll => VforkHolder
  BY DEF WakeAll, WakeInv
<1> QED
  BY <1>1, WakeInvariant, PTL

\* do_wait4: in every run no process but init sleeps in wait4 while a zombie
\* it waits for is there.
THEOREM NoChildEverMissed == Spec => []NoMissedChild
<1>1. WakeAll => NoMissedChild
  BY DEF WakeAll, WakeInv
<1> QED
  BY <1>1, WakeInvariant, PTL

\* send_signal: in every run no process but a vfork parent sleeps with a
\* signal pending that its mask, a wait's temporary one included, lets through.
THEOREM NoSignalSleptThrough == Spec => []NoSleepThroughSignal
<1>1. WakeAll => NoSleepThroughSignal
  BY DEF WakeAll
<1> QED
  BY <1>1, WakeInvariant, PTL

(***************************************************************************)
(* The temporary mask of a wait ends with the wait, a process that dies is *)
(* out of every other call, and a call is made again only if it may.       *)
(***************************************************************************)

(* ---- where a process can be suspended or dying ---- *)

\* A process that has called do_exit is in it, or is a zombie.
Dying == \A p \in Pids : pc[p].at = "exit" =>
  state[p] = "zombie" \/ (p = cur /\ mode \in {"exit", "off"})

\* No signal frame was pushed by a process that dies.
FramesLive == \A p \in Pids : \A i \in 1..Len(frames[p]) : frames[p][i].saved.at # "exit"

\* A process under a wait's mask is in that wait, in its tail, or dead.
WaitMasks == \A p \in Pids : suspend[p] # {} =>
  pc[p].at \in {"blocked", "exit"} \/ (p = cur /\ mode = "ret")

\* A pid that is not in use waits for nothing.
FreeClean == \A p \in Pids : state[p] = "free" => suspend[p] = {}

\* A call about to be made again may be.
RestartAllowed == mode = "ret" /\ pc[cur].at = "redo" => RestartOK

SuspendInv == Dying /\ FramesLive /\ WaitMasks /\ FreeClean /\ RestartAllowed

\* The current process leaves the CPU to do_exit, to schedule() or to the tail
\* of its call.
Hands(x) ==
  /\ pc' = [pc EXCEPT ![cur] = x] /\ cur' = cur
  /\ \/ x.at = "blocked" /\ mode' = "sched"
     \/ x.at = "exit" /\ mode' = "exit"
     \/ x.at \in {"user", "redo"} /\ mode' = "ret"

\* Every way a call leaves the CPU is one of these.
LEMMA WaysHand ==
  /\ Return \/ ReturnOnly => Hands(User)
  /\ \A st : GoExit(st) => Hands(Exiting(st))
  /\ \A c, a : Restart(c, a) => Hands(Redo(c, a)) \/ Hands(User)
  /\ \A c, a : YieldIn(c, a) => Hands(Blocked(c, a))
  /\ \A ch, c, a : SleepOn(ch, c, a) => Hands(Blocked(c, a))
BY DEF Return, ReturnOnly, GoExit, Restart, YieldIn, SleepOn, Hands, User, Exiting, Redo, Blocked

\* How each call of a program, and each blocked call, leaves the CPU.
LEMMA CallsHand ==
  ASSUME TypeOK,
         \/ Fork \/ VFork \/ Exec \/ Exit \/ Wait4 \/ WaitNoHang \/ Pause \/ Sigsuspend
         \/ Alarm \/ Kill \/ Setpgid \/ Sigaction \/ Sigprocmask \/ Nanosleep \/ Yield
         \/ VForkResume \/ Wait4Resume \/ PauseResume
  PROVE  (\E x : Hands(x)) \/ \E z \in Pids : Reap(z)
<1>1. CASE Fork \/ Exec \/ Exit \/ Alarm \/ Kill \/ Setpgid \/ Sigaction \/ Sigprocmask
  BY <1>1, WaysHand DEF Fork, Exec, ExecWith, Exit, Alarm, Kill, Setpgid, Sigaction, Sigprocmask
<1>2. CASE VFork
  <2>1. PICK c \in Pids : /\ pc' = [pc EXCEPT ![cur] = Blocked("vfork", Arg(c))]
                          /\ mode' = "sched" /\ cur' = cur
    BY <1>2 DEF VFork
  <2>2. Hands(Blocked("vfork", Arg(c)))
    BY <2>1 DEF Hands, Blocked
  <2> QED
    BY <2>2
<1>3. CASE VForkResume
  BY <1>3, WaysHand DEF VForkResume
<1>4. ASSUME NEW a, NEW nohang, Wait4Pass(a, nohang)
      PROVE  (\E x : Hands(x)) \/ \E z \in Pids : Reap(z)
  BY <1>4, WaysHand DEF Wait4Pass, ZombiesOf, Waited, Children
<1>5. CASE Wait4 \/ WaitNoHang \/ Wait4Resume
  BY <1>4, <1>5 DEF Wait4, WaitNoHang, Wait4Resume
<1>6. CASE Pause \/ Sigsuspend \/ PauseResume
  BY <1>6, WaysHand DEF Pause, Sigsuspend, PauseResume, PauseLoop
<1>7. CASE Nanosleep \/ Yield
  BY <1>7, WaysHand DEF Nanosleep, Yield
<1> QED
  BY <1>1, <1>2, <1>3, <1>5, <1>6, <1>7

\* The masks of waits change for the running process only.
Alone == \A p \in Pids \ {cur} : suspend'[p] = suspend[p]
\* The dead stay dead.
DeadStay == \A p \in Pids : state[p] = "zombie" => state'[p] = "zombie"

\* A process that leaves the CPU in one of the ways is where it may be.
LEMMA HandsKeeps ==
  ASSUME TypeOK, Dying, WaitMasks, NEW x, Hands(x), DeadStay
  PROVE  /\ Dying'
         /\ Alone => WaitMasks'
<1> USE DEF TypeOK, SchedTypeOK
<1>1. /\ \A p \in Pids \ {cur} : pc'[p] = pc[p]
      /\ pc'[cur] = x /\ cur' = cur /\ cur \in Pids
  BY DEF Hands
<1>2. Dying'
  BY <1>1 DEF Dying, Hands, DeadStay
<1>3. Alone => WaitMasks'
  BY <1>1 DEF WaitMasks, Hands, Alone
<1> QED
  BY <1>2, <1>3

\* The masks of waits after each step.
LEMMA SuspendSame ==
  ASSUME TypeOK,
         \/ Fork \/ VFork \/ Exec \/ Exit \/ Pause \/ Alarm \/ Kill \/ Setpgid \/ Sigaction
         \/ Sigprocmask \/ Nanosleep \/ Yield \/ VForkResume \/ PauseResume \/ Tick
         \/ Fault \/ CheckTimers \/ DeliverFatal \/ InitExit \/ DoExit \/ Schedule
         \/ Halted \/ Sigreturn
  PROVE  suspend' = suspend
BY DEF Fork, VFork, NewChild, Exec, ExecWith, Exit, Pause, Alarm, Kill, Setpgid, Sigaction,
       Sigprocmask, Nanosleep, Yield, VForkResume, PauseResume, Tick, Fault, CheckTimers,
       DeliverFatal, InitExit, DoExit, ExitWith, Schedule, Halted, Sigreturn, sigVars, vars

\* Where the running process can be when it is in user code, in a trap or on
\* its way back to user code.
LEMMA NotWaiting ==
  ASSUME TypeOK, CurRuns, CallInv, Dying, WaitMasks,
         mode \in {"user", "entry", "ret", "tick", "fault", "sigret"}
  PROVE  /\ pc[cur].at \notin {"blocked", "exit"}
         /\ mode # "ret" => suspend[cur] = {}
<1> USE DEF TypeOK, SchedTypeOK
<1>1. state[cur] = "run" /\ pc[cur].at # "blocked"
  BY DEF CurRuns, CallInv, OutOfCall
<1>2. pc[cur].at # "exit"
  BY <1>1 DEF Dying
<1> QED
  BY <1>1, <1>2 DEF WaitMasks

\* Traps, the tails of calls, exits and the scheduler.
LEMMA SuspendTraps ==
  ASSUME TypeOK, CurRuns, CallInv, SuspendInv, DeadStay,
         \/ Tick \/ Fault \/ CheckTimers \/ Schedule \/ Halted \/ InitExit
         \/ DeliverNothing \/ DeliverFatal \/ DeliverHandler \/ Sigreturn
  PROVE  Dying' /\ WaitMasks'
<1> USE DEF TypeOK, SchedTypeOK, SuspendInv
<1>1. ASSUME NEW st, GoExit(st), suspend' = suspend PROVE Dying' /\ WaitMasks'
  BY <1>1, WaysHand, HandsKeeps DEF Alone
<1>2. ASSUME UNCHANGED <<pc, cur, suspend>>, mode = "ret" => suspend[cur] = {},
             mode \in {"exit", "off"} => mode' \in {"exit", "off"}
      PROVE  Dying' /\ WaitMasks'
  BY <1>2 DEF Dying, WaitMasks, DeadStay
<1>3. ASSUME mode \in {"user", "entry", "ret", "tick", "fault", "sigret"}, cur' = cur,
             suspend' = [suspend EXCEPT ![cur] = {}], 
             NEW x, pc' = [pc EXCEPT ![cur] = x], x.at # "exit"
      PROVE  Dying' /\ WaitMasks'
  BY <1>3 DEF Dying, WaitMasks, DeadStay, SigTypeOK
<1>4. CASE Tick
  BY <1>2, <1>4, SuspendSame DEF Tick
<1>5. CASE Fault
  BY <1>1, <1>2, <1>5, SuspendSame DEF Fault
<1>6. CASE CheckTimers
  BY <1>2, <1>6, SuspendSame DEF CheckTimers
<1>7. CASE Schedule
  <2>1. suspend' = suspend /\ pc' = pc /\ mode = "sched"
    BY <1>7, SuspendSame DEF Schedule, SchedulePass, SwitchTo
  <2> QED
    BY <2>1 DEF Dying, WaitMasks, DeadStay
<1>8. CASE Halted
  <2>1. UNCHANGED <<pc, cur, suspend, mode>> /\ mode # "ret"
    BY <1>8 DEF Halted, vars, schedVars, sigVars
  <2> QED
    BY <1>2, <2>1
<1>9. CASE InitExit
  BY <1>2, <1>9, SuspendSame DEF InitExit
<1>10. CASE DeliverNothing
  <2>1. mode \in {"ret", "tick", "fault", "sigret"}
    BY <1>10 DEF DeliverNothing, Delivering
  <2>2. CASE mode = "fault"
    BY <1>1, <1>10, <2>2 DEF DeliverNothing
  <2>3. CASE mode = "ret"
    <3>1. pc[cur].at # "exit" /\ pc' = [pc EXCEPT ![cur] = pc[cur]]
      BY <1>10, <2>3, NotWaiting DEF DeliverNothing
    <3>2. suspend' = [suspend EXCEPT ![cur] = {}] /\ cur' = cur
      BY <1>10, <2>3 DEF DeliverNothing, Unsuspend
    <3> QED
      BY <1>3, <2>1, <3>1, <3>2
  <2>4. CASE mode \in {"tick", "sigret"}
    BY <1>2, <1>10, <2>4 DEF DeliverNothing
  <2> QED
    BY <2>1, <2>2, <2>3, <2>4
<1>11. CASE DeliverFatal
  BY <1>1, <1>11, SuspendSame DEF DeliverFatal
<1>12. CASE DeliverHandler
  <2>1. mode \in {"ret", "tick", "fault", "sigret"}
    BY <1>12 DEF DeliverHandler, Delivering
  <2>2. \/ GoExit(SEGV) /\ suspend' = suspend
        \/ /\ suspend' = [suspend EXCEPT ![cur] = {}]
           /\ pc' = [pc EXCEPT ![cur] = User] /\ cur' = cur
    BY <1>12 DEF DeliverHandler
  <2>3. User.at # "exit"
    BY DEF User
  <2> QED
    BY <1>1, <1>3, <2>1, <2>2, <2>3
<1>13. CASE Sigreturn
  <2>1. mode \in {"user", "entry"} /\ frames[cur] # <<>> /\ frames[cur] \in Seq(Frames)
    BY <1>13 DEF Sigreturn, SigTypeOK
  <2>2. frames[cur][1].saved.at # "exit"
    BY <2>1 DEF FramesLive
  <2>3. suspend' = suspend /\ suspend[cur] = {}
    BY <1>13, <2>1, SuspendSame, NotWaiting
  <2>4. suspend' = [suspend EXCEPT ![cur] = {}]
    BY <2>3 DEF SigTypeOK
  <2>5. pc' = [pc EXCEPT ![cur] = frames[cur][1].saved] /\ cur' = cur
    BY <1>13 DEF Sigreturn
  <2> QED
    BY <1>3, <2>1, <2>2, <2>4, <2>5
<1> QED
  BY <1>4, <1>5, <1>6, <1>7, <1>8, <1>9, <1>10, <1>11, <1>12, <1>13

\* No process comes back from the dead, and none leaves the list, but by wait4.
LEMMA DeadAndFree ==
  ASSUME TreeInv, Next
  PROVE  \/ /\ DeadStay
            /\ \A p \in Pids : state'[p] = "free" => state[p] = "free"
            /\ state[cur] # "free" => state'[cur] # "free"
         \/ \E z \in Pids : Reaps(z)
<1> USE DEF TreeInv, TypeOK, SchedTypeOK, DeadStay
<1>1. CASE Quiet
  BY <1>1 DEF Quiet, Live
<1>2. ASSUME NEW c \in Pids, Bears(c)
      PROVE  /\ DeadStay
             /\ \A p \in Pids : state'[p] = "free" => state[p] = "free"
             /\ state[cur] # "free" => state'[cur] # "free"
  <2>1. state[c] = "free" /\ state'[c] = "run"
    BY <1>2 DEF Bears, Fresh, TreeTypeOK, Pids
  <2> QED
    BY <1>2, <2>1 DEF Bears
<1>3. CASE Ends
  BY <1>3 DEF Ends
<1> QED
  BY <1>1, <1>2, <1>3, StepKinds

\* Only wait4 reaps.
LEMMA WhoReaps ==
  ASSUME TreeInv, Next, NEW z \in Pids, Reaps(z)
  PROVE  Wait4 \/ WaitNoHang \/ Wait4Resume
<1> USE DEF TreeInv, TypeOK, SchedTypeOK
<1>1. state[z] = "zombie" /\ state'[z] = "free" /\ z # cur
  BY DEF Reaps
<1>2. ~Quiet
  BY <1>1 DEF Quiet, Live
<1>3. ~Ends
  BY <1>1 DEF Ends
<1>4. \A c \in Pids : ~Bears(c)
  <2> SUFFICES ASSUME NEW c \in Pids, Bears(c) PROVE FALSE
    OBVIOUS
  <2>1. state'[c] = "run" /\ \A p \in Pids \ {c} : state'[p] = state[p] \/ (p = cur /\ state'[p] = "sleep")
    BY DEF Bears
  <2> QED
    BY <1>1, <2>1
<1>5. ~(Fork \/ VFork)
  BY <1>4, ForkBears
<1>6. ~DoExit
  BY <1>3, ExitEnds
<1> QED
  BY <1>2, <1>5, <1>6, QuietCalls, QuietTraps DEF Next, SystemCall

\* Only the running process's suspension changes, but for one that is reaped.
LEMMA SuspendAlone ==
  ASSUME TypeOK, Next, ~(Wait4 \/ WaitNoHang \/ Wait4Resume)
  PROVE  Alone
<1> USE DEF TypeOK, SigTypeOK, Alone
<1>1. CASE Sigsuspend
  BY <1>1 DEF Sigsuspend
<1>2. CASE DeliverNothing
  BY <1>2 DEF DeliverNothing, Unsuspend
<1>3. CASE DeliverHandler
  BY <1>3 DEF DeliverHandler
<1>4. CASE suspend' = suspend
  BY <1>4
<1> QED
  BY <1>1, <1>2, <1>3, <1>4, SuspendSame DEF Next, SystemCall

\* wait4 takes the suspension of the one it reaps.
LEMMA WaitSuspends ==
  ASSUME TypeOK, CurRuns, Wait4 \/ WaitNoHang \/ Wait4Resume
  PROVE  \/ /\ suspend' = suspend /\ \E x : Hands(x)
            /\ state' = state \/ state' = [state EXCEPT ![cur] = "sleep"]
         \/ \E z \in Pids : Reaps(z) /\ Reap(z)
<1> USE DEF TypeOK, SchedTypeOK
<1>1. PICK a, nohang : Wait4Pass(a, nohang)
  BY DEF Wait4, WaitNoHang, Wait4Resume
<1>2. state[cur] = "run" /\ cur \in Pids
  BY DEF Wait4, WaitNoHang, Wait4Resume, Calling, Resumed, CurRuns
<1>3. ASSUME NEW z \in ZombiesOf(a), Reap(z)
      PROVE  z \in Pids /\ Reaps(z) /\ Reap(z)
  BY <1>2, <1>3 DEF ZombiesOf, Waited, Children, Reap, Reaps
<1>4. UNCHANGED sigVars => suspend' = suspend
  BY DEF sigVars
<1>5. /\ ReturnOnly => state' = state
      /\ \A st : GoExit(st) => state' = state
      /\ \A c, x : Restart(c, x) => state' = state
      /\ \A ch, c, x : SleepOn(ch, c, x) => state' = [state EXCEPT ![cur] = "sleep"]
  BY DEF ReturnOnly, GoExit, Restart, SleepOn
<1> QED
  BY <1>1, <1>3, <1>4, <1>5, WaysHand DEF Wait4Pass

\* No process is suspended outside a wait, and no death is undone.
LEMMA SuspendKept ==
  ASSUME TreeInv, CallInv, SuspendInv, Next
  PROVE  Dying' /\ WaitMasks' /\ FreeClean'
<1>1. TypeOK /\ CurRuns /\ Dying /\ WaitMasks /\ FreeClean
  BY DEF TreeInv, SuspendInv
<1>0. /\ cur \in Pids /\ state \in [Pids -> States] /\ pc \in [Pids -> PCs]
      /\ suspend \in [Pids -> SUBSET SUBSET (Sigs \ {KILL, STOP})]
  BY <1>1 DEF TypeOK, SchedTypeOK, SigTypeOK, States
<1>2. CASE Wait4 \/ WaitNoHang \/ Wait4Resume
  <2>1. CASE /\ suspend' = suspend /\ \E x : Hands(x)
             /\ state' = state \/ state' = [state EXCEPT ![cur] = "sleep"]
    <3>1. cur \in Pids /\ state[cur] = "run"
      BY <1>0, <1>1, <1>2 DEF Wait4, WaitNoHang, Wait4Resume, Calling, Resumed, CurRuns
    <3>2. DeadStay /\ Alone
      BY <1>0, <1>1, <2>1, <3>1 DEF DeadStay, Alone
    <3>3. FreeClean'
      BY <1>0, <1>1, <2>1, <3>1 DEF FreeClean
    <3> QED
      BY <1>1, <2>1, <3>2, <3>3, HandsKeeps
  <2>2. ASSUME NEW z \in Pids, Reaps(z), Reap(z)
        PROVE  Dying' /\ WaitMasks' /\ FreeClean'
    <3>1. /\ suspend' = [suspend EXCEPT ![z] = {}] /\ state' = [state EXCEPT ![z] = "free"]
          /\ pc' = [pc EXCEPT ![z] = User, ![cur] = User]
          /\ mode' = "ret" /\ cur' = cur
      BY <2>2 DEF Reap
    <3>2. Dying'
      BY <1>0, <1>1, <3>1 DEF Dying, User
    <3>3. WaitMasks' /\ FreeClean'
      BY <1>0, <1>1, <3>1 DEF WaitMasks, FreeClean, User
    <3> QED
      BY <3>2, <3>3
  <2> QED
    BY <1>0, <1>1, <1>2, <2>1, <2>2, WaitSuspends
<1>3. CASE ~(Wait4 \/ WaitNoHang \/ Wait4Resume)
  <2>1. /\ DeadStay
        /\ \A p \in Pids : state'[p] = "free" => state[p] = "free"
        /\ state[cur] # "free" => state'[cur] # "free"
    BY <1>3, DeadAndFree, WhoReaps
  <2>2. Alone
    BY <1>0, <1>1, <1>3, SuspendAlone
  <2>3. FreeClean'
    <3>1. CASE state[cur] = "free"
      <4>1. mode \in {"sched", "off", "panic"}
        BY <1>0, <1>1, <3>1 DEF CurRuns
      <4>2. Schedule \/ Halted \/ CheckTimers
        BY <4>1 DEF Next, SystemCall, Fork, VFork, Exec, ExecWith, Exit, Wait4, WaitNoHang, Pause,
             Sigsuspend, Alarm, Kill, Setpgid, Sigaction, Sigprocmask, Sigreturn, Calling, Nanosleep,
             Yield, Resumed, VForkResume, Wait4Resume, PauseResume, Tick, Fault, DeliverNothing,
             DeliverFatal, DeliverHandler, Delivering, InitExit, DoExit
      <4>3. suspend' = suspend
        BY <1>0, <1>1, <4>2, SuspendSame
      <4> QED
        BY <1>0, <1>1, <2>1, <4>3 DEF FreeClean
    <3>2. CASE state[cur] # "free"
      BY <1>0, <1>1, <2>1, <2>2, <3>2 DEF FreeClean, Alone
    <3> QED
      BY <3>1, <3>2
  <2>4. CASE \/ Fork \/ VFork \/ Exec \/ Exit \/ Pause \/ Sigsuspend
             \/ Alarm \/ Kill \/ Setpgid \/ Sigaction \/ Sigprocmask \/ Nanosleep \/ Yield
             \/ VForkResume \/ PauseResume
    <3>1. CASE \E x : Hands(x)
      <4>1. PICK x : Hands(x)
        BY <3>1
      <4> QED
        BY <1>1, <2>1, <2>2, <2>3, <4>1, HandsKeeps
    <3>2. ASSUME NEW z \in Pids, Reap(z)
          PROVE  Dying' /\ WaitMasks'
      <4>1. /\ suspend' = [suspend EXCEPT ![z] = {}] /\ pc' = [pc EXCEPT ![z] = User, ![cur] = User]
            /\ state' = [state EXCEPT ![z] = "free"] /\ mode' = "ret" /\ cur' = cur
        BY <3>2 DEF Reap
      <4>2. Dying'
        BY <1>0, <1>1, <4>1 DEF Dying, User
      <4>3. WaitMasks'
        BY <1>0, <1>1, <4>1 DEF WaitMasks, User
      <4> QED
        BY <4>2, <4>3
    <3> QED
      BY <1>1, <2>3, <2>4, <3>1, <3>2, CallsHand
  <2>5. CASE DoExit
    <3>1. pc' = pc /\ mode' = "sched" /\ cur' = cur /\ state'[cur] = "zombie" /\ mode = "exit"
      BY <1>0, <1>1, <2>5, ExitEnds DEF Ends, DoExit, ExitWith
    <3>2. suspend' = suspend
      BY <1>0, <1>1, <2>5, SuspendSame
    <3> QED
      BY <1>0, <1>1, <2>1, <2>3, <3>1, <3>2 DEF Dying, WaitMasks, DeadStay
  <2> QED
    BY <1>0, <1>1, <1>3, <2>1, <2>3, <2>4, <2>5, SuspendTraps DEF Next, SystemCall
<1> QED
  BY <1>2, <1>3

\* No frame saves a death.
LEMMA FramesLiveKept ==
  ASSUME TypeOK, CurRuns, CallInv, SuspendInv, FramesKept
  PROVE  FramesLive'
<1>1. Delivering => pc[cur].at # "exit"
  BY NotWaiting DEF Delivering, SuspendInv
<1>2. SUFFICES ASSUME NEW p \in Pids, NEW i \in 1..Len(frames'[p])
               PROVE  frames'[p][i].saved.at # "exit"
  BY DEF FramesLive
<1>3. CASE Delivering /\ frames'[p][i].saved = pc[cur]
  BY <1>1, <1>3
<1>4. CASE \E q \in Pids : \E j \in 1..Len(frames[q]) : frames'[p][i] = frames[q][j]
  BY <1>4 DEF FramesLive, SuspendInv
<1> QED
  BY <1>2, <1>3, <1>4 DEF FramesKept

\* A call is left to be made again only when restart_ok says so.
LEMMA RestartStep ==
  ASSUME TypeOK, Next, mode' = "ret", pc'[cur'].at = "redo"
  PROVE  RestartOK /\ UNCHANGED <<cur, sigpend, sigmask, sa>>
<1> USE DEF TypeOK, SchedTypeOK
<1>1. /\ ~Return /\ ~ReturnOnly
      /\ \A st : ~GoExit(st)
      /\ \A c, a : ~YieldIn(c, a)
      /\ \A ch, c, a : ~SleepOn(ch, c, a)
      /\ \A c, a : Restart(c, a) => RestartOK /\ cur' = cur
  BY DEF Return, ReturnOnly, GoExit, YieldIn, SleepOn, Restart, User
<1>2. UNCHANGED sigVars => UNCHANGED <<sigpend, sigmask, sa>>
  BY DEF sigVars
<1>3. CASE Wait4 \/ WaitNoHang \/ Wait4Resume
  <2>1. PICK a, nohang : Wait4Pass(a, nohang)
    BY <1>3 DEF Wait4, WaitNoHang, Wait4Resume
  <2>2. ASSUME NEW z, Reap(z) PROVE FALSE
    BY <2>2 DEF Reap, User
  <2> QED
    BY <1>1, <1>2, <2>1, <2>2 DEF Wait4Pass
<1>4. ~(Fork \/ VFork \/ Exec \/ Exit \/ Alarm \/ Kill \/ Setpgid \/ Sigaction \/ Sigprocmask)
  BY <1>1 DEF Fork, VFork, Exec, ExecWith, Exit, Alarm, Kill, Setpgid, Sigaction, Sigprocmask
<1>5. ~(Pause \/ Sigsuspend \/ PauseResume)
  BY <1>1 DEF Pause, Sigsuspend, PauseResume, PauseLoop
<1>6. ~(Nanosleep \/ Yield \/ VForkResume)
  BY <1>1 DEF Nanosleep, Yield, VForkResume
<1>7. ~(Tick \/ Fault \/ CheckTimers \/ Sigreturn \/ InitExit \/ DoExit)
  BY <1>1 DEF Tick, Fault, CheckTimers, Sigreturn, InitExit, DoExit, ExitWith
<1>8. ~(Schedule \/ Halted)
  BY DEF Schedule, SchedulePass, SwitchTo, Halted, vars, schedVars
<1>9. ~(DeliverNothing \/ DeliverFatal \/ DeliverHandler)
  BY <1>1 DEF DeliverNothing, DeliverFatal, DeliverHandler, GoOn
<1> QED
  BY <1>3, <1>4, <1>5, <1>6, <1>7, <1>8, <1>9 DEF Next, SystemCall

\* The answer of restart_ok stands until deliver_signals has run.
LEMMA RestartKept ==
  ASSUME TypeOK, Next
  PROVE  RestartAllowed'
<1> SUFFICES ASSUME mode' = "ret", pc'[cur'].at = "redo"
             PROVE  RestartOK'
  BY DEF RestartAllowed
<1>1. RestartOK /\ UNCHANGED <<cur, sigpend, sigmask, sa>>
  BY RestartStep
<1> QED
  BY <1>1 DEF RestartOK, IsNextSignal, Deliverable, Ignored

\* At the start no one waits and no one dies.
LEMMA SuspendInit == Init => SuspendInv
<1> SUFFICES ASSUME Init PROVE SuspendInv
  OBVIOUS
<1>1. Dying /\ WaitMasks /\ FreeClean /\ RestartAllowed
  BY DEF Init, Dying, WaitMasks, FreeClean, RestartAllowed, User
<1>2. \A p \in Pids : Len(frames[p]) = 0
  BY DEF Init
<1>3. FramesLive
  BY <1>2 DEF FramesLive
<1> QED
  BY <1>1, <1>3 DEF SuspendInv

\* Every step keeps all this.
LEMMA SuspendStep ==
  ASSUME TreeInv, CallInv, SuspendInv, [Next]_vars
  PROVE  SuspendInv'
<1>1. CASE Next
  <2>1. TypeOK /\ CurRuns
    BY DEF TreeInv
  <2>2. FramesLive'
    BY <1>1, <2>1, FramesStep, FramesLiveKept
  <2>3. RestartAllowed'
    BY <1>1, <2>1, RestartKept
  <2> QED
    BY <1>1, <2>2, <2>3, SuspendKept DEF SuspendInv
<1>2. CASE UNCHANGED vars
  <2>1. UNCHANGED <<mode, cur, state, pc, frames, suspend, sigpend, sigmask, sa>>
    BY <1>2 DEF vars, schedVars, sigVars
  <2>2. Dying' /\ FramesLive' /\ WaitMasks' /\ FreeClean'
    BY <2>1 DEF SuspendInv, Dying, FramesLive, WaitMasks, FreeClean
  <2>3. RestartAllowed'
    BY <2>1 DEF SuspendInv, RestartAllowed, RestartOK, IsNextSignal, Deliverable, Ignored
  <2> QED
    BY <2>2, <2>3 DEF SuspendInv
<1> QED
  BY <1>1, <1>2

CallAll == TreeInv /\ CallInv /\ SuspendInv

LEMMA CallAllHolds == Spec => []CallAll
<1>1. Init => CallAll
  BY TreeInit, CallInit, SuspendInit DEF CallAll
<1>2. CallAll /\ [Next]_vars => CallAll'
  <2> SUFFICES ASSUME CallAll, [Next]_vars PROVE CallAll'
    OBVIOUS
  <2>1. TypeOK /\ TreeInv /\ CallInv /\ SuspendInv
    BY DEF CallAll, TreeInv
  <2> QED
    BY <2>1, TreeStep, CallStep, SuspendStep DEF CallAll
<1> QED
  BY <1>1, <1>2, PTL DEF Spec

\* mask_after_wait and the tail of syscall_c: no user code runs under the mask
\* of a wait, except the handler that ends it.
THEOREM WaitMasksEnd == Spec => []WaitMaskEnds
<1>1. CallAll => WaitMaskEnds
  <2> SUFFICES ASSUME CallAll, mode \in {"user", "entry"} PROVE suspend[cur] = {}
    BY DEF WaitMaskEnds
  <2> QED
    BY NotWaiting DEF CallAll, TreeInv, SuspendInv
<1> QED
  BY <1>1, CallAllHolds, PTL

=============================================================================
