------------------------------ MODULE K1Proc ------------------------------
(***************************************************************************)
(* Processes and signals of the K1 kernel: k1/proc.c, with the system call *)
(* tail of k1/sys.c and the user traps of k1/main.c.                       *)
(*                                                                         *)
(* User programs are arbitrary: in user mode the current process makes any *)
(* call of the menu `Calls` with any argument of the menus below.          *)
(***************************************************************************)
EXTENDS K1Sched, Sequences

CONSTANTS
  Sigs,         \* the signal numbers that matter here
  Acts,         \* the struct sigact values programs pass to rt_sigaction
  ActSigs,      \* the signals they pass them for
  Masks,        \* the signal sets programs pass
  Calls,        \* what programs do: system calls, "fault"
  WaitPids,     \* wait4's pid arguments
  KillPids,     \* kill's pid arguments
  KillSigs,     \* kill's signal arguments
  Codes,        \* exit codes
  MaxFrames     \* the signal frames that fit on a user stack

KILL == 9
SEGV == 11
ALRM == 14
CHLD == 17
STOP == 19
IgnoredByDefault == {17, 18, 23, 28} \cup 19..22

SigActs == [handler : {"dfl", "ign", "fn"}, restart : BOOLEAN,
            nodefer : BOOLEAN, resethand : BOOLEAN, mask : SUBSET Sigs]
SigDfl == [handler |-> "dfl", restart |-> FALSE, nodefer |-> FALSE,
           resethand |-> FALSE, mask |-> {}]

ASSUME SigsAssumption == Sigs \subseteq 1..64 /\ {KILL, SEGV, ALRM, CHLD} \subseteq Sigs
ASSUME MenusAssumption ==
  /\ Acts \subseteq SigActs /\ ActSigs \subseteq Sigs
  /\ Masks \subseteq SUBSET Sigs
  /\ WaitPids \subseteq Int /\ KillPids \subseteq Int
  /\ KillSigs \subseteq Sigs
  /\ Codes \subseteq Nat
  /\ MaxFrames \in Nat

VARIABLES
  nextpid, ppid, pgid,
  status,       \* the wait status of a zombie
  vparent,      \* vfork_parent, 0 for NULL
  sigpend, sigmask, sa,
  suspend,      \* {} or {suspend_mask}: suspended with the mask to restore
  frames,       \* the struct sigframes on the user stack, innermost first
  alarm,        \* alarm_at and alarm_every: off, once, every
  asyncfull     \* async_full, one for the whole kernel

treeVars == <<nextpid, ppid, pgid, status, vparent>>
sigVars == <<sigpend, sigmask, sa, suspend, frames, asyncfull>>
vars == <<schedVars, treeVars, sigVars, alarm>>

UnmaskableForgotten == {}      \* masks taken as programs give them
Unmaskable == {KILL, STOP}
Default == [s \in Sigs |-> SigDfl]

(* ---- sending ---- *)

\* sigpend that may be delivered under mask m (next_signal's pend).
Deliverable(p, m) == sigpend[p] \ (m \ {KILL})
SignalPending == Deliverable(cur, sigmask[cur]) # {}
IsNextSignal(s) == /\ s \in Deliverable(cur, sigmask[cur])
                   /\ \A t \in Deliverable(cur, sigmask[cur]) : s <= t

Ignored(p, s) == \/ sa[p][s].handler = "ign"
                 \/ sa[p][s].handler = "dfl" /\ s \in IgnoredByDefault

\* send_signal(p, s) keeps the signal, p being in state st[p].
Accepts(st, p, s) == st[p] \in {"run", "sleep"} /\ (s = KILL \/ ~Ignored(p, s))

\* sigpend and state after send_signal(p, s) for each p of S.
Pended(st, S, s) ==
  [p \in Pids |-> IF p \in S /\ Accepts(st, p, s)
                  THEN sigpend[p] \cup {s} ELSE sigpend[p]]
PendedOnly(st, S, s) == st         \* send_signal without its wakeup
Roused(st, S, s) ==
  [p \in Pids |-> IF /\ p \in S /\ Accepts(st, p, s) /\ st[p] = "sleep"
                     /\ s = KILL \/ (sigpend[p] \cup {s}) \ sigmask[p] # {}
                  THEN "run" ELSE st[p]]

(* ---- the system call path ---- *)

\* The current process enters call c with argument a: its own choice, or the
\* call an ERESTART made it execute again.
Calling(c, a) ==
  /\ mode \in {"user", "entry"} /\ c \in Calls
  /\ pc[cur] \in {User, Redo(c, a)}

Resumed(c) == mode = "kernel" /\ pc[cur].call = c

\* The call's result is in rax; syscall_c goes on with its tail.
Return == mode' = "ret" /\ pc' = [pc EXCEPT ![cur] = User] /\ cur' = cur
ReturnOnly == Return /\ UNCHANGED <<state, chan>>

\* The call returned -ERESTART: execute it again unless a handler without
\* SA_RESTART is about to run.
RestartIfAny == SignalPending => \E s \in Deliverable(cur, sigmask[cur]) :
                                   Ignored(cur, s) \/ sa[cur][s].restart
RestartOK == \A s \in Sigs : IsNextSignal(s) =>
               \/ Ignored(cur, s)
               \/ sa[cur][s].handler = "fn" /\ sa[cur][s].restart
Restart(c, a) ==
  /\ mode' = "ret"
  /\ pc' = [pc EXCEPT ![cur] = IF RestartOK THEN Redo(c, a) ELSE User]
  /\ UNCHANGED <<cur, state, chan>>

\* Enter do_exit(st).
GoExit(st) ==
  /\ mode' = "exit"
  /\ pc' = [pc EXCEPT ![cur] = Exiting(st)]
  /\ UNCHANGED <<cur, state, chan>>

\* check_timers finds some alarms due; the clock may make any armed one due.
\* It runs first in every system call and tick, and in each scheduler pass.
ArmedTimers == {p \in Pids : alarm[p] # "off" /\ Live(p)}
CheckTimers ==
  /\ mode \in {"user", "sched"}
  /\ \E due \in SUBSET ArmedTimers :
       /\ due # {}
       /\ alarm' = [p \in Pids |-> IF p \in due /\ alarm[p] = "once"
                                   THEN "off" ELSE alarm[p]]
       /\ sigpend' = Pended(state, due, ALRM)
       /\ state' = Roused(state, due, ALRM)
  /\ mode' = IF mode = "user" THEN "entry" ELSE mode
  /\ UNCHANGED <<cur, chan, pc, treeVars, sigmask, sa, suspend, frames, asyncfull>>

(* ---- fork and exec ---- *)

\* proc_new and what do_fork copies from the parent to the child c.
NewChild(c, vp) ==
  /\ c = nextpid /\ c \in Pids
  /\ nextpid' = nextpid + 1
  /\ ppid' = [ppid EXCEPT ![c] = cur]
  /\ pgid' = [pgid EXCEPT ![c] = pgid[cur]]
  /\ vparent' = [vparent EXCEPT ![c] = vp]
  /\ sa' = [sa EXCEPT ![c] = sa[cur]]
  /\ sigmask' = [sigmask EXCEPT ![c] = sigmask[cur]]
  /\ frames' = [frames EXCEPT ![c] = frames[cur]]
  /\ UNCHANGED <<status, sigpend, suspend, asyncfull, alarm>>

Fork ==
  \E c \in Pids :
    /\ Calling("fork", NoArg)
    /\ NewChild(c, 0)
    /\ state' = [state EXCEPT ![c] = "run"]
    /\ Return /\ chan' = chan

\* CLONE_VFORK: the parent sleeps on the child until vfork_release.
VFork ==
  \E c \in Pids :
    /\ Calling("vfork", NoArg)
    /\ NewChild(c, cur)
    /\ state' = [state EXCEPT ![c] = "run", ![cur] = "sleep"]
    /\ chan' = [chan EXCEPT ![cur] = ProcChan(c)]
    /\ pc' = [pc EXCEPT ![cur] = Blocked("vfork", Arg(c))]
    /\ mode' = "sched" /\ cur' = cur

VForkResume ==
  LET c == pc[cur].arg[1] IN
  /\ Resumed("vfork")
  /\ IF vparent[c] = cur THEN SleepOn(ProcChan(c), "vfork", Arg(c)) ELSE ReturnOnly
  /\ UNCHANGED <<treeVars, sigVars, alarm>>

\* vfork_release(cur), as vfork_parent and the process states after it.
KeptVparent == vparent                 \* an exit that forgets the vfork parent
ReleasedVparent == [vparent EXCEPT ![cur] = 0]
UnreleasedState(st) == st              \* vfork_release without its wakeup
ReleasedState(st) == IF vparent[cur] # 0 THEN Woken(st, ProcChan(cur)) ELSE st

\* do_execve past exec_inner's point of no return, once fd_close_all left the
\* process states st0: the handlers reset, the old image and its stack gone,
\* the vfork parent released.
ExecWith(st0) ==
  /\ Calling("exec", NoArg)
  /\ sa' = [sa EXCEPT ![cur] = [s \in Sigs |->
              IF sa[cur][s].handler = "fn" THEN SigDfl ELSE sa[cur][s]]]
  /\ frames' = [frames EXCEPT ![cur] = <<>>]
  /\ vparent' = ReleasedVparent
  /\ state' = ReleasedState(st0)
  /\ Return /\ chan' = chan
  /\ UNCHANGED <<nextpid, ppid, pgid, status, sigpend, sigmask, suspend, asyncfull, alarm>>

Exec == ExecWith(state)

(* ---- exit and wait ---- *)

Exit ==
  \E c \in Codes :
    /\ Calling("exit", NoArg)
    /\ GoExit(256 * c)
    /\ UNCHANGED <<treeVars, sigVars, alarm>>

\* do_exit reparents the children to init and, for a child that is already a
\* zombie, does wakeup(procs): the head of the list, the newest process.
IsNewest(p) == state[p] # "free" /\ \A q \in Pids : q > p => state[q] = "free"
Children == {p \in Pids : state[p] # "free" /\ ppid[p] = cur}
WokenByOrphans(st) ==
  IF \E p \in Children : st[p] = "zombie"
  THEN [p \in Pids |-> IF \E n \in Pids : /\ IsNewest(n) /\ st[p] = "sleep"
                                          /\ chan[p] = ProcChan(n)
                       THEN "run" ELSE st[p]]
  ELSE st

\* The states once do_exit has told the parent, and init if it is the parent.
Parents == {p \in Pids : state[p] # "free" /\ p = ppid[cur]}
UnwokenParents(st) == st               \* SIGCHLD only
WokenParents(st) ==
  [p \in Pids |-> IF st[p] = "sleep" /\ \E q \in Parents : chan[p] = ProcChan(q)
                  THEN "run" ELSE st[p]]

\* The parents once do_exit has given its children to init.
ReparentedLive ==                      \* a zombie child is forgotten
  [p \in Pids |-> IF p \in Children /\ Live(p) THEN 1 ELSE ppid[p]]
Reparented == [p \in Pids |-> IF p \in Children THEN 1 ELSE ppid[p]]

\* do_exit after the files, the cwd and the memory are given up, which left
\* the process states st0.
ExitWith(st0) ==
  LET st1 == WokenByOrphans(ReleasedState(st0))
      st2 == [st1 EXCEPT ![cur] = "zombie"]
  IN /\ vparent' = ReleasedVparent
     /\ ppid' = Reparented
     /\ status' = [status EXCEPT ![cur] = pc[cur].arg[1]]
     /\ sigpend' = Pended(st2, Parents, CHLD)
     /\ state' = WokenParents(Roused(st2, Parents, CHLD))
     /\ mode' = "sched"
     /\ UNCHANGED <<cur, chan, pc, nextpid, pgid, sigmask, sa, suspend, frames, asyncfull, alarm>>

\* When init exits the machine stops.
InitExit ==
  /\ mode = "exit" /\ cur = 1
  /\ mode' = "off"
  /\ UNCHANGED <<cur, state, chan, pc, treeVars, sigVars, alarm>>

DoExit == mode = "exit" /\ cur # 1 /\ ExitWith(state)

\* The children wait4(a) looks for; without the test of ppid, any process.
WaitedAny(a) == {c \in Pids \ {cur} : state[c] # "free" /\ (a > 0 => c = a)}
Waited(a) ==
  {c \in Children \ {cur} : /\ a > 0 => c = a
                            /\ a = 0 => pgid[c] = pgid[cur]
                            /\ a < -1 => pgid[c] = -a}
ZombiesOf(a) == {c \in Waited(a) : state[c] = "zombie"}

\* reap(z): z leaves procs and its struct is freed.
Reap(z) ==
  /\ state' = [state EXCEPT ![z] = "free"]
  /\ ppid' = [ppid EXCEPT ![z] = 0]
  /\ pgid' = [pgid EXCEPT ![z] = 0]
  /\ status' = [status EXCEPT ![z] = 0]
  /\ sigpend' = [sigpend EXCEPT ![z] = {}]
  /\ sigmask' = [sigmask EXCEPT ![z] = {}]
  /\ sa' = [sa EXCEPT ![z] = Default]
  /\ suspend' = [suspend EXCEPT ![z] = {}]
  /\ frames' = [frames EXCEPT ![z] = <<>>]
  /\ alarm' = [alarm EXCEPT ![z] = "off"]
  /\ pc' = [pc EXCEPT ![z] = User, ![cur] = User]
  /\ chan' = [chan EXCEPT ![z] = NoChan]
  /\ mode' = "ret"
  /\ UNCHANGED <<cur, nextpid, vparent, asyncfull>>

\* One pass of do_wait4's loop: reap the first zombie of the list, or fault
\* on a bad status pointer before reaping it; or ECHILD, WNOHANG, ERESTART,
\* or sleep.
Wait4Pass(a, nohang) ==
  \/ \E z \in ZombiesOf(a) : (\A y \in ZombiesOf(a) : y <= z) /\ Reap(z)
  \/ /\ ZombiesOf(a) # {}
     /\ "badpointer" \in Calls
     /\ GoExit(SEGV)
     /\ UNCHANGED <<treeVars, sigVars, alarm>>
  \/ /\ ZombiesOf(a) = {}
     /\ \/ (Waited(a) = {} \/ nohang) /\ ReturnOnly
        \/ Waited(a) # {} /\ ~nohang /\ SignalPending /\ Restart("wait4", Arg(a))
        \/ Waited(a) # {} /\ ~nohang /\ ~SignalPending
           /\ SleepOn(ProcChan(cur), "wait4", Arg(a))
     /\ UNCHANGED <<treeVars, sigVars, alarm>>

Wait4       == \E a \in WaitPids : Calling("wait4", Arg(a)) /\ Wait4Pass(a, FALSE)
WaitNoHang  == \E a \in WaitPids : Calling("waitnohang", Arg(a)) /\ Wait4Pass(a, TRUE)
Wait4Resume == Resumed("wait4") /\ Wait4Pass(pc[cur].arg[1], FALSE)

(* ---- sleeping for a signal, the clock, the others ---- *)

\* pause(2): while (!signal_pending()) sleep_on(cur).
PauseLoop(call, m) ==
  IF Deliverable(cur, m) # {} THEN ReturnOnly
  ELSE SleepOn(ProcChan(cur), call, NoArg)

Pause ==
  /\ Calling("pause", NoArg)
  /\ PauseLoop("pause", sigmask[cur])
  /\ UNCHANGED <<treeVars, sigVars, alarm>>

Sigsuspend ==
  \E m \in Masks :
    /\ Calling("sigsuspend", NoArg)
    /\ suspend' = [suspend EXCEPT ![cur] = {sigmask[cur]}]
    /\ sigmask' = [sigmask EXCEPT ![cur] = m \ Unmaskable]
    /\ PauseLoop("sigsuspend", m \ Unmaskable)
    /\ UNCHANGED <<treeVars, sigpend, sa, frames, asyncfull, alarm>>

PauseResume ==
  /\ Resumed("pause") \/ Resumed("sigsuspend")
  /\ PauseLoop(pc[cur].call, sigmask[cur])
  /\ UNCHANGED <<treeVars, sigVars, alarm>>

\* sleep_ns: poll the clock, giving the CPU away between two looks; the
\* deadline may have passed at any of them.
Nanosleep ==
  /\ Calling("nanosleep", NoArg) \/ Resumed("nanosleep")
  /\ \/ ReturnOnly
     \/ ~SignalPending /\ YieldIn("nanosleep", NoArg)
  /\ UNCHANGED <<treeVars, sigVars, alarm>>

Yield ==
  /\ \/ Calling("yield", NoArg) /\ YieldIn("yield", NoArg)
     \/ Resumed("yield") /\ ReturnOnly
  /\ UNCHANGED <<treeVars, sigVars, alarm>>

\* alarm and setitimer(ITIMER_REAL).
Alarm ==
  \E t \in {"off", "once", "every"} :
    /\ Calling("alarm", NoArg)
    /\ alarm' = [alarm EXCEPT ![cur] = t]
    /\ ReturnOnly
    /\ UNCHANGED <<treeVars, sigVars>>

(* ---- the signal system calls ---- *)

KillTargets(k) ==
  {p \in Pids : /\ Live(p)
                /\ k > 0 => p = k
                /\ k = 0 => pgid[p] = pgid[cur]
                /\ k = -1 => p # 1 /\ p # cur
                /\ k < -1 => pgid[p] = -k}

Kill ==
  \E k \in KillPids, s \in KillSigs :
    /\ Calling("kill", NoArg)
    /\ sigpend' = Pended(state, KillTargets(k), s)
    /\ state' = Roused(state, KillTargets(k), s)
    /\ Return /\ chan' = chan
    /\ UNCHANGED <<treeVars, sigmask, sa, suspend, frames, asyncfull, alarm>>

\* setpgid on the caller or on any process of the list.
Setpgid ==
  \E p, g \in Pids :
    /\ Calling("setpgid", NoArg)
    /\ state[p] # "free"
    /\ pgid' = [pgid EXCEPT ![p] = g]
    /\ ReturnOnly
    /\ UNCHANGED <<nextpid, ppid, status, vparent, sigVars, alarm>>

Sigaction ==
  \E s \in ActSigs \ Unmaskable, act \in Acts :
    /\ Calling("sigaction", NoArg)
    /\ sa' = [sa EXCEPT ![cur][s] = act]
    /\ sigpend' = IF \/ act.handler = "ign"
                     \/ act.handler = "dfl" /\ s \in IgnoredByDefault
                  THEN [sigpend EXCEPT ![cur] = @ \ {s}] ELSE sigpend
    /\ ReturnOnly
    /\ UNCHANGED <<treeVars, sigmask, suspend, frames, asyncfull, alarm>>

\* SIG_BLOCK, SIG_UNBLOCK and SIG_SETMASK.
Sigprocmask ==
  \E m \in Masks :
    /\ Calling("sigprocmask", NoArg)
    /\ \E new \in {sigmask[cur] \cup m, sigmask[cur] \ m, m} :
         sigmask' = [sigmask EXCEPT ![cur] = new \ Unmaskable]
    /\ ReturnOnly
    /\ UNCHANGED <<treeVars, sigpend, sa, suspend, frames, asyncfull, alarm>>

\* rt_sigreturn takes the innermost frame off; syscall_c's tail for call 15
\* then delivers what is pending with the frame's rcx and r11 live.
Sigreturn ==
  LET f == frames[cur][1] IN
  /\ mode \in {"user", "entry"} /\ pc[cur] = User /\ frames[cur] # <<>>
  /\ pc' = [pc EXCEPT ![cur] = f.saved]
  /\ sigmask' = [sigmask EXCEPT ![cur] = f.mask \ Unmaskable]
  /\ frames' = [frames EXCEPT ![cur] = Tail(@)]
  /\ asyncfull' = (f.full \/ asyncfull)
  /\ mode' = "sigret"
  /\ UNCHANGED <<cur, state, chan, treeVars, sigpend, sa, suspend, alarm>>

(* ---- traps from user code ---- *)

\* The timer interrupt: deliver a pending signal if there is one, then yield.
Tick ==
  /\ mode \in {"user", "entry"}
  /\ IF SignalPending THEN mode' = "tick" /\ asyncfull' = TRUE
                      ELSE mode' = "sched" /\ UNCHANGED asyncfull
  /\ UNCHANGED <<cur, state, chan, pc, treeVars, sigpend, sigmask, sa, suspend, frames, alarm>>

\* A page fault of user code (user_fault with SIGSEGV).
Fault ==
  /\ mode = "user" /\ pc[cur] = User /\ "fault" \in Calls
  /\ IF sa[cur][SEGV].handler # "fn" \/ SEGV \in sigmask[cur]
     THEN GoExit(SEGV) /\ UNCHANGED <<sigpend, asyncfull>>
     ELSE /\ sigpend' = [sigpend EXCEPT ![cur] = @ \cup {SEGV}]
          /\ asyncfull' = TRUE
          /\ mode' = "fault"
          /\ UNCHANGED <<cur, state, chan, pc>>
  /\ UNCHANGED <<treeVars, sigmask, sa, suspend, frames, alarm>>

(* ---- deliver_signals, and what its four callers do after it ---- *)

Delivering == mode \in {"ret", "tick", "sigret", "fault"}

\* The mask the program was in before the wait it is in, if it is in one.
CurrentMask == sigmask[cur]            \* saves the wait's mask in the frame
ProgramMask == IF suspend[cur] = {} THEN sigmask[cur] ELSE CHOOSE m \in suspend[cur] : TRUE

\* The program's mask is back: the tail of a wait that ran no handler.
KeepMask == UNCHANGED <<sigmask, suspend>>       \* the wait's mask stays
Unsuspend ==
  /\ sigmask' = [sigmask EXCEPT ![cur] = ProgramMask]
  /\ suspend' = [suspend EXCEPT ![cur] = {}]

\* The caller goes on: syscall_c to user code, user_tick to its yield.
GoOn == mode' = IF mode = "tick" THEN "sched" ELSE "user"

\* Nothing to deliver, or a signal that is ignored.  A suspended call that
\* ran no handler gets its mask back; user_fault, not having delivered, exits.
DeliverNothing ==
  /\ Delivering
  /\ \/ ~SignalPending /\ sigpend' = sigpend
     \/ \E s \in Sigs : /\ IsNextSignal(s) /\ Ignored(cur, s)
                        /\ sigpend' = [sigpend EXCEPT ![cur] = @ \ {s}]
  /\ IF mode = "fault" THEN GoExit(SEGV)
     ELSE GoOn /\ UNCHANGED <<cur, state, chan, pc>>
  /\ IF mode = "ret" THEN Unsuspend /\ UNCHANGED asyncfull
     ELSE asyncfull' = FALSE /\ UNCHANGED <<sigmask, suspend>>
  /\ UNCHANGED <<treeVars, sa, frames, alarm>>

\* The default action is to die.  async_full stays as it is.
DeliverFatal ==
  \E s \in Sigs :
    /\ Delivering /\ IsNextSignal(s)
    /\ sa[cur][s].handler = "dfl" /\ s \notin IgnoredByDefault
    /\ sigpend' = [sigpend EXCEPT ![cur] = @ \ {s}]
    /\ GoExit(s)
    /\ UNCHANGED <<treeVars, sigmask, sa, suspend, frames, asyncfull, alarm>>

\* A handler runs on a new frame, or the stack has no room for the frame and
\* the process dies of SIGSEGV.
DeliverHandler ==
  \E s \in Sigs :
    LET act == sa[cur][s]
        f == [sig |-> s, saved |-> pc[cur], full |-> asyncfull, addr |-> mode = "fault",
              mask |-> ProgramMask]
    IN
    /\ Delivering /\ IsNextSignal(s) /\ act.handler = "fn"
    /\ sigpend' = [sigpend EXCEPT ![cur] = @ \ {s}]
    /\ IF Len(frames[cur]) = MaxFrames
       THEN GoExit(SEGV) /\ UNCHANGED <<sigmask, sa, suspend, frames, asyncfull>>
       ELSE /\ frames' = [frames EXCEPT ![cur] = <<f>> \o @]
            /\ asyncfull' = FALSE
            /\ suspend' = [suspend EXCEPT ![cur] = {}]
            /\ sigmask' = [sigmask EXCEPT ![cur] =
                 (@ \cup act.mask \cup (IF act.nodefer THEN {} ELSE {s})) \ Unmaskable]
            /\ sa' = IF act.resethand THEN [sa EXCEPT ![cur][s].handler = "dfl"] ELSE sa
            /\ pc' = [pc EXCEPT ![cur] = User]
            /\ GoOn
            /\ UNCHANGED <<cur, state, chan>>
    /\ UNCHANGED <<treeVars, alarm>>

(* ---- the whole ---- *)

Schedule ==
  /\ SchedulePass(ArmedTimers # {})
  /\ UNCHANGED <<treeVars, sigVars, alarm>>

\* qemu_exit and panic do not return.
Halted == mode \in {"off", "panic"} /\ UNCHANGED vars

Init ==
  /\ mode = "user" /\ cur = 1
  /\ state = [p \in Pids |-> IF p = 1 THEN "run" ELSE "free"]
  /\ chan = [p \in Pids |-> NoChan]
  /\ pc = [p \in Pids |-> User]
  /\ nextpid = 2
  /\ ppid = [p \in Pids |-> 0]
  /\ pgid = [p \in Pids |-> IF p = 1 THEN 1 ELSE 0]
  /\ status = [p \in Pids |-> 0]
  /\ vparent = [p \in Pids |-> 0]
  /\ sigpend = [p \in Pids |-> {}]
  /\ sigmask = [p \in Pids |-> {}]
  /\ sa = [p \in Pids |-> Default]
  /\ suspend = [p \in Pids |-> {}]
  /\ frames = [p \in Pids |-> <<>>]
  /\ alarm = [p \in Pids |-> "off"]
  /\ asyncfull = FALSE

SystemCall ==
  \/ Fork \/ VFork \/ Exec \/ Exit \/ Wait4 \/ WaitNoHang \/ Pause \/ Sigsuspend
  \/ Alarm \/ Kill \/ Setpgid \/ Sigaction \/ Sigprocmask \/ Sigreturn

Next ==
  \/ SystemCall \/ Nanosleep \/ Yield
  \/ VForkResume \/ Wait4Resume \/ PauseResume
  \/ Tick \/ Fault \/ CheckTimers
  \/ DeliverNothing \/ DeliverFatal \/ DeliverHandler
  \/ InitExit \/ DoExit \/ Schedule \/ Halted

Spec == Init /\ [][Next]_vars

(* ---- properties ---- *)

PCs == [at : {"user", "blocked", "redo", "exit"}, call : Calls \cup {"none"},
        arg : Int \X Int \X Int]
Chans == {"none", "proc", "pipe", "poll"} \X Int      \* K1Pipe's too
Frames == [sig : Sigs, saved : PCs, full : BOOLEAN, addr : BOOLEAN, mask : SUBSET Sigs]

SchedTypeOK ==
  /\ mode \in {"user", "entry", "kernel", "ret", "tick", "fault", "sigret",
               "exit", "sched", "off", "panic"}
  /\ cur \in Pids
  /\ state \in [Pids -> {"free", "run", "sleep", "zombie"}]
  /\ chan \in [Pids -> Chans]
  /\ pc \in [Pids -> PCs]

TreeTypeOK ==
  /\ nextpid \in 2..MaxPid + 1
  /\ ppid \in [Pids -> Pids \cup {0}]
  /\ pgid \in [Pids -> Pids \cup {0}]
  /\ status \in [Pids -> Int]
  /\ vparent \in [Pids -> Pids \cup {0}]

SigTypeOK ==
  /\ sigpend \in [Pids -> SUBSET Sigs]
  /\ sigmask \in [Pids -> SUBSET (Sigs \ {KILL, STOP})]
  /\ sa \in [Pids -> [Sigs -> SigActs]]
  /\ suspend \in [Pids -> SUBSET SUBSET (Sigs \ {KILL, STOP})]
  /\ frames \in [Pids -> Seq(Frames)]
  /\ asyncfull \in BOOLEAN

\* Every variable keeps its type; SIGKILL and SIGSTOP are never masked, and
\* what a process goes on with is a call it can make.
TypeOK ==
  /\ SchedTypeOK /\ TreeTypeOK /\ SigTypeOK
  /\ alarm \in [Pids -> {"off", "once", "every"}]

\* do_exit's reparenting: every process but init always has a parent that can
\* still reap it, itself neither reaped nor a zombie.
ParentLive ==
  \A p \in Pids \ {1} : state[p] # "free" => ppid[p] \in Pids /\ Live(ppid[p])

\* do_fork's while (c->vfork_parent == cur): the child a vfork parent is
\* blocked on is in procs (its struct is not freed while the parent may read
\* it), and a parent that is asleep there has not been released: no exec or
\* exit of the child is missed, whatever wakes the parent in between.
VforkHeld ==
  \A p \in Pids :
    /\ Live(p) /\ pc[p].call = "vfork" => state[pc[p].arg[1]] # "free"
    /\ state[p] = "sleep" /\ pc[p].call = "vfork" => vparent[pc[p].arg[1]] = p

\* vfork_release comes before the end: a child that still holds its parent is
\* alive, is that parent's child, and the parent is waiting for it.
VforkHolder ==
  \A c \in Pids : vparent[c] # 0 =>
    /\ Live(c) /\ ppid[c] = vparent[c]
    /\ pc[vparent[c]] = Blocked("vfork", Arg(c))

\* do_wait4 never sleeps through an exit: a process asleep in wait4 has no
\* zombie it is waiting for.  (Init may: for an orphan that is dead already
\* do_exit wakes the head of procs, proc.c:470, which is not init.)
AwaitedBy(p, a) == {c \in Pids \ {p} : /\ state[c] = "zombie" /\ ppid[c] = p
                                       /\ a > 0 => c = a}
MissesChild(p) == /\ state[p] = "sleep" /\ pc[p].call = "wait4"
                  /\ pc[p].arg[1] = -1 \/ pc[p].arg[1] > 0
                  /\ AwaitedBy(p, pc[p].arg[1]) # {}
NoMissedChild == \A p \in Pids \ {1} : ~MissesChild(p)

\* K1's processes are ProcLife's, acted on by the one that owns the CPU: each
\* is born to the process that forks it, dies once, leaves its status to the
\* process that is then its parent, and is gone when that parent, and no one
\* else, has waited for it.
Life == INSTANCE ProcLife WITH
  Procs <- Pids, who <- cur, born <- nextpid, parent <- ppid, code <- status,
  life <- [p \in Pids |-> IF state[p] = "free" THEN "none"
                         ELSE IF state[p] = "zombie" THEN "dead" ELSE "alive"]
ImplementsLife == Life!Spec

\* send_signal wakes a sleeper it must interrupt: no one but a vfork parent
\* sleeps with a signal it does not mask.
NoSleepThroughSignal ==
  \A p \in Pids : state[p] = "sleep" /\ pc[p].call # "vfork" =>
    Deliverable(p, sigmask[p]) = {}

\* The mask sigsuspend and ppoll install is for the wait only: no user code
\* runs under it, except the handler that ends the wait.
WaitMaskEnds == mode \in {"user", "entry"} => suspend[cur] = {}

=============================================================================
