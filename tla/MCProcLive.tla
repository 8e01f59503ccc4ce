---------------------------- MODULE MCProcLive ----------------------------
(***************************************************************************)
(* What must eventually happen in K1Proc, on two and three processes.      *)
(***************************************************************************)
EXTENDS K1Proc

MCSigs == {9, 11, 14, 17}
MCActs == {[handler |-> "fn", restart |-> FALSE, nodefer |-> FALSE,
            resethand |-> FALSE, mask |-> {}]}
MCWaitPids == {-1}
MCKillPids == {2, 3}

\* Steps the kernel takes without being asked.
KernelStep ==
  \/ Schedule \/ VForkResume \/ Wait4Resume \/ PauseResume
  \/ mode = "kernel" /\ (Nanosleep \/ Yield)
  \/ DeliverNothing \/ DeliverFatal \/ DeliverHandler \/ InitExit \/ DoExit

AlarmFires(p) == alarm[p] = "once" /\ alarm'[p] = "off"

\* The CPU does not stop inside the kernel.  The clock passes the time of an
\* armed alarm, and schedule() and the tick look at it again and again.  The
\* 100 Hz interrupt, held pending by the PIC while the kernel runs with
\* interrupts off, is taken in user mode again and again, though a program
\* that only makes system calls leaves user mode each time.
Fairness == /\ WF_vars(KernelStep)
            /\ \A p \in Pids : SF_vars(CheckTimers /\ AlarmFires(p))
            /\ SF_vars(Tick)

FairSpec == Spec /\ Fairness

\* What the run "live" looks at: up to three processes that fork, wait and kill
\* and have nothing to do with alarms; and one that may set a handler before it
\* forks or sets an alarm, its child, and the alarms they wait for.  Only what a
\* program chooses to call is left out by this, no step of the kernel.
Family ==
  /\ \A p \in Pids : alarm[p] = "off" /\ ALRM \notin sigpend[p] /\ frames[p] = <<>>
                   /\ sa[p] = Default /\ pc[p].call # "pause"
Clock ==
  /\ nextpid <= 3
  /\ \A p \in Pids : pc[p].call \notin {"vfork", "wait4", "nanosleep"} /\ KILL \notin sigpend[p]
BeforeClock == nextpid = 2 /\ alarm[1] = "off" /\ frames[1] = <<>>
Fits ==
  /\ Family' \/ Clock'
  /\ sa' # sa => BeforeClock

Stopped == mode \in {"off", "panic"}

\* Round robin: a runnable process gets the CPU, whatever the others do.
EveryoneRuns == \A p \in Pids : state[p] = "run" ~> (cur = p /\ mode # "sched") \/ Stopped

\* A vfork parent goes on once its child has exec'd or exited.
VforkReturns ==
  \A p, c \in Pids :
    (pc[p] = Blocked("vfork", Arg(c)) /\ Live(p) /\ vparent[c] # p)
      ~> (pc[p].call # "vfork" \/ Stopped)

\* SIGKILL kills: its target is gone unless it waits for a vfork child.
KillKills ==
  \A p \in Pids \ {1} :
    (KILL \in sigpend[p] /\ Live(p)) ~> (~Live(p) \/ pc[p].call = "vfork" \/ Stopped)

\* A parent in wait4 reaps: with a zombie child there it does not stay in the
\* call (init apart).
WaitReturns ==
  \A p \in Pids \ {1} :
    (pc[p] = Blocked("wait4", Arg(-1)) /\ \E c \in Pids : state[c] = "zombie" /\ ppid[c] = p)
      ~> (pc[p].call # "wait4" \/ Stopped)

\* A process in pause(2) with an alarm armed does not sleep for ever: there is
\* no timer interrupt in the kernel, but schedule() spins for it.
PauseEnds ==
  \A p \in Pids :
    (pc[p].call = "pause" /\ alarm[p] = "once" /\ Live(p) /\ ALRM \notin sigmask[p])
      ~> (pc[p].call # "pause" \/ Stopped)

=============================================================================
