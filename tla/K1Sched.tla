------------------------------ MODULE K1Sched ------------------------------
(***************************************************************************)
(* The scheduler of the K1 kernel (k1/proc.c): the process list, the one   *)
(* CPU, sleep_on, wakeup and schedule.                                     *)
(*                                                                         *)
(* The kernel is not preemptible: a process owns the CPU from its system   *)
(* call or trap until schedule() switches to another one.  `mode` says     *)
(* where the CPU is on that path, so that each C function is one step and  *)
(* nothing interleaves but what the hardware interleaves (the timer tick   *)
(* in user code, the clock in schedule's spin).                            *)
(*                                                                         *)
(* proc_new puts a process at the head of `procs` and pids only grow, so   *)
(* the list is the live pids in descending order, and `p->next` is the     *)
(* next smaller live pid.                                                  *)
(***************************************************************************)
EXTENDS Integers, FiniteSets

CONSTANT MaxPid      \* the processes ever created: bounds nextpid
ASSUME MaxPidAssumption == MaxPid \in Nat \ {0}

Pids == 1..MaxPid

VARIABLES
  mode,     \* where the CPU is: user code, entry (a system call's first
            \* check_timers is done), kernel (resumed inside a blocking
            \* call), ret (syscall_c's tail), tick and fault (a trap about
            \* to deliver), sigret (rt_sigreturn's tail), exit (do_exit),
            \* sched (schedule), off (qemu_exit), panic
  cur,      \* the process that owns the CPU
  state,    \* state[p]: P_RUN, P_SLEEP, P_ZOMBIE, or free (not in procs)
  chan,     \* chan[p]: what p sleeps on
  pc        \* pc[p]: what p goes on with when it gets the CPU

schedVars == <<mode, cur, state, chan, pc>>

NoChan == <<"none", 0>>
ProcChan(p) == <<"proc", p>>          \* sleep_on(cur), sleep_on(c)

\* The arguments of a call that matter while it blocks or is made again.
NoArg  == <<0, 0, 0>>
Arg(a) == <<a, 0, 0>>

User          == [at |-> "user", call |-> "none", arg |-> NoArg]
Blocked(c, a) == [at |-> "blocked", call |-> c, arg |-> a]
Redo(c, a)    == [at |-> "redo", call |-> c, arg |-> a]   \* tf->rip -= 2
Exiting(st)   == [at |-> "exit", call |-> "none", arg |-> Arg(st)]

Live(p) == state[p] \in {"run", "sleep"}

\* wakeup(c), as the process states after it.
Woken(st, c) ==
  [p \in Pids |-> IF st[p] = "sleep" /\ chan[p] = c THEN "run" ELSE st[p]]

\* sleep_on(c) inside call k with argument a, up to its schedule().
SleepOn(c, k, a) ==
  /\ state' = [state EXCEPT ![cur] = "sleep"]
  /\ chan' = [chan EXCEPT ![cur] = c]
  /\ pc' = [pc EXCEPT ![cur] = Blocked(k, a)]
  /\ mode' = "sched"
  /\ cur' = cur

\* yield() inside call k with argument a: the caller stays runnable.
YieldIn(k, a) ==
  /\ pc' = [pc EXCEPT ![cur] = Blocked(k, a)]
  /\ mode' = "sched"
  /\ UNCHANGED <<cur, state, chan>>

\* A scheduler that starts every pass at the head of procs.
IsNextFromHead(q) == state[q] = "run" /\ \A r \in Pids : q < r => state[r] # "run"

\* The first P_RUN process from cur->next to the end of procs, then from its
\* head round to cur itself.
IsNext(q) ==
  /\ state[q] = "run"
  /\ \/ q < cur /\ \A r \in Pids : q < r /\ r < cur => state[r] # "run"
     \/ q >= cur /\ \A r \in Pids : r < cur \/ q < r => state[r] # "run"

\* switch_to: q goes on after its schedule() (sleep_on clears chan), or in
\* user code.
SwitchTo(q) ==
  /\ cur' = q
  /\ chan' = [chan EXCEPT ![q] = NoChan]
  /\ mode' = IF pc[q].at = "blocked" THEN "kernel" ELSE "user"
  /\ UNCHANGED <<state, pc>>

\* One pass of schedule(): switch, or panic when no one can run and no timer
\* is armed.  With a timer armed it spins: only check_timers can happen.
SchedulePass(timerPending) ==
  /\ mode = "sched"
  /\ \/ \E q \in Pids : IsNext(q) /\ SwitchTo(q)
     \/ /\ \A q \in Pids : state[q] # "run"
        /\ ~timerPending
        /\ mode' = "panic"
        /\ UNCHANGED <<cur, state, chan, pc>>

=============================================================================
