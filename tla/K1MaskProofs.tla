---------------------------- MODULE K1MaskProofs ----------------------------
(***************************************************************************)
(* The signal masks of K1Proc are right for every number of processes:     *)
(* user code runs under the mask its program set (MCProcSignal's history   *)
(* of masks), and a call is made again only behind a handler that allows   *)
(* it.                                                                     *)
(***************************************************************************)
EXTENDS K1WakeProofs, MCProcSignal

\* deliver_signals delivers the signal restart_ok looked at: a call is made
\* again behind a handler only if that handler has SA_RESTART.
THEOREM RestartsMatchHandlers == Spec => RestartMatchesHandler
<1>1. CallAll /\ [Next]_vars =>
        [mode = "ret" /\ pc[cur].at = "redo" /\ Len(frames'[cur]) > Len(frames[cur])
           => sa[cur][frames'[cur][1].sig].restart]_vars
  <2> SUFFICES ASSUME CallAll, Next, mode = "ret", pc[cur].at = "redo",
                      Len(frames'[cur]) > Len(frames[cur])
               PROVE  sa[cur][frames'[cur][1].sig].restart
    OBVIOUS
  <2>1. TypeOK /\ RestartOK
    BY DEF CallAll, TreeInv, SuspendInv, RestartAllowed
  <2>2. Len(frames[cur]) \in Nat /\ frames[cur] \in Seq(Frames) /\ frames'[cur] # frames[cur]
    BY <2>1 DEF TypeOK, SchedTypeOK, SigTypeOK
  <2>3. DeliverNothing \/ DeliverFatal \/ DeliverHandler
    BY DEF Next, SystemCall, Fork, VFork, Exec, ExecWith, Exit, Wait4, WaitNoHang, Pause, Sigsuspend,
           Alarm, Kill, Setpgid, Sigaction, Sigprocmask, Sigreturn, Calling, Nanosleep, Yield, Resumed,
           VForkResume, Wait4Resume, PauseResume, Tick, Fault, CheckTimers, InitExit, DoExit,
           Schedule, SchedulePass, Halted
  <2>4. DeliverHandler
    BY <2>1, <2>2, <2>3, FramesSame
  <2>5. PICK s, f : /\ s \in Sigs /\ IsNextSignal(s) /\ sa[cur][s].handler = "fn" /\ f.sig = s
                    /\ \/ frames' = frames
                       \/ frames' = [frames EXCEPT ![cur] = <<f>> \o @]
    BY <2>4 DEF DeliverHandler
  <2>6. frames'[cur] = <<f>> \o frames[cur]
    BY <2>1, <2>2, <2>5 DEF TypeOK, SchedTypeOK, SigTypeOK
  <2>7. frames'[cur][1] = f
    BY <2>2, <2>6
  <2>8. sa[cur][s].restart
    BY <2>1, <2>5 DEF RestartOK, Ignored
  <2> QED
    BY <2>5, <2>7, <2>8
<1> QED
  BY <1>1, CallAllHolds, PTL DEF Spec, RestartMatchesHandler

(* ---- the masks a program believes it runs under ---- *)

\* The frames on the stack of p hold the masks its program had when each handler
\* was entered, and the mask of p is the innermost of the program's masks, or a
\* wait has put that one aside.
MaskStack(p) ==
  /\ Len(masks[p]) = Len(frames[p]) + 1
  /\ \A i \in 1..Len(frames[p]) : frames[p][i].mask = masks[p][i + 1]
  /\ \/ suspend[p] = {} /\ sigmask[p] = masks[p][1]
     \/ suspend[p] = {masks[p][1]}

MasksTyped == masks \in [Pids -> Seq(SUBSET (Sigs \ Unmaskable))]
MaskInv ==
  /\ MasksTyped
  /\ \A p \in Pids : MaskStack(p) /\ (state[p] = "free" => masks[p] = <<{}>>)

\* Sequences with an element more in front, or one less.
LEMMA Pushed ==
  ASSUME NEW S, NEW s \in Seq(S), NEW e \in S
  PROVE  /\ <<e>> \o s \in Seq(S) /\ Len(<<e>> \o s) = Len(s) + 1
         /\ (<<e>> \o s)[1] = e
         /\ \A i \in 1..Len(s) : (<<e>> \o s)[i + 1] = s[i]
OBVIOUS

LEMMA Popped ==
  ASSUME NEW S, NEW s \in Seq(S), s # <<>>
  PROVE  /\ Tail(s) \in Seq(S) /\ Len(Tail(s)) = Len(s) - 1 /\ Len(s) \in Nat \ {0}
         /\ \A i \in 1..Len(s) - 1 : Tail(s)[i] = s[i + 1]
OBVIOUS

\* What a process has whose masks and frames stay.
Same(p) == /\ masks'[p] = masks[p] /\ frames'[p] = frames[p]
           /\ sigmask'[p] = sigmask[p] /\ suspend'[p] = suspend[p]

LEMMA SameStack ==
  ASSUME NEW p \in Pids, MaskStack(p), Same(p)
  PROVE  MaskStack(p)'
BY DEF MaskStack, Same

\* A stack that matches after a step.
LEMMA NewStack ==
  ASSUME NEW p \in Pids, NEW fs, NEW ms, frames'[p] = fs, masks'[p] = ms,
         Len(ms) = Len(fs) + 1, \A i \in 1..Len(fs) : fs[i].mask = ms[i + 1],
         suspend'[p] = {}, sigmask'[p] = ms[1]
  PROVE  MaskStack(p)'
BY DEF MaskStack

\* A process inside no handler.
LEMMA OneMask ==
  ASSUME NEW p \in Pids, NEW m, frames'[p] = <<>>, masks'[p] = <<m>>,
         suspend'[p] = {}, sigmask'[p] = m
  PROVE  MaskStack(p)'
<1>1. Len(frames'[p]) = 0 /\ Len(masks'[p]) = 1 /\ masks'[p][1] = m
  OBVIOUS
<1> QED
  BY <1>1 DEF MaskStack

\* deliver_signals' frame holds the innermost of the program's masks.
LEMMA ProgramTop ==
  ASSUME MaskStack(cur)
  PROVE  ProgramMask = masks[cur][1]
<1>1. CASE suspend[cur] = {}
  BY <1>1 DEF MaskStack, ProgramMask
<1>2. CASE suspend[cur] = {masks[cur][1]}
  BY <1>2, Zenon DEF ProgramMask
<1> QED
  BY <1>1, <1>2 DEF MaskStack

\* sigprocmask changes the innermost mask.
LEMMA MaskSet ==
  ASSUME TypeOK, MaskInv, suspend[cur] = {}, Sigprocmask, SetTop(cur, sigmask'[cur])
  PROVE  MasksTyped' /\ \A p \in Pids : MaskStack(p)'
<1> DEFINE old == masks[cur]
           new == sigmask'[cur]
<1>1. /\ cur \in Pids /\ frames' = frames /\ suspend' = suspend
      /\ \A p \in Pids \ {cur} : sigmask'[p] = sigmask[p]
  <2>1. PICK x : sigmask' = [sigmask EXCEPT ![cur] = x]
    BY DEF Sigprocmask
  <2> QED
    BY <2>1 DEF TypeOK, SchedTypeOK, SigTypeOK, Sigprocmask
<1>2. new \in SUBSET (Sigs \ Unmaskable)
  <2>0. Kill \/ Setpgid \/ Sigaction \/ Sigprocmask \/ Sigreturn
    OBVIOUS
  <2>1. TypeOK'
    BY <2>0, TypeSignal
  <2> QED
    BY <1>1, <2>1 DEF TypeOK, SigTypeOK, Unmaskable
<1>3. masks' = [masks EXCEPT ![cur] = <<new>> \o Tail(old)]
  BY DEF SetTop
<1>4. MasksTyped /\ MaskStack(cur) /\ \A p \in Pids : MaskStack(p)
  BY <1>1 DEF MaskInv
<1>5. old \in Seq(SUBSET (Sigs \ Unmaskable)) /\ old # <<>> /\ Len(old) = Len(frames[cur]) + 1
  <2>1. old \in Seq(SUBSET (Sigs \ Unmaskable)) /\ frames[cur] \in Seq(Frames) /\ Len(old) = Len(frames[cur]) + 1
    BY <1>1, <1>4 DEF MaskStack, MasksTyped, TypeOK, SigTypeOK
  <2> QED
    BY <2>1
<1> HIDE DEF new, old
<1>6. /\ Tail(old) \in Seq(SUBSET (Sigs \ Unmaskable)) /\ Len(Tail(old)) = Len(frames[cur])
      /\ Len(frames[cur]) \in Nat
      /\ \A i \in 1..Len(frames[cur]) : Tail(old)[i] = old[i + 1]
  BY <1>1, <1>5, Popped DEF TypeOK, SigTypeOK
<1>7. /\ <<new>> \o Tail(old) \in Seq(SUBSET (Sigs \ Unmaskable))
      /\ Len(<<new>> \o Tail(old)) = Len(frames[cur]) + 1
      /\ (<<new>> \o Tail(old))[1] = new
      /\ \A i \in 1..Len(frames[cur]) : (<<new>> \o Tail(old))[i + 1] = old[i + 1]
  BY <1>2, <1>6, Pushed
<1>8. masks'[cur] = <<new>> \o Tail(old) /\ MasksTyped'
  BY <1>1, <1>3, <1>4, <1>7 DEF MasksTyped
<1>9. ASSUME NEW p \in Pids, p = cur PROVE MaskStack(p)'
  <2>2. sigmask'[cur] = new /\ suspend'[cur] = {}
    BY <1>1 DEF new
  <2>3. \A i \in 1..Len(frames[cur]) : frames[cur][i].mask = old[i + 1]
    BY <1>4 DEF MaskStack, old
  <2> QED
    BY <1>1, <1>7, <1>8, <1>9, <2>2, <2>3 DEF MaskStack
<1>10. \A p \in Pids \ {cur} : MaskStack(p)'
  <2> SUFFICES ASSUME NEW p \in Pids \ {cur} PROVE MaskStack(p)'
    OBVIOUS
  <2>1. Same(p)
    BY <1>1, <1>3, <1>4 DEF Same, MasksTyped
  <2> QED
    BY <1>4, <2>1, SameStack
<1> QED
  BY <1>8, <1>9, <1>10

\* What the frames and masks of the running process are.
LEMMA Stacks ==
  ASSUME TypeOK, MaskInv
  PROVE  /\ cur \in Pids /\ MasksTyped /\ (\A p \in Pids : MaskStack(p))
         /\ frames[cur] \in Seq(Frames) /\ masks[cur] \in Seq(SUBSET (Sigs \ Unmaskable))
         /\ Len(masks[cur]) = Len(frames[cur]) + 1 /\ Len(frames[cur]) \in Nat
         /\ masks[cur] # <<>> /\ masks[cur][1] \in SUBSET (Sigs \ Unmaskable)
<1>1. /\ cur \in Pids /\ MasksTyped /\ (\A p \in Pids : MaskStack(p))
      /\ frames[cur] \in Seq(Frames)
  BY DEF TypeOK, SchedTypeOK, SigTypeOK, MaskInv
<1>2. masks[cur] \in Seq(SUBSET (Sigs \ Unmaskable)) /\ Len(masks[cur]) = Len(frames[cur]) + 1
  BY <1>1 DEF MasksTyped, MaskStack
<1>3. Len(frames[cur]) \in Nat
  BY <1>1
<1>4. masks[cur] # <<>> /\ 1 \in 1..Len(masks[cur])
  BY <1>2, <1>3
<1>5. masks[cur][1] \in SUBSET (Sigs \ Unmaskable)
  BY <1>2, <1>4
<1> QED
  BY <1>1, <1>2, <1>3, <1>4, <1>5

\* The processes but p keep their masks: only p's need a look.
LEMMA OneStack ==
  ASSUME TypeOK, MaskInv, NEW p \in Pids, NEW x \in Seq(SUBSET (Sigs \ Unmaskable)),
         masks' = [masks EXCEPT ![p] = x],
         /\ \A q \in Pids \ {p} : /\ frames'[q] = frames[q]
                                  /\ sigmask'[q] = sigmask[q] /\ suspend'[q] = suspend[q]
         /\ MaskStack(p)'
  PROVE  MasksTyped' /\ \A q \in Pids : MaskStack(q)'
<1>1. MasksTyped /\ \A q \in Pids : MaskStack(q)
  BY DEF MaskInv
<1>2. MasksTyped' /\ \A q \in Pids \ {p} : masks'[q] = masks[q]
  BY <1>1 DEF MasksTyped
<1>3. \A q \in Pids \ {p} : Same(q)
  BY <1>2 DEF Same
<1> QED
  BY <1>1, <1>2, <1>3, SameStack

\* rt_sigreturn leaves a handler: the mask of the frame is back.
LEMMA MaskReturn ==
  ASSUME TypeOK, MaskInv, suspend[cur] = {}, Sigreturn,
         masks' = [masks EXCEPT ![cur] = Tail(@)]
  PROVE  MasksTyped' /\ \A p \in Pids : MaskStack(p)'
<1> DEFINE stack == frames[cur]
           old == masks[cur]
<1>1. /\ stack # <<>> /\ suspend' = suspend
      /\ sigmask' = [sigmask EXCEPT ![cur] = stack[1].mask \ Unmaskable]
      /\ frames' = [frames EXCEPT ![cur] = Tail(stack)]
      /\ masks' = [masks EXCEPT ![cur] = Tail(old)]
  BY DEF Sigreturn
<1>2. /\ cur \in Pids /\ stack \in Seq(Frames) /\ old \in Seq(SUBSET (Sigs \ Unmaskable))
      /\ Len(old) = Len(stack) + 1 /\ old # <<>>
      /\ \A i \in 1..Len(stack) : stack[i].mask = old[i + 1]
  BY Stacks DEF MaskStack
<1>3. /\ sigmask'[cur] = stack[1].mask \ Unmaskable /\ frames'[cur] = Tail(stack)
      /\ masks'[cur] = Tail(old) /\ suspend'[cur] = {}
      /\ \A q \in Pids \ {cur} : /\ frames'[q] = frames[q]
                                 /\ sigmask'[q] = sigmask[q] /\ suspend'[q] = suspend[q]
  BY <1>1, <1>2 DEF TypeOK, SigTypeOK, MaskInv, MasksTyped
<1> HIDE DEF stack, old
<1>4. /\ Tail(stack) \in Seq(Frames) /\ Len(Tail(stack)) = Len(stack) - 1 /\ Len(stack) \in Nat \ {0}
      /\ \A i \in 1..Len(stack) - 1 : Tail(stack)[i] = stack[i + 1]
  BY <1>1, <1>2, Popped
<1>5. /\ Tail(old) \in Seq(SUBSET (Sigs \ Unmaskable)) /\ Len(Tail(old)) = Len(stack)
      /\ \A i \in 1..Len(stack) : Tail(old)[i] = old[i + 1]
  BY <1>2, <1>4, Popped
<1>6. stack[1].mask = Tail(old)[1] /\ Tail(old)[1] \in SUBSET (Sigs \ Unmaskable)
  BY <1>2, <1>4, <1>5
<1>7. \A i \in 1..Len(Tail(stack)) : Tail(stack)[i].mask = Tail(old)[i + 1]
  <2> SUFFICES ASSUME NEW i \in 1..Len(Tail(stack)) PROVE Tail(stack)[i].mask = Tail(old)[i + 1]
    OBVIOUS
  <2>1. i \in 1..Len(stack) - 1 /\ i + 1 \in 1..Len(stack)
    BY <1>4
  <2> QED
    BY <1>2, <1>4, <1>5, <2>1
<1>8. ASSUME NEW p \in Pids, p = cur PROVE MaskStack(p)'
  <2>1. sigmask'[cur] = Tail(old)[1]
    BY <1>3, <1>6
  <2>2. Len(Tail(old)) = Len(Tail(stack)) + 1
    BY <1>4, <1>5
  <2>3. frames'[p] = Tail(stack) /\ masks'[p] = Tail(old) /\ suspend'[p] = {} /\ sigmask'[p] = Tail(old)[1]
    BY <1>3, <1>8, <2>1
  <2> QED
    BY <1>7, <2>2, <2>3, NewStack
<1> QED
  BY <1>1, <1>2, <1>3, <1>5, <1>8, OneStack

\* A handler runs on a frame that holds the mask its program had, under its own.
LEMMA MaskPush ==
  ASSUME TypeOK, TypeOK', MaskInv, NEW f, f.mask = ProgramMask,
         frames' = [frames EXCEPT ![cur] = <<f>> \o @], f \in Frames,
         suspend' = [suspend EXCEPT ![cur] = {}], cur' = cur,
         NEW x, sigmask' = [sigmask EXCEPT ![cur] = x],
         masks' = [masks EXCEPT ![cur] = <<sigmask'[cur]>> \o @]
  PROVE  MasksTyped' /\ \A p \in Pids : MaskStack(p)'
<1> DEFINE stack == frames[cur]
           old == masks[cur]
<1>1. /\ cur \in Pids /\ stack \in Seq(Frames) /\ old \in Seq(SUBSET (Sigs \ Unmaskable))
      /\ Len(old) = Len(stack) + 1 /\ Len(stack) \in Nat /\ f.mask = old[1]
      /\ \A i \in 1..Len(stack) : stack[i].mask = old[i + 1]
  <2>1. MaskStack(cur)
    BY Stacks
  <2> QED
    BY <2>1, Stacks, ProgramTop DEF MaskStack
<1>2. /\ sigmask'[cur] = x /\ frames'[cur] = <<f>> \o stack
      /\ masks'[cur] = <<x>> \o old /\ suspend'[cur] = {}
      /\ masks' = [masks EXCEPT ![cur] = <<x>> \o old]
      /\ \A q \in Pids \ {cur} : /\ frames'[q] = frames[q]
                                 /\ sigmask'[q] = sigmask[q] /\ suspend'[q] = suspend[q]
  BY <1>1 DEF TypeOK, SigTypeOK, MaskInv, MasksTyped
<1>3. x \in SUBSET (Sigs \ Unmaskable)
  BY <1>1, <1>2 DEF TypeOK, SigTypeOK, Unmaskable
<1> HIDE DEF stack, old
<1>4. /\ <<f>> \o stack \in Seq(Frames) /\ Len(<<f>> \o stack) = Len(stack) + 1
      /\ (<<f>> \o stack)[1] = f
      /\ \A i \in 1..Len(stack) : (<<f>> \o stack)[i + 1] = stack[i]
  BY <1>1, Pushed
<1>5. /\ <<x>> \o old \in Seq(SUBSET (Sigs \ Unmaskable)) /\ Len(<<x>> \o old) = Len(old) + 1
      /\ (<<x>> \o old)[1] = x
      /\ \A i \in 1..Len(old) : (<<x>> \o old)[i + 1] = old[i]
  BY <1>1, <1>3, Pushed
<1>6. \A i \in 1..Len(<<f>> \o stack) : (<<f>> \o stack)[i].mask = (<<x>> \o old)[i + 1]
  <2> SUFFICES ASSUME NEW i \in 1..Len(<<f>> \o stack)
               PROVE  (<<f>> \o stack)[i].mask = (<<x>> \o old)[i + 1]
    OBVIOUS
  <2>1. i \in 1..Len(old)
    BY <1>1, <1>4
  <2>2. (<<x>> \o old)[i + 1] = old[i]
    BY <1>5, <2>1
  <2>3. CASE i = 1
    BY <1>1, <1>4, <2>2, <2>3
  <2>4. CASE i # 1
    <3>1. PICK j \in 1..Len(stack) : i = j + 1
      <4>1. i - 1 \in 1..Len(stack)
        BY <1>1, <1>4, <2>1, <2>4
      <4> QED
        BY <4>1
    <3>2. (<<f>> \o stack)[i] = stack[j] /\ stack[j].mask = old[j + 1]
      BY <1>1, <1>4, <3>1
    <3> QED
      BY <2>2, <3>1, <3>2
  <2> QED
    BY <2>3, <2>4
<1>7. ASSUME NEW p \in Pids, p = cur PROVE MaskStack(p)'
  <2>1. /\ frames'[p] = <<f>> \o stack /\ masks'[p] = <<x>> \o old
        /\ suspend'[p] = {} /\ sigmask'[p] = (<<x>> \o old)[1]
    BY <1>2, <1>5, <1>7
  <2>2. Len(<<x>> \o old) = Len(<<f>> \o stack) + 1
    BY <1>1, <1>4, <1>5
  <2> QED
    BY <1>6, <2>1, <2>2, NewStack
<1> QED
  BY <1>1, <1>2, <1>5, <1>7, OneStack

\* A child has its parent's masks and frames.
LEMMA MaskFork ==
  ASSUME TreeInv, CallInv, SuspendInv, MaskInv, Fork \/ VFork,
         masks' = [masks EXCEPT ![nextpid] = masks[cur]]
  PROVE  /\ MasksTyped' /\ \A p \in Pids : MaskStack(p)'
         /\ nextpid \in Pids /\ state'[nextpid] # "free"
<1>1. TypeOK /\ CurRuns /\ Fresh /\ Dying /\ WaitMasks /\ FreeClean
  BY DEF TreeInv, SuspendInv
<1>2. PICK c \in Pids : Bears(c)
  BY <1>1, ForkBears
<1>3. /\ c = nextpid /\ cur \in Pids /\ state[c] = "free" /\ state'[c] = "run"
      /\ mode \in {"user", "entry"}
  <2>1. c = nextpid /\ state'[c] = "run"
    BY <1>2 DEF Bears
  <2>2. cur \in Pids /\ mode \in {"user", "entry"}
    BY <1>1 DEF Fork, VFork, Calling, TypeOK, SchedTypeOK
  <2>3. state[c] = "free"
    BY <1>1, <2>1 DEF Fresh, Pids
  <2> QED
    BY <2>1, <2>2, <2>3
<1>4. suspend[cur] = {} /\ suspend[c] = {} /\ suspend' = suspend
  BY <1>1, <1>3, NotWaiting, SuspendSame DEF FreeClean
<1>5. /\ frames' = [frames EXCEPT ![c] = frames[cur]]
      /\ sigmask' = [sigmask EXCEPT ![c] = sigmask[cur]]
      /\ masks' = [masks EXCEPT ![c] = masks[cur]]
  BY <1>3 DEF Fork, VFork, NewChild
<1>6. /\ frames'[c] = frames[cur] /\ sigmask'[c] = sigmask[cur] /\ masks'[c] = masks[cur]
      /\ \A q \in Pids \ {c} : /\ frames'[q] = frames[q]
                               /\ sigmask'[q] = sigmask[q] /\ suspend'[q] = suspend[q]
  BY <1>1, <1>4, <1>5 DEF TypeOK, SigTypeOK, MaskInv, MasksTyped
<1>7. /\ Len(masks[cur]) = Len(frames[cur]) + 1 /\ masks[cur] \in Seq(SUBSET (Sigs \ Unmaskable))
      /\ \A i \in 1..Len(frames[cur]) : frames[cur][i].mask = masks[cur][i + 1]
      /\ sigmask[cur] = masks[cur][1]
  BY <1>1, <1>4, Stacks DEF MaskStack
<1>8. MaskStack(c)'
  BY <1>4, <1>6, <1>7, NewStack
<1>9. MasksTyped' /\ \A p \in Pids : MaskStack(p)'
  BY <1>1, <1>5, <1>6, <1>7, <1>8, OneStack
<1> QED
  BY <1>2, <1>3, <1>9

\* A new program has the innermost mask of the old one and no handler to end.
LEMMA MaskExec ==
  ASSUME TypeOK, MaskInv, suspend[cur] = {}, Exec,
         masks' = [masks EXCEPT ![cur] = <<Head(@)>>]
  PROVE  MasksTyped' /\ \A p \in Pids : MaskStack(p)'
<1>1. /\ frames' = [frames EXCEPT ![cur] = <<>>]
      /\ sigmask' = sigmask /\ suspend' = suspend
  BY DEF Exec, ExecWith
<1>2. /\ cur \in Pids /\ masks[cur][1] \in SUBSET (Sigs \ Unmaskable) /\ Head(masks[cur]) = masks[cur][1]
      /\ sigmask[cur] = masks[cur][1]
  <2>1. cur \in Pids /\ masks[cur][1] \in SUBSET (Sigs \ Unmaskable) /\ MaskStack(cur)
    BY Stacks
  <2>2. masks[cur] # <<>> /\ masks[cur] \in Seq(SUBSET (Sigs \ Unmaskable))
    BY Stacks
  <2>3. Head(masks[cur]) = masks[cur][1]
    BY <2>2
  <2>4. sigmask[cur] = masks[cur][1]
    BY <2>1 DEF MaskStack
  <2> QED
    BY <2>1, <2>3, <2>4
<1> DEFINE top == masks[cur][1]
<1>3. /\ frames'[cur] = <<>> /\ sigmask'[cur] = top /\ suspend'[cur] = {}
      /\ masks' = [masks EXCEPT ![cur] = <<top>>] /\ masks'[cur] = <<top>>
      /\ \A q \in Pids \ {cur} : /\ frames'[q] = frames[q]
                                 /\ sigmask'[q] = sigmask[q] /\ suspend'[q] = suspend[q]
  BY <1>1, <1>2 DEF TypeOK, SigTypeOK, MaskInv, MasksTyped
<1> HIDE DEF top
<1>4. <<top>> \in Seq(SUBSET (Sigs \ Unmaskable))
  BY <1>2 DEF top
<1>5. ASSUME NEW p \in Pids, p = cur PROVE MaskStack(p)'
  BY <1>3, <1>5, OneMask
<1> QED
  BY <1>2, <1>3, <1>4, <1>5, OneStack

\* sigsuspend puts the program's mask aside.
LEMMA MaskAside ==
  ASSUME TypeOK, MaskInv, suspend[cur] = {}, Sigsuspend, masks' = masks
  PROVE  MasksTyped' /\ \A p \in Pids : MaskStack(p)'
<1>1. PICK x : sigmask' = [sigmask EXCEPT ![cur] = x]
  BY DEF Sigsuspend
<1>2. frames' = frames /\ suspend' = [suspend EXCEPT ![cur] = {sigmask[cur]}]
  BY DEF Sigsuspend
<1>3. cur \in Pids /\ MasksTyped /\ (\A p \in Pids : MaskStack(p)) /\ sigmask[cur] = masks[cur][1]
  BY Stacks DEF MaskStack
<1>4. MasksTyped' /\ suspend'[cur] = {masks[cur][1]}
  BY <1>2, <1>3 DEF TypeOK, SigTypeOK, MasksTyped
<1>5. \A p \in Pids \ {cur} : Same(p)
  BY <1>1, <1>2 DEF Same, TypeOK, SigTypeOK
<1>6. ASSUME NEW p \in Pids, p = cur PROVE MaskStack(p)'
  BY <1>2, <1>3, <1>4, <1>6 DEF MaskStack
<1> QED
  BY <1>3, <1>4, <1>5, <1>6, SameStack

\* The tail of a wait that ran no handler brings the program's mask back.
LEMMA MaskBack ==
  ASSUME TypeOK, MaskInv, DeliverNothing, masks' = masks
  PROVE  MasksTyped' /\ \A p \in Pids : MaskStack(p)'
<1>1. cur \in Pids /\ MasksTyped /\ (\A p \in Pids : MaskStack(p)) /\ frames' = frames
  BY Stacks, FramesSame
<1>2. MasksTyped'
  BY <1>1 DEF MasksTyped
<1>3. CASE UNCHANGED <<sigmask, suspend>>
  <2>1. \A p \in Pids : Same(p)
    BY <1>1, <1>3 DEF Same
  <2> QED
    BY <1>1, <1>2, <2>1, SameStack
<1>4. CASE Unsuspend
  <2>1. sigmask' = [sigmask EXCEPT ![cur] = masks[cur][1]] /\ suspend' = [suspend EXCEPT ![cur] = {}]
    BY <1>1, <1>4, ProgramTop DEF Unsuspend
  <2>2. \A p \in Pids \ {cur} : Same(p)
    BY <1>1, <2>1 DEF Same, TypeOK, SigTypeOK
  <2>3. sigmask'[cur] = masks[cur][1] /\ suspend'[cur] = {}
    BY <1>1, <2>1 DEF TypeOK, SigTypeOK
  <2>4. ASSUME NEW p \in Pids, p = cur PROVE MaskStack(p)'
    BY <1>1, <2>3, <2>4 DEF MaskStack
  <2> QED
    BY <1>1, <1>2, <2>2, <2>4, SameStack
<1> QED
  BY <1>3, <1>4 DEF DeliverNothing

\* deliver_signals: a handler on a new frame, or no room for one.
LEMMA MaskDeliver ==
  ASSUME TypeOK, MaskInv, DeliverHandler,
         masks' = IF mode' = "exit" THEN masks ELSE [masks EXCEPT ![cur] = <<sigmask'[cur]>> \o @]
  PROVE  MasksTyped' /\ \A p \in Pids : MaskStack(p)'
<1>1. TypeOK'
  BY TypeDeliver
<1>2. CASE GoExit(SEGV) /\ UNCHANGED <<sigmask, sa, suspend, frames, asyncfull>>
  <2>1. masks' = masks
    BY <1>2 DEF GoExit
  <2>2. \A p \in Pids : Same(p)
    BY <1>2, <2>1 DEF Same
  <2> QED
    BY <2>1, <2>2, SameStack DEF MaskInv, MasksTyped
<1>3. CASE ~(GoExit(SEGV) /\ UNCHANGED <<sigmask, sa, suspend, frames, asyncfull>>)
  <2>1. PICK s \in Sigs :
          /\ frames' = [frames EXCEPT ![cur] =
               <<[sig |-> s, saved |-> pc[cur], full |-> asyncfull, addr |-> mode = "fault",
                  mask |-> ProgramMask]>> \o @]
          /\ suspend' = [suspend EXCEPT ![cur] = {}]
          /\ sigmask' = [sigmask EXCEPT ![cur] =
               (@ \cup sa[cur][s].mask \cup (IF sa[cur][s].nodefer THEN {} ELSE {s})) \ Unmaskable]
          /\ GoOn /\ cur' = cur
    BY <1>3 DEF DeliverHandler
  <2> DEFINE f == [sig |-> s, saved |-> pc[cur], full |-> asyncfull, addr |-> mode = "fault",
                   mask |-> ProgramMask]
             x == (sigmask[cur] \cup sa[cur][s].mask \cup
                     (IF sa[cur][s].nodefer THEN {} ELSE {s})) \ Unmaskable
  <2>2. f.mask = ProgramMask
    OBVIOUS
  <2>3. f \in Frames
    <3>1. ProgramMask \in SUBSET Sigs
      BY MaskType
    <3>2. pc[cur] \in PCs /\ asyncfull \in BOOLEAN
      BY DEF TypeOK, SchedTypeOK, SigTypeOK
    <3> QED
      BY <3>1, <3>2 DEF Frames
  <2>4. /\ frames' = [frames EXCEPT ![cur] = <<f>> \o @]
        /\ suspend' = [suspend EXCEPT ![cur] = {}] /\ cur' = cur
        /\ sigmask' = [sigmask EXCEPT ![cur] = x]
    BY <2>1
  <2>5. masks' = [masks EXCEPT ![cur] = <<sigmask'[cur]>> \o @]
    BY <2>1 DEF GoOn
  <2> HIDE DEF f, x
  <2> QED
    BY <1>1, <2>2, <2>3, <2>4, <2>5, MaskPush
<1> QED
  BY <1>2, <1>3

\* wait4 takes the masks of the one it reaps.
LEMMA MaskReap ==
  ASSUME TreeInv, MaskInv, Wait4 \/ Wait4Resume \/ WaitNoHang,
         masks' = [p \in Pids |-> IF state'[p] = "free" THEN <<{}>> ELSE masks[p]]
  PROVE  MasksTyped' /\ \A p \in Pids : MaskStack(p)'
<1>1. TypeOK /\ CurRuns
  BY DEF TreeInv
<1>2. MasksTyped /\ \A p \in Pids : MaskStack(p) /\ (state[p] = "free" => masks[p] = <<{}>>)
  BY DEF MaskInv
<1>3. {} \in SUBSET (Sigs \ Unmaskable) /\ <<{}>> \in Seq(SUBSET (Sigs \ Unmaskable))
  OBVIOUS
<1>4. MasksTyped'
  BY <1>2, <1>3 DEF MasksTyped
<1>5. CASE \E z \in Pids : Reap(z)
  <2>1. PICK z \in Pids : Reap(z)
    BY <1>5
  <2>2. /\ frames' = [frames EXCEPT ![z] = <<>>] /\ sigmask' = [sigmask EXCEPT ![z] = {}]
        /\ suspend' = [suspend EXCEPT ![z] = {}] /\ state' = [state EXCEPT ![z] = "free"]
    BY <2>1 DEF Reap
  <2>3. /\ frames'[z] = <<>> /\ sigmask'[z] = {} /\ suspend'[z] = {} /\ masks'[z] = <<{}>>
        /\ \A p \in Pids \ {z} : /\ frames'[p] = frames[p] /\ sigmask'[p] = sigmask[p]
                                 /\ suspend'[p] = suspend[p] /\ state'[p] = state[p]
    BY <1>1, <2>2 DEF TypeOK, SchedTypeOK, SigTypeOK
  <2>4. \A p \in Pids \ {z} : Same(p)
    BY <1>2, <2>3 DEF Same
  <2>6. MaskStack(z)'
    BY <2>3, OneMask
  <2> QED
    BY <1>2, <1>4, <2>4, <2>6, SameStack
<1>6. CASE UNCHANGED sigVars /\ \A p \in Pids : state'[p] = "free" => state[p] = "free"
  <2>1. \A p \in Pids : Same(p)
    BY <1>2, <1>6 DEF Same, sigVars
  <2> QED
    BY <1>2, <1>4, <2>1, SameStack
<1> QED
  <2>1. PICK a, nohang : Wait4Pass(a, nohang)
    BY DEF Wait4, WaitNoHang, Wait4Resume
  <2>2. \A z \in ZombiesOf(a) : z \in Pids
    BY DEF ZombiesOf, Waited, Children
  <2>3. /\ ReturnOnly => state' = state
        /\ \A st : GoExit(st) => state' = state
        /\ \A c, x : Restart(c, x) => state' = state
        /\ \A ch, c, x : SleepOn(ch, c, x) => state' = [state EXCEPT ![cur] = "sleep"]
    BY DEF ReturnOnly, GoExit, Restart, SleepOn
  <2>4. state \in [Pids -> {"free", "run", "sleep", "zombie"}]
    BY <1>1 DEF TypeOK, SchedTypeOK
  <2> QED
    BY <1>5, <1>6, <2>1, <2>2, <2>3, <2>4 DEF Wait4Pass

\* No other step changes a mask.
LEMMA SigmaskSame ==
  ASSUME TypeOK,
         \/ Exit \/ Alarm \/ Kill \/ Setpgid \/ Sigaction \/ Nanosleep \/ Yield \/ Pause
         \/ VForkResume \/ PauseResume \/ Tick \/ Fault \/ CheckTimers
         \/ DeliverFatal \/ InitExit \/ DoExit \/ Schedule \/ Halted
  PROVE  sigmask' = sigmask
BY DEF Exit, Pause, Alarm, Kill, Setpgid, Sigaction, Nanosleep, Yield, VForkResume, PauseResume,
       Tick, Fault, CheckTimers, DeliverFatal, InitExit, DoExit, ExitWith, Schedule, Halted,
       sigVars, vars

\* A step that leaves every mask alone.
LEMMA MaskSame ==
  ASSUME MaskInv, UNCHANGED <<masks, frames, sigmask, suspend>>
  PROVE  MasksTyped' /\ \A p \in Pids : MaskStack(p)'
<1>1. \A p \in Pids : Same(p)
  BY DEF Same
<1> QED
  BY <1>1, SameStack DEF MaskInv, MasksTyped

\* The stacks match after every step.
LEMMA MaskKept ==
  ASSUME CallAll, MaskInv, MCStep
  PROVE  MasksTyped' /\ \A p \in Pids : MaskStack(p)'
<1>1. /\ TreeInv /\ TypeOK /\ CurRuns /\ CallInv /\ SuspendInv /\ Dying /\ WaitMasks
  BY DEF CallAll, TreeInv, SuspendInv
<1>2. mode \in {"user", "entry"} => suspend[cur] = {}
  BY <1>1, NotWaiting
<1>3. ASSUME Sigprocmask, SetTop(cur, sigmask'[cur]) PROVE MasksTyped' /\ \A p \in Pids : MaskStack(p)'
  BY <1>1, <1>2, <1>3, MaskSet DEF Sigprocmask, Calling
<1>4. ASSUME Sigreturn, masks' = [masks EXCEPT ![cur] = Tail(@)]
      PROVE  MasksTyped' /\ \A p \in Pids : MaskStack(p)'
  <2>1. suspend[cur] = {}
    BY <1>2, <1>4 DEF Sigreturn
  <2> QED
    BY <1>1, <1>4, <2>1, MaskReturn
<1>5. ASSUME Exec, masks' = [masks EXCEPT ![cur] = <<Head(@)>>]
      PROVE  MasksTyped' /\ \A p \in Pids : MaskStack(p)'
  <2>1. suspend[cur] = {}
    BY <1>2, <1>5 DEF Exec, ExecWith, Calling
  <2> QED
    BY <1>1, <1>5, <2>1, MaskExec
<1>6. ASSUME Sigsuspend, UNCHANGED masks PROVE MasksTyped' /\ \A p \in Pids : MaskStack(p)'
  <2>1. suspend[cur] = {}
    BY <1>2, <1>6 DEF Sigsuspend, Calling
  <2> QED
    BY <1>1, <1>6, <2>1, MaskAside
<1>7. ASSUME UNCHANGED masks,
             \/ Exit \/ Alarm \/ Kill \/ Setpgid \/ Sigaction \/ Nanosleep \/ Yield \/ Pause
             \/ VForkResume \/ PauseResume \/ Tick \/ Fault \/ CheckTimers
             \/ DeliverFatal \/ InitExit \/ DoExit \/ Schedule \/ Halted
      PROVE  MasksTyped' /\ \A p \in Pids : MaskStack(p)'
  <2>1. sigmask' = sigmask
    BY <1>1, <1>7, SigmaskSame
  <2>2. suspend' = suspend
    BY <1>1, <1>7, SuspendSame
  <2>3. frames' = frames
    BY <1>1, <1>7, FramesSame
  <2> QED
    BY <1>7, <2>1, <2>2, <2>3, MaskSame
<1> QED
  BY <1>1, <1>3, <1>4, <1>5, <1>6, <1>7, MaskDeliver, MaskFork, MaskReap, MaskBack DEF MCStep

\* A step of the machine with its history is a step of K1Proc.
LEMMA MCStepNext == MCStep => Next
BY DEF MCStep, Next, SystemCall

\* A pid that is not in use has the mask of a new process.
LEMMA MaskFree ==
  ASSUME CallAll, MaskInv, MCStep, NEW p \in Pids, state'[p] = "free"
  PROVE  masks'[p] = <<{}>>
<1>1. /\ TreeInv /\ TypeOK /\ CurRuns /\ CallInv /\ SuspendInv /\ MasksTyped /\ Next
      /\ cur \in Pids
  BY MCStepNext DEF CallAll, TreeInv, MaskInv, TypeOK, SchedTypeOK
<1>2. CASE masks' = [q \in Pids |-> IF state'[q] = "free" THEN <<{}>> ELSE masks[q]]
  BY <1>2
<1>3. (Quiet \/ Ends) => state[p] = "free"
  <2>1. Quiet => state[p] = "free"
    BY DEF Quiet, Live
  <2>2. Ends => state[p] = "free"
    BY <1>1 DEF Ends, TypeOK, SchedTypeOK
  <2> QED
    BY <2>1, <2>2
<1>4. state[p] = "free" => masks[p] = <<{}>>
  BY DEF MaskInv
<1>5. ASSUME NEW x, masks' = [masks EXCEPT ![cur] = x], Quiet, state[cur] = "run"
      PROVE  masks'[p] = <<{}>>
  <2>1. p # cur /\ state[p] = "free"
    BY <1>3, <1>5
  <2> QED
    BY <1>1, <1>4, <1>5, <2>1 DEF MasksTyped
<1>6. ASSUME masks' = masks, Quiet \/ Ends PROVE masks'[p] = <<{}>>
  BY <1>3, <1>4, <1>6
<1>7. ASSUME Fork \/ VFork, masks' = [masks EXCEPT ![nextpid] = masks[cur]]
      PROVE  masks'[p] = <<{}>>
  <2>1. PICK c \in Pids : Bears(c)
    BY <1>1, <1>7, ForkBears DEF TreeInv
  <2>2. c = nextpid /\ p # c /\ state[p] = "free"
    BY <1>1, <2>1 DEF Bears, TypeOK, SchedTypeOK
  <2> QED
    BY <1>1, <1>4, <1>7, <2>2 DEF MasksTyped
<1>8. mode \in {"user", "entry", "ret", "tick", "fault", "sigret"} => state[cur] = "run"
  BY <1>1 DEF CurRuns
<1>9. ASSUME \/ Sigprocmask /\ SetTop(cur, sigmask'[cur])
             \/ Sigreturn /\ masks' = [masks EXCEPT ![cur] = Tail(@)]
             \/ Exec /\ masks' = [masks EXCEPT ![cur] = <<Head(@)>>]
      PROVE  masks'[p] = <<{}>>
  <2>1. Quiet
    BY <1>1, <1>9, QuietCalls
  <2>2. state[cur] = "run"
    BY <1>8, <1>9 DEF Sigprocmask, Sigreturn, Exec, ExecWith, Calling
  <2>3. \E x : masks' = [masks EXCEPT ![cur] = x]
    BY <1>9 DEF SetTop
  <2> QED
    BY <1>5, <2>1, <2>2, <2>3
<1>10. ASSUME DeliverHandler, masks' = IF mode' = "exit" THEN masks
                                       ELSE [masks EXCEPT ![cur] = <<sigmask'[cur]>> \o @]
       PROVE  masks'[p] = <<{}>>
  <2>1. Quiet
    BY <1>1, <1>10, QuietTraps
  <2>2. state[cur] = "run"
    BY <1>8, <1>10 DEF DeliverHandler, Delivering
  <2>3. masks' = masks \/ \E x : masks' = [masks EXCEPT ![cur] = x]
    BY <1>10
  <2> QED
    BY <1>5, <1>6, <2>1, <2>2, <2>3
<1>11. ASSUME UNCHANGED masks,
              \/ Exit \/ Alarm \/ Kill \/ Setpgid \/ Sigaction \/ Nanosleep \/ Yield \/ Pause
              \/ VForkResume \/ PauseResume \/ Tick \/ Fault \/ CheckTimers \/ Sigsuspend
              \/ DeliverNothing \/ DeliverFatal \/ InitExit \/ DoExit \/ Schedule \/ Halted
       PROVE  masks'[p] = <<{}>>
  BY <1>1, <1>6, <1>11, QuietCalls, QuietTraps, ExitEnds
<1> QED
  BY <1>2, <1>7, <1>9, <1>10, <1>11 DEF MCStep

\* What the theorem below needs of every state.
HistoryInv == CallAll /\ MaskInv

LEMMA HistoryInit == MCInit => HistoryInv
<1> SUFFICES ASSUME MCInit PROVE HistoryInv
  OBVIOUS
<1>1. Init /\ masks = [p \in Pids |-> <<{}>>]
  BY DEF MCInit
<1>2. CallAll
  BY <1>1, TreeInit, CallInit, SuspendInit DEF CallAll
<1>3. {} \in SUBSET (Sigs \ Unmaskable) /\ <<{}>> \in Seq(SUBSET (Sigs \ Unmaskable))
  OBVIOUS
<1>4. MasksTyped
  BY <1>1, <1>3 DEF MasksTyped
<1>5. ASSUME NEW p \in Pids PROVE MaskStack(p)
  <2>1. masks[p] = <<{}>> /\ frames[p] = <<>> /\ suspend[p] = {} /\ sigmask[p] = {}
    BY <1>1 DEF Init
  <2>2. Len(frames[p]) = 0 /\ Len(masks[p]) = 1 /\ masks[p][1] = {}
    BY <2>1
  <2> QED
    BY <2>1, <2>2 DEF MaskStack
<1> QED
  BY <1>1, <1>2, <1>4, <1>5 DEF HistoryInv, MaskInv

LEMMA HistoryStep == HistoryInv /\ [MCNext]_mcvars => HistoryInv'
<1> SUFFICES ASSUME HistoryInv, [MCNext]_mcvars PROVE HistoryInv'
  OBVIOUS
<1>1. CallAll /\ MaskInv /\ TypeOK /\ TreeInv /\ CallInv /\ SuspendInv
  BY DEF HistoryInv, CallAll, TreeInv
<1>2. CASE MCNext
  <2>1. MCStep /\ Next
    BY <1>2, MCStepNext DEF MCNext
  <2>2. CallAll'
    BY <1>1, <2>1, TreeStep, CallStep, SuspendStep DEF CallAll
  <2>3. MasksTyped' /\ \A p \in Pids : MaskStack(p)'
    BY <1>1, <2>1, MaskKept
  <2>4. \A p \in Pids : state'[p] = "free" => masks'[p] = <<{}>>
    BY <1>1, <2>1, MaskFree
  <2>5. MaskInv'
    BY <2>3, <2>4 DEF MaskInv
  <2> QED
    BY <2>2, <2>5 DEF HistoryInv
<1>3. CASE UNCHANGED mcvars
  <2>1. UNCHANGED vars /\ masks' = masks
    BY <1>3 DEF mcvars
  <2>2. CallAll'
    BY <1>1, <2>1, TreeStep, CallStep, SuspendStep DEF CallAll
  <2>3. UNCHANGED <<masks, frames, sigmask, suspend, state>>
    BY <2>1 DEF vars, sigVars, schedVars
  <2>4. MasksTyped' /\ \A p \in Pids : MaskStack(p)'
    BY <1>1, <2>3, MaskSame
  <2>5. MaskInv'
    BY <1>1, <2>3, <2>4 DEF MaskInv
  <2> QED
    BY <2>2, <2>5 DEF HistoryInv
<1> QED
  BY <1>2, <1>3

\* sigsuspend, deliver_signals, rt_sigreturn and the tail of syscall_c between
\* them: user code runs under the mask its program last set, or under the one
\* the handler it is in was entered with, however they were nested.
THEOREM MasksRestored == MCSpec => []MaskRestored
<1>1. HistoryInv => MaskRestored
  <2> SUFFICES ASSUME HistoryInv, mode \in {"user", "entry"} PROVE sigmask[cur] = Head(masks[cur])
    BY DEF MaskRestored
  <2>1. TypeOK /\ CurRuns /\ CallInv /\ Dying /\ WaitMasks /\ MaskInv
    BY DEF HistoryInv, CallAll, TreeInv, SuspendInv
  <2>2. suspend[cur] = {}
    BY <2>1, NotWaiting
  <2>3. MaskStack(cur) /\ masks[cur] # <<>> /\ masks[cur] \in Seq(SUBSET (Sigs \ Unmaskable))
    BY <2>1, Stacks
  <2>4. Head(masks[cur]) = masks[cur][1]
    BY <2>3
  <2>5. sigmask[cur] = masks[cur][1]
    BY <2>2, <2>3 DEF MaskStack
  <2> QED
    BY <2>4, <2>5
<1> QED
  BY <1>1, HistoryInit, HistoryStep, PTL DEF MCSpec

=============================================================================
