--------------------------- MODULE MCProcSignal ---------------------------
(***************************************************************************)
(* K1Proc with handlers, masks, signal frames and alarms, on two           *)
(* processes.  `masks` is a history variable: the signal masks each        *)
(* program believes it runs under, one for its main code and one for each  *)
(* handler it is inside.  `menu` is what the machine's programs call       *)
(* besides kill and sigaction: a parent that waits, one that suspends      *)
(* itself, or a program alone that changes its masks.                      *)
(***************************************************************************)
EXTENDS K1Proc

MCSigs == {9, 10, 11, 14, 17}
Handler(r, n, o, m) == [handler |-> "fn", restart |-> r, nodefer |-> n,
                        resethand |-> o, mask |-> m]
MCActs == {Handler(r, FALSE, FALSE, {}) : r \in BOOLEAN}
MCWaitPids == {-1}

MCMenus == {{"fork", "wait4"}, {"fork", "sigsuspend"}, {"sigsuspend", "sigprocmask", "exec"}}

VARIABLES masks, menu
mcvars == <<vars, masks, menu>>

MCInit == Init /\ masks = [p \in Pids |-> <<{}>>] /\ menu \in MCMenus

SetTop(p, m) == masks' = [masks EXCEPT ![p] = <<m>> \o Tail(@)]

MCStep ==
  \/ "sigprocmask" \in menu /\ Sigprocmask /\ SetTop(cur, sigmask'[cur])
  \/ Sigreturn /\ masks' = [masks EXCEPT ![cur] = Tail(@)]
  \/ DeliverHandler /\ masks' = IF mode' = "exit" THEN masks
                                ELSE [masks EXCEPT ![cur] = <<sigmask'[cur]>> \o @]
  \/ "fork" \in menu /\ (Fork \/ VFork) /\ masks' = [masks EXCEPT ![nextpid] = masks[cur]]
  \/ "exec" \in menu /\ Exec /\ masks' = [masks EXCEPT ![cur] = <<Head(@)>>]
  \/ "wait4" \in menu /\ (Wait4 \/ Wait4Resume \/ WaitNoHang)
     /\ masks' = [p \in Pids |-> IF state'[p] = "free" THEN <<{}>> ELSE masks[p]]
  \/ "sigsuspend" \in menu /\ (Pause \/ Sigsuspend) /\ UNCHANGED masks
  \/ /\ \/ Exit \/ Alarm \/ Kill \/ Setpgid \/ Sigaction \/ Nanosleep \/ Yield
        \/ VForkResume \/ PauseResume \/ Tick \/ Fault \/ CheckTimers
        \/ DeliverNothing \/ DeliverFatal \/ InitExit \/ DoExit \/ Schedule \/ Halted
     /\ UNCHANGED masks

MCNext == MCStep /\ UNCHANGED menu

MCSpec == MCInit /\ [][MCNext]_mcvars

\* Whatever sigsuspend, nested handlers, sigreturn and ticks did in between,
\* user code runs under the mask the program last set, or under the mask its
\* handler was entered with.
MaskRestored == mode \in {"user", "entry"} => sigmask[cur] = Head(masks[cur])

\* A call is executed again behind a handler's back only if that handler has
\* SA_RESTART: restart_ok looks at the signal deliver_signals then delivers.
RestartMatchesHandler ==
  [][mode = "ret" /\ pc[cur].at = "redo" /\ Len(frames'[cur]) > Len(frames[cur])
       => sa[cur][frames'[cur][1].sig].restart]_vars

=============================================================================
