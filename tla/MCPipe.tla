------------------------------- MODULE MCPipe -------------------------------
(***************************************************************************)
(* K1Pipe on two or three processes, one pipe and a ring of two bytes.     *)
(***************************************************************************)
EXTENDS K1Pipe

USR1 == 10
MCSigs == {9, 10, 11, 13, 14, 17}
MCActs == {[handler |-> "fn", restart |-> r, nodefer |-> FALSE,
            resethand |-> FALSE, mask |-> {}] : r \in BOOLEAN}
MCMasks == {{}, {USR1}}
MCRestarts == {a \in MCActs : a.restart}
MCWaitPids == {-1}
MCKillPids == {1}

\* What the run "pipe" looks at: up to three processes that talk over one pipe, its
\* ends at their first descriptors; and up to two that share two pipes, of which
\* one may be the FIFO's, in every way there is, and are silent.
Talking ==
  /\ \A p \in Pids, d \in FDs : fd[p][d] \in {0, d + 1} /\ ~cloexec[p][d]
  /\ fifo = 0 /\ PipeFree(2)
Silent ==
  /\ \A p \in Pids : pc[p].call \notin {"read", "write"} \cup Polls
  /\ \A i \in Pipes : level[i] = 0
Sharing == nextpid <= 3 /\ Silent
Fits == (Talking \/ Sharing)'

=============================================================================
