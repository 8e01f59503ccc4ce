---------------------------- MODULE MCProcTree ----------------------------
(***************************************************************************)
(* K1Proc on a small process tree: programs that fork, vfork, exec, wait,  *)
(* kill and exit, with the default action for every signal.                *)
(***************************************************************************)
EXTENDS K1Proc

MCSigs == {9, 11, 14, 17}
MCWaitPids == {-1, 3}
MCKillPids == {2, 3}
MCTreeWaits == {-1, 3, 0, -2}
MCTreeKills == {2, 3, 0, -1, -2}

=============================================================================
