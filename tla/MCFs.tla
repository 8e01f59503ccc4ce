------------------------------- MODULE MCFs -------------------------------
(***************************************************************************)
(* K1Fs on a few inodes: one machine for the table of a large directory,   *)
(* one for the tree of directories, one for links and open files, and one  *)
(* that reads a directory while it changes.                                *)
(***************************************************************************)
EXTENDS K1Fs

Rel(comps) == [base |-> AtCwd, comps |-> comps, slash |-> FALSE]
Abs(comps) == [base |-> AtRoot, comps |-> comps, slash |-> FALSE]
SelfFd(f) == [base |-> f, comps |-> <<>>, slash |-> FALSE]
At(f, n) == [base |-> f, comps |-> <<n>>, slash |-> FALSE]

MCHash == [a |-> 0, b |-> 4, c |-> 1, d |-> 5, e |-> 8]

Plain == [calls |-> {}, paths |-> {}, opens |-> {}, targets |-> {}, rooms |-> {}, inodes |-> 2, nfd |-> 1]

Table == [Plain EXCEPT !.calls = {"mknod", "link", "unlink"}, !.inodes = 3,
                        !.paths = {Rel(<<n>>) : n \in Names}]
Listing == [Plain EXCEPT
  !.calls = {"open", "getdents", "rewind", "mknod", "unlink", "rename"}, !.rooms = {1, 2}, !.inodes = 3,
  !.opens = {Rel(<<".">>)}, !.paths = {Rel(<<"a">>), Rel(<<"b">>), Rel(<<"c">>), Rel(<<"d">>)}]
Moving == [Plain EXCEPT
  !.calls = {"mkdir", "unlink", "rename", "chdir"}, !.inodes = 4,
  !.paths = {Rel(<<"a">>), Rel(<<"b">>), Rel(<<"a", "b">>), Rel(<<"..">>), Rel(<<"..", "a">>), Abs(<<"b">>)}]
Linking == [Plain EXCEPT
  !.calls = {"creat", "symlink", "link", "unlink", "close", "mkdir"}, !.inodes = 4,
  !.paths = {Rel(<<"a">>), Rel(<<"b">>), Rel(<<"a", "b">>)},
  !.targets = {Rel(<<"b">>), Abs(<<"a", "b">>)}]
Holding == [Plain EXCEPT
  !.calls = {"open", "creat", "link", "unlink", "close", "maps", "fork", "exit"}, !.inodes = 3,
  !.nfd = 2, !.opens = {Rel(<<"a">>)}, !.paths = {Rel(<<"a">>), Rel(<<"b">>), SelfFd(1)}]
Placing == [Plain EXCEPT
  !.calls = {"open", "creat", "mkdir", "unlink", "close", "rename", "chdir", "fchdir"},
  !.inodes = 4, !.opens = {Rel(<<"a">>), At(1, "b")},
  !.paths = {Rel(<<"a">>), Rel(<<"a", "b">>), Abs(<<>>)}]
MCMachines == {Table, Listing, Moving, Linking, Holding, Placing}

=============================================================================
