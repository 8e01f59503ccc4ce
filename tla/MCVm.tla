-------------------------------- MODULE MCVm --------------------------------
(***************************************************************************)
(* K1Vm on two processes and seven pages: page 0 is below 4 MiB, page 1 is *)
(* the program's bss, pages 2 to 5 are for the heap and for mmap, and page *)
(* 6 is the stack.  Pages a program does not change (its text) are left    *)
(* out.                                                                    *)
(***************************************************************************)
EXTENDS K1Vm

MCImages == {[segs |-> {[start |-> 1, end |-> 2, filled |-> {}]},
              stack |-> [start |-> 6, end |-> 7, filled |-> {6}]]}

\* One process that maps and unmaps, one that makes guard pages (PROT_NONE), one
\* whose mappings grow, shrink and move, and two that share and copy their memory.
Mapping == [pages |-> 3, calls |-> {"mmap", "munmap", "mprotect"},
            addrs |-> {3, 4}, lens |-> {1, 2}, prots |-> {1, 3}, files |-> {0}, brks |-> {}]
Guarding == [Mapping EXCEPT !.prots = {0, 3}, !.lens = {1}]
Moving == [Mapping EXCEPT !.calls = {"mmap", "mremap"}, !.addrs = {2, 4}, !.prots = {3}]
Sharing == [pages |-> 4, calls |-> {"fixed", "hint", "brk", "fork", "vfork", "exec", "exit"},
            addrs |-> {2}, lens |-> {1}, prots |-> {3}, files |-> {1}, brks |-> {4, 5, 6}]
MCMachines == {Mapping, Guarding, Moving, Sharing}

\* Programs that map files too.
MCFiles == {[Mapping EXCEPT !.files = {0, 1}]}

\* Programs whose lengths wrap round: MaxAddr - 1 is -4096.
MCWrapping == {[Mapping EXCEPT !.calls = {"mmap", "munmap"}, !.addrs = {5},
                               !.lens = {3, MaxAddr - 1}, !.prots = {3}]}

=============================================================================
