------------------------------ MODULE MCStore ------------------------------
(***************************************************************************)
(* K1Data on small memories: machines for the kernel's blocks under        *)
(* different maps, for a file's pages, for its open files, and for a drive *)
(* of a few sectors.                                                       *)
(***************************************************************************)
EXTENDS K1Data

Ram(from, to) == [addr |-> from, len |-> to - from, type |-> 1]
Hole(from, to) == [addr |-> from, len |-> to - from, type |-> 2]

Plain == [e820 |-> <<Ram(0, 56)>>, totals |-> {}, boots |-> {}, writes |-> {}, opens |-> {},
          counts |-> {}, seeks |-> {}, sizes |-> {}, vals |-> {1}, room |-> 16, io |-> {}]

Heap == [Plain EXCEPT !.totals = {1, 3, 7}]
Maps == {<<Ram(0, 30)>>, <<Ram(17, 29), Hole(29, 31), Ram(1, 15)>>, <<Ram(31, 37), Ram(0, 9), Ram(9, 21)>>}
Heaps == {[Heap EXCEPT !.e820 = e] : e \in Maps}
Hand == [Plain EXCEPT !.totals = {3}, !.e820 = <<Ram(0, 40)>>,
           !.boots = {[size |-> 5, align |-> 4, initrd |-> i] : i \in {0, 3}}]
Pages0 == [Plain EXCEPT !.writes = {<<0, 3>>, <<5, 1>>, <<15, 1>>},
                        !.sizes = {0, 1, 4}]
Opened == [Plain EXCEPT !.opens = Opens, !.counts = {0, 1, 3}, !.sizes = {0, 2}, !.room = 4,
                        !.seeks = {<<0, 0>>, <<1, 1>>, <<2, 0 - 1>>, <<2, 1>>}]
Drive == [Plain EXCEPT !.io = {"read", "write"}]

MCMachines == Heaps \cup {Hand, Pages0, Opened, Drive}

=============================================================================
