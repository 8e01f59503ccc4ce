----------------------------- MODULE UserMemory -----------------------------
(***************************************************************************)
(* What a Unix kernel promises about the memory of its processes: each     *)
(* page of a space is unmapped, or has a protection and holds a value; a   *)
(* new page reads zero or a file's bytes, a copy is a copy, and a value    *)
(* changes only by a store that the protection allows.                     *)
(***************************************************************************)
EXTENDS Integers

CONSTANTS
  Procs, Spaces, Pages, Vals, Prots,
  Reach,        \* the pages a program can get at: the others stay zeroes
  Programs      \* the memories execve can make: functions on Pages

VARIABLES
  space,        \* the space of each process, 0 for none; several may share one
  mem           \* mem[s][va]: Unmapped or [prot, val]

memVars == <<space, mem>>

Unmapped == [prot |-> 8, val |-> 0]
Fresh == [va \in Pages |-> Unmapped]
Writable(prot) == prot \in {2, 3, 6, 7}

Init == \E p \in Procs, s \in Spaces, m \in Programs :
  /\ space = [q \in Procs |-> IF q = p THEN s ELSE 0]
  /\ mem = [t \in Spaces |-> IF t = s THEN m ELSE Fresh]

(* What one call does to a memory: `was` before it, `is` after it, and C the *)
(* pages that differ.                                                       *)

\* The pages from the lowest of S to the highest.
Span(S) == {va \in Pages : \E a, b \in S : a <= va /\ va <= b}

Stored(was, is, C) == \E va \in C :
  /\ C = {va} /\ was[va] # Unmapped /\ Writable(was[va].prot)
  /\ is[va].prot = was[va].prot /\ is[va].val \in Vals

\* New pages, in place of old ones perhaps: a file's bytes, then zeroes.
Mapped(is, C) == \E prot \in Prots :
  /\ \A va \in Span(C) : /\ is[va].prot = prot /\ is[va].val \in {0, 1}
                         /\ va \notin Reach => is[va].val = 0
  /\ \A x, y \in Span(C) \cap Reach : x < y /\ is[x].val = 0 => is[y].val = 0

Removed(is, C) == \A va \in Span(C) : is[va] = Unmapped

Protected(was, is, C) == \E prot \in Prots :
  \A va \in Span(C) : is[va] = IF was[va] = Unmapped THEN Unmapped
                               ELSE [was[va] EXCEPT !.prot = prot]

\* A range of pages goes to another place, where zeroes follow it.
Moved(was, is, C) ==
  LET gone == {va \in C : is[va] = Unmapped}
      new == C \ gone
  IN  /\ gone = Span(gone) /\ new = Span(new)
      /\ \E from \in gone, to \in new :
           /\ \A va \in gone : from <= va
           /\ \A va \in new :
                LET old == from + va - to
                IN  /\ to <= va /\ was[va] = Unmapped
                    /\ is[va] = [prot |-> was[from].prot,
                                 val |-> IF old \in gone THEN was[old].val ELSE 0]

\* A space nobody uses any more is gone.
Settle(sp, m) ==
  /\ space' = sp
  /\ mem' = [s \in Spaces |-> IF \E p \in Procs : sp[p] = s THEN m[s] ELSE Fresh]

Unused(s) == \A p \in Procs : space[p] # s

Copy(p, c) == \E s \in Spaces :
  Unused(s) /\ Settle([space EXCEPT ![c] = s], [mem EXCEPT ![s] = mem[space[p]]])
Share(p, c) == Settle([space EXCEPT ![c] = space[p]], mem)
Exec(p) == \E s \in Spaces, m \in Programs :
  Unused(s) /\ Settle([space EXCEPT ![p] = s], [mem EXCEPT ![s] = m])
Exit(p) == Settle([space EXCEPT ![p] = 0], mem)

Call(was, is) ==
  LET C == {va \in Pages : was[va] # is[va]}
  IN  /\ C # {}
      /\ Stored(was, is, C) \/ Mapped(is, C) \/ Removed(is, C)
         \/ Protected(was, is, C) \/ Moved(was, is, C)

Next ==
  \/ \E s \in Spaces :
       /\ ~Unused(s) /\ UNCHANGED space /\ \A t \in Spaces \ {s} : mem'[t] = mem[t]
       /\ Call(mem[s], mem'[s])
  \/ \E p \in {q \in Procs : space[q] # 0} :
       Exec(p) \/ Exit(p) \/ \E c \in {q \in Procs : space[q] = 0} : Copy(p, c) \/ Share(p, c)

Spec == Init /\ [][Next]_memVars

=============================================================================
