----------------------------- MODULE ByteFile -----------------------------
(***************************************************************************)
(* What a regular file promises: a size, a byte at each offset below it,   *)
(* which is the last one written there, or zero; and the position of each  *)
(* open file, which moves by what was read or written.                     *)
(***************************************************************************)
EXTENDS Integers

CONSTANTS
  Offsets,      \* 0..n
  Counts,       \* how many bytes a call may move
  Vals,         \* bytes, 0 among them
  Opens,        \* the open files
  Appending     \* those opened with O_APPEND

VARIABLES size, bytes, pos

fileVars == <<size, bytes, pos>>

Init == size = 0 /\ bytes = [o \in Offsets |-> 0] /\ pos = [f \in Opens |-> 0]

Written(off, n, v) ==
  /\ size' = IF off + n > size THEN off + n ELSE size
  /\ bytes' = [o \in Offsets |-> IF o \in off..(off + n - 1) THEN v ELSE bytes[o]]

Pwrite(off, n, v) == Written(off, n, v) /\ UNCHANGED pos

Write(f, n, v) ==
  LET off == IF f \in Appending THEN size ELSE pos[f]
  IN  Written(off, n, v) /\ pos' = [pos EXCEPT ![f] = off + n]

\* A read gets the bytes there are.
Read(f, n) ==
  /\ pos' = [pos EXCEPT ![f] = IF @ >= size THEN @ ELSE IF @ + n > size THEN size ELSE @ + n]
  /\ UNCHANGED <<size, bytes>>

Seek(f, to) == pos' = [pos EXCEPT ![f] = to] /\ UNCHANGED <<size, bytes>>

Truncate(s) ==
  /\ size' = s
  /\ bytes' = [o \in Offsets |-> IF o < s THEN bytes[o] ELSE 0]
  /\ UNCHANGED pos

Next ==
  \/ \E n \in Counts, v \in Vals :
       (\E off \in Offsets : Pwrite(off, n, v)) \/ (\E f \in Opens : Write(f, n, v))
  \/ \E f \in Opens : (\E n \in Counts : Read(f, n)) \/ (\E to \in Offsets : Seek(f, to))
  \/ \E s \in Offsets : Truncate(s)

Spec == Init /\ [][Next]_fileVars

=============================================================================
