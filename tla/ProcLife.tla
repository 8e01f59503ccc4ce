------------------------------ MODULE ProcLife ------------------------------
(***************************************************************************)
(* What a Unix kernel promises about the lives of processes: birth by      *)
(* fork, one death with a status, and a parent that takes the status; init *)
(* (process 1) inherits the children of the dead and never dies.           *)
(***************************************************************************)
EXTENDS Integers

CONSTANT Procs

VARIABLES
  who,      \* the process that acts, any live one
  born,     \* the next process number: numbers are not used twice
  life,     \* none, alive, dead (a zombie)
  parent,   \* 0 for none
  code      \* the status of a dead process

lifeVars == <<born, life, parent, code>>

Init ==
  /\ who = 1 /\ born = 2
  /\ life = [p \in Procs |-> IF p = 1 THEN "alive" ELSE "none"]
  /\ parent = [p \in Procs |-> 0]
  /\ code = [p \in Procs |-> 0]

\* who makes a new process, a child of its own.
Born ==
  /\ life[who] = "alive" /\ born \in Procs /\ life[born] = "none"
  /\ born' = born + 1
  /\ life' = [life EXCEPT ![born] = "alive"]
  /\ parent' = [parent EXCEPT ![born] = who]
  /\ UNCHANGED code

\* who dies with some status; its children are init's.
Dies ==
  /\ who # 1 /\ life[who] = "alive"
  /\ life' = [life EXCEPT ![who] = "dead"]
  /\ code' \in [Procs -> Int] /\ \A q \in Procs \ {who} : code'[q] = code[q]
  /\ parent' = [q \in Procs |-> IF life[q] # "none" /\ parent[q] = who THEN 1 ELSE parent[q]]
  /\ UNCHANGED born

\* who takes the status of a dead child of its own, and the child is gone.
Waited(q) ==
  /\ life[who] = "alive" /\ life[q] = "dead" /\ parent[q] = who
  /\ life' = [life EXCEPT ![q] = "none"]
  /\ parent' = [parent EXCEPT ![q] = 0]
  /\ code' = [code EXCEPT ![q] = 0]
  /\ UNCHANGED born

Next == who' \in Procs /\ (Born \/ Dies \/ \E q \in Procs : Waited(q))

Spec == Init /\ [][Next]_lifeVars

=============================================================================
