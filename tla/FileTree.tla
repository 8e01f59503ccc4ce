----------------------------- MODULE FileTree -----------------------------
(***************************************************************************)
(* What a Unix file system promises about its names: a tree of nodes where *)
(* one call gives one name, takes one away or moves one, directories have  *)
(* one name each and are never their own ancestors, and a node is there    *)
(* exactly as long as it has a name or somebody uses it.                   *)
(***************************************************************************)
EXTENDS Integers

CONSTANTS
  Nodes, Names,
  Top           \* the root

VARIABLES
  kind,         \* of each node: "free", "dir" or another
  names,        \* names[d]: what the names in directory d are of
  users         \* how many descriptors, working directories and so on hold a node

treeVars == <<kind, names, users>>

TypeOK ==
  /\ kind \in [Nodes -> {"free", "dir", "reg", "fifo", "link"}]
  /\ DOMAIN names = Nodes
  /\ \A d \in Nodes : /\ DOMAIN names[d] \subseteq Names
                      /\ \A n \in DOMAIN names[d] : names[d][n] \in Nodes
                      /\ kind[d] # "dir" => DOMAIN names[d] = {}
  /\ users \in [Nodes -> Nat]

Empty == [n \in {} |-> Top]

Init ==
  /\ kind = [i \in Nodes |-> IF i = Top THEN "dir" ELSE "free"]
  /\ names = [i \in Nodes |-> Empty]
  /\ users \in [Nodes -> Nat] /\ \A i \in Nodes \ {Top} : users[i] = 0

Named(i) == \E d \in Nodes : \E n \in DOMAIN names[d] : names[d][n] = i

With(t, n, i) == [m \in DOMAIN t \cup {n} |-> IF m = n THEN i ELSE t[m]]
Without(t, n) == [m \in DOMAIN t \ {n} |-> t[m]]

\* A node goes when its last name and its last user are gone, and not before.
Kept == \A i \in Nodes :
  /\ kind[i] # "free" => kind'[i] = IF i = Top \/ Named(i)' \/ users'[i] > 0
                                    THEN kind[i] ELSE "free"
  /\ kind[i] = "free" => (kind'[i] = "free" <=> ~Named(i)' /\ users'[i] = 0)

New == {i \in Nodes : kind[i] = "free" /\ kind'[i] # "free"}
Changed == {d \in Nodes : names'[d] # names[d]}

\* A name for a new node, or one more for a node that is not a directory.
Add(d, n, i) ==
  /\ kind[d] = "dir" /\ n \notin DOMAIN names[d]
  /\ New = {i} \/ (New = {} /\ kind[i] # "dir")
  /\ names' = [names EXCEPT ![d] = With(@, n, i)]

Unlink(d, n) ==
  /\ DOMAIN names[names[d][n]] = {} /\ New = {}
  /\ names' = [names EXCEPT ![d] = Without(@, n)]

\* The moved node takes the place of one that is not a directory, or of an
\* empty directory when it is a directory itself.
Move(d, n, e, m) ==
  /\ <<d, n>> # <<e, m>> /\ kind[e] = "dir" /\ New = {}
  /\ m \in DOMAIN names[e] =>
       /\ (kind[names[e][m]] = "dir") = (kind[names[d][n]] = "dir")
       /\ DOMAIN names[names[e][m]] = {}
  /\ names' = LET taken == [names EXCEPT ![d] = Without(@, n)]
              IN  [taken EXCEPT ![e] = With(@, m, names[d][n])]

\* Users come and go, and a directory that goes takes its names with it; a file
\* without a name may be made for a user.
Use == (\A d \in Changed : kind'[d] = "free") /\ \A i, j \in New : i = j

Next ==
  /\ \/ Use
     \/ \E d \in Changed : \E n \in DOMAIN names'[d] : Add(d, n, names'[d][n])
     \/ \E d \in Changed : \E n \in DOMAIN names[d] \ DOMAIN names'[d] :
          \/ Unlink(d, n)
          \/ \E e \in Changed : \E m \in DOMAIN names'[e] : Move(d, n, e, m)
  /\ Kept
  /\ TypeOK'

Spec == Init /\ [][Next]_treeVars

=============================================================================
