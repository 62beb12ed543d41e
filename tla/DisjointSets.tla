----------------------------- MODULE DisjointSets -----------------------------
(***************************************************************************)
(* What a union-find of egglog promises (egglog/union-find): a partition   *)
(* of the ids in which every class is named by its least member; a union   *)
(* joins two classes at once, a reset takes all of them apart.             *)
(***************************************************************************)
EXTENDS Naturals, FiniteSets

CONSTANT Ids

VARIABLE rep   \* id |-> the least member of its class

Joined(p, c) == [x \in Ids |-> IF rep[x] = c THEN p ELSE rep[x]]

Init == rep \in {f \in [Ids -> Ids] : \A x \in Ids : f[x] <= x /\ f[f[x]] = f[x]}

Union == \E p, c \in Ids :
  /\ p < c
  /\ rep[p] = p
  /\ rep[c] = c
  /\ rep' = Joined(p, c)

Reset == rep' = [x \in Ids |-> x]

Next == Union \/ Reset

Spec == Init /\ [][Next]_rep
=============================================================================
