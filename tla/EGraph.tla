-------------------------------- MODULE EGraph --------------------------------
(***************************************************************************)
(* What the fact graph promises, without buckets, reverse index or work    *)
(* lists: a partition of classes that only ever merges for a reason, a set *)
(* of rows no two of which were added under equal keys, and a seal that is *)
(* set only when every requested union and every congruence has been       *)
(* carried out.                                                            *)
(***************************************************************************)
EXTENDS Integers

CONSTANTS Ids, Rows, Constructors

VARIABLES
    class,      \* [Ids -> Ids], the least member of each class
    rows,       \* the rows that were added and not removed
    asked,      \* pairs of classes whose union was requested
    sealed      \* TRUE between Runs

vars == <<class, rows, asked, sealed>>

SameKey(r, s) == /\ r.table = s.table
                 /\ \A i \in DOMAIN r.key : class[r.key[i]] = class[s.key[i]]

(* Pairs that have to be equal: asked for, or forced by congruence. *)
Forced == asked \cup
    {<<p[1].value, p[2].value>> :
        p \in {q \in rows \X rows : q[1].table \in Constructors
                                    /\ SameKey(q[1], q[2])}}

Closed == \A p \in Forced : class[p[1]] = class[p[2]]

Init == /\ class = [i \in Ids |-> i]
        /\ rows = {}
        /\ asked = {}
        /\ sealed = TRUE

Open == /\ sealed
        /\ sealed' = FALSE
        /\ UNCHANGED <<class, rows, asked>>

Ask(a, b) == /\ ~sealed
             /\ asked' = asked \cup {<<a, b>>}
             /\ UNCHANGED <<class, rows, sealed>>

(* Hash-consing: a row is added only under a key no row has. *)
Add(r) == /\ ~sealed
          /\ \A s \in rows : ~SameKey(r, s)
          /\ rows' = rows \cup {r}
          /\ UNCHANGED <<class, asked, sealed>>

Remove(r) == /\ ~sealed
             /\ r \in rows
             /\ rows' = {s \in rows : ~SameKey(r, s)}
             /\ UNCHANGED <<class, asked, sealed>>

(* Two classes become one, named by its least member, for a reason. *)
Merge(lo, hi) ==
    /\ ~sealed
    /\ lo < hi
    /\ \E p \in Forced : {class[p[1]], class[p[2]]} = {lo, hi}
    /\ class' = [i \in Ids |-> IF class[i] = hi THEN lo ELSE class[i]]
    /\ UNCHANGED <<rows, asked, sealed>>

Seal == /\ ~sealed
        /\ Closed
        /\ sealed' = TRUE
        /\ UNCHANGED <<class, rows, asked>>

Next == \/ Open \/ Seal
        \/ \E a, b \in Ids : Ask(a, b) \/ Merge(a, b)
        \/ \E r \in Rows : Add(r) \/ Remove(r)

Spec == Init /\ [][Next]_vars
===============================================================================
