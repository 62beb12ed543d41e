----------------------------- MODULE MCPrimitives -----------------------------
(* The primitives the workers of a parallel Run share, side by side: the      *)
(* latch (Notification), the list of touched tables (NotificationList), the   *)
(* vector of many writers (ParallelVecWriter), and the lock-free union-find   *)
(* (ConcurrentUnionFind), from forests that earlier calls may have left: a    *)
(* buffer of one id, a chain, a star.  Each behaviour runs one of them,       *)
(* `part`; they share no step.                                                *)
EXTENDS Notification, NotificationList, ParallelVecWriter, ConcurrentUnionFind

VARIABLE part           \* the component this behaviour runs

ASSUME LatchAssumption
ASSUME ListAssumption
ASSUME WriterAssumption
ASSUME UnionFindAssumption
ASSUME Recorders \cup Writers \cup Workers \subseteq Threads

Forests == {[x \in {0} |-> 0], [x \in Ids |-> IF x = 0 THEN 0 ELSE x - 1], [x \in Ids |-> 0]}

partVars == <<part, vars, listVars, vectorVars, forestVars>>

(* The components that do not run stay where they start. *)
InitParts ==
    /\ Init
    /\ InitList
    /\ InitVector
    /\ InitForest
    /\ \/ part \in {"latch", "list", "vector"} /\ data = [x \in {0} |-> 0]
       \/ part = "forest" /\ data \in Forests
NextPart ==
    \/ part = "latch" /\ Next /\ UNCHANGED <<part, listVars, vectorVars, forestVars>>
    \/ part = "list" /\ NextList /\ UNCHANGED <<part, vars, vectorVars, forestVars>>
    \/ part = "vector" /\ NextVector /\ UNCHANGED <<part, vars, listVars, forestVars>>
    \/ part = "forest" /\ NextForest /\ UNCHANGED <<part, vars, listVars, vectorVars>>
SpecParts ==
    /\ InitParts /\ [][NextPart]_partVars
    /\ \A t \in Threads : SF_vars(part = "latch" /\ Step(t))
    /\ \A t \in Recorders : WF_listVars(part = "list" /\ StepList(t))
    /\ \A t \in Writers : WF_vectorVars(part = "vector" /\ StepVector(t))
    /\ \A t \in Workers : WF_forestVars(part = "forest" /\ StepForest(t))

(* The union-find alone, every id a class of its own. *)
InitApart ==
    Init /\ InitList /\ InitVector /\ InitForest /\ part = "forest" /\ data = [x \in Ids |-> x]
SpecApart == InitApart /\ [][NextPart]_partVars

(* Every call returns.  Once the latch is notified every wait comes back; the *)
(* list's two locks do not wait for each other; growing the vector waits for  *)
(* writers, who wait for nobody; a compare-and-swap of the union-find that    *)
(* fails means that another thread got something done, and there is a bound   *)
(* on that.                                                                   *)
InCall(t) ==
    \/ part = "latch" /\ Unanswered(t)
    \/ part = "list" /\ Recording(t)
    \/ part = "vector" /\ Writing(t)
    \/ part = "forest" /\ Calling(t)
EveryCallReturns == \A t \in Threads : InCall(t) ~> ~InCall(t)
===============================================================================
