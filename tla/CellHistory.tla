----------------------------- MODULE CellHistory -----------------------------
(***************************************************************************)
(* CellPorts with history variables: what the rules asked for since the    *)
(* database was loaded and what the graph looked like when the current Run *)
(* began.  They never guard a step; they let the properties compare a      *)
(* published graph with everything that led to it, and map the graph onto  *)
(* EGraph.                                                                 *)
(***************************************************************************)
EXTENDS CellPorts

VARIABLES
    asked,      \* pairs requested by union() or by set() of a constructor
    kept,       \* facts activated whose key was not deleted since
    writes,     \* writes to ports whose key was not deleted since
    before      \* the exported rows when the Run began

history == <<asked, kept, writes, before>>

Export == [d \in live |-> <<Row(d), d \in hidden>>]

InitHistory ==
    /\ InitPorts
    /\ asked = {}
    /\ kept = {}
    /\ writes = {}
    /\ before = Export

(* Unions asked for in this step: only effects ask. *)
NewlyAsked == {pending'[n] : n \in (Len(pending) + 1)..Len(pending')}
(* What is left of the facts once the key of each deleted one is forgotten. *)
Undeleted == {f \in kept : \A d \in live \ live' : ~SameKey(f, d)}

Remember ==
    /\ asked' = IF phase = "rhs" THEN asked \cup NewlyAsked ELSE asked
    /\ kept' = (IF phase = "rhs" THEN Undeleted ELSE kept)
               \cup ((live' \ live) \cap FactRefs)

WritePort(t, key, v) ==
    /\ \/ SetNewPort(t, key, v)
       \/ SetPort(t, key, v)
       \/ /\ phase = "rhs"
          /\ functionKeys[<<t, key>>] # 0
          /\ LET old == Row(functionKeys[<<t, key>>]).value
             IN  Merged(t, old, v) = old
          /\ UNCHANGED allVars
    /\ writes' = writes \cup {[table |-> t, key |-> key, value |-> v]}

NextHistory ==
    \/ /\ BeginRun
       /\ before' = Export
       /\ UNCHANGED <<portVars, asked, kept, writes>>
    \/ /\ (Effect \/ BeginRepair \/ RepairStep) /\ UNCHANGED portVars
       /\ Remember
       /\ UNCHANGED <<writes, before>>
    \/ /\ \E t \in FunTables \cap RuleTables : \E key \in KnownKeys(t) : \E v \in PortValues(t) :
            WritePort(t, key, v)
       /\ Remember
       /\ UNCHANGED before
    \/ /\ \E t \in FunTables \cap RuleTables : \E key \in KnownKeys(t) :
            /\ DeletePort(t, key)
            /\ writes' = {w \in writes : ~(w.table = t /\ CanonKey(w.key) = key)}
       /\ UNCHANGED <<asked, kept, before>>
    \/ /\ RepairPort
       /\ Remember
       /\ UNCHANGED <<writes, before>>

SpecHistory == InitHistory /\ [][NextHistory]_<<allVars, history>>

------------------------------------------------------------------------------
(* Refinement: the classes, the facts whose key was not deleted (retired    *)
(* duplicates included) and the requested unions are an EGraph.  So no two  *)
(* classes are ever merged without a request or a congruence that forces    *)
(* it, a key is never interned twice, and a Run is published only when      *)
(* every request and every congruence, between retired rows too, holds.     *)
RowSpace == UNION {[table : {t}, key : Keys(t), value : Values] : t \in Virtual}
Abstract == INSTANCE EGraph WITH
    Ids    <- Ids,
    Rows   <- RowSpace,
    class  <- root,
    rows   <- {recipe[f] : f \in kept},
    asked  <- asked,
    sealed <- phase = "idle"
ImplementsEGraph == Abstract!Spec

(* Semi-naive evaluation loses nothing: every row that is new, changed its  *)
(* canonical form or its subsumption since the Run began is among the       *)
(* events handed to the matcher and carries this Run's epoch (deliver,      *)
(* repair, hide, set_function).                                             *)
DeltaComplete ==
    phase = "idle" =>
        \A d \in live :
            (d \notin DOMAIN before \/ before[d] # <<Row(d), d \in hidden>>)
            => d \in events /\ stamp[d] = epoch

(* Saturation stops on `changed`: a Run that reports no change published    *)
(* exactly the rows it started from (Task::Saturate, Graph::changed).       *)
ChangedIsSound ==
    (phase = "idle" /\ epoch > 0 /\ ~changed) => Export = before

(* A "min" port holds the least of all values written to the keys that have *)
(* become its key, in whatever order writes, unions and merges happened     *)
(* (merge_value, set_function, repair).                                     *)
PortJoin ==
    phase = "idle" =>
        \A w \in {x \in writes : MergeKind[x.table] = "min"} :
            \E i \in LivePorts :
                /\ recipe[i].table = w.table
                /\ recipe[i].key = CanonKey(w.key)
                /\ recipe[i].value <= w.value
                /\ \E x \in writes : /\ x.table = w.table
                                     /\ CanonKey(x.key) = CanonKey(w.key)
                                     /\ x.value = recipe[i].value
==============================================================================
