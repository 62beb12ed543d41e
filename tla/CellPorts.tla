------------------------------ MODULE CellPorts ------------------------------
(***************************************************************************)
(* Function tables of the fact graph (graph.rs): each key of a function    *)
(* table is a port holding one value.  A second write to a port goes       *)
(* through the table's merge callback, and so do two ports whose keys      *)
(* become equal during repair.  A merge may be a pure choice or lattice    *)
(* operation, or may ask for a constructor row (dynamic_construct), which  *)
(* adds a fact in the middle of a right-hand side or of repair.            *)
(*                                                                         *)
(* An operation that returns Err (a conflict in a table without a merge,   *)
(* subsuming a function row) ends the program and has no step here.        *)
(***************************************************************************)
EXTENDS CellGraph

CONSTANTS
    MergeKind,      \* [Tables \ Virtual -> "old", "new", "min", "construct"]
    MergeTable      \* the binary constructor a "construct" merge asks for

(* Every function table has one of the merges above; a merge that builds a  *)
(* row calls a constructor with the old value and the new, and one that     *)
(* takes the lesser value compares numbers (merge_value).                   *)
ASSUME MergeAssumption ==
    /\ MergeKind \in [Tables \ Virtual -> {"old", "new", "min", "construct"}]
    /\ (\E t \in Tables \ Virtual : MergeKind[t] = "construct")
            => MergeTable \in Constructors /\ Arity[MergeTable] = 2
    /\ (\E t \in Tables \ Virtual : MergeKind[t] = "min")
            => Scalars \subseteq Int

VARIABLES
    nextPort,       \* functions.len()
    functionKeys    \* <<table, key>> -> port, 0 when absent

portVars == <<nextPort, functionKeys>>
allVars == <<vars, portVars>>

FunTables == Tables \ Virtual
FunKeys == UNION {{t} \X Keys(t) : t \in FunTables}
LivePorts == live \cap Ports

InitPorts ==
    /\ Init
    /\ nextPort = 0
    /\ functionKeys = [k \in FunKeys |-> 0]

------------------------------------------------------------------------------
(* Mutant: the last write wins, whatever the merge says. *)
MergedTakesNew(t, old, new) == new

(* merge_value(): the row the callback must build first, if any, and the    *)
(* value it returns.  Identical arguments of a table call return old.       *)

Builds(t, old, new) ==
    /\ MergeKind[t] = "construct"
    /\ old # new
    /\ Matching(MergeTable, <<old, new>>) = {}

Merged(t, old, new) ==
    CASE MergeKind[t] = "old" -> old
      [] MergeKind[t] = "new" -> new
      [] MergeKind[t] = "min" -> IF new < old THEN new ELSE old
      [] MergeKind[t] = "construct" /\ old = new -> old
      [] Builds(t, old, new) -> ClassOf(nextFact + 1)
      [] OTHER -> Row(CHOOSE f \in FactRefs :
                        First(f, Matching(MergeTable, <<old, new>>))).value

(* The classes port j mentions once it holds v; mutant: those it mentioned. *)
PortRefsStale(j, v) == Refs(Row(j))
PortRefs(j, v) == Refs([Row(j) EXCEPT !.value = v])

(* Store merge_value(j's value, new) in port j, with the fact the merge     *)
(* builds, and retire the ports in gone.                                    *)
StoreMerged(j, new, gone) ==
    LET t    == recipe[j].table
        old  == Row(j).value
        next == Merged(t, old, new)
        args == <<old, new>>
        h    == HashOf(MergeTable, args)
        built == {f \in {nextFact + 1} : Builds(t, old, new)}
        fact == [table |-> MergeTable, key |-> args, value |-> next]
        port == [recipe[j] EXCEPT !.value = next]
        ids(d) == IF d = j THEN PortRefs(j, next)
                  ELSE IF d \in built THEN Refs(fact) ELSE {}
        touched == built \cup gone \cup {j}
    IN  /\ built # {} => nextFact < MaxFact
        /\ nextFact' = IF built # {} THEN nextFact + 1 ELSE nextFact
        /\ recipe' = [d \in DOMAIN recipe \cup built |->
                        IF d = j THEN port
                        ELSE IF d \in built THEN fact ELSE recipe[d]]
        /\ live' = (live \cup built) \ gone
        /\ stamp' = [d \in Dependency |->
                        IF d \in built \cup {j} THEN epoch ELSE stamp[d]]
        /\ bucketOf' = [f \in FactRefs |-> IF f \in built THEN h ELSE bucketOf[f]]
        /\ intern' = IF built = {} THEN intern
                     ELSE [intern EXCEPT ![h] = @ \cup built]
        /\ uses' = [i \in Ids |->
                    {d \in uses[i] : d \in touched =>
                        i \notin {root[x] : x \in dependencies[d]}}
                    \cup {d \in touched : i \in ids(d)}]
        /\ dependencies' = [d \in Dependency |->
                    IF d \in touched THEN ids(d) ELSE dependencies[d]]
        /\ events' = events \cup built \cup {j}
        /\ UNCHANGED <<root, pending, hidden, epoch, phase>>

------------------------------------------------------------------------------
(* Mutant: the slot of a new port is not counted. *)
SetNewPortUncounted(t, key, v) ==
    LET i == MaxFact + nextPort + 1
        r == [table |-> t, key |-> key, value |-> v]
    IN  /\ phase = "rhs"
        /\ nextPort < NumPorts
        /\ functionKeys[<<t, key>>] = 0
        /\ functionKeys' = [functionKeys EXCEPT ![<<t, key>>] = i]
        /\ recipe' = Put(recipe, i, r)
        /\ live' = live \cup {i}
        /\ stamp' = [stamp EXCEPT ![i] = epoch]
        /\ Subscribe(i, Refs(r))
        /\ events' = events \cup {i}
        /\ changed' = TRUE
        /\ UNCHANGED <<unionVars, nextFact, hidden, bucketOf, intern, epoch,
                       phase, nextPort>>

(* set_function() on a key nobody holds. *)
SetNewPort(t, key, v) ==
    LET i == MaxFact + nextPort + 1
        r == [table |-> t, key |-> key, value |-> v]
    IN  /\ phase = "rhs"
        /\ nextPort < NumPorts
        /\ functionKeys[<<t, key>>] = 0
        /\ nextPort' = nextPort + 1
        /\ functionKeys' = [functionKeys EXCEPT ![<<t, key>>] = i]
        /\ recipe' = Put(recipe, i, r)
        /\ live' = live \cup {i}
        /\ stamp' = [stamp EXCEPT ![i] = epoch]
        /\ Subscribe(i, Refs(r))
        /\ events' = events \cup {i}
        /\ changed' = TRUE
        /\ UNCHANGED <<unionVars, nextFact, hidden, bucketOf, intern, epoch,
                       phase>>

(* set_function() on a held key; a merge that returns the old value is a    *)
(* stutter.                                                                 *)
SetPort(t, key, v) ==
    LET j == functionKeys[<<t, key>>]
    IN  /\ phase = "rhs"
        /\ j # 0
        /\ Merged(t, Row(j).value, v) # Row(j).value
        /\ StoreMerged(j, v, {})
        /\ changed' = TRUE
        /\ UNCHANGED <<dirty, portVars>>

(* Mutant: a deleted port stays in the reverse index. *)
DeletePortSubscribed(t, key) ==
    LET i == functionKeys[<<t, key>>]
    IN  /\ phase = "rhs"
        /\ i # 0
        /\ live' = live \ {i}
        /\ functionKeys' = [functionKeys EXCEPT ![<<t, key>>] = 0]
        /\ changed' = TRUE
        /\ UNCHANGED <<unionVars, nextFact, recipe, hidden, stamp, events,
                       indexVars, epoch, phase, nextPort>>

(* hide(.., delete = true) of a function row. *)
DeletePort(t, key) ==
    LET i == functionKeys[<<t, key>>]
    IN  /\ phase = "rhs"
        /\ i # 0
        /\ live' = live \ {i}
        /\ functionKeys' = [functionKeys EXCEPT ![<<t, key>>] = 0]
        /\ Subscribe(i, {})
        /\ changed' = TRUE
        /\ UNCHANGED <<unionVars, nextFact, recipe, hidden, stamp, events,
                       bucketOf, intern, epoch, phase, nextPort>>

(* Mutant: the old key is left in the directory. *)
ReleasedNothing(i) == functionKeys

(* repair() of a dirty port: give up the old key, then either merge into    *)
(* the port that holds the canonical key or take that key.                  *)
Released(i) ==
    [k \in FunKeys |-> IF k = <<recipe[i].table, recipe[i].key>>
                         /\ functionKeys[k] = i
                      THEN 0 ELSE functionKeys[k]]
Holder(i) == Released(i)[<<recipe[i].table, Row(i).key>>]

(* Mutant: the key is claimed but the stored row keeps its old form. *)
RekeyStale(i) ==
    /\ NextDirty(i)
    /\ Holder(i) \in {0, i}
    /\ dirty' = dirty \ {i}
    /\ functionKeys' = [Released(i) EXCEPT ![<<recipe[i].table, Row(i).key>>] = i]
    /\ stamp' = [stamp EXCEPT ![i] = epoch]
    /\ Subscribe(i, Refs(Row(i)))
    /\ events' = events \cup {i}
    /\ UNCHANGED <<root, pending, nextFact, recipe, live, hidden, changed,
                   bucketOf, intern, epoch, phase, nextPort>>

Rekey(i) ==
    /\ NextDirty(i)
    /\ Holder(i) \in {0, i}
    /\ dirty' = dirty \ {i}
    /\ functionKeys' = [Released(i) EXCEPT ![<<recipe[i].table, Row(i).key>>] = i]
    /\ recipe' = [recipe EXCEPT ![i] = Row(i)]
    /\ stamp' = [stamp EXCEPT ![i] = epoch]
    /\ Subscribe(i, Refs(Row(i)))
    /\ events' = events \cup {i}
    /\ UNCHANGED <<root, pending, nextFact, live, hidden, changed, bucketOf,
                   intern, epoch, phase, nextPort>>

MergePorts(i) ==
    /\ NextDirty(i)
    /\ Holder(i) \notin {0, i}
    /\ dirty' = dirty \ {i}
    /\ functionKeys' = Released(i)
    /\ StoreMerged(Holder(i), Row(i).value, {i})
    /\ changed' = (changed \/ nextFact' # nextFact)
    /\ UNCHANGED nextPort

------------------------------------------------------------------------------
PortValues(t) == IF MergeKind[t] = "min" THEN Scalars ELSE Known

PortEffect ==
    \E t \in FunTables \cap RuleTables : \E key \in KnownKeys(t) :
        \/ \E v \in PortValues(t) : SetNewPort(t, key, v) \/ SetPort(t, key, v)
        \/ DeletePort(t, key)

RepairPort == \E i \in Ports : Rekey(i) \/ MergePorts(i)

NextPorts == \/ Next /\ UNCHANGED portVars
             \/ PortEffect
             \/ RepairPort

SpecPorts == InitPorts /\ [][NextPorts]_allVars

------------------------------------------------------------------------------
TypePorts ==
    /\ TypeOK
    /\ nextPort \in 0..NumPorts
    /\ functionKeys \in [FunKeys -> Ports \cup {0}]
    /\ DOMAIN recipe \cap Ports = {MaxFact + n : n \in 1..nextPort}

(* The key directory and the live ports are one-to-one: a key names the     *)
(* port that stores it, and every live port is named by its stored key,     *)
(* dirty or not (set_function, hide, repair).                               *)
DirectoryExact ==
    /\ \A k \in FunKeys : functionKeys[k] # 0 =>
          /\ functionKeys[k] \in live
          /\ k = <<recipe[functionKeys[k]].table, recipe[functionKeys[k]].key>>
    /\ \A i \in LivePorts : functionKeys[<<recipe[i].table, recipe[i].key>>] = i

(* A published graph has one port per canonical key, stored under it.       *)
PortsCanonical ==
    dirty = {} => \A i \in LivePorts : recipe[i].key = Row(i).key
==============================================================================
