------------------------------ MODULE CellGraph ------------------------------
(***************************************************************************)
(* The hash-consed fact graph of engine/cell-runtime (graph.rs): facts     *)
(* addressed by FactRef, a union-find over equality classes, the intern    *)
(* buckets that give hash-consing, the reverse index `uses` that says      *)
(* which rows mention a class, and the repair loop that rebuilds           *)
(* congruence after the unions of one Run.                                 *)
(*                                                                         *)
(* What is abstracted.  A fact is one (Cell, op) position; its recipe is   *)
(* the table, key and value that position denotes when it is activated.    *)
(* FactRefs are numbered in the order they are activated and the class a   *)
(* constructor makes is numbered after its fact, so smaller still means    *)
(* older.  Literal columns never change under canonicalisation: they are   *)
(* part of the table's name, and every key column here is a class.  The    *)
(* rows of function tables (CellPorts) share the Dependency space: facts   *)
(* are 1..MaxFact, function ports come after them, as the derived Ord of   *)
(* `enum Dependency` sorts Fact before Function.                           *)
(***************************************************************************)
EXTENDS Integers, Sequences

CONSTANTS
    Tables,         \* every table of the program
    Constructors,   \* hash-consed tables whose value is a class
    Relations,      \* virtual tables whose value is Int(0)
    Arity,          \* [Tables -> Nat], the number of key columns
    Scalars,        \* values that are not classes
    Unit,           \* Int(0), the value of a relation row
    RuleTables,     \* the tables right-hand sides name; a merge may name others
    Hashes,         \* the u64 keys of the intern table
    HashOf(_, _),   \* hashkey(table, key): lossy, so unequal keys collide
    NumImports,     \* classes of the initial database
    MaxFact,        \* bound: facts ever activated
    NumPorts,       \* bound: function ports ever allocated
    MaxPending,     \* bound: unions one right-hand-side phase may request
    MaxEpoch        \* bound: Runs

Virtual  == Constructors \cup Relations
FactRefs == 1..MaxFact
Ports    == (MaxFact + 1)..(MaxFact + NumPorts)
Dependency == FactRefs \cup Ports
ClassOf(f) == NumImports + f              \* the class fact f makes
Ids    == 1..(NumImports + MaxFact)
Values == Ids \cup Scalars
Keys(t) == [1..Arity[t] -> Ids]

ASSUME TablesAssumption ==
    /\ Virtual \subseteq Tables
    /\ RuleTables \subseteq Tables
    /\ Constructors \cap Relations = {}
    /\ Arity \in [Tables -> Nat]
ASSUME ValuesAssumption ==
    /\ Unit \in Scalars
    /\ Scalars \cap Ids = {}
ASSUME HashAssumption ==
    /\ Hashes # {}
    /\ \A t \in Tables : \A k \in Keys(t) : HashOf(t, k) \in Hashes
ASSUME BoundsAssumption ==
    /\ NumImports \in Nat
    /\ MaxFact \in Nat
    /\ NumPorts \in Nat
    /\ MaxPending \in Nat
    /\ MaxEpoch \in Nat

VARIABLES
    root,           \* parents, every chain followed to its end
    nextFact,       \* facts activated so far (next_cell)
    recipe,         \* dependency -> [table, key, value] as stored
    live,           \* dependencies that still have a row
    hidden,         \* subsumed facts
    stamp,          \* FactState.epoch / Function.epoch
    bucketOf,       \* FactState.hash: the bucket the fact was filed under
    intern,         \* hash -> facts filed there
    uses,           \* root class -> dependencies whose row mentions it
    dependencies,   \* dependency -> classes it subscribed to
    dirty,          \* rows whose canonical form may have changed
    pending,        \* pending_unions
    events,         \* rows to hand to the matcher at the end of the Run
    epoch, changed,
    phase           \* "idle", "rhs" (effects), "repair"

unionVars == <<root, dirty, pending>>
indexVars == <<intern, bucketOf, uses, dependencies>>
rowVars   == <<nextFact, recipe, live, hidden, stamp, events, changed>>
vars == <<unionVars, indexVars, rowVars, epoch, phase>>

------------------------------------------------------------------------------
(* Reading a row: every access canonicalises. *)

Canon(v) == IF v \in Ids THEN root[v] ELSE v
CanonKey(k) == [i \in DOMAIN k |-> Canon(k[i])]
Row(d) == [table |-> recipe[d].table,
           key   |-> CanonKey(recipe[d].key),
           value |-> Canon(recipe[d].value)]
Refs(r) == ({r.key[i] : i \in DOMAIN r.key} \cup {r.value}) \cap Ids
SameKey(d, e) == /\ recipe[d].table = recipe[e].table
                 /\ CanonKey(recipe[d].key) = CanonKey(recipe[e].key)

First(f, S) == f \in S /\ \A g \in S : f <= g
Put(fn, x, v) == [y \in DOMAIN fn \cup {x} |-> IF y = x THEN v ELSE fn[y]]

DirtyFacts(t) == {f \in dirty \cap FactRefs : recipe[f].table = t}

(* The facts lookup(t, key) would accept; the code takes the first. *)
Matching(t, key) ==
    {f \in (intern[HashOf(t, CanonKey(key))] \cup DirtyFacts(t)) \cap live :
        recipe[f].table = t /\ CanonKey(recipe[f].key) = CanonKey(key)}

(* Mutant: subscribing forgets to leave the classes of the old row. *)
UsesAfterAddOnly(u, d, ids) ==
    [i \in Ids |-> IF i \in ids THEN u[i] \cup {d} ELSE u[i]]

(* subscribe(d, row): drop d where it was registered, add it under ids. *)
UsesAfter(u, d, ids) ==
    [i \in Ids |->
        IF i \in ids THEN u[i] \cup {d}
        ELSE IF i \in {root[x] : x \in dependencies[d]} THEN u[i] \ {d}
        ELSE u[i]]
Subscribe(d, ids) ==
    /\ uses' = UsesAfter(uses, d, ids)
    /\ dependencies' = [dependencies EXCEPT ![d] = ids]

(* Classes a right-hand side can hold: imports and constructor results. *)
Known == {root[i] : i \in 1..NumImports}
    \cup {root[ClassOf(f)] :
            f \in {g \in 1..nextFact : recipe[g].value = ClassOf(g)}}
KnownKeys(t) == [1..Arity[t] -> Known]

------------------------------------------------------------------------------
Init ==
    /\ root = [i \in Ids |-> i]
    /\ nextFact = 0
    /\ recipe = [d \in {} |-> Unit]
    /\ live = {}
    /\ hidden = {}
    /\ stamp = [d \in Dependency |-> 0]
    /\ bucketOf = [f \in FactRefs |-> CHOOSE h \in Hashes : TRUE]
    /\ intern = [h \in Hashes |-> {}]
    /\ uses = [i \in Ids |-> {}]
    /\ dependencies = [d \in Dependency |-> {}]
    /\ dirty = {}
    /\ pending = <<>>
    /\ events = {}
    /\ epoch = 0
    /\ changed = FALSE
    /\ phase = "idle"

(* Executor::run: a new epoch; deliver() emptied the events of the last Run *)
(* before anything could read them again.                                   *)
BeginRun ==
    /\ phase = "idle"
    /\ epoch < MaxEpoch
    /\ phase' = "rhs"
    /\ epoch' = epoch + 1
    /\ changed' = FALSE
    /\ events' = {}
    /\ UNCHANGED <<unionVars, indexVars, nextFact, recipe, live, hidden, stamp>>

------------------------------------------------------------------------------
(* Effects of the right-hand sides.  Operations that find their row and     *)
(* change nothing (a hash-cons hit, a relation row that exists, deleting a  *)
(* missing row) only return and are stutters.                               *)

(* Mutant: the class id is reserved one too far. *)
FreshValueSkipsOne(t) ==
    IF t \in Constructors THEN ClassOf(nextFact + 2) ELSE Unit

FreshValue(t) == IF t \in Constructors THEN ClassOf(nextFact + 1) ELSE Unit

(* activate(): file a new fact under a key no live fact owns. *)
Activate(t, key, v, hide) ==
    LET f == nextFact + 1
        r == [table |-> t, key |-> key, value |-> v]
        h == HashOf(t, key)
    IN  /\ nextFact < MaxFact
        /\ Matching(t, key) = {}
        /\ nextFact' = f
        /\ recipe' = Put(recipe, f, r)
        /\ live' = live \cup {f}
        /\ hidden' = IF hide THEN hidden \cup {f} ELSE hidden
        /\ stamp' = [stamp EXCEPT ![f] = epoch]
        /\ bucketOf' = [bucketOf EXCEPT ![f] = h]
        /\ intern' = [intern EXCEPT ![h] = @ \cup {f}]
        /\ Subscribe(f, Refs(r))
        /\ events' = events \cup {f}
        /\ changed' = TRUE
        /\ UNCHANGED <<unionVars, epoch, phase>>

(* construct() on a miss. *)
Construct(t, key) ==
    /\ phase = "rhs"
    /\ Activate(t, key, FreshValue(t), FALSE)

(* hide(.., delete = false) on a miss: dynamic_construct, then hide. *)
SubsumeFresh(t, key) ==
    /\ phase = "rhs"
    /\ Activate(t, key, FreshValue(t), TRUE)

(* set() on a virtual table: a constructor may be given a chosen class. *)
SetFact(t, key, v) ==
    /\ phase = "rhs"
    /\ Activate(t, key, v, FALSE)

RequestUnion(a, b) ==
    /\ phase = "rhs"
    /\ Len(pending) < MaxPending
    /\ pending' = Append(pending, <<a, b>>)
    /\ UNCHANGED <<root, dirty, indexVars, rowVars, epoch, phase>>

(* set() of a constructor row that exists asks for the two values' union. *)
SetExisting(t, key, v) ==
    \E f \in FactRefs :
        /\ First(f, Matching(t, key))
        /\ RequestUnion(Row(f).value, v)

(* Mutant: subsuming does not count as a change. *)
SubsumeQuietly(t, key) ==
    /\ phase = "rhs"
    /\ \E f \in FactRefs :
        /\ First(f, Matching(t, key))
        /\ f \notin hidden
        /\ hidden' = hidden \cup {f}
        /\ stamp' = [stamp EXCEPT ![f] = epoch]
        /\ events' = events \cup {f}
    /\ UNCHANGED <<unionVars, indexVars, nextFact, recipe, live, changed,
                   epoch, phase>>

Subsume(t, key) ==
    /\ phase = "rhs"
    /\ \E f \in FactRefs :
        /\ First(f, Matching(t, key))
        /\ f \notin hidden
        /\ hidden' = hidden \cup {f}
        /\ stamp' = [stamp EXCEPT ![f] = epoch]
        /\ events' = events \cup {f}
        /\ changed' = TRUE
    /\ UNCHANGED <<unionVars, indexVars, nextFact, recipe, live, epoch, phase>>

(* hide(.., delete = true): retire() the row. *)
Delete(t, key) ==
    /\ phase = "rhs"
    /\ \E f \in FactRefs :
        /\ First(f, Matching(t, key))
        /\ live' = live \ {f}
        /\ hidden' = hidden \ {f}
        /\ intern' = [intern EXCEPT ![bucketOf[f]] = @ \ {f}]
        /\ Subscribe(f, {})
        /\ changed' = TRUE
    /\ UNCHANGED <<unionVars, bucketOf, nextFact, recipe, stamp, events,
                   epoch, phase>>

------------------------------------------------------------------------------
(* repair(): pending unions first, then the least dirty row.                *)

BeginRepair ==
    /\ phase = "rhs"
    /\ phase' = "repair"
    /\ UNCHANGED <<unionVars, indexVars, rowVars, epoch>>

(* Mutants of union(): the users of the younger class are copied and stay   *)
(* behind, are lost, or the older class's users are repaired instead.       *)
LinkRootsCopiesUses(lo, hi) ==
    /\ root' = [i \in Ids |-> IF root[i] = hi THEN lo ELSE root[i]]
    /\ dirty' = dirty \cup uses[hi]
    /\ uses' = [uses EXCEPT ![lo] = @ \cup uses[hi]]
    /\ changed' = TRUE
LinkRootsLosesUses(lo, hi) ==
    /\ root' = [i \in Ids |-> IF root[i] = hi THEN lo ELSE root[i]]
    /\ dirty' = dirty \cup uses[hi]
    /\ uses' = [uses EXCEPT ![hi] = {}]
    /\ changed' = TRUE
LinkRootsMarksOlder(lo, hi) ==
    /\ root' = [i \in Ids |-> IF root[i] = hi THEN lo ELSE root[i]]
    /\ dirty' = dirty \cup uses[lo]
    /\ uses' = [uses EXCEPT ![lo] = @ \cup uses[hi], ![hi] = {}]
    /\ changed' = TRUE

(* union(): the younger root joins the older; only the rows that mention    *)
(* the younger one become dirty.                                            *)
LinkRoots(lo, hi) ==
    /\ root' = [i \in Ids |-> IF root[i] = hi THEN lo ELSE root[i]]
    /\ dirty' = dirty \cup uses[hi]
    /\ uses' = [uses EXCEPT ![lo] = @ \cup uses[hi], ![hi] = {}]
    /\ changed' = TRUE

(* Mutant: a union of two equal classes counts as a change. *)
ApplyUnionAlwaysChanges ==
    /\ phase = "repair"
    /\ pending # <<>>
    /\ pending' = Tail(pending)
    /\ LET a == root[Head(pending)[1]]
           b == root[Head(pending)[2]]
       IN  \/ a = b /\ changed' = TRUE /\ UNCHANGED <<root, dirty, uses>>
           \/ a < b /\ LinkRoots(a, b)
           \/ b < a /\ LinkRoots(b, a)
    /\ UNCHANGED <<nextFact, recipe, live, hidden, stamp, bucketOf, intern,
                   dependencies, events, epoch, phase>>

ApplyUnion ==
    /\ phase = "repair"
    /\ pending # <<>>
    /\ pending' = Tail(pending)
    /\ LET a == root[Head(pending)[1]]
           b == root[Head(pending)[2]]
       IN  \/ a = b /\ UNCHANGED <<root, dirty, uses, changed>>
           \/ a < b /\ LinkRoots(a, b)
           \/ b < a /\ LinkRoots(b, a)
    /\ UNCHANGED <<nextFact, recipe, live, hidden, stamp, bucketOf, intern,
                   dependencies, events, epoch, phase>>

NextDirty(d) == /\ phase = "repair"
                /\ pending = <<>>
                /\ First(d, dirty)

(* The intern table once f left the bucket it was filed under. *)
Unfiled(f) == [intern EXCEPT ![bucketOf[f]] = @ \ {f}]
Owners(f) == {g \in Unfiled(f)[HashOf(Row(f).table, Row(f).key)] \cap live :
                SameKey(g, f)}

(* Mutants of repair(): the fact stays in its old bucket; the re-filed fact *)
(* is not handed to the matcher.                                            *)
ReindexInPlace(f) ==
    /\ Owners(f) = {}
    /\ stamp' = [stamp EXCEPT ![f] = epoch]
    /\ Subscribe(f, Refs(Row(f)))
    /\ events' = events \cup {f}
    /\ UNCHANGED <<pending, live, hidden, intern, bucketOf>>
ReindexSilently(f) ==
    LET h == HashOf(Row(f).table, Row(f).key)
    IN  /\ Owners(f) = {}
        /\ intern' = [Unfiled(f) EXCEPT ![h] = @ \cup {f}]
        /\ bucketOf' = [bucketOf EXCEPT ![f] = h]
        /\ stamp' = [stamp EXCEPT ![f] = epoch]
        /\ Subscribe(f, Refs(Row(f)))
        /\ UNCHANGED <<pending, live, hidden, events>>

(* Nobody else owns the canonical key: re-file the fact. *)
Reindex(f) ==
    LET h == HashOf(Row(f).table, Row(f).key)
    IN  /\ Owners(f) = {}
        /\ intern' = [Unfiled(f) EXCEPT ![h] = @ \cup {f}]
        /\ bucketOf' = [bucketOf EXCEPT ![f] = h]
        /\ stamp' = [stamp EXCEPT ![f] = epoch]
        /\ Subscribe(f, Refs(Row(f)))
        /\ events' = events \cup {f}
        /\ UNCHANGED <<pending, live, hidden>>

(* Mutants: a duplicate is retired without its subsumption, or without the  *)
(* union congruence asks for.                                               *)
CollapseDropsHidden(f, g) ==
    /\ First(g, Owners(f))
    /\ pending' = IF Row(f).table \in Constructors
                  THEN Append(pending, <<Row(f).value, Row(g).value>>)
                  ELSE pending
    /\ hidden' = hidden \ {f}
    /\ stamp' = [stamp EXCEPT ![g] = epoch]
    /\ events' = events \cup {g}
    /\ live' = live \ {f}
    /\ intern' = Unfiled(f)
    /\ Subscribe(f, {})
    /\ UNCHANGED bucketOf
CollapseWithoutUnion(f, g) ==
    /\ First(g, Owners(f))
    /\ hidden' = (hidden \ {f}) \cup {x \in {g} : f \in hidden}
    /\ stamp' = [stamp EXCEPT ![g] = epoch]
    /\ events' = events \cup {g}
    /\ live' = live \ {f}
    /\ intern' = Unfiled(f)
    /\ Subscribe(f, {})
    /\ UNCHANGED <<bucketOf, pending>>

(* Another fact owns it: congruence asks for the union of the two values,   *)
(* the owner inherits subsumption, and f is retired.                        *)
Collapse(f, g) ==
    /\ First(g, Owners(f))
    /\ pending' = IF Row(f).table \in Constructors
                  THEN Append(pending, <<Row(f).value, Row(g).value>>)
                  ELSE pending
    /\ hidden' = (hidden \ {f}) \cup {x \in {g} : f \in hidden}
    /\ stamp' = [stamp EXCEPT ![g] = epoch]
    /\ events' = events \cup {g}
    /\ live' = live \ {f}
    /\ intern' = Unfiled(f)
    /\ Subscribe(f, {})
    /\ UNCHANGED bucketOf

(* Mutant: the work list is read without being popped. *)
RepairFactUnpopped(f) ==
    /\ NextDirty(f)
    /\ Reindex(f) \/ \E g \in FactRefs : Collapse(f, g)
    /\ UNCHANGED <<root, dirty, nextFact, recipe, changed, epoch, phase>>

(* A dirty fact is never retired before its turn (DirtyLive), so the early  *)
(* `continue` on a fact that is gone is not a branch here.                  *)
RepairFact(f) ==
    /\ NextDirty(f)
    /\ dirty' = dirty \ {f}
    /\ Reindex(f) \/ \E g \in FactRefs : Collapse(f, g)
    /\ UNCHANGED <<root, nextFact, recipe, changed, epoch, phase>>

(* repair() returns; run() publishes the Run. *)
Publish ==
    /\ phase = "repair"
    /\ pending = <<>>
    /\ dirty = {}
    /\ phase' = "idle"
    /\ UNCHANGED <<unionVars, indexVars, rowVars, epoch>>

------------------------------------------------------------------------------
Effect ==
    \/ \E t \in Virtual \cap RuleTables : \E key \in KnownKeys(t) :
        \/ Construct(t, key)
        \/ SubsumeFresh(t, key)
        \/ Subsume(t, key)
        \/ Delete(t, key)
    \/ \E t \in Constructors \cap RuleTables : \E key \in KnownKeys(t) : \E v \in Known :
        SetFact(t, key, v) \/ SetExisting(t, key, v)
    \/ \E a, b \in Known : RequestUnion(a, b)

RepairStep == ApplyUnion \/ (\E f \in FactRefs : RepairFact(f)) \/ Publish

Next == BeginRun \/ Effect \/ BeginRepair \/ RepairStep

Spec == Init /\ [][Next]_vars

(* run() calls repair() after a finite list of bindings and the loop is     *)
(* never suspended.                                                         *)
FairSpec == Spec /\ WF_vars(BeginRepair) /\ WF_vars(RepairStep)

------------------------------------------------------------------------------
(* Classes that exist: a row or a pending union mentions no other. *)
Made == 1..(NumImports + nextFact)

TypeOK ==
    /\ root \in [Ids -> Ids]
    /\ nextFact \in 0..MaxFact
    /\ DOMAIN recipe \subseteq Dependency
    /\ \A d \in DOMAIN recipe :
        /\ recipe[d].table \in Tables
        /\ recipe[d].key \in [1..Arity[recipe[d].table] -> Made]
        /\ recipe[d].value \in IF recipe[d].table \in Constructors THEN Made
                               ELSE Made \cup Scalars
    /\ DOMAIN recipe \cap FactRefs = 1..nextFact
    /\ live \subseteq DOMAIN recipe
    /\ hidden \subseteq live \cap FactRefs
    /\ stamp \in [Dependency -> 0..MaxEpoch]
    /\ bucketOf \in [FactRefs -> Hashes]
    /\ intern \in [Hashes -> SUBSET FactRefs]
    /\ uses \in [Ids -> SUBSET Dependency]
    /\ dependencies \in [Dependency -> SUBSET Ids]
    /\ dirty \subseteq Dependency
    /\ pending \in Seq(Made \X Made)
    /\ events \subseteq Dependency
    /\ epoch \in 0..MaxEpoch
    /\ changed \in BOOLEAN
    /\ phase \in {"idle", "rhs", "repair"}

(* The union-find is a forest whose roots are the oldest member: following  *)
(* root twice gains nothing, and no class points at a younger one (union).  *)
RootIsOldest == \A i \in Ids : root[root[i]] = root[i] /\ root[i] <= i

(* subscribe() and union() keep the reverse index exact: class i lists d    *)
(* exactly when some class d subscribed to now has root i.  A lost entry    *)
(* would lose a repair, a left-over one would repair a retired row.         *)
UsesExact ==
    \A i \in Ids, d \in Dependency :
        d \in uses[i] <=> \E x \in dependencies[d] : root[x] = i

(* A class no fact has made yet is alone in its class. *)
UnmadeAlone == \A i \in Ids \ Made : root[i] = i

(* What a live row subscribed to has the roots its recipe has; a row that   *)
(* is gone is subscribed to nothing (subscribe, retire).                    *)
Covers ==
    \A d \in Dependency :
        IF d \in live
        THEN \A i \in Ids : (\E x \in dependencies[d] : root[x] = i)
                            <=> (\E x \in Refs(recipe[d]) : root[x] = i)
        ELSE dependencies[d] = {}

(* A bucket holds exactly the live facts filed in it (activate, retire).    *)
Filed ==
    \A h \in Hashes, f \in FactRefs :
        f \in intern[h] <=> f \in live /\ bucketOf[f] = h

(* A live row is subscribed to every class its canonical form mentions, so  *)
(* a union of any of them finds the row (subscribe, union).                 *)
UsesComplete ==
    \A d \in live : \A i \in Refs(Row(d)) : d \in uses[i]

(* Only rows that exist are in the work list: repair never meets a fact     *)
(* retired before its turn (mark_affected, retire).                         *)
DirtyLive == dirty \subseteq live

(* A fact that is not dirty is filed under the hash of its canonical key,   *)
(* so lookup() finds it there (activate, repair).                           *)
CleanIndexed ==
    \A f \in (live \cap FactRefs) \ dirty :
        /\ bucketOf[f] = HashOf(Row(f).table, Row(f).key)
        /\ f \in intern[bucketOf[f]]

(* Hash-consing: of two live facts that are not dirty, no two have the      *)
(* same table and canonical key.  Holds between any two repair steps.       *)
CleanUnique ==
    \A f, g \in (live \cap FactRefs) \ dirty : SameKey(f, g) => f = g

(* Effects run on a repaired graph: outside repair nothing is dirty, so     *)
(* hash-consing (CleanUnique) covers every live fact a rule can see.        *)
QuietOutsideRepair ==
    phase # "repair" => dirty = {}

(* Subsumption survives congruence: when repair retires a hidden fact, the  *)
(* fact left with its canonical key is hidden (repair's `hidden |=`).       *)
HiddenSurvivesRepair ==
    [][\A f \in hidden : RepairStep =>
        \E g \in hidden' : (SameKey(f, g))']_vars

(* Every Run's repair ends in a published graph: unions and collapses are   *)
(* finite, and a re-filed fact does not become dirty by itself.             *)
RepairTerminates == (phase = "repair") ~> (phase = "idle")
==============================================================================
