--------------------------- MODULE LocalCongruence ---------------------------
(***************************************************************************)
(* Local congruence programs of engine/cell-runtime (congruence.rs, and    *)
(* repair_local_congruence of graph.rs) over the fact graph.  A template    *)
(* that makes several constructor rows knows, from its wiring alone, which  *)
(* of them become equal once some of its parameters are.  During repair, a  *)
(* frame one of whose rows was reached by a union tests these guards, joins *)
(* all the classes they prove equal at once and retires its duplicate rows, *)
(* before the global repair looks at any of them.                          *)
(*                                                                         *)
(* The graph is CellGraph; one template is instantiated any number of      *)
(* times.  Rows of marker tables wait until every other row is repaired.    *)
(***************************************************************************)
EXTENDS CellGraph, FiniteSets

CONSTANTS
    Params,         \* the template's parameters
    Body,           \* its constructor lets: sequence of [dst, table, args]
    Markers,        \* program.views.markers
    MaxFrames,      \* bound: frames
    MaxLost         \* bound: rows hidden or deleted by other rules

VARIABLES
    frames,         \* sequence of [values, facts]: slots, and op -> fact
    pc,             \* the next op of the last frame; 0 between frames
    congruenceDirty,
    merges          \* the certificate compiled at load, see Compile

frameVars == <<frames, pc, congruenceDirty, merges>>
allVars == <<vars, frameVars>>

------------------------------------------------------------------------------
(* The certificate: compile() and parse(). *)

Ops == DOMAIN Body
Slots == Params \cup {Body[i].dst : i \in Ops}
SlotsAfter(n) == Params \cup {Body[i].dst : i \in 1..n}

(* A template makes rows of constructors.  Each let defines a slot of its   *)
(* own ("invalid SSA definition") and reads slots that are defined before   *)
(* it (Program::validate).                                                  *)
ASSUME BodyAssumption ==
    /\ Len(Body) \in Nat \ {0}
    /\ Ops = 1..Len(Body)
    /\ \A i \in Ops :
        /\ Body[i].dst \notin SlotsAfter(i - 1)
        /\ Body[i].table \in Constructors
        /\ Body[i].args \in [1..Arity[Body[i].table] -> SlotsAfter(i - 1)]

OpOf(s) == CHOOSE i \in Ops : Body[i].dst = s

Shape ==
    LET shape[s \in Slots] ==
            IF s \in Params THEN <<>>
            ELSE <<Body[OpOf(s)].table,
                   [n \in DOMAIN Body[OpOf(s)].args |-> shape[Body[OpOf(s)].args[n]]]>>
    IN  shape

(* prove(): {} when two slots can never be proved equal, else the guards    *)
(* that make them equal and the rows the proof stands on.                   *)
Proof ==
    LET prove[p \in Slots \X Slots] ==
            IF p[1] = p[2] THEN {[guards |-> {}, requires |-> {}]}
            ELSE IF p[1] \in Params \/ p[2] \in Params \/ Shape[p[1]][1] # Shape[p[2]][1]
            THEN {[guards |-> {{p[1], p[2]}}, requires |-> {}]}
            ELSE LET i == OpOf(p[1])
                     j == OpOf(p[2])
                     arg(n) == prove[<<Body[i].args[n], Body[j].args[n]>>]
                     proofs == UNION {arg(n) : n \in DOMAIN Body[i].args}
                 IN  IF \E n \in DOMAIN Body[i].args : arg(n) = {} THEN {}
                     ELSE {[guards |-> UNION {x.guards : x \in proofs},
                            requires |-> {i, j} \cup UNION {x.requires : x \in proofs}]}
    IN  prove
Compile ==
    UNION {{[left |-> e[1], right |-> e[2], guards |-> x.guards, requires |-> x.requires] :
              x \in Proof[<<Body[e[1]].dst, Body[e[2]].dst>>]} :
           e \in {p \in Ops \X Ops :
                    p[1] < p[2] /\ Shape[Body[p[1]].dst] = Shape[Body[p[2]].dst]}}

------------------------------------------------------------------------------
(* Instances. *)

Slot(c, s) == root[frames[c].values[s]]
FactsOf(c) == {frames[c].facts[i] : i \in DOMAIN frames[c].facts}
FramesOf(D) == {c \in DOMAIN frames : FactsOf(c) \cap D # {}}

NewFrame(values) ==
    /\ phase = "rhs" /\ pc = 0
    /\ Len(frames) < MaxFrames
    /\ frames' = Append(frames, [values |-> values, facts |-> <<>>])
    /\ pc' = 1
    /\ UNCHANGED <<vars, congruenceDirty, merges>>

(* One let: the row is made, and is the frame's, or another row has the key. *)
RunOp ==
    LET c == Len(frames)
        op == Body[pc]
        key == [n \in DOMAIN op.args |-> Slot(c, op.args[n])]
        bind(v, own) ==
            frames' = [frames EXCEPT ![c] =
                        [values |-> Put(@.values, op.dst, v),
                         facts |-> IF own THEN Put(@.facts, pc, nextFact') ELSE @.facts]]
    IN  /\ pc # 0
        /\ pc' = IF pc = Len(Body) THEN 0 ELSE pc + 1
        /\ \/ Construct(op.table, key) /\ bind(FreshValue(op.table), TRUE)
           \/ \E f \in FactRefs :
                /\ First(f, Matching(op.table, key))
                /\ bind(Row(f).value, FALSE)
                /\ UNCHANGED vars
        /\ UNCHANGED <<congruenceDirty, merges>>

OtherEffect ==
    /\ pc = 0
    /\ \/ \E t \in Virtual \cap RuleTables : \E key \in KnownKeys(t) :
            \/ /\ Cardinality(hidden) + nextFact - Cardinality(live) < MaxLost
               /\ Subsume(t, key) \/ Delete(t, key)
            \/ t \in Markers /\ Construct(t, key)
       \/ \E a, b \in Known : a < b /\ RequestUnion(a, b)
    /\ UNCHANGED frameVars

------------------------------------------------------------------------------
(* Repair: unions, then local programs, then rows, markers last.            *)

(* mark_affected(): the frames of the rows the union reached are visited,   *)
(* those whose rows already wait for their repair included.                 *)
UnionMarks ==
    /\ ApplyUnion
    /\ LET displaced == {i \in Ids : root[i] = i /\ root'[i] # i}
       IN  congruenceDirty' = congruenceDirty \cup FramesOf(UNION {uses[i] : i \in displaced})
    /\ UNCHANGED <<frames, pc, merges>>

(* A parameter that is not made yet authorizes nothing; a row that is       *)
(* hidden or gone carries no proof.                                         *)
Ready(c, m) == \A i \in m.requires : i \in DOMAIN frames[c].facts
                                     /\ frames[c].facts[i] \in live \ hidden
Equal(c, m) == \A g \in m.guards : \A a, b \in g : Slot(c, a) = Slot(c, b)
(* Mutant: subsumed and deleted rows still carry a proof. *)
ProvedUnready(c) == {m \in merges : Equal(c, m) /\ {m.left, m.right} \subseteq DOMAIN frames[c].facts}
Proved(c) == {m \in merges : Equal(c, m) /\ Ready(c, m)}

(* The classes the proofs join, and the rows they show to be duplicates.    *)
Linked(p, pairs) ==
    LET ends == UNION {{e[1], e[2]} : e \in pairs}
        closed == {S \in SUBSET ends : \A e \in pairs : e[1] \in S <=> e[2] \in S}
        with(a) == {a} \cup {b \in ends : \A S \in closed : a \in S <=> b \in S}
    IN  [a \in p |-> CHOOSE b \in with(a) : \A z \in with(a) : b <= z]
Joined(c) == Linked({root[i] : i \in Ids},
                    {<<Slot(c, Body[m.left].dst), Slot(c, Body[m.right].dst)>> : m \in Proved(c)})
(* Mutant: rows of one class are taken for rows of one key. *)
SurvivorByClass(c) ==
    Linked(DOMAIN frames[c].facts,
           {e \in (DOMAIN frames[c].facts) \X (DOMAIN frames[c].facts) :
                Joined(c)[Slot(c, Body[e[1]].dst)] = Joined(c)[Slot(c, Body[e[2]].dst)]})
Survivor(c) == Linked(DOMAIN frames[c].facts, {<<m.left, m.right>> : m \in Proved(c)})
Duplicates(c) == {i \in DOMAIN frames[c].facts : Survivor(c)[i] # i}
Retired(c) == {frames[c].facts[i] : i \in Duplicates(c)}
Kept(c) == {frames[c].facts[Survivor(c)[i]] : i \in Duplicates(c)}

(* union_local_batch(): the rows of every class that took part, once.       *)
Reached(c) ==
    LET moved == {i \in Ids : root[i] = i /\ Joined(c)[i] # i}
    IN  UNION {uses[i] : i \in moved \cup {Joined(c)[j] : j \in moved}}

(* Mutant: the survivors need no global repair either. *)
SettledAll(c) == Retired(c) \cup Kept(c)
(* A survivor stays dirty: other frames may hold its key too. *)
Settled(c) == Retired(c)

(* Mutant: a frame stays on the list of those to visit. *)
UnvisitedNever(c) == congruenceDirty
Unvisited(c) == congruenceDirty \ {c}

RepairLocal(c) ==
    LET R == Retired(c)
        to == Joined(c)
        gathered == [i \in Ids |-> IF root[i] # i \/ to[i] # i THEN uses[i] \ uses[i]
                                   ELSE UNION {uses[j] : j \in {k \in Ids : root[k] = k /\ to[k] = i}}]
    IN  /\ phase = "repair"
        /\ pending = <<>>
        /\ First(c, congruenceDirty)
        /\ root' = [i \in Ids |-> to[root[i]]]
        /\ uses' = [i \in Ids |-> gathered[i] \ R]
        /\ dependencies' = [d \in Dependency |-> IF d \in R THEN {} ELSE dependencies[d]]
        /\ dirty' = (dirty \cup Reached(c)) \ Settled(c)
        /\ congruenceDirty' = Unvisited(c) \cup FramesOf(Reached(c))
        /\ live' = live \ R
        /\ intern' = [h \in Hashes |-> intern[h] \ R]
        /\ stamp' = [d \in Dependency |-> IF d \in Kept(c) THEN epoch ELSE stamp[d]]
        /\ events' = events \cup Kept(c)
        /\ changed' = (changed \/ \E i \in Ids : to[root[i]] # root[i])
        /\ frames' = [frames EXCEPT ![c].facts = [i \in DOMAIN @ \ Duplicates(c) |-> @[i]]]
        /\ UNCHANGED <<pending, bucketOf, nextFact, recipe, hidden, epoch, phase, pc, merges>>

(* The least row, markers after all others. *)
NextRow(f) ==
    LET early == {d \in dirty : recipe[d].table \notin Markers}
    IN  /\ pending = <<>>
        /\ congruenceDirty = {}
        /\ First(f, IF early # {} THEN early ELSE dirty)
RepairRow(f) ==
    /\ phase = "repair"
    /\ NextRow(f)
    /\ dirty' = dirty \ {f}
    /\ Reindex(f) \/ \E g \in FactRefs : Collapse(f, g)
    /\ UNCHANGED <<root, nextFact, recipe, changed, epoch, phase, frameVars>>

LocalInit == Init /\ frames = <<>> /\ pc = 0 /\ congruenceDirty = {} /\ merges = Compile

LocalNext ==
    \/ BeginRun /\ UNCHANGED frameVars
    \/ \E values \in [Params -> Known] : NewFrame(values)
    \/ RunOp
    \/ OtherEffect
    \/ pc = 0 /\ BeginRepair /\ UNCHANGED frameVars
    \/ UnionMarks
    \/ \E c \in DOMAIN frames : RepairLocal(c)
    \/ \E f \in FactRefs : RepairRow(f)
    \/ congruenceDirty = {} /\ Publish /\ UNCHANGED frameVars

LocalSpec == LocalInit /\ [][LocalNext]_allVars
LocalFairSpec == LocalSpec /\ WF_allVars(LocalNext /\ phase = "repair")

------------------------------------------------------------------------------
(* The namings of the classes under which rows of one key have one value:   *)
(* what all of them give one name is what congruence joins in the end.      *)
Mentioned == UNION {Refs(Row(f)) : f \in live \cap FactRefs}
KeyUnder(nm, f) == [n \in DOMAIN Row(f).key |-> nm[Row(f).key[n]]]
Congruences ==
    LET made == {f \in live \cap FactRefs : recipe[f].table \in Constructors}
    IN  {nm \in [Mentioned -> Mentioned] :
           \A f, g \in made :
             recipe[f].table = recipe[g].table /\ KeyUnder(nm, f) = KeyUnder(nm, g)
               => nm[Row(f).value] = nm[Row(g).value]}

(* A local program runs ahead of the global repair but never past it: every *)
(* union it makes is one that the congruence of the visible and hidden rows *)
(* forces anyway (Group.requires, repair_local_congruence); and the rows it *)
(* retires leave their canonical key behind, visible, with a row that is    *)
(* live: no row is lost to the shortcut (keep, old).                        *)
UnionsForced ==
    \A c \in DOMAIN frames : RepairLocal(c) =>
        LET moved == {i \in Ids : root'[i] # root[i]}
        IN  moved # {} => \A nm \in Congruences : \A i \in moved :
                /\ {root[i], root'[i]} \subseteq Mentioned
                /\ nm[root'[i]] = nm[root[i]]
KeysKept ==
    \A c \in DOMAIN frames : RepairLocal(c) =>
        \A f \in Retired(c) : \E g \in live' \ hidden' : (SameKey(f, g))'
LocalStepsForced == [][UnionsForced /\ KeysKept]_allVars

(* Every repair of a Run ends, with local programs visited again whenever   *)
(* what they joined reaches them again (congruence_dirty).                  *)
LocalRepairEnds == (phase = "repair") ~> (phase = "idle")

(* Once a Run is published no two live rows have the same key, markers      *)
(* included, and every row is filed where lookup() finds it: the shortcut   *)
(* and the order of the markers leave what the global repair would.         *)
Congruent ==
    phase # "repair" =>
        /\ \A f, g \in live \cap FactRefs : SameKey(f, g) => f = g
        /\ \A f \in live \cap FactRefs : bucketOf[f] = HashOf(Row(f).table, Row(f).key)
==============================================================================
