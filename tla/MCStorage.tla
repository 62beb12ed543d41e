------------------------------ MODULE MCStorage ------------------------------
(* Two components that keep the graph's storage, side by side: the Cells     *)
(* themselves (CellStore) and the merges of function rows (CellMerge, on two *)
(* programs).  Each behaviour runs one of them, `part`; they share no step.  *)
EXTENDS CellStore

VARIABLES
    part,           \* the component this behaviour runs
    \* CellMerge
    root, ports, directory, facts, nextClass, pendingUnions, dirtyFacts, dirtyPorts,
    error, given, sets, unions

------------------------------------------------------------------------------
(* CellStore: rows A(x) = y and B(y) = z, a marker M over their join, a      *)
(* second marker N over all three, and rules that delete, subsume and unite  *)
(* what the Cells were made from.                                            *)

Atom(t, a) == [table |-> t, args |-> a]
Op(kind, t, a, dst) == [kind |-> kind, table |-> t, args |-> a, dst |-> dst]

(* Slots: 1 = x, 2 = y, 3 = z. *)
AXY == Atom("A", <<1, 2>>)
BYZ == Atom("B", <<2, 3>>)
MXZ == Atom("M", <<1, 3>>)

MCQuery == [
    grow    |-> <<AXY>>,
    write   |-> <<AXY>>,
    view    |-> <<AXY, BYZ>>,
    nest    |-> <<AXY, BYZ, MXZ>>,
    erase   |-> <<AXY>>,
    cut     |-> <<BYZ>>,
    shade   |-> <<MXZ>>,
    unite   |-> <<BYZ>>]

MCOps == [
    grow    |-> <<Op("let", "B", <<2>>, 3)>>,
    write   |-> <<Op("let", "B", <<2>>, 3), Op("set", "F", <<2, 3>>, 0)>>,
    view    |-> <<Op("set", "M", <<1, 3>>, 0)>>,
    nest    |-> <<Op("set", "N", <<1, 2>>, 0)>>,
    erase   |-> <<Op("delete", "A", <<1>>, 0), Op("let", "A", <<2>>, 4)>>,
    cut     |-> <<Op("delete", "B", <<2>>, 0)>>,
    shade   |-> <<Op("subsume", "A", <<1>>, 0)>>,
    unite   |-> <<Op("union", "", <<2, 3>>, 0)>>,
    importA |-> <<Op("let", "A", <<1>>, 2)>>,
    importB |-> <<Op("let", "B", <<1>>, 2)>>]

MCImportOf == [A |-> "importA", B |-> "importB"]
MCRuleSets == {{"grow"}, {"write"}, {"view"}, {"nest"}, {"grow", "erase"}, {"view", "erase"},
               {"shade"}, {"unite"}, {"cut"}}
MCDatabase == <<[table |-> "A", values |-> <<1, 2>>], [table |-> "A", values |-> <<3, 2>>]>>

------------------------------------------------------------------------------
(* CellMerge: an extraction, where Gain is a lattice (max) and Best selects  *)
(* by it and keeps the old value on a tie; and traces, where Trace keeps     *)
(* every pair of values it was given.                                        *)

Var(n) == [kind |-> "var", name |-> n]
Lit(v) == [kind |-> "literal", value |-> v]
App(op, args) == [kind |-> "call", op |-> op, args |-> args]
Old == Var("old")
New == Var("new")
Prefer(a, b) == App("prefer", <<App("Gain", <<a>>), App("Gain", <<b>>), Lit(101), Lit(101)>>)

MCMergeOf == [
    Gain  |-> App("max", <<Old, New>>),
    Best  |-> App("select", <<Old, New, Prefer(Old, New)>>)]
MCTraceMerge == [
    Gain  |-> App("min", <<Old, New>>),
    Trace |-> App("Pair", <<Old, New>>)]
Nested == App("Pair", <<App("Pair", <<New, Old>>), App("Pair", <<Old, New>>)>>)

Extraction == INSTANCE CellMerge WITH
    MaxClass <- 6, MaxSets <- 5, MaxUnions <- 2, MergeOf <- MCMergeOf,
    Given <- [Gain |-> {<<2, 102>>, <<3, 101>>, <<3, 103>>, <<1, 101>>},
              Best |-> {<<2, 3>>, <<1, 2>>, <<3, 3>>}],
    Expressions <- {MCMergeOf.Best, MCMergeOf.Gain, Old}
Traces == INSTANCE CellMerge WITH
    MaxClass <- 9, MaxSets <- 5, MaxUnions <- 2, MergeOf <- MCTraceMerge,
    Given <- [Gain |-> {<<1, 101>>, <<2, 102>>, <<3, 101>>},
              Trace |-> {<<1, 1>>, <<1, 2>>, <<2, 1>>, <<2, 3>>}],
    Expressions <- {MCTraceMerge.Trace, Nested,
        App("Pair", <<App("Gain", <<New>>),
                      App("Pair", <<Lit(101), App("Trace", <<Old>>)>>)>>)}

------------------------------------------------------------------------------
storeVars == vars
mergeVars == <<root, ports, directory, facts, nextClass, pendingUnions, dirtyFacts, dirtyPorts,
               error, given, sets, unions>>
storageVars == <<part, storeVars, mergeVars>>

(* The variables of a component that does not run. *)
StoreOff == store = 0 /\ pending = 0 /\ watermark = 0 /\ work = 0 /\ epoch = 0 /\ phase = "off"
MergeOff ==
    /\ root = 0 /\ ports = 0 /\ directory = 0 /\ facts = 0 /\ nextClass = 0
    /\ pendingUnions = 0 /\ dirtyFacts = 0 /\ dirtyPorts = 0 /\ error = 0 /\ given = 0
    /\ sets = 0 /\ unions = 0
InitStorage ==
    \/ part = "store" /\ Init /\ MergeOff
    \/ part = "extraction" /\ Extraction!Init /\ StoreOff
    \/ part = "traces" /\ Traces!Init /\ StoreOff
NextStorage ==
    \/ part = "store" /\ Next /\ UNCHANGED <<part, mergeVars>>
    \/ part = "extraction" /\ Extraction!Next /\ UNCHANGED <<part, storeVars>>
    \/ part = "traces" /\ Traces!Next /\ UNCHANGED <<part, storeVars>>
SpecStorage == InitStorage /\ [][NextStorage]_storageVars

(* Every handle a frame or a waiting binding holds reads what it was made   *)
(* for, through deletions, unions and absorptions, and the counts that keep *)
(* Cells are exactly the references there are (graph.rs pin, release,       *)
(* retire_if_empty, detach_parameters).                                     *)
HandlesReadable ==
    part = "store" => BindingKept /\ WorkReadable /\ PinsExact /\ NothingFreeKept /\ NoError

(* What a rule has yet to match is queued for it where the row now lives,   *)
(* the indexes list exactly the live rows, and restore() accepts the image  *)
(* of every Run boundary (absorb_ready, retarget, restore).                 *)
QueuesFollow == part = "store" => ChangesQueued /\ FiledExact /\ RestoreAccepts

(* A lattice port reads the join of all it was given under its class, no    *)
(* merge program fails, and the compiled program of an expression computes  *)
(* it (read_port, compile_merge).                                           *)
MergesExact ==
    /\ part = "extraction" =>
        Extraction!ReadIsJoin /\ Extraction!NeverFails /\ Extraction!CompiledIsExpression
    /\ part = "traces" => Traces!CompiledIsExpression

(* The steps that only move storage, or repeat a set, change no row: absorb *)
(* moves rows with their stamps, and a value set again merges nothing.      *)
IdleStepsKeepRows ==
    [][(part = "store" => AbsorptionKeeps) /\ (part = "traces" => Traces!SetAgain)]_storageVars
=============================================================================
