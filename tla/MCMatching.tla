----------------------------- MODULE MCMatching -----------------------------
(* What the matcher reads instead of the tables, side by side: the column     *)
(* indexes (QueryIndex) and the calls whose answer is already known           *)
(* (KnownResults).  Each behaviour runs one of them, `part`; they share no    *)
(* step.                                                                      *)
(*                                                                            *)
(* QueryIndex: one unary constructor.  Fingerprints tell odd and even apart,  *)
(* so that unequal classes share a bucket and a union can leave a row's       *)
(* fingerprints as they are.                                                  *)
EXTENDS QueryIndex, TLC
CONSTANT node

VARIABLES
    part,
    mode, plans, rows, shaded, class, unions, nextClass, deletion_epochs, work, frame, now

MCArity == [t \in {node} |-> 1]
MCHash(t, k) == k[1] % 2
MCFingerprint(v) == v % 2
MCBounds == {<<>>, 1 :> 1, 1 :> 2, 1 :> 1 @@ 2 :> 2}

------------------------------------------------------------------------------
(* KnownResults: rules that rebuild what they matched, what they just built,  *)
(* and what they or another rule deleted in between.  Table D loses rows, C   *)
(* does not.                                                                  *)

Atom(t, a) == [table |-> t, args |-> a]
Op1(kind, t, a, dst) == [kind |-> kind, table |-> t, args |-> a, dst |-> dst]

MCLeftSides == [
    again  |-> <<Atom("D", <<1, 2>>), Atom("C", <<2, 3>>)>>,
    twice  |-> <<Atom("D", <<1, 2>>)>>,
    drop   |-> <<Atom("D", <<1, 2>>)>>,
    redo   |-> <<Atom("D", <<1, 2>>)>>,
    late   |-> <<Atom("C", <<1, 2>>)>>]
MCRightSides == [
    again  |-> <<Op1("copy", "D", <<1>>, 4), Op1("let", "D", <<4>>, 5), Op1("let", "C", <<5>>, 6),
                 Op1("union", "D", <<6, 1>>, 0)>>,
    twice  |-> <<Op1("let", "C", <<1>>, 3), Op1("let", "C", <<1>>, 4), Op1("union", "C", <<4, 2>>, 0)>>,
    drop   |-> <<Op1("delete", "D", <<1>>, 0), Op1("let", "C", <<2>>, 3)>>,
    redo   |-> <<Op1("let", "D", <<2>>, 3), Op1("delete", "D", <<1>>, 0), Op1("let", "D", <<1>>, 4),
                 Op1("let", "D", <<2>>, 5)>>,
    late   |-> <<Op1("subsume", "C", <<1>>, 0), Op1("let", "C", <<1>>, 3), Op1("set", "D", <<3, 1>>, 0),
                 Op1("let", "D", <<3>>, 4), Op1("let", "D", <<4>>, 5), Op1("let", "C", <<5>>, 6)>>]
MCRunnable == {{"again"}, {"twice"}, {"again", "drop"}, {"redo"}, {"late", "twice"}}
MCRows == {[table |-> "D", key |-> <<1>>, value |-> 2], [table |-> "D", key |-> <<2>>, value |-> 2],
               [table |-> "C", key |-> <<2>>, value |-> 3]}

Results == INSTANCE KnownResults WITH
    Query <- MCLeftSides, Ops <- MCRightSides, RuleSets <- MCRunnable, Database <- MCRows,
    NumImports <- 3, MaxClass <- 9, MaxRuns <- 3,
    hidden <- shaded, root <- class, epoch <- now

------------------------------------------------------------------------------
indexVariables == allVars
knownVars == <<mode, plans, rows, shaded, class, unions, nextClass, deletion_epochs, work, frame, now>>
matchingVars == <<part, indexVariables, knownVars>>

(* The variables of a component that does not run. *)
KnownOff ==
    /\ mode = 0 /\ plans = 0 /\ rows = 0 /\ shaded = 0 /\ class = 0 /\ unions = 0
    /\ nextClass = 0 /\ deletion_epochs = 0 /\ work = 0 /\ frame = 0 /\ now = 0

InitMatching ==
    \/ part = "index" /\ QueryInit /\ KnownOff
    \/ part = "known" /\ QueryInit /\ Results!Init
NextMatching ==
    \/ part = "index" /\ QueryNext /\ UNCHANGED <<part, knownVars>>
    \/ part = "known" /\ Results!Next /\ UNCHANGED <<part, indexVariables>>
SpecMatching == InitMatching /\ [][NextMatching]_matchingVars

(* A lookup left out, under its guard or when compiled, would have returned   *)
(* the very value that is used in its place (reuse_result_slot, StaticPlan).  *)
ReuseIsLookup == part = "known" => Results!ReuseIsLookup /\ Results!SkipIsLookup
=============================================================================
