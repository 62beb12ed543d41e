---------------------------- MODULE MCCellHistory ----------------------------
(* Small instances of CellHistory: a unary and a binary constructor, a      *)
(* unary relation, and a unary function table per merge kind; a             *)
(* configuration picks the tables of its program.                           *)
EXTENDS CellHistory
CONSTANTS node, pair, edge, best, some
MCArity == [t \in Tables |-> IF t = pair THEN 2 ELSE 1]
MCMergeKind == [t \in FunTables |-> IF t = best THEN "min" ELSE "construct"]
MCHash(t, k) == <<t, k[1] % 2>>
MCHashes == Tables \X {0, 1}
MCScalars == {-1, 0}
==============================================================================
