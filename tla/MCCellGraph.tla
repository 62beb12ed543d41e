----------------------------- MODULE MCCellGraph -----------------------------
(* Small instances of CellGraph: one unary constructor, one nullary one     *)
(* (a literal leaf) and one unary relation.                                 *)
EXTENDS CellGraph
CONSTANTS node, edge
MCArity == [t \in {node, edge} |-> 1]
(* One bucket per table and parity of the first class: unequal keys share   *)
(* buckets, and a union can keep a fact in its bucket or move it.           *)
MCHash(t, k) == <<t, k[1] % 2>>
MCHashes == {node, edge} \X {0, 1}
==============================================================================
