-------------------------- MODULE MCLocalCongruence --------------------------
(* Two chains of two nodes over the parameters varX and varY: the leaves     *)
(* are equal when these are, and then so are their parents.                  *)
EXTENDS LocalCongruence
CONSTANTS node, mark, varX, varY, varA, varB, varC, varD
MCArity == [t \in {node, mark} |-> 1]
MCHash(t, k) == <<t, k[1] % 2>>
MCHashes == {node, mark} \X {0, 1}
let(dst, arg) == [dst |-> dst, table |-> node, args |-> <<arg>>]
MCBody == <<let(varA, varX), let(varB, varY), let(varC, varA), let(varD, varB)>>
==============================================================================
