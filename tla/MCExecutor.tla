------------------------------ MODULE MCExecutor ------------------------------
(* A program that only adds: saturate a set that builds terms and two that  *)
(* join them, then repeat a Run until a probe matches.                      *)
EXTENDS Executor
CONSTANTS node, edge, varX, varY, varZ, varU
MCArity == [t \in Tables |-> 1]
MCHash(t, k) == <<t, k[1] % 2>>
MCHashes == Tables \X {0, 1}
Atom(t, a, b) == [table |-> t, args |-> <<a, b>>]
MCQuery ==
    << <<Atom(edge, varX, varU)>>,
       <<Atom(node, varX, varY), Atom(edge, varY, varU)>>,
       <<Atom(node, varX, varY), Atom(node, varY, varZ)>>,
       <<Atom(node, varX, varX)>>,
       <<Atom(node, varX, varX), Atom(edge, varX, varU)>> >>
MCBody ==
    << << [op |-> "let", table |-> node, args |-> <<varX>>, dst |-> varY],
          [op |-> "set", table |-> node, args |-> <<varX>>, value |-> varY] >>,
       << [op |-> "union", args |-> <<varX, varY>>] >>,
       << [op |-> "union", args |-> <<varX, varZ>>] >>,
       << [op |-> "set", table |-> edge, args |-> <<varX>>] >>,
       << [op |-> "set", table |-> edge, args |-> <<varX>>] >> >>
RunOf(s, p) == [op |-> "run", set |-> s, probe |-> p, until |-> <<5>>]
MCPass ==
    [op |-> "sequence", children |-> << RunOf(<<1>>, "none"), RunOf(<<2, 3>>, "none") >>]
MCControl ==
    << [op |-> "saturate", body |-> MCPass],
       [op |-> "repeat", count |-> 2, body |-> RunOf(<<1, 4>>, "until")] >>
MCNodes ==
    {MCControl[1], MCPass, MCControl[2], MCControl[2].body} \cup Range(MCPass.children)
MCRuleSets == { <<1>>, <<2, 3>>, <<1, 4>>, <<5>> }
===============================================================================
