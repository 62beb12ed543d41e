------------------------------ MODULE MCRunLoop ------------------------------
(* A small program: rules that construct, join and union, subsume, delete   *)
(* and add rows, in three rulesets, over a unary constructor and a unary    *)
(* relation.                                                                *)
EXTENDS RunLoop
CONSTANTS node, edge, varX, varY, varZ, varU
MCArity == [t \in Tables |-> 1]
MCHash(t, k) == <<t, k[1] % 2>>
MCHashes == Tables \X {0, 1}
Atom(t, a, b) == [table |-> t, args |-> <<a, b>>]
MCQuery ==
    << <<Atom(edge, varX, varU)>>,
       <<Atom(node, varX, varY), Atom(edge, varY, varU)>>,
       <<Atom(node, varX, varY), Atom(node, varY, varZ)>>,
       <<Atom(edge, varX, varU), Atom(node, varY, varY)>> >>
MCBody ==
    << << [op |-> "let", table |-> node, args |-> <<varX>>, dst |-> varY] >>,
       << [op |-> "union", args |-> <<varX, varY>>] >>,
       << [op |-> "set", table |-> edge, args |-> <<varZ>>],
          [op |-> "hide", table |-> edge, args |-> <<varX>>, delete |-> FALSE],
          [op |-> "set", table |-> node, args |-> <<varZ>>, value |-> varX] >>,
       << [op |-> "hide", table |-> node, args |-> <<varY>>, delete |-> TRUE],
          [op |-> "let", table |-> node, args |-> <<varX>>, dst |-> varZ],
          [op |-> "set", table |-> edge, args |-> <<varZ>>] >> >>
MCRuleSets == { <<1>>, <<2, 3>>, <<4, 1>> }
==============================================================================
