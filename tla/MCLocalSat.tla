------------------------------ MODULE MCLocalSat ------------------------------
(* Tags beget terms, and terms edges, for ever, unless node(x) = x; tags    *)
(* are hidden meanwhile, or deleted; a scope of two sets joins terms, its   *)
(* marker rule in the first of them.                                        *)
EXTENDS LocalSat
CONSTANTS node, edge, tag, varX, varY, varU
MCArity == [t \in Tables |-> 1]
MCHash(t, k) == <<t, k[1] % 2>>
MCHashes == Tables \X {0, 1}
MCSchema == [t \in Tables |-> IF t = node THEN <<"term", "term">> ELSE <<"term", "Unit">>]
Atom(t, a, b) == [table |-> t, args |-> <<a, b>>]
SetOf(t, a) == [op |-> "set", table |-> t, args |-> <<a>>]
MCQuery ==
    << <<Atom(edge, varX, varU)>>,
       <<Atom(tag, varX, varU)>>,
       <<Atom(node, varX, varY), Atom(tag, varX, varU)>>,
       <<Atom(node, varX, varY), Atom(edge, varX, varU)>>,
       <<Atom(node, varX, varX)>>,
       <<Atom(node, varX, varY), Atom(edge, varX, varU)>> >>
MCBody ==
    << << SetOf(tag, varX) >>,
       << [op |-> "let", table |-> node, args |-> <<varX>>, dst |-> varY],
          SetOf(edge, varY) >>,
       << [op |-> "set", table |-> node, args |-> <<varX>>, value |-> varX] >>,
       << [op |-> "hide", table |-> tag, args |-> <<varX>>, delete |-> FALSE] >>,
       << SetOf(edge, varX) >>,
       << [op |-> "hide", table |-> tag, args |-> <<varX>>, delete |-> TRUE] >> >>
route(p, c, f) == [producer |-> p, consumer |-> c, from |-> f]
MCRoutes ==
    { route(1, 2, << <<"effect", 1>> >>),
      route(2, 1, << <<"effect", 2>> >>),
      route(2, 3, << <<"effect", 1>>, <<"query", 1>> >>),
      route(3, 5, << <<"effect", 1>> >>),
      route(5, 1, << <<"effect", 1>> >>) }
RunOf(s) == [op |-> "run", set |-> s, probe |-> "none", until |-> <<5>>]
Saturated(b) == [op |-> "saturate", body |-> b]
MCPass == [op |-> "sequence", children |-> << RunOf(<<1>>), Saturated(RunOf(<<2, 3, 5>>)) >>]
MCControl ==
    << [op |-> "repeat", count |-> 2,
        body |-> [RunOf(<<1, 4, 2>>) EXCEPT !.probe = "until"]],
       Saturated(MCPass) >>
MCNodes ==
    Range(MCControl) \cup {MCControl[1].body, MCPass}
        \cup Range(MCPass.children) \cup {RunOf(<<2, 3, 5>>)}
MCRuleSets == { <<1>>, <<2, 3, 5>>, <<1, 4, 2>>, <<1, 6, 2>> }
===============================================================================
