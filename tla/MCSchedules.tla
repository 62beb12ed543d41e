----------------------------- MODULE MCSchedules -----------------------------
(* The two schedules, side by side: the control list of the cell runtime      *)
(* (ScheduleRuns), as a schedule that nests every instruction in another one, *)
(* and the fork's optimized saturation (CpuCells).  Each behaviour runs one   *)
(* of them, `part`; they share no step.                                       *)
EXTENDS ScheduleRuns

CONSTANTS
    SetA, SetB, SetC,
    Programs        \* what CpuCells runs

VARIABLES
    part,           \* the component this behaviour runs
    \* CpuCells
    prog, plan, facts, receipts, cursor, now, place, pos, changed, active, noHidden, coverage,
    left, expected

RunOf(s, p) == [op |-> "run", set |-> s, probe |-> p]
Seq2(x, y) == [op |-> "sequence", children |-> <<x, y>>]
MCControl ==
    << RunOf(SetA, "none"),
       [op |-> "saturate", body |->
            Seq2([op |-> "repeat", count |-> 2, body |->
                    Seq2(RunOf(SetA, "until"), RunOf(SetB, "none"))],
                 [op |-> "saturate", body |-> RunOf(SetC, "none")])],
       [op |-> "repeat", count |-> 0, body |-> RunOf(SetB, "none")],
       [op |-> "repeat", count |-> 2, body |->
            [op |-> "saturate", body |-> RunOf(SetB, "until")]],
       RunOf(SetC, "assert") >>

------------------------------------------------------------------------------
(* CpuCells runs families of small programs: chains over three unary tables   *)
(* with every kind of head, joins over a binary table, unions, from every     *)
(* choice of absent, visible and hidden rows.                                 *)

At(t, vs) == [t |-> t, args |-> vs]
Do(k, t, vs) == [k |-> k, t |-> t, args |-> vs]
Tables == {"P", "Q", "S"}
Chain(b, k, h) == [vars |-> 1, body |-> <<At(b, <<1>>)>>, head |-> <<Do(k, h, <<1>>)>>]

Once(set) == [saturate |-> FALSE, body |-> <<set>>]
Always == [saturate |-> TRUE, body |-> <<"A", "B">>]
Same == [v \in 1..2 |-> v]
To(r) == [rule |-> r, map |-> Same]

\* The rows a program starts from: each absent, visible or hidden.
RowSets(xs) == UNION {[ys -> BOOLEAN] : ys \in SUBSET xs}
Unary == {<<"P", <<1>>>>, <<"P", <<2>>>>, <<"Q", <<1>>>>}

Chains ==
    {[rules |-> <<Chain("P", "set", "Q"), Chain(b2, k2, h2), Chain(b3, k3, h3)>>,
      sets |-> [A |-> {1}, B |-> {2} \cup (IF where = "B" THEN {3} ELSE {}),
                L |-> IF where = "L" THEN {3} ELSE {}],
      schedule |-> <<Once("L"), Always, Once("L"), Always>>,
      recipe |-> <<<<To(2), To(3)>>, <<To(3)>>, <<>>>>,
      rows |-> RowSets(Unary)] :
        b2 \in {"Q"}, k2 \in {"set", "let"}, h2 \in Tables,
        b3 \in Tables, k3 \in {"set", "drop", "hide"}, h3 \in Tables, where \in {"B", "L"}}
\* Those where a rule keeps a row that another keeps taking away never end.
Endless(p) == p.rules[3] = Chain("Q", "drop", "Q") /\ p.rules[2].head[1].t = "Q"

Join(k) == [vars |-> 2, body |-> <<At("E", <<1, 2>>), At("P", <<1>>)>>,
            head |-> IF k = "union" THEN <<Do("union", "E", <<1, 2>>)>>
                     ELSE IF k = "both" THEN <<Do("set", "P", <<2>>), Do("set", "S", <<1>>)>>
                     ELSE <<Do("set", "P", <<2>>)>>]
Edges == {<<"E", <<1, 2>>>>, <<"E", <<2, 2>>>>, <<"P", <<1>>>>, <<"E", <<2, 1>>>>}
Joins ==
    {[rules |-> <<Join(k), Chain("P", "set", "Q"), last>>,
      sets |-> [A |-> {1}, B |-> {2, 3}, L |-> {}],
      schedule |-> <<Once("A"), Always, Once("B"), Always>>,
      recipe |-> <<<<[rule |-> 2, map |-> [v \in 1..2 |-> IF k = "union" THEN 1 ELSE 2]], To(3)>>, <<To(3)>>, <<>>>>,
      rows |-> RowSets(Edges)] :
        k \in {"union", "set", "both"},
        last \in {Chain("Q", "set", "S"), Chain("S", "drop", "S"), Chain("S", "hide", "P"), Join("union")}}

MCPrograms == {p \in Chains : ~Endless(p)} \cup Joins
Cpu == INSTANCE CpuCells WITH Values <- {1, 2}, item <- place

------------------------------------------------------------------------------
cpuVars == <<prog, plan, facts, receipts, cursor, now, place, pos, changed, active, noHidden,
             coverage, left, expected>>
schedulesVars == <<part, runsVars, cpuVars>>

(* The component that does not run stays where it starts, and CpuCells, whose *)
(* start is costly, nowhere.                                                  *)
CpuOff ==
    /\ prog = 0 /\ plan = 0 /\ facts = 0 /\ receipts = 0 /\ cursor = 0 /\ now = 0 /\ place = 0
    /\ pos = 0 /\ changed = 0 /\ active = 0 /\ noHidden = 0 /\ coverage = 0 /\ left = {}
    /\ expected = 0
InitSchedules ==
    /\ InitRuns
    /\ \/ part = "control" /\ CpuOff
       \/ part = "cpu" /\ Cpu!Init
NextSchedules ==
    \/ part = "control" /\ NextRuns /\ UNCHANGED <<part, cpuVars>>
    \/ part = "cpu" /\ Cpu!Next /\ UNCHANGED <<part, runsVars>>
SpecSchedules ==
    /\ InitSchedules /\ [][NextSchedules]_schedulesVars
    /\ WF_runsVars(part = "control" /\ NextRuns)

(* When Runs stop reporting changes, every saturation and repeat of the       *)
(* control list is left (Task::Saturate).                                     *)
ControlEnds == part = "control" => ScheduleEnds

(* The optimized saturation ends in the rows of the original schedule; its    *)
(* receipts are true, its region is the largest closed one, and a rule left   *)
(* out whole has nothing to do.                                               *)
CpuSafe ==
    /\ [](part = "cpu" =>
            Cpu!TypeOK /\ Cpu!ReceiptsTrue /\ Cpu!LargestRegion /\ Cpu!EndsAsOriginal)
    /\ [][part = "cpu" => Cpu!LeftOutDone]_cpuVars
==============================================================================
