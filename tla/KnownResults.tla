---------------------------- MODULE KnownResults ----------------------------
(***************************************************************************)
(* Constructor calls whose answer is already known (known_results.rs).     *)
(* When the key of a `let` in a right-hand side is the key of a row its    *)
(* query matched, or of an earlier effect of the same right-hand side, the *)
(* lookup is left out: at run time under a guard (mode "value"), or when   *)
(* the program is compiled (mode "static").  Neither may return anything   *)
(* but what the lookup would.                                              *)
(*                                                                         *)
(* What is abstracted.  Rows are keyed by table and canonical key; repair  *)
(* is one step (CellGraph); all tables here are constructors and no merge  *)
(* callback runs in a right-hand side, so no row is dirty while one does.  *)
(* Bindings of a Run are applied in any order.                             *)
(***************************************************************************)
EXTENDS Integers, SequencesExt, FiniteSetsExt

CONSTANTS
    Query,          \* rule -> atoms [table, args]
    Ops,            \* rule -> operations [kind, table, args, dst]
    RuleSets,       \* the rulesets a Run may name
    Database,       \* initial rows [table, key, value]
    NumImports,     \* classes of the initial database
    MaxClass,       \* bound: classes ever made
    MaxRuns         \* bound: Runs

Rules   == DOMAIN Query
Classes == 1..MaxClass
NoSlot  == 0

------------------------------------------------------------------------------
(* Plans::derive, once for the program. *)

Prefix(ops, n, kind) == {i \in 1..(n - 1) : ops[i].kind = kind}

(* normalize: follow the copies of a template; `upto` bounds which are seen. *)
RECURSIVE Normal(_, _, _)
Normal(ops, upto, slot) ==
    LET copies == {i \in Prefix(ops, upto, "copy") : ops[i].dst = slot}
    IN  IF copies = {} THEN slot ELSE Normal(ops, upto, ops[Min(copies)].args[1])
NormalAll(ops, args) == [i \in DOMAIN args |-> Normal(ops, Len(ops) + 1, args[i])]

(* The rows a right-hand side knows of before operation `op`: those of its *)
(* query first, then those its own effects made.                           *)
QueryRows(r) ==
    {[from |-> <<0, i>>, table |-> Query[r][i].table, args |-> NormalAll(Ops[r], Query[r][i].args)]
        : i \in DOMAIN Query[r]}
EffectRows(r, op) ==
    {[from |-> <<1, i>>, table |-> Ops[r][i].table,
      args |-> NormalAll(Ops[r], Append(Ops[r][i].args, Ops[r][i].dst))] : i \in Prefix(Ops[r], op, "let")}
    \cup
    {[from |-> <<2, i>>, table |-> Ops[r][i].table, args |-> NormalAll(Ops[r], Ops[r][i].args)]
        : i \in Prefix(Ops[r], op, "set")}
Before(a, b) ==
    LET late(f) == IF f[1] = 0 THEN 0 ELSE 1
    IN  late(a) < late(b) \/ (late(a) = late(b) /\ a[2] <= b[2])
KnownRows(r, op) ==
    {row \in QueryRows(r) \cup EffectRows(r, op) :
        /\ row.table = Ops[r][op].table
        /\ Front(row.args) = NormalAll(Ops[r], Ops[r][op].args)}

(* The slot that holds the answer of `op`; the value of a `set` is not one. *)
ValuePlan(r, op) ==
    LET rows == KnownRows(r, op)
        row  == CHOOSE x \in rows : \A y \in rows : Before(x.from, y.from)
    IN  IF Ops[r][op].kind # "let" \/ rows = {} \/ row.from[1] = 2 THEN NoSlot
        ELSE Last(row.args)

(* The static plan walks the operations with what it knows so far: slots    *)
(* that stand for another, and rows, from tables no rule deletes from or    *)
(* from effects since the last delete of their table.                       *)
Deleted == {Ops[r][i].table : <<r, i>> \in {<<q, j>> \in Rules \X (1..Max({Len(Ops[s]) : s \in Rules})) :
                                                j \in DOMAIN Ops[q] /\ Ops[q][j].kind = "delete"}}
Alias(aliases, slot) ==
    IF \E a \in aliases : a[1] = slot THEN (CHOOSE a \in aliases : a[1] = slot)[2] ELSE slot
SameCall(a, b) == a.table = b.table /\ Front(a.args) = Front(b.args)
(* The first atom of a key gives its value. *)
RowsOf(r, atoms) ==
    {[table |-> Query[r][i].table, key |-> Front(Query[r][i].args), value |-> Last(Query[r][i].args)]
        : i \in {j \in atoms : ~\E k \in atoms : k < j /\ SameCall(Query[r][k], Query[r][j])}}
(* Mutant: a matched row counts as known although some rule deletes rows. *)
MatchedRowsAlways(r) == RowsOf(r, DOMAIN Query[r])
MatchedRows(r) == RowsOf(r, {j \in DOMAIN Query[r] : Query[r][j].table \notin Deleted})
StaticStep(s, op) ==
    LET key  == [i \in DOMAIN op.args |-> Alias(s.aliases, op.args[i])]
        same == {k \in s.known : k.table = op.table /\ k.key = key}
        value == (CHOOSE k \in same : TRUE).value
    IN  CASE op.kind = "copy"   -> [s EXCEPT !.aliases = @ \cup {<<op.dst, Alias(s.aliases, op.args[1])>>},
                                             !.skip = Append(@, NoSlot)]
          [] op.kind = "delete" -> [s EXCEPT !.known = {k \in @ : k.table # op.table},
                                             !.skip = Append(@, NoSlot)]
          [] op.kind = "let" /\ same # {} -> [s EXCEPT !.aliases = @ \cup {<<op.dst, value>>},
                                                       !.skip = Append(@, value)]
          [] op.kind = "let" /\ same = {} ->
                [s EXCEPT !.known = @ \cup {[table |-> op.table, key |-> key, value |-> op.dst]},
                          !.skip = Append(@, NoSlot)]
          [] OTHER -> [s EXCEPT !.skip = Append(@, NoSlot)]
StaticPlan(r) ==
    FoldLeft(StaticStep, [aliases |-> {}, known |-> MatchedRows(r), skip |-> <<>>], Ops[r]).skip

Plans == [r \in Rules |-> [value |-> [op \in DOMAIN Ops[r] |-> ValuePlan(r, op)],
                          skip  |-> StaticPlan(r)]]

------------------------------------------------------------------------------
VARIABLES
    mode,           \* CELL_CPU_KNOWN_RESULTS: "off", "value" or "static"
    rows,           \* rows of the graph: [table, key, value, born]
    hidden,         \* keys <<table, key>> of the subsumed ones
    root,           \* the union-find, every chain followed
    unions,         \* unions requested in this Run
    nextClass,
    deletion_epochs,\* table -> epoch of its last delete
    work,           \* bindings still to apply: [rule, values]
    frame,          \* the running right-hand side: [rule, op, values]; op = 0 when none
    epoch,
    plans           \* what Plans::derive made of the program

vars == <<mode, plans, rows, hidden, root, unions, nextClass, deletion_epochs, work, frame, epoch>>
graphVars == <<plans, rows, hidden, unions, nextClass, deletion_epochs>>

TablesUsed == {row.table : row \in Database}
    \cup UNION {{Ops[r][i].table : i \in DOMAIN Ops[r]} : r \in Rules}
NoFrame == [rule |-> CHOOSE r \in Rules : TRUE, op |-> 0, values |-> <<>>]

Init ==
    /\ mode \in {"value", "static"}
    /\ plans = Plans
    /\ rows = {[table |-> row.table, key |-> row.key, value |-> row.value, born |-> 0] : row \in Database}
    /\ hidden = {}
    /\ root = [c \in Classes |-> c]
    /\ unions = {}
    /\ nextClass = NumImports + 1
    /\ deletion_epochs = [t \in TablesUsed |-> 0]
    /\ work = {}
    /\ frame = NoFrame
    /\ epoch = 0

Put(f, x, v) == [y \in DOMAIN f \cup {x} |-> IF y = x THEN v ELSE f[y]]
Lookup(table, key) == {row \in rows : row.table = table /\ row.key = key}
Full(row) == Append(row.key, row.value)

Visible == {row \in rows : <<row.table, row.key>> \notin hidden}
QuerySlots(r) == UNION {{Query[r][i].args[a] : a \in DOMAIN Query[r][i].args} : i \in DOMAIN Query[r]}
Matches(r) ==
    {[rule |-> r,
      values |-> [s \in QuerySlots(r) |->
                    LET i == Min({j \in DOMAIN Query[r] : \E a \in DOMAIN Query[r][j].args : Query[r][j].args[a] = s})
                        a == Min({b \in DOMAIN Query[r][i].args : Query[r][i].args[b] = s})
                    IN  Full(w[i])[a]]]
     : w \in {v \in [DOMAIN Query[r] -> Visible] :
                /\ \A i \in DOMAIN Query[r] : v[i].table = Query[r][i].table
                /\ \A i, j \in DOMAIN Query[r] :
                    \A a \in DOMAIN Query[r][i].args, b \in DOMAIN Query[r][j].args :
                        Query[r][i].args[a] = Query[r][j].args[b] => Full(v[i])[a] = Full(v[j])[b]}}

BeginRun(set) ==
    /\ work = {} /\ frame.op = 0 /\ unions = {}
    /\ epoch < MaxRuns
    /\ epoch' = epoch + 1
    /\ work' = UNION {Matches(r) : r \in set}
    /\ UNCHANGED <<mode, graphVars, root, frame>>

Apply(b) ==
    /\ frame.op = 0
    /\ b \in work
    /\ work' = work \ {b}
    /\ frame' = [rule |-> b.rule, op |-> 1, values |-> b.values]
    /\ UNCHANGED <<mode, graphVars, root, epoch>>

(* A slot of the frame: what was bound or computed, else what it copies, *)
(* else, in mode "static", the slot the skipped operation stands for.    *)
RECURSIVE Read(_)
Read(slot) ==
    LET ops == Ops[frame.rule]
        def == CHOOSE i \in DOMAIN ops : ops[i].kind \in {"copy", "let"} /\ ops[i].dst = slot
    IN  IF slot \in DOMAIN frame.values THEN root[frame.values[slot]]
        ELSE IF ops[def].kind = "copy" THEN Read(ops[def].args[1])
        ELSE Read(plans[frame.rule].skip[def])
Arguments(args) == [i \in DOMAIN args |-> Read(args[i])]

Op      == Ops[frame.rule][frame.op]
Running == frame.op > 0 /\ frame.op <= Len(Ops[frame.rule])
Known   == plans[frame.rule].value[frame.op]
Skipped == mode = "static" /\ plans[frame.rule].skip[frame.op] # NoSlot

(* reuse_result_slot: not once a row of the table was deleted in this Run. *)
(* Mutant: the matched row is taken to be there still.                     *)
ReusableAlways == mode = "value" /\ Known # NoSlot
Reusable ==
    /\ mode = "value"
    /\ Known # NoSlot
    /\ deletion_epochs[Op.table] < epoch

Advance(values) == frame' = [frame EXCEPT !.op = @ + 1, !.values = values]
Assign(v) == Advance(Put(frame.values, Op.dst, v))
Stop == frame' = NoFrame

Skip ==
    /\ Running /\ (Skipped \/ Op.kind = "copy")
    /\ Advance(frame.values)
    /\ UNCHANGED <<mode, graphVars, root, work, epoch>>
Reuse ==
    /\ Running /\ Op.kind = "let" /\ ~Skipped /\ Reusable
    /\ Assign(Read(Known))
    /\ UNCHANGED <<mode, graphVars, root, work, epoch>>
Construct ==
    LET key == Arguments(Op.args)
        hit == Lookup(Op.table, key)
    IN  /\ Running /\ Op.kind = "let" /\ ~Skipped /\ ~Reusable
        /\ IF hit # {}
           THEN /\ Assign((CHOOSE row \in hit : TRUE).value)
                /\ UNCHANGED <<rows, nextClass>>
           ELSE /\ nextClass \in Classes
                /\ Assign(nextClass)
                /\ rows' = rows \cup {[table |-> Op.table, key |-> key, value |-> nextClass, born |-> epoch]}
                /\ nextClass' = nextClass + 1
        /\ UNCHANGED <<mode, plans, hidden, root, unions, deletion_epochs, work, epoch>>
Set ==
    LET key == Front(Arguments(Op.args))
        new == Last(Arguments(Op.args))
        hit == Lookup(Op.table, key)
    IN  /\ Running /\ Op.kind = "set"
        /\ IF hit # {} THEN /\ unions' = unions \cup {<<(CHOOSE row \in hit : TRUE).value, new>>}
                            /\ UNCHANGED rows
           ELSE /\ rows' = rows \cup {[table |-> Op.table, key |-> key, value |-> new, born |-> epoch]}
                /\ UNCHANGED unions
        /\ Advance(frame.values)
        /\ UNCHANGED <<mode, plans, hidden, root, nextClass, deletion_epochs, work, epoch>>
Unite ==
    /\ Running /\ Op.kind = "union"
    /\ unions' = unions \cup {Arguments(Op.args)}
    /\ Advance(frame.values)
    /\ UNCHANGED <<mode, plans, rows, hidden, root, nextClass, deletion_epochs, work, epoch>>
Delete ==
    LET key == Arguments(Op.args)
        hit == Lookup(Op.table, key)
    IN  /\ Running /\ Op.kind = "delete"
        /\ deletion_epochs' = [deletion_epochs EXCEPT ![Op.table] = epoch]
        /\ rows' = rows \ hit
        /\ hidden' = hidden \ {<<Op.table, key>>}
        /\ IF \E row \in hit : row.born < epoch THEN Advance(frame.values) ELSE Stop
        /\ UNCHANGED <<mode, plans, root, unions, nextClass, work, epoch>>
Subsume ==
    LET key == Arguments(Op.args)
        hit == Lookup(Op.table, key)
    IN  /\ Running /\ Op.kind = "subsume"
        /\ hidden' = hidden \cup {<<Op.table, key>>}
        /\ IF hit # {} THEN UNCHANGED <<rows, nextClass>>
           ELSE /\ nextClass \in Classes
                /\ rows' = rows \cup {[table |-> Op.table, key |-> key, value |-> nextClass, born |-> epoch]}
                /\ nextClass' = nextClass + 1
        /\ IF \E row \in hit : row.born < epoch THEN Advance(frame.values) ELSE Stop
        /\ UNCHANGED <<mode, plans, root, unions, deletion_epochs, work, epoch>>
Finish ==
    /\ frame.op > Len(Ops[frame.rule])
    /\ Stop
    /\ UNCHANGED <<mode, graphVars, root, work, epoch>>

(* Graph::repair: the unions, the rows they rewrite, and the unions these  *)
(* ask for, until keys are unique again.                                   *)
Rewritten(f, S) ==
    {[row EXCEPT !.key = [i \in DOMAIN @ |-> f[@[i]]], !.value = f[@]] : row \in S}
Merge(f, a, b) == [c \in Classes |-> IF f[c] = Max({f[a], f[b]}) THEN Min({f[a], f[b]}) ELSE f[c]]
RECURSIVE Closure(_, _)
Closure(f, S) ==
    LET clash == {<<x, y>> \in S \X S : x.table = y.table /\ x.key = y.key /\ x.value < y.value}
        pair  == CHOOSE p \in clash : TRUE
    IN  IF clash = {} THEN f
        ELSE LET g == Merge(f, pair[1].value, pair[2].value) IN Closure(g, Rewritten(g, S))
Repaired(f, S) == {CHOOSE x \in S : x.table = k[1] /\ x.key = k[2] : k \in {<<row.table, row.key>> : row \in S}}
Repair ==
    LET f0 == FoldSet(LAMBDA p, f : Merge(f, p[1], p[2]), root, unions)
        f1 == Closure(f0, Rewritten(f0, rows))
    IN  /\ frame.op = 0 /\ work = {} /\ unions # {}
        /\ root' = f1
        /\ rows' = Repaired(f1, Rewritten(f1, rows))
        /\ hidden' = {<<k[1], [i \in DOMAIN k[2] |-> f1[k[2][i]]]>> : k \in hidden}
        /\ unions' = {}
        /\ UNCHANGED <<mode, plans, nextClass, deletion_epochs, work, frame, epoch>>

Next ==
    \/ \E set \in RuleSets : BeginRun(set)
    \/ \E b \in work : Apply(b)
    \/ Skip \/ Reuse \/ Construct \/ Set \/ Unite \/ Delete \/ Subsume \/ Finish
    \/ Repair

Spec == Init /\ [][Next]_vars

------------------------------------------------------------------------------
(* The row a plan relies on is there, with the value the plan takes: also   *)
(* after other bindings of the Run, and earlier effects of this right-hand  *)
(* side, deleted, subsumed or rewrote rows.                                 *)
Answers(slot) ==
    \E row \in Lookup(Op.table, Arguments(Op.args)) : root[row.value] = Read(slot)
ReuseIsLookup == Running /\ Op.kind = "let" /\ ~Skipped /\ Reusable => Answers(Known)
SkipIsLookup  == Running /\ Op.kind = "let" /\ Skipped => Answers(plans[frame.rule].skip[frame.op])
=============================================================================
