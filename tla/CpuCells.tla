------------------------------ MODULE CpuCells ------------------------------
(***************************************************************************)
(* The optimized saturation of the egglog fork (cpu_cells.rs).  A scope is *)
(* a Saturate of the schedule whose rules, or a part of them, are positive *)
(* and closed: nothing they write is read by a rule outside the part, and  *)
(* no rule of the scope takes rows of theirs away.  Inside an activation   *)
(* of a scope a rule of the part leaves a receipt for every binding it     *)
(* applied (a private table, or the one row it writes), skips the bindings *)
(* with a receipt, is left out whole when as many receipts exist as rows   *)
(* of a table it matches, and applies at once the successors a recipe      *)
(* names when their bodies follow from the facts of the chain.  All of it  *)
(* has to end in the rows that the original schedule ends in.              *)
(*                                                                         *)
(* A relation's row is [at, hid]: the run that wrote it and whether it is  *)
(* subsumed.  Every table is a relation or a constructor whose result is   *)
(* left out; functions with a merge of their own reject the whole program  *)
(* (or are harmless), and primitives are left out.                         *)
(***************************************************************************)
EXTENDS Integers, Sequences, FiniteSets, SequencesExt

CONSTANTS Programs,    \* the rules, rule sets, schedule, recipe and first rows
          Values       \* the values of a row's columns, numbered

VARIABLES prog, plan,      \* the program and what compile made of it
          facts,           \* row -> [at, hid]
          receipts,        \* rule -> the bindings of its private table
          cursor, now,     \* last_run_at of every rule; next_ts
          item, pos,       \* the place in the schedule
          changed,         \* did this pass over a Saturate change anything
          active, noHidden, coverage,
          left,            \* the rules the last run left out
          expected         \* what the original schedule ends in

vars == <<prog, plan, facts, receipts, cursor, now, item, pos, changed, active,
          noHidden, coverage, left, expected>>

Rules == DOMAIN prog.rules

(*************************** the original schedule *************************)
Ground(a, b) == <<a.t, [i \in DOMAIN a.args |-> b[a.args[i]]]>>
Visible(f, x) == x \in DOMAIN f /\ ~f[x].hid
Bindings(r) == [1..r.vars -> Values]
Matches(f, r, from) ==
    {b \in Bindings(r) :
        /\ \A a \in Range(r.body) : Visible(f, Ground(a, b))
        /\ \E a \in Range(r.body) : f[Ground(a, b)].at >= from}

\* What the heads of a set of <<rule, binding>> stage.
Staged(p, fired, kinds) ==
    UNION {{Ground(a, x[2]) : a \in {a \in Range(p.rules[x[1]].head) : a.k \in kinds}} : x \in fired}
Unions(p, fired) == {<<x[2][1], x[2][2]>> : x \in Staged(p, fired, {"union"})}


Smaller(v, E) == CHOOSE w \in Values :
    /\ w <= v
    /\ \A u \in Values : (\E s \in SeqOf(Values, Cardinality(Values)) :
                              /\ s # <<>> /\ s[1] = v /\ s[Len(s)] = u
                              /\ \A i \in 1..(Len(s) - 1) :
                                    <<s[i], s[i+1]>> \in E \/ <<s[i+1], s[i]>> \in E) => w <= u
    /\ w = v \/ \E e \in E : w \in {e[1], e[2]}
Canon(E) == IF E = {} THEN [v \in Values |-> v] ELSE [v \in Values |-> Smaller(v, E)]
Renamed(x, c) == <<x[1], [i \in DOMAIN x[2] |-> c[x[2][i]]]>>

\* A row that meets one with its key: subsumed when either is, and rewritten
\* only when that changes it.
Merged(old, new) == IF new.hid /\ ~old.hid THEN new ELSE old

\* Rows leave, rows arrive, and unions rename what is there.
Written(f, drops, hides, rows, t) ==
    LET kept == DOMAIN f \ drops
        staged == hides \cup rows
        new(x) == [at |-> t, hid |-> x \in hides]
    IN  [x \in kept \cup staged |->
            IF x \notin staged THEN f[x]
            ELSE IF x \in kept THEN Merged(f[x], new(x)) ELSE new(x)]
Rebuilt(f, c, t) ==
    [y \in {Renamed(x, c) : x \in DOMAIN f} |->
        LET hid == \E x \in DOMAIN f : Renamed(x, c) = y /\ f[x].hid
        IN  IF y \in DOMAIN f /\ f[y].hid = hid THEN f[y] ELSE [at |-> t, hid |-> hid]]
Applied(p, f, fired, t) ==
    LET g == Written(f, Staged(p, fired, {"drop"}), Staged(p, fired, {"hide"}),
                     Staged(p, fired, {"set", "let"}), t)
        E == Unions(p, fired)
    IN  IF E = {} THEN g ELSE Rebuilt(g, Canon(E), t)

Fires(p, f, set, cur) ==
    UNION {{<<r, b>> : b \in Matches(f, p.rules[r], cur[r])} : r \in p.sets[set]}

\* The schedule is a sequence of single runs and of saturations of a sequence
\* of runs; what rows it ends in, run natively.
RECURSIVE Native(_, _, _, _, _, _, _)
Native(p, f, cur, t, i, k, ch) ==
    IF i > Len(p.schedule) THEN [x \in DOMAIN f |-> f[x].hid]
    ELSE LET s == p.schedule[i]
         IN  IF k > Len(s.body)
             THEN IF s.saturate /\ ch THEN Native(p, f, cur, t, i, 1, FALSE)
                  ELSE Native(p, f, cur, t, i + 1, 1, FALSE)
             ELSE LET g == Applied(p, f, Fires(p, f, s.body[k], cur), t)
                  IN  Native(p, g, [r \in DOMAIN cur |-> IF r \in p.sets[s.body[k]] THEN t ELSE cur[r]],
                             t + 1, i, k + 1, ch \/ g # f)

(******************************** compile **********************************)
HeadTables(r, kinds) == {a.t : a \in {a \in Range(r.head) : a.k \in kinds}}
Reads(r) == {a.t : a \in Range(r.body)} \cup HeadTables(r, {"let"})
Writes(r) == HeadTables(r, {"let", "set", "drop", "hide"})
Destroys(r) == HeadTables(r, {"drop", "hide"})
Unites(r) == \E a \in Range(r.head) : a.k = "union"
Positive(r) == Destroys(r) = {}
Mixed(p, rs) == \E r \in rs : ~Positive(p.rules[r])

\* One rule that has to leave the region.
Bad(p, rs, safe, r) ==
    \/ \E q \in rs : (Reads(p.rules[r]) \cup Writes(p.rules[r])) \cap Destroys(p.rules[q]) # {}
    \/ \E q \in rs \ safe : Writes(p.rules[r]) \cap Reads(p.rules[q]) # {}
ShrunkOnce(p, rs, safe) == safe \ {r \in safe : Bad(p, rs, safe, r)}
RECURSIVE Shrunk(_, _, _)
Shrunk(p, rs, safe) ==
    LET bad == {r \in safe : Bad(p, rs, safe, r)}
    IN  IF bad = {} THEN safe ELSE Shrunk(p, rs, safe \ bad)
Candidates(p, rs) ==
    {r \in rs : Positive(p.rules[r]) /\ (~Mixed(p, rs) \/ ~Unites(p.rules[r]))}
Region(p, rs) == Shrunk(p, rs, Candidates(p, rs))

Saturation(p) == CHOOSE s \in Range(p.schedule) : s.saturate
ScopeRules(p) == UNION {p.sets[s] : s \in Range(Saturation(p).body)}
Allowed(p) == Region(p, ScopeRules(p)) \cap Region(p, DOMAIN p.rules)

\* A single relation row with distinct variables of the body as its columns
\* records its own effect, when no other rule writes the table.
OwnEffect(p, r) ==
    LET h == p.rules[r].head
    IN  /\ Len(h) = 1 /\ h[1].k \in {"let", "set"} /\ IsInjective(h[1].args)
        /\ \A q \in DOMAIN p.rules \ {r} : h[1].t \notin HeadTables(p.rules[q], {"let", "set"})
HeadVars(r) == UNION {Range(a.args) : a \in Range(r.head)}
Marker(p, r) ==
    [private |-> ~OwnEffect(p, r),
     table |-> p.rules[r].head[1].t,
     params |-> IF OwnEffect(p, r) THEN p.rules[r].head[1].args
                ELSE SetToSortSeq(HeadVars(p.rules[r]), LAMBDA v, w : v < w)]
Anchors(p, r) ==
    {a.t : a \in {a \in Range(p.rules[r].body) : Range(Marker(p, r).params) \subseteq Range(a.args)}}

\* The successors of a seed: the steps of the recipe that are allowed, as long
\* as the bodies are among the facts of the chain.
Substituted(a, m) == <<a.t, [i \in DOMAIN a.args |-> m[a.args[i]]]>>
ChainFacts(p, seed, steps) ==
    {<<a.t, a.args>> : a \in Range(p.rules[seed].body)}
    \cup {<<a.t, a.args>> : a \in {a \in Range(p.rules[seed].head) : a.k \in {"let", "set"}}}
    \cup UNION {{Substituted(a, s.map) : a \in {a \in Range(p.rules[s.rule].head) : a.k \in {"let", "set"}}}
                : s \in Range(steps)}
Proven(p, known, s) == \A a \in Range(p.rules[s.rule].body) : Substituted(a, s.map) \in known
RECURSIVE Prepared(_, _, _, _, _)
Prepared(p, allowed, seed, steps, todo) ==
    IF todo = <<>> THEN steps
    ELSE IF Head(todo).rule \notin allowed
         THEN Prepared(p, allowed, seed, steps, Tail(todo))
    ELSE IF Proven(p, ChainFacts(p, seed, steps), Head(todo))
         THEN Prepared(p, allowed, seed, Append(steps, Head(todo)), Tail(todo))
    ELSE steps

\* A template is looked up for every positive rule of the scope.
Compile(p) ==
    LET allowed == Allowed(p)
        steps == [r \in DOMAIN p.rules |->
                    IF r \in ScopeRules(p) /\ Positive(p.rules[r])
                    THEN Prepared(p, allowed, r, <<>>, p.recipe[r]) ELSE <<>>]
    IN  [allowed |-> IF \E r \in DOMAIN steps : steps[r] # <<>> THEN allowed ELSE {},
         steps |-> steps,
         marker |-> [r \in allowed |-> Marker(p, r)],
         anchors |-> [r \in allowed |-> Anchors(p, r)],
         unites |-> \E r \in ScopeRules(p) : Unites(p.rules[r]),
         reads |-> UNION {{a.t : a \in Range(p.rules[r].body)} : r \in allowed}]

(******************************* activation ********************************)
Rows(t) == {x \in DOMAIN facts : x[1] = t}
Params(r, b) == [i \in DOMAIN plan.marker[r].params |-> b[plan.marker[r].params[i]]]
Private(r) == plan.marker[r].private
Covered(r) == IF Private(r) THEN Cardinality(receipts[r]) ELSE Cardinality(Rows(plan.marker[r].table))

WholeRuleUncovered(r) ==
    /\ Covered(r) > 0
    /\ \/ plan.marker[r].params = <<>>
       \/ \E t \in plan.anchors[r] : Cardinality(Rows(t)) = Covered(r)
\* The rule's every match has been applied: equal counts prove it.
WholeRule(r) ==
    /\ Covered(r) > 0
    /\ \/ plan.marker[r].params = <<>>
       \/ r \in coverage /\ \E t \in plan.anchors[r] : Cardinality(Rows(t)) = Covered(r)
Receipted(r, b) ==
    IF Private(r) THEN Params(r, b) \in receipts[r]
    ELSE <<plan.marker[r].table, Params(r, b)>> \in DOMAIN facts

\* The key of a fact the chain promises is visible, or not written yet.
VisibleOrMissing(r, b) ==
    \A a \in Range(prog.rules[r].body) : Ground(a, b) \in DOMAIN facts => Visible(facts, Ground(a, b))
GuardNone(r, b) == TRUE
Guard(r, b) == noHidden \/ VisibleOrMissing(r, b)
StepBinding(s, b) == [v \in 1..prog.rules[s.rule].vars |-> b[s.map[v]]]

\* What one lane of a rule's variant applies: the rule, then the successors
\* up to the first guard that fails.
Lane(r, b) ==
    LET s == plan.steps[r]
        ok(j) == \A k \in 1..j : Guard(s[k].rule, StepBinding(s[k], b))
    IN  {<<r, b>>} \cup {<<s[j].rule, StepBinding(s[j], b)>> : j \in {j \in DOMAIN s : ok(j)}}
LanesOf(r, filtered) ==
    {b \in Matches(facts, prog.rules[r], cursor[r]) : ~(r \in filtered /\ Receipted(r, b))}

Left(set) == {r \in prog.sets[set] \cap plan.allowed : WholeRule(r)}
FiredBy(set, filtered) ==
    UNION {UNION {Lane(r, b) : b \in LanesOf(r, filtered)} : r \in prog.sets[set] \ Left(set)}
Published(fired) ==
    [r \in DOMAIN receipts |->
        receipts[r] \cup {Params(r, x[2]) : x \in {x \in fired : x[1] = r}}]
ReceiptsAsWritten(rc, E) == rc
RenamedReceipts(rc, E) ==
    [r \in DOMAIN rc |-> {[i \in DOMAIN t |-> Canon(E)[t[i]]] : t \in rc[r]}]

Cleared == [r \in {r \in plan.allowed : Private(r)} |-> {}]
Hidden == \E x \in DOMAIN facts : x[1] \in plan.reads /\ facts[x].hid

(********************************* actions *********************************)
Init ==
    /\ prog \in Programs
    /\ \E rows \in prog.rows : facts = [x \in DOMAIN rows |-> [at |-> 0, hid |-> rows[x]]]
    /\ plan = Compile(prog)
    /\ receipts = Cleared
    /\ cursor = [r \in Rules |-> 0]
    /\ now = 1 /\ item = 1 /\ pos = 0
    /\ changed = FALSE /\ active = FALSE /\ noHidden = FALSE
    /\ coverage = {} /\ left = {}
    /\ expected = Native(prog, facts, cursor, 1, 1, 1, FALSE)

Current == prog.schedule[item]
Running == item <= Len(prog.schedule)
IsScope == Current.saturate /\ plan.allowed # {}

\* An activation starts, unless hidden rows and unions can meet in it.
Activate ==
    /\ Running /\ pos = 0 /\ IsScope
    /\ noHidden' = ~Hidden
    /\ IF ~Hidden \/ ~plan.unites
       THEN (/\ active' = TRUE
             /\ receipts' = Cleared
             /\ coverage' = {r \in plan.allowed : Private(r) \/ Rows(plan.marker[r].table) = {}})
       ELSE UNCHANGED <<active, receipts, coverage>>
    /\ pos' = 1
    /\ UNCHANGED <<prog, plan, facts, cursor, now, item, changed, left, expected>>

Begin ==
    /\ Running /\ pos = 0 /\ ~IsScope
    /\ pos' = 1
    /\ UNCHANGED <<prog, plan, facts, receipts, cursor, now, item, changed, active, noHidden,
                   coverage, left, expected>>

\* One run of a rule set: the cursors of the rules that ran and of those left
\* out move, receipts are not a change of the source.
Run(set, fired, out) ==
    /\ facts' = Applied(prog, facts, fired, now)
    /\ cursor' = [r \in Rules |-> IF r \in prog.sets[set] THEN now ELSE cursor[r]]
    /\ now' = now + 1
    /\ left' = out
    /\ changed' = (changed \/ facts' # facts)
    /\ pos' = pos + 1
    /\ UNCHANGED <<prog, plan, item, active, noHidden, coverage, expected>>

\* The filter of receipts is resolved rule by rule, as the join's plan allows:
\* "filtered" are the rules for which it was.
OptimizedRun ==
    /\ Running /\ active /\ pos \in DOMAIN Current.body
    /\ \E fired \in {FiredBy(Current.body[pos], filtered) :
                        filtered \in SUBSET (prog.sets[Current.body[pos]] \cap plan.allowed)} :
           /\ Run(Current.body[pos], fired, Left(Current.body[pos]))
           /\ receipts' = RenamedReceipts(Published(fired), Unions(prog, fired))

NativeRun ==
    /\ Running /\ ~active /\ pos \in DOMAIN Current.body
    /\ Run(Current.body[pos], Fires(prog, facts, Current.body[pos], cursor), {})
    /\ UNCHANGED receipts

\* The end of a pass: again while something changed, or the next item.
Again ==
    /\ Running /\ pos > Len(Current.body) /\ Current.saturate /\ changed
    /\ pos' = 1 /\ changed' = FALSE
    /\ UNCHANGED <<prog, plan, facts, receipts, cursor, now, item, active, noHidden, coverage,
                   left, expected>>
FinishKeeping ==
    /\ Running /\ pos > Len(Current.body) /\ ~(Current.saturate /\ changed)
    /\ item' = item + 1 /\ pos' = 0
    /\ active' = FALSE /\ changed' = FALSE /\ left' = {}
    /\ UNCHANGED <<prog, plan, facts, receipts, cursor, now, noHidden, coverage, expected>>
Finish ==
    /\ Running /\ pos > Len(Current.body) /\ ~(Current.saturate /\ changed)
    /\ item' = item + 1 /\ pos' = 0
    /\ active' = FALSE /\ changed' = FALSE /\ left' = {}
    /\ receipts' = IF active THEN Cleared ELSE receipts
    /\ UNCHANGED <<prog, plan, facts, cursor, now, noHidden, coverage, expected>>

Next == Activate \/ Begin \/ OptimizedRun \/ NativeRun \/ Again \/ Finish
Spec == Init /\ [][Next]_vars

(******************************* properties ********************************)
\* The tables hold rows of the values there are, receipts exist for private
\* markers alone, and no cursor is ahead of the clock.
TypeOK ==
    /\ \A x \in DOMAIN facts : Range(x[2]) \subseteq Values /\ facts[x].at < now
    /\ DOMAIN receipts = {r \in plan.allowed : Private(r)}
    /\ ~active => \A r \in DOMAIN receipts : receipts[r] = {}
    /\ \A r \in Rules : cursor[r] < now

\* What a head writes is in the database.
EffectOf(r, b) ==
    \A a \in Range(prog.rules[r].head) :
        IF a.k = "union" THEN b[a.args[1]] = b[a.args[2]] ELSE Ground(a, b) \in DOMAIN facts

\* A receipt is true: the rule's effect at the binding is there, whatever was
\* renamed or hidden since (publish_marker, the completion filter).
ReceiptsTrue ==
    \A r \in DOMAIN receipts : \A b \in Bindings(prog.rules[r]) :
        Params(r, b) \in receipts[r] => EffectOf(r, b)

\* A rule left out whole had nothing to do: every match there was has its
\* effect (WholeRule, the exact counts).
LeftOutDone == \A r \in left' : \A b \in Matches(facts, prog.rules[r], 0) : EffectOf(r, b)
LeftOutIsDone == [][LeftOutDone]_vars

\* The region compile settles on is the largest closed one: nothing it writes
\* is read outside it, and no rule takes rows of its tables away
\* (closed_positive_region).
Closed(rs, safe) == \A r \in safe : ~Bad(prog, rs, safe, r)
LargestRegion ==
    \A rs \in {ScopeRules(prog), Rules} :
        Region(prog, rs) = UNION {s \in SUBSET Candidates(prog, rs) : Closed(rs, s)}

\* When the schedule is over the rows are those of the original schedule, with
\* the same ones hidden.
EndsAsOriginal ==
    item > Len(prog.schedule) => [x \in DOMAIN facts |-> facts[x].hid] = expected
=============================================================================
