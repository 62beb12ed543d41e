------------------------------- MODULE LocalSat -------------------------------
(***************************************************************************)
(* Local saturation of engine/cell-runtime (local_sat.rs, and apply_once,  *)
(* local_successor and run of runtime.rs).  Inside one Saturate scope a    *)
(* right-hand side whose effects are all the rows another rule needs hands *)
(* its bindings straight to that rule, in the same Run and without a       *)
(* search.  A session remembers, for as long as the scope lasts, which     *)
(* bindings of such a rule were applied, so that the ordinary matcher does *)
(* not apply them again.                                                   *)
(*                                                                         *)
(* The rest is Executor.  Rules have no primitives and no function tables, *)
(* so the plan refuses a rule only for the rows that the scope hides.      *)
(***************************************************************************)
EXTENDS Executor

CONSTANTS
    Schema,         \* table -> sorts of its columns, the value's last
    Routes,         \* multi_stage.routes that cover their consumer's query:
                    \* [producer, consumer, from: atom -> source]
    Markers         \* program.views.markers

VARIABLES
    sessions,       \* sequence of [depth, sets, seen], outermost first
    localRun,       \* the session the Run in progress works for; 0 for none
    localQueue,     \* sequence of [rule, env, routes, lineage]
    visible,        \* operations of the current binding whose row is visible
    lineage         \* of the current binding: sequence of [rule, generation]

localVars == <<sessions, localRun, localQueue, visible, lineage>>
localSatVars == <<executorVars, localVars>>

------------------------------------------------------------------------------
(* Plan::compile over the rulesets of one scope.                            *)

Ops(r) == Range(Body[r])
RulesOf(sets) == UNION {Range(S) : S \in sets}

(* The least set that step leaves as it is, n steps at most from start. *)
Fixpoint(step(_), start, n) ==
    FoldLeft(LAMBDA S, i : step(S), start, [i \in 1..n |-> i])

Sorts == UNION {Range(Schema[t]) : t \in Virtual}
KeySorts(t) == {Schema[t][n] : n \in 1..Arity[t]}
ValueSort(t) == Schema[t][Arity[t] + 1]
(* union_cones(): the sorts whose classes a union of sort s can join.       *)
Cone(s) ==
    LET grow(S) == S \cup {ValueSort(t) : t \in {c \in Constructors : KeySorts(c) \cap S # {}}}
    IN  Fixpoint(grow, {s}, Cardinality(Sorts))

SortOf(r, x) ==
    LET bound == {<<i, n>> \in (DOMAIN Query[r]) \X (1..3) :
                    n \in DOMAIN Query[r][i].args /\ Query[r][i].args[n] = x}
        made  == {op \in Ops(r) : op.op = "let" /\ op.dst = x}
    IN  IF bound # {} THEN LET b == CHOOSE e \in bound : TRUE
                           IN  Schema[Query[r][b[1]].table][b[2]]
        ELSE LET op == CHOOSE e \in made : TRUE IN ValueSort(op.table)

ReadTables(r) == {a.table : a \in Range(Query[r])}
Unioned(r) ==
    {SortOf(r, op.args[1]) : op \in {e \in Ops(r) : e.op = "union"}}
    \cup {ValueSort(op.table) :
            op \in {e \in Ops(r) : e.op = "set" /\ e.table \in Constructors}}
Written(r) ==
    {op.table : op \in {e \in Ops(r) : e.op # "union"}}
    \cup {t \in Virtual : \E s \in Unioned(r) : Range(Schema[t]) \cap Cone(s) # {}}
HiddenIn(sets) ==
    {op.table : op \in {e \in UNION {Ops(r) : r \in RulesOf(sets)} : e.op = "hide"}}

(* Mutant: only the rules that hide rows are refused. *)
UnsafeHidersOnly(sets) == {r \in RulesOf(sets) : \E op \in Ops(r) : op.op = "hide"}
(* A rule that reads or writes what the scope hides, and whatever writes    *)
(* what such a rule reads.                                                  *)
Unsafe(sets) ==
    LET ordered == {r \in RulesOf(sets) :
                        \/ \E op \in Ops(r) : op.op = "hide"
                        \/ (ReadTables(r) \cup Written(r)) \cap HiddenIn(sets) # {}}
        grow(S) == S \cup {r \in RulesOf(sets) : \E u \in S : Written(r) \cap ReadTables(u) # {}}
    IN  Fixpoint(grow, ordered, Cardinality(RulesOf(sets)))

(* The columns of a query atom or of an effect of rule p (source).          *)
Provided(p, from) ==
    IF from[1] = "query" THEN Query[p][from[2]]
    ELSE LET op == Body[p][from[2]]
         IN  [table |-> op.table,
              args |-> Append(op.args, CASE op.op = "let" -> op.dst
                                         [] op.table \in Relations -> Unit
                                         [] OTHER -> op.value)]
(* extend(): one slot of the consumer is never given two different columns. *)
Wires(t) ==
    UNION {{<<Query[t.consumer][i].args[n], Provided(t.producer, t.from[i]).args[n]>> :
              n \in DOMAIN Query[t.consumer][i].args} : i \in DOMAIN t.from}
ASSUME RoutesAssumption ==
    \A t \in Routes :
        /\ DOMAIN t.from = DOMAIN Query[t.consumer]
        /\ \E i \in DOMAIN t.from : t.from[i][1] = "effect"
        /\ \A i \in DOMAIN t.from :
            Provided(t.producer, t.from[i]).table = Query[t.consumer][i].table
        /\ \A v, w \in Wires(t) : v[1] = w[1] => v[2] = w[2]

(* relevant_inputs(): the slots the right-hand side depends on.             *)
Inputs(r) == Slots(r)
OpSlots(op) == Range(op.args) \cup IF op.op = "set" /\ op.table \in Constructors
                                   THEN {op.value} ELSE {}
Relevant(r) == Inputs(r) \cap UNION {OpSlots(op) : op \in {e \in Ops(r) : e.op # "hide"}}
(* ... and those some continuation of the rule depends on.                  *)
Forwarded(outgoing) ==
    LET own == UNION {{<<r, x>> : x \in Relevant(r)} : r \in Rules}
        grow(S) == S \cup UNION {{<<t.producer, w[2]>> :
                        w \in {v \in Wires(t) : /\ <<t.consumer, v[1]>> \in S
                                               /\ v[2] \in Inputs(t.producer)}} : t \in outgoing}
    IN  Fixpoint(grow, own, Cardinality(UNION {Rules \X Inputs(r) : r \in Rules}))

(* Something the consumer depends on is a class its producer has made.      *)
Expanding(outgoing) ==
    LET needed == Forwarded(outgoing)
    IN  {t \in outgoing :
            \E x \in {y \in Inputs(t.consumer) : <<t.consumer, y>> \in needed} :
                ~\E w \in Wires(t) : w[1] = x /\ w[2] \in Inputs(t.producer) \cup {Unit}}

Plan(sets) ==
    LET unsafe == Unsafe(sets)
        outgoing == {t \in Routes : /\ {t.producer, t.consumer} \subseteq RulesOf(sets)
                                    /\ t.consumer \notin unsafe}
    IN  [sets |-> sets, outgoing |-> outgoing, expanding |-> Expanding(outgoing)]
Plans == {Plan(sets) : sets \in SUBSET RuleSets}
PlanOf(sets) == CHOOSE p \in Plans : p.sets = sets
Outgoing(sets) == PlanOf(sets).outgoing
Targets(sets) == {t.consumer : t \in Outgoing(sets)}

(* Mutant: slots that only forward a row are not part of the key, nor are   *)
(* the class arguments of unions.                                           *)
KeyOfLets(r, env) == [x \in Relevant(r) \cap UNION {OpSlots(op) : op \in {e \in Ops(r) : e.op = "let"}} |-> env[x]]
CompletionKey(r, env) == [x \in Relevant(r) |-> env[x]]

------------------------------------------------------------------------------
(* Scopes: scope_sets(), enter(), exit(), active().                         *)

(* publisher(): it sets markers and does nothing else. *)
Publisher(r) == Ops(r) # {} /\ \A op \in Ops(r) : op.op = "set" /\ op.table \in Markers

RECURSIVE SetsIn(_)
SetsIn(node) ==
    CASE node.op = "run"      -> {node.set}
      [] node.op = "sequence" -> UNION {SetsIn(c) : c \in Range(node.children)}
      [] node.op = "saturate" -> SetsIn(node.body)
      [] OTHER                -> {}
RECURSIVE Plain(_)
Plain(node) ==
    CASE node.op = "run"      -> node.probe = "none"
      [] node.op = "sequence" -> \A c \in Range(node.children) : Plain(c)
      [] node.op = "saturate" -> Plain(node.body)
      [] OTHER                -> FALSE
Admitted(body) ==
    /\ Plain(body)
    /\ Cardinality({S \in SetsIn(body) : \E r \in Range(S) : ~Publisher(r)}) <= 1
    /\ Outgoing(SetsIn(body)) # {}

Enter ==
    /\ ~loading
    /\ Schedule!EvalSaturate
    /\ sessions' = IF Admitted(Node.body)
                   THEN Append(sessions, [depth |-> Len(tasks), sets |-> SetsIn(Node.body),
                                          seen |-> {}])
                   ELSE sessions
    /\ UNCHANGED <<runLoopVars, localRun, localQueue, visible, lineage>>

(* Mutant: a scope leaves its session behind. *)
LeftBehind == sessions
Left == IF Schedule!ChangedSince(Schedule!Top.start) THEN sessions
        ELSE SelectSeq(sessions, LAMBDA s : s.depth # Len(tasks))
Again ==
    /\ ~loading
    /\ Schedule!SaturateAgain
    /\ sessions' = Left
    /\ UNCHANGED <<runLoopVars, localRun, localQueue, visible, lineage>>

Active(S) ==
    LET on == {n \in DOMAIN sessions : S \in sessions[n].sets}
    IN  IF on = {} THEN 0 ELSE CHOOSE n \in on : \A m \in on : n <= m

------------------------------------------------------------------------------
(* One Run.                                                                 *)

Remembered(n, r, env) ==
    /\ n # 0
    /\ r \in Targets(sessions[n].sets)
    /\ <<r, CompletionKey(r, env)>> \in sessions[n].seen

BeginLocalStep ==
    /\ Schedule!EvalRun
    /\ Node.probe = "until" => ~Probe(Node.until)
    /\ LET n == Active(Node.set)
       IN  \E given \in {[r \in Rules |-> {env \in FoundBy(Node.set)[r] :
                                             ~Remembered(n, r, env)}]} :
            /\ StartWith(Node.set, given)
            /\ localRun' = IF /\ n # 0
                              /\ sessions[n].seen = {}
                              /\ \A t \in Outgoing(sessions[n].sets) :
                                    given[t.producer] = {}
                           THEN 0 ELSE n
    /\ UNCHANGED <<sessions, localQueue, visible, lineage>>

Start(r, env, chain) ==
    /\ BeginFrame(r, env)
    /\ lineage' = chain
    /\ visible' = {}

(* A matched binding: dropped when an equal one was applied before it.      *)
BeginMatched ==
    /\ phase = "rhs"
    /\ frame = <<>>
    /\ \/ NextRule /\ UNCHANGED <<frame, lineage, visible>>
       \/ \E env \in Bindings :
            /\ NextBinding(env)
            /\ IF Remembered(localRun, Head(left), env)
               THEN UNCHANGED <<frame, lineage, visible>>
               ELSE Start(Head(left), env, <<[rule |-> Head(left), generation |-> 0]>>)
    /\ UNCHANGED <<vars, loading, matchVars, born, consumed, scheduleVars,
                   sessions, localRun, localQueue>>

(* local_successor(): the consumer's binding, out of the producer's slots.  *)
Successor(source, t) ==
    LET wire(x) == (CHOOSE w \in Wires(t) : w[1] = x)[2]
    IN  [x \in Inputs(t.consumer) |->
            IF wire(x) = Unit THEN Unit ELSE source.env[wire(x)]]

(* Mutant: a class the producer made is as good as one it was given.        *)
SameGeneration(source, t) == source.lineage[Len(source.lineage)].generation
Generation(source, t) ==
    source.lineage[Len(source.lineage)].generation
    + IF t \in PlanOf(sessions[localRun].sets).expanding THEN 1 ELSE 0

(* A rule that comes back with classes made since it ran waits for the next *)
(* Run; one that comes back with old values goes on.                        *)
Deferred(source, t) ==
    LET past == {n \in DOMAIN source.lineage : source.lineage[n].rule = t.consumer}
    IN  /\ past # {}
        /\ LET n == CHOOSE m \in past : \A k \in past : k <= m
           IN  source.lineage[n].generation # Generation(source, t)

BeginLocal ==
    /\ phase = "rhs"
    /\ frame = <<>>
    /\ left = <<>>
    /\ localQueue # <<>>
    /\ LET source == Head(localQueue) IN \E t \in source.routes :
        LET env == Successor(source, t)
            rest == source.routes \ {t}
        IN  /\ localQueue' = IF rest = {} THEN Tail(localQueue)
                             ELSE [localQueue EXCEPT ![1].routes = rest]
            /\ IF Deferred(source, t) \/ Remembered(localRun, t.consumer, env)
               THEN UNCHANGED <<frame, lineage, visible>>
               ELSE Start(t.consumer, env,
                          Append(source.lineage,
                                 [rule |-> t.consumer, generation |-> Generation(source, t)]))
    /\ UNCHANGED <<vars, loading, matchVars, born, left, work, consumed,
                   scheduleVars, sessions, localRun>>

(* construct_visible() and set_visible(): the row is there to be matched.   *)
Shows ==
    /\ Op.op \in {"let", "set"}
    /\ \A f \in FactRefs : Hit(KeyOf(Op.args), f) =>
        /\ f \notin hidden
        /\ Op.op = "set" /\ Op.table \in Constructors => Row(f).value = Arg(Op.value)
CutOff == Op.op = "hide" /\ ~\E f \in FactRefs : Hit(KeyOf(Op.args), f) /\ born[f] < epoch

(* Mutant: a row that was found is taken for one that can be matched. *)
ReadyRegardless(sets, shown) ==
    {t \in Outgoing(sets) : t.producer = Now.rule}
Ready(sets, shown) ==
    {t \in Outgoing(sets) : t.producer = Now.rule
        /\ \A i \in DOMAIN t.from : t.from[i][1] = "effect" => t.from[i][2] \in shown}

(* The end of apply() and of apply_once(): hand on, and remember.           *)
EnvAtEnd == IF Op.op = "let"
            THEN Put(Now.env, Op.dst,
                     IF \E f \in FactRefs : Hit(KeyOf(Op.args), f)
                     THEN Row(CHOOSE f \in FactRefs : Hit(KeyOf(Op.args), f)).value
                     ELSE FreshValue(Op.table))
            ELSE Now.env
Applied ==
    LET sets == sessions[localRun].sets
        ready == Ready(sets, visible')
    IN  IF localRun = 0 THEN UNCHANGED <<localQueue, sessions>>
        ELSE /\ localQueue' = IF CutOff \/ ready = {} THEN localQueue
                              ELSE Append(localQueue, [rule |-> Now.rule, env |-> EnvAtEnd,
                                                       routes |-> ready, lineage |-> lineage])
             /\ sessions' = IF Now.rule \in Targets(sets)
                            THEN [sessions EXCEPT ![localRun].seen =
                                    @ \cup {<<Now.rule, CompletionKey(Now.rule, Now.env)>>}]
                            ELSE sessions

ApplyStep ==
    /\ Apply
    /\ visible' = IF Shows THEN visible \cup {Now.op} ELSE visible
    /\ IF frame' = <<>> THEN Applied ELSE UNCHANGED <<localQueue, sessions>>
    /\ UNCHANGED <<scheduleVars, localRun, lineage>>

EndLocal ==
    /\ localQueue = <<>>
    /\ EndEffects
    /\ UNCHANGED <<scheduleVars, localVars>>

(* Mutant: completion keys are left as they were when they were written.    *)
UnrepairedReceipts(seen) == seen
RepairReceipts(seen) == {<<e[1], [x \in DOMAIN e[2] |-> Canon(e[2][x])]>> : e \in seen}
EndLocalStep ==
    /\ EndStep
    /\ sessions' = [n \in DOMAIN sessions |->
                        [sessions[n] EXCEPT !.seen = RepairReceipts(@)]]
    /\ localRun' = 0
    /\ UNCHANGED <<localQueue, visible, lineage>>

------------------------------------------------------------------------------
InitLocalSat ==
    /\ InitExecutor
    /\ sessions = <<>> /\ localRun = 0 /\ localQueue = <<>>
    /\ visible = {} /\ lineage = <<>>

Progress ==
    \/ Enter \/ Again \/ BeginLocalStep
    \/ BeginMatched \/ BeginLocal \/ ApplyStep \/ EndLocal
    \/ RepairRun /\ UNCHANGED <<scheduleVars, localVars>>
    \/ EndLocalStep
    \/ ProbeStep /\ UNCHANGED localVars
    \/ /\ Schedule!EvalSequence \/ Schedule!EvalRepeat \/ Schedule!RepeatAgain
       /\ ~loading
       /\ UNCHANGED <<runLoopVars, localVars>>

NextLocalSat ==
    \/ Bootstrap /\ UNCHANGED localVars
    \/ Restart /\ UNCHANGED localVars
    \/ Progress

SpecLocalSat ==
    /\ InitLocalSat
    /\ [][NextLocalSat]_localSatVars
    /\ WF_localSatVars(Progress)

------------------------------------------------------------------------------
(* A binding that is skipped as known has nothing left to do: whatever the  *)
(* session of an open scope remembers would change nothing if it were       *)
(* applied again, unions and collapses since then included (seen,           *)
(* local_known, apply_once).                                                *)
ReceiptsInert ==
    BetweenRuns =>
        \A n \in DOMAIN sessions : \A r \in Targets(sessions[n].sets) :
            \A env \in AllBindings(r) :
                <<r, CompletionKey(r, env)>> \in sessions[n].seen => Inert(r, env)

(* What is remembered is remembered in the classes that matching now uses:  *)
(* no binding applied in this scope comes back as a new one                 *)
(* (repair_receipts).                                                       *)
ReceiptsCanonical ==
    BetweenRuns =>
        \A n \in DOMAIN sessions : \A e \in sessions[n].seen :
            \A x \in DOMAIN e[2] : Canon(e[2][x]) = e[2][x]

(* What a session remembers is sound: inert, and in the classes matching     *)
(* uses.                                                                     *)
ReceiptsSound == ReceiptsInert /\ ReceiptsCanonical

(* A binding that is handed on is a match of its consumer at that moment,   *)
(* although nobody searched for it (the audit of local_successor).          *)
HandedOnMatches ==
    [][BeginLocal /\ frame' # <<>> =>
        \A a \in Range(Query[frame'[1].rule]) :
            LET col(x) == Canon(frame'[1].env[x])
            IN  \E f \in live \ hidden :
                  /\ recipe[f].table = a.table
                  /\ Columns(f) = [n \in DOMAIN a.args |-> col(a.args[n])]]_localSatVars

(* A session is that of a scope that is open, and resume() finds its task   *)
(* on the stack (enter, exit, "checkpoint local scope missing").            *)
SessionsOpen ==
    BetweenRuns =>
        /\ \A n \in DOMAIN sessions :
            LET task == tasks[sessions[n].depth]
            IN  /\ sessions[n].depth \in DOMAIN tasks
                /\ task.task = "saturate"
                /\ Admitted(task.body)
                /\ SetsIn(task.body) = sessions[n].sets
        /\ \A m, n \in DOMAIN sessions : m < n => sessions[m].depth < sessions[n].depth

(* A Run ends, even of rules that make new classes for ever: those are left *)
(* to the next Run (cycle_deferrals).                                       *)
LocalRunEnds == (phase = "rhs") ~> (phase = "idle")
==============================================================================
