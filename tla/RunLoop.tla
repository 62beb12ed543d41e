-------------------------------- MODULE RunLoop --------------------------------
(***************************************************************************)
(* The run loop of engine/cell-runtime (Executor::run): match every rule   *)
(* of the ruleset against the published graph, apply the bindings one      *)
(* right-hand side after the other, repair, and deliver the changed rows   *)
(* to the rules that read their tables.  Matching is semi-naive: a rule    *)
(* joins outward from the delivered rows alone.  A checkpoint between two  *)
(* Runs keeps neither the queues nor any index; resuming rebuilds them.    *)
(*                                                                         *)
(* A query is a sequence of atoms [table, args], the last argument the     *)
(* value column; literals are part of the table.  Rules match virtual      *)
(* tables only and every query has a table atom.                           *)
(***************************************************************************)
EXTENDS CellGraph, Functions, FiniteSets, SequencesExt

CONSTANTS
    Rules,          \* rule numbers
    Query,          \* [Rules -> Seq(atom)]
    Body,           \* [Rules -> Seq(operation)]
    Seminaive,      \* rules matched by delta
    RuleSets,       \* sequences of rules
    MaxLoad         \* bound: rows of the initial database

(* Rule::validate(): an operation reads slots that the query or an earlier   *)
(* let bound, and a slot has one sort.  A rule without an operation changes  *)
(* nothing and is left out.  The slots that hold a class when the k-th       *)
(* operation starts:                                                         *)
IsClass(t, a) == a <= Arity[t] \/ t \in Constructors
ClassArgs(atom) == {atom.args[a] : a \in {b \in DOMAIN atom.args : IsClass(atom.table, b)}}
QueryClasses(r) == UNION {ClassArgs(Query[r][i]) : i \in DOMAIN Query[r]}
ClassLets(r) == {j \in DOMAIN Body[r] : /\ Body[r][j].op = "let"
                                        /\ Body[r][j].table \in Constructors}
ClassSlots(r, k) == QueryClasses(r) \cup {Body[r][j].dst : j \in {i \in ClassLets(r) : i < k}}

ValidAtom(atom) ==
    /\ atom.table \in Virtual
    /\ DOMAIN atom.args = 1..(Arity[atom.table] + 1)
ValidOp(op, bound, classes) ==
    \/ op.op = "union" /\ {op.args[1], op.args[2]} \subseteq bound
    \/ /\ op.op \in {"let", "set", "hide"}
       /\ op.table \in Virtual
       /\ DOMAIN op.args = 1..Arity[op.table]
       /\ Range(op.args) \subseteq bound
       /\ op.op = "set" /\ op.table \in Constructors => op.value \in bound
       /\ op.op = "let" /\ op.table \in Relations => op.dst \notin classes
ValidRule(r) ==
    /\ Query[r] \in Seq(Range(Query[r])) /\ Query[r] # <<>>
    /\ Body[r] \in Seq(Range(Body[r])) /\ Body[r] # <<>>
    /\ \A i \in DOMAIN Query[r] : ValidAtom(Query[r][i])
    /\ \A k \in DOMAIN Body[r] :
        ValidOp(Body[r][k], ClassSlots(r, k), ClassSlots(r, Len(Body[r]) + 1))

ASSUME RulesAssumption ==
    /\ Seminaive \subseteq Rules
    /\ \A r \in Rules : ValidRule(r)
    /\ \A set \in RuleSets : set \in Seq(Rules)

VARIABLES
    loading,        \* the initial database is being read
    dirtyRules,     \* Executor::dirty
    queue,          \* Executor::pending, per rule
    watermarks,     \* the epoch a rule was last matched in
    born,           \* FactState::born
    left,           \* rules of the Run whose bindings are not applied yet
    work,           \* the Run's bindings, per rule
    frame,          \* the binding being applied, in a sequence; or none
    consumed        \* history: the environments every rule was applied to

matchVars == <<dirtyRules, queue, watermarks>>
applyVars == <<left, work, frame>>
runLoopVars == <<vars, loading, matchVars, born, applyVars, consumed>>

------------------------------------------------------------------------------
(* Delivery and matching. *)

Reads(r) == {Query[r][i].table : i \in DOMAIN Query[r]}

(* deliver(): a rule is dirty, and has the row queued, when it reads the    *)
(* table of a changed row that still exists.                                *)
DeliverTo(q) ==
    [r \in Rules |-> q[r] \cup {d \in events \cap live : recipe[d].table \in Reads(r)}]
Notified == {r \in Rules : \E d \in events \cap live : recipe[d].table \in Reads(r)}

Columns(d) == Append(Row(d).key, Row(d).value)
Visible(t) == {d \in live \ hidden : recipe[d].table = t}

(* The rows the atoms of a query match together. *)
Fits(q, w, columns) ==
    \A i, j \in DOMAIN q :
        /\ w[i] \in Visible(q[i].table)
        /\ \A a \in DOMAIN q[i].args, b \in DOMAIN q[j].args :
            q[i].args[a] = q[j].args[b] => columns[w[i]][a] = columns[w[j]][b]
Witnesses(r) ==
    LET columns == [d \in live |-> Columns(d)]
    IN  {w \in [DOMAIN Query[r] -> live \ hidden] : Fits(Query[r], w, columns)}

Slots(r) == UNION {Range(Query[r][i].args) : i \in DOMAIN Query[r]}
(* bind(): the slots of a match. *)
Env(r, w) ==
    [x \in Slots(r) |->
        LET i == CHOOSE i \in DOMAIN w : x \in Range(Query[r][i].args)
        IN  Columns(w[i])[CHOOSE a \in DOMAIN Query[r][i].args :
                            Query[r][i].args[a] = x]]

AllBindings(r) == {Env(r, w) : w \in Witnesses(r)}

(* Mutant: a row stamped in the Run the rule was last matched in is old. *)
RecentStrictly(r, d) == stamp[d] > watermarks[r]

(* A row changed in or after the Run r was last matched in. *)
Recent(r, d) == stamp[d] >= watermarks[r]

(* (epoch, witness) order, then the atom's place. *)
Later(w, i, p) ==
    \/ stamp[w[i]] > stamp[w[p]]
    \/ stamp[w[i]] = stamp[w[p]] /\ w[i] > w[p]
    \/ w[i] = w[p] /\ i < p

(* Mutant: of two rows of the same Run neither yields to the other. *)
OwnsByEpoch(w, p) == \A i \in DOMAIN w : stamp[w[i]] <= stamp[w[p]]

(* The match is found from its latest row alone. *)
Owns(w, p) == \A i \in DOMAIN w : ~Later(w, i, p)

Delta(r) == {d \in queue[r] \cap (live \ hidden) : Recent(r, d)}
Pivots(r, w) == {p \in DOMAIN w : w[p] \in Delta(r) /\ Owns(w, p)}
DeltaBindings(r) == {Env(r, w) : w \in {v \in Witnesses(r) : Pivots(r, v) # {}}}

JoinsEmptyTable(r) ==
    \E t \in Reads(r) : {d \in live : recipe[d].table = t} = {}
Idle(r) == r \in Seminaive /\ r \notin dirtyRules

(* matches(r, probe = false) *)
Found(r) ==
    IF Idle(r) \/ JoinsEmptyTable(r) THEN {}
    ELSE IF r \in Seminaive THEN DeltaBindings(r)
    ELSE AllBindings(r)
Consumes(r) == ~Idle(r) /\ (r \in Seminaive \/ JoinsEmptyTable(r))

BetweenRuns == phase = "idle" /\ ~loading
CanonEnv(env) == [x \in DOMAIN env |-> Canon(env[x])]

------------------------------------------------------------------------------
InitLoop ==
    /\ Init
    /\ loading = TRUE
    /\ dirtyRules = Rules
    /\ queue = [r \in Rules |-> {}]
    /\ watermarks = [r \in Rules |-> 0]
    /\ born = [f \in FactRefs |-> 0]
    /\ left = <<>>
    /\ work = [r \in Rules |-> {}]
    /\ frame = <<>>
    /\ consumed = [r \in Rules |-> {}]

(* A row of the initial database; its classes are imported. *)
Load ==
    /\ loading
    /\ nextFact < MaxLoad
    /\ \E t \in Virtual : \E key \in [1..Arity[t] -> 1..NumImports] :
        \E v \in IF t \in Constructors THEN 1..NumImports ELSE {Unit} :
            \E hide \in BOOLEAN : Activate(t, key, v, hide)
    /\ UNCHANGED <<loading, matchVars, born, applyVars, consumed>>

EndLoad ==
    /\ loading
    /\ loading' = FALSE
    /\ changed' = FALSE
    /\ queue' = DeliverTo(queue)
    /\ UNCHANGED <<unionVars, indexVars, nextFact, recipe, live, hidden, stamp,
                   events, epoch, phase, dirtyRules, watermarks, born,
                   applyVars, consumed>>

(* run(): every left-hand side is matched before any effect. *)
StartWith(set, found) ==
    /\ ~loading
    /\ BeginRun
    /\ work' = found
    /\ left' = set
    /\ watermarks' = [r \in Rules |-> IF r \in Range(set) THEN epoch + 1
                                      ELSE watermarks[r]]
    /\ dirtyRules' = dirtyRules \ (Seminaive \cap Range(set))
    /\ queue' = [r \in Rules |-> IF r \in Range(set) /\ Consumes(r) THEN {}
                                 ELSE queue[r]]
    /\ consumed' = [r \in Rules |-> consumed[r] \cup found[r]]
    /\ UNCHANGED <<loading, born, frame>>

FoundBy(set) == [r \in Rules |-> IF r \in Range(set) THEN Found(r) ELSE {}]

StartRun(set) == \E found \in {FoundBy(set)} : StartWith(set, found)

------------------------------------------------------------------------------
(* Applying bindings. *)

(* Bindings of a rule are applied in the order of the values of its slots.  *)
Flat(r) == FoldLeft(LAMBDA all, atom : all \o atom.args, <<>>, Query[r])
Place(r, x) == SelectInSeq(Flat(r), LAMBDA y : y = x)
Before(r, d, e) ==
    \E x \in DOMAIN d : /\ d[x] < e[x]
                        /\ \A y \in DOMAIN d : Place(r, y) < Place(r, x) => d[y] = e[y]

NextRule ==
    /\ left # <<>>
    /\ work[Head(left)] = {}
    /\ left' = Tail(left)
    /\ UNCHANGED work
NextBinding(env) ==
    /\ left # <<>>
    /\ env \in work[Head(left)]
    /\ \A e \in work[Head(left)] \ {env} : Before(Head(left), env, e)
    /\ work' = [work EXCEPT ![Head(left)] = @ \ {env}]
    /\ UNCHANGED left
Bindings == UNION {work[r] : r \in Range(left)}

FrameOf(r, k, env) == << [rule |-> r, op |-> k, env |-> env] >>
BeginFrame(r, env) == frame' = FrameOf(r, 1, env)

BeginApply ==
    /\ phase = "rhs"
    /\ frame = <<>>
    /\ \/ NextRule /\ UNCHANGED frame
       \/ \E env \in Bindings : NextBinding(env) /\ BeginFrame(Head(left), env)
    /\ UNCHANGED <<vars, loading, matchVars, born, consumed>>

Now == frame[1]
Op  == Body[Now.rule][Now.op]
Arg(x) == Canon(Now.env[x])
KeyOf(args) == [i \in DOMAIN args |-> Arg(args[i])]

(* The binding goes on with its next operation, if it has one. *)
Continue(env) ==
    frame' = IF Now.op = Len(Body[Now.rule]) THEN <<>>
             ELSE FrameOf(Now.rule, Now.op + 1, env)
(* A hide that finds no older row ends the binding: completed = false. *)
Stop == frame' = <<>>

Bind(v) == Continue(Put(Now.env, Op.dst, v))
Birth == born' = [f \in FactRefs |-> IF f \in live' \ live THEN epoch ELSE born[f]]
Hit(key, f) == First(f, Matching(Op.table, key))

ApplyLet ==
    /\ Op.op = "let"
    /\ \/ Construct(Op.table, KeyOf(Op.args)) /\ Bind(FreshValue(Op.table))
       \/ /\ \E f \in FactRefs : Hit(KeyOf(Op.args), f) /\ Bind(Row(f).value)
          /\ UNCHANGED vars

ApplySet ==
    /\ Op.op = "set"
    /\ LET key == KeyOf(Op.args)
       IN  IF Op.table \in Constructors
           THEN \/ SetFact(Op.table, key, Arg(Op.value))
                \/ SetExisting(Op.table, key, Arg(Op.value))
           ELSE \/ SetFact(Op.table, key, Unit)
                \/ Matching(Op.table, key) # {} /\ UNCHANGED vars
    /\ Continue(Now.env)

ApplyUnionRequest ==
    /\ Op.op = "union"
    /\ RequestUnion(Arg(Op.args[1]), Arg(Op.args[2]))
    /\ Continue(Now.env)

(* hide() reports whether it found a row born before this Run. *)
ApplyHide ==
    /\ Op.op = "hide"
    /\ LET key == KeyOf(Op.args)
       IN  \/ /\ Matching(Op.table, key) = {}
              /\ IF Op.delete THEN UNCHANGED vars ELSE SubsumeFresh(Op.table, key)
              /\ Stop
           \/ \E f \in FactRefs :
                /\ Hit(key, f)
                /\ IF Op.delete THEN Delete(Op.table, key)
                   ELSE Subsume(Op.table, key) \/ (f \in hidden /\ UNCHANGED vars)
                /\ IF born[f] < epoch THEN Continue(Now.env) ELSE Stop

Apply ==
    /\ phase = "rhs"
    /\ frame # <<>>
    /\ ApplyLet \/ ApplySet \/ ApplyUnionRequest \/ ApplyHide
    /\ Birth
    /\ UNCHANGED <<loading, matchVars, left, work, consumed>>

EndEffects ==
    /\ left = <<>>
    /\ frame = <<>>
    /\ BeginRepair
    /\ UNCHANGED <<loading, matchVars, born, applyVars, consumed>>

RepairRun ==
    /\ ApplyUnion \/ \E f \in FactRefs : RepairFact(f)
    /\ UNCHANGED <<loading, matchVars, born, applyVars, consumed>>

(* Mutant: the changed rows are queued but their readers not marked dirty. *)
PublishToQueue ==
    /\ Publish
    /\ queue' = DeliverTo(queue)
    /\ UNCHANGED <<dirtyRules, watermarks, loading, born, applyVars, consumed>>

PublishRun ==
    /\ Publish
    /\ queue' = DeliverTo(queue)
    /\ dirtyRules' = dirtyRules \cup Notified
    /\ UNCHANGED <<watermarks, loading, born, applyVars, consumed>>

------------------------------------------------------------------------------
(* A checkpoint is taken between two Runs and resumed in another process:   *)
(* buckets, reverse index, queues and dirty rules are rebuilt from the      *)
(* rows; every row is delivered again.                                      *)
Restored(r) == {d \in live : recipe[d].table \in Reads(r)}
Rebuild(bucket, refs) ==
    /\ BetweenRuns
    /\ bucketOf' = [f \in FactRefs |-> IF f \in live THEN bucket[f] ELSE bucketOf[f]]
    /\ intern' = [h \in Hashes |-> {f \in live \cap FactRefs : bucket[f] = h}]
    /\ dependencies' = [d \in Dependency |-> IF d \in live THEN refs[d] ELSE {}]
    /\ uses' = [i \in Ids |-> {d \in live : i \in refs[d]}]
    /\ dirty' = {}
    /\ pending' = <<>>
    /\ events' = live
    /\ dirtyRules' = Rules
    /\ queue' = [r \in Rules |-> Restored(r)]
    /\ UNCHANGED <<root, nextFact, recipe, live, hidden, stamp, changed, epoch,
                   phase, loading, watermarks, born, applyVars, consumed>>

(* Mutant: rows are filed as their recipe was written. *)
ResumeStale ==
    Rebuild([f \in live |-> HashOf(recipe[f].table, recipe[f].key)],
            [d \in live |-> Refs(recipe[d])])

Resume ==
    Rebuild([f \in live |-> HashOf(Row(f).table, Row(f).key)],
            [d \in live |-> Refs(Row(d))])

NextLoop ==
    \/ Load \/ EndLoad
    \/ \E set \in RuleSets : StartRun(set)
    \/ BeginApply \/ Apply \/ EndEffects \/ RepairRun \/ PublishRun
    \/ Resume

SpecLoop == InitLoop /\ [][NextLoop]_runLoopVars

------------------------------------------------------------------------------
(* Semi-naive matching loses nothing: whenever a Run may start, every match *)
(* in the graph was already applied (up to the unions since), or the next   *)
(* Run of its rule finds it.  Also after a resume (deliver, matches).       *)
NoMatchLost ==
    BetweenRuns =>
        \A r \in Rules : \A env \in AllBindings(r) \ Found(r) :
            \E old \in consumed[r] : CanonEnv(old) = env

(* ... and repeats nothing: a match with a changed row has exactly one row  *)
(* it is found from, its latest (delta in solve_inner).                     *)
DeltaPartition ==
    BetweenRuns =>
        \A r \in Seminaive : \A w \in Witnesses(r) :
            Cardinality(Pivots(r, w)) = IF \E i \in DOMAIN w : Recent(r, w[i])
                                        THEN 1 ELSE 0

(* A resumed program does what the uninterrupted one would: every rule      *)
(* finds the same bindings, although every row was delivered to it again    *)
(* (watermarks in the checkpoint; Graph::restore, Executor::resume).        *)
ResumeConsumesSame ==
    [][Resume => \A r \in Rules : Found(r)' = Found(r)]_runLoopVars
==============================================================================
