----------------------------- MODULE CellStore -----------------------------
(***************************************************************************)
(* Where the facts of engine/cell-runtime live: Cells (the frames of       *)
(* executed right-hand sides), the references between them, the counts     *)
(* that keep a Cell alive, its garbage collection, and absorption          *)
(* (reference_storage.rs): a Cell whose facts all appear in the tuple a    *)
(* later Cell matched hands them over and disappears, while every handle   *)
(* on them keeps working.                                                  *)
(*                                                                         *)
(* What is abstracted.  A FactRef is <<cell, op>>; past the operations of  *)
(* a template come its carriers, the atoms of its query.  Arguments are    *)
(* slots (a literal needs no storage) and every column is a class.  The    *)
(* intern buckets, `operators` and the subscriptions are one set `filed`   *)
(* of the facts they list: CellGraph models them apart.  A relation has no *)
(* value column.  A Run's bindings are applied in any order the value      *)
(* order of the real keys could give.                                      *)
(***************************************************************************)
EXTENDS Integers, SequencesExt, FiniteSetsExt

CONSTANTS
    Templates,          \* rules and import templates
    Query,              \* rule -> its atoms [table, args]
    Ops,                \* template -> its operations
    ImportOf,           \* constructor -> the template that imports a row
    Constructors,       \* virtual tables with a class as value
    Markers,            \* unit tables the reference views made virtual
    RuleSets,           \* the rulesets a Run may name
    Database,           \* initial rows [table, values], a sequence
    NumImports,         \* classes of the initial database
    MaxCell,            \* bound: Cells ever made
    MaxRuns             \* bound: Runs

Rules   == DOMAIN Query
Virtual == Constructors \cup Markers
MaxOps  == Max({Len(Ops[t]) : t \in Templates})
ClassOf(c, op) == NumImports + (c - 1) * MaxOps + op
Values  == 1..(NumImports + MaxCell * MaxOps)
NoRef   == <<0, 0>>
Expired == 0            \* what a read that the code refuses returns

(* The columns of the row an operation makes, and the columns of its key. *)
RowSlots(op) == IF op.kind = "let" THEN Append(op.args, op.dst) ELSE op.args
KeyOf(table, row) == IF table \in Constructors THEN Front(row) ELSE row

Slots(args) == {args[i] : i \in DOMAIN args}
FirstColumn(args, slot) == Min({i \in DOMAIN args : args[i] = slot})

(* Views::parse and Program::load.  The positions of a template are its     *)
(* operations and then its carriers, the atoms of its query; `reads` says   *)
(* through which atom and column a slot of the query can be read.  A rule   *)
(* with one table atom reads its binding through the fact it matched;       *)
(* markers are not virtual yet when that is decided.                        *)
Carriers(t) == IF t \in Rules THEN SelectSeq(Query[t], LAMBDA a : a.table \in Virtual) ELSE <<>>
Reads(atoms) ==
    LET bound == UNION {Slots(atoms[i].args) : i \in DOMAIN atoms}
        first(s) == Min({i \in DOMAIN atoms : s \in Slots(atoms[i].args)})
    IN  {[slot |-> s, atom |-> first(s), column |-> FirstColumn(atoms[first(s)].args, s)] : s \in bound}
LayoutOf(t) == [
    template  |-> t,
    positions |-> [i \in DOMAIN Ops[t] |-> [table |-> Ops[t][i].table, args |-> RowSlots(Ops[t][i])]]
                    \o Carriers(t),
    base      |-> Len(Ops[t]),
    carriers  |-> Carriers(t),
    reads     |-> Reads(Carriers(t)),
    makes     |-> {[slot |-> Ops[t][i].dst, op |-> i] : i \in {j \in DOMAIN Ops[t] : Ops[t][j].kind = "let"}},
    inherits  |-> t \in Rules /\ Len(Query[t]) = 1 /\ Query[t][1].table \in Constructors,
    reference_only |-> t \in Rules /\ Ops[t] # <<>> /\ \A i \in DOMAIN Ops[t] :
                            Ops[t][i].kind = "set" /\ Ops[t][i].table \in Markers]
Layouts   == {LayoutOf(t) : t \in Templates}
Layout(t) == CHOOSE l \in Layouts : l.template = t
InputSlots(layout) == {r.slot : r \in layout.reads}

------------------------------------------------------------------------------
(* The store.  Every operation of the code is an operator on it. *)

VARIABLES
    store,      \* the graph's storage, see Empty
    pending,    \* rule -> events it has not matched yet
    watermark,  \* rule -> epoch of its last match
    work,       \* bindings gathered for this Run and not applied yet
    epoch,
    phase       \* "idle", "rhs", "absorb", "publish"

vars == <<store, pending, watermark, work, epoch, phase>>

Nothing == [x \in {} |-> 0]
Empty == [
    copied     |-> FALSE,       \* marker_fields_copied
    next       |-> 1,           \* next_cell
    cells      |-> Nothing,     \* id -> [template, values, parent, providers, facts]
    users      |-> Nothing,     \* reference_users
    pins       |-> Nothing,     \* parent_users
    garbage    |-> {},
    forwards   |-> Nothing,     \* fact_forwards
    retired    |-> {},          \* retired_contexts
    candidates |-> {},          \* absorption_candidates
    moved      |-> {},          \* handles absorb_ready replaced
    ports      |-> Nothing,     \* <<table, key>> -> [value, origin]
    filed      |-> {},          \* facts the intern table and operators list
    root       |-> [v \in Values |-> v],
    unions     |-> <<>>,        \* pending_unions
    dirty      |-> {},
    events     |-> {},
    bound      |-> Nothing,     \* history: the binding a Cell was made for
    done       |-> FALSE,       \* the running right-hand side stopped early
    error      |-> FALSE]       \* the code returned Err or panicked

Put(f, x, v) == [y \in DOMAIN f \cup {x} |-> IF y = x THEN v ELSE f[y]]
Drop(f, S)   == [y \in DOMAIN f \ S |-> f[y]]
Count(f, x)  == IF x \in DOMAIN f THEN f[x] ELSE 0
Earlier(f, g) == f[1] < g[1] \/ (f[1] = g[1] /\ f[2] <= g[2])
First(S) == CHOOSE f \in S : \A g \in S : Earlier(f, g)
Fail(st) == [st EXCEPT !.error = TRUE]

RECURSIVE Resolve(_, _)
Resolve(st, f) == IF f \in DOMAIN st.forwards THEN Resolve(st, st.forwards[f]) ELSE f

(* Graph::slot_in and Graph::fact_column.  `fuel` only stops a cycle of *)
(* references, which the code would follow until its stack ends.         *)
RECURSIVE ReadSlot(_, _, _, _)
ReadColumn(st, fuel, f, col) ==
    IF f[1] \notin DOMAIN st.cells THEN Expired
    ELSE ReadSlot(st, fuel, f[1], Layout(st.cells[f[1]].template).positions[f[2]].args[col])
Source(cell, layout, atom) ==
    IF atom \in DOMAIN cell.providers THEN cell.providers[atom]
    ELSE IF layout.inherits THEN cell.parent ELSE NoRef
ReadThrough(st, fuel, sources) ==
    IF sources = {} THEN Expired
    ELSE LET s == CHOOSE x \in sources : TRUE
         IN  ReadColumn(st, fuel - 1, Resolve(st, s.ref), s.column)
ReadIn(st, fuel, c, cell, layout, slot) ==
    IF slot \in DOMAIN cell.values THEN st.root[cell.values[slot]]
    ELSE IF \E m \in layout.makes : m.slot = slot
    THEN st.root[ClassOf(c, (CHOOSE m \in layout.makes : m.slot = slot).op)]
    ELSE ReadThrough(st, fuel, {s \in {[ref |-> Source(cell, layout, r.atom), column |-> r.column]
                                        : r \in {x \in layout.reads : x.slot = slot}} : s.ref # NoRef})
ReadSlot(st, fuel, c, slot) ==
    IF fuel = 0 \/ c \notin DOMAIN st.cells THEN Expired
    ELSE ReadIn(st, fuel, c, st.cells[c], Layout(st.cells[c].template), slot)

Slot(st, c, slot)        == ReadSlot(st, 2 * MaxCell, c, slot)
FactColumn(st, f, col)   == ReadColumn(st, 2 * MaxCell, Resolve(st, f), col)
Arguments(st, c, args)   == [i \in DOMAIN args |-> Slot(st, c, args[i])]

(* dependency_table and fact: the table a handle is in, the row it denotes. *)
Position(st, f) == Layout(st.cells[f[1]].template).positions[f[2]]
TableOf(st, f)  == Position(st, f).table
RowOf(st, f)    == Arguments(st, f[1], Position(st, f).args)

Live(st) == UNION {{<<c, op>> : op \in DOMAIN st.cells[c].facts} : c \in DOMAIN st.cells}
State(st, f) == st.cells[f[1]].facts[f[2]]
Found(st, table, key) ==
    {f \in st.filed \cap Live(st) : TableOf(st, f) = table /\ KeyOf(table, RowOf(st, f)) = key}

------------------------------------------------------------------------------
(* Counted references. *)

Retain(st, ref) ==
    LET f == Resolve(st, ref)
    IN  [st EXCEPT !.users = Put(@, f, Count(@, f) + 1),
                   !.pins  = Put(@, f[1], Count(@, f[1]) + 1)]

(* Mutant: the Cell whose last user leaves is not looked at again. *)
ReleaseQuietly(st, ref) ==
    LET f == Resolve(st, ref)
    IN  IF Count(st.users, f) = 0 \/ Count(st.pins, f[1]) = 0 THEN Fail(st)
        ELSE [st EXCEPT !.users = IF @[f] = 1 THEN Drop(@, {f}) ELSE Put(@, f, @[f] - 1),
                        !.pins  = Put(@, f[1], @[f[1]] - 1)]
Release(st, ref) ==
    LET f == Resolve(st, ref)
    IN  IF Count(st.users, f) = 0 \/ Count(st.pins, f[1]) = 0 THEN Fail(st)
        ELSE [st EXCEPT !.users = IF @[f] = 1 THEN Drop(@, {f}) ELSE Put(@, f, @[f] - 1),
                        !.pins  = Put(@, f[1], @[f[1]] - 1),
                        !.garbage = @ \cup {f[1]}]

ReleaseAll(st, refs) == FoldLeft(Release, st, refs)
References(cell) ==
    (IF cell.parent = NoRef THEN <<>> ELSE <<cell.parent>>)
        \o [i \in 1..Cardinality(DOMAIN cell.providers) |->
              cell.providers[SetToSortSeq(DOMAIN cell.providers, <)[i]]]

(* Mutant: only the facts of the Cell are looked at, not who reads it. *)
RetirePinned(st, c) ==
    IF c \in DOMAIN st.cells /\ DOMAIN st.cells[c].facts = {}
    THEN LET freed == [st EXCEPT !.cells = Drop(@, {c})]
             after == ReleaseAll(freed, References(st.cells[c]))
         IN  [after EXCEPT !.pins = Drop(@, {c})]
    ELSE st
RetireEmpty(st, c) ==
    IF c \in DOMAIN st.cells /\ Count(st.pins, c) = 0 /\ DOMAIN st.cells[c].facts = {}
    THEN LET freed == [st EXCEPT !.cells = Drop(@, {c})]
             after == ReleaseAll(freed, References(st.cells[c]))
         IN  [after EXCEPT !.pins = Drop(@, {c})]
    ELSE st

RECURSIVE CollectGarbage(_)
CollectGarbage(st) ==
    IF st.garbage = {} THEN st
    ELSE LET c == Min(st.garbage)
         IN  CollectGarbage(RetireEmpty([st EXCEPT !.garbage = @ \ {c}], c))

(* Graph::function_origin: a function row pins the Cell that last wrote it. *)
SetOrigin(st, i, origin) ==
    LET old   == st.ports[i].origin
        freed == IF old = NoRef THEN st
                 ELSE IF Count(st.pins, old[1]) = 0 THEN Fail(st)
                 ELSE [st EXCEPT !.pins = Put(@, old[1], @[old[1]] - 1),
                                 !.garbage = @ \cup {old[1]}]
        kept  == IF origin = NoRef THEN freed
                 ELSE [freed EXCEPT !.pins = Put(@, origin[1], Count(@, origin[1]) + 1)]
    IN  IF old = origin THEN st ELSE [kept EXCEPT !.ports[i].origin = origin]

------------------------------------------------------------------------------
(* Frames. *)

Cell(t, values, parent) ==
    LET linked == parent # NoRef /\ Layout(t).inherits
    IN  [template |-> t,
         values   |-> IF linked THEN Drop(values, InputSlots(Layout(t))) ELSE values,
         parent   |-> IF linked THEN parent ELSE NoRef,
         providers |-> Nothing,
         facts    |-> Nothing]

(* Graph::linked_frame: the new Cell is st.next - 1 afterwards. *)
LinkedFrame(st, t, values, parent) ==
    LET cell  == Cell(t, values, parent)
        held  == IF cell.parent = NoRef THEN st ELSE Retain(st, cell.parent)
    IN  [held EXCEPT !.next = @ + 1, !.cells = Put(@, st.next, cell)]

(* Graph::reference_frame. *)
Provide(st, c, i, ref) ==
    LET f == Resolve(st, ref)
        columns == Query[st.cells[c].template][i].args
    IN  IF \E col \in DOMAIN columns : Slot(st, c, columns[col]) # FactColumn(st, f, col)
        THEN Fail(st)
        ELSE Retain([st EXCEPT !.cells[c].providers = Put(@, i, f)], f)

ReferenceFrame(st, b) ==
    IF ~Layout(b.rule).reference_only THEN LinkedFrame(st, b.rule, b.values, b.parent)
    ELSE LET owned == LinkedFrame(st, b.rule, b.values, NoRef)
             c     == st.next
             tied  == FoldLeft(LAMBDA s, i : Provide(s, c, i, b.witnesses[i]), owned,
                               [i \in DOMAIN b.witnesses |-> i])
         IN  IF st.copied THEN owned
             ELSE [tied EXCEPT !.cells[c].values = Drop(@, InputSlots(Layout(b.rule)))]

------------------------------------------------------------------------------
(* The operations of a right-hand side. *)

(* Graph::activate. *)
Activate(st, f) ==
    [st EXCEPT !.cells[f[1]].facts = Put(@, f[2],
                    [hidden |-> FALSE, epoch |-> epoch, born |-> epoch, entry |-> NoRef,
                     hash |-> KeyOf(TableOf(st, f), RowOf(st, f))]),
               !.filed  = @ \cup {f},
               !.events = @ \cup {f}]

(* Graph::retire, called on a live fact. *)
Retire(st, f) ==
    [st EXCEPT !.cells[f[1]].facts = Drop(@, {f[2]}),
               !.filed   = @ \ {f},
               !.garbage = @ \cup {f[1]}]

Construct(st, c, i, op, hits) ==
    IF hits = {} THEN Activate(st, <<c, i>>)
    ELSE [st EXCEPT !.cells[c].values = Put(@, op.dst, Last(RowOf(st, First(hits))))]

SetMarker(st, c, i, hits) == IF hits = {} THEN Activate(st, <<c, i>>) ELSE st

(* A function table whose merge keeps the new value. *)
PortAt(st, table, key) ==
    {p \in DOMAIN st.ports : st.ports[p].live /\ st.ports[p].table = table /\ st.ports[p].key = key}
WritePort(st, at, row, table, origin) ==
    IF at = {}
    THEN SetOrigin([st EXCEPT !.ports = Append(@, [table |-> table, key |-> Front(row),
                                                   value |-> Last(row), origin |-> NoRef,
                                                   live |-> TRUE])],
                   Len(st.ports) + 1, origin)
    ELSE IF st.root[st.ports[Min(at)].value] = Last(row) THEN st
    ELSE SetOrigin([st EXCEPT !.ports[Min(at)].value = Last(row)], Min(at), origin)
SetFunction(st, c, i, op, row) ==
    WritePort(st, PortAt(st, op.table, Front(row)), row, op.table, <<c, i>>)

(* Graph::hide.  A row that was born in this Run, or was not there, ends *)
(* the right-hand side; subsuming a missing row makes it first.          *)
Stop(st, stopped) == [st EXCEPT !.done = stopped]
Delete(st, hits) ==
    IF hits = {} THEN Stop(st, TRUE)
    ELSE Stop(Retire(st, First(hits)), State(st, First(hits)).born = epoch)

Hide(st, f) ==
    IF State(st, f).hidden THEN st
    ELSE [st EXCEPT !.cells[f[1]].facts[f[2]].hidden = TRUE,
                    !.cells[f[1]].facts[f[2]].epoch  = epoch,
                    !.events = @ \cup {f}]
Subsume(st, table, key, hits) ==
    IF hits = {}
    THEN Stop(Hide(Activate(LinkedFrame(st, ImportOf[table], key, NoRef), <<st.next, 1>>),
                   <<st.next, 1>>), TRUE)
    ELSE Stop(Hide(st, First(hits)), State(st, First(hits)).born = epoch)

(* One operation on its evaluated arguments; `hits` is lookup's answer. *)
Perform(st, c, i, op, args, hits) ==
    CASE op.kind = "let"     -> Construct(st, c, i, op, hits)
      [] op.kind = "set"     -> IF op.table \in Virtual THEN SetMarker(st, c, i, hits)
                                ELSE SetFunction(st, c, i, op, args)
      [] op.kind = "delete"  -> Delete(st, hits)
      [] op.kind = "subsume" -> Subsume(st, op.table, args, hits)
      [] op.kind = "union"   -> [st EXCEPT !.unions = Append(@, args)]
Execute(st, c, i, op, args) == Perform(st, c, i, op, args, Found(st, op.table, args))
Step(st, c, i, op) == IF st.done THEN st ELSE Execute(st, c, i, op, Arguments(st, c, op.args))
RECURSIVE Effects(_, _, _, _)
Effects(st, c, ops, i) ==
    IF i > Len(ops) THEN st ELSE Effects(Step(st, c, i, ops[i]), c, ops, i + 1)

(* queue_absorption: the older Cells this binding matched. *)
QueueAbsorption(st, c, witnesses) ==
    IF c \notin DOMAIN st.cells \/ DOMAIN st.cells[c].facts = {} THEN st
    ELSE [st EXCEPT !.candidates = @ \cup
            {<<c, s>> : s \in {Resolve(st, witnesses[i])[1] : i \in DOMAIN witnesses} \cap 1..(c - 1)}]

(* Executor::apply, and release_empty: only the new frame is dropped here. *)
Framed(st, c, b) == [ReferenceFrame(st, b) EXCEPT !.done = FALSE, !.bound = Put(@, c, b.values)]
(* Mutant: the end of a right-hand side collects everything that is free. *)
RunThenCollect(st, c, b) ==
    CollectGarbage(RetireEmpty(
        QueueAbsorption(Effects(Framed(st, c, b), c, Ops[b.rule], 1), c, b.witnesses), c))

Run(st, c, b) ==
    RetireEmpty(QueueAbsorption(Effects(Framed(st, c, b), c, Ops[b.rule], 1), c, b.witnesses), c)
------------------------------------------------------------------------------
(* Graph::repair.  CellGraph models the closure; here it decides which of *)
(* two equal rows stays, and so which Cell becomes empty.                 *)

IsMarker(st, f) == TableOf(st, f) \in Markers
Union(st, a, b) ==
    LET lo == Min({st.root[a], st.root[b]})
        hi == Max({st.root[a], st.root[b]})
        touched == {f \in Live(st) : hi \in Range(RowOf(st, f))}
    IN  IF lo = hi THEN st
        ELSE [st EXCEPT !.root  = [v \in Values |-> IF @[v] = hi THEN lo ELSE @[v]],
                        !.dirty = @ \cup touched]

Touch(st, f) == [st EXCEPT !.cells[f[1]].facts[f[2]].epoch = epoch, !.events = @ \cup {f}]
RepairFact(st, f) ==
    LET row   == RowOf(st, f)
        key   == KeyOf(TableOf(st, f), row)
        same  == {g \in st.filed \cap Live(st) :
                    /\ g # f /\ TableOf(st, g) = TableOf(st, f)
                    /\ State(st, g).hash = key /\ KeyOf(TableOf(st, g), RowOf(st, g)) = key}
        keep  == First(same)
        joined == IF TableOf(st, f) \in Constructors
                  THEN [st EXCEPT !.unions = Append(@, <<Last(row), Last(RowOf(st, keep))>>)]
                  ELSE st
    IN  IF f \notin Live(st) THEN st
        ELSE IF same = {} THEN Touch([st EXCEPT !.cells[f[1]].facts[f[2]].hash = key], f)
        ELSE Retire([Touch(joined, keep) EXCEPT
                        !.cells[keep[1]].facts[keep[2]].hidden = @ \/ State(st, f).hidden], f)

(* A port whose key a union displaced: it moves, or joins the port there. *)
StalePorts(st) ==
    {p \in DOMAIN st.ports :
        st.ports[p].live /\ \E i \in DOMAIN st.ports[p].key :
                                st.root[st.ports[p].key[i]] # st.ports[p].key[i]}
RepairPort(st, p) ==
    LET port == st.ports[p]
        key  == [i \in DOMAIN port.key |-> st.root[port.key[i]]]
        at   == PortAt(st, port.table, key) \ {p}
    IN  IF at = {} THEN [st EXCEPT !.ports[p].key = key]
        ELSE SetOrigin([st EXCEPT !.ports[Min(at)].value = port.value, !.ports[p].live = FALSE],
                       p, NoRef)

RECURSIVE Repair(_)
Repair(st) ==
    LET facts == {f \in st.dirty : f \notin Live(st) \/ ~IsMarker(st, f)}
        f     == First(IF facts # {} THEN facts ELSE st.dirty)
    IN  IF st.unions # <<>>
        THEN Repair(Union([st EXCEPT !.unions = Tail(@)], Head(st.unions)[1], Head(st.unions)[2]))
        ELSE IF facts = {} /\ StalePorts(st) # {} THEN Repair(RepairPort(st, Min(StalePorts(st))))
        ELSE IF st.dirty # {} THEN Repair(RepairFact([st EXCEPT !.dirty = @ \ {f}], f))
        ELSE st

------------------------------------------------------------------------------
(* Absorption. *)

(* Mutant: the target goes on reading through the Cells it matched. *)
DetachNothing(st, c) == st

(* detach_parameters: the target keeps its own copy of what it could read. *)
Detach(st, c) ==
    LET cell == st.cells[c]
        read == {s \in InputSlots(Layout(cell.template)) : Slot(st, c, s) # Expired}
        owned == [s \in DOMAIN cell.values \cup read |->
                    IF s \in read THEN Slot(st, c, s) ELSE cell.values[s]]
    IN  ReleaseAll([st EXCEPT !.cells[c] = [@ EXCEPT !.values = owned,
                                                     !.parent = NoRef, !.providers = Nothing]],
                   References(cell))
ReferencesTo(st, c) == {f \in DOMAIN st.users : f[1] = c}
Needed(st, c) == {<<c, op>> : op \in DOMAIN st.cells[c].facts} \cup ReferencesTo(st, c)

(* The carrier of `target` that holds a row, if one does. *)
CarrierFor(st, target, table, row) ==
    LET layout == Layout(st.cells[target].template)
        hits == {i \in DOMAIN layout.carriers :
                    /\ layout.carriers[i].table = table
                    /\ Arguments(st, target, layout.carriers[i].args) = row}
    IN  IF hits = {} THEN NoRef ELSE <<target, layout.base + Min(hits)>>

(* Where every position of `source` in use goes: NoRef when the target has *)
(* no carrier for its row, or when it is live and lost its key.            *)
Placed(st, target, source) ==
    {LET table == TableOf(st, old)
         row   == RowOf(st, old)
         owns  == old \in Live(st) => First(Found(st, table, KeyOf(table, row))) = old
     IN  [old |-> old, new |-> IF owns THEN CarrierFor(st, target, table, row) ELSE NoRef]
        : old \in Needed(st, source)}

(* Mutant: a writer of a function row is absorbed like any other Cell. *)
OwnsNothing(st, c) == FALSE

(* A Cell that a function row was written by keeps its identity. *)
OwnsFunction(st, c) ==
    Count(st.pins, c) > FoldSet(LAMBDA f, n : n + st.users[f], 0, ReferencesTo(st, c))
Absorbable(st, target, source) ==
    /\ target \in DOMAIN st.cells /\ source \in DOMAIN st.cells
    /\ DOMAIN st.cells[target].facts # {}
    /\ st.cells[target].template \in Rules
    /\ ~OwnsFunction(st, source)

(* Mutant: the counts stay with the Cell that is leaving. *)
MoveNoReferences(st, old, new) == st

(* One fact and the references to it go from `old` to `new`. *)
MoveReferences(st, old, new) ==
    LET n == Count(st.users, old)
    IN  IF n = 0 THEN st
        ELSE [st EXCEPT
                !.users = Put(Drop(@, {old}), new, Count(Drop(@, {old}), new) + n),
                !.pins  = Put(Put(@, old[1], @[old[1]] - n), new[1], Count(@, new[1]) + n)]
(* Mutant: a fact that moves is stamped like a new one. *)
MoveFactRestamped(st, old, new) ==
    LET state == State(st, old)
    IN  [st EXCEPT
            !.cells = [@ EXCEPT
                ![old[1]].facts = Drop(@, {old[2]}),
                ![new[1]].facts = Put(@, new[2], [state EXCEPT !.epoch = epoch])],
            !.filed = (@ \ {old}) \cup {new},
            !.moved = @ \cup {old}]
(* Mutant: the indexes go on listing the place the fact left. *)
MoveFactUnfiled(st, old, new) ==
    LET state == State(st, old)
    IN  [st EXCEPT
            !.cells = [@ EXCEPT
                ![old[1]].facts = Drop(@, {old[2]}),
                ![new[1]].facts = Put(@, new[2], state)],
            !.moved = @ \cup {old}]
MoveFact(st, old, new) ==
    LET state == State(st, old)
    IN  IF new[2] \in DOMAIN st.cells[new[1]].facts THEN Fail(st)
        ELSE [st EXCEPT
                !.cells = [@ EXCEPT
                    ![old[1]].facts = Drop(@, {old[2]}),
                    ![new[1]].facts = Put(@, new[2],
                        [state EXCEPT !.entry = IF @ = NoRef THEN old ELSE @])],
                !.filed = (@ \ {old}) \cup {new},
                !.moved = @ \cup {old}]
Move(st, old, new) ==
    LET fact == IF old \in Live(st) THEN MoveFact(st, old, new) ELSE st
        refs == MoveReferences(fact, old, new)
    IN  [refs EXCEPT !.forwards = Put(@, old, new)]

Gone(st, source) == IF source \in DOMAIN st.cells THEN Fail(st) ELSE st
RECURSIVE MoveAll(_, _)
MoveAll(st, placed) ==
    IF placed = {} THEN st
    ELSE LET p == CHOOSE x \in placed : \A y \in placed : Earlier(x.old, y.old)
         IN  MoveAll(Move(st, p.old, p.new), placed \ {p})
Absorb(st, target, source, placed) ==
    Gone(RetireEmpty([MoveAll(Detach(st, target), placed) EXCEPT !.retired = @ \cup {source}],
                     source), source)
TryAbsorb(st, target, source, placed) ==
    IF \A p \in placed : p.new # NoRef THEN Absorb(st, target, source, placed) ELSE st

(* absorb_ready: candidates by target, then by source. *)
Consider(st, target, source) ==
    IF Absorbable(st, target, source)
    THEN TryAbsorb(st, target, source, Placed(st, target, source)) ELSE st
RECURSIVE AbsorbReady(_)
AbsorbReady(st) ==
    IF st.candidates = {} THEN st
    ELSE LET c == First(st.candidates)
         IN  AbsorbReady(Consider([st EXCEPT !.candidates = @ \ {c}], c[1], c[2]))

------------------------------------------------------------------------------
(* The Run. *)

ReadersOf(table) == {r \in Rules : \E i \in DOMAIN Query[r] : Query[r][i].table = table}

(* Executor::matches: every join of live rows with a pending one in it,   *)
(* one binding for each tuple of inputs.                                  *)
Rows == {[fact |-> f, table |-> TableOf(store, f), row |-> RowOf(store, f),
          epoch |-> State(store, f).epoch] : f \in {g \in Live(store) : ~State(store, g).hidden}}
Joins(r, rows) ==
    {w \in [DOMAIN Query[r] -> rows] :
        /\ \A i \in DOMAIN Query[r] : w[i].table = Query[r][i].table
        /\ \E i \in DOMAIN Query[r] : w[i].fact \in pending[r] /\ w[i].epoch >= watermark[r]
        /\ \A i, j \in DOMAIN Query[r] :
            \A a \in DOMAIN Query[r][i].args, b \in DOMAIN Query[r][j].args :
                Query[r][i].args[a] = Query[r][j].args[b] => w[i].row[a] = w[j].row[b]}
Binding(r, w) ==
    LET read(s) == CHOOSE x \in Layout(r).reads : x.slot = s
    IN  [rule |-> r,
         values |-> [s \in InputSlots(Layout(r)) |-> w[read(s).atom].row[read(s).column]],
         witnesses |-> [i \in DOMAIN w |-> w[i].fact],
         parent |-> IF Len(w) = 1 THEN w[1].fact ELSE NoRef]
Bindings(r) ==
    LET rows  == {row \in Rows : \E i \in DOMAIN Query[r] : row.table = Query[r][i].table}
        found == {Binding(r, w) : w \in Joins(r, rows)}
    IN  {CHOOSE b \in found : b.values = values : values \in {b.values : b \in found}}

ImportRow(st, row) ==
    LET made == LinkedFrame(st, ImportOf[row.table], row.values, NoRef)
        f    == <<st.next, 1>>
    IN  [made EXCEPT !.cells[st.next].facts =
            Put(@, 1, [hidden |-> FALSE, epoch |-> 0, born |-> 0, entry |-> NoRef,
                       hash |-> KeyOf(row.table, row.values)]),
                     !.filed = @ \cup {f}]
Imported == FoldLeft(ImportRow, Empty, Database)

Init ==
    /\ \E copied \in BOOLEAN : store = [Imported EXCEPT !.copied = copied]
    /\ pending = [r \in Rules |-> {f \in Live(Imported) : r \in ReadersOf(TableOf(Imported, f))}]
    /\ watermark = [r \in Rules |-> 0]
    /\ work = {}
    /\ epoch = 0
    /\ phase = "idle"

BeginRun(set) ==
    /\ phase = "idle"
    /\ epoch < MaxRuns
    /\ epoch' = epoch + 1
    /\ work' = UNION {Bindings(r) : r \in set}
    /\ pending' = [r \in Rules |-> IF r \in set THEN {} ELSE pending[r]]
    /\ watermark' = [r \in Rules |-> IF r \in set THEN epoch + 1 ELSE watermark[r]]
    /\ phase' = "rhs"
    /\ UNCHANGED store

Apply(b) ==
    /\ phase = "rhs"
    /\ b \in work
    /\ store.next + 1 <= MaxCell
    /\ store' = Run(store, store.next, b)
    /\ work' = work \ {b}
    /\ UNCHANGED <<pending, watermark, epoch, phase>>

EndEffects ==
    /\ phase = "rhs"
    /\ work = {}
    /\ store' = Repair(store)
    /\ phase' = "absorb"
    /\ UNCHANGED <<pending, watermark, work, epoch>>

(* Mutant: what was queued before goes on naming the old places. *)
RetargetNothing(st, queue) == queue
(* absorb_ready, and the queued handles run() retargets after it. *)
Retarget(st, queue) ==
    {IF f \in st.moved THEN Resolve(st, f) ELSE f : f \in queue}
AbsorbCells ==
    /\ phase = "absorb"
    /\ LET st == AbsorbReady(store)
       IN  /\ store' = [st EXCEPT !.events = {Resolve(st, f) : f \in @}, !.moved = {}]
           /\ pending' = [r \in Rules |-> Retarget(st, pending[r])]
    /\ phase' = "publish"
    /\ UNCHANGED <<watermark, work, epoch>>

(* deliver() and collect_garbage(). *)
Publish ==
    /\ phase = "publish"
    /\ pending' = [r \in Rules |->
                    pending[r] \cup {f \in store.events \cap Live(store) :
                                        r \in ReadersOf(TableOf(store, f))}]
    /\ store' = CollectGarbage([store EXCEPT !.events = {}])
    /\ phase' = "idle"
    /\ UNCHANGED <<watermark, work, epoch>>

Next ==
    \/ \E set \in RuleSets : BeginRun(set)
    \/ \E b \in work : Apply(b)
    \/ EndEffects
    \/ AbsorbCells
    \/ Publish

Spec == Init /\ [][Next]_vars

------------------------------------------------------------------------------
(* What the store owes the rest of the engine. *)

(* A frame reads, through whatever it refers to and for as long as it       *)
(* lives, the binding it was made for: rows may be deleted, subsumed,       *)
(* merged or moved to another Cell in between.                              *)
BindingKept ==
    \A c \in DOMAIN store.cells \cap DOMAIN store.bound :
        \A s \in DOMAIN store.bound[c] : Slot(store, c, s) = store.root[store.bound[c][s]]

(* A binding that waits in a Run can still be given its frame: the facts it *)
(* matched are readable and show the values they were matched with, even    *)
(* after earlier right-hand sides of the Run deleted them.                  *)
WorkReadable ==
    \A b \in work : \A i \in DOMAIN b.witnesses :
        \A a \in DOMAIN Query[b.rule][i].args :
            FactColumn(store, b.witnesses[i], a) = store.root[b.values[Query[b.rule][i].args[a]]]

(* The counts are the references there are, so neither a Cell in use is     *)
(* freed nor a free one kept; restore() recounts them from the Cells.       *)
RefsOf(f) ==
    FoldSet(LAMBDA c, n : n + Cardinality({i \in DOMAIN References(store.cells[c]) :
                                 Resolve(store, References(store.cells[c])[i]) = f}),
            0, DOMAIN store.cells)
AllRefs == UNION {{Resolve(store, References(store.cells[c])[i]) :
                        i \in DOMAIN References(store.cells[c])} : c \in DOMAIN store.cells}
Origins(c) == Cardinality({p \in DOMAIN store.ports : store.ports[p].origin[1] = c})
PinsExact ==
    /\ DOMAIN store.users = AllRefs
    /\ \A f \in AllRefs : store.users[f] = RefsOf(f)
    /\ \A c \in 1..MaxCell :
        Count(store.pins, c) = Origins(c) + FoldSet(LAMBDA f, n : n + RefsOf(f), 0,
                                                    {f \in AllRefs : f[1] = c})
    /\ \A p \in DOMAIN store.ports :
        store.ports[p].origin # NoRef => store.ports[p].origin[1] \in DOMAIN store.cells

(* None of the errors the storage code can raise is reached. *)
NoError == ~store.error

(* At a Run boundary nothing is left that nobody needs. *)
NothingFreeKept ==
    phase = "idle" => \A c \in DOMAIN store.cells :
        DOMAIN store.cells[c].facts # {} \/ Count(store.pins, c) > 0

(* A row changed since a rule last matched is queued for it, under the      *)
(* place where it now is.                                                   *)
ChangesQueued ==
    \A r \in Rules : \A f \in Live(store) :
        (r \in ReadersOf(TableOf(store, f)) /\ State(store, f).epoch >= watermark[r])
            => f \in pending[r] \cup store.events

(* The intern table, the operators and the subscriptions list live facts.   *)
FiledExact == store.filed = Live(store)

(* restore() accepts the image of any Run boundary. *)
RestoreAccepts ==
    phase = "idle" =>
        /\ store.retired \cap DOMAIN store.cells = {}
        /\ \A f \in DOMAIN store.forwards : f[1] < store.forwards[f][1]
        /\ \A c \in DOMAIN store.cells :
            \A i \in DOMAIN References(store.cells[c]) :
                LET f == Resolve(store, References(store.cells[c])[i])
                IN  f[1] # c /\ f[1] \in DOMAIN store.cells

(* Absorption is storage only: no row appears, disappears, gets another     *)
(* stamp or changes its visibility.                                         *)
Content(st) ==
    {[table |-> TableOf(st, f), row |-> RowOf(st, f), hidden |-> State(st, f).hidden,
      epoch |-> State(st, f).epoch, born |-> State(st, f).born] : f \in Live(st)}
AbsorptionKeeps == phase = "absorb" => Content(store') = Content(store)
AbsorptionKeepsRows == [][AbsorptionKeeps]_vars
=============================================================================
