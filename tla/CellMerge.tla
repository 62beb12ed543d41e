----------------------------- MODULE CellMerge ------------------------------
(***************************************************************************)
(* Merge functions of ports (graph.rs: set_function_inner, merge_value,    *)
(* merge_expression, read_merge_port and repair; merge_programs.rs and     *)
(* merge_contract.rs).  A merge runs when a port is set again and when     *)
(* unions bring two ports together, in the middle of repair, when other    *)
(* ports still lie under keys of before and constructor rows under their   *)
(* old hash.  It may read other ports and construct rows all the same.     *)
(*                                                                         *)
(* What is abstracted.  A key is one class; integers and structural keys   *)
(* are numbers above the classes; one constructor, Pair, stands for all.   *)
(* The uses index is what it holds: rows that mention a class (CellStore). *)
(* Views, local congruence, lineage and receipts have modules of their own.*)
(***************************************************************************)
EXTENDS Integers, SequencesExt, FiniteSetsExt

CONSTANTS
    MaxClass,       \* bound: classes ever made
    Given,          \* what right-hand sides set: port table -> pairs <<key, value>>
    MergeOf,        \* port table -> merge expression
    Expressions,    \* expressions the two ways to run a merge are compared on
    MaxSets, MaxUnions

Classes == 1..MaxClass
PortTables == DOMAIN MergeOf
NoValue == 0

VARIABLES
    root,           \* the union-find, every chain followed
    ports,          \* Function nodes [table, key, value, live]
    directory,      \* function_keys: <<table, key>> -> port
    facts,          \* rows of Pair: [key, value, hash, live]; hash is the key it is interned under
    nextClass,
    pendingUnions, dirtyFacts, dirtyPorts,
    error,          \* why the program stopped, or ""
    given,          \* history: <<table, key, value>> every set there was
    sets, unions

vars == <<root, ports, directory, facts, nextClass, pendingUnions, dirtyFacts, dirtyPorts, error, given, sets, unions>>

Canon(v) == IF v \in Classes THEN root[v] ELSE v
Canons(s) == [i \in DOMAIN s |-> Canon(s[i])]
Resting == pendingUnions = <<>> /\ dirtyFacts = {} /\ dirtyPorts = {}

------------------------------------------------------------------------------
(* merge_contract: only these may be combined in any order. *)
IsCall(e, ops) == e.kind = "call" /\ e.op \in ops
IsLattice(e) ==
    IsCall(e, {"min", "max"}) /\ e.args \in {<<[kind |-> "var", name |-> "old"], [kind |-> "var", name |-> "new"]>>,
                                             <<[kind |-> "var", name |-> "new"], [kind |-> "var", name |-> "old"]>>}
ReturnsOld(e) == IsCall(e, PortTables \cup {"Pair"})

Primitive(op, a) ==
    CASE op = "min"    -> Min({a[1], a[2]})
      [] op = "max"    -> Max({a[1], a[2]})
      [] op = "prefer" -> IF a[1] > a[2] \/ (a[1] = a[2] /\ a[3] <= a[4]) THEN 1 ELSE 0
      [] op = "select" -> IF a[3] # 0 THEN a[1] ELSE a[2]

(* A merge at work: the rows it makes, its result and what went wrong. *)
Idle == [facts |-> facts, next |-> nextClass, error |-> "", value |-> NoValue]
Fails(g, why) == [g EXCEPT !.error = why, !.value = NoValue]

(* read_merge_port: the port the key stands for now, wherever its nodes lie. *)
PortValues(t, key) ==
    {Canon(ports[i].value) : i \in {j \in DOMAIN ports : ports[j].live /\ ports[j].table = t /\ Canon(ports[j].key) = key}}
(* Mutant: what the directory has under the key. *)
ReadDirectory(g, t, key) ==
    IF <<t, key>> \in DOMAIN directory THEN [g EXCEPT !.value = Canon(ports[directory[<<t, key>>]].value)]
    ELSE Fails(g, "unready merge port")
ReadPort(g, t, key) ==
    LET values == PortValues(t, key)
    IN  CASE values = {} -> Fails(g, "unready merge port")
          [] Cardinality(values) = 1 -> [g EXCEPT !.value = CHOOSE v \in values : TRUE]
          [] Cardinality(values) > 1 /\ ~IsLattice(MergeOf[t]) -> Fails(g, "ambiguous non-lattice merge read")
          [] OTHER -> [g EXCEPT !.value = IF MergeOf[t].op = "min" THEN Min(values) ELSE Max(values)]

(* dynamic_construct: looked up among the rows interned under the key and  *)
(* those that wait for repair, which may lie under the key of before.       *)
Construct(g, key) ==
    LET refs == {i \in DOMAIN g.facts : g.facts[i].hash = key} \cup dirtyFacts
        hit  == {i \in refs : g.facts[i].live /\ Canons(g.facts[i].key) = key}
    IN  IF hit # {} THEN [g EXCEPT !.value = Canon(g.facts[Min(hit)].value)]
        ELSE IF g.next > MaxClass THEN Fails(g, "bound")
        ELSE [g EXCEPT !.facts = Append(@, [key |-> key, value |-> g.next, hash |-> key, live |-> TRUE]),
                       !.next = @ + 1, !.value = g.next]
Call(g, op, args) ==
    IF op \in PortTables THEN ReadPort(g, op, Canon(args[1]))
    ELSE IF op = "Pair" THEN Construct(g, Canons(args))
    ELSE [g EXCEPT !.value = Primitive(op, args)]

(* merge_expression: the tree, arguments first and from left to right. *)
RECURSIVE Evaluate(_, _, _, _)
RECURSIVE Arguments(_, _, _, _)
Arguments(g, es, old, new) ==
    IF es = <<>> \/ g.error # "" THEN [g |-> g, values |-> <<>>]
    ELSE LET first == Evaluate(g, Head(es), old, new)
             rest  == Arguments(first, Tail(es), old, new)
         IN  [rest EXCEPT !.values = <<first.value>> \o @]
Applied(done, op) == IF done.g.error # "" THEN done.g ELSE Call(done.g, op, done.values)
Evaluate(g, e, old, new) ==
    CASE e.kind = "var"     -> [g EXCEPT !.value = IF e.name = "old" THEN old ELSE new]
      [] e.kind = "literal" -> [g EXCEPT !.value = e.value]
      [] e.kind = "call"    -> Applied(Arguments(g, e.args, old, new), e.op)

(* lower: the same as straight-line code; slots 1 and 2 are old and new. *)
RECURSIVE Lower(_, _)
RECURSIVE LowerAll(_, _)
LowerAll(ops, es) ==
    IF es = <<>> THEN [ops |-> ops, args |-> <<>>]
    ELSE LET first == Lower(ops, Head(es))
             rest  == LowerAll(first.ops, Tail(es))
         IN  [rest EXCEPT !.args = <<first.result>> \o @]
(* Mutant: the slot is counted before the arguments have taken theirs. *)
EmitEarly(ops, done, op) ==
    [ops |-> Append(done.ops, [op |-> op, args |-> done.args]), result |-> [slot |-> Len(ops) + 3]]
Emit(ops, done, op) ==
    [ops |-> Append(done.ops, [op |-> op, args |-> done.args]), result |-> [slot |-> Len(done.ops) + 3]]
Lower(ops, e) ==
    CASE e.kind = "var"     -> [ops |-> ops, result |-> [slot |-> IF e.name = "old" THEN 1 ELSE 2]]
      [] e.kind = "literal" -> [ops |-> ops, result |-> [value |-> e.value]]
      [] e.kind = "call"    -> Emit(ops, LowerAll(ops, e.args), e.op)

Operand(a, values) == IF "slot" \in DOMAIN a THEN values[a.slot] ELSE a.value
Operands(args, values) == [i \in DOMAIN args |-> Operand(args[i], values)]
RECURSIVE RunCode(_, _, _)
RunCode(g, code, values) ==
    IF g.error # "" THEN g
    ELSE IF Len(values) - 2 = Len(code.ops) THEN [g EXCEPT !.value = Operand(code.result, values)]
    ELSE LET op   == code.ops[Len(values) - 1]
             done == Call(g, op.op, Operands(op.args, values))
         IN  RunCode(done, code, Append(values, done.value))

(* merge_value *)
(* Mutant: equal values are merged like others. *)
MergeAlways(t, old, new) == RunCode(Idle, Lower(<<>>, MergeOf[t]), <<old, new>>)
MergeValue(t, old, new) ==
    IF old = new /\ ReturnsOld(MergeOf[t]) THEN [Idle EXCEPT !.value = old]
    ELSE RunCode(Idle, Lower(<<>>, MergeOf[t]), <<old, new>>)

------------------------------------------------------------------------------
Init ==
    /\ root = [c \in Classes |-> c]
    /\ ports = <<>> /\ directory = [x \in {} |-> 0]
    /\ facts = <<>> /\ nextClass = 4
    /\ pendingUnions = <<>> /\ dirtyFacts = {} /\ dirtyPorts = {}
    /\ error = "" /\ given = {} /\ sets = 0 /\ unions = 0

Under(x, i) == [y \in DOMAIN directory \cup {x} |-> IF y = x THEN i ELSE directory[y]]
Without(x) == [y \in DOMAIN directory \ {x} |-> directory[y]]

(* set_function_inner, from a right-hand side. *)
NewPort(t, key, value) ==
    /\ ports' = Append(ports, [table |-> t, key |-> key, value |-> value, live |-> TRUE])
    /\ directory' = Under(<<t, key>>, Len(ports) + 1)
    /\ UNCHANGED <<facts, nextClass, error>>
MergeInto(i, merged) ==
    /\ ports' = IF merged.error = "" THEN [ports EXCEPT ![i].value = merged.value] ELSE ports
    /\ facts' = merged.facts /\ nextClass' = merged.next /\ error' = merged.error
    /\ UNCHANGED directory
SetAt(t, key, value) ==
    IF <<t, key>> \notin DOMAIN directory THEN NewPort(t, key, value)
    ELSE MergeInto(directory[<<t, key>>], MergeValue(t, Canon(ports[directory[<<t, key>>]].value), value))
(* A port is given a value only when the ports its merge reads have one. *)
Ready(t, value) == \A l \in {m \in PortTables : IsLattice(MergeOf[m])} : IsLattice(MergeOf[t]) \/ PortValues(l, Canon(value)) # {}
Set(t, key, value) ==
    /\ error = "" /\ Resting /\ sets < MaxSets /\ Ready(t, value)
    /\ SetAt(t, Canon(key), Canon(value))
    /\ given' = given \cup {<<t, key, value>>} /\ sets' = sets + 1
    /\ UNCHANGED <<root, pendingUnions, dirtyFacts, dirtyPorts, unions>>

Unite(a, b) ==
    /\ error = "" /\ dirtyFacts = {} /\ dirtyPorts = {} /\ unions < MaxUnions /\ a < b
    /\ pendingUnions' = Append(pendingUnions, <<a, b>>) /\ unions' = unions + 1
    /\ UNCHANGED <<root, ports, directory, facts, nextClass, dirtyFacts, dirtyPorts, error, given, sets>>

(* repair: all unions, then one displaced row at a time. *)
FactsOf(c) == {i \in DOMAIN facts : facts[i].live /\ c \in ToSet(Canons(facts[i].key)) \cup {Canon(facts[i].value)}}
PortsOf(c) == {i \in DOMAIN ports : ports[i].live /\ c \in {Canon(ports[i].key), Canon(ports[i].value)}}
UniteStep(lo, hi) ==
    IF lo = hi THEN UNCHANGED <<root, dirtyFacts, dirtyPorts>>
    ELSE /\ root' = [c \in Classes |-> IF root[c] = hi THEN lo ELSE root[c]]
         /\ dirtyFacts' = dirtyFacts \cup FactsOf(hi)
         /\ dirtyPorts' = dirtyPorts \cup PortsOf(hi)
RepairUnion ==
    /\ error = "" /\ pendingUnions # <<>>
    /\ LET pair == {Canon(Head(pendingUnions)[1]), Canon(Head(pendingUnions)[2])}
       IN  UniteStep(Min(pair), Max(pair))
    /\ pendingUnions' = Tail(pendingUnions)
    /\ UNCHANGED <<ports, directory, facts, nextClass, error, given, sets, unions>>

RepairFact ==
    /\ error = "" /\ pendingUnions = <<>> /\ dirtyFacts # {}
    /\ LET i     == Min(dirtyFacts)
           key   == Canons(facts[i].key)
           found == {j \in DOMAIN facts \ {i} : facts[j].live /\ facts[j].hash = key /\ Canons(facts[j].key) = key}
       IN  /\ dirtyFacts' = dirtyFacts \ {i}
           /\ IF ~facts[i].live THEN UNCHANGED <<facts, pendingUnions>>
              ELSE IF found = {}
              THEN facts' = [facts EXCEPT ![i].hash = key] /\ UNCHANGED pendingUnions
              ELSE /\ pendingUnions' = Append(pendingUnions, <<facts[i].value, facts[Min(found)].value>>)
                   /\ facts' = [facts EXCEPT ![i].live = FALSE]
    /\ UNCHANGED <<root, ports, directory, nextClass, dirtyPorts, error, given, sets, unions>>

Detached(i) == IF <<ports[i].table, ports[i].key>> \in DOMAIN directory /\ directory[<<ports[i].table, ports[i].key>>] = i
               THEN Without(<<ports[i].table, ports[i].key>>) ELSE directory
Rekey(i, at, others) ==
    /\ ports' = [ports EXCEPT ![i].key = at[2], ![i].value = Canon(@)]
    /\ directory' = [y \in DOMAIN others \cup {at} |-> IF y = at THEN i ELSE others[y]]
    /\ UNCHANGED <<facts, nextClass, error>>
Collide(i, j, others, merged) ==
    /\ ports' = IF merged.error = "" THEN [ports EXCEPT ![j].value = merged.value, ![i].live = FALSE] ELSE ports
    /\ directory' = others
    /\ facts' = merged.facts /\ nextClass' = merged.next /\ error' = merged.error
RepairPortAt(i, at, others) ==
    IF at \in DOMAIN others /\ others[at] # i
    THEN Collide(i, others[at], others, MergeValue(at[1], Canon(ports[others[at]].value), Canon(ports[i].value)))
    ELSE Rekey(i, at, others)
RepairPort ==
    /\ error = "" /\ pendingUnions = <<>> /\ dirtyFacts = {} /\ dirtyPorts # {}
    /\ LET i == Min(dirtyPorts)
       IN  IF ports[i].live THEN RepairPortAt(i, <<ports[i].table, Canon(ports[i].key)>>, Detached(i))
           ELSE UNCHANGED <<ports, directory, facts, nextClass, error>>
    /\ dirtyPorts' = dirtyPorts \ {Min(dirtyPorts)}
    /\ UNCHANGED <<root, pendingUnions, dirtyFacts, given, sets, unions>>

Next ==
    \/ \E t \in PortTables : \E pair \in Given[t] : Set(t, pair[1], pair[2])
    \/ \E a, b \in 1..3 : Unite(a, b)
    \/ RepairUnion \/ RepairFact \/ RepairPort

Spec == Init /\ [][Next]_vars

------------------------------------------------------------------------------
Lattices == {t \in PortTables : IsLattice(MergeOf[t])}
EverGiven(t, key) == {Canon(g[3]) : g \in {h \in given : h[1] = t /\ Canon(h[2]) = key}}

(* At every moment, in the middle of repair too, what a merge reads of a     *)
(* lattice port is the join of all values any key of its class was given.    *)
ReadIsJoin ==
    error # "bound" => \A t \in Lattices : \A c \in {Canon(k) : k \in 1..3} :
        EverGiven(t, c) # {} =>
            ReadPort(Idle, t, c).value = IF MergeOf[t].op = "min" THEN Min(EverGiven(t, c)) ELSE Max(EverGiven(t, c))

(* A merge never fails: the lattice ports it reads were given values before *)
(* its own port was, and unions and repair do not take them away.           *)
NeverFails == error \in {"", "bound"}

(* The compiled merge makes the rows the expression makes, in the same       *)
(* order, and has its result; both fail or neither.                          *)
CompiledIsExpression ==
    \A e \in Expressions : \A old, new \in {Canon(c) : c \in 1..3} :
        RunCode(Idle, Lower(<<>>, e), <<old, new>>) = Evaluate(Idle, e, old, new)

(* Setting a port to the value it has does nothing: a rule that derives a    *)
(* fact again does not make rows again.                                      *)
SetAgain ==
    \A t \in PortTables : \A pair \in Given[t] :
        (Set(t, pair[1], pair[2]) /\ PortValues(t, Canon(pair[1])) = {Canon(pair[2])})
            => UNCHANGED <<ports, facts>>
SetAgainIsIdle == [][SetAgain]_vars
=============================================================================
