---------------------------- MODULE ExecutorProofs ----------------------------
(***************************************************************************)
(* The run loop and the schedule that drives it, for every valid program,  *)
(* database and hash function.                                             *)
(*                                                                         *)
(* 1. Semi-naive matching finds every match and finds it once, also across *)
(* a checkpoint.  LoopInv is inductive.  Its core is Caught: a match all   *)
(* of whose rows are clean and older than its rule's last Run was applied. *)
(* A row that is younger is on its way to the rule (Delivered), so between *)
(* two Runs a match is either caught or has a row that the rule's next Run *)
(* starts from.  Caught is kept by a union because the rows it reaches     *)
(* become dirty (UsesComplete of CellGraph), and by repair because what    *)
(* repair rewrites gets the Run's epoch.                                   *)
(*                                                                         *)
(* 2. A checkpoint may be taken whenever no Run is under way, and resume() *)
(* accepts it.  The schedule's list of steps and the graph's epoch count   *)
(* the same Runs although neither reads the other; that they agree is      *)
(* what the invariant XInv says, for a Run under way as well.              *)
(*                                                                         *)
(* 3. When a saturation is left, its rules are at a fixpoint.  SInv        *)
(* follows every binding that was found through the operations of its      *)
(* right-hand side: what it wrote and united stays there, or is owed, from *)
(* then on.                                                                *)
(***************************************************************************)
EXTENDS Executor, CellGraphProofs, FiniteSetTheorems

------------------------------------------------------------------------------
(* While the database is loaded no class was united and nothing has run.    *)
Loading ==
    loading => /\ phase = "idle"
               /\ root = [i \in Ids |-> i]
               /\ dirtyRules = Rules

(* No row is younger than the Run, and no rule is ahead of it.              *)
Clocks ==
    /\ \A d \in live : stamp[d] <= epoch
    /\ watermarks \in [Rules -> Nat]
    /\ \A r \in Rules : watermarks[r] <= epoch

(* An environment binds these slots to classes that exist.                  *)
Binds(env, slots) == \A x \in slots : x \in DOMAIN env /\ env[x] \in Made

(* What is being applied is well sorted: every slot the next operation      *)
(* reads is bound.                                                          *)
FrameTyped ==
    frame # <<>> =>
        \E r \in Rules : \E k \in DOMAIN Body[r] : \E env :
            frame = FrameOf(r, k, env) /\ Binds(env, ClassSlots(r, k))
WorkTyped ==
    /\ left \in Seq(Rules)
    /\ DOMAIN work = Rules
    /\ \A r \in Rules : \A env \in work[r] : Binds(env, QueryClasses(r))

(* A rule that is not dirty has nothing queued.                             *)
Queues ==
    /\ DOMAIN queue = Rules
    /\ \A r \in Seminaive \ dirtyRules : queue[r] = {}

(* A row changed since the rule's last Run is queued for it, or will be     *)
(* when this Run is published.                                              *)
Arriving(r) == IF BetweenRuns THEN queue[r] ELSE queue[r] \cup events
Delivered ==
    \A r \in Rules : \A d \in live :
        recipe[d].table \in Reads(r) /\ Recent(r, d) => d \in Arriving(r)

(* A match of clean rows older than the rule's last Run was applied, up to  *)
(* the unions since.                                                        *)
Old(r, d) == d \notin dirty /\ ~ Recent(r, d)
Caught ==
    /\ DOMAIN consumed = Rules
    /\ \A r \in Rules : \A w \in Witnesses(r) :
        (\A i \in DOMAIN w : Old(r, w[i]))
            => \E old \in consumed[r] : CanonEnv(old) = Env(r, w)

Typed == Loading /\ FrameTyped /\ WorkTyped
LoopInv == IInv /\ Typed /\ Clocks /\ Queues /\ Delivered /\ Caught

------------------------------------------------------------------------------
(* The slots of a query and what it reads (the shape validate() checks).    *)
LEMMA QueryShape ==
    ASSUME NEW r \in Rules
    PROVE  /\ Len(Query[r]) \in Nat \ {0}
           /\ DOMAIN Query[r] = 1..Len(Query[r])
           /\ \A i \in DOMAIN Query[r] :
                /\ Query[r][i].table \in Virtual
                /\ Query[r][i].table \in Reads(r)
                /\ DOMAIN Query[r][i].args = 1..(Arity[Query[r][i].table] + 1)
  <1>1. /\ Query[r] \in Seq(Range(Query[r])) /\ Query[r] # <<>>
        /\ \A i \in DOMAIN Query[r] : ValidAtom(Query[r][i])
    BY RulesAssumption DEF ValidRule
  <1>2. DOMAIN Query[r] = 1..Len(Query[r]) /\ Len(Query[r]) \in Nat \ {0}
    BY <1>1, LenProperties, EmptySeq
  <1> QED BY <1>1, <1>2 DEF ValidAtom, Reads

(* What a witness is: a visible row per atom, equal where slots are.        *)
LEMMA WitnessIs ==
    ASSUME NEW r \in Rules, NEW w
    PROVE  w \in Witnesses(r) <=>
             /\ w \in [DOMAIN Query[r] -> live \ hidden]
             /\ \A i \in DOMAIN Query[r] : recipe[w[i]].table = Query[r][i].table
             /\ \A i, j \in DOMAIN Query[r] :
                  \A a \in DOMAIN Query[r][i].args, b \in DOMAIN Query[r][j].args :
                    Query[r][i].args[a] = Query[r][j].args[b]
                      => Columns(w[i])[a] = Columns(w[j])[b]
  <1> DEFINE columns == [d \in live |-> Columns(d)]
  <1>1. Witnesses(r) = {v \in [DOMAIN Query[r] -> live \ hidden] :
                          Fits(Query[r], v, columns)}
    BY DEF Witnesses
  <1>2. \A d \in live : columns[d] = Columns(d)
    OBVIOUS
  <1> HIDE DEF columns
  <1>3. DOMAIN Query[r] # {}
    BY QueryShape
  <1>4. ASSUME w \in [DOMAIN Query[r] -> live \ hidden]
        PROVE  Fits(Query[r], w, columns) <=>
             /\ \A i \in DOMAIN Query[r] : recipe[w[i]].table = Query[r][i].table
             /\ \A i, j \in DOMAIN Query[r] :
                  \A a \in DOMAIN Query[r][i].args, b \in DOMAIN Query[r][j].args :
                    Query[r][i].args[a] = Query[r][j].args[b]
                      => Columns(w[i])[a] = Columns(w[j])[b]
    BY <1>2, <1>3, <1>4 DEF Fits, Visible
  <1> QED BY <1>1, <1>4
(* The same of the next state.                                              *)
LEMMA WitnessIsNext ==
    ASSUME NEW r \in Rules, NEW w
    PROVE  w \in Witnesses(r)' <=>
             /\ w \in [DOMAIN Query[r] -> live' \ hidden']
             /\ \A i \in DOMAIN Query[r] : recipe'[w[i]].table = Query[r][i].table
             /\ \A i, j \in DOMAIN Query[r] :
                  \A a \in DOMAIN Query[r][i].args, b \in DOMAIN Query[r][j].args :
                    Query[r][i].args[a] = Query[r][j].args[b]
                      => Columns(w[i])'[a] = Columns(w[j])'[b]
  <1>1. \A q \in Rules : \A v : v \in Witnesses(q) <=>
             /\ v \in [DOMAIN Query[q] -> live \ hidden]
             /\ \A i \in DOMAIN Query[q] : recipe[v[i]].table = Query[q][i].table
             /\ \A i, j \in DOMAIN Query[q] :
                  \A a \in DOMAIN Query[q][i].args, b \in DOMAIN Query[q][j].args :
                    Query[q][i].args[a] = Query[q][j].args[b]
                      => Columns(v[i])[a] = Columns(v[j])[b]
    BY WitnessIs
  <1>2. (\A q \in Rules : \A v : v \in Witnesses(q) <=>
             /\ v \in [DOMAIN Query[q] -> live \ hidden]
             /\ \A i \in DOMAIN Query[q] : recipe[v[i]].table = Query[q][i].table
             /\ \A i, j \in DOMAIN Query[q] :
                  \A a \in DOMAIN Query[q][i].args, b \in DOMAIN Query[q][j].args :
                    Query[q][i].args[a] = Query[q][j].args[b]
                      => Columns(v[i])[a] = Columns(v[j])[b])'
    BY <1>1, PTL
  <1> QED BY <1>2

(* The columns of a row are the canonical forms of what its recipe stores.  *)
LEMMA ColumnsOf ==
    ASSUME TypeOK, NEW d \in live
    PROVE  LET n == Arity[recipe[d].table]
           IN  /\ n \in Nat
               /\ DOMAIN Columns(d) = 1..(n + 1)
               /\ \A a \in 1..n : Columns(d)[a] = Canon(recipe[d].key[a])
               /\ Columns(d)[n + 1] = Canon(recipe[d].value)
  <1> DEFINE n == Arity[recipe[d].table]
             key == CanonKey(recipe[d].key)
  <1>1. n \in Nat /\ DOMAIN recipe[d].key = 1..n
    BY TablesAssumption DEF TypeOK
  <1>2. key = [i \in 1..n |-> Canon(recipe[d].key[i])]
    BY <1>1 DEF CanonKey
  <1>3. key \in Seq(Range(key)) /\ Len(key) = n
    BY <1>1, <1>2 DEF Range
  <1>4. Columns(d) = Append(key, Canon(recipe[d].value))
    BY DEF Columns, Row
  <1> HIDE DEF key, n
  <1>5. /\ DOMAIN Columns(d) = 1..(n + 1)
        /\ \A a \in 1..n : Columns(d)[a] = key[a]
        /\ Columns(d)[n + 1] = Canon(recipe[d].value)
    BY <1>1, <1>3, <1>4
  <1>6. \A a \in 1..n : key[a] = Canon(recipe[d].key[a])
    BY <1>2
  <1> QED BY <1>1, <1>5, <1>6 DEF n

(* A match binds a slot to the column it stands at, at every place it is.   *)
LEMMA EnvIs ==
    ASSUME NEW r \in Rules, NEW w \in Witnesses(r)
    PROVE  /\ DOMAIN Env(r, w) = Slots(r)
           /\ \A x \in Slots(r) : \E i \in DOMAIN Query[r] :
                \E a \in DOMAIN Query[r][i].args :
                    x = Query[r][i].args[a] /\ Env(r, w)[x] = Columns(w[i])[a]
           /\ \A i \in DOMAIN Query[r] : \A a \in DOMAIN Query[r][i].args :
                /\ Query[r][i].args[a] \in Slots(r)
                /\ Env(r, w)[Query[r][i].args[a]] = Columns(w[i])[a]
  <1> DEFINE atom(x) == CHOOSE i \in DOMAIN w : x \in Range(Query[r][i].args)
             place(x) == CHOOSE a \in DOMAIN Query[r][atom(x)].args :
                            Query[r][atom(x)].args[a] = x
  <1>1. Env(r, w) = [x \in Slots(r) |-> Columns(w[atom(x)])[place(x)]]
    BY DEF Env
  <1>2. DOMAIN w = DOMAIN Query[r]
    BY WitnessIs
  <1>3. ASSUME NEW x \in Slots(r)
        PROVE  /\ atom(x) \in DOMAIN Query[r]
               /\ place(x) \in DOMAIN Query[r][atom(x)].args
               /\ Query[r][atom(x)].args[place(x)] = x
    <2>1. \E i \in DOMAIN w : x \in Range(Query[r][i].args)
      BY <1>2 DEF Slots
    <2>2. atom(x) \in DOMAIN w /\ x \in Range(Query[r][atom(x)].args)
      BY <2>1
    <2> HIDE DEF atom
    <2> QED BY <2>2, <1>2 DEF Range
  <1>4. \A i \in DOMAIN Query[r] : \A a \in DOMAIN Query[r][i].args :
          Query[r][i].args[a] \in Slots(r)
    BY DEF Slots, Range
  <1> HIDE DEF atom, place
  <1>5. \A x \in Slots(r) : Env(r, w)[x] = Columns(w[atom(x)])[place(x)]
    BY <1>1
  <1>6. \A i \in DOMAIN Query[r] : \A a \in DOMAIN Query[r][i].args :
          Env(r, w)[Query[r][i].args[a]] = Columns(w[i])[a]
    BY <1>3, <1>4, <1>5, WitnessIs
  <1> QED BY <1>1, <1>3, <1>4, <1>5, <1>6

(* The environment of a match depends on the columns of its rows alone.     *)
LEMMA EnvSame ==
    ASSUME NEW r \in Rules, NEW w, DOMAIN w = DOMAIN Query[r],
           \A i \in DOMAIN w : Columns(w[i])' = Columns(w[i])
    PROVE  Env(r, w)' = Env(r, w)
  <1> DEFINE atom(x) == CHOOSE i \in DOMAIN w : x \in Range(Query[r][i].args)
             place(x) == CHOOSE a \in DOMAIN Query[r][atom(x)].args :
                            Query[r][atom(x)].args[a] = x
  <1>1. Env(r, w) = [x \in Slots(r) |-> Columns(w[atom(x)])[place(x)]]
    BY DEF Env
  <1>2. Env(r, w)' = [x \in Slots(r) |-> Columns(w[atom(x)])'[place(x)]]
    BY DEF Env
  <1>3. ASSUME NEW x \in Slots(r) PROVE atom(x) \in DOMAIN w
    <2>1. \E i \in DOMAIN w : x \in Range(Query[r][i].args)
      BY DEF Slots
    <2> QED BY <2>1
  <1> HIDE DEF atom, place
  <1> QED BY <1>1, <1>2, <1>3
(* Canonicalising twice gains nothing.                                      *)
LEMMA CanonTwice ==
    ASSUME TypeOK, RootIsOldest, NEW v
    PROVE  Canon(Canon(v)) = Canon(v)
  <1>1. CASE v \in Ids
    <2>1. root[v] \in Ids /\ root[root[v]] = root[v]
      BY <1>1 DEF TypeOK, RootIsOldest
    <2> QED BY <2>1, <1>1 DEF Canon
  <1>2. CASE v \notin Ids
    BY <1>2 DEF Canon
  <1> QED BY <1>1, <1>2

(* A match's environment is canonical when it is found.                     *)
LEMMA EnvCanonical ==
    ASSUME TypeOK, RootIsOldest, NEW r \in Rules, NEW w \in Witnesses(r)
    PROVE  CanonEnv(Env(r, w)) = Env(r, w)
  <1>1. \A x \in Slots(r) : Canon(Env(r, w)[x]) = Env(r, w)[x]
    <2> SUFFICES ASSUME NEW x \in Slots(r)
                 PROVE  Canon(Env(r, w)[x]) = Env(r, w)[x]
      OBVIOUS
    <2>1. PICK i \in DOMAIN Query[r] : \E a \in DOMAIN Query[r][i].args :
            x = Query[r][i].args[a] /\ Env(r, w)[x] = Columns(w[i])[a]
      BY EnvIs
    <2>2. PICK a \in DOMAIN Query[r][i].args :
            x = Query[r][i].args[a] /\ Env(r, w)[x] = Columns(w[i])[a]
      BY <2>1
    <2> DEFINE n == Arity[recipe[w[i]].table]
    <2>3. w[i] \in live /\ recipe[w[i]].table = Query[r][i].table
      BY WitnessIs
    <2>4. n \in Nat /\ a \in 1..(n + 1)
      BY <2>3, ColumnsOf, QueryShape
    <2>5. \E v : Columns(w[i])[a] = Canon(v)
      <3>1. CASE a \in 1..n
        BY <3>1, <2>3, ColumnsOf
      <3>2. CASE a = n + 1
        BY <3>2, <2>3, ColumnsOf
      <3> QED BY <3>1, <3>2, <2>4
    <2> QED BY <2>2, <2>5, CanonTwice
  <1>2. DOMAIN Env(r, w) = Slots(r)
    BY EnvIs
  <1>3. Env(r, w) = [x \in Slots(r) |-> Env(r, w)[x]]
    BY <1>2 DEF Env
  <1> DEFINE E == Env(r, w)
  <1> HIDE DEF E
  <1>4. CanonEnv(E) = [x \in Slots(r) |-> Canon(E[x])]
    BY <1>2 DEF CanonEnv, E
  <1>5. [x \in Slots(r) |-> Canon(E[x])] = [x \in Slots(r) |-> E[x]]
    BY <1>1 DEF E
  <1> QED BY <1>3, <1>4, <1>5 DEF E

(* A match binds the slots of class columns to classes that exist.          *)
LEMMA EnvTyped ==
    ASSUME TypeOK, RootIsOldest, NEW r \in Rules, NEW w \in Witnesses(r)
    PROVE  Binds(Env(r, w), QueryClasses(r))
  <1> SUFFICES ASSUME NEW i \in DOMAIN Query[r],
                      NEW a \in DOMAIN Query[r][i].args,
                      IsClass(Query[r][i].table, a)
               PROVE  /\ Query[r][i].args[a] \in DOMAIN Env(r, w)
                      /\ Env(r, w)[Query[r][i].args[a]] \in Made
    BY DEF Binds, QueryClasses, ClassArgs
  <1> DEFINE t == Query[r][i].table
             n == Arity[t]
             d == w[i]
  <1>1. d \in live /\ recipe[d].table = t
    BY WitnessIs
  <1>2. n \in Nat /\ a \in 1..(n + 1) /\ (a <= n \/ t \in Constructors)
    BY <1>1, ColumnsOf, QueryShape DEF IsClass
  <1>3. /\ recipe[d].key \in [1..n -> Made]
        /\ t \in Constructors => recipe[d].value \in Made
    BY <1>1 DEF TypeOK
  <1>4. Columns(d)[a] \in Made
    <2>1. CASE a \in 1..n
      <3>1. Columns(d)[a] = Canon(recipe[d].key[a]) /\ recipe[d].key[a] \in Made
        BY <2>1, <1>1, <1>3, ColumnsOf
      <3> QED BY <3>1, RootOfMade DEF Canon
    <2>2. CASE a = n + 1 /\ t \in Constructors
      <3>1. Columns(d)[a] = Canon(recipe[d].value) /\ recipe[d].value \in Made
        BY <2>2, <1>1, <1>3, ColumnsOf
      <3> QED BY <3>1, RootOfMade DEF Canon
    <2> QED BY <2>1, <2>2, <1>2
  <1> QED BY <1>4, EnvIs

------------------------------------------------------------------------------
(* The latest row of a match, ties going to the younger row and then to the *)
(* first atom: (epoch, witness) order is total.                             *)
LEMMA OwnerIsOne ==
    ASSUME TypeOK, NEW r \in Rules, NEW w \in Witnesses(r),
           NEW p \in DOMAIN w, NEW q \in DOMAIN w, Owns(w, p), Owns(w, q)
    PROVE  p = q
  <1>1. /\ DOMAIN w = 1..Len(Query[r]) /\ Len(Query[r]) \in Nat
        /\ w[p] \in live /\ w[q] \in live
    BY WitnessIs, QueryShape
  <1>2. p \in Int /\ q \in Int
    BY <1>1
  <1>3. w[p] \in Dependency /\ w[q] \in Dependency
    BY <1>1 DEF TypeOK
  <1>4. w[p] \in Int /\ w[q] \in Int
    BY <1>3, BoundsAssumption DEF Dependency, FactRefs, Ports
  <1>5. stamp[w[p]] \in Int /\ stamp[w[q]] \in Int
    BY <1>3, BoundsAssumption DEF TypeOK
  <1>6. ~ Later(w, p, q) /\ ~ Later(w, q, p)
    BY DEF Owns
  <1> QED BY <1>2, <1>4, <1>5, <1>6 DEF Later

(* Every match has such a row, and no row of the match is younger.          *)
LEMMA OwnerExists ==
    ASSUME TypeOK, NEW r \in Rules, NEW w \in Witnesses(r)
    PROVE  \E p \in DOMAIN w : Owns(w, p) /\ \A i \in DOMAIN w : stamp[w[i]] <= stamp[w[p]]
  <1> DEFINE n == Len(Query[r])
  <1>1. n \in Nat \ {0} /\ DOMAIN w = 1..n
    BY WitnessIs, QueryShape
  <1>2. ASSUME NEW i \in DOMAIN w
        PROVE  /\ stamp[w[i]] \in 0..MaxEpoch
               /\ w[i] \in 0..(MaxFact + NumPorts)
    <2>1. w[i] \in Dependency
      BY WitnessIs DEF TypeOK
    <2> QED BY <2>1, BoundsAssumption DEF TypeOK, Dependency, FactRefs, Ports
  <1>3. PICK p1 \in DOMAIN w : \A i \in DOMAIN w : stamp[w[i]] <= stamp[w[p1]]
    <2> DEFINE S == {stamp[w[i]] : i \in DOMAIN w}
    <2>1. S \in SUBSET (0..MaxEpoch) /\ S # {}
      BY <1>1, <1>2
    <2>2. PICK m \in S : \A s \in S : s <= m
      BY <2>1, BoundsAssumption, Largest
    <2> QED BY <2>2
  <1> DEFINE A == {i \in DOMAIN w : stamp[w[i]] = stamp[w[p1]]}
  <1>4. PICK p2 \in A : \A i \in A : w[i] <= w[p2]
    <2> DEFINE S == {w[i] : i \in A}
    <2>1. S \in SUBSET (0..(MaxFact + NumPorts)) /\ S # {}
      BY <1>2, <1>3
    <2>2. MaxFact + NumPorts \in Nat
      BY BoundsAssumption
    <2>3. PICK m \in S : \A s \in S : s <= m
      BY <2>1, <2>2, Largest
    <2> QED BY <2>3
  <1> DEFINE B == {i \in A : w[i] = w[p2]}
  <1>5. PICK p \in B : \A i \in B : p <= i
    <2> DEFINE S == {n - i : i \in B}
    <2>1. S \in SUBSET (0..n) /\ S # {}
      <3>1. \A i \in B : i \in 1..n
        BY <1>1
      <3>2. \A i \in 1..n : n - i \in 0..n
        BY <1>1
      <3>3. B # {}
        BY <1>4
      <3> HIDE DEF B
      <3> QED BY <3>1, <3>2, <3>3
    <2>2. PICK m \in S : \A s \in S : s <= m
      BY <2>1, <1>1, Largest
    <2>3. PICK p \in B : m = n - p
      BY <2>2
    <2>4. \A i \in B : n - i <= n - p
      BY <2>2, <2>3
    <2>5. p \in B /\ p \in Int /\ n \in Int /\ \A i \in B : i \in Int
      BY <1>1
    <2> HIDE DEF B
    <2>6. ASSUME NEW i \in B PROVE p <= i
      <3>1. n - i <= n - p /\ i \in Int
        BY <2>4, <2>5
      <3> QED BY ONLY <2>5, <3>1
    <2> QED BY <2>5, <2>6
  <1>6. p \in DOMAIN w /\ stamp[w[p]] = stamp[w[p1]] /\ w[p] = w[p2]
    OBVIOUS
  <1>7. ASSUME NEW i \in DOMAIN w, Later(w, i, p) PROVE FALSE
    <2>1. stamp[w[i]] \in Int /\ stamp[w[p]] \in Int /\ w[i] \in Int /\ w[p] \in Int
          /\ i \in Int /\ p \in Int
      BY <1>1, <1>2, <1>6
    <2>2. CASE stamp[w[i]] > stamp[w[p]]
      BY <2>1, <2>2, <1>3, <1>6
    <2>3. CASE stamp[w[i]] = stamp[w[p]] /\ w[i] > w[p]
      <3>1. i \in A
        BY <2>3, <1>6
      <3> QED BY <3>1, <2>1, <2>3, <1>4, <1>6
    <2>4. CASE w[i] = w[p] /\ i < p
      <3>1. i \in B
        BY <2>4, <1>6
      <3> QED BY <3>1, <2>1, <2>4, <1>5
    <2> QED BY <2>2, <2>3, <2>4, <1>7 DEF Later
  <1> HIDE DEF A, B
  <1> QED BY <1>3, <1>6, <1>7 DEF Owns
------------------------------------------------------------------------------
(* Between two Runs a match with a row changed since its rule's last Run is *)
(* found from exactly one of its rows.                                      *)
LEMMA RecentFound ==
    ASSUME IInv, Clocks, Delivered, BetweenRuns,
           NEW r \in Rules, NEW w \in Witnesses(r),
           NEW i \in DOMAIN w, Recent(r, w[i])
    PROVE  \E p \in DOMAIN w : Pivots(r, w) = {p}
  <1>1. TypeOK
    BY DEF IInv
  <1>2. PICK p \in DOMAIN w : Owns(w, p) /\ \A j \in DOMAIN w : stamp[w[j]] <= stamp[w[p]]
    BY <1>1, OwnerExists
  <1>3. /\ w[p] \in live \ hidden /\ w[i] \in live
        /\ recipe[w[p]].table \in Reads(r)
    BY WitnessIs, QueryShape
  <1>4. stamp[w[i]] \in Int /\ stamp[w[p]] \in Int /\ watermarks[r] \in Int
    BY <1>1, <1>3, BoundsAssumption DEF TypeOK, Clocks
  <1>5. stamp[w[i]] <= stamp[w[p]] /\ stamp[w[i]] >= watermarks[r]
    BY <1>2 DEF Recent
  <1>6. Recent(r, w[p])
    BY <1>4, <1>5 DEF Recent
  <1>7. w[p] \in queue[r]
    BY <1>3, <1>6 DEF Delivered, Arriving
  <1>8. p \in Pivots(r, w)
    BY <1>2, <1>3, <1>6, <1>7 DEF Pivots, Delta
  <1>9. \A q \in Pivots(r, w) : q = p
    BY <1>1, <1>2, OwnerIsOne DEF Pivots
  <1> QED BY <1>8, <1>9

(* Every table of a match has a row.                                        *)
LEMMA NoEmptyTable ==
    ASSUME NEW r \in Rules, NEW w \in Witnesses(r)
    PROVE  ~ JoinsEmptyTable(r)
  <1> SUFFICES ASSUME NEW i \in DOMAIN Query[r]
               PROVE  {d \in live : recipe[d].table = Query[r][i].table} # {}
    BY DEF JoinsEmptyTable, Reads
  <1>1. w[i] \in live /\ recipe[w[i]].table = Query[r][i].table
    BY WitnessIs
  <1> QED BY <1>1

(* What the next Run of a rule does not find it has applied before.         *)
LEMMA FoundOrCaught ==
    ASSUME IInv, Clocks, Queues, Delivered, Caught, BetweenRuns,
           NEW r \in Rules, NEW w \in Witnesses(r)
    PROVE  \/ Env(r, w) \in Found(r)
           \/ \E old \in consumed[r] : CanonEnv(old) = Env(r, w)
  <1>1. ~ JoinsEmptyTable(r)
    BY NoEmptyTable
  <1>2. CASE r \notin Seminaive
    <2>1. Env(r, w) \in AllBindings(r) /\ ~ Idle(r)
      BY <1>2 DEF AllBindings, Idle
    <2> QED BY <1>1, <1>2, <2>1 DEF Found
  <1>3. CASE r \in Seminaive /\ \E i \in DOMAIN w : Recent(r, w[i])
    <2>1. PICK p \in DOMAIN w : p \in Pivots(r, w)
      BY <1>3, RecentFound
    <2>2. w[p] \in queue[r]
      BY <2>1 DEF Pivots, Delta
    <2>3. ~ Idle(r)
      BY <2>2 DEF Idle, Queues
    <2>4. Env(r, w) \in DeltaBindings(r)
      BY <2>1 DEF DeltaBindings
    <2> QED BY <1>1, <1>3, <2>3, <2>4 DEF Found
  <1>4. CASE \A i \in DOMAIN w : ~ Recent(r, w[i])
    <2>1. dirty = {}
      BY DEF IInv, QuietOutsideRepair, BetweenRuns
    <2> QED BY <1>4, <2>1 DEF Caught, Old
  <1> QED BY <1>2, <1>3, <1>4

(* Nothing is lost ...                                                      *)
LEMMA LoopInvLosesNone == LoopInv => NoMatchLost
  BY FoundOrCaught DEF LoopInv, NoMatchLost, AllBindings

(* ... and nothing is found twice.                                          *)
LEMMA LoopInvPartitions == LoopInv => DeltaPartition
  <1> SUFFICES ASSUME LoopInv, BetweenRuns, NEW r \in Seminaive, NEW w \in Witnesses(r)
               PROVE  Cardinality(Pivots(r, w)) =
                        IF \E i \in DOMAIN w : Recent(r, w[i]) THEN 1 ELSE 0
    BY DEF DeltaPartition
  <1>1. r \in Rules
    BY RulesAssumption
  <1>2. CASE \E i \in DOMAIN w : Recent(r, w[i])
    <2>1. PICK p \in DOMAIN w : Pivots(r, w) = {p}
      BY <1>1, <1>2, RecentFound DEF LoopInv
    <2> QED BY <1>2, <2>1, FS_Singleton
  <1>3. CASE ~ \E i \in DOMAIN w : Recent(r, w[i])
    <2>1. Pivots(r, w) = {}
      BY <1>3 DEF Pivots, Delta
    <2> QED BY <1>3, <2>1, FS_EmptySet
  <1> QED BY <1>2, <1>3

------------------------------------------------------------------------------
(* What a step of the graph may do to the rows: a row that is written gets  *)
(* the Run's epoch and is handed on, any other row that stays clean keeps   *)
(* its columns, and a class goes where its root goes.                       *)
Stays(d) ==
    /\ d \in live /\ recipe'[d].table = recipe[d].table
    /\ stamp'[d] = stamp[d]
RowsMove ==
    /\ epoch' = epoch
    /\ events \subseteq events'
    /\ \A d \in live' : Stays(d) \/ (d \in events' /\ stamp'[d] = epoch)
    /\ \A d \in live' \ hidden' :
        d \notin dirty' /\ stamp'[d] < epoch
            => /\ Stays(d) /\ d \notin hidden /\ d \notin dirty
               /\ Columns(d)' = Columns(d)
    /\ \A i \in Ids : root'[root[i]] = root'[i]

(* The canonical form of a value follows that of its canonical form.        *)
LEMMA CanonFollows ==
    ASSUME TypeOK, \A i \in Ids : root'[root[i]] = root'[i],
           NEW v, NEW u, u = Canon(v)
    PROVE  Canon(u)' = Canon(v)'
  BY DEF TypeOK, Canon

(* EnvCanonical in the next state.                                          *)
LEMMA EnvCanonicalNext ==
    (\A r \in Rules : \A w \in Witnesses(r) : \A e :
        e = Env(r, w) /\ TypeOK /\ RootIsOldest => CanonEnv(e) = e)'
  <1>1. \A r \in Rules : \A w \in Witnesses(r) : \A e :
          e = Env(r, w) /\ TypeOK /\ RootIsOldest => CanonEnv(e) = e
    BY EnvCanonical
  <1> QED BY <1>1, PTL

(* Such a step keeps what was caught.                                       *)
LEMMA MoveCaught ==
    ASSUME IInv, IInv', Clocks, Caught, RowsMove, UNCHANGED <<watermarks, consumed>>
    PROVE  Caught'
  <1> SUFFICES ASSUME NEW r \in Rules, NEW w \in Witnesses(r)',
                      \A i \in DOMAIN w : Old(r, w[i])'
               PROVE  \E old \in consumed[r] : CanonEnv(old)' = Env(r, w)'
    BY DEF Caught
  <1>1. DOMAIN w = DOMAIN Query[r]
    BY WitnessIsNext
  <1>2. ASSUME NEW i \in DOMAIN w
        PROVE  /\ w[i] \in live \ hidden /\ Old(r, w[i])
               /\ recipe'[w[i]].table = recipe[w[i]].table
               /\ Columns(w[i])' = Columns(w[i])
    <2>1. w[i] \in live' \ hidden'
      BY <1>1, WitnessIsNext
    <2>2. stamp'[w[i]] \in Int /\ watermarks[r] \in Int /\ epoch \in Int
      BY <2>1, BoundsAssumption DEF IInv, TypeOK, Clocks
    <2>3. w[i] \notin dirty' /\ ~ (stamp'[w[i]] >= watermarks[r])
      BY DEF Old, Recent
    <2>4. stamp'[w[i]] < epoch
      BY <2>2, <2>3 DEF Clocks
    <2>5. /\ Stays(w[i]) /\ w[i] \notin hidden /\ w[i] \notin dirty
          /\ Columns(w[i])' = Columns(w[i])
      BY <2>1, <2>3, <2>4 DEF RowsMove
    <2> QED BY <2>3, <2>5 DEF Stays, Old, Recent
  <1>3. w \in Witnesses(r)
    <2>1. w \in [DOMAIN Query[r] -> live \ hidden]
      <3>1. w \in [DOMAIN Query[r] -> live' \ hidden']
        BY WitnessIsNext
      <3> QED BY <3>1, <1>1, <1>2
    <2> QED BY <2>1, <1>1, <1>2, WitnessIs, WitnessIsNext
  <1>4. Env(r, w)' = Env(r, w)
    BY <1>1, <1>2, EnvSame
  <1>5. PICK old \in consumed[r] : CanonEnv(old) = Env(r, w)
    BY <1>2, <1>3 DEF Caught
  <1>6. PICK e : e = Env(r, w)
    OBVIOUS
  <1>7. Env(r, w)' = e /\ CanonEnv(e)' = e
    BY <1>4, <1>6, EnvCanonicalNext DEF IInv
  <1>8. e = [x \in DOMAIN old |-> Canon(old[x])]
    BY <1>5, <1>6 DEF CanonEnv
  <1>9. CanonEnv(old)' = [x \in DOMAIN old |-> Canon(old[x])']
    BY DEF CanonEnv
  <1>10. CanonEnv(e)' = [x \in DOMAIN e |-> Canon(e[x])']
    BY DEF CanonEnv
  <1>11. \A x \in DOMAIN old : Canon(e[x])' = Canon(old[x])'
    <2> SUFFICES ASSUME NEW x \in DOMAIN old PROVE Canon(e[x])' = Canon(old[x])'
      OBVIOUS
    <2>1. e[x] = Canon(old[x])
      BY <1>8
    <2> QED BY <2>1, CanonFollows DEF IInv, RowsMove
  <1>12. CanonEnv(old)' = e
    BY <1>7, <1>8, <1>9, <1>10, <1>11
  <1> QED BY <1>7, <1>12
(* Such a step, outside a published graph, keeps the bookkeeping too.       *)
LEMMA MoveKeeps ==
    ASSUME IInv, IInv', Clocks, Queues, Delivered, Caught, RowsMove,
           ~ BetweenRuns, ~ BetweenRuns',
           UNCHANGED <<dirtyRules, queue, watermarks, consumed>>
    PROVE  Clocks' /\ Queues' /\ Delivered' /\ Caught'
  <1>1. Clocks'
    <2>1. epoch \in Int
      BY DEF IInv, TypeOK
    <2>2. ASSUME NEW d \in live' PROVE stamp'[d] <= epoch'
      <3>1. Stays(d) \/ stamp'[d] = epoch
        BY <2>2 DEF RowsMove
      <3> QED BY <2>1, <3>1 DEF Clocks, Stays, RowsMove
    <2> QED BY <2>2 DEF Clocks, RowsMove
  <1>2. Queues'
    BY DEF Queues
  <1>3. Delivered'
    <2> SUFFICES ASSUME NEW r \in Rules, NEW d \in live',
                        recipe'[d].table \in Reads(r), stamp'[d] >= watermarks[r]
                 PROVE  d \in queue[r] \cup events'
      BY DEF Delivered, Arriving, Recent, Reads
    <2>1. CASE Stays(d)
      <3>1. d \in live /\ recipe[d].table \in Reads(r) /\ Recent(r, d)
        BY <2>1 DEF Stays, Recent
      <3>2. d \in queue[r] \cup events
        BY <3>1 DEF Delivered, Arriving
      <3> QED BY <3>2 DEF RowsMove
    <2> QED BY <2>1 DEF RowsMove
  <1> QED BY <1>1, <1>2, <1>3, MoveCaught

(* Rows whose recipe and classes stay have the same columns.                *)
LEMMA ColumnsStay ==
    ASSUME root' = root, NEW d, recipe'[d] = recipe[d]
    PROVE  Columns(d)' = Columns(d)
  BY DEF Columns, Row, CanonKey, Canon

(* Without a union every class stays at its root.                           *)
LEMMA RootsStay ==
    ASSUME IInv, root' = root
    PROVE  \A i \in Ids : root'[root[i]] = root'[i]
  BY DEF IInv, RootIsOldest

(* Requests, and steps of the loop that touch no row.                       *)
LEMMA QuietMoves ==
    ASSUME IInv, UNCHANGED <<root, recipe, live, hidden, stamp, dirty, epoch, events>>
    PROVE  RowsMove
  <1>1. \A d \in live : Stays(d) /\ Columns(d)' = Columns(d)
    BY ColumnsStay DEF Stays
  <1> QED BY <1>1, RootsStay DEF RowsMove

(* activate() adds a row with the Run's epoch.                              *)
LEMMA ActivateMoves ==
    ASSUME IInv, NEW t, NEW key, NEW v, NEW hide \in BOOLEAN, Activate(t, key, v, hide)
    PROVE  RowsMove
  <1> DEFINE f == nextFact + 1
  <1>1. /\ recipe' = Put(recipe, f, [table |-> t, key |-> key, value |-> v])
        /\ live' = live \cup {f}
        /\ hidden' = IF hide THEN hidden \cup {f} ELSE hidden
        /\ stamp' = [stamp EXCEPT ![f] = epoch]
        /\ events' = events \cup {f}
        /\ UNCHANGED <<root, dirty, epoch>>
        /\ nextFact < MaxFact
    BY DEF Activate, unionVars
  <1>2. f \in Dependency
    <2>1. f \in FactRefs
      BY <1>1, BoundsAssumption DEF IInv, TypeOK, FactRefs
    <2> QED BY <2>1, Numbering
  <1>3. f \notin DOMAIN recipe
    <2>1. nextFact \in 0..MaxFact /\ f \in FactRefs
      BY <1>1, BoundsAssumption DEF IInv, TypeOK, FactRefs
    <2>2. DOMAIN recipe \cap FactRefs = 1..nextFact /\ f \notin 1..nextFact
      BY <2>1 DEF IInv, TypeOK
    <2> QED BY <2>1, <2>2
  <1>4. \A d \in live : d # f /\ recipe'[d] = recipe[d] /\ stamp'[d] = stamp[d]
    BY <1>1, <1>2, <1>3 DEF IInv, TypeOK, Put
  <1>5. stamp'[f] = epoch /\ f \in events' /\ ~ (epoch < epoch)
    BY <1>1, <1>2 DEF IInv, TypeOK
  <1> HIDE DEF f
  <1>6. \A d \in live : Stays(d) /\ Columns(d)' = Columns(d)
    BY <1>1, <1>4, ColumnsStay DEF Stays
  <1>7. \A d \in live' \ hidden' : d \notin hidden
    BY <1>1
  <1> QED BY <1>1, <1>5, <1>6, <1>7, RootsStay DEF RowsMove

(* A row that is hidden gets the Run's epoch.                               *)
LEMMA SubsumeMoves ==
    ASSUME IInv, NEW t, NEW key, Subsume(t, key)
    PROVE  RowsMove
  <1>1. PICK f \in FactRefs :
          /\ hidden' = hidden \cup {f}
          /\ stamp' = [stamp EXCEPT ![f] = epoch]
          /\ events' = events \cup {f}
    BY DEF Subsume
  <1>2. UNCHANGED <<root, dirty, recipe, live, epoch>>
    BY DEF Subsume, unionVars
  <1>3. /\ stamp'[f] = epoch /\ f \in events'
        /\ \A d \in live : d # f => stamp'[d] = stamp[d]
    BY <1>1, Numbering DEF IInv, TypeOK
  <1>4. \A d \in live : d # f => Stays(d) /\ Columns(d)' = Columns(d)
    BY <1>2, <1>3, ColumnsStay DEF Stays
  <1> QED BY <1>1, <1>2, <1>3, <1>4, RootsStay DEF RowsMove

(* A row that is deleted leaves the others as they are.                     *)
LEMMA DeleteMoves ==
    ASSUME IInv, NEW t, NEW key, Delete(t, key)
    PROVE  RowsMove
  <1>1. PICK f \in FactRefs : live' = live \ {f} /\ hidden' = hidden \ {f}
    BY DEF Delete
  <1>2. UNCHANGED <<root, dirty, recipe, stamp, events, epoch>>
    BY DEF Delete, unionVars
  <1>3. \A d \in live' : Stays(d) /\ Columns(d)' = Columns(d)
    BY <1>1, <1>2, ColumnsStay DEF Stays
  <1>4. \A d \in live' \ hidden' : d \notin hidden
    BY <1>1
  <1> QED BY <1>1, <1>2, <1>3, <1>4, RootsStay DEF RowsMove

(* A union marks the rows it reaches: what stays clean does not change.     *)
LEMMA LinkMoves ==
    ASSUME IInv, NEW lo \in Made, NEW hi \in Made, root[lo] = lo, root[hi] = hi,
           LinkRoots(lo, hi),
           UNCHANGED <<recipe, live, hidden, stamp, events, epoch>>
    PROVE  RowsMove
  <1>1. lo \in Ids /\ hi \in Ids
    BY RootOfMade DEF IInv
  <1>2. /\ \A i \in Ids : root'[i] = IF root[i] = hi THEN lo ELSE root[i]
        /\ dirty' = dirty \cup uses[hi]
    BY DEF LinkRoots
  <1>3. \A i \in Ids : root'[root[i]] = root'[i]
    BY <1>2 DEF IInv, TypeOK, RootIsOldest
  <1>4. ASSUME NEW d \in live, d \notin dirty' PROVE Columns(d)' = Columns(d)
    <2>1. \A x \in Refs(recipe[d]) : root[x] # hi
      BY <1>1, <1>2, <1>4, ListedWhereMentioned DEF IInv
    <2>2. \A x \in Refs(recipe[d]) : root'[x] = root[x]
      BY <1>2, <2>1 DEF Refs
    <2>3. \A j \in DOMAIN recipe[d].key : Canon(recipe[d].key[j])' = Canon(recipe[d].key[j])
      BY <2>2 DEF Canon, Refs
    <2>4. CanonKey(recipe[d].key)' = CanonKey(recipe[d].key)
      BY <2>3 DEF CanonKey, Canon
    <2>5. Canon(recipe[d].value)' = Canon(recipe[d].value)
      BY <2>2 DEF Canon, Refs
    <2> QED BY <2>4, <2>5 DEF Columns, Row
  <1>5. \A d \in live : Stays(d)
    BY DEF Stays
  <1> QED BY <1>2, <1>3, <1>4, <1>5 DEF RowsMove

(* So does the repair loop's next pending union.                            *)
LEMMA UnionMoves ==
    ASSUME IInv, ApplyUnion
    PROVE  RowsMove
  <1> DEFINE a == root[Head(pending)[1]]
             b == root[Head(pending)[2]]
  <1>1. /\ pending # <<>>
        /\ UNCHANGED <<recipe, live, hidden, stamp, events, epoch>>
        /\ \/ a = b /\ UNCHANGED <<root, dirty, uses, changed>>
           \/ a < b /\ LinkRoots(a, b)
           \/ b < a /\ LinkRoots(b, a)
    BY DEF ApplyUnion
  <1>2. pending \in Seq(Made \X Made)
    BY DEF IInv, TypeOK
  <1>3. Head(pending) \in Made \X Made
    BY <1>1, <1>2, HeadTailProperties
  <1>4. /\ a \in Made /\ root[a] = a
        /\ b \in Made /\ root[b] = b
    BY <1>3, RootOfMade DEF IInv
  <1> HIDE DEF a, b
  <1>5. CASE UNCHANGED <<root, dirty>>
    BY <1>1, <1>5, QuietMoves
  <1>6. CASE LinkRoots(a, b)
    BY <1>1, <1>4, <1>6, LinkMoves
  <1>7. CASE LinkRoots(b, a)
    BY <1>1, <1>4, <1>7, LinkMoves
  <1> QED BY <1>1, <1>5, <1>6, <1>7

(* The fact that repair re-files, or that inherits a duplicate, gets the    *)
(* Run's epoch; no other row becomes clean.                                 *)
LEMMA RepairMoves ==
    ASSUME IInv, NEW f \in FactRefs, RepairFact(f)
    PROVE  RowsMove
  <1>1. dirty' = dirty \ {f} /\ UNCHANGED <<root, recipe, epoch>>
    BY DEF RepairFact
  <1>2. CASE Reindex(f)
    <2>1. /\ stamp' = [stamp EXCEPT ![f] = epoch]
          /\ events' = events \cup {f}
          /\ UNCHANGED <<live, hidden>>
      BY <1>2 DEF Reindex
    <2>2. /\ stamp'[f] = epoch /\ f \in events' /\ ~ (epoch < epoch)
          /\ \A d \in live : d # f => stamp'[d] = stamp[d]
      BY <2>1, Numbering DEF IInv, TypeOK
    <2>3. \A d \in live : d # f => Stays(d) /\ Columns(d)' = Columns(d)
      BY <1>1, <2>1, <2>2, ColumnsStay DEF Stays
    <2> QED BY <1>1, <2>1, <2>2, <2>3, RootsStay DEF RowsMove
  <1>3. ASSUME NEW g \in FactRefs, Collapse(f, g) PROVE RowsMove
    <2>1. /\ hidden' = (hidden \ {f}) \cup {x \in {g} : f \in hidden}
          /\ stamp' = [stamp EXCEPT ![g] = epoch]
          /\ events' = events \cup {g}
          /\ live' = live \ {f}
      BY <1>3 DEF Collapse
    <2>2. /\ stamp'[g] = epoch /\ g \in events' /\ ~ (epoch < epoch)
          /\ \A d \in live : d # g => stamp'[d] = stamp[d]
      BY <2>1, Numbering DEF IInv, TypeOK
    <2>3. \A d \in live' : d # g => Stays(d) /\ Columns(d)' = Columns(d)
      BY <1>1, <2>1, <2>2, ColumnsStay DEF Stays
    <2>4. \A d \in live' \ hidden' : d \notin hidden /\ d # f
      BY <2>1
    <2> QED BY <1>1, <2>1, <2>2, <2>3, <2>4, RootsStay DEF RowsMove
  <1> QED BY <1>2, <1>3 DEF RepairFact
------------------------------------------------------------------------------
(* Matches, and what they bind, depend on the rows and the classes alone.   *)
LEMMA MatchesSame ==
    ASSUME UNCHANGED <<root, recipe, live, hidden>>, NEW r \in Rules
    PROVE  /\ Witnesses(r)' = Witnesses(r)
           /\ \A w : Env(r, w)' = Env(r, w)
           /\ \A env : CanonEnv(env)' = CanonEnv(env)
           /\ JoinsEmptyTable(r)' = JoinsEmptyTable(r)
  <1>1. \A d : Columns(d)' = Columns(d)
    BY ColumnsStay
  <1>2. \A env : CanonEnv(env)' = CanonEnv(env)
    BY DEF CanonEnv, Canon
  <1>3. \A w : Env(r, w)' = Env(r, w)
    BY <1>1 DEF Env, Slots
  <1>4. ASSUME NEW w PROVE w \in Witnesses(r)' <=> w \in Witnesses(r)
    BY <1>1, WitnessIs, WitnessIsNext
  <1>5. Witnesses(r)' = Witnesses(r)
    <2>1. \A w : w \in Witnesses(r)' <=> w \in Witnesses(r)
      BY <1>4
    <2>2. Witnesses(r) = {w \in [DOMAIN Query[r] -> live \ hidden] : w \in Witnesses(r)}
      BY WitnessIs
    <2>3. Witnesses(r)' = {w \in [DOMAIN Query[r] -> live' \ hidden'] : w \in Witnesses(r)'}
      BY WitnessIsNext
    <2> QED BY <2>1, <2>2, <2>3
  <1>6. JoinsEmptyTable(r)' = JoinsEmptyTable(r)
    BY DEF JoinsEmptyTable, Reads
  <1> QED BY <1>2, <1>3, <1>5, <1>6

(* The empty database.                                                      *)
LEMMA InitLoopInv == InitLoop => LoopInv
  <1> SUFFICES ASSUME InitLoop PROVE LoopInv
    OBVIOUS
  <1>1. IInv
    BY InitInv DEF InitLoop
  <1>2. Typed
    <2>1. left \in Seq(Rules)
      BY DEF InitLoop
    <2> QED BY <2>1 DEF InitLoop, Init, Typed, Loading, FrameTyped, WorkTyped
  <1>3. Clocks
    BY DEF InitLoop, Init, Clocks
  <1>4. Queues /\ Delivered
    BY RulesAssumption DEF InitLoop, Init, Queues, Delivered
  <1>5. Caught
    <2>1. \A r \in Rules : \A w \in Witnesses(r) : FALSE
      <3> SUFFICES ASSUME NEW r \in Rules, NEW w \in Witnesses(r) PROVE FALSE
        OBVIOUS
      <3>1. 1 \in DOMAIN Query[r]
        <4>1. Len(Query[r]) \in Nat \ {0} /\ DOMAIN Query[r] = 1..Len(Query[r])
          BY QueryShape
        <4> QED BY <4>1
      <3>2. w[1] \in live
        BY <3>1, WitnessIs
      <3> QED BY <3>2 DEF InitLoop, Init
    <2> QED BY <2>1 DEF Caught, InitLoop
  <1> QED BY <1>1, <1>2, <1>3, <1>4, <1>5 DEF LoopInv

(* Reading a row of the database: its classes are their own roots still.    *)
LEMMA LoadInv == ASSUME LoopInv, Load PROVE LoopInv'
  <1>1. PICK t \in Virtual : \E key \in [1..Arity[t] -> 1..NumImports] :
          \E v \in IF t \in Constructors THEN 1..NumImports ELSE {Unit} :
            \E hide \in BOOLEAN : Activate(t, key, v, hide)
    BY DEF Load
  <1>2. PICK key \in [1..Arity[t] -> 1..NumImports],
             v \in IF t \in Constructors THEN 1..NumImports ELSE {Unit},
             hide \in BOOLEAN : Activate(t, key, v, hide)
    BY <1>1
  <1>3. /\ loading /\ phase = "idle" /\ root = [i \in Ids |-> i]
        /\ UNCHANGED <<loading, dirtyRules, queue, watermarks, left, work, frame, consumed>>
        /\ UNCHANGED <<root, phase>>
        /\ nextFact' = nextFact + 1
        /\ IInv
    BY <1>2 DEF Load, LoopInv, Typed, Loading, matchVars, applyVars, Activate, unionVars
  <1>4. 1..NumImports \subseteq Roots
    BY <1>3, BoundsAssumption DEF Roots, Made, Ids, IInv, TypeOK
  <1>5. key \in [1..Arity[t] -> Roots]
    BY <1>4
  <1>6. v \in Roots \cup {FreshValue(t)}
    BY <1>4 DEF FreshValue
  <1>7. IInv'
    BY <1>2, <1>3, <1>5, <1>6, ActivateRootsInv
  <1>8. RowsMove
    BY <1>2, <1>3, ActivateMoves
  <1>9. Clocks' /\ Queues' /\ Delivered' /\ Caught'
    BY <1>3, <1>7, <1>8, MoveKeeps DEF LoopInv, BetweenRuns
  <1>10. Typed'
    <2>1. Made \subseteq Made'
      BY <1>3, BoundsAssumption DEF Made, IInv, TypeOK
    <2>2. Loading'
      BY <1>3 DEF LoopInv, Typed, Loading
    <2>3. WorkTyped'
      BY <1>3, <2>1 DEF LoopInv, Typed, WorkTyped, Binds, QueryClasses, ClassArgs, IsClass
    <2>4. FrameTyped'
      BY <1>3, <2>1 DEF LoopInv, Typed, FrameTyped, Binds
    <2> QED BY <2>2, <2>3, <2>4 DEF Typed
  <1> QED BY <1>7, <1>9, <1>10 DEF LoopInv
(* What is being applied stays well sorted when no class disappears.        *)
LEMMA TypedStays ==
    ASSUME Typed, Loading', Made \subseteq Made',
           UNCHANGED <<left, work, frame>>
    PROVE  Typed'
  <1>1. WorkTyped'
    BY DEF Typed, WorkTyped, Binds, QueryClasses, ClassArgs, IsClass
  <1>2. FrameTyped'
    BY DEF Typed, FrameTyped, Binds
  <1> QED BY <1>1, <1>2 DEF Typed

(* The rows of the database are handed to the rules that read them.         *)
LEMMA EndLoadInv == ASSUME LoopInv, EndLoad PROVE LoopInv'
  <1>1. /\ UNCHANGED <<root, dirty, pending, indexVars, nextFact, recipe, live, hidden,
                       stamp, events, epoch, phase, dirtyRules, watermarks,
                       left, work, frame, consumed>>
        /\ loading /\ ~loading' /\ changed' = FALSE
        /\ queue' = DeliverTo(queue)
    BY DEF EndLoad, unionVars, applyVars
  <1>2. IInv /\ dirtyRules = Rules /\ phase = "idle"
    BY <1>1 DEF LoopInv, Typed, Loading
  <1>3. IInv'
    <2>1. TypeOK'
      BY <1>1, <1>2 DEF IInv, TypeOK, Made, indexVars
    <2>2. dirty = {}
      BY <1>2 DEF IInv, QuietOutsideRepair
    <2> QED BY <1>1, <1>2, <2>1, <2>2, FrameInv DEF indexVars
  <1>4. Typed'
    <2>1. Made' = Made
      BY <1>1 DEF Made
    <2> QED BY <1>1, <2>1, TypedStays DEF LoopInv, Loading
  <1>5. Clocks'
    BY <1>1 DEF LoopInv, Clocks
  <1>6. Queues'
    BY <1>1, <1>2, RulesAssumption DEF Queues, DeliverTo
  <1>7. Delivered'
    <2> SUFFICES ASSUME NEW r \in Rules, NEW d \in live,
                        recipe[d].table \in Reads(r), Recent(r, d)
                 PROVE  d \in queue'[r]
      BY <1>1, <1>2 DEF Delivered, Arriving, Recent, Reads, BetweenRuns
    <2>1. d \in queue[r] \cup events
      BY DEF LoopInv, Delivered, Arriving
    <2> QED BY <2>1, <1>1 DEF DeliverTo
  <1>8. Caught'
    <2>1. RowsMove
      BY <1>1, <1>2, QuietMoves
    <2> QED BY <1>1, <1>2, <1>3, <2>1, MoveCaught DEF LoopInv
  <1> QED BY <1>3, <1>4, <1>5, <1>6, <1>7, <1>8 DEF LoopInv

(* What a rule finds are environments of matches.                           *)
LEMMA FoundAreMatches ==
    ASSUME NEW r, NEW env \in Found(r)
    PROVE  \E w \in Witnesses(r) : env = Env(r, w)
  BY DEF Found, DeltaBindings, AllBindings

(* A Run starts: its rules take everything they have not applied before.    *)
LEMMA StartRunInv ==
    ASSUME LoopInv, NEW set \in RuleSets, StartRun(set) PROVE LoopInv'
  <1> DEFINE ran == Range(set)
  <1>1. /\ BeginRun /\ ~loading /\ UNCHANGED <<loading, frame>>
        /\ work' = FoundBy(set) /\ left' = set
        /\ watermarks' = [r \in Rules |-> IF r \in ran THEN epoch + 1 ELSE watermarks[r]]
        /\ dirtyRules' = dirtyRules \ (Seminaive \cap ran)
        /\ queue' = [r \in Rules |-> IF r \in ran /\ Consumes(r) THEN {} ELSE queue[r]]
        /\ consumed' = [r \in Rules |-> consumed[r] \cup FoundBy(set)[r]]
    BY DEF StartRun, StartWith
  <1>2. /\ epoch' = epoch + 1 /\ phase = "idle" /\ phase' = "rhs"
        /\ UNCHANGED <<root, nextFact, recipe, live, hidden, stamp, dirty>>
    BY <1>1 DEF BeginRun, unionVars
  <1>3. IInv /\ BetweenRuns /\ ~BetweenRuns' /\ dirty = {}
    BY <1>1, <1>2 DEF LoopInv, BetweenRuns, IInv, QuietOutsideRepair
  <1>4. IInv'
    BY <1>1, <1>3, BeginRunInv
  <1>5. set \in Seq(Rules)
    BY RulesAssumption
  <1>6. \A r \in Rules : FoundBy(set)[r] = IF r \in ran THEN Found(r) ELSE {}
    BY DEF FoundBy
  <1> HIDE DEF ran
  <1>7. epoch \in Int
    BY <1>3 DEF IInv, TypeOK
  <1>8. Typed'
    <2>1. Made' = Made
      BY <1>2 DEF Made
    <2>2. Loading'
      BY <1>1 DEF Loading
    <2>3. FrameTyped'
      BY <1>1, <2>1 DEF LoopInv, Typed, FrameTyped, Binds
    <2>4. ASSUME NEW r \in Rules, NEW env \in FoundBy(set)[r]
          PROVE  Binds(env, QueryClasses(r))
      <3>1. env \in Found(r)
        BY <2>4, <1>6
      <3>2. PICK w \in Witnesses(r) : env = Env(r, w)
        BY <3>1, FoundAreMatches
      <3> QED BY <3>2, <1>3, EnvTyped DEF IInv
    <2>5. WorkTyped'
      <3>1. left' \in Seq(Rules) /\ DOMAIN work' = Rules
        BY <1>1, <1>5 DEF FoundBy
      <3>2. \A r \in Rules : \A env \in work'[r] : Binds(env, QueryClasses(r))'
        BY <1>1, <2>1, <2>4 DEF Binds
      <3> QED BY <3>1, <3>2 DEF WorkTyped
    <2> QED BY <2>2, <2>3, <2>5 DEF Typed
  <1>9. Clocks'
    <2>1. \A d \in live : stamp[d] \in Int /\ stamp[d] <= epoch
      BY <1>3, BoundsAssumption DEF LoopInv, Clocks, IInv, TypeOK
    <2>2. \A r \in Rules : watermarks[r] \in Nat /\ watermarks[r] <= epoch
      BY DEF LoopInv, Clocks
    <2>3. epoch \in Nat
      BY <1>3, BoundsAssumption DEF IInv, TypeOK
    <2> QED BY <1>1, <1>2, <2>1, <2>2, <2>3 DEF Clocks
  <1>10. Queues'
    BY <1>1, RulesAssumption DEF LoopInv, Queues, Consumes, Idle
  <1>11. Delivered'
    <2> SUFFICES ASSUME NEW r \in Rules, NEW d \in live,
                        recipe[d].table \in Reads(r), stamp[d] >= watermarks'[r]
                 PROVE  d \in queue'[r]
      BY <1>2, <1>3 DEF Delivered, Arriving, Recent, Reads
    <2>1. stamp[d] \in Int /\ stamp[d] <= epoch
      BY <1>3, BoundsAssumption DEF LoopInv, Clocks, IInv, TypeOK
    <2>2. r \notin ran
      BY <1>1, <1>7, <2>1
    <2>3. Recent(r, d)
      BY <1>1, <2>2 DEF Recent
    <2> QED BY <1>1, <1>3, <2>2, <2>3 DEF LoopInv, Delivered, Arriving
  <1>12. Caught'
    <2> SUFFICES ASSUME NEW r \in Rules, NEW w \in Witnesses(r)',
                        \A i \in DOMAIN w : Old(r, w[i])'
                 PROVE  \E old \in consumed'[r] : CanonEnv(old)' = Env(r, w)'
      BY <1>1 DEF Caught
    <2>1. w \in Witnesses(r) /\ Env(r, w)' = Env(r, w)
      BY <1>2, MatchesSame
    <2>2. PICK e : e = Env(r, w)
      OBVIOUS
    <2>3. CanonEnv(e) = e
      BY <1>3, <2>1, <2>2, EnvCanonical DEF IInv
    <2>4. e \in Found(r) \/ \E old \in consumed[r] : CanonEnv(old) = e
      BY <1>3, <2>1, <2>2, FoundOrCaught DEF LoopInv
    <2>5. ASSUME r \notin ran PROVE \E old \in consumed[r] : CanonEnv(old) = e
      <3>1. \A i \in DOMAIN w : Old(r, w[i])
        BY <1>1, <1>2, <2>5 DEF Old, Recent
      <3> QED BY <2>1, <2>2, <3>1 DEF LoopInv, Caught
    <2>6. \E old \in consumed'[r] : CanonEnv(old) = e
      BY <1>1, <1>6, <2>3, <2>4, <2>5
    <2> QED BY <1>2, <2>1, <2>2, <2>6, MatchesSame
  <1> QED BY <1>4, <1>8, <1>9, <1>10, <1>11, <1>12 DEF LoopInv
(* A step of a Run that moves rows as above and only makes new classes.     *)
LEMMA RunStepInv ==
    ASSUME LoopInv, IInv', RowsMove, Typed', ~ BetweenRuns, ~ BetweenRuns',
           UNCHANGED <<dirtyRules, queue, watermarks, consumed>>
    PROVE  LoopInv'
  BY MoveKeeps DEF LoopInv

(* The next binding of the Run, or its next rule, is taken.                 *)
LEMMA BeginApplyInv == ASSUME LoopInv, BeginApply PROVE LoopInv'
  <1>1. /\ phase = "rhs" /\ frame = <<>>
        /\ \/ NextRule /\ UNCHANGED frame
           \/ \E env \in Bindings : NextBinding(env) /\ BeginFrame(Head(left), env)
        /\ UNCHANGED <<vars, loading, dirtyRules, queue, watermarks, consumed>>
    BY DEF BeginApply, matchVars
  <1>2. IInv
    BY DEF LoopInv
  <1>3. UNCHANGED <<root, nextFact, recipe, live, hidden, stamp, dirty, epoch, events,
                    phase>>
    BY <1>1 DEF vars, unionVars, rowVars
  <1>4. RowsMove
    BY <1>2, <1>3, QuietMoves
  <1>5. IInv'
    <2>1. TypeOK'
      BY <1>1, <1>2 DEF IInv, TypeOK, Made, vars, unionVars, indexVars, rowVars
    <2> QED BY <1>1, <1>2, <2>1, FrameInv
            DEF vars, unionVars, indexVars, rowVars, IInv, QuietOutsideRepair
  <1>6. /\ left \in Seq(Rules) /\ DOMAIN work = Rules
        /\ \A r \in Rules : \A env \in work[r] : Binds(env, QueryClasses(r))
    BY DEF LoopInv, Typed, WorkTyped
  <1>7. Typed'
    <2>1. Loading'
      BY <1>1, <1>3 DEF LoopInv, Typed, Loading
    <2>2. \A r \in Rules : \A env : Binds(env, QueryClasses(r))' <=> Binds(env, QueryClasses(r))
      BY <1>3 DEF Binds, Made
    <2>3. CASE NextRule /\ UNCHANGED frame
      <3>1. left' \in Seq(Rules) /\ work' = work
        BY <2>3, <1>6, HeadTailProperties DEF NextRule
      <3>2. WorkTyped'
        BY <3>1, <2>2, <1>6 DEF WorkTyped
      <3>3. FrameTyped'
        BY <1>1, <2>3 DEF FrameTyped
      <3> QED BY <2>1, <3>2, <3>3 DEF Typed
    <2>4. ASSUME NEW env, NextBinding(env), BeginFrame(Head(left), env) PROVE Typed'
      <3>0. PICK h : h = Head(left)
        OBVIOUS
      <3>1. h \in Rules /\ env \in work[h]
        BY <2>4, <3>0, <1>6, HeadTailProperties DEF NextBinding
      <3>2. left' = left /\ work' = [work EXCEPT ![h] = @ \ {env}]
        BY <2>4, <3>0 DEF NextBinding
      <3>3. frame' = FrameOf(h, 1, env)
        BY <2>4, <3>0 DEF BeginFrame, FrameOf
      <3>4. DOMAIN work' = Rules /\ \A r \in Rules : work'[r] \subseteq work[r]
        BY <1>6, <3>2
      <3>5. WorkTyped'
        BY <1>6, <2>2, <3>2, <3>4 DEF WorkTyped
      <3>6. 1 \in DOMAIN Body[h] /\ ClassSlots(h, 1) = QueryClasses(h)
        <4>1. Body[h] \in Seq(Range(Body[h])) /\ Body[h] # <<>>
          BY <3>1, RulesAssumption DEF ValidRule
        <4>2. DOMAIN Body[h] = 1..Len(Body[h]) /\ Len(Body[h]) \in Nat \ {0}
          BY <4>1, LenProperties, EmptySeq
        <4>3. \A i \in ClassLets(h) : ~ (i < 1)
          BY <4>2 DEF ClassLets
        <4> QED BY <4>2, <4>3 DEF ClassSlots
      <3>7. Binds(env, ClassSlots(h, 1))'
        <4>1. Binds(env, ClassSlots(h, 1))
          BY <3>1, <3>6, <1>6
        <4> QED BY <4>1, <1>3 DEF Binds, Made
      <3>8. FrameTyped'
        BY <3>1, <3>3, <3>6, <3>7 DEF FrameTyped
      <3> QED BY <2>1, <3>5, <3>8 DEF Typed
    <2> QED BY <1>1, <2>3, <2>4
  <1> QED BY <1>1, <1>3, <1>4, <1>5, <1>7, RunStepInv DEF BetweenRuns

(* The effects are done.                                                    *)
LEMMA EndEffectsInv == ASSUME LoopInv, EndEffects PROVE LoopInv'
  <1>1. /\ BeginRepair
        /\ UNCHANGED <<loading, dirtyRules, queue, watermarks, left, work, frame, consumed>>
    BY DEF EndEffects, matchVars, applyVars
  <1>2. /\ UNCHANGED <<root, nextFact, recipe, live, hidden, stamp, dirty, epoch, events>>
        /\ phase = "rhs" /\ phase' = "repair"
    BY <1>1 DEF BeginRepair, unionVars, rowVars
  <1>3. IInv /\ IInv'
    BY <1>1, BeginRepairInv DEF LoopInv
  <1>4. RowsMove
    BY <1>2, <1>3, QuietMoves
  <1>5. Typed'
    <2>1. Made' = Made /\ Loading'
      BY <1>1, <1>2 DEF Made, LoopInv, Typed, Loading
    <2> QED BY <1>1, <2>1, TypedStays DEF LoopInv
  <1> QED BY <1>1, <1>2, <1>3, <1>4, <1>5, RunStepInv DEF BetweenRuns

(* One step of repair.                                                      *)
LEMMA RepairRunInv == ASSUME LoopInv, RepairRun PROVE LoopInv'
  <1>1. /\ ApplyUnion \/ \E f \in FactRefs : RepairFact(f)
        /\ UNCHANGED <<loading, dirtyRules, queue, watermarks, left, work, frame, consumed>>
    BY DEF RepairRun, matchVars, applyVars
  <1>2. IInv
    BY DEF LoopInv
  <1>3. /\ IInv' /\ RowsMove
        /\ phase = "repair" /\ phase' = "repair" /\ nextFact' = nextFact
    <2>1. CASE ApplyUnion
      BY <1>2, <2>1, ApplyUnionInv, UnionMoves DEF ApplyUnion
    <2>2. ASSUME NEW f \in FactRefs, RepairFact(f)
          PROVE  /\ IInv' /\ RowsMove
                 /\ phase = "repair" /\ phase' = "repair" /\ nextFact' = nextFact
      BY <1>2, <2>2, RepairFactInv, RepairMoves DEF RepairFact, NextDirty
    <2> QED BY <1>1, <2>1, <2>2
  <1>4. Typed'
    <2>1. Made' = Made /\ Loading'
      BY <1>1, <1>3 DEF Made, LoopInv, Typed, Loading
    <2> QED BY <1>1, <2>1, TypedStays DEF LoopInv
  <1> QED BY <1>1, <1>3, <1>4, RunStepInv DEF BetweenRuns

(* The Run is published: what changed is queued for the rules that read it. *)
LEMMA PublishRunInv == ASSUME LoopInv, PublishRun PROVE LoopInv'
  <1>1. /\ Publish /\ queue' = DeliverTo(queue) /\ dirtyRules' = dirtyRules \cup Notified
        /\ UNCHANGED <<watermarks, loading, left, work, frame, consumed>>
    BY DEF PublishRun, applyVars
  <1>2. /\ UNCHANGED <<root, nextFact, recipe, live, hidden, stamp, dirty, epoch, events>>
        /\ phase = "repair" /\ phase' = "idle"
    BY <1>1 DEF Publish, unionVars, rowVars
  <1>3. IInv /\ IInv'
    BY <1>1, PublishInv DEF LoopInv
  <1>4. ~ loading /\ ~ BetweenRuns /\ BetweenRuns'
    BY <1>1, <1>2 DEF LoopInv, Typed, Loading, BetweenRuns
  <1>5. Typed'
    <2>1. Made' = Made /\ Loading'
      BY <1>1, <1>2, <1>4 DEF Made, Loading
    <2> QED BY <1>1, <2>1, TypedStays DEF LoopInv
  <1>6. Clocks'
    BY <1>1, <1>2 DEF LoopInv, Clocks
  <1>7. Queues'
    <2>1. DOMAIN queue' = Rules
      BY <1>1 DEF DeliverTo
    <2>2. ASSUME NEW r \in Seminaive \ dirtyRules' PROVE queue'[r] = {}
      <3>1. r \in Rules /\ r \notin Notified /\ queue[r] = {}
        BY <1>1, <2>2, RulesAssumption DEF LoopInv, Queues
      <3>2. {d \in events \cap live : recipe[d].table \in Reads(r)} = {}
        BY <3>1 DEF Notified
      <3> QED BY <1>1, <3>1, <3>2 DEF DeliverTo
    <2> QED BY <2>1, <2>2 DEF Queues
  <1>8. Delivered'
    <2> SUFFICES ASSUME NEW r \in Rules, NEW d \in live,
                        recipe[d].table \in Reads(r), Recent(r, d)
                 PROVE  d \in queue'[r]
      BY <1>1, <1>2, <1>4 DEF Delivered, Arriving, Recent, Reads
    <2>1. d \in queue[r] \cup events
      BY DEF LoopInv, Delivered, Arriving
    <2> QED BY <2>1, <1>1 DEF DeliverTo
  <1>9. Caught'
    <2>1. RowsMove
      BY <1>2, <1>3, QuietMoves
    <2> QED BY <1>1, <1>3, <2>1, MoveCaught DEF LoopInv
  <1> QED BY <1>3, <1>5, <1>6, <1>7, <1>8, <1>9 DEF LoopInv
------------------------------------------------------------------------------
(* What resume rebuilds is what the indexes held, up to the canonical form  *)
(* a row is filed and subscribed under.                                     *)
LEMMA ResumeIndexes == ASSUME IInv, Resume PROVE IInv'
  <1> DEFINE bucket == [f \in live |-> HashOf(Row(f).table, Row(f).key)]
             refs == [d \in live |-> Refs(Row(d))]
  <1>1. /\ BetweenRuns
        /\ bucketOf' = [f \in FactRefs |-> IF f \in live THEN bucket[f] ELSE bucketOf[f]]
        /\ intern' = [h \in Hashes |-> {f \in live \cap FactRefs : bucket[f] = h}]
        /\ dependencies' = [d \in Dependency |-> IF d \in live THEN refs[d] ELSE {}]
        /\ uses' = [i \in Ids |-> {d \in live : i \in refs[d]}]
        /\ dirty' = {} /\ pending' = <<>> /\ events' = live
        /\ UNCHANGED <<root, nextFact, recipe, live, hidden, stamp, changed, epoch, phase>>
    BY DEF Resume, Rebuild
  <1>2. /\ TypeOK /\ dirty = {} /\ live \subseteq Dependency
    BY <1>1 DEF IInv, TypeOK, BetweenRuns, QuietOutsideRepair
  <1>3. /\ \A f \in live : bucket[f] = HashOf(Row(f).table, Row(f).key)
        /\ \A d \in live : refs[d] = Refs(Row(d))
    OBVIOUS
  <1> HIDE DEF bucket, refs
  <1>4. ASSUME NEW d \in live
        PROVE  /\ \A i \in Ids : i \in refs[d] <=> \E x \in Refs(recipe[d]) : root[x] = i
               /\ \A i \in Ids : i \in refs[d] <=> \E x \in refs[d] : root[x] = i
               /\ refs[d] \subseteq Ids
    <2>1. d \in DOMAIN recipe
      BY <1>2 DEF TypeOK
    <2>2. \A i \in Ids : i \in refs[d] <=> \E x \in Refs(recipe[d]) : root[x] = i
      BY <1>2, <1>3, <2>1, RefsOfRow
    <2>3. refs[d] \subseteq Ids /\ Refs(recipe[d]) \subseteq Ids
      BY <1>3 DEF Refs
    <2>4. \A i \in refs[d] : root[i] = i
      BY <2>2, <2>3 DEF IInv, RootIsOldest
    <2> QED BY <2>2, <2>3, <2>4
  <1>5. ASSUME NEW f \in live \cap FactRefs PROVE bucket[f] \in Hashes
    <2>1. f \in DOMAIN recipe
      BY <1>2 DEF TypeOK
    <2> DEFINE k == recipe[f].key
               n == Arity[recipe[f].table]
    <2>2. k \in [1..n -> Made] /\ recipe[f].table \in Tables
      BY <1>2, <2>1 DEF TypeOK
    <2>3. Made \subseteq Ids
      BY <1>2, Numbering DEF TypeOK, Made
    <2>4. CanonKey(k) \in [1..n -> Ids]
      BY <1>2, <2>2, <2>3 DEF TypeOK, CanonKey, Canon
    <2>5. Row(f).table = recipe[f].table /\ Row(f).key = CanonKey(k)
      BY DEF Row
    <2> QED BY <1>3, <2>2, <2>4, <2>5, HashAssumption DEF Keys
  <1>6. TypeOK'
    <2>1. Made' = Made
      BY <1>1 DEF Made
    <2>2. bucketOf' \in [FactRefs -> Hashes]
      BY <1>1, <1>2, <1>5 DEF TypeOK
    <2>3. intern' \in [Hashes -> SUBSET FactRefs]
      BY <1>1
    <2>4. uses' \in [Ids -> SUBSET Dependency]
      BY <1>1, <1>2
    <2>5. dependencies' \in [Dependency -> SUBSET Ids]
      BY <1>1, <1>4
    <2>6. pending' \in Seq(Made' \X Made')
      BY <1>1
    <2>7. dirty' \subseteq Dependency /\ events' \subseteq Dependency
      BY <1>1, <1>2
    <2> QED BY <1>1, <1>2, <2>1, <2>2, <2>3, <2>4, <2>5, <2>6, <2>7 DEF TypeOK
  <1>7. RootIsOldest' /\ UnmadeAlone'
    BY <1>1 DEF IInv, RootIsOldest, UnmadeAlone, Made
  <1>8. UsesExact'
    BY <1>1, <1>4 DEF UsesExact
  <1>9. Covers'
    BY <1>1, <1>4 DEF Covers, Refs
  <1>10. Filed'
    BY <1>1 DEF Filed
  <1>11. CleanIndexed'
    <2>1. ASSUME NEW f \in live \cap FactRefs
          PROVE  /\ bucketOf'[f] = HashOf(Row(f).table, Row(f).key)'
                 /\ f \in intern'[bucketOf'[f]]
      <3>1. bucketOf'[f] = bucket[f] /\ f \in intern'[bucket[f]]
        BY <1>1, <1>5
      <3>2. HashOf(Row(f).table, Row(f).key)' = HashOf(Row(f).table, Row(f).key)
        BY <1>1 DEF Row, CanonKey, Canon
      <3> QED BY <3>1, <3>2, <1>3
    <2> QED BY <1>1, <2>1 DEF CleanIndexed
  <1>12. CleanUnique'
    BY <1>1, <1>2 DEF IInv, CleanUnique, SameKey, CanonKey, Canon
  <1>13. DirtyLive' /\ QuietOutsideRepair'
    BY <1>1 DEF DirtyLive, QuietOutsideRepair
  <1> QED BY <1>6, <1>7, <1>8, <1>9, <1>10, <1>11, <1>12, <1>13 DEF IInv

(* A resumed process has every row on its way to every rule.                *)
LEMMA ResumeInv == ASSUME LoopInv, Resume PROVE LoopInv'
  <1>1. /\ BetweenRuns /\ dirty' = {} /\ events' = live
        /\ dirtyRules' = Rules /\ queue' = [r \in Rules |-> Restored(r)]
        /\ UNCHANGED <<root, nextFact, recipe, live, hidden, stamp, epoch, phase,
                       loading, watermarks, left, work, frame, consumed>>
    BY DEF Resume, Rebuild, applyVars
  <1>2. IInv /\ IInv' /\ dirty = {}
    BY <1>1, ResumeIndexes DEF LoopInv, IInv, QuietOutsideRepair, BetweenRuns
  <1>3. Typed'
    <2>1. Made' = Made /\ Loading'
      BY <1>1 DEF Made, Loading, BetweenRuns
    <2> QED BY <1>1, <2>1, TypedStays DEF LoopInv
  <1>4. Clocks'
    BY <1>1 DEF LoopInv, Clocks
  <1>5. Queues'
    BY <1>1, RulesAssumption DEF Queues
  <1>6. Delivered'
    BY <1>1 DEF Delivered, Arriving, Restored, BetweenRuns, Recent, Reads
  <1>7. Caught'
    <2> SUFFICES ASSUME NEW r \in Rules, NEW w \in Witnesses(r)',
                        \A i \in DOMAIN w : Old(r, w[i])'
                 PROVE  \E old \in consumed[r] : CanonEnv(old)' = Env(r, w)'
      BY <1>1 DEF LoopInv, Caught
    <2>1. \A i \in DOMAIN w : Old(r, w[i])
      BY <1>1, <1>2 DEF Old, Recent
    <2>2. w \in Witnesses(r) /\ Env(r, w)' = Env(r, w)
      BY <1>1, MatchesSame
    <2>3. PICK old \in consumed[r] : CanonEnv(old) = Env(r, w)
      BY <2>1, <2>2 DEF LoopInv, Caught
    <2>4. CanonEnv(old)' = CanonEnv(old)
      BY <1>1, MatchesSame
    <2> QED BY <2>2, <2>3, <2>4
  <1> QED BY <1>2, <1>3, <1>4, <1>5, <1>6, <1>7 DEF LoopInv

(* ... and finds what the process it replaces would have found.             *)
LEMMA ResumeFinds ==
    ASSUME LoopInv, Resume, NEW r \in Rules
    PROVE  Found(r)' = Found(r)
  <1>1. /\ BetweenRuns
        /\ dirtyRules' = Rules /\ queue' = [q \in Rules |-> Restored(q)]
        /\ UNCHANGED <<root, recipe, live, hidden, stamp, watermarks>>
    BY DEF Resume, Rebuild
  <1>2. /\ Witnesses(r)' = Witnesses(r)
        /\ \A w : Env(r, w)' = Env(r, w)
        /\ JoinsEmptyTable(r)' = JoinsEmptyTable(r)
    BY <1>1, MatchesSame
  <1>3. ASSUME NEW w \in Witnesses(r) PROVE Pivots(r, w)' = Pivots(r, w)
    <2>1. \A p : Owns(w, p)' <=> Owns(w, p)
      BY <1>1 DEF Owns, Later
    <2>2. ASSUME NEW p \in DOMAIN w PROVE w[p] \in Delta(r)' <=> w[p] \in Delta(r)
      <3>1. w[p] \in live \ hidden /\ recipe[w[p]].table \in Reads(r)
        BY WitnessIs, QueryShape
      <3>2. w[p] \in queue'[r]
        BY <1>1, <3>1 DEF Restored
      <3>3. Recent(r, w[p]) => w[p] \in queue[r]
        BY <1>1, <3>1 DEF LoopInv, Delivered, Arriving
      <3>4. Recent(r, w[p])' <=> Recent(r, w[p])
        BY <1>1 DEF Recent
      <3> QED BY <1>1, <3>1, <3>2, <3>3, <3>4 DEF Delta
    <2> QED BY <2>1, <2>2 DEF Pivots
  <1>4. DeltaBindings(r)' = DeltaBindings(r)
    BY <1>2, <1>3 DEF DeltaBindings
  <1>5. AllBindings(r)' = AllBindings(r)
    BY <1>2 DEF AllBindings
  <1>6. ~ Idle(r)'
    BY <1>1 DEF Idle
  <1>7. CASE ~ Idle(r)
    BY <1>2, <1>4, <1>5, <1>6, <1>7 DEF Found
  <1>8. CASE Idle(r)
    <2>1. r \in Seminaive /\ queue[r] = {}
      BY <1>8 DEF Idle, LoopInv, Queues
    <2>2. DeltaBindings(r) = {}
      BY <2>1 DEF DeltaBindings, Pivots, Delta
    <2> QED BY <1>2, <1>4, <1>6, <1>8, <2>1, <2>2 DEF Found
  <1> QED BY <1>7, <1>8
------------------------------------------------------------------------------
(* The k-th operation of rule r is next, with these slots bound.            *)
Doing(r, k, env) ==
    /\ r \in Rules /\ k \in DOMAIN Body[r]
    /\ frame = FrameOf(r, k, env)
    /\ Binds(env, ClassSlots(r, k))

(* What every effect does: the graph stays sound, rows move as above and no *)
(* class disappears.                                                        *)
Effected == IInv' /\ RowsMove /\ Made \subseteq Made' /\ phase' = phase

(* The operation that is next, as validate() accepted it.                   *)
LEMMA DoingIs ==
    ASSUME NEW r, NEW k, NEW env, Doing(r, k, env)
    PROVE  /\ Now.rule = r /\ Now.op = k /\ Now.env = env
           /\ Op = Body[r][k]
           /\ Len(Body[r]) \in Nat /\ k \in 1..Len(Body[r])
           /\ DOMAIN Body[r] = 1..Len(Body[r])
           /\ ValidOp(Op, ClassSlots(r, k), ClassSlots(r, Len(Body[r]) + 1))
  <1>1. Now = [rule |-> r, op |-> k, env |-> env]
    BY DEF Doing, FrameOf, Now
  <1>2. Now.rule = r /\ Now.op = k /\ Now.env = env
    BY <1>1
  <1>3. Op = Body[r][k]
    BY <1>2 DEF Op
  <1>4. /\ Body[r] \in Seq(Range(Body[r]))
        /\ ValidOp(Body[r][k], ClassSlots(r, k), ClassSlots(r, Len(Body[r]) + 1))
    BY RulesAssumption DEF Doing, ValidRule
  <1>5. DOMAIN Body[r] = 1..Len(Body[r]) /\ Len(Body[r]) \in Nat
    BY <1>4, LenProperties
  <1> QED BY <1>2, <1>3, <1>4, <1>5 DEF Doing

(* A slot that holds a class is read as its root.                           *)
LEMMA ArgIs ==
    ASSUME IInv, NEW r, NEW k, NEW env, Doing(r, k, env), NEW x \in ClassSlots(r, k)
    PROVE  Arg(x) \in Roots /\ Arg(x) \in Made
  <1>1. env[x] \in Made /\ Now.env = env
    BY DoingIs DEF Doing, Binds
  <1>2. env[x] \in Ids /\ root[env[x]] \in Made /\ root[root[env[x]]] = root[env[x]]
    BY <1>1, RootOfMade DEF IInv
  <1> QED BY <1>1, <1>2 DEF Arg, Canon, Roots

(* So is a key.                                                             *)
LEMMA KeyIs ==
    ASSUME IInv, NEW r, NEW k, NEW env, Doing(r, k, env), Op.op # "union"
    PROVE  /\ Op.table \in Virtual
           /\ KeyOf(Op.args) \in [1..Arity[Op.table] -> Roots]
  <1>1. /\ Op.table \in Virtual
        /\ DOMAIN Op.args = 1..Arity[Op.table]
        /\ Range(Op.args) \subseteq ClassSlots(r, k)
    BY DoingIs DEF ValidOp
  <1>2. \A i \in DOMAIN Op.args : Arg(Op.args[i]) \in Roots
    BY <1>1, ArgIs DEF Range
  <1> QED BY <1>1, <1>2 DEF KeyOf

(* Only a let of a constructor adds a slot that holds a class.              *)
LEMMA SlotsGrow ==
    ASSUME NEW r, NEW k, NEW env, Doing(r, k, env)
    PROVE  /\ ClassSlots(r, k) \subseteq ClassSlots(r, k + 1)
           /\ ClassSlots(r, k + 1) \subseteq ClassSlots(r, Len(Body[r]) + 1)
           /\ IF Op.op = "let" /\ Op.table \in Constructors
                THEN ClassSlots(r, k + 1) = ClassSlots(r, k) \cup {Op.dst}
                ELSE ClassSlots(r, k + 1) = ClassSlots(r, k)
  <1> DEFINE L == ClassLets(r)
             n == Len(Body[r])
  <1>1. L \subseteq 1..n /\ k \in 1..n /\ n \in Nat
    BY DoingIs DEF ClassLets
  <1>2. k \in L <=> Op.op = "let" /\ Op.table \in Constructors
    BY DoingIs DEF ClassLets
  <1>3. Op = Body[r][k]
    BY DoingIs
  <1>4. \A j \in L : /\ j < k + 1 <=> j < k \/ j = k
                     /\ j < n + 1
    BY <1>1
  <1> HIDE DEF L, n
  <1>5. \A m : ClassSlots(r, m) = QueryClasses(r) \cup {Body[r][j].dst : j \in {i \in L : i < m}}
    BY DEF ClassSlots, L
  <1>6. ClassSlots(r, k) \subseteq ClassSlots(r, k + 1)
    BY <1>4, <1>5
  <1>7. ClassSlots(r, k + 1) \subseteq ClassSlots(r, n + 1)
    BY <1>4, <1>5
  <1>8. CASE k \in L
    <2>1. {i \in L : i < k + 1} = {i \in L : i < k} \cup {k}
      BY <1>1, <1>4, <1>8
    <2>2. ClassSlots(r, k + 1) = ClassSlots(r, k) \cup {Op.dst}
      BY <1>3, <1>5, <2>1
    <2> QED BY <1>2, <1>6, <1>7, <1>8, <2>2 DEF n
  <1>9. CASE k \notin L
    <2>1. {i \in L : i < k + 1} = {i \in L : i < k}
      BY <1>4, <1>9
    <2>2. ClassSlots(r, k + 1) = ClassSlots(r, k)
      BY <1>5, <2>1
    <2> QED BY <1>2, <1>6, <1>7, <1>9, <2>2 DEF n
  <1> QED BY <1>8, <1>9

(* The binding goes on well sorted.                                         *)
LEMMA ContinueTyped ==
    ASSUME NEW r, NEW k, NEW env, Doing(r, k, env), NEW e, Continue(e),
           \A x \in ClassSlots(r, k + 1) : x \in DOMAIN e /\ e[x] \in Made'
    PROVE  FrameTyped'
  <1>1. /\ r \in Rules /\ k \in 1..Len(Body[r]) /\ Len(Body[r]) \in Nat
        /\ DOMAIN Body[r] = 1..Len(Body[r])
    BY DoingIs DEF Doing
  <1>2. Now.rule = r /\ Now.op = k
    BY DoingIs
  <1>3. frame' = IF k = Len(Body[r]) THEN <<>> ELSE FrameOf(r, k + 1, e)
    BY <1>2 DEF Continue
  <1>4. CASE k = Len(Body[r])
    BY <1>3, <1>4 DEF FrameTyped
  <1>5. CASE k # Len(Body[r])
    <2>1. frame' = FrameOf(r, k + 1, e)
      BY <1>3, <1>5
    <2>2. k + 1 \in DOMAIN Body[r]
      BY <1>1, <1>5
    <2>3. Binds(e, ClassSlots(r, k + 1))'
      BY DEF Binds
    <2> QED BY <1>1, <2>1, <2>2, <2>3 DEF FrameTyped
  <1> QED BY <1>4, <1>5
(* A fact is written.                                                       *)
LEMMA ActivateEffected ==
    ASSUME IInv, NEW t \in Virtual, NEW key \in [1..Arity[t] -> Roots],
           NEW v \in Roots \cup {FreshValue(t)}, NEW hide \in BOOLEAN,
           phase = "rhs", Activate(t, key, v, hide)
    PROVE  Effected /\ (t \in Constructors => FreshValue(t) \in Made')
  <1>1. IInv'
    BY ActivateRootsInv
  <1>2. RowsMove
    BY ActivateMoves
  <1>3. nextFact' = nextFact + 1 /\ phase' = phase /\ nextFact \in Nat
    BY BoundsAssumption DEF Activate, IInv, TypeOK
  <1>4. Made \subseteq Made' /\ ClassOf(nextFact + 1) \in Made'
    BY <1>3, BoundsAssumption DEF Made, ClassOf
  <1> QED BY <1>1, <1>2, <1>3, <1>4 DEF Effected, FreshValue

(* Two classes are to be united.                                            *)
LEMMA RequestEffected ==
    ASSUME IInv, NEW a \in Made, NEW b \in Made, RequestUnion(a, b)
    PROVE  Effected
  <1>1. IInv'
    BY RequestUnionInv
  <1>2. /\ UNCHANGED <<root, nextFact, recipe, live, hidden, stamp, dirty, epoch, events,
                       phase>>
    BY DEF RequestUnion, rowVars
  <1> QED BY <1>1, <1>2, QuietMoves DEF Effected, Made

(* Nothing happens to the graph.                                            *)
LEMMA StutterEffected ==
    ASSUME IInv, UNCHANGED vars
    PROVE  Effected
  <1> USE DEF vars, unionVars, indexVars, rowVars
  <1>1. TypeOK'
    BY DEF IInv, TypeOK, Made
  <1>2. IInv'
    BY <1>1, FrameInv DEF IInv, QuietOutsideRepair
  <1> QED BY <1>2, QuietMoves DEF Effected, Made

(* let: the row's value, old or new, fills a slot.                          *)
LEMMA LetInv ==
    ASSUME IInv, NEW r, NEW k, NEW env, Doing(r, k, env), phase = "rhs", ApplyLet
    PROVE  Effected /\ FrameTyped'
  <1> DEFINE t == Op.table
             key == KeyOf(Op.args)
             Bound(v) == Put(env, Op.dst, v)
  <1>1. /\ Op.op = "let"
        /\ \/ Construct(t, key) /\ Bind(FreshValue(t))
           \/ \E f \in FactRefs : Hit(key, f) /\ Bind(Row(f).value) /\ UNCHANGED vars
    BY DEF ApplyLet
  <1>2. t \in Virtual /\ key \in [1..Arity[t] -> Roots]
    BY <1>1, KeyIs
  <1>3. t \in Relations => Op.dst \notin ClassSlots(r, k + 1)
    BY <1>1, DoingIs, SlotsGrow DEF ValidOp
  <1>4. t \notin Constructors => t \in Relations
    BY <1>2 DEF Virtual
  <1>5. Now.env = env
    BY DoingIs
  <1>6. Binds(env, ClassSlots(r, k))
    BY DEF Doing
  <1> HIDE DEF t, key
  <1>7. ASSUME NEW v, Bind(v), t \in Constructors => v \in Made', Made \subseteq Made'
        PROVE  FrameTyped'
    <2>1. Continue(Bound(v))
      BY <1>5, <1>7 DEF Bind
    <2>2. ASSUME NEW x \in ClassSlots(r, k + 1)
          PROVE  x \in DOMAIN Bound(v) /\ Bound(v)[x] \in Made'
      <3>1. CASE t \in Constructors
        <4>1. x \in ClassSlots(r, k) \cup {Op.dst}
          BY <1>1, <3>1, SlotsGrow DEF t
        <4> QED BY <4>1, <3>1, <1>6, <1>7 DEF Put, Binds
      <3>2. CASE t \notin Constructors
        <4>1. x \in ClassSlots(r, k) /\ x # Op.dst
          BY <1>3, <1>4, <3>2, SlotsGrow DEF t
        <4> QED BY <4>1, <1>6, <1>7 DEF Put, Binds
      <3> QED BY <3>1, <3>2
    <2> HIDE DEF Bound
    <2> QED BY <2>1, <2>2, ContinueTyped
  <1>8. CASE Construct(t, key) /\ Bind(FreshValue(t))
    <2>1. Activate(t, key, FreshValue(t), FALSE)
      BY <1>8 DEF Construct
    <2>2. Effected /\ (t \in Constructors => FreshValue(t) \in Made')
      BY <1>2, <2>1, ActivateEffected
    <2> QED BY <1>7, <1>8, <2>2 DEF Effected
  <1>9. ASSUME NEW f \in FactRefs, Hit(key, f), Bind(Row(f).value), UNCHANGED vars
        PROVE  Effected /\ FrameTyped'
    <2>1. Effected
      BY <1>9, StutterEffected
    <2>2. f \in live /\ recipe[f].table = t
      BY <1>9 DEF Hit, First, Matching, t
    <2>3. t \in Constructors => Row(f).value \in Made
      BY <2>2, ValueOfRow DEF IInv, TypeOK
    <2>4. PICK v : v = Row(f).value
      OBVIOUS
    <2>5. Bind(v) /\ (t \in Constructors => v \in Made')
      BY <1>9, <2>1, <2>3, <2>4 DEF Effected
    <2> QED BY <2>1, <2>5, <1>7 DEF Effected
  <1> QED BY <1>1, <1>8, <1>9

(* The slots stay bound over an operation that binds none.                  *)
LEMMA ContinueSame ==
    ASSUME NEW r, NEW k, NEW env, Doing(r, k, env), Op.op # "let",
           Made \subseteq Made', Continue(Now.env)
    PROVE  FrameTyped'
  <1>1. Now.env = env /\ Binds(env, ClassSlots(r, k))
    BY DoingIs DEF Doing
  <1>2. ClassSlots(r, k + 1) = ClassSlots(r, k)
    BY SlotsGrow
  <1>3. \A x \in ClassSlots(r, k + 1) : x \in DOMAIN env /\ env[x] \in Made'
    BY <1>1, <1>2 DEF Binds
  <1> QED BY <1>1, <1>3, ContinueTyped

(* set: a row is written, or two values are to be united.                   *)
LEMMA SetInv ==
    ASSUME IInv, NEW r, NEW k, NEW env, Doing(r, k, env), phase = "rhs", ApplySet
    PROVE  Effected /\ FrameTyped'
  <1> DEFINE t == Op.table
             key == KeyOf(Op.args)
             value == Arg(Op.value)
  <1>1. /\ Op.op = "set"
        /\ IF t \in Constructors
             THEN SetFact(t, key, value) \/ SetExisting(t, key, value)
             ELSE SetFact(t, key, Unit) \/ UNCHANGED vars
        /\ Continue(Now.env)
    BY DEF ApplySet
  <1>2. t \in Virtual /\ key \in [1..Arity[t] -> Roots]
    BY <1>1, KeyIs
  <1>3. t \in Constructors => value \in Roots /\ value \in Made
    <2>1. t \in Constructors => Op.value \in ClassSlots(r, k)
      BY <1>1, DoingIs DEF ValidOp
    <2> QED BY <2>1, ArgIs
  <1> HIDE DEF t, key, value
  <1>4. Effected
    <2>1. CASE t \in Constructors /\ SetFact(t, key, value)
      BY <2>1, <1>2, <1>3, ActivateEffected DEF SetFact
    <2>2. CASE t \in Constructors /\ SetExisting(t, key, value)
      <3>1. PICK f \in FactRefs : First(f, Matching(t, key)) /\ RequestUnion(Row(f).value, value)
        BY <2>2 DEF SetExisting
      <3>2. f \in live /\ recipe[f].table = t
        BY <3>1 DEF First, Matching
      <3>3. Row(f).value \in Made
        BY <2>2, <3>2, ValueOfRow DEF IInv, TypeOK
      <3> QED BY <2>2, <3>1, <3>3, <1>3, RequestEffected
    <2>3. CASE t \notin Constructors /\ SetFact(t, key, Unit)
      BY <2>3, <1>2, ActivateEffected DEF SetFact, FreshValue
    <2>4. CASE UNCHANGED vars
      BY <2>4, StutterEffected
    <2> QED BY <1>1, <2>1, <2>2, <2>3, <2>4
  <1> QED BY <1>1, <1>4, ContinueSame DEF Effected

(* union.                                                                   *)
LEMMA UnionRequestInv ==
    ASSUME IInv, NEW r, NEW k, NEW env, Doing(r, k, env), ApplyUnionRequest
    PROVE  Effected /\ FrameTyped'
  <1>1. /\ Op.op = "union" /\ Continue(Now.env)
        /\ RequestUnion(Arg(Op.args[1]), Arg(Op.args[2]))
    BY DEF ApplyUnionRequest
  <1>2. Op.args[1] \in ClassSlots(r, k) /\ Op.args[2] \in ClassSlots(r, k)
    BY <1>1, DoingIs DEF ValidOp
  <1>3. Effected
    BY <1>1, <1>2, ArgIs, RequestEffected
  <1> QED BY <1>1, <1>3, ContinueSame DEF Effected

(* hide: the row goes, or is hidden; the binding ends when it is young.     *)
LEMMA HideInv ==
    ASSUME IInv, NEW r, NEW k, NEW env, Doing(r, k, env), phase = "rhs", ApplyHide
    PROVE  Effected /\ FrameTyped'
  <1> DEFINE t == Op.table
             key == KeyOf(Op.args)
  <1>1. /\ Op.op = "hide"
        /\ SubsumeFresh(t, key) \/ Delete(t, key) \/ Subsume(t, key) \/ UNCHANGED vars
        /\ Stop \/ Continue(Now.env)
    BY DEF ApplyHide
  <1>2. t \in Virtual /\ key \in [1..Arity[t] -> Roots]
    BY <1>1, KeyIs
  <1> HIDE DEF t, key
  <1>3. Effected
    <2>1. CASE SubsumeFresh(t, key)
      BY <2>1, <1>2, ActivateEffected DEF SubsumeFresh
    <2>2. CASE Delete(t, key)
      <3>1. nextFact' = nextFact /\ phase' = phase
        BY <2>2 DEF Delete
      <3> QED BY <2>2, <3>1, DeleteInv, DeleteMoves DEF Effected, Made
    <2>3. CASE Subsume(t, key)
      <3>1. nextFact' = nextFact /\ phase' = phase
        BY <2>3 DEF Subsume
      <3> QED BY <2>3, <3>1, SubsumeInv, SubsumeMoves DEF Effected, Made
    <2>4. CASE UNCHANGED vars
      BY <2>4, StutterEffected
    <2> QED BY <1>1, <2>1, <2>2, <2>3, <2>4
  <1>4. CASE Stop
    BY <1>3, <1>4 DEF Stop, FrameTyped
  <1>5. CASE Continue(Now.env)
    BY <1>1, <1>3, <1>5, ContinueSame DEF Effected
  <1> QED BY <1>1, <1>4, <1>5

(* One operation of the binding.                                            *)
LEMMA ApplyEffects == ASSUME LoopInv, Apply PROVE Effected /\ FrameTyped'
  <1>1. /\ phase = "rhs" /\ frame # <<>>
        /\ ApplyLet \/ ApplySet \/ ApplyUnionRequest \/ ApplyHide
    BY DEF Apply
  <1>2. PICK r \in Rules : \E k \in DOMAIN Body[r] : \E env :
          frame = FrameOf(r, k, env) /\ Binds(env, ClassSlots(r, k))
    BY <1>1 DEF LoopInv, Typed, FrameTyped
  <1>3. PICK k \in DOMAIN Body[r] : \E env :
          frame = FrameOf(r, k, env) /\ Binds(env, ClassSlots(r, k))
    BY <1>2
  <1>4. PICK env : frame = FrameOf(r, k, env) /\ Binds(env, ClassSlots(r, k))
    BY <1>3
  <1>5. Doing(r, k, env) /\ IInv
    BY <1>4 DEF Doing, LoopInv
  <1> QED BY <1>1, <1>5, LetInv, SetInv, UnionRequestInv, HideInv

(* ... keeps the loop's invariant.                                          *)
LEMMA ApplyInv == ASSUME LoopInv, Apply PROVE LoopInv'
  <1>1. /\ phase = "rhs"
        /\ UNCHANGED <<loading, dirtyRules, queue, watermarks, left, work, consumed>>
    BY DEF Apply, matchVars
  <1>2. Effected /\ FrameTyped'
    BY ApplyEffects
  <1>3. Loading'
    BY <1>1, <1>2 DEF LoopInv, Typed, Loading
  <1>4. WorkTyped'
    BY <1>1, <1>2 DEF LoopInv, Typed, WorkTyped, Binds, QueryClasses, ClassArgs, IsClass,
                      Effected
  <1> QED BY <1>1, <1>2, <1>3, <1>4, RunStepInv DEF Effected, Typed, BetweenRuns

(* A step that changes nothing.                                             *)
LEMMA LoopStutter == ASSUME LoopInv, UNCHANGED runLoopVars PROVE LoopInv'
  <1>1. /\ UNCHANGED vars
        /\ UNCHANGED <<root, nextFact, recipe, live, hidden, stamp, dirty, epoch, events, phase>>
        /\ UNCHANGED <<loading, dirtyRules, queue, watermarks, left, work, frame, consumed>>
    BY DEF runLoopVars, matchVars, applyVars, vars, unionVars, rowVars
  <1>2. Effected
    BY <1>1, StutterEffected DEF LoopInv
  <1>3. Typed'
    <2>1. Made \subseteq Made' /\ Loading'
      BY <1>1 DEF Made, LoopInv, Typed, Loading
    <2> QED BY <1>1, <2>1, TypedStays DEF LoopInv
  <1>4. Clocks' /\ Queues' /\ Delivered'
    BY <1>1 DEF LoopInv, Clocks, Queues, Delivered, Arriving, Recent, Reads, BetweenRuns
  <1>5. Caught'
    BY <1>1, <1>2, MoveCaught DEF LoopInv, Effected
  <1> QED BY <1>2, <1>3, <1>4, <1>5 DEF LoopInv, Effected

------------------------------------------------------------------------------
(* LoopInv holds in every state of the run loop.                            *)
THEOREM LoopInductive == SpecLoop => []LoopInv
  <1>1. InitLoop => LoopInv
    BY InitLoopInv
  <1>2. LoopInv /\ [NextLoop]_runLoopVars => LoopInv'
    <2> SUFFICES ASSUME LoopInv, [NextLoop]_runLoopVars PROVE LoopInv'
      OBVIOUS
    <2>1. CASE Load          BY <2>1, LoadInv
    <2>2. CASE EndLoad       BY <2>2, EndLoadInv
    <2>3. CASE \E set \in RuleSets : StartRun(set)
      BY <2>3, StartRunInv
    <2>4. CASE BeginApply    BY <2>4, BeginApplyInv
    <2>5. CASE Apply         BY <2>5, ApplyInv
    <2>6. CASE EndEffects    BY <2>6, EndEffectsInv
    <2>7. CASE RepairRun     BY <2>7, RepairRunInv
    <2>8. CASE PublishRun    BY <2>8, PublishRunInv
    <2>9. CASE Resume        BY <2>9, ResumeInv
    <2>10. CASE UNCHANGED runLoopVars
      BY <2>10, LoopStutter
    <2> QED BY <2>1, <2>2, <2>3, <2>4, <2>5, <2>6, <2>7, <2>8, <2>9, <2>10 DEF NextLoop
  <1> QED BY <1>1, <1>2, PTL DEF SpecLoop

(* Semi-naive matching loses no match: whenever a Run may start, every      *)
(* match of every rule was applied before or is found by the rule's next    *)
(* Run, in this process or in one that resumes from a checkpoint.           *)
THEOREM MatchesAreApplied == SpecLoop => []NoMatchLost
  BY LoopInductive, LoopInvLosesNone, PTL

(* ... and a match with a changed row is found from one row alone.          *)
THEOREM MatchesFoundOnce == SpecLoop => []DeltaPartition
  BY LoopInductive, LoopInvPartitions, PTL

(* Resuming from a checkpoint changes nothing a rule finds.                 *)
THEOREM ResumeIsInvisible == SpecLoop => ResumeConsumesSame
  <1>1. LoopInv => (Resume => \A r \in Rules : Found(r)' = Found(r))
    BY ResumeFinds
  <1>2. LoopInv => [Resume => \A r \in Rules : Found(r)' = Found(r)]_runLoopVars
    BY <1>1
  <1> QED BY <1>2, LoopInductive, PTL DEF ResumeConsumesSame

------------------------------------------------------------------------------
(* What may be on the stack.                                                *)
Evals == [task : {"eval"}, node : Nodes]
Loops == [task : {"repeat"}, body : Nodes, count : Nat, next : Nat, start : Nat]
           \cup [task : {"saturate"}, body : Nodes, start : Nat]
TaskSet == Evals \cup Loops

(* No task of the stack starts after the k-th step.                         *)
Started(stack, k) == \A n \in DOMAIN stack : stack[n].task # "eval" => stack[n].start <= k

(* The Run under way has an epoch and no step yet.                          *)
InStep ==
    /\ running = None <=> phase = "idle"
    /\ epoch = IF running = None THEN Len(steps) ELSE Len(steps) + 1

StackTyped ==
    /\ tasks \in Seq(TaskSet)
    /\ steps \in Seq([ruleset : RuleSets, changed : BOOLEAN])
    /\ running \in RuleSets \cup {None}
    /\ Started(tasks, Len(steps))

XInv == LoopInv /\ StackTyped /\ InStep

------------------------------------------------------------------------------
(* A list of nodes goes on the stack as tasks that have not started.        *)
LEMMA PushedTyped ==
    ASSUME NEW nodes \in Seq(Nodes), NEW k
    PROVE  Schedule!Pushed(nodes) \in Seq(TaskSet) /\ Started(Schedule!Pushed(nodes), k)
  <1> DEFINE n == Len(nodes)
             P == Schedule!Pushed(nodes)
  <1>1. n \in Nat /\ \A i \in 1..n : n + 1 - i \in 1..n
    OBVIOUS
  <1>2. P = [i \in 1..n |-> [task |-> "eval", node |-> nodes[n + 1 - i]]]
    BY DEF Schedule!Pushed, Schedule!Eval
  <1>3. \A i \in 1..n : P[i] \in Evals /\ P[i].task = "eval"
    <2>1. \A i \in 1..n : nodes[n + 1 - i] \in Nodes
      BY <1>1
    <2> QED BY <1>2, <2>1 DEF Evals
  <1> HIDE DEF P
  <1>4. P \in [1..n -> TaskSet]
    BY <1>2, <1>3 DEF TaskSet
  <1>5. P \in Seq(TaskSet)
    BY <1>1, <1>4
  <1> QED BY <1>2, <1>3, <1>5 DEF P, Started

(* The stack without its top.                                               *)
LEMMA RestTyped ==
    ASSUME StackTyped, tasks # <<>>
    PROVE  /\ Schedule!Top \in TaskSet
           /\ Schedule!Rest \in Seq(TaskSet)
           /\ Started(Schedule!Rest, Len(steps))
           /\ Schedule!Top.task # "eval" => Schedule!Top.start <= Len(steps)
  <1> DEFINE n == Len(tasks)
  <1>1. tasks \in Seq(TaskSet) /\ n \in Nat \ {0} /\ DOMAIN tasks = 1..n
    BY LenProperties, EmptySeq DEF StackTyped
  <1>2. Schedule!Top = tasks[n] /\ n \in DOMAIN tasks
    BY <1>1 DEF Schedule!Top
  <1>3. /\ Schedule!Rest \in Seq(TaskSet)
        /\ DOMAIN Schedule!Rest = 1..(n - 1)
        /\ \A i \in 1..(n - 1) : Schedule!Rest[i] = tasks[i]
    BY <1>1 DEF Schedule!Rest
  <1>4. Started(tasks, Len(steps))
    BY DEF StackTyped
  <1>5. Started(Schedule!Rest, Len(steps))
    BY <1>1, <1>3, <1>4 DEF Started
  <1> QED BY <1>1, <1>2, <1>3, <1>4, <1>5 DEF Started

(* Stacks on top of each other.                                             *)
LEMMA StackedTyped ==
    ASSUME NEW s \in Seq(TaskSet), NEW t \in Seq(TaskSet), NEW k,
           Started(s, k), Started(t, k)
    PROVE  s \o t \in Seq(TaskSet) /\ Started(s \o t, k)
  <1>1. s \o t \in Seq(TaskSet)
    OBVIOUS
  <1>2. \A i \in DOMAIN (s \o t) : \/ i \in DOMAIN s /\ (s \o t)[i] = s[i]
                                   \/ i - Len(s) \in DOMAIN t /\ (s \o t)[i] = t[i - Len(s)]
    OBVIOUS
  <1> QED BY <1>1, <1>2 DEF Started

(* A task that starts now.                                                  *)
LEMMA OneTyped ==
    ASSUME NEW t \in TaskSet, NEW k, t.task # "eval" => t.start <= k
    PROVE  <<t>> \in Seq(TaskSet) /\ Started(<<t>>, k)
  BY DEF Started
(* One step of the interpreter.                                             *)
LEMMA InterpretTyped ==
    ASSUME StackTyped, Schedule!Interpret
    PROVE  StackTyped' /\ steps' = steps /\ running = None
  <1> DEFINE top == Schedule!Top
             rest == Schedule!Rest
             k == Len(steps)
  <1>1. /\ running = None /\ tasks # <<>>
        /\ steps' = steps
    BY DEF Schedule!Interpret, Schedule!EvalRun, Schedule!EvalProbe, Schedule!EvalSequence,
           Schedule!EvalRepeat, Schedule!EvalSaturate, Schedule!RepeatAgain,
           Schedule!SaturateAgain, Schedule!Evaluating, Schedule!Popping
  <1>2. /\ top \in TaskSet
        /\ rest \in Seq(TaskSet) /\ Started(rest, k)
        /\ top.task # "eval" => top.start <= k
    BY <1>1, RestTyped
  <1>3. k \in Nat /\ 0 \in Nat
    BY LenProperties DEF StackTyped
  <1>4. top.task = "eval" => top.node \in Nodes
    BY <1>2 DEF TaskSet, Evals, Loops
  <1>5. top.task \in {"repeat", "saturate"} => top \in Loops /\ top.body \in Nodes
    BY <1>2 DEF TaskSet, Evals, Loops
  <1>6. top.task = "repeat" => top.count \in Nat /\ top.next \in Nat
    BY <1>2 DEF TaskSet, Evals, Loops
  <1> HIDE DEF top, rest, k
  <1>7. ASSUME NEW b \in Nodes
        PROVE  /\ Schedule!Eval(b) \in TaskSet /\ Schedule!Eval(b).task = "eval"
               /\ Schedule!Saturate(b, k) \in TaskSet /\ Schedule!Saturate(b, k).start = k
               /\ \A c, x \in Nat : /\ Schedule!Repeat(b, c, x, k) \in TaskSet
                                    /\ Schedule!Repeat(b, c, x, k).start = k
    BY <1>3 DEF Schedule!Eval, Schedule!Saturate, Schedule!Repeat, TaskSet, Evals, Loops
  <1>8. ASSUME NEW t \in TaskSet, t.task # "eval" => t.start <= k
        PROVE  Append(rest, t) \in Seq(TaskSet) /\ Started(Append(rest, t), k)
    <2>1. Append(rest, t) = rest \o <<t>>
      BY <1>2
    <2>2. <<t>> \in Seq(TaskSet) /\ Started(<<t>>, k)
      BY <1>8, OneTyped
    <2> QED BY <1>2, <2>1, <2>2, StackedTyped
  <1>9. ASSUME NEW t \in TaskSet, NEW u \in TaskSet,
               t.task # "eval" => t.start <= k, u.task # "eval" => u.start <= k
        PROVE  rest \o <<t, u>> \in Seq(TaskSet) /\ Started(rest \o <<t, u>>, k)
    <2>1. <<t, u>> \in Seq(TaskSet)
      OBVIOUS
    <2>2. DOMAIN <<t, u>> = 1..2 /\ <<t, u>>[1] = t /\ <<t, u>>[2] = u
      OBVIOUS
    <2>3. Started(<<t, u>>, k)
      BY <1>9, <2>2 DEF Started
    <2> QED BY <1>2, <2>1, <2>3, StackedTyped
  <1>10. ASSUME tasks' \in Seq(TaskSet), Started(tasks', k),
                running' \in RuleSets \cup {None}
         PROVE  StackTyped'
    BY <1>1, <1>10 DEF StackTyped, k, Started
  <1>11. CASE Schedule!EvalRun
    <2>1. running' \in RuleSets
      BY <1>4, <1>11, ControlAssumption
         DEF Schedule!EvalRun, Schedule!Evaluating, Schedule!Popping, top
    <2> QED BY <1>1, <1>2, <1>10, <1>11, <2>1 DEF Schedule!EvalRun, rest
  <1>12. CASE Schedule!EvalProbe
    BY <1>1, <1>2, <1>10, <1>12 DEF Schedule!EvalProbe, rest
  <1>13. CASE Schedule!EvalSequence
    <2>1. top.node.children \in Seq(Nodes)
      BY <1>4, <1>13, ControlAssumption
         DEF Schedule!EvalSequence, Schedule!Evaluating, Schedule!Popping, top
    <2> DEFINE P == Schedule!Pushed(top.node.children)
    <2>2. P \in Seq(TaskSet) /\ Started(P, k)
      BY <2>1, PushedTyped
    <2>3. tasks' = rest \o P /\ running' = running
      BY <1>13 DEF Schedule!EvalSequence, top, rest
    <2> HIDE DEF P
    <2> QED BY <1>1, <1>2, <1>10, <2>2, <2>3, StackedTyped
  <1>14. CASE Schedule!EvalRepeat
    <2>1. top.node \in Nodes /\ top.node.op = "repeat"
      BY <1>4, <1>14 DEF Schedule!EvalRepeat, Schedule!Evaluating, Schedule!Popping, top
    <2> DEFINE t == Schedule!Repeat(top.node.body, top.node.count, 0, k)
    <2>2. t \in TaskSet /\ t.start = k
      BY <1>3, <1>7, <2>1, ControlAssumption
    <2>3. tasks' = Append(rest, t) \/ tasks' = rest
      BY <1>14 DEF Schedule!EvalRepeat, top, rest, k
    <2>4. running' = running
      BY <1>14 DEF Schedule!EvalRepeat
    <2> HIDE DEF t
    <2>6. Append(rest, t) \in Seq(TaskSet) /\ Started(Append(rest, t), k)
      BY <1>3, <1>8, <2>2
    <2>7. tasks' \in Seq(TaskSet) /\ Started(tasks', k)
      BY <1>2, <2>3, <2>6
    <2> QED BY <1>1, <1>10, <2>4, <2>7
  <1>15. CASE Schedule!EvalSaturate
    <2>1. top.node \in Nodes /\ top.node.op = "saturate"
      BY <1>4, <1>15 DEF Schedule!EvalSaturate, Schedule!Evaluating, Schedule!Popping, top
    <2> DEFINE t == Schedule!Saturate(top.node.body, k)
               u == Schedule!Eval(top.node.body)
    <2>2. t \in TaskSet /\ t.start = k /\ u \in TaskSet /\ u.task = "eval"
      BY <1>7, <2>1, ControlAssumption
    <2>3. tasks' = rest \o <<t, u>> /\ running' = running
      BY <1>15 DEF Schedule!EvalSaturate, top, rest, k
    <2> HIDE DEF t, u
    <2> QED BY <1>1, <1>3, <1>9, <1>10, <2>2, <2>3
  <1>16. CASE Schedule!RepeatAgain
    <2>1. top.task = "repeat"
      BY <1>16 DEF Schedule!RepeatAgain, Schedule!Popping, top
    <2> DEFINE t == Schedule!Repeat(top.body, top.count, top.next + 1, k)
               u == Schedule!Eval(top.body)
    <2>2. top.next + 1 \in Nat
      BY <1>6, <2>1
    <2>3. t \in TaskSet /\ t.start = k /\ u \in TaskSet /\ u.task = "eval"
      BY <1>5, <1>6, <1>7, <2>1, <2>2
    <2>4. tasks' = rest \o <<t, u>> \/ tasks' = rest
      BY <1>16 DEF Schedule!RepeatAgain, top, rest, k
    <2>5. running' = running
      BY <1>16 DEF Schedule!RepeatAgain
    <2> HIDE DEF t, u
    <2>6. rest \o <<t, u>> \in Seq(TaskSet) /\ Started(rest \o <<t, u>>, k)
      BY <1>3, <1>9, <2>3
    <2>7. tasks' \in Seq(TaskSet) /\ Started(tasks', k)
      BY <1>2, <2>4, <2>6
    <2> QED BY <1>1, <1>10, <2>5, <2>7
  <1>17. CASE Schedule!SaturateAgain
    <2>1. top.task = "saturate"
      BY <1>17 DEF Schedule!SaturateAgain, Schedule!Popping, top
    <2> DEFINE t == Schedule!Saturate(top.body, k)
               u == Schedule!Eval(top.body)
    <2>2. t \in TaskSet /\ t.start = k /\ u \in TaskSet /\ u.task = "eval"
      BY <1>5, <1>7, <2>1
    <2>3. tasks' = rest \o <<t, u>> \/ tasks' = rest
      BY <1>17 DEF Schedule!SaturateAgain, top, rest, k
    <2>4. running' = running
      BY <1>17 DEF Schedule!SaturateAgain
    <2> HIDE DEF t, u
    <2>6. rest \o <<t, u>> \in Seq(TaskSet) /\ Started(rest \o <<t, u>>, k)
      BY <1>3, <1>9, <2>2
    <2>7. tasks' \in Seq(TaskSet) /\ Started(tasks', k)
      BY <1>2, <2>3, <2>6
    <2> QED BY <1>1, <1>10, <2>4, <2>7
  <1> QED BY <1>1, <1>11, <1>12, <1>13, <1>14, <1>15, <1>16, <1>17 DEF Schedule!Interpret
------------------------------------------------------------------------------
(* The program has not started.                                             *)
LEMMA InitExecutorInv == InitExecutor => XInv
  <1> SUFFICES ASSUME InitExecutor PROVE XInv
    OBVIOUS
  <1>1. LoopInv /\ phase = "idle" /\ epoch = 0
    BY InitLoopInv DEF InitExecutor, InitLoop, Init
  <1>2. tasks = Schedule!Pushed(Control) /\ steps = <<>> /\ running = None
    BY DEF InitExecutor, Schedule!InitSchedule
  <1>3. StackTyped
    <2>1. Control \in Seq(Nodes)
      BY ControlAssumption
    <2>2. steps \in Seq([ruleset : RuleSets, changed : BOOLEAN])
      BY <1>2
    <2> QED BY <1>2, <2>1, <2>2, PushedTyped DEF StackTyped
  <1>4. Len(steps) = 0
    BY <1>2
  <1> QED BY <1>1, <1>2, <1>3, <1>4 DEF XInv, InStep

(* A Run starts with the next epoch.                                        *)
LEMMA BeginStepInv == ASSUME XInv, BeginStep PROVE XInv'
  <1>1. Schedule!EvalRun /\ StartRun(Node.set)
    BY DEF BeginStep
  <1>2. StackTyped' /\ steps' = steps /\ running = None
    BY <1>1, InterpretTyped DEF XInv, Schedule!Interpret
  <1>3. running' = Node.set /\ Node.set \in RuleSets
    <2>1. /\ tasks # <<>> /\ Schedule!Top.task = "eval"
          /\ Node.op = "run" /\ running' = Node.set
      BY <1>1 DEF Schedule!EvalRun, Schedule!Evaluating, Schedule!Popping, Node
    <2>2. Schedule!Top \in TaskSet
      BY <2>1, RestTyped DEF XInv
    <2>3. Node \in Nodes
      BY <2>1, <2>2 DEF TaskSet, Evals, Loops, Node
    <2> QED BY <2>1, <2>3, ControlAssumption
  <1>4. LoopInv'
    BY <1>1, <1>3, StartRunInv DEF XInv
  <1>5. phase' = "rhs" /\ epoch' = epoch + 1 /\ running' # None
    BY <1>1, <1>3, ControlAssumption DEF StartRun, StartWith, BeginRun
  <1>6. InStep'
    BY <1>2, <1>5 DEF XInv, InStep
  <1> QED BY <1>2, <1>4, <1>6 DEF XInv

(* The interpreter's own steps touch no graph.                              *)
LEMMA InterpretInv ==
    ASSUME XInv, Schedule!Interpret, running' = running, UNCHANGED runLoopVars
    PROVE  XInv'
  <1>1. StackTyped' /\ steps' = steps
    BY InterpretTyped DEF XInv
  <1>2. LoopInv'
    BY LoopStutter DEF XInv
  <1>3. UNCHANGED <<phase, epoch>>
    BY DEF runLoopVars, vars
  <1> QED BY <1>1, <1>2, <1>3 DEF XInv, InStep

(* Steps of the run loop that begin or end no Run leave the schedule alone. *)
LEMMA QuietStepInv ==
    ASSUME XInv, LoopInv', epoch' = epoch, phase' = "idle" <=> phase = "idle",
           UNCHANGED scheduleVars
    PROVE  XInv'
  <1>1. UNCHANGED <<tasks, steps, running>>
    BY DEF scheduleVars
  <1>2. StackTyped'
    BY <1>1 DEF XInv, StackTyped, Started
  <1> QED BY <1>1, <1>2 DEF XInv, InStep

(* The Run's own steps.                                                     *)
LEMMA WorkStepInv == ASSUME XInv, WorkStep PROVE XInv'
  <1>1. UNCHANGED scheduleVars /\ LoopInv
    BY DEF WorkStep, XInv
  <1>2. CASE BeginApply
    <2>1. UNCHANGED <<phase, epoch>>
      BY <1>2 DEF BeginApply, vars
    <2> QED BY <1>1, <1>2, <2>1, BeginApplyInv, QuietStepInv
  <1>3. CASE Apply
    <2>1. UNCHANGED <<phase, epoch>>
      BY <1>1, <1>3, ApplyEffects DEF Effected, RowsMove
    <2> QED BY <1>1, <1>3, <2>1, ApplyInv, QuietStepInv
  <1>4. CASE EndEffects
    <2>1. phase = "rhs" /\ phase' = "repair" /\ epoch' = epoch
      BY <1>4 DEF EndEffects, BeginRepair
    <2> QED BY <1>1, <1>4, <2>1, EndEffectsInv, QuietStepInv
  <1>5. CASE RepairRun
    <2>1. UNCHANGED <<phase, epoch>>
      BY <1>5 DEF RepairRun, ApplyUnion, RepairFact
    <2> QED BY <1>1, <1>5, <2>1, RepairRunInv, QuietStepInv
  <1> QED BY <1>2, <1>3, <1>4, <1>5 DEF WorkStep

(* Loading and resuming.                                                    *)
LEMMA OutsideInv == ASSUME XInv, Bootstrap \/ Restart PROVE XInv'
  <1>1. UNCHANGED scheduleVars /\ LoopInv
    BY DEF Bootstrap, Restart, XInv
  <1>2. CASE Load
    <2>1. UNCHANGED <<phase, epoch>>
      BY <1>2 DEF Load, Activate
    <2> QED BY <1>1, <1>2, <2>1, LoadInv, QuietStepInv
  <1>3. CASE EndLoad
    <2>1. UNCHANGED <<phase, epoch>>
      BY <1>3 DEF EndLoad
    <2> QED BY <1>1, <1>3, <2>1, EndLoadInv, QuietStepInv
  <1>4. CASE Resume
    <2>1. UNCHANGED <<phase, epoch>>
      BY <1>4 DEF Resume, Rebuild
    <2> QED BY <1>1, <1>4, <2>1, ResumeInv, QuietStepInv
  <1> QED BY <1>2, <1>3, <1>4 DEF Bootstrap, Restart

(* A published Run is a step.                                               *)
LEMMA EndStepInv == ASSUME XInv, EndStep PROVE XInv'
  <1>1. /\ PublishRun /\ running # None /\ running' = None /\ tasks' = tasks
        /\ steps' = Append(steps, [ruleset |-> running, changed |-> changed])
    BY DEF EndStep, Schedule!EndRun
  <1>2. LoopInv'
    BY <1>1, PublishRunInv DEF XInv
  <1>3. phase' = "idle" /\ epoch' = epoch
    BY <1>1 DEF PublishRun, Publish
  <1> DEFINE S == [ruleset : RuleSets, changed : BOOLEAN]
             step == [ruleset |-> running, changed |-> changed]
  <1>4. steps \in Seq(S) /\ step \in S
    BY <1>1 DEF XInv, StackTyped, LoopInv, IInv, TypeOK
  <1> HIDE DEF S, step
  <1>5. /\ Append(steps, step) \in Seq(S) /\ Len(Append(steps, step)) = Len(steps) + 1
        /\ Len(steps) \in Nat
    BY <1>4
  <1>6. steps' \in Seq(S) /\ Len(steps') = Len(steps) + 1
    BY <1>1, <1>5 DEF step
  <1>7. Started(tasks, Len(steps) + 1)
    <2>1. \A n \in DOMAIN tasks : tasks[n].task # "eval" => tasks[n].start \in Nat
      BY ElementOfSeq, LenProperties DEF XInv, StackTyped, TaskSet, Evals, Loops
    <2> QED BY <2>1, <1>5 DEF XInv, StackTyped, Started
  <1>8. StackTyped'
    BY <1>1, <1>6, <1>7 DEF XInv, StackTyped, S, Started
  <1>9. InStep'
    BY <1>1, <1>3, <1>6 DEF XInv, InStep
  <1> QED BY <1>2, <1>8, <1>9 DEF XInv

(* Every step of the program.                                               *)
LEMMA NextExecutorInv == XInv /\ [NextExecutor]_executorVars => XInv'
  <1> SUFFICES ASSUME XInv, [NextExecutor]_executorVars PROVE XInv'
    OBVIOUS
  <1>1. CASE Bootstrap \/ Restart   BY <1>1, OutsideInv
  <1>2. CASE BeginStep              BY <1>2, BeginStepInv
  <1>3. CASE ProbeStep
    <2>1. Schedule!EvalProbe /\ UNCHANGED runLoopVars
      BY <1>3 DEF ProbeStep
    <2> QED BY <2>1, InterpretInv DEF Schedule!Interpret, Schedule!EvalProbe
  <1>4. CASE ControlStep
    <2>1. Schedule!Interpret /\ ~ Schedule!Evaluating("run") /\ UNCHANGED runLoopVars
      BY <1>4 DEF ControlStep
    <2>2. running' = running
      BY <2>1 DEF Schedule!Interpret, Schedule!EvalRun, Schedule!EvalProbe,
                  Schedule!EvalSequence, Schedule!EvalRepeat, Schedule!EvalSaturate,
                  Schedule!RepeatAgain, Schedule!SaturateAgain
    <2> QED BY <2>1, <2>2, InterpretInv
  <1>5. CASE WorkStep               BY <1>5, WorkStepInv
  <1>6. CASE EndStep                BY <1>6, EndStepInv
  <1>7. CASE UNCHANGED executorVars
    <2>1. UNCHANGED runLoopVars /\ UNCHANGED scheduleVars
      BY <1>7 DEF executorVars, scheduleVars
    <2>2. UNCHANGED <<phase, epoch>>
      BY <2>1 DEF runLoopVars, vars
    <2> QED BY <2>1, <2>2, LoopStutter, QuietStepInv DEF XInv
  <1> QED BY <1>1, <1>2, <1>3, <1>4, <1>5, <1>6, <1>7 DEF NextExecutor, ExecutorStep

(* XInv holds in every state of the program.                                *)
THEOREM ExecutorInductive == SpecExecutor => []XInv
  BY InitExecutorInv, NextExecutorInv, PTL DEF SpecExecutor

(* resume() refuses no checkpoint that the program can write: one step per  *)
(* epoch, no watermark ahead of the epoch, no task that starts after the    *)
(* last step, every class pointing at an older one (checkpoint, resume).    *)
THEOREM CheckpointsResume == SpecExecutor => []CheckpointAccepted
  <1>1. XInv => CheckpointAccepted
    <2> SUFFICES ASSUME XInv, running = None PROVE CheckpointAccepted
      BY DEF CheckpointAccepted
    <2>1. /\ \A r \in Rules : watermarks[r] <= epoch
          /\ \A i \in Ids : root[i] <= i
      BY DEF XInv, LoopInv, Clocks, IInv, RootIsOldest
    <2>2. Len(steps) = epoch
      BY DEF XInv, InStep
    <2>3. \A n \in DOMAIN tasks : tasks[n].task # "eval" => tasks[n].start <= Len(steps)
      BY DEF XInv, StackTyped, Started
    <2> QED BY <2>1, <2>2, <2>3 DEF CheckpointAccepted
  <1> QED BY <1>1, ExecutorInductive, PTL

(* What RunLoop proves of its own steps holds of whole programs: nothing is *)
(* lost between the Runs of a schedule, and nothing is found twice.         *)
THEOREM ProgramsLoseNothing == SpecExecutor => [](NoMatchLost /\ DeltaPartition)
  <1>1. XInv => NoMatchLost /\ DeltaPartition
    BY LoopInvLosesNone, LoopInvPartitions DEF XInv
  <1> QED BY <1>1, ExecutorInductive, PTL
------------------------------------------------------------------------------
(* Saturation.  A program whose rules hide nothing keeps what a binding has *)
(* done: the rows it wrote have heirs, the classes it united stay united.   *)
NoHides == \A r \in Rules : \A k \in DOMAIN Body[r] : Body[r][k].op # "hide"

(* Fact g is stored under the key the operation names.                      *)
Carries(g, op, e) ==
    /\ g \in live \cap FactRefs
    /\ recipe[g].table = op.table
    /\ CanonKey(recipe[g].key) = KeyIn(op, e)

(* What the operation asks of e is there or owed, and x is e after it.      *)
UnionDone(op, e, x) == x = e /\ Owed(e[op.args[1]], e[op.args[2]])
SetDone(op, e, x) ==
    /\ x = e
    /\ \E g : /\ Carries(g, op, e)
              /\ op.table \in Constructors => Owed(recipe[g].value, e[op.value])
LetDone(op, e, x) ==
    \E g, v : /\ Carries(g, op, e)
              /\ x = Put(e, op.dst, v)
              /\ IF op.table \in Constructors THEN v \in Made /\ Owed(recipe[g].value, v)
                 ELSE v = Unit
Done(op, e, x) ==
    \/ op.op = "union" /\ UnionDone(op, e, x)
    \/ op.op = "set"   /\ SetDone(op, e, x)
    \/ op.op = "let"   /\ LetDone(op, e, x)

(* The first k operations of r are done for the binding old, and left x.    *)
Trace(r, k, t) ==
    \A j \in 1..k : /\ Binds(t[j - 1], ClassSlots(r, j))
                    /\ Done(Body[r][j], t[j - 1], t[j])
Applied(r, k, old, x) == \E t : Trace(r, k, t) /\ t[0] = old /\ t[k] = x

(* A binding that was found is still to be applied, is being applied, or    *)
(* has been.                                                                *)
Progress ==
    \A r \in Rules : \A old \in consumed[r] :
        \/ r \in Range(left) /\ old \in work[r]
        \/ /\ frame # <<>> /\ Now.rule = r
           /\ Applied(r, Now.op - 1, old, Now.env)
        \/ \E x : Applied(r, Len(Body[r]), old, x)
Still == /\ phase # "rhs" => left = <<>> /\ frame = <<>>
         /\ phase = "idle" => pending = <<>>

UnitRows == \A d \in live : recipe[d].table \notin Constructors => recipe[d].value = Unit

(* A row is stamped by Runs that changed the graph, and a rule's watermark  *)
(* is not behind the steps it was in.                                       *)
Changing(k) == \/ k = 0
               \/ k \in DOMAIN steps /\ steps[k].changed
               \/ running # None /\ k = epoch /\ changed
Stamped == /\ loading => epoch = 0
           /\ dirty # {} => changed
           /\ \A d \in live : Changing(stamp[d])
Ran == /\ \A i \in DOMAIN steps : \A r \in Range(steps[i].ruleset) : watermarks[r] >= i
       /\ running # None => \A r \in Range(running) : watermarks[r] >= epoch

SInv == Progress /\ Still /\ UnitRows /\ Stamped /\ Ran

(* What was done stays done.                                                *)
LEMMA DoneStays ==
    ASSUME IInv, IInv', Onward, Made \subseteq Made',
           NEW op, NEW e, NEW x, Done(op, e, x)
    PROVE  Done(op, e, x)'
  <1>1. \A a, b : Owed(a, b) => Owed(a, b)'
    BY OwedStays DEF Onward
  <1>2. CASE op.op = "union" /\ UnionDone(op, e, x)
    BY <1>1, <1>2 DEF Done, UnionDone
  <1>3. ASSUME NEW g, Carries(g, op, e)
        PROVE  \E h : /\ Carries(h, op, e)'
                      /\ Heir(g, h)' /\ recipe'[g] = recipe[g]
    <2>1. g \in live \cap FactRefs /\ CanonKey(recipe[g].key) = KeyIn(op, e)
      BY <1>3 DEF Carries
    <2>2. PICK h \in live' \cap FactRefs : Heir(g, h)' /\ recipe'[g] = recipe[g]
      BY <2>1 DEF Onward
    <2>3. /\ recipe[g].key \in [1..Arity[recipe[g].table] -> Made]
          /\ Made \subseteq Ids
      BY <2>1, Numbering DEF IInv, TypeOK, Made
    <2> DEFINE key == recipe[g].key
               n == Arity[recipe[g].table]
    <2>4. /\ CanonKey(key) = [i \in 1..n |-> root[key[i]]]
          /\ CanonKey(key)' = [i \in 1..n |-> root'[key[i]]]
          /\ \A i \in 1..n : key[i] \in Ids
      BY <2>2, <2>3 DEF CanonKey, Canon
    <2>5. /\ DOMAIN op.args = 1..n
          /\ \A i \in 1..n : Canon(e[op.args[i]]) = root[key[i]]
      <3>1. [i \in 1..n |-> root[key[i]]]
              = [i \in DOMAIN op.args |-> Canon(e[op.args[i]])]
        BY <2>1, <2>4 DEF KeyIn
      <3> HIDE DEF n
      <3> QED BY <3>1
    <2> HIDE DEF n
    <2>6. ASSUME NEW i \in 1..n PROVE Canon(e[op.args[i]])' = root'[key[i]]
      <3>1. key[i] \in Ids /\ root[key[i]] \in Ids
        BY <2>4 DEF IInv, TypeOK
      <3>2. e[op.args[i]] \in Ids /\ root[e[op.args[i]]] = root[key[i]]
        BY <2>5, <3>1 DEF Canon
      <3>3. root'[e[op.args[i]]] = root'[key[i]]
        BY <3>1, <3>2 DEF Onward
      <3> QED BY <3>2, <3>3 DEF Canon
    <2>7. KeyIn(op, e)' = CanonKey(key)'
      BY <2>4, <2>5, <2>6 DEF KeyIn
    <2>8. Carries(h, op, e)'
      BY <1>3, <2>2, <2>7 DEF Carries, Heir, SameKey
    <2> QED BY <2>2, <2>8
  <1>4. ASSUME NEW g, NEW h, NEW v, Carries(g, op, e), Heir(g, h)', recipe'[g] = recipe[g],
               op.table \in Constructors, Owed(recipe[g].value, v)
        PROVE  Owed(recipe[h].value, v)'
    <2>1. Owed(recipe[g].value, recipe[h].value)' /\ recipe[g].table = op.table
      BY <1>4 DEF Carries, Heir
    <2>2. \A c \in [Ids -> Ids] : Agrees(c)' => c[recipe[g].value] = c[recipe'[h].value]
      BY <1>4, <2>1 DEF Owed
    <2>3. \A c \in [Ids -> Ids] : Agrees(c)' => c[recipe[g].value] = c[v]
      BY <1>4 DEF Onward, Owed
    <2> QED BY <2>2, <2>3 DEF Owed
  <1>5. CASE op.op = "set" /\ SetDone(op, e, x)
    <2>1. PICK g : /\ Carries(g, op, e)
                   /\ op.table \in Constructors => Owed(recipe[g].value, e[op.value])
      BY <1>5 DEF SetDone
    <2>2. PICK h : Carries(h, op, e)' /\ Heir(g, h)' /\ recipe'[g] = recipe[g]
      BY <1>3, <2>1
    <2>3. op.table \in Constructors => Owed(recipe[h].value, e[op.value])'
      BY <1>4, <2>1, <2>2
    <2>4. SetDone(op, e, x)'
      BY <1>5, <2>2, <2>3 DEF SetDone
    <2> QED BY <1>5, <2>4 DEF Done
  <1>6. CASE op.op = "let" /\ LetDone(op, e, x)
    <2>1. PICK g, v : /\ Carries(g, op, e)
                      /\ x = Put(e, op.dst, v)
                      /\ IF op.table \in Constructors
                           THEN v \in Made /\ Owed(recipe[g].value, v) ELSE v = Unit
      BY <1>6 DEF LetDone
    <2>2. PICK h : Carries(h, op, e)' /\ Heir(g, h)' /\ recipe'[g] = recipe[g]
      BY <1>3, <2>1
    <2>3. op.table \in Constructors => v \in Made' /\ Owed(recipe[h].value, v)'
      BY <1>4, <2>1, <2>2
    <2>4. LetDone(op, e, x)'
      BY <2>1, <2>2, <2>3 DEF LetDone
    <2> QED BY <1>6, <2>4 DEF Done
  <1> QED BY <1>2, <1>5, <1>6 DEF Done

(* So does an application, and the whole account of them.                   *)
LEMMA AppliedStays ==
    ASSUME IInv, IInv', Onward, Made \subseteq Made',
           NEW r, NEW k, NEW old, NEW x, Applied(r, k, old, x)
    PROVE  Applied(r, k, old, x)'
  <1>1. PICK t : Trace(r, k, t) /\ t[0] = old /\ t[k] = x
    BY DEF Applied
  <1>2. ASSUME NEW j \in 1..k
        PROVE  Binds(t[j - 1], ClassSlots(r, j))' /\ Done(Body[r][j], t[j - 1], t[j])'
    <2>1. Binds(t[j - 1], ClassSlots(r, j)) /\ Done(Body[r][j], t[j - 1], t[j])
      BY <1>1 DEF Trace
    <2>2. Done(Body[r][j], t[j - 1], t[j])'
      BY <2>1, DoneStays
    <2> QED BY <2>1, <2>2 DEF Binds
  <1>3. Trace(r, k, t)'
    BY <1>2 DEF Trace
  <1> QED BY <1>1, <1>3 DEF Applied

LEMMA ProgressStays ==
    ASSUME IInv, IInv', Onward, Made \subseteq Made', Progress,
           UNCHANGED <<consumed, left, work, frame>>
    PROVE  Progress'
  <1> SUFFICES ASSUME NEW r \in Rules, NEW old \in consumed[r]
               PROVE  \/ r \in Range(left) /\ old \in work[r]
                      \/ /\ frame # <<>> /\ Now.rule = r
                         /\ Applied(r, Now.op - 1, old, Now.env)'
                      \/ \E x : Applied(r, Len(Body[r]), old, x)'
    BY DEF Progress, Now
  <1>1. CASE r \in Range(left) /\ old \in work[r]
    BY <1>1
  <1>2. CASE frame # <<>> /\ Now.rule = r /\ Applied(r, Now.op - 1, old, Now.env)
    <2>1. Now' = Now
      BY DEF Now
    <2>2. PICK k, x : k = Now.op - 1 /\ x = Now.env
      OBVIOUS
    <2>3. Applied(r, k, old, x)'
      BY <1>2, <2>2, AppliedStays
    <2> QED BY <1>2, <2>1, <2>2, <2>3
  <1>3. ASSUME NEW x, Applied(r, Len(Body[r]), old, x)
        PROVE  Applied(r, Len(Body[r]), old, x)'
    BY <1>3, AppliedStays
  <1> QED BY <1>1, <1>2, <1>3 DEF Progress
------------------------------------------------------------------------------
(* What a step of the loop may do to the rows: a new or restamped row       *)
(* belongs to a Run that has changed the graph.                             *)
Keeps ==
    /\ dirty' # {} => changed'
    /\ changed => changed'
    /\ \A d \in live' :
        /\ \/ d \in live /\ recipe'[d] = recipe[d]
           \/ recipe'[d].table \notin Constructors => recipe'[d].value = Unit
        /\ \/ d \in live /\ stamp'[d] = stamp[d]
           \/ stamp'[d] = epoch /\ changed' /\ (running # None \/ epoch = 0)

LEMMA RowsKeep ==
    ASSUME UnitRows, Stamped, Keeps, UNCHANGED <<steps, running, epoch, loading>>
    PROVE  UnitRows' /\ Stamped'
  <1>1. UnitRows'
    BY DEF UnitRows, Keeps
  <1>2. \A k : Changing(k) => Changing(k)'
    BY DEF Changing, Keeps
  <1>3. changed' /\ (running # None \/ epoch = 0) => Changing(epoch)'
    BY DEF Changing
  <1>4. \A d \in live' : Changing(stamp[d])'
    BY <1>2, <1>3 DEF Stamped, Keeps, Changing
  <1> QED BY <1>1, <1>4 DEF Stamped, Keeps

(* A class and its root are owed.                                           *)
LEMMA RootOwed == ASSUME NEW a PROVE Owed(a, Canon(a)) /\ Owed(Canon(a), a)
  BY DEF Owed, Agrees, Canon

(* activate() adds a row and touches no other.                              *)
LEMMA ActivateAdds ==
    ASSUME IInv, NEW t, NEW key, NEW v, NEW hide, Activate(t, key, v, hide),
           NEW f, f = nextFact + 1
    PROVE  /\ f \in FactRefs /\ f \notin DOMAIN recipe
           /\ live' = live \cup {f}
           /\ recipe'[f] = [table |-> t, key |-> key, value |-> v]
           /\ \A d \in live : recipe'[d] = recipe[d] /\ stamp'[d] = stamp[d]
           /\ stamp'[f] = epoch /\ changed'
           /\ UNCHANGED <<root, dirty, pending, epoch, phase>>
  <1>1. /\ nextFact < MaxFact
        /\ recipe' = Put(recipe, f, [table |-> t, key |-> key, value |-> v])
        /\ live' = live \cup {f}
        /\ stamp' = [stamp EXCEPT ![f] = epoch]
        /\ changed' = TRUE
        /\ UNCHANGED <<root, dirty, pending, epoch, phase>>
    BY DEF Activate, unionVars
  <1>2. /\ nextFact \in 0..MaxFact /\ MaxFact \in Nat
        /\ DOMAIN recipe \cap FactRefs = 1..nextFact
        /\ live \subseteq DOMAIN recipe
        /\ DOMAIN stamp = Dependency
    BY BoundsAssumption DEF IInv, TypeOK
  <1>3. f \in FactRefs /\ f \notin 1..nextFact
    BY <1>1, <1>2 DEF FactRefs
  <1>4. f \notin DOMAIN recipe /\ f \in Dependency
    BY <1>2, <1>3 DEF Dependency
  <1>5. stamp'[f] = epoch /\ \A d \in live : stamp'[d] = stamp[d]
    BY <1>1, <1>2, <1>4
  <1>6. /\ recipe'[f] = [table |-> t, key |-> key, value |-> v]
        /\ \A d \in live : recipe'[d] = recipe[d]
    BY <1>1, <1>2, <1>4 DEF Put
  <1> QED BY <1>1, <1>3, <1>4, <1>5, <1>6

LEMMA ActivateOnward ==
    ASSUME IInv, NEW t, NEW key, NEW v, NEW hide, Activate(t, key, v, hide)
    PROVE  Onward
  <1>1. PICK f : f = nextFact + 1
    OBVIOUS
  <1>2. /\ live' = live \cup {f}
        /\ \A d \in live : recipe'[d] = recipe[d]
        /\ root' = root /\ pending' = pending
    BY <1>1, ActivateAdds
  <1> QED BY <1>2, QuietOnward

(* The fact a write activates carries the key the operation names.          *)
LEMMA WriteCarries ==
    ASSUME IInv, NEW op, NEW e, NEW key \in [1..Arity[op.table] -> Roots],
           key = KeyIn(op, e), NEW v, NEW hide, Activate(op.table, key, v, hide),
           NEW f, f = nextFact + 1
    PROVE  Carries(f, op, e)' /\ recipe'[f].value = v
  <1>1. /\ f \in FactRefs /\ f \in live' /\ root' = root
        /\ recipe'[f] = [table |-> op.table, key |-> key, value |-> v]
    BY ActivateAdds
  <1>2. KeyIn(op, e)' = key
    BY <1>1 DEF KeyIn, Canon
  <1>3. CanonKey(recipe[f].key)' = key
    <2>1. recipe'[f].key = key /\ DOMAIN key = 1..Arity[op.table]
      BY <1>1
    <2>2. \A i \in 1..Arity[op.table] : Canon(key[i])' = key[i]
      BY <1>1 DEF Canon, Roots
    <2>3. CanonKey(recipe[f].key)' = [i \in 1..Arity[op.table] |-> Canon(key[i])']
      BY <2>1 DEF CanonKey
    <2> QED BY <2>2, <2>3
  <1> QED BY <1>1, <1>2, <1>3 DEF Carries

(* So does the fact a lookup hits.                                          *)
LEMMA HitCarries ==
    ASSUME IInv, NEW op, NEW e, NEW key \in [1..Arity[op.table] -> Roots],
           key = KeyIn(op, e), NEW f \in FactRefs, f \in Matching(op.table, key)
    PROVE  Carries(f, op, e)
  <1>1. CanonKey(key) = key
    <2>1. \A i \in 1..Arity[op.table] : Canon(key[i]) = key[i]
      BY DEF Canon, Roots
    <2>2. CanonKey(key) = [i \in 1..Arity[op.table] |-> Canon(key[i])]
      BY DEF CanonKey
    <2> QED BY <2>1, <2>2
  <1> QED BY <1>1 DEF Carries, Matching
------------------------------------------------------------------------------
(* What one operation leaves behind: its rows, its promises, and the        *)
(* environment the binding goes on with.                                    *)
Achieved(r, k, env) ==
    /\ Onward /\ Keeps
    /\ \E x : Continue(x) /\ Done(Body[r][k], env, x)'

(* An operation that writes a fact.                                         *)
LEMMA WriteKeeps ==
    ASSUME IInv, Stamped, running # None \/ epoch = 0, NEW t, NEW key, NEW v, NEW hide,
           Activate(t, key, v, hide), t \notin Constructors => v = Unit
    PROVE  Onward /\ Keeps
  <1>1. PICK f : f = nextFact + 1
    OBVIOUS
  <1>2. /\ live' = live \cup {f}
        /\ recipe'[f] = [table |-> t, key |-> key, value |-> v]
        /\ \A d \in live : recipe'[d] = recipe[d] /\ stamp'[d] = stamp[d]
        /\ stamp'[f] = epoch /\ changed'
    BY <1>1, ActivateAdds
  <1>3. recipe'[f].table \notin Constructors => recipe'[f].value = Unit
    BY <1>2
  <1> QED BY <1>2, <1>3, ActivateOnward DEF Keeps

(* An operation that asks for a union, or finds nothing to do.              *)
LEMMA RequestKeeps ==
    ASSUME IInv, Stamped, NEW a, NEW b, RequestUnion(a, b) \/ UNCHANGED vars
    PROVE  Onward /\ Keeps
  <1>1. PICK p : p = <<a, b>>
    OBVIOUS
  <1>2. /\ UNCHANGED <<root, live, recipe, stamp, dirty, changed>>
        /\ pending' = Append(pending, p) \/ pending' = pending
    BY <1>1 DEF RequestUnion, rowVars, vars, unionVars
  <1>3. \A n \in DOMAIN pending : n \in DOMAIN pending' /\ pending'[n] = pending[n]
    <2>1. pending \in Seq(Made \X Made)
      BY DEF IInv, TypeOK
    <2>2. \A n \in DOMAIN pending : /\ n \in DOMAIN Append(pending, p)
                                    /\ Append(pending, p)[n] = pending[n]
      BY <2>1
    <2> QED BY <1>2, <2>2
  <1>4. Onward
    BY <1>2, <1>3, QuietOnward
  <1> QED BY <1>2, <1>4 DEF Keeps, Stamped

(* The pair that was asked for is owed.                                     *)
LEMMA RequestOwed ==
    ASSUME IInv, NEW a, NEW b, RequestUnion(Canon(a), Canon(b))
    PROVE  Owed(a, b)'
  <1>1. PICK p : p = <<Canon(a), Canon(b)>>
    OBVIOUS
  <1>2. pending' = Append(pending, p) /\ root' = root
    BY <1>1 DEF RequestUnion
  <1>3. \E n \in DOMAIN pending' : pending'[n] = p
    <2>1. /\ Len(pending) + 1 \in DOMAIN Append(pending, p)
          /\ Append(pending, p)[Len(pending) + 1] = p
      BY DEF IInv, TypeOK
    <2> QED BY <1>2, <2>1
  <1> SUFFICES ASSUME NEW c \in [Ids -> Ids], Agrees(c)' PROVE c[a] = c[b]
    BY DEF Owed
  <1>4. c[Canon(a)] = c[Canon(b)]
    BY <1>1, <1>3 DEF Agrees
  <1>5. \A y : c[Canon(y)] = c[y]
    BY <1>2 DEF Agrees, Canon
  <1> QED BY <1>4, <1>5

LEMMA LetDoes ==
    ASSUME IInv, UnitRows, Stamped, running # None,
           NEW r, NEW k, NEW env, Doing(r, k, env), phase = "rhs", ApplyLet
    PROVE  Achieved(r, k, env)
  <1> DEFINE op == Body[r][k]
             t == op.table
             key == KeyOf(Op.args)
  <1>1. /\ op = Op /\ Now.env = env /\ op.op = "let"
        /\ \/ Activate(t, key, FreshValue(t), FALSE) /\ Bind(FreshValue(t))
           \/ \E f \in FactRefs : Hit(key, f) /\ Bind(Row(f).value) /\ UNCHANGED vars
    BY DoingIs DEF ApplyLet, Construct
  <1>2. t \in Virtual /\ key \in [1..Arity[t] -> Roots] /\ key = KeyIn(op, env)
    BY <1>1, KeyIs DEF KeyOf, KeyIn, Arg
  <1>3. \A v : Bind(v) => Continue(Put(env, op.dst, v))
    BY <1>1 DEF Bind
  <1>4. Effected
    BY LetInv
  <1>6. \A f \in FactRefs : Hit(key, f) => f \in Matching(t, key)
    BY <1>1 DEF Hit, First
  <1> HIDE DEF key
  <1> SUFFICES ASSUME TRUE PROVE /\ Onward /\ Keeps
                                 /\ \E x : Continue(x) /\ LetDone(op, env, x)'
    BY <1>1 DEF Achieved, Done
  <1>7. CASE Activate(t, key, FreshValue(t), FALSE) /\ Bind(FreshValue(t))
    <2>1. PICK f, v : f = nextFact + 1 /\ v = FreshValue(t)
      OBVIOUS
    <2>0. Activate(op.table, key, v, FALSE) /\ key \in [1..Arity[op.table] -> Roots]
      BY <1>2, <1>7, <2>1
    <2>2. Carries(f, op, env)' /\ recipe'[f].value = v
      <3> HIDE DEF op
      <3> QED BY <1>2, <2>0, <2>1, WriteCarries
    <2>3. t \in Constructors => v \in Made'
      BY <1>2, <1>7, <2>1, ActivateEffected
    <2>4. t \notin Constructors => v = Unit
      BY <2>1 DEF FreshValue
    <2>5. Onward /\ Keeps
      BY <1>7, <2>1, <2>4, WriteKeeps
    <2>6. Owed(v, v)'
      BY DEF Owed
    <2>7. LetDone(op, env, Put(env, op.dst, v))'
      BY <2>2, <2>3, <2>4, <2>6 DEF LetDone, Put
    <2> QED BY <1>3, <1>7, <2>1, <2>5, <2>7
  <1>8. ASSUME NEW f \in FactRefs, Hit(key, f), Bind(Row(f).value), UNCHANGED vars
        PROVE  Onward /\ Keeps /\ \E x : Continue(x) /\ LetDone(op, env, x)'
    <2>1. f \in Matching(t, key) /\ f \in live /\ recipe[f].table = t
      BY <1>6, <1>8 DEF Matching
    <2>2. Carries(f, op, env)
      BY <1>2, <2>1, HitCarries
    <2>3. PICK v : v = Row(f).value
      OBVIOUS
    <2>4. IF t \in Constructors THEN v \in Made /\ Owed(recipe[f].value, v) ELSE v = Unit
      <3>1. CASE t \in Constructors
        BY <3>1, <2>1, <2>3, ValueOfRow, RootOwed DEF IInv, TypeOK, Row
      <3>2. CASE t \notin Constructors
        <4>1. recipe[f].value = Unit
          BY <3>2, <2>1 DEF UnitRows
        <4> QED BY <3>2, <4>1, <2>3, ValuesAssumption DEF Row, Canon
      <3> QED BY <3>1, <3>2
    <2>5. PICK x : x = Put(env, op.dst, v)
      OBVIOUS
    <2>6. LetDone(op, env, x)
      BY <2>2, <2>4, <2>5 DEF LetDone
    <2>7. Onward /\ Keeps
      BY <1>8, RequestKeeps
    <2>8. LetDone(op, env, x)'
      <3>1. Done(op, env, x)
        BY <1>1, <2>6 DEF Done
      <3>2. Done(op, env, x)'
        BY <3>1, <2>7, <1>4, DoneStays DEF Effected
      <3> QED BY <1>1, <3>2 DEF Done
    <2> QED BY <1>3, <1>8, <2>3, <2>5, <2>7, <2>8
  <1> QED BY <1>1, <1>7, <1>8
(* A lookup hits facts.                                                     *)
LEMMA MatchIsFact ==
    ASSUME IInv, NEW t \in Tables, NEW key \in Keys(t), NEW f \in Matching(t, key)
    PROVE  f \in FactRefs
  <1>1. CanonKey(key) \in Keys(t)
    BY DEF IInv, TypeOK, CanonKey, Canon, Keys
  <1>2. HashOf(t, CanonKey(key)) \in Hashes
    BY <1>1, HashAssumption
  <1> QED BY <1>2 DEF IInv, TypeOK, Matching, DirtyFacts

LEMMA SetDoes ==
    ASSUME IInv, UnitRows, Stamped, running # None,
           NEW r, NEW k, NEW env, Doing(r, k, env), phase = "rhs", ApplySet
    PROVE  Achieved(r, k, env)
  <1> DEFINE op == Body[r][k]
             t == op.table
             key == KeyOf(Op.args)
             value == Canon(env[op.value])
  <1>1. /\ op = Op /\ Now.env = env /\ op.op = "set" /\ Continue(env)
        /\ IF t \in Constructors
             THEN \/ Activate(t, key, value, FALSE)
                  \/ \E f \in FactRefs : /\ f \in Matching(t, key)
                                         /\ RequestUnion(Row(f).value, value)
             ELSE \/ Activate(t, key, Unit, FALSE)
                  \/ Matching(t, key) # {} /\ UNCHANGED vars
    BY DoingIs DEF ApplySet, SetFact, SetExisting, First, Arg
  <1>2. t \in Virtual /\ key \in [1..Arity[t] -> Roots] /\ key = KeyIn(op, env)
    BY <1>1, KeyIs DEF KeyOf, KeyIn, Arg
  <1>3. Effected
    BY SetInv
  <1> HIDE DEF key
  <1> SUFFICES Onward /\ Keeps /\ SetDone(op, env, env)'
    BY <1>1 DEF Achieved, Done
  <1>4. ASSUME NEW v, Activate(t, key, v, FALSE),
               IF t \in Constructors THEN v = value ELSE v = Unit
        PROVE  Onward /\ Keeps /\ SetDone(op, env, env)'
    <2>1. PICK f : f = nextFact + 1
      OBVIOUS
    <2>2. Activate(op.table, key, v, FALSE) /\ key \in [1..Arity[op.table] -> Roots]
      BY <1>2, <1>4
    <2>3. Carries(f, op, env)' /\ recipe'[f].value = v
      <3> HIDE DEF op
      <3> QED BY <1>2, <2>1, <2>2, WriteCarries
    <2>4. t \in Constructors => Owed(recipe[f].value, env[op.value])'
      <3>1. root' = root
        BY <1>4, <2>1, ActivateAdds
      <3>2. t \in Constructors => v = Canon(env[op.value])'
        BY <1>4, <3>1 DEF Canon
      <3>3. Owed(Canon(env[op.value]), env[op.value])'
        BY DEF Owed, Agrees, Canon
      <3> QED BY <2>3, <3>2, <3>3 DEF Owed
    <2>5. Onward /\ Keeps
      BY <1>4, WriteKeeps
    <2> QED BY <2>3, <2>4, <2>5 DEF SetDone
  <1>5. ASSUME NEW f \in FactRefs, f \in Matching(t, key), t \in Constructors,
               RequestUnion(Row(f).value, value)
        PROVE  Onward /\ Keeps /\ SetDone(op, env, env)'
    <2>1. Onward /\ Keeps
      BY <1>5, RequestKeeps
    <2>2. Carries(f, op, env)
      BY <1>2, <1>5, HitCarries
    <2>3. PICK a, b : a = recipe[f].value /\ b = env[op.value]
      OBVIOUS
    <2>4. Owed(a, b)'
      BY <1>5, <2>3, RequestOwed DEF Row
    <2>5. UNCHANGED <<root, live, recipe>>
      BY <1>5 DEF RequestUnion, rowVars
    <2>6. Carries(f, op, env)'
      BY <2>2, <2>5 DEF Carries, KeyIn, CanonKey, Canon
    <2>7. recipe'[f].value = a
      BY <2>3, <2>5
    <2> QED BY <2>1, <2>3, <2>4, <2>6, <2>7 DEF SetDone
  <1>6. CASE t \notin Constructors /\ Matching(t, key) # {} /\ UNCHANGED vars
    <2>1. PICK f : f \in Matching(t, key)
      BY <1>6
    <2>2. f \in FactRefs
      <3>1. t \in Tables /\ key \in Keys(t)
        BY <1>2, TablesAssumption, Numbering DEF Roots, Made, Keys, IInv, TypeOK, Virtual
      <3> QED BY <2>1, <3>1, MatchIsFact
    <2>3. Carries(f, op, env)
      BY <1>2, <2>1, <2>2, HitCarries
    <2>4. UNCHANGED <<root, live, recipe>>
      BY <1>6 DEF vars, unionVars, rowVars
    <2>5. Carries(f, op, env)'
      BY <2>3, <2>4 DEF Carries, KeyIn, CanonKey, Canon
    <2> QED BY <1>6, <2>5, RequestKeeps DEF SetDone
  <1> QED BY <1>1, <1>4, <1>5, <1>6

LEMMA UnionDoes ==
    ASSUME IInv, Stamped, NEW r, NEW k, NEW env, Doing(r, k, env), ApplyUnionRequest
    PROVE  Achieved(r, k, env)
  <1>1. PICK op : op = Body[r][k]
    OBVIOUS
  <1>2. PICK a, b : a = env[op.args[1]] /\ b = env[op.args[2]]
    OBVIOUS
  <1>3. /\ op.op = "union" /\ Continue(env)
        /\ RequestUnion(Canon(a), Canon(b))
    BY <1>1, <1>2, DoingIs DEF ApplyUnionRequest, Arg
  <1>4. Onward /\ Keeps
    BY <1>3, RequestKeeps
  <1>5. Owed(a, b)'
    BY <1>3, RequestOwed
  <1>6. Done(op, env, env)'
    BY <1>2, <1>3, <1>5 DEF Done, UnionDone
  <1> QED BY <1>1, <1>3, <1>4, <1>6 DEF Achieved

(* A step of the loop does its operation and no other.                      *)
LEMMA ApplyDoes ==
    ASSUME NoHides, LoopInv, UnitRows, Stamped, running # None, Apply
    PROVE  \E r, k, env : Doing(r, k, env) /\ Achieved(r, k, env)
  <1>1. /\ phase = "rhs" /\ frame # <<>>
        /\ ApplyLet \/ ApplySet \/ ApplyUnionRequest \/ ApplyHide
    BY DEF Apply
  <1>2. PICK r \in Rules : \E k \in DOMAIN Body[r] : \E env :
          frame = FrameOf(r, k, env) /\ Binds(env, ClassSlots(r, k))
    BY <1>1 DEF LoopInv, Typed, FrameTyped
  <1>3. PICK k \in DOMAIN Body[r] : \E env :
          frame = FrameOf(r, k, env) /\ Binds(env, ClassSlots(r, k))
    BY <1>2
  <1>4. PICK env : frame = FrameOf(r, k, env) /\ Binds(env, ClassSlots(r, k))
    BY <1>3
  <1>5. Doing(r, k, env) /\ IInv
    BY <1>4 DEF Doing, LoopInv
  <1>6. ~ ApplyHide
    BY <1>5, DoingIs DEF ApplyHide, NoHides
  <1> QED BY <1>1, <1>5, <1>6, LetDoes, SetDoes, UnionDoes
(* One more operation is done.                                              *)
LEMMA AppliedNext ==
    ASSUME NEW r, NEW k \in Nat \ {0}, NEW old, NEW e, NEW x, Applied(r, k - 1, old, e)',
           Binds(e, ClassSlots(r, k))', Done(Body[r][k], e, x)'
    PROVE  Applied(r, k, old, x)'
  <1>1. PICK s : Trace(r, k - 1, s)' /\ s[0] = old /\ s[k - 1] = e
    BY DEF Applied
  <1>2. PICK t : t = [j \in 0..k |-> IF j = k THEN x ELSE s[j]]
    OBVIOUS
  <1>3. t[k] = x /\ t[0] = old /\ t[k - 1] = e /\ \A j \in 0..(k - 1) : t[j] = s[j]
    BY <1>1, <1>2
  <1>4. ASSUME NEW j \in 1..k
        PROVE  Binds(t[j - 1], ClassSlots(r, j))' /\ Done(Body[r][j], t[j - 1], t[j])'
    <2>1. CASE j = k
      BY <1>3, <2>1
    <2>2. CASE j # k
      <3>1. j \in 1..(k - 1) /\ j - 1 \in 0..(k - 1) /\ j \in 0..(k - 1)
        BY <2>2
      <3>2. t[j] = s[j] /\ t[j - 1] = s[j - 1]
        BY <1>3, <3>1
      <3>3. Binds(s[j - 1], ClassSlots(r, j))' /\ Done(Body[r][j], s[j - 1], s[j])'
        BY <1>1, <3>1 DEF Trace
      <3> QED BY <3>2, <3>3
    <2> QED BY <2>1, <2>2
  <1>5. Trace(r, k, t)'
    BY <1>4 DEF Trace
  <1> QED BY <1>3, <1>5 DEF Applied

LEMMA ApplyProgress ==
    ASSUME IInv, IInv', Made \subseteq Made', Progress,
           NEW r, NEW k, NEW env, Doing(r, k, env), Achieved(r, k, env),
           UNCHANGED <<consumed, left, work>>
    PROVE  Progress'
  <1>1. /\ Now.rule = r /\ Now.op = k /\ Now.env = env
        /\ k \in 1..Len(Body[r]) /\ Len(Body[r]) \in Nat /\ r \in Rules
        /\ Binds(env, ClassSlots(r, k))
    BY DoingIs DEF Doing
  <1>2. PICK x : Continue(x) /\ Done(Body[r][k], env, x)'
    BY DEF Achieved
  <1>3. frame' = IF k = Len(Body[r]) THEN <<>> ELSE FrameOf(r, k + 1, x)
    BY <1>1, <1>2 DEF Continue
  <1>4. Binds(env, ClassSlots(r, k))'
    BY <1>1 DEF Binds
  <1> SUFFICES ASSUME NEW q \in Rules, NEW old \in consumed[q]
               PROVE  \/ q \in Range(left) /\ old \in work[q]
                      \/ /\ frame' # <<>> /\ Now'.rule = q
                         /\ Applied(q, Now.op - 1, old, Now.env)'
                      \/ \E y : Applied(q, Len(Body[q]), old, y)'
    BY DEF Progress
  <1>5. CASE q \in Range(left) /\ old \in work[q]
    BY <1>5
  <1>6. CASE q = r /\ Applied(r, k - 1, old, env)
    <2>1. Applied(r, k - 1, old, env)'
      BY <1>6, AppliedStays DEF Achieved
    <2>2. Applied(r, k, old, x)'
      BY <1>1, <1>2, <1>4, <2>1, AppliedNext
    <2>3. CASE k = Len(Body[r])
      BY <1>6, <2>2, <2>3
    <2>4. CASE k # Len(Body[r])
      <3>1. frame' = FrameOf(r, k + 1, x)
        BY <1>3, <2>4
      <3>2. frame' # <<>> /\ Now' = [rule |-> r, op |-> k + 1, env |-> x]
        BY <3>1 DEF FrameOf, Now
      <3>3. Now'.rule = r /\ Now'.op - 1 = k /\ Now'.env = x
        BY <3>2, <1>1
      <3> QED BY <1>6, <2>2, <3>2, <3>3
    <2> QED BY <2>3, <2>4
  <1>7. ASSUME NEW y, Applied(q, Len(Body[q]), old, y)
        PROVE  Applied(q, Len(Body[q]), old, y)'
    BY <1>7, AppliedStays DEF Achieved
  <1> QED BY <1>1, <1>5, <1>6, <1>7 DEF Progress

(* The next binding is taken up.                                            *)
LEMMA TakeProgress ==
    ASSUME LoopInv, Progress, BeginApply
    PROVE  Progress'
  <1>1. /\ frame = <<>> /\ UNCHANGED <<vars, consumed>>
        /\ \/ NextRule /\ UNCHANGED frame
           \/ \E env \in Bindings : NextBinding(env) /\ BeginFrame(Head(left), env)
        /\ left # <<>> /\ left \in Seq(Rules)
    BY DEF BeginApply, NextRule, NextBinding, LoopInv, Typed, WorkTyped
  <1>2. IInv' /\ Onward /\ Made \subseteq Made'
    <2>1. UNCHANGED <<root, nextFact, live, recipe, pending>>
      BY <1>1 DEF vars, unionVars, rowVars
    <2>2. Onward
      BY <2>1, QuietOnward
    <2> QED BY <1>1, <2>2, StutterEffected DEF LoopInv, Effected
  <1> SUFFICES ASSUME NEW q \in Rules, NEW old \in consumed[q]
               PROVE  \/ q \in Range(left') /\ old \in work'[q]
                      \/ /\ frame' # <<>> /\ Now'.rule = q
                         /\ Applied(q, Now.op - 1, old, Now.env)'
                      \/ \E y : Applied(q, Len(Body[q]), old, y)'
    BY <1>1 DEF Progress
  <1>3. ASSUME NEW y, Applied(q, Len(Body[q]), old, y)
        PROVE  Applied(q, Len(Body[q]), old, y)'
    BY <1>2, <1>3, AppliedStays DEF LoopInv
  <1>4. Head(left) \in Rules /\ \A p \in Range(left) : p = Head(left) \/ p \in Range(Tail(left))
    <2>0. left \in Seq(Rules) /\ left # <<>>
      BY <1>1
    <2>1. \A i \in DOMAIN left : i # 1 =>
             i - 1 \in DOMAIN Tail(left) /\ Tail(left)[i - 1] = left[i]
      BY <2>0
    <2>2. Head(left) = left[1] /\ 1 \in DOMAIN left /\ left[1] \in Rules
      BY <2>0
    <2> QED BY <2>1, <2>2 DEF Range
  <1>5. CASE q \in Range(left) /\ old \in work[q]
    <2>1. CASE NextRule
      <3>1. q # Head(left) /\ left' = Tail(left) /\ work' = work
        BY <1>5, <2>1 DEF NextRule
      <3> QED BY <1>4, <1>5, <3>1
    <2>2. ASSUME NEW env, NextBinding(env), BeginFrame(Head(left), env)
          PROVE  \/ q \in Range(left') /\ old \in work'[q]
                 \/ /\ frame' # <<>> /\ Now'.rule = q
                    /\ Applied(q, Now.op - 1, old, Now.env)'
      <3>1. /\ left' = left
            /\ work' = [work EXCEPT ![Head(left)] = @ \ {env}]
            /\ DOMAIN work = Rules
            /\ frame' = FrameOf(Head(left), 1, env)
        BY <2>2 DEF NextBinding, BeginFrame, LoopInv, Typed, WorkTyped
      <3>2. CASE q # Head(left) \/ old # env
        BY <1>4, <1>5, <3>1, <3>2
      <3>3. CASE q = Head(left) /\ old = env
        <4>1. frame' # <<>> /\ Now' = [rule |-> q, op |-> 1, env |-> old]
          BY <3>1, <3>3 DEF FrameOf, Now
        <4>2. Now'.rule = q /\ Now'.op - 1 = 0 /\ Now'.env = old
          BY <4>1
        <4>3. PICK s : s = [j \in {0} |-> old]
          OBVIOUS
        <4>4. s[0] = old /\ Trace(q, 0, s)'
          BY <4>3 DEF Trace
        <4>5. Applied(q, 0, old, old)'
          BY <4>4 DEF Applied
        <4> QED BY <4>1, <4>2, <4>5
      <3> QED BY <3>2, <3>3
    <2> QED BY <1>1, <2>1, <2>2
  <1> QED BY <1>1, <1>3, <1>5 DEF Progress
------------------------------------------------------------------------------
(* SInv holds at first and every step of the program keeps it.              *)
LEMMA InitSInv == InitExecutor => SInv
  <1> SUFFICES ASSUME InitExecutor PROVE SInv
    OBVIOUS
  <1>1. /\ phase = "idle" /\ epoch = 0 /\ live = {} /\ dirty = {} /\ pending = <<>>
        /\ left = <<>> /\ frame = <<>> /\ consumed = [r \in Rules |-> {}]
        /\ steps = <<>> /\ running = None
    BY DEF InitExecutor, InitLoop, Init, Schedule!InitSchedule
  <1>2. DOMAIN steps = {}
    BY <1>1
  <1> QED BY <1>1, <1>2 DEF SInv, Progress, Still, UnitRows, Stamped, Ran

(* A step that leaves the bindings and the schedule alone.                  *)
LEMMA KeepSInv ==
    ASSUME IInv, IInv', SInv, Onward, Keeps, Made \subseteq Made', Still',
           UNCHANGED <<consumed, left, work, frame, watermarks, steps, running, epoch,
                       loading>>
    PROVE  SInv'
  <1>1. Progress'
    BY ProgressStays DEF SInv
  <1>2. UnitRows' /\ Stamped'
    BY RowsKeep DEF SInv
  <1>3. Ran'
    BY DEF SInv, Ran
  <1> QED BY <1>1, <1>2, <1>3 DEF SInv

LEMMA SameSInv ==
    ASSUME XInv, SInv, UNCHANGED <<runLoopVars, steps, running>>
    PROVE  SInv'
  <1>1. /\ UNCHANGED vars
        /\ UNCHANGED <<consumed, left, work, frame, watermarks, epoch, loading, phase, pending>>
    BY DEF runLoopVars, matchVars, applyVars, vars, unionVars
  <1>2. IInv' /\ Made \subseteq Made'
    BY <1>1, StutterEffected DEF XInv, LoopInv, Effected
  <1>3. Onward /\ Keeps
    <2>1. RequestUnion(0, 0) \/ UNCHANGED vars
      BY <1>1
    <2> QED BY <2>1, RequestKeeps DEF XInv, LoopInv, SInv
  <1>4. Still'
    BY <1>1 DEF SInv, Still
  <1> QED BY <1>1, <1>2, <1>3, <1>4, KeepSInv DEF XInv, LoopInv

(* Loading and resuming.                                                    *)
LEMMA LoadSInv == ASSUME XInv, XInv', SInv, Load, UNCHANGED scheduleVars PROVE SInv'
  <1>1. PICK t \in Virtual : \E key \in [1..Arity[t] -> 1..NumImports] :
          \E v \in IF t \in Constructors THEN 1..NumImports ELSE {Unit} :
            \E hide \in BOOLEAN : Activate(t, key, v, hide)
    BY DEF Load
  <1>2. PICK key \in [1..Arity[t] -> 1..NumImports],
             v \in IF t \in Constructors THEN 1..NumImports ELSE {Unit}, hide \in BOOLEAN :
          Activate(t, key, v, hide)
    BY <1>1
  <1>3. /\ IInv /\ IInv' /\ Stamped
        /\ t \notin Constructors => v = Unit
        /\ running # None \/ epoch = 0
    BY <1>2 DEF XInv, LoopInv, SInv, Stamped, Load
  <1>4. Onward /\ Keeps
    BY <1>2, <1>3, WriteKeeps
  <1>5. Made \subseteq Made'
    <2>1. nextFact' = nextFact + 1 /\ nextFact \in Nat
      BY <1>2, <1>3, BoundsAssumption DEF Activate, IInv, TypeOK
    <2> QED BY <2>1, BoundsAssumption DEF Made
  <1>6. /\ UNCHANGED <<phase, pending, epoch>>
        /\ UNCHANGED <<consumed, left, work, frame, watermarks, loading, steps, running>>
    BY <1>2 DEF Activate, unionVars, Load, matchVars, applyVars, scheduleVars
  <1>7. Still'
    BY <1>6 DEF SInv, Still
  <1> QED BY <1>3, <1>4, <1>5, <1>6, <1>7, KeepSInv

LEMMA EndLoadSInv == ASSUME XInv, XInv', SInv, EndLoad, UNCHANGED scheduleVars PROVE SInv'
  <1>1. /\ UNCHANGED <<root, nextFact, live, recipe, pending, stamp, dirty, phase, epoch>>
        /\ UNCHANGED <<consumed, left, work, frame, watermarks, steps, running>>
        /\ loading /\ ~loading' /\ changed' = FALSE
    BY DEF EndLoad, unionVars, matchVars, applyVars, scheduleVars
  <1>2. IInv /\ IInv' /\ Made \subseteq Made'
    BY <1>1 DEF XInv, LoopInv, Made
  <1>3. Onward
    BY <1>1, QuietOnward
  <1>4. Progress'
    BY <1>1, <1>2, <1>3, ProgressStays DEF SInv
  <1>5. dirty = {} /\ running = None
    BY <1>1 DEF XInv, LoopInv, IInv, QuietOutsideRepair, Typed, Loading, InStep
  <1>6. \A k : Changing(k) => Changing(k)'
    BY <1>1, <1>5 DEF Changing
  <1>7. Stamped'
    <2>1. \A d \in live' : Changing(stamp[d])'
      BY <1>1, <1>6 DEF SInv, Stamped, Changing
    <2> QED BY <1>1, <1>5, <2>1 DEF Stamped
  <1>8. Still' /\ UnitRows' /\ Ran'
    BY <1>1 DEF SInv, Still, UnitRows, Ran
  <1> QED BY <1>4, <1>7, <1>8 DEF SInv

LEMMA ResumeSInv == ASSUME XInv, XInv', SInv, Resume, UNCHANGED scheduleVars PROVE SInv'
  <1>1. /\ UNCHANGED <<root, nextFact, live, recipe, stamp, changed, phase, epoch>>
        /\ UNCHANGED <<consumed, left, work, frame, watermarks, loading, steps, running>>
        /\ phase = "idle" /\ pending' = <<>> /\ dirty' = {}
    BY DEF Resume, Rebuild, BetweenRuns, applyVars, scheduleVars
  <1>2. pending' = pending
    BY <1>1 DEF SInv, Still
  <1>3. IInv /\ IInv' /\ Made \subseteq Made'
    BY <1>1 DEF XInv, LoopInv, Made
  <1>4. Onward
    BY <1>1, <1>2, QuietOnward
  <1>5. Keeps
    BY <1>1 DEF Keeps
  <1>6. Still'
    BY <1>1, <1>2 DEF SInv, Still
  <1> QED BY <1>1, <1>3, <1>4, <1>5, <1>6, KeepSInv

(* A Run starts: what it found is to be applied.                            *)
LEMMA BeginStepSInv == ASSUME XInv, XInv', SInv, BeginStep PROVE SInv'
  <1> DEFINE set == Node.set
  <1>1. Schedule!EvalRun /\ StartRun(set)
    BY DEF BeginStep
  <1>2. PICK found : StartWith(set, found) /\ found = FoundBy(set)
    BY <1>1 DEF StartRun
  <1>3. running = None /\ running' = set /\ steps' = steps
    BY <1>1 DEF Schedule!EvalRun, Schedule!Evaluating, Schedule!Popping, Node
  <1> HIDE DEF set
  <1>4. /\ UNCHANGED <<root, nextFact, live, recipe, stamp, dirty, pending, frame, loading>>
        /\ phase = "idle" /\ epoch' = epoch + 1 /\ changed' = FALSE /\ phase' = "rhs"
        /\ work' = found /\ left' = set /\ ~loading
        /\ watermarks' = [r \in Rules |-> IF r \in Range(set) THEN epoch + 1
                                          ELSE watermarks[r]]
        /\ consumed' = [r \in Rules |-> consumed[r] \cup found[r]]
    BY <1>2 DEF StartWith, BeginRun, unionVars
  <1>5. /\ left = <<>> /\ frame = <<>> /\ pending = <<>> /\ dirty = {}
        /\ Len(steps) = epoch /\ steps \in Seq([ruleset : RuleSets, changed : BOOLEAN])
    BY <1>3, <1>4 DEF SInv, Still, XInv, InStep, LoopInv, IInv, QuietOutsideRepair, StackTyped
  <1>6. DOMAIN steps = 1..epoch /\ epoch \in Nat
    BY <1>5, LenProperties
  <1>7. IInv /\ IInv' /\ Made \subseteq Made'
    BY <1>4 DEF XInv, LoopInv, Made
  <1>8. Onward
    BY <1>4, QuietOnward
  <1>9. Progress'
    <2> SUFFICES ASSUME NEW q \in Rules, NEW old \in consumed'[q]
                 PROVE  \/ q \in Range(left') /\ old \in work'[q]
                        \/ \E y : Applied(q, Len(Body[q]), old, y)'
      BY DEF Progress
    <2>1. CASE old \in found[q]
      BY <1>2, <1>4, <2>1 DEF FoundBy
    <2>2. CASE old \in consumed[q]
      <3>1. \E y : Applied(q, Len(Body[q]), old, y)
        BY <1>5, <2>2 DEF SInv, Progress, Range
      <3> QED BY <3>1, <1>7, <1>8, AppliedStays
    <2> QED BY <1>4, <2>1, <2>2
  <1>10. \A k : Changing(k) => Changing(k)'
    BY <1>3 DEF Changing
  <1>11. Stamped'
    <2>1. \A d \in live' : Changing(stamp[d])'
      BY <1>4, <1>10 DEF SInv, Stamped, Changing
    <2> QED BY <1>4, <1>5, <2>1 DEF Stamped
  <1>12. Ran'
    <2>1. \A r \in Range(set) : r \in Rules => watermarks'[r] = epoch + 1
      BY <1>4
    <2>2. Range(set) \subseteq Rules
      <3>1. set \in RuleSets
        BY <1>3, <1>4 DEF XInv, StackTyped, InStep
      <3> QED BY <3>1, RulesAssumption, ElementOfSeq DEF Range
    <2>3. \A i \in DOMAIN steps : \A r \in Range(steps[i].ruleset) :
            watermarks'[r] >= i
      <3> SUFFICES ASSUME NEW i \in DOMAIN steps, NEW r \in Range(steps[i].ruleset)
                   PROVE  watermarks'[r] >= i
        OBVIOUS
      <3>0. steps[i] \in [ruleset : RuleSets, changed : BOOLEAN]
        <4>1. PICK S : S = [ruleset : RuleSets, changed : BOOLEAN]
          OBVIOUS
        <4>2. steps \in Seq(S)
          BY <1>5, <4>1
        <4>3. steps[i] \in S
          BY <4>2
        <4> QED BY <4>1, <4>3
      <3>1. steps[i].ruleset \in RuleSets /\ i <= epoch /\ i \in Nat
        BY <3>0, <1>6
      <3>2. r \in Rules
        BY <3>1, RulesAssumption, ElementOfSeq DEF Range
      <3>3. watermarks[r] >= i
        BY DEF SInv, Ran
      <3> QED BY <1>4, <1>6, <3>1, <3>2, <3>3
    <2> QED BY <1>3, <1>4, <1>6, <2>1, <2>2, <2>3 DEF Ran
  <1>13. Still' /\ UnitRows'
    BY <1>4, <1>5 DEF SInv, Still, UnitRows
  <1> QED BY <1>9, <1>11, <1>12, <1>13 DEF SInv
(* The Run's own steps.                                                     *)
LEMMA ApplySInv ==
    ASSUME NoHides, XInv, XInv', SInv, Apply, UNCHANGED scheduleVars
    PROVE  SInv'
  <1>1. /\ UNCHANGED <<consumed, left, work, watermarks, loading, steps, running>>
        /\ phase = "rhs"
    BY DEF Apply, matchVars, scheduleVars
  <1>2. LoopInv /\ IInv /\ IInv' /\ UnitRows /\ Stamped /\ running # None /\ Progress
    BY <1>1 DEF XInv, LoopInv, SInv, InStep
  <1>3. PICK r, k, env : Doing(r, k, env) /\ Achieved(r, k, env)
    BY <1>2, ApplyDoes
  <1>4. Made \subseteq Made' /\ phase' = phase /\ epoch' = epoch
    BY <1>2, ApplyEffects DEF Effected, RowsMove
  <1>5. Progress'
    BY <1>1, <1>2, <1>3, <1>4, ApplyProgress
  <1>6. UnitRows' /\ Stamped'
    BY <1>1, <1>2, <1>3, <1>4, RowsKeep DEF Achieved
  <1>7. Still'
    BY <1>1, <1>4 DEF Still
  <1>8. Ran'
    BY <1>1, <1>4 DEF SInv, Ran
  <1> QED BY <1>5, <1>6, <1>7, <1>8 DEF SInv

LEMMA TakeSInv ==
    ASSUME XInv, XInv', SInv, BeginApply, UNCHANGED scheduleVars
    PROVE  SInv'
  <1>1. /\ UNCHANGED <<live, recipe, stamp, dirty, changed, phase, epoch>>
        /\ UNCHANGED <<watermarks, loading, steps, running>>
        /\ phase = "rhs"
    BY DEF BeginApply, vars, unionVars, rowVars, matchVars, scheduleVars
  <1>2. Progress'
    BY TakeProgress DEF XInv, SInv
  <1>3. Keeps
    BY <1>1 DEF Keeps, SInv, Stamped
  <1>4. UnitRows' /\ Stamped'
    BY <1>1, <1>3, RowsKeep DEF SInv
  <1>5. Still' /\ Ran'
    BY <1>1 DEF SInv, Still, Ran
  <1> QED BY <1>2, <1>4, <1>5 DEF SInv

LEMMA RepairSInv ==
    ASSUME XInv, XInv', SInv, EndEffects \/ RepairRun, UNCHANGED scheduleVars
    PROVE  SInv'
  <1>1. /\ UNCHANGED <<consumed, left, work, frame, watermarks, loading, steps, running>>
        /\ IInv /\ IInv' /\ running # None
    BY DEF EndEffects, RepairRun, BeginRepair, ApplyUnion, RepairFact, applyVars, matchVars,
           scheduleVars, XInv, LoopInv, InStep, NextDirty
  <1>2. CASE EndEffects
    <2>1. /\ UNCHANGED <<root, nextFact, live, recipe, stamp, dirty, pending, changed, epoch>>
          /\ left = <<>> /\ frame = <<>> /\ phase' = "repair"
      BY <1>2 DEF EndEffects, BeginRepair, unionVars, rowVars
    <2>2. Onward /\ Made \subseteq Made'
      BY <2>1, QuietOnward DEF Made
    <2>3. Keeps
      BY <2>1 DEF Keeps, SInv, Stamped
    <2>4. Still'
      BY <1>1, <2>1 DEF Still
    <2> QED BY <1>1, <2>1, <2>2, <2>3, <2>4, KeepSInv
  <1>3. CASE ApplyUnion
    <2>1. /\ phase' = phase /\ phase = "repair"
          /\ UNCHANGED <<nextFact, live, recipe, stamp, epoch>>
      BY <1>3 DEF ApplyUnion
    <2>2. /\ dirty' = dirty \/ changed'
          /\ changed' = changed \/ changed' = TRUE
      BY <1>3 DEF ApplyUnion, LinkRoots
    <2>3. Keeps
      BY <2>1, <2>2 DEF Keeps, SInv, Stamped
    <2>4. Still' /\ Made \subseteq Made'
      BY <1>1, <2>1 DEF SInv, Still, Made
    <2> QED BY <1>1, <1>3, <2>1, <2>3, <2>4, UnionOnward, KeepSInv
  <1>4. ASSUME NEW f \in FactRefs, RepairFact(f) PROVE SInv'
    <2>1. /\ phase' = phase /\ phase = "repair" /\ f \in dirty
          /\ dirty' = dirty \ {f}
          /\ UNCHANGED <<nextFact, recipe, changed, epoch>>
      BY <1>4 DEF RepairFact, NextDirty, First
    <2>2. changed /\ DOMAIN stamp = Dependency
      BY <1>1, <2>1 DEF SInv, Stamped, IInv, TypeOK
    <2>3. \E g \in FactRefs : stamp' = [stamp EXCEPT ![g] = epoch]
      BY <1>4 DEF RepairFact, Reindex, Collapse
    <2>4. live' \subseteq live
      BY <1>4 DEF RepairFact, Reindex, Collapse
    <2>5. Keeps
      BY <1>1, <2>1, <2>2, <2>3, <2>4, Numbering DEF Keeps
    <2>6. Still' /\ Made \subseteq Made'
      BY <1>1, <2>1 DEF SInv, Still, Made
    <2> QED BY <1>1, <1>4, <2>1, <2>5, <2>6, RepairOnward, KeepSInv
  <1> QED BY <1>2, <1>3, <1>4 DEF RepairRun

(* A published Run is a step of its ruleset.                                *)
LEMMA EndStepSInv == ASSUME XInv, XInv', SInv, EndStep PROVE SInv'
  <1> DEFINE step == [ruleset |-> running, changed |-> changed]
             n == Len(steps)
  <1>1. /\ UNCHANGED <<root, nextFact, live, recipe, stamp, dirty, pending, changed, epoch>>
        /\ UNCHANGED <<consumed, left, work, frame, watermarks, loading>>
        /\ phase = "repair" /\ phase' = "idle" /\ pending = <<>> /\ dirty = {}
        /\ running # None /\ running' = None
        /\ steps' = Append(steps, step)
    BY DEF EndStep, PublishRun, Publish, Schedule!EndRun, unionVars, rowVars, applyVars
  <1>2. n + 1 = epoch /\ n \in Nat /\ steps \in Seq([ruleset : RuleSets, changed : BOOLEAN])
    BY <1>1, LenProperties DEF XInv, InStep, StackTyped
  <1>3. IInv /\ IInv' /\ Onward /\ Made \subseteq Made'
    BY <1>1, QuietOnward DEF XInv, LoopInv, Made
  <1>4. Progress'
    BY <1>1, <1>3, ProgressStays DEF SInv
  <1> HIDE DEF step
  <1>5. /\ DOMAIN steps = 1..n /\ DOMAIN steps' = 1..(n + 1)
        /\ \A i \in 1..n : steps'[i] = steps[i]
        /\ steps'[n + 1] = step
    <2>1. PICK S : S = [ruleset : RuleSets, changed : BOOLEAN]
      OBVIOUS
    <2>2. steps \in Seq(S)
      BY <1>2, <2>1
    <2> HIDE DEF n
    <2>3. /\ DOMAIN Append(steps, step) = 1..(n + 1)
          /\ \A i \in 1..n : Append(steps, step)[i] = steps[i]
          /\ Append(steps, step)[n + 1] = step
          /\ DOMAIN steps = 1..n
      BY <2>2 DEF n
    <2> QED BY <1>1, <2>3
  <1> HIDE DEF n
  <1>6. step.changed = changed /\ step.ruleset = running
    BY DEF step
  <1>7. \A k : Changing(k) => Changing(k)'
    <2> SUFFICES ASSUME NEW k, Changing(k) PROVE Changing(k)'
      OBVIOUS
    <2>1. CASE k \in DOMAIN steps /\ steps[k].changed
      BY <1>2, <1>5, <2>1 DEF Changing
    <2>2. CASE k = epoch /\ changed
      <3>1. k \in DOMAIN steps' /\ steps'[k] = step
        BY <1>2, <1>5, <2>2
      <3>2. steps'[k].changed
        BY <3>1, <1>6, <2>2, Zenon
      <3> QED BY <3>1, <3>2 DEF Changing
    <2> QED BY <2>1, <2>2 DEF Changing
  <1>8. Stamped'
    <2>1. \A d \in live' : Changing(stamp[d])'
      BY <1>1, <1>7 DEF SInv, Stamped, Changing
    <2> QED BY <1>1, <2>1 DEF SInv, Stamped
  <1>9. Ran'
    <2>1. ASSUME NEW i \in DOMAIN steps', NEW r \in Range(steps'[i].ruleset)
          PROVE  watermarks'[r] >= i
      <3>1. CASE i \in 1..n
        BY <1>1, <1>5, <2>1, <3>1 DEF SInv, Ran
      <3>2. CASE i = n + 1
        BY <1>1, <1>2, <1>5, <1>6, <2>1, <3>2 DEF SInv, Ran
      <3> QED BY <1>2, <1>5, <3>1, <3>2
    <2> QED BY <1>1, <2>1 DEF Ran
  <1>10. Still' /\ UnitRows'
    BY <1>1 DEF SInv, Still, UnitRows
  <1> QED BY <1>4, <1>8, <1>9, <1>10 DEF SInv

LEMMA NextSInv ==
    ASSUME NoHides, XInv, SInv, [NextExecutor]_executorVars
    PROVE  SInv'
  <1>1. XInv'
    BY NextExecutorInv
  <1>2. CASE Bootstrap \/ Restart
    BY <1>1, <1>2, LoadSInv, EndLoadSInv, ResumeSInv DEF Bootstrap, Restart
  <1>3. CASE BeginStep
    BY <1>1, <1>3, BeginStepSInv
  <1>4. CASE WorkStep
    BY <1>1, <1>4, TakeSInv, ApplySInv, RepairSInv DEF WorkStep
  <1>5. CASE EndStep
    BY <1>1, <1>5, EndStepSInv
  <1>6. CASE ProbeStep \/ ControlStep \/ UNCHANGED executorVars
    <2>1. UNCHANGED <<runLoopVars, steps, running>>
      BY <1>6 DEF ProbeStep, ControlStep, executorVars, Schedule!EvalProbe,
                  Schedule!Interpret, Schedule!EvalRun,
                  Schedule!EvalSequence, Schedule!EvalRepeat, Schedule!EvalSaturate,
                  Schedule!RepeatAgain, Schedule!SaturateAgain
    <2> QED BY <2>1, SameSInv
  <1> QED BY <1>2, <1>3, <1>4, <1>5, <1>6 DEF NextExecutor, ExecutorStep
------------------------------------------------------------------------------
(* What was owed is equal once nothing is pending.                          *)
LEMMA OwedEqual ==
    ASSUME IInv, pending = <<>>, NEW a \in Ids, NEW b \in Ids, Owed(a, b)
    PROVE  Canon(a) = Canon(b)
  <1>1. root \in [Ids -> Ids] /\ \A x \in Ids : root[root[x]] = root[x]
    BY DEF IInv, TypeOK, RootIsOldest
  <1>2. DOMAIN pending = {}
    OBVIOUS
  <1>3. Agrees(root)
    BY <1>1, <1>2 DEF Agrees
  <1>4. root[a] = root[b]
    BY <1>1, <1>3 DEF Owed
  <1> QED BY <1>4 DEF Canon

(* In a published graph the fact that carries a key is the one hit.         *)
LEMMA CarriesHit ==
    ASSUME IInv, dirty = {}, NEW op, NEW e, op.table \in Virtual,
           KeyIn(op, e) \in Keys(op.table), NEW g, Carries(g, op, e)
    PROVE  Hits(op, e) = {g}
  <1> DEFINE t == op.table
             key == KeyIn(op, e)
  <1>1. /\ g \in live \cap FactRefs /\ recipe[g].table = t
        /\ CanonKey(recipe[g].key) = key
        /\ t \in Tables /\ key \in Keys(t)
    BY TablesAssumption DEF Carries
  <1>2. CanonKey(key) = key
    <2>1. /\ recipe[g].key \in [1..Arity[t] -> Made]
          /\ Made \subseteq Ids
      BY <1>1, Numbering DEF IInv, TypeOK, Made
    <2>2. key = [i \in 1..Arity[t] |-> Canon(recipe[g].key[i])]
      BY <1>1, <2>1 DEF CanonKey
    <2> HIDE DEF key
    <2>3. \A i \in 1..Arity[t] : Canon(key[i]) = key[i]
      BY <2>2, CanonTwice DEF IInv
    <2>4. CanonKey(key) = [i \in 1..Arity[t] |-> Canon(key[i])]
      BY <2>2 DEF CanonKey
    <2> QED BY <2>2, <2>3, <2>4
  <1>3. \A f \in Matching(t, key) : f \in FactRefs /\ f \in live /\ SameKey(f, g)
    <2> SUFFICES ASSUME NEW f \in Matching(t, key)
                 PROVE  f \in FactRefs /\ f \in live /\ SameKey(f, g)
      OBVIOUS
    <2>1. f \in FactRefs
      BY <1>1, MatchIsFact
    <2> QED BY <1>1, <1>2, <2>1 DEF Matching, SameKey
  <1>4. \A f \in Matching(t, key) : f = g
    BY <1>1, <1>3 DEF IInv, CleanUnique
  <1>5. g \in Matching(t, key)
    <2>1. /\ bucketOf[g] = HashOf(Row(g).table, Row(g).key)
          /\ g \in intern[bucketOf[g]]
      BY <1>1 DEF IInv, CleanIndexed
    <2>2. Row(g).table = t /\ Row(g).key = key
      BY <1>1 DEF Row
    <2>3. g \in intern[HashOf(t, CanonKey(key))]
      BY <1>2, <2>1, <2>2
    <2> QED BY <1>1, <1>2, <2>3 DEF Matching
  <1>6. g \in Int
    BY <1>1 DEF FactRefs
  <1>7. First(g, Matching(t, key))
    BY <1>4, <1>5, <1>6 DEF First
  <1>8. \A f \in FactRefs : First(f, Matching(t, key)) => f = g
    BY <1>4 DEF First
  <1> QED BY <1>1, <1>7, <1>8 DEF Hits

(* The slots an operation reads, canonical or not, name the same key.       *)
LEMMA CanonKeyIn ==
    ASSUME IInv, NEW op, NEW e, NEW slots, Binds(e, slots),
           DOMAIN op.args = 1..Arity[op.table], Range(op.args) \subseteq slots
    PROVE  /\ KeyIn(op, CanonEnv(e)) = KeyIn(op, e)
           /\ KeyIn(op, e) \in Keys(op.table)
  <1>1. \A i \in DOMAIN op.args : op.args[i] \in DOMAIN e /\ e[op.args[i]] \in Made
    BY DEF Binds, Range
  <1>2. \A i \in DOMAIN op.args :
          /\ Canon(CanonEnv(e)[op.args[i]]) = Canon(e[op.args[i]])
          /\ Canon(e[op.args[i]]) \in Ids
    <2> SUFFICES ASSUME NEW i \in DOMAIN op.args
                 PROVE  /\ Canon(CanonEnv(e)[op.args[i]]) = Canon(e[op.args[i]])
                        /\ Canon(e[op.args[i]]) \in Ids
      OBVIOUS
    <2>1. CanonEnv(e)[op.args[i]] = Canon(e[op.args[i]])
      BY <1>1 DEF CanonEnv
    <2>2. Canon(Canon(e[op.args[i]])) = Canon(e[op.args[i]])
      BY CanonTwice DEF IInv
    <2>3. e[op.args[i]] \in Ids /\ root[e[op.args[i]]] \in Ids
      BY <1>1, RootOfMade DEF IInv, TypeOK
    <2> QED BY <2>1, <2>2, <2>3 DEF Canon
  <1> QED BY <1>2 DEF KeyIn, Keys

(* Once the graph is published, what was done is settled, and doing it      *)
(* again leaves the canonical environment it left.                          *)
LEMMA DoneSettled ==
    ASSUME IInv, UnitRows, dirty = {}, pending = <<>>,
           NEW op, NEW e, NEW x, NEW slots, NEW all, ValidOp(op, slots, all),
           Binds(e, slots), Done(op, e, x)
    PROVE  Settled(op, CanonEnv(e)) /\ Result(op, CanonEnv(e)) = CanonEnv(x)
  <1>0. \A y \in slots : /\ e[y] \in Ids /\ e[y] \in Made
                         /\ Canon(CanonEnv(e)[y]) = Canon(e[y])
    <2> SUFFICES ASSUME NEW y \in slots
                 PROVE  /\ e[y] \in Ids /\ e[y] \in Made
                        /\ Canon(CanonEnv(e)[y]) = Canon(e[y])
      OBVIOUS
    <2>1. y \in DOMAIN e /\ e[y] \in Made
      BY DEF Binds
    <2>2. e[y] \in Ids
      BY <2>1, RootOfMade DEF IInv
    <2>3. CanonEnv(e)[y] = Canon(e[y])
      BY <2>1 DEF CanonEnv
    <2>4. Canon(Canon(e[y])) = Canon(e[y])
      BY CanonTwice DEF IInv
    <2> QED BY <2>1, <2>2, <2>3, <2>4
  <1>1. CASE op.op = "union" /\ UnionDone(op, e, x)
    <2>1. op.args[1] \in slots /\ op.args[2] \in slots
      BY <1>1 DEF ValidOp
    <2>2. x = e /\ Owed(e[op.args[1]], e[op.args[2]])
      BY <1>1 DEF UnionDone
    <2>3. Canon(e[op.args[1]]) = Canon(e[op.args[2]])
      BY <1>0, <2>1, <2>2, OwedEqual
    <2> QED BY <1>0, <1>1, <2>1, <2>2, <2>3 DEF Settled, Result
  <1>2. ASSUME NEW g, Carries(g, op, e), op.op # "union"
        PROVE  /\ Hits(op, CanonEnv(e)) = {g} /\ g \in FactRefs
               /\ recipe[g].table = op.table
               /\ op.table \in Constructors => recipe[g].value \in Ids
               /\ op.table \notin Constructors => recipe[g].value = Unit
    <2>1. /\ op.table \in Virtual
          /\ DOMAIN op.args = 1..Arity[op.table]
          /\ Range(op.args) \subseteq slots
      BY <1>2 DEF ValidOp
    <2>2. /\ KeyIn(op, CanonEnv(e)) = KeyIn(op, e)
          /\ KeyIn(op, e) \in Keys(op.table)
      BY <2>1, CanonKeyIn
    <2>3. Carries(g, op, CanonEnv(e))
      BY <1>2, <2>2 DEF Carries
    <2>4. Hits(op, CanonEnv(e)) = {g}
      BY <2>1, <2>2, <2>3, CarriesHit
    <2>5. g \in live \cap FactRefs /\ recipe[g].table = op.table
      BY <1>2 DEF Carries
    <2>6. op.table \in Constructors => recipe[g].value \in Ids
      <3>1. op.table \in Constructors => recipe[g].value \in Made
        BY <2>5 DEF IInv, TypeOK
      <3> QED BY <3>1, RootOfMade DEF IInv
    <2> QED BY <2>4, <2>5, <2>6 DEF UnitRows
  <1>3. CASE op.op = "set" /\ SetDone(op, e, x)
    <2>1. PICK g : /\ Carries(g, op, e)
                   /\ op.table \in Constructors => Owed(recipe[g].value, e[op.value])
      BY <1>3 DEF SetDone
    <2>2. op.table \in Constructors => Row(g).value = Canon(CanonEnv(e)[op.value])
      <3>1. op.table \in Constructors => op.value \in slots
        BY <1>3 DEF ValidOp
      <3>2. op.table \in Constructors =>
              recipe[g].value \in Ids /\ e[op.value] \in Ids
              /\ Canon(CanonEnv(e)[op.value]) = Canon(e[op.value])
        BY <1>0, <1>2, <1>3, <2>1, <3>1
      <3>3. op.table \in Constructors => Canon(recipe[g].value) = Canon(e[op.value])
        BY <2>1, <3>2, OwedEqual
      <3> QED BY <3>2, <3>3 DEF Row
    <2>3. Hits(op, CanonEnv(e)) = {g}
      BY <1>2, <1>3, <2>1
    <2> QED BY <1>3, <2>2, <2>3 DEF Settled, Result, SetDone
  <1>4. CASE op.op = "let" /\ LetDone(op, e, x)
    <2>1. PICK g, v : /\ Carries(g, op, e)
                      /\ x = Put(e, op.dst, v)
                      /\ IF op.table \in Constructors
                           THEN v \in Made /\ Owed(recipe[g].value, v) ELSE v = Unit
      BY <1>4 DEF LetDone
    <2>2. Row(g).value = Canon(v)
      <3>1. CASE op.table \in Constructors
        <4>1. v \in Ids /\ recipe[g].value \in Ids
          BY <1>2, <1>4, <2>1, <3>1, RootOfMade DEF IInv
        <4> QED BY <2>1, <3>1, <4>1, OwedEqual DEF Row
      <3>2. CASE op.table \notin Constructors
        BY <1>2, <1>4, <2>1, <3>2 DEF Row
      <3> QED BY <3>1, <3>2
    <2>3. Hits(op, CanonEnv(e)) = {g} /\ g \in FactRefs
      BY <1>2, <1>4, <2>1
    <2>4. (CHOOSE f \in FactRefs : f \in Hits(op, CanonEnv(e))) = g
      BY <2>3
    <2>5. Result(op, CanonEnv(e)) = Put(CanonEnv(e), op.dst, Canon(v))
      BY <1>4, <2>2, <2>4 DEF Result
    <2>6. CanonEnv(Put(e, op.dst, v)) = Put(CanonEnv(e), op.dst, Canon(v))
      BY DEF CanonEnv, Put
    <2> QED BY <1>4, <2>1, <2>3, <2>5, <2>6 DEF Settled
  <1> QED BY <1>1, <1>3, <1>4 DEF Done
------------------------------------------------------------------------------
(* The recursive function by which Inert replays a body has one solution.   *)
Replay(r, env, s) ==
    s = [i \in 0..Len(Body[r]) |->
            IF i = 0 THEN [ok |-> TRUE, env |-> env]
            ELSE IF ~s[i - 1].ok \/ ~Settled(Body[r][i], s[i - 1].env)
                 THEN [ok |-> FALSE, env |-> env]
            ELSE [ok |-> TRUE, env |-> Result(Body[r][i], s[i - 1].env)]]

LEMMA ReplayIsOne ==
    ASSUME NEW r \in Rules, NEW env, NEW F, NEW G, Replay(r, env, F), Replay(r, env, G)
    PROVE  F[Len(Body[r])] = G[Len(Body[r])]
  <1> DEFINE n == Len(Body[r])
             S == {i \in 0..n : \A j \in 0..i : F[j] = G[j]}
             Again(H, i) ==
                IF i = 0 THEN [ok |-> TRUE, env |-> env]
                ELSE IF ~H[i - 1].ok \/ ~Settled(Body[r][i], H[i - 1].env)
                     THEN [ok |-> FALSE, env |-> env]
                ELSE [ok |-> TRUE, env |-> Result(Body[r][i], H[i - 1].env)]
  <1>1. n \in Nat
    BY RulesAssumption, LenProperties DEF ValidRule
  <1>2. ASSUME NEW H, Replay(r, env, H), NEW i \in 0..n
        PROVE  H[i] = Again(H, i)
    <2>1. H = [m \in 0..n |-> Again(H, m)]
      BY <1>2 DEF Replay
    <2> HIDE DEF Again
    <2> QED BY <2>1
  <1> HIDE DEF n
  <1>3. F[0] = G[0]
    <2>1. F[0] = Again(F, 0) /\ G[0] = Again(G, 0)
      <3> HIDE DEF Again
      <3> QED BY <1>1, <1>2
    <2> QED BY <2>1
  <1>4. ASSUME NEW i \in 1..n, NEW j, j = i - 1, F[j] = G[j]
        PROVE  F[i] = G[i]
    <2>1. F[i] = Again(F, i) /\ G[i] = Again(G, i)
      <3> HIDE DEF Again
      <3> QED BY <1>1, <1>2
    <2>2. F[i - 1] = G[i - 1] /\ i # 0
      BY <1>1, <1>4
    <2>3. Again(F, i) = Again(G, i)
      BY <2>2
    <2> QED BY <2>1, <2>3
  <1> HIDE DEF Again
  <1>5. S \subseteq 0..n /\ 0 \in S
    BY <1>1, <1>3
  <1> HIDE DEF S
  <1>6. PICK m \in S : \A i \in S : i <= m
    BY <1>1, <1>5, Largest
  <1>7. m \in 0..n /\ \A j \in 0..m : F[j] = G[j]
    BY <1>6 DEF S
  <1>8. m = n
    <2> SUFFICES ASSUME m < n PROVE FALSE
      BY <1>1, <1>7
    <2>1. m + 1 \in 1..n /\ m = (m + 1) - 1 /\ F[m] = G[m]
      BY <1>1, <1>7
    <2>2. F[m + 1] = G[m + 1]
      <3>1. PICK k : k = m + 1
        OBVIOUS
      <3>2. k \in 1..n /\ m = k - 1
        BY <2>1, <3>1
      <3> QED BY <1>4, <2>1, <3>1, <3>2
    <2>3. \A j \in 0..(m + 1) : F[j] = G[j]
      BY <1>7, <2>2
    <2>4. m + 1 \in S
      BY <1>1, <1>7, <2>1, <2>3 DEF S
    <2> QED BY <1>6, <1>7, <2>4
  <1> QED BY <1>1, <1>7, <1>8 DEF n

LEMMA InertIs ==
    ASSUME NEW r \in Rules, NEW env, NEW G, Replay(r, env, G), G[Len(Body[r])].ok
    PROVE  Inert(r, env)
  <1>1. PICK F : F = CHOOSE s : Replay(r, env, s)
    OBVIOUS
  <1>2. Replay(r, env, F)
    BY <1>1
  <1>3. F[Len(Body[r])].ok
    BY <1>2, ReplayIsOne
  <1>4. Inert(r, env) <=> F[Len(Body[r])].ok
    BY <1>1 DEF Inert, Replay
  <1> QED BY <1>3, <1>4

(* In a published graph a binding that was applied is inert.                *)
LEMMA AppliedInert ==
    ASSUME IInv, UnitRows, dirty = {}, pending = <<>>, NEW r \in Rules, NEW old, NEW x,
           Applied(r, Len(Body[r]), old, x)
    PROVE  Inert(r, CanonEnv(old))
  <1> DEFINE n == Len(Body[r])
  <1>1. PICK t : Trace(r, n, t) /\ t[0] = old
    BY DEF Applied
  <1>2. n \in Nat /\ \A j \in 1..n :
          ValidOp(Body[r][j], ClassSlots(r, j), ClassSlots(r, n + 1))
    <2>1. Body[r] \in Seq(Range(Body[r]))
      BY RulesAssumption DEF ValidRule
    <2> QED BY <2>1, RulesAssumption, LenProperties DEF ValidRule
  <1>3. \A j \in 1..n : /\ Settled(Body[r][j], CanonEnv(t[j - 1]))
                        /\ Result(Body[r][j], CanonEnv(t[j - 1])) = CanonEnv(t[j])
    <2> SUFFICES ASSUME NEW j \in 1..n
                 PROVE  /\ Settled(Body[r][j], CanonEnv(t[j - 1]))
                        /\ Result(Body[r][j], CanonEnv(t[j - 1])) = CanonEnv(t[j])
      OBVIOUS
    <2>1. Binds(t[j - 1], ClassSlots(r, j)) /\ Done(Body[r][j], t[j - 1], t[j])
      BY <1>1 DEF Trace
    <2> QED BY <2>1, <1>2, DoneSettled
  <1>4. PICK G : G = [i \in 0..n |-> [ok |-> TRUE, env |-> CanonEnv(t[i])]]
    OBVIOUS
  <1>5. \A i \in 0..n : G[i].ok = TRUE /\ G[i].env = CanonEnv(t[i])
    BY <1>4
  <1>6. ASSUME NEW i \in 0..n
        PROVE  G[i] = IF i = 0 THEN [ok |-> TRUE, env |-> CanonEnv(old)]
                      ELSE IF ~G[i - 1].ok \/ ~Settled(Body[r][i], G[i - 1].env)
                           THEN [ok |-> FALSE, env |-> CanonEnv(old)]
                      ELSE [ok |-> TRUE, env |-> Result(Body[r][i], G[i - 1].env)]
    <2>1. CASE i = 0
      BY <1>1, <1>2, <1>4, <2>1
    <2>2. CASE i # 0
      <3>1. i \in 1..n /\ i - 1 \in 0..n
        BY <1>2, <2>2
      <3>2. G[i] = [ok |-> TRUE, env |-> CanonEnv(t[i])]
        BY <1>4
      <3> QED BY <1>3, <1>5, <2>2, <3>1, <3>2
    <2> QED BY <2>1, <2>2
  <1>7. Replay(r, CanonEnv(old), G)
    <2>1. G = [i \in 0..n |-> G[i]]
      BY <1>4
    <2> QED BY <1>6, <2>1 DEF Replay
  <1>8. G[n].ok
    BY <1>2, <1>5
  <1> QED BY <1>7, <1>8, InertIs

------------------------------------------------------------------------------
(* When a saturation is left, every match of a rule its last pass ran is of *)
(* rows older than the rule's Run, so it was applied, and is inert.         *)
LEMMA SaturationInert == XInv /\ SInv => SaturatedIsFixpoint
  <1> DEFINE start == Schedule!Top.start
  <1> SUFFICES ASSUME XInv, SInv, ~loading, Schedule!Popping("saturate"),
                      ~Schedule!ChangedSince(start),
                      NEW i \in (start + 1)..Len(steps), NEW r \in Range(steps[i].ruleset),
                      NEW env \in AllBindings(r)
               PROVE  Inert(r, env)
    BY DEF SaturatedIsFixpoint
  <1>1. running = None /\ tasks # <<>> /\ Schedule!Top.task = "saturate"
    BY DEF Schedule!Popping
  <1>2. start \in Nat /\ start <= Len(steps)
    <2>1. Schedule!Top \in TaskSet /\ start <= Len(steps)
      BY <1>1, RestTyped DEF XInv
    <2> QED BY <1>1, <2>1 DEF TaskSet, Evals, Loops
  <1> HIDE DEF start
  <1>3. /\ phase = "idle" /\ dirty = {} /\ pending = <<>> /\ left = <<>> /\ frame = <<>>
        /\ IInv /\ UnitRows
    BY <1>1 DEF XInv, InStep, LoopInv, IInv, QuietOutsideRepair, SInv, Still
  <1>4. /\ steps \in Seq([ruleset : RuleSets, changed : BOOLEAN])
        /\ Len(steps) \in Nat /\ DOMAIN steps = 1..Len(steps)
    BY LenProperties DEF XInv, StackTyped
  <1>5. i \in DOMAIN steps /\ i > start /\ i \in Nat
    BY <1>2, <1>4
  <1>6. r \in Rules /\ watermarks[r] >= i /\ watermarks[r] \in Nat
    <2>1. steps[i].ruleset \in RuleSets
      <3>1. PICK S : S = [ruleset : RuleSets, changed : BOOLEAN]
        OBVIOUS
      <3>2. steps \in Seq(S)
        BY <1>4, <3>1
      <3>3. steps[i] \in S
        BY <1>5, <3>2
      <3> QED BY <3>1, <3>3
    <2>2. r \in Rules
      BY <2>1, RulesAssumption, ElementOfSeq DEF Range
    <2> QED BY <1>5, <2>2 DEF SInv, Ran, XInv, LoopInv, Clocks
  <1>7. PICK w \in Witnesses(r) : env = Env(r, w)
    BY DEF AllBindings
  <1>8. \A p \in DOMAIN w : Old(r, w[p])
    <2> SUFFICES ASSUME NEW p \in DOMAIN w PROVE Old(r, w[p])
      OBVIOUS
    <2>1. w[p] \in live
      BY <1>6, WitnessIs
    <2>2. stamp[w[p]] <= start
      <3>1. \A k \in DOMAIN steps : steps[k].changed => k <= start
        BY <1>2, <1>4 DEF Schedule!ChangedSince
      <3> QED BY <1>1, <1>2, <2>1, <3>1 DEF SInv, Stamped, Changing
    <2>3. stamp[w[p]] \in Nat
      BY <1>3, <2>1 DEF IInv, TypeOK
    <2> QED BY <1>2, <1>3, <1>5, <1>6, <2>2, <2>3 DEF Old, Recent
  <1>9. PICK old \in consumed[r] : CanonEnv(old) = env
    BY <1>6, <1>7, <1>8 DEF XInv, LoopInv, Caught
  <1>10. PICK x : Applied(r, Len(Body[r]), old, x)
    BY <1>3, <1>6 DEF SInv, Progress, Range
  <1> QED BY <1>3, <1>6, <1>9, <1>10, AppliedInert

(* A saturation stops at a fixpoint: when it is left, no match of a rule    *)
(* that its last pass ran would change the graph if it were applied again.  *)
(* Proved of every program whose rules hide no rows (Saturate, changed,     *)
(* watermarks, deliver).                                                    *)
THEOREM SaturationIsFixpoint ==
    ASSUME NoHides
    PROVE  SpecExecutor => []SaturatedIsFixpoint
  <1>1. InitExecutor => XInv /\ SInv
    BY InitExecutorInv, InitSInv
  <1>2. XInv /\ SInv /\ [NextExecutor]_executorVars => (XInv /\ SInv)'
    BY NextExecutorInv, NextSInv
  <1> QED BY <1>1, <1>2, SaturationInert, PTL DEF SpecExecutor
==============================================================================
