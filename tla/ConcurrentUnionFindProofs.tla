---------------------- MODULE ConcurrentUnionFindProofs ----------------------
(***************************************************************************)
(* The lock-free union-find answers like one that nobody disturbs, and     *)
(* implements DisjointSets, for any number of threads and of resets and    *)
(* copies in between, any forest it starts from, and up to 16 ids (the     *)
(* bound of NextPowerOfTwo).                                               *)
(***************************************************************************)
EXTENDS ConcurrentUnionFind, FiniteSetTheorems, WellFoundedInduction, TLAPS

(* A set of bounded naturals has a largest member.                          *)
LEMMA Largest ==
    ASSUME NEW b \in Nat, NEW S \in SUBSET (0..b), S # {}
    PROVE  \E m \in S : \A n \in S : n <= m
  <1> DEFINE D == 0..b
             Above(n) == {x \in D : x > n}
             T == {Above(n) : n \in S}
             R == StrictSubsetOrdering(D)
  <1>1. IsFiniteSet(D)
    BY FS_Interval
  <1>2. IsWellFoundedOn(R, FiniteSubsetsOf(D))
    BY FS_StrictSubsetOrderingWellFounded
  <1>3. T \subseteq FiniteSubsetsOf(D) /\ T # {}
    <2>1. T \subseteq SUBSET D /\ T # {}
      OBVIOUS
    <2>2. FiniteSubsetsOf(D) = SUBSET D
      BY <1>1, FS_FiniteSubsetsOfFinite
    <2> QED BY <2>1, <2>2
  <1>4. PICK x \in T : \A y \in T : ~ (<<y, x>> \in R)
    <2> HIDE DEF T, R, D
    <2> QED BY <1>2, <1>3, WFMin
  <1>5. PICK m \in S : x = Above(m)
    OBVIOUS
  <1>6. ASSUME NEW n \in S, n > m PROVE FALSE
    <2>1. Above(n) \subseteq Above(m) /\ Above(n) # Above(m)
      BY <1>6
    <2>2. <<Above(n), Above(m)>> \in R
      BY <2>1 DEF StrictSubsetOrdering
    <2> QED BY <2>2, <1>4, <1>5
  <1> QED BY <1>6

(* A nonempty set of naturals has a least member.                           *)
LEMMA Least ==
    ASSUME NEW S \in SUBSET Nat, S # {}
    PROVE  \E m \in S : \A n \in S : m <= n
  <1>1. PICK b \in S : TRUE
    OBVIOUS
  <1> DEFINE T == {n \in 0..b : \A x \in S : n <= x}
  <1>2. 0 \in T /\ T \subseteq 0..b
    BY <1>1
  <1> HIDE DEF T
  <1>3. PICK m \in T : \A n \in T : n <= m
    BY <1>1, <1>2, Largest
  <1>4. m \in 0..b /\ \A x \in S : m <= x
    BY <1>3 DEF T
  <1>5. m \in S
    <2> SUFFICES ASSUME m \notin S PROVE FALSE
      OBVIOUS
    <2>1. \A x \in S : m + 1 <= x
      BY <1>4
    <2>2. m + 1 \in T
      BY <1>1, <1>4, <2>1 DEF T
    <2> QED BY <1>3, <1>4, <2>2
  <1> QED BY <1>4, <1>5

------------------------------------------------------------------------------
(* 1. FORESTS.  A parent is never younger than its child, so following the  *)
(* parents ends; what it ends in is a function of the forest.               *)

Forest(d) ==
    \E n \in Nat \ {0} : /\ d \in [0..(n - 1) -> Nat]
                         /\ \A x \in DOMAIN d : d[x] <= x
IsRoot(d, x) == x \notin DOMAIN d \/ d[x] = x
Up(d, f, x) == IF IsRoot(d, x) THEN x ELSE f[d[x]]
Climbs(d, f) == f = [x \in Ids |-> IF x \notin DOMAIN d \/ d[x] = x THEN x ELSE f[d[x]]]

LEMMA ForestIs ==
    ASSUME UnionFindAssumption, NEW d, Forest(d), NEW x \in DOMAIN d
    PROVE  /\ x \in Nat /\ d[x] \in Nat /\ d[x] <= x /\ d[x] \in DOMAIN d
           /\ x \in Ids => d[x] \in Ids
  <1>1. PICK n \in Nat \ {0} : /\ d \in [0..(n - 1) -> Nat]
                              /\ \A y \in DOMAIN d : d[y] <= y
    BY DEF Forest
  <1>2. x \in 0..(n - 1) /\ d[x] \in Nat /\ d[x] <= x
    BY <1>1
  <1> QED BY <1>1, <1>2 DEF Ids, UnionFindAssumption

(* Some function climbs every forest.                                       *)
LEMMA ClimbExists ==
    ASSUME UnionFindAssumption, NEW d, Forest(d)
    PROVE  \E f : Climbs(d, f)
  <1> DEFINE Below(k, f) == \A x \in 0..(k - 1) : f[x] = Up(d, f, x)
             S == {k \in 0..(MaxId + 1) : \E f \in [Ids -> Nat] : Below(k, f)}
  <1>1. MaxId \in Nat /\ MaxId + 1 \in Nat /\ Ids = 0..MaxId
    BY DEF UnionFindAssumption, Ids
  <1>2. 0 \in S
    <2>1. [x \in Ids |-> 0] \in [Ids -> Nat] /\ Below(0, [x \in Ids |-> 0])
      OBVIOUS
    <2>2. \E f \in [Ids -> Nat] : Below(0, f)
      BY <2>1
    <2>3. 0 \in 0..(MaxId + 1)
      BY <1>1
    <2> QED BY <2>2, <2>3
  <1>3. PICK k \in S : \A n \in S : n <= k
    <2> HIDE DEF S
    <2>1. S \subseteq 0..(MaxId + 1) /\ S # {}
      BY <1>2 DEF S
    <2> QED BY <1>1, <2>1, Largest
  <1>4. PICK f \in [Ids -> Nat] : Below(k, f)
    BY <1>3
  <1>5. k = MaxId + 1
    <2> SUFFICES ASSUME k # MaxId + 1 PROVE FALSE
      OBVIOUS
    <2>1. k \in Ids /\ k \in Nat
      BY <1>1, <1>3
    <2>2. ASSUME NEW x \in 0..k, ~IsRoot(d, x) PROVE d[x] \in Ids /\ d[x] < x
      <3>1. x \in DOMAIN d /\ d[x] # x /\ x \in Ids
        BY <1>1, <2>1, <2>2 DEF IsRoot
      <3> QED BY <3>1, ForestIs
    <2>3. Up(d, f, k) \in Nat
      <3>1. k \in 0..k
        BY <2>1
      <3>2. CASE IsRoot(d, k)
        BY <2>1, <3>2 DEF Up
      <3>3. CASE ~IsRoot(d, k)
        <4>1. d[k] \in Ids
          BY <2>2, <3>1, <3>3
        <4> QED BY <3>3, <4>1 DEF Up
      <3> QED BY <3>2, <3>3
    <2> DEFINE g == [f EXCEPT ![k] = Up(d, f, k)]
    <2>4. g \in [Ids -> Nat] /\ g[k] = Up(d, f, k) /\ \A x \in Ids : x < k => g[x] = f[x]
      BY <2>1, <2>3
    <2> HIDE DEF g
    <2>5. ASSUME NEW x \in 0..k PROVE Up(d, g, x) = Up(d, f, x)
      <3>1. CASE IsRoot(d, x)
        BY <3>1 DEF Up
      <3>2. CASE ~IsRoot(d, x)
        <4>1. d[x] \in Ids /\ d[x] < k
          BY <2>1, <2>2, <3>2, <1>1
        <4> QED BY <2>4, <3>2, <4>1 DEF Up
      <3> QED BY <3>1, <3>2
    <2>6. Below(k + 1, g)
      <3> SUFFICES ASSUME NEW x \in 0..k PROVE g[x] = Up(d, g, x)
        BY <2>1
      <3>1. CASE x = k
        BY <2>4, <2>5, <3>1
      <3>2. CASE x < k
        BY <1>1, <1>4, <2>1, <2>4, <2>5, <3>2
      <3> QED BY <2>1, <3>1, <3>2
    <2>7. k + 1 \in S
      <3>1. \E h \in [Ids -> Nat] : Below(k + 1, h)
        BY <2>4, <2>6
      <3>2. k + 1 \in 0..(MaxId + 1)
        BY <1>1, <2>1
      <3> HIDE DEF Below
      <3> QED BY <3>1, <3>2
    <2> QED BY <1>3, <2>1, <2>7
  <1>6. \A x \in Ids : f[x] = Up(d, f, x)
    BY <1>1, <1>4, <1>5
  <1>7. f = [x \in Ids |-> f[x]]
    OBVIOUS
  <1> QED BY <1>6, <1>7 DEF Climbs, Up, IsRoot

(* And only one does.                                                       *)
LEMMA ClimbIsOne ==
    ASSUME UnionFindAssumption, NEW d, Forest(d), NEW f, Climbs(d, f), NEW g, Climbs(d, g)
    PROVE  f = g
  <1> DEFINE S == {x \in Ids : f[x] # g[x]}
  <1>1. S = {}
    <2> SUFFICES ASSUME S # {} PROVE FALSE
      OBVIOUS
    <2>1. S \subseteq Nat
      BY DEF Ids
    <2>2. PICK x \in S : \A y \in S : x <= y
      <3> HIDE DEF S
      <3> QED BY <2>1, Least
    <2>3. x \in Ids /\ f[x] # g[x]
      BY <2>2
    <2>4. x \in DOMAIN d /\ d[x] # x /\ f[x] = f[d[x]] /\ g[x] = g[d[x]]
      BY <2>3 DEF Climbs
    <2>5. d[x] \in Ids /\ d[x] < x /\ x \in Nat /\ d[x] \in Nat
      BY <2>3, <2>4, ForestIs
    <2>6. d[x] \in S
      BY <2>3, <2>4, <2>5
    <2> QED BY <2>2, <2>5, <2>6
  <1>2. f = [x \in Ids |-> f[x]] /\ g = [x \in Ids |-> g[x]]
    BY DEF Climbs
  <1>3. \A x \in Ids : f[x] = g[x]
    BY <1>1
  <1> QED BY <1>2, <1>3

LEMMA RepClimbs ==
    ASSUME UnionFindAssumption, NEW d, Forest(d) PROVE Climbs(d, RepOf(d))
  <1>1. RepOf(d) = CHOOSE f : Climbs(d, f)
    BY DEF RepOf, Climbs
  <1> QED BY <1>1, ClimbExists

(* What climbs a forest is its representatives.                             *)
LEMMA RepIs ==
    ASSUME UnionFindAssumption, NEW d, Forest(d), NEW f, Climbs(d, f) PROVE RepOf(d) = f
  BY RepClimbs, ClimbIsOne

LEMMA RepStep ==
    ASSUME UnionFindAssumption, NEW d, Forest(d)
    PROVE  /\ RepOf(d) = [x \in Ids |-> RepOf(d)[x]]
           /\ \A x \in Ids : RepOf(d)[x] = Up(d, RepOf(d), x)
  BY RepClimbs DEF Climbs, Up, IsRoot

(* A representative is a root, and no younger than what it stands for.      *)
LEMMA RepIsRoot ==
    ASSUME UnionFindAssumption, NEW d, Forest(d), NEW x \in Ids
    PROVE  /\ RepOf(d)[x] \in Ids /\ RepOf(d)[x] <= x
           /\ IsRoot(d, RepOf(d)[x])
           /\ x \in DOMAIN d => RepOf(d)[x] \in DOMAIN d
           /\ RepOf(d)[RepOf(d)[x]] = RepOf(d)[x]
  <1> DEFINE R == RepOf(d)
             Good(y) == /\ R[y] \in Ids /\ R[y] <= y /\ IsRoot(d, R[y])
                        /\ y \in DOMAIN d => R[y] \in DOMAIN d
             S == {y \in Ids : ~Good(y)}
  <1>1. \A y \in Ids : R[y] = Up(d, R, y)
    BY RepStep
  <1>2. S = {}
    <2> SUFFICES ASSUME S # {} PROVE FALSE
      OBVIOUS
    <2>1. S \subseteq Nat
      BY DEF Ids
    <2>2. PICK y \in S : \A z \in S : y <= z
      <3> HIDE DEF S
      <3> QED BY <2>1, Least
    <2>3. y \in Ids /\ y \in Nat /\ ~Good(y)
      BY <2>1, <2>2
    <2>4. ~IsRoot(d, y)
      <3> SUFFICES ASSUME IsRoot(d, y) PROVE FALSE
        OBVIOUS
      <3>1. R[y] = y
        BY <1>1, <2>3 DEF Up
      <3> QED BY <2>3, <3>1
    <2>5. y \in DOMAIN d /\ d[y] # y /\ R[y] = R[d[y]]
      BY <1>1, <2>3, <2>4 DEF Up, IsRoot
    <2>6. d[y] \in Ids /\ d[y] < y /\ d[y] \in DOMAIN d /\ d[y] \in Nat
      BY <2>3, <2>5, ForestIs
    <2>7. d[y] \notin S
      BY <2>2, <2>3, <2>6
    <2>8. Good(d[y])
      BY <2>6, <2>7
    <2>9. R[y] \in Nat
      BY <2>5, <2>8 DEF Ids
    <2>10. Good(y)
      BY <2>3, <2>5, <2>6, <2>8, <2>9
    <2> QED BY <2>3, <2>10
  <1>3. Good(x)
    BY <1>2
  <1>4. R[R[x]] = R[x]
    BY <1>1, <1>3 DEF Up
  <1> QED BY <1>3, <1>4

(* The roots stand for themselves, and a child for what its parent does.    *)
LEMMA RootsStand ==
    ASSUME UnionFindAssumption, NEW d, Forest(d), NEW x \in Ids
    PROVE  /\ RepOf(d)[x] = x <=> IsRoot(d, x)
           /\ x \in DOMAIN d => RepOf(d)[d[x]] = RepOf(d)[x]
  <1>1. RepOf(d)[x] = Up(d, RepOf(d), x)
    BY RepStep
  <1>2. IsRoot(d, RepOf(d)[x])
    BY RepIsRoot
  <1>3. RepOf(d)[x] = x <=> IsRoot(d, x)
    BY <1>1, <1>2 DEF Up
  <1> QED BY <1>1, <1>3 DEF Up, IsRoot

(* A function that climbs a forest stands for it: three ways a forest       *)
(* changes, and what its representatives become.                            *)

(* Path splitting: a child moves to a grandparent of its own class.         *)
LEMMA SplitKeeps ==
    ASSUME UnionFindAssumption, NEW d, Forest(d), NEW c \in DOMAIN d, c \in Ids, d[c] # c,
           NEW g \in Nat, g < c, RepOf(d)[g] = RepOf(d)[c]
    PROVE  /\ Forest([d EXCEPT ![c] = g])
           /\ RepOf([d EXCEPT ![c] = g]) = RepOf(d)
  <1> DEFINE e == [d EXCEPT ![c] = g]
             R == RepOf(d)
  <1>1. PICK n \in Nat \ {0} : /\ d \in [0..(n - 1) -> Nat]
                              /\ \A x \in DOMAIN d : d[x] <= x
    BY DEF Forest
  <1>2. /\ e \in [0..(n - 1) -> Nat] /\ e[c] = g
        /\ \A x \in DOMAIN d \ {c} : e[x] = d[x]
        /\ DOMAIN e = DOMAIN d
    BY <1>1
  <1> HIDE DEF e
  <1>3. Forest(e)
    <2>1. \A x \in DOMAIN e : e[x] <= x
      BY <1>1, <1>2
    <2> QED BY <1>2, <2>1 DEF Forest
  <1>4. Climbs(e, R)
    <2>1. R = [x \in Ids |-> R[x]]
      BY RepStep
    <2>2. ASSUME NEW x \in Ids
          PROVE  R[x] = IF x \notin DOMAIN e \/ e[x] = x THEN x ELSE R[e[x]]
      <3>1. R[x] = IF x \notin DOMAIN d \/ d[x] = x THEN x ELSE R[d[x]]
        BY RepStep DEF Up, IsRoot
      <3>2. CASE x = c
        BY <1>2, <3>2
      <3>3. CASE x # c
        BY <1>2, <3>1, <3>3
      <3> QED BY <3>2, <3>3
    <2> HIDE DEF R
    <2> QED BY <2>1, <2>2 DEF Climbs
  <1>5. RepOf(e) = R
    BY <1>3, <1>4, RepIs
  <1> QED BY <1>3, <1>5 DEF e

(* Linking a root below another id joins their classes at once.             *)
LEMMA LinkJoins ==
    ASSUME UnionFindAssumption, NEW d, Forest(d), NEW c \in DOMAIN d, c \in Ids, d[c] = c,
           NEW p \in Nat, p < c
    PROVE  /\ Forest([d EXCEPT ![c] = p])
           /\ RepOf([d EXCEPT ![c] = p])
                = [x \in Ids |-> IF RepOf(d)[x] = c THEN RepOf(d)[p] ELSE RepOf(d)[x]]
  <1> DEFINE e == [d EXCEPT ![c] = p]
             R == RepOf(d)
             J == [x \in Ids |-> IF R[x] = c THEN R[p] ELSE R[x]]
  <1>1. PICK n \in Nat \ {0} : /\ d \in [0..(n - 1) -> Nat]
                              /\ \A x \in DOMAIN d : d[x] <= x
    BY DEF Forest
  <1>2. /\ e \in [0..(n - 1) -> Nat] /\ e[c] = p
        /\ \A x \in DOMAIN d \ {c} : e[x] = d[x]
        /\ DOMAIN e = DOMAIN d
    BY <1>1
  <1> HIDE DEF e
  <1>3. Forest(e)
    <2>1. \A x \in DOMAIN e : e[x] <= x
      BY <1>1, <1>2
    <2> QED BY <1>2, <2>1 DEF Forest
  <1>4. p \in Ids /\ R[p] <= p /\ R[p] \in Ids /\ R[c] = c
    <2>1. p \in Ids
      BY DEF Ids, UnionFindAssumption
    <2> QED BY <2>1, RepIsRoot, RootsStand DEF IsRoot
  <1>5. R[p] # c /\ R[p] \in Nat
    BY <1>4 DEF Ids
  <1>6. Climbs(e, J)
    <2>1. ASSUME NEW x \in Ids
          PROVE  J[x] = IF x \notin DOMAIN e \/ e[x] = x THEN x ELSE J[e[x]]
      <3>1. R[x] = IF x \notin DOMAIN d \/ d[x] = x THEN x ELSE R[d[x]]
        BY RepStep DEF Up, IsRoot
      <3>2. CASE x = c
        <4>1. J[x] = R[p] /\ J[p] = R[p]
          BY <1>4, <1>5, <3>2
        <4> QED BY <1>2, <3>2, <4>1
      <3>3. CASE x # c /\ IsRoot(d, x)
        <4>1. J[x] = x
          BY <3>1, <3>3 DEF IsRoot
        <4> QED BY <1>2, <3>3, <4>1 DEF IsRoot
      <3>4. CASE x # c /\ ~IsRoot(d, x)
        <4>1. x \in DOMAIN e /\ e[x] = d[x] /\ d[x] # x /\ d[x] \in Ids /\ R[x] = R[d[x]]
          BY <1>2, <3>1, <3>4, ForestIs DEF IsRoot
        <4> QED BY <4>1
      <3> QED BY <3>2, <3>3, <3>4
    <2>2. J = [x \in Ids |-> J[x]]
      OBVIOUS
    <2> HIDE DEF J
    <2> QED BY <2>1, <2>2 DEF Climbs
  <1>7. RepOf(e) = J
    <2> HIDE DEF J
    <2> QED BY <1>3, <1>6, RepIs
  <1> QED BY <1>3, <1>7 DEF e

(* New cells stand for themselves.                                          *)
LEMMA GrowKeeps ==
    ASSUME UnionFindAssumption, NEW d, Forest(d), NEW m \in Nat \ {0}, DOMAIN d \subseteq 0..(m - 1)
    PROVE  /\ Forest([x \in 0..(m - 1) |-> IF x \in DOMAIN d THEN d[x] ELSE x])
           /\ RepOf([x \in 0..(m - 1) |-> IF x \in DOMAIN d THEN d[x] ELSE x]) = RepOf(d)
  <1> DEFINE e == [x \in 0..(m - 1) |-> IF x \in DOMAIN d THEN d[x] ELSE x]
             R == RepOf(d)
  <1>1. Forest(e)
    <2>1. \A x \in 0..(m - 1) : e[x] \in Nat /\ e[x] <= x
      BY ForestIs
    <2>2. e \in [0..(m - 1) -> Nat]
      BY <2>1
    <2> QED BY <2>1, <2>2 DEF Forest
  <1>2. Climbs(e, R)
    <2>1. R = [x \in Ids |-> R[x]]
      BY RepStep
    <2>2. ASSUME NEW x \in Ids
          PROVE  R[x] = IF x \notin DOMAIN e \/ e[x] = x THEN x ELSE R[e[x]]
      <3>1. R[x] = IF x \notin DOMAIN d \/ d[x] = x THEN x ELSE R[d[x]]
        BY RepStep DEF Up, IsRoot
      <3> QED BY <3>1
    <2> HIDE DEF R, e
    <2> QED BY <2>1, <2>2 DEF Climbs
  <1>3. RepOf(e) = R
    <2> HIDE DEF e
    <2> QED BY <1>1, <1>2, RepIs
  <1> QED BY <1>1, <1>3

(* A reset takes every class apart.                                         *)
LEMMA ResetApart ==
    ASSUME UnionFindAssumption, NEW d, Forest(d)
    PROVE  /\ Forest([x \in DOMAIN d |-> x])
           /\ RepOf([x \in DOMAIN d |-> x]) = [x \in Ids |-> x]
  <1> DEFINE e == [x \in DOMAIN d |-> x]
  <1>1. Forest(e)
    <2>1. PICK n \in Nat \ {0} : d \in [0..(n - 1) -> Nat]
      BY DEF Forest
    <2>2. DOMAIN d = 0..(n - 1)
      BY <2>1
    <2>3. e \in [0..(n - 1) -> Nat] /\ \A x \in DOMAIN e : e[x] <= x
      BY <2>2
    <2> HIDE DEF e
    <2> QED BY <2>3 DEF Forest
  <1>2. Climbs(e, [x \in Ids |-> x])
    BY DEF Climbs
  <1>3. RepOf(e) = [x \in Ids |-> x]
    <2> HIDE DEF e
    <2> QED BY <1>1, <1>2, RepIs
  <1> QED BY <1>1, <1>3

------------------------------------------------------------------------------
(* 2. THE INVARIANT.  What a thread holds in its registers stands for the   *)
(* class of the id it looks up, and a non-root it has met stays one.        *)

Typed ==
  /\ Forest(data)
  /\ at \in [Workers -> {"idle", "enter", "grow", "next", "grand", "split",
                         "check", "link", "copy", "returned"}]
  /\ op \in [Workers -> [kind : {"find", "same", "merge", "copy"}, l : Ids, r : Ids]]
  /\ left \in [Workers -> Ids] /\ right \in [Workers -> Ids]
  /\ side \in [Workers -> {"l", "r"}]
  /\ cur \in [Workers -> Ids] /\ next \in [Workers -> Ids] /\ grand \in [Workers -> Ids]
  /\ DOMAIN copy = Workers /\ DOMAIN result = Workers
  /\ seen \in [Workers -> SUBSET (Ids \X Ids)]
  /\ demoted \subseteq [by : Workers, child : Ids]

(* Every child handed out is a cell of the buffer, and handed out once.     *)
Demoted == DemotedOnce /\ \A a \in demoted : a.child \in DOMAIN data

(* What a call could answer now is among what it could have answered.       *)
Now(t) == <<Rep[op[t].l], Rep[op[t].r]>>
Watched(t) == Calling(t) => Now(t) \in seen[t]

(* A call that is not inside has its ids before it.                         *)
Ready(t) == /\ at[t] \in {"enter", "grow"} => left[t] = op[t].l /\ right[t] = op[t].r
            /\ at[t] \in {"enter", "grow"} => copy[t] = <<>>
            /\ at[t] = "grow" => op[t].kind # "copy"

(* Inside, both ids have cells, and what it found belongs to their classes. *)
Finding(t) == at[t] \in {"next", "grand", "split", "check", "link"}
Following(t) == Finding(t) =>
  /\ op[t].kind # "copy"
  /\ {op[t].l, op[t].r, left[t], right[t]} \subseteq DOMAIN data
  /\ Rep[left[t]] = Rep[op[t].l]
  /\ Rep[right[t]] = Rep[op[t].r]

(* So does what it is climbing through; the parent it read is one no more,  *)
(* perhaps, but of the same class, and not a root again.                    *)
Sought(t) == IF side[t] = "l" THEN left[t] ELSE right[t]
Looking(t) ==
  /\ at[t] \in {"next", "grand", "split"} =>
       /\ cur[t] \in DOMAIN data
       /\ Rep[cur[t]] = Rep[Sought(t)]
       /\ side[t] = "r" => /\ op[t].kind \in {"same", "merge"}
                           /\ \E o \in seen[t] : o[1] = left[t]
  /\ at[t] \in {"grand", "split"} =>
       /\ next[t] \in DOMAIN data
       /\ next[t] <= cur[t]
       /\ Rep[next[t]] = Rep[cur[t]]
  /\ at[t] = "split" =>
       /\ grand[t] < next[t]
       /\ Rep[grand[t]] = Rep[next[t]]
       /\ data[next[t]] # next[t]

(* Both ids found were roots once, and at the same moment if the first one  *)
(* still is.                                                                *)
Comparing(t) == at[t] \in {"check", "link"} =>
  /\ op[t].kind = IF at[t] = "check" THEN "same" ELSE "merge"
  /\ left[t] # right[t]
  /\ \E o \in seen[t] : o[1] = left[t]
  /\ \E o \in seen[t] : o[2] = right[t]
  /\ data[left[t]] = left[t] => <<left[t], right[t]>> \in seen[t]

(* What was copied stands for the class it was read from.                   *)
Copying(t) == at[t] = "copy" =>
  /\ op[t].kind = "copy"
  /\ \E n \in Nat : DOMAIN copy[t] = 0 .. (n - 1)
  /\ \A x \in DOMAIN copy[t] :
       /\ x \in DOMAIN data /\ copy[t][x] \in Nat /\ copy[t][x] <= x
       /\ x \in Ids => Rep[copy[t][x]] = Rep[x]

(* Linearizable, of one thread: an answer that the moments seen allow.      *)
Rightly(kind, moments, answer) ==
  /\ kind = "find" => \E o \in moments : answer = <<o[1]>>
  /\ kind = "same" => \E o \in moments : answer = <<o[1] = o[2]>>
  /\ kind = "merge" =>
       \/ \E o \in moments : o[1] = o[2] /\ answer = o
       \/ /\ \E a, b \in moments :
                /\ a[1] # b[2]
                /\ answer = <<Min({a[1], b[2]}), Max({a[1], b[2]})>>
          /\ \E o \in moments : answer[2] \in {o[1], o[2]} /\ o[1] # o[2]
          /\ \E o \in moments : o[1] = o[2]
Answered(t) == at[t] = "returned" => Rightly(op[t].kind, seen[t], result[t])

Thread(t) == /\ Watched(t) /\ Ready(t) /\ Following(t) /\ Looking(t) /\ Comparing(t)
             /\ Copying(t) /\ Answered(t)

FInv == Typed /\ Demoted /\ \A t \in Workers : Thread(t)

------------------------------------------------------------------------------
(* 3. WHAT EVERY STEP LEAVES.                                               *)

(* Representatives are ids, and the parent of an id stands for its class.   *)
LEMMA RepFacts ==
    ASSUME UnionFindAssumption, Forest(data), NEW x \in Ids
    PROVE  /\ x \in Nat /\ Rep[x] \in Ids /\ Rep[x] \in Nat /\ Rep[x] <= x
           /\ Rep[Rep[x]] = Rep[x]
           /\ x \in DOMAIN data =>
                /\ Rep[x] = x <=> data[x] = x
                /\ data[x] \in Ids /\ data[x] \in DOMAIN data
                /\ data[x] \in Nat /\ data[x] <= x
                /\ Rep[data[x]] = Rep[x]
  <1>1. x \in Nat /\ \A y \in Ids : y \in Nat
    BY DEF Ids
  <1>2. Rep[x] \in Ids /\ Rep[x] <= x /\ Rep[Rep[x]] = Rep[x]
    BY RepIsRoot DEF Rep
  <1>3. x \in DOMAIN data => (Rep[x] = x <=> data[x] = x) /\ Rep[data[x]] = Rep[x]
    BY RootsStand DEF Rep, IsRoot
  <1>4. x \in DOMAIN data => /\ data[x] \in Ids /\ data[x] \in DOMAIN data
                            /\ data[x] \in Nat /\ data[x] <= x
    BY ForestIs
  <1> QED BY <1>1, <1>2, <1>3, <1>4

(* A step of a thread that is inside leaves classes joined, cells in place  *)
(* and non-roots non-roots.                                                 *)
Kept == /\ DOMAIN data' = DOMAIN data
        /\ \A x, y \in Ids : Rep[x] = Rep[y] => Rep'[x] = Rep'[y]
        /\ \A x \in Ids \cap DOMAIN data : data[x] # x => data'[x] # x

(* A step of somebody else: the thread's own state stays, and an answer     *)
(* that is right now is noted.                                              *)
Bystands(t) ==
  /\ at'[t] = at[t] /\ op'[t] = op[t] /\ left'[t] = left[t] /\ right'[t] = right[t]
  /\ side'[t] = side[t] /\ cur'[t] = cur[t] /\ next'[t] = next[t] /\ grand'[t] = grand[t]
  /\ copy'[t] = copy[t] /\ result'[t] = result[t]
  /\ seen[t] \subseteq seen'[t]
  /\ Calling(t) => Now(t)' \in seen'[t]

LEMMA RightlyGrows ==
    ASSUME NEW kind, NEW S, NEW T, S \subseteq T, NEW answer, Rightly(kind, S, answer)
    PROVE  Rightly(kind, T, answer)
  <1>1. CASE kind = "merge"
    <2> DEFINE Named(a, b) == a[1] # b[2] /\ answer = <<Min({a[1], b[2]}), Max({a[1], b[2]})>>
               One(o) == answer[2] \in {o[1], o[2]} /\ o[1] # o[2]
               Same(o) == o[1] = o[2] /\ answer = o
               Joins(o) == o[1] = o[2]
    <2>1. \/ \E o \in S : Same(o)
          \/ (\E a, b \in S : Named(a, b)) /\ (\E o \in S : One(o)) /\ (\E o \in S : Joins(o))
      BY <1>1 DEF Rightly
    <2>2. \/ \E o \in T : Same(o)
          \/ (\E a, b \in T : Named(a, b)) /\ (\E o \in T : One(o)) /\ (\E o \in T : Joins(o))
      <3> HIDE DEF Named, One, Same, Joins
      <3> QED BY <2>1
    <2> QED BY <1>1, <2>2 DEF Rightly
  <1>2. CASE kind # "merge"
    BY <1>2 DEF Rightly
  <1> QED BY <1>1, <1>2

LEMMA Undisturbed ==
    ASSUME UnionFindAssumption, Typed, NEW t \in Workers, Thread(t), Bystands(t),
           Kept \/ ~Inside(t)
    PROVE  Thread(t)'
  <1> USE DEF Thread, Bystands
  <1>1. Watched(t)' /\ Ready(t)'
    BY DEF Watched, Calling, Ready, Now
  <1>2. /\ op[t].l \in Ids /\ op[t].r \in Ids /\ left[t] \in Ids /\ right[t] \in Ids
        /\ cur[t] \in Ids /\ next[t] \in Ids /\ grand[t] \in Ids
    BY DEF Typed
  <1>3. Following(t)'
    BY <1>2 DEF Following, Finding, Inside, Kept
  <1>4. Looking(t)'
    <2>1. CASE ~Inside(t)
      BY <2>1 DEF Looking, Inside
    <2>2. CASE Kept
      <3>1. Sought(t)' = Sought(t) /\ Sought(t) \in Ids
        BY <1>2 DEF Sought
      <3> QED BY <2>2, <3>1, <1>2 DEF Looking, Kept
    <2> QED BY <2>1, <2>2
  <1>5. Comparing(t)'
    <2>1. CASE ~Inside(t)
      BY <2>1 DEF Comparing, Inside
    <2>2. CASE Kept
      <3> SUFFICES ASSUME at[t] \in {"check", "link"} PROVE Comparing(t)'
        BY DEF Comparing
      <3>1. left[t] \in DOMAIN data
        BY DEF Following, Finding
      <3>2. data'[left[t]] = left[t] => data[left[t]] = left[t]
        BY <1>2, <2>2, <3>1 DEF Kept
      <3> QED BY <3>2 DEF Comparing
    <2> QED BY <2>1, <2>2
  <1>6. Copying(t)'
    <2>1. CASE ~Inside(t)
      BY <2>1 DEF Copying, Inside
    <2>2. CASE Kept
      <3> SUFFICES ASSUME at[t] = "copy" PROVE Copying(t)'
        BY DEF Copying
      <3>1. ASSUME NEW x \in DOMAIN copy[t], x \in Ids PROVE Rep'[copy[t][x]] = Rep'[x]
        <4>1. copy[t][x] \in Nat /\ copy[t][x] <= x
          BY <3>1 DEF Copying
        <4>2. copy[t][x] \in Ids
          BY <3>1, <4>1 DEF Ids, UnionFindAssumption
        <4> QED BY <2>2, <3>1, <4>2 DEF Copying, Kept
      <3> QED BY <2>2, <3>1 DEF Copying, Kept
    <2> QED BY <2>1, <2>2
  <1>7. Answered(t)'
    <2> SUFFICES ASSUME at[t] = "returned"
                 PROVE  Rightly(op[t].kind, seen'[t], result[t])
      BY DEF Answered
    <2> QED BY RightlyGrows DEF Answered
  <1> QED BY <1>1, <1>3, <1>4, <1>5, <1>6, <1>7

(* A step of one thread: the others stand by.                               *)
LEMMA OneMoves ==
    ASSUME UnionFindAssumption, FInv, NEW t \in Workers,
           Typed', Demoted', Thread(t)', Kept \/ Unshared,
           \A s \in Workers \ {t} : Bystands(s)
    PROVE  FInv'
  <1>1. ASSUME NEW s \in Workers \ {t} PROVE Thread(s)'
    <2>1. Kept \/ ~Inside(s)
      BY DEF Unshared
    <2> QED BY <2>1, Undisturbed DEF FInv
  <1> QED BY <1>1 DEF FInv

(* A step that does not touch the buffer keeps what was known of it.        *)
LEMMA SameForest ==
    ASSUME UNCHANGED data
    PROVE  /\ Kept /\ Rep' = Rep
           /\ \A t \in Workers : op'[t] = op[t] => Now(t)' = Now(t)
  <1>1. Rep' = Rep
    BY DEF Rep
  <1> QED BY <1>1 DEF Kept, Now

(* The state of a thread has the types of its registers.                    *)
LEMMA RegistersTyped ==
    ASSUME Typed, NEW t \in Workers
    PROVE  /\ op[t].kind \in {"find", "same", "merge", "copy"}
           /\ op[t].l \in Ids /\ op[t].r \in Ids
           /\ left[t] \in Ids /\ right[t] \in Ids /\ side[t] \in {"l", "r"}
           /\ cur[t] \in Ids /\ next[t] \in Ids /\ grand[t] \in Ids
           /\ seen[t] \subseteq Ids \X Ids
           /\ t \in DOMAIN copy /\ t \in DOMAIN result
           /\ \A x \in Ids : x \in Nat
  BY DEF Typed, Ids

(* A thread whose state stays stands by.                                    *)
Frozen(t) ==
  /\ at'[t] = at[t] /\ op'[t] = op[t] /\ left'[t] = left[t] /\ right'[t] = right[t]
  /\ side'[t] = side[t] /\ cur'[t] = cur[t] /\ next'[t] = next[t] /\ grand'[t] = grand[t]
  /\ copy'[t] = copy[t] /\ result'[t] = result[t]

LEMMA Observed ==
    ASSUME UnionFindAssumption, Typed, Forest(data'), Observe
    PROVE  /\ seen' \in [Workers -> SUBSET (Ids \X Ids)]
           /\ \A t \in Workers : seen[t] \subseteq seen'[t]
           /\ \A t \in Workers : Calling(t) /\ op'[t] = op[t] => Now(t)' \in seen'[t]
  <1>1. Rep' = RepOf(data')
    BY DEF Rep
  <1>2. \A x \in Ids : RepOf(data')[x] \in Ids
    BY RepIsRoot
  <1> DEFINE Pair(t) == <<RepOf(data')[op[t].l], RepOf(data')[op[t].r]>>
  <1>3. \A t \in Workers : Pair(t) \in Ids \X Ids
    <2> TAKE t \in Workers
    <2>1. op[t].l \in Ids /\ op[t].r \in Ids
      BY RegistersTyped
    <2> QED BY <1>2, <2>1
  <1>4. seen' = [t \in Workers |-> IF at[t] \in {"idle", "returned"} THEN seen[t]
                                   ELSE seen[t] \cup {Pair(t)}]
    BY DEF Observe
  <1>5. \A t \in Workers : Calling(t) /\ op'[t] = op[t] => Now(t)' = Pair(t)
    BY <1>1 DEF Now
  <1> HIDE DEF Pair
  <1>6. seen' \in [Workers -> SUBSET (Ids \X Ids)]
    BY <1>3, <1>4 DEF Typed
  <1> QED BY <1>4, <1>5, <1>6 DEF Calling

LEMMA FrozenStands ==
    ASSUME UnionFindAssumption, FInv, NEW t \in Workers, Frozen(t),
           UNCHANGED <<data, seen>> \/ (Observe /\ Forest(data'))
    PROVE  Bystands(t)
  <1>1. CASE UNCHANGED <<data, seen>>
    <2>1. Now(t)' = Now(t) /\ (Calling(t) => Now(t) \in seen[t])
      BY <1>1, SameForest DEF Frozen, FInv, Thread, Watched
    <2> QED BY <1>1, <2>1 DEF Frozen, Bystands
  <1>2. CASE Observe /\ Forest(data')
    <2>1. Typed
      BY DEF FInv
    <2>2. seen[t] \subseteq seen'[t] /\ (Calling(t) => Now(t)' \in seen'[t])
      BY <1>2, <2>1, Observed DEF Frozen
    <2> QED BY <2>2 DEF Frozen, Bystands
  <1> QED BY <1>1, <1>2

(* What is said of a forest that is only looked at stays said.              *)
LEMMA LooksOnly ==
    ASSUME UnionFindAssumption, FInv, NEW t \in Workers, UNCHANGED <<data, seen, demoted>>,
           Typed', Thread(t)', \A s \in Workers \ {t} : Frozen(s)
    PROVE  FInv'
  <1>1. Demoted'
    BY DEF FInv, Demoted, DemotedOnce
  <1>2. Kept
    BY SameForest
  <1>3. \A s \in Workers \ {t} : Bystands(s)
    BY FrozenStands
  <1> QED BY <1>1, <1>2, <1>3, OneMoves

(* The buffer is a range of ids from 0.                                     *)
LEMMA BufferIs ==
    ASSUME Forest(data)
    PROVE  \E n \in Nat \ {0} : /\ DOMAIN data = 0 .. (n - 1) /\ Cardinality(DOMAIN data) = n
                                /\ data = [x \in DOMAIN data |-> data[x]]
  <1>1. PICK n \in Nat \ {0} : data \in [0 .. (n - 1) -> Nat]
    BY DEF Forest
  <1>2. Cardinality(0 .. (n - 1)) = n
    BY FS_Interval
  <1> QED BY <1>1, <1>2

(* The larger and the smaller of two ids.                                   *)
LEMMA MaxMin ==
    ASSUME NEW m \in Nat, NEW n \in Nat
    PROVE  /\ Max({m, n}) = IF m >= n THEN m ELSE n
           /\ Min({m, n}) = IF m >= n THEN n ELSE m
  <1>1. CASE m >= n
    <2>1. \A x \in {m, n} : (\A y \in {m, n} : x >= y) <=> x = m
      BY <1>1
    <2>2. \A x \in {m, n} : (\A y \in {m, n} : x =< y) <=> x = n
      BY <1>1
    <2> QED BY <1>1, <2>1, <2>2 DEF Max, Min
  <1>2. CASE ~(m >= n)
    <2>1. \A x \in {m, n} : (\A y \in {m, n} : x >= y) <=> x = n
      BY <1>2
    <2>2. \A x \in {m, n} : (\A y \in {m, n} : x =< y) <=> x = m
      BY <1>2
    <2> QED BY <1>2, <2>1, <2>2 DEF Max, Min
  <1> QED BY <1>1, <1>2

------------------------------------------------------------------------------
(* 4. THE STEPS.                                                            *)

LEMMA ForestInit == UnionFindAssumption /\ InitForest => FInv
  <1> SUFFICES ASSUME UnionFindAssumption, InitForest PROVE FInv
    OBVIOUS
  <1>1. 0 \in Ids /\ Ids \subseteq Nat
    BY DEF Ids, UnionFindAssumption
  <1>2. Forest(data)
    <2>1. PICK n \in {1, MaxId + 1} :
            data \in {f \in [0 .. (n - 1) -> Ids] : \A x \in DOMAIN f : f[x] <= x}
      BY DEF InitForest
    <2>2. n \in Nat \ {0}
      BY DEF UnionFindAssumption
    <2>3. data \in [0 .. (n - 1) -> Nat] /\ \A x \in DOMAIN data : data[x] <= x
      BY <1>1, <2>1
    <2> QED BY <2>2, <2>3 DEF Forest
  <1>3. Typed
    BY <1>1, <1>2 DEF InitForest, Typed
  <1>4. Demoted
    BY DEF InitForest, Demoted, DemotedOnce
  <1>5. ASSUME NEW t \in Workers PROVE Thread(t)
    <2>1. at[t] = "idle"
      BY DEF InitForest
    <2> QED BY <2>1 DEF Thread, Watched, Calling, Ready, Following, Finding, Looking,
                        Comparing, Copying, Answered
  <1> QED BY <1>3, <1>4, <1>5 DEF FInv

LEMMA CallStep ==
    ASSUME UnionFindAssumption, FInv, NEW t \in Workers, Call(t) PROVE FInv'
  <1>1. PICK k \in Kinds, l \in Ids, r \in Ids :
          /\ k \in {"find", "copy"} => r = l
          /\ k = "copy" => l = 0
          /\ op' = [op EXCEPT ![t] = [kind |-> k, l |-> l, r |-> r]]
          /\ left' = [left EXCEPT ![t] = l]
          /\ right' = [right EXCEPT ![t] = r]
          /\ seen' = [seen EXCEPT ![t] = {<<Rep[l], Rep[r]>>}]
    BY DEF Call
  <1>2. /\ at[t] = "idle" /\ at' = [at EXCEPT ![t] = "enter"]
        /\ side' = [side EXCEPT ![t] = "l"] /\ copy' = [copy EXCEPT ![t] = <<>>]
        /\ UNCHANGED <<data, cur, next, grand, result, demoted>>
    BY DEF Call, MoveTo
  <1>3. k \in {"find", "same", "merge", "copy"} /\ Typed /\ Demoted
    BY DEF UnionFindAssumption, FInv
  <1>4. <<Rep[l], Rep[r]>> \in Ids \X Ids
    BY <1>3, RepFacts DEF Typed
  <1>5. Typed'
    <2>1. /\ op' \in [Workers -> [kind : {"find", "same", "merge", "copy"}, l : Ids, r : Ids]]
          /\ left' \in [Workers -> Ids] /\ right' \in [Workers -> Ids]
      BY <1>1, <1>3 DEF Typed
    <2>2. seen' \in [Workers -> SUBSET (Ids \X Ids)]
      BY <1>1, <1>3, <1>4 DEF Typed
    <2>3. /\ at' \in [Workers -> {"idle", "enter", "grow", "next", "grand", "split",
                                  "check", "link", "copy", "returned"}]
          /\ side' \in [Workers -> {"l", "r"}] /\ DOMAIN copy' = Workers
      BY <1>2, <1>3 DEF Typed
    <2> QED BY <2>1, <2>2, <2>3, <1>2, <1>3 DEF Typed
  <1>6. Rep' = Rep /\ Kept
    BY <1>2, SameForest
  <1>7. /\ at'[t] = "enter" /\ op'[t] = [kind |-> k, l |-> l, r |-> r]
        /\ left'[t] = l /\ right'[t] = r /\ copy'[t] = <<>>
        /\ seen'[t] = {<<Rep[l], Rep[r]>>}
    BY <1>1, <1>2, <1>3 DEF Typed
  <1>8. Thread(t)'
    <2>1. Now(t)' = <<Rep[l], Rep[r]>>
      BY <1>6, <1>7 DEF Now
    <2>2. Watched(t)' /\ Ready(t)'
      BY <1>7, <2>1 DEF Watched, Ready
    <2> QED BY <2>2, <1>7 DEF Thread, Following, Finding, Looking, Comparing, Copying, Answered
  <1>9. ASSUME NEW s \in Workers \ {t} PROVE Bystands(s)
    <2>1. Frozen(s) /\ seen'[s] = seen[s]
      BY <1>1, <1>2, <1>3 DEF Frozen, Typed
    <2>2. Calling(s) => Now(s) \in seen[s]
      BY DEF FInv, Thread, Watched
    <2>3. Now(s)' = Now(s)
      BY <1>6, <2>1 DEF Now, Frozen
    <2> QED BY <2>1, <2>2, <2>3 DEF Frozen, Bystands
  <1>10. Demoted'
    BY <1>2, <1>3 DEF Demoted, DemotedOnce
  <1> QED BY <1>5, <1>6, <1>8, <1>9, <1>10, OneMoves

LEMMA EnterStep ==
    ASSUME UnionFindAssumption, FInv, NEW t \in Workers, Enter(t) PROVE FInv'
  <1>1. /\ at[t] = "enter" /\ UNCHANGED <<data, op, copy, result, seen, demoted>>
        /\ Typed /\ Thread(t)
    BY DEF Enter, FInv
  <1>2. left[t] = op[t].l /\ right[t] = op[t].r /\ copy[t] = <<>> /\ Now(t) \in seen[t]
    BY <1>1 DEF Thread, Ready, Watched, Calling
  <1>3. op[t].l \in Ids /\ op[t].r \in Ids /\ \A x \in Ids : x \in Nat
    BY <1>1, RegistersTyped
  <1>4. Rep' = Rep /\ Now(t)' = Now(t)
    BY <1>1, SameForest
  <1>5. CASE op[t].kind = "copy"
    <2>1. at' = [at EXCEPT ![t] = "copy"] /\ UNCHANGED finding
      BY <1>5 DEF Enter, MoveTo
    <2>2. Typed'
      BY <1>1, <2>1 DEF Typed, finding
    <2>3. at'[t] = "copy" /\ \A s \in Workers \ {t} : Frozen(s)
      BY <1>1, <2>1 DEF Typed, Frozen, finding
    <2>4. DOMAIN copy[t] = {} /\ 0 .. (0 - 1) = {}
      BY <1>2
    <2>5. Copying(t)'
      BY <1>1, <1>5, <2>4 DEF Copying
    <2>6. Watched(t)'
      BY <1>1, <1>2, <1>4 DEF Watched
    <2>7. Thread(t)'
      BY <2>3, <2>5, <2>6 DEF Thread, Ready, Following, Finding, Looking, Comparing, Answered
    <2> QED BY <1>1, <2>2, <2>3, <2>7, LooksOnly
  <1>6. ASSUME op[t].kind # "copy", Cardinality(DOMAIN data) >= Needed(t),
               StartFind(t, "l", op[t].l)
        PROVE  FInv'
    <2>1. /\ at' = [at EXCEPT ![t] = "next"] /\ side' = [side EXCEPT ![t] = "l"]
          /\ cur' = [cur EXCEPT ![t] = op[t].l] /\ UNCHANGED <<left, right, next, grand>>
      BY <1>6 DEF MoveTo, StartFind
    <2>2. Typed'
      <3>1. cur' \in [Workers -> Ids] /\ side' \in [Workers -> {"l", "r"}]
        BY <1>1, <1>3, <2>1 DEF Typed
      <3> QED BY <1>1, <2>1, <3>1 DEF Typed
    <2>3. /\ at'[t] = "next" /\ side'[t] = "l" /\ cur'[t] = op[t].l
          /\ \A s \in Workers \ {t} : Frozen(s)
      BY <1>1, <2>1 DEF Typed, Frozen
    <2>4. {op[t].l, op[t].r} \subseteq DOMAIN data
      <3>1. PICK n \in Nat \ {0} : DOMAIN data = 0 .. (n - 1) /\ Cardinality(DOMAIN data) = n
        BY <1>1, BufferIs DEF Typed
      <3>2. Max({op[t].l, op[t].r}) = IF op[t].l >= op[t].r THEN op[t].l ELSE op[t].r
        BY <1>3, MaxMin
      <3> QED BY <1>3, <1>6, <3>1, <3>2 DEF Needed
    <2>5. Watched(t)'
      BY <1>1, <1>2, <1>4 DEF Watched
    <2>6. Following(t)'
      BY <1>1, <1>2, <1>4, <1>6, <2>1, <2>4 DEF Following
    <2>7. Looking(t)'
      <3>1. Sought(t)' = op[t].l
        BY <1>2, <2>1, <2>3 DEF Sought
      <3> QED BY <1>1, <2>3, <2>4, <3>1 DEF Looking
    <2>8. Thread(t)'
      BY <2>3, <2>5, <2>6, <2>7 DEF Thread, Ready, Comparing, Copying, Answered
    <2> QED BY <1>1, <2>2, <2>3, <2>8, LooksOnly
  <1>7. ASSUME op[t].kind # "copy", MoveTo(t, "grow"), UNCHANGED finding
        PROVE  FInv'
    <2>1. at' = [at EXCEPT ![t] = "grow"] /\ UNCHANGED finding
      BY <1>7 DEF MoveTo
    <2>2. Typed'
      BY <1>1, <2>1 DEF Typed, finding
    <2>3. at'[t] = "grow" /\ \A s \in Workers \ {t} : Frozen(s)
      BY <1>1, <2>1 DEF Typed, Frozen, finding
    <2>4. Watched(t)' /\ Ready(t)'
      BY <1>1, <1>2, <1>4, <1>7, <2>1, <2>3 DEF Watched, Ready, finding
    <2>5. Thread(t)'
      BY <2>3, <2>4 DEF Thread, Following, Finding, Looking, Comparing, Copying, Answered
    <2> QED BY <1>1, <2>2, <2>3, <2>5, LooksOnly
  <1> QED BY <1>5, <1>6, <1>7 DEF Enter

LEMMA LoadNextStep ==
    ASSUME UnionFindAssumption, FInv, NEW t \in Workers, LoadNext(t) PROVE FInv'
  <1>1. /\ at[t] = "next" /\ Typed /\ Thread(t)
        /\ at' = [at EXCEPT ![t] = "grand"] /\ next' = [next EXCEPT ![t] = data[cur[t]]]
        /\ UNCHANGED <<data, op, left, right, side, cur, grand, copy, result, seen, demoted>>
    BY DEF LoadNext, MoveTo, FInv
  <1>2. cur[t] \in Ids /\ cur[t] \in DOMAIN data /\ Now(t) \in seen[t]
    BY <1>1, RegistersTyped DEF Thread, Looking, Watched, Calling
  <1>3. /\ data[cur[t]] \in Ids /\ data[cur[t]] \in DOMAIN data /\ data[cur[t]] <= cur[t]
        /\ Rep[data[cur[t]]] = Rep[cur[t]]
    BY <1>1, <1>2, RepFacts DEF Typed
  <1>4. Rep' = Rep /\ Now(t)' = Now(t) /\ Sought(t)' = Sought(t)
    BY <1>1, SameForest DEF Sought
  <1>5. Typed'
    <2>1. next' \in [Workers -> Ids]
      BY <1>1, <1>3 DEF Typed
    <2> QED BY <1>1, <2>1 DEF Typed
  <1>6. /\ at'[t] = "grand" /\ next'[t] = data[cur[t]]
        /\ \A s \in Workers \ {t} : Frozen(s)
    BY <1>1 DEF Typed, Frozen
  <1>7. Watched(t)' /\ Following(t)'
    BY <1>1, <1>2, <1>4, <1>6 DEF Thread, Watched, Following, Finding
  <1>8. Looking(t)'
    BY <1>1, <1>2, <1>3, <1>4, <1>6 DEF Thread, Looking
  <1>9. Thread(t)'
    BY <1>6, <1>7, <1>8 DEF Thread, Ready, Comparing, Copying, Answered
  <1> QED BY <1>1, <1>5, <1>6, <1>9, LooksOnly

(* A call that answers leaves its registers, and nobody else's, behind.     *)
LEMMA Retires ==
    ASSUME UnionFindAssumption, Typed, NEW t \in Workers, NEW v, Respond(t, v), Forget(t),
           UNCHANGED <<op, copy>>
    PROVE  /\ at' \in [Workers -> {"idle", "enter", "grow", "next", "grand", "split",
                                   "check", "link", "copy", "returned"}]
           /\ left' \in [Workers -> Ids] /\ right' \in [Workers -> Ids]
           /\ side' \in [Workers -> {"l", "r"}]
           /\ cur' \in [Workers -> Ids] /\ next' \in [Workers -> Ids]
           /\ grand' \in [Workers -> Ids] /\ DOMAIN result' = Workers
           /\ at'[t] = "returned" /\ result'[t] = v
           /\ \A s \in Workers \ {t} : Frozen(s)
           /\ Rightly(op[t].kind, seen'[t], v) => Thread(t)'
  <1>1. 0 \in Ids
    BY DEF Ids, UnionFindAssumption
  <1>2. /\ at' = [at EXCEPT ![t] = "returned"] /\ result' = [result EXCEPT ![t] = v]
        /\ left' = [left EXCEPT ![t] = 0] /\ right' = [right EXCEPT ![t] = 0]
        /\ side' = [side EXCEPT ![t] = "l"] /\ cur' = [cur EXCEPT ![t] = 0]
        /\ next' = [next EXCEPT ![t] = 0] /\ grand' = [grand EXCEPT ![t] = 0]
    BY DEF Respond, MoveTo, Forget
  <1>3. /\ at' \in [Workers -> {"idle", "enter", "grow", "next", "grand", "split",
                                "check", "link", "copy", "returned"}]
        /\ left' \in [Workers -> Ids] /\ right' \in [Workers -> Ids]
        /\ side' \in [Workers -> {"l", "r"}]
    BY <1>1, <1>2 DEF Typed
  <1>4. /\ cur' \in [Workers -> Ids] /\ next' \in [Workers -> Ids]
        /\ grand' \in [Workers -> Ids] /\ DOMAIN result' = Workers
    BY <1>1, <1>2 DEF Typed
  <1>5. at'[t] = "returned" /\ result'[t] = v
    BY <1>2 DEF Typed
  <1>6. \A s \in Workers \ {t} : Frozen(s)
    BY <1>2 DEF Typed, Frozen
  <1>7. Rightly(op[t].kind, seen'[t], v) => Thread(t)'
    BY <1>5 DEF Thread, Watched, Calling, Ready, Following, Finding, Looking, Comparing,
                Copying, Answered
  <1> QED BY <1>3, <1>4, <1>5, <1>6, <1>7

(* A call that answers without writing.                                     *)
LEMMA AnswerStep ==
    ASSUME UnionFindAssumption, FInv, NEW t \in Workers, NEW v, Respond(t, v), Forget(t),
           UNCHANGED <<data, op, copy, seen, demoted>>, Rightly(op[t].kind, seen[t], v)
    PROVE  FInv'
  <1>1. Typed
    BY DEF FInv
  <1>2. Typed'
    BY <1>1, Retires DEF Typed
  <1>3. Thread(t)' /\ \A s \in Workers \ {t} : Frozen(s)
    BY <1>1, Retires
  <1> QED BY <1>2, <1>3, LooksOnly

(* What is known of a thread that looks for an id.                          *)
LEMMA LookingAt ==
    ASSUME UnionFindAssumption, FInv, NEW t \in Workers, at[t] \in {"grand", "split"}
    PROVE  /\ next[t] \in Ids /\ next[t] \in DOMAIN data
           /\ Now(t) \in seen[t] /\ Now(t)[1] = Rep[left[t]] /\ Now(t)[2] = Rep[right[t]]
           /\ Rep[next[t]] = Rep[Sought(t)]
           /\ op[t].kind \in {"find", "same", "merge"}
           /\ side[t] = "r" => op[t].kind \in {"same", "merge"}
           /\ next[t] = data[next[t]] => Rep[next[t]] = next[t]
  <1>1. Typed /\ Thread(t)
    BY DEF FInv
  <1>2. next[t] \in Ids /\ op[t].kind \in {"find", "same", "merge", "copy"}
    BY <1>1, RegistersTyped
  <1>3. Now(t) \in seen[t]
    BY <1>1 DEF Thread, Watched, Calling
  <1>4. op[t].kind # "copy" /\ Rep[left[t]] = Rep[op[t].l] /\ Rep[right[t]] = Rep[op[t].r]
    BY <1>1 DEF Thread, Following, Finding
  <1>5. /\ next[t] \in DOMAIN data /\ Rep[next[t]] = Rep[Sought(t)]
        /\ side[t] = "r" => op[t].kind \in {"same", "merge"}
    BY <1>1 DEF Thread, Looking
  <1>6. next[t] = data[next[t]] => Rep[next[t]] = next[t]
    BY <1>1, <1>2, <1>5, RepFacts DEF Typed
  <1> QED BY <1>2, <1>3, <1>4, <1>5, <1>6 DEF Now

(* The last id was found: both are.                                         *)
LEMMA FoundAnswers ==
    ASSUME UnionFindAssumption, FInv, NEW t \in Workers, at[t] = "grand",
           next[t] = data[next[t]], FoundLast(t, next[t])
    PROVE  Rightly(op[t].kind, seen[t], Answer(t, next[t]))
  <1> DEFINE id == next[t]
  <1>1. /\ Now(t) \in seen[t] /\ Now(t)[1] = Rep[left[t]] /\ Now(t)[2] = Rep[right[t]]
        /\ Rep[Sought(t)] = id /\ op[t].kind \in {"find", "same", "merge"}
        /\ side[t] = "r" => op[t].kind \in {"same", "merge"}
    BY LookingAt
  <1>2. CASE op[t].kind = "find"
    <2>1. side[t] = "l" /\ Sought(t) = left[t]
      BY <1>1, <1>2 DEF Sought, FInv, Typed
    <2>2. Answer(t, id) = <<Now(t)[1]>>
      BY <1>1, <1>2, <2>1 DEF Answer
    <2> QED BY <1>1, <1>2, <2>2 DEF Rightly
  <1>3. CASE op[t].kind # "find"
    <2>1. side[t] = "r" /\ id = left[t] /\ Sought(t) = right[t]
      BY <1>3 DEF FoundLast, Sought
    <2>2. Rep[left[t]] = id
      BY <2>1, LookingAt
    <2>3. Now(t)[1] = id /\ Now(t)[2] = id /\ Now(t) = <<id, id>>
      BY <1>1, <2>1, <2>2 DEF Now
    <2>4. CASE op[t].kind = "same"
      <3>1. Answer(t, id) = <<TRUE>>
        BY <2>4 DEF Answer
      <3>2. <<TRUE>> = <<Now(t)[1] = Now(t)[2]>>
        BY <2>3
      <3>3. \E o \in seen[t] : <<TRUE>> = <<o[1] = o[2]>>
        BY <1>1, <3>2
      <3> QED BY <2>4, <3>1, <3>3 DEF Rightly
    <2>5. CASE op[t].kind = "merge"
      <3>1. Answer(t, id) = <<id, id>>
        BY <2>5 DEF Answer
      <3> QED BY <1>1, <2>3, <2>5, <3>1 DEF Rightly
    <2> QED BY <1>1, <1>3, <2>4, <2>5
  <1> QED BY <1>2, <1>3

LEMMA LoadGrandStep ==
    ASSUME UnionFindAssumption, FInv, NEW t \in Workers, LoadGrand(t) PROVE FInv'
  <1>1. /\ at[t] = "grand" /\ UNCHANGED <<data, op, copy, seen, demoted>>
        /\ Typed /\ Thread(t)
    BY DEF LoadGrand, FInv
  <1>2. /\ next[t] \in Ids /\ next[t] \in DOMAIN data
        /\ Now(t) \in seen[t] /\ Now(t)[1] = Rep[left[t]] /\ Now(t)[2] = Rep[right[t]]
        /\ Rep[next[t]] = Rep[Sought(t)]
        /\ op[t].kind \in {"find", "same", "merge"}
        /\ next[t] = data[next[t]] => Rep[next[t]] = next[t]
    BY <1>1, LookingAt
  <1>3. Rep' = Rep /\ Now(t)' = Now(t)
    BY <1>1, SameForest
  <1>4. /\ op[t].kind # "copy"
        /\ {op[t].l, op[t].r, left[t], right[t]} \subseteq DOMAIN data
        /\ Rep[left[t]] = Rep[op[t].l] /\ Rep[right[t]] = Rep[op[t].r]
    BY <1>1 DEF Thread, Following, Finding
  <1>5. Watched(t)'
    BY <1>1, <1>2, <1>3 DEF Watched
  <1> DEFINE id == next[t]
  <1>6. ASSUME id = data[id], FoundLast(t, id), Respond(t, Answer(t, id)), Forget(t)
        PROVE  FInv'
    <2>1. Rightly(op[t].kind, seen[t], Answer(t, id))
      BY <1>1, <1>6, FoundAnswers
    <2> QED BY <1>1, <1>6, <2>1, AnswerStep
  <1>7. ASSUME id = data[id], ~FoundLast(t, id), side[t] = "l",
               left' = [left EXCEPT ![t] = id], side' = [side EXCEPT ![t] = "r"],
               cur' = [cur EXCEPT ![t] = right[t]], MoveTo(t, "next"),
               UNCHANGED <<right, next, grand, result>>
        PROVE  FInv'
    <2>1. op[t].kind \in {"same", "merge"}
      BY <1>2, <1>7 DEF FoundLast
    <2>2. Rep[id] = id /\ Rep[left[t]] = id
      BY <1>2, <1>7 DEF Sought
    <2>3. right[t] \in Ids
      BY <1>1, RegistersTyped
    <2>4. Typed'
      <3>1. left' \in [Workers -> Ids] /\ side' \in [Workers -> {"l", "r"}]
        BY <1>1, <1>2, <1>7 DEF Typed
      <3>2. /\ cur' \in [Workers -> Ids]
            /\ at' \in [Workers -> {"idle", "enter", "grow", "next", "grand", "split",
                                    "check", "link", "copy", "returned"}]
        BY <1>1, <1>7, <2>3 DEF Typed, MoveTo
      <3> QED BY <1>1, <1>7, <3>1, <3>2 DEF Typed
    <2>5. /\ at'[t] = "next" /\ left'[t] = id /\ right'[t] = right[t]
          /\ side'[t] = "r" /\ cur'[t] = right[t]
          /\ \A s \in Workers \ {t} : Frozen(s)
      BY <1>1, <1>7 DEF Typed, MoveTo, Frozen
    <2>6. Following(t)'
      BY <1>1, <1>2, <1>3, <1>4, <2>2, <2>5 DEF Following
    <2>7. Looking(t)'
      <3>1. Sought(t)' = right[t]
        BY <2>5 DEF Sought
      <3>2. \E o \in seen[t] : o[1] = id
        BY <1>2, <2>2
      <3> QED BY <1>1, <1>3, <1>4, <2>1, <2>5, <3>1, <3>2 DEF Looking
    <2>8. Thread(t)'
      BY <1>5, <2>5, <2>6, <2>7 DEF Thread, Ready, Comparing, Copying, Answered
    <2> QED BY <1>1, <2>4, <2>5, <2>8, LooksOnly
  <1>8. ASSUME id = data[id], ~FoundLast(t, id), side[t] = "r",
               right' = [right EXCEPT ![t] = id],
               MoveTo(t, IF op[t].kind = "same" THEN "check" ELSE "link"),
               UNCHANGED <<left, side, cur, next, grand, result>>
        PROVE  FInv'
    <2>1. op[t].kind \in {"same", "merge"} /\ id # left[t]
          /\ \E o \in seen[t] : o[1] = left[t]
      BY <1>1, <1>8 DEF FoundLast, Thread, Looking
    <2>2. Rep[id] = id /\ Rep[right[t]] = id
      BY <1>2, <1>8 DEF Sought
    <2>3. left[t] \in Ids
      BY <1>1, RegistersTyped
    <2>4. Typed'
      <3>1. right' \in [Workers -> Ids]
        BY <1>1, <1>2, <1>8 DEF Typed
      <3>2. at' \in [Workers -> {"idle", "enter", "grow", "next", "grand", "split",
                                 "check", "link", "copy", "returned"}]
        BY <1>1, <1>8 DEF Typed, MoveTo
      <3> QED BY <1>1, <1>8, <3>1, <3>2 DEF Typed
    <2>5. /\ at'[t] = IF op[t].kind = "same" THEN "check" ELSE "link"
          /\ left'[t] = left[t] /\ right'[t] = id
          /\ \A s \in Workers \ {t} : Frozen(s)
      BY <1>1, <1>8 DEF Typed, MoveTo, Frozen
    <2>6. Following(t)'
      BY <1>1, <1>2, <1>3, <1>4, <2>2, <2>5 DEF Following
    <2>7. \E o \in seen[t] : o[2] = id
      BY <1>2, <2>2
    <2>8. data[left[t]] = left[t] => <<left[t], id>> \in seen[t]
      <3> SUFFICES ASSUME data[left[t]] = left[t] PROVE <<left[t], id>> \in seen[t]
        OBVIOUS
      <3>1. Rep[left[t]] = left[t]
        BY <1>1, <1>4, <2>3, RepFacts DEF Typed
      <3>2. Now(t) = <<left[t], id>>
        BY <1>2, <2>2, <3>1 DEF Now
      <3> QED BY <1>2, <3>2
    <2>9. Comparing(t)'
      <3>1. /\ op'[t] = op[t] /\ seen'[t] = seen[t] /\ data' = data
            /\ at'[t] = "check" <=> op[t].kind = "same"
        BY <1>1, <2>5
      <3> QED BY <2>1, <2>5, <2>7, <2>8, <3>1 DEF Comparing
    <2>10. Thread(t)'
      BY <1>5, <2>1, <2>5, <2>6, <2>9 DEF Thread, Ready, Looking, Copying, Answered
    <2> QED BY <1>1, <2>4, <2>5, <2>10, LooksOnly
  <1>9. ASSUME id # data[id], grand' = [grand EXCEPT ![t] = data[id]], MoveTo(t, "split"),
               UNCHANGED <<left, right, side, cur, next, result>>
        PROVE  FInv'
    <2>1. data[id] \in Ids /\ data[id] < id /\ Rep[data[id]] = Rep[id]
      <3>1. Forest(data) /\ id \in Ids /\ id \in DOMAIN data
        BY <1>1, <1>2 DEF Typed
      <3>2. /\ data[id] \in Ids /\ data[id] \in Nat /\ id \in Nat /\ data[id] <= id
            /\ Rep[data[id]] = Rep[id]
        <4> HIDE DEF id
        <4> QED BY <3>1, RepFacts
      <3> QED BY <1>9, <3>2
    <2>2. Typed'
      <3>1. grand' \in [Workers -> Ids]
        BY <1>1, <1>9, <2>1 DEF Typed
      <3>2. at' \in [Workers -> {"idle", "enter", "grow", "next", "grand", "split",
                                 "check", "link", "copy", "returned"}]
        BY <1>1, <1>9 DEF Typed, MoveTo
      <3> QED BY <1>1, <1>9, <3>1, <3>2 DEF Typed
    <2>3. /\ at'[t] = "split" /\ grand'[t] = data[id]
          /\ \A s \in Workers \ {t} : Frozen(s)
      BY <1>1, <1>9 DEF Typed, MoveTo, Frozen
    <2>4. Following(t)'
      BY <1>1, <1>3, <1>4, <1>9, <2>3 DEF Following
    <2>5. Sought(t)' = Sought(t)
      BY <1>9 DEF Sought
    <2>6. Looking(t)'
      BY <1>1, <1>3, <1>9, <2>1, <2>3, <2>5 DEF Thread, Looking
    <2>7. Thread(t)'
      BY <1>5, <2>3, <2>4, <2>6 DEF Thread, Ready, Comparing, Copying, Answered
    <2> QED BY <1>1, <2>2, <2>3, <2>7, LooksOnly
  <1> QED BY <1>6, <1>7, <1>8, <1>9 DEF LoadGrand, Found

LEMMA CheckRootStep ==
    ASSUME UnionFindAssumption, FInv, NEW t \in Workers, CheckRoot(t) PROVE FInv'
  <1>1. /\ at[t] = "check" /\ UNCHANGED <<data, op, copy, seen, demoted>>
        /\ Typed /\ Thread(t)
    BY DEF CheckRoot, FInv
  <1>2. /\ op[t].kind = "same" /\ left[t] # right[t]
        /\ data[left[t]] = left[t] => <<left[t], right[t]>> \in seen[t]
    BY <1>1 DEF Thread, Comparing
  <1>3. CASE data[left[t]] = left[t]
    <2>1. Respond(t, <<FALSE>>) /\ Forget(t)
      BY <1>3 DEF CheckRoot
    <2> DEFINE o == <<left[t], right[t]>>
    <2>2. o \in seen[t] /\ <<FALSE>> = <<o[1] = o[2]>>
      BY <1>2, <1>3
    <2>3. \E p \in seen[t] : <<FALSE>> = <<p[1] = p[2]>>
      <3> HIDE DEF o
      <3> QED BY <2>2
    <2>4. Rightly(op[t].kind, seen[t], <<FALSE>>)
      BY <1>2, <2>3 DEF Rightly
    <2> QED BY <1>1, <2>1, <2>4, AnswerStep
  <1>4. CASE data[left[t]] # left[t]
    <2>1. /\ at' = [at EXCEPT ![t] = "next"] /\ side' = [side EXCEPT ![t] = "l"]
          /\ cur' = [cur EXCEPT ![t] = left[t]]
          /\ UNCHANGED <<left, right, next, grand, result>>
      BY <1>4 DEF CheckRoot, StartFind, MoveTo
    <2>2. left[t] \in Ids
      BY <1>1, RegistersTyped
    <2>3. Typed'
      <3>1. cur' \in [Workers -> Ids] /\ side' \in [Workers -> {"l", "r"}]
        BY <1>1, <2>1, <2>2 DEF Typed
      <3> QED BY <1>1, <2>1, <3>1 DEF Typed
    <2>4. /\ at'[t] = "next" /\ side'[t] = "l" /\ cur'[t] = left[t]
          /\ \A s \in Workers \ {t} : Frozen(s)
      BY <1>1, <2>1 DEF Typed, Frozen
    <2>5. Rep' = Rep /\ Now(t)' = Now(t)
      BY <1>1, SameForest
    <2>6. Watched(t)' /\ Following(t)'
      BY <1>1, <2>1, <2>4, <2>5 DEF Thread, Watched, Calling, Following, Finding
    <2>7. Looking(t)'
      <3>1. Sought(t)' = left[t]
        BY <2>1, <2>4 DEF Sought
      <3>2. left[t] \in DOMAIN data
        BY <1>1 DEF Thread, Following, Finding
      <3> QED BY <1>1, <2>4, <3>1, <3>2 DEF Looking
    <2>8. Thread(t)'
      BY <2>4, <2>6, <2>7 DEF Thread, Ready, Comparing, Copying, Answered
    <2> QED BY <1>1, <2>3, <2>4, <2>8, LooksOnly
  <1> QED BY <1>3, <1>4

(* The compare-and-swap succeeds only on a parent that is still the one     *)
(* read, and that was no root.                                              *)
LEMMA SplitForest ==
    ASSUME UnionFindAssumption, FInv, NEW t \in Workers, Split(t)
    PROVE  Forest(data') /\ Rep' = Rep /\ Kept
  <1>1. /\ at[t] = "split" /\ Typed /\ Thread(t) /\ Forest(data)
        /\ data' = IF data[cur[t]] = next[t] THEN [data EXCEPT ![cur[t]] = grand[t]] ELSE data
    BY DEF Split, FInv, Typed
  <1>2. /\ cur[t] \in Ids /\ next[t] \in Ids /\ grand[t] \in Ids
        /\ cur[t] \in Nat /\ next[t] \in Nat /\ grand[t] \in Nat
    BY <1>1, RegistersTyped
  <1>3. /\ cur[t] \in DOMAIN data /\ next[t] <= cur[t] /\ grand[t] < next[t]
        /\ Rep[next[t]] = Rep[cur[t]] /\ Rep[grand[t]] = Rep[next[t]]
        /\ data[next[t]] # next[t]
    BY <1>1 DEF Thread, Looking
  <1>4. CASE data[cur[t]] # next[t]
    <2>1. UNCHANGED data
      BY <1>1, <1>4
    <2> QED BY <1>1, <2>1, SameForest
  <1>5. CASE data[cur[t]] = next[t]
    <2> DEFINE c == cur[t]
               g == grand[t]
    <2>1. data' = [data EXCEPT ![c] = g]
      BY <1>1, <1>5
    <2>2. c \in DOMAIN data /\ c \in Ids /\ data[c] # c /\ g \in Nat /\ g < c
      BY <1>2, <1>3, <1>5
    <2>3. RepOf(data)[g] = RepOf(data)[c]
      BY <1>3 DEF Rep
    <2> HIDE DEF c, g
    <2>4. Forest(data') /\ RepOf(data') = RepOf(data)
      <3>1. Forest(data)
        BY <1>1
      <3>2. /\ Forest([data EXCEPT ![c] = g])
            /\ RepOf([data EXCEPT ![c] = g]) = RepOf(data)
        BY <2>2, <2>3, <3>1, SplitKeeps
      <3> QED BY <2>1, <3>2
    <2>5. Rep' = Rep
      BY <2>4 DEF Rep
    <2>6. /\ DOMAIN data' = DOMAIN data /\ data'[c] = g
          /\ \A x \in DOMAIN data \ {c} : data'[x] = data[x]
      BY <2>1, <2>2
    <2>7. \A x \in Ids \cap DOMAIN data : data[x] # x => data'[x] # x
      BY <2>2, <2>6
    <2> QED BY <2>4, <2>5, <2>6, <2>7 DEF Kept
  <1> QED BY <1>4, <1>5

(* No child handed out becomes a root again.                                *)
LEMMA StaysDemoted ==
    ASSUME FInv, Kept, UNCHANGED demoted PROVE Demoted'
  <1>1. \A a \in demoted : a.child \in Ids
    BY DEF FInv, Typed
  <1> QED BY <1>1 DEF FInv, Demoted, DemotedOnce, Kept

LEMMA SplitStep ==
    ASSUME UnionFindAssumption, FInv, NEW t \in Workers, Split(t) PROVE FInv'
  <1>1. /\ at[t] = "split" /\ Typed /\ Thread(t)
        /\ cur' = [cur EXCEPT ![t] = next[t]] /\ next' = [next EXCEPT ![t] = 0]
        /\ grand' = [grand EXCEPT ![t] = 0] /\ at' = [at EXCEPT ![t] = "next"]
        /\ Observe /\ UNCHANGED <<op, left, right, side, copy, result, demoted>>
    BY DEF Split, FInv, MoveTo
  <1>2. Forest(data') /\ Rep' = Rep /\ Kept /\ DOMAIN data' = DOMAIN data
    BY SplitForest DEF Kept
  <1>3. next[t] \in Ids /\ 0 \in Ids
    BY <1>1, RegistersTyped DEF Ids, UnionFindAssumption
  <1>4. /\ seen' \in [Workers -> SUBSET (Ids \X Ids)] /\ seen[t] \subseteq seen'[t]
        /\ Calling(t) => Now(t)' \in seen'[t]
    BY <1>1, <1>2, Observed
  <1>5. Typed'
    <2>1. cur' \in [Workers -> Ids] /\ next' \in [Workers -> Ids] /\ grand' \in [Workers -> Ids]
      BY <1>1, <1>3 DEF Typed
    <2>2. at' \in [Workers -> {"idle", "enter", "grow", "next", "grand", "split",
                               "check", "link", "copy", "returned"}]
      BY <1>1 DEF Typed
    <2> QED BY <1>1, <1>2, <1>4, <2>1, <2>2 DEF Typed
  <1>6. /\ at'[t] = "next" /\ cur'[t] = next[t]
        /\ \A s \in Workers \ {t} : Frozen(s)
    BY <1>1 DEF Typed, Frozen
  <1>7. Watched(t)' /\ Following(t)'
    <2>1. Watched(t)'
      BY <1>1, <1>4 DEF Watched, Calling
    <2> QED BY <1>1, <1>2, <1>6, <2>1 DEF Thread, Following, Finding
  <1>8. Looking(t)'
    <2>1. Sought(t)' = Sought(t)
      BY <1>1 DEF Sought
    <2>2. /\ next[t] \in DOMAIN data /\ Rep[next[t]] = Rep[Sought(t)]
          /\ side[t] = "r" => /\ op[t].kind \in {"same", "merge"}
                              /\ \E o \in seen[t] : o[1] = left[t]
      BY <1>1 DEF Thread, Looking
    <2> QED BY <1>1, <1>2, <1>4, <1>6, <2>1, <2>2 DEF Looking
  <1>9. Thread(t)'
    BY <1>6, <1>7, <1>8 DEF Thread, Ready, Comparing, Copying, Answered
  <1>10. Demoted'
    BY <1>1, <1>2, StaysDemoted
  <1>11. \A s \in Workers \ {t} : Bystands(s)
    BY <1>1, <1>2, <1>6, FrozenStands
  <1> QED BY <1>2, <1>5, <1>9, <1>10, <1>11, OneMoves

LEMMA CopyStep ==
    ASSUME UnionFindAssumption, FInv, NEW t \in Workers, Copy(t) PROVE FInv'
  <1>1. /\ at[t] = "copy" /\ Typed /\ Thread(t)
        /\ UNCHANGED <<data, op, left, right, side, cur, next, grand, seen, demoted>>
    BY DEF Copy, FInv, finding
  <1>2. op[t].kind = "copy" /\ Now(t) \in seen[t] /\ t \in DOMAIN copy /\ t \in DOMAIN result
    BY <1>1, RegistersTyped DEF Thread, Copying, Watched, Calling
  <1>3. PICK m \in Nat : DOMAIN copy[t] = 0 .. (m - 1)
    BY <1>1 DEF Thread, Copying
  <1>4. Cardinality(DOMAIN copy[t]) = m
    BY <1>3, FS_Interval
  <1>5. Rep' = Rep /\ Now(t)' = Now(t)
    BY <1>1, SameForest
  <1>6. CASE m \in DOMAIN data
    <2> DEFINE c == [x \in 0 .. m |-> IF x = m THEN data[m] ELSE copy[t][x]]
    <2>1. copy' = [copy EXCEPT ![t] = c] /\ UNCHANGED <<at, result>>
      BY <1>4, <1>6 DEF Copy
    <2>2. /\ DOMAIN c = 0 .. ((m + 1) - 1) /\ c[m] = data[m]
          /\ \A x \in DOMAIN copy[t] : c[x] = copy[t][x]
          /\ DOMAIN c = DOMAIN copy[t] \cup {m}
      BY <1>3
    <2> HIDE DEF c
    <2>3. copy'[t] = c /\ DOMAIN copy' = Workers
      BY <1>1, <1>2, <2>1 DEF Typed
    <2>4. data[m] \in Nat /\ data[m] <= m /\ (m \in Ids => Rep[data[m]] = Rep[m])
      BY <1>1, <1>6, ForestIs, RepFacts DEF Typed
    <2>5. ASSUME NEW x \in DOMAIN c
          PROVE  /\ x \in DOMAIN data /\ c[x] \in Nat /\ c[x] <= x
                 /\ x \in Ids => Rep[c[x]] = Rep[x]
      <3>1. CASE x = m
        BY <1>6, <2>2, <2>4, <3>1
      <3>2. CASE x # m
        BY <1>1, <2>2, <3>2 DEF Thread, Copying
      <3> QED BY <3>1, <3>2
    <2>6. Copying(t)'
      BY <1>1, <1>2, <1>3, <1>5, <2>1, <2>2, <2>3, <2>5 DEF Copying
    <2>7. Typed'
      BY <1>1, <2>1, <2>3 DEF Typed
    <2>8. Watched(t)'
      BY <1>1, <1>2, <1>5 DEF Watched
    <2>9. Thread(t)'
      BY <1>1, <2>1, <2>6, <2>8 DEF Thread, Ready, Following, Finding, Looking, Comparing, Answered
    <2>10. \A s \in Workers \ {t} : Frozen(s)
      BY <1>1, <2>1 DEF Typed, Frozen
    <2> QED BY <1>1, <2>7, <2>9, <2>10, LooksOnly
  <1>7. CASE m \notin DOMAIN data
    <2>1. /\ at' = [at EXCEPT ![t] = "returned"] /\ result' = [result EXCEPT ![t] = <<>>]
          /\ UNCHANGED copy
      BY <1>4, <1>7 DEF Copy, Respond, MoveTo
    <2>2. at'[t] = "returned" /\ \A s \in Workers \ {t} : Frozen(s)
      BY <1>1, <2>1 DEF Typed, Frozen
    <2>3. Typed'
      BY <1>1, <2>1 DEF Typed
    <2>4. Answered(t)'
      BY <1>1, <1>2 DEF Answered, Rightly
    <2>5. Thread(t)'
      BY <2>2, <2>4 DEF Thread, Watched, Calling, Ready, Following, Finding, Looking,
                        Comparing, Copying
    <2> QED BY <1>1, <2>2, <2>3, <2>5, LooksOnly
  <1> QED BY <1>6, <1>7

(* Linking the child, still a root, below the parent.                       *)
LEMMA LinkForest ==
    ASSUME UnionFindAssumption, FInv, NEW t \in Workers, at[t] = "link",
           data[Child(t)] = Child(t), data' = [data EXCEPT ![Child(t)] = Parent(t)]
    PROVE  /\ Child(t) \in Ids /\ Parent(t) \in Ids /\ Parent(t) < Child(t)
           /\ Child(t) \in DOMAIN data /\ Rep[Child(t)] = Child(t)
           /\ \/ Child(t) = left[t] /\ Parent(t) = right[t]
              \/ Child(t) = right[t] /\ Parent(t) = left[t]
           /\ Rep[Parent(t)] # Child(t)
           /\ Forest(data') /\ Kept /\ data'[Child(t)] # Child(t)
           /\ Rep' = [x \in Ids |-> IF Rep[x] = Child(t) THEN Rep[Parent(t)] ELSE Rep[x]]
  <1>1. Typed /\ Thread(t) /\ Forest(data)
    BY DEF FInv, Typed
  <1>2. /\ left[t] \in Ids /\ right[t] \in Ids /\ left[t] \in Nat /\ right[t] \in Nat
        /\ left[t] # right[t] /\ left[t] \in DOMAIN data /\ right[t] \in DOMAIN data
    BY <1>1, RegistersTyped DEF Thread, Following, Finding, Comparing
  <1>3. PICK c : c = Child(t)
    OBVIOUS
  <1>4. PICK p : p = Parent(t)
    OBVIOUS
  <1>5. (c = left[t] /\ p = right[t]) \/ (c = right[t] /\ p = left[t])
    <2>1. c = IF left[t] >= right[t] THEN left[t] ELSE right[t]
      BY <1>2, <1>3, MaxMin DEF Child
    <2>2. p = IF left[t] >= right[t] THEN right[t] ELSE left[t]
      BY <1>2, <1>4, MaxMin DEF Parent
    <2> QED BY <2>1, <2>2
  <1>6. p < c
    <2>1. c = IF left[t] >= right[t] THEN left[t] ELSE right[t]
      BY <1>2, <1>3, MaxMin DEF Child
    <2>2. p = IF left[t] >= right[t] THEN right[t] ELSE left[t]
      BY <1>2, <1>4, MaxMin DEF Parent
    <2> QED BY <1>2, <2>1, <2>2
  <1>7. c \in Ids /\ p \in Ids /\ c \in Nat /\ p \in Nat /\ c \in DOMAIN data /\ p \in DOMAIN data
    BY <1>2, <1>5
  <1>8. data[c] = c /\ data' = [data EXCEPT ![c] = p]
    BY <1>3, <1>4
  <1>9. /\ Forest([data EXCEPT ![c] = p])
        /\ RepOf([data EXCEPT ![c] = p])
             = [x \in Ids |-> IF RepOf(data)[x] = c THEN RepOf(data)[p] ELSE RepOf(data)[x]]
    <2>1. /\ Forest(data) /\ c \in DOMAIN data /\ c \in Ids /\ data[c] = c
          /\ p \in Nat /\ p < c
      BY <1>1, <1>6, <1>7, <1>8
    <2> QED BY ONLY UnionFindAssumption, <2>1, LinkJoins
  <1>10. Forest(data') /\ RepOf(data') = [x \in Ids |-> IF Rep[x] = c THEN Rep[p] ELSE Rep[x]]
    BY <1>8, <1>9 DEF Rep
  <1>11. Rep' = [x \in Ids |-> IF Rep[x] = c THEN Rep[p] ELSE Rep[x]]
    BY <1>10 DEF Rep
  <1>12. Rep[c] = c /\ Rep[p] # c
    <2>1. Rep[c] = c
      BY <1>1, <1>7, <1>8, RepFacts
    <2>2. Rep[p] \in Nat /\ Rep[p] <= p
      BY <1>1, <1>7, RepFacts
    <2> QED BY <1>6, <1>7, <2>1, <2>2
  <1>13. Kept
    <2>1. /\ DOMAIN data' = DOMAIN data /\ data'[c] = p
          /\ \A x \in DOMAIN data \ {c} : data'[x] = data[x]
      BY <1>7, <1>8
    <2>2. \A x, y \in Ids : Rep[x] = Rep[y] => Rep'[x] = Rep'[y]
      BY <1>11
    <2>3. \A x \in Ids \cap DOMAIN data : data[x] # x => data'[x] # x
      BY <1>8, <2>1
    <2> QED BY <2>1, <2>2, <2>3 DEF Kept
  <1>14. data'[c] # c
    BY <1>6, <1>7, <1>8
  <1> QED BY <1>3, <1>4, <1>5, <1>6, <1>7, <1>10, <1>11, <1>12, <1>13, <1>14

(* A link answers with names both classes had, and joins them.              *)
LEMMA LinkAnswers ==
    ASSUME UnionFindAssumption, FInv, NEW t \in Workers, at[t] = "link", op'[t] = op[t],
           data[Child(t)] = Child(t), data' = [data EXCEPT ![Child(t)] = Parent(t)],
           seen[t] \subseteq seen'[t], Now(t)' \in seen'[t]
    PROVE  Rightly(op[t].kind, seen'[t], <<Parent(t), Child(t)>>)
  <1>1. Typed /\ Thread(t) /\ Forest(data)
    BY DEF FInv, Typed
  <1>2. PICK c : c = Child(t)
    OBVIOUS
  <1>3. PICK p : p = Parent(t)
    OBVIOUS
  <1>4. /\ c \in Ids /\ p \in Ids /\ p < c /\ Rep[c] = c /\ Rep[p] # c
        /\ (c = left[t] /\ p = right[t]) \/ (c = right[t] /\ p = left[t])
        /\ Rep' = [x \in Ids |-> IF Rep[x] = c THEN Rep[p] ELSE Rep[x]]
    BY <1>2, <1>3, LinkForest
  <1>5. /\ op[t].kind = "merge" /\ left[t] # right[t]
        /\ Rep[left[t]] = Rep[op[t].l] /\ Rep[right[t]] = Rep[op[t].r]
        /\ \E o \in seen[t] : o[1] = left[t]
        /\ \E o \in seen[t] : o[2] = right[t]
        /\ Now(t) \in seen[t] /\ op[t].l \in Ids /\ op[t].r \in Ids
    BY <1>1, RegistersTyped DEF Thread, Watched, Calling, Following, Finding, Comparing
  <1>6. \E a, b \in seen'[t] :
          /\ a[1] # b[2]
          /\ <<p, c>> = <<Min({a[1], b[2]}), Max({a[1], b[2]})>>
    <2>1. PICK a \in seen[t] : a[1] = left[t]
      BY <1>5
    <2>2. PICK b \in seen[t] : b[2] = right[t]
      BY <1>5
    <2>3. p = Min({left[t], right[t]}) /\ c = Max({left[t], right[t]})
      BY <1>2, <1>3 DEF Parent, Child
    <2>4. /\ a[1] # b[2]
          /\ <<p, c>> = <<Min({a[1], b[2]}), Max({a[1], b[2]})>>
      BY <1>5, <2>1, <2>2, <2>3
    <2>5. a \in seen'[t] /\ b \in seen'[t]
      OBVIOUS
    <2> QED BY <2>4, <2>5
  <1>7. \E o \in seen'[t] : c \in {o[1], o[2]} /\ o[1] # o[2]
    <2>1. Now(t)[1] = Rep[left[t]] /\ Now(t)[2] = Rep[right[t]]
      BY <1>5 DEF Now
    <2>2. c \in {Now(t)[1], Now(t)[2]} /\ Now(t)[1] # Now(t)[2]
      BY <1>4, <2>1
    <2>3. Now(t) \in seen'[t]
      BY <1>5
    <2> QED BY <2>2, <2>3
  <1>8. \E o \in seen'[t] : o[1] = o[2]
    <2>1. Now(t)' = <<Rep'[op[t].l], Rep'[op[t].r]>>
      BY DEF Now
    <2>2. Rep'[op[t].l] = Rep[p] /\ Rep'[op[t].r] = Rep[p]
      BY <1>4, <1>5
    <2>3. <<Rep[p], Rep[p]>> \in seen'[t]
      BY <2>1, <2>2
    <2> QED BY <2>3
  <1>9. <<p, c>>[2] = c
    OBVIOUS
  <1>10. Rightly("merge", seen'[t], <<p, c>>)
    BY <1>6, <1>7, <1>8, <1>9 DEF Rightly
  <1> QED BY <1>2, <1>3, <1>5, <1>10

LEMMA LinkStep ==
    ASSUME UnionFindAssumption, FInv, NEW t \in Workers, Link(t) PROVE FInv'
  <1>1. at[t] = "link" /\ Observe /\ UNCHANGED <<op, copy>> /\ Typed /\ Thread(t) /\ Demoted
    BY DEF Link, FInv
  <1>2. CASE data[Child(t)] = Child(t)
    <2>1. /\ data' = [data EXCEPT ![Child(t)] = Parent(t)]
          /\ Respond(t, <<Parent(t), Child(t)>>) /\ Forget(t)
          /\ demoted' = demoted \cup {[by |-> t, child |-> Child(t)]}
      BY <1>2 DEF Link
    <2>2. /\ Child(t) \in Ids /\ Child(t) \in DOMAIN data
          /\ Forest(data') /\ Kept /\ data'[Child(t)] # Child(t)
      BY <1>1, <1>2, <2>1, LinkForest
    <2>3. /\ seen' \in [Workers -> SUBSET (Ids \X Ids)] /\ seen[t] \subseteq seen'[t]
          /\ Now(t)' \in seen'[t]
      BY <1>1, <2>2, Observed DEF Calling
    <2>4. Rightly(op[t].kind, seen'[t], <<Parent(t), Child(t)>>)
      BY <1>1, <1>2, <2>1, <2>3, LinkAnswers
    <2>5. Typed'
      <3>1. demoted' \subseteq [by : Workers, child : Ids]
        BY <1>1, <2>1, <2>2 DEF Typed
      <3> QED BY <1>1, <2>1, <2>2, <2>3, <3>1, Retires DEF Typed
    <2>6. Thread(t)' /\ \A s \in Workers \ {t} : Frozen(s)
      BY <1>1, <2>1, <2>4, Retires
    <2>7. Demoted'
      <3>1. \A a \in demoted : /\ a.child \in Ids /\ a.child \in DOMAIN data
                               /\ data[a.child] # a.child
        BY <1>1 DEF Typed, Demoted, DemotedOnce
      <3>2. \A a \in demoted : a.child # Child(t) /\ data'[a.child] # a.child
        BY <1>2, <2>2, <3>1 DEF Kept
      <3>3. \A a \in demoted' : a \in demoted \/ a = [by |-> t, child |-> Child(t)]
        BY <2>1
      <3>4. \A a, b \in demoted' : a.child = b.child => a = b
        BY <1>1, <3>2, <3>3 DEF Demoted, DemotedOnce
      <3>5. \A a \in demoted' : data'[a.child] # a.child /\ a.child \in DOMAIN data'
        BY <2>2, <3>1, <3>2, <3>3 DEF Kept
      <3> QED BY <3>4, <3>5 DEF Demoted, DemotedOnce
    <2>8. \A s \in Workers \ {t} : Bystands(s)
      BY <1>1, <2>2, <2>6, FrozenStands
    <2> QED BY <2>2, <2>5, <2>6, <2>7, <2>8, OneMoves
  <1>3. CASE data[Child(t)] # Child(t)
    <2>1. /\ at' = [at EXCEPT ![t] = "next"] /\ side' = [side EXCEPT ![t] = "l"]
          /\ cur' = [cur EXCEPT ![t] = left[t]]
          /\ UNCHANGED <<data, left, right, next, grand, result, demoted>>
      BY <1>3 DEF Link, StartFind, MoveTo
    <2>2. left[t] \in Ids
      BY <1>1, RegistersTyped
    <2>3. Kept /\ Rep' = Rep /\ Now(t)' = Now(t) /\ Forest(data')
      BY <1>1, <2>1, SameForest DEF Typed
    <2>4. /\ seen' \in [Workers -> SUBSET (Ids \X Ids)] /\ seen[t] \subseteq seen'[t]
          /\ Now(t)' \in seen'[t]
      BY <1>1, <2>3, Observed DEF Calling
    <2>5. Typed'
      <3>1. cur' \in [Workers -> Ids] /\ side' \in [Workers -> {"l", "r"}]
        BY <1>1, <2>1, <2>2 DEF Typed
      <3> QED BY <1>1, <2>1, <2>4, <3>1 DEF Typed
    <2>6. /\ at'[t] = "next" /\ side'[t] = "l" /\ cur'[t] = left[t]
          /\ \A s \in Workers \ {t} : Frozen(s)
      BY <1>1, <2>1 DEF Typed, Frozen
    <2>7. Watched(t)'
      BY <2>4 DEF Watched
    <2>8. Following(t)'
      BY <1>1, <2>1, <2>3, <2>6 DEF Thread, Following, Finding
    <2>9. Looking(t)'
      <3>1. Sought(t)' = left[t]
        BY <2>1, <2>6 DEF Sought
      <3>2. left[t] \in DOMAIN data
        BY <1>1 DEF Thread, Following, Finding
      <3> QED BY <2>1, <2>6, <3>1, <3>2 DEF Looking
    <2>10. Thread(t)'
      BY <2>6, <2>7, <2>8, <2>9 DEF Thread, Ready, Comparing, Copying, Answered
    <2>11. Demoted'
      BY <2>1, <2>3, StaysDemoted
    <2>12. \A s \in Workers \ {t} : Bystands(s)
      BY <1>1, <2>3, <2>6, FrozenStands
    <2> QED BY <2>3, <2>5, <2>10, <2>11, <2>12, OneMoves
  <1> QED BY <1>2, <1>3

(* The smallest power of two that reaches a length of at most 16.           *)
LEMMA PowerReaches ==
    ASSUME NEW n \in 1 .. 16
    PROVE  NextPowerOfTwo(n) \in {1, 2, 4, 8, 16} /\ NextPowerOfTwo(n) >= n
  <1> DEFINE P == {1, 2, 4, 8, 16}
             Fits(p) == p >= n /\ \A q \in P : q >= n => p <= q
  <1>1. \E p \in P : Fits(p)
    <2>1. CASE n <= 1
      <3>1. Fits(1)
        BY <2>1
      <3> QED BY <3>1
    <2>2. CASE 1 < n /\ n <= 2
      <3>1. Fits(2)
        BY <2>2
      <3> QED BY <3>1
    <2>3. CASE 2 < n /\ n <= 4
      <3>1. Fits(4)
        BY <2>3
      <3> QED BY <3>1
    <2>4. CASE 4 < n /\ n <= 8
      <3>1. Fits(8)
        BY <2>4
      <3> QED BY <3>1
    <2>5. CASE 8 < n
      <3>1. Fits(16)
        BY <2>5
      <3> QED BY <3>1
    <2> QED BY <2>1, <2>2, <2>3, <2>4, <2>5
  <1>2. NextPowerOfTwo(n) = CHOOSE p \in P : Fits(p)
    BY DEF NextPowerOfTwo
  <1> QED BY <1>1, <1>2

(* The buffer grows while nobody is inside: new ids stand for themselves.   *)
LEMMA GrowForest ==
    ASSUME UnionFindAssumption, FInv, NEW t \in Workers, Grow(t)
    PROVE  /\ Forest(data') /\ Rep' = Rep /\ DOMAIN data \subseteq DOMAIN data'
           /\ \A x \in DOMAIN data : data'[x] = data[x]
  <1>1. Typed /\ Forest(data)
    BY DEF FInv, Typed
  <1>2. PICK n \in Nat \ {0} : DOMAIN data = 0 .. (n - 1) /\ Cardinality(DOMAIN data) = n
    BY <1>1, BufferIs
  <1>3. Needed(t) \in 1 .. 16
    <2>1. op[t].l \in 0 .. 15 /\ op[t].r \in 0 .. 15
      <3>1. op[t].l \in Ids /\ op[t].r \in Ids
        BY <1>1, RegistersTyped
      <3>2. Ids \subseteq 0 .. 15
        BY DEF Ids, UnionFindAssumption
      <3> QED BY <3>1, <3>2
    <2>2. op[t].l \in Nat /\ op[t].r \in Nat
      BY <2>1
    <2>3. Max({op[t].l, op[t].r}) \in {op[t].l, op[t].r}
      BY <2>2, MaxMin
    <2> QED BY <2>1, <2>3 DEF Needed
  <1>4. PICK q : q = NextPowerOfTwo(Needed(t))
    OBVIOUS
  <1>5. q \in {1, 2, 4, 8, 16}
    BY <1>3, <1>4, PowerReaches
  <1>6. PICK m : m = Max({q, n})
    OBVIOUS
  <1>7. m \in Nat \ {0} /\ m >= n
    <2>1. m = IF q >= n THEN q ELSE n
      BY <1>5, <1>6, MaxMin
    <2> QED BY <1>5, <2>1
  <1>8. data' = [x \in 0 .. (m - 1) |-> IF x \in DOMAIN data THEN data[x] ELSE x]
    BY <1>2, <1>4, <1>6 DEF Grow
  <1>9. DOMAIN data \subseteq 0 .. (m - 1)
    BY <1>2, <1>7
  <1>10. /\ Forest([x \in 0 .. (m - 1) |-> IF x \in DOMAIN data THEN data[x] ELSE x])
         /\ RepOf([x \in 0 .. (m - 1) |-> IF x \in DOMAIN data THEN data[x] ELSE x]) = RepOf(data)
    BY <1>1, <1>7, <1>9, GrowKeeps
  <1>11. Forest(data') /\ Rep' = Rep
    BY <1>8, <1>10 DEF Rep
  <1> QED BY <1>8, <1>9, <1>11

LEMMA GrowStep ==
    ASSUME UnionFindAssumption, FInv, NEW t \in Workers, Grow(t) PROVE FInv'
  <1>1. /\ at[t] = "grow" /\ Unshared /\ Observe /\ at' = [at EXCEPT ![t] = "enter"]
        /\ UNCHANGED <<op, left, right, side, cur, next, grand, copy, result, demoted>>
        /\ Typed /\ Thread(t) /\ Demoted
    BY DEF Grow, FInv, MoveTo, finding
  <1>2. /\ Forest(data') /\ Rep' = Rep /\ DOMAIN data \subseteq DOMAIN data'
        /\ \A x \in DOMAIN data : data'[x] = data[x]
    BY GrowForest
  <1>3. /\ seen' \in [Workers -> SUBSET (Ids \X Ids)]
        /\ Now(t)' \in seen'[t]
    BY <1>1, <1>2, Observed DEF Calling
  <1>4. Typed'
    BY <1>1, <1>2, <1>3 DEF Typed
  <1>5. at'[t] = "enter" /\ \A s \in Workers \ {t} : Frozen(s)
    BY <1>1 DEF Typed, Frozen
  <1>6. Watched(t)' /\ Ready(t)'
    BY <1>1, <1>3, <1>5 DEF Thread, Watched, Ready
  <1>7. Thread(t)'
    BY <1>5, <1>6 DEF Thread, Following, Finding, Looking, Comparing, Copying, Answered
  <1>8. Demoted'
    BY <1>1, <1>2 DEF Demoted, DemotedOnce
  <1>9. \A s \in Workers \ {t} : Bystands(s)
    BY <1>1, <1>2, <1>5, FrozenStands
  <1> QED BY <1>1, <1>4, <1>7, <1>8, <1>9, OneMoves

LEMMA ResetForest ==
    ASSUME UnionFindAssumption, FInv, Reset
    PROVE  Forest(data') /\ Rep' = [x \in Ids |-> x]
  <1>1. Forest(data) /\ data' = [x \in DOMAIN data |-> x]
    BY DEF FInv, Typed, Reset
  <1>2. /\ Forest([x \in DOMAIN data |-> x])
        /\ RepOf([x \in DOMAIN data |-> x]) = [x \in Ids |-> x]
    BY <1>1, ResetApart
  <1> QED BY <1>1, <1>2 DEF Rep

LEMMA ResetStep ==
    ASSUME UnionFindAssumption, FInv, Reset PROVE FInv'
  <1>1. /\ Unshared /\ Observe /\ demoted' = {}
        /\ UNCHANGED <<at, op, left, right, side, cur, next, grand, copy, result>>
        /\ Typed
    BY DEF Reset, FInv, finding
  <1>2. Forest(data')
    BY ResetForest
  <1>3. seen' \in [Workers -> SUBSET (Ids \X Ids)]
    BY <1>1, <1>2, Observed
  <1>4. Typed'
    BY <1>1, <1>2, <1>3 DEF Typed
  <1>5. Demoted'
    BY <1>1 DEF Demoted, DemotedOnce
  <1>6. ASSUME NEW t \in Workers PROVE Thread(t)'
    <2>1. Frozen(t)
      BY <1>1 DEF Frozen
    <2>2. Bystands(t)
      BY <1>1, <1>2, <2>1, FrozenStands
    <2>3. ~Inside(t) /\ Thread(t)
      BY <1>1 DEF Unshared, FInv
    <2> QED BY <1>1, <2>2, <2>3, Undisturbed
  <1> QED BY <1>4, <1>5, <1>6 DEF FInv

------------------------------------------------------------------------------
(* 5. WHAT FOLLOWS.                                                         *)

LEMMA ForestNext ==
    ASSUME UnionFindAssumption PROVE FInv /\ [NextForest]_forestVars => FInv'
  <1> SUFFICES ASSUME FInv, [NextForest]_forestVars PROVE FInv'
    OBVIOUS
  <1>1. CASE Reset
    BY <1>1, ResetStep
  <1>2. ASSUME NEW t \in Workers, Call(t) \/ StepForest(t) PROVE FInv'
    BY <1>2, CallStep, EnterStep, GrowStep, LoadNextStep, LoadGrandStep, SplitStep,
       CheckRootStep, LinkStep, CopyStep DEF StepForest
  <1>3. CASE UNCHANGED forestVars
    <2>1. Rep' = Rep /\ UNCHANGED <<data, at, op, left, right, side, cur, next, grand, copy,
                                    result, seen, demoted>>
      BY <1>3 DEF forestVars, finding, Rep
    <2>2. Typed' /\ Demoted'
      BY <2>1 DEF FInv, Typed, Demoted, DemotedOnce
    <2>3. ASSUME NEW t \in Workers PROVE Thread(t)'
      <3>1. Frozen(t)
        BY <2>1 DEF Frozen
      <3>2. Bystands(t) /\ Kept
        BY <2>1, <3>1, FrozenStands, SameForest
      <3> QED BY <3>2, Undisturbed DEF FInv
    <2> QED BY <2>2, <2>3 DEF FInv
  <1> QED BY <1>1, <1>2, <1>3 DEF NextForest

(* The invariant of the forest and its threads, for any number of threads   *)
(* and whatever forest earlier calls left (uf.rs).                          *)
THEOREM ForestInductive == ASSUME UnionFindAssumption PROVE SpecForest => []FInv
  <1>1. InitForest => FInv
    BY ForestInit
  <1>2. FInv /\ [NextForest]_forestVars => FInv'
    BY ForestNext
  <1> QED BY <1>1, <1>2, PTL DEF SpecForest

LEMMA AnswersLinearize == FInv => Linearizable
  <1> SUFFICES ASSUME FInv, NEW t \in Workers, at[t] = "returned"
               PROVE  CASE op[t].kind = "find" -> \E o \in seen[t] : result[t] = <<o[1]>>
                 [] op[t].kind = "same" -> \E o \in seen[t] : result[t] = <<o[1] = o[2]>>
                 [] op[t].kind = "merge" ->
                      \/ \E o \in seen[t] : o[1] = o[2] /\ result[t] = o
                      \/ /\ \E a, b \in seen[t] :
                               /\ a[1] # b[2]
                               /\ result[t] = <<Min({a[1], b[2]}), Max({a[1], b[2]})>>
                         /\ \E o \in seen[t] : result[t][2] \in {o[1], o[2]} /\ o[1] # o[2]
                         /\ \E o \in seen[t] : o[1] = o[2]
                 [] OTHER -> TRUE
    BY DEF Linearizable
  <1>1. Rightly(op[t].kind, seen[t], result[t])
    BY DEF FInv, Thread, Answered
  <1>2. CASE op[t].kind = "find"
    BY <1>1, <1>2 DEF Rightly
  <1>3. CASE op[t].kind = "same"
    BY <1>1, <1>3 DEF Rightly
  <1>4. CASE op[t].kind = "merge"
    BY <1>1, <1>4 DEF Rightly
  <1>5. CASE op[t].kind \notin {"find", "same", "merge"}
    BY <1>5
  <1> QED BY <1>2, <1>3, <1>4, <1>5

(* A copy that is complete was right before its last step, which reads      *)
(* nothing.                                                                 *)
LEMMA CopiesStand == FInv => CopiedPartition
  BY DEF FInv, Thread, Copying, CopiedPartition

(* The forest it starts from is a partition named by least members.         *)
LEMMA PartitionInit == ASSUME UnionFindAssumption PROVE FInv => Abstract!Init
  <1> SUFFICES ASSUME FInv PROVE Abstract!Init
    OBVIOUS
  <1>1. Forest(data)
    BY DEF FInv, Typed
  <1>2. \A x \in Ids : Rep[x] \in Ids /\ Rep[x] <= x /\ Rep[Rep[x]] = Rep[x]
    BY <1>1, RepFacts
  <1>3. Rep = [x \in Ids |-> Rep[x]]
    BY <1>1, RepStep DEF Rep
  <1>4. Rep \in [Ids -> Ids]
    <2> HIDE DEF Rep
    <2> QED BY <1>2, <1>3
  <1> QED BY <1>2, <1>4 DEF Abstract!Init

(* A link is a union, a reset a reset, and no other step moves a class.     *)
LEMMA PartitionNext ==
    ASSUME UnionFindAssumption PROVE FInv /\ [NextForest]_forestVars => [Abstract!Next]_Rep
  <1> SUFFICES ASSUME FInv, [NextForest]_forestVars PROVE Abstract!Next \/ Rep' = Rep
    OBVIOUS
  <1>1. CASE Reset
    BY <1>1, ResetForest DEF Abstract!Next, Abstract!Reset
  <1>2. ASSUME NEW t \in Workers, Link(t), data[Child(t)] = Child(t) PROVE Abstract!Next
    <2>1. at[t] = "link" /\ data' = [data EXCEPT ![Child(t)] = Parent(t)] /\ Forest(data)
      BY <1>2 DEF Link, FInv, Typed
    <2>2. PICK c : c = Child(t)
      OBVIOUS
    <2>3. PICK p : p = Rep[Parent(t)]
      OBVIOUS
    <2>4. /\ Child(t) \in Ids /\ Parent(t) \in Ids /\ Parent(t) < Child(t)
          /\ Rep[Child(t)] = Child(t)
          /\ Rep' = [x \in Ids |-> IF Rep[x] = Child(t) THEN Rep[Parent(t)] ELSE Rep[x]]
      BY <1>2, <2>1, LinkForest
    <2>5. /\ Rep[Parent(t)] \in Ids /\ Rep[Parent(t)] <= Parent(t)
          /\ Rep[Rep[Parent(t)]] = Rep[Parent(t)]
          /\ Rep[Parent(t)] \in Nat /\ Parent(t) \in Nat /\ Child(t) \in Nat
      BY <2>1, <2>4, RepFacts
    <2>6. /\ c \in Ids /\ p \in Ids /\ p < c /\ Rep[c] = c /\ Rep[p] = p
          /\ Rep' = [x \in Ids |-> IF Rep[x] = c THEN p ELSE Rep[x]]
      BY <2>2, <2>3, <2>4, <2>5
    <2>7. Abstract!Union
      BY <2>6 DEF Abstract!Union, Abstract!Joined
    <2> QED BY <2>7 DEF Abstract!Next
  <1>3. ASSUME NEW t \in Workers, Link(t), data[Child(t)] # Child(t) PROVE Rep' = Rep
    BY <1>3 DEF Link, Rep
  <1>4. ASSUME NEW t \in Workers, Split(t) PROVE Rep' = Rep
    BY <1>4, SplitForest
  <1>5. ASSUME NEW t \in Workers, Grow(t) PROVE Rep' = Rep
    BY <1>5, GrowForest
  <1>6. ASSUME NEW t \in Workers,
               Call(t) \/ Enter(t) \/ LoadNext(t) \/ LoadGrand(t) \/ CheckRoot(t) \/ Copy(t)
        PROVE  Rep' = Rep
    <2>1. UNCHANGED data
      BY <1>6 DEF Call, Enter, LoadNext, LoadGrand, CheckRoot, Copy
    <2> QED BY <2>1, SameForest
  <1>7. CASE UNCHANGED forestVars
    BY <1>7, SameForest DEF forestVars
  <1> QED BY <1>1, <1>2, <1>3, <1>4, <1>5, <1>6, <1>7 DEF NextForest, StepForest

(* What find, same_set, merge, reset and deep_copy of uf.rs owe: every      *)
(* answer was right at a moment of its call, no id is handed out as a child *)
(* twice, a copy joins nothing that is apart, and the lock-free forest is a *)
(* set of disjoint sets that a union joins at once.                         *)
THEOREM ForestIsSafe == ASSUME UnionFindAssumption PROVE SpecForest => ForestSafe
  <1>1. InitForest => FInv
    BY ForestInit
  <1>2. FInv /\ [NextForest]_forestVars => FInv'
    BY ForestNext
  <1>3. FInv => Linearizable /\ DemotedOnce
    BY AnswersLinearize DEF FInv, Demoted
  <1>4. FInv => CopiedPartition
    BY CopiesStand
  <1>5. FInv => Abstract!Init
    BY PartitionInit
  <1>6. FInv /\ [NextForest]_forestVars => [Abstract!Next]_Rep
    BY PartitionNext
  <1> QED BY <1>1, <1>2, <1>3, <1>4, <1>5, <1>6, PTL
          DEF SpecForest, ForestSafe, CopyInventsNothing, ImplementsDisjointSets, Abstract!Spec

==============================================================================
