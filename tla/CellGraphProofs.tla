--------------------------- MODULE CellGraphProofs ---------------------------
(***************************************************************************)
(* Safety of CellGraph for every program, database and hash function.      *)
(* IInv is inductive; each invariant of the TLC runs is one of its parts   *)
(* or follows from it.                                                     *)
(***************************************************************************)
EXTENDS CellGraph, TLAPS, SequenceTheorems, FiniteSetTheorems

IInv ==
    /\ TypeOK
    /\ RootIsOldest
    /\ UnmadeAlone
    /\ UsesExact
    /\ Covers
    /\ Filed
    /\ CleanIndexed
    /\ CleanUnique
    /\ DirtyLive
    /\ QuietOutsideRepair

------------------------------------------------------------------------------
(* A set of bounded naturals has a largest member.                          *)
LEMMA Largest ==
    ASSUME NEW b \in Nat, NEW S \in SUBSET (0..b), S # {}
    PROVE  \E m \in S : \A n \in S : n <= m
  <1> DEFINE D == 0..b
             Above(n) == {x \in D : x > n}
             T == {Above(n) : n \in S}
             R == StrictSubsetOrdering(D)
  <1>1. IsFiniteSet(D)
    BY FS_Interval
  <1>2. IsWellFoundedOn(R, FiniteSubsetsOf(D))
    BY FS_StrictSubsetOrderingWellFounded
  <1>3. T \subseteq FiniteSubsetsOf(D) /\ T # {}
    <2>1. T \subseteq SUBSET D /\ T # {}
      OBVIOUS
    <2>2. FiniteSubsetsOf(D) = SUBSET D
      BY <1>1, FS_FiniteSubsetsOfFinite
    <2> QED BY <2>1, <2>2
  <1>4. PICK x \in T : \A y \in T : ~ (<<y, x>> \in R)
    <2> HIDE DEF T, R, D
    <2> QED BY <1>2, <1>3, WFMin
  <1>5. PICK m \in S : x = Above(m)
    OBVIOUS
  <1>6. ASSUME NEW n \in S, n > m PROVE FALSE
    <2>1. Above(n) \subseteq Above(m) /\ Above(n) # Above(m)
      BY <1>6
    <2>2. <<Above(n), Above(m)>> \in R
      BY <2>1 DEF StrictSubsetOrdering
    <2> QED BY <2>2, <1>4, <1>5
  <1> QED BY <1>6

(* A nonempty set of naturals has a least member.                           *)
LEMMA Least ==
    ASSUME NEW S \in SUBSET Nat, S # {}
    PROVE  \E m \in S : \A n \in S : m <= n
  <1>1. PICK b \in S : TRUE
    OBVIOUS
  <1> DEFINE T == {n \in 0..b : \A x \in S : n <= x}
  <1>2. 0 \in T /\ T \subseteq 0..b
    BY <1>1
  <1> HIDE DEF T
  <1>3. PICK m \in T : \A n \in T : n <= m
    BY <1>1, <1>2, Largest
  <1>4. m \in 0..b /\ \A x \in S : m <= x
    BY <1>3 DEF T
  <1>5. m \in S
    <2> SUFFICES ASSUME m \notin S PROVE FALSE
      OBVIOUS
    <2>1. \A x \in S : m + 1 <= x
      BY <1>4
    <2>2. m + 1 \in T
      BY <1>1, <1>4, <2>1 DEF T
    <2> QED BY <1>3, <1>4, <2>2
  <1> QED BY <1>4, <1>5

(* Numbering: facts precede ports, a fact's class is a class, and every     *)
(* class made so far is a class.                                            *)
LEMMA Numbering ==
    /\ FactRefs \subseteq Dependency
    /\ \A f \in FactRefs : ClassOf(f) \in Ids
    /\ \A n \in 0..MaxFact : 1..(NumImports + n) \subseteq Ids
  BY BoundsAssumption DEF FactRefs, Dependency, Ports, ClassOf, Ids

(* The canonical row of a dependency mentions exactly the roots of what its *)
(* recipe mentions (Graph::fact reads every column through canon).          *)
LEMMA RefsOfRow ==
    ASSUME TypeOK, NEW d \in DOMAIN recipe, NEW i \in Ids
    PROVE  i \in Refs(Row(d)) <=> \E x \in Refs(recipe[d]) : root[x] = i
  <1>1. nextFact \in 0..MaxFact /\ Made \subseteq Ids
    BY Numbering DEF TypeOK, Made
  <1> DEFINE k == recipe[d].key
  <1>2. k \in [DOMAIN k -> Ids] /\ recipe[d].value \in Ids \cup Scalars
    BY <1>1 DEF TypeOK
  <1>3. root \in [Ids -> Ids]
    BY DEF TypeOK
  <1>4. Row(d).key = [j \in DOMAIN k |-> root[k[j]]]
    BY <1>2 DEF Row, CanonKey, Canon
  <1>5. Row(d).value = IF recipe[d].value \in Ids THEN root[recipe[d].value]
                       ELSE recipe[d].value
    BY DEF Row, Canon
  <1> QED
    BY <1>2, <1>3, <1>4, <1>5, ValuesAssumption DEF Refs

(* A live row is listed under every class it mentions.                      *)
LEMMA ListedWhereMentioned ==
    ASSUME TypeOK, UsesExact, Covers,
           NEW d \in live, NEW i \in Ids
    PROVE  (\E x \in Refs(recipe[d]) : root[x] = i) <=> d \in uses[i]
  <1>1. d \in Dependency
    BY DEF TypeOK
  <1> QED BY <1>1 DEF UsesExact, Covers

------------------------------------------------------------------------------
(* The empty graph satisfies the invariant.                                 *)
LEMMA InitInv == Init => IInv
  <1> SUFFICES ASSUME Init PROVE IInv
    OBVIOUS
  <1> USE DEF Init
  <1>1. TypeOK
    <2>1. pending \in Seq(Made \X Made)
      OBVIOUS
    <2>2. DOMAIN recipe = {} /\ DOMAIN recipe \cap FactRefs = 1..nextFact
      BY SMT
    <2>3. bucketOf \in [FactRefs -> Hashes]
      BY HashAssumption
    <2>4. /\ root \in [Ids -> Ids]
          /\ stamp \in [Dependency -> 0..MaxEpoch]
          /\ intern \in [Hashes -> SUBSET FactRefs]
          /\ uses \in [Ids -> SUBSET Dependency]
          /\ dependencies \in [Dependency -> SUBSET Ids]
      BY BoundsAssumption
    <2>5. nextFact \in 0..MaxFact /\ epoch \in 0..MaxEpoch
      BY BoundsAssumption
    <2>6. /\ DOMAIN recipe \subseteq Dependency
          /\ \A d \in DOMAIN recipe : FALSE
          /\ live \subseteq DOMAIN recipe
          /\ hidden \subseteq live \cap FactRefs
          /\ dirty \subseteq Dependency
          /\ events \subseteq Dependency
          /\ changed \in BOOLEAN
          /\ phase \in {"idle", "rhs", "repair"}
      BY <2>2
    <2> HIDE DEF Init
    <2> QED
      BY <2>1, <2>2, <2>3, <2>4, <2>5, <2>6 DEF TypeOK
  <1>2. RootIsOldest /\ UnmadeAlone
    BY BoundsAssumption DEF RootIsOldest, UnmadeAlone, Ids
  <1>3. UsesExact /\ Covers /\ Filed
    BY DEF UsesExact, Covers, Filed
  <1>4. CleanIndexed /\ CleanUnique /\ DirtyLive /\ QuietOutsideRepair
    BY DEF CleanIndexed, CleanUnique, DirtyLive, QuietOutsideRepair
  <1> QED BY <1>1, <1>2, <1>3, <1>4 DEF IInv

(* Known classes are made and are their own roots.                          *)
LEMMA KnownIsCanonical ==
    ASSUME TypeOK, RootIsOldest, NEW a \in Known
    PROVE  a \in Made /\ a \in Ids /\ root[a] = a
  <1>1. nextFact \in 0..MaxFact /\ Made \subseteq Ids
    BY Numbering DEF TypeOK, Made
  <1>2. PICK i \in Made : a = root[i]
    BY <1>1, BoundsAssumption DEF Known, Made, ClassOf
  <1>3. root[i] \in Ids /\ root[i] <= i /\ root[root[i]] = root[i]
    BY <1>1 DEF TypeOK, RootIsOldest
  <1> QED BY <1>1, <1>2, <1>3, BoundsAssumption DEF Made, Ids

(* Classes a row may be written with: made, and its own root.               *)
Roots == {i \in Made : root[i] = i}

(* Adding a fact under a key that no live fact owns, filed under its hash   *)
(* and subscribed to its classes, keeps the graph sound (activate).         *)
LEMMA ActivateRootsInv ==
    ASSUME IInv, NEW t \in Virtual, NEW key \in [1..Arity[t] -> Roots],
           NEW v \in Roots \cup {FreshValue(t)}, NEW hide \in BOOLEAN,
           phase # "repair", Activate(t, key, v, hide)
    PROVE  IInv'
  <1> DEFINE f == nextFact + 1
             r == [table |-> t, key |-> key, value |-> v]
             h == HashOf(t, key)
  <1> USE DEF IInv
  <1>1. /\ nextFact < MaxFact
        /\ Matching(t, key) = {}
        /\ nextFact' = f
        /\ recipe' = Put(recipe, f, r)
        /\ live' = live \cup {f}
        /\ hidden' = IF hide THEN hidden \cup {f} ELSE hidden
        /\ stamp' = [stamp EXCEPT ![f] = epoch]
        /\ bucketOf' = [bucketOf EXCEPT ![f] = h]
        /\ intern' = [intern EXCEPT ![h] = @ \cup {f}]
        /\ uses' = UsesAfter(uses, f, Refs(r))
        /\ dependencies' = [dependencies EXCEPT ![f] = Refs(r)]
        /\ events' = events \cup {f}
        /\ changed' = TRUE
        /\ UNCHANGED <<root, dirty, pending, epoch, phase>>
    BY DEF Activate, Subscribe, unionVars
  <1>2. /\ nextFact \in 0..MaxFact /\ f \in 0..MaxFact
        /\ f \in FactRefs /\ f \in Dependency
        /\ f \notin DOMAIN recipe /\ f \notin live
        /\ Made \subseteq Ids /\ Made' \subseteq Ids
        /\ Made \subseteq Made' /\ ClassOf(f) \in Made'
    <2>1. nextFact \in 0..MaxFact /\ f \in 0..MaxFact /\ f \in FactRefs
      BY <1>1, BoundsAssumption DEF TypeOK, FactRefs
    <2>2. Made' = 1..(NumImports + f)
      BY <1>1 DEF Made
    <2>3. Made \subseteq Ids /\ Made' \subseteq Ids /\ Made \subseteq Made'
      BY <1>1, <2>1, BoundsAssumption DEF Made, Ids
    <2>4. ClassOf(f) \in Made'
      BY <2>1, <2>2, BoundsAssumption DEF ClassOf
    <2>5. f \notin DOMAIN recipe /\ f \notin live
      BY <2>1, BoundsAssumption DEF TypeOK
    <2> QED BY <2>1, <2>3, <2>4, <2>5, Numbering
  <1>3. dirty = {} /\ dirty' = {}
    BY <1>1 DEF QuietOutsideRepair
  <1>4. /\ t \in Tables
        /\ key \in [1..Arity[t] -> Made] /\ key \in Keys(t)
        /\ \A j \in DOMAIN key : key[j] \in Ids /\ root[key[j]] = key[j]
        /\ h \in Hashes
    BY <1>2, TablesAssumption, HashAssumption DEF Keys, Roots, Virtual
  <1>5. /\ v \in Made' \cup Scalars
        /\ t \in Constructors => v \in Made'
        /\ v \in Ids => root[v] = v
    <2>1. CASE v \in Roots
      BY <2>1, <1>2 DEF Roots
    <2>2. CASE v = FreshValue(t) /\ t \in Constructors
      <3>1. v = ClassOf(f) /\ v \in Ids \ Made
        BY <2>2, <1>2, BoundsAssumption, Numbering
        DEF FreshValue, ClassOf, Made
      <3> QED BY <3>1, <1>2 DEF UnmadeAlone
    <2>3. CASE v = FreshValue(t) /\ t \notin Constructors
      BY <2>3, ValuesAssumption DEF FreshValue
    <2> QED BY <2>1, <2>2, <2>3
  <1>6. /\ Refs(r) \subseteq Ids
        /\ \A x \in Refs(r) : root[x] = x
    BY <1>4, <1>5 DEF Refs
  <1>7. /\ DOMAIN recipe' = DOMAIN recipe \cup {f}
        /\ recipe'[f] = r
        /\ \A d \in DOMAIN recipe : recipe'[d] = recipe[d]
    BY <1>1, <1>2 DEF Put
  <1>8. TypeOK'
    <2>1. \A d \in DOMAIN recipe' :
            /\ recipe'[d].table \in Tables
            /\ recipe'[d].key \in [1..Arity[recipe'[d].table] -> Made']
            /\ recipe'[d].value \in IF recipe'[d].table \in Constructors
                                    THEN Made' ELSE Made' \cup Scalars
      <3> SUFFICES ASSUME NEW d \in DOMAIN recipe'
                   PROVE  /\ recipe'[d].table \in Tables
                          /\ recipe'[d].key \in [1..Arity[recipe'[d].table] -> Made']
                          /\ recipe'[d].value \in
                               IF recipe'[d].table \in Constructors
                               THEN Made' ELSE Made' \cup Scalars
        OBVIOUS
      <3>1. CASE d = f
        BY <3>1, <1>2, <1>4, <1>5, <1>7
      <3>2. CASE d \in DOMAIN recipe
        BY <3>2, <1>2, <1>7 DEF TypeOK
      <3> QED BY <3>1, <3>2, <1>7
    <2>2. DOMAIN recipe' \subseteq Dependency
          /\ DOMAIN recipe' \cap FactRefs = 1..nextFact'
          /\ live' \subseteq DOMAIN recipe'
          /\ hidden' \subseteq live' \cap FactRefs
      BY <1>1, <1>2, <1>7 DEF TypeOK
    <2>3. pending' \in Seq(Made' \X Made')
      <3>1. Made \X Made \subseteq Made' \X Made'
        BY <1>2
      <3>2. Seq(Made \X Made) \subseteq Seq(Made' \X Made')
        BY <3>1, SeqMonotonic
      <3> QED BY <3>2, <1>1 DEF TypeOK
    <2>4. uses' \in [Ids -> SUBSET Dependency]
          /\ dependencies' \in [Dependency -> SUBSET Ids]
      BY <1>1, <1>2, <1>6 DEF TypeOK, UsesAfter
    <2>5. /\ root' \in [Ids -> Ids]
          /\ stamp' \in [Dependency -> 0..MaxEpoch]
          /\ bucketOf' \in [FactRefs -> Hashes]
          /\ intern' \in [Hashes -> SUBSET FactRefs]
      BY <1>1, <1>2, <1>4 DEF TypeOK
    <2>6. /\ nextFact' \in 0..MaxFact
          /\ dirty' \subseteq Dependency
          /\ events' \subseteq Dependency
          /\ epoch' \in 0..MaxEpoch
          /\ changed' \in BOOLEAN
          /\ phase' \in {"idle", "rhs", "repair"}
      BY <1>1, <1>2 DEF TypeOK
    <2> QED BY <2>1, <2>2, <2>3, <2>4, <2>5, <2>6 DEF TypeOK
  <1>9. RootIsOldest' /\ UnmadeAlone'
    BY <1>1, <1>2 DEF RootIsOldest, UnmadeAlone
  <1>10. UsesExact' /\ Covers'
    <2>1. dependencies[f] = {}
      BY <1>2 DEF Covers
    <2>2. UsesExact'
      BY <2>1, <1>1, <1>2, <1>6 DEF UsesExact, UsesAfter, TypeOK
    <2>3. Covers'
      <3> SUFFICES ASSUME NEW d \in Dependency
                   PROVE  IF d \in live'
                          THEN \A i \in Ids :
                                 (\E x \in dependencies'[d] : root[x] = i)
                                 <=> (\E x \in Refs(recipe'[d]) : root[x] = i)
                          ELSE dependencies'[d] = {}
        BY <1>1 DEF Covers, Refs
      <3>1. CASE d = f
        BY <3>1, <1>1, <1>2, <1>7 DEF TypeOK
      <3>2. CASE d # f
        <4>1. dependencies'[d] = dependencies[d] /\ (d \in live' <=> d \in live)
          BY <3>2, <1>1 DEF TypeOK
        <4>2. d \in live => recipe'[d] = recipe[d]
          BY <1>7 DEF TypeOK
        <4> QED BY <4>1, <4>2 DEF Covers
      <3> QED BY <3>1, <3>2
    <2> QED BY <2>2, <2>3
  <1>11. Filed'
    BY <1>1, <1>2, <1>4 DEF Filed, TypeOK
  <1>12. /\ live' \cap FactRefs = (live \cap FactRefs) \cup {f}
         /\ \A d \in live \cap FactRefs : d # f /\ recipe'[d] = recipe[d]
         /\ recipe'[f].table = t /\ recipe'[f].key = key
         /\ CanonKey(key) = key
    <2>1. CanonKey(key) = key
      BY <1>4 DEF CanonKey, Canon
    <2> QED BY <2>1, <1>1, <1>2, <1>7 DEF TypeOK
  <1>13. CleanIndexed'
    <2> SUFFICES ASSUME NEW d \in live' \cap FactRefs
                 PROVE  /\ bucketOf'[d] = HashOf(recipe'[d].table,
                                                CanonKey(recipe'[d].key))
                        /\ d \in intern'[bucketOf'[d]]
      BY <1>1 DEF CleanIndexed, Row, CanonKey, Canon
    <2>1. CASE d = f
      BY <2>1, <1>1, <1>2, <1>4, <1>12 DEF TypeOK
    <2>2. CASE d # f
      <3>1. d \in (live \cap FactRefs) \ dirty /\ bucketOf'[d] = bucketOf[d]
        BY <2>2, <1>1, <1>2, <1>3 DEF TypeOK
      <3>2. /\ bucketOf[d] = HashOf(recipe[d].table, CanonKey(recipe[d].key))
            /\ d \in intern[bucketOf[d]]
        BY <3>1 DEF CleanIndexed, Row
      <3>3. intern[bucketOf[d]] \subseteq intern'[bucketOf[d]]
        BY <3>1, <1>1, <1>4 DEF TypeOK
      <3> QED BY <3>1, <3>2, <3>3, <1>12
    <2> QED BY <2>1, <2>2
  <1>14. CleanUnique'
    <2>1. \A d \in live \cap FactRefs :
            ~ (recipe[d].table = t /\ CanonKey(recipe[d].key) = key)
      <3> SUFFICES ASSUME NEW d \in live \cap FactRefs, recipe[d].table = t,
                          CanonKey(recipe[d].key) = key
                   PROVE  FALSE
        OBVIOUS
      <3>1. d \in intern[h]
        BY <1>3 DEF CleanIndexed, Row
      <3> QED BY <1>1, <1>12, <3>1 DEF Matching
    <2>2. \A d, e \in (live \cap FactRefs) \cup {f} :
            /\ recipe'[d].table = recipe'[e].table
            /\ CanonKey(recipe'[d].key) = CanonKey(recipe'[e].key)
            => d = e
      BY <2>1, <1>3, <1>12 DEF CleanUnique, SameKey
    <2> QED
      BY <2>2, <1>1, <1>3, <1>12 DEF CleanUnique, SameKey, CanonKey, Canon
  <1>15. DirtyLive' /\ QuietOutsideRepair'
    BY <1>1, <1>3 DEF DirtyLive, QuietOutsideRepair
  <1> QED
    BY <1>8, <1>9, <1>10, <1>11, <1>13, <1>14, <1>15

(* So does adding one whose classes a right-hand side knows.                *)
LEMMA ActivateInv ==
    ASSUME IInv, NEW t \in Virtual, NEW key \in KnownKeys(t),
           NEW v \in Known \cup {FreshValue(t)}, NEW hide \in BOOLEAN,
           phase = "rhs", Activate(t, key, v, hide)
    PROVE  IInv'
  <1>1. Known \subseteq Roots
    BY KnownIsCanonical DEF IInv, Roots
  <1>2. key \in [1..Arity[t] -> Roots] /\ v \in Roots \cup {FreshValue(t)}
    BY <1>1 DEF KnownKeys
  <1> QED BY <1>2, ActivateRootsInv

------------------------------------------------------------------------------
(* Re-subscribing one dependency under roots keeps the index exact.         *)
LEMMA ResubscribeExact ==
    ASSUME TypeOK, UsesExact, NEW d \in Dependency, NEW ids \in SUBSET Ids,
           \A x \in ids : root[x] = x,
           Subscribe(d, ids), root' = root
    PROVE  /\ UsesExact'
           /\ uses' \in [Ids -> SUBSET Dependency]
           /\ dependencies' \in [Dependency -> SUBSET Ids]
           /\ dependencies'[d] = ids
           /\ \A e \in Dependency \ {d} : dependencies'[e] = dependencies[e]
  BY DEF TypeOK, UsesExact, Subscribe, UsesAfter

(* Made classes have made roots, and the roots are canonical.               *)
LEMMA RootOfMade ==
    ASSUME TypeOK, RootIsOldest, NEW i \in Made
    PROVE  /\ i \in Ids /\ root[i] \in Made /\ root[i] \in Ids
           /\ root[root[i]] = root[i]
  <1>1. nextFact \in 0..MaxFact /\ Made \subseteq Ids
    BY Numbering DEF TypeOK, Made
  <1>2. root[i] \in Ids /\ root[i] <= i /\ root[root[i]] = root[i]
    BY <1>1 DEF TypeOK, RootIsOldest
  <1> QED BY <1>1, <1>2, BoundsAssumption DEF Made, Ids

(* The value of a constructor's row is a made class.                        *)
LEMMA ValueOfRow ==
    ASSUME TypeOK, RootIsOldest, NEW d \in DOMAIN recipe,
           recipe[d].table \in Constructors
    PROVE  Row(d).value \in Made
  <1>1. recipe[d].value \in Made
    BY DEF TypeOK
  <1> QED BY <1>1, RootOfMade DEF Row, Canon

(* A step that leaves rows, classes and indexes alone keeps the invariant.  *)
LEMMA FrameInv ==
    ASSUME IInv, TypeOK', phase' # "repair" => dirty = {},
           UNCHANGED <<root, nextFact, recipe, live, bucketOf, intern, uses,
                       dependencies, dirty>>
    PROVE  IInv'
  <1>1. RootIsOldest' /\ UnmadeAlone'
    BY DEF IInv, RootIsOldest, UnmadeAlone, Made
  <1>2. UsesExact' /\ Covers' /\ Filed'
    BY DEF IInv, UsesExact, Covers, Filed, Refs
  <1>3. CleanIndexed' /\ CleanUnique'
    BY DEF IInv, CleanIndexed, CleanUnique, SameKey, Row, CanonKey, Canon
  <1>4. DirtyLive' /\ QuietOutsideRepair'
    BY DEF IInv, DirtyLive, QuietOutsideRepair
  <1> QED BY <1>1, <1>2, <1>3, <1>4 DEF IInv

(* Taking one live fact out of its bucket and of the reverse index keeps    *)
(* what the remaining rows rely on (retire).                                *)
LEMMA RetireIndexes ==
    ASSUME IInv, NEW f \in live \cap FactRefs,
           live' = live \ {f},
           intern' = Unfiled(f),
           Subscribe(f, {}),
           UNCHANGED <<root, nextFact, recipe, bucketOf>>,
           dirty \ {f} = dirty'
    PROVE  /\ RootIsOldest' /\ UnmadeAlone' /\ UsesExact' /\ Covers' /\ Filed'
           /\ CleanIndexed' /\ CleanUnique' /\ DirtyLive'
           /\ intern' \in [Hashes -> SUBSET FactRefs]
           /\ uses' \in [Ids -> SUBSET Dependency]
           /\ dependencies' \in [Dependency -> SUBSET Ids]
  <1> USE DEF IInv
  <1>1. RootIsOldest' /\ UnmadeAlone'
    BY DEF RootIsOldest, UnmadeAlone, Made
  <1>2. f \in Dependency
    BY Numbering
  <1>3. /\ UsesExact'
        /\ uses' \in [Ids -> SUBSET Dependency]
        /\ dependencies' \in [Dependency -> SUBSET Ids]
        /\ dependencies'[f] = {}
        /\ \A e \in Dependency \ {f} : dependencies'[e] = dependencies[e]
    BY <1>2, ResubscribeExact
  <1>4. Covers'
    BY <1>3 DEF Covers, Refs
  <1>5. /\ intern' \in [Hashes -> SUBSET FactRefs]
        /\ \A h \in Hashes : intern'[h] = intern[h] \ {f}
    BY DEF Unfiled, TypeOK, Filed
  <1>6. Filed'
    BY <1>5 DEF Filed
  <1>7. bucketOf \in [FactRefs -> Hashes]
    BY DEF TypeOK
  <1>8. CleanIndexed' /\ CleanUnique'
    <2>1. \A e \in (live' \cap FactRefs) \ dirty' :
            e \in (live \cap FactRefs) \ dirty /\ e # f
      OBVIOUS
    <2>2. CleanIndexed'
      BY <2>1, <1>5, <1>7 DEF CleanIndexed, Row, CanonKey, Canon
    <2>3. CleanUnique'
      BY <2>1 DEF CleanUnique, SameKey, CanonKey, Canon
    <2> QED BY <2>2, <2>3
  <1>9. DirtyLive'
    BY DEF DirtyLive
  <1> QED BY <1>1, <1>3, <1>4, <1>5, <1>6, <1>8, <1>9
------------------------------------------------------------------------------
(* A new epoch changes no row and no index (Executor::run).                 *)
LEMMA BeginRunInv == IInv /\ BeginRun => IInv'
  <1> SUFFICES ASSUME IInv, BeginRun PROVE IInv'
    OBVIOUS
  <1> USE DEF BeginRun, unionVars, indexVars
  <1>1. TypeOK'
    <2>1. epoch' \in 0..MaxEpoch
      BY BoundsAssumption DEF IInv, TypeOK
    <2> QED BY <2>1 DEF IInv, TypeOK, Made
  <1>2. dirty = {}
    BY DEF IInv, QuietOutsideRepair
  <1> QED BY <1>1, <1>2, FrameInv

(* Repair starts on the graph the effects left.                             *)
LEMMA BeginRepairInv == IInv /\ BeginRepair => IInv'
  <1> SUFFICES ASSUME IInv, BeginRepair PROVE IInv'
    OBVIOUS
  <1> USE DEF BeginRepair, unionVars, indexVars, rowVars
  <1>1. TypeOK'
    BY DEF IInv, TypeOK, Made
  <1> QED BY <1>1, FrameInv

(* A published graph has no row left to repair.                             *)
LEMMA PublishInv == IInv /\ Publish => IInv'
  <1> SUFFICES ASSUME IInv, Publish PROVE IInv'
    OBVIOUS
  <1> USE DEF Publish, unionVars, indexVars, rowVars
  <1>1. TypeOK'
    BY DEF IInv, TypeOK, Made
  <1> QED BY <1>1, FrameInv

(* A requested union names two made classes and waits for repair.           *)
LEMMA RequestUnionInv ==
    ASSUME IInv, NEW a \in Made, NEW b \in Made, RequestUnion(a, b)
    PROVE  IInv'
  <1> USE DEF RequestUnion, indexVars, rowVars
  <1>1. pending \in Seq(Made \X Made) /\ <<a, b>> \in Made \X Made
    BY DEF IInv, TypeOK
  <1>2. pending' \in Seq(Made \X Made)
    BY <1>1, AppendProperties
  <1>3. TypeOK'
    BY <1>2 DEF IInv, TypeOK, Made
  <1>4. dirty = {}
    BY DEF IInv, QuietOutsideRepair
  <1> QED BY <1>3, <1>4, FrameInv

(* Setting a constructor row that exists only asks for a union.             *)
LEMMA SetExistingInv ==
    ASSUME IInv, NEW t \in Constructors, NEW key, NEW v \in Made,
           SetExisting(t, key, v)
    PROVE  IInv'
  <1>1. PICK f \in FactRefs :
          First(f, Matching(t, key)) /\ RequestUnion(Row(f).value, v)
    BY DEF SetExisting
  <1>2. f \in DOMAIN recipe /\ recipe[f].table \in Constructors
    BY <1>1 DEF First, Matching, IInv, TypeOK
  <1>3. Row(f).value \in Made
    BY <1>2, ValueOfRow DEF IInv
  <1> QED BY <1>1, <1>3, RequestUnionInv

(* Hiding a row leaves it filed and subscribed.                             *)
LEMMA SubsumeInv ==
    ASSUME IInv, NEW t, NEW key, Subsume(t, key)
    PROVE  IInv'
  <1> USE DEF Subsume, unionVars, indexVars
  <1>1. PICK f \in FactRefs :
          /\ First(f, Matching(t, key))
          /\ hidden' = hidden \cup {f}
          /\ stamp' = [stamp EXCEPT ![f] = epoch]
          /\ events' = events \cup {f}
          /\ changed' = TRUE
    OBVIOUS
  <1>2. f \in live /\ f \in Dependency
    BY <1>1, Numbering DEF First, Matching
  <1>3. TypeOK'
    BY <1>1, <1>2 DEF IInv, TypeOK, Made
  <1>4. dirty = {}
    BY DEF IInv, QuietOutsideRepair
  <1> QED BY <1>3, <1>4, FrameInv

(* Deleting a row takes it out of its bucket and of every class's list.     *)
LEMMA DeleteInv ==
    ASSUME IInv, NEW t, NEW key, Delete(t, key)
    PROVE  IInv'
  <1> USE DEF Delete, unionVars
  <1>1. PICK f \in FactRefs :
          /\ First(f, Matching(t, key))
          /\ live' = live \ {f}
          /\ hidden' = hidden \ {f}
          /\ intern' = Unfiled(f)
          /\ Subscribe(f, {})
          /\ changed' = TRUE
    BY DEF Unfiled
  <1>2. f \in live \cap FactRefs
    BY <1>1 DEF First, Matching
  <1>3. dirty = {} /\ dirty' = {} /\ dirty \ {f} = dirty'
    BY DEF IInv, QuietOutsideRepair
  <1>4. UNCHANGED <<root, nextFact, recipe, bucketOf>>
    OBVIOUS
  <1>5. /\ RootIsOldest' /\ UnmadeAlone' /\ UsesExact' /\ Covers' /\ Filed'
        /\ CleanIndexed' /\ CleanUnique' /\ DirtyLive'
        /\ intern' \in [Hashes -> SUBSET FactRefs]
        /\ uses' \in [Ids -> SUBSET Dependency]
        /\ dependencies' \in [Dependency -> SUBSET Ids]
    BY <1>1, <1>2, <1>3, <1>4, RetireIndexes
  <1>6. TypeOK'
    BY <1>1, <1>3, <1>5 DEF IInv, TypeOK, Made
  <1>7. QuietOutsideRepair'
    BY <1>3 DEF QuietOutsideRepair
  <1> QED BY <1>5, <1>6, <1>7 DEF IInv

------------------------------------------------------------------------------
(* Linking two roots: the rows of the younger class become dirty, every     *)
(* other row keeps its canonical form, and the index follows the new roots. *)
LEMMA LinkInv ==
    ASSUME IInv, NEW lo \in Made, NEW hi \in Made, root[lo] = lo,
           root[hi] = hi, lo < hi, LinkRoots(lo, hi), phase = "repair",
           pending' \in Seq(Made \X Made),
           UNCHANGED <<nextFact, recipe, live, hidden, stamp, bucketOf, intern,
                       dependencies, events, epoch, phase>>
    PROVE  IInv'
  <1> USE DEF IInv
  <1>1. lo \in Ids /\ hi \in Ids /\ lo # hi
    BY RootOfMade DEF Made, Ids
  <1>2. /\ \A i \in Ids : root'[i] = IF root[i] = hi THEN lo ELSE root[i]
        /\ root' \in [Ids -> Ids]
        /\ dirty' = dirty \cup uses[hi]
        /\ uses' \in [Ids -> SUBSET Dependency]
        /\ \A i \in Ids : uses'[i] = IF i = lo THEN uses[lo] \cup uses[hi]
                                     ELSE IF i = hi THEN {} ELSE uses[i]
        /\ changed' = TRUE
    BY <1>1 DEF LinkRoots, TypeOK
  <1>3. TypeOK'
    BY <1>1, <1>2 DEF TypeOK, Made
  <1>4. RootIsOldest'
    <2> SUFFICES ASSUME NEW i \in Ids
                 PROVE  root'[root'[i]] = root'[i] /\ root'[i] <= i
      BY DEF RootIsOldest
    <2>1. root[i] \in Ids /\ root[root[i]] = root[i] /\ root[i] <= i
      BY DEF RootIsOldest, TypeOK
    <2>2. CASE root[i] = hi
      BY <2>1, <2>2, <1>1, <1>2 DEF Ids
    <2>3. CASE root[i] # hi
      BY <2>1, <2>3, <1>1, <1>2
    <2> QED BY <2>2, <2>3
  <1>5. UnmadeAlone'
    BY <1>1, <1>2 DEF UnmadeAlone, Made
  <1>6. UsesExact'
    <2> SUFFICES ASSUME NEW i \in Ids, NEW d \in Dependency
                 PROVE  d \in uses'[i]
                        <=> \E x \in dependencies[d] : root'[x] = i
      BY DEF UsesExact
    <2>1. \A j \in Ids : d \in uses[j] <=> \E x \in dependencies[d] : root[x] = j
      BY DEF UsesExact
    <2>2. \A x \in dependencies[d] : x \in Ids
      BY DEF TypeOK
    <2>3. CASE i = lo
      BY <2>1, <2>2, <2>3, <1>1, <1>2
    <2>4. CASE i = hi
      BY <2>1, <2>2, <2>4, <1>1, <1>2
    <2>5. CASE i # lo /\ i # hi
      BY <2>1, <2>2, <2>5, <1>1, <1>2
    <2> QED BY <2>3, <2>4, <2>5
  <1>7. Covers'
    <2> SUFFICES ASSUME NEW d \in live, d \in Dependency, NEW i \in Ids
                 PROVE  (\E x \in dependencies[d] : root'[x] = i)
                        <=> (\E x \in Refs(recipe[d]) : root'[x] = i)
      BY DEF Covers, Refs
    <2>1. \A j \in Ids : (\E x \in dependencies[d] : root[x] = j)
                          <=> (\E x \in Refs(recipe[d]) : root[x] = j)
      BY DEF Covers
    <2>2. dependencies[d] \subseteq Ids /\ Refs(recipe[d]) \subseteq Ids
      BY DEF TypeOK, Refs
    <2>3. CASE i = lo
      BY <2>1, <2>2, <2>3, <1>1, <1>2
    <2>4. CASE i = hi
      BY <2>1, <2>2, <2>4, <1>1, <1>2
    <2>5. CASE i # lo /\ i # hi
      BY <2>1, <2>2, <2>5, <1>1, <1>2
    <2> QED BY <2>3, <2>4, <2>5
  <1>8. Filed'
    BY DEF Filed
  <1>9. \A d \in (live \cap FactRefs) \ dirty' :
          CanonKey(recipe[d].key)' = CanonKey(recipe[d].key)
    <2> SUFFICES ASSUME NEW d \in (live \cap FactRefs) \ dirty'
                 PROVE  [j \in DOMAIN recipe[d].key |->
                           IF recipe[d].key[j] \in Ids
                           THEN root'[recipe[d].key[j]] ELSE recipe[d].key[j]]
                        = CanonKey(recipe[d].key)
      BY DEF CanonKey, Canon
    <2>1. \A x \in Refs(recipe[d]) : root[x] # hi
      BY <1>1, <1>2, ListedWhereMentioned
    <2>2. \A j \in DOMAIN recipe[d].key :
            recipe[d].key[j] \in Ids => recipe[d].key[j] \in Refs(recipe[d])
      BY DEF Refs
    <2>3. \A j \in DOMAIN recipe[d].key : recipe[d].key[j] \in Ids
            => root'[recipe[d].key[j]] = root[recipe[d].key[j]]
      BY <2>1, <2>2, <1>2
    <2> QED BY <2>3 DEF CanonKey, Canon
  <1>10. CleanIndexed'
    BY <1>2, <1>9 DEF CleanIndexed, Row
  <1>11. CleanUnique'
    BY <1>2, <1>9 DEF CleanUnique, SameKey
  <1>12. DirtyLive'
    <2>1. \A d \in uses[hi] : d \in live
      BY <1>1 DEF UsesExact, Covers, TypeOK
    <2> QED BY <2>1, <1>2 DEF DirtyLive
  <1>13. QuietOutsideRepair'
    BY DEF QuietOutsideRepair
  <1> QED
    BY <1>3, <1>4, <1>5, <1>6, <1>7, <1>8, <1>10, <1>11, <1>12, <1>13
(* A requested union links two roots, or finds them equal already.          *)
LEMMA ApplyUnionInv == IInv /\ ApplyUnion => IInv'
  <1> SUFFICES ASSUME IInv, ApplyUnion PROVE IInv'
    OBVIOUS
  <1> DEFINE a == root[Head(pending)[1]]
             b == root[Head(pending)[2]]
  <1>1. /\ phase = "repair" /\ pending # <<>> /\ pending' = Tail(pending)
        /\ UNCHANGED <<nextFact, recipe, live, hidden, stamp, bucketOf, intern,
                       dependencies, events, epoch, phase>>
        /\ \/ a = b /\ UNCHANGED <<root, dirty, uses, changed>>
           \/ a < b /\ LinkRoots(a, b)
           \/ b < a /\ LinkRoots(b, a)
    BY DEF ApplyUnion
  <1>2. pending \in Seq(Made \X Made)
    BY DEF IInv, TypeOK
  <1>3. Head(pending) \in Made \X Made /\ pending' \in Seq(Made \X Made)
    BY <1>1, <1>2, HeadTailProperties
  <1>4. /\ a \in Made /\ root[a] = a
        /\ b \in Made /\ root[b] = b
    BY <1>3, RootOfMade DEF IInv
  <1>5. CASE a = b /\ UNCHANGED <<root, dirty, uses, changed>>
    <2>1. TypeOK'
      BY <1>1, <1>3, <1>5 DEF IInv, TypeOK, Made
    <2> QED BY <2>1, <1>1, <1>5, FrameInv
  <1>6. CASE a < b /\ LinkRoots(a, b)
    BY <1>1, <1>3, <1>4, <1>6, LinkInv
  <1>7. CASE b < a /\ LinkRoots(b, a)
    BY <1>1, <1>3, <1>4, <1>7, LinkInv
  <1> QED BY <1>1, <1>5, <1>6, <1>7

------------------------------------------------------------------------------
(* Re-filing a dirty fact under its canonical key, when nobody owns it.     *)
LEMMA ReindexInv ==
    ASSUME IInv, NEW f \in FactRefs, f \in dirty, dirty' = dirty \ {f},
           phase = "repair", Reindex(f),
           UNCHANGED <<root, nextFact, recipe, changed, epoch, phase>>
    PROVE  IInv'
  <1> DEFINE k == CanonKey(recipe[f].key)
             t == recipe[f].table
             h == HashOf(t, k)
  <1> USE DEF IInv
  <1>1. /\ Owners(f) = {}
        /\ intern' = [Unfiled(f) EXCEPT ![h] = @ \cup {f}]
        /\ bucketOf' = [bucketOf EXCEPT ![f] = h]
        /\ stamp' = [stamp EXCEPT ![f] = epoch]
        /\ Subscribe(f, Refs(Row(f)))
        /\ events' = events \cup {f}
        /\ UNCHANGED <<pending, live, hidden>>
    BY DEF Reindex, Row
  <1>2. f \in live /\ f \in DOMAIN recipe /\ f \in Dependency
    BY Numbering DEF DirtyLive, TypeOK
  <1>3. t \in Tables /\ recipe[f].key \in [1..Arity[t] -> Made] /\ k \in Keys(t)
    <2>1. t \in Tables /\ recipe[f].key \in [1..Arity[t] -> Made]
      BY <1>2 DEF TypeOK
    <2> QED BY <2>1, RootOfMade DEF CanonKey, Canon, Keys
  <1>4. h \in Hashes
    BY <1>3, HashAssumption
  <1>5. /\ Refs(Row(f)) \in SUBSET Ids
        /\ \A x \in Refs(Row(f)) : root[x] = x
        /\ \A i \in Ids : (\E x \in Refs(Row(f)) : root[x] = i)
                           <=> (\E x \in Refs(recipe[f]) : root[x] = i)
    <2>1. Refs(Row(f)) \in SUBSET Ids
      BY DEF Refs
    <2>2. \A i \in Ids : i \in Refs(Row(f))
                          <=> \E x \in Refs(recipe[f]) : root[x] = i
      BY <1>2, RefsOfRow
    <2>3. Refs(recipe[f]) \subseteq Ids
      BY DEF Refs
    <2>4. \A x \in Refs(Row(f)) : root[x] = x
      BY <2>1, <2>2, <2>3 DEF RootIsOldest
    <2> QED BY <2>1, <2>2, <2>4
  <1>6. /\ UsesExact'
        /\ uses' \in [Ids -> SUBSET Dependency]
        /\ dependencies' \in [Dependency -> SUBSET Ids]
        /\ dependencies'[f] = Refs(Row(f))
        /\ \A e \in Dependency \ {f} : dependencies'[e] = dependencies[e]
    BY <1>1, <1>2, <1>5, ResubscribeExact
  <1>7. /\ intern' \in [Hashes -> SUBSET FactRefs]
        /\ \A g \in Hashes : intern'[g] = IF g = h THEN intern[g] \cup {f}
                                          ELSE intern[g] \ {f}
    <2>1. /\ Unfiled(f) \in [Hashes -> SUBSET FactRefs]
          /\ \A g \in Hashes : Unfiled(f)[g] = intern[g] \ {f}
      BY DEF Unfiled, TypeOK, Filed
    <2> QED BY <2>1, <1>1, <1>4
  <1>8. TypeOK'
    BY <1>1, <1>2, <1>4, <1>6, <1>7 DEF TypeOK, Made
  <1>9. RootIsOldest' /\ UnmadeAlone'
    BY DEF RootIsOldest, UnmadeAlone, Made
  <1>10. Covers'
    <2> SUFFICES ASSUME NEW d \in Dependency
                 PROVE  IF d \in live
                        THEN \A i \in Ids :
                               (\E x \in dependencies'[d] : root[x] = i)
                               <=> (\E x \in Refs(recipe[d]) : root[x] = i)
                        ELSE dependencies'[d] = {}
      BY <1>1 DEF Covers, Refs
    <2>1. CASE d = f
      BY <2>1, <1>2, <1>5, <1>6
    <2>2. CASE d # f
      BY <2>2, <1>6 DEF Covers
    <2> QED BY <2>1, <2>2
  <1>11. Filed'
    <2>1. \A e \in FactRefs : bucketOf'[e] = IF e = f THEN h ELSE bucketOf[e]
      BY <1>1, <1>4 DEF TypeOK
    <2> SUFFICES ASSUME NEW g \in Hashes, NEW e \in FactRefs
                 PROVE  e \in intern'[g] <=> e \in live /\ bucketOf'[e] = g
      BY <1>1 DEF Filed
    <2>2. CASE e = f
      BY <2>1, <2>2, <1>2, <1>7
    <2>3. CASE e # f
      BY <2>1, <2>3, <1>7 DEF Filed
    <2> QED BY <2>2, <2>3
  <1>12. /\ \A e \in (live \cap FactRefs) \ dirty' :
              e = f \/ e \in (live \cap FactRefs) \ dirty
         /\ bucketOf \in [FactRefs -> Hashes]
    BY DEF TypeOK
  <1>13. CleanIndexed'
    <2> SUFFICES ASSUME NEW e \in (live \cap FactRefs) \ dirty'
                 PROVE  /\ bucketOf'[e] = HashOf(recipe[e].table,
                                                CanonKey(recipe[e].key))
                        /\ e \in intern'[bucketOf'[e]]
      BY <1>1 DEF CleanIndexed, Row, CanonKey, Canon
    <2>1. CASE e = f
      BY <2>1, <1>1, <1>4, <1>7, <1>12
    <2>2. CASE e # f
      <3>1. /\ bucketOf[e] = HashOf(recipe[e].table, CanonKey(recipe[e].key))
            /\ e \in intern[bucketOf[e]]
        BY <2>2, <1>12 DEF CleanIndexed, Row
      <3> QED BY <2>2, <3>1, <1>1, <1>7, <1>12
    <2> QED BY <2>1, <2>2
  <1>14. \A e \in (live \cap FactRefs) \ dirty : ~ SameKey(e, f)
    <2> SUFFICES ASSUME NEW e \in (live \cap FactRefs) \ dirty, SameKey(e, f)
                 PROVE  FALSE
      OBVIOUS
    <2>1. e \in intern[h] /\ e # f
      BY DEF CleanIndexed, Row, SameKey
    <2>2. e \in Unfiled(f)[h]
      BY <2>1, <1>4, <1>12 DEF Unfiled, TypeOK
    <2> QED BY <2>2, <1>1 DEF Owners, Row
  <1>15. CleanUnique'
    <2>1. \A d, e \in (live \cap FactRefs) \ dirty' : SameKey(d, e) => d = e
      BY <1>12, <1>14 DEF CleanUnique, SameKey
    <2> QED BY <2>1, <1>1 DEF CleanUnique, SameKey, CanonKey, Canon
  <1>16. DirtyLive' /\ QuietOutsideRepair'
    BY <1>1 DEF DirtyLive, QuietOutsideRepair
  <1> QED
    BY <1>6, <1>8, <1>9, <1>10, <1>11, <1>13, <1>15, <1>16
(* Retiring a dirty fact whose canonical key another live fact owns.        *)
LEMMA CollapseInv ==
    ASSUME IInv, NEW f \in FactRefs, f \in dirty, dirty' = dirty \ {f},
           NEW g \in FactRefs, phase = "repair", Collapse(f, g),
           UNCHANGED <<root, nextFact, recipe, changed, epoch, phase>>
    PROVE  IInv'
  <1>1. /\ g \in Owners(f)
        /\ pending' = IF Row(f).table \in Constructors
                      THEN Append(pending, <<Row(f).value, Row(g).value>>)
                      ELSE pending
        /\ hidden' = (hidden \ {f}) \cup {x \in {g} : f \in hidden}
        /\ stamp' = [stamp EXCEPT ![g] = epoch]
        /\ events' = events \cup {g}
        /\ live' = live \ {f}
        /\ intern' = Unfiled(f)
        /\ Subscribe(f, {})
        /\ bucketOf' = bucketOf
    BY DEF Collapse, First
  <1>2. f \in live \cap FactRefs
    BY DEF IInv, DirtyLive
  <1>3. g \in live /\ SameKey(g, f) /\ g # f /\ g \in Dependency
    <2>1. \A h \in Hashes : f \notin Unfiled(f)[h]
      BY DEF Unfiled, IInv, TypeOK, Filed
    <2>2. HashOf(Row(f).table, Row(f).key) \in Hashes
      <3>1. /\ recipe[f].table \in Tables
            /\ recipe[f].key \in [1..Arity[recipe[f].table] -> Made]
        BY <1>2 DEF IInv, TypeOK
      <3>2. CanonKey(recipe[f].key) \in Keys(recipe[f].table)
        BY <3>1, RootOfMade DEF IInv, CanonKey, Canon, Keys
      <3> QED BY <3>1, <3>2, HashAssumption DEF Row
    <2> QED BY <2>1, <2>2, <1>1, Numbering DEF Owners
  <1>4. /\ RootIsOldest' /\ UnmadeAlone' /\ UsesExact' /\ Covers' /\ Filed'
        /\ CleanIndexed' /\ CleanUnique' /\ DirtyLive'
        /\ intern' \in [Hashes -> SUBSET FactRefs]
        /\ uses' \in [Ids -> SUBSET Dependency]
        /\ dependencies' \in [Dependency -> SUBSET Ids]
    BY <1>1, <1>2, RetireIndexes
  <1>5. pending' \in Seq(Made \X Made)
    <2>1. pending \in Seq(Made \X Made)
      BY DEF IInv, TypeOK
    <2>2. CASE Row(f).table \in Constructors
      <3>1. f \in DOMAIN recipe /\ g \in DOMAIN recipe
        BY <1>2, <1>3 DEF IInv, TypeOK
      <3>2. /\ recipe[f].table \in Constructors
            /\ recipe[g].table \in Constructors
        BY <2>2, <1>3 DEF Row, SameKey
      <3>3. <<Row(f).value, Row(g).value>> \in Made \X Made
        BY <3>1, <3>2, ValueOfRow DEF IInv
      <3> QED BY <2>1, <2>2, <3>3, <1>1, AppendProperties
    <2>3. CASE Row(f).table \notin Constructors
      BY <2>1, <2>3, <1>1
    <2> QED BY <2>2, <2>3
  <1>6. TypeOK'
    <2>1. hidden' \subseteq live' \cap FactRefs
      BY <1>1, <1>3 DEF IInv, TypeOK
    <2> QED BY <2>1, <1>1, <1>3, <1>4, <1>5 DEF IInv, TypeOK, Made
  <1>7. QuietOutsideRepair'
    BY DEF QuietOutsideRepair
  <1> QED BY <1>4, <1>6, <1>7 DEF IInv

(* A dirty fact is re-filed, or retired for the fact that owns its key.     *)
LEMMA RepairFactInv ==
    ASSUME IInv, NEW f \in FactRefs, RepairFact(f)
    PROVE  IInv'
  <1>1. /\ f \in dirty /\ phase = "repair" /\ dirty' = dirty \ {f}
        /\ UNCHANGED <<root, nextFact, recipe, changed, epoch, phase>>
    BY DEF RepairFact, NextDirty, First
  <1>2. CASE Reindex(f)
    BY <1>1, <1>2, ReindexInv
  <1>3. CASE \E g \in FactRefs : Collapse(f, g)
    BY <1>1, <1>3, CollapseInv
  <1> QED BY <1>2, <1>3 DEF RepairFact

------------------------------------------------------------------------------
(* Every effect of a right-hand side keeps the graph sound.                 *)
LEMMA EffectInv == IInv /\ Effect => IInv'
  <1> SUFFICES ASSUME IInv, Effect PROVE IInv'
    OBVIOUS
  <1>1. ASSUME NEW t \in Virtual, NEW key \in KnownKeys(t),
               \/ Construct(t, key) \/ SubsumeFresh(t, key)
               \/ Subsume(t, key) \/ Delete(t, key)
        PROVE  IInv'
    <2>1. CASE Construct(t, key)
      BY <2>1, ActivateInv DEF Construct
    <2>2. CASE SubsumeFresh(t, key)
      BY <2>2, ActivateInv DEF SubsumeFresh
    <2>3. CASE Subsume(t, key)
      BY <2>3, SubsumeInv
    <2>4. CASE Delete(t, key)
      BY <2>4, DeleteInv
    <2> QED BY <1>1, <2>1, <2>2, <2>3, <2>4
  <1>2. ASSUME NEW t \in Constructors, NEW key \in KnownKeys(t), NEW v \in Known,
               SetFact(t, key, v) \/ SetExisting(t, key, v)
        PROVE  IInv'
    <2>1. CASE SetFact(t, key, v)
      BY <2>1, ActivateInv DEF SetFact, Virtual
    <2>2. CASE SetExisting(t, key, v)
      BY <2>2, KnownIsCanonical, SetExistingInv DEF IInv
    <2> QED BY <1>2, <2>1, <2>2
  <1>3. ASSUME NEW a \in Known, NEW b \in Known, RequestUnion(a, b)
        PROVE  IInv'
    BY <1>3, KnownIsCanonical, RequestUnionInv DEF IInv
  <1> QED BY <1>1, <1>2, <1>3 DEF Effect

(* So does every step: one case per action of Next.                         *)
LEMMA NextInv == IInv /\ [Next]_vars => IInv'
  <1> SUFFICES ASSUME IInv, [Next]_vars PROVE IInv'
    OBVIOUS
  <1>1. CASE BeginRun
    BY <1>1, BeginRunInv
  <1>2. CASE Effect
    BY <1>2, EffectInv
  <1>3. CASE BeginRepair
    BY <1>3, BeginRepairInv
  <1>4. CASE ApplyUnion
    BY <1>4, ApplyUnionInv
  <1>5. ASSUME NEW f \in FactRefs, RepairFact(f) PROVE IInv'
    BY <1>5, RepairFactInv
  <1>6. CASE Publish
    BY <1>6, PublishInv
  <1>7. CASE UNCHANGED vars
    <2> USE <1>7 DEF vars, unionVars, indexVars, rowVars
    <2>1. TypeOK'
      BY DEF IInv, TypeOK, Made
    <2>2. phase' # "repair" => dirty = {}
      BY DEF IInv, QuietOutsideRepair
    <2> QED BY <2>1, <2>2, FrameInv
  <1> QED
    BY <1>1, <1>2, <1>3, <1>4, <1>5, <1>6, <1>7 DEF Next, RepairStep

(* The strengthened invariant holds in every reachable state.               *)
THEOREM Inductive == Spec => []IInv
  <1> QED BY InitInv, NextInv, PTL DEF Spec

(* Every reachable graph is well typed: rows mention made classes only.     *)
THEOREM TypeCorrect == Spec => []TypeOK
  <1>1. IInv => TypeOK
    BY DEF IInv
  <1> QED BY <1>1, Inductive, PTL

(* The reverse index is exact for every program, database and hash.         *)
THEOREM IndexExact == Spec => []UsesExact
  <1>1. IInv => UsesExact
    BY DEF IInv
  <1> QED BY <1>1, Inductive, PTL

(* No union can miss a row: every live row is listed under every class its  *)
(* canonical form mentions.                                                 *)
THEOREM NoMissedRow == Spec => []UsesComplete
  <1>1. IInv => UsesComplete
    <2> SUFFICES ASSUME IInv, NEW d \in live, NEW i \in Refs(Row(d))
                 PROVE  d \in uses[i]
      BY DEF UsesComplete
    <2>1. d \in DOMAIN recipe /\ i \in Ids
      BY DEF IInv, TypeOK, Refs
    <2> QED BY <2>1, RefsOfRow, ListedWhereMentioned DEF IInv
  <1> QED BY <1>1, Inductive, PTL

(* Hash-consing: outside the rows repair still has to visit, no two live    *)
(* facts of a table share a canonical key.                                  *)
THEOREM HashConsing == Spec => []CleanUnique
  <1>1. IInv => CleanUnique
    BY DEF IInv
  <1> QED BY <1>1, Inductive, PTL

(* lookup() can find every clean fact: it is in the bucket of its           *)
(* canonical key, whatever collides in the hash.                            *)
THEOREM LookupFinds == Spec => []CleanIndexed
  <1>1. IInv => CleanIndexed
    BY DEF IInv
  <1> QED BY <1>1, Inductive, PTL

(* Repair only ever visits rows that exist.                                 *)
THEOREM WorkListLive == Spec => []DirtyLive
  <1>1. IInv => DirtyLive
    BY DEF IInv
  <1> QED BY <1>1, Inductive, PTL

------------------------------------------------------------------------------
(* The owner a collapse finds is another live fact with the same key.       *)
LEMMA OwnerIsOther ==
    ASSUME IInv, NEW f \in dirty \cap FactRefs, NEW g \in Owners(f)
    PROVE  g \in live /\ SameKey(g, f) /\ g # f
  <1>1. f \in live
    BY DEF IInv, DirtyLive
  <1>2. HashOf(Row(f).table, Row(f).key) \in Hashes
    <2>1. /\ recipe[f].table \in Tables
          /\ recipe[f].key \in [1..Arity[recipe[f].table] -> Made]
      BY <1>1 DEF IInv, TypeOK
    <2>2. CanonKey(recipe[f].key) \in Keys(recipe[f].table)
      BY <2>1, RootOfMade DEF IInv, CanonKey, Canon, Keys
    <2> QED BY <2>1, <2>2, HashAssumption DEF Row
  <1>3. \A h \in Hashes : f \notin Unfiled(f)[h]
    BY DEF Unfiled, IInv, TypeOK, Filed
  <1> QED BY <1>2, <1>3 DEF Owners

------------------------------------------------------------------------------
(* Promises.  What repair still has to do is owed.                          *)

(* A naming of the classes respects the union-find and the unions that wait *)
(* in `pending`; a pair is owed when every such naming gives both the same  *)
(* name: it is equal already, or repair will make it so.                    *)
Agrees(c) ==
    /\ \A x \in Ids : c[root[x]] = c[x]
    /\ \A n \in DOMAIN pending : c[pending[n][1]] = c[pending[n][2]]
Owed(a, b) == \A c \in [Ids -> Ids] : Agrees(c) => c[a] = c[b]

(* g carries f's key, and f's value as well once repair is done.            *)
Heir(f, g) ==
    /\ SameKey(f, g)
    /\ recipe[f].table \in Constructors => Owed(recipe[f].value, recipe[g].value)

(* A step that takes no promise back: what was owed stays owed, classes that *)
(* were equal stay equal, and every fact has an heir.                       *)
Onward ==
    /\ \A c \in [Ids -> Ids] : Agrees(c)' => Agrees(c)
    /\ \A x, y \in Ids : root[x] = root[y] => root'[x] = root'[y]
    /\ \A d \in live \cap FactRefs :
          recipe'[d] = recipe[d] /\ \E h \in live' \cap FactRefs : Heir(d, h)'

(* Once every naming that agrees later agreed before, what was owed stays   *)
(* owed.                                                                    *)
LEMMA OwedStays ==
    ASSUME \A c \in [Ids -> Ids] : Agrees(c)' => Agrees(c),
           NEW a, NEW b, Owed(a, b)
    PROVE  Owed(a, b)'
  BY DEF Owed

(* Adding to `pending` takes no promise back.                               *)
LEMMA PendingGrows ==
    ASSUME root' = root,
           \A n \in DOMAIN pending : n \in DOMAIN pending'
                                     /\ pending'[n] = pending[n]
    PROVE  \A c \in [Ids -> Ids] : Agrees(c)' => Agrees(c)
  BY DEF Agrees

(* A step that retires nothing and unites nothing.                          *)
LEMMA QuietOnward ==
    ASSUME root' = root, live \cap FactRefs \subseteq live',
           \A n \in DOMAIN pending : n \in DOMAIN pending'
                                     /\ pending'[n] = pending[n],
           \A d \in live \cap FactRefs : recipe'[d] = recipe[d]
    PROVE  Onward
  <1>1. \A d \in live \cap FactRefs : d \in live' \cap FactRefs /\ Heir(d, d)'
    BY DEF Heir, SameKey, Owed
  <1> QED BY <1>1, PendingGrows DEF Onward

(* union() of two classes.                                                  *)
LEMMA UnionOnward == ASSUME IInv, ApplyUnion PROVE Onward
  <1> DEFINE a == root[Head(pending)[1]]
             b == root[Head(pending)[2]]
  <1>1. /\ phase = "repair" /\ phase' = "repair" /\ pending # <<>>
        /\ pending' = Tail(pending)
        /\ \/ a = b /\ root' = root
           \/ a < b /\ LinkRoots(a, b)
           \/ b < a /\ LinkRoots(b, a)
        /\ UNCHANGED <<nextFact, recipe, live>>
    BY DEF ApplyUnion
  <1>0. \/ a = b /\ root' = root
        \/ a < b /\ root' = [i \in Ids |-> IF root[i] = b THEN a ELSE root[i]]
        \/ b < a /\ root' = [i \in Ids |-> IF root[i] = a THEN b ELSE root[i]]
    <2> HIDE DEF a, b
    <2> QED BY <1>1 DEF LinkRoots
  <1>2. /\ pending \in Seq(Made \X Made)
        /\ root \in [Ids -> Ids] /\ RootIsOldest
    BY DEF IInv, TypeOK
  <1>3. Head(pending) \in Made \X Made /\ Head(pending) = pending[1]
        /\ 1 \in DOMAIN pending
    BY <1>1, <1>2
  <1>4. /\ Head(pending)[1] \in Ids /\ Head(pending)[2] \in Ids
        /\ a \in Ids /\ b \in Ids /\ a \in Made /\ b \in Made
        /\ root[a] = a /\ root[b] = b
    BY <1>2, <1>3, RootOfMade DEF IInv
  <1>5. \A n \in DOMAIN pending : n # 1 =>
           n - 1 \in DOMAIN pending' /\ pending'[n - 1] = pending[n]
    BY <1>1, <1>2
  <1>6. \A n \in DOMAIN pending' : n + 1 \in DOMAIN pending /\ pending'[n] = pending[n + 1]
    BY <1>1, <1>2
  <1>7. \A x \in Ids : root'[x] = IF root[x] = a \/ root[x] = b
                                  THEN IF a < b THEN a ELSE b
                                  ELSE root[x]
    <2> HIDE DEF a, b
    <2>1. a \in Int /\ b \in Int
      BY <1>4 DEF Ids
    <2> QED BY <1>0, <1>2, <2>1
  <1> HIDE DEF a, b
  <1>8. ASSUME NEW c \in [Ids -> Ids], Agrees(c)'
        PROVE  Agrees(c)
    <2>1. \A x \in Ids : c[root'[x]] = c[x]
      BY <1>8 DEF Agrees
    <2>2. c[a] = c[b]
      BY <2>1, <1>4, <1>7
    <2>3. \A x \in Ids : c[root[x]] = c[x]
      BY <2>1, <2>2, <1>2, <1>7
    <2>4. \A n \in DOMAIN pending : c[pending[n][1]] = c[pending[n][2]]
      <3>1. c[pending[1][1]] = c[pending[1][2]]
        BY <2>2, <2>3, <1>3, <1>4 DEF a, b
      <3>2. \A n \in DOMAIN pending' : c[pending'[n][1]] = c[pending'[n][2]]
        BY <1>8 DEF Agrees
      <3> QED BY <3>1, <3>2, <1>5
    <2> QED BY <2>3, <2>4 DEF Agrees
  <1>9. \A x, y \in Ids : root[x] = root[y] => root'[x] = root'[y]
    BY <1>7
  <1>10. \A d \in live \cap FactRefs : d \in live' \cap FactRefs /\ Heir(d, d)'
    BY <1>1 DEF Heir, SameKey, Owed
  <1> QED BY <1>1, <1>8, <1>9, <1>10 DEF Onward

(* repair() of a row: it stays, or its owner becomes its heir.              *)
LEMMA RepairOnward == ASSUME IInv, NEW f \in FactRefs, RepairFact(f) PROVE Onward
  <1>1. /\ f \in dirty /\ UNCHANGED <<root, recipe>>
        /\ Reindex(f) \/ \E g \in FactRefs : Collapse(f, g)
    BY DEF RepairFact, NextDirty, First
  <1>2. CASE Reindex(f)
    BY <1>1, <1>2, QuietOnward DEF Reindex
  <1>3. ASSUME NEW g \in FactRefs, Collapse(f, g) PROVE Onward
    <2>1. /\ live' = live \ {f}
          /\ g \in Owners(f)
          /\ pending' = IF Row(f).table \in Constructors
                        THEN Append(pending, <<Row(f).value, Row(g).value>>)
                        ELSE pending
      BY <1>3 DEF First, Collapse
    <2>2. g \in live /\ SameKey(g, f) /\ g # f
      BY <1>1, <2>1, OwnerIsOther
    <2>3. /\ f \in live /\ recipe[g].table = recipe[f].table
          /\ pending \in Seq(Made \X Made) /\ Row(f).table = recipe[f].table
      BY <1>1, <2>2 DEF SameKey, Row, IInv, TypeOK, DirtyLive
    <2> DEFINE pair == <<Row(f).value, Row(g).value>>
    <2> HIDE DEF pair
    <2>4. /\ \A n \in DOMAIN pending : n \in DOMAIN pending'
                                       /\ pending'[n] = pending[n]
          /\ recipe[f].table \in Constructors =>
                \E n \in DOMAIN pending' : pending'[n] = pair
      <3>1. pending' = IF recipe[f].table \in Constructors
                       THEN Append(pending, pair) ELSE pending
        BY <2>1, <2>3 DEF pair
      <3>2. /\ DOMAIN Append(pending, pair) = DOMAIN pending \cup {Len(pending) + 1}
            /\ \A n \in DOMAIN pending : Append(pending, pair)[n] = pending[n]
            /\ Append(pending, pair)[Len(pending) + 1] = pair
        BY <2>3
      <3> QED BY <3>1, <3>2
    <2>5. recipe[f].table \in Constructors =>
             \A d \in {f, g} : recipe[d].value \in Ids /\ Row(d).value = root[recipe[d].value]
      <3>1. recipe[f].table \in Constructors =>
               \A d \in {f, g} : recipe[d].value \in Made
        BY <2>2, <2>3 DEF IInv, TypeOK
      <3> QED BY <3>1, RootOfMade DEF Row, Canon, IInv
    <2>6. Heir(f, g)'
      <3>1. SameKey(f, g)'
        BY <1>1, <2>2 DEF SameKey, CanonKey, Canon
      <3>2. ASSUME recipe[f].table \in Constructors
            PROVE  Owed(recipe[f].value, recipe[g].value)'
        <4> SUFFICES ASSUME NEW c \in [Ids -> Ids], Agrees(c)'
                     PROVE  c[recipe[f].value] = c[recipe[g].value]
          BY <1>1 DEF Owed
        <4>1. c[Row(f).value] = c[Row(g).value]
          BY <3>2, <2>4 DEF Agrees, pair
        <4>2. \A x \in Ids : c[root[x]] = c[x]
          BY <1>1 DEF Agrees
        <4> QED BY <4>1, <4>2, <3>2, <2>5
      <3> QED BY <3>1, <3>2, <1>1 DEF Heir
    <2>7. \A d \in live' \cap FactRefs : Heir(d, d)'
      BY DEF Heir, SameKey, Owed
    <2>8. \A d \in live \cap FactRefs : \E h \in live' \cap FactRefs : Heir(d, h)'
      BY <2>1, <2>2, <2>6, <2>7
    <2> QED BY <1>1, <2>4, <2>8, PendingGrows DEF Onward
  <1> QED BY <1>1, <1>2, <1>3

------------------------------------------------------------------------------
(* Subsumption survives repair: whatever repair does to a hidden fact, a    *)
(* hidden fact with its canonical key remains (repair's `hidden |=`).       *)
THEOREM SubsumptionSurvives == Spec => HiddenSurvivesRepair
  <1> DEFINE Kept == \A f \in hidden : RepairStep =>
                        \E g \in hidden' : (SameKey(f, g))'
  <1>1. IInv /\ [Next]_vars => Kept
    <2> SUFFICES ASSUME IInv, NEW f \in hidden, RepairStep
                 PROVE  \E g \in hidden' : (SameKey(f, g))'
      OBVIOUS
    <2>1. (SameKey(f, f))'
      BY DEF SameKey
    <2>2. CASE f \in hidden'
      BY <2>1, <2>2
    <2>3. CASE f \notin hidden'
      <3>1. PICK x \in FactRefs : RepairFact(x)
        BY <2>3 DEF RepairStep, ApplyUnion, Publish, rowVars
      <3>2. PICK g \in FactRefs : Collapse(x, g)
        BY <2>3, <3>1 DEF RepairFact, Reindex
      <3>3. f = x /\ g \in hidden'
        BY <2>3, <3>2 DEF Collapse
      <3>4. SameKey(g, f)
        BY <3>1, <3>2, <3>3, OwnerIsOther
        DEF RepairFact, NextDirty, First, Collapse
      <3>5. UNCHANGED <<root, recipe>>
        BY <3>1 DEF RepairFact
      <3> QED BY <3>3, <3>4, <3>5 DEF SameKey, CanonKey, Canon
    <2> QED BY <2>2, <2>3
  <1>2. Spec => [][Kept]_vars
    BY <1>1, Inductive, PTL DEF Spec
  <1> QED BY <1>2 DEF HiddenSurvivesRepair
==============================================================================
