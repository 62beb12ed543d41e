-------------------------- MODULE CellHistoryProofs --------------------------
(***************************************************************************)
(* Safety of the function ports and of the history a Run keeps of them,    *)
(* for every program, hash function and bound. The first part is about     *)
(* CellPorts: the fact graph keeps its own invariant (IInv) while ports    *)
(* are written, merged, rekeyed and deleted, and the key directory stays   *)
(* one-to-one with the ports. The second is about CellHistory: nothing is  *)
(* lost from the delta, `changed` is sound, and the whole graph implements *)
(* EGraph.                                                                 *)
(***************************************************************************)
EXTENDS CellHistory, CellGraphProofs, WellFoundedInduction

------------------------------------------------------------------------------
(* FUNCTION PORTS                                                           *)

(* A port that repair has no reason to visit is stored under its canonical  *)
(* key.                                                                     *)
CleanPorts ==
    \A i \in LivePorts \ dirty : CanonKey(recipe[i].key) = recipe[i].key

(* Facts are rows of virtual tables, ports of function tables.              *)
IsRow(r) == r = [table |-> r.table, key |-> r.key, value |-> r.value]
TypedRows ==
    \A d \in DOMAIN recipe :
        /\ recipe[d].table \in IF d \in FactRefs THEN Virtual ELSE FunTables
        /\ IsRow(recipe[d])

(* A "min" port holds an integer, any other a class.                        *)
ValueType(t) == IF MergeKind[t] = "min" THEN Scalars ELSE Made
TypedPorts == \A i \in LivePorts : recipe[i].value \in ValueType(recipe[i].table)

PInv ==
    /\ IInv
    /\ TypePorts
    /\ DirectoryExact
    /\ CleanPorts
    /\ TypedRows
    /\ TypedPorts

------------------------------------------------------------------------------
(* Every nonempty set of facts has a first one.                             *)
LEMMA FirstExists ==
    ASSUME NEW S \in SUBSET FactRefs, S # {}
    PROVE  \E f \in FactRefs : First(f, S)
  <1> DEFINE Less == {p \in Nat \X Nat : p[1] < p[2]}
  <1>1. IsWellFoundedOn(Less, Nat)
    BY NatLessThanWellFounded DEF OpToRel
  <1>2. S \subseteq Nat
    BY BoundsAssumption DEF FactRefs
  <1> HIDE DEF Less
  <1>3. \E f \in S : \A g \in S : ~ (<<g, f>> \in Less)
    BY <1>1, <1>2, WFMin
  <1>4. ASSUME NEW f \in S, NEW g \in S, ~ (<<g, f>> \in Less)
        PROVE  f <= g
    BY <1>2, <1>4 DEF Less
  <1> QED BY <1>3, <1>4 DEF First

(* Facts and ports are different dependencies.                              *)
LEMMA PortNumbers ==
    /\ Ports \subseteq Dependency
    /\ \A i \in Ports : i \notin FactRefs /\ i # 0
    /\ Dependency = FactRefs \cup Ports
  BY BoundsAssumption DEF Ports, FactRefs, Dependency

(* lookup() on a canonical key that finds nothing has missed nothing: the   *)
(* clean facts are in its bucket and the dirty ones are all looked at.      *)
LEMMA MissIsAbsence ==
    ASSUME IInv, NEW t \in Tables, NEW key \in Keys(t), CanonKey(key) = key,
           Matching(t, key) = {}, NEW f \in live \cap FactRefs,
           recipe[f].table = t
    PROVE  CanonKey(recipe[f].key) # key
  <1> SUFFICES ASSUME CanonKey(recipe[f].key) = key PROVE FALSE
    OBVIOUS
  <1>1. CASE f \in dirty
    BY <1>1 DEF Matching, DirtyFacts
  <1>2. CASE f \notin dirty
    <2>1. f \in intern[HashOf(t, key)]
      BY <1>2 DEF IInv, CleanIndexed, Row
    <2> QED BY <2>1 DEF Matching
  <1> QED BY <1>1, <1>2

(* What a canonical row mentions are roots, and they are the roots of what  *)
(* the stored row mentions.                                                 *)
LEMMA RowIsCanonical ==
    ASSUME TypeOK, RootIsOldest, NEW d \in DOMAIN recipe
    PROVE  /\ CanonKey(recipe[d].key) \in Keys(recipe[d].table)
           /\ CanonKey(CanonKey(recipe[d].key)) = CanonKey(recipe[d].key)
           /\ Row(d).key = CanonKey(recipe[d].key)
           /\ Row(d).table = recipe[d].table
           /\ CanonKey(recipe[d].key) \in [1..Arity[recipe[d].table] -> Made]
  <1>1. recipe[d].key \in [1..Arity[recipe[d].table] -> Made]
    BY DEF TypeOK
  <1>2. \A j \in DOMAIN recipe[d].key :
          /\ CanonKey(recipe[d].key)[j] = root[recipe[d].key[j]]
          /\ CanonKey(recipe[d].key)[j] \in Made
          /\ CanonKey(recipe[d].key)[j] \in Ids
          /\ root[CanonKey(recipe[d].key)[j]] = CanonKey(recipe[d].key)[j]
    BY <1>1, RootOfMade DEF CanonKey, Canon
  <1>3. CanonKey(recipe[d].key) \in [1..Arity[recipe[d].table] -> Made]
    BY <1>1, <1>2 DEF CanonKey
  <1>4. CanonKey(CanonKey(recipe[d].key)) = CanonKey(recipe[d].key)
    <2> DEFINE k == CanonKey(recipe[d].key)
    <2>1. DOMAIN k = DOMAIN recipe[d].key /\ k = [j \in DOMAIN k |-> k[j]]
      BY DEF CanonKey
    <2>2. \A j \in DOMAIN k : Canon(k[j]) = k[j]
      BY <1>2, <2>1 DEF Canon
    <2> QED BY <2>1, <2>2 DEF CanonKey
  <1>5. CanonKey(recipe[d].key) \in Keys(recipe[d].table)
    BY <1>1, <1>2 DEF CanonKey, Keys
  <1> QED BY <1>3, <1>4, <1>5 DEF Row

------------------------------------------------------------------------------
(* The empty graph with no port satisfies the invariant.                    *)
LEMMA InitPortsInv == InitPorts => PInv
  <1> SUFFICES ASSUME InitPorts PROVE PInv
    OBVIOUS
  <1>1. IInv
    BY InitInv DEF InitPorts
  <1>2. DOMAIN recipe = {} /\ live = {}
    BY DEF InitPorts, Init
  <1>3. {MaxFact + n : n \in 1..nextPort} = {}
    BY DEF InitPorts
  <1>4. TypePorts
    BY <1>1, <1>2, <1>3, BoundsAssumption DEF InitPorts, TypePorts, IInv
  <1>5. DirectoryExact
    BY <1>2 DEF InitPorts, DirectoryExact, LivePorts
  <1> QED
    BY <1>1, <1>2, <1>4, <1>5
    DEF PInv, CleanPorts, TypedRows, TypedPorts, LivePorts
------------------------------------------------------------------------------
(* A union leaves the canonical row of whatever it does not make dirty.     *)
LEMMA LinkKeepsClean ==
    ASSUME IInv, NEW lo \in Made, NEW hi \in Made, LinkRoots(lo, hi),
           recipe' = recipe, NEW d \in live, d \notin dirty'
    PROVE  /\ (CanonKey(recipe[d].key))' = CanonKey(recipe[d].key)
           /\ (Row(d))' = Row(d)
  <1>1. hi \in Ids /\ root \in [Ids -> Ids] /\ d \in DOMAIN recipe
    BY RootOfMade DEF IInv, TypeOK
  <1>2. \A x \in Refs(recipe[d]) : root[x] # hi
    BY <1>1, ListedWhereMentioned DEF IInv, LinkRoots
  <1>3. \A x \in Refs(recipe[d]) : root'[x] = root[x]
    BY <1>1, <1>2 DEF LinkRoots, Refs
  <1>4. \A j \in DOMAIN recipe[d].key :
          (Canon(recipe[d].key[j]))' = Canon(recipe[d].key[j])
    BY <1>3 DEF Canon, Refs
  <1>5. (Canon(recipe[d].value))' = Canon(recipe[d].value)
    BY <1>3 DEF Canon, Refs
  <1>6. (CanonKey(recipe[d].key))' = CanonKey(recipe[d].key)
    BY <1>4 DEF CanonKey
  <1> QED BY <1>5, <1>6 DEF Row

(* What a step of the facts does to rows and classes: rows are only added,  *)
(* no port is touched, and classes change by one union at a time.           *)
LEMMA FactStep ==
    ASSUME IInv, Next
    PROVE  /\ \A d \in DOMAIN recipe :
                 d \in DOMAIN recipe' /\ recipe'[d] = recipe[d]
           /\ \A d \in DOMAIN recipe' \ DOMAIN recipe :
                 /\ d \in FactRefs /\ recipe'[d].table \in Virtual
                 /\ IsRow(recipe'[d])
           /\ live' \cap Ports = live \cap Ports
           /\ Made \subseteq Made'
           /\ \/ root' = root /\ dirty \cap Ports = dirty' \cap Ports
              \/ /\ recipe' = recipe
                 /\ \E lo, hi \in Made : LinkRoots(lo, hi)
  <1> DEFINE Quiet == /\ UNCHANGED <<root, nextFact, recipe>>
                      /\ dirty \cap Ports = dirty' \cap Ports
                      /\ live' \cap Ports = live \cap Ports
             Shape == /\ \A d \in DOMAIN recipe :
                            d \in DOMAIN recipe' /\ recipe'[d] = recipe[d]
                      /\ \A d \in DOMAIN recipe' \ DOMAIN recipe :
                            /\ d \in FactRefs /\ recipe'[d].table \in Virtual
                            /\ IsRow(recipe'[d])
                      /\ live' \cap Ports = live \cap Ports
                      /\ Made \subseteq Made'
                      /\ \/ root' = root /\ dirty \cap Ports = dirty' \cap Ports
                         \/ /\ recipe' = recipe
                            /\ \E lo, hi \in Made : LinkRoots(lo, hi)
  <1>1. Quiet => Shape
    BY DEF Made
  <1>2. ASSUME NEW t \in Virtual, NEW key, NEW v, NEW hide \in BOOLEAN,
               Activate(t, key, v, hide)
        PROVE  Shape
    <2>1. nextFact + 1 \in FactRefs /\ nextFact + 1 \notin DOMAIN recipe
      <3>1. nextFact < MaxFact
        BY <1>2 DEF Activate
      <3>2. nextFact \in 0..MaxFact /\ DOMAIN recipe \cap FactRefs = 1..nextFact
        BY DEF IInv, TypeOK
      <3> QED BY <3>1, <3>2, BoundsAssumption DEF FactRefs
    <2>2. /\ DOMAIN recipe' = DOMAIN recipe \cup {nextFact + 1}
          /\ recipe'[nextFact + 1].table = t
          /\ IsRow(recipe'[nextFact + 1])
          /\ \A d \in DOMAIN recipe : recipe'[d] = recipe[d]
      BY <1>2, <2>1 DEF Activate, Put, IsRow
    <2>3. /\ live' = live \cup {nextFact + 1}
          /\ UNCHANGED <<root, dirty>>
          /\ nextFact' = nextFact + 1
      BY <1>2 DEF Activate, unionVars
    <2>4. Made \subseteq Made'
      BY <2>3, BoundsAssumption DEF Made, IInv, TypeOK
    <2>5. live' \cap Ports = live \cap Ports
      BY <2>1, <2>3, PortNumbers
    <2> QED BY <2>1, <2>2, <2>3, <2>4, <2>5
  <1>3. ASSUME NEW t \in Virtual, NEW key,
               \/ Construct(t, key) \/ SubsumeFresh(t, key)
               \/ Subsume(t, key) \/ Delete(t, key)
        PROVE  Shape
    <2>1. CASE Construct(t, key)
      BY <2>1, <1>2 DEF Construct
    <2>2. CASE SubsumeFresh(t, key)
      BY <2>2, <1>2 DEF SubsumeFresh
    <2>3. CASE Subsume(t, key)
      BY <2>3, <1>1 DEF Subsume, unionVars
    <2>4. CASE Delete(t, key)
      <3>1. PICK f \in FactRefs : live' = live \ {f}
        BY <2>4 DEF Delete
      <3>2. live' \cap Ports = live \cap Ports
        BY <3>1, PortNumbers
      <3> QED BY <2>4, <3>2, <1>1 DEF Delete, unionVars
    <2> QED BY <1>3, <2>1, <2>2, <2>3, <2>4
  <1>4. ASSUME NEW t \in Constructors, NEW key, NEW v,
               SetFact(t, key, v) \/ SetExisting(t, key, v)
        PROVE  Shape
    <2>1. CASE SetFact(t, key, v)
      BY <2>1, <1>2 DEF SetFact, Virtual
    <2>2. CASE SetExisting(t, key, v)
      BY <2>2, <1>1 DEF SetExisting, RequestUnion, rowVars
    <2> QED BY <1>4, <2>1, <2>2
  <1>5. ASSUME NEW a, NEW b, RequestUnion(a, b)
        PROVE  Shape
    BY <1>5, <1>1 DEF RequestUnion, rowVars
  <1>6. CASE Effect
    BY <1>3, <1>4, <1>5, <1>6 DEF Effect
  <1>7. CASE BeginRun \/ BeginRepair \/ Publish
    BY <1>7, <1>1 DEF BeginRun, BeginRepair, Publish, unionVars, rowVars
  <1>8. CASE ApplyUnion
    <2>1. /\ pending \in Seq(Made \X Made) /\ pending # <<>>
          /\ UNCHANGED <<nextFact, recipe, live>>
      BY <1>8 DEF ApplyUnion, IInv, TypeOK
    <2>2. Head(pending) \in Made \X Made
      BY <2>1, HeadTailProperties
    <2>3. root[Head(pending)[1]] \in Made /\ root[Head(pending)[2]] \in Made
      BY <2>2, RootOfMade DEF IInv
    <2>4. CASE UNCHANGED <<root, dirty>>
      BY <2>1, <2>4, <1>1
    <2>5. CASE \E lo, hi \in Made : LinkRoots(lo, hi)
      BY <2>1, <2>5 DEF Made
    <2> QED BY <1>8, <2>3, <2>4, <2>5 DEF ApplyUnion
  <1>9. ASSUME NEW f \in FactRefs, RepairFact(f)
        PROVE  Shape
    <2>1. /\ UNCHANGED <<root, nextFact, recipe>>
          /\ dirty' = dirty \ {f}
          /\ live' = live \/ live' = live \ {f}
      BY <1>9 DEF RepairFact, Reindex, Collapse
    <2> QED BY <2>1, <1>1, PortNumbers
  <1> QED BY <1>6, <1>7, <1>8, <1>9 DEF Next, RepairStep

(* A step of the facts keeps the ports' invariant.                          *)
LEMMA FactStepPInv ==
    ASSUME PInv, Next, UNCHANGED portVars
    PROVE  PInv'
  <1> USE DEF PInv
  <1>1. IInv'
    BY NextInv
  <1>2. /\ \A d \in DOMAIN recipe :
              d \in DOMAIN recipe' /\ recipe'[d] = recipe[d]
        /\ \A d \in DOMAIN recipe' \ DOMAIN recipe :
              /\ d \in FactRefs /\ recipe'[d].table \in Virtual
              /\ IsRow(recipe'[d])
        /\ live' \cap Ports = live \cap Ports
        /\ Made \subseteq Made'
        /\ \/ root' = root /\ dirty \cap Ports = dirty' \cap Ports
           \/ /\ recipe' = recipe
              /\ \E lo, hi \in Made : LinkRoots(lo, hi)
    BY FactStep
  <1>3. /\ UNCHANGED <<nextPort, functionKeys>>
        /\ LivePorts' = LivePorts
        /\ \A i \in LivePorts : i \in DOMAIN recipe /\ recipe'[i] = recipe[i]
    BY <1>2 DEF portVars, LivePorts, IInv, TypeOK
  <1>4. TypePorts'
    <2>1. DOMAIN recipe' \cap Ports = DOMAIN recipe \cap Ports
      BY <1>2, PortNumbers
    <2> QED BY <1>1, <1>3, <2>1 DEF TypePorts, IInv
  <1>5. DirectoryExact'
    <2>1. \A k \in FunKeys : functionKeys[k] # 0 => functionKeys[k] \in LivePorts
      BY DEF DirectoryExact, TypePorts, LivePorts
    <2> QED BY <1>3, <2>1 DEF DirectoryExact, LivePorts
  <1>6. CleanPorts'
    <2>1. CASE root' = root /\ dirty \cap Ports = dirty' \cap Ports
      BY <1>3, <2>1 DEF CleanPorts, LivePorts, CanonKey, Canon
    <2>2. CASE recipe' = recipe /\ \E lo, hi \in Made : LinkRoots(lo, hi)
      <3> SUFFICES ASSUME NEW i \in LivePorts \ dirty'
                   PROVE  (CanonKey(recipe[i].key))' = recipe[i].key
        BY <1>3, <2>2 DEF CleanPorts
      <3>1. i \notin dirty /\ i \in live
        BY <2>2 DEF LinkRoots, LivePorts
      <3> QED BY <2>2, <3>1, LinkKeepsClean DEF CleanPorts
    <2> QED BY <1>2, <2>1, <2>2
  <1>7. TypedRows' /\ TypedPorts'
    BY <1>2, <1>3 DEF TypedRows, TypedPorts, ValueType
  <1> QED BY <1>1, <1>4, <1>5, <1>6, <1>7
------------------------------------------------------------------------------
(* A step that touches ports only keeps what IInv says of facts.            *)
LEMMA FactsUntouched ==
    ASSUME IInv, UNCHANGED <<root, nextFact, bucketOf, intern>>,
           \A f \in live \cap FactRefs : recipe'[f] = recipe[f],
           live' \cap FactRefs = live \cap FactRefs,
           dirty' \cap FactRefs = dirty \cap FactRefs
    PROVE  /\ RootIsOldest' /\ UnmadeAlone' /\ Filed'
           /\ CleanIndexed' /\ CleanUnique'
  <1>1. RootIsOldest' /\ UnmadeAlone'
    BY DEF IInv, RootIsOldest, UnmadeAlone, Made
  <1>2. Filed'
    BY DEF IInv, Filed
  <1>3. (live' \cap FactRefs) \ dirty' = (live \cap FactRefs) \ dirty
    OBVIOUS
  <1>4. CleanIndexed'
    BY <1>3 DEF IInv, CleanIndexed, Row, CanonKey, Canon
  <1>5. CleanUnique'
    BY <1>3 DEF IInv, CleanUnique, SameKey, CanonKey, Canon
  <1> QED BY <1>1, <1>2, <1>4, <1>5

(* A key of known classes is a key of made classes, and canonical.          *)
LEMMA KnownKey ==
    ASSUME TypeOK, RootIsOldest, NEW t \in Tables, NEW key \in KnownKeys(t)
    PROVE  /\ key \in [1..Arity[t] -> Made] /\ key \in Keys(t)
           /\ CanonKey(key) = key
           /\ \A j \in DOMAIN key : key[j] \in Ids /\ root[key[j]] = key[j]
  <1>1. \A j \in DOMAIN key :
          key[j] \in Made /\ key[j] \in Ids /\ root[key[j]] = key[j]
    BY KnownIsCanonical DEF KnownKeys
  <1>2. key \in [1..Arity[t] -> Made] /\ key \in Keys(t)
    BY <1>1 DEF KnownKeys, Keys
  <1>3. CanonKey(key) = key
    BY <1>1, <1>2 DEF CanonKey, Canon
  <1> QED BY <1>1, <1>2, <1>3

(* Every live port has an entry of the directory for each form of its key.  *)
LEMMA PortKey ==
    ASSUME PInv, NEW i \in LivePorts
    PROVE  /\ i \in DOMAIN recipe /\ i \in Dependency /\ i \in Ports
           /\ i \notin FactRefs
           /\ recipe[i].table \in FunTables /\ recipe[i].table \in Tables
           /\ recipe[i].key \in [1..Arity[recipe[i].table] -> Made]
           /\ recipe[i].value \in Made \cup Scalars
           /\ <<recipe[i].table, recipe[i].key>> \in FunKeys
           /\ <<recipe[i].table, CanonKey(recipe[i].key)>> \in FunKeys
           /\ functionKeys[<<recipe[i].table, recipe[i].key>>] = i
  <1>1. /\ i \in Ports /\ i \in live /\ i \in DOMAIN recipe
        /\ i \in Dependency /\ i \notin FactRefs
    BY PortNumbers DEF LivePorts, PInv, IInv, TypeOK
  <1>2. /\ recipe[i].table \in FunTables
        /\ recipe[i].key \in [1..Arity[recipe[i].table] -> Made]
        /\ recipe[i].value \in Made \cup Scalars
    BY <1>1 DEF PInv, TypedRows, IInv, TypeOK
  <1>3. CanonKey(recipe[i].key) \in Keys(recipe[i].table)
    BY <1>1, RowIsCanonical DEF PInv, IInv
  <1>4. recipe[i].key \in Keys(recipe[i].table)
    BY <1>2, RootOfMade DEF PInv, IInv, Keys
  <1> QED
    BY <1>1, <1>2, <1>3, <1>4 DEF FunKeys, FunTables, PInv, DirectoryExact

(* set_function() on a free key adds a port and its entry.                  *)
LEMMA SetNewPortInv ==
    ASSUME PInv, NEW t \in FunTables, NEW key \in KnownKeys(t),
           NEW v \in PortValues(t), SetNewPort(t, key, v)
    PROVE  PInv'
  <1> DEFINE i == MaxFact + nextPort + 1
             r == [table |-> t, key |-> key, value |-> v]
  <1> USE DEF PInv
  <1>1. /\ phase = "rhs" /\ nextPort < NumPorts
        /\ functionKeys[<<t, key>>] = 0
        /\ nextPort' = nextPort + 1
        /\ functionKeys' = [functionKeys EXCEPT ![<<t, key>>] = i]
        /\ recipe' = Put(recipe, i, r)
        /\ live' = live \cup {i}
        /\ stamp' = [stamp EXCEPT ![i] = epoch]
        /\ Subscribe(i, Refs(r))
        /\ events' = events \cup {i}
        /\ changed' = TRUE
        /\ UNCHANGED <<root, dirty, pending, nextFact, hidden, bucketOf,
                       intern, epoch, phase>>
    BY DEF SetNewPort, unionVars
  <1>2. dirty = {} /\ dirty' = {}
    BY <1>1 DEF IInv, QuietOutsideRepair
  <1>3. /\ i \in Ports /\ i \in Dependency /\ i \notin FactRefs /\ i # 0
        /\ i \notin DOMAIN recipe /\ i \notin live
        /\ nextPort' \in 0..NumPorts
        /\ {MaxFact + n : n \in 1..nextPort'}
             = {MaxFact + n : n \in 1..nextPort} \cup {i}
    <2>1. nextPort \in 0..NumPorts
      BY DEF TypePorts
    <2>2. i \in Ports /\ nextPort' \in 0..NumPorts
      BY <1>1, <2>1, BoundsAssumption DEF Ports
    <2>3. 1..nextPort' = (1..nextPort) \cup {nextPort + 1}
      BY <1>1, <2>1, BoundsAssumption
    <2>4. \A n \in 1..nextPort : MaxFact + n # i
      BY <2>1, BoundsAssumption
    <2>5. i \notin DOMAIN recipe
      BY <2>2, <2>4 DEF TypePorts
    <2>6. i \notin live
      BY <2>5 DEF IInv, TypeOK
    <2>7. {MaxFact + n : n \in 1..nextPort'}
            = {MaxFact + n : n \in 1..nextPort} \cup {i}
      <3>1. i = MaxFact + (nextPort + 1)
        BY <2>1, BoundsAssumption
      <3> QED BY <2>3, <3>1
    <2>8. i \in Dependency /\ i \notin FactRefs /\ i # 0
      BY <2>2, PortNumbers
    <2> QED BY <2>2, <2>5, <2>6, <2>7, <2>8
  <1>4. /\ t \in Tables /\ t \notin Constructors
        /\ key \in [1..Arity[t] -> Made] /\ key \in Keys(t)
        /\ CanonKey(key) = key
        /\ \A j \in DOMAIN key : key[j] \in Ids /\ root[key[j]] = key[j]
        /\ <<t, key>> \in FunKeys
    BY KnownKey DEF FunTables, FunKeys, Virtual, IInv
  <1>5. /\ v \in ValueType(t) /\ v \in Made \cup Scalars
        /\ v \in Ids => root[v] = v
    BY ValuesAssumption, KnownIsCanonical DEF PortValues, ValueType, IInv
  <1>6. Refs(r) \in SUBSET Ids /\ \A x \in Refs(r) : root[x] = x
    BY <1>4, <1>5 DEF Refs
  <1>7. /\ DOMAIN recipe' = DOMAIN recipe \cup {i}
        /\ recipe'[i] = r
        /\ \A d \in DOMAIN recipe : recipe'[d] = recipe[d]
    BY <1>1, <1>3 DEF Put
  <1>8. /\ UsesExact'
        /\ uses' \in [Ids -> SUBSET Dependency]
        /\ dependencies' \in [Dependency -> SUBSET Ids]
        /\ dependencies'[i] = Refs(r)
        /\ \A e \in Dependency \ {i} : dependencies'[e] = dependencies[e]
    BY <1>1, <1>3, <1>6, ResubscribeExact DEF IInv
  <1>9. /\ RootIsOldest' /\ UnmadeAlone' /\ Filed'
        /\ CleanIndexed' /\ CleanUnique'
    <2>1. live' \cap FactRefs = live \cap FactRefs
      BY <1>1, <1>3
    <2>2. \A f \in live \cap FactRefs : recipe'[f] = recipe[f]
      BY <1>7 DEF IInv, TypeOK
    <2> QED BY <1>1, <1>2, <2>1, <2>2, FactsUntouched
  <1>10. TypeOK'
    <2>1. Made' = Made
      BY <1>1 DEF Made
    <2>2. \A d \in DOMAIN recipe' :
            /\ recipe'[d].table \in Tables
            /\ recipe'[d].key \in [1..Arity[recipe'[d].table] -> Made]
            /\ recipe'[d].value \in IF recipe'[d].table \in Constructors
                                    THEN Made ELSE Made \cup Scalars
      <3> SUFFICES ASSUME NEW d \in DOMAIN recipe'
                   PROVE  /\ recipe'[d].table \in Tables
                          /\ recipe'[d].key \in [1..Arity[recipe'[d].table] -> Made]
                          /\ recipe'[d].value \in
                               IF recipe'[d].table \in Constructors
                               THEN Made ELSE Made \cup Scalars
        OBVIOUS
      <3>1. CASE d = i
        BY <3>1, <1>4, <1>5, <1>7
      <3>2. CASE d \in DOMAIN recipe
        BY <3>2, <1>7 DEF IInv, TypeOK
      <3> QED BY <3>1, <3>2, <1>7
    <2>3. DOMAIN recipe' \subseteq Dependency
          /\ DOMAIN recipe' \cap FactRefs = 1..nextFact
          /\ live' \subseteq DOMAIN recipe'
          /\ hidden' \subseteq live' \cap FactRefs
      BY <1>1, <1>3, <1>7 DEF IInv, TypeOK
    <2>4. stamp' \in [Dependency -> 0..MaxEpoch] /\ events' \subseteq Dependency
      BY <1>1, <1>3 DEF IInv, TypeOK
    <2> QED BY <2>1, <2>2, <2>3, <2>4, <1>1, <1>8 DEF IInv, TypeOK
  <1>11. Covers'
    <2> SUFFICES ASSUME NEW d \in Dependency
                 PROVE  IF d \in live'
                        THEN \A n \in Ids :
                               (\E x \in dependencies'[d] : root[x] = n)
                               <=> (\E x \in Refs(recipe'[d]) : root[x] = n)
                        ELSE dependencies'[d] = {}
      BY <1>1 DEF Covers, Refs
    <2>1. CASE d = i
      BY <2>1, <1>1, <1>7, <1>8
    <2>2. CASE d # i
      <3>1. dependencies'[d] = dependencies[d] /\ (d \in live' <=> d \in live)
        BY <2>2, <1>1, <1>8
      <3>2. d \in live => recipe'[d] = recipe[d]
        BY <1>7 DEF IInv, TypeOK
      <3> QED BY <3>1, <3>2 DEF Covers, IInv
    <2> QED BY <2>1, <2>2
  <1>12. IInv'
    BY <1>1, <1>2, <1>8, <1>9, <1>10, <1>11
    DEF IInv, DirtyLive, QuietOutsideRepair
  <1>13. LivePorts' = LivePorts \cup {i} /\ i \notin LivePorts
    BY <1>1, <1>3 DEF LivePorts
  <1>14. TypePorts'
    <2>1. DOMAIN recipe' \cap Ports = (DOMAIN recipe \cap Ports) \cup {i}
      BY <1>3, <1>7
    <2> QED BY <2>1, <1>1, <1>3, <1>10 DEF TypePorts
  <1>15. DirectoryExact'
    <2>1. \A k \in FunKeys : functionKeys'[k] = IF k = <<t, key>> THEN i
                                                ELSE functionKeys[k]
      BY <1>1, <1>4 DEF TypePorts
    <2>2. ASSUME NEW k \in FunKeys, functionKeys'[k] # 0
          PROVE  /\ functionKeys'[k] \in live'
                 /\ k = <<recipe'[functionKeys'[k]].table,
                          recipe'[functionKeys'[k]].key>>
      <3>1. CASE k = <<t, key>>
        BY <3>1, <2>1, <1>1, <1>7
      <3>2. CASE k # <<t, key>>
        <4>1. functionKeys[k] \in live /\ functionKeys[k] \in DOMAIN recipe
          BY <3>2, <2>1, <2>2 DEF DirectoryExact, IInv, TypeOK
        <4> QED BY <4>1, <3>2, <2>1, <2>2, <1>1, <1>7 DEF DirectoryExact
      <3> QED BY <3>1, <3>2
    <2>3. ASSUME NEW p \in LivePorts'
          PROVE  functionKeys'[<<recipe'[p].table, recipe'[p].key>>] = p
      <3>1. CASE p = i
        BY <3>1, <2>1, <1>4, <1>7
      <3>2. CASE p \in LivePorts
        <4>1. /\ p \in DOMAIN recipe /\ p # 0
              /\ <<recipe[p].table, recipe[p].key>> \in FunKeys
              /\ functionKeys[<<recipe[p].table, recipe[p].key>>] = p
          BY <3>2, PortKey, PortNumbers
        <4> QED BY <4>1, <2>1, <1>1, <1>7
      <3> QED BY <3>1, <3>2, <1>13
    <2> QED BY <2>2, <2>3 DEF DirectoryExact
  <1>16. CleanPorts'
    <2> SUFFICES ASSUME NEW p \in LivePorts'
                 PROVE  (CanonKey(recipe[p].key))' = recipe'[p].key
      BY DEF CleanPorts
    <2>1. (CanonKey(recipe[p].key))' = CanonKey(recipe'[p].key)
      BY <1>1 DEF CanonKey, Canon
    <2>2. CASE p = i
      BY <2>1, <2>2, <1>4, <1>7
    <2>3. CASE p \in LivePorts
      <3>1. recipe'[p] = recipe[p]
        BY <2>3, <1>7, PortKey
      <3>2. CanonKey(recipe[p].key) = recipe[p].key
        BY <2>3, <1>2 DEF CleanPorts
      <3> QED BY <2>1, <3>1, <3>2
    <2> QED BY <2>2, <2>3, <1>13
  <1>17. TypedRows' /\ TypedPorts'
    <2>1. TypedRows'
      BY <1>3, <1>7 DEF TypedRows, IsRow
    <2>2. ValueType(t)' = ValueType(t) /\ Made' = Made
      BY <1>1 DEF ValueType, Made
    <2>3. \A p \in LivePorts : recipe'[p] = recipe[p]
      BY <1>7, PortKey
    <2> QED BY <2>1, <2>2, <2>3, <1>5, <1>7, <1>13 DEF TypedPorts, ValueType
  <1> QED BY <1>12, <1>14, <1>15, <1>16, <1>17
(* hide() of a port removes the port and its entry.                         *)
LEMMA DeletePortInv ==
    ASSUME PInv, NEW t \in FunTables, NEW key \in KnownKeys(t),
           DeletePort(t, key)
    PROVE  PInv'
  <1> DEFINE i == functionKeys[<<t, key>>]
  <1> USE DEF PInv
  <1>1. /\ phase = "rhs" /\ i # 0
        /\ live' = live \ {i}
        /\ functionKeys' = [functionKeys EXCEPT ![<<t, key>>] = 0]
        /\ Subscribe(i, {})
        /\ changed' = TRUE
        /\ UNCHANGED <<root, dirty, pending, nextFact, recipe, hidden, stamp,
                       events, bucketOf, intern, epoch, phase, nextPort>>
    BY DEF DeletePort, unionVars
  <1>2. dirty = {} /\ dirty' = {}
    BY <1>1 DEF IInv, QuietOutsideRepair
  <1>3. <<t, key>> \in FunKeys
    BY KnownKey DEF FunTables, FunKeys, IInv
  <1>4. /\ i \in LivePorts /\ i \in Dependency /\ i \notin FactRefs
        /\ <<recipe[i].table, recipe[i].key>> = <<t, key>>
    <2>1. i \in LivePorts
      BY <1>1, <1>3 DEF TypePorts, DirectoryExact, LivePorts
    <2> QED BY <2>1, <1>1, <1>3, PortKey DEF DirectoryExact
  <1>5. /\ UsesExact'
        /\ uses' \in [Ids -> SUBSET Dependency]
        /\ dependencies' \in [Dependency -> SUBSET Ids]
        /\ dependencies'[i] = {}
        /\ \A e \in Dependency \ {i} : dependencies'[e] = dependencies[e]
    BY <1>1, <1>4, ResubscribeExact DEF IInv
  <1>6. /\ RootIsOldest' /\ UnmadeAlone' /\ Filed'
        /\ CleanIndexed' /\ CleanUnique'
    <2>1. live' \cap FactRefs = live \cap FactRefs
      BY <1>1, <1>4
    <2> QED BY <1>1, <1>2, <2>1, FactsUntouched
  <1>7. TypeOK'
    <2>1. Made' = Made
      BY <1>1 DEF Made
    <2>2. /\ live' \subseteq DOMAIN recipe' /\ hidden' \subseteq live' \cap FactRefs
      BY <1>1, <1>4 DEF IInv, TypeOK
    <2> QED BY <2>1, <2>2, <1>1, <1>5 DEF IInv, TypeOK
  <1>8. Covers'
    BY <1>1, <1>4, <1>5 DEF Covers, Refs, IInv
  <1>9. IInv'
    BY <1>1, <1>2, <1>5, <1>6, <1>7, <1>8
    DEF IInv, DirtyLive, QuietOutsideRepair
  <1>10. LivePorts' = LivePorts \ {i}
    BY <1>1 DEF LivePorts
  <1>11. TypePorts'
    BY <1>1, <1>7 DEF TypePorts
  <1>12. DirectoryExact'
    <2>1. \A k \in FunKeys : functionKeys'[k] = IF k = <<t, key>> THEN 0
                                                ELSE functionKeys[k]
      BY <1>1, <1>3 DEF TypePorts
    <2>2. ASSUME NEW k \in FunKeys, functionKeys'[k] # 0
          PROVE  /\ functionKeys'[k] \in live'
                 /\ k = <<recipe'[functionKeys'[k]].table,
                          recipe'[functionKeys'[k]].key>>
      BY <2>1, <2>2, <1>1, <1>4 DEF DirectoryExact
    <2>3. ASSUME NEW p \in LivePorts'
          PROVE  functionKeys'[<<recipe'[p].table, recipe'[p].key>>] = p
      <3>1. p \in LivePorts /\ p # i
        BY <1>10
      <3>2. /\ <<recipe[p].table, recipe[p].key>> \in FunKeys
            /\ functionKeys[<<recipe[p].table, recipe[p].key>>] = p
        BY <3>1, PortKey
      <3> QED BY <3>1, <3>2, <2>1, <1>1
    <2> QED BY <2>2, <2>3 DEF DirectoryExact
  <1>13. CleanPorts'
    BY <1>1, <1>2, <1>10 DEF CleanPorts, CanonKey, Canon
  <1>14. TypedRows' /\ TypedPorts'
    BY <1>1, <1>10 DEF TypedRows, TypedPorts, ValueType, Made
  <1> QED BY <1>9, <1>11, <1>12, <1>13, <1>14

(* A dirty port is live, and its canonical row is a row of the port.        *)
LEMMA DirtyPort ==
    ASSUME PInv, NEW i \in Ports, NextDirty(i)
    PROVE  /\ i \in LivePorts /\ i \in dirty /\ phase = "repair" /\ pending = <<>>
           /\ Row(i).table = recipe[i].table
           /\ Row(i).key = CanonKey(recipe[i].key)
           /\ CanonKey(Row(i).key) = Row(i).key
           /\ Row(i).key \in [1..Arity[recipe[i].table] -> Made]
           /\ Row(i).value \in ValueType(recipe[i].table)
           /\ Row(i).value \in Ids => root[Row(i).value] = Row(i).value
           /\ <<recipe[i].table, Row(i).key>> \in FunKeys
  <1> USE DEF PInv
  <1>1. i \in LivePorts /\ i \in dirty /\ phase = "repair" /\ pending = <<>>
    BY DEF NextDirty, First, IInv, DirtyLive, LivePorts
  <1>2. i \in DOMAIN recipe
    BY <1>1, PortKey
  <1>3. recipe[i].value \in ValueType(recipe[i].table)
    BY <1>1 DEF TypedPorts
  <1>4. /\ Row(i).value \in ValueType(recipe[i].table)
        /\ Row(i).value \in Ids => root[Row(i).value] = Row(i).value
    <2>1. CASE recipe[i].value \in Scalars
      BY <2>1, <1>3, ValuesAssumption DEF Row, Canon
    <2>2. CASE recipe[i].value \in Made /\ MergeKind[recipe[i].table] # "min"
      <3>1. Row(i).value = root[recipe[i].value]
        BY <2>2, RootOfMade DEF Row, Canon, IInv
      <3> QED BY <3>1, <2>2, RootOfMade DEF ValueType, IInv
    <2> QED BY <1>3, <2>1, <2>2 DEF ValueType
  <1>5. <<recipe[i].table, CanonKey(recipe[i].key)>> \in FunKeys
    BY <1>1, PortKey
  <1> QED BY <1>1, <1>2, <1>4, <1>5, RowIsCanonical DEF IInv
(* What repair() gives up: the dirty port's own entry.                      *)
LEMMA ReleasedEntry ==
    ASSUME PInv, NEW i \in LivePorts, NEW k \in FunKeys
    PROVE  Released(i)[k] = IF k = <<recipe[i].table, recipe[i].key>> THEN 0
                            ELSE functionKeys[k]
  BY PortKey DEF Released

(* repair() of a dirty port whose canonical key is free: the port moves     *)
(* there.                                                                   *)
LEMMA RekeyInv ==
    ASSUME PInv, NEW i \in Ports, Rekey(i)
    PROVE  PInv'
  <1> DEFINE old == <<recipe[i].table, recipe[i].key>>
             new == <<recipe[i].table, Row(i).key>>
  <1> USE DEF PInv
  <1>1. /\ NextDirty(i)
        /\ Holder(i) \in {0, i}
        /\ dirty' = dirty \ {i}
        /\ functionKeys' = [Released(i) EXCEPT ![new] = i]
        /\ recipe' = [recipe EXCEPT ![i] = Row(i)]
        /\ stamp' = [stamp EXCEPT ![i] = epoch]
        /\ Subscribe(i, Refs(Row(i)))
        /\ events' = events \cup {i}
        /\ UNCHANGED <<root, pending, nextFact, live, hidden, changed, bucketOf,
                       intern, epoch, phase, nextPort>>
    BY DEF Rekey
  <1>2. /\ i \in LivePorts /\ i \in dirty /\ phase = "repair"
        /\ Row(i).table = recipe[i].table
        /\ CanonKey(Row(i).key) = Row(i).key
        /\ Row(i).key \in [1..Arity[recipe[i].table] -> Made]
        /\ Row(i).value \in ValueType(recipe[i].table)
        /\ new \in FunKeys
    BY <1>1, DirtyPort
  <1>3. /\ i \in DOMAIN recipe /\ i \in Dependency /\ i \notin FactRefs /\ i # 0
        /\ old \in FunKeys /\ functionKeys[old] = i
        /\ recipe[i].table \in FunTables /\ recipe[i].table \in Tables
        /\ recipe[i].table \notin Constructors
    BY <1>2, PortKey, PortNumbers DEF FunTables, Virtual
  <1>4. /\ Refs(Row(i)) \in SUBSET Ids
        /\ \A x \in Refs(Row(i)) : root[x] = x
        /\ \A n \in Ids : n \in Refs(Row(i))
                            <=> \E x \in Refs(recipe[i]) : root[x] = n
    <2>1. Refs(Row(i)) \in SUBSET Ids
      BY DEF Refs
    <2>2. \A n \in Ids : n \in Refs(Row(i))
                            <=> \E x \in Refs(recipe[i]) : root[x] = n
      BY <1>3, RefsOfRow DEF IInv
    <2>3. \A x \in Refs(Row(i)) : root[x] = x
      BY <2>1, <2>2 DEF IInv, RootIsOldest, Refs
    <2> QED BY <2>1, <2>2, <2>3
  <1>5. /\ DOMAIN recipe' = DOMAIN recipe
        /\ recipe'[i] = Row(i)
        /\ \A d \in DOMAIN recipe \ {i} : recipe'[d] = recipe[d]
    BY <1>1, <1>3
  <1>6. /\ UsesExact'
        /\ uses' \in [Ids -> SUBSET Dependency]
        /\ dependencies' \in [Dependency -> SUBSET Ids]
        /\ dependencies'[i] = Refs(Row(i))
        /\ \A e \in Dependency \ {i} : dependencies'[e] = dependencies[e]
    BY <1>1, <1>3, <1>4, ResubscribeExact DEF IInv
  <1>7. /\ RootIsOldest' /\ UnmadeAlone' /\ Filed'
        /\ CleanIndexed' /\ CleanUnique'
    <2>1. \A f \in live \cap FactRefs : recipe'[f] = recipe[f]
      BY <1>3, <1>5 DEF IInv, TypeOK
    <2>2. dirty' \cap FactRefs = dirty \cap FactRefs
      BY <1>1, <1>3
    <2> QED BY <1>1, <2>1, <2>2, FactsUntouched
  <1>8. TypeOK'
    <2>1. Made' = Made
      BY <1>1 DEF Made
    <2>2. Row(i).value \in Made \cup Scalars
      BY <1>2 DEF ValueType
    <2>3. \A d \in DOMAIN recipe' :
            /\ recipe'[d].table \in Tables
            /\ recipe'[d].key \in [1..Arity[recipe'[d].table] -> Made]
            /\ recipe'[d].value \in IF recipe'[d].table \in Constructors
                                    THEN Made ELSE Made \cup Scalars
      <3> SUFFICES ASSUME NEW d \in DOMAIN recipe'
                   PROVE  /\ recipe'[d].table \in Tables
                          /\ recipe'[d].key \in [1..Arity[recipe'[d].table] -> Made]
                          /\ recipe'[d].value \in
                               IF recipe'[d].table \in Constructors
                               THEN Made ELSE Made \cup Scalars
        OBVIOUS
      <3>1. CASE d = i
        BY <3>1, <1>2, <1>3, <1>5, <2>2
      <3>2. CASE d \in DOMAIN recipe \ {i}
        BY <3>2, <1>5 DEF IInv, TypeOK
      <3> QED BY <3>1, <3>2, <1>5
    <2>4. stamp' \in [Dependency -> 0..MaxEpoch] /\ events' \subseteq Dependency
      BY <1>1, <1>3 DEF IInv, TypeOK
    <2> QED BY <2>1, <2>3, <2>4, <1>1, <1>5, <1>6 DEF IInv, TypeOK
  <1>9. Covers'
    <2> SUFFICES ASSUME NEW d \in Dependency
                 PROVE  IF d \in live'
                        THEN \A n \in Ids :
                               (\E x \in dependencies'[d] : root[x] = n)
                               <=> (\E x \in Refs(recipe'[d]) : root[x] = n)
                        ELSE dependencies'[d] = {}
      BY <1>1 DEF Covers, Refs
    <2>1. CASE d = i
      BY <2>1, <1>1, <1>2, <1>5, <1>6 DEF LivePorts
    <2>2. CASE d # i
      <3>1. dependencies'[d] = dependencies[d] /\ (d \in live' <=> d \in live)
        BY <2>2, <1>1, <1>6
      <3>2. d \in live => recipe'[d] = recipe[d]
        BY <2>2, <1>5 DEF IInv, TypeOK
      <3> QED BY <3>1, <3>2 DEF Covers, IInv
    <2> QED BY <2>1, <2>2
  <1>10. IInv'
    BY <1>1, <1>2, <1>6, <1>7, <1>8, <1>9
    DEF IInv, DirtyLive, QuietOutsideRepair
  <1>11. LivePorts' = LivePorts
    BY <1>1 DEF LivePorts
  <1>12. TypePorts'
    <2>1. \A k \in FunKeys : Released(i)[k] \in Ports \cup {0}
      BY <1>2, ReleasedEntry DEF TypePorts
    <2>2. functionKeys' \in [FunKeys -> Ports \cup {0}]
      BY <2>1, <1>1 DEF Released
    <2> QED BY <2>2, <1>1, <1>5, <1>8 DEF TypePorts
  <1>13. DirectoryExact'
    <2>1. \A k \in FunKeys :
            functionKeys'[k] = IF k = new THEN i
                               ELSE IF k = old THEN 0 ELSE functionKeys[k]
      <3> SUFFICES ASSUME NEW k \in FunKeys
                   PROVE  functionKeys'[k] = IF k = new THEN i
                               ELSE IF k = old THEN 0 ELSE functionKeys[k]
        OBVIOUS
      <3>1. Released(i)[k] = IF k = old THEN 0 ELSE functionKeys[k]
        BY <1>2, ReleasedEntry
      <3>2. functionKeys'[k] = IF k = new THEN i ELSE Released(i)[k]
        BY <1>1, <1>2 DEF Released
      <3> QED BY <3>1, <3>2
    <2>2. new = old \/ functionKeys[new] = 0
      <3>1. Holder(i) = IF new = old THEN 0 ELSE functionKeys[new]
        BY <1>2, ReleasedEntry DEF Holder
      <3>2. functionKeys[new] = i => new = old
        BY <1>2, <1>3 DEF DirectoryExact
      <3> QED BY <1>1, <3>1, <3>2
    <2>3. ASSUME NEW k \in FunKeys, functionKeys'[k] # 0
          PROVE  /\ functionKeys'[k] \in live'
                 /\ k = <<recipe'[functionKeys'[k]].table,
                          recipe'[functionKeys'[k]].key>>
      <3>1. CASE k = new
        BY <3>1, <2>1, <1>1, <1>2, <1>5 DEF LivePorts
      <3>2. CASE k # new
        <4>1. functionKeys'[k] = functionKeys[k] /\ k # old
          BY <3>2, <2>1, <2>3
        <4>2. /\ functionKeys[k] \in live /\ functionKeys[k] # i
              /\ k = <<recipe[functionKeys[k]].table,
                       recipe[functionKeys[k]].key>>
          BY <4>1, <2>3 DEF DirectoryExact
        <4> QED BY <4>1, <4>2, <1>1, <1>5 DEF IInv, TypeOK
      <3> QED BY <3>1, <3>2
    <2>4. ASSUME NEW p \in LivePorts'
          PROVE  functionKeys'[<<recipe'[p].table, recipe'[p].key>>] = p
      <3>1. CASE p = i
        BY <3>1, <2>1, <1>2, <1>5
      <3>2. CASE p # i
        <4>1. p \in LivePorts /\ p \in DOMAIN recipe /\ recipe'[p] = recipe[p]
          BY <3>2, <1>5, <1>11, PortKey
        <4>2. /\ <<recipe[p].table, recipe[p].key>> \in FunKeys
              /\ functionKeys[<<recipe[p].table, recipe[p].key>>] = p
              /\ p # 0
          BY <4>1, PortKey, PortNumbers
        <4> QED BY <4>1, <4>2, <2>1, <2>2, <1>3, <3>2
      <3> QED BY <3>1, <3>2
    <2> QED BY <2>3, <2>4 DEF DirectoryExact
  <1>14. CleanPorts'
    <2> SUFFICES ASSUME NEW p \in LivePorts' \ dirty'
                 PROVE  (CanonKey(recipe[p].key))' = recipe'[p].key
      BY DEF CleanPorts
    <2>1. (CanonKey(recipe[p].key))' = CanonKey(recipe'[p].key)
      BY <1>1 DEF CanonKey, Canon
    <2>2. CASE p = i
      BY <2>1, <2>2, <1>2, <1>5
    <2>3. CASE p # i
      <3>1. recipe'[p] = recipe[p] /\ p \in LivePorts \ dirty
        BY <2>3, <1>1, <1>5, <1>11, PortKey
      <3>2. CanonKey(recipe[p].key) = recipe[p].key
        BY <3>1 DEF CleanPorts
      <3> QED BY <2>1, <3>1, <3>2
    <2> QED BY <2>2, <2>3
  <1>15. TypedRows' /\ TypedPorts'
    <2>1. TypedRows'
      BY <1>2, <1>5 DEF TypedRows, IsRow, Row
    <2>2. \A t : ValueType(t)' = ValueType(t)
      BY <1>1 DEF ValueType, Made
    <2>3. \A p \in LivePorts \ {i} : recipe'[p] = recipe[p]
      BY <1>5, PortKey
    <2> QED BY <2>1, <2>2, <2>3, <1>2, <1>5, <1>11 DEF TypedPorts
  <1> QED BY <1>10, <1>12, <1>13, <1>14, <1>15
------------------------------------------------------------------------------
(* subscribe() of several rows at once keeps the reverse index exact.       *)
LEMMA ResubscribeMany ==
    ASSUME TypeOK, UsesExact, root' = root, NEW D \in SUBSET Dependency,
           dependencies' \in [Dependency -> SUBSET Ids],
           \A d \in D : \A x \in dependencies'[d] : root[x] = x,
           \A d \in Dependency \ D : dependencies'[d] = dependencies[d],
           uses' = [i \in Ids |->
                      {d \in uses[i] : d \in D =>
                          i \notin {root[x] : x \in dependencies[d]}}
                      \cup {d \in D : i \in dependencies'[d]}]
    PROVE  UsesExact' /\ uses' \in [Ids -> SUBSET Dependency]
  <1>1. \A i \in Ids : uses[i] \subseteq Dependency
    BY DEF TypeOK
  <1>2. uses' \in [Ids -> SUBSET Dependency]
    BY <1>1
  <1>3. ASSUME NEW i \in Ids, NEW d \in Dependency
        PROVE  d \in uses'[i] <=> \E x \in dependencies'[d] : root[x] = i
    <2>1. d \in uses[i] <=> \E x \in dependencies[d] : root[x] = i
      BY DEF UsesExact
    <2>2. CASE d \notin D
      <3>1. d \in uses'[i] <=> d \in uses[i]
        BY <2>2
      <3> QED BY <2>1, <2>2, <3>1
    <2>3. CASE d \in D
      <3>1. d \in uses'[i] <=> i \in dependencies'[d]
        BY <2>1, <2>3
      <3>2. i \in dependencies'[d] <=> \E x \in dependencies'[d] : root[x] = i
        BY <2>3
      <3> QED BY <3>1, <3>2
    <2> QED BY <2>2, <2>3
  <1> QED BY <1>2, <1>3 DEF UsesExact

(* Storing another value changes the value only.                            *)
LEMMA RowWith ==
    ASSUME NEW r, IsRow(r), NEW v
    PROVE  /\ [r EXCEPT !.value = v]
                = [table |-> r.table, key |-> r.key, value |-> v]
           /\ IsRow([r EXCEPT !.value = v])
  <1>1. DOMAIN r = {"table", "key", "value"}
    BY DEF IsRow
  <1>2. [r EXCEPT !.value = v]
          = [table |-> r.table, key |-> r.key, value |-> v]
    BY <1>1
  <1> QED BY <1>2 DEF IsRow

(* What a port subscribes to when it stores v covers its key and v.         *)
LEMMA PortRefsCover ==
    ASSUME TypeOK, RootIsOldest, NEW d \in DOMAIN recipe, IsRow(recipe[d]),
           NEW v, v \in Ids => root[v] = v
    PROVE  /\ PortRefs(d, v) \in SUBSET Ids
           /\ \A x \in PortRefs(d, v) : root[x] = x
           /\ \A n \in Ids : n \in PortRefs(d, v)
                <=> \E x \in Refs([recipe[d] EXCEPT !.value = v]) : root[x] = n
  <1> DEFINE key == recipe[d].key
  <1>1. key \in [1..Arity[recipe[d].table] -> Made]
    BY DEF TypeOK
  <1>2. \A m \in DOMAIN key :
          /\ key[m] \in Ids
          /\ CanonKey(key)[m] = root[key[m]]
          /\ CanonKey(key)[m] \in Ids
          /\ root[CanonKey(key)[m]] = CanonKey(key)[m]
    BY <1>1, RootOfMade DEF CanonKey, Canon
  <1>3. [Row(d) EXCEPT !.value = v].key = CanonKey(key)
        /\ [Row(d) EXCEPT !.value = v].value = v
    BY DEF Row
  <1>4. PortRefs(d, v) = ({CanonKey(key)[m] : m \in DOMAIN key} \cup {v}) \cap Ids
    <2>1. DOMAIN CanonKey(key) = DOMAIN key
      BY DEF CanonKey
    <2> QED BY <1>3, <2>1 DEF PortRefs, Refs
  <1>5. /\ [recipe[d] EXCEPT !.value = v].key = key
        /\ [recipe[d] EXCEPT !.value = v].value = v
    BY RowWith
  <1>6. Refs([recipe[d] EXCEPT !.value = v])
          = ({key[m] : m \in DOMAIN key} \cup {v}) \cap Ids
    BY <1>5 DEF Refs
  <1>7. \A x \in PortRefs(d, v) : root[x] = x
    BY <1>2, <1>4
  <1>8. ASSUME NEW n \in Ids
        PROVE  n \in PortRefs(d, v)
                 <=> \E x \in Refs([recipe[d] EXCEPT !.value = v]) : root[x] = n
    <2>1. CASE n \in PortRefs(d, v)
      BY <2>1, <1>2, <1>4, <1>6
    <2>2. ASSUME NEW x \in Refs([recipe[d] EXCEPT !.value = v]), root[x] = n
          PROVE  n \in PortRefs(d, v)
      BY <2>2, <1>2, <1>4, <1>6
    <2> QED BY <2>1, <2>2
  <1> QED BY <1>4, <1>7, <1>8

(* The value a merge stores: one of the two, the class of a row that        *)
(* exists, or the class of the row it builds.                               *)
LEMMA MergedTyped ==
    ASSUME PInv, NEW t \in FunTables,
           NEW old \in ValueType(t), old \in Ids => root[old] = old,
           NEW new \in ValueType(t), new \in Ids => root[new] = new
    PROVE  /\ Builds(t, old, new) =>
                /\ Merged(t, old, new) = ClassOf(nextFact + 1)
                /\ MergeKind[t] = "construct"
                /\ MergeTable \in Constructors
                /\ <<old, new>> \in [1..Arity[MergeTable] -> Made]
                /\ CanonKey(<<old, new>>) = <<old, new>>
                /\ HashOf(MergeTable, <<old, new>>) \in Hashes
           /\ ~ Builds(t, old, new) =>
                /\ Merged(t, old, new) \in ValueType(t)
                /\ Merged(t, old, new) \in Ids =>
                     root[Merged(t, old, new)] = Merged(t, old, new)
  <1> DEFINE args == <<old, new>>
  <1> USE DEF PInv
  <1>1. MergeKind[t] \in {"old", "new", "min", "construct"}
    BY MergeAssumption DEF FunTables
  <1>2. ASSUME MergeKind[t] = "construct"
        PROVE  /\ MergeTable \in Constructors
               /\ args \in [1..Arity[MergeTable] -> Made]
               /\ CanonKey(args) = args
               /\ HashOf(MergeTable, args) \in Hashes
               /\ old \in Made /\ new \in Made
    <2>1. MergeTable \in Constructors /\ Arity[MergeTable] = 2
      BY <1>2, MergeAssumption DEF FunTables
    <2>2. old \in Made /\ new \in Made
      BY <1>2 DEF ValueType
    <2>3. old \in Ids /\ new \in Ids
      BY <2>2, RootOfMade DEF IInv
    <2>4. args \in [1..2 -> Made] /\ args \in [1..2 -> Ids]
      BY <2>2, <2>3
    <2>5. CanonKey(args) = args
      <3>1. \A m \in DOMAIN args : Canon(args[m]) = args[m]
        BY <2>3 DEF Canon
      <3> QED BY <3>1, <2>4 DEF CanonKey
    <2>6. HashOf(MergeTable, args) \in Hashes
      BY <2>1, <2>4, HashAssumption, TablesAssumption DEF Keys, Virtual
    <2> QED BY <2>1, <2>2, <2>4, <2>5, <2>6
  <1>3. CASE Builds(t, old, new)
    <2>1. MergeKind[t] = "construct" /\ old # new
      BY <1>3 DEF Builds
    <2>2. Merged(t, old, new) = ClassOf(nextFact + 1)
      BY <1>3, <2>1 DEF Merged
    <2> QED BY <1>2, <1>3, <2>1, <2>2
  <1>4. CASE ~ Builds(t, old, new)
    <2>1. CASE MergeKind[t] # "construct" \/ old = new
      BY <1>1, <1>4, <2>1 DEF Merged
    <2>2. CASE MergeKind[t] = "construct" /\ old # new
      <3> DEFINE M == Matching(MergeTable, args)
      <3>1. M # {}
        BY <1>4, <2>2 DEF Builds
      <3>2. M \subseteq FactRefs
        BY <1>2, <2>2 DEF Matching, DirtyFacts, IInv, TypeOK
      <3>3. \A f \in M : f \in live /\ recipe[f].table = MergeTable
        BY DEF Matching
      <3> DEFINE g == CHOOSE f \in FactRefs : First(f, M)
      <3>4. g \in FactRefs /\ First(g, M)
        <4>1. \E f \in FactRefs : First(f, M)
          BY <3>1, <3>2, FirstExists
        <4> HIDE DEF M
        <4> QED BY <4>1
      <3>5. Merged(t, old, new) = Row(g).value
        BY <1>4, <2>2 DEF Merged
      <3>6. g \in DOMAIN recipe /\ recipe[g].table \in Constructors
        BY <1>2, <2>2, <3>3, <3>4 DEF First, IInv, TypeOK
      <3>7. recipe[g].value \in Made
        BY <3>6 DEF IInv, TypeOK
      <3>8. Row(g).value = root[recipe[g].value]
        BY <3>7, RootOfMade DEF Row, Canon, IInv
      <3>9. /\ root[recipe[g].value] \in Made
            /\ root[root[recipe[g].value]] = root[recipe[g].value]
        BY <3>7, RootOfMade DEF IInv
      <3> HIDE DEF g
      <3>10. /\ Merged(t, old, new) \in Made
             /\ root[Merged(t, old, new)] = Merged(t, old, new)
        BY <3>5, <3>8, <3>9
      <3> QED BY <1>4, <2>2, <3>10 DEF ValueType
    <2> QED BY <2>1, <2>2
  <1> QED BY <1>3, <1>4
(* Storing a merged value in port j, with the fact the merge builds, and    *)
(* retiring the ports in gone: the graph stays sound, and j keeps its key.  *)
LEMMA StoreMergedInv ==
    ASSUME PInv, NEW j \in LivePorts, NEW new \in ValueType(recipe[j].table),
           new \in Ids => root[new] = new,
           NEW gone \in SUBSET (LivePorts \ {j}),
           StoreMerged(j, new, gone),
           dirty' = dirty \ gone, changed' \in BOOLEAN
    PROVE  /\ IInv' /\ TypedRows' /\ TypedPorts'
           /\ root' = root
           /\ LivePorts' = LivePorts \ gone
           /\ DOMAIN recipe' \cap Ports = DOMAIN recipe \cap Ports
           /\ recipe'[j].table = recipe[j].table
           /\ recipe'[j].key = recipe[j].key
           /\ \A p \in LivePorts \ {j} : recipe'[p] = recipe[p]
  <1> DEFINE t == recipe[j].table
             old == Row(j).value
             next == Merged(t, old, new)
             args == <<old, new>>
             h == HashOf(MergeTable, args)
             built == {f \in {nextFact + 1} : Builds(t, old, new)}
             fact == [table |-> MergeTable, key |-> args, value |-> next]
             port == [recipe[j] EXCEPT !.value = next]
             ids(d) == IF d = j THEN PortRefs(j, next)
                       ELSE IF d \in built THEN Refs(fact) ELSE {}
             touched == built \cup gone \cup {j}
             Later(T) == IF MergeKind[T] = "min" THEN Scalars ELSE Made'
  <1> USE DEF PInv
  <1>1. /\ built # {} => nextFact < MaxFact
        /\ nextFact' = IF built # {} THEN nextFact + 1 ELSE nextFact
        /\ recipe' = [d \in DOMAIN recipe \cup built |->
                        IF d = j THEN port
                        ELSE IF d \in built THEN fact ELSE recipe[d]]
        /\ live' = (live \cup built) \ gone
        /\ stamp' = [d \in Dependency |->
                        IF d \in built \cup {j} THEN epoch ELSE stamp[d]]
        /\ bucketOf' = [f \in FactRefs |-> IF f \in built THEN h ELSE bucketOf[f]]
        /\ intern' = IF built = {} THEN intern
                     ELSE [intern EXCEPT ![h] = @ \cup built]
        /\ uses' = [i \in Ids |->
                    {d \in uses[i] : d \in touched =>
                        i \notin {root[x] : x \in dependencies[d]}}
                    \cup {d \in touched : i \in ids(d)}]
        /\ dependencies' = [d \in Dependency |->
                    IF d \in touched THEN ids(d) ELSE dependencies[d]]
        /\ events' = events \cup built \cup {j}
        /\ UNCHANGED <<root, pending, hidden, epoch, phase>>
    BY DEF StoreMerged
  <1>2. /\ j \in DOMAIN recipe /\ j \in Dependency /\ j \in Ports
        /\ j \notin FactRefs /\ j \in live
        /\ t \in FunTables /\ t \in Tables /\ t \notin Constructors
        /\ IsRow(recipe[j])
    BY PortKey DEF LivePorts, TypedRows, FunTables, Virtual
  <1>3. old \in ValueType(t) /\ (old \in Ids => root[old] = old)
    <2>1. recipe[j].value \in ValueType(t)
      BY DEF TypedPorts
    <2>2. CASE recipe[j].value \in Scalars
      BY <2>1, <2>2, ValuesAssumption DEF Row, Canon
    <2>3. CASE recipe[j].value \in Made /\ MergeKind[t] # "min"
      <3>1. Row(j).value = root[recipe[j].value]
        BY <2>3, RootOfMade DEF Row, Canon, IInv
      <3> QED BY <3>1, <2>3, RootOfMade DEF ValueType, IInv
    <2> QED BY <2>1, <2>2, <2>3 DEF ValueType
  <1>4. /\ Builds(t, old, new) =>
             /\ next = ClassOf(nextFact + 1)
             /\ MergeKind[t] = "construct"
             /\ MergeTable \in Constructors
             /\ args \in [1..Arity[MergeTable] -> Made]
             /\ CanonKey(args) = args
             /\ h \in Hashes
        /\ ~ Builds(t, old, new) =>
             next \in ValueType(t) /\ (next \in Ids => root[next] = next)
    BY <1>2, <1>3, MergedTyped
  <1>5. /\ nextFact \in 0..MaxFact /\ nextFact' \in 0..MaxFact
        /\ Made \subseteq Made'
        /\ built # {} => /\ built = {nextFact + 1} /\ Builds(t, old, new)
                         /\ ClassOf(nextFact + 1) \in Made'
                         /\ ClassOf(nextFact + 1) \in Ids
                         /\ ClassOf(nextFact + 1) \notin Made
                         /\ nextFact + 1 \in FactRefs
                         /\ 1..nextFact' = (1..nextFact) \cup built
                         /\ Made' = Made \cup {ClassOf(nextFact + 1)}
        /\ built = {} => ~ Builds(t, old, new) /\ nextFact' = nextFact
    <2>1. nextFact \in 0..MaxFact
      BY DEF IInv, TypeOK
    <2>2. CASE built = {}
      BY <2>1, <2>2, <1>1 DEF Made
    <2>3. CASE built # {}
      <3>1. built = {nextFact + 1} /\ Builds(t, old, new)
        BY <2>3
      <3>2. nextFact' = nextFact + 1 /\ nextFact < MaxFact
        BY <1>1, <2>3
      <3> HIDE DEF built
      <3> QED BY <2>1, <2>3, <3>1, <3>2, BoundsAssumption
              DEF Made, ClassOf, Ids, FactRefs
    <2> QED BY <2>2, <2>3
  <1>6. /\ built \subseteq FactRefs /\ built \subseteq Dependency
        /\ built \cap DOMAIN recipe = {}
        /\ built \cap live = {} /\ j \notin built
        /\ gone \cap built = {} /\ gone \cap FactRefs = {} /\ j \notin gone
        /\ gone \subseteq LivePorts
    <2>1. built \subseteq FactRefs
      BY <1>5
    <2>2. \A f \in built : f \notin DOMAIN recipe
      <3>1. nextFact + 1 \notin 1..nextFact
        BY <1>5
      <3> QED BY <2>1, <3>1 DEF IInv, TypeOK
    <2>3. gone \cap FactRefs = {}
      BY PortKey
    <2> HIDE DEF built
    <2> QED BY <2>1, <2>2, <2>3, <1>2, PortNumbers DEF IInv, TypeOK
  <1> HIDE DEF built, next, old, h
  <1>7. next \in Later(t)
        /\ (next \in Ids => root[next] = next)
        /\ (built # {} => next \in Made')
    <2>1. \A T : ValueType(T) \subseteq Later(T)
      BY <1>5 DEF ValueType
    <2>2. CASE built = {}
      BY <2>1, <2>2, <1>4, <1>5
    <2>3. CASE built # {}
      <3>1. next = ClassOf(nextFact + 1) /\ MergeKind[t] = "construct"
        BY <2>3, <1>4, <1>5
      <3>2. root[ClassOf(nextFact + 1)] = ClassOf(nextFact + 1)
        BY <2>3, <1>5 DEF IInv, UnmadeAlone
      <3> QED BY <2>3, <3>1, <3>2, <1>5
    <2> QED BY <2>2, <2>3
  <1>8. /\ DOMAIN recipe' = DOMAIN recipe \cup built
        /\ recipe'[j] = port
        /\ \A d \in built : recipe'[d] = fact
        /\ \A d \in DOMAIN recipe \ {j} : recipe'[d] = recipe[d]
    BY <1>1, <1>2, <1>6
  <1>9. /\ port.table = t /\ port.key = recipe[j].key /\ port.value = next
        /\ IsRow(port)
    <2>1. IsRow(recipe[j])
      BY <1>2
    <2>2. port = [table |-> t, key |-> recipe[j].key, value |-> next]
      BY <2>1, RowWith
    <2>3. IsRow(port)
      BY <2>1, RowWith
    <2> HIDE DEF port
    <2> QED BY <2>2, <2>3
  <1>10. built # {} => /\ fact.table \in Constructors
                       /\ fact.table \in Tables
                       /\ fact.key \in [1..Arity[fact.table] -> Made]
                       /\ fact.value \in Made'
                       /\ IsRow(fact)
    BY <1>4, <1>5, <1>7, TablesAssumption DEF IsRow, Virtual
  <1> HIDE DEF port
  <1>11. \A x \in (IF built # {} THEN Refs(fact) ELSE {}) : x \in Ids /\ root[x] = x
    <2> SUFFICES ASSUME built # {}, NEW x \in Refs(fact)
                 PROVE  x \in Ids /\ root[x] = x
      OBVIOUS
    <2>1. CanonKey(args) = args
      BY <1>4, <1>5
    <2>2. \A m \in DOMAIN args : Canon(args[m]) = args[m]
      BY <2>1 DEF CanonKey
    <2>3. x \in Ids /\ (x = next \/ \E m \in DOMAIN args : x = args[m])
      BY DEF Refs
    <2> QED BY <2>2, <2>3, <1>7 DEF Canon
  <1>12. /\ PortRefs(j, next) \in SUBSET Ids
         /\ \A x \in PortRefs(j, next) : root[x] = x
         /\ \A n \in Ids : n \in PortRefs(j, next)
                             <=> \E x \in Refs(port) : root[x] = n
    BY <1>2, <1>7, PortRefsCover DEF IInv, port
  <1>13. /\ touched \in SUBSET Dependency
         /\ dependencies' \in [Dependency -> SUBSET Ids]
         /\ dependencies'[j] = PortRefs(j, next)
         /\ \A d \in built : dependencies'[d] = Refs(fact)
         /\ \A d \in gone : dependencies'[d] = {}
         /\ \A d \in Dependency \ touched : dependencies'[d] = dependencies[d]
    <2>1. touched \in SUBSET Dependency
      BY <1>2, <1>6, PortKey
    <2>2. \A d \in Dependency : ids(d) \in SUBSET Ids
      BY <1>11, <1>12
    <2>3. dependencies' \in [Dependency -> SUBSET Ids]
      BY <2>2, <1>1 DEF IInv, TypeOK
    <2> QED BY <2>1, <2>3, <1>1, <1>2, <1>6
  <1>14. \A d \in touched : \A x \in dependencies'[d] : root[x] = x
    BY <1>11, <1>12, <1>13
  <1>15. UsesExact' /\ uses' \in [Ids -> SUBSET Dependency]
    <2>1. \A d \in touched : dependencies'[d] = ids(d)
      BY <1>1, <1>13
    <2>2. \A i \in Ids : {d \in touched : i \in ids(d)}
                           = {d \in touched : i \in dependencies'[d]}
      BY <2>1
    <2> HIDE DEF touched, ids
    <2>3. uses' = [i \in Ids |->
                    {d \in uses[i] : d \in touched =>
                        i \notin {root[x] : x \in dependencies[d]}}
                    \cup {d \in touched : i \in dependencies'[d]}]
      BY <2>2, <1>1
    <2> QED BY <2>3, <1>1, <1>13, <1>14, ResubscribeMany DEF IInv
  <1>16. Covers'
    <2>0. root' = root
      BY <1>1
    <2> SUFFICES ASSUME NEW d \in Dependency
                 PROVE  IF d \in live'
                        THEN \A n \in Ids :
                               (\E x \in dependencies'[d] : root[x] = n)
                               <=> (\E x \in Refs(recipe'[d]) : root[x] = n)
                        ELSE dependencies'[d] = {}
      BY <2>0 DEF Covers, Refs
    <2>1. CASE d = j
      <3>1. d \in live' /\ recipe'[d] = port /\ dependencies'[d] = PortRefs(j, next)
        BY <2>1, <1>1, <1>2, <1>6, <1>8, <1>13
      <3> QED BY <3>1, <1>12
    <2>2. CASE d \in built
      BY <2>2, <1>1, <1>6, <1>8, <1>13
    <2>3. CASE d \in gone
      BY <2>3, <1>1, <1>13
    <2>4. CASE d \notin touched
      <3>1. dependencies'[d] = dependencies[d] /\ (d \in live' <=> d \in live)
        BY <2>4, <1>1, <1>13
      <3>2. d \in live => recipe'[d] = recipe[d]
        BY <2>4, <1>8 DEF IInv, TypeOK
      <3> QED BY <3>1, <3>2 DEF Covers, IInv
    <2> QED BY <2>1, <2>2, <2>3, <2>4
  <1>17. RootIsOldest' /\ UnmadeAlone'
    BY <1>1, <1>5 DEF IInv, RootIsOldest, UnmadeAlone
  <1>18. live' \cap FactRefs = (live \cap FactRefs) \cup built
    BY <1>1, <1>6
  <1>19. /\ Filed'
         /\ bucketOf' \in [FactRefs -> Hashes]
         /\ intern' \in [Hashes -> SUBSET FactRefs]
    <2>1. CASE built = {}
      <3>1. intern' = intern /\ bucketOf' = bucketOf
        BY <2>1, <1>1 DEF IInv, TypeOK
      <3>2. live' \cap FactRefs = live \cap FactRefs
        BY <2>1, <1>18
      <3> QED BY <3>1, <3>2 DEF IInv, TypeOK, Filed
    <2>2. CASE built # {}
      <3>1. h \in Hashes
        BY <2>2, <1>4, <1>5
      <3>2. \A f \in FactRefs :
              bucketOf'[f] = IF f \in built THEN h ELSE bucketOf[f]
        BY <1>1
      <3>3. \A n \in Hashes :
              intern'[n] = IF n = h THEN intern[n] \cup built ELSE intern[n]
        BY <2>2, <3>1, <1>1 DEF IInv, TypeOK
      <3>4. /\ bucketOf' \in [FactRefs -> Hashes]
            /\ intern' \in [Hashes -> SUBSET FactRefs]
        BY <2>2, <3>1, <1>1, <1>6 DEF IInv, TypeOK
      <3>5. ASSUME NEW n \in Hashes, NEW f \in FactRefs
            PROVE  f \in intern'[n] <=> f \in live' /\ bucketOf'[f] = n
        <4>1. f \in intern[n] <=> f \in live /\ bucketOf[f] = n
          BY DEF IInv, Filed
        <4>2. f \in live' <=> f \in live \/ f \in built
          BY <1>18
        <4> QED BY <4>1, <4>2, <3>2, <3>3, <1>6
      <3> QED BY <3>4, <3>5 DEF Filed
    <2> QED BY <2>1, <2>2
  <1>20. /\ \A d : (\A k : CanonKey(k)' = CanonKey(k))
         /\ \A f \in (live \cap FactRefs) : /\ f \in DOMAIN recipe
                                            /\ recipe'[f] = recipe[f]
                                            /\ bucketOf'[f] = bucketOf[f]
         /\ \A f \in built : /\ recipe'[f] = fact /\ bucketOf'[f] = h
                             /\ CanonKey(args) = args
    <2>1. \A k : CanonKey(k)' = CanonKey(k)
      BY <1>1 DEF CanonKey, Canon
    <2>2. \A f \in (live \cap FactRefs) : f \in DOMAIN recipe /\ f \notin built
                                          /\ f # j
      BY <1>2, <1>6 DEF IInv, TypeOK
    <2> QED BY <2>1, <2>2, <1>1, <1>4, <1>5, <1>6, <1>8
  <1>21. (live' \cap FactRefs) \ dirty' \subseteq ((live \cap FactRefs) \ dirty) \cup built
    BY <1>6, <1>18
  <1>22. CleanIndexed'
    <2>0. root' = root
      BY <1>1
    <2> SUFFICES ASSUME NEW f \in (live' \cap FactRefs) \ dirty'
                 PROVE  /\ bucketOf'[f] = HashOf(recipe'[f].table,
                                                 CanonKey(recipe'[f].key))
                        /\ f \in intern'[bucketOf'[f]]
      BY <2>0 DEF CleanIndexed, Row, CanonKey, Canon
    <2>1. f \in intern'[bucketOf'[f]]
      BY <1>19 DEF Filed
    <2>2. CASE f \in (live \cap FactRefs) \ dirty
      BY <2>1, <2>2, <1>20 DEF IInv, CleanIndexed, Row
    <2>3. CASE f \in built
      BY <2>1, <2>3, <1>20 DEF h
    <2> QED BY <2>2, <2>3, <1>21
  <1>23. CleanUnique'
    <2>1. ASSUME NEW f \in built, NEW g \in live \cap FactRefs,
                 recipe[g].table = MergeTable, CanonKey(recipe[g].key) = args
          PROVE  FALSE
      <3>1. Builds(t, old, new)
        BY <2>1, <1>5
      <3>2. Matching(MergeTable, args) = {}
        BY <3>1 DEF Builds
      <3>3. args \in Keys(MergeTable) /\ CanonKey(args) = args
            /\ MergeTable \in Tables
        <4>1. args \in [1..Arity[MergeTable] -> Made]
          BY <3>1, <1>4
        <4>2. args \in [1..Arity[MergeTable] -> Ids]
          BY <4>1, RootOfMade DEF IInv
        <4> QED BY <4>2, <2>1, <1>10, <1>20 DEF Keys
      <3> QED BY <2>1, <3>2, <3>3, MissIsAbsence
    <2> SUFFICES ASSUME NEW f \in (live' \cap FactRefs) \ dirty',
                        NEW g \in (live' \cap FactRefs) \ dirty',
                        recipe'[f].table = recipe'[g].table,
                        CanonKey(recipe'[f].key) = CanonKey(recipe'[g].key)
                 PROVE  f = g
      <3>1. root' = root
        BY <1>1
      <3> QED BY <3>1 DEF CleanUnique, SameKey, CanonKey, Canon
    <2>2. CASE f \in (live \cap FactRefs) \ dirty /\ g \in (live \cap FactRefs) \ dirty
      <3>1. SameKey(f, g)
        BY <2>2, <1>20 DEF SameKey
      <3> QED BY <2>2, <3>1 DEF IInv, CleanUnique
    <2>3. CASE f \in built /\ g \in built
      BY <2>3, <1>5
    <2>4. CASE f \in built /\ g \in live \cap FactRefs
      BY <2>1, <2>4, <1>20
    <2>5. CASE g \in built /\ f \in live \cap FactRefs
      BY <2>1, <2>5, <1>20
    <2> QED BY <2>2, <2>3, <2>4, <2>5, <1>21
  <1>24. TypeOK'
    <2>1. next \in Made' \cup Scalars
      BY <1>7 DEF ValueType
    <2>2. \A d \in DOMAIN recipe' :
            /\ recipe'[d].table \in Tables
            /\ recipe'[d].key \in [1..Arity[recipe'[d].table] -> Made']
            /\ recipe'[d].value \in IF recipe'[d].table \in Constructors
                                    THEN Made' ELSE Made' \cup Scalars
      <3> SUFFICES ASSUME NEW d \in DOMAIN recipe'
                   PROVE  /\ recipe'[d].table \in Tables
                          /\ recipe'[d].key \in [1..Arity[recipe'[d].table] -> Made']
                          /\ recipe'[d].value \in
                               IF recipe'[d].table \in Constructors
                               THEN Made' ELSE Made' \cup Scalars
        OBVIOUS
      <3>1. CASE d = j
        <4>1. recipe[j].key \in [1..Arity[t] -> Made]
          BY <1>2 DEF IInv, TypeOK
        <4> QED BY <3>1, <4>1, <2>1, <1>2, <1>5, <1>8, <1>9
      <3>2. CASE d \in DOMAIN recipe \ {j}
        <4>1. /\ recipe[d].table \in Tables
              /\ recipe[d].key \in [1..Arity[recipe[d].table] -> Made]
              /\ recipe[d].value \in IF recipe[d].table \in Constructors
                                     THEN Made ELSE Made \cup Scalars
          BY <3>2 DEF IInv, TypeOK
        <4> QED BY <3>2, <4>1, <1>5, <1>8
      <3>3. CASE d \in built
        BY <3>3, <1>5, <1>8, <1>10
      <3> QED BY <3>1, <3>2, <3>3, <1>8
    <2>3. DOMAIN recipe' \cap FactRefs = 1..nextFact'
      BY <1>5, <1>6, <1>8 DEF IInv, TypeOK
    <2>4. DOMAIN recipe' \subseteq Dependency /\ live' \subseteq DOMAIN recipe'
      BY <1>1, <1>6, <1>8 DEF IInv, TypeOK
    <2>5. hidden' \subseteq live' \cap FactRefs
      BY <1>1, <1>18 DEF IInv, TypeOK
    <2>6. stamp' \in [Dependency -> 0..MaxEpoch]
      BY <1>1 DEF IInv, TypeOK
    <2>7. events' \subseteq Dependency
      BY <1>1, <1>2, <1>6 DEF IInv, TypeOK
    <2>8. pending' \in Seq(Made' \X Made')
      <3>1. pending \in Seq(Made \X Made) /\ pending' = pending
        BY <1>1 DEF IInv, TypeOK
      <3> QED BY <3>1, <1>5
    <2>9. dirty' \subseteq Dependency /\ root' \in [Ids -> Ids]
          /\ epoch' \in 0..MaxEpoch /\ phase' \in {"idle", "rhs", "repair"}
      BY <1>1 DEF IInv, TypeOK
    <2> QED BY <2>2, <2>3, <2>4, <2>5, <2>6, <2>7, <2>8, <2>9,
               <1>5, <1>13, <1>15, <1>19 DEF TypeOK
  <1>25. IInv'
    <2>1. DirtyLive'
      BY <1>1 DEF IInv, DirtyLive
    <2>2. QuietOutsideRepair'
      BY <1>1 DEF IInv, QuietOutsideRepair
    <2> QED BY <2>1, <2>2, <1>15, <1>16, <1>17, <1>19, <1>22, <1>23, <1>24 DEF IInv
  <1>26. LivePorts' = LivePorts \ gone
         /\ DOMAIN recipe' \cap Ports = DOMAIN recipe \cap Ports
    BY <1>1, <1>6, <1>8, PortNumbers DEF LivePorts
  <1>27. \A p \in LivePorts \ {j} : recipe'[p] = recipe[p]
    BY <1>8, PortKey
  <1>28. TypedRows'
    <2> SUFFICES ASSUME NEW d \in DOMAIN recipe'
                 PROVE  /\ recipe'[d].table \in IF d \in FactRefs THEN Virtual
                                                ELSE FunTables
                        /\ IsRow(recipe'[d])
      BY DEF TypedRows, IsRow
    <2>1. CASE d = j
      BY <2>1, <1>2, <1>8, <1>9
    <2>2. CASE d \in DOMAIN recipe \ {j}
      BY <2>2, <1>8 DEF TypedRows
    <2>3. CASE d \in built
      BY <2>3, <1>6, <1>8, <1>10 DEF Virtual
    <2> QED BY <2>1, <2>2, <2>3, <1>8
  <1>29. TypedPorts'
    <2> SUFFICES ASSUME NEW p \in LivePorts'
                 PROVE  recipe'[p].value \in Later(recipe'[p].table)
      BY DEF TypedPorts, ValueType
    <2>1. CASE p = j
      BY <2>1, <1>7, <1>8, <1>9
    <2>2. CASE p # j
      <3>1. recipe'[p] = recipe[p] /\ recipe[p].value \in ValueType(recipe[p].table)
        BY <2>2, <1>26, <1>27 DEF TypedPorts
      <3>2. ValueType(recipe[p].table) \subseteq Later(recipe[p].table)
        BY <3>1, <1>5 DEF ValueType
      <3> QED BY <3>1, <3>2
    <2> QED BY <2>1, <2>2
  <1> QED BY <1>1, <1>8, <1>9, <1>25, <1>26, <1>27, <1>28, <1>29
(* set_function() on a held key merges into the port that holds it.         *)
LEMMA SetPortInv ==
    ASSUME PInv, NEW t \in FunTables, NEW key \in KnownKeys(t),
           NEW v \in PortValues(t), SetPort(t, key, v)
    PROVE  PInv'
  <1> DEFINE j == functionKeys[<<t, key>>]
  <1> USE DEF PInv
  <1>1. /\ phase = "rhs" /\ j # 0
        /\ StoreMerged(j, v, {})
        /\ changed' = TRUE
        /\ UNCHANGED <<dirty, nextPort, functionKeys>>
    BY DEF SetPort, portVars
  <1>2. <<t, key>> \in FunKeys
    BY KnownKey DEF FunTables, FunKeys, IInv
  <1>3. /\ j \in LivePorts
        /\ <<recipe[j].table, recipe[j].key>> = <<t, key>>
    BY <1>1, <1>2 DEF TypePorts, DirectoryExact, LivePorts
  <1>4. v \in ValueType(recipe[j].table) /\ (v \in Ids => root[v] = v)
    BY <1>3, ValuesAssumption, KnownIsCanonical DEF PortValues, ValueType, IInv
  <1>5. /\ IInv' /\ TypedRows' /\ TypedPorts'
        /\ root' = root
        /\ LivePorts' = LivePorts
        /\ DOMAIN recipe' \cap Ports = DOMAIN recipe \cap Ports
        /\ \A p \in LivePorts : /\ recipe'[p].table = recipe[p].table
                                /\ recipe'[p].key = recipe[p].key
    <2>1. {} \in SUBSET (LivePorts \ {j}) /\ dirty' = dirty \ {}
          /\ changed' \in BOOLEAN
      BY <1>1
    <2> QED BY <2>1, <1>1, <1>3, <1>4, StoreMergedInv
  <1>6. TypePorts'
    BY <1>1, <1>5 DEF TypePorts, IInv
  <1>7. DirectoryExact'
    <2>1. \A k \in FunKeys : functionKeys[k] # 0 => functionKeys[k] \in LivePorts
      BY DEF DirectoryExact, TypePorts, LivePorts
    <2> QED BY <1>1, <1>5, <2>1 DEF DirectoryExact, LivePorts
  <1>8. CleanPorts'
    BY <1>1, <1>5 DEF CleanPorts, CanonKey, Canon
  <1> QED BY <1>5, <1>6, <1>7, <1>8

(* repair() of a dirty port whose canonical key another port holds: the two *)
(* are merged into the holder.                                              *)
LEMMA MergePortsInv ==
    ASSUME PInv, NEW i \in Ports, MergePorts(i)
    PROVE  PInv'
  <1> DEFINE j == Holder(i)
             old == <<recipe[i].table, recipe[i].key>>
             new == <<recipe[i].table, Row(i).key>>
  <1> USE DEF PInv
  <1>1. /\ NextDirty(i) /\ j \notin {0, i}
        /\ dirty' = dirty \ {i}
        /\ functionKeys' = Released(i)
        /\ StoreMerged(j, Row(i).value, {i})
        /\ changed' = (changed \/ nextFact' # nextFact)
        /\ nextPort' = nextPort
    BY DEF MergePorts
  <1>2. /\ i \in LivePorts /\ i \in dirty
        /\ Row(i).value \in ValueType(recipe[i].table)
        /\ Row(i).value \in Ids => root[Row(i).value] = Row(i).value
        /\ new \in FunKeys
    BY <1>1, DirtyPort
  <1>3. \A k \in FunKeys : Released(i)[k] = IF k = old THEN 0 ELSE functionKeys[k]
    BY <1>2, ReleasedEntry
  <1>4. /\ j \in LivePorts /\ j # i
        /\ <<recipe[j].table, recipe[j].key>> = new
    <2>1. j = functionKeys[new] /\ new # old
      BY <1>1, <1>2, <1>3 DEF Holder
    <2> QED BY <2>1, <1>1, <1>2 DEF TypePorts, DirectoryExact, LivePorts
  <1>5. Row(i).value \in ValueType(recipe[j].table)
    BY <1>2, <1>4
  <1>6. /\ IInv' /\ TypedRows' /\ TypedPorts'
        /\ root' = root
        /\ LivePorts' = LivePorts \ {i}
        /\ DOMAIN recipe' \cap Ports = DOMAIN recipe \cap Ports
        /\ \A p \in LivePorts : /\ recipe'[p].table = recipe[p].table
                                /\ recipe'[p].key = recipe[p].key
    <2>1. {i} \in SUBSET (LivePorts \ {j})
      BY <1>2, <1>4
    <2>2. changed' \in BOOLEAN
      BY <1>1 DEF IInv, TypeOK
    <2> HIDE DEF j
    <2> QED BY <2>1, <2>2, <1>1, <1>2, <1>4, <1>5, StoreMergedInv
  <1>7. TypePorts'
    <2>1. functionKeys' \in [FunKeys -> Ports \cup {0}]
      BY <1>1, <1>3 DEF Released, TypePorts
    <2> QED BY <2>1, <1>1, <1>6 DEF TypePorts, IInv
  <1>8. DirectoryExact'
    <2>1. ASSUME NEW k \in FunKeys, functionKeys'[k] # 0
          PROVE  /\ functionKeys'[k] \in live'
                 /\ k = <<recipe'[functionKeys'[k]].table,
                          recipe'[functionKeys'[k]].key>>
      <3>1. functionKeys'[k] = functionKeys[k] /\ k # old
        BY <2>1, <1>1, <1>3
      <3>2. /\ functionKeys[k] \in LivePorts
            /\ k = <<recipe[functionKeys[k]].table, recipe[functionKeys[k]].key>>
        BY <3>1, <2>1 DEF DirectoryExact, TypePorts, LivePorts
      <3>3. functionKeys[k] # i
        BY <3>1, <3>2
      <3> QED BY <3>1, <3>2, <3>3, <1>6 DEF LivePorts
    <2>2. ASSUME NEW p \in LivePorts'
          PROVE  functionKeys'[<<recipe'[p].table, recipe'[p].key>>] = p
      <3>1. p \in LivePorts /\ p # i
        BY <1>6
      <3>2. /\ <<recipe[p].table, recipe[p].key>> \in FunKeys
            /\ functionKeys[<<recipe[p].table, recipe[p].key>>] = p
            /\ functionKeys[old] = i
        BY <3>1, <1>2, PortKey
      <3> QED BY <3>1, <3>2, <1>1, <1>3, <1>6
    <2> QED BY <2>1, <2>2 DEF DirectoryExact
  <1>9. CleanPorts'
    BY <1>1, <1>6 DEF CleanPorts, CanonKey, Canon
  <1> QED BY <1>6, <1>7, <1>8, <1>9

------------------------------------------------------------------------------
(* Every step keeps it: one case per action of NextPorts.                   *)
LEMMA NextPortsInv == PInv /\ [NextPorts]_allVars => PInv'
  <1> SUFFICES ASSUME PInv, [NextPorts]_allVars PROVE PInv'
    OBVIOUS
  <1>1. CASE Next /\ UNCHANGED portVars
    BY <1>1, FactStepPInv
  <1>2. CASE PortEffect
    <2>1. PICK t \in FunTables : \E key \in KnownKeys(t) :
              \/ \E v \in PortValues(t) : SetNewPort(t, key, v) \/ SetPort(t, key, v)
              \/ DeletePort(t, key)
      BY <1>2 DEF PortEffect
    <2> QED BY <2>1, SetNewPortInv, SetPortInv, DeletePortInv
  <1>3. CASE RepairPort
    BY <1>3, RekeyInv, MergePortsInv DEF RepairPort
  <1>4. CASE UNCHANGED allVars
    <2>1. UNCHANGED vars /\ UNCHANGED <<nextPort, functionKeys>>
      BY <1>4 DEF allVars, portVars
    <2>2. IInv'
      BY <2>1, NextInv DEF PInv
    <2>3. /\ UNCHANGED <<root, dirty, recipe, live, nextFact>>
      BY <2>1 DEF vars, unionVars, rowVars
    <2>4. TypePorts' /\ DirectoryExact'
      BY <2>1, <2>2, <2>3 DEF PInv, TypePorts, DirectoryExact, LivePorts, IInv
    <2>5. CleanPorts'
      BY <2>3 DEF PInv, CleanPorts, LivePorts, CanonKey, Canon
    <2>6. TypedRows' /\ TypedPorts'
      BY <2>3 DEF PInv, TypedRows, TypedPorts, LivePorts, IsRow, ValueType, Made
    <2> QED BY <2>2, <2>4, <2>5, <2>6 DEF PInv
  <1> QED BY <1>1, <1>2, <1>3, <1>4 DEF NextPorts

(* The invariant of the fact graph and of its ports is inductive, so every  *)
(* theorem about IInv's parts also holds of graphs with function tables.    *)
THEOREM PortsInductive == SpecPorts => []PInv
  BY InitPortsInv, NextPortsInv, PTL DEF SpecPorts

(* Every reachable graph with ports is well typed, and exactly the first    *)
(* nextPort port numbers are in use (set_function).                         *)
THEOREM PortsTyped == SpecPorts => []TypePorts
  <1>1. PInv => TypePorts
    BY DEF PInv
  <1> QED BY <1>1, PortsInductive, PTL

(* The key directory and the live ports stay one-to-one whatever is         *)
(* written, merged, rekeyed or deleted, in the middle of repair included.   *)
THEOREM DirectoryOneToOne == SpecPorts => []DirectoryExact
  <1>1. PInv => DirectoryExact
    BY DEF PInv
  <1> QED BY <1>1, PortsInductive, PTL

(* A published graph holds one port per canonical key, stored under it.     *)
THEOREM PublishedPortsCanonical == SpecPorts => []PortsCanonical
  <1>1. PInv => PortsCanonical
    BY DEF PInv, CleanPorts, PortsCanonical, Row
  <1> QED BY <1>1, PortsInductive, PTL

(* Hash-consing and the reverse index survive merges that build rows in the *)
(* middle of a right-hand side or of repair (merge_value).                  *)
THEOREM HashConsingWithPorts == SpecPorts => [](UsesExact /\ UsesComplete /\ CleanUnique)
  <1>1. PInv => UsesExact /\ CleanUnique
    BY DEF PInv, IInv
  <1>2. PInv => UsesComplete
    <2> SUFFICES ASSUME PInv, NEW d \in live, NEW n \in Refs(Row(d))
                 PROVE  d \in uses[n]
      BY DEF UsesComplete
    <2>1. d \in DOMAIN recipe /\ n \in Ids
      BY DEF PInv, IInv, TypeOK, Refs
    <2> QED BY <2>1, ListedWhereMentioned, RefsOfRow DEF PInv, IInv
  <1> QED BY <1>1, <1>2, PortsInductive, PTL

------------------------------------------------------------------------------
(* THE HISTORY OF A RUN: what a published graph owes to the Run that led to *)
(* it.                                                                      *)

(* While nothing changed in this Run, nothing is dirty and the rows are the *)
(* ones the Run began with.                                                 *)
NothingChanged == ~changed => dirty = {} /\ Export = before

(* A row the matcher may have to see again.                                 *)
Fresh(d) == d \notin DOMAIN before \/ before[d] # <<Row(d), d \in hidden>>

(* In the middle of a Run a fresh row is an event already or is still       *)
(* dirty.                                                                   *)
FreshAreEvents ==
    \A d \in live \ dirty : Fresh(d) => d \in events /\ stamp[d] = epoch

------------------------------------------------------------------------------
(* A step of the history is a step of the ports, or leaves them alone.      *)
LEMMA HistoryIsPorts == NextHistory => [NextPorts]_allVars
  <1> SUFFICES ASSUME NextHistory PROVE [NextPorts]_allVars
    OBVIOUS
  <1>1. CASE BeginRun /\ UNCHANGED portVars
    BY <1>1 DEF NextPorts, Next
  <1>2. CASE (Effect \/ BeginRepair \/ RepairStep) /\ UNCHANGED portVars
    BY <1>2 DEF NextPorts, Next
  <1>3. CASE \E t \in FunTables \cap RuleTables : \E key \in KnownKeys(t) :
                \E v \in PortValues(t) : WritePort(t, key, v)
    BY <1>3 DEF WritePort, NextPorts, PortEffect
  <1>4. CASE \E t \in FunTables \cap RuleTables : \E key \in KnownKeys(t) :
                DeletePort(t, key)
    BY <1>4 DEF NextPorts, PortEffect
  <1>5. CASE RepairPort
    BY <1>5 DEF NextPorts
  <1> QED BY <1>1, <1>2, <1>3, <1>4, <1>5 DEF NextHistory

(* So what is proved of the ports holds of a graph with its history too.    *)
LEMMA HistoryPorts == SpecHistory => []PInv
  <1>1. InitHistory => PInv
    BY InitPortsInv DEF InitHistory
  <1>2. PInv /\ [NextHistory]_<<allVars, history>> => PInv'
    BY HistoryIsPorts, NextPortsInv
  <1> QED BY <1>1, <1>2, PTL DEF SpecHistory

(* The exported rows depend on the rows, the classes and the subsumptions   *)
(* only.                                                                    *)
LEMMA SameExport ==
    ASSUME UNCHANGED <<root, recipe, live, hidden>>
    PROVE  Export' = Export
  BY DEF Export, Row, CanonKey, Canon

(* Everything that changes a row or makes one dirty says so.                *)
LEMMA NothingChangedNext ==
    ASSUME PInv, NothingChanged, [NextHistory]_<<allVars, history>>
    PROVE  NothingChanged'
  <1> DEFINE Same == UNCHANGED <<root, recipe, live, hidden, dirty>>
  <1>1. CASE Same /\ changed' = changed /\ before' = before
    BY <1>1, SameExport DEF NothingChanged
  <1>2. CASE changed' = TRUE
    BY <1>2 DEF NothingChanged
  <1>3. CASE BeginRun /\ before' = Export
    <2>1. Same
      BY <1>3 DEF BeginRun, unionVars
    <2>2. dirty = {}
      BY <1>3 DEF BeginRun, PInv, IInv, QuietOutsideRepair
    <2> QED BY <1>3, <2>1, <2>2, SameExport DEF NothingChanged
  <1>4. ASSUME NEW t, NEW key, NEW v, NEW hide, Activate(t, key, v, hide)
        PROVE  changed' = TRUE
    BY <1>4 DEF Activate
  <1>5. ASSUME NEW a, NEW b, RequestUnion(a, b)
        PROVE  Same /\ changed' = changed
    BY <1>5 DEF RequestUnion, rowVars
  <1>6. CASE Effect /\ before' = before
    <2>1. changed' = TRUE \/ (Same /\ changed' = changed)
      BY <1>4, <1>5, <1>6
      DEF Effect, Construct, SubsumeFresh, Subsume, Delete, SetFact, SetExisting
    <2> QED BY <2>1, <1>1, <1>2, <1>6
  <1>7. CASE BeginRepair /\ before' = before
    BY <1>1, <1>7 DEF BeginRepair, unionVars, rowVars
  <1>8. CASE dirty # {} /\ (changed => changed')
    BY <1>8 DEF NothingChanged
  <1>9. CASE RepairStep /\ before' = before
    <2>1. CASE ApplyUnion
      BY <1>1, <1>2, <1>9, <2>1 DEF ApplyUnion, LinkRoots
    <2>2. CASE \E f \in FactRefs : RepairFact(f)
      BY <1>8, <2>2 DEF RepairFact, NextDirty, First
    <2>3. CASE Publish
      BY <1>1, <1>9, <2>3 DEF Publish, unionVars, rowVars
    <2> QED BY <1>9, <2>1, <2>2, <2>3 DEF RepairStep
  <1>10. CASE before' = before /\ \E t \in FunTables : \E key \in KnownKeys(t) :
                \E v \in PortValues(t) : WritePort(t, key, v)
    <2>1. PICK t \in FunTables : \E key \in KnownKeys(t) :
            \E v \in PortValues(t) : WritePort(t, key, v)
      BY <1>10
    <2> PICK key \in KnownKeys(t), v \in PortValues(t) : WritePort(t, key, v)
      BY <2>1
    <2>2. CASE SetNewPort(t, key, v)
      BY <1>2, <2>2 DEF SetNewPort
    <2>3. CASE SetPort(t, key, v)
      BY <1>2, <2>3 DEF SetPort
    <2>4. CASE UNCHANGED allVars
      BY <1>1, <1>10, <2>4 DEF allVars, vars, unionVars, rowVars
    <2> QED BY <2>2, <2>3, <2>4 DEF WritePort
  <1>11. CASE \E t \in FunTables : \E key \in KnownKeys(t) : DeletePort(t, key)
    BY <1>2, <1>11 DEF DeletePort
  <1>12. CASE RepairPort
    <2>1. PICK i \in Ports : Rekey(i) \/ MergePorts(i)
      BY <1>12 DEF RepairPort
    <2>2. NextDirty(i) /\ (changed => changed')
      <3>1. CASE Rekey(i)
        BY <3>1 DEF Rekey
      <3>2. CASE MergePorts(i)
        BY <3>2, Zenon DEF MergePorts
      <3> QED BY <2>1, <3>1, <3>2
    <2>3. dirty # {}
      BY <2>2 DEF NextDirty, First
    <2> QED BY <1>8, <2>2, <2>3
  <1>13. CASE UNCHANGED <<allVars, history>>
    BY <1>1, <1>13 DEF allVars, vars, unionVars, rowVars, history
  <1> QED BY <1>3, <1>6, <1>7, <1>9, <1>10, <1>11, <1>12, <1>13 DEF NextHistory

(* `changed` is sound: a Run that reports no change published exactly the   *)
(* rows it started from (Task::Saturate, Graph::changed).                   *)
THEOREM ChangedSound == SpecHistory => []ChangedIsSound
  <1>1. InitHistory => NothingChanged
    BY DEF InitHistory, InitPorts, Init, NothingChanged
  <1>2. NothingChanged => ChangedIsSound
    BY DEF NothingChanged, ChangedIsSound
  <1> QED BY <1>1, <1>2, HistoryPorts, NothingChangedNext, PTL DEF SpecHistory
------------------------------------------------------------------------------
(* A step that touches the rows in T only, each of them an event stamped    *)
(* with this Run's epoch, keeps FreshAreEvents.                             *)
LEMMA TouchedAreEvents ==
    ASSUME FreshAreEvents, UNCHANGED <<root, epoch, before>>, NEW T,
           \A d \in live' \ T : /\ d \in live /\ (d \in dirty => d \in dirty')
                                /\ recipe'[d] = recipe[d]
                                /\ d \in hidden' <=> d \in hidden
                                /\ stamp'[d] = stamp[d],
           events \subseteq events',
           \A d \in T \cap live' : d \in events' /\ stamp'[d] = epoch
    PROVE  FreshAreEvents'
  <1> SUFFICES ASSUME NEW d \in live' \ dirty',
                      d \notin DOMAIN before
                        \/ before[d] # <<Row(d)', d \in hidden'>>
               PROVE  d \in events' /\ stamp'[d] = epoch
    BY DEF FreshAreEvents, Fresh
  <1>1. CASE d \in T
    BY <1>1
  <1>2. CASE d \notin T
    <2>1. Row(d)' = Row(d)
      BY <1>2 DEF Row, CanonKey, Canon
    <2>2. (d \in hidden') = (d \in hidden)
      BY <1>2
    <2>3. <<Row(d)', d \in hidden'>> = <<Row(d), d \in hidden>>
      BY <2>1, <2>2
    <2>4. Fresh(d)
      BY <2>3 DEF Fresh
    <2> QED BY <1>2, <2>4 DEF FreshAreEvents
  <1> QED BY <1>1, <1>2

(* A new fact is an event (activate).                                       *)
LEMMA ActivateIsEvent ==
    ASSUME PInv, FreshAreEvents, before' = before,
           NEW t, NEW key, NEW v, NEW hide, Activate(t, key, v, hide)
    PROVE  FreshAreEvents'
  <1> PICK f : f = nextFact + 1
    OBVIOUS
  <1>1. /\ nextFact < MaxFact
        /\ recipe' = Put(recipe, f, [table |-> t, key |-> key, value |-> v])
        /\ live' = live \cup {f}
        /\ hidden' = hidden \/ hidden' = hidden \cup {f}
        /\ stamp' = [stamp EXCEPT ![f] = epoch]
        /\ events' = events \cup {f}
        /\ UNCHANGED <<root, dirty, epoch>>
    BY Zenon DEF Activate, unionVars
  <1>2. f \in Dependency
    BY <1>1, BoundsAssumption DEF PInv, IInv, TypeOK, Dependency, FactRefs
  <1>3. /\ stamp'[f] = epoch
        /\ \A d \in live \ {f} : d \in DOMAIN recipe /\ stamp'[d] = stamp[d]
                                 /\ recipe'[d] = recipe[d]
    <2>1. /\ live \subseteq DOMAIN recipe /\ DOMAIN recipe \subseteq Dependency
          /\ stamp = [d \in Dependency |-> stamp[d]]
      BY DEF PInv, IInv, TypeOK
    <2>2. stamp'[f] = epoch /\ \A d \in Dependency \ {f} : stamp'[d] = stamp[d]
      BY <1>1, <1>2, <2>1
    <2>3. \A d \in DOMAIN recipe \ {f} : recipe'[d] = recipe[d]
      BY <1>1 DEF Put
    <2>4. ASSUME NEW d \in live \ {f}
          PROVE  d \in DOMAIN recipe /\ stamp'[d] = stamp[d] /\ recipe'[d] = recipe[d]
      <3>1. d \in DOMAIN recipe \ {f} /\ d \in Dependency \ {f}
        BY <2>1
      <3> QED BY <3>1, <2>2, <2>3
    <2> QED BY <2>2, <2>4
  <1>4. \A d \in live' \ {f} :
          /\ d \in live /\ (d \in dirty => d \in dirty')
          /\ recipe'[d] = recipe[d]
          /\ d \in hidden' <=> d \in hidden
          /\ stamp'[d] = stamp[d]
    <2>1. \A d \in live' \ {f} : d \in live \ {f}
      BY <1>1
    <2>2. \A d : d # f => (d \in hidden' <=> d \in hidden)
      BY <1>1
    <2> QED BY <2>1, <2>2, <1>1, <1>3
  <1>5. /\ events \subseteq events'
        /\ \A d \in {f} \cap live' : d \in events' /\ stamp'[d] = epoch
    BY <1>1, <1>3
  <1>6. UNCHANGED <<root, epoch, before>>
    BY <1>1
  <1> QED BY <1>4, <1>5, <1>6, TouchedAreEvents

(* A union changes only rows it makes dirty (union, mark_affected).         *)
LEMMA LinkIsEvent ==
    ASSUME PInv, FreshAreEvents, before' = before,
           NEW lo \in Made, NEW hi \in Made, LinkRoots(lo, hi),
           UNCHANGED <<recipe, live, hidden, stamp, events, epoch>>
    PROVE  FreshAreEvents'
  <1> SUFFICES ASSUME NEW d \in live \ dirty',
                      d \notin DOMAIN before
                        \/ before[d] # <<Row(d)', d \in hidden>>
               PROVE  d \in events /\ stamp[d] = epoch
    BY DEF FreshAreEvents, Fresh
  <1>1. Row(d)' = Row(d)
    BY LinkKeepsClean DEF PInv
  <1>2. d \notin dirty
    BY DEF LinkRoots
  <1> QED BY <1>1, <1>2 DEF FreshAreEvents, Fresh

(* The row a repair of f leaves is an event: f itself, or its owner.        *)
LEMMA RepairIsEvent ==
    ASSUME PInv, FreshAreEvents, before' = before,
           NEW f \in FactRefs, RepairFact(f)
    PROVE  FreshAreEvents'
  <1>1. /\ UNCHANGED <<root, recipe, epoch>> /\ dirty' = dirty \ {f}
        /\ f \in dirty /\ f \in Dependency
    BY DEF RepairFact, NextDirty, First, Dependency
  <1>2. CASE Reindex(f)
    <2>1. /\ stamp' = [stamp EXCEPT ![f] = epoch] /\ events' = events \cup {f}
          /\ live' = live /\ hidden' = hidden
      BY <1>2 DEF Reindex
    <2>2. stamp'[f] = epoch /\ \A d \in live \ {f} : stamp'[d] = stamp[d]
      BY <1>1, <2>1 DEF PInv, IInv, TypeOK
    <2>3. \A d \in live' \ {f} : /\ d \in live /\ (d \in dirty => d \in dirty')
                                 /\ recipe'[d] = recipe[d]
                                 /\ d \in hidden' <=> d \in hidden
                                 /\ stamp'[d] = stamp[d]
      BY <1>1, <2>1, <2>2
    <2>4. \A d \in {f} \cap live' : d \in events' /\ stamp'[d] = epoch
      BY <2>1, <2>2
    <2>5. events \subseteq events' /\ UNCHANGED <<root, epoch, before>>
      BY <1>1, <2>1
    <2> QED BY <2>3, <2>4, <2>5, TouchedAreEvents
  <1>3. ASSUME NEW g \in FactRefs, Collapse(f, g)
        PROVE  FreshAreEvents'
    <2>1. /\ stamp' = [stamp EXCEPT ![g] = epoch] /\ events' = events \cup {g}
          /\ live' = live \ {f}
          /\ hidden' = (hidden \ {f}) \cup {x \in {g} : f \in hidden}
      BY <1>3 DEF Collapse
    <2>2. stamp'[g] = epoch /\ \A d \in live \ {g} : stamp'[d] = stamp[d]
      BY <2>1 DEF PInv, IInv, TypeOK, Dependency
    <2>3. \A d \in live' \ {g} : /\ d \in live /\ (d \in dirty => d \in dirty')
                                 /\ recipe'[d] = recipe[d]
                                 /\ d \in hidden' <=> d \in hidden
                                 /\ stamp'[d] = stamp[d]
      BY <1>1, <2>1, <2>2
    <2>4. \A d \in {g} \cap live' : d \in events' /\ stamp'[d] = epoch
      BY <2>1, <2>2
    <2>5. events \subseteq events' /\ UNCHANGED <<root, epoch, before>>
      BY <1>1, <2>1
    <2> QED BY <2>3, <2>4, <2>5, TouchedAreEvents
  <1> QED BY <1>2, <1>3 DEF RepairFact

(* A merged port and the fact its merge built are events.                   *)
LEMMA StoreMergedIsEvent ==
    ASSUME PInv, FreshAreEvents, UNCHANGED <<before>>,
           NEW j \in LivePorts, NEW new, NEW gone,
           StoreMerged(j, new, gone), dirty \ gone = dirty'
    PROVE  FreshAreEvents'
  <1> DEFINE built == {f \in {nextFact + 1} : Builds(recipe[j].table, Row(j).value, new)}
  <1>1. /\ built # {} => nextFact < MaxFact
        /\ DOMAIN recipe' = DOMAIN recipe \cup built
        /\ \A d \in (DOMAIN recipe \cup built) \ (built \cup {j}) :
              recipe'[d] = recipe[d]
        /\ live' = (live \cup built) \ gone
        /\ stamp' = [d \in Dependency |->
                        IF d \in built \cup {j} THEN epoch ELSE stamp[d]]
        /\ events' = events \cup built \cup {j}
        /\ UNCHANGED <<root, hidden, epoch>>
    BY DEF StoreMerged
  <1>2. built \subseteq Dependency /\ j \in Dependency
        /\ live \subseteq DOMAIN recipe /\ live \subseteq Dependency
    <2>1. built # {} => nextFact + 1 \in FactRefs
      BY <1>1, BoundsAssumption DEF PInv, IInv, TypeOK, FactRefs
    <2>2. built \subseteq FactRefs
      BY <2>1
    <2> QED BY <2>2, PortKey DEF PInv, IInv, TypeOK, Dependency
  <1> HIDE DEF built
  <1>3. /\ \A d \in built \cup {j} : stamp'[d] = epoch
        /\ \A d \in live \ (built \cup {j}) : stamp'[d] = stamp[d]
    BY <1>1, <1>2
  <1> QED BY <1>1, <1>2, <1>3, TouchedAreEvents
(* Every step keeps the changed rows among those to be delivered.           *)
LEMMA FreshAreEventsNext ==
    ASSUME PInv, FreshAreEvents, [NextHistory]_<<allVars, history>>
    PROVE  FreshAreEvents'
  <1> DEFINE Same == UNCHANGED <<root, recipe, live, hidden, dirty, stamp,
                                 events, epoch, before>>
  <1>1. CASE Same
    BY <1>1 DEF FreshAreEvents, Fresh, Row, CanonKey, Canon
  <1>2. CASE BeginRun /\ before' = Export
    <2>1. live' = live /\ hidden' = hidden /\ UNCHANGED <<root, recipe>>
      BY <1>2 DEF BeginRun, unionVars
    <2>2. before' = Export'
      BY <1>2, <2>1, SameExport
    <2>3. \A d \in live' : d \in DOMAIN before'
                           /\ before'[d] = <<Row(d)', d \in hidden'>>
      BY <2>2 DEF Export
    <2> QED BY <2>3 DEF FreshAreEvents, Fresh
  <1>3. ASSUME NEW f \in FactRefs, f \in live, UNCHANGED <<root, recipe, dirty, epoch, before>>,
               live' = live, hidden' = hidden \cup {f},
               stamp' = [stamp EXCEPT ![f] = epoch], events' = events \cup {f}
        PROVE  FreshAreEvents'
    <2>1. stamp'[f] = epoch /\ \A d \in live \ {f} : stamp'[d] = stamp[d]
      BY <1>3 DEF PInv, IInv, TypeOK, Dependency
    <2>2. \A d \in live' \ {f} : /\ d \in live /\ (d \in dirty => d \in dirty')
                                 /\ recipe'[d] = recipe[d]
                                 /\ d \in hidden' <=> d \in hidden
                                 /\ stamp'[d] = stamp[d]
      BY <1>3, <2>1
    <2>3. \A d \in {f} \cap live' : d \in events' /\ stamp'[d] = epoch
      BY <1>3, <2>1
    <2>4. events \subseteq events' /\ UNCHANGED <<root, epoch, before>>
      BY <1>3
    <2> QED BY <2>2, <2>3, <2>4, TouchedAreEvents
  <1>4. ASSUME NEW f, UNCHANGED <<root, recipe, dirty, epoch, before, stamp, events>>,
               live' = live \ {f}, hidden' \ {f} = hidden \ {f}
        PROVE  FreshAreEvents'
    <2>1. \A d \in live' \ {f} : /\ d \in live /\ (d \in dirty => d \in dirty')
                                 /\ recipe'[d] = recipe[d]
                                 /\ d \in hidden' <=> d \in hidden
                                 /\ stamp'[d] = stamp[d]
      BY <1>4
    <2>2. \A d \in {f} \cap live' : d \in events' /\ stamp'[d] = epoch
      BY <1>4
    <2>3. events \subseteq events' /\ UNCHANGED <<root, epoch, before>>
      BY <1>4
    <2> QED BY <2>1, <2>2, <2>3, TouchedAreEvents
  <1>5. CASE Effect /\ before' = before
    <2>1. ASSUME NEW t, NEW key, Subsume(t, key)
          PROVE  FreshAreEvents'
      <3>1. PICK f \in FactRefs : /\ First(f, Matching(t, key))
                                  /\ hidden' = hidden \cup {f}
                                  /\ stamp' = [stamp EXCEPT ![f] = epoch]
                                  /\ events' = events \cup {f}
        BY <2>1 DEF Subsume
      <3>2. f \in live
        BY <3>1 DEF First, Matching
      <3>3. UNCHANGED <<root, recipe, dirty, live, epoch>>
        BY <2>1 DEF Subsume, unionVars
      <3> QED BY <1>3, <1>5, <3>1, <3>2, <3>3
    <2>2. ASSUME NEW t, NEW key, Delete(t, key)
          PROVE  FreshAreEvents'
      <3>1. PICK f : live' = live \ {f} /\ hidden' = hidden \ {f}
        BY <2>2 DEF Delete
      <3>2. UNCHANGED <<root, recipe, dirty, epoch, stamp, events>>
        BY <2>2 DEF Delete, unionVars
      <3> QED BY <1>4, <1>5, <3>1, <3>2
    <2>3. ASSUME NEW t, NEW key, NEW v, NEW hide, Activate(t, key, v, hide)
          PROVE  FreshAreEvents'
      BY <1>5, <2>3, ActivateIsEvent
    <2>4. ASSUME NEW a, NEW b, RequestUnion(a, b)
          PROVE  FreshAreEvents'
      BY <1>1, <1>5, <2>4 DEF RequestUnion, rowVars
    <2> QED BY <1>5, <2>1, <2>2, <2>3, <2>4
            DEF Effect, Construct, SubsumeFresh, SetFact, SetExisting
  <1>6. CASE (BeginRepair \/ Publish) /\ before' = before
    BY <1>1, <1>6 DEF BeginRepair, Publish, unionVars, rowVars
  <1>7. CASE ApplyUnion /\ before' = before
    <2>1. /\ pending \in Seq(Made \X Made) /\ pending # <<>>
          /\ UNCHANGED <<recipe, live, hidden, stamp, events, epoch>>
      BY <1>7 DEF ApplyUnion, PInv, IInv, TypeOK
    <2>2. Head(pending) \in Made \X Made
      BY <2>1, HeadTailProperties
    <2>3. root[Head(pending)[1]] \in Made /\ root[Head(pending)[2]] \in Made
      BY <2>2, RootOfMade DEF PInv, IInv
    <2>4. CASE UNCHANGED <<root, dirty>>
      BY <1>1, <1>7, <2>1, <2>4
    <2>5. CASE \E lo, hi \in Made : LinkRoots(lo, hi)
      BY <1>7, <2>1, <2>5, LinkIsEvent
    <2> QED BY <1>7, <2>3, <2>4, <2>5 DEF ApplyUnion
  <1>8. CASE (\E f \in FactRefs : RepairFact(f)) /\ before' = before
    BY <1>8, RepairIsEvent
  <1>9. ASSUME NEW t \in FunTables, NEW key \in KnownKeys(t),
               NEW v \in PortValues(t), WritePort(t, key, v), before' = before
        PROVE  FreshAreEvents'
    <2>1. CASE SetNewPort(t, key, v)
      <3> DEFINE i == MaxFact + nextPort + 1
      <3>1. /\ nextPort < NumPorts
            /\ recipe' = Put(recipe, i, [table |-> t, key |-> key, value |-> v])
            /\ live' = live \cup {i}
            /\ stamp' = [stamp EXCEPT ![i] = epoch]
            /\ events' = events \cup {i}
            /\ UNCHANGED <<root, dirty, hidden, epoch>>
        BY <2>1 DEF SetNewPort, unionVars
      <3>2. i \in Dependency
        BY <3>1, BoundsAssumption DEF PInv, TypePorts, Dependency, Ports
      <3>3. stamp'[i] = epoch /\ \A d \in live \ {i} : stamp'[d] = stamp[d]
        BY <3>1, <3>2 DEF PInv, IInv, TypeOK
      <3>4. \A d \in live' \ {i} : /\ d \in live /\ (d \in dirty => d \in dirty')
                                   /\ recipe'[d] = recipe[d]
                                   /\ d \in hidden' <=> d \in hidden
                                   /\ stamp'[d] = stamp[d]
        BY <3>1, <3>3 DEF Put, PInv, IInv, TypeOK
      <3>5. \A d \in {i} \cap live' : d \in events' /\ stamp'[d] = epoch
        BY <3>1, <3>3
      <3>6. events \subseteq events' /\ UNCHANGED <<root, epoch, before>>
        BY <1>9, <3>1
      <3> HIDE DEF i
      <3> QED BY <3>4, <3>5, <3>6, TouchedAreEvents
    <2>2. CASE SetPort(t, key, v)
      <3> DEFINE j == functionKeys[<<t, key>>]
      <3>1. j # 0 /\ StoreMerged(j, v, {}) /\ dirty \ {} = dirty'
        BY <2>2 DEF SetPort
      <3>2. <<t, key>> \in FunKeys
        BY KnownKey DEF FunTables, FunKeys, PInv, IInv
      <3>3. j \in LivePorts
        BY <3>1, <3>2 DEF PInv, TypePorts, DirectoryExact, LivePorts
      <3> QED BY <1>9, <3>1, <3>3, StoreMergedIsEvent
    <2>3. CASE UNCHANGED allVars
      BY <1>1, <1>9, <2>3 DEF allVars, vars, unionVars, rowVars
    <2> QED BY <1>9, <2>1, <2>2, <2>3 DEF WritePort
  <1>10. ASSUME NEW t \in FunTables, NEW key \in KnownKeys(t),
                DeletePort(t, key), before' = before
         PROVE  FreshAreEvents'
    <2>1. PICK i : live' = live \ {i}
      BY <1>10 DEF DeletePort
    <2>2. UNCHANGED <<root, dirty, recipe, hidden, stamp, events, epoch>>
      BY <1>10 DEF DeletePort, unionVars
    <2> QED BY <1>4, <1>10, <2>1, <2>2
  <1>11. ASSUME NEW i \in Ports, Rekey(i), before' = before
         PROVE  FreshAreEvents'
    <2>1. /\ dirty' = dirty \ {i}
          /\ recipe' = [recipe EXCEPT ![i] = Row(i)]
          /\ stamp' = [stamp EXCEPT ![i] = epoch]
          /\ events' = events \cup {i}
          /\ UNCHANGED <<root, live, hidden, epoch>>
      BY <1>11 DEF Rekey
    <2>2. stamp'[i] = epoch /\ \A d \in live \ {i} : stamp'[d] = stamp[d]
      BY <2>1, PortNumbers DEF PInv, IInv, TypeOK
    <2>3. \A d \in live' \ {i} : /\ d \in live /\ (d \in dirty => d \in dirty')
                                 /\ recipe'[d] = recipe[d]
                                 /\ d \in hidden' <=> d \in hidden
                                 /\ stamp'[d] = stamp[d]
      BY <2>1, <2>2 DEF PInv, IInv, TypeOK
    <2>4. \A d \in {i} \cap live' : d \in events' /\ stamp'[d] = epoch
      BY <2>1, <2>2
    <2>5. events \subseteq events' /\ UNCHANGED <<root, epoch, before>>
      BY <1>11, <2>1
    <2> QED BY <2>3, <2>4, <2>5, TouchedAreEvents
  <1>12. ASSUME NEW i \in Ports, MergePorts(i), before' = before
         PROVE  FreshAreEvents'
    <2> DEFINE j == Holder(i)
    <2>1. /\ NextDirty(i) /\ j \notin {0, i} /\ dirty \ {i} = dirty'
          /\ StoreMerged(j, Row(i).value, {i})
      BY <1>12 DEF MergePorts
    <2>2. i \in LivePorts /\ <<recipe[i].table, Row(i).key>> \in FunKeys
      BY <2>1, DirtyPort
    <2>3. j = functionKeys[<<recipe[i].table, Row(i).key>>]
      BY <2>1, <2>2, ReleasedEntry DEF Holder
    <2>4. j \in LivePorts
      BY <2>1, <2>2, <2>3 DEF PInv, TypePorts, DirectoryExact, LivePorts
    <2> HIDE DEF j
    <2> QED BY <1>12, <2>1, <2>4, StoreMergedIsEvent
  <1>13. CASE UNCHANGED <<allVars, history>>
    BY <1>1, <1>13 DEF allVars, vars, unionVars, rowVars, history
  <1> QED BY <1>2, <1>5, <1>6, <1>7, <1>8, <1>9, <1>10, <1>11, <1>12, <1>13
          DEF NextHistory, RepairStep, RepairPort

(* Semi-naive evaluation loses nothing: every row that is new or changed    *)
(* since the Run began is an event of this Run (deliver, repair, hide,      *)
(* set_function).                                                           *)
THEOREM DeltaIsComplete == SpecHistory => []DeltaComplete
  <1>1. InitHistory => FreshAreEvents
    BY DEF InitHistory, InitPorts, Init, FreshAreEvents
  <1>2. PInv /\ FreshAreEvents => DeltaComplete
    BY DEF PInv, IInv, QuietOutsideRepair, FreshAreEvents, Fresh, DeltaComplete
  <1> QED BY <1>1, <1>2, HistoryPorts, FreshAreEventsNext, PTL DEF SpecHistory
------------------------------------------------------------------------------
(* The refinement: what is owed when the graph is seen as an EGraph.        *)
(* The pairs EGraph may merge, read off the facts that are kept.            *)
Reasons == asked \cup
    {<<recipe[p[1]].value, recipe[p[2]].value>> :
        p \in {q \in kept \X kept : /\ recipe[q[1]].table \in Constructors
                                    /\ SameKey(q[1], q[2])}}

KeptFacts == /\ kept \subseteq DOMAIN recipe \cap FactRefs
             /\ live \cap FactRefs \subseteq kept

(* Every request is owed.                                                   *)
AskedOwed == /\ asked \subseteq Ids \X Ids
             /\ \A p \in asked : Owed(p[1], p[2])

(* Every fact whose key was not deleted, retired duplicates included, has a *)
(* live heir.                                                               *)
Heirs == \A f \in kept : \E g \in live \cap FactRefs : Heir(f, g)

(* A union repair has still to carry out was requested, or is a congruence. *)
PendingForced ==
    \A n \in DOMAIN pending :
        IF phase # "repair" THEN pending[n] \in asked
        ELSE \E q \in Reasons : /\ root[q[1]] = root[pending[n][1]]
                                /\ root[q[2]] = root[pending[n][2]]

HInv == KeptFacts /\ AskedOwed /\ Heirs /\ PendingForced

------------------------------------------------------------------------------
(* Keys are compared the same way in the graph and in EGraph.               *)
LEMMA SameKeyIsSameKey ==
    ASSUME TypeOK, NEW f \in DOMAIN recipe, NEW g \in DOMAIN recipe
    PROVE  Abstract!SameKey(recipe[f], recipe[g]) <=> SameKey(f, g)
  <1>1. ASSUME NEW d \in DOMAIN recipe
        PROVE  /\ recipe[d].key \in [1..Arity[recipe[d].table] -> Made]
               /\ CanonKey(recipe[d].key) = [i \in 1..Arity[recipe[d].table] |->
                                               root[recipe[d].key[i]]]
    <2>1. recipe[d].key \in [1..Arity[recipe[d].table] -> Made]
      BY DEF TypeOK
    <2>2. Made \subseteq Ids
      BY Numbering DEF TypeOK, Made
    <2> QED BY <2>1, <2>2 DEF CanonKey, Canon
  <1>2. DOMAIN recipe[f].key = 1..Arity[recipe[f].table]
    BY <1>1
  <1>3. CASE recipe[f].table # recipe[g].table
    BY <1>3 DEF Abstract!SameKey, SameKey
  <1>4. CASE recipe[f].table = recipe[g].table
    <2> DEFINE n == Arity[recipe[f].table]
    <2>1. SameKey(f, g) <=> [i \in 1..n |-> root[recipe[f].key[i]]]
                             = [i \in 1..n |-> root[recipe[g].key[i]]]
      BY <1>1, <1>4 DEF SameKey
    <2>2. Abstract!SameKey(recipe[f], recipe[g])
            <=> \A i \in 1..n : root[recipe[f].key[i]] = root[recipe[g].key[i]]
      BY <1>2, <1>4 DEF Abstract!SameKey
    <2> HIDE DEF n
    <2> QED BY <2>1, <2>2
  <1> QED BY <1>3, <1>4

(* Heirs survive a step if keys that were equal stay equal, promises are    *)
(* kept, and the heirs the step retires have heirs of their own.            *)
LEMMA HeirsNext ==
    ASSUME KeptFacts, Heirs,
           \A f \in kept : recipe'[f] = recipe[f],
           \A f, g \in kept : SameKey(f, g) => SameKey(f, g)',
           \A c \in [Ids -> Ids] : Agrees(c)' => Agrees(c),
           kept' \subseteq kept \cup (live' \cap FactRefs),
           \A f \in kept \cap kept' : \A g \in live \cap FactRefs :
              SameKey(f, g) => \E h \in live' \cap FactRefs : Heir(g, h)'
    PROVE  Heirs'
  <1> SUFFICES ASSUME NEW f \in kept'
               PROVE  \E h \in live' \cap FactRefs : Heir(f, h)'
    BY DEF Heirs
  <1>1. CASE f \in live' \cap FactRefs
    BY <1>1 DEF Heir, SameKey, Owed
  <1>2. CASE f \in kept
    <2>1. PICK g \in live \cap FactRefs : Heir(f, g)
      BY <1>2 DEF Heirs
    <2>2. PICK h \in live' \cap FactRefs : Heir(g, h)'
      BY <1>2, <2>1 DEF Heir
    <2>3. g \in kept /\ recipe'[f] = recipe[f] /\ recipe'[g] = recipe[g]
      BY <1>2 DEF KeptFacts
    <2>4. SameKey(f, g)' /\ SameKey(g, h)'
      BY <1>2, <2>1, <2>2, <2>3 DEF Heir
    <2>5. SameKey(f, h)'
      BY <2>4 DEF SameKey
    <2>6. ASSUME recipe'[f].table \in Constructors
          PROVE  Owed(recipe[f].value, recipe[h].value)'
      <3>1. Owed(recipe[f].value, recipe[g].value)
        BY <2>1, <2>3, <2>6 DEF Heir
      <3>2. \A c \in [Ids -> Ids] : Agrees(c)' => c[recipe'[f].value] = c[recipe'[g].value]
        BY <2>3, <3>1 DEF Owed
      <3>3. Owed(recipe[g].value, recipe[h].value)'
        BY <2>2, <2>4, <2>6 DEF Heir, SameKey
      <3> QED BY <3>2, <3>3 DEF Owed
    <2> QED BY <2>5, <2>6 DEF Heir
  <1> QED BY <1>1, <1>2
(* Nothing EGraph sees has changed.                                         *)
QuietFacts ==
    /\ UNCHANGED <<root, pending, asked, kept>>
    /\ live' \cap FactRefs = live \cap FactRefs
    /\ \A f \in DOMAIN recipe \cap FactRefs :
          f \in DOMAIN recipe' /\ recipe'[f] = recipe[f]

(* One fact was added under a key that lookup() did not find.               *)
AddsFact(t, key, v) ==
    LET f == nextFact + 1
    IN  /\ nextFact < MaxFact
        /\ t \in Virtual /\ key \in Keys(t) /\ CanonKey(key) = key
        /\ v \in Values
        /\ Matching(t, key) = {}
        /\ f \in DOMAIN recipe'
        /\ recipe'[f] = [table |-> t, key |-> key, value |-> v]
        /\ live' \cap FactRefs = (live \cap FactRefs) \cup {f}
        /\ \A g \in DOMAIN recipe \cap FactRefs :
              g \in DOMAIN recipe' /\ recipe'[g] = recipe[g]
        /\ UNCHANGED <<root, pending>>

(* A step that leaves the rows and the classes as they are.                 *)
LEMMA QuietStep ==
    ASSUME PInv, HInv, QuietFacts,
           phase' = phase \/ (phase = "rhs" /\ phase' = "repair")
    PROVE  HInv' /\ UNCHANGED Abstract!vars
  <1> USE DEF HInv
  <1>1. \A f \in kept : recipe'[f] = recipe[f] /\ f \in DOMAIN recipe'
    BY DEF QuietFacts, KeptFacts
  <1>2. \A c \in [Ids -> Ids] : Agrees(c)' => Agrees(c)
    BY DEF QuietFacts, Agrees
  <1>3. KeptFacts'
    BY <1>1 DEF QuietFacts, KeptFacts
  <1>4. AskedOwed'
    BY <1>2, OwedStays DEF QuietFacts, AskedOwed
  <1>5. \A f, g \in kept : SameKey(f, g) <=> SameKey(f, g)'
    BY <1>1 DEF QuietFacts, SameKey, CanonKey, Canon
  <1>6. Heirs'
    <2>1. \A g \in live \cap FactRefs :
             \E h \in live' \cap FactRefs : Heir(g, h)'
      BY DEF QuietFacts, Heir, SameKey, Owed
    <2> QED BY <1>1, <1>2, <1>5, <2>1, HeirsNext DEF QuietFacts
  <1>7. PendingForced'
    <2>1. Reasons' = Reasons
      BY <1>1, <1>5 DEF Reasons, QuietFacts
    <2>2. asked \subseteq Reasons
      BY DEF Reasons
    <2> QED BY <2>1, <2>2 DEF PendingForced, QuietFacts
  <1>8. {recipe[f] : f \in kept}' = {recipe[f] : f \in kept}
    BY <1>1 DEF QuietFacts
  <1>9. (phase = "idle")' = (phase = "idle")
    OBVIOUS
  <1> QED BY <1>3, <1>4, <1>6, <1>7, <1>8, <1>9 DEF Abstract!vars, QuietFacts

(* A step that adds one fact under a key no fact had.                       *)
LEMMA AddStep ==
    ASSUME PInv, HInv, NEW t, NEW key, NEW v, AddsFact(t, key, v),
           asked' = asked, kept' = kept \cup {nextFact + 1},
           phase' = phase, phase # "idle"
    PROVE  HInv' /\ Abstract!Next
  <1> DEFINE f == nextFact + 1
             r == [table |-> t, key |-> key, value |-> v]
  <1> USE DEF HInv
  <1>1. /\ t \in Virtual /\ t \in Tables
        /\ key \in Keys(t) /\ CanonKey(key) = key /\ v \in Values
        /\ Matching(t, key) = {}
        /\ f \in DOMAIN recipe' /\ recipe'[f] = r
        /\ live' \cap FactRefs = (live \cap FactRefs) \cup {f}
        /\ \A g \in DOMAIN recipe \cap FactRefs :
              g \in DOMAIN recipe' /\ recipe'[g] = recipe[g]
        /\ UNCHANGED <<root, pending>>
    BY TablesAssumption DEF AddsFact
  <1>2. f \in FactRefs /\ f \notin DOMAIN recipe /\ f \notin kept
    <2>1. nextFact < MaxFact /\ nextFact \in 0..MaxFact
          /\ DOMAIN recipe \cap FactRefs = 1..nextFact
      BY DEF AddsFact, PInv, IInv, TypeOK
    <2>2. f \in FactRefs /\ f \notin 1..nextFact
      BY <2>1, BoundsAssumption DEF FactRefs
    <2> QED BY <2>1, <2>2 DEF KeptFacts
  <1>3. \A g \in kept : /\ g \in DOMAIN recipe /\ g \in DOMAIN recipe'
                        /\ recipe'[g] = recipe[g] /\ g # f
    BY <1>1, <1>2 DEF KeptFacts
  <1>4. \A c \in [Ids -> Ids] : Agrees(c)' => Agrees(c)
    BY <1>1 DEF Agrees
  <1> HIDE DEF f, r
  <1>5. KeptFacts'
    BY <1>1, <1>2, <1>3 DEF KeptFacts, f
  <1>6. AskedOwed'
    BY <1>4, OwedStays DEF AskedOwed
  <1>7. \A e, g \in kept : SameKey(e, g) <=> SameKey(e, g)'
    BY <1>1, <1>3 DEF SameKey, CanonKey, Canon
  <1>8. Heirs'
    <2>1. \A g \in live \cap FactRefs : g \in live' \cap FactRefs /\ Heir(g, g)'
      BY <1>1 DEF Heir, SameKey, Owed
    <2>2. kept' \subseteq kept \cup (live' \cap FactRefs)
      BY <1>1 DEF f
    <2> QED BY <1>3, <1>4, <1>7, <2>1, <2>2, HeirsNext
  <1>9. PendingForced'
    <2>1. Reasons \subseteq Reasons'
      <3> SUFFICES ASSUME NEW q \in Reasons PROVE q \in Reasons'
        OBVIOUS
      <3>1. CASE q \in asked
        BY <3>1 DEF Reasons
      <3>2. CASE q \notin asked
        <4>1. PICK d \in kept, e \in kept :
                 /\ recipe[d].table \in Constructors /\ SameKey(d, e)
                 /\ q = <<recipe[d].value, recipe[e].value>>
          BY <3>2 DEF Reasons
        <4>2. /\ <<d, e>> \in kept' \X kept'
              /\ recipe'[d].table \in Constructors /\ SameKey(d, e)'
              /\ q = <<recipe'[d].value, recipe'[e].value>>
          BY <4>1, <1>3, <1>7
        <4> QED BY <4>2 DEF Reasons
      <3> QED BY <3>1, <3>2
    <2> QED BY <2>1, <1>1 DEF PendingForced
  <1>10. {recipe[g] : g \in kept}' = {recipe[g] : g \in kept} \cup {r}
    BY <1>1, <1>3 DEF f
  <1>11. r \in RowSpace
    BY <1>1 DEF RowSpace, r
  <1>12. \A s \in {recipe[g] : g \in kept} : ~Abstract!SameKey(r, s)
    <2> SUFFICES ASSUME NEW e \in kept, Abstract!SameKey(r, recipe[e])
                 PROVE  FALSE
      OBVIOUS
    <2>1. recipe[e].table = t /\ CanonKey(recipe[e].key) = key
      <3>1. /\ recipe[e].table = t
            /\ \A i \in DOMAIN key : root[key[i]] = root[recipe[e].key[i]]
        BY DEF Abstract!SameKey, r
      <3>2. recipe[e].key \in [1..Arity[t] -> Made] /\ Made \subseteq Ids
        BY <1>3, <3>1, Numbering DEF PInv, IInv, TypeOK, Made
      <3>3. key \in [1..Arity[t] -> Ids]
        BY <1>1 DEF Keys
      <3>4. CanonKey(recipe[e].key) = [i \in 1..Arity[t] |-> root[recipe[e].key[i]]]
        BY <3>2 DEF CanonKey, Canon
      <3>5. CanonKey(key) = [i \in 1..Arity[t] |-> root[key[i]]]
        BY <3>3 DEF CanonKey, Canon
      <3> QED BY <3>1, <3>3, <3>4, <3>5, <1>1
    <2>2. PICK g \in live \cap FactRefs : Heir(e, g)
      BY DEF Heirs
    <2>3. recipe[g].table = t /\ CanonKey(recipe[g].key) = key
      BY <2>1, <2>2 DEF Heir, SameKey
    <2> QED BY <2>3, <1>1, MissIsAbsence DEF PInv
  <1>13. Abstract!Add(r)
    <2>1. (phase = "idle")' = (phase = "idle") /\ ~(phase = "idle")
      OBVIOUS
    <2> QED BY <1>1, <1>10, <1>12, <2>1 DEF Abstract!Add
  <1> QED BY <1>5, <1>6, <1>8, <1>9, <1>11, <1>13 DEF Abstract!Next
(* union() and set() of a constructor row ask for a union (Ask).            *)
LEMMA AskStep ==
    ASSUME PInv, HInv, NEW a \in Made, NEW b \in Made, RequestUnion(a, b),
           asked' = asked \cup {<<a, b>>}, kept' = kept
    PROVE  HInv' /\ Abstract!Next
  <1> USE DEF HInv
  <1>1. /\ phase = "rhs" /\ phase' = "rhs"
        /\ pending' = Append(pending, <<a, b>>)
        /\ UNCHANGED <<root, recipe, live>>
    BY DEF RequestUnion, rowVars
  <1>2. a \in Ids /\ b \in Ids /\ pending \in Seq(Made \X Made)
    BY RootOfMade DEF PInv, IInv, TypeOK
  <1>3. /\ DOMAIN pending' = DOMAIN pending \cup {Len(pending) + 1}
        /\ \A n \in DOMAIN pending : n \in DOMAIN pending'
                                     /\ pending'[n] = pending[n]
        /\ pending'[Len(pending) + 1] = <<a, b>>
    BY <1>1, <1>2
  <1>4. \A c \in [Ids -> Ids] : Agrees(c)' => Agrees(c)
    BY <1>1, <1>3, PendingGrows
  <1>5. KeptFacts'
    BY <1>1 DEF KeptFacts
  <1>6. AskedOwed'
    <2>1. Owed(a, b)'
      <3>1. \A c \in [Ids -> Ids] : Agrees(c)' => c[a] = c[b]
        BY <1>3 DEF Agrees
      <3> QED BY <3>1 DEF Owed
    <2>2. \A p \in asked : Owed(p[1], p[2])'
      BY <1>4, OwedStays DEF AskedOwed
    <2> QED BY <1>2, <2>1, <2>2 DEF AskedOwed
  <1>7. Heirs'
    <2>1. \A e, g \in kept : SameKey(e, g) => SameKey(e, g)'
      BY <1>1 DEF SameKey, CanonKey, Canon
    <2>2. \A g \in live \cap FactRefs : g \in live' \cap FactRefs /\ Heir(g, g)'
      BY <1>1 DEF Heir, SameKey, Owed
    <2> QED BY <1>1, <1>4, <2>1, <2>2, HeirsNext
  <1>8. PendingForced'
    BY <1>1, <1>3 DEF PendingForced
  <1>9. Abstract!Ask(a, b)
    <2>1. (phase = "idle")' = (phase = "idle") /\ ~(phase = "idle")
      BY <1>1
    <2> QED BY <1>1, <2>1 DEF Abstract!Ask
  <1> QED BY <1>2, <1>5, <1>6, <1>7, <1>8, <1>9 DEF Abstract!Next

(* hide(.., delete = true) of a fact removes its key (Remove).              *)
LEMMA RemoveStep ==
    ASSUME PInv, HInv, NEW f \in live \cap FactRefs, phase = "rhs",
           live' = live \ {f}, UNCHANGED <<root, recipe, pending, phase, asked>>,
           kept' = {e \in kept : ~SameKey(e, f)}
    PROVE  HInv' /\ Abstract!Next
  <1> USE DEF HInv
  <1>1. f \in kept /\ f \in DOMAIN recipe
        /\ \A e \in kept : e \in DOMAIN recipe
    BY DEF KeptFacts
  <1>2. \A g \in (live \cap FactRefs) \ {f} : ~SameKey(g, f)
    BY DEF PInv, IInv, QuietOutsideRepair, CleanUnique
  <1>3. KeptFacts'
    BY <1>2 DEF KeptFacts
  <1>4. \A c \in [Ids -> Ids] : Agrees(c)' => Agrees(c)
    BY DEF Agrees
  <1>5. AskedOwed'
    BY <1>4, OwedStays DEF AskedOwed
  <1>6. Heirs'
    <2>1. \A e, g \in kept : SameKey(e, g) => SameKey(e, g)'
      BY DEF SameKey, CanonKey, Canon
    <2>2. ASSUME NEW e \in kept \cap kept', NEW g \in live \cap FactRefs,
                 SameKey(e, g)
          PROVE  \E h \in live' \cap FactRefs : Heir(g, h)'
      <3>1. g \in live' \cap FactRefs
        BY <2>2
      <3>2. Heir(g, g)'
        BY DEF Heir, SameKey, Owed
      <3> QED BY <3>1, <3>2
    <2> QED BY <1>4, <2>1, <2>2, HeirsNext
  <1>7. PendingForced'
    BY DEF PendingForced
  <1>8. recipe[f] \in RowSpace
    <2>1. /\ recipe[f].table \in Virtual /\ IsRow(recipe[f])
          /\ recipe[f].key \in [1..Arity[recipe[f].table] -> Made]
          /\ recipe[f].value \in Made \cup Scalars
      BY <1>1 DEF PInv, TypedRows, IInv, TypeOK
    <2>2. Made \subseteq Ids
      BY Numbering DEF PInv, IInv, TypeOK, Made
    <2>3. recipe[f].key \in Keys(recipe[f].table) /\ recipe[f].value \in Values
      BY <2>1, <2>2 DEF Keys, Values
    <2>4. recipe[f] \in [table : {recipe[f].table}, key : Keys(recipe[f].table),
                         value : Values]
      BY <2>1, <2>3 DEF IsRow
    <2> QED BY <2>1, <2>4 DEF RowSpace
  <1>9. {recipe[e] : e \in kept}'
          = {s \in {recipe[e] : e \in kept} : ~Abstract!SameKey(recipe[f], s)}
    <2>1. \A e \in kept : SameKey(e, f) <=> Abstract!SameKey(recipe[f], recipe[e])
      <3>1. \A e \in kept : SameKey(e, f) <=> SameKey(f, e)
        BY DEF SameKey
      <3> QED BY <1>1, <3>1, SameKeyIsSameKey DEF PInv, IInv
    <2> QED BY <2>1
  <1>10. PICK row \in RowSpace : row = recipe[f]
    BY <1>8
  <1>11. Abstract!Remove(row)
    <2>1. (phase = "idle")' = (phase = "idle") /\ ~(phase = "idle")
      OBVIOUS
    <2>2. row \in {recipe[e] : e \in kept}
      BY <1>1, <1>10
    <2>3. {recipe[e] : e \in kept}'
            = {s \in {recipe[e] : e \in kept} : ~Abstract!SameKey(row, s)}
      BY <1>9, <1>10
    <2> QED BY <2>1, <2>2, <2>3 DEF Abstract!Remove
  <1> QED BY <1>3, <1>5, <1>6, <1>7, <1>11 DEF Abstract!Next

(* Publishing seals the graph: every request and every congruence holds     *)
(* (Seal).                                                                  *)
LEMMA SealStep ==
    ASSUME PInv, HInv, Publish, UNCHANGED <<asked, kept>>
    PROVE  HInv' /\ Abstract!Next
  <1> USE DEF HInv
  <1>1. /\ phase = "repair" /\ pending = <<>> /\ dirty = {} /\ phase' = "idle"
        /\ UNCHANGED <<root, pending, recipe, live, nextFact>>
    BY DEF Publish, unionVars, rowVars
  <1>2. root \in [Ids -> Ids] /\ Agrees(root)
    BY <1>1 DEF Agrees, PInv, IInv, RootIsOldest, TypeOK
  <1>3. \A p \in Abstract!Forced : root[p[1]] = root[p[2]]
    <2> SUFFICES ASSUME NEW p \in Abstract!Forced PROVE root[p[1]] = root[p[2]]
      OBVIOUS
    <2>1. CASE p \in asked
      BY <2>1, <1>2 DEF AskedOwed, Owed
    <2>2. CASE p \notin asked
      <3>1. PICK d \in kept, e \in kept :
               /\ recipe[d].table \in Constructors
               /\ Abstract!SameKey(recipe[d], recipe[e])
               /\ p = <<recipe[d].value, recipe[e].value>>
        BY <2>2 DEF Abstract!Forced
      <3>2. SameKey(d, e)
        BY <3>1, SameKeyIsSameKey DEF PInv, IInv, KeptFacts
      <3>3. PICK g \in live \cap FactRefs : Heir(d, g)
        BY DEF Heirs
      <3>4. PICK h \in live \cap FactRefs : Heir(e, h)
        BY DEF Heirs
      <3>5. SameKey(g, h)
        BY <3>2, <3>3, <3>4 DEF Heir, SameKey
      <3>6. g = h
        BY <3>5, <1>1 DEF PInv, IInv, CleanUnique
      <3>7. recipe[e].table \in Constructors
        BY <3>1, <3>2 DEF SameKey
      <3>8. root[recipe[d].value] = root[recipe[g].value]
        BY <1>2, <3>1, <3>3 DEF Heir, Owed
      <3>9. root[recipe[e].value] = root[recipe[h].value]
        BY <1>2, <3>7, <3>4 DEF Heir, Owed
      <3> QED BY <3>1, <3>6, <3>8, <3>9
    <2> QED BY <2>1, <2>2
  <1>4. HInv'
    <2>1. \A c \in [Ids -> Ids] : Agrees(c)' => Agrees(c)
      BY <1>1 DEF Agrees
    <2>2. AskedOwed'
      BY <2>1, OwedStays DEF AskedOwed
    <2>3. Heirs'
      <3>1. \A e, g \in kept : SameKey(e, g) => SameKey(e, g)'
        BY <1>1 DEF SameKey, CanonKey, Canon
      <3>2. \A g \in live \cap FactRefs : g \in live' \cap FactRefs /\ Heir(g, g)'
        BY <1>1 DEF Heir, SameKey, Owed
      <3> QED BY <1>1, <2>1, <3>1, <3>2, HeirsNext
    <2> QED BY <1>1, <2>2, <2>3 DEF KeptFacts, PendingForced
  <1>5. Abstract!Seal
    <2>1. (phase = "idle")' = TRUE /\ ~(phase = "idle")
      BY <1>1
    <2> QED BY <1>1, <1>3, <2>1 DEF Abstract!Seal, Abstract!Closed
  <1> QED BY <1>4, <1>5 DEF Abstract!Next
(* union() of two classes that differ is a merge with a reason (Merge); of  *)
(* two that are equal, nothing.                                             *)
LEMMA ApplyUnionStep ==
    ASSUME PInv, HInv, ApplyUnion, UNCHANGED <<asked, kept>>
    PROVE  HInv' /\ [Abstract!Next]_Abstract!vars
  <1> DEFINE a == root[Head(pending)[1]]
             b == root[Head(pending)[2]]
  <1> USE DEF HInv
  <1>1. /\ phase = "repair" /\ phase' = "repair" /\ pending # <<>>
        /\ pending' = Tail(pending)
        /\ \/ a = b /\ root' = root
           \/ a < b /\ LinkRoots(a, b)
           \/ b < a /\ LinkRoots(b, a)
        /\ UNCHANGED <<nextFact, recipe, live>>
    BY DEF ApplyUnion
  <1>0. \/ a = b /\ root' = root
        \/ a < b /\ root' = [i \in Ids |-> IF root[i] = b THEN a ELSE root[i]]
        \/ b < a /\ root' = [i \in Ids |-> IF root[i] = a THEN b ELSE root[i]]
    <2> HIDE DEF a, b
    <2> QED BY <1>1 DEF LinkRoots
  <1>2. /\ pending \in Seq(Made \X Made)
        /\ root \in [Ids -> Ids] /\ RootIsOldest
    BY DEF PInv, IInv, TypeOK
  <1>3. Head(pending) \in Made \X Made /\ Head(pending) = pending[1]
        /\ 1 \in DOMAIN pending
    BY <1>1, <1>2
  <1>4. /\ Head(pending)[1] \in Ids /\ Head(pending)[2] \in Ids
        /\ a \in Ids /\ b \in Ids /\ a \in Made /\ b \in Made
        /\ root[a] = a /\ root[b] = b
    BY <1>2, <1>3, RootOfMade DEF PInv, IInv
  <1>6. \A n \in DOMAIN pending' : n + 1 \in DOMAIN pending /\ pending'[n] = pending[n + 1]
    BY <1>1, <1>2
  <1>7. \A x \in Ids : root'[x] = IF root[x] = a \/ root[x] = b
                                  THEN IF a < b THEN a ELSE b
                                  ELSE root[x]
    <2> HIDE DEF a, b
    <2>1. a \in Int /\ b \in Int
      BY <1>4 DEF Ids
    <2> QED BY <1>0, <1>2, <2>1
  <1> HIDE DEF a, b
  <1>8. \A c \in [Ids -> Ids] : Agrees(c)' => Agrees(c)
    BY UnionOnward DEF Onward, PInv
  <1>9. KeptFacts'
    BY <1>1 DEF KeptFacts
  <1>10. AskedOwed'
    BY <1>8, OwedStays DEF AskedOwed
  <1>11. \A x, y \in Ids : root[x] = root[y] => root'[x] = root'[y]
    BY UnionOnward DEF Onward, PInv
  <1>12. \A d, e \in DOMAIN recipe : SameKey(d, e) => SameKey(d, e)'
    <2> SUFFICES ASSUME NEW d \in DOMAIN recipe, NEW e \in DOMAIN recipe,
                        SameKey(d, e)
                 PROVE  CanonKey(recipe[d].key)' = CanonKey(recipe[e].key)'
      BY <1>1 DEF SameKey
    <2>1. /\ recipe[d].key \in [1..Arity[recipe[d].table] -> Made]
          /\ recipe[e].key \in [1..Arity[recipe[d].table] -> Made]
          /\ Made \subseteq Ids
      BY Numbering DEF PInv, IInv, TypeOK, Made, SameKey
    <2>2. \A i \in 1..Arity[recipe[d].table] :
             root[recipe[d].key[i]] = root[recipe[e].key[i]]
      <3>1. CanonKey(recipe[d].key) = CanonKey(recipe[e].key)
        BY DEF SameKey
      <3>2. \A i \in 1..Arity[recipe[d].table] :
               /\ CanonKey(recipe[d].key)[i] = root[recipe[d].key[i]]
               /\ CanonKey(recipe[e].key)[i] = root[recipe[e].key[i]]
        BY <2>1 DEF CanonKey, Canon
      <3> QED BY <3>1, <3>2
    <2>3. \A i \in 1..Arity[recipe[d].table] :
             root'[recipe[d].key[i]] = root'[recipe[e].key[i]]
      BY <2>1, <2>2, <1>11
    <2>4. /\ CanonKey(recipe[d].key)' = [i \in 1..Arity[recipe[d].table] |->
                                            root'[recipe[d].key[i]]]
          /\ CanonKey(recipe[e].key)' = [i \in 1..Arity[recipe[d].table] |->
                                            root'[recipe[e].key[i]]]
      BY <1>1, <2>1 DEF CanonKey, Canon
    <2> QED BY <2>3, <2>4
  <1>13. Heirs'
    <2>1. \A e, g \in kept : SameKey(e, g) => SameKey(e, g)'
      BY <1>12 DEF KeptFacts
    <2>2. \A g \in live \cap FactRefs : g \in live' \cap FactRefs /\ Heir(g, g)'
      BY <1>1 DEF Heir, SameKey, Owed
    <2> QED BY <1>1, <1>8, <2>1, <2>2, HeirsNext
  <1>14. \A q \in Reasons : q \in Reasons' /\ q[1] \in Ids /\ q[2] \in Ids
    <2> SUFFICES ASSUME NEW q \in Reasons
                 PROVE  q \in Reasons' /\ q[1] \in Ids /\ q[2] \in Ids
      OBVIOUS
    <2>1. CASE q \in asked
      BY <2>1 DEF Reasons, AskedOwed
    <2>2. CASE q \notin asked
      <3>1. PICK d \in kept, e \in kept :
               /\ recipe[d].table \in Constructors /\ SameKey(d, e)
               /\ q = <<recipe[d].value, recipe[e].value>>
        BY <2>2 DEF Reasons
      <3>2. /\ recipe'[d].table \in Constructors /\ SameKey(d, e)'
            /\ q = <<recipe'[d].value, recipe'[e].value>>
            /\ <<d, e>> \in kept' \X kept'
        BY <3>1, <1>1, <1>12 DEF KeptFacts
      <3>3. recipe[e].table \in Constructors
        BY <3>1 DEF SameKey
      <3>4. recipe[d].value \in Ids /\ recipe[e].value \in Ids
        BY <3>1, <3>3, Numbering DEF KeptFacts, PInv, IInv, TypeOK, Made
      <3> QED BY <3>1, <3>2, <3>4 DEF Reasons
    <2> QED BY <2>1, <2>2
  <1>15. PendingForced'
    <2> SUFFICES ASSUME NEW n \in DOMAIN pending'
                 PROVE  \E q \in Reasons' :
                           /\ root'[q[1]] = root'[pending'[n][1]]
                           /\ root'[q[2]] = root'[pending'[n][2]]
      BY <1>1 DEF PendingForced
    <2>1. n + 1 \in DOMAIN pending /\ pending'[n] = pending[n + 1]
      BY <1>6
    <2>2. pending[n + 1][1] \in Ids /\ pending[n + 1][2] \in Ids
      BY <2>1, <1>2, RootOfMade DEF PInv, IInv
    <2>3. PICK q \in Reasons : /\ root[q[1]] = root[pending[n + 1][1]]
                               /\ root[q[2]] = root[pending[n + 1][2]]
      BY <2>1, <1>1 DEF PendingForced
    <2> QED BY <2>1, <2>2, <2>3, <1>11, <1>14
  <1>16. [Abstract!Next]_Abstract!vars
    <2>1. (phase = "idle")' = (phase = "idle") /\ ~(phase = "idle")
      BY <1>1
    <2>2. CASE a = b
      <3>1. a \in Int /\ b \in Int
        BY <1>4 DEF Ids
      <3>2. root' = root
        BY <1>0, <2>2, <3>1
      <3> QED BY <2>1, <3>2, <1>1 DEF Abstract!vars
    <2>3. CASE a # b
      <3>1. PICK q \in Reasons : root[q[1]] = a /\ root[q[2]] = b
        BY <1>1, <1>3 DEF PendingForced, a, b
      <3>2. q \in Abstract!Forced
        <4>1. CASE q \in asked
          BY <4>1 DEF Abstract!Forced
        <4>2. CASE q \notin asked
          <5>1. PICK d \in kept, e \in kept :
                   /\ recipe[d].table \in Constructors /\ SameKey(d, e)
                   /\ q = <<recipe[d].value, recipe[e].value>>
            BY <4>2 DEF Reasons
          <5>2. Abstract!SameKey(recipe[d], recipe[e])
            BY <5>1, SameKeyIsSameKey DEF PInv, IInv, KeptFacts
          <5>3. <<recipe[d], recipe[e]>> \in {recipe[f] : f \in kept} \X {recipe[f] : f \in kept}
            OBVIOUS
          <5> QED BY <5>1, <5>2, <5>3 DEF Abstract!Forced
        <4> QED BY <4>1, <4>2
      <3>3. \/ /\ a < b
               /\ root' = [i \in Ids |-> IF root[i] = b THEN a ELSE root[i]]
            \/ /\ b < a
               /\ root' = [i \in Ids |-> IF root[i] = a THEN b ELSE root[i]]
        BY <2>3, <1>0
      <3>4. {root[q[1]], root[q[2]]} = {a, b} /\ {root[q[1]], root[q[2]]} = {b, a}
        BY <3>1
      <3>5. Abstract!Merge(a, b) \/ Abstract!Merge(b, a)
        BY <2>1, <1>1, <3>2, <3>3, <3>4 DEF Abstract!Merge
      <3> QED BY <1>4, <3>5 DEF Abstract!Next
    <2> QED BY <2>2, <2>3
  <1> QED BY <1>9, <1>10, <1>13, <1>15, <1>16
(* repair() of a duplicate: its owner is its heir, and the union it asks    *)
(* for is a congruence.  EGraph sees nothing yet.                           *)
LEMMA CollapseStep ==
    ASSUME PInv, HInv, NEW f \in FactRefs, NEW g \in FactRefs,
           RepairFact(f), Collapse(f, g), UNCHANGED <<asked, kept>>
    PROVE  HInv' /\ UNCHANGED Abstract!vars
  <1> USE DEF HInv
  <1>1. /\ phase = "repair" /\ phase' = "repair" /\ f \in dirty
        /\ live' = live \ {f}
        /\ g \in Owners(f)
        /\ pending' = IF Row(f).table \in Constructors
                      THEN Append(pending, <<Row(f).value, Row(g).value>>)
                      ELSE pending
        /\ UNCHANGED <<root, recipe>>
    BY DEF RepairFact, NextDirty, First, Collapse
  <1>2. f \in live /\ g \in live /\ SameKey(g, f) /\ g # f
    BY <1>1, OwnerIsOther DEF PInv, IInv, DirtyLive
  <1>3. /\ f \in DOMAIN recipe /\ g \in DOMAIN recipe
        /\ f \in kept /\ g \in kept /\ pending \in Seq(Made \X Made)
        /\ recipe[g].table = recipe[f].table
        /\ Row(f).table = recipe[f].table
    BY <1>2 DEF KeptFacts, SameKey, Row, PInv, IInv, TypeOK
  <1>4. /\ \A n \in DOMAIN pending : n \in DOMAIN pending'
                                     /\ pending'[n] = pending[n]
        /\ \A n \in DOMAIN pending' \ DOMAIN pending :
              /\ recipe[f].table \in Constructors
              /\ pending'[n] = <<Row(f).value, Row(g).value>>
        /\ recipe[f].table \in Constructors =>
              \E n \in DOMAIN pending' :
                 pending'[n] = <<Row(f).value, Row(g).value>>
    <2>1. CASE recipe[f].table \in Constructors
      <3> DEFINE pair == <<Row(f).value, Row(g).value>>
      <3>1. pending' = Append(pending, pair)
        BY <2>1, <1>1, <1>3
      <3> HIDE DEF pair
      <3>2. /\ DOMAIN pending' = DOMAIN pending \cup {Len(pending) + 1}
            /\ \A n \in DOMAIN pending : pending'[n] = pending[n]
            /\ pending'[Len(pending) + 1] = pair
        BY <3>1, <1>3
      <3> QED BY <2>1, <3>2 DEF pair
    <2>2. CASE recipe[f].table \notin Constructors
      BY <2>2, <1>1, <1>3
    <2> QED BY <2>1, <2>2
  <1>5. recipe[f].table \in Constructors =>
           /\ recipe[f].value \in Ids /\ recipe[g].value \in Ids
           /\ Row(f).value = root[recipe[f].value]
           /\ Row(g).value = root[recipe[g].value]
           /\ root[Row(f).value] = root[recipe[f].value]
           /\ root[Row(g).value] = root[recipe[g].value]
    <2> SUFFICES ASSUME recipe[f].table \in Constructors
                 PROVE  \A d \in {f, g} : /\ recipe[d].value \in Ids
                                          /\ Row(d).value = root[recipe[d].value]
                                          /\ root[Row(d).value] = root[recipe[d].value]
      OBVIOUS
    <2>1. \A d \in {f, g} : recipe[d].value \in Made
      BY <1>3 DEF PInv, IInv, TypeOK
    <2> QED BY <2>1, RootOfMade DEF Row, Canon, PInv, IInv
  <1>6. \A c \in [Ids -> Ids] : Agrees(c)' => Agrees(c)
    BY <1>1, <1>4, PendingGrows
  <1>7. KeptFacts'
    BY <1>1 DEF KeptFacts
  <1>8. AskedOwed'
    BY <1>6, OwedStays DEF AskedOwed
  <1>9. \A d, e : SameKey(d, e) <=> SameKey(d, e)'
    BY <1>1 DEF SameKey, CanonKey, Canon
  <1>10. Heirs'
    <2>1. Heir(f, g)'
      <3>1. SameKey(f, g)'
        BY <1>2, <1>9 DEF SameKey
      <3>2. ASSUME recipe[f].table \in Constructors
            PROVE  Owed(recipe[f].value, recipe[g].value)'
        <4> SUFFICES ASSUME NEW c \in [Ids -> Ids], Agrees(c)'
                     PROVE  c[recipe[f].value] = c[recipe[g].value]
          BY <1>1 DEF Owed
        <4>1. c[Row(f).value] = c[Row(g).value]
          BY <3>2, <1>4 DEF Agrees
        <4>2. \A x \in Ids : c[root[x]] = c[x]
          BY <1>1 DEF Agrees
        <4> QED BY <4>1, <4>2, <3>2, <1>5
      <3> QED BY <3>1, <3>2, <1>1 DEF Heir
    <2>2. \A d \in live' \cap FactRefs : Heir(d, d)'
      BY DEF Heir, SameKey, Owed
    <2>3. \A d \in live \cap FactRefs :
             \E h \in live' \cap FactRefs : Heir(d, h)'
      BY <2>1, <2>2, <1>1, <1>2
    <2>4. \A d, e \in kept : SameKey(d, e) => SameKey(d, e)'
      BY <1>9
    <2> QED BY <1>1, <1>6, <2>3, <2>4, HeirsNext
  <1>11. PendingForced'
    <2>1. Reasons' = Reasons
      BY <1>1, <1>9 DEF Reasons
    <2>2. recipe[f].table \in Constructors =>
             <<recipe[f].value, recipe[g].value>> \in Reasons
      <3>1. <<f, g>> \in kept \X kept /\ SameKey(f, g)
        BY <1>2, <1>3 DEF SameKey
      <3> QED BY <3>1 DEF Reasons
    <2> SUFFICES ASSUME NEW n \in DOMAIN pending'
                 PROVE  \E q \in Reasons : /\ root[q[1]] = root[pending'[n][1]]
                                           /\ root[q[2]] = root[pending'[n][2]]
      BY <2>1, <1>1 DEF PendingForced
    <2>3. CASE n \in DOMAIN pending
      BY <2>3, <1>1, <1>4 DEF PendingForced
    <2>4. CASE n \notin DOMAIN pending
      <3>1. /\ recipe[f].table \in Constructors
            /\ pending'[n] = <<Row(f).value, Row(g).value>>
        BY <2>4, <1>4
      <3>2. PICK q : q = <<recipe[f].value, recipe[g].value>>
        OBVIOUS
      <3>3. /\ q \in Reasons
            /\ root[q[1]] = root[pending'[n][1]]
            /\ root[q[2]] = root[pending'[n][2]]
        BY <2>2, <3>1, <3>2, <1>5
      <3> QED BY <3>3
    <2> QED BY <2>3, <2>4
  <1>12. UNCHANGED Abstract!vars
    <2>1. (phase = "idle")' = (phase = "idle")
      BY <1>1
    <2> QED BY <1>1, <2>1 DEF Abstract!vars
  <1> QED BY <1>7, <1>8, <1>10, <1>11, <1>12

------------------------------------------------------------------------------
(* What a step of a right-hand side records when it asks for no union.      *)
LEMMA RememberRhs ==
    ASSUME PInv, phase = "rhs", Remember, pending' = pending
    PROVE  /\ asked' = asked
           /\ kept' = {e \in kept : \A d \in live \ live' : ~SameKey(e, d)}
                      \cup ((live' \ live) \cap FactRefs)
  <1>1. Len(pending) \in Nat
    BY DEF PInv, IInv, TypeOK
  <1>2. (Len(pending) + 1)..Len(pending') = {}
    BY <1>1
  <1>3. NewlyAsked = {}
    BY <1>2 DEF NewlyAsked
  <1> QED BY <1>3 DEF Remember, Undeleted

(* activate() is such a step.                                               *)
LEMMA ActivateAdds ==
    ASSUME PInv, NEW t \in Virtual, NEW key \in KnownKeys(t),
           NEW v \in Known \cup {FreshValue(t)}, NEW hide,
           Activate(t, key, v, hide), phase = "rhs", Remember
    PROVE  /\ AddsFact(t, key, v) /\ phase' = phase
           /\ asked' = asked /\ kept' = kept \cup {nextFact + 1}
  <1> DEFINE f == nextFact + 1
  <1>1. /\ nextFact < MaxFact /\ Matching(t, key) = {}
        /\ recipe' = Put(recipe, f, [table |-> t, key |-> key, value |-> v])
        /\ live' = live \cup {f}
        /\ UNCHANGED <<root, pending, phase>>
    BY DEF Activate, unionVars
  <1>2. f \in FactRefs /\ f \notin DOMAIN recipe /\ f \notin live
    <2>1. nextFact \in 0..MaxFact /\ DOMAIN recipe \cap FactRefs = 1..nextFact
          /\ live \subseteq DOMAIN recipe
      BY DEF PInv, IInv, TypeOK
    <2>2. f \in FactRefs /\ f \notin 1..nextFact
      BY <1>1, <2>1, BoundsAssumption DEF FactRefs
    <2> QED BY <2>1, <2>2
  <1>3. key \in Keys(t) /\ CanonKey(key) = key
    BY KnownKey, TablesAssumption DEF PInv, IInv
  <1>4. v \in Values
    <2>1. CASE v \in Known
      BY <2>1, KnownIsCanonical DEF PInv, IInv, Values
    <2>2. CASE v = FreshValue(t)
      BY <2>2, <1>2, Numbering, ValuesAssumption DEF FreshValue, Values, ClassOf, Ids
    <2> QED BY <2>1, <2>2
  <1>5. /\ f \in DOMAIN recipe'
        /\ recipe'[f] = [table |-> t, key |-> key, value |-> v]
        /\ \A g \in DOMAIN recipe \cap FactRefs :
              g \in DOMAIN recipe' /\ recipe'[g] = recipe[g]
    BY <1>1, <1>2 DEF Put
  <1>6. live' \cap FactRefs = (live \cap FactRefs) \cup {f}
    BY <1>1, <1>2
  <1>7. asked' = asked /\ kept' = kept \cup {f}
    <2>1. live \ live' = {} /\ (live' \ live) \cap FactRefs = {f}
      BY <1>1, <1>2
    <2> HIDE DEF f
    <2> QED BY <2>1, <1>1, RememberRhs
  <1> QED BY <1>1, <1>3, <1>4, <1>5, <1>6, <1>7 DEF AddsFact
(* Storing a merged value leaves the facts alone or adds the one its merge  *)
(* builds.                                                                  *)
LEMMA StoreMergedFacts ==
    ASSUME PInv, NEW j \in LivePorts, NEW new \in ValueType(recipe[j].table),
           new \in Ids => root[new] = new,
           NEW gone \in SUBSET (LivePorts \ {j}),
           StoreMerged(j, new, gone)
    PROVE  /\ UNCHANGED <<root, pending, phase>>
           /\ live \ live' \subseteq gone
           /\ \A f \in DOMAIN recipe \cap FactRefs :
                 f \in DOMAIN recipe' /\ recipe'[f] = recipe[f]
           /\ \/ /\ live' \cap FactRefs = live \cap FactRefs
                 /\ (live' \ live) \cap FactRefs = {}
              \/ /\ \E key, v : AddsFact(MergeTable, key, v)
                 /\ (live' \ live) \cap FactRefs = {nextFact + 1}
  <1> DEFINE t == recipe[j].table
             old == Row(j).value
             next == Merged(t, old, new)
             args == <<old, new>>
             f == nextFact + 1
             built == {d \in {f} : Builds(t, old, new)}
             fact == [table |-> MergeTable, key |-> args, value |-> next]
  <1>1. /\ built # {} => nextFact < MaxFact
        /\ DOMAIN recipe' = DOMAIN recipe \cup built
        /\ \A d \in DOMAIN recipe \cup built :
              d # j => recipe'[d] = IF d \in built THEN fact ELSE recipe[d]
        /\ live' = (live \cup built) \ gone
        /\ UNCHANGED <<root, pending, phase>>
    BY DEF StoreMerged
  <1>2. /\ j \in DOMAIN recipe /\ j \notin FactRefs /\ t \in FunTables
        /\ recipe[j].value \in ValueType(t)
        /\ gone \cap FactRefs = {}
    BY PortKey DEF PInv, TypedPorts
  <1>3. old \in ValueType(t) /\ (old \in Ids => root[old] = old)
    <2>1. CASE recipe[j].value \in Scalars
      BY <1>2, <2>1, ValuesAssumption DEF Row, Canon
    <2>2. CASE recipe[j].value \in Made /\ MergeKind[t] # "min"
      <3>1. Row(j).value = root[recipe[j].value]
        BY <2>2, RootOfMade DEF Row, Canon, PInv, IInv
      <3> QED BY <3>1, <2>2, RootOfMade DEF ValueType, PInv, IInv
    <2> QED BY <1>2, <2>1, <2>2 DEF ValueType
  <1>4. Builds(t, old, new) =>
             /\ next = ClassOf(f)
             /\ MergeTable \in Constructors
             /\ args \in [1..Arity[MergeTable] -> Made]
             /\ CanonKey(args) = args
             /\ Matching(MergeTable, args) = {}
    <2>1. Builds(t, old, new) => Matching(MergeTable, args) = {}
      BY DEF Builds
    <2> QED BY <1>2, <1>3, <2>1, MergedTyped
  <1>5. built = {} \/ (built = {f} /\ Builds(t, old, new))
    OBVIOUS
  <1> HIDE DEF built, next, old
  <1>6. CASE built = {}
    BY <1>1, <1>2, <1>6
  <1>7. CASE built # {}
    <2>1. built = {f} /\ Builds(t, old, new) /\ nextFact < MaxFact
      BY <1>1, <1>5, <1>7
    <2>2. f \in FactRefs /\ f \notin DOMAIN recipe /\ f \notin live /\ f # j
      <3>1. nextFact \in 0..MaxFact /\ DOMAIN recipe \cap FactRefs = 1..nextFact
            /\ live \subseteq DOMAIN recipe
        BY DEF PInv, IInv, TypeOK
      <3>2. f \in FactRefs /\ f \notin 1..nextFact
        BY <2>1, <3>1, BoundsAssumption DEF FactRefs
      <3> QED BY <3>1, <3>2, <1>2
    <2>3. /\ MergeTable \in Virtual /\ args \in Keys(MergeTable)
          /\ CanonKey(args) = args /\ next \in Values
          /\ Matching(MergeTable, args) = {}
      <3>1. args \in Keys(MergeTable)
        BY <1>4, <2>1, RootOfMade DEF Keys, PInv, IInv
      <3>2. next \in Values
        BY <1>4, <2>1, <2>2, Numbering DEF Values
      <3> QED BY <3>1, <3>2, <1>4, <2>1 DEF Virtual
    <2>4. /\ f \in DOMAIN recipe' /\ recipe'[f] = fact
          /\ \A g \in DOMAIN recipe \cap FactRefs :
                g \in DOMAIN recipe' /\ recipe'[g] = recipe[g]
      BY <1>1, <1>2, <2>1, <2>2
    <2>5. /\ live' \cap FactRefs = (live \cap FactRefs) \cup {f}
          /\ (live' \ live) \cap FactRefs = {f}
          /\ live \ live' \subseteq gone
      BY <1>1, <1>2, <2>1, <2>2
    <2>6. AddsFact(MergeTable, args, next)
      BY <1>1, <2>1, <2>3, <2>4, <2>5 DEF AddsFact
    <2> QED BY <1>1, <2>4, <2>5, <2>6
  <1> QED BY <1>6, <1>7

(* A step of the ports is a stutter of EGraph or adds the fact of a merge.  *)
LEMMA MergeStep ==
    ASSUME PInv, HInv, NEW j \in LivePorts,
           NEW new \in ValueType(recipe[j].table),
           new \in Ids => root[new] = new,
           NEW gone \in SUBSET (LivePorts \ {j}),
           StoreMerged(j, new, gone), phase # "idle",
           asked' = asked,
           kept' = kept \cup ((live' \ live) \cap FactRefs)
    PROVE  HInv' /\ [Abstract!Next]_Abstract!vars
  <1>1. /\ UNCHANGED <<root, pending, phase>>
        /\ \A f \in DOMAIN recipe \cap FactRefs :
              f \in DOMAIN recipe' /\ recipe'[f] = recipe[f]
        /\ \/ /\ live' \cap FactRefs = live \cap FactRefs
              /\ (live' \ live) \cap FactRefs = {}
           \/ /\ \E key, v : AddsFact(MergeTable, key, v)
              /\ (live' \ live) \cap FactRefs = {nextFact + 1}
    BY StoreMergedFacts
  <1>2. CASE /\ live' \cap FactRefs = live \cap FactRefs
             /\ (live' \ live) \cap FactRefs = {}
    <2>1. QuietFacts
      BY <1>1, <1>2 DEF QuietFacts
    <2> QED BY <1>1, <2>1, QuietStep
  <1>3. CASE /\ \E key, v : AddsFact(MergeTable, key, v)
             /\ (live' \ live) \cap FactRefs = {nextFact + 1}
    <2>1. PICK key, v : AddsFact(MergeTable, key, v)
      BY <1>3
    <2>2. kept' = kept \cup {nextFact + 1}
      BY <1>3
    <2> QED BY <1>1, <2>1, <2>2, AddStep
  <1> QED BY <1>1, <1>2, <1>3

------------------------------------------------------------------------------
(* Every effect maps to a step of the abstract graph, or to none.           *)
LEMMA EffectStep ==
    ASSUME PInv, HInv, Effect, Remember
    PROVE  HInv' /\ [Abstract!Next]_Abstract!vars
  <1>1. ASSUME NEW t \in Virtual, NEW key \in KnownKeys(t),
               NEW v \in Known \cup {FreshValue(t)}, NEW hide,
               phase = "rhs", Activate(t, key, v, hide)
        PROVE  HInv' /\ Abstract!Next
    <2>1. /\ AddsFact(t, key, v) /\ phase' = phase /\ phase # "idle"
          /\ asked' = asked /\ kept' = kept \cup {nextFact + 1}
      BY <1>1, ActivateAdds
    <2> QED BY <2>1, AddStep
  <1>2. ASSUME NEW t \in Virtual, NEW key \in KnownKeys(t), Delete(t, key)
        PROVE  HInv' /\ Abstract!Next
    <2>1. PICK f \in FactRefs : First(f, Matching(t, key)) /\ live' = live \ {f}
      BY <1>2 DEF Delete
    <2>2. f \in live \cap FactRefs
      BY <2>1 DEF First, Matching
    <2>3. phase = "rhs" /\ UNCHANGED <<root, recipe, pending, phase>>
      BY <1>2 DEF Delete, unionVars
    <2>4. asked' = asked /\ kept' = {e \in kept : ~SameKey(e, f)}
      <3>1. live \ live' = {f} /\ (live' \ live) \cap FactRefs = {}
        BY <2>1, <2>2
      <3> QED BY <3>1, <2>3, RememberRhs
    <2> QED BY <2>1, <2>2, <2>3, <2>4, RemoveStep
  <1>3. ASSUME NEW t, NEW key, Subsume(t, key)
        PROVE  HInv' /\ UNCHANGED Abstract!vars
    <2>1. phase = "rhs" /\ UNCHANGED <<root, recipe, pending, phase, live>>
      BY <1>3 DEF Subsume, unionVars
    <2>2. asked' = asked /\ kept' = kept
      BY <2>1, RememberRhs
    <2>3. QuietFacts
      BY <2>1, <2>2 DEF QuietFacts
    <2> QED BY <2>1, <2>3, QuietStep
  <1>4. ASSUME NEW a \in Made, NEW b \in Made, RequestUnion(a, b)
        PROVE  HInv' /\ Abstract!Next
    <2>1. /\ phase = "rhs" /\ pending' = Append(pending, <<a, b>>)
          /\ live' = live /\ pending \in Seq(Made \X Made)
      BY <1>4 DEF RequestUnion, rowVars, PInv, IInv, TypeOK
    <2>2. NewlyAsked = {<<a, b>>}
      <3> DEFINE pair == <<a, b>>
      <3>1. /\ Len(pending') = Len(pending) + 1 /\ Len(pending) \in Nat
            /\ pending'[Len(pending) + 1] = pair
        <4> HIDE DEF pair
        <4> QED BY <2>1 DEF pair
      <3>2. (Len(pending) + 1)..Len(pending') = {Len(pending) + 1}
        BY <3>1
      <3>3. NewlyAsked = {pending'[Len(pending) + 1]}
        BY <3>2 DEF NewlyAsked
      <3> QED BY <3>1, <3>3
    <2>3. asked' = asked \cup {<<a, b>>} /\ kept' = kept
      BY <2>1, <2>2 DEF Remember, Undeleted
    <2> QED BY <1>4, <2>3, AskStep
  <1>5. ASSUME NEW t \in Constructors, NEW key \in KnownKeys(t), NEW v \in Known,
               SetExisting(t, key, v)
        PROVE  HInv' /\ Abstract!Next
    <2>1. PICK f \in FactRefs : /\ First(f, Matching(t, key))
                                /\ RequestUnion(Row(f).value, v)
      BY <1>5 DEF SetExisting
    <2>2. f \in DOMAIN recipe /\ recipe[f].table \in Constructors
      BY <2>1 DEF First, Matching, PInv, IInv, TypeOK
    <2>3. Row(f).value \in Made /\ v \in Made
      BY <2>2, ValueOfRow, KnownIsCanonical DEF PInv, IInv
    <2> QED BY <1>4, <2>1, <2>3
  <1>6. ASSUME NEW a \in Known, NEW b \in Known, RequestUnion(a, b)
        PROVE  HInv' /\ Abstract!Next
    BY <1>4, <1>6, KnownIsCanonical DEF PInv, IInv
  <1>7. ASSUME NEW t \in Virtual, NEW key \in KnownKeys(t),
               Construct(t, key) \/ SubsumeFresh(t, key)
        PROVE  HInv' /\ Abstract!Next
    BY <1>1, <1>7 DEF Construct, SubsumeFresh
  <1>8. ASSUME NEW t \in Constructors, NEW key \in KnownKeys(t), NEW v \in Known,
               SetFact(t, key, v)
        PROVE  HInv' /\ Abstract!Next
    BY <1>1, <1>8 DEF SetFact, Virtual
  <1> QED BY <1>2, <1>3, <1>5, <1>6, <1>7, <1>8 DEF Effect
(* The start of a Run maps to a step of the abstract graph.                 *)
LEMMA OpenStep ==
    ASSUME HInv, BeginRun, UNCHANGED <<asked, kept>>
    PROVE  HInv' /\ Abstract!Next
  <1> USE DEF HInv
  <1>1. /\ phase = "idle" /\ phase' = "rhs"
        /\ UNCHANGED <<root, pending, recipe, live, asked, kept>>
    BY DEF BeginRun, unionVars
  <1>2. KeptFacts'
    BY <1>1 DEF KeptFacts
  <1>3. AskedOwed'
    BY <1>1 DEF AskedOwed, Owed, Agrees
  <1>4. Heirs'
    <2>1. \A c : Agrees(c)' <=> Agrees(c)
      BY <1>1 DEF Agrees
    <2>2. \A f, g : Heir(f, g) => Heir(f, g)'
      BY <1>1, <2>1 DEF Heir, Owed, SameKey, CanonKey, Canon
    <2> QED BY <1>1, <2>2 DEF Heirs
  <1>5. PendingForced'
    BY <1>1 DEF PendingForced
  <1>6. Abstract!Open
    BY <1>1 DEF Abstract!Open
  <1> QED BY <1>2, <1>3, <1>4, <1>5, <1>6 DEF Abstract!Next

(* repair(): a union, a re-filed or collapsed fact, or the end of the Run.  *)
LEMMA RepairStepMaps ==
    ASSUME PInv, HInv, RepairStep, Remember
    PROVE  HInv' /\ [Abstract!Next]_Abstract!vars
  <1>1. phase = "repair"
    BY DEF RepairStep, ApplyUnion, RepairFact, NextDirty, Publish
  <1>2. live' \subseteq live => UNCHANGED <<asked, kept>>
    BY <1>1 DEF Remember
  <1>3. CASE ApplyUnion
    <2>1. live' = live
      BY <1>3 DEF ApplyUnion
    <2> QED BY <1>2, <1>3, <2>1, ApplyUnionStep
  <1>4. ASSUME NEW f \in FactRefs, RepairFact(f)
        PROVE  HInv' /\ [Abstract!Next]_Abstract!vars
    <2>1. CASE Reindex(f)
      <3>1. UNCHANGED <<root, pending, recipe, live, phase>>
        BY <1>4, <2>1 DEF RepairFact, Reindex
      <3>2. QuietFacts
        BY <1>2, <3>1 DEF QuietFacts
      <3> QED BY <3>1, <3>2, QuietStep
    <2>2. ASSUME NEW g \in FactRefs, Collapse(f, g)
          PROVE  HInv' /\ [Abstract!Next]_Abstract!vars
      <3>1. live' \subseteq live
        BY <2>2 DEF Collapse
      <3> QED BY <1>2, <1>4, <2>2, <3>1, CollapseStep
    <2> QED BY <1>4, <2>1, <2>2 DEF RepairFact
  <1>5. CASE Publish
    <2>1. live' = live
      BY <1>5 DEF Publish, rowVars
    <2> QED BY <1>2, <1>5, <2>1, SealStep
  <1> QED BY <1>3, <1>4, <1>5 DEF RepairStep

(* set_function() and hide() of a port.                                     *)
LEMMA PortEffectMaps ==
    ASSUME PInv, HInv, NEW t \in FunTables, NEW key \in KnownKeys(t)
    PROVE  /\ \A v \in PortValues(t) :
                 WritePort(t, key, v) /\ Remember =>
                    HInv' /\ [Abstract!Next]_Abstract!vars
           /\ DeletePort(t, key) /\ UNCHANGED <<asked, kept>> =>
                 HInv' /\ [Abstract!Next]_Abstract!vars
  <1>1. ASSUME NEW v \in PortValues(t), SetNewPort(t, key, v), Remember
        PROVE  HInv' /\ [Abstract!Next]_Abstract!vars
    <2> DEFINE i == MaxFact + nextPort + 1
               r == [table |-> t, key |-> key, value |-> v]
    <2>1. /\ phase = "rhs" /\ nextPort < NumPorts
          /\ recipe' = Put(recipe, i, r)
          /\ live' = live \cup {i}
          /\ UNCHANGED <<root, pending, phase>>
      BY <1>1 DEF SetNewPort, unionVars
    <2>2. i \notin FactRefs
      <3>1. nextPort \in 0..NumPorts
        BY DEF PInv, TypePorts
      <3> QED BY <3>1, BoundsAssumption DEF FactRefs
    <2>3. \A f \in DOMAIN recipe \cap FactRefs :
             f \in DOMAIN recipe' /\ recipe'[f] = recipe[f]
      BY <2>1, <2>2 DEF Put
    <2>4. live \ live' = {} /\ (live' \ live) \cap FactRefs = {}
          /\ live' \cap FactRefs = live \cap FactRefs
      BY <2>1, <2>2
    <2>5. asked' = asked /\ kept' = kept
      BY <1>1, <2>1, <2>4, RememberRhs
    <2>6. QuietFacts
      BY <2>1, <2>3, <2>4, <2>5 DEF QuietFacts
    <2> QED BY <2>1, <2>6, QuietStep
  <1>2. ASSUME NEW v \in PortValues(t), SetPort(t, key, v), Remember
        PROVE  HInv' /\ [Abstract!Next]_Abstract!vars
    <2> DEFINE j == functionKeys[<<t, key>>]
    <2>1. /\ phase = "rhs" /\ j # 0
          /\ StoreMerged(j, v, {})
      BY <1>2 DEF SetPort
    <2>2. <<t, key>> \in FunKeys
      BY KnownKey DEF FunTables, FunKeys, PInv, IInv
    <2>3. j \in LivePorts /\ recipe[j].table = t
      BY <2>1, <2>2 DEF TypePorts, DirectoryExact, LivePorts, PInv
    <2>4. v \in ValueType(recipe[j].table) /\ (v \in Ids => root[v] = v)
      BY <2>3, ValuesAssumption, KnownIsCanonical
         DEF PortValues, ValueType, PInv, IInv
    <2> HIDE DEF j
    <2>5. {} \in SUBSET (LivePorts \ {j})
      OBVIOUS
    <2>6. live \ live' = {} /\ pending' = pending
      BY <2>1, <2>3, <2>4, <2>5, StoreMergedFacts
    <2>7. asked' = asked /\ kept' = kept \cup ((live' \ live) \cap FactRefs)
      BY <1>2, <2>1, <2>6, RememberRhs
    <2> QED BY <2>1, <2>3, <2>4, <2>5, <2>7, MergeStep
  <1>3. ASSUME phase = "rhs", UNCHANGED allVars, Remember
        PROVE  HInv' /\ [Abstract!Next]_Abstract!vars
    <2>1. UNCHANGED <<root, pending, recipe, live, phase>>
      BY <1>3 DEF allVars, vars, unionVars, rowVars
    <2>2. asked' = asked /\ kept' = kept
      BY <1>3, <2>1, RememberRhs
    <2>3. QuietFacts
      BY <2>1, <2>2 DEF QuietFacts
    <2> QED BY <2>1, <2>3, QuietStep
  <1>4. ASSUME DeletePort(t, key), UNCHANGED <<asked, kept>>
        PROVE  HInv' /\ [Abstract!Next]_Abstract!vars
    <2> DEFINE i == functionKeys[<<t, key>>]
    <2>1. /\ i # 0 /\ live' = live \ {i}
          /\ UNCHANGED <<root, pending, recipe, phase>>
      BY <1>4 DEF DeletePort, unionVars
    <2>2. <<t, key>> \in FunKeys
      BY KnownKey DEF FunTables, FunKeys, PInv, IInv
    <2>3. i \in LivePorts
      BY <2>1, <2>2 DEF TypePorts, DirectoryExact, LivePorts, PInv
    <2>4. i \notin FactRefs
      BY <2>3, PortKey
    <2> HIDE DEF i
    <2>5. QuietFacts
      BY <1>4, <2>1, <2>4 DEF QuietFacts
    <2> QED BY <2>1, <2>5, QuietStep
  <1> QED BY <1>1, <1>2, <1>3, <1>4 DEF WritePort

(* repair() of a port.                                                      *)
LEMMA RepairPortMaps ==
    ASSUME PInv, HInv, NEW i \in Ports, Rekey(i) \/ MergePorts(i), Remember
    PROVE  HInv' /\ [Abstract!Next]_Abstract!vars
  <1>1. phase = "repair"
    BY DEF Rekey, MergePorts, NextDirty
  <1>2. asked' = asked /\ kept' = kept \cup ((live' \ live) \cap FactRefs)
    BY <1>1 DEF Remember
  <1>3. CASE Rekey(i)
    <2>1. /\ recipe' = [recipe EXCEPT ![i] = Row(i)]
          /\ UNCHANGED <<root, pending, live, phase>>
      BY <1>3 DEF Rekey
    <2>2. i \notin FactRefs
      BY PortNumbers
    <2>3. QuietFacts
      BY <1>2, <2>1, <2>2 DEF QuietFacts
    <2> QED BY <2>1, <2>3, QuietStep
  <1>4. CASE MergePorts(i)
    <2> DEFINE j == Holder(i)
               old == <<recipe[i].table, recipe[i].key>>
               new == <<recipe[i].table, Row(i).key>>
    <2>1. /\ NextDirty(i) /\ j \notin {0, i}
          /\ StoreMerged(j, Row(i).value, {i})
      BY <1>4 DEF MergePorts
    <2>2. /\ i \in LivePorts
          /\ Row(i).value \in ValueType(recipe[i].table)
          /\ Row(i).value \in Ids => root[Row(i).value] = Row(i).value
          /\ new \in FunKeys
      BY <2>1, DirtyPort
    <2>3. \A k \in FunKeys : Released(i)[k] = IF k = old THEN 0 ELSE functionKeys[k]
      BY <2>2, ReleasedEntry
    <2>4. /\ j \in LivePorts /\ j # i
          /\ <<recipe[j].table, recipe[j].key>> = new
      <3>1. j = functionKeys[new] /\ new # old
        BY <2>1, <2>2, <2>3 DEF Holder
      <3> QED BY <3>1, <2>1, <2>2 DEF TypePorts, DirectoryExact, LivePorts, PInv
    <2>5. Row(i).value \in ValueType(recipe[j].table)
      BY <2>2, <2>4
    <2>6. {i} \in SUBSET (LivePorts \ {j})
      BY <2>2, <2>4
    <2> HIDE DEF j
    <2> QED BY <1>1, <1>2, <2>1, <2>2, <2>4, <2>5, <2>6, MergeStep
  <1> QED BY <1>3, <1>4

(* Every step maps to a step of the abstract graph or stutters.             *)
LEMMA HistoryStep ==
    ASSUME PInv, HInv, [NextHistory]_<<allVars, history>>
    PROVE  HInv' /\ [Abstract!Next]_Abstract!vars
  <1>1. CASE BeginRun /\ UNCHANGED <<asked, kept>>
    BY <1>1, OpenStep
  <1>2. CASE Effect /\ Remember
    BY <1>2, EffectStep
  <1>3. CASE BeginRepair /\ Remember
    <2>1. /\ phase = "rhs" /\ phase' = "repair"
          /\ UNCHANGED <<root, pending, recipe, live>>
      BY <1>3 DEF BeginRepair, unionVars, rowVars
    <2>2. asked' = asked /\ kept' = kept
      BY <1>3, <2>1, RememberRhs
    <2>3. QuietFacts
      BY <2>1, <2>2 DEF QuietFacts
    <2> QED BY <2>1, <2>3, QuietStep
  <1>4. CASE RepairStep /\ Remember
    BY <1>4, RepairStepMaps
  <1>5. CASE \E t \in FunTables \cap RuleTables : \E key \in KnownKeys(t) :
                \/ \E v \in PortValues(t) : WritePort(t, key, v) /\ Remember
                \/ DeletePort(t, key) /\ UNCHANGED <<asked, kept>>
    BY <1>5, PortEffectMaps
  <1>6. CASE RepairPort /\ Remember
    BY <1>6, RepairPortMaps DEF RepairPort
  <1>7. CASE UNCHANGED <<allVars, history>>
    <2>1. UNCHANGED <<root, pending, recipe, live, phase, asked, kept>>
      BY <1>7 DEF allVars, vars, unionVars, rowVars, history
    <2>2. QuietFacts
      BY <2>1 DEF QuietFacts
    <2> QED BY <2>1, <2>2, QuietStep
  <1> QED BY <1>1, <1>2, <1>3, <1>4, <1>5, <1>6, <1>7 DEF NextHistory

(* The empty graph maps to the empty abstract graph.                        *)
LEMMA InitHistoryMaps == InitHistory => HInv /\ Abstract!Init
  <1> SUFFICES ASSUME InitHistory PROVE HInv /\ Abstract!Init
    OBVIOUS
  <1>1. /\ asked = {} /\ kept = {} /\ live = {} /\ pending = <<>>
        /\ root = [i \in Ids |-> i] /\ phase = "idle"
    BY DEF InitHistory, InitPorts, Init
  <1>2. HInv
    BY <1>1 DEF HInv, KeptFacts, AskedOwed, Heirs, PendingForced
  <1>3. Abstract!Init
    BY <1>1 DEF Abstract!Init
  <1> QED BY <1>2, <1>3

(* The fact graph implements EGraph: no two classes are merged without a    *)
(* request or a congruence that forces it, no key is interned twice, and a  *)
(* Run is published only when every request and every congruence holds      *)
(* (construct, union, repair, run).                                         *)
THEOREM RefinesEGraph == SpecHistory => ImplementsEGraph
  <1>1. SpecHistory => [](PInv /\ HInv)
    <2>1. InitHistory => HInv
      BY InitHistoryMaps
    <2>2. PInv /\ HInv /\ [NextHistory]_<<allVars, history>> => HInv'
      BY HistoryStep
    <2> QED BY <2>1, <2>2, HistoryPorts, PTL DEF SpecHistory
  <1>2. InitHistory => Abstract!Init
    BY InitHistoryMaps
  <1>3. PInv /\ HInv /\ [NextHistory]_<<allVars, history>>
            => [Abstract!Next]_Abstract!vars
    BY HistoryStep
  <1> QED BY <1>1, <1>2, <1>3, PTL
      DEF SpecHistory, ImplementsEGraph, Abstract!Spec
------------------------------------------------------------------------------
(* Ports that keep the least value.  A key under the naming c of classes.   *)
KeyIn(c, k) == [i \in DOMAIN k |-> IF k[i] \in Ids THEN c[k[i]] ELSE k[i]]

(* Row r is stored under the key that write w was for.                      *)
Holds(c, r, w) == r.table = w.table /\ KeyIn(c, r.key) = KeyIn(c, w.key)
KeepsLeast(t) == MergeKind[t] = "min"

WritesTyped ==
    \A w \in writes : /\ w.table \in FunTables
                      /\ w.key \in [1..Arity[w.table] -> Made]
                      /\ KeepsLeast(w.table) => w.value \in Scalars

(* No write is less than the value of its port, ...                         *)
Bounded ==
    \A w \in writes : KeepsLeast(w.table) =>
        \E i \in LivePorts : /\ Holds(root, recipe[i], w)
                             /\ recipe[i].value <= w.value

(* ... and that value was written.                                          *)
Stems ==
    \A i \in LivePorts : KeepsLeast(recipe[i].table) =>
        \E x \in writes : /\ Holds(root, recipe[i], x)
                          /\ x.value = recipe[i].value

JInv == WritesTyped /\ Bounded /\ Stems

(* The value of a port that keeps the least one is a number.                *)
LEMMA LeastIsNumber ==
    ASSUME PInv, NEW i \in LivePorts, KeepsLeast(recipe[i].table)
    PROVE  /\ recipe[i].value \in Scalars /\ recipe[i].value \in Int
           /\ recipe[i].value \notin Ids /\ Canon(recipe[i].value) = recipe[i].value
  <1>1. recipe[i].table \in FunTables /\ recipe[i].value \in Scalars
    BY PortKey DEF PInv, TypedPorts, ValueType, KeepsLeast
  <1> QED BY <1>1, MergeAssumption, ValuesAssumption
      DEF KeepsLeast, FunTables, Canon

(* Renaming classes keeps equal keys equal.                                 *)
LEMMA EqualKeysStay ==
    ASSUME TypeOK, root' \in [Ids -> Ids],
           \A x, y \in Ids : root[x] = root[y] => root'[x] = root'[y],
           NEW n, NEW a \in [1..n -> Ids], NEW b \in [1..n -> Ids],
           KeyIn(root, a) = KeyIn(root, b)
    PROVE  KeyIn(root', a) = KeyIn(root', b)
  <1>1. \A i \in 1..n : a[i] \in Ids /\ b[i] \in Ids
    OBVIOUS
  <1>2. /\ KeyIn(root, a) = [i \in 1..n |-> root[a[i]]]
        /\ KeyIn(root, b) = [i \in 1..n |-> root[b[i]]]
        /\ KeyIn(root', a) = [i \in 1..n |-> root'[a[i]]]
        /\ KeyIn(root', b) = [i \in 1..n |-> root'[b[i]]]
    BY <1>1 DEF KeyIn
  <1>3. ASSUME NEW i \in 1..n
        PROVE  root[a[i]] = root[b[i]]
    <2>1. KeyIn(root, a)[i] = root[a[i]] /\ KeyIn(root, b)[i] = root[b[i]]
      BY <1>2
    <2> QED BY <2>1
  <1> QED BY <1>1, <1>2, <1>3

(* A step keeps the least values if equal keys stay equal, every port's     *)
(* value is bounded by that of a port with its key, every new write is, and *)
(* every value stems from a value or a write with its key.                  *)
LEMMA LeastMoves ==
    ASSUME PInv, PInv', WritesTyped, WritesTyped', Bounded, Stems,
           \A i \in LivePorts : \A w \in writes :
              Holds(root, recipe[i], w) => Holds(root', recipe[i], w),
           \A i \in LivePorts : KeepsLeast(recipe[i].table) =>
              \E h \in LivePorts' :
                 /\ Holds(root', recipe'[h], recipe[i])
                 /\ recipe'[h].value <= recipe[i].value,
           writes \subseteq writes',
           \A w \in writes' \ writes : KeepsLeast(w.table) =>
              \E h \in LivePorts' : /\ Holds(root', recipe'[h], w)
                                    /\ recipe'[h].value <= w.value,
           \A h \in LivePorts' : KeepsLeast(recipe'[h].table) =>
              \/ \E i \in LivePorts : /\ Holds(root', recipe'[h], recipe[i])
                                      /\ recipe[i].value = recipe'[h].value
              \/ \E x \in writes' : /\ Holds(root', recipe'[h], x)
                                    /\ x.value = recipe'[h].value
    PROVE  JInv'
  <1>1. Bounded'
    <2> SUFFICES ASSUME NEW w \in writes', KeepsLeast(w.table)
                 PROVE  \E h \in LivePorts' : /\ Holds(root', recipe'[h], w)
                                              /\ recipe'[h].value <= w.value
      BY DEF Bounded, KeepsLeast
    <2>1. CASE w \notin writes
      BY <2>1
    <2>2. CASE w \in writes
      <3>1. PICK i \in LivePorts : /\ Holds(root, recipe[i], w)
                                   /\ recipe[i].value <= w.value
        BY <2>2 DEF Bounded
      <3>2. Holds(root', recipe[i], w) /\ recipe[i].table = w.table
        BY <2>2, <3>1 DEF Holds
      <3>3. PICK h \in LivePorts' : /\ Holds(root', recipe'[h], recipe[i])
                                    /\ recipe'[h].value <= recipe[i].value
        BY <3>2
      <3>4. recipe'[h].table = w.table /\ Holds(root', recipe'[h], w)
        BY <3>2, <3>3 DEF Holds
      <3>5. recipe[i].value \in Int
        BY <3>2, LeastIsNumber
      <3>6. w.value \in Int
        BY <2>2, MergeAssumption DEF WritesTyped, KeepsLeast, FunTables
      <3>7. recipe'[h].value \in Int
        <4>1. (recipe[h].value \in Scalars)'
          <5>1. recipe'[h].table \in FunTables /\ KeepsLeast(recipe'[h].table)
            BY <2>2, <3>4 DEF WritesTyped
          <5> QED BY <5>1 DEF PInv, TypedPorts, ValueType, KeepsLeast
        <4> QED BY <4>1, <2>2, MergeAssumption
            DEF WritesTyped, KeepsLeast, FunTables
      <3>8. recipe'[h].value <= w.value
        BY <3>1, <3>3, <3>5, <3>6, <3>7
      <3> QED BY <3>4, <3>8
    <2> QED BY <2>1, <2>2
  <1>2. Stems'
    <2> SUFFICES ASSUME NEW h \in LivePorts', KeepsLeast(recipe'[h].table)
                 PROVE  \E x \in writes' : /\ Holds(root', recipe'[h], x)
                                           /\ x.value = recipe'[h].value
      BY DEF Stems, KeepsLeast
    <2>1. ASSUME NEW i \in LivePorts, Holds(root', recipe'[h], recipe[i]),
                 recipe[i].value = recipe'[h].value
          PROVE  \E x \in writes' : /\ Holds(root', recipe'[h], x)
                                    /\ x.value = recipe'[h].value
      <3>1. recipe[i].table = recipe'[h].table
        BY <2>1 DEF Holds
      <3>2. PICK x \in writes : /\ Holds(root, recipe[i], x)
                                /\ x.value = recipe[i].value
        BY <3>1 DEF Stems
      <3>3. Holds(root', recipe[i], x)
        BY <3>2
      <3>4. Holds(root', recipe'[h], x)
        BY <2>1, <3>3 DEF Holds
      <3> QED BY <2>1, <3>2, <3>4
    <2> QED BY <2>1
  <1> QED BY <1>1, <1>2 DEF JInv
(* A key in canonical form is named by the roots.                           *)
LEMMA CanonIsKeyIn == \A k : CanonKey(k) = KeyIn(root, k)
  BY DEF CanonKey, Canon, KeyIn

(* A write to a port records a value of the program.                        *)
LEMMA WriteKeepsTyped ==
    ASSUME PInv, WritesTyped, Made \subseteq Made', NEW t \in FunTables,
           NEW key \in KnownKeys(t), NEW v \in PortValues(t),
           writes' = writes \cup {[table |-> t, key |-> key, value |-> v]}
    PROVE  WritesTyped'
  <1>1. key \in [1..Arity[t] -> Made]
    BY KnownKey DEF FunTables, PInv, IInv
  <1>2. KeepsLeast(t) => v \in Scalars
    BY DEF KeepsLeast, PortValues
  <1> DEFINE w0 == [table |-> t, key |-> key, value |-> v]
  <1>3. ASSUME NEW w \in writes'
        PROVE  /\ w.table \in FunTables
               /\ w.key \in [1..Arity[w.table] -> Made']
               /\ KeepsLeast(w.table) => w.value \in Scalars
    <2>1. CASE w \in writes
      BY <2>1 DEF WritesTyped
    <2>2. CASE w = w0
      BY <2>2, <1>1, <1>2
    <2> QED BY <2>1, <2>2
  <1> QED BY <1>3 DEF WritesTyped, KeepsLeast

(* What the graph does to its facts and classes.                            *)
LEMMA FactStepLeast ==
    ASSUME PInv, PInv', JInv, Next, UNCHANGED writes
    PROVE  JInv'
  <1> USE DEF JInv
  <1>1. /\ LivePorts' = LivePorts /\ Made \subseteq Made'
        /\ \A i \in LivePorts : recipe'[i] = recipe[i]
    <2>1. LivePorts \subseteq DOMAIN recipe
      BY PortKey
    <2> QED BY <2>1, FactStep DEF LivePorts, PInv
  <1>2. \A x, y \in Ids : root[x] = root[y] => root'[x] = root'[y]
    <2>1. \/ root' = root
          \/ \E lo, hi \in Made : LinkRoots(lo, hi)
      BY FactStep DEF PInv
    <2> QED BY <2>1 DEF LinkRoots
  <1>3. WritesTyped'
    BY <1>1 DEF WritesTyped, KeepsLeast
  <1>4. TypeOK /\ root' \in [Ids -> Ids] /\ Made \subseteq Ids
    <2>1. TypeOK /\ TypeOK'
      BY DEF PInv, IInv
    <2> QED BY <2>1, Numbering DEF TypeOK, Made
  <1>5. ASSUME NEW i \in LivePorts, NEW w \in writes, Holds(root, recipe[i], w)
        PROVE  Holds(root', recipe[i], w)
    <2>1. recipe[i].key \in [1..Arity[recipe[i].table] -> Ids]
      BY <1>4, PortKey
    <2>2. w.key \in [1..Arity[recipe[i].table] -> Ids]
      BY <1>4, <1>5 DEF Holds, WritesTyped
    <2>3. KeyIn(root, recipe[i].key) = KeyIn(root, w.key)
      BY <1>5 DEF Holds
    <2>4. KeyIn(root', recipe[i].key) = KeyIn(root', w.key)
      BY <2>1, <2>2, <2>3, <1>2, <1>4, EqualKeysStay
    <2> QED BY <1>5, <2>4 DEF Holds
  <1>6. \A i \in LivePorts : Holds(root', recipe'[i], recipe[i])
    BY <1>1 DEF Holds
  <1>7. \A i \in LivePorts : KeepsLeast(recipe[i].table) =>
              recipe'[i].value <= recipe[i].value
    BY <1>1, LeastIsNumber
  <1> QED BY <1>1, <1>3, <1>5, <1>6, <1>7, LeastMoves

(* A minimum merge keeps a lower bound of what both sides had.              *)
LEMMA MergedIsLeast ==
    ASSUME NEW t, NEW old, NEW new, KeepsLeast(t)
    PROVE  Merged(t, old, new) = IF new < old THEN new ELSE old
  <1>1. ~ Builds(t, old, new)
    BY DEF KeepsLeast, Builds
  <1> QED BY <1>1 DEF KeepsLeast, Merged

(* A merge stores the lesser value.                                         *)
LEMMA StoreMergedLeast ==
    ASSUME PInv, NEW j \in LivePorts, NEW new \in ValueType(recipe[j].table),
           new \in Ids => root[new] = new,
           NEW gone \in SUBSET (LivePorts \ {j}),
           StoreMerged(j, new, gone),
           dirty' = dirty \ gone, changed' \in BOOLEAN
    PROVE  /\ root' = root /\ LivePorts' = LivePorts \ gone
           /\ Made \subseteq Made'
           /\ \A p \in LivePorts \ {j} : recipe'[p] = recipe[p]
           /\ recipe'[j].table = recipe[j].table
           /\ recipe'[j].key = recipe[j].key
           /\ KeepsLeast(recipe[j].table) =>
                recipe'[j].value = IF new < recipe[j].value THEN new
                                   ELSE recipe[j].value
  <1>1. /\ root' = root /\ LivePorts' = LivePorts \ gone
        /\ \A p \in LivePorts \ {j} : recipe'[p] = recipe[p]
        /\ recipe'[j].table = recipe[j].table
        /\ recipe'[j].key = recipe[j].key
    BY StoreMergedInv
  <1>2. Made \subseteq Made'
    <2>1. nextFact' = nextFact \/ nextFact' = nextFact + 1
      BY DEF StoreMerged
    <2>2. nextFact \in Nat /\ NumImports \in Nat
      BY BoundsAssumption DEF PInv, IInv, TypeOK
    <2> QED BY <2>1, <2>2 DEF Made
  <1>3. ASSUME KeepsLeast(recipe[j].table)
        PROVE  recipe'[j].value = IF new < recipe[j].value THEN new
                                  ELSE recipe[j].value
    <2> DEFINE t == recipe[j].table
               next == Merged(t, Row(j).value, new)
    <2>1. j \in DOMAIN recipe /\ IsRow(recipe[j])
      BY PortKey DEF PInv, TypedRows
    <2>2. recipe'[j] = [recipe[j] EXCEPT !.value = next]
      BY <2>1 DEF StoreMerged
    <2>3. recipe'[j].value = next
      <3> HIDE DEF next
      <3> QED BY <2>1, <2>2, RowWith
    <2>4. Row(j).value = recipe[j].value
      BY <1>3, LeastIsNumber DEF Row
    <2>5. next = IF new < Row(j).value THEN new ELSE Row(j).value
      BY <1>3, MergedIsLeast
    <2> QED BY <2>3, <2>4, <2>5
  <1> QED BY <1>1, <1>2, <1>3
(* A write to a port, or its deletion.                                      *)
LEMMA WritePortLeast ==
    ASSUME PInv, PInv', JInv, NEW t \in FunTables, NEW key \in KnownKeys(t),
           NEW v \in PortValues(t), WritePort(t, key, v)
    PROVE  JInv'
  <1> USE DEF JInv
  <1> DEFINE w == [table |-> t, key |-> key, value |-> v]
             j == functionKeys[<<t, key>>]
  <1>1. writes' = writes \cup {w}
    BY DEF WritePort
  <1>2. w.table = t /\ w.key = key /\ w.value = v
    OBVIOUS
  <1>3. <<t, key>> \in FunKeys
    BY KnownKey DEF FunTables, FunKeys, PInv, IInv
  <1>4. j # 0 => /\ j \in LivePorts
                 /\ recipe[j].table = t /\ recipe[j].key = key
    BY <1>3 DEF TypePorts, DirectoryExact, LivePorts, PInv
  <1>5. KeepsLeast(t) => v \in Int
    BY MergeAssumption DEF KeepsLeast, PortValues, FunTables
  <1>6. \A i \in LivePorts : KeepsLeast(recipe[i].table) =>
              recipe[i].value \in Int
    BY LeastIsNumber
  <1>7. ASSUME root' = root, Made \subseteq Made',
               \A i \in LivePorts : KeepsLeast(recipe[i].table) =>
                  \E h \in LivePorts' : /\ Holds(root, recipe'[h], recipe[i])
                                        /\ recipe'[h].value <= recipe[i].value,
               KeepsLeast(t) =>
                  \E h \in LivePorts' : /\ Holds(root, recipe'[h], w)
                                        /\ recipe'[h].value <= v,
               \A h \in LivePorts' : KeepsLeast(recipe'[h].table) =>
                  \/ \E i \in LivePorts : /\ Holds(root, recipe'[h], recipe[i])
                                          /\ recipe[i].value = recipe'[h].value
                  \/ /\ Holds(root, recipe'[h], w)
                     /\ v = recipe'[h].value
        PROVE  JInv'
    <2>1. WritesTyped'
      BY <1>1, <1>7, WriteKeepsTyped
    <2> HIDE DEF w
    <2>2. \A x \in writes' \ writes : KeepsLeast(x.table) =>
              \E h \in LivePorts' : /\ Holds(root', recipe'[h], x)
                                    /\ recipe'[h].value <= x.value
      BY <1>1, <1>2, <1>7
    <2>3. w \in writes' /\ writes \subseteq writes'
      BY <1>1
    <2>4. \A h \in LivePorts' : KeepsLeast(recipe'[h].table) =>
              \/ \E i \in LivePorts : /\ Holds(root', recipe'[h], recipe[i])
                                      /\ recipe[i].value = recipe'[h].value
              \/ \E x \in writes' : /\ Holds(root', recipe'[h], x)
                                    /\ x.value = recipe'[h].value
      BY <2>3, <1>2, <1>7
    <2>5. \A i \in LivePorts : \A x \in writes :
              Holds(root, recipe[i], x) => Holds(root', recipe[i], x)
      BY <1>7
    <2>6. \A i \in LivePorts : KeepsLeast(recipe[i].table) =>
              \E h \in LivePorts' : /\ Holds(root', recipe'[h], recipe[i])
                                    /\ recipe'[h].value <= recipe[i].value
      BY <1>7
    <2> QED BY <2>1, <2>2, <2>3, <2>4, <2>5, <2>6, LeastMoves
  <1>8. CASE SetNewPort(t, key, v)
    <2> DEFINE i == MaxFact + nextPort + 1
    <2>1. /\ nextPort < NumPorts
          /\ recipe' = Put(recipe, i, w)
          /\ live' = live \cup {i}
          /\ root' = root /\ Made' = Made
      BY <1>8 DEF SetNewPort, unionVars, Made
    <2>2. i \in Ports /\ i \notin DOMAIN recipe
      <3>1. nextPort \in 0..NumPorts
        BY DEF PInv, TypePorts
      <3>2. i \in Ports
        BY <2>1, <3>1, BoundsAssumption DEF Ports
      <3>3. \A n \in 1..nextPort : MaxFact + n # i
        BY <3>1, BoundsAssumption
      <3> QED BY <3>2, <3>3 DEF PInv, TypePorts
    <2> HIDE DEF i, w
    <2>3. LivePorts \subseteq DOMAIN recipe
      BY PortKey
    <2>4. /\ LivePorts' = LivePorts \cup {i}
          /\ recipe'[i] = w
          /\ \A h \in LivePorts : recipe'[h] = recipe[h]
      BY <2>1, <2>2, <2>3 DEF LivePorts, Put
    <2>5. \A h \in LivePorts : Holds(root, recipe'[h], recipe[h])
      BY <2>4 DEF Holds
    <2>6. Holds(root, recipe'[i], w)
      BY <2>4 DEF Holds
    <2>7. \A h \in LivePorts : KeepsLeast(recipe[h].table) =>
              recipe'[h].value <= recipe[h].value
      BY <2>4, <1>6
    <2>8. recipe'[i].value = v /\ (KeepsLeast(t) => recipe'[i].value <= v)
      BY <2>4, <1>2, <1>5
    <2> QED BY <2>1, <2>4, <2>5, <2>6, <2>7, <2>8, <1>7
  <1>9. CASE SetPort(t, key, v)
    <2>1. /\ j # 0 /\ StoreMerged(j, v, {}) /\ changed' = TRUE /\ dirty' = dirty
      BY <1>9 DEF SetPort
    <2>2. v \in ValueType(recipe[j].table) /\ (v \in Ids => root[v] = v)
      BY <1>4, <2>1, ValuesAssumption, KnownIsCanonical
         DEF PortValues, ValueType, PInv, IInv
    <2> HIDE DEF j, w
    <2>3. {} \in SUBSET (LivePorts \ {j}) /\ dirty' = dirty \ {}
          /\ changed' \in BOOLEAN
      BY <2>1
    <2>4. /\ root' = root /\ LivePorts' = LivePorts
          /\ Made \subseteq Made'
          /\ \A p \in LivePorts \ {j} : recipe'[p] = recipe[p]
          /\ recipe'[j].table = recipe[j].table
          /\ recipe'[j].key = recipe[j].key
          /\ KeepsLeast(recipe[j].table) =>
               recipe'[j].value = IF v < recipe[j].value THEN v
                                  ELSE recipe[j].value
      <3>1. LivePorts' = LivePorts \ {}
        BY <1>4, <2>1, <2>2, <2>3, StoreMergedLeast
      <3> QED BY <1>4, <2>1, <2>2, <2>3, <3>1, StoreMergedLeast
    <2>5. \A h \in LivePorts : Holds(root, recipe'[h], recipe[h])
      BY <2>4 DEF Holds
    <2>6. Holds(root, recipe'[j], w)
      BY <2>1, <2>4, <1>2, <1>4 DEF Holds
    <2>7. \A h \in LivePorts : KeepsLeast(recipe[h].table) =>
              recipe'[h].value <= recipe[h].value
      BY <2>4, <1>4, <1>5, <1>6, <2>1
    <2>8. KeepsLeast(t) => recipe'[j].value <= v
      BY <2>4, <1>4, <1>5, <1>6, <2>1
    <2>9. \A h \in LivePorts : KeepsLeast(recipe'[h].table) =>
              \/ recipe[h].value = recipe'[h].value
              \/ h = j /\ v = recipe'[h].value
      BY <2>4, <1>4, <2>1
    <2> QED BY <2>1, <2>4, <2>5, <2>6, <2>7, <2>8, <2>9, <1>4, <1>7
  <1>10. CASE j # 0 /\ Merged(t, Row(j).value, v) = Row(j).value /\ UNCHANGED allVars
    <2>1. UNCHANGED <<root, nextFact, recipe, live>>
      BY <1>10 DEF allVars, vars, unionVars, rowVars
    <2>2. root' = root /\ Made' = Made /\ LivePorts' = LivePorts /\ recipe' = recipe
      BY <2>1 DEF Made, LivePorts
    <2> HIDE DEF j, w
    <2>3. KeepsLeast(t) => recipe[j].value <= v
      <3> SUFFICES ASSUME KeepsLeast(t) PROVE recipe[j].value <= v
        OBVIOUS
      <3>1. Row(j).value = recipe[j].value /\ recipe[j].value \in Int
        BY <1>4, <1>10, LeastIsNumber DEF Row
      <3>2. (IF v < recipe[j].value THEN v ELSE recipe[j].value) = recipe[j].value
        BY <1>10, <3>1, MergedIsLeast
      <3> QED BY <3>1, <3>2, <1>5
    <2>4. Holds(root, recipe[j], w)
      BY <1>2, <1>4, <1>10 DEF Holds
    <2>5. \A h \in LivePorts : Holds(root, recipe[h], recipe[h])
      BY DEF Holds
    <2>6. \A h \in LivePorts : KeepsLeast(recipe[h].table) =>
              recipe[h].value <= recipe[h].value
      BY <1>6
    <2> QED BY <2>2, <2>3, <2>4, <2>5, <2>6, <1>4, <1>7, <1>10
  <1> QED BY <1>8, <1>9, <1>10 DEF WritePort

(* Deleting a port leaves the other ports with what they joined.            *)
LEMMA DeletePortLeast ==
    ASSUME PInv, PInv', JInv, NEW t \in FunTables, NEW key \in KnownKeys(t),
           DeletePort(t, key),
           writes' = {w \in writes : ~(w.table = t /\ CanonKey(w.key) = key)}
    PROVE  JInv'
  <1> USE DEF JInv
  <1> DEFINE i == functionKeys[<<t, key>>]
  <1>1. /\ phase = "rhs" /\ i # 0 /\ live' = live \ {i}
        /\ UNCHANGED <<root, nextFact, recipe>>
    BY DEF DeletePort, unionVars
  <1>2. <<t, key>> \in FunKeys /\ CanonKey(key) = key
    BY KnownKey DEF FunTables, FunKeys, PInv, IInv
  <1>3. /\ i \in LivePorts /\ recipe[i].table = t /\ recipe[i].key = key
    BY <1>1, <1>2 DEF TypePorts, DirectoryExact, LivePorts, PInv
  <1>4. LivePorts' = LivePorts \ {i} /\ Made' = Made
    BY <1>1 DEF LivePorts, Made
  <1>5. WritesTyped'
    BY <1>4 DEF WritesTyped, KeepsLeast
  <1>6. ASSUME NEW h \in LivePorts \ {i}
        PROVE  ~(recipe[h].table = t /\ CanonKey(recipe[h].key) = key)
    <2>1. dirty = {}
      BY <1>1 DEF PInv, IInv, QuietOutsideRepair
    <2>2. CanonKey(recipe[h].key) = recipe[h].key
      BY <2>1 DEF PInv, CleanPorts
    <2>3. functionKeys[<<recipe[h].table, recipe[h].key>>] = h
      BY PortKey
    <2> QED BY <2>2, <2>3
  <1> HIDE DEF i
  <1>7. Bounded'
    <2> SUFFICES ASSUME NEW w \in writes', KeepsLeast(w.table)
                 PROVE  \E h \in LivePorts' : /\ Holds(root', recipe'[h], w)
                                              /\ recipe'[h].value <= w.value
      BY DEF Bounded, KeepsLeast
    <2>1. w \in writes /\ ~(w.table = t /\ CanonKey(w.key) = key)
      OBVIOUS
    <2>2. PICK h \in LivePorts : /\ Holds(root, recipe[h], w)
                                 /\ recipe[h].value <= w.value
      BY <2>1 DEF Bounded
    <2>3. h # i
      BY <2>1, <2>2, <1>2, <1>3, CanonIsKeyIn DEF Holds
    <2> QED BY <2>2, <2>3, <1>1, <1>4
  <1>8. Stems'
    <2> SUFFICES ASSUME NEW h \in LivePorts', KeepsLeast(recipe'[h].table)
                 PROVE  \E x \in writes' : /\ Holds(root', recipe'[h], x)
                                           /\ x.value = recipe'[h].value
      BY DEF Stems, KeepsLeast
    <2>1. h \in LivePorts \ {i} /\ recipe'[h] = recipe[h]
      BY <1>1, <1>4
    <2>2. PICK x \in writes : /\ Holds(root, recipe[h], x)
                              /\ x.value = recipe[h].value
      BY <2>1 DEF Stems
    <2>3. ~(x.table = t /\ CanonKey(x.key) = key)
      BY <2>1, <2>2, <1>6, CanonIsKeyIn DEF Holds
    <2> QED BY <2>1, <2>2, <2>3, <1>1
  <1> QED BY <1>5, <1>7, <1>8
(* repair() of a port: re-keyed, or merged into the port that holds its key.*)
LEMMA RepairPortLeast ==
    ASSUME PInv, PInv', JInv, NEW i \in Ports, Rekey(i) \/ MergePorts(i),
           writes' = writes
    PROVE  JInv'
  <1> USE DEF JInv
  <1>1. /\ i \in LivePorts /\ i \in DOMAIN recipe
        /\ Row(i).table = recipe[i].table
        /\ CanonKey(Row(i).key) = Row(i).key
        /\ Row(i).key = CanonKey(recipe[i].key)
        /\ Row(i).value \in ValueType(recipe[i].table)
        /\ Row(i).value \in Ids => root[Row(i).value] = Row(i).value
        /\ <<recipe[i].table, Row(i).key>> \in FunKeys
    <2>1. NextDirty(i)
      BY DEF Rekey, MergePorts
    <2> QED BY <2>1, DirtyPort, PortKey
  <1>2. KeyIn(root, Row(i).key) = KeyIn(root, recipe[i].key)
    BY <1>1, CanonIsKeyIn
  <1>3. KeepsLeast(recipe[i].table) => Row(i).value = recipe[i].value
    BY <1>1, LeastIsNumber DEF Row
  <1>4. \A h \in LivePorts : KeepsLeast(recipe[h].table) =>
              recipe[h].value \in Int
    BY LeastIsNumber
  <1>5. ASSUME root' = root, Made \subseteq Made',
               \A h \in LivePorts : KeepsLeast(recipe[h].table) =>
                  \E g \in LivePorts' : /\ Holds(root, recipe'[g], recipe[h])
                                        /\ recipe'[g].value <= recipe[h].value,
               \A g \in LivePorts' : KeepsLeast(recipe'[g].table) =>
                  \E h \in LivePorts : /\ Holds(root, recipe'[g], recipe[h])
                                       /\ recipe[h].value = recipe'[g].value
        PROVE  JInv'
    <2>1. WritesTyped'
      BY <1>5 DEF WritesTyped, KeepsLeast
    <2> QED BY <2>1, <1>5, LeastMoves
  <1>6. CASE Rekey(i)
    <2>1. /\ recipe' = [recipe EXCEPT ![i] = Row(i)]
          /\ UNCHANGED <<root, nextFact, live>>
      BY <1>6 DEF Rekey
    <2>2. /\ recipe'[i] = Row(i) /\ LivePorts' = LivePorts /\ Made' = Made
          /\ root' = root
          /\ \A h \in LivePorts \ {i} : recipe'[h] = recipe[h]
      <3>1. LivePorts \subseteq DOMAIN recipe
        BY PortKey
      <3> HIDE DEF Made
      <3> QED BY <1>1, <2>1, <3>1 DEF LivePorts, Made
    <2>3. \A h \in LivePorts : Holds(root, recipe'[h], recipe[h])
      BY <2>2, <1>1, <1>2 DEF Holds
    <2>4. \A h \in LivePorts : KeepsLeast(recipe[h].table) =>
              /\ recipe'[h].value <= recipe[h].value
              /\ recipe'[h].value = recipe[h].value
      BY <2>2, <1>3, <1>4
    <2>5. \A h \in LivePorts : recipe'[h].table = recipe[h].table
      BY <2>3 DEF Holds
    <2> QED BY <2>2, <2>3, <2>4, <2>5, <1>5
  <1>7. CASE MergePorts(i)
    <2> DEFINE j == Holder(i)
               old == <<recipe[i].table, recipe[i].key>>
               new == <<recipe[i].table, Row(i).key>>
    <2>1. /\ j \notin {0, i}
          /\ StoreMerged(j, Row(i).value, {i})
          /\ dirty' = dirty \ {i}
          /\ changed' = (changed \/ nextFact' # nextFact)
      BY <1>7 DEF MergePorts
    <2>2. \A k \in FunKeys : Released(i)[k] = IF k = old THEN 0 ELSE functionKeys[k]
      BY <1>1, ReleasedEntry
    <2>3. /\ j \in LivePorts /\ j # i
          /\ <<recipe[j].table, recipe[j].key>> = new
      <3>1. j = functionKeys[new] /\ new # old
        BY <2>1, <2>2, <1>1 DEF Holder
      <3> QED BY <3>1, <2>1, <1>1 DEF TypePorts, DirectoryExact, LivePorts, PInv
    <2>4. /\ Row(i).value \in ValueType(recipe[j].table)
          /\ {i} \in SUBSET (LivePorts \ {j})
      BY <1>1, <2>3
    <2>5. changed' \in BOOLEAN
      BY <2>1 DEF PInv, IInv, TypeOK
    <2> HIDE DEF j
    <2>6. /\ root' = root /\ LivePorts' = LivePorts \ {i}
          /\ Made \subseteq Made'
          /\ \A p \in LivePorts \ {j} : recipe'[p] = recipe[p]
          /\ recipe'[j].table = recipe[j].table
          /\ recipe'[j].key = recipe[j].key
          /\ KeepsLeast(recipe[j].table) =>
               recipe'[j].value = IF Row(i).value < recipe[j].value
                                  THEN Row(i).value ELSE recipe[j].value
      BY <1>1, <2>1, <2>3, <2>4, <2>5, StoreMergedLeast
    <2>7. /\ Holds(root, recipe'[j], recipe[j])
          /\ Holds(root, recipe'[j], recipe[i])
          /\ \A h \in LivePorts \ {j} : Holds(root, recipe'[h], recipe[h])
      BY <2>3, <2>6, <1>2 DEF Holds
    <2>8. KeepsLeast(recipe[j].table) =>
             /\ recipe'[j].value <= recipe[j].value
             /\ recipe'[j].value <= recipe[i].value
             /\ recipe'[j].value \in {recipe[i].value, recipe[j].value}
      <3>1. recipe[i].table = recipe[j].table
        BY <2>3
      <3> QED BY <3>1, <2>3, <2>6, <1>1, <1>3, <1>4
    <2>9. ASSUME NEW h \in LivePorts, KeepsLeast(recipe[h].table)
          PROVE  \E g \in LivePorts' : /\ Holds(root, recipe'[g], recipe[h])
                                       /\ recipe'[g].value <= recipe[h].value
      <3>1. CASE h \in {i, j}
        <4>1. recipe[i].table = recipe[j].table /\ j \in LivePorts'
          BY <2>3, <2>6
        <4> QED BY <3>1, <4>1, <2>7, <2>8, <2>9
      <3>2. CASE h \notin {i, j}
        <4>1. h \in LivePorts' /\ recipe'[h].value <= recipe[h].value
          BY <3>2, <2>6, <2>9, <1>4
        <4> QED BY <3>2, <4>1, <2>7
      <3> QED BY <3>1, <3>2
    <2>10. ASSUME NEW g \in LivePorts', KeepsLeast(recipe'[g].table)
           PROVE  \E h \in LivePorts : /\ Holds(root, recipe'[g], recipe[h])
                                       /\ recipe[h].value = recipe'[g].value
      <3>1. CASE g = j
        BY <3>1, <2>3, <2>6, <2>7, <2>8, <2>10, <1>1
      <3>2. CASE g # j
        BY <3>2, <2>6, <2>7
      <3> QED BY <3>1, <3>2
    <2> QED BY <2>6, <2>9, <2>10, <1>5
  <1> QED BY <1>6, <1>7

(* Every step keeps the join of a port's writes in its value.               *)
LEMMA LeastNext ==
    ASSUME PInv, PInv', JInv, [NextHistory]_<<allVars, history>>
    PROVE  JInv'
  <1> USE DEF JInv
  <1>1. CASE Next /\ writes' = writes
    BY <1>1, FactStepLeast
  <1>2. CASE \E t \in FunTables \cap RuleTables : \E key \in KnownKeys(t) :
                \E v \in PortValues(t) : WritePort(t, key, v)
    BY <1>2, WritePortLeast
  <1>3. CASE \E t \in FunTables \cap RuleTables : \E key \in KnownKeys(t) :
                /\ DeletePort(t, key)
                /\ writes' = {w \in writes :
                                ~(w.table = t /\ CanonKey(w.key) = key)}
    BY <1>3, DeletePortLeast
  <1>4. CASE RepairPort /\ writes' = writes
    BY <1>4, RepairPortLeast DEF RepairPort
  <1>5. CASE UNCHANGED <<allVars, history>>
    <2>1. UNCHANGED <<root, nextFact, recipe, live, writes>>
      BY <1>5 DEF allVars, vars, unionVars, rowVars, history
    <2> QED BY <2>1 DEF WritesTyped, Bounded, Stems, Made, LivePorts, Holds,
                        KeyIn, KeepsLeast
  <1> QED BY <1>1, <1>2, <1>3, <1>4, <1>5 DEF NextHistory, Next

(* A "min" port holds the least of all values written to the keys that have *)
(* become its key, in whatever order writes, unions and merges happened     *)
(* (merge_value, set_function, repair).                                     *)
THEOREM PortsJoin == SpecHistory => []PortJoin
  <1>1. InitHistory => JInv
    <2> SUFFICES ASSUME InitHistory PROVE JInv
      OBVIOUS
    <2>1. writes = {} /\ live = {}
      BY DEF InitHistory, InitPorts, Init
    <2> QED BY <2>1 DEF JInv, WritesTyped, Bounded, Stems, LivePorts
  <1>2. PInv /\ PInv' /\ JInv /\ [NextHistory]_<<allVars, history>> => JInv'
    BY LeastNext
  <1>3. PInv /\ JInv => PortJoin
    <2> SUFFICES ASSUME PInv, JInv, phase = "idle",
                        NEW w \in writes, MergeKind[w.table] = "min"
                 PROVE  \E i \in LivePorts :
                          /\ recipe[i].table = w.table
                          /\ recipe[i].key = CanonKey(w.key)
                          /\ recipe[i].value <= w.value
                          /\ \E x \in writes :
                                /\ x.table = w.table
                                /\ CanonKey(x.key) = CanonKey(w.key)
                                /\ x.value = recipe[i].value
      BY DEF PortJoin
    <2>1. PICK i \in LivePorts : /\ Holds(root, recipe[i], w)
                                 /\ recipe[i].value <= w.value
      BY DEF JInv, Bounded, KeepsLeast
    <2>2. recipe[i].table = w.table /\ CanonKey(recipe[i].key) = CanonKey(w.key)
      BY <2>1, CanonIsKeyIn DEF Holds
    <2>3. CanonKey(recipe[i].key) = recipe[i].key
      BY DEF PInv, IInv, QuietOutsideRepair, CleanPorts
    <2>4. PICK x \in writes : /\ Holds(root, recipe[i], x)
                              /\ x.value = recipe[i].value
      BY <2>2 DEF JInv, Stems, KeepsLeast
    <2>5. x.table = w.table /\ CanonKey(x.key) = CanonKey(w.key)
      BY <2>2, <2>4, CanonIsKeyIn DEF Holds
    <2> QED BY <2>1, <2>2, <2>3, <2>4, <2>5
  <1> QED BY <1>1, <1>2, <1>3, HistoryPorts, PTL DEF SpecHistory
==============================================================================
