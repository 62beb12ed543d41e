--------------------------- MODULE QueryIndexProofs ---------------------------
(***************************************************************************)
(* The column indexes answer what the tables would, for every program,     *)
(* fingerprint and scope.  The indexes are only patched from the notes; so *)
(* the invariant says, of every row that was not noted and is not waiting  *)
(* for its repair, that the index still has it as it is.                   *)
(***************************************************************************)
EXTENDS QueryIndex, CellGraphProofs

(* Rows the indexes need not have as they are now.                         *)
Unsure == queryChanges \cup dirty
Noted(t) == {d \in queryChanges : recipe[d].table = t}

Notes ==
    /\ queryChanges \subseteq DOMAIN recipe
    /\ behind = {t \in DOMAIN index : Noted(t) # {}}
    /\ phase = "idle" => queryChanges = {}

(* An index files rows of its table only, and every row that is not unsure *)
(* where it belongs.                                                       *)
Indexes(ix) ==
    \A t \in DOMAIN ix :
        /\ t \in Indexed
        /\ DOMAIN ix[t] = {"keys", "leased"}
        /\ \A d \in DOMAIN ix[t].keys :
              /\ d \in DOMAIN recipe /\ recipe[d].table = t
              /\ DOMAIN ix[t].keys[d] = Columns(t)
KeysExact(ix) ==
    \A t \in DOMAIN ix : \A d \in Dependency \ Unsure :
        /\ d \in DOMAIN ix[t].keys <=> d \in Visible(t)
        /\ d \in Visible(t) => ix[t].keys[d] = Prints(d)

IsBucket(b) ==
    \E t \in Indexed : \E c \in Columns(t) : \E v \in Values : b = <<t, c, Fingerprint(v)>>

(* What is cached on a bucket is what the bucket holds.                    *)
ViewsExact(v, ix) ==
    \A b \in DOMAIN v :
        /\ IsBucket(b) /\ b[1] \in DOMAIN ix
        /\ DOMAIN v[b] = {"facts", "held"}
        /\ v[b].facts = FactsIn(ix, b)
RefinedExact(r, ix) ==
    \A x \in DOMAIN r :
        /\ IsBucket(x[1]) /\ x[1][1] \in DOMAIN ix
        /\ r[x] = Refine(ix, FactsIn(ix, x[1]), x[1][1], x[2])

(* The rows a reader saw are the answers among the rows outside U, unless  *)
(* a row of Lost says why not.                                             *)
Same(s, U) == {Row(d) : d \in Answers(s.table, s.bound) \ U}
Tied(s, U, Lost) ==
    Same(s, U) \subseteq s.rows /\ (s.rows \subseteq Same(s, U) \/ Lost # {})

LeaseShape(s) ==
    /\ DOMAIN s = {"table", "whole", "seen", "bucket", "bound", "rows", "fresh"}
    /\ s.table \in Indexed
    /\ s.whole \in BOOLEAN /\ s.seen \in BOOLEAN /\ s.fresh \in BOOLEAN
    /\ s.whole => ~s.seen /\ s.bound = <<>>
    /\ ~s.whole => \E c \in DOMAIN s.bound :
          /\ c \in Columns(s.table) /\ s.bound[c] \in Values
          /\ s.bucket = BucketAt(s.table, c, s.bound)
Waiting(t) == {d \in dirty : recipe[d].table = t}
Held(s) == s.seen /\ s.bucket \in DOMAIN views /\ views[s.bucket].held
WholeTied(s) == s.whole /\ s.fresh => Tied(s, dirty, Waiting(s.table))
SeenTied(s) ==
    Held(s) => /\ index[s.table].leased
               /\ Tied(s, Unsure, Unsure \cap FactsIn(index, s.bucket))
Leases ==
    \A s \in lease :
        /\ LeaseShape(s)
        /\ WholeTied(s)
        /\ SeenTied(s)
        /\ ~s.whole /\ ~s.seen => s.rows = {}

QInv ==
    /\ IInv
    /\ Notes
    /\ Indexes(index)
    /\ KeysExact(index)
    /\ ViewsExact(views, index)
    /\ RefinedExact(refined, index)
    /\ Leases

------------------------------------------------------------------------------
(* A row that agrees with a binding is printed where the binding points.    *)
LEMMA AgreePrints ==
    ASSUME NEW t, NEW bound, NEW d \in Answers(t, bound), NEW c \in DOMAIN bound,
           c \in Columns(t)
    PROVE  /\ d \in Visible(t) /\ DOMAIN Prints(d) = Columns(t)
           /\ Prints(d)[c] = Fingerprint(bound[c])
  BY DEF Answers, Visible, Witnesses, Agree, Prints

(* A row that was not noted and does not wait is in the buckets its answers *)
(* are read from.                                                           *)
LEMMA AnswersFiled ==
    ASSUME TypeOK, NEW ix, KeysExact(ix), NEW t \in DOMAIN ix, NEW bound,
           NEW c \in DOMAIN bound, c \in Columns(t),
           NEW d \in Answers(t, bound) \ Unsure
    PROVE  d \in FactsIn(ix, BucketAt(t, c, bound))
  <1>1. d \in Visible(t) /\ Prints(d)[c] = Fingerprint(bound[c])
    BY AgreePrints
  <1>2. d \in Dependency
    BY <1>1 DEF Visible, Witnesses, TypeOK
  <1>3. d \in DOMAIN ix[t].keys /\ ix[t].keys[d] = Prints(d)
    BY <1>1, <1>2 DEF KeysExact
  <1> QED BY <1>1, <1>3 DEF FactsIn, BucketAt

(* The rows of an index are finitely many.                                  *)
LEMMA FiniteKeys ==
    ASSUME TypeOK, NEW ix, Indexes(ix), NEW t \in DOMAIN ix
    PROVE  IsFiniteSet(DOMAIN ix[t].keys)
  <1>1. DOMAIN ix[t].keys \subseteq FactRefs \cup Ports
    BY DEF Indexes, TypeOK, Dependency
  <1>2. IsFiniteSet(FactRefs) /\ IsFiniteSet(Ports)
    BY FS_Interval, BoundsAssumption DEF FactRefs, Ports
  <1> QED BY <1>1, <1>2, FS_Union, FS_Subset

(* best() picks the bucket of one of the bound columns.                     *)
LEMMA BestIs ==
    ASSUME TypeOK, NEW ix, Indexes(ix), NEW t \in DOMAIN ix,
           NEW bound \in BoundsOf(t), bound # <<>>
    PROVE  \E c \in DOMAIN bound :
              /\ c \in Columns(t) /\ bound[c] \in Values
              /\ Best(ix, t, bound) = BucketAt(t, c, bound)
  <1> DEFINE D == DOMAIN bound
             size(c) == SizeAt(ix, t, c, bound)
             Before(c, e) == \/ size(c) < size(e)
                             \/ size(c) = size(e) /\ c <= e
             first == CHOOSE c \in D : \A e \in D : Before(c, e)
  <1>1. /\ bound \in [D -> Values] /\ D \subseteq Columns(t)
        /\ t \in Tables
    BY QueryAssumption DEF BoundsOf, Indexes
  <1>2. D # {}
    <2>1. ASSUME D = {} PROVE FALSE
      <3>1. bound = [c \in {} |-> bound[c]]
        BY <1>1, <2>1
      <3>2. bound = <<>>
        BY <3>1
      <3> QED BY <3>2
    <2> QED BY <2>1
  <1>3. Columns(t) \subseteq Nat
    BY <1>1, TablesAssumption DEF Columns
  <1>4. \A c \in D : size(c) \in Nat
    <2> SUFFICES ASSUME NEW c \in D PROVE size(c) \in Nat
      OBVIOUS
    <2>1. FactsIn(ix, BucketAt(t, c, bound)) \subseteq DOMAIN ix[t].keys
      BY DEF FactsIn, BucketAt
    <2>2. IsFiniteSet(FactsIn(ix, BucketAt(t, c, bound)))
      BY <2>1, FiniteKeys, FS_Subset
    <2> QED BY <2>2, FS_CardinalityType DEF SizeAt
  <1>5. \E c \in D : \A e \in D : Before(c, e)
    <2> HIDE DEF size
    <2> DEFINE M == {size(c) : c \in D}
    <2>1. PICK m \in M : \A n \in M : m <= n
      BY <1>2, <1>4, Least
    <2> DEFINE E == {c \in D : size(c) = m}
    <2>2. E \subseteq Nat /\ E # {}
      BY <1>1, <1>3
    <2>3. PICK c \in E : \A e \in E : c <= e
      <3> HIDE DEF E
      <3> QED BY <2>2, Least
    <2>4. ASSUME NEW e \in D PROVE Before(c, e)
      <3>1. size(c) = m /\ m <= size(e) /\ size(e) \in Nat /\ m \in Nat
        BY <1>4, <2>1, <2>3
      <3> QED BY <3>1, <2>3
    <2> QED BY <2>3, <2>4
  <1>6. first \in D
    <2> HIDE DEF Before
    <2> QED BY <1>5
  <1>7. Best(ix, t, bound) = BucketAt(t, first, bound)
    BY DEF Best
  <1> HIDE DEF first
  <1> QED BY <1>1, <1>6, <1>7

------------------------------------------------------------------------------
(* 1. The graph's steps.  A step notes the rows N; a row that is neither    *)
(* noted nor waiting is as it was.                                          *)
Carried(N) ==
    /\ \A d \in DOMAIN recipe : d \in DOMAIN recipe' /\ recipe'[d] = recipe[d]
    /\ \A d \in dirty : d \in N \/ d \in dirty'
    /\ \A d \in Dependency \ (N \cup dirty') :
          /\ d \in live' <=> d \in live
          /\ d \in hidden' <=> d \in hidden
          /\ d \in live => Row(d)' = Row(d)

LEMMA CarriedRow ==
    ASSUME TypeOK, TypeOK', NEW N, Carried(N), NEW d \in Dependency \ (N \cup dirty'),
           NEW t, NEW bound
    PROVE  /\ d \in Visible(t)' <=> d \in Visible(t)
           /\ d \in Visible(t) => /\ Prints(d)' = Prints(d)
                                  /\ Row(d)' = Row(d)
           /\ d \in Answers(t, bound)' <=> d \in Answers(t, bound)
  <1>1. /\ d \in live' <=> d \in live
        /\ d \in hidden' <=> d \in hidden
        /\ d \in live => /\ d \in DOMAIN recipe
                         /\ recipe'[d] = recipe[d] /\ Row(d)' = Row(d)
    BY DEF Carried, TypeOK
  <1>2. d \in Visible(t)' <=> d \in Visible(t)
    BY <1>1 DEF Visible, Witnesses
  <1>3. d \in Visible(t) => d \in live
    BY DEF Visible, Witnesses
  <1>4. d \in live => Prints(d)' = Prints(d)
    BY <1>1 DEF Prints
  <1>5. d \in Answers(t, bound)' <=> d \in Answers(t, bound)
    BY <1>1, <1>2, <1>3 DEF Answers
  <1> QED BY <1>1, <1>2, <1>3, <1>4, <1>5

(* What a note does to the lease: only `fresh` may go.                      *)
LEMMA NoteLease ==
    ASSUME Leases, NEW N, Note(N), NEW r \in lease'
    PROVE  \E s \in lease :
              /\ LeaseShape(s) /\ LeaseShape(r)
              /\ r.table = s.table /\ r.whole = s.whole /\ r.seen = s.seen
              /\ r.bucket = s.bucket /\ r.bound = s.bound /\ r.rows = s.rows
              /\ r.fresh => s.fresh /\ \A d \in N : recipe'[d].table # s.table
  <1> DEFINE T == {recipe'[d].table : d \in N}
  <1>1. lease' = {[s EXCEPT !.fresh = @ /\ s.table \notin T] : s \in lease}
    BY DEF Note
  <1> HIDE DEF T
  <1>2. PICK s \in lease : r = [s EXCEPT !.fresh = s.fresh /\ s.table \notin T]
    BY <1>1
  <1>3. LeaseShape(s)
    BY DEF Leases
  <1>4. /\ DOMAIN r = DOMAIN s
        /\ r.table = s.table /\ r.whole = s.whole /\ r.seen = s.seen
        /\ r.bucket = s.bucket /\ r.bound = s.bound /\ r.rows = s.rows
        /\ r.fresh = (s.fresh /\ s.table \notin T)
    BY <1>2, <1>3 DEF LeaseShape
  <1>5. r.fresh \in BOOLEAN
    BY <1>4
  <1>6. LeaseShape(r)
    BY <1>3, <1>4, <1>5 DEF LeaseShape
  <1>7. r.fresh => s.fresh /\ \A d \in N : recipe'[d].table # s.table
    BY <1>4 DEF T
  <1> QED BY <1>3, <1>4, <1>6, <1>7

(* A lease on a whole table.                                                *)
LEMMA WholeCarried ==
    ASSUME TypeOK, TypeOK', DirtyLive, NEW N, Carried(N), NEW s, NEW r,
           r.table = s.table, r.bound = s.bound, r.rows = s.rows,
           \A d \in N : recipe'[d].table # s.table,
           Tied(s, dirty, Waiting(s.table))
    PROVE  Tied(r, dirty, Waiting(r.table))'
  <1> DEFINE t == s.table
             bound == s.bound
  <1>1. ASSUME NEW d \in Answers(t, bound)' \ dirty'
        PROVE  d \in Answers(t, bound) \ dirty /\ Row(d)' = Row(d)
    <2>1. d \in Visible(t)' /\ d \in Dependency /\ recipe'[d].table = t
      BY DEF Answers, Visible, Witnesses, TypeOK
    <2>2. d \notin N
      BY <2>1
    <2>3. d \notin dirty
      BY <2>2 DEF Carried
    <2>4. d \in Answers(t, bound) /\ d \in Visible(t)
      BY <2>1, <2>2, CarriedRow
    <2> QED BY <2>1, <2>2, <2>3, <2>4, CarriedRow
  <1>2. ASSUME NEW d \in Answers(t, bound) \ dirty, d \notin dirty'
        PROVE  d \in Answers(t, bound)' \ dirty' /\ Row(d)' = Row(d)
    <2>1. d \in Visible(t) /\ d \in DOMAIN recipe /\ recipe[d].table = t /\ d \in Dependency
      BY DEF Answers, Visible, Witnesses, TypeOK
    <2>2. d \notin N
      BY <2>1 DEF Carried
    <2> QED BY <1>2, <2>1, <2>2, CarriedRow
  <1>3. ASSUME NEW d \in Answers(t, bound), d \in dirty'
        PROVE  d \in Waiting(t)'
    <2>1. d \in DOMAIN recipe /\ recipe[d].table = t
      BY DEF Answers, Visible, Witnesses, TypeOK
    <2> QED BY <1>3, <2>1 DEF Waiting, Carried
  <1>4. ASSUME NEW d \in Waiting(t) PROVE d \in Waiting(t)'
    <2>1. d \in dirty /\ recipe[d].table = t /\ d \in DOMAIN recipe
      BY DEF Waiting, DirtyLive, TypeOK
    <2> QED BY <2>1 DEF Waiting, Carried
  <1>5. Same(r, dirty)' \subseteq r.rows
    BY <1>1 DEF Same, Tied
  <1>6. Waiting(t)' = {} => r.rows \subseteq Same(r, dirty)'
    BY <1>2, <1>3, <1>4 DEF Same, Tied
  <1> QED BY <1>5, <1>6 DEF Tied

(* A lease on the view of a bucket.                                         *)
LEMMA SeenCarried ==
    ASSUME TypeOK, TypeOK', Indexes(index), KeysExact(index), NEW N, Carried(N),
           queryChanges' = queryChanges \cup N, index' = index,
           NEW s, NEW r, s.table \in DOMAIN index,
           r.table = s.table, r.bound = s.bound, r.rows = s.rows, r.bucket = s.bucket,
           NEW c \in DOMAIN s.bound, c \in Columns(s.table),
           s.bucket = BucketAt(s.table, c, s.bound),
           Tied(s, Unsure, Unsure \cap FactsIn(index, s.bucket))
    PROVE  Tied(r, Unsure, Unsure \cap FactsIn(index, r.bucket))'
  <1> DEFINE t == s.table
             bound == s.bound
             B == FactsIn(index, s.bucket)
  <1>1. Unsure' = queryChanges \cup N \cup dirty' /\ Unsure \subseteq Unsure'
    BY DEF Unsure, Carried
  <1>2. FactsIn(index, r.bucket)' = B
    BY DEF FactsIn
  <1>3. ASSUME NEW d \in Answers(t, bound)' \ Unsure'
        PROVE  d \in Answers(t, bound) \ Unsure /\ Row(d)' = Row(d)
    <2>1. d \in Visible(t)' /\ d \in Dependency
      BY DEF Answers, Visible, Witnesses, TypeOK
    <2>2. d \notin N \cup dirty' /\ d \notin Unsure
      BY <1>1
    <2> QED BY <2>1, <2>2, CarriedRow
  <1>4. ASSUME NEW d \in Answers(t, bound) \ Unsure, d \notin Unsure'
        PROVE  d \in Answers(t, bound)' \ Unsure' /\ Row(d)' = Row(d)
    <2>1. d \in Visible(t) /\ d \in Dependency
      BY DEF Answers, Visible, Witnesses, TypeOK
    <2>2. d \notin N \cup dirty'
      BY <1>1, <1>4
    <2> QED BY <1>4, <2>1, <2>2, CarriedRow
  <1>5. \A d \in Answers(t, bound) \ Unsure : d \in B
    BY AnswersFiled
  <1>6. Same(r, Unsure)' \subseteq r.rows
    BY <1>3 DEF Same, Tied
  <1>7. (Unsure' \cap B) = {} => r.rows \subseteq Same(r, Unsure)'
    BY <1>1, <1>4, <1>5 DEF Same, Tied
  <1> QED BY <1>2, <1>6, <1>7 DEF Tied

LEMMA CarriedInv ==
    ASSUME QInv, IInv', NEW N, N \subseteq DOMAIN recipe', Carried(N), Note(N),
           phase' # "idle"
    PROVE  QInv'
  <1>0. /\ IInv /\ Notes /\ Indexes(index) /\ KeysExact(index) /\ Leases
        /\ ViewsExact(views, index) /\ RefinedExact(refined, index)
        /\ TypeOK /\ TypeOK' /\ DirtyLive
    BY DEF QInv, IInv
  <1>1. /\ queryChanges' = queryChanges \cup N
        /\ behind' = behind \cup ({recipe'[d].table : d \in N} \cap DOMAIN index)
        /\ index' = index /\ views' = views /\ refined' = refined
    BY DEF Note, indexesOf
  <1>2. \A d \in queryChanges : d \in DOMAIN recipe' /\ recipe'[d] = recipe[d]
    BY <1>0 DEF Notes, Carried
  <1>3. Notes'
    <2>1. \A t : Noted(t)' = Noted(t) \cup {d \in N : recipe'[d].table = t}
      BY <1>1, <1>2 DEF Noted
    <2> QED BY <1>0, <1>1, <1>2, <2>1 DEF Notes
  <1>4. Indexes(index)'
    <2>1. \A d \in DOMAIN recipe : d \in DOMAIN recipe' /\ recipe'[d] = recipe[d]
      BY DEF Carried
    <2> QED BY <1>0, <1>1, <2>1 DEF Indexes, Columns
  <1>5. KeysExact(index)'
    <2> SUFFICES ASSUME NEW t \in DOMAIN index, NEW d \in Dependency \ Unsure'
                 PROVE  /\ d \in DOMAIN index[t].keys <=> d \in Visible(t)'
                        /\ d \in Visible(t)' => index[t].keys[d] = Prints(d)'
      BY <1>1 DEF KeysExact
    <2>1. d \notin N \cup dirty' /\ d \notin Unsure
      BY <1>1 DEF Unsure, Carried
    <2>2. /\ d \in DOMAIN index[t].keys <=> d \in Visible(t)
          /\ d \in Visible(t) => index[t].keys[d] = Prints(d)
      BY <1>0, <2>1 DEF KeysExact
    <2> QED BY <1>0, <2>1, <2>2, CarriedRow
  <1>6. ViewsExact(views, index)' /\ RefinedExact(refined, index)'
    BY <1>0, <1>1 DEF ViewsExact, RefinedExact, FactsIn, Refine, IsBucket, Columns
  <1>7. Leases'
    <2> SUFFICES ASSUME NEW r \in lease'
                 PROVE  /\ LeaseShape(r) /\ WholeTied(r)' /\ SeenTied(r)'
                        /\ ~r.whole /\ ~r.seen => r.rows = {}
      BY DEF Leases, LeaseShape, BucketAt, Columns
    <2>1. PICK s \in lease :
             /\ LeaseShape(s) /\ LeaseShape(r)
             /\ r.table = s.table /\ r.whole = s.whole /\ r.seen = s.seen
             /\ r.bucket = s.bucket /\ r.bound = s.bound /\ r.rows = s.rows
             /\ r.fresh => s.fresh /\ \A d \in N : recipe'[d].table # s.table
      BY <1>0, NoteLease
    <2>2. /\ WholeTied(s) /\ SeenTied(s)
          /\ ~s.whole /\ ~s.seen => s.rows = {}
      BY <1>0 DEF Leases
    <2>3. WholeTied(r)'
      <3> SUFFICES ASSUME r.whole, r.fresh PROVE Tied(r, dirty, Waiting(r.table))'
        BY DEF WholeTied
      <3>1. Tied(s, dirty, Waiting(s.table))
        BY <2>1, <2>2 DEF WholeTied
      <3> QED BY <1>0, <2>1, <3>1, WholeCarried
    <2>4. SeenTied(r)'
      <3> SUFFICES ASSUME Held(r)'
                   PROVE  /\ index[s.table].leased
                          /\ Tied(r, Unsure, Unsure \cap FactsIn(index, r.bucket))'
        BY <1>1, <2>1 DEF SeenTied
      <3>1. Held(s) /\ s.bucket \in DOMAIN views
        BY <1>1, <2>1 DEF Held
      <3>2. index[s.table].leased /\ Tied(s, Unsure, Unsure \cap FactsIn(index, s.bucket))
        BY <2>2, <3>1 DEF SeenTied
      <3>3. ~s.whole
        BY <2>1, <3>1 DEF LeaseShape, Held
      <3>4. PICK c \in DOMAIN s.bound : c \in Columns(s.table)
                                        /\ s.bucket = BucketAt(s.table, c, s.bound)
        BY <2>1, <3>3 DEF LeaseShape
      <3>5. s.table \in DOMAIN index
        BY <1>0, <3>1, <3>4 DEF ViewsExact, BucketAt
      <3> QED BY <1>0, <1>1, <2>1, <3>2, <3>4, <3>5, SeenCarried
    <2> QED BY <2>1, <2>2, <2>3, <2>4
  <1> QED BY <1>3, <1>4, <1>5, <1>6, <1>7 DEF QInv

(* The actions of the graph, and what each notes.                           *)
LEMMA ActivateCarried ==
    ASSUME IInv, IInv', NEW t, NEW key, NEW v, NEW hide, Activate(t, key, v, hide)
    PROVE  Carried({nextFact'}) /\ nextFact' \in DOMAIN recipe'
  <1>1. /\ nextFact' = nextFact + 1 /\ nextFact' \notin DOMAIN recipe
        /\ recipe' = Put(recipe, nextFact', [table |-> t, key |-> key, value |-> v])
        /\ live' = live \cup {nextFact'}
        /\ hidden' \subseteq hidden \cup {nextFact'} /\ hidden \subseteq hidden'
        /\ root' = root /\ dirty' = dirty
    <2>1. nextFact' \in FactRefs /\ nextFact' \notin 1..nextFact
      BY BoundsAssumption DEF Activate, IInv, TypeOK, FactRefs
    <2>2. nextFact' \notin DOMAIN recipe
      BY <2>1 DEF IInv, TypeOK
    <2> QED BY <2>2 DEF Activate, unionVars
  <1>2. \A d \in DOMAIN recipe : d \in DOMAIN recipe' /\ recipe'[d] = recipe[d]
    BY <1>1 DEF Put
  <1>3. \A d \in live : Row(d)' = Row(d)
    BY <1>1, <1>2 DEF Row, CanonKey, Canon, IInv, TypeOK
  <1>4. nextFact' \in DOMAIN recipe'
    BY <1>1 DEF Put
  <1> QED BY <1>1, <1>2, <1>3, <1>4 DEF Carried

(* A step that leaves the classes alone.                                    *)
LEMMA QuietCarried ==
    ASSUME NEW N, UNCHANGED <<root, recipe>>, dirty \subseteq dirty' \cup N,
           \A d \in Dependency \ N :
              (d \in live' <=> d \in live) /\ (d \in hidden' <=> d \in hidden)
    PROVE  Carried(N)
  <1>1. \A d : Row(d)' = Row(d)
    BY DEF Row, CanonKey, Canon
  <1> QED BY <1>1 DEF Carried

LEMMA EffectCarried == ASSUME QInv, NotedEffect PROVE QInv'
  <1>1. IInv /\ phase \in {"idle", "rhs", "repair"} /\ TypeOK
    BY DEF QInv, IInv, TypeOK
  <1>2. Effect /\ IInv'
    <2>1. Effect
      BY DEF NotedEffect, Effect
    <2> QED BY <1>1, <2>1, EffectInv
  <1>3. ASSUME NEW t \in Virtual \cap RuleTables, NEW key \in KnownKeys(t),
               Construct(t, key) \/ SubsumeFresh(t, key), Note({nextFact'})
        PROVE  QInv'
    <2>1. phase' = "rhs" /\ Carried({nextFact'}) /\ nextFact' \in DOMAIN recipe'
      <3>1. /\ phase = "rhs"
            /\ \/ Activate(t, key, FreshValue(t), FALSE)
               \/ Activate(t, key, FreshValue(t), TRUE)
        BY <1>3 DEF Construct, SubsumeFresh
      <3>2. phase' = phase
        BY <3>1 DEF Activate
      <3> QED BY <1>1, <1>2, <3>1, <3>2, ActivateCarried
    <2> QED BY <1>2, <1>3, <2>1, CarriedInv
  <1>4. ASSUME NEW t \in Virtual \cap RuleTables, NEW key \in KnownKeys(t),
               Subsume(t, key) \/ Delete(t, key), Note(Existing(t, key))
        PROVE  QInv'
    <2>1. PICK f \in FactRefs :
             /\ First(f, Matching(t, key))
             /\ phase' = "rhs" /\ UNCHANGED <<root, recipe, dirty>>
             /\ \A d \in Dependency \ {f} :
                   (d \in live' <=> d \in live) /\ (d \in hidden' <=> d \in hidden)
      BY <1>4 DEF Subsume, Delete, unionVars
    <2>2. f \in Existing(t, key)
      BY <2>1 DEF Existing
    <2>3. Carried(Existing(t, key))
      BY <2>1, <2>2, QuietCarried
    <2>4. Existing(t, key) \subseteq DOMAIN recipe'
      BY <1>1, <2>1 DEF Existing, First, Matching, TypeOK
    <2> QED BY <1>2, <1>4, <2>1, <2>3, <2>4, CarriedInv
  <1>5. ASSUME NEW t \in Constructors \cap RuleTables, NEW key \in KnownKeys(t), NEW v \in Known,
               SetFact(t, key, v), Note({nextFact'})
        PROVE  QInv'
    <2>1. phase' = "rhs" /\ Carried({nextFact'}) /\ nextFact' \in DOMAIN recipe'
      <3>1. phase = "rhs" /\ Activate(t, key, v, FALSE)
        BY <1>5 DEF SetFact
      <3>2. phase' = phase
        BY <3>1 DEF Activate
      <3> QED BY <1>1, <1>2, <3>1, <3>2, ActivateCarried
    <2> QED BY <1>2, <1>5, <2>1, CarriedInv
  <1>6. ASSUME NEW a, NEW b, RequestUnion(a, b), NoteNothing PROVE QInv'
    <2>1. phase' = "rhs" /\ UNCHANGED <<root, recipe, dirty, live, hidden>>
      BY <1>6 DEF RequestUnion, rowVars
    <2>2. Carried({})
      BY <2>1, QuietCarried
    <2> QED BY <1>2, <1>6, <2>1, <2>2, CarriedInv DEF NoteNothing
  <1>7. ASSUME NEW t, NEW key, NEW v, SetExisting(t, key, v), NoteNothing PROVE QInv'
    BY <1>6, <1>7 DEF SetExisting
  <1> QED BY <1>3, <1>4, <1>5, <1>6, <1>7 DEF NotedEffect

(* A union makes every row dirty that it changes.                           *)
LEMMA UnionCarried == ASSUME QInv, ApplyUnion, NoteNothing PROVE QInv'
  <1>1. IInv /\ IInv' /\ TypeOK
    BY ApplyUnionInv DEF QInv, IInv
  <1>2. /\ phase' = "repair" /\ UNCHANGED <<recipe, live, hidden>>
        /\ \/ UNCHANGED <<root, dirty>>
           \/ \E lo, hi \in Ids : LinkRoots(lo, hi)
    <2>1. /\ phase' = phase /\ phase = "repair" /\ UNCHANGED <<recipe, live, hidden>>
          /\ \/ UNCHANGED <<root, dirty>>
             \/ LinkRoots(root[Head(pending)[1]], root[Head(pending)[2]])
             \/ LinkRoots(root[Head(pending)[2]], root[Head(pending)[1]])
      BY DEF ApplyUnion
    <2>2. Head(pending) \in Made \X Made
      BY <1>1 DEF ApplyUnion, TypeOK
    <2>3. \A i \in Made : root[i] \in Ids
      BY <1>1, RootOfMade DEF IInv
    <2> QED BY <2>1, <2>2, <2>3
  <1>3. CASE UNCHANGED <<root, dirty>>
    <2>1. Carried({})
      BY <1>2, <1>3, QuietCarried
    <2> QED BY <1>1, <1>2, <2>1, CarriedInv DEF NoteNothing
  <1>4. ASSUME NEW lo \in Ids, NEW hi \in Ids, LinkRoots(lo, hi) PROVE QInv'
    <2>1. /\ root' = [i \in Ids |-> IF root[i] = hi THEN lo ELSE root[i]]
          /\ dirty' = dirty \cup uses[hi]
      BY <1>4 DEF LinkRoots
    <2>2. ASSUME NEW d \in live, d \notin dirty' PROVE Row(d)' = Row(d)
      <3>1. \A x \in Refs(recipe[d]) : root[x] # hi
        BY <1>1, <2>1, <2>2, ListedWhereMentioned DEF IInv
      <3>2. \A x \in Refs(recipe[d]) : root'[x] = root[x]
        BY <2>1, <3>1 DEF Refs
      <3>3. CanonKey(recipe[d].key)' = CanonKey(recipe[d].key)
        BY <1>2, <3>2 DEF CanonKey, Canon, Refs
      <3>4. Canon(recipe[d].value)' = Canon(recipe[d].value)
        BY <1>2, <3>2 DEF Canon, Refs
      <3> QED BY <1>2, <3>3, <3>4 DEF Row
    <2>3. Carried({})
      BY <1>2, <2>1, <2>2 DEF Carried
    <2> QED BY <1>1, <1>2, <2>3, CarriedInv DEF NoteNothing
  <1> QED BY <1>2, <1>3, <1>4

LEMMA RepairCarried == ASSUME QInv, NEW f \in FactRefs, NotedRepair(f) PROVE QInv'
  <1> DEFINE N == {f} \cup {g \in FactRefs : First(g, Owners(f))}
  <1>1. IInv /\ IInv' /\ TypeOK /\ Note(N) /\ RepairFact(f)
    BY RepairFactInv DEF QInv, IInv, NotedRepair
  <1>2. /\ phase' = "repair" /\ UNCHANGED <<root, recipe>> /\ dirty' = dirty \ {f}
        /\ \/ UNCHANGED <<live, hidden>>
           \/ \E g \in FactRefs :
                 /\ First(g, Owners(f)) /\ live' = live \ {f}
                 /\ hidden' = (hidden \ {f}) \cup {x \in {g} : f \in hidden}
    BY <1>1 DEF RepairFact, NextDirty, Reindex, Collapse
  <1>3. Carried(N)
    <2>1. \A d \in Dependency \ N :
             (d \in live' <=> d \in live) /\ (d \in hidden' <=> d \in hidden)
      BY <1>2
    <2> QED BY <1>2, <2>1, QuietCarried
  <1>4. N \subseteq DOMAIN recipe'
    <2>1. f \in live
      BY <1>1 DEF RepairFact, NextDirty, First, IInv, DirtyLive
    <2>2. Owners(f) \subseteq live
      BY DEF Owners
    <2> QED BY <1>1, <1>2, <2>1, <2>2 DEF First, TypeOK
  <1> HIDE DEF N
  <1> QED BY <1>1, <1>2, <1>3, <1>4, CarriedInv

------------------------------------------------------------------------------
(* 2. Reading.  Between Runs nothing is unsure; an index that is built for  *)
(* the read is as exact as one that was kept.                               *)
rowsOf == <<root, recipe, live, hidden, dirty>>

LEMMA SameRows ==
    ASSUME UNCHANGED rowsOf
    PROVE  /\ \A t : Visible(t)' = Visible(t) /\ Waiting(t)' = Waiting(t)
           /\ \A d : Row(d)' = Row(d) /\ Prints(d)' = Prints(d)
           /\ \A t, bound : Answers(t, bound)' = Answers(t, bound)
  <1>1. \A d : Row(d)' = Row(d) /\ Prints(d)' = Prints(d)
    BY DEF rowsOf, Row, CanonKey, Canon, Prints
  <1>2. \A t : Visible(t)' = Visible(t) /\ Waiting(t)' = Waiting(t)
    BY DEF rowsOf, Visible, Witnesses, Waiting
  <1> QED BY <1>1, <1>2 DEF Answers

LEMMA Idle ==
    ASSUME QInv, phase = "idle"
    PROVE  /\ queryChanges = {} /\ dirty = {} /\ Unsure = {} /\ behind = {}
           /\ TypeOK /\ \A t : Visible(t) \subseteq DOMAIN recipe /\ Visible(t) \subseteq Dependency
  <1>1. queryChanges = {} /\ dirty = {} /\ TypeOK
    BY DEF QInv, Notes, IInv, QuietOutsideRepair
  <1>2. behind = {}
    BY <1>1 DEF QInv, Notes, Noted
  <1> QED BY <1>1, <1>2 DEF Unsure, Visible, Witnesses, TypeOK

LEMMA EnsuredIs ==
    ASSUME QInv, phase = "idle", NEW t \in Indexed
    PROVE  /\ t \in DOMAIN Ensured(t) /\ DOMAIN Ensured(t) = DOMAIN index \cup {t}
           /\ \A u \in DOMAIN index : Ensured(t)[u] = index[u]
           /\ DOMAIN EnsuredViews(t) = DOMAIN views
           /\ \A b \in DOMAIN views : EnsuredViews(t)[b] = views[b]
           /\ Indexes(Ensured(t)) /\ KeysExact(Ensured(t))
           /\ ViewsExact(EnsuredViews(t), Ensured(t))
           /\ RefinedExact(EnsuredRefined(t), Ensured(t))
  <1>1. /\ Unsure = {} /\ behind = {}
        /\ \A u : Visible(u) \subseteq DOMAIN recipe /\ Visible(u) \subseteq Dependency
    BY Idle
  <1>2. /\ Indexes(index) /\ KeysExact(index)
        /\ ViewsExact(views, index) /\ RefinedExact(refined, index)
    BY DEF QInv
  <1>3. CASE t \in DOMAIN index
    <2>1. Ensured(t) = index /\ EnsuredViews(t) = views /\ EnsuredRefined(t) = refined
      BY <1>1, <1>3 DEF Ensured, EnsuredViews, EnsuredRefined, Current
    <2> QED BY <1>2, <1>3, <2>1
  <1>4. CASE t \notin DOMAIN index
    <2> DEFINE ix == Ensured(t)
    <2>1. ix = Put(index, t, Built(t)) /\ ~Current(t)
      BY <1>4 DEF Ensured, Current
    <2>2. /\ DOMAIN ix = DOMAIN index \cup {t} /\ ix[t] = Built(t)
          /\ \A u \in DOMAIN index : ix[u] = index[u]
      BY <1>4, <2>1 DEF Put
    <2> HIDE DEF ix
    <2>3. /\ DOMAIN Built(t) = {"keys", "leased"}
          /\ DOMAIN Built(t).keys = Visible(t)
          /\ \A d \in Visible(t) : Built(t).keys[d] = Prints(d)
      BY DEF Built
    <2>4. \A d \in Visible(t) : recipe[d].table = t /\ DOMAIN Prints(d) = Columns(t)
      BY DEF Visible, Witnesses, Prints
    <2>5. Indexes(ix)
      BY <1>1, <1>2, <2>2, <2>3, <2>4 DEF Indexes
    <2>6. KeysExact(ix)
      BY <1>2, <2>2, <2>3 DEF KeysExact
    <2>7. \A b : b[1] \in DOMAIN index => FactsIn(ix, b) = FactsIn(index, b)
      BY <2>2 DEF FactsIn
    <2>8. /\ DOMAIN EnsuredViews(t) = DOMAIN views
          /\ \A b \in DOMAIN views : EnsuredViews(t)[b] = views[b]
      <3>1. OfTable(t, views) = {}
        BY <1>2, <1>4 DEF OfTable, ViewsExact
      <3> QED BY <2>1, <3>1 DEF EnsuredViews, Without
    <2>9. ViewsExact(EnsuredViews(t), ix)
      BY <1>2, <2>2, <2>7, <2>8 DEF ViewsExact
    <2>10. /\ DOMAIN EnsuredRefined(t) = DOMAIN refined
           /\ \A x \in DOMAIN refined : EnsuredRefined(t)[x] = refined[x]
      <3> DEFINE gone == {b \in {x[1] : x \in DOMAIN refined} : b[1] = t}
      <3>1. gone = {}
        BY <1>2, <1>4 DEF RefinedExact
      <3>2. EnsuredRefined(t) = Unrefined(refined, gone)
        BY <2>1 DEF EnsuredRefined
      <3> HIDE DEF gone
      <3> QED BY <3>1, <3>2 DEF Unrefined
    <2>11. RefinedExact(EnsuredRefined(t), ix)
      BY <1>2, <2>2, <2>7, <2>10 DEF RefinedExact, Refine
    <2> QED BY <2>2, <2>5, <2>6, <2>8, <2>9, <2>11 DEF ix
  <1> QED BY <1>3, <1>4

(* What candidates() answers: the bucket, or its part that agrees with the  *)
(* other columns.                                                           *)
LEMMA CandidatesAre ==
    ASSUME QInv, phase = "idle", NEW t \in Indexed, NEW bound \in BoundsOf(t), bound # <<>>
    PROVE  LET ix == Ensured(t)
               b == Best(ix, t, bound)
               sel == Selectors(t, bound, b)
               all == FactsIn(ix, b)
           IN  /\ IsBucket(b) /\ b[1] = t
               /\ ViewOf(EnsuredViews(t), ix, b).facts = all
               /\ ~Exists(ix, b) => Candidates(t, bound) = {}
               /\ Exists(ix, b) /\ (~Intersection \/ sel = {}) => Candidates(t, bound) = all
               /\ Exists(ix, b) /\ Intersection /\ sel # {}
                    => Candidates(t, bound) = Refine(ix, all, t, sel)
  <1> DEFINE ix == Ensured(t)
             b == Best(ix, t, bound)
             sel == Selectors(t, bound, b)
             all == FactsIn(ix, b)
             v == EnsuredViews(t)
             r == EnsuredRefined(t)
  <1>1. /\ t \in DOMAIN ix /\ Indexes(ix) /\ TypeOK
        /\ ViewsExact(v, ix) /\ RefinedExact(r, ix)
    BY EnsuredIs, Idle
  <1>2. PICK c \in DOMAIN bound : /\ c \in Columns(t) /\ bound[c] \in Values
                                  /\ b = BucketAt(t, c, bound)
    <2> HIDE DEF ix
    <2> QED BY <1>1, BestIs
  <1>3. IsBucket(b) /\ b[1] = t
    BY <1>2 DEF IsBucket, BucketAt
  <1>4. ViewOf(v, ix, b).facts = all
    BY <1>1 DEF ViewOf, View, ViewsExact
  <1>5. <<b, sel>> \in DOMAIN r => r[<<b, sel>>] = Refine(ix, all, t, sel)
    BY <1>1, <1>3 DEF RefinedExact
  <1>6. Candidates(t, bound) =
           IF ~Exists(ix, b) THEN {}
           ELSE IF ~Intersection \/ sel = {} THEN all
           ELSE IF <<b, sel>> \in DOMAIN r THEN r[<<b, sel>>]
           ELSE Refine(ix, all, t, sel)
    BY <1>4 DEF Candidates
  <1> HIDE DEF ix, b, sel, all, v, r
  <1>7. /\ IsBucket(b) /\ b[1] = t
        /\ ViewOf(v, ix, b).facts = all
        /\ ~Exists(ix, b) => Candidates(t, bound) = {}
        /\ Exists(ix, b) /\ (~Intersection \/ sel = {}) => Candidates(t, bound) = all
        /\ Exists(ix, b) /\ Intersection /\ sel # {}
             => Candidates(t, bound) = Refine(ix, all, t, sel)
    BY <1>3, <1>4, <1>5, <1>6
  <1> QED BY <1>7 DEF ix, b, sel, all, v

(* A read that keeps every index keeps what a lease relies on.              *)
LEMMA LeaseKept ==
    ASSUME QInv, UNCHANGED rowsOf, queryChanges' = queryChanges,
           \A u \in DOMAIN index : /\ index'[u].keys = index[u].keys
                                   /\ index[u].leased => index'[u].leased,
           NEW s \in lease, Held(s)' => Held(s)
    PROVE  LeaseShape(s)' /\ WholeTied(s)' /\ SeenTied(s)'
           /\ (~s.whole /\ ~s.seen => s.rows = {})
  <1>1. /\ LeaseShape(s) /\ WholeTied(s) /\ SeenTied(s)
        /\ ~s.whole /\ ~s.seen => s.rows = {}
    BY DEF QInv, Leases
  <1>2. LeaseShape(s)'
    BY <1>1 DEF LeaseShape, BucketAt, Columns
  <1>3. \A U : Same(s, U) = {Row(d)' : d \in Answers(s.table, s.bound)' \ U}
    BY SameRows DEF Same
  <1>4. /\ Same(s, dirty)' = Same(s, dirty) /\ Same(s, Unsure)' = Same(s, Unsure)
        /\ Unsure' = Unsure /\ Waiting(s.table)' = Waiting(s.table)
    BY <1>3, SameRows DEF Same, rowsOf, Unsure
  <1>5. WholeTied(s)'
    BY <1>1, <1>4 DEF WholeTied, Tied
  <1>6. SeenTied(s)'
    <2> SUFFICES ASSUME Held(s)'
                 PROVE  /\ index'[s.table].leased
                        /\ Tied(s, Unsure, Unsure \cap FactsIn(index, s.bucket))'
      BY DEF SeenTied
    <2>1. /\ Held(s) /\ index[s.table].leased
          /\ Tied(s, Unsure, Unsure \cap FactsIn(index, s.bucket))
      BY <1>1 DEF SeenTied
    <2>2. s.bucket[1] \in DOMAIN index /\ s.bucket[1] = s.table
      BY <1>1, <2>1 DEF Held, QInv, ViewsExact, LeaseShape, BucketAt
    <2>3. FactsIn(index, s.bucket)' = FactsIn(index, s.bucket)
      BY <2>2 DEF FactsIn
    <2> QED BY <1>4, <2>1, <2>2, <2>3 DEF Tied
  <1> QED BY <1>1, <1>2, <1>5, <1>6

(* A step of a reader: the graph stays, and the notes stay empty.           *)
LEMMA ReadingInv ==
    ASSUME QInv, Reading
    PROVE  /\ IInv' /\ phase = "idle" /\ UNCHANGED rowsOf /\ queryChanges' = queryChanges
           /\ behind' = {} => Notes'
           /\ \A ix : (Indexes(ix) => Indexes(ix)') /\ (KeysExact(ix) => KeysExact(ix)')
           /\ \A v, ix : ViewsExact(v, ix) => ViewsExact(v, ix)'
           /\ \A r, ix : RefinedExact(r, ix) => RefinedExact(r, ix)'
  <1>1. phase = "idle" /\ UNCHANGED vars /\ queryChanges' = queryChanges
    BY DEF Reading
  <1>2. IInv'
    BY <1>1, NextInv DEF QInv
  <1>3. UNCHANGED rowsOf /\ phase' = phase
    BY <1>1 DEF vars, unionVars, rowVars, rowsOf
  <1>4. queryChanges = {} /\ Unsure = {} /\ Unsure' = {}
    BY <1>1, <1>3, Idle DEF Unsure, rowsOf
  <1>5. behind' = {} => Notes'
    BY <1>1, <1>4 DEF Notes, Noted
  <1>6. \A ix : (Indexes(ix) => Indexes(ix)') /\ (KeysExact(ix) => KeysExact(ix)')
    BY <1>3, <1>4, SameRows DEF Indexes, KeysExact, Columns, rowsOf
  <1>7. /\ \A v, ix : ViewsExact(v, ix) => ViewsExact(v, ix)'
        /\ \A r, ix : RefinedExact(r, ix) => RefinedExact(r, ix)'
    BY DEF ViewsExact, RefinedExact, FactsIn, Refine, IsBucket, Columns
  <1> QED BY <1>1, <1>2, <1>3, <1>5, <1>6, <1>7

LEMMA SearchInv ==
    ASSUME QInv, NEW t \in Indexed, NEW bound \in BoundsOf(t), Search(t, bound)
    PROVE  QInv'
  <1> DEFINE ix == Ensured(t)
             b == Best(ix, t, bound)
             v == EnsuredViews(t)
             r == EnsuredRefined(t)
             view == ViewOf(v, ix, b)
             sel == Selectors(t, bound, b)
             found == Candidates(t, bound)
  <1>1. /\ Reading /\ bound # <<>>
        /\ index' = ix /\ behind' = behind \ {t} /\ lease' = lease
        /\ views' = IF Exists(ix, b) THEN Put(v, b, view) ELSE v
        /\ refined' = IF Exists(ix, b) /\ Intersection /\ found \notin {{}, view.facts}
                      THEN Put(r, <<b, sel>>, found) ELSE r
    BY DEF Search
  <1>2. phase = "idle"
    BY <1>1 DEF Reading
  <1>3. /\ t \in DOMAIN ix /\ DOMAIN ix = DOMAIN index \cup {t}
        /\ \A u \in DOMAIN index : ix[u] = index[u]
        /\ DOMAIN v = DOMAIN views /\ \A x \in DOMAIN views : v[x] = views[x]
        /\ Indexes(ix) /\ KeysExact(ix) /\ ViewsExact(v, ix) /\ RefinedExact(r, ix)
    BY <1>2, EnsuredIs
  <1>4. /\ IsBucket(b) /\ b[1] = t
        /\ view.facts = FactsIn(ix, b)
        /\ Exists(ix, b) /\ Intersection /\ found \notin {{}, view.facts}
             => found = Refine(ix, FactsIn(ix, b), t, sel)
    BY <1>1, <1>2, CandidatesAre
  <1>5. DOMAIN view = {"facts", "held"}
        /\ (view.held => b \in DOMAIN views /\ views[b].held)
    BY <1>3 DEF ViewOf, View, ViewsExact
  <1> HIDE DEF ix, b, v, r, view, sel, found
  <1>6. ViewsExact(views', ix)
    <2>1. ViewsExact(Put(v, b, view), ix)
      BY <1>3, <1>4, <1>5 DEF ViewsExact, Put
    <2> QED BY <1>1, <1>3, <2>1
  <1>7. RefinedExact(refined', ix)
    <2>1. ASSUME found = Refine(ix, FactsIn(ix, b), t, sel)
          PROVE  RefinedExact(Put(r, <<b, sel>>, found), ix)
      BY <1>3, <1>4, <2>1 DEF RefinedExact, Put
    <2> QED BY <1>1, <1>3, <1>4, <2>1
  <1>8. ASSUME NEW s \in lease, Held(s)' PROVE Held(s)
    <2>1. s.seen /\ s.bucket \in DOMAIN views' /\ views'[s.bucket].held
      BY <1>8 DEF Held
    <2>2. s.bucket \in DOMAIN views /\ views[s.bucket].held
      <3>1. CASE views' = v
        BY <1>3, <2>1, <3>1
      <3>2. CASE views' = Put(v, b, view)
        BY <1>3, <1>5, <2>1, <3>2 DEF Put
      <3> QED BY <1>1, <3>1, <3>2
    <2> QED BY <2>1, <2>2 DEF Held
  <1>9. /\ IInv' /\ UNCHANGED rowsOf /\ queryChanges' = queryChanges /\ Notes'
        /\ Indexes(index)' /\ KeysExact(index)'
        /\ ViewsExact(views, index)' /\ RefinedExact(refined, index)'
    <2>1. behind' = {}
      BY <1>1, <1>2, Idle
    <2>2. /\ Indexes(index') /\ KeysExact(index')
          /\ ViewsExact(views', index') /\ RefinedExact(refined', index')
      BY <1>1, <1>3, <1>6, <1>7
    <2>3. Indexes(index)' /\ KeysExact(index)'
      BY <1>1, <2>2, ReadingInv
    <2>4. ViewsExact(views, index)' /\ RefinedExact(refined, index)'
      BY <1>1, <2>2, ReadingInv
    <2> QED BY <1>1, <2>1, <2>3, <2>4, ReadingInv
  <1>10. Leases'
    <2>1. \A u \in DOMAIN index : /\ index'[u].keys = index[u].keys
                                  /\ index[u].leased => index'[u].leased
      BY <1>1, <1>3
    <2>2. \A s \in lease : LeaseShape(s)' /\ WholeTied(s)' /\ SeenTied(s)'
                           /\ (~s.whole /\ ~s.seen => s.rows = {})
      BY <1>8, <1>9, <2>1, LeaseKept
    <2> QED BY <1>1, <2>2 DEF Leases
  <1> QED BY <1>9, <1>10 DEF QInv

LEMMA DropLeaseInv == ASSUME QInv, DropLease PROVE QInv'
  <1>1. /\ Reading /\ phase = "idle" /\ lease' = {}
        /\ views' = [b \in DOMAIN views |-> View(views[b].facts)]
        /\ UNCHANGED <<behind, index, refined>>
    BY DEF DropLease, Reading
  <1>2. /\ Indexes(index) /\ KeysExact(index) /\ RefinedExact(refined, index) /\ behind = {}
    BY <1>1, Idle DEF QInv
  <1>3. ViewsExact(views', index)
    BY <1>1 DEF QInv, ViewsExact, View
  <1>4. Indexes(index') /\ KeysExact(index') /\ RefinedExact(refined', index')
        /\ ViewsExact(views', index')
    BY <1>1, <1>2, <1>3
  <1>5. IInv' /\ Notes'
    BY <1>1, <1>2, ReadingInv
  <1>6. Indexes(index)' /\ KeysExact(index)'
    BY <1>1, <1>4, ReadingInv
  <1>7. ViewsExact(views, index)' /\ RefinedExact(refined, index)'
    BY <1>1, <1>4, ReadingInv
  <1>8. Leases'
    BY <1>1 DEF Leases
  <1> QED BY <1>5, <1>6, <1>7, <1>8 DEF QInv

(* A lease is right when it is taken.                                       *)
LEMMA LeaseInv ==
    ASSUME QInv, NEW t \in Indexed, NEW bound \in BoundsOf(t), Lease(t, bound)
    PROVE  QInv'
  <1> DEFINE ix == Ensured(t)
             b == Best(ix, t, bound)
             v == EnsuredViews(t)
             r == EnsuredRefined(t)
             whole == bound = <<>>
             seen == ~whole /\ Exists(ix, b)
             read == [table |-> t, whole |-> whole, seen |-> seen,
                      bucket |-> IF whole THEN <<>> ELSE b,
                      bound |-> bound, rows |-> {Row(d) : d \in Answers(t, bound)},
                      fresh |-> TRUE]
             view == [ViewOf(v, ix, b) EXCEPT !.held = TRUE]
  <1>1. /\ Reading
        /\ index' = [ix EXCEPT ![t].leased = TRUE]
        /\ behind' = behind \ {t} /\ lease' = {read}
        /\ views' = IF seen THEN Put(v, b, view) ELSE v
        /\ refined' = r
    BY DEF Lease
  <1>2. /\ phase = "idle" /\ dirty = {} /\ Unsure = {} /\ TypeOK /\ behind = {}
    BY <1>1, Idle DEF Reading
  <1>3. /\ t \in DOMAIN ix /\ Indexes(ix) /\ KeysExact(ix)
        /\ ViewsExact(v, ix) /\ RefinedExact(r, ix)
    BY <1>2, EnsuredIs
  <1>4. ~whole => \E c \in DOMAIN bound : /\ c \in Columns(t) /\ bound[c] \in Values
                                          /\ b = BucketAt(t, c, bound)
    <2> HIDE DEF ix
    <2> QED BY <1>2, <1>3, BestIs
  <1>5. DOMAIN ViewOf(v, ix, b) = {"facts", "held"}
        /\ ViewOf(v, ix, b).facts = FactsIn(ix, b)
    BY <1>3 DEF ViewOf, View, ViewsExact
  <1>6. DOMAIN view = {"facts", "held"} /\ view.facts = FactsIn(ix, b)
    <2> HIDE DEF ix, v, b
    <2> QED BY <1>5
  <1> HIDE DEF ix, b, v, r, view
  <1>7. /\ DOMAIN index' = DOMAIN ix /\ index'[t].leased
        /\ \A u \in DOMAIN ix : /\ DOMAIN index'[u] = {"keys", "leased"}
                                /\ index'[u].keys = ix[u].keys
    BY <1>1, <1>3 DEF Indexes
  <1>8. Indexes(index') /\ KeysExact(index')
    BY <1>3, <1>7 DEF Indexes, KeysExact
  <1>9. \A x : x[1] \in DOMAIN ix => FactsIn(index', x) = FactsIn(ix, x)
    BY <1>7 DEF FactsIn
  <1>10. ViewsExact(views', index')
    <2>1. \A x \in DOMAIN v : /\ IsBucket(x) /\ x[1] \in DOMAIN index'
                              /\ DOMAIN v[x] = {"facts", "held"}
                              /\ v[x].facts = FactsIn(index', x)
      BY <1>3, <1>7, <1>9 DEF ViewsExact
    <2>2. ~whole => IsBucket(b) /\ b[1] = t
      BY <1>4 DEF IsBucket, BucketAt
    <2>3. ~whole => view.facts = FactsIn(index', b)
      BY <1>3, <1>6, <1>9, <2>2
    <2>4. seen => ViewsExact(Put(v, b, view), index')
      BY <1>3, <1>6, <1>7, <2>1, <2>2, <2>3 DEF ViewsExact, Put
    <2> QED BY <1>1, <2>1, <2>4 DEF ViewsExact
  <1>11. RefinedExact(refined', index')
    <2>1. \A facts, u, z : u \in DOMAIN ix => Refine(index', facts, u, z) = Refine(ix, facts, u, z)
      BY <1>7 DEF Refine
    <2> SUFFICES ASSUME NEW x \in DOMAIN r
                 PROVE  /\ IsBucket(x[1]) /\ x[1][1] \in DOMAIN index'
                        /\ r[x] = Refine(index', FactsIn(index', x[1]), x[1][1], x[2])
      BY <1>1 DEF RefinedExact
    <2>2. /\ IsBucket(x[1]) /\ x[1][1] \in DOMAIN ix
          /\ r[x] = Refine(ix, FactsIn(ix, x[1]), x[1][1], x[2])
      BY <1>3 DEF RefinedExact
    <2>3. FactsIn(index', x[1]) = FactsIn(ix, x[1])
      BY <1>9, <2>2
    <2> QED BY <1>7, <2>1, <2>2, <2>3
  <1>12. IInv' /\ Notes' /\ UNCHANGED rowsOf
    BY <1>1, <1>2, ReadingInv
  <1>13. Indexes(index)' /\ KeysExact(index)'
    BY <1>1, <1>8, ReadingInv
  <1>14. ViewsExact(views, index)' /\ RefinedExact(refined, index)'
    BY <1>1, <1>10, <1>11, ReadingInv
  <1>15. Leases'
    <2>1. PICK s : s = read
      OBVIOUS
    <2>2. /\ s.table = t /\ s.whole = whole /\ s.seen = seen
          /\ s.bucket = (IF whole THEN <<>> ELSE b) /\ s.bound = bound
          /\ s.rows = {Row(d) : d \in Answers(t, bound)} /\ s.fresh = TRUE
          /\ DOMAIN s = {"table", "whole", "seen", "bucket", "bound", "rows", "fresh"}
      BY <2>1
    <2>3. lease' = {s}
      BY <1>1, <2>1
    <2> HIDE DEF read
    <2>4. LeaseShape(s)'
      BY <1>4, <2>2 DEF LeaseShape, BucketAt, Columns
    <2>5. dirty' = {} /\ Unsure' = {}
      BY <1>1, <1>2, <1>12 DEF rowsOf, Unsure, Reading
    <2>6. Same(s, dirty)' = s.rows /\ Same(s, Unsure)' = s.rows
      BY <1>12, <2>2, <2>5, SameRows DEF Same
    <2>7. WholeTied(s)'
      BY <2>6 DEF WholeTied, Tied
    <2>8. SeenTied(s)'
      BY <1>7, <2>2, <2>6 DEF SeenTied, Tied
    <2>9. ~s.whole /\ ~s.seen => s.rows = {}
      <3> SUFFICES ASSUME ~whole, ~Exists(ix, b), NEW d \in Answers(t, bound) PROVE FALSE
        BY <2>2
      <3>1. PICK c \in DOMAIN bound : c \in Columns(t) /\ b = BucketAt(t, c, bound)
        BY <1>4
      <3>2. d \in FactsIn(ix, b)
        BY <1>2, <1>3, <3>1, AnswersFiled
      <3>3. b[1] = t
        BY <3>1 DEF BucketAt
      <3> QED BY <1>3, <3>2, <3>3 DEF Exists
    <2> QED BY <2>3, <2>4, <2>7, <2>8, <2>9 DEF Leases
  <1> QED BY <1>12, <1>13, <1>14, <1>15 DEF QInv

------------------------------------------------------------------------------
(* 3. The Run's frame: effects begin, repair begins, nothing happens.       *)
LEMMA PhaseKeeps ==
    ASSUME QInv, IInv', UNCHANGED rowsOf, UNCHANGED queryVars,
           phase' = "idle" => queryChanges = {}
    PROVE  QInv'
  <1>1. /\ UNCHANGED <<queryChanges, behind, index, views, refined, lease>>
        /\ recipe' = recipe /\ dirty' = dirty
    BY DEF queryVars, indexesOf, rowsOf
  <1>2. Notes' /\ Indexes(index)'
    BY <1>1 DEF QInv, Notes, Noted, Indexes, Columns
  <1>3. KeysExact(index)'
    BY <1>1, SameRows DEF QInv, KeysExact, Unsure
  <1>4. ViewsExact(views, index)' /\ RefinedExact(refined, index)'
    BY <1>1 DEF QInv, ViewsExact, RefinedExact, FactsIn, Refine, IsBucket, Columns
  <1>5. Leases'
    <2>1. \A s \in lease : LeaseShape(s)' /\ WholeTied(s)' /\ SeenTied(s)'
                           /\ (~s.whole /\ ~s.seen => s.rows = {})
      BY <1>1, LeaseKept DEF Held
    <2> QED BY <1>1, <2>1 DEF Leases
  <1> QED BY <1>2, <1>3, <1>4, <1>5 DEF QInv

(* Scope "run": indexes are cleared before the effects; a lease that was    *)
(* read from one of them is never valid again.                              *)
LEMMA ClearKeeps ==
    ASSUME QInv, IInv', UNCHANGED rowsOf, phase = "idle", Clear,
           UNCHANGED <<queryChanges, lease>>
    PROVE  QInv'
  <1>1. index' = <<>> /\ views' = <<>> /\ refined' = <<>> /\ behind' = {}
        /\ queryChanges' = {} /\ queryChanges = {} /\ lease' = lease
    BY Idle DEF Clear
  <1>2. DOMAIN index' = {} /\ DOMAIN views' = {} /\ DOMAIN refined' = {}
    BY <1>1
  <1>3. /\ Notes' /\ Indexes(index)' /\ KeysExact(index)'
        /\ ViewsExact(views, index)' /\ RefinedExact(refined, index)'
    BY <1>1, <1>2 DEF Notes, Indexes, KeysExact, ViewsExact, RefinedExact
  <1>4. \A s : ~Held(s)'
    BY <1>2 DEF Held
  <1>5. Leases'
    <2> SUFFICES ASSUME NEW s \in lease
                 PROVE  /\ LeaseShape(s)' /\ WholeTied(s)' /\ SeenTied(s)'
                        /\ ~s.whole /\ ~s.seen => s.rows = {}
      BY <1>1 DEF Leases
    <2>1. /\ LeaseShape(s) /\ WholeTied(s)
          /\ ~s.whole /\ ~s.seen => s.rows = {}
      BY DEF QInv, Leases
    <2>2. LeaseShape(s)'
      BY <2>1 DEF LeaseShape, BucketAt, Columns
    <2>3. Same(s, dirty)' = Same(s, dirty) /\ Waiting(s.table)' = Waiting(s.table)
      BY SameRows DEF Same, rowsOf
    <2>4. WholeTied(s)'
      BY <2>1, <2>3 DEF WholeTied, Tied
    <2> QED BY <1>4, <2>1, <2>2, <2>4 DEF SeenTied
  <1> QED BY <1>3, <1>5 DEF QInv

LEMMA StartEffectsInv == ASSUME QInv, StartEffects PROVE QInv'
  <1>1. /\ BeginRun /\ phase = "idle" /\ phase' = "rhs" /\ UNCHANGED rowsOf
        /\ queryChanges' = queryChanges /\ lease' = lease
        /\ Clear \/ UNCHANGED <<indexesOf, behind>>
    BY DEF StartEffects, BeginRun, rowsOf, unionVars
  <1>2. IInv'
    BY <1>1, BeginRunInv DEF QInv
  <1> QED BY <1>1, <1>2, PhaseKeeps, ClearKeeps DEF queryVars

LEMMA BeginRepairKeeps == ASSUME QInv, BeginRepair, UNCHANGED queryVars PROVE QInv'
  <1>1. phase' = "repair" /\ UNCHANGED rowsOf
    BY DEF BeginRepair, rowsOf, unionVars, rowVars
  <1>2. IInv'
    BY BeginRepairInv DEF QInv
  <1> QED BY <1>1, <1>2, PhaseKeeps

------------------------------------------------------------------------------
(* 4. Publication.  A bucket whose cached view survives the patch holds the *)
(* rows it held, and none of them was noted while its table is leased.      *)
Told(t) == IF WatchReads \/ index[t].leased THEN Noted(t) \ Moved(t) ELSE {}

LEMMA TouchedBuckets ==
    ASSUME QInv, NEW t \in DOMAIN index, NEW c \in Columns(t),
           NEW d \in Moved(t) \cup Told(t)
    PROVE  /\ d \in DOMAIN index[t].keys => <<t, c, index[t].keys[d][c]>> \in Touched(t)
           /\ d \in Visible(t) => <<t, c, Prints(d)[c]>> \in Touched(t)
  <1> DEFINE Of(e) == (IF e \in DOMAIN index[t].keys THEN BucketsOf(t, index[t].keys[e]) ELSE {})
                      \cup (IF e \in Visible(t) THEN BucketsOf(t, Prints(e)) ELSE {})
  <1>1. Touched(t) = UNION {Of(e) : e \in Moved(t) \cup Told(t)}
    BY DEF Touched, Told, Noted
  <1>2. Of(d) \subseteq Touched(t)
    <2> HIDE DEF Of
    <2> QED BY <1>1
  <1>3. d \in DOMAIN index[t].keys => <<t, c, index[t].keys[d][c]>> \in BucketsOf(t, index[t].keys[d])
    BY DEF QInv, Indexes, BucketsOf
  <1>4. d \in Visible(t) => <<t, c, Prints(d)[c]>> \in BucketsOf(t, Prints(d))
    <2>1. d \in Visible(t) => DOMAIN Prints(d) = Columns(t)
      BY DEF Visible, Witnesses, Prints
    <2> QED BY <2>1 DEF BucketsOf
  <1> QED BY <1>2, <1>3, <1>4

(* The patched index is the index of the published table.                   *)
LEMMA PatchedIs ==
    ASSUME QInv, dirty = {}, NEW t \in DOMAIN index
    PROVE  /\ DOMAIN Patched(t) = {"keys", "leased"} /\ Patched(t).leased = index[t].leased
           /\ \A d \in DOMAIN Patched(t).keys :
                 /\ d \in DOMAIN recipe /\ recipe[d].table = t
                 /\ DOMAIN Patched(t).keys[d] = Columns(t)
           /\ \A d \in Dependency :
                 /\ d \in DOMAIN Patched(t).keys <=> d \in Visible(t)
                 /\ d \in Visible(t) => Patched(t).keys[d] = Prints(d)
           /\ \A d \in DOMAIN index[t].keys \ Moved(t) :
                 d \in DOMAIN Patched(t).keys /\ Patched(t).keys[d] = index[t].keys[d]
           /\ \A d \in DOMAIN Patched(t).keys \ Moved(t) : d \in DOMAIN index[t].keys
  <1> DEFINE keys == index[t].keys
             kept == (DOMAIN keys \ Noted(t)) \cup (Noted(t) \cap Visible(t))
             new == [d \in kept |-> IF d \in Noted(t) THEN Prints(d) ELSE keys[d]]
  <1>1. Patched(t) = [index[t] EXCEPT !.keys = new]
    BY DEF Patched, Noted
  <1>2. /\ DOMAIN index[t] = {"keys", "leased"}
        /\ \A d \in DOMAIN keys : /\ d \in DOMAIN recipe /\ recipe[d].table = t
                                  /\ DOMAIN keys[d] = Columns(t)
        /\ \A d \in Dependency \ Unsure : /\ d \in DOMAIN keys <=> d \in Visible(t)
                                          /\ d \in Visible(t) => keys[d] = Prints(d)
        /\ TypeOK
    BY DEF QInv, Indexes, KeysExact, IInv
  <1>3. DOMAIN new = kept
        /\ \A d \in kept : new[d] = IF d \in Noted(t) THEN Prints(d) ELSE keys[d]
    OBVIOUS
  <1>4. \A d \in Visible(t) : /\ d \in DOMAIN recipe /\ recipe[d].table = t
                              /\ DOMAIN Prints(d) = Columns(t)
    BY <1>2 DEF Visible, Witnesses, Prints, TypeOK
  <1>5. Moved(t) = {d \in Noted(t) : ~(/\ d \in DOMAIN keys /\ d \in Visible(t)
                                       /\ keys[d] = Prints(d))}
    BY DEF Moved, Noted
  <1>6. \A d : d \in DOMAIN keys \/ d \in Visible(t) => (d \in Unsure <=> d \in Noted(t))
    BY <1>2, <1>4 DEF Unsure, Noted
  <1> HIDE DEF keys, kept, new
  <1>7. DOMAIN Patched(t) = {"keys", "leased"} /\ Patched(t).leased = index[t].leased
        /\ Patched(t).keys = new
    BY <1>1, <1>2
  <1>8. \A d \in kept : /\ d \in DOMAIN recipe /\ recipe[d].table = t
                        /\ DOMAIN new[d] = Columns(t)
    BY <1>2, <1>3, <1>4 DEF kept
  <1>9. ASSUME NEW d \in Dependency
        PROVE  /\ d \in kept <=> d \in Visible(t)
               /\ d \in Visible(t) => new[d] = Prints(d)
    BY <1>2, <1>3, <1>6 DEF kept
  <1>10. ASSUME NEW d \in DOMAIN keys \ Moved(t) PROVE d \in kept /\ new[d] = keys[d]
    BY <1>3, <1>5 DEF kept
  <1>11. ASSUME NEW d \in kept \ Moved(t) PROVE d \in DOMAIN keys
    BY <1>5 DEF kept
  <1>12. index[t].keys = keys
    BY DEF keys
  <1> QED BY <1>3, <1>7, <1>8, <1>9, <1>10, <1>11, <1>12

LEMMA UntouchedBucket ==
    ASSUME QInv, dirty = {}, NEW t \in DOMAIN index, NEW c \in Columns(t), NEW p,
           <<t, c, p>> \notin Touched(t),
           NEW ix, t \in DOMAIN ix, ix[t] = Patched(t)
    PROVE  /\ FactsIn(ix, <<t, c, p>>) = FactsIn(index, <<t, c, p>>)
           /\ \A d \in FactsIn(index, <<t, c, p>>) : /\ ix[t].keys[d] = index[t].keys[d]
                                                     /\ d \notin Moved(t) \cup Told(t)
           /\ \A d \in Visible(t) : Prints(d)[c] = p => d \notin Moved(t) \cup Told(t)
  <1> DEFINE b == <<t, c, p>>
  <1>1. \A d \in FactsIn(index, b) : /\ d \in DOMAIN index[t].keys /\ index[t].keys[d][c] = p
                                     /\ d \notin Moved(t) \cup Told(t)
    BY TouchedBuckets DEF FactsIn
  <1>2. \A d \in Visible(t) : Prints(d)[c] = p => d \notin Moved(t) \cup Told(t)
    BY TouchedBuckets
  <1>3. ASSUME NEW d \in FactsIn(index, b)
        PROVE  d \in FactsIn(ix, b) /\ ix[t].keys[d] = index[t].keys[d]
    <2>1. d \in DOMAIN ix[t].keys /\ ix[t].keys[d] = index[t].keys[d]
      BY <1>1, PatchedIs
    <2> QED BY <1>1, <2>1 DEF FactsIn
  <1>4. ASSUME NEW d \in FactsIn(ix, b) PROVE d \in FactsIn(index, b)
    <2>1. d \in DOMAIN Patched(t).keys /\ Patched(t).keys[d][c] = p
      BY DEF FactsIn
    <2>2. d \in Dependency
      BY <2>1, PatchedIs DEF QInv, IInv, TypeOK
    <2>3. d \in Visible(t) /\ Patched(t).keys[d] = Prints(d)
      BY <2>1, <2>2, PatchedIs
    <2>4. d \notin Moved(t)
      BY <1>2, <2>1, <2>3
    <2>5. d \in DOMAIN index[t].keys /\ Patched(t).keys[d] = index[t].keys[d]
      BY <2>1, <2>4, PatchedIs
    <2> QED BY <2>1, <2>5 DEF FactsIn
  <1> QED BY <1>1, <1>2, <1>3, <1>4

(* What a lease needs of a publication: if its view is still there, no row  *)
(* it read and no row it would read now was noted.                          *)
LEMMA PublishedLease ==
    ASSUME QInv, dirty = {}, UNCHANGED rowsOf, queryChanges' = {}, NEW s \in lease,
           Held(s)' => /\ Held(s) /\ index'[s.table].leased
                       /\ \A d \in FactsIn(index, s.bucket) \cup Answers(s.table, s.bound) :
                             d \notin queryChanges
    PROVE  LeaseShape(s)' /\ WholeTied(s)' /\ SeenTied(s)'
           /\ (~s.whole /\ ~s.seen => s.rows = {})
  <1>1. /\ LeaseShape(s) /\ WholeTied(s) /\ SeenTied(s)
        /\ ~s.whole /\ ~s.seen => s.rows = {}
    BY DEF QInv, Leases
  <1>2. LeaseShape(s)'
    BY <1>1 DEF LeaseShape, BucketAt, Columns
  <1>3. dirty' = {} /\ Unsure = queryChanges /\ Unsure' = {}
    BY DEF Unsure, rowsOf
  <1>4. Same(s, dirty)' = Same(s, dirty) /\ Waiting(s.table)' = Waiting(s.table)
    BY SameRows DEF Same, rowsOf
  <1>5. WholeTied(s)'
    BY <1>1, <1>4 DEF WholeTied, Tied
  <1>6. SeenTied(s)'
    <2> SUFFICES ASSUME Held(s)'
                 PROVE  /\ index'[s.table].leased
                        /\ Tied(s, Unsure, Unsure \cap FactsIn(index, s.bucket))'
      BY DEF SeenTied
    <2>1. /\ Held(s) /\ index'[s.table].leased
          /\ \A d \in FactsIn(index, s.bucket) \cup Answers(s.table, s.bound) :
                d \notin queryChanges
      OBVIOUS
    <2>2. Tied(s, Unsure, Unsure \cap FactsIn(index, s.bucket))
      BY <1>1, <2>1 DEF SeenTied
    <2>3. Unsure \cap FactsIn(index, s.bucket) = {}
      BY <1>3, <2>1
    <2>4. Same(s, Unsure)' = Same(s, Unsure)
      <3>1. Answers(s.table, s.bound) \ Unsure = Answers(s.table, s.bound)
        BY <1>3, <2>1
      <3>2. Same(s, Unsure) = {Row(d) : d \in Answers(s.table, s.bound)}
        BY <3>1 DEF Same
      <3>3. Same(s, Unsure)' = {Row(d)' : d \in Answers(s.table, s.bound)'}
        BY <1>3 DEF Same
      <3> QED BY <3>2, <3>3, SameRows
    <2> QED BY <2>1, <2>2, <2>3, <2>4 DEF Tied
  <1> QED BY <1>1, <1>2, <1>5, <1>6

(* Scope "rows": the indexes are patched, and views and refinements of the  *)
(* touched buckets dropped.                                                 *)
LEMMA UpdateKeeps ==
    ASSUME QInv, IInv', dirty = {}, UNCHANGED rowsOf, Update,
           queryChanges' = {}, lease' = lease
    PROVE  QInv'
  <1> DEFINE B == UNION {Touched(t) : t \in DOMAIN index}
  <1>1. /\ index' = [t \in DOMAIN index |-> Patched(t)]
        /\ views' = Without(views, B) /\ refined' = Unrefined(refined, B)
        /\ behind' = {}
    BY DEF Update, Unviewed
  <1>2. \A t \in DOMAIN index : Touched(t) \subseteq B
    OBVIOUS
  <1> HIDE DEF B
  <1>3. /\ DOMAIN index' = DOMAIN index
        /\ \A t \in DOMAIN index : index'[t] = Patched(t)
        /\ DOMAIN views' = DOMAIN views \ B
        /\ \A b \in DOMAIN views' : views'[b] = views[b]
        /\ DOMAIN refined' = {x \in DOMAIN refined : x[1] \notin B}
        /\ \A x \in DOMAIN refined' : refined'[x] = refined[x]
    BY <1>1 DEF Without, Unrefined
  <1>4. recipe' = recipe /\ dirty' = {} /\ Unsure' = {}
    BY DEF rowsOf, Unsure
  <1>5. Notes'
    BY <1>1 DEF Notes, Noted
  <1>6. Indexes(index)'
    <2>1. \A t \in DOMAIN index : t \in Indexed
      BY DEF QInv, Indexes
    <2> QED BY <1>3, <1>4, <2>1, PatchedIs DEF Indexes, Columns
  <1>7. KeysExact(index)'
    <2>1. \A t \in DOMAIN index : \A d \in Dependency :
             /\ d \in DOMAIN index'[t].keys <=> d \in Visible(t)
             /\ d \in Visible(t) => index'[t].keys[d] = Prints(d)
      BY <1>3, PatchedIs
    <2> QED BY <1>3, <2>1, SameRows DEF KeysExact
  (* A bucket that is left alone. *)
  <1>8. ASSUME NEW b, IsBucket(b), b[1] \in DOMAIN index, b \notin B
        PROVE  /\ FactsIn(index', b) = FactsIn(index, b)
               /\ \A d \in FactsIn(index, b) :
                     /\ index'[b[1]].keys[d] = index[b[1]].keys[d]
                     /\ d \notin Moved(b[1]) \cup Told(b[1])
               /\ \A d \in Visible(b[1]) :
                     Prints(d)[b[2]] = b[3] => d \notin Moved(b[1]) \cup Told(b[1])
    <2>1. PICK t \in Indexed : \E c \in Columns(t) : \E x \in Values :
                 b = <<t, c, Fingerprint(x)>>
      BY <1>8 DEF IsBucket
    <2>2. PICK c \in Columns(t), x \in Values : b = <<t, c, Fingerprint(x)>>
      BY <2>1
    <2>3. t \in DOMAIN index /\ b[1] = t /\ b[2] = c /\ b[3] = Fingerprint(x)
      BY <1>8, <2>2
    <2>4. <<t, c, Fingerprint(x)>> \notin Touched(t)
      BY <1>2, <1>8, <2>2, <2>3
    <2> QED BY <1>3, <2>2, <2>3, <2>4, UntouchedBucket
  <1>9. ViewsExact(views, index)'
    <2> SUFFICES ASSUME NEW b \in DOMAIN views'
                 PROVE  /\ IsBucket(b)' /\ b[1] \in DOMAIN index'
                        /\ DOMAIN views'[b] = {"facts", "held"}
                        /\ views'[b].facts = FactsIn(index, b)'
      BY DEF ViewsExact
    <2>1. /\ b \in DOMAIN views /\ b \notin B /\ views'[b] = views[b]
          /\ IsBucket(b) /\ b[1] \in DOMAIN index
          /\ DOMAIN views[b] = {"facts", "held"} /\ views[b].facts = FactsIn(index, b)
      BY <1>3 DEF QInv, ViewsExact
    <2>2. FactsIn(index', b) = FactsIn(index, b)
      BY <1>8, <2>1
    <2>3. FactsIn(index, b)' = FactsIn(index', b) /\ IsBucket(b)'
      BY <2>1 DEF FactsIn, IsBucket, Columns
    <2> QED BY <1>3, <2>1, <2>2, <2>3
  <1>10. RefinedExact(refined, index)'
    <2> SUFFICES ASSUME NEW x \in DOMAIN refined'
                 PROVE  /\ IsBucket(x[1])' /\ x[1][1] \in DOMAIN index'
                        /\ refined'[x] = Refine(index, FactsIn(index, x[1]), x[1][1], x[2])'
      BY DEF RefinedExact
    <2>1. /\ x \in DOMAIN refined /\ x[1] \notin B /\ refined'[x] = refined[x]
          /\ IsBucket(x[1]) /\ x[1][1] \in DOMAIN index
          /\ refined[x] = Refine(index, FactsIn(index, x[1]), x[1][1], x[2])
      BY <1>3 DEF QInv, RefinedExact
    <2>2. FactsIn(index, x[1])' = FactsIn(index, x[1]) /\ IsBucket(x[1])'
          /\ \A d \in FactsIn(index, x[1]) :
                index'[x[1][1]].keys[d] = index[x[1][1]].keys[d]
      BY <1>8, <2>1 DEF FactsIn, IsBucket, Columns
    <2> QED BY <1>3, <2>1, <2>2 DEF Refine
  <1>11. Leases'
    <2> SUFFICES ASSUME NEW s \in lease
                 PROVE  LeaseShape(s)' /\ WholeTied(s)' /\ SeenTied(s)'
                        /\ (~s.whole /\ ~s.seen => s.rows = {})
      BY DEF Leases
    <2>1. ASSUME Held(s)'
          PROVE  /\ Held(s) /\ index'[s.table].leased
                 /\ \A d \in FactsIn(index, s.bucket) \cup Answers(s.table, s.bound) :
                       d \notin queryChanges
      <3>1. /\ s.bucket \in DOMAIN views /\ s.bucket \notin B /\ Held(s) /\ s.seen
        BY <1>3, <2>1 DEF Held
      <3>2. LeaseShape(s) /\ index[s.table].leased
        BY <3>1 DEF QInv, Leases, SeenTied
      <3>3. PICK c \in DOMAIN s.bound : /\ c \in Columns(s.table)
                                        /\ s.bucket = BucketAt(s.table, c, s.bound)
        BY <3>1, <3>2 DEF LeaseShape
      <3>4. /\ IsBucket(s.bucket) /\ s.bucket[1] \in DOMAIN index
            /\ s.bucket[1] = s.table /\ s.bucket[2] = c
            /\ s.bucket[3] = Fingerprint(s.bound[c])
        BY <3>1, <3>3 DEF QInv, ViewsExact, BucketAt
      <3>5. \A d \in Noted(s.table) : d \in Moved(s.table) \cup Told(s.table)
        BY <3>2 DEF Told
      <3>6. ASSUME NEW d \in FactsIn(index, s.bucket) PROVE d \notin queryChanges
        <4>1. recipe[d].table = s.table
          BY <3>4 DEF FactsIn, QInv, Indexes
        <4>2. d \notin Moved(s.table) \cup Told(s.table)
          BY <1>8, <3>1, <3>4
        <4> QED BY <3>5, <4>1, <4>2 DEF Noted
      <3>7. ASSUME NEW d \in Answers(s.table, s.bound) PROVE d \notin queryChanges
        <4>1. d \in Visible(s.table) /\ Prints(d)[c] = Fingerprint(s.bound[c])
          BY <3>3, AgreePrints
        <4>2. recipe[d].table = s.table
          BY <4>1 DEF Visible, Witnesses
        <4>3. d \notin Moved(s.table) \cup Told(s.table)
          BY <1>8, <3>1, <3>4, <4>1
        <4> QED BY <3>5, <4>2, <4>3 DEF Noted
      <3>8. index'[s.table].leased
        BY <1>3, <3>2, <3>4, PatchedIs
      <3> QED BY <3>1, <3>6, <3>7, <3>8
    <2> QED BY <2>1, PublishedLease
  <1> QED BY <1>5, <1>6, <1>7, <1>9, <1>10, <1>11 DEF QInv

(* Scope "table": indexes of tables with a noted row are dropped.           *)
LEMMA InvalidateKeeps ==
    ASSUME QInv, IInv', dirty = {}, UNCHANGED rowsOf, Invalidate,
           queryChanges' = {}, lease' = lease
    PROVE  QInv'
  <1> DEFINE old == {b \in {x[1] : x \in DOMAIN refined} : b[1] \in behind}
  <1>1. /\ index' = Without(index, behind)
        /\ views' = Without(views, {b \in DOMAIN views : b[1] \in behind})
        /\ refined' = Unrefined(refined, old)
        /\ behind' = {}
    BY DEF Invalidate
  <1>2. \A x \in DOMAIN refined : x[1] \in old <=> x[1][1] \in behind
    OBVIOUS
  <1> HIDE DEF old
  <1>3. /\ DOMAIN index' = DOMAIN index \ behind
        /\ \A t \in DOMAIN index' : index'[t] = index[t]
        /\ \A b \in DOMAIN views' : /\ b \in DOMAIN views /\ b[1] \notin behind
                                    /\ views'[b] = views[b]
        /\ \A x \in DOMAIN refined' : /\ x \in DOMAIN refined /\ x[1][1] \notin behind
                                      /\ refined'[x] = refined[x]
    BY <1>1, <1>2 DEF Without, Unrefined
  <1>4. recipe' = recipe /\ dirty' = {} /\ Unsure' = {} /\ Unsure = queryChanges
    BY DEF rowsOf, Unsure
  <1>5. \A t \in DOMAIN index' : \A d \in queryChanges : recipe[d].table # t
    BY <1>3 DEF QInv, Notes, Noted
  <1>6. Notes'
    BY <1>1 DEF Notes, Noted
  <1>7. Indexes(index)'
    BY <1>3, <1>4 DEF QInv, Indexes, Columns
  <1>8. KeysExact(index)'
    <2> SUFFICES ASSUME NEW t \in DOMAIN index', NEW d \in Dependency
                 PROVE  /\ d \in DOMAIN index[t].keys <=> d \in Visible(t)
                        /\ d \in Visible(t) => index[t].keys[d] = Prints(d)
      BY <1>3, SameRows DEF KeysExact
    <2>1. t \in DOMAIN index
      BY <1>3
    <2>2. CASE d \in queryChanges
      <3>1. recipe[d].table # t
        BY <1>5, <2>2
      <3>2. d \notin DOMAIN index[t].keys /\ d \notin Visible(t)
        BY <2>1, <3>1 DEF QInv, Indexes, Visible, Witnesses
      <3> QED BY <3>2
    <2>3. CASE d \notin queryChanges
      BY <1>4, <2>1, <2>3 DEF QInv, KeysExact
    <2> QED BY <2>2, <2>3
  <1>9. \A b : b[1] \in DOMAIN index' => FactsIn(index, b)' = FactsIn(index, b)
    BY <1>3 DEF FactsIn
  <1>10. ViewsExact(views, index)'
    BY <1>3, <1>9 DEF QInv, ViewsExact, IsBucket, Columns
  <1>11. RefinedExact(refined, index)'
    <2> SUFFICES ASSUME NEW x \in DOMAIN refined'
                 PROVE  /\ IsBucket(x[1])' /\ x[1][1] \in DOMAIN index'
                        /\ refined'[x] = Refine(index, FactsIn(index, x[1]), x[1][1], x[2])'
      BY DEF RefinedExact
    <2>1. /\ x[1][1] \in DOMAIN index' /\ refined'[x] = refined[x] /\ IsBucket(x[1])
          /\ refined[x] = Refine(index, FactsIn(index, x[1]), x[1][1], x[2])
      BY <1>3 DEF QInv, RefinedExact
    <2>2. FactsIn(index, x[1])' = FactsIn(index, x[1]) /\ index'[x[1][1]] = index[x[1][1]]
          /\ IsBucket(x[1])'
      BY <1>3, <1>9, <2>1 DEF IsBucket, Columns
    <2> QED BY <2>1, <2>2 DEF Refine
  <1>12. Leases'
    <2> SUFFICES ASSUME NEW s \in lease
                 PROVE  LeaseShape(s)' /\ WholeTied(s)' /\ SeenTied(s)'
                        /\ (~s.whole /\ ~s.seen => s.rows = {})
      BY DEF Leases
    <2>1. ASSUME Held(s)'
          PROVE  /\ Held(s) /\ index'[s.table].leased
                 /\ \A d \in FactsIn(index, s.bucket) \cup Answers(s.table, s.bound) :
                       d \notin queryChanges
      <3>1. s.bucket \in DOMAIN views /\ s.bucket[1] \notin behind /\ Held(s) /\ s.seen
        BY <1>3, <2>1 DEF Held
      <3>2. LeaseShape(s) /\ index[s.table].leased
        BY <3>1 DEF QInv, Leases, SeenTied
      <3>3. s.bucket[1] \in DOMAIN index /\ s.bucket[1] = s.table
        BY <3>1, <3>2 DEF QInv, ViewsExact, LeaseShape, BucketAt
      <3>4. s.table \in DOMAIN index'
        BY <1>3, <3>1, <3>3
      <3>5. ASSUME NEW d \in FactsIn(index, s.bucket) PROVE d \notin queryChanges
        <4>1. recipe[d].table = s.table
          BY <3>3 DEF FactsIn, QInv, Indexes
        <4> QED BY <1>5, <3>4, <4>1
      <3>6. ASSUME NEW d \in Answers(s.table, s.bound) PROVE d \notin queryChanges
        <4>1. recipe[d].table = s.table
          BY DEF Answers, Visible, Witnesses
        <4> QED BY <1>5, <3>4, <4>1
      <3> QED BY <1>3, <3>1, <3>2, <3>4, <3>5, <3>6
    <2> QED BY <2>1, PublishedLease
  <1> QED BY <1>6, <1>7, <1>8, <1>10, <1>11, <1>12 DEF QInv

LEMMA NotedPublishInv == ASSUME QInv, NotedPublish PROVE QInv'
  <1>1. /\ Publish /\ dirty = {} /\ UNCHANGED rowsOf /\ (Update \/ Invalidate)
        /\ queryChanges' = {} /\ lease' = lease
    BY DEF NotedPublish, Publish, rowsOf, unionVars, rowVars
  <1>2. IInv'
    BY <1>1, PublishInv DEF QInv
  <1> QED BY <1>1, <1>2, UpdateKeeps, InvalidateKeeps

------------------------------------------------------------------------------
LEMMA QueryInitInv == QueryInit => QInv
  <1> SUFFICES ASSUME QueryInit PROVE QInv
    OBVIOUS
  <1>1. IInv
    BY InitInv DEF QueryInit
  <1>2. DOMAIN index = {} /\ DOMAIN views = {} /\ DOMAIN refined = {}
    BY DEF QueryInit
  <1> QED BY <1>1, <1>2 DEF QueryInit, QInv, Notes, Indexes, KeysExact, ViewsExact,
                            RefinedExact, Leases

LEMMA QueryNextInv == QInv /\ [QueryNext]_allVars => QInv'
  <1> SUFFICES ASSUME QInv, [QueryNext]_allVars PROVE QInv'
    OBVIOUS
  <1>1. ASSUME NEW t \in Indexed, NEW bound \in BoundsOf(t), Search(t, bound) PROVE QInv'
    BY <1>1, SearchInv
  <1>2. ASSUME NEW t \in Indexed, NEW bound \in BoundsOf(t), Lease(t, bound) PROVE QInv'
    BY <1>2, LeaseInv
  <1>3. CASE DropLease
    BY <1>3, DropLeaseInv
  <1>4. CASE StartEffects
    BY <1>4, StartEffectsInv
  <1>5. CASE NotedEffect
    BY <1>5, EffectCarried
  <1>6. CASE BeginRepair /\ UNCHANGED queryVars
    BY <1>6, BeginRepairKeeps
  <1>7. CASE ApplyUnion /\ NoteNothing
    BY <1>7, UnionCarried
  <1>8. ASSUME NEW f \in FactRefs, NotedRepair(f) PROVE QInv'
    BY <1>8, RepairCarried
  <1>9. CASE NotedPublish
    BY <1>9, NotedPublishInv
  <1>10. CASE UNCHANGED allVars
    <2>1. UNCHANGED vars /\ UNCHANGED queryVars
      BY <1>10 DEF allVars
    <2>2. IInv'
      BY <2>1, NextInv DEF QInv
    <2>3. UNCHANGED rowsOf /\ phase' = phase
      BY <2>1 DEF vars, unionVars, rowVars, rowsOf
    <2>4. phase = "idle" => queryChanges = {}
      BY DEF QInv, Notes
    <2> QED BY <2>1, <2>2, <2>3, <2>4, PhaseKeeps
  <1> QED BY <1>1, <1>2, <1>3, <1>4, <1>5, <1>6, <1>7, <1>8, <1>9, <1>10 DEF QueryNext

(* The invariant of the incremental indexes: what was not noted and does    *)
(* not wait for repair is where an index, a view or a refinement says it is *)
(* (subscribe, hide, update).                                               *)
THEOREM QueryInductive == QuerySpec => []QInv
  BY QueryInitInv, QueryNextInv, PTL DEF QuerySpec

(* A lease that is still valid reads the rows it read, whatever Runs were   *)
(* published in between, canonical bound or not (valid_read).               *)
LEMMA LeasesHold == ASSUME QInv PROVE LeaseSound
  <1> SUFFICES ASSUME phase = "idle", NEW s \in lease, ValidRead(s)
               PROVE  {Row(d) : d \in Answers(s.table, s.bound)} = s.rows
    BY DEF LeaseSound
  <1>1. dirty = {} /\ Unsure = {} /\ TypeOK
    BY Idle
  <1>2. /\ LeaseShape(s) /\ WholeTied(s) /\ SeenTied(s)
        /\ ~s.whole /\ ~s.seen => s.rows = {}
    BY DEF QInv, Leases
  <1>3. \A U : U = {} => Same(s, U) = {Row(d) : d \in Answers(s.table, s.bound)}
    BY DEF Same
  <1>4. CASE s.whole
    <2>1. Tied(s, dirty, Waiting(s.table))
      BY <1>2, <1>4 DEF WholeTied, ValidRead
    <2>2. Waiting(s.table) = {}
      BY <1>1 DEF Waiting
    <2> QED BY <1>1, <1>3, <2>1, <2>2 DEF Tied
  <1>5. CASE ~s.whole /\ s.seen
    <2>1. Tied(s, Unsure, Unsure \cap FactsIn(index, s.bucket))
      BY <1>2, <1>5 DEF SeenTied, Held, ValidRead
    <2> QED BY <1>1, <1>3, <2>1 DEF Tied
  <1>6. CASE ~s.whole /\ ~s.seen
    <2>1. s.rows = {} /\ ~Exists(index, s.bucket) /\ s.table \in DOMAIN index
      BY <1>2, <1>6 DEF ValidRead
    <2>2. PICK c \in DOMAIN s.bound : /\ c \in Columns(s.table)
                                      /\ s.bucket = BucketAt(s.table, c, s.bound)
      BY <1>2, <1>6 DEF LeaseShape
    <2>3. ASSUME NEW d \in Answers(s.table, s.bound) PROVE FALSE
      <3>1. d \in FactsIn(index, s.bucket)
        BY <1>1, <2>1, <2>2, AnswersFiled DEF QInv
      <3> QED BY <2>1, <2>2, <3>1 DEF Exists, BucketAt
    <2> QED BY <2>1, <2>3
  <1> QED BY <1>2, <1>4, <1>5, <1>6 DEF LeaseShape

(* What the matcher is given are rows it can see that print as it asked,    *)
(* and every row that agrees is among them (candidates).                    *)
LEMMA CandidatesRight ==
    ASSUME QInv, phase = "idle", NEW t \in Indexed, NEW bound \in BoundsOf(t), bound # <<>>
    PROVE  /\ Answers(t, bound) \subseteq Candidates(t, bound)
           /\ \A d \in Candidates(t, bound) :
                 /\ d \in Visible(t)
                 /\ Intersection => \A c \in DOMAIN bound : Prints(d)[c] = Fingerprint(bound[c])
  <1> DEFINE ix == Ensured(t)
             b == Best(ix, t, bound)
             sel == Selectors(t, bound, b)
             all == FactsIn(ix, b)
  <1>1. /\ t \in DOMAIN ix /\ Indexes(ix) /\ KeysExact(ix)
        /\ Unsure = {} /\ TypeOK /\ Visible(t) \subseteq Dependency
    BY EnsuredIs, Idle
  <1>2. /\ ~Exists(ix, b) => Candidates(t, bound) = {}
        /\ Exists(ix, b) /\ (~Intersection \/ sel = {}) => Candidates(t, bound) = all
        /\ Exists(ix, b) /\ Intersection /\ sel # {}
             => Candidates(t, bound) = Refine(ix, all, t, sel)
    BY CandidatesAre
  <1>3. PICK first \in DOMAIN bound : /\ first \in Columns(t)
                                      /\ b = BucketAt(t, first, bound)
    <2> HIDE DEF ix
    <2> QED BY <1>1, BestIs
  <1>4. b[1] = t /\ b[2] = first /\ b[3] = Fingerprint(bound[first])
        /\ DOMAIN bound \subseteq Columns(t)
    BY <1>3 DEF BucketAt, BoundsOf
  <1>5. sel = {<<c, Fingerprint(bound[c])>> : c \in DOMAIN bound \ {first}}
    BY <1>4 DEF Selectors
  <1> HIDE DEF ix, b, sel, all
  <1>6. ASSUME NEW d \in Answers(t, bound)
        PROVE  /\ d \in all
               /\ \A c \in DOMAIN bound : ix[t].keys[d][c] = Fingerprint(bound[c])
    <2>1. d \in FactsIn(ix, BucketAt(t, first, bound))
      BY <1>1, <1>3, AnswersFiled
    <2>2. \A c \in DOMAIN bound : d \in Visible(t) /\ Prints(d)[c] = Fingerprint(bound[c])
      BY <1>4, AgreePrints
    <2>3. d \in Visible(t) => ix[t].keys[d] = Prints(d)
      BY <1>1 DEF KeysExact
    <2> QED BY <1>3, <2>1, <2>2, <2>3 DEF all
  <1>7. Answers(t, bound) \subseteq Candidates(t, bound)
    <2> SUFFICES ASSUME NEW d \in Answers(t, bound) PROVE d \in Candidates(t, bound)
      OBVIOUS
    <2>1. d \in all /\ \A c \in DOMAIN bound : ix[t].keys[d][c] = Fingerprint(bound[c])
      BY <1>6
    <2>2. Exists(ix, b)
      BY <1>1, <1>4, <2>1 DEF Exists, all
    <2>3. d \in Refine(ix, all, t, sel)
      BY <1>5, <2>1 DEF Refine
    <2> QED BY <1>2, <2>1, <2>2, <2>3
  <1>8. ASSUME NEW d \in all
        PROVE  d \in Visible(t) /\ ix[t].keys[d] = Prints(d)
               /\ Prints(d)[first] = Fingerprint(bound[first])
    <2>1. d \in DOMAIN ix[t].keys /\ ix[t].keys[d][first] = Fingerprint(bound[first])
      BY <1>4 DEF all, FactsIn
    <2>2. d \in Dependency
      BY <1>1, <2>1 DEF Indexes, TypeOK
    <2> QED BY <1>1, <2>1, <2>2 DEF KeysExact
  <1>9. ASSUME NEW d \in Candidates(t, bound)
        PROVE  /\ d \in Visible(t)
               /\ Intersection => \A c \in DOMAIN bound : Prints(d)[c] = Fingerprint(bound[c])
    <2>1. d \in all
      BY <1>2, <1>9 DEF Refine
    <2>2. ASSUME Intersection, NEW c \in DOMAIN bound
          PROVE  Prints(d)[c] = Fingerprint(bound[c])
      <3>1. CASE c = first
        BY <1>8, <2>1, <3>1
      <3>2. CASE c # first
        <4>1. <<c, Fingerprint(bound[c])>> \in sel
          BY <1>5, <3>2
        <4>2. d \in Refine(ix, all, t, sel)
          BY <1>2, <1>9, <2>2, <4>1
        <4>3. ix[t].keys[d][c] = Fingerprint(bound[c])
          BY <4>1, <4>2 DEF Refine
        <4> QED BY <1>8, <2>1, <4>3
      <3> QED BY <3>1, <3>2
    <2> QED BY <1>8, <2>1, <2>2
  <1> QED BY <1>7, <1>9

(* The indexes owe the matcher every row there is to see, nothing else, and *)
(* no lease that has expired unnoticed; for every program, any lossy        *)
(* fingerprint, and the three scopes mixed (candidates, update, valid_read).*)
THEOREM IndexesSound == QuerySpec => []IndexSound
  <1>1. QInv => IndexSound
    <2> SUFFICES ASSUME QInv PROVE IndexSound
      OBVIOUS
    <2>1. NoCandidateMissed
      <3> SUFFICES ASSUME phase = "idle", NEW t \in Indexed, NEW bound \in BoundsOf(t)
                   PROVE  Answers(t, bound) \subseteq Candidates(t, bound)
        BY DEF NoCandidateMissed
      <3>1. CASE bound = <<>>
        BY <3>1 DEF Candidates, Answers, Visible
      <3>2. CASE bound # <<>>
        BY <3>2, CandidatesRight
      <3> QED BY <3>1, <3>2
    <2>2. CandidatesFit
      BY CandidatesRight DEF CandidatesFit
    <2> QED BY <2>1, <2>2, LeasesHold DEF IndexSound
  <1> QED BY <1>1, QueryInductive, PTL
===============================================================================
