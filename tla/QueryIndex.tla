------------------------------ MODULE QueryIndex ------------------------------
(***************************************************************************)
(* The incremental column indexes of engine/cell-runtime (query.rs) over   *)
(* the fact graph: for every column of an indexed table, buckets of facts  *)
(* by the fingerprint of the column's value; the views and refinements     *)
(* cached on the buckets; and the read leases that tell a reader whether   *)
(* what it read is still what it would read.                               *)
(*                                                                         *)
(* The graph is CellGraph.  Each of its steps that changes a row notes the *)
(* row in query_changes, as the code does; the indexes are patched from    *)
(* these notes when the Run is published.  They are read only while left   *)
(* sides are matched, before any effect of the Run.                        *)
(*                                                                         *)
(* What is abstracted.  A version is used only to be compared: an index    *)
(* whose version is behind query_versions is in `behind`.  A cached view   *)
(* is compared by address: the view a lease holds is marked `held`, and a  *)
(* view made later is not.  At most one lease is followed.                 *)
(***************************************************************************)
EXTENDS CellGraph, FiniteSets

CONSTANTS
    Indexed,        \* the tables queries read
    Fingerprint(_), \* CELL_CPU_HASH_BITS: lossy, so unequal values collide
    Bounds,         \* the partial bindings asked for: column -> value
    Intersection,   \* CELL_CPU_JOIN_INTERSECTION
    Scopes,         \* CELL_CPU_QUERY_INDEX_SCOPE: "rows", "table", "run"
    WatchReads      \* refutation reads leases of every table

(* A partial binding gives values to some columns; the matcher asks a table *)
(* for bindings of its own columns only (BoundsOf).                         *)
ASSUME QueryAssumption ==
    /\ Indexed \subseteq Tables
    /\ \A bound \in Bounds : bound \in [DOMAIN bound -> Values]
    /\ Intersection \in BOOLEAN
    /\ WatchReads \in BOOLEAN

VARIABLES
    queryChanges,   \* Graph.query_changes
    behind,         \* tables with index.version # query_versions
    index,          \* table -> [keys, leased], for the tables indexed now
    views,          \* bucket -> [facts, held], where a view is cached
    refined,        \* <<bucket, selectors>> -> facts
    lease           \* {} or {the read stamp that is followed}

indexesOf == <<index, views, refined>>
queryVars == <<queryChanges, behind, indexesOf, lease>>
allVars   == <<vars, queryVars>>

Columns(t) == 1..(Arity[t] + 1)
BoundsOf(t) == {bound \in Bounds : DOMAIN bound \subseteq Columns(t)}
ValuesOf(r) == [c \in 1..(Len(r.key) + 1) |->
                   IF c <= Len(r.key) THEN r.key[c] ELSE r.value]
Prints(d) == [c \in Columns(recipe[d].table) |-> Fingerprint(ValuesOf(Row(d))[c])]
Witnesses(t) == {d \in live : recipe[d].table = t}
Visible(t) == Witnesses(t) \ hidden

(* What the reader is after: the visible rows that agree with the bound.    *)
Agree(r, bound) == \A c \in DOMAIN bound : ValuesOf(r)[c] = bound[c]
Answers(t, bound) == {d \in Visible(t) : Agree(Row(d), bound)}

------------------------------------------------------------------------------
(* Columns: one bucket per column and fingerprint. *)

BucketsOf(t, keys) == {<<t, c, keys[c]>> : c \in DOMAIN keys}
FactsIn(ix, b) == {d \in DOMAIN ix[b[1]].keys : ix[b[1]].keys[d][b[2]] = b[3]}
Exists(ix, b) == b[1] \in DOMAIN ix /\ FactsIn(ix, b) # {}

Without(fn, S) == [x \in DOMAIN fn \ S |-> fn[x]]
Unviewed(v, B) == Without(v, B)
Unrefined(r, B) == [x \in {y \in DOMAIN r : y[1] \notin B} |-> r[x]]

(* best(): the smallest bucket of a bound column, the first on a tie. *)
BucketAt(t, c, bound) == <<t, c, Fingerprint(bound[c])>>
SizeAt(ix, t, c, bound) == Cardinality(FactsIn(ix, BucketAt(t, c, bound)))
Best(ix, t, bound) ==
    BucketAt(t, CHOOSE c \in DOMAIN bound : \A e \in DOMAIN bound :
                   \/ SizeAt(ix, t, c, bound) < SizeAt(ix, t, e, bound)
                   \/ SizeAt(ix, t, c, bound) = SizeAt(ix, t, e, bound) /\ c <= e,
             bound)

(* A full build decodes every row; put() keeps the hidden ones out. *)
Built(t) == [keys |-> [d \in Visible(t) |-> Prints(d)], leased |-> FALSE]

(* ensure(): an index that is behind is thrown away and built again. *)
Current(t) == t \in DOMAIN index /\ t \notin behind
Ensured(t) == IF Current(t) THEN index ELSE Put(index, t, Built(t))
OfTable(t, fn) == {x \in DOMAIN fn : x[1] = t}
EnsuredViews(t) == IF Current(t) THEN views ELSE Without(views, OfTable(t, views))
EnsuredRefined(t) == IF Current(t) THEN refined
                     ELSE Unrefined(refined, {b \in {x[1] : x \in DOMAIN refined} : b[1] = t})

View(facts) == [facts |-> facts, held |-> FALSE]
(* get_or_insert_with: the cached view, or one of the bucket as it is now. *)
ViewOf(v, ix, b) == IF b \in DOMAIN v THEN v[b] ELSE View(FactsIn(ix, b))

Selectors(t, bound, b) ==
    {<<c, Fingerprint(bound[c])>> : c \in DOMAIN bound \ {b[2]}}
Refine(ix, facts, t, sel) ==
    {d \in facts : \A s \in sel : ix[t].keys[d][s[1]] = s[2]}

------------------------------------------------------------------------------
(* Reading.  `candidates` is what the matcher is given for a bound.         *)

Candidates(t, bound) ==
    LET ix == Ensured(t)
        b == Best(ix, t, bound)
        view == ViewOf(EnsuredViews(t), ix, b).facts
        sel == Selectors(t, bound, b)
    IN  IF bound = <<>> THEN Witnesses(t)
        ELSE IF ~Exists(ix, b) THEN {}
        ELSE IF ~Intersection \/ sel = {} THEN view
        ELSE IF <<b, sel>> \in DOMAIN EnsuredRefined(t) THEN EnsuredRefined(t)[<<b, sel>>]
        ELSE Refine(ix, view, t, sel)

(* Bound: no reads after the last Run, which no change follows. *)
Reading == /\ phase = "idle"
           /\ epoch < MaxEpoch
           /\ UNCHANGED <<vars, queryChanges>>

(* candidates(): builds the index if need be, caches the bucket's view and, *)
(* with the intersection on, the nonempty proper part the other columns     *)
(* leave of it.                                                             *)
Search(t, bound) ==
    LET ix == Ensured(t)
        b == Best(ix, t, bound)
        view == ViewOf(EnsuredViews(t), ix, b)
        sel == Selectors(t, bound, b)
        found == Candidates(t, bound)
    IN  /\ Reading
        /\ bound # <<>>
        /\ index' = ix
        /\ behind' = behind \ {t}
        /\ views' = IF Exists(ix, b) THEN Put(EnsuredViews(t), b, view)
                    ELSE EnsuredViews(t)
        /\ refined' = IF Exists(ix, b) /\ Intersection /\ found \notin {{}, view.facts}
                      THEN Put(EnsuredRefined(t), <<b, sel>>, found)
                      ELSE EnsuredRefined(t)
        /\ UNCHANGED lease

(* read_stamp(): a bucket and its view, or the whole table. *)
Lease(t, bound) ==
    LET ix == Ensured(t)
        b == Best(ix, t, bound)
        whole == bound = <<>>
        seen == ~whole /\ Exists(ix, b)
        read == [table |-> t, whole |-> whole, seen |-> seen,
                 bucket |-> IF whole THEN <<>> ELSE b,
                 bound |-> bound, rows |-> {Row(d) : d \in Answers(t, bound)},
                 fresh |-> TRUE]
    IN  /\ Reading
        /\ lease = {}
        /\ index' = [ix EXCEPT ![t].leased = TRUE]
        /\ behind' = behind \ {t}
        /\ lease' = {read}
        /\ views' = IF seen
                    THEN Put(EnsuredViews(t), b,
                             [ViewOf(EnsuredViews(t), ix, b) EXCEPT !.held = TRUE])
                    ELSE EnsuredViews(t)
        /\ refined' = EnsuredRefined(t)

(* valid_read(). *)
ValidRead(s) ==
    /\ s.table \in DOMAIN index
    /\ s.table \notin behind
    /\ IF s.whole THEN s.fresh
       ELSE IF s.seen THEN s.bucket \in DOMAIN views /\ views[s.bucket].held
       ELSE ~Exists(index, s.bucket)

(* A reader whose stamp is no longer valid gives it up. *)
DropLease ==
    /\ Reading
    /\ lease # {}
    /\ lease' = {}
    /\ views' = [b \in DOMAIN views |-> View(views[b].facts)]
    /\ UNCHANGED <<behind, index, refined>>

------------------------------------------------------------------------------
(* Writing.  Note(D): every d of D gets a new version and is remembered.    *)

Note(D) ==
    LET T == {recipe'[d].table : d \in D}
    IN  /\ queryChanges' = queryChanges \cup D
        /\ behind' = behind \cup (T \cap DOMAIN index)
        /\ lease' = {[s EXCEPT !.fresh = @ /\ s.table \notin T] : s \in lease}
        /\ UNCHANGED indexesOf
NoteNothing == Note({})

Existing(t, key) == {f \in FactRefs : First(f, Matching(t, key))}

(* hide() notes a row that was visible; activate() and retire() subscribe,  *)
(* and subscribe() notes the row.                                           *)
NotedEffect ==
    \/ \E t \in Virtual \cap RuleTables : \E key \in KnownKeys(t) :
        \/ (Construct(t, key) \/ SubsumeFresh(t, key)) /\ Note({nextFact'})
        \/ (Subsume(t, key) \/ Delete(t, key)) /\ Note(Existing(t, key))
    \/ \E t \in Constructors \cap RuleTables : \E key \in KnownKeys(t) : \E v \in Known :
        \/ SetFact(t, key, v) /\ Note({nextFact'})
        \/ SetExisting(t, key, v) /\ NoteNothing
    \/ \E a, b \in Known : RequestUnion(a, b) /\ NoteNothing

(* Mutant: a re-filed fact is not noted. *)
NotedRepairCollapsesOnly(f) ==
    RepairFact(f) /\ Note(IF Owners(f) = {} THEN {} ELSE {f})

(* A re-filed fact is noted by subscribe(), a retired one by retire(); the  *)
(* fact that keeps the key may have become hidden and is noted too.         *)
NotedRepair(f) ==
    RepairFact(f) /\ Note({f} \cup {g \in FactRefs : First(g, Owners(f))})

------------------------------------------------------------------------------
(* Publication: update() patches the indexes from the notes.                *)

(* put() of a visible row, remove() of one that is hidden or gone. *)
Patched(t) ==
    LET ix == index[t]
        noted == {d \in queryChanges : recipe[d].table = t}
        kept == (DOMAIN ix.keys \ noted) \cup (noted \cap Visible(t))
    IN  [ix EXCEPT !.keys = [d \in kept |-> IF d \in noted THEN Prints(d) ELSE ix.keys[d]]]

(* Rows whose fingerprints changed, or that came or went. *)
Moved(t) ==
    {d \in queryChanges :
        /\ recipe[d].table = t
        /\ ~(/\ d \in DOMAIN index[t].keys /\ d \in Visible(t)
             /\ index[t].keys[d] = Prints(d))}

(* Mutant: a row that keeps its fingerprints leaves the views alone. *)
TouchedMovedOnly(t) ==
    UNION {(IF d \in DOMAIN index[t].keys THEN BucketsOf(t, index[t].keys[d]) ELSE {})
           \cup (IF d \in Visible(t) THEN BucketsOf(t, Prints(d)) ELSE {}) : d \in Moved(t)}

(* Mutant: the buckets a row leaves keep their views. *)
TouchedNewBuckets(t) ==
    UNION {IF d \in Visible(t) THEN BucketsOf(t, Prints(d)) ELSE {} :
             d \in {e \in queryChanges : recipe[e].table = t}}

(* The buckets whose views and refinements the patch drops: those a row     *)
(* leaves or enters, and, where reads are leased, those of a row that stays *)
(* put, since equal fingerprints do not mean equal values.                  *)
Touched(t) ==
    LET quiet == {d \in queryChanges : recipe[d].table = t} \ Moved(t)
        told == IF WatchReads \/ index[t].leased THEN quiet ELSE {}
    IN  UNION {(IF d \in DOMAIN index[t].keys THEN BucketsOf(t, index[t].keys[d]) ELSE {})
               \cup (IF d \in Visible(t) THEN BucketsOf(t, Prints(d)) ELSE {})
                 : d \in Moved(t) \cup told}

Update ==
    LET B == UNION {Touched(t) : t \in DOMAIN index}
    IN  /\ index' = [t \in DOMAIN index |-> Patched(t)]
        /\ views' = Unviewed(views, B)
        /\ refined' = Unrefined(refined, B)
        /\ behind' = {}

(* Scope "table": indexes that are behind are dropped, the rest kept. *)
Invalidate ==
    /\ index' = Without(index, behind)
    /\ views' = Without(views, {b \in DOMAIN views : b[1] \in behind})
    /\ refined' = Unrefined(refined, {b \in {x[1] : x \in DOMAIN refined} : b[1] \in behind})
    /\ behind' = {}

(* Scope "run": the indexes are cleared between matching and the effects. *)
Clear ==
    /\ index' = <<>>
    /\ views' = <<>>
    /\ refined' = <<>>
    /\ behind' = {}

NotedPublish ==
    /\ Publish
    /\ \/ {"rows", "run"} \cap Scopes # {} /\ Update
       \/ "table" \in Scopes /\ Invalidate
    /\ queryChanges' = {}
    /\ UNCHANGED lease

StartEffects ==
    /\ BeginRun
    /\ \/ Scopes \ {"run"} # {} /\ UNCHANGED <<indexesOf, behind>>
       \/ "run" \in Scopes /\ Clear
    /\ UNCHANGED <<queryChanges, lease>>

------------------------------------------------------------------------------
QueryInit ==
    /\ Init
    /\ queryChanges = {}
    /\ behind = {}
    /\ index = <<>>
    /\ views = <<>>
    /\ refined = <<>>
    /\ lease = {}

QueryNext ==
    \/ \E t \in Indexed : \E bound \in BoundsOf(t) : Search(t, bound) \/ Lease(t, bound)
    \/ DropLease
    \/ StartEffects
    \/ NotedEffect
    \/ BeginRepair /\ UNCHANGED queryVars
    \/ ApplyUnion /\ NoteNothing
    \/ \E f \in FactRefs : NotedRepair(f)
    \/ NotedPublish

QuerySpec == QueryInit /\ [][QueryNext]_allVars

------------------------------------------------------------------------------
(* Between Runs the matcher is given every visible row that agrees with its *)
(* bound, out of buckets, cached views and cached refinements that were     *)
(* patched from the notes alone (candidates, update).                       *)
NoCandidateMissed ==
    phase = "idle" =>
        \A t \in Indexed : \A bound \in BoundsOf(t) :
            Answers(t, bound) \subseteq Candidates(t, bound)

(* And nothing that is gone, hidden or elsewhere: a candidate can be seen   *)
(* now, and its fingerprints agree with every bound column when the buckets *)
(* are intersected.  A view that outlived a move would make candidates()    *)
(* look up a fact the index no longer has (Columns::remove).                *)
CandidatesFit ==
    phase = "idle" =>
        \A t \in Indexed : \A bound \in BoundsOf(t) \ {<<>>} : \A d \in Candidates(t, bound) :
            /\ d \in Visible(t)
            /\ Intersection =>
                \A c \in DOMAIN bound : Prints(d)[c] = Fingerprint(bound[c])

(* A read that is still valid would read the same rows, column by column,   *)
(* though valid_read compares no value: not even whether the classes the    *)
(* reader asked for are still canonical.                                    *)
LeaseSound ==
    phase = "idle" =>
        \A s \in lease : ValidRead(s) =>
            {Row(d) : d \in Answers(s.table, s.bound)} = s.rows

(* What the indexes owe the matcher: every row there is to see, nothing     *)
(* else, and no lease that has expired unnoticed (candidates, valid_read).  *)
IndexSound == NoCandidateMissed /\ CandidatesFit /\ LeaseSound
==============================================================================
