-------------------------- MODULE ConcurrentUnionFind --------------------------
(***************************************************************************)
(* The lock-free union-find (egglog/union-find/src/concurrent/{uf,buffer,  *)
(* mod}.rs).  One step per atomic access of a thread: find() follows the   *)
(* parents and splits the path behind it with compare-and-swaps that may   *)
(* fail; merge() links the larger of two roots below the smaller one;      *)
(* same_set() checks that the first id is still a root before it says no.  *)
(* An access outside the buffer makes it longer, under the exclusive side  *)
(* of a ReadOptimizedLock; reset() and deep_copy() take its two sides too. *)
(***************************************************************************)
EXTENDS Naturals, FiniteSets, FiniteSetsExt

CONSTANTS
  Workers,     \* a thread makes one call: calls share nothing but the buffer
  MaxId,       \* bound: ids are 0 .. MaxId
  Kinds,       \* operations called: "find", "same", "merge", "copy"
  MaxReset     \* bound: resets

\* Buffers double up to 16 cells here (NextPowerOfTwo).
UnionFindAssumption ==
  /\ MaxId \in 0 .. 15
  /\ Kinds \subseteq {"find", "same", "merge", "copy"}
  /\ MaxReset \in Nat

Ids == 0 .. MaxId

VARIABLES
  data,     \* the buffer: 0 .. len - 1 |-> parent
  at,       \* where each thread is in its call
  op,       \* the call: [kind, l, r]
  left, right, \* the ids being looked up, then what was found
  side,     \* which of them find_impl is at
  cur, next, grand, \* its registers
  copy,     \* the part of the buffer deep_copy has read
  result,   \* what the last call returned
  resets,
  seen,     \* history: <<rep of l, rep of r>> at every moment of the call
  demoted   \* history: [by, child] of every merge that returned a child

finding == <<left, right, side, cur, next, grand>>
forestVars == <<data, at, op, finding, copy, result, resets, seen, demoted>>

RepOf(d) ==
  LET up[x \in Ids] == IF x \notin DOMAIN d \/ d[x] = x THEN x ELSE up[d[x]]
  IN up

Rep == RepOf(data)

ForestTyped ==
  /\ \A x \in DOMAIN data : data[x] <= x
  /\ at \in [Workers -> {"idle", "enter", "grow", "next", "grand", "split",
                         "check", "link", "copy", "returned"}]

NextPowerOfTwo(n) == CHOOSE p \in {1, 2, 4, 8, 16} :
  p >= n /\ \A q \in {1, 2, 4, 8, 16} : q >= n => p <= q

\* Any forest earlier calls leave: linking roots in decreasing order makes
\* every function that never points upwards.
InitForest ==
  /\ \E len \in {1, MaxId + 1} :
       data \in {f \in [0 .. (len - 1) -> Ids] : \A x \in DOMAIN f : f[x] <= x}
  /\ at = [t \in Workers |-> "idle"]
  /\ op = [t \in Workers |-> [kind |-> "find", l |-> 0, r |-> 0]]
  /\ left = [t \in Workers |-> 0] /\ right = left /\ cur = left
  /\ next = left /\ grand = left
  /\ side = [t \in Workers |-> "l"]
  /\ copy = [t \in Workers |-> <<>>]
  /\ result = [t \in Workers |-> <<>>]
  /\ resets = 0
  /\ seen = [t \in Workers |-> {}]
  /\ demoted = {}

-----------------------------------------------------------------------------
MoveTo(t, place) == at' = [at EXCEPT ![t] = place]

\* What every call under way could have answered in the next state.
Observe == seen' = [t \in Workers |->
  IF at[t] \in {"idle", "returned"} THEN seen[t]
  ELSE seen[t] \cup {<<RepOf(data')[op[t].l], RepOf(data')[op[t].r]>>}]

Call(t) ==
  /\ at[t] = "idle"
  /\ \E k \in Kinds, l \in Ids, r \in Ids :
       /\ k \in {"find", "copy"} => r = l
       /\ k = "copy" => l = 0
       /\ op' = [op EXCEPT ![t] = [kind |-> k, l |-> l, r |-> r]]
       /\ left' = [left EXCEPT ![t] = l]
       /\ right' = [right EXCEPT ![t] = r]
       /\ seen' = [seen EXCEPT ![t] = {<<Rep[l], Rep[r]>>}]
  /\ side' = [side EXCEPT ![t] = "l"]
  /\ copy' = [copy EXCEPT ![t] = <<>>]
  /\ MoveTo(t, "enter")
  /\ UNCHANGED <<data, cur, next, grand, result, resets, demoted>>

Inside(t) == at[t] \in {"next", "grand", "split", "check", "link", "copy"}
Unshared == \A t \in Workers : ~Inside(t)

StartFind(t, s, id) ==
  /\ side' = [side EXCEPT ![t] = s]
  /\ cur' = [cur EXCEPT ![t] = id]
  /\ MoveTo(t, "next")
  /\ UNCHANGED <<left, right, next, grand>>

\* with_access: a read guard if the buffer is long enough, else it is dropped
\* and the buffer made longer first.
Needed(t) == Max({op[t].l, op[t].r}) + 1

Enter(t) ==
  /\ at[t] = "enter"
  /\ \/ /\ op[t].kind = "copy"
        /\ MoveTo(t, "copy")
        /\ UNCHANGED finding
     \/ /\ op[t].kind # "copy"
        /\ Cardinality(DOMAIN data) >= Needed(t)
        /\ StartFind(t, "l", op[t].l)
     \/ /\ op[t].kind # "copy"
        /\ Cardinality(DOMAIN data) < Needed(t)
        /\ MoveTo(t, "grow")
        /\ UNCHANGED finding
  /\ UNCHANGED <<data, op, copy, result, resets, seen, demoted>>

\* Mutant: the new cells are counted from one too far.
GrowOffByOne(t) ==
  /\ at[t] = "grow"
  /\ Unshared
  /\ data' = [x \in 0 .. (Max({NextPowerOfTwo(Needed(t)), Cardinality(DOMAIN data)}) - 1) |->
                IF x \in DOMAIN data THEN data[x] ELSE Min({x + 1, MaxId})]
  /\ MoveTo(t, "enter")
  /\ UNCHANGED <<op, finding, copy, result, resets, seen, demoted>>

Grow(t) ==
  /\ at[t] = "grow"
  /\ Unshared
  /\ data' = [x \in 0 .. (Max({NextPowerOfTwo(Needed(t)), Cardinality(DOMAIN data)}) - 1) |->
                IF x \in DOMAIN data THEN data[x] ELSE x]
  /\ MoveTo(t, "enter")
  /\ Observe
  /\ UNCHANGED <<op, finding, copy, result, resets, demoted>>

\* find_impl: load!(cur), load!(next), and the split.
LoadNext(t) ==
  /\ at[t] = "next"
  /\ next' = [next EXCEPT ![t] = data[cur[t]]]
  /\ MoveTo(t, "grand")
  /\ UNCHANGED <<data, op, left, right, side, cur, grand, copy, result, resets, seen, demoted>>

Respond(t, value) ==
  /\ MoveTo(t, "returned")
  /\ result' = [result EXCEPT ![t] = value]

\* The registers of a call die with it.
Forget(t) ==
  /\ left' = [left EXCEPT ![t] = 0]
  /\ right' = [right EXCEPT ![t] = 0]
  /\ side' = [side EXCEPT ![t] = "l"]
  /\ cur' = [cur EXCEPT ![t] = 0]
  /\ next' = [next EXCEPT ![t] = 0]
  /\ grand' = [grand EXCEPT ![t] = 0]

\* find_impl returned `id`: the caller returns it, looks up the other id, or
\* compares the two.
FoundLast(t, id) ==
  \/ op[t].kind = "find"
  \/ side[t] = "r" /\ id = left[t]

Answer(t, id) ==
  CASE op[t].kind = "find" -> <<id>>
    [] op[t].kind = "same" -> <<TRUE>>
    [] op[t].kind = "merge" -> <<id, id>>

Found(t, id) ==
  \/ /\ FoundLast(t, id)
     /\ Respond(t, Answer(t, id))
     /\ Forget(t)
  \/ /\ ~FoundLast(t, id)
     /\ side[t] = "l"
     /\ left' = [left EXCEPT ![t] = id]
     /\ side' = [side EXCEPT ![t] = "r"]
     /\ cur' = [cur EXCEPT ![t] = right[t]]
     /\ MoveTo(t, "next")
     /\ UNCHANGED <<right, next, grand, result>>
  \/ /\ ~FoundLast(t, id)
     /\ side[t] = "r"
     /\ right' = [right EXCEPT ![t] = id]
     /\ MoveTo(t, IF op[t].kind = "same" THEN "check" ELSE "link")
     /\ UNCHANGED <<left, side, cur, next, grand, result>>

LoadGrand(t) ==
  /\ at[t] = "grand"
  /\ \/ /\ next[t] = data[next[t]]
        /\ Found(t, next[t])
     \/ /\ next[t] # data[next[t]]
        /\ grand' = [grand EXCEPT ![t] = data[next[t]]]
        /\ MoveTo(t, "split")
        /\ UNCHANGED <<left, right, side, cur, next, result>>
  /\ UNCHANGED <<data, op, copy, resets, seen, demoted>>

Split(t) ==
  /\ at[t] = "split"
  /\ data' = IF data[cur[t]] = next[t] THEN [data EXCEPT ![cur[t]] = grand[t]] ELSE data
  /\ cur' = [cur EXCEPT ![t] = next[t]]
  /\ next' = [next EXCEPT ![t] = 0]
  /\ grand' = [grand EXCEPT ![t] = 0]
  /\ MoveTo(t, "next")
  /\ Observe
  /\ UNCHANGED <<op, left, right, side, copy, result, resets, demoted>>

\* Mutant: two different roots are taken for two classes.
CheckNothing(t) ==
  /\ at[t] = "check"
  /\ Respond(t, <<FALSE>>)
  /\ Forget(t)
  /\ UNCHANGED <<data, op, copy, resets, seen, demoted>>

\* same_set: no only if the first is still a root, else both again.
CheckRoot(t) ==
  /\ at[t] = "check"
  /\ IF data[left[t]] = left[t]
       THEN Respond(t, <<FALSE>>) /\ Forget(t)
       ELSE StartFind(t, "l", left[t]) /\ UNCHANGED result
  /\ UNCHANGED <<data, op, copy, resets, seen, demoted>>

Parent(t) == Min({left[t], right[t]})
Child(t) == Max({left[t], right[t]})

\* Mutant: the child is linked whatever became of it.
LinkBlind(t) ==
  /\ at[t] = "link"
  /\ data' = [data EXCEPT ![Child(t)] = Parent(t)]
  /\ Respond(t, <<Parent(t), Child(t)>>)
  /\ demoted' = demoted \cup {[by |-> t, child |-> Child(t)]}
  /\ Forget(t)
  /\ Observe
  /\ UNCHANGED <<op, copy, resets>>

\* Mutant: a failed compare-and-swap is taken for somebody else's success.
LinkTrusts(t) ==
  /\ at[t] = "link"
  /\ data' = IF data[Child(t)] = Child(t) THEN [data EXCEPT ![Child(t)] = Parent(t)] ELSE data
  /\ Respond(t, <<Parent(t), Child(t)>>)
  /\ demoted' = demoted \cup {[by |-> t, child |-> Child(t)]}
  /\ Forget(t)
  /\ Observe
  /\ UNCHANGED <<op, copy, resets>>

\* Mutant: the compare-and-swap is tried again with the same roots.
LinkSpins(t) ==
  /\ at[t] = "link"
  /\ data[Child(t)] = Child(t)
  /\ data' = [data EXCEPT ![Child(t)] = Parent(t)]
  /\ Respond(t, <<Parent(t), Child(t)>>)
  /\ demoted' = demoted \cup {[by |-> t, child |-> Child(t)]}
  /\ Forget(t)
  /\ Observe
  /\ UNCHANGED <<op, copy, resets>>

\* merge: the child is linked if it is still a root, else both are looked up
\* again.
Link(t) ==
  /\ at[t] = "link"
  /\ IF data[Child(t)] = Child(t)
       THEN /\ data' = [data EXCEPT ![Child(t)] = Parent(t)]
            /\ Respond(t, <<Parent(t), Child(t)>>)
            /\ demoted' = demoted \cup {[by |-> t, child |-> Child(t)]}
            /\ Forget(t)
       ELSE /\ StartFind(t, "l", left[t])
            /\ UNCHANGED <<data, result, demoted>>
  /\ Observe
  /\ UNCHANGED <<op, copy, resets>>

\* deep_copy reads one cell after the other under a read guard.
Copy(t) ==
  /\ at[t] = "copy"
  /\ LET n == Cardinality(DOMAIN copy[t]) IN
     IF n \in DOMAIN data
       THEN /\ copy' = [copy EXCEPT ![t] = [x \in 0 .. n |-> IF x = n THEN data[n] ELSE @[x]]]
            /\ UNCHANGED <<at, result>>
       ELSE Respond(t, <<>>) /\ UNCHANGED copy
  /\ UNCHANGED <<data, op, finding, resets, seen, demoted>>

\* Mutant: the cells are overwritten beside the readers.
ResetShared ==
  /\ resets < MaxReset
  /\ resets' = resets + 1
  /\ data' = [x \in DOMAIN data |-> x]
  /\ demoted' = {}
  /\ Observe
  /\ UNCHANGED <<at, op, finding, copy, result>>

Reset ==
  /\ resets < MaxReset
  /\ Unshared
  /\ resets' = resets + 1
  /\ data' = [x \in DOMAIN data |-> x]
  /\ demoted' = {}
  /\ Observe
  /\ UNCHANGED <<at, op, finding, copy, result>>

StepForest(t) ==
  \/ Enter(t) \/ Grow(t) \/ LoadNext(t) \/ LoadGrand(t)
  \/ Split(t) \/ CheckRoot(t) \/ Link(t) \/ Copy(t)

NextForest == Reset \/ \E t \in Workers : Call(t) \/ StepForest(t)

SpecForest == InitForest /\ [][NextForest]_forestVars /\ \A t \in Workers : WF_forestVars(StepForest(t))

-----------------------------------------------------------------------------
(* find and same_set answer what was true at one moment of the call,        *)
(* whatever other threads linked, split or reset meanwhile.  merge joins     *)
(* the two classes, and returns a name each of them had during the call:     *)
(* the child still was one when it was linked.                               *)
Linearizable == \A t \in Workers : at[t] = "returned" =>
  CASE op[t].kind = "find" -> \E o \in seen[t] : result[t] = <<o[1]>>
    [] op[t].kind = "same" -> \E o \in seen[t] : result[t] = <<o[1] = o[2]>>
    [] op[t].kind = "merge" ->
         \/ \E o \in seen[t] : o[1] = o[2] /\ result[t] = o
         \/ /\ \E a, b \in seen[t] :
                  /\ a[1] # b[2]
                  /\ result[t] = <<Min({a[1], b[2]}), Max({a[1], b[2]})>>
            /\ \E o \in seen[t] : result[t][2] \in {o[1], o[2]} /\ o[1] # o[2]
            /\ \E o \in seen[t] : o[1] = o[2]
    [] OTHER -> TRUE

(* "Merge the equivalence classes of `l` and `r`, returning the new parent   *)
(* and new child classes" (uf.rs:97): at one moment of the call these are    *)
(* the names of the two classes.  They need not be: the parent is not looked *)
(* at again when the child is linked, and may have been linked meanwhile.    *)
MergeNamesClasses == \A t \in Workers : at[t] = "returned" /\ op[t].kind = "merge" =>
  \E o \in seen[t] : result[t] = <<Min({o[1], o[2]}), Max({o[1], o[2]})>>

(* A class is handed out as a child once: rebuilding, which starts from the *)
(* children the unions return, treats every displaced id exactly once.      *)
DemotedOnce ==
  /\ \A a, b \in demoted : a.child = b.child => a = b
  /\ \A a \in demoted : data[a.child] # a.child

(* A copy made beside unions joins nothing its original does not join by    *)
(* the end of it.                                                           *)
CopiedPartition ==
  \A t \in Workers : (at[t] = "copy" /\ at'[t] = "returned")
    => \A x \in Ids \cap DOMAIN copy[t] : Rep[copy[t][x]] = Rep[x]
CopyInventsNothing == [][CopiedPartition]_forestVars

Abstract == INSTANCE DisjointSets WITH rep <- Rep

(* Path splitting and growing change no class, a link joins two classes at  *)
(* once and names the result by the least id: the forest is a partition.    *)
ImplementsDisjointSets == Abstract!Spec

(* What the lock-free union-find owes its callers, together (uf.rs).        *)
ForestSafe ==
  /\ [](Linearizable /\ DemotedOnce)
  /\ CopyInventsNothing
  /\ ImplementsDisjointSets

(* Every call returns: a compare-and-swap that fails means that another     *)
(* thread got something done, and there is a bound on that.                 *)
Calling(t) == t \in Workers /\ at[t] \notin {"idle", "returned"}
CallsReturn == \A t \in Workers : Calling(t) ~> ~Calling(t)
=============================================================================
