--------------------------- MODULE NotificationList ---------------------------
(***************************************************************************)
(* The list of tables touched by the workers of a rule set                 *)
(* (egglog/concurrency/src/notification_list.rs), on the growing vector of *)
(* flags of concurrent_vec.rs.  Workers notify() items, each at most once  *)
(* until somebody reset()s the list and takes them.                        *)
(*                                                                         *)
(* The vector: `cells` are the flags of the allocated part, `head` how     *)
(* many are valid, `writer` who holds write_lock.  Its data lock is a      *)
(* ReadOptimizedLock; a thread whose spot is in Reading holds a read guard, *)
(* and growing the allocation waits until there is none.                   *)
(*                                                                         *)
(* Memory order.  The flags are accessed with Ordering::Relaxed.  A load    *)
(* may return a value that has been overwritten: `late` is what it may     *)
(* still see set.  A swap is a read-modify-write and acts on the newest    *)
(* value of its flag.  A store takes its place after the swap that set the *)
(* flag, which the mutex of the list orders before the reset.  The head is *)
(* stored with Release and loaded with Acquire.                            *)
(***************************************************************************)
EXTENDS Naturals, Sequences, FiniteSets, FiniteSetsExt

CONSTANTS
  Recorders,
  MaxItem,     \* items are the indices 0 .. MaxItem
  Nobody,    \* write_lock is free
  MaxCalls     \* bound: calls per thread

(* The bound on items is that of the powers of two PowerOfTwo knows. *)
ListAssumption == MaxItem \in 0 .. 15 /\ MaxCalls \in Nat /\ Nobody \notin Recorders

VARIABLES
  cells,       \* the allocated flags, index -> notified
  head,        \* ConcurrentVec::head
  writer,      \* holder of ConcurrentVec::write_lock
  list,        \* Inner::notified
  spot,
  item,        \* the item a notify() call is about
  taken,       \* what a reset() call has still to clear
  late,        \* flags cleared by another thread: a load may see them set
  calls        \* calls made, per thread

listVars == <<cells, head, writer, list, spot, item, taken, late, calls>>

Items == 0 .. MaxItem
Reading == {"test", "swap", "clear"}

ListTyped ==
  /\ \E n \in 0 .. (2 * MaxItem + 2) : cells \in [0 .. (n - 1) -> BOOLEAN]
  /\ head \in 0 .. (MaxItem + 1)
  /\ writer \in Recorders \cup {Nobody}
  /\ list \in Seq(Items)
  /\ spot \in [Recorders -> Reading \cup {"idle", "resize", "wlock", "recheck",
                                       "push", "grow", "head", "record"}]
  /\ item \in [Recorders -> Items]
  /\ taken \in [Recorders -> SUBSET Items]
  /\ late \in [Recorders -> SUBSET Items]
  /\ calls \in [Recorders -> 0 .. MaxCalls]

InitList ==
  /\ cells = <<>>
  /\ head = 0
  /\ writer = Nobody
  /\ list = <<>>
  /\ spot = [t \in Recorders |-> "idle"]
  /\ item = [t \in Recorders |-> 0]
  /\ taken = [t \in Recorders |-> {}]
  /\ late = [t \in Recorders |-> {}]
  /\ calls = [t \in Recorders |-> 0]

-----------------------------------------------------------------------------
MoveOn(t, at) == spot' = [spot EXCEPT ![t] = at]
Count(t) == calls[t] < MaxCalls /\ calls' = [calls EXCEPT ![t] = @ + 1]
Listed == {list[i] : i \in DOMAIN list}

PowerOfTwo(n) == Min({p \in {1, 2, 4, 8, 16} : p >= n})

CallRecord(t) ==
  /\ spot[t] = "idle"
  /\ Count(t)
  /\ \E i \in Items : item' = [item EXCEPT ![t] = i]
  /\ MoveOn(t, "resize")
  /\ UNCHANGED <<cells, head, writer, list, taken, late>>

\* resize_with: nothing to do if the head is past the index already.
Resize(t) ==
  /\ spot[t] = "resize"
  /\ MoveOn(t, IF item[t] < head THEN "test" ELSE "wlock")
  /\ UNCHANGED <<cells, head, writer, list, item, taken, late, calls>>

WriteLock(t) ==
  /\ spot[t] = "wlock"
  /\ writer = Nobody
  /\ writer' = t
  /\ MoveOn(t, "recheck")
  /\ UNCHANGED <<cells, head, list, item, taken, late, calls>>

\* Mutant: the head is not read again once the lock is held.
RecheckNothing(t) ==
  /\ spot[t] = "recheck"
  /\ MoveOn(t, "push")
  /\ UNCHANGED <<cells, head, writer, list, item, taken, late, calls>>

\* Mutant: the early return keeps the lock.
RecheckLeaks(t) ==
  /\ spot[t] = "recheck"
  /\ MoveOn(t, IF item[t] < head THEN "test" ELSE "push")
  /\ UNCHANGED <<cells, head, writer, list, item, taken, late, calls>>

RecheckHead(t) ==
  /\ spot[t] = "recheck"
  /\ \/ item[t] < head /\ writer' = Nobody /\ MoveOn(t, "test")
     \/ item[t] >= head /\ UNCHANGED writer /\ MoveOn(t, "push")
  /\ UNCHANGED <<cells, head, list, item, taken, late, calls>>

\* push_at: a fresh flag is written at the index if it is allocated.
Push(t) ==
  /\ spot[t] = "push"
  /\ \/ /\ item[t] \in DOMAIN cells
        /\ cells' = [cells EXCEPT ![item[t]] = FALSE]
        /\ MoveOn(t, "head")
     \/ item[t] \notin DOMAIN cells /\ UNCHANGED cells /\ MoveOn(t, "grow")
  /\ UNCHANGED <<head, writer, list, item, taken, late, calls>>

\* The allocation grows under the exclusive lock, filled with fresh flags.
\* The lock hands its contents over, so no old value is left to be read.
GrowCells(t) ==
  /\ spot[t] = "grow"
  /\ \A s \in Recorders : spot[s] \notin Reading
  /\ cells' = [i \in 0 .. (PowerOfTwo(item[t] + 1) - 1) |->
                 IF i \in DOMAIN cells THEN cells[i] ELSE FALSE]
  /\ late' = [s \in Recorders |-> {}]
  /\ MoveOn(t, "push")
  /\ UNCHANGED <<head, writer, list, item, taken, calls>>

SetHead(t) ==
  /\ spot[t] = "head"
  /\ head' = item[t] + 1
  /\ writer' = Nobody
  /\ MoveOn(t, "test")
  /\ UNCHANGED <<cells, list, item, taken, late, calls>>

\* Under a read guard: a flag that is seen set ends the call.  The load is
\* relaxed; one that sees an old FALSE does no harm, the swap looks again.
Test(t) ==
  /\ spot[t] = "test"
  /\ \/ (cells[item[t]] \/ item[t] \in late[t]) /\ MoveOn(t, "idle")
     \/ MoveOn(t, "swap")
  /\ UNCHANGED <<cells, head, writer, list, item, taken, late, calls>>

\* Mutant: the flag is stored without looking at what it was.
SwapBlind(t) ==
  /\ spot[t] = "swap"
  /\ cells' = [cells EXCEPT ![item[t]] = TRUE]
  /\ late' = [late EXCEPT ![t] = @ \ {item[t]}]
  /\ MoveOn(t, "record")
  /\ UNCHANGED <<head, writer, list, item, taken, calls>>

\* Only the thread whose swap found FALSE records the item.
Swap(t) ==
  /\ spot[t] = "swap"
  /\ cells' = [cells EXCEPT ![item[t]] = TRUE]
  /\ late' = [late EXCEPT ![t] = @ \ {item[t]}]
  /\ MoveOn(t, IF cells[item[t]] THEN "idle" ELSE "record")
  /\ UNCHANGED <<head, writer, list, item, taken, calls>>

Record(t) ==
  /\ spot[t] = "record"
  /\ list' = Append(list, item[t])
  /\ MoveOn(t, "idle")
  /\ UNCHANGED <<cells, head, writer, item, taken, late, calls>>

\* Mutant: a reset hands the items out and forgets to clear their flags.
TakeOnly(t) ==
  /\ spot[t] = "idle"
  /\ Count(t)
  /\ list' = <<>>
  /\ UNCHANGED <<cells, head, writer, spot, item, taken, late>>

\* reset(): the list is taken under its mutex, then a read guard is held while
\* the flags of the taken items are cleared one after the other.
Take(t) ==
  /\ spot[t] = "idle"
  /\ Count(t)
  /\ taken' = [taken EXCEPT ![t] = Listed]
  /\ list' = <<>>
  /\ MoveOn(t, "clear")
  /\ UNCHANGED <<cells, head, writer, item, late>>

Clear(t) ==
  /\ spot[t] = "clear"
  /\ \/ /\ taken[t] = {}
        /\ MoveOn(t, "idle")
        /\ UNCHANGED <<cells, taken, late>>
     \/ \E i \in taken[t] :
          /\ cells' = [cells EXCEPT ![i] = FALSE]
          /\ taken' = [taken EXCEPT ![t] = @ \ {i}]
          /\ late' = [s \in Recorders |-> IF s = t THEN late[s] \ {i} ELSE late[s] \cup {i}]
          /\ UNCHANGED spot
  /\ UNCHANGED <<head, writer, list, item, calls>>

StepList(t) ==
  \/ Resize(t) \/ WriteLock(t) \/ RecheckHead(t) \/ Push(t) \/ GrowCells(t) \/ SetHead(t)
  \/ Test(t) \/ Swap(t) \/ Record(t) \/ Clear(t)

NextList == \E t \in Recorders : CallRecord(t) \/ Take(t) \/ StepList(t)

SpecList == InitList /\ [][NextList]_listVars /\ \A t \in Recorders : WF_listVars(StepList(t))

-----------------------------------------------------------------------------
(* A flag is never set for nothing: its item is in the list, about to be    *)
(* recorded, or in the hands of a reset that has not cleared it yet.  So a  *)
(* notify that returns because the flag is set leaves its item with         *)
(* somebody.  That may be the reset it runs beside, and it may have seen an *)
(* old value: reset()'s doc promises nothing to such a call.                *)
FlagAccounted ==
  \A i \in DOMAIN cells : cells[i] =>
    \/ i \in Listed
    \/ \E t \in Recorders : spot[t] = "record" /\ item[t] = i
    \/ \E t \in Recorders : i \in taken[t]

(* An item is in one place at a time: no interleaving of notifications,     *)
(* resizes and resets lists it twice, or lists it again before the reset    *)
(* that took it has cleared its flag.  From then on it may be recorded      *)
(* anew, also by a notify that began before that reset; two successive      *)
(* resets then return it, which is what reset()'s doc warns of.             *)
ListedOnce ==
  \A i \in Items :
    Cardinality({k \in DOMAIN list : list[k] = i})
      + Cardinality({t \in Recorders : spot[t] = "record" /\ item[t] = i})
      + Cardinality({t \in Recorders : i \in taken[t]}) <= 1

(* Every call returns: the vector's two locks do not wait for each other.   *)
Recording(t) == t \in Recorders /\ spot[t] # "idle"
RecordsReturn == \A t \in Recorders : Recording(t) ~> ~Recording(t)

(* An index is valid when it is used, by notify() and by the reset that     *)
(* clears flags: the head a thread saw covers it, and the allocation covers *)
(* the head.                                                                *)
InBounds ==
  /\ head <= Cardinality(DOMAIN cells)
  /\ \A t \in Recorders :
       /\ spot[t] \in {"test", "swap"} => item[t] < head
       /\ \A i \in taken[t] : i < head

(* What notify() and reset() promise of the list, together.                 *)
ListSafe == FlagAccounted /\ ListedOnce /\ InBounds
=============================================================================
