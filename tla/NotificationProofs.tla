-------------------------- MODULE NotificationProofs --------------------------
(***************************************************************************)
(* What workers wait for and what they leave word of: the latch, and the   *)
(* list of touched tables, each for any number of threads, calls and       *)
(* spurious wake-ups.                                                      *)
(***************************************************************************)
EXTENDS Notification, NotificationList, FiniteSetTheorems, TLAPS

-----------------------------------------------------------------------------
(* THE LATCH.  The invariant ties the mutex to the places of the code that  *)
(* hold it: a thread that is about to sleep holds the mutex, so the flag it *)
(* has seen FALSE cannot have been set since.                               *)

Critical == {"recheck", "doze", "store", "wake"}

(* Who holds the mutex, and what it knows of the flag.                      *)
MutexHeld == \A t \in Threads : pc[t] \in Critical <=> mutex = t
DozesUnnotified == \A t \in Threads : pc[t] = "doze" => ~notified

LInv == TypeOK /\ MutexHeld /\ DozesUnnotified /\ NoSleeperMissed /\ NoFalseWake

(* A new latch satisfies the invariant.                                     *)
LEMMA LatchInit == LatchAssumption /\ Init => LInv
  <1> SUFFICES ASSUME LatchAssumption, Init PROVE LInv
    OBVIOUS
  <1>1. TypeOK
    <2>1. spurious \in 0 .. MaxSpurious
      BY DEF Init, LatchAssumption
    <2>2. /\ notified \in BOOLEAN /\ mutex \in Threads \cup {NoThread}
          /\ timed \in [Threads -> BOOLEAN]
          /\ answer \in [Threads -> {"none", "yes", "no"}]
      BY DEF Init
    <2>3. pc \in [Threads -> Waiting \cup {"idle", "nlock", "store", "wake"}]
      BY DEF Init
    <2> QED BY <2>1, <2>2, <2>3 DEF TypeOK
  <1>2. MutexHeld /\ DozesUnnotified /\ NoSleeperMissed /\ NoFalseWake
    BY DEF Init, MutexHeld, DozesUnnotified, NoSleeperMissed, NoFalseWake,
           Critical, LatchAssumption
  <1> QED BY <1>1, <1>2 DEF LInv

(* A thread that holds no mutex goes somewhere it holds none, and the flag  *)
(* stays as it is.                                                          *)
LEMMA OutsideStep ==
    ASSUME LInv, NEW t \in Threads, NEW at \in Waiting \cup {"idle", "nlock"},
           at # "sleep", at \notin Critical, pc[t] \notin Critical, Goto(t, at),
           UNCHANGED <<notified, mutex>>, TypeOK',
           \A s \in Threads : answer'[s] = "yes" => answer[s] = "yes" \/ notified
    PROVE  LInv'
  <1> USE DEF LInv
  <1>1. /\ pc'[t] = at
        /\ \A s \in Threads \ {t} : pc'[s] = pc[s]
    BY DEF Goto, TypeOK
  <1>2. MutexHeld'
    BY <1>1 DEF MutexHeld
  <1>3. DozesUnnotified'
    BY <1>1 DEF DozesUnnotified, Critical
  <1>4. NoSleeperMissed'
    <2> SUFFICES ASSUME notified, NEW s \in Threads, pc'[s] = "sleep"
                 PROVE  \E n \in Threads : pc'[n] = "wake"
      BY DEF NoSleeperMissed
    <2>1. s # t /\ pc[s] = "sleep"
      BY <1>1
    <2>2. PICK n \in Threads : pc[n] = "wake"
      BY <2>1 DEF NoSleeperMissed
    <2>3. n # t
      BY <2>2 DEF Critical
    <2> QED BY <2>2, <2>3, <1>1
  <1>5. NoFalseWake'
    BY DEF NoFalseWake
  <1> QED BY <1>2, <1>3, <1>4, <1>5

(* A thread takes the free mutex.                                           *)
LEMMA AcquireStep ==
    ASSUME LatchAssumption, LInv, NEW t \in Threads, NEW from, NEW to \in Critical,
           from \notin Critical, from # "wake", to \notin {"doze"},
           Acquire(t, from, to)
    PROVE  LInv'
  <1> USE DEF LInv
  <1>1. /\ pc'[t] = to /\ pc[t] = from
        /\ \A s \in Threads \ {t} : pc'[s] = pc[s]
        /\ mutex = NoThread /\ mutex' = t
        /\ UNCHANGED <<notified, timed, answer, spurious>>
    BY DEF Acquire, Goto, TypeOK
  <1>2. TypeOK'
    BY <1>1 DEF Acquire, Goto, TypeOK, Critical, Waiting
  <1>3. MutexHeld'
    BY <1>1 DEF MutexHeld, LatchAssumption
  <1>4. DozesUnnotified'
    BY <1>1 DEF DozesUnnotified
  <1>5. NoSleeperMissed'
    <2>1. \A s \in Threads : pc'[s] = "sleep" => pc[s] = "sleep"
      BY <1>1 DEF Critical
    <2>2. \A s \in Threads : pc[s] = "wake" => pc'[s] = "wake"
      BY <1>1 DEF Critical
    <2> QED BY <1>1, <2>1, <2>2 DEF NoSleeperMissed
  <1>6. NoFalseWake'
    BY <1>1 DEF NoFalseWake
  <1> QED BY <1>2, <1>3, <1>4, <1>5, <1>6

(* A call begins, a sleeper wakes by itself or is timed out, the flag is    *)
(* read without the mutex, a timed-out wait gives up.                       *)
LEMMA UnlockedStep ==
    ASSUME LatchAssumption, LInv, NEW t \in Threads,
           \/ CallWait(t) \/ CallNotify(t) \/ Check(t) \/ Spurious(t)
           \/ Timeout(t) \/ Expire(t)
    PROVE  LInv'
  <1> USE DEF LInv
  <1>1. PICK at \in {"check", "nlock", "idle", "lock", "relock", "expired"} :
           /\ pc[t] \in {"idle", "check", "sleep", "expired"}
           /\ Goto(t, at) /\ UNCHANGED <<notified, mutex>>
           /\ timed' \in [Threads -> BOOLEAN]
           /\ \/ answer' = answer
              \/ \E a \in {"none", "no"} : answer' = [answer EXCEPT ![t] = a]
              \/ notified /\ answer' = [answer EXCEPT ![t] = "yes"]
           /\ spurious' \in 0 .. MaxSpurious
    <2>1. CASE CallWait(t)
      BY <2>1 DEF CallWait, TypeOK
    <2>2. CASE CallNotify(t)
      BY <2>2 DEF CallNotify, TypeOK
    <2>3. CASE Check(t)
      BY <2>3 DEF Check, Return, TypeOK
    <2>4. CASE Spurious(t)
      <3>1. /\ pc[t] = "sleep" /\ Goto(t, "relock")
            /\ UNCHANGED <<notified, mutex, timed, answer>>
        BY <2>4 DEF Spurious
      <3>2. spurious' \in 0 .. MaxSpurious
        BY <2>4 DEF Spurious, TypeOK, LatchAssumption
      <3>3. timed' \in [Threads -> BOOLEAN]
        BY <3>1 DEF TypeOK
      <3> QED BY <3>1, <3>2, <3>3
    <2>5. CASE Timeout(t)
      BY <2>5 DEF Timeout, TypeOK
    <2>6. CASE Expire(t)
      BY <2>6 DEF Expire, Return, TypeOK
    <2> QED BY <2>1, <2>2, <2>3, <2>4, <2>5, <2>6
  <1>2. /\ at \in Waiting \cup {"idle", "nlock"} /\ at # "sleep"
        /\ at \notin Critical /\ pc[t] \notin Critical
    BY <1>1 DEF Waiting, Critical
  <1>3. /\ answer' \in [Threads -> {"none", "yes", "no"}]
        /\ \A s \in Threads : answer'[s] = "yes" => answer[s] = "yes" \/ notified
    BY <1>1 DEF TypeOK
  <1>4. TypeOK'
    BY <1>1, <1>2, <1>3 DEF TypeOK, Goto
  <1> QED BY <1>1, <1>2, <1>3, <1>4, OutsideStep

(* The holder of the mutex reads the flag, sleeps or sets the flag.         *)
LEMMA HolderStep ==
    ASSUME LatchAssumption, LInv, NEW t \in Threads,
           Recheck(t) \/ Doze(t) \/ Store(t)
    PROVE  LInv'
  <1> USE DEF LInv
  <1>1. mutex = t /\ \A s \in Threads \ {t} : pc[s] \notin Critical
    <2>1. pc[t] \in Critical
      BY DEF Recheck, Doze, Store, Critical
    <2> QED BY <2>1 DEF MutexHeld
  <1>2. NoThread \notin Threads
    BY DEF LatchAssumption
  <1>3. CASE Recheck(t) /\ notified
    <2>1. /\ pc' = [pc EXCEPT ![t] = "idle"]
          /\ answer' = [answer EXCEPT ![t] = "yes"]
          /\ mutex' = NoThread
          /\ UNCHANGED <<notified, timed, spurious>>
          /\ pc[t] = "recheck"
      BY <1>3 DEF Recheck, Return, Goto
    <2>2. TypeOK'
      BY <2>1 DEF TypeOK, Waiting
    <2>3. MutexHeld' /\ DozesUnnotified'
      BY <2>1, <1>1, <1>2 DEF MutexHeld, DozesUnnotified, Critical, TypeOK
    <2>4. NoSleeperMissed'
      BY <2>1, <1>1, <1>3 DEF NoSleeperMissed, Critical, TypeOK
    <2>5. NoFalseWake'
      BY <2>1, <1>3 DEF NoFalseWake
    <2> QED BY <2>2, <2>3, <2>4, <2>5
  <1>4. CASE Recheck(t) /\ ~notified
    <2>1. /\ pc' = [pc EXCEPT ![t] = "doze"]
          /\ UNCHANGED <<notified, mutex, timed, answer, spurious>>
      BY <1>4 DEF Recheck, Goto
    <2>2. TypeOK'
      BY <2>1 DEF TypeOK, Waiting
    <2>3. MutexHeld' /\ DozesUnnotified'
      BY <2>1, <1>1, <1>4 DEF MutexHeld, DozesUnnotified, Critical, TypeOK
    <2>4. NoSleeperMissed' /\ NoFalseWake'
      BY <2>1, <1>4 DEF NoSleeperMissed, NoFalseWake
    <2> QED BY <2>2, <2>3, <2>4
  <1>5. CASE Doze(t)
    <2>1. /\ pc[t] = "doze" /\ pc' = [pc EXCEPT ![t] = "sleep"]
          /\ mutex' = NoThread
          /\ UNCHANGED <<notified, timed, answer, spurious>>
      BY <1>5 DEF Doze, Goto
    <2>2. TypeOK'
      BY <2>1 DEF TypeOK, Waiting
    <2>3. MutexHeld' /\ DozesUnnotified'
      BY <2>1, <1>1, <1>2 DEF MutexHeld, DozesUnnotified, Critical, TypeOK
    <2>4. ~notified
      BY <2>1 DEF DozesUnnotified
    <2>5. NoSleeperMissed' /\ NoFalseWake'
      BY <2>1, <2>4 DEF NoSleeperMissed, NoFalseWake
    <2> QED BY <2>2, <2>3, <2>5
  <1>6. CASE Store(t)
    <2>1. /\ pc' = [pc EXCEPT ![t] = "wake"] /\ notified' = TRUE
          /\ UNCHANGED <<mutex, timed, answer, spurious>>
      BY <1>6 DEF Store, Goto
    <2>2. TypeOK'
      BY <2>1 DEF TypeOK, Waiting
    <2>3. MutexHeld' /\ DozesUnnotified'
      BY <2>1, <1>1 DEF MutexHeld, DozesUnnotified, Critical, TypeOK
    <2>4. NoSleeperMissed' /\ NoFalseWake'
      <3>1. pc'[t] = "wake"
        BY <2>1 DEF TypeOK
      <3> QED BY <2>1, <3>1 DEF NoSleeperMissed, NoFalseWake
    <2> QED BY <2>2, <2>3, <2>4
  <1> QED BY <1>3, <1>4, <1>5, <1>6

(* notify_all leaves nobody asleep.                                         *)
LEMMA WakeAllStep ==
    ASSUME LatchAssumption, LInv, NEW t \in Threads, WakeAll(t)
    PROVE  LInv'
  <1> USE DEF LInv
  <1>1. /\ pc[t] = "wake" /\ mutex' = NoThread
        /\ UNCHANGED <<notified, timed, answer, spurious>>
        /\ pc' = [s \in Threads |-> CASE s = t -> "idle"
                                      [] pc[s] = "sleep" -> "relock"
                                      [] OTHER -> pc[s]]
    BY DEF WakeAll
  <1>2. mutex = t /\ \A s \in Threads \ {t} : pc[s] \notin Critical
    BY <1>1 DEF MutexHeld, Critical
  <1>3. \A s \in Threads :
          \/ s = t /\ pc'[s] = "idle"
          \/ s # t /\ pc[s] = "sleep" /\ pc'[s] = "relock"
          \/ s # t /\ pc[s] # "sleep" /\ pc'[s] = pc[s]
    BY <1>1
  <1>4. TypeOK'
    <2>1. \A s \in Threads :
             pc'[s] \in Waiting \cup {"idle", "nlock", "store", "wake"}
      BY <1>3 DEF TypeOK, Waiting
    <2> QED BY <1>1, <2>1 DEF TypeOK
  <1>5. MutexHeld' /\ DozesUnnotified'
    BY <1>1, <1>2, <1>3
       DEF MutexHeld, DozesUnnotified, Critical, LatchAssumption
  <1>6. NoSleeperMissed'
    BY <1>3 DEF NoSleeperMissed
  <1>7. NoFalseWake'
    BY <1>1 DEF NoFalseWake
  <1> QED BY <1>4, <1>5, <1>6, <1>7

(* Every step keeps it: one case per step of wait and notify.               *)
LEMMA LatchNext == LatchAssumption /\ LInv /\ [Next]_vars => LInv'
  <1> SUFFICES ASSUME LatchAssumption, LInv, [Next]_vars PROVE LInv'
    OBVIOUS
  <1>1. CASE UNCHANGED vars
    BY <1>1 DEF vars, LInv, TypeOK, MutexHeld, DozesUnnotified,
                NoSleeperMissed, NoFalseWake
  <1>2. ASSUME NEW t \in Threads,
               CallWait(t) \/ CallNotify(t) \/ Spurious(t) \/ Timeout(t) \/ Step(t)
        PROVE  LInv'
    <2>1. CASE \/ CallWait(t) \/ CallNotify(t) \/ Check(t) \/ Spurious(t)
               \/ Timeout(t) \/ Expire(t)
      BY <2>1, UnlockedStep
    <2>2. CASE Acquire(t, "lock", "recheck") \/ Relock(t) \/ NotifyLock(t)
      BY <2>2, AcquireStep DEF Relock, NotifyLock, Critical
    <2>3. CASE Recheck(t) \/ Doze(t) \/ Store(t)
      BY <2>3, HolderStep
    <2>4. CASE WakeAll(t)
      BY <2>4, WakeAllStep
    <2> QED BY <1>2, <2>1, <2>2, <2>3, <2>4 DEF Step
  <1> QED BY <1>1, <1>2 DEF Next

------------------------------------------------------------------------------
(* So it holds in every reachable state.                                    *)
LEMMA LatchInductive == ASSUME LatchAssumption PROVE Spec => []LInv
  BY LatchInit, LatchNext, PTL DEF Spec

(* No thread sleeps on a latch that was notified, unless the notifier that  *)
(* will wake it is at notify_all (notify, wait, wait_with_timeout).         *)
THEOREM SleepersAreWoken ==
    ASSUME LatchAssumption PROVE Spec => []NoSleeperMissed
  BY LatchInductive, PTL DEF LInv

(* A wait answers true only once the latch was notified, whatever woke it   *)
(* (wait, wait_with_timeout).                                               *)
THEOREM NoAnswerTooEarly ==
    ASSUME LatchAssumption PROVE Spec => []NoFalseWake
  BY LatchInductive, PTL DEF LInv

-----------------------------------------------------------------------------
(* THE LIST OF TOUCHED TABLES.  The invariant says who answers for a flag:  *)
(* an item whose flag is set is in one place only, the list, a call about   *)
(* to record it, or a reset that has taken it; and an item in one of these  *)
(* places has its flag set.                                                 *)

Capacity == Cardinality(DOMAIN cells)
Records(t, i) == spot[t] = "record" /\ item[t] = i
Owned(i) == \/ i \in Listed
            \/ \E t \in Recorders : Records(t, i)
            \/ \E t \in Recorders : i \in taken[t]

Places == Reading \cup {"idle", "resize", "wlock", "recheck", "push", "grow",
                        "head", "record"}

Typed ==
  /\ Capacity \in Nat /\ DOMAIN cells = 0 .. (Capacity - 1)
  /\ \A i \in DOMAIN cells : cells[i] \in BOOLEAN
  /\ cells = [i \in DOMAIN cells |-> cells[i]]
  /\ head \in Nat /\ head <= Capacity
  /\ list \in Seq(Items)
  /\ spot \in [Recorders -> Places]
  /\ item \in [Recorders -> Items]
  /\ taken \in [Recorders -> SUBSET Items]

(* write_lock is held from the second look at the head to its update, so    *)
(* the head stays at or before the item all the while.                      *)
Locked ==
  \A t \in Recorders :
    /\ spot[t] \in {"recheck", "push", "grow", "head"} <=> writer = t
    /\ spot[t] \in {"push", "grow", "head"} => head <= item[t]
    /\ spot[t] = "head" => item[t] \in DOMAIN cells
    /\ spot[t] = "grow" => item[t] \notin DOMAIN cells

(* The head covers an item whose flag is looked at.                         *)
Reached == \A t \in Recorders : spot[t] \in {"test", "swap"} => item[t] < head

(* Only a reset holds items.                                                *)
TakenByReset == \A t \in Recorders : spot[t] # "clear" => taken[t] = {}

(* An item somebody answers for has its flag set, ...                       *)
OwnedIsFlagged == \A i \in Items : Owned(i) =>
                     i \in DOMAIN cells /\ i < head /\ cells[i] = TRUE

(* ... and nobody else answers for it.                                      *)
OneOwner ==
  /\ \A k, l \in DOMAIN list : list[k] = list[l] => k = l
  /\ \A s, t \in Recorders : \A i \in Items :
       /\ Records(s, i) /\ Records(t, i) => s = t
       /\ i \in taken[s] /\ i \in taken[t] => s = t
       /\ ~(Records(s, i) /\ i \in taken[t])
  /\ \A t \in Recorders : \A i \in Listed : ~ Records(t, i) /\ i \notin taken[t]

Owners == OwnedIsFlagged /\ OneOwner /\ FlagAccounted

ListInv == Typed /\ Locked /\ Reached /\ TakenByReset /\ Owners

------------------------------------------------------------------------------
(* The capacity is the number of allocated flags.                           *)
LEMMA CapacityOf ==
    ASSUME NEW n \in Nat, DOMAIN cells = 0 .. (n - 1) PROVE Capacity = n
  <1>1. Cardinality(0 .. (n - 1)) = n
    BY FS_Interval
  <1> QED BY <1>1 DEF Capacity

(* The next power of two, for the sizes the bound on items allows.          *)
LEMMA PowerOfTwoReaches ==
    ASSUME NEW n \in 1 .. 16
    PROVE  PowerOfTwo(n) \in Nat /\ PowerOfTwo(n) >= n
  <1> DEFINE S == {p \in {1, 2, 4, 8, 16} : p >= n}
  <1>1. 16 \in S
    OBVIOUS
  <1>2. \E x \in S : \A y \in S : x <= y
    <2>1. CASE n <= 1
      <3>1. 1 \in S /\ \A y \in S : 1 <= y
        BY <2>1
      <3> QED BY <3>1
    <2>2. CASE 1 < n /\ n <= 2
      <3>1. 2 \in S /\ \A y \in S : 2 <= y
        BY <2>2
      <3> QED BY <3>1
    <2>3. CASE 2 < n /\ n <= 4
      <3>1. 4 \in S /\ \A y \in S : 4 <= y
        BY <2>3
      <3> QED BY <3>1
    <2>4. CASE 4 < n /\ n <= 8
      <3>1. 8 \in S /\ \A y \in S : 8 <= y
        BY <2>4
      <3> QED BY <3>1
    <2>5. CASE 8 < n
      <3>1. \A y \in S : 16 <= y
        BY <2>5
      <3> QED BY <3>1, <1>1
    <2> QED BY <2>1, <2>2, <2>3, <2>4, <2>5
  <1>3. \A p \in S : p \in Nat /\ p >= n
    OBVIOUS
  <1> HIDE DEF S
  <1>4. Min(S) \in S
    BY <1>2 DEF Min
  <1> QED BY <1>3, <1>4 DEF PowerOfTwo, S

(* A new list satisfies the invariant.                                      *)
LEMMA ListInit == ListAssumption /\ InitList => ListInv
  <1> SUFFICES ASSUME ListAssumption, InitList PROVE ListInv
    OBVIOUS
  <1>1. /\ cells = <<>> /\ head = 0 /\ writer = Nobody /\ list = <<>>
        /\ spot = [t \in Recorders |-> "idle"]
        /\ item = [t \in Recorders |-> 0] /\ taken = [t \in Recorders |-> {}]
    BY DEF InitList
  <1>2. DOMAIN cells = 0 .. (0 - 1) /\ DOMAIN cells = {}
    BY <1>1
  <1>3. Capacity = 0
    BY <1>2, CapacityOf
  <1>4. Typed
    <2>1. cells = [i \in DOMAIN cells |-> cells[i]]
      BY <1>1
    <2>2. 0 \in Items /\ list \in Seq(Items)
      BY <1>1 DEF Items, ListAssumption
    <2>3. /\ spot \in [Recorders -> Places] /\ item \in [Recorders -> Items]
          /\ taken \in [Recorders -> SUBSET Items]
      BY <1>1, <2>2 DEF Places
    <2> QED BY <1>1, <1>2, <1>3, <2>1, <2>2, <2>3 DEF Typed
  <1>5. Locked /\ Reached /\ TakenByReset
    BY <1>1 DEF Locked, Reached, TakenByReset, ListAssumption
  <1>6. \A i : ~ Owned(i)
    BY <1>1 DEF Owned, Records, Listed
  <1>7. Owners
    BY <1>1, <1>2, <1>6
       DEF Owners, OwnedIsFlagged, OneOwner, FlagAccounted, Records, Listed, Owned
  <1> QED BY <1>4, <1>5, <1>7 DEF ListInv

(* A step that records, lists, takes and clears nothing.                    *)
LEMMA SameOwners ==
    ASSUME Owners, UNCHANGED <<cells, list, taken>>,
           head \in Nat, head' \in Nat, head <= head',
           \A t \in Recorders : \A i : Records(t, i)' <=> Records(t, i)
    PROVE  Owners'
  <1> USE DEF Owners
  <1>1. \A i : Owned(i)' <=> Owned(i)
    BY DEF Owned, Listed
  <1>2. OwnedIsFlagged'
    BY <1>1 DEF OwnedIsFlagged, Items
  <1>3. OneOwner'
    BY DEF OneOwner, Listed
  <1>4. FlagAccounted'
    BY DEF FlagAccounted, Listed, Records
  <1> QED BY <1>2, <1>3, <1>4

(* A flag that is set is that of an item somebody answers for.              *)
LEMMA FlagOwned ==
    ASSUME Typed, FlagAccounted, NEW i \in DOMAIN cells, cells[i]
    PROVE  i \in Items /\ Owned(i)
  <1>1. Owned(i)
    BY DEF FlagAccounted, Owned, Records
  <1>2. Listed \subseteq Items
    BY DEF Typed, Listed
  <1> QED BY <1>1, <1>2 DEF Owned, Records, Typed
(* Steps that go from place to place, take or give back write_lock, or move *)
(* the head.                                                                *)
LEMMA QuietStep ==
    ASSUME ListAssumption, ListInv, NEW t \in Recorders,
           \/ CallRecord(t) \/ Resize(t) \/ WriteLock(t) \/ RecheckHead(t)
           \/ SetHead(t) \/ Test(t)
    PROVE  ListInv'
  <1> USE DEF ListInv
  <1>1. /\ UNCHANGED <<cells, list, taken>>
        /\ spot[t] \notin {"record", "clear"}
        /\ \E at \in {"resize", "test", "wlock", "recheck", "push", "idle", "swap"} :
              spot' = [spot EXCEPT ![t] = at]
        /\ item' \in [Recorders -> Items]
        /\ \A s \in Recorders \ {t} : item'[s] = item[s]
        /\ spot[t] # "idle" => item' = item
    BY DEF CallRecord, Resize, WriteLock, RecheckHead, SetHead, Test, MoveOn, Typed
  <1>2. /\ spot'[t] \in {"resize", "test", "wlock", "recheck", "push", "idle", "swap"}
        /\ \A s \in Recorders \ {t} : spot'[s] = spot[s]
        /\ spot' \in [Recorders -> Places]
        /\ Capacity' = Capacity
    BY <1>1 DEF Typed, Places, Reading, Capacity
  <1>3. /\ head' \in Nat /\ head <= head' /\ head' <= Capacity
        /\ head' = head \/ (head' = item[t] + 1 /\ spot[t] = "head")
    <2>1. CASE SetHead(t)
      <3>1. spot[t] = "head" /\ head' = item[t] + 1
        BY <2>1 DEF SetHead
      <3>2. head <= item[t] /\ item[t] \in DOMAIN cells
        BY <3>1 DEF Locked
      <3> QED BY <3>1, <3>2 DEF Typed
    <2>2. CASE head' = head
      BY <2>2 DEF Typed
    <2> QED BY <2>1, <2>2
        DEF CallRecord, Resize, WriteLock, RecheckHead, Test
  <1>4. \A s \in Recorders : \A i : Records(s, i)' <=> Records(s, i)
    BY <1>1, <1>2 DEF Records
  <1>5. Owners'
    BY <1>1, <1>3, <1>4, SameOwners DEF Typed
  <1>6. Typed'
    BY <1>1, <1>2, <1>3 DEF Typed
  <1>7. TakenByReset'
    BY <1>1, <1>2 DEF TakenByReset
  <1>8. Reached'
    <2>1. ASSUME NEW s \in Recorders \ {t}, spot'[s] \in {"test", "swap"}
          PROVE  item'[s] < head'
      <3>1. item[s] < head /\ item[s] \in Nat
        BY <2>1, <1>2 DEF Reached, Typed, Items
      <3> QED BY <3>1, <1>1, <1>3 DEF Typed
    <2>2. spot'[t] \in {"test", "swap"} => item'[t] < head'
      <3>1. item[t] \in Nat
        BY DEF Typed, Items
      <3>2. CASE SetHead(t)
        BY <3>1, <3>2, <1>1 DEF SetHead
      <3>3. CASE Resize(t)
        BY <3>3, <1>1, <1>2 DEF Resize, MoveOn, Typed
      <3>4. CASE RecheckHead(t)
        BY <3>4, <1>1, <1>2 DEF RecheckHead, MoveOn, Typed
      <3>5. CASE Test(t)
        BY <3>5, <1>1, <1>2 DEF Test, MoveOn, Typed, Reached
      <3>6. CASE CallRecord(t) \/ WriteLock(t)
        BY <3>6, <1>1, <1>2 DEF CallRecord, WriteLock, MoveOn, Typed
      <3> QED BY <3>2, <3>3, <3>4, <3>5, <3>6
    <2> QED BY <2>1, <2>2 DEF Reached
  <1>9. Locked'
    <2>1. CASE WriteLock(t)
      <3>1. writer = Nobody /\ writer' = t /\ spot'[t] = "recheck" /\ head' = head
        BY <2>1 DEF WriteLock, MoveOn, Typed
      <3> QED BY <3>1, <1>1, <1>2 DEF Locked, ListAssumption
    <2>2. CASE SetHead(t)
      <3>1. writer' = Nobody /\ spot[t] = "head" /\ spot'[t] = "test"
        BY <2>2 DEF SetHead, MoveOn, Typed
      <3>2. \A s \in Recorders \ {t} : spot[s] \notin {"recheck", "push", "grow", "head"}
        BY <3>1 DEF Locked
      <3> QED BY <3>1, <3>2, <1>1, <1>2 DEF Locked, ListAssumption
    <2>3. CASE RecheckHead(t) /\ item[t] < head
      <3>1. /\ writer' = Nobody /\ spot[t] = "recheck" /\ spot'[t] = "test"
            /\ head' = head
        BY <2>3 DEF RecheckHead, MoveOn, Typed, Items
      <3>2. \A s \in Recorders \ {t} : spot[s] \notin {"recheck", "push", "grow", "head"}
        BY <3>1 DEF Locked
      <3> QED BY <3>1, <3>2, <1>1, <1>2 DEF Locked, ListAssumption
    <2>4. CASE RecheckHead(t) /\ ~(item[t] < head)
      <3>1. /\ writer' = writer /\ spot[t] = "recheck" /\ spot'[t] = "push"
            /\ head' = head /\ item' = item /\ head <= item[t]
        BY <2>4 DEF RecheckHead, MoveOn, Typed, Items
      <3> QED BY <3>1, <1>1, <1>2 DEF Locked
    <2>5. CASE CallRecord(t) \/ Resize(t) \/ Test(t)
      <3>1. /\ writer' = writer /\ head' = head
            /\ spot[t] \in {"idle", "resize", "test"}
            /\ spot'[t] \in {"resize", "test", "wlock", "idle", "swap"}
        BY <2>5 DEF CallRecord, Resize, Test, MoveOn, Typed
      <3> QED BY <3>1, <1>1, <1>2 DEF Locked
    <2> QED BY <2>1, <2>2, <2>3, <2>4, <2>5
  <1> QED BY <1>5, <1>6, <1>7, <1>8, <1>9

(* The flag of an item past the head is FALSE, so a fresh one changes       *)
(* nothing.                                                                 *)
LEMMA PushStep ==
    ASSUME ListAssumption, ListInv, NEW t \in Recorders, Push(t)
    PROVE  ListInv'
  <1> USE DEF ListInv
  <1>1. /\ spot[t] = "push" /\ head <= item[t]
        /\ UNCHANGED <<head, writer, list, item, taken>>
        /\ item[t] \in Items
    BY DEF Push, Locked, Typed
  <1>2. cells' = cells
    <2>1. CASE item[t] \in DOMAIN cells
      <3>1. cells' = [cells EXCEPT ![item[t]] = FALSE]
        BY <2>1 DEF Push
      <3>2. ~ cells[item[t]]
        <4> SUFFICES ASSUME cells[item[t]] PROVE FALSE
          OBVIOUS
        <4>1. Owned(item[t])
          BY <2>1, FlagOwned DEF Owners
        <4>2. item[t] < head
          BY <4>1, <1>1 DEF Owners, OwnedIsFlagged
        <4> QED BY <4>2, <1>1 DEF Typed, Items
      <3>3. cells[item[t]] = FALSE
        BY <2>1, <3>2 DEF Typed
      <3>4. cells = [i \in DOMAIN cells |-> cells[i]]
        BY DEF Typed
      <3> QED BY <3>1, <3>3, <3>4
    <2>2. CASE item[t] \notin DOMAIN cells
      BY <2>2 DEF Push
    <2> QED BY <2>1, <2>2
  <1>3. /\ spot' = [spot EXCEPT ![t] = IF item[t] \in DOMAIN cells THEN "head" ELSE "grow"]
    BY DEF Push, MoveOn
  <1>4. /\ spot'[t] \in {"head", "grow"} /\ \A s \in Recorders \ {t} : spot'[s] = spot[s]
        /\ spot'[t] = "head" => item[t] \in DOMAIN cells
        /\ spot'[t] = "grow" => item[t] \notin DOMAIN cells
        /\ spot' \in [Recorders -> Places] /\ Capacity' = Capacity
    BY <1>2, <1>3 DEF Typed, Places, Capacity
  <1>5. Typed'
    BY <1>1, <1>2, <1>4 DEF Typed
  <1>6. Locked' /\ Reached' /\ TakenByReset'
    BY <1>1, <1>2, <1>4 DEF Locked, Reached, TakenByReset
  <1>7. Owners'
    <2>1. \A s \in Recorders : \A i : Records(s, i)' <=> Records(s, i)
      BY <1>1, <1>4 DEF Records
    <2> QED BY <2>1, <1>1, <1>2, SameOwners DEF Typed
  <1> QED BY <1>5, <1>6, <1>7

(* A new allocation holds the old flags, and FALSE past them.               *)
LEMMA GrowCellsStep ==
    ASSUME ListAssumption, ListInv, NEW t \in Recorders, GrowCells(t)
    PROVE  ListInv'
  <1> USE DEF ListInv
  <1> DEFINE n == PowerOfTwo(item[t] + 1)
  <1>1. /\ spot[t] = "grow" /\ spot' = [spot EXCEPT ![t] = "push"]
        /\ cells' = [i \in 0 .. (n - 1) |-> IF i \in DOMAIN cells THEN cells[i]
                                            ELSE FALSE]
        /\ UNCHANGED <<head, writer, list, item, taken>>
        /\ head <= item[t] /\ item[t] \notin DOMAIN cells
        /\ \A s \in Recorders \ {t} : spot[s] \notin {"push", "grow", "head"}
    BY DEF GrowCells, MoveOn, Locked
  <1>2. item[t] \in Nat /\ item[t] + 1 \in 1 .. 16
    <2>1. item[t] \in 0 .. MaxItem
      BY DEF Typed, Items
    <2> QED BY <2>1 DEF ListAssumption
  <1>3. n \in Nat /\ n >= item[t] + 1
    BY <1>2, PowerOfTwoReaches
  <1> HIDE DEF n
  <1>4. /\ Capacity \in Nat /\ Capacity <= n /\ DOMAIN cells \subseteq 0 .. (n - 1)
    <2>1. Capacity <= item[t]
      <3>1. item[t] \notin 0 .. (Capacity - 1) /\ Capacity \in Nat
        BY <1>1 DEF Typed
      <3> QED BY <3>1, <1>2
    <2> QED BY <2>1, <1>2, <1>3 DEF Typed
  <1>5. /\ DOMAIN cells' = 0 .. (n - 1)
        /\ \A i \in DOMAIN cells : cells'[i] = cells[i]
        /\ \A i \in DOMAIN cells' \ DOMAIN cells : cells'[i] = FALSE
        /\ cells' = [i \in DOMAIN cells' |-> cells'[i]]
    BY <1>1, <1>4
  <1>6. Capacity' = n
    <2>1. Cardinality(0 .. (n - 1)) = n
      BY <1>3, FS_Interval
    <2> QED BY <1>5, <2>1 DEF Capacity
  <1>7. /\ spot'[t] = "push" /\ \A s \in Recorders \ {t} : spot'[s] = spot[s]
        /\ spot' \in [Recorders -> Places]
    BY <1>1 DEF Typed, Places
  <1>8. Typed'
    <2>1. \A i \in DOMAIN cells' : cells'[i] \in BOOLEAN
      BY <1>5 DEF Typed
    <2>2. head \in Nat /\ head <= Capacity'
      BY <1>3, <1>4, <1>6 DEF Typed
    <2> QED BY <2>1, <2>2, <1>1, <1>3, <1>5, <1>6, <1>7 DEF Typed
  <1>9. Locked' /\ Reached' /\ TakenByReset'
    BY <1>1, <1>4, <1>5, <1>7 DEF Locked, Reached, TakenByReset
  <1>10. \A s \in Recorders : \A i : Records(s, i)' <=> Records(s, i)
    BY <1>1, <1>7 DEF Records
  <1>11. \A i : Owned(i)' <=> Owned(i)
    BY <1>1, <1>10 DEF Owned, Listed
  <1>12. OwnedIsFlagged'
    <2> SUFFICES ASSUME NEW i \in Items, Owned(i)
                 PROVE  i \in DOMAIN cells' /\ i < head' /\ cells'[i] = TRUE
      BY <1>11 DEF OwnedIsFlagged
    <2>1. i \in DOMAIN cells /\ i < head /\ cells[i] = TRUE
      BY DEF Owners, OwnedIsFlagged
    <2> QED BY <2>1, <1>1, <1>4, <1>5
  <1>13. OneOwner'
    BY <1>1, <1>10 DEF Owners, OneOwner, Listed
  <1>14. FlagAccounted'
    <2> SUFFICES ASSUME NEW i \in DOMAIN cells', cells'[i] PROVE Owned(i)'
      BY DEF FlagAccounted, Owned, Records, Listed
    <2>1. i \in DOMAIN cells /\ cells[i]
      BY <1>5
    <2> QED BY <2>1, <1>11, FlagOwned DEF Owners
  <1> QED BY <1>8, <1>9, <1>12, <1>13, <1>14 DEF Owners
(* Who answers for the items after a step is read off three facts: what was *)
(* added, what was given up, and that what was added was nobody's.          *)
LEMMA SwapStep ==
    ASSUME ListInv, NEW t \in Recorders, Swap(t)
    PROVE  ListInv'
  <1> USE DEF ListInv
  <1> DEFINE i == item[t]
  <1>1. /\ spot[t] = "swap" /\ i < head /\ i \in Items /\ i \in DOMAIN cells
        /\ cells' = [cells EXCEPT ![i] = TRUE]
        /\ spot' = [spot EXCEPT ![t] = IF cells[i] THEN "idle" ELSE "record"]
        /\ UNCHANGED <<head, writer, list, item, taken>>
    <2>1. spot[t] = "swap" /\ i < head /\ i \in Items
      BY DEF Swap, Reached, Typed
    <2>2. i \in DOMAIN cells
      BY <2>1 DEF Typed, Items
    <2> QED BY <2>1, <2>2 DEF Swap, MoveOn
  <1>2. /\ spot'[t] = IF cells[i] THEN "idle" ELSE "record"
        /\ \A s \in Recorders \ {t} : spot'[s] = spot[s]
        /\ spot' \in [Recorders -> Places]
    BY <1>1 DEF Typed, Places
  <1>3. /\ DOMAIN cells' = DOMAIN cells /\ Capacity' = Capacity
        /\ cells'[i] = TRUE
        /\ \A j \in DOMAIN cells : j # i => cells'[j] = cells[j]
        /\ cells' = [j \in DOMAIN cells' |-> cells'[j]]
    BY <1>1 DEF Capacity
  <1> HIDE DEF i
  <1>4. Typed'
    <2>1. \A j \in DOMAIN cells' : cells'[j] \in BOOLEAN
      BY <1>3 DEF Typed
    <2> QED BY <2>1, <1>1, <1>2, <1>3 DEF Typed
  <1>5. Locked' /\ Reached' /\ TakenByReset'
    BY <1>1, <1>2, <1>3 DEF Locked, Reached, TakenByReset
  <1>6. CASE cells[i]
    <2>1. cells' = cells
      <3>1. cells[i] = TRUE
        BY <1>1, <1>6 DEF Typed
      <3>2. \A j \in DOMAIN cells : cells'[j] = cells[j]
        BY <3>1, <1>3
      <3>3. cells = [j \in DOMAIN cells |-> cells[j]]
        BY DEF Typed
      <3> QED BY <3>2, <3>3, <1>3
    <2>2. \A s \in Recorders : \A j : Records(s, j)' <=> Records(s, j)
      BY <1>1, <1>2, <1>6 DEF Records
    <2>3. Owners'
      BY <2>1, <2>2, <1>1, SameOwners DEF Typed
    <2> QED BY <2>3, <1>4, <1>5
  <1>7. CASE ~ cells[i]
    <2>1. ~ Owned(i)
      BY <1>1, <1>7 DEF Owners, OwnedIsFlagged
    <2>2. /\ Records(t, i)' /\ \A j : Records(t, j)' => j = i
          /\ \A s \in Recorders \ {t} : \A j : Records(s, j)' <=> Records(s, j)
          /\ \A j : ~ Records(t, j)
      BY <1>1, <1>2, <1>7 DEF Records, i
    <2>3. \A j : Owned(j)' <=> Owned(j) \/ j = i
      BY <1>1, <2>2 DEF Owned, Listed
    <2>4. OwnedIsFlagged'
      <3> SUFFICES ASSUME NEW j \in Items, Owned(j)'
                   PROVE  j \in DOMAIN cells' /\ j < head' /\ cells'[j] = TRUE
        BY DEF OwnedIsFlagged
      <3>1. CASE j = i
        BY <3>1, <1>1, <1>3
      <3>2. CASE j # i
        BY <3>2, <2>3, <1>1, <1>3 DEF Owners, OwnedIsFlagged
      <3> QED BY <3>1, <3>2
    <2>5. OneOwner'
      <3>1. /\ i \notin Listed
            /\ \A s \in Recorders : ~ Records(s, i) /\ i \notin taken[s]
        BY <2>1 DEF Owned
      <3>2. \A k, l \in DOMAIN list' : list'[k] = list'[l] => k = l
        BY <1>1 DEF Owners, OneOwner
      <3>3. \A r, s \in Recorders : \A j \in Items :
              /\ Records(r, j)' /\ Records(s, j)' => r = s
              /\ j \in taken'[r] /\ j \in taken'[s] => r = s
              /\ ~(Records(r, j)' /\ j \in taken'[s])
        BY <3>1, <2>2, <1>1 DEF Owners, OneOwner
      <3>4. \A s \in Recorders : \A j \in Listed' :
              ~ Records(s, j)' /\ j \notin taken'[s]
        BY <3>1, <2>2, <1>1 DEF Owners, OneOwner, Listed
      <3> QED BY <3>2, <3>3, <3>4 DEF OneOwner
    <2>6. FlagAccounted'
      <3> SUFFICES ASSUME NEW j \in DOMAIN cells', cells'[j] PROVE Owned(j)'
        BY DEF FlagAccounted, Owned, Records, Listed
      <3>1. CASE j # i
        BY <3>1, <2>3, <1>3, FlagOwned DEF Owners
      <3> QED BY <3>1, <2>3
    <2> QED BY <2>4, <2>5, <2>6, <1>4, <1>5 DEF Owners
  <1> QED BY <1>6, <1>7

(* The item a thread was about to record is in the list.                    *)
LEMMA RecordStep ==
    ASSUME ListInv, NEW t \in Recorders, Record(t)
    PROVE  ListInv'
  <1> USE DEF ListInv
  <1> DEFINE i == item[t]
  <1>1. /\ spot[t] = "record" /\ i \in Items
        /\ list' = Append(list, i)
        /\ spot' = [spot EXCEPT ![t] = "idle"]
        /\ UNCHANGED <<cells, head, writer, item, taken>>
    BY DEF Record, MoveOn, Typed
  <1>2. /\ spot'[t] = "idle" /\ \A s \in Recorders \ {t} : spot'[s] = spot[s]
        /\ spot' \in [Recorders -> Places] /\ Capacity' = Capacity
    BY <1>1 DEF Typed, Places, Capacity
  <1>3. /\ Records(t, i) /\ \A j : Records(t, j) => j = i
        /\ \A j : ~ Records(t, j)'
        /\ \A s \in Recorders \ {t} : \A j : Records(s, j)' <=> Records(s, j)
    BY <1>1, <1>2 DEF Records
  <1> HIDE DEF i
  <1>4. /\ list' \in Seq(Items) /\ Len(list) \in Nat
        /\ DOMAIN list = 1 .. Len(list)
        /\ DOMAIN list' = DOMAIN list \cup {Len(list) + 1}
        /\ list'[Len(list) + 1] = i
        /\ \A k \in DOMAIN list : list'[k] = list[k] /\ k # Len(list) + 1
    BY <1>1 DEF Typed
  <1>5. Listed' = Listed \cup {i}
    BY <1>4 DEF Listed
  <1>6. Typed'
    BY <1>1, <1>2, <1>4 DEF Typed
  <1>7. Locked' /\ Reached' /\ TakenByReset'
    BY <1>1, <1>2 DEF Locked, Reached, TakenByReset
  <1>8. \A j : Owned(j)' <=> Owned(j)
    BY <1>1, <1>3, <1>5 DEF Owned
  <1>9. OwnedIsFlagged'
    BY <1>1, <1>8 DEF Owners, OwnedIsFlagged
  <1>10. OneOwner'
    <2>1. /\ i \notin Listed
          /\ \A s \in Recorders \ {t} : ~ Records(s, i)
          /\ \A s \in Recorders : i \notin taken[s]
      BY <1>1, <1>3 DEF Owners, OneOwner
    <2>2. \A k, l \in DOMAIN list' : list'[k] = list'[l] => k = l
      <3>1. \A k \in DOMAIN list : list[k] # i
        BY <2>1 DEF Listed
      <3> QED BY <3>1, <1>4 DEF Owners, OneOwner
    <2>3. \A r, s \in Recorders : \A j \in Items :
            /\ Records(r, j)' /\ Records(s, j)' => r = s
            /\ j \in taken'[r] /\ j \in taken'[s] => r = s
            /\ ~(Records(r, j)' /\ j \in taken'[s])
      BY <1>1, <1>3 DEF Owners, OneOwner
    <2>4. \A s \in Recorders : \A j \in Listed' :
            ~ Records(s, j)' /\ j \notin taken'[s]
      BY <2>1, <1>1, <1>3, <1>5 DEF Owners, OneOwner
    <2> QED BY <2>2, <2>3, <2>4 DEF OneOwner
  <1>11. FlagAccounted'
    <2> SUFFICES ASSUME NEW j \in DOMAIN cells', cells'[j] PROVE Owned(j)'
      BY DEF FlagAccounted, Owned, Records, Listed
    <2> QED BY <1>1, <1>8, FlagOwned DEF Owners
  <1> QED BY <1>6, <1>7, <1>9, <1>10, <1>11 DEF Owners

(* A reset takes the whole list.                                            *)
LEMMA TakeStep ==
    ASSUME ListInv, NEW t \in Recorders, Take(t)
    PROVE  ListInv'
  <1> USE DEF ListInv
  <1>1. /\ spot[t] = "idle" /\ spot' = [spot EXCEPT ![t] = "clear"]
        /\ taken' = [taken EXCEPT ![t] = Listed]
        /\ list' = <<>>
        /\ UNCHANGED <<cells, head, writer, item>>
    BY DEF Take, MoveOn
  <1>2. /\ spot'[t] = "clear" /\ \A s \in Recorders \ {t} : spot'[s] = spot[s]
        /\ spot' \in [Recorders -> Places] /\ Capacity' = Capacity
    BY <1>1 DEF Typed, Places, Reading, Capacity
  <1>3. Listed \subseteq Items /\ Listed' = {} /\ taken[t] = {}
    BY <1>1 DEF Typed, Listed, TakenByReset
  <1>4. /\ taken' \in [Recorders -> SUBSET Items] /\ taken'[t] = Listed
        /\ \A s \in Recorders \ {t} : taken'[s] = taken[s]
    BY <1>1, <1>3 DEF Typed
  <1>5. \A s \in Recorders : \A j : Records(s, j)' <=> Records(s, j)
    BY <1>1, <1>2 DEF Records
  <1>6. \A j : Owned(j)' <=> Owned(j)
    BY <1>3, <1>4, <1>5 DEF Owned
  <1>7. Typed'
    <2>1. list' \in Seq(Items)
      BY <1>1
    <2> QED BY <2>1, <1>1, <1>2, <1>4 DEF Typed
  <1>8. Locked' /\ Reached' /\ TakenByReset'
    BY <1>1, <1>2, <1>4 DEF Locked, Reached, TakenByReset
  <1>9. OwnedIsFlagged'
    BY <1>1, <1>6 DEF Owners, OwnedIsFlagged
  <1>10. OneOwner'
    <2>1. \A k, l \in DOMAIN list' : list'[k] = list'[l] => k = l
      BY <1>1
    <2>2. \A r, s \in Recorders : \A j \in Items :
            /\ Records(r, j)' /\ Records(s, j)' => r = s
            /\ j \in taken'[r] /\ j \in taken'[s] => r = s
            /\ ~(Records(r, j)' /\ j \in taken'[s])
      BY <1>4, <1>5 DEF Owners, OneOwner
    <2> QED BY <2>1, <2>2, <1>3 DEF OneOwner
  <1>11. FlagAccounted'
    <2> SUFFICES ASSUME NEW j \in DOMAIN cells', cells'[j] PROVE Owned(j)'
      BY DEF FlagAccounted, Owned, Records, Listed
    <2> QED BY <1>1, <1>6, FlagOwned DEF Owners
  <1> QED BY <1>7, <1>8, <1>9, <1>10, <1>11 DEF Owners

(* It gives an item up by clearing its flag.                                *)
LEMMA ClearStep ==
    ASSUME ListInv, NEW t \in Recorders, Clear(t)
    PROVE  ListInv'
  <1> USE DEF ListInv
  <1>1. spot[t] = "clear" /\ UNCHANGED <<head, writer, list, item>>
    BY DEF Clear
  <1>2. CASE taken[t] = {} /\ MoveOn(t, "idle") /\ UNCHANGED <<cells, taken>>
    <2>1. /\ spot'[t] = "idle" /\ \A s \in Recorders \ {t} : spot'[s] = spot[s]
          /\ spot' \in [Recorders -> Places] /\ Capacity' = Capacity
      BY <1>2 DEF MoveOn, Typed, Places, Capacity
    <2>2. \A s \in Recorders : \A j : Records(s, j)' <=> Records(s, j)
      BY <1>1, <2>1 DEF Records
    <2>3. Owners'
      BY <1>1, <1>2, <2>2, SameOwners DEF Typed
    <2>4. Typed'
      BY <1>1, <1>2, <2>1 DEF Typed
    <2>5. Locked' /\ Reached' /\ TakenByReset'
      BY <1>1, <1>2, <2>1 DEF Locked, Reached, TakenByReset
    <2> QED BY <2>3, <2>4, <2>5
  <1>3. ASSUME NEW i \in taken[t], cells' = [cells EXCEPT ![i] = FALSE],
               taken' = [taken EXCEPT ![t] = @ \ {i}], UNCHANGED spot
        PROVE  ListInv'
    <2>1. i \in Items /\ i \in DOMAIN cells
      <3>1. i \in Items /\ Owned(i)
        BY DEF Typed, Owned
      <3> QED BY <3>1 DEF Owners, OwnedIsFlagged
    <2>2. /\ DOMAIN cells' = DOMAIN cells /\ Capacity' = Capacity
          /\ cells'[i] = FALSE
          /\ \A j \in DOMAIN cells : j # i => cells'[j] = cells[j]
          /\ cells' = [j \in DOMAIN cells' |-> cells'[j]]
      BY <1>3, <2>1 DEF Capacity
    <2>3. /\ taken' \in [Recorders -> SUBSET Items]
          /\ taken'[t] = taken[t] \ {i}
          /\ \A s \in Recorders \ {t} : taken'[s] = taken[s]
      BY <1>3 DEF Typed
    <2>4. \A s \in Recorders : \A j : Records(s, j)' <=> Records(s, j)
      BY <1>1, <1>3 DEF Records
    <2>5. /\ i \notin Listed /\ \A s \in Recorders : ~ Records(s, i)
          /\ \A s \in Recorders \ {t} : i \notin taken[s]
      BY <2>1 DEF Owners, OneOwner
    <2>6. \A j : Owned(j)' <=> Owned(j) /\ j # i
      BY <2>3, <2>4, <2>5, <1>1 DEF Owned, Listed
    <2>7. Typed'
      <3>1. \A j \in DOMAIN cells' : cells'[j] \in BOOLEAN
        BY <2>2 DEF Typed
      <3> QED BY <3>1, <2>2, <2>3, <1>1, <1>3 DEF Typed
    <2>8. Locked' /\ Reached' /\ TakenByReset'
      BY <1>1, <1>3, <2>2, <2>3 DEF Locked, Reached, TakenByReset
    <2>9. OwnedIsFlagged'
      BY <1>1, <2>2, <2>6 DEF Owners, OwnedIsFlagged
    <2>10. OneOwner'
      BY <1>1, <2>3, <2>4 DEF Owners, OneOwner, Listed
    <2>11. FlagAccounted'
      <3> SUFFICES ASSUME NEW j \in DOMAIN cells', cells'[j] PROVE Owned(j)'
        BY DEF FlagAccounted, Owned, Records, Listed
      <3>1. j # i /\ j \in DOMAIN cells /\ cells[j]
        BY <2>2
      <3> QED BY <3>1, <2>6, FlagOwned DEF Owners
    <2> QED BY <2>7, <2>8, <2>9, <2>10, <2>11 DEF Owners
  <1> QED BY <1>2, <1>3 DEF Clear

(* Every step keeps it: one case per atomic access.                         *)
LEMMA ListNext == ListAssumption /\ ListInv /\ [NextList]_listVars => ListInv'
  <1> SUFFICES ASSUME ListAssumption, ListInv, [NextList]_listVars PROVE ListInv'
    OBVIOUS
  <1>1. CASE UNCHANGED listVars
    <2>1. /\ UNCHANGED <<cells, head, writer, list, spot, item, taken>>
          /\ Capacity' = Capacity
      BY <1>1 DEF listVars, Capacity
    <2>2. Owners'
      BY <2>1, SameOwners DEF ListInv, Typed, Records
    <2> QED BY <2>1, <2>2 DEF ListInv, Typed, Locked, Reached, TakenByReset
  <1>2. ASSUME NEW t \in Recorders, CallRecord(t) \/ Take(t) \/ StepList(t)
        PROVE  ListInv'
    BY <1>2, QuietStep, PushStep, GrowCellsStep, SwapStep, RecordStep, TakeStep,
       ClearStep DEF StepList
  <1> QED BY <1>1, <1>2 DEF NextList

(* One owner is at most one in the count of places.                         *)
LEMMA CountedOnce == ListInv => ListedOnce
  <1> SUFFICES ASSUME ListInv, NEW i \in Items
               PROVE  Cardinality({k \in DOMAIN list : list[k] = i})
                        + Cardinality({t \in Recorders : spot[t] = "record" /\ item[t] = i})
                        + Cardinality({t \in Recorders : i \in taken[t]}) <= 1
    BY DEF ListedOnce
  <1> DEFINE A == {k \in DOMAIN list : list[k] = i}
             B == {t \in Recorders : spot[t] = "record" /\ item[t] = i}
             C == {t \in Recorders : i \in taken[t]}
  <1>1. ASSUME NEW S, \A x, y \in S : x = y
        PROVE  Cardinality(S) = IF S = {} THEN 0 ELSE 1
    <2>1. CASE S = {}
      BY <2>1, FS_EmptySet
    <2>2. CASE S # {}
      <3>1. PICK x : S = {x}
        BY <1>1, <2>2
      <3> QED BY <3>1, <2>2, FS_Singleton
    <2> QED BY <2>1, <2>2
  <1>2. /\ \A x, y \in A : x = y
        /\ \A x, y \in B : x = y
        /\ \A x, y \in C : x = y
        /\ A = {} \/ (B = {} /\ C = {})
        /\ B = {} \/ C = {}
    BY DEF ListInv, Owners, OneOwner, Records, Listed
  <1> HIDE DEF A, B, C
  <1>3. /\ Cardinality(A) = IF A = {} THEN 0 ELSE 1
        /\ Cardinality(B) = IF B = {} THEN 0 ELSE 1
        /\ Cardinality(C) = IF C = {} THEN 0 ELSE 1
    BY <1>1, <1>2
  <1>4. Cardinality(A) + Cardinality(B) + Cardinality(C) <= 1
    BY <1>2, <1>3
  <1> QED BY <1>4 DEF A, B, C

------------------------------------------------------------------------------
(* An item whose flag is set is listed, about to be, or in the hands of a   *)
(* reset; none is handed out twice between two resets; an index is used     *)
(* within the allocation (notify, reset, resize_with).                      *)
THEOREM ListIsSafe == ASSUME ListAssumption PROVE SpecList => []ListSafe
  <1>1. InitList => ListInv
    BY ListInit
  <1>2. ListInv /\ [NextList]_listVars => ListInv'
    BY ListNext
  <1>3. ASSUME ListInv, NEW t \in Recorders, NEW i \in taken[t]
        PROVE  i < head
    BY <1>3 DEF ListInv, Typed, Owners, OwnedIsFlagged, Owned
  <1>4. ListInv => InBounds
    BY <1>3 DEF ListInv, InBounds, Reached, Typed, Capacity
  <1>5. ListInv => ListSafe
    BY <1>4, CountedOnce DEF ListSafe, ListInv, Owners
  <1> QED BY <1>1, <1>2, <1>5, PTL DEF SpecList
==============================================================================
