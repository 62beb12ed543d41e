----------------------- MODULE ParallelVecWriterProofs -----------------------
(***************************************************************************)
(* The vector of many writers loses nothing, for any number of threads,    *)
(* writes and items.  The invariant is the geometry of the claimed ranges: *)
(* they are disjoint, they start past the vector's length, and with what   *)
(* completed writes filled they leave no gap up to end_len.                *)
(***************************************************************************)
EXTENDS ParallelVecWriter, FiniteSetTheorems, TLAPS

(* Threads that have claimed a range and not finished with it.              *)
Claims(t) == stage[t] \in {"capacity", "grow", "enter", "write"}

Typed ==
  /\ Capacity \in Nat /\ DOMAIN buffer = 0 .. (Capacity - 1)
  /\ len \in Nat /\ endLen \in Nat
  /\ stage \in [Writers -> {"idle", "fetch", "capacity", "grow", "enter", "write"}]
  /\ start \in [Writers -> Nat] /\ count \in [Writers -> Nat]
  /\ done \in [Writers -> Nat] /\ writes \in [Writers -> Nat]
  /\ finished \subseteq [start : Nat, count : Nat, by : Writers, call : Nat]

(* The wrapped elements lie before every range.                             *)
Sized == len <= endLen /\ len <= Capacity

(* Ranges a thread has claimed are its own.                                 *)
ClaimsApart ==
  /\ \A t \in Writers : Claims(t) => len <= start[t] /\ End(t) <= endLen
  /\ \A s, t \in Writers : Claims(s) /\ Claims(t) /\ s # t =>
       End(s) <= start[t] \/ End(t) <= start[s]

(* So are those of completed writes.                                        *)
FinishedApart ==
  \A f \in finished :
    /\ len <= f.start /\ f.start + f.count <= endLen
    /\ f.start + f.count <= Capacity
    /\ \A t \in Writers : Claims(t) =>
         f.start + f.count <= start[t] \/ End(t) <= f.start

(* No index is lost between them.                                           *)
NoGap ==
  \A i \in len .. (endLen - 1) :
    \/ \E f \in finished : f.start <= i /\ i < f.start + f.count
    \/ \E t \in Writers : Claims(t) /\ start[t] <= i /\ i < End(t)

(* The allocation reaches the range of a thread that passed the test.       *)
Room == \A t \in Writers : stage[t] \in {"enter", "write"} => End(t) <= Capacity

(* What a thread has written so far is there.                               *)
Progress ==
  \A t \in Writers :
    /\ done[t] <= count[t]
    /\ stage[t] \in {"fetch", "capacity", "grow", "enter"} => done[t] = 0
    /\ Claims(t) =>
         \A k \in 0 .. (done[t] - 1) : buffer[start[t] + k] = Item(t, k)

WInv == /\ Typed /\ Sized /\ ClaimsApart /\ FinishedApart /\ NoGap /\ Room
        /\ Progress /\ NoLostWrite

------------------------------------------------------------------------------
(* The capacity is the number of allocated cells.                           *)
LEMMA CapacityOf ==
    ASSUME NEW n \in Nat, DOMAIN buffer = 0 .. (n - 1) PROVE Capacity = n
  <1>1. Cardinality(0 .. (n - 1)) = n
    BY FS_Interval
  <1> QED BY <1>1 DEF Capacity

(* The larger of two lengths is one of them and bounds both.                *)
LEMMA MaxOfTwo ==
    ASSUME NEW m \in Nat, NEW n \in Nat
    PROVE  Max({m, n}) \in Nat /\ Max({m, n}) >= m /\ Max({m, n}) >= n
  <1>1. \E x \in {m, n} : \A y \in {m, n} : x >= y
    <2>1. CASE m >= n
      BY <2>1
    <2>2. CASE n >= m
      BY <2>2
    <2> QED BY <2>1, <2>2
  <1> QED BY <1>1 DEF Max

(* An index of a range that ends inside the allocation is allocated.        *)
LEMMA InRange ==
    ASSUME NEW first \in Nat, NEW n \in Nat, NEW c \in Nat, first + n <= c,
           NEW k \in 0 .. (n - 1)
    PROVE  first + k \in 0 .. (c - 1)
  OBVIOUS

(* What is written of a range is part of it.                                *)
LEMMA WrittenPart ==
    ASSUME NEW d \in Nat, NEW n \in Nat, d <= n, NEW k \in 0 .. (d - 1)
    PROVE  k \in 0 .. (n - 1)
  OBVIOUS

(* A completed range is a range of indices.                                 *)
LEMMA FinishedType ==
    ASSUME Typed, NEW f \in finished PROVE f.start \in Nat /\ f.count \in Nat
  <1>1. f \in [start : Nat, count : Nat, by : Writers, call : Nat]
    BY DEF Typed
  <1> QED BY <1>1

(* A claimed range is a range of indices.                                   *)
LEMMA ClaimType ==
    ASSUME Typed, NEW t \in Writers
    PROVE  /\ start[t] \in Nat /\ count[t] \in Nat /\ done[t] \in Nat
           /\ End(t) = start[t] + count[t] /\ End(t) \in Nat
  BY DEF Typed, End

(* A vector that was just wrapped satisfies the invariant.                  *)
LEMMA WriterInit == WriterAssumption /\ InitVector => WInv
  <1> SUFFICES ASSUME WriterAssumption, InitVector PROVE WInv
    OBVIOUS
  <1>1. BaseLen \in Nat /\ DOMAIN buffer = 0 .. (BaseLen - 1)
    BY DEF WriterAssumption, InitVector
  <1>2. Capacity = BaseLen
    BY <1>1, CapacityOf
  <1>3. Typed
    BY <1>1, <1>2 DEF Typed, InitVector
  <1>4. Sized /\ ClaimsApart /\ FinishedApart /\ NoGap /\ Room
    BY <1>1, <1>2 DEF InitVector, Sized, ClaimsApart, FinishedApart, NoGap, Room, Claims
  <1>5. Progress
    BY DEF InitVector, Progress, Claims
  <1>6. NoLostWrite
    BY DEF InitVector, NoLostWrite
  <1> QED BY <1>3, <1>4, <1>5, <1>6 DEF WInv

(* A thread moves from place to place and touches nothing else.             *)
LEMMA MoveStep ==
    ASSUME WInv, NEW t \in Writers, NEW at \in {"grow", "enter", "write"},
           Proceed(t, at), Claims(t),
           at \in {"enter", "write"} => End(t) <= Capacity,
           at \in {"grow", "enter"} => done[t] = 0,
           UNCHANGED <<buffer, len, endLen, start, count, done, writes, finished>>
    PROVE  WInv'
  <1> USE DEF WInv
  <1>1. /\ stage'[t] = at /\ \A s \in Writers \ {t} : stage'[s] = stage[s]
        /\ stage' \in [Writers -> {"idle", "fetch", "capacity", "grow", "enter", "write"}]
    BY DEF Proceed, Typed
  <1>2. /\ \A s \in Writers : Claims(s)' <=> Claims(s)
        /\ \A s \in Writers : End(s)' = End(s)
        /\ Capacity' = Capacity
        /\ \A s, k : Item(s, k)' = Item(s, k)
    BY <1>1 DEF Claims, End, Capacity, Item
  <1>3. Typed' /\ Sized'
    BY <1>1, <1>2 DEF Typed, Sized
  <1>4. ClaimsApart' /\ FinishedApart'
    BY <1>2 DEF ClaimsApart, FinishedApart
  <1>5. NoGap'
    BY <1>2 DEF NoGap
  <1>6. Room'
    BY <1>1, <1>2 DEF Room
  <1>7. Progress'
    BY <1>1, <1>2 DEF Progress
  <1>8. NoLostWrite'
    BY DEF NoLostWrite
  <1> QED BY <1>3, <1>4, <1>5, <1>6, <1>7, <1>8

(* A thread calls write_contents.                                           *)
LEMMA CallWriteStep ==
    ASSUME WriterAssumption, WInv, NEW t \in Writers, CallWrite(t)
    PROVE  WInv'
  <1> USE DEF WInv
  <1>1. PICK n \in 1 .. MaxLen :
          /\ stage[t] = "idle" /\ stage' = [stage EXCEPT ![t] = "fetch"]
          /\ count' = [count EXCEPT ![t] = n]
          /\ writes' = [writes EXCEPT ![t] = @ + 1]
          /\ done' = [done EXCEPT ![t] = 0]
          /\ UNCHANGED <<buffer, len, endLen, start, finished>>
    BY DEF CallWrite, Proceed
  <1>2. n \in Nat /\ n >= 0
    BY DEF WriterAssumption
  <1>3. /\ Capacity' = Capacity /\ ~ Claims(t)' /\ ~ Claims(t)
        /\ stage'[t] = "fetch" /\ done'[t] = 0 /\ count'[t] = n
        /\ \A s \in Writers \ {t} :
             /\ stage'[s] = stage[s] /\ count'[s] = count[s] /\ done'[s] = done[s]
             /\ writes'[s] = writes[s]
             /\ Claims(s)' <=> Claims(s)
             /\ End(s)' = End(s)
    BY <1>1 DEF Capacity, Claims, End, Typed
  <1>4. Typed'
    <2>1. /\ stage' \in [Writers -> {"idle", "fetch", "capacity", "grow", "enter", "write"}]
          /\ count' \in [Writers -> Nat] /\ done' \in [Writers -> Nat]
      BY <1>1, <1>2 DEF Typed
    <2>2. writes' \in [Writers -> Nat]
      BY <1>1 DEF Typed
    <2>3. /\ Capacity' \in Nat /\ DOMAIN buffer' = 0 .. (Capacity' - 1)
          /\ len' \in Nat /\ endLen' \in Nat /\ start' \in [Writers -> Nat]
          /\ finished' \subseteq [start : Nat, count : Nat, by : Writers, call : Nat]
      BY <1>1, <1>3 DEF Typed
    <2> QED BY <2>1, <2>2, <2>3 DEF Typed
  <1>5. Sized'
    BY <1>1, <1>3 DEF Sized
  <1>6. ClaimsApart'
    BY <1>1, <1>3 DEF ClaimsApart
  <1>7. FinishedApart'
    BY <1>1, <1>3 DEF FinishedApart
  <1>8. NoGap'
    BY <1>1, <1>3 DEF NoGap
  <1>9. Room'
    BY <1>1, <1>3 DEF Room
  <1>10. Progress'
    <2>1. /\ done'[t] <= count'[t] /\ done'[t] = 0 /\ ~ Claims(t)'
      BY <1>2, <1>3
    <2>2. \A s \in Writers \ {t} : \A k : Item(s, k)' = Item(s, k)
      BY <1>3 DEF Item
    <2>3. buffer' = buffer /\ start' = start
      BY <1>1
    <2> QED BY <2>1, <2>2, <2>3, <1>3 DEF Progress
  <1>11. NoLostWrite'
    BY <1>1 DEF NoLostWrite
  <1> QED BY <1>4, <1>5, <1>6, <1>7, <1>8, <1>9, <1>10, <1>11

(* The claimed range starts where every other one ends.                     *)
LEMMA FetchAddStep ==
    ASSUME WInv, NEW t \in Writers, FetchAdd(t)
    PROVE  WInv'
  <1> USE DEF WInv
  <1>1. /\ stage[t] = "fetch" /\ stage' = [stage EXCEPT ![t] = "capacity"]
        /\ start' = [start EXCEPT ![t] = endLen]
        /\ endLen' = endLen + count[t]
        /\ UNCHANGED <<buffer, len, count, done, writes, finished>>
    BY DEF FetchAdd, Proceed
  <1>2. count[t] \in Nat /\ endLen \in Nat /\ len \in Nat
    BY DEF Typed
  <1>3. /\ Capacity' = Capacity /\ ~ Claims(t) /\ Claims(t)'
        /\ stage'[t] = "capacity" /\ start'[t] = endLen
        /\ End(t)' = endLen'
        /\ \A s \in Writers \ {t} :
             /\ stage'[s] = stage[s] /\ start'[s] = start[s]
             /\ Claims(s)' <=> Claims(s)
             /\ End(s)' = End(s)
    BY <1>1 DEF Capacity, Claims, End, Typed
  <1>4. \A s \in Writers : End(s) \in Nat /\ start[s] \in Nat
    BY DEF End, Typed
  <1>5. Typed'
    <2>1. Capacity' \in Nat /\ DOMAIN buffer' = 0 .. (Capacity' - 1) /\ endLen' \in Nat
      BY <1>1, <1>2, <1>3 DEF Typed
    <2>2. /\ stage' \in [Writers -> {"idle", "fetch", "capacity", "grow", "enter", "write"}]
          /\ start' \in [Writers -> Nat]
      BY <1>1, <1>2 DEF Typed
    <2> QED BY <2>1, <2>2, <1>1 DEF Typed
  <1>6. Sized'
    BY <1>1, <1>2, <1>3 DEF Sized
  <1>7. ClaimsApart'
    <2>1. ASSUME NEW s \in Writers, Claims(s)'
          PROVE  len' <= start'[s] /\ End(s)' <= endLen'
      BY <2>1, <1>1, <1>2, <1>3, <1>4 DEF ClaimsApart, Sized
    <2>2. ASSUME NEW s \in Writers \ {t}, Claims(s)'
          PROVE  End(s)' <= start'[t]
      BY <2>2, <1>3 DEF ClaimsApart
    <2>3. \A r, s \in Writers \ {t} : Claims(r)' /\ Claims(s)' /\ r # s =>
             End(r)' <= start'[s] \/ End(s)' <= start'[r]
      BY <1>3 DEF ClaimsApart
    <2> QED BY <2>1, <2>2, <2>3 DEF ClaimsApart
  <1>8. FinishedApart'
    <2> SUFFICES ASSUME NEW f \in finished
                 PROVE  /\ len <= f.start /\ f.start + f.count <= endLen'
                        /\ f.start + f.count <= Capacity
                        /\ \A s \in Writers : Claims(s)' =>
                             f.start + f.count <= start'[s] \/ End(s)' <= f.start
      BY <1>1, <1>3 DEF FinishedApart
    <2>1. f.start \in Nat /\ f.count \in Nat
      BY DEF Typed
    <2>2. /\ len <= f.start /\ f.start + f.count <= endLen
          /\ f.start + f.count <= Capacity
          /\ \A s \in Writers : Claims(s) =>
               f.start + f.count <= start[s] \/ End(s) <= f.start
      BY DEF FinishedApart
    <2>3. f.start + f.count <= endLen'
      BY <2>1, <2>2, <1>1, <1>2
    <2> QED BY <2>2, <2>3, <1>3
  <1>9. NoGap'
    <2> SUFFICES ASSUME NEW i \in len .. (endLen' - 1)
                 PROVE  \/ \E f \in finished : f.start <= i /\ i < f.start + f.count
                        \/ \E s \in Writers : Claims(s)' /\ start'[s] <= i /\ i < End(s)'
      BY <1>1 DEF NoGap
    <2>1. CASE i < endLen
      <3>1. i \in len .. (endLen - 1)
        BY <2>1, <1>2
      <3>2. CASE \E s \in Writers : Claims(s) /\ start[s] <= i /\ i < End(s)
        BY <3>2, <1>3
      <3> QED BY <3>1, <3>2 DEF NoGap
    <2>2. CASE i >= endLen
      <3>1. start'[t] <= i /\ i < End(t)'
        BY <2>2, <1>1, <1>2, <1>3
      <3> QED BY <3>1, <1>3
    <2> QED BY <2>1, <2>2, <1>2
  <1>10. Room'
    BY <1>1, <1>3 DEF Room
  <1>11. Progress'
    <2>1. /\ buffer' = buffer /\ done' = done /\ count' = count
          /\ \A s, k : Item(s, k)' = Item(s, k)
      BY <1>1 DEF Item
    <2>2. done[t] = 0 /\ 0 .. (done[t] - 1) = {}
      BY <1>1 DEF Progress
    <2>3. \A s \in Writers \ {t} :
            /\ stage'[s] = stage[s] /\ start'[s] = start[s] /\ Claims(s)' <=> Claims(s)
      BY <1>3
    <2> QED BY <2>1, <2>2, <2>3, <1>3 DEF Progress
  <1>12. NoLostWrite'
    BY <1>1 DEF NoLostWrite
  <1> QED BY <1>5, <1>6, <1>7, <1>8, <1>9, <1>10, <1>11, <1>12

(* A reallocation keeps what was there and ends no earlier.                 *)
LEMMA GrowStep ==
    ASSUME WInv, NEW t \in Writers, GrowBuffer(t)
    PROVE  WInv'
  <1> USE DEF WInv
  <1>1. /\ stage[t] = "grow" /\ Exclusive /\ stage' = [stage EXCEPT ![t] = "enter"]
        /\ buffer' = IF Capacity < End(t) THEN Realloc(GrowTo(End(t))) ELSE buffer
        /\ UNCHANGED <<len, endLen, start, count, done, writes, finished>>
    BY DEF GrowBuffer, Proceed
  <1>2. End(t) \in Nat /\ Capacity \in Nat /\ DOMAIN buffer = 0 .. (Capacity - 1)
    BY DEF End, Typed
  <1>3. /\ Capacity' \in Nat /\ DOMAIN buffer' = 0 .. (Capacity' - 1)
        /\ Capacity <= Capacity' /\ End(t) <= Capacity'
        /\ \A i \in 0 .. (Capacity - 1) : buffer'[i] = buffer[i]
    <2>1. CASE Capacity < End(t)
      <3> DEFINE n == GrowTo(End(t))
      <3>1. n \in Nat /\ n >= End(t) /\ n >= 2 * Capacity
        BY <1>2, MaxOfTwo DEF GrowTo
      <3>2. buffer' = [i \in 0 .. (n - 1) |-> IF i < Capacity THEN buffer[i] ELSE Garbage]
        BY <1>1, <2>1 DEF Realloc
      <3> HIDE DEF n
      <3>3. DOMAIN buffer' = 0 .. (n - 1)
        BY <3>2
      <3>4. Capacity' = n
        <4>1. Cardinality(0 .. (n - 1)) = n
          BY <3>1, FS_Interval
        <4> QED BY <3>3, <4>1 DEF Capacity
      <3>5. \A i \in 0 .. (Capacity - 1) : buffer'[i] = buffer[i]
        BY <3>1, <3>2, <1>2
      <3> QED BY <3>1, <3>3, <3>4, <3>5, <1>2
    <2>2. CASE ~(Capacity < End(t))
      <3>1. buffer' = buffer /\ Capacity' = Capacity
        BY <1>1, <2>2 DEF Capacity
      <3> QED BY <3>1, <2>2, <1>2
    <2> QED BY <2>1, <2>2
  <1>4. /\ stage'[t] = "enter" /\ \A s \in Writers \ {t} : stage'[s] = stage[s]
        /\ stage' \in [Writers -> {"idle", "fetch", "capacity", "grow", "enter", "write"}]
        /\ \A s \in Writers : (Claims(s)' <=> Claims(s)) /\ End(s)' = End(s)
        /\ \A s, k : Item(s, k)' = Item(s, k)
    BY <1>1 DEF Typed, Claims, End, Item
  <1>5. Typed' /\ Sized'
    <2>1. Capacity' \in Nat /\ DOMAIN buffer' = 0 .. (Capacity' - 1)
      BY <1>3
    <2>2. stage' \in [Writers -> {"idle", "fetch", "capacity", "grow", "enter", "write"}]
      BY <1>4
    <2>3. Typed'
      BY <2>1, <2>2, <1>1 DEF Typed
    <2>4. len' \in Nat /\ len' <= Capacity /\ len' <= endLen'
      BY <1>1 DEF Typed, Sized
    <2> QED BY <2>1, <2>3, <2>4, <1>2, <1>3 DEF Sized
  <1>6. ClaimsApart'
    BY <1>1, <1>4 DEF ClaimsApart
  <1>7. FinishedApart'
    <2>1. \A f \in finished : f.start + f.count \in Nat
      BY DEF Typed
    <2> QED BY <2>1, <1>1, <1>2, <1>3, <1>4 DEF FinishedApart
  <1>8. NoGap'
    BY <1>1, <1>4 DEF NoGap
  <1>9. Room'
    <2>1. \A s \in Writers : End(s) \in Nat
      BY DEF End, Typed
    <2> QED BY <2>1, <1>2, <1>3, <1>4 DEF Room
  <1>10. Progress'
    <2> SUFFICES ASSUME NEW s \in Writers
                 PROVE  /\ done[s] <= count[s]
                        /\ stage'[s] \in {"fetch", "capacity", "grow", "enter"}
                             => done[s] = 0
                        /\ Claims(s)' => \A k \in 0 .. (done[s] - 1) :
                             buffer'[start[s] + k] = Item(s, k)
      BY <1>1, <1>4 DEF Progress
    <2>1. CASE stage[s] = "write"
      <3>1. s # t /\ End(s) <= Capacity
        BY <2>1, <1>1 DEF Room
      <3>2. ASSUME NEW k \in 0 .. (done[s] - 1)
            PROVE  buffer'[start[s] + k] = Item(s, k)
        <4>1. start[s] + k \in 0 .. (Capacity - 1)
          <5>1. done[s] <= count[s]
            BY DEF Progress
          <5>2. k \in 0 .. (count[s] - 1)
            BY <5>1, ClaimType, WrittenPart
          <5>3. start[s] + count[s] <= Capacity
            BY <3>1, ClaimType
          <5> QED BY <5>2, <5>3, <1>2, ClaimType, InRange
        <4>2. buffer[start[s] + k] = Item(s, k)
          BY <2>1 DEF Progress, Claims
        <4> QED BY <4>1, <4>2, <1>3
      <3> QED BY <3>1, <3>2, <1>4 DEF Progress
    <2>2. CASE stage[s] # "write"
      <3>1. stage'[s] # "write" /\ done[s] <= count[s]
        BY <2>2, <1>1, <1>4 DEF Progress
      <3>2. stage'[s] \in {"fetch", "capacity", "grow", "enter"} => done[s] = 0
        BY <1>1, <1>4 DEF Progress
      <3> QED BY <3>1, <3>2 DEF Claims
    <2> QED BY <2>1, <2>2
  <1>11. NoLostWrite'
    <2>1. ASSUME NEW i \in 0 .. (len - 1)
          PROVE  buffer'[i] = "old"
      <3>1. i \in 0 .. (Capacity - 1)
        BY <1>2 DEF Sized, Typed
      <3>2. buffer[i] = "old"
        BY DEF NoLostWrite
      <3> QED BY <3>1, <3>2, <1>3
    <2>2. ASSUME NEW f \in finished, NEW k \in 0 .. (f.count - 1)
          PROVE  buffer'[f.start + k] = <<f.by, f.call, k>>
      <3>1. f.start + f.count <= Capacity
        BY DEF FinishedApart
      <3>2. f.start \in Nat /\ f.count \in Nat
        BY FinishedType
      <3>3. f.start + k \in 0 .. (Capacity - 1)
        BY <3>1, <3>2, <1>2, InRange
      <3>4. buffer[f.start + k] = <<f.by, f.call, k>>
        BY DEF NoLostWrite
      <3> QED BY <3>3, <3>4, <1>3
    <2> QED BY <2>1, <2>2, <1>1 DEF NoLostWrite
  <1> QED BY <1>5, <1>6, <1>7, <1>8, <1>9, <1>10, <1>11

(* An item goes to an index of the thread's own range.                      *)
LEMMA WriteItemStep ==
    ASSUME WInv, NEW t \in Writers, stage[t] = "write", done[t] < count[t],
           buffer' = [buffer EXCEPT ![start[t] + done[t]] = Item(t, done[t])],
           done' = [done EXCEPT ![t] = @ + 1],
           UNCHANGED <<stage, finished, len, endLen, start, count, writes>>
    PROVE  WInv'
  <1> USE DEF WInv
  <1> DEFINE p == start[t] + done[t]
  <1>1. /\ Capacity' = Capacity /\ DOMAIN buffer' = DOMAIN buffer
        /\ \A s \in Writers : (Claims(s)' <=> Claims(s)) /\ End(s)' = End(s)
        /\ \A s, k : Item(s, k)' = Item(s, k)
        /\ \A s \in Writers \ {t} : done'[s] = done[s]
        /\ done'[t] = done[t] + 1
    BY DEF Capacity, Claims, End, Item, Typed
  <1>2. /\ Claims(t) /\ End(t) <= Capacity /\ End(t) = start[t] + count[t]
        /\ start[t] \in Nat /\ count[t] \in Nat /\ done[t] \in Nat
        /\ Capacity \in Nat /\ p \in DOMAIN buffer
    BY DEF Claims, Room, End, Typed
  <1>3. /\ buffer'[p] = Item(t, done[t])
        /\ \A i \in DOMAIN buffer : i # p => buffer'[i] = buffer[i]
    BY <1>2
  <1>4. Typed' /\ Sized'
    <2>1. Capacity' \in Nat /\ DOMAIN buffer' = 0 .. (Capacity' - 1)
      BY <1>1 DEF Typed
    <2>2. done' \in [Writers -> Nat]
      BY <1>2 DEF Typed
    <2>3. Typed'
      BY <2>1, <2>2 DEF Typed
    <2> QED BY <2>3, <1>1 DEF Sized
  <1>5. ClaimsApart' /\ FinishedApart'
    BY <1>1 DEF ClaimsApart, FinishedApart
  <1>6. NoGap' /\ Room'
    BY <1>1 DEF NoGap, Room
  <1>7. Progress'
    <2> SUFFICES ASSUME NEW s \in Writers
                 PROVE  /\ done'[s] <= count[s]
                        /\ stage[s] \in {"fetch", "capacity", "grow", "enter"}
                             => done'[s] = 0
                        /\ Claims(s) => \A k \in 0 .. (done'[s] - 1) :
                             buffer'[start[s] + k] = Item(s, k)
      BY <1>1 DEF Progress
    <2>1. CASE s = t
      <3>1. done'[s] <= count[s] /\ stage[s] = "write"
        BY <2>1, <1>1, <1>2
      <3>2. ASSUME NEW k \in 0 .. (done'[s] - 1)
            PROVE  buffer'[start[s] + k] = Item(s, k)
        <4>1. CASE k = done[t]
          BY <4>1, <2>1, <1>3
        <4>2. CASE k # done[t]
          <5>1. k \in 0 .. (done[t] - 1)
            BY <4>2, <2>1, <1>1, <1>2
          <5>2. start[t] + k \in DOMAIN buffer /\ start[t] + k # p
            <6>1. k \in 0 .. (count[t] - 1)
              BY <5>1, <1>2, WrittenPart
            <6>2. start[t] + k \in 0 .. (Capacity - 1)
              BY <6>1, <1>2, InRange
            <6>3. start[t] + k # p
              BY <5>1, <1>2
            <6> QED BY <6>2, <6>3 DEF Typed
          <5>3. buffer[start[t] + k] = Item(t, k)
            BY <5>1, <1>2 DEF Progress
          <5> QED BY <5>2, <5>3, <2>1, <1>3
        <4> QED BY <4>1, <4>2
      <3> QED BY <3>1, <3>2
    <2>2. CASE s # t
      <3>1. done'[s] = done[s]
        BY <2>2, <1>1
      <3>2. ASSUME Claims(s), NEW k \in 0 .. (done[s] - 1)
            PROVE  buffer'[start[s] + k] = Item(s, k)
        <4>1. CASE stage[s] = "write"
          <5>1. /\ start[s] \in Nat /\ count[s] \in Nat /\ done[s] \in Nat
                /\ done[s] <= count[s] /\ End(s) <= Capacity
                /\ End(s) = start[s] + count[s]
            <6>1. done[s] <= count[s] /\ End(s) <= Capacity
              BY <4>1 DEF Progress, Room
            <6> QED BY <6>1, ClaimType
          <5>2. start[s] + k \in DOMAIN buffer
            <6>1. k \in 0 .. (count[s] - 1)
              BY <5>1, WrittenPart
            <6>2. start[s] + k \in 0 .. (Capacity - 1)
              BY <6>1, <5>1, <1>2, InRange
            <6> QED BY <6>2 DEF Typed
          <5>3. End(s) <= start[t] \/ End(t) <= start[s]
            BY <2>2, <3>2, <1>2 DEF ClaimsApart
          <5>4. start[s] + k # p
            BY <5>1, <5>3, <1>2
          <5>5. buffer[start[s] + k] = Item(s, k)
            BY <3>2 DEF Progress
          <5> QED BY <5>2, <5>4, <5>5, <1>3
        <4>2. CASE stage[s] # "write"
          <5>1. done[s] = 0
            BY <4>2, <3>2 DEF Claims, Progress
          <5> QED BY <5>1, <3>2
        <4> QED BY <4>1, <4>2
      <3> QED BY <3>1, <3>2 DEF Progress
    <2> QED BY <2>1, <2>2
  <1>8. NoLostWrite'
    <2>1. ASSUME NEW i \in 0 .. (len - 1)
          PROVE  buffer'[i] = "old"
      <3>1. i \in DOMAIN buffer
        BY <1>2 DEF Sized, Typed
      <3>2. i # p
        BY <1>2 DEF ClaimsApart, Typed
      <3>3. buffer[i] = "old"
        BY DEF NoLostWrite
      <3> QED BY <3>1, <3>2, <3>3, <1>3
    <2>2. ASSUME NEW f \in finished, NEW k \in 0 .. (f.count - 1)
          PROVE  buffer'[f.start + k] = <<f.by, f.call, k>>
      <3>1. f.start \in Nat /\ f.count \in Nat
        BY FinishedType
      <3>2. f.start + f.count <= Capacity
        BY DEF FinishedApart
      <3>3. f.start + f.count <= start[t] \/ End(t) <= f.start
        BY <1>2 DEF FinishedApart
      <3>4. f.start + k \in DOMAIN buffer
        <4>1. f.start + k \in 0 .. (Capacity - 1)
          BY <3>1, <3>2, <1>2, InRange
        <4> QED BY <4>1 DEF Typed
      <3>5. f.start + k # p
        BY <3>1, <3>3, <1>2
      <3>6. buffer[f.start + k] = <<f.by, f.call, k>>
        BY DEF NoLostWrite
      <3> QED BY <3>4, <3>5, <3>6, <1>3
    <2> QED BY <2>1, <2>2 DEF NoLostWrite
  <1> QED BY <1>4, <1>5, <1>6, <1>7, <1>8

(* The write is over: its range goes from the thread to the history.        *)
LEMMA FinishStep ==
    ASSUME WInv, NEW t \in Writers, stage[t] = "write", done[t] = count[t],
           finished' = finished \cup
             {[start |-> start[t], count |-> count[t], by |-> t, call |-> writes[t]]},
           Proceed(t, "idle"),
           UNCHANGED <<buffer, done, len, endLen, start, count, writes>>
    PROVE  WInv'
  <1> USE DEF WInv
  <1> DEFINE g == [start |-> start[t], count |-> count[t], by |-> t, call |-> writes[t]]
  <1>1. /\ stage' \in [Writers -> {"idle", "fetch", "capacity", "grow", "enter", "write"}]
        /\ stage'[t] = "idle" /\ \A s \in Writers \ {t} : stage'[s] = stage[s]
        /\ Capacity' = Capacity
        /\ \A s \in Writers : End(s)' = End(s)
        /\ ~ Claims(t)' /\ Claims(t)
        /\ \A s \in Writers \ {t} : Claims(s)' <=> Claims(s)
        /\ \A s, k : Item(s, k)' = Item(s, k)
    BY DEF Proceed, Typed, Capacity, Claims, End, Item
  <1>2. /\ g \in [start : Nat, count : Nat, by : Writers, call : Nat]
        /\ g.start = start[t] /\ g.count = count[t] /\ g.by = t /\ g.call = writes[t]
    BY DEF Typed
  <1>3. g.start + g.count = End(t)
    BY <1>2 DEF End
  <1>4. finished' = finished \cup {g}
    OBVIOUS
  <1> HIDE DEF g
  <1>5. Typed' /\ Sized'
    BY <1>1, <1>2, <1>4 DEF Typed, Sized
  <1>6. ClaimsApart'
    BY <1>1 DEF ClaimsApart
  <1>7. FinishedApart'
    <2>1. \A f \in finished :
            /\ len <= f.start /\ f.start + f.count <= endLen
            /\ f.start + f.count <= Capacity
            /\ \A s \in Writers : Claims(s)' =>
                 f.start + f.count <= start[s] \/ End(s) <= f.start
      BY <1>1 DEF FinishedApart
    <2>2. /\ len <= g.start /\ g.start + g.count <= endLen
          /\ g.start + g.count <= Capacity
          /\ \A s \in Writers : Claims(s)' =>
               g.start + g.count <= start[s] \/ End(s) <= g.start
      BY <1>1, <1>2, <1>3 DEF ClaimsApart, Room
    <2> QED BY <2>1, <2>2, <1>1, <1>4 DEF FinishedApart
  <1>8. NoGap'
    <2> SUFFICES ASSUME NEW i \in len .. (endLen - 1)
                 PROVE  \/ \E f \in finished' : f.start <= i /\ i < f.start + f.count
                        \/ \E s \in Writers : Claims(s)' /\ start[s] <= i /\ i < End(s)
      BY <1>1 DEF NoGap
    <2>1. CASE \E f \in finished : f.start <= i /\ i < f.start + f.count
      BY <2>1, <1>4
    <2>2. ASSUME NEW s \in Writers, Claims(s), start[s] <= i, i < End(s)
          PROVE  \/ \E f \in finished' : f.start <= i /\ i < f.start + f.count
                 \/ \E r \in Writers : Claims(r)' /\ start[r] <= i /\ i < End(r)
      <3>1. CASE s = t
        <4>1. g \in finished' /\ g.start <= i /\ i < g.start + g.count
          BY <2>2, <3>1, <1>2, <1>3, <1>4
        <4> QED BY <4>1
      <3>2. CASE s # t
        BY <2>2, <3>2, <1>1
      <3> QED BY <3>1, <3>2
    <2> QED BY <2>1, <2>2 DEF NoGap
  <1>9. Room'
    BY <1>1 DEF Room
  <1>10. Progress'
    BY <1>1 DEF Progress
  <1>11. NoLostWrite'
    <2>1. ASSUME NEW k \in 0 .. (g.count - 1)
          PROVE  buffer[g.start + k] = <<g.by, g.call, k>>
      <3>1. buffer[start[t] + k] = Item(t, k)
        BY <1>1, <1>2 DEF Progress
      <3> QED BY <3>1, <1>2 DEF Item
    <2> QED BY <2>1, <1>4 DEF NoLostWrite
  <1> QED BY <1>5, <1>6, <1>7, <1>8, <1>9, <1>10, <1>11

(* take() hands the vector out when nobody writes.                          *)
LEMMA TakeStep == ASSUME WInv, TakeVector PROVE WInv'
  <1> USE DEF WInv
  <1>1. /\ \A t \in Writers : stage[t] = "idle"
        /\ buffer' = <<>> /\ len' = 0 /\ endLen' = 0 /\ finished' = {}
        /\ UNCHANGED <<stage, start, count, done, writes>>
    BY DEF TakeVector
  <1>2. DOMAIN buffer' = 0 .. (0 - 1)
    BY <1>1
  <1>3. Capacity' = 0
    <2>1. Cardinality(0 .. (0 - 1)) = 0
      BY FS_Interval
    <2> QED BY <1>2, <2>1 DEF Capacity
  <1>4. Typed' /\ Sized'
    BY <1>1, <1>2, <1>3 DEF Typed, Sized
  <1>5. \A t \in Writers : ~ Claims(t)' /\ stage'[t] = "idle"
    BY <1>1 DEF Claims
  <1>6. ClaimsApart' /\ FinishedApart' /\ NoGap' /\ Room'
    BY <1>1, <1>5 DEF ClaimsApart, FinishedApart, NoGap, Room
  <1>7. Progress'
    BY <1>1, <1>5 DEF Progress
  <1>8. NoLostWrite'
    BY <1>1 DEF NoLostWrite
  <1> QED BY <1>4, <1>6, <1>7, <1>8

(* Every step keeps the invariant: one case per step of a writer.           *)
LEMMA WriterNext == WriterAssumption /\ WInv /\ [NextVector]_vectorVars => WInv'
  <1> SUFFICES ASSUME WriterAssumption, WInv, [NextVector]_vectorVars PROVE WInv'
    OBVIOUS
  <1>1. CASE UNCHANGED vectorVars
    BY <1>1 DEF vectorVars, WInv, Typed, Sized, ClaimsApart, FinishedApart, NoGap, Room,
                Progress, NoLostWrite, Claims, End, Capacity, Item
  <1>2. ASSUME NEW t \in Writers, ReadCapacity(t) \/ EnterWrite(t)
        PROVE  WInv'
    <2>1. CASE ReadCapacity(t)
      <3>1. /\ stage[t] = "capacity"
            /\ Proceed(t, IF Capacity < End(t) THEN "grow" ELSE "enter")
            /\ UNCHANGED <<buffer, len, endLen, start, count, done, writes, finished>>
        BY <2>1 DEF ReadCapacity
      <3>2. Claims(t) /\ done[t] = 0 /\ End(t) \in Nat /\ Capacity \in Nat
        BY <3>1 DEF Claims, End, WInv, Progress, Typed
      <3>3. PICK at \in {"grow", "enter"} :
               Proceed(t, at) /\ (at = "enter" => End(t) <= Capacity)
        BY <3>1, <3>2
      <3> QED BY <3>1, <3>2, <3>3, MoveStep
    <2>2. CASE EnterWrite(t)
      <3>1. /\ stage[t] = "enter" /\ Proceed(t, "write")
            /\ UNCHANGED <<buffer, len, endLen, start, count, done, writes, finished>>
        BY <2>2 DEF EnterWrite
      <3>2. Claims(t) /\ End(t) <= Capacity
        BY <3>1 DEF Claims, WInv, Room
      <3> QED BY <3>1, <3>2, MoveStep
    <2> QED BY <1>2, <2>1, <2>2
  <1>3. ASSUME NEW t \in Writers, Write(t)
        PROVE  WInv'
    BY <1>3, WriteItemStep, FinishStep DEF Write
  <1> QED BY <1>1, <1>2, <1>3, CallWriteStep, FetchAddStep, GrowStep, TakeStep
      DEF NextVector, StepVector

(* With nobody in a call every index up to end_len was written.             *)
LEMMA QuietIsWhole == WriterAssumption /\ WInv => Whole
  <1> SUFFICES ASSUME WriterAssumption, WInv, \A t \in Writers : stage[t] = "idle",
                      NEW i \in 0 .. (endLen - 1)
               PROVE  buffer[i] # Garbage
    BY DEF Whole
  <1> USE DEF WInv
  <1>1. CASE i < len
    BY <1>1 DEF NoLostWrite, WriterAssumption, Typed
  <1>2. CASE i >= len
    <2>1. PICK f \in finished : f.start <= i /\ i < f.start + f.count
      <3>1. i \in len .. (endLen - 1)
        BY <1>2 DEF Typed
      <3> QED BY <3>1 DEF NoGap, Claims
    <2>2. f.start \in Nat /\ f.count \in Nat /\ f.by \in Writers /\ f.call \in Nat
      BY DEF Typed
    <2> DEFINE k == i - f.start
    <2>3. k \in 0 .. (f.count - 1) /\ k \in Nat /\ i = f.start + k
      BY <2>1, <2>2
    <2> HIDE DEF k
    <2>4. buffer[i] = <<f.by, f.call, k>>
      BY <2>3 DEF NoLostWrite
    <2>5. <<f.by, f.call, k>> \in Writers \X Nat \X Nat
      BY <2>2, <2>3
    <2> QED BY <2>4, <2>5 DEF WriterAssumption
  <1> QED BY <1>1, <1>2 DEF Typed

------------------------------------------------------------------------------
(* A write is inside the allocation, what a completed one put there stays,  *)
(* and when nobody writes the vector is initialized up to its length        *)
(* (write_contents, reserve_space, finish).                                 *)
THEOREM WriterIsSafe == ASSUME WriterAssumption PROVE SpecVector => []WriterSafe
  <1>1. InitVector => WInv
    BY WriterInit
  <1>2. WInv /\ [NextVector]_vectorVars => WInv'
    BY WriterNext
  <1>3. WInv => WriterSafe
    BY QuietIsWhole DEF WInv, WriterSafe, Room, InCapacity
  <1> QED BY <1>1, <1>2, <1>3, PTL DEF SpecVector
==============================================================================
