--------------------------- MODULE ParallelVecWriter ---------------------------
(***************************************************************************)
(* The vector many threads append to at once                               *)
(* (egglog/concurrency/src/parallel_writer.rs): a thread claims a range of *)
(* indices with a fetch_add on end_len, makes sure the allocation reaches  *)
(* it, and writes past the length of the vector under a read guard.  Only  *)
(* growing the allocation takes the exclusive lock (ReadOptimizedLock).    *)
(*                                                                         *)
(* `buffer` is the allocation: the items written, Garbage where none was.   *)
(* A reallocation moves the whole old allocation, as RawVec does; the      *)
(* items past the vector's length are in it.                               *)
(*                                                                         *)
(* A write yields as many items as it claimed.  The panic for an iterator  *)
(* of another length is left out: the engine's appends copy slices         *)
(* (write_slice_raw), whose length is what it is.                          *)
(***************************************************************************)
EXTENDS Naturals, FiniteSets, FiniteSetsExt

CONSTANTS
  Writers,
  Garbage,     \* an uninitialized cell
  BaseLen,     \* length of the vector that was wrapped
  MaxLen,      \* bound: items of one write_contents
  MaxWrites     \* bound: writes per thread

WriterAssumption ==
  /\ {BaseLen, MaxLen, MaxWrites} \subseteq Nat
  /\ Garbage \notin {"old"} \cup (Writers \X Nat \X Nat)

VARIABLES
  buffer,       \* the allocation, 0 .. capacity - 1
  len,         \* the length of the vector inside the lock, never its end
  endLen,
  stage,
  start, count, \* the range a thread has claimed
  done,        \* items of it written so far
  writes,       \* per thread
  finished     \* history: completed writes [start, count, by, call]

vectorVars == <<buffer, len, endLen, stage, start, count, done, writes, finished>>

Capacity == Cardinality(DOMAIN buffer)
End(t) == start[t] + count[t]
Item(t, k) == <<t, writes[t], k>>

VectorTyped ==
  /\ len <= endLen
  /\ stage \in [Writers -> {"idle", "fetch", "capacity", "grow", "enter", "write"}]
  /\ \A t \in Writers : done[t] <= count[t]

InitVector ==
  /\ buffer = [i \in 0 .. (BaseLen - 1) |-> "old"]
  /\ len = BaseLen
  /\ endLen = BaseLen
  /\ stage = [t \in Writers |-> "idle"]
  /\ start = [t \in Writers |-> 0]
  /\ count = [t \in Writers |-> 0]
  /\ done = [t \in Writers |-> 0]
  /\ writes = [t \in Writers |-> 0]
  /\ finished = {}

-----------------------------------------------------------------------------
Proceed(t, at) == stage' = [stage EXCEPT ![t] = at]

CallWrite(t) ==
  /\ stage[t] = "idle"
  /\ writes[t] < MaxWrites
  /\ \E n \in 1 .. MaxLen : count' = [count EXCEPT ![t] = n]
  /\ writes' = [writes EXCEPT ![t] = @ + 1]
  /\ done' = [done EXCEPT ![t] = 0]
  /\ Proceed(t, "fetch")
  /\ UNCHANGED <<buffer, len, endLen, start, finished>>

\* reserve_space: the range is claimed first.
FetchAdd(t) ==
  /\ stage[t] = "fetch"
  /\ start' = [start EXCEPT ![t] = endLen]
  /\ endLen' = endLen + count[t]
  /\ Proceed(t, "capacity")
  /\ UNCHANGED <<buffer, len, count, done, writes, finished>>

\* Mutant: the capacity is compared with the start of the range.
ReadCapacityShort(t) ==
  /\ stage[t] = "capacity"
  /\ Proceed(t, IF Capacity < start[t] THEN "grow" ELSE "enter")
  /\ UNCHANGED <<buffer, len, endLen, start, count, done, writes, finished>>

\* The capacity is read under a guard that is dropped again.
ReadCapacity(t) ==
  /\ stage[t] = "capacity"
  /\ Proceed(t, IF Capacity < End(t) THEN "grow" ELSE "enter")
  /\ UNCHANGED <<buffer, len, endLen, start, count, done, writes, finished>>

\* Mutant: the new allocation gets the vector's own elements and no more.
ReallocLength(n) ==
  [i \in 0 .. (n - 1) |-> IF i < len THEN buffer[i] ELSE Garbage]

\* A reallocation to n cells keeps what is in the old ones.
Realloc(n) ==
  [i \in 0 .. (n - 1) |-> IF i < Capacity THEN buffer[i] ELSE Garbage]

Exclusive == \A s \in Writers : stage[s] # "write"

\* Mutant: the allocation is grown with the read guard still alive.
GrowGuarded(t) ==
  /\ stage[t] = "grow"
  /\ \A s \in Writers : stage[s] \notin {"write"} \cup (IF s = t THEN {} ELSE {"grow"})
  /\ buffer' = IF Capacity < End(t) THEN Realloc(2 * End(t)) ELSE buffer
  /\ Proceed(t, "enter")
  /\ UNCHANGED <<len, endLen, start, count, done, writes, finished>>

\* Mutant: reserve_space starts over after growing.
GrowRetries(t) ==
  /\ stage[t] = "grow"
  /\ Exclusive
  /\ buffer' = IF Capacity < End(t) THEN Realloc(2 * End(t)) ELSE buffer
  /\ Proceed(t, "fetch")
  /\ UNCHANGED <<len, endLen, start, count, done, writes, finished>>

\* Another thread may have grown it meanwhile: the test is made again under
\* the lock, and the new capacity doubles the old one at least.
GrowTo(n) == Max({n, 2 * Capacity})

GrowBuffer(t) ==
  /\ stage[t] = "grow"
  /\ Exclusive
  /\ buffer' = IF Capacity < End(t) THEN Realloc(GrowTo(End(t))) ELSE buffer
  /\ Proceed(t, "enter")
  /\ UNCHANGED <<len, endLen, start, count, done, writes, finished>>

\* write_contents_at takes a read guard for the whole write ...
EnterWrite(t) ==
  /\ stage[t] = "enter"
  /\ Proceed(t, "write")
  /\ UNCHANGED <<buffer, len, endLen, start, count, done, writes, finished>>

\* ... and writes the items one at a time.
Write(t) ==
  /\ stage[t] = "write"
  /\ \/ /\ done[t] < count[t]
        /\ buffer' = [buffer EXCEPT ![start[t] + done[t]] = Item(t, done[t])]
        /\ done' = [done EXCEPT ![t] = @ + 1]
        /\ UNCHANGED <<stage, finished>>
     \/ /\ done[t] = count[t]
        /\ finished' = finished \cup
             {[start |-> start[t], count |-> count[t], by |-> t, call |-> writes[t]]}
        /\ Proceed(t, "idle")
        /\ UNCHANGED <<buffer, done>>
  /\ UNCHANGED <<len, endLen, start, count, writes>>

\* take(): through &mut self, so between writes.
TakeVector ==
  /\ \A t \in Writers : stage[t] = "idle"
  /\ endLen > 0
  /\ buffer' = <<>>
  /\ len' = 0
  /\ endLen' = 0
  /\ finished' = {}
  /\ UNCHANGED <<stage, start, count, done, writes>>

StepVector(t) ==
  FetchAdd(t) \/ ReadCapacity(t) \/ GrowBuffer(t) \/ EnterWrite(t) \/ Write(t)

NextVector == TakeVector \/ \E t \in Writers : CallWrite(t) \/ StepVector(t)

SpecVector == InitVector /\ [][NextVector]_vectorVars /\ \A t \in Writers : WF_vectorVars(StepVector(t))

-----------------------------------------------------------------------------
(* A thread that writes writes inside the allocation (the debug_assert of   *)
(* write_contents_at): no growth between its test and its guard shrinks or  *)
(* misses the range it claimed.                                             *)
InCapacity == \A t \in Writers : stage[t] = "write" => End(t) <= Capacity

(* What a completed write put at its indices stays there, through every     *)
(* reallocation and every other write, and the wrapped elements with it.    *)
NoLostWrite ==
  /\ \A i \in 0 .. (len - 1) : buffer[i] = "old"
  /\ \A f \in finished : \A k \in 0 .. (f.count - 1) :
       buffer[f.start + k] = <<f.by, f.call, k>>

(* When nobody writes, the vector finish() and take() return is initialized *)
(* up to the length they give it: claimed ranges leave no gap.              *)
Whole ==
  (\A t \in Writers : stage[t] = "idle")
    => \A i \in 0 .. (endLen - 1) : buffer[i] # Garbage

(* What a write promises of the vector, together.                           *)
WriterSafe == InCapacity /\ NoLostWrite /\ Whole

(* Every write returns: growing waits for writers, and they for nobody.     *)
Writing(t) == t \in Writers /\ stage[t] # "idle"
WritesReturn == \A t \in Writers : Writing(t) ~> ~Writing(t)
=============================================================================
