---------------------------- MODULE Notification ----------------------------
(***************************************************************************)
(* The one-shot latch of egglog/concurrency/src/notification.rs: an atomic *)
(* flag read without the mutex, a mutex and a condition variable.  Threads *)
(* wait, wait with a timeout, and notify, any number of them at once.      *)
(*                                                                         *)
(* A thread in a call is at pc[t]; "sleep" is inside Condvar::wait, which  *)
(* has given the mutex back.  Condition variables may wake for no reason   *)
(* (Spurious), and every wake-up has to take the mutex again.              *)
(***************************************************************************)
EXTENDS Naturals, FiniteSets

CONSTANTS
  Threads,      \* the threads sharing the latch
  NoThread,     \* nobody holds the mutex
  MaxSpurious   \* bound: spurious wake-ups of the condition variable

LatchAssumption == NoThread \notin Threads /\ MaxSpurious \in Nat

VARIABLES
  notified,     \* has_been_notified
  mutex,        \* the holder of `mutex`
  pc,           \* where each thread is in its call
  timed,        \* the call is wait_with_timeout
  answer,       \* what the last call of a thread returned
  spurious      \* wake-ups spent

vars == <<notified, mutex, pc, timed, answer, spurious>>

Waiting == {"check", "lock", "recheck", "doze", "sleep", "relock", "expired"}

TypeOK ==
  /\ notified \in BOOLEAN
  /\ mutex \in Threads \cup {NoThread}
  /\ pc \in [Threads -> Waiting \cup {"idle", "nlock", "store", "wake"}]
  /\ timed \in [Threads -> BOOLEAN]
  /\ answer \in [Threads -> {"none", "yes", "no"}]
  /\ spurious \in 0 .. MaxSpurious

Init ==
  /\ notified = FALSE
  /\ mutex = NoThread
  /\ pc = [t \in Threads |-> "idle"]
  /\ timed = [t \in Threads |-> FALSE]
  /\ answer = [t \in Threads |-> "none"]
  /\ spurious = 0

-----------------------------------------------------------------------------
Goto(t, at) == pc' = [pc EXCEPT ![t] = at]

Return(t, a) == Goto(t, "idle") /\ answer' = [answer EXCEPT ![t] = a]

CallWait(t) ==
  /\ pc[t] = "idle"
  /\ \E b \in BOOLEAN : timed' = [timed EXCEPT ![t] = b]
  /\ answer' = [answer EXCEPT ![t] = "none"]
  /\ Goto(t, "check")
  /\ UNCHANGED <<notified, mutex, spurious>>

\* The check before the mutex is taken.
Check(t) ==
  /\ pc[t] = "check"
  /\ \/ notified /\ Return(t, "yes")
     \/ ~notified /\ Goto(t, "lock") /\ UNCHANGED answer
  /\ UNCHANGED <<notified, mutex, timed, spurious>>

Acquire(t, from, to) ==
  /\ pc[t] = from
  /\ mutex = NoThread
  /\ mutex' = t
  /\ Goto(t, to)
  /\ UNCHANGED <<notified, timed, answer, spurious>>

\* Mutant: the wait goes to sleep without looking at the flag under the mutex.
RecheckBlind(t) ==
  /\ pc[t] = "recheck"
  /\ Goto(t, "doze")
  /\ UNCHANGED <<notified, mutex, timed, answer, spurious>>

\* The loop condition, read under the mutex: return and release it, or wait.
Recheck(t) ==
  /\ pc[t] = "recheck"
  /\ \/ notified /\ Return(t, "yes") /\ mutex' = NoThread
     \/ ~notified /\ Goto(t, "doze") /\ UNCHANGED <<answer, mutex>>
  /\ UNCHANGED <<notified, timed, spurious>>

\* Condvar::wait gives the mutex up and sleeps in one step.
Doze(t) ==
  /\ pc[t] = "doze"
  /\ mutex' = NoThread
  /\ Goto(t, "sleep")
  /\ UNCHANGED <<notified, timed, answer, spurious>>

Spurious(t) ==
  /\ pc[t] = "sleep"
  /\ spurious < MaxSpurious
  /\ spurious' = spurious + 1
  /\ Goto(t, "relock")
  /\ UNCHANGED <<notified, mutex, timed, answer>>

Timeout(t) ==
  /\ pc[t] = "sleep"
  /\ timed[t]
  /\ Goto(t, "expired")
  /\ UNCHANGED <<notified, mutex, timed, answer, spurious>>

\* A timed-out wait takes the mutex once more and answers false without
\* looking at the flag again.
Expire(t) ==
  /\ pc[t] = "expired"
  /\ mutex = NoThread
  /\ Return(t, "no")
  /\ UNCHANGED <<notified, mutex, timed, spurious>>

CallNotify(t) ==
  /\ pc[t] = "idle"
  /\ answer' = [answer EXCEPT ![t] = "none"]
  /\ Goto(t, "nlock")
  /\ UNCHANGED <<notified, mutex, timed, spurious>>

Store(t) ==
  /\ pc[t] = "store"
  /\ notified' = TRUE
  /\ Goto(t, "wake")
  /\ UNCHANGED <<mutex, timed, answer, spurious>>

\* notify_all, and the guard is dropped.
WakeAll(t) ==
  /\ pc[t] = "wake"
  /\ pc' = [s \in Threads |-> CASE s = t -> "idle"
                                [] pc[s] = "sleep" -> "relock"
                                [] OTHER -> pc[s]]
  /\ mutex' = NoThread
  /\ UNCHANGED <<notified, timed, answer, spurious>>

\* Mutant: the flag is set and the sleepers woken without the mutex.
NotifyUnlocked(t) ==
  /\ pc[t] = "nlock"
  /\ Goto(t, "store")
  /\ UNCHANGED <<notified, mutex, timed, answer, spurious>>

\* Mutant: any wake-up is taken for a notification.
RelockTrusts(t) ==
  /\ pc[t] = "relock"
  /\ mutex = NoThread
  /\ Return(t, "yes")
  /\ UNCHANGED <<notified, mutex, timed, spurious>>

NotifyLock(t) == Acquire(t, "nlock", "store")

Relock(t) == Acquire(t, "relock", "recheck")

Step(t) ==
  \/ Check(t) \/ Acquire(t, "lock", "recheck") \/ Recheck(t) \/ Doze(t) \/ Relock(t)
  \/ Expire(t) \/ NotifyLock(t) \/ Store(t) \/ WakeAll(t)

Next == \E t \in Threads :
          \/ CallWait(t) \/ CallNotify(t)
          \/ Spurious(t) \/ Timeout(t)
          \/ Step(t)

Spec == Init /\ [][Next]_vars

\* A thread inside a call runs; a free mutex is eventually given to whoever
\* keeps asking (SF), as the operating system's mutex does.
FairSpec == Spec /\ \A t \in Threads : SF_vars(Step(t))

-----------------------------------------------------------------------------
(* No thread sleeps on a latch that was notified, unless the notifier that  *)
(* will wake it is at notify_all: the flag and the condition variable can   *)
(* not disagree for longer than one critical section.                       *)
NoSleeperMissed ==
  notified /\ (\E t \in Threads : pc[t] = "sleep")
    => \E n \in Threads : pc[n] = "wake"

(* A wait answers true only once the latch was notified, however often the  *)
(* condition variable woke it for nothing.                                  *)
NoFalseWake == \A t \in Threads : answer[t] = "yes" => notified

(* Once the latch is notified every waiting call comes back, the ones that  *)
(* were between the check and the mutex included.                           *)
Unanswered(t) == notified /\ pc[t] \in Waiting
AllWake == \A t \in Threads : Unanswered(t) ~> ~Unanswered(t)
=============================================================================
