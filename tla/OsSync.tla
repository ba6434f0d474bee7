------------------------------- MODULE OsSync -------------------------------
(***************************************************************************)
(* The posix CResource as a lock and as an event (manual reset, the only   *)
(* kind the library makes).                                                *)
(*                                                                         *)
(* A lock is a recursive pthread mutex with two fields of its own, nCount  *)
(* and uOwner, which CScopeLock::IsLocked() reads.  An event is a flag, a  *)
(* condition variable and a lock of its own, cSync: Wait looks at the flag *)
(* without the lock and again with it, then sleeps in                      *)
(* pthread_cond_timedwait, which leaves the mutex but not nCount; Signal   *)
(* sets the flag under the lock, Reset clears it without.                  *)
(*                                                                         *)
(* One resource is modelled, as what it is used for: use is chosen at the  *)
(* start.  What forces fairness (nWaiting, uLastOwner) only delays the     *)
(* attempt to lock; nWaiting is changed without the mutex by any number of *)
(* threads, so whether and how long an attempt is delayed is left open.    *)
(* A thread may be cancelled anywhere: its locks stay locked, or are left  *)
(* if the build unwinds its stack.                                         *)
(***************************************************************************)
EXTENDS Integers, FiniteSets

CONSTANTS Threads,
          None,         \* no thread
          MaxDepth,     \* bound: nested locks of one thread
          MaxCancels    \* bound: threads cancelled

ASSUME NoneIsNoThread == None \notin Threads
ASSUME BoundsAreNat == MaxDepth \in Nat \ {0} /\ MaxCancels \in Nat
ASSUME ThreadsAreFinite == IsFiniteSet(Threads)

VARIABLES
    use,        \* what the resource is: eRtLock or eRtEvent
    holder,     \* the pthread mutex: who has it
    depth,      \* and how many times
    nCount,     \* nCount of the lock's SResourceInfo
    uOwner,     \* its uOwner
    signaled,   \* the event's bSignaled
    pc,         \* where the thread is
    job,        \* what the thread is inside of
    patient,    \* its x_uTimeout is not zero
    res,        \* what the last call returned
    saw,        \* history: the flag was set at some time during the Wait
    kept        \* history: threads that were cancelled and keep the mutex

mutex == <<holder, depth, nCount, uOwner>>
vars == <<use, mutex, signaled, pc, job, patient, res, saw, kept>>

Jobs == {"none", "lock", "wait", "signal"}
Pcs == {"idle", "try", "block", "held", "test", "asleep", "woken", "late",
        "set", "broadcast", "unlock", "cancelled"}
Results == {"none", "success", "timeout", "failed"}

\* Threads that pthread_cond_timedwait has put to sleep and not yet given the
\* mutex back: they are counted in nCount.
Sleepers == {t \in Threads : pc[t] \in {"asleep", "woken", "late"}}
Cancelled == {t \in Threads : pc[t] = "cancelled"}

Init ==
    /\ use \in {"lock", "event"}
    /\ holder = None /\ depth = 0 /\ nCount = 0 /\ uOwner = None
    /\ signaled \in BOOLEAN /\ (use = "lock" => ~signaled)
    /\ pc = [t \in Threads |-> "idle"]
    /\ job = [t \in Threads |-> "none"]
    /\ patient = [t \in Threads |-> FALSE]
    /\ res = [t \in Threads |-> "none"]
    /\ saw = [t \in Threads |-> FALSE]
    /\ kept = {}

Goto(t, from, to) == pc[t] = from /\ pc' = [pc EXCEPT ![t] = to]

\* The call returns r.
Returns(t, r) ==
    /\ res' = [res EXCEPT ![t] = r]
    /\ job' = [job EXCEPT ![t] = "none"]

-----------------------------------------------------------------------------
(* The lock *)

\* A thread starts to wait for the mutex, on its own account or for cSync.
Enter(t, j, p) ==
    /\ pc' = [pc EXCEPT ![t] = "try"]
    /\ job' = [job EXCEPT ![t] = j]
    /\ patient' = [patient EXCEPT ![t] = p]
    /\ res' = [res EXCEPT ![t] = "none"]

LockCall(t, p) ==
    /\ use = "lock"
    /\ pc[t] = "idle" \/ (pc[t] = "held" /\ depth < MaxDepth)
    /\ Enter(t, "lock", p)
    /\ UNCHANGED <<use, mutex, signaled, saw, kept>>

\* Where the thread goes on once it has the mutex.
Inside(t) == CASE job[t] = "lock" -> "held"
               [] job[t] = "wait" -> "test"
               [] job[t] = "signal" -> "set"

\* The mutex is taken, and with it the count and the owner are set.
Acquire(t) ==
    /\ holder \in {None, t}
    /\ holder' = t /\ depth' = depth + 1
    /\ nCount' = nCount + 1 /\ uOwner' = t
    /\ pc' = [pc EXCEPT ![t] = Inside(t)]
    /\ IF job[t] = "lock" THEN Returns(t, "success") ELSE UNCHANGED <<job, res>>
    /\ UNCHANGED <<use, signaled, patient, saw, kept>>

\* The wait for the mutex ends without it.  Within an event's Wait that is a
\* failure, within Signal a timeout.  A thread that had the lock still has it.
GiveUp(t) ==
    /\ pc' = [pc EXCEPT ![t] = IF holder = t THEN "held" ELSE "idle"]
    /\ Returns(t, IF job[t] = "wait" THEN "failed" ELSE "timeout")
    /\ UNCHANGED <<use, mutex, signaled, patient, saw, kept>>

\* pthread_mutex_trylock.
TryLock(t) == pc[t] = "try" /\ Acquire(t)

Refused(t) ==
    /\ pc[t] = "try" /\ holder \notin {None, t}
    /\ ~patient[t]
    /\ GiveUp(t)

Block(t) ==
    /\ holder \notin {None, t}
    /\ patient[t]
    /\ Goto(t, "try", "block")
    /\ UNCHANGED <<use, mutex, signaled, job, patient, res, saw, kept>>

\* pthread_mutex_timedlock gets the mutex, or its time is over.
BlockEnds(t) == pc[t] = "block" /\ Acquire(t)
BlockTimesOut(t) == pc[t] = "block" /\ GiveUp(t)

\* Mutant: the owner is cleared whatever the count is.
LeaveClears(t) ==
    /\ holder = t
    /\ depth' = depth - 1
    /\ holder' = IF depth = 1 THEN None ELSE t
    /\ nCount' = nCount - 1
    /\ uOwner' = None

\* Reset(): one level less, and nobody's at the last.  A trylock proves that the
\* caller may.
Leave(t) ==
    /\ holder = t
    /\ depth' = depth - 1
    /\ holder' = IF depth = 1 THEN None ELSE t
    /\ nCount' = nCount - 1
    /\ uOwner' = IF nCount = 1 THEN None ELSE uOwner

UnlockCall(t) ==
    /\ pc[t] = "held"
    /\ Leave(t)
    /\ pc' = [pc EXCEPT ![t] = IF depth = 1 THEN "idle" ELSE "held"]
    /\ UNCHANGED <<use, signaled, job, patient, res, saw, kept>>

-----------------------------------------------------------------------------
(* The event *)

\* Out for free if the flag is set, or if the caller does not want to wait.
WaitCall(t, p) ==
    /\ use = "event" /\ pc[t] = "idle"
    /\ saw' = [saw EXCEPT ![t] = signaled]
    /\ IF signaled \/ ~p
         THEN Returns(t, IF signaled THEN "success" ELSE "timeout") /\ UNCHANGED <<pc, patient>>
         ELSE Enter(t, "wait", p)
    /\ UNCHANGED <<use, mutex, signaled, kept>>

SignalCall(t) ==
    /\ use = "event" /\ pc[t] = "idle"
    /\ Enter(t, "signal", TRUE)
    /\ UNCHANGED <<use, mutex, signaled, saw, kept>>

ResetCall(t) ==
    /\ use = "event" /\ pc[t] = "idle"
    /\ signaled' = FALSE
    /\ UNCHANGED <<use, mutex, pc, job, patient, res, saw, kept>>

\* Mutant: the flag is not looked at again under the lock.
TestNotAgain(t) ==
    /\ Goto(t, "test", "asleep")
    /\ holder' = None /\ depth' = 0
    /\ UNCHANGED <<use, nCount, uOwner, signaled, job, patient, res, saw, kept>>

\* Under the lock: IsLocked(), the flag once more, and to sleep.  The mutex is
\* free then, nCount and uOwner stay.
Test(t) ==
    /\ IF uOwner = t /\ ~signaled
         THEN /\ Goto(t, "test", "asleep")
              /\ holder' = None /\ depth' = 0
              /\ UNCHANGED <<nCount, uOwner, job, res>>
         ELSE /\ Goto(t, "test", "unlock")
              /\ Returns(t, IF uOwner = t THEN "success" ELSE "failed")
              /\ UNCHANGED mutex
    /\ UNCHANGED <<use, signaled, patient, saw, kept>>

\* pthread_cond_timedwait may wake for nothing, and when its time is over.
WakeForNothing(t) ==
    /\ Goto(t, "asleep", "woken")
    /\ UNCHANGED <<use, mutex, signaled, job, patient, res, saw, kept>>

SleepTimesOut(t) ==
    /\ Goto(t, "asleep", "late")
    /\ UNCHANGED <<use, mutex, signaled, job, patient, res, saw, kept>>

\* Mutant: whoever is woken takes the event for signalled.
RelockTrusts(t) ==
    /\ pc[t] \in {"woken", "late"} /\ holder = None
    /\ holder' = t /\ depth' = 1
    /\ pc' = [pc EXCEPT ![t] = "unlock"]
    /\ Returns(t, IF pc[t] = "woken" THEN "success" ELSE "timeout")
    /\ UNCHANGED <<use, nCount, uOwner, signaled, patient, saw, kept>>

\* It has the mutex again before it returns, however long that takes.  Whoever
\* was woken looks at the flag, whoever is late does not.
Relock(t) ==
    /\ pc[t] \in {"woken", "late"} /\ holder = None
    /\ holder' = t /\ depth' = 1
    /\ pc' = [pc EXCEPT ![t] = "unlock"]
    /\ Returns(t, IF pc[t] = "woken" /\ signaled THEN "success" ELSE "timeout")
    /\ UNCHANGED <<use, nCount, uOwner, signaled, patient, saw, kept>>

\* Signal: the flag, then the threads that sleep, both under the lock.
SetFlag(t) ==
    /\ IF uOwner = t
         THEN /\ Goto(t, "set", "broadcast")
              /\ signaled' = TRUE
              /\ saw' = [u \in Threads |-> saw[u] \/ job[u] = "wait" \/ u = t]
              /\ UNCHANGED <<job, res>>
         ELSE /\ Goto(t, "set", "unlock")
              /\ Returns(t, "timeout")
              /\ UNCHANGED <<signaled, saw>>
    /\ UNCHANGED <<use, mutex, patient, kept>>

Broadcast(t) ==
    /\ pc[t] = "broadcast"
    /\ pc' = [u \in Threads |-> IF u = t THEN "unlock"
                                ELSE IF pc[u] = "asleep" THEN "woken" ELSE pc[u]]
    /\ Returns(t, "success")
    /\ UNCHANGED <<use, mutex, signaled, patient, saw, kept>>

\* Mutant: the call returns without it.
ScopeForgets(t) ==
    /\ Goto(t, "unlock", "idle")
    /\ UNCHANGED <<use, mutex, signaled, job, patient, res, saw, kept>>

\* CScopeLock's destructor.
ScopeEnds(t) ==
    /\ Goto(t, "unlock", "idle")
    /\ Leave(t)
    /\ UNCHANGED <<use, signaled, job, patient, res, saw, kept>>

-----------------------------------------------------------------------------
(* pthread_cancel *)

CanCancel(t) == pc[t] # "cancelled" /\ Cardinality(Cancelled) < MaxCancels

\* The thread is gone with the mutex; one that sleeps takes it first.
CancelKeeps(t) ==
    /\ CanCancel(t)
    /\ holder = t \/ (t \in Sleepers /\ holder = None)
    /\ holder' = t /\ depth' = IF holder = t THEN depth ELSE 1
    /\ pc' = [pc EXCEPT ![t] = "cancelled"]
    /\ job' = [job EXCEPT ![t] = "none"]
    /\ kept' = kept \cup {t}
    /\ UNCHANGED <<use, nCount, uOwner, signaled, patient, res, saw>>

\* The thread is gone, and its CScopeLocks have been left on the way.
CancelUnwinds(t) ==
    /\ CanCancel(t)
    /\ LET levels == IF holder = t THEN depth ELSE IF t \in Sleepers THEN 1 ELSE 0
       IN /\ t \in Sleepers => holder = None
          /\ nCount' = nCount - levels
          /\ uOwner' = IF levels > 0 /\ nCount = levels THEN None ELSE uOwner
          /\ holder' = IF holder = t THEN None ELSE holder
          /\ depth' = IF holder = t THEN 0 ELSE depth
    /\ pc' = [pc EXCEPT ![t] = "cancelled"]
    /\ job' = [job EXCEPT ![t] = "none"]
    /\ UNCHANGED <<use, signaled, patient, res, saw, kept>>

-----------------------------------------------------------------------------
Step(t) ==
    \/ TryLock(t) \/ Refused(t) \/ Block(t) \/ BlockTimesOut(t)
    \/ UnlockCall(t)
    \/ Test(t) \/ SleepTimesOut(t)
    \/ SetFlag(t) \/ Broadcast(t) \/ ScopeEnds(t)

\* What waits for the mutex to be free.
Retake(t) == BlockEnds(t) \/ Relock(t)

Call(t) ==
    \/ \E p \in BOOLEAN : LockCall(t, p) \/ WaitCall(t, p)
    \/ SignalCall(t) \/ ResetCall(t)

Cancel(t) == CancelKeeps(t) \/ CancelUnwinds(t)

\* Threads are gone or wait for a mutex that is gone with one of them.
Stuck ==
    /\ \A t \in Threads : t \in Cancelled \/ (t \in Sleepers /\ holder \in kept)
    /\ Cancelled # {}
    /\ UNCHANGED vars

Next ==
    \/ \E t \in Threads : Step(t) \/ Retake(t) \/ Call(t) \/ WakeForNothing(t) \/ Cancel(t)
    \/ Stuck

Spec == Init /\ [][Next]_vars

\* A thread goes on, holders leave their locks, timed waits end, and a thread
\* that waits for a mutex that is freed again and again gets it in the end.
FairSpec == Spec /\ \A t \in Threads : WF_vars(Step(t)) /\ SF_vars(Relock(t))
-----------------------------------------------------------------------------
(* Properties *)

\* Every variable has its type.
TypeOK ==
    /\ use \in {"lock", "event"}
    /\ holder \in Threads \cup {None} /\ depth \in 0 .. MaxDepth
    /\ nCount \in Nat /\ uOwner \in Threads \cup {None}
    /\ signaled \in BOOLEAN
    /\ pc \in [Threads -> Pcs] /\ job \in [Threads -> Jobs]
    /\ patient \in [Threads -> BOOLEAN]
    /\ res \in [Threads -> Results]
    /\ saw \in [Threads -> BOOLEAN]
    /\ kept \subseteq Threads

\* nCount is what the holder has locked and what sleeps in the event, so that
\* the owner is forgotten by the last of them and not before; the owner of a
\* lock is its holder; and whoever is inside finds IsLocked() true.
OwnerIsTrue ==
    /\ nCount = depth + Cardinality(Sleepers)
    /\ uOwner = None <=> nCount = 0
    /\ use = "lock" => uOwner = holder
    /\ \A t \in Threads : pc[t] \in {"held", "test", "set", "broadcast"} => uOwner = t

\* Wait returns success only if the flag was set at some time during the call,
\* although condition variables wake for nothing and Reset takes no lock.
SuccessMeansSignalled ==
    \A t \in Threads : use = "event" /\ res[t] = "success" => saw[t]

\* A thread sleeps with the flag set only while the signaller that set it is
\* about to wake it: no wake-up is lost between the test and the sleep.
NoLostWakeup ==
    signaled /\ (\E t \in Threads : pc[t] = "asleep") =>
        (\E s \in Threads : pc[s] = "broadcast") \/ Cancelled # {}

\* A call ends, by success or by its time, unless a cancelled thread has left
\* with the event's mutex: a wait cannot return without that.
CallsEnd == \A t \in Threads :
    job[t] # "none" ~> job[t] = "none" \/ kept # {}

=============================================================================
