---------------------------- MODULE OsSyncProofs ----------------------------
(***************************************************************************)
(* Proofs about OsSync, for any number of threads, cancelled ones among    *)
(* them, and any depth of locking.                                         *)
(***************************************************************************)
EXTENDS OsSync, FiniteSetTheorems, TLAPS

\* The types of all but the two counts of the lock.
PlainOK ==
    /\ use \in {"lock", "event"}
    /\ holder \in Threads \cup {None} /\ uOwner \in Threads \cup {None}
    /\ signaled \in BOOLEAN
    /\ pc \in [Threads -> Pcs] /\ job \in [Threads -> Jobs]
    /\ patient \in [Threads -> BOOLEAN]
    /\ res \in [Threads -> Results]
    /\ saw \in [Threads -> BOOLEAN]
    /\ kept \subseteq Threads

\* What a thread is inside of, by where it is.
JobsFit == \A t \in Threads :
    /\ use = "lock" => job[t] \in {"none", "lock"} /\ pc[t] \in {"idle", "try", "block", "held", "cancelled"}
    /\ use = "event" => job[t] # "lock" /\ pc[t] # "held"
    /\ pc[t] \in {"try", "block"} => job[t] # "none"
    /\ pc[t] \in {"test", "asleep", "woken", "late"} => job[t] = "wait"
    /\ pc[t] \in {"set", "broadcast"} => job[t] = "signal"
    /\ pc[t] \in {"idle", "held", "unlock", "cancelled"} => job[t] = "none"

\* Who has the mutex, and how many times.
HolderFits ==
    /\ depth \in 0 .. MaxDepth /\ (use = "event" => depth <= 1)
    /\ holder = None <=> depth = 0
    /\ \A t \in Threads : pc[t] \in {"held", "test", "set", "broadcast", "unlock"} => holder = t
    /\ \A t \in Threads : holder = t =>
          \/ pc[t] \in {"held", "test", "set", "broadcast", "unlock"}
          \/ pc[t] \in {"try", "block"} /\ job[t] = "lock" /\ depth < MaxDepth
          \/ t \in kept /\ pc[t] = "cancelled"

\* A flag that is set has been seen by whoever is in Wait, and by its signaller.
SawIt == \A t \in Threads :
    /\ job[t] = "wait" /\ signaled => saw[t]
    /\ pc[t] = "broadcast" => saw[t]

\* The inductive invariant.
IInv ==
    /\ PlainOK /\ JobsFit /\ HolderFits /\ OwnerIsTrue
    /\ SawIt /\ SuccessMeansSignalled /\ NoLostWakeup

USE NoneIsNoThread, BoundsAreNat, ThreadsAreFinite

-----------------------------------------------------------------------------
(* Counting the threads that sleep. *)

LEMMA SleepersCount ==
    /\ IsFiniteSet(Sleepers) /\ Cardinality(Sleepers) \in Nat
    /\ Cardinality(Sleepers) = 0 => Sleepers = {}
<1>1. IsFiniteSet(Sleepers)
  BY FS_Subset DEF Sleepers
<1> QED
  BY <1>1, FS_CardinalityType, FS_EmptySet

LEMMA OneMore ==
    ASSUME NEW t \in Threads, t \notin Sleepers, Sleepers' = Sleepers \cup {t}
    PROVE  Cardinality(Sleepers') = Cardinality(Sleepers) + 1
BY SleepersCount, FS_AddElement

LEMMA OneLess ==
    ASSUME NEW t \in Sleepers, Sleepers' = Sleepers \ {t}
    PROVE  Cardinality(Sleepers') = Cardinality(Sleepers) - 1 /\ Cardinality(Sleepers) >= 1
<1>1. Cardinality(Sleepers \ {t}) = Cardinality(Sleepers) - 1
  BY SleepersCount, FS_RemoveElement
<1>2. IsFiniteSet(Sleepers \ {t}) /\ Cardinality(Sleepers \ {t}) \in Nat
  BY SleepersCount, FS_Subset, FS_CardinalityType
<1> QED
  BY <1>1, <1>2, SleepersCount

-----------------------------------------------------------------------------
(* Taking the mutex. *)

Takes(t) ==
    /\ pc[t] \in {"try", "block"} /\ job[t] \in {"lock", "wait", "signal"}
    /\ holder \in {None, t} /\ holder' = t /\ depth' = depth + 1
    /\ nCount' = nCount + 1 /\ uOwner' = t
    /\ job[t] = "lock" =>
          /\ pc' = [pc EXCEPT ![t] = "held"] /\ job' = [job EXCEPT ![t] = "none"]
          /\ res' = [res EXCEPT ![t] = "success"]
    /\ job[t] = "wait" => pc' = [pc EXCEPT ![t] = "test"] /\ UNCHANGED <<job, res>>
    /\ job[t] = "signal" => pc' = [pc EXCEPT ![t] = "set"] /\ UNCHANGED <<job, res>>
    /\ UNCHANGED <<use, signaled, patient, saw, kept>>

LEMMA AcquireTakes ==
    ASSUME IInv, NEW t \in Threads, TryLock(t) \/ BlockEnds(t)
    PROVE  Takes(t)
<1>1. pc[t] \in {"try", "block"} /\ Acquire(t)
  BY DEF TryLock, BlockEnds
<1>2. job[t] \in {"lock", "wait", "signal"}
  BY <1>1 DEF IInv, JobsFit, PlainOK, Jobs
<1>3. /\ job[t] = "lock" => Inside(t) = "held"
      /\ job[t] = "wait" => Inside(t) = "test"
      /\ job[t] = "signal" => Inside(t) = "set"
  BY DEF Inside
<1> QED
  BY <1>1, <1>2, <1>3 DEF Acquire, Returns, Takes

\* The plain types are kept.
LEMMA PlainStep == ASSUME IInv, [Next]_vars PROVE PlainOK'
<1> USE DEF IInv, PlainOK
<1>1. CASE UNCHANGED vars
  BY <1>1 DEF vars, mutex, Pcs, Jobs, Results, Inside
<1>2. ASSUME Stuck PROVE PlainOK'
  BY <1>2 DEF Stuck, vars, mutex, Pcs, Jobs, Results, Inside
<1>3. ASSUME NEW t \in Threads, TryLock(t) PROVE PlainOK'
  <2>1. Takes(t)
    BY <1>3, AcquireTakes
  <2>2. CASE job[t] = "lock"
    BY <2>1, <2>2 DEF Takes, Pcs, Jobs, Results
  <2>3. CASE job[t] = "wait"
    BY <2>1, <2>3 DEF Takes, Pcs, Jobs, Results
  <2>4. CASE job[t] = "signal"
    BY <2>1, <2>4 DEF Takes, Pcs, Jobs, Results
  <2> QED
    BY <2>1, <2>2, <2>3, <2>4 DEF Takes
<1>4. ASSUME NEW t \in Threads, Refused(t) PROVE PlainOK'
  BY <1>4 DEF Refused, GiveUp, Returns, mutex, Pcs, Jobs, Results, Inside
<1>5. ASSUME NEW t \in Threads, Block(t) PROVE PlainOK'
  BY <1>5 DEF Block, Goto, mutex, Pcs, Jobs, Results, Inside
<1>6. ASSUME NEW t \in Threads, BlockTimesOut(t) PROVE PlainOK'
  BY <1>6 DEF BlockTimesOut, GiveUp, Returns, mutex, Pcs, Jobs, Results, Inside
<1>7. ASSUME NEW t \in Threads, UnlockCall(t) PROVE PlainOK'
  BY <1>7 DEF UnlockCall, Leave, Pcs, Jobs, Results, Inside
<1>8. ASSUME NEW t \in Threads, Test(t) PROVE PlainOK'
  BY <1>8 DEF Test, Goto, Returns, mutex, Pcs, Jobs, Results, Inside
<1>9. ASSUME NEW t \in Threads, SleepTimesOut(t) PROVE PlainOK'
  BY <1>9 DEF SleepTimesOut, Goto, mutex, Pcs, Jobs, Results, Inside
<1>10. ASSUME NEW t \in Threads, SetFlag(t) PROVE PlainOK'
  BY <1>10 DEF SetFlag, Goto, Returns, mutex, Pcs, Jobs, Results, Inside
<1>11. ASSUME NEW t \in Threads, Broadcast(t) PROVE PlainOK'
  BY <1>11 DEF Broadcast, Returns, mutex, Pcs, Jobs, Results, Inside
<1>12. ASSUME NEW t \in Threads, ScopeEnds(t) PROVE PlainOK'
  BY <1>12 DEF ScopeEnds, Goto, Leave, Pcs, Jobs, Results, Inside
<1>13. ASSUME NEW t \in Threads, BlockEnds(t) PROVE PlainOK'
  <2>1. Takes(t)
    BY <1>13, AcquireTakes
  <2>2. CASE job[t] = "lock"
    BY <2>1, <2>2 DEF Takes, Pcs, Jobs, Results
  <2>3. CASE job[t] = "wait"
    BY <2>1, <2>3 DEF Takes, Pcs, Jobs, Results
  <2>4. CASE job[t] = "signal"
    BY <2>1, <2>4 DEF Takes, Pcs, Jobs, Results
  <2> QED
    BY <2>1, <2>2, <2>3, <2>4 DEF Takes
<1>14. ASSUME NEW t \in Threads, Relock(t) PROVE PlainOK'
  BY <1>14 DEF Relock, Returns, Pcs, Jobs, Results, Inside
<1>15. ASSUME NEW t \in Threads, SignalCall(t) PROVE PlainOK'
  BY <1>15 DEF SignalCall, Enter, mutex, Pcs, Jobs, Results, Inside
<1>16. ASSUME NEW t \in Threads, ResetCall(t) PROVE PlainOK'
  BY <1>16 DEF ResetCall, mutex, Pcs, Jobs, Results, Inside
<1>17. ASSUME NEW t \in Threads, WakeForNothing(t) PROVE PlainOK'
  BY <1>17 DEF WakeForNothing, Goto, mutex, Pcs, Jobs, Results, Inside
<1>18. ASSUME NEW t \in Threads, CancelKeeps(t) PROVE PlainOK'
  BY <1>18 DEF CancelKeeps, CanCancel, Pcs, Jobs, Results, Inside
<1>19. ASSUME NEW t \in Threads, CancelUnwinds(t) PROVE PlainOK'
  BY <1>19 DEF CancelUnwinds, CanCancel, Pcs, Jobs, Results, Inside
<1>20. ASSUME NEW t \in Threads, NEW p \in BOOLEAN, LockCall(t, p) PROVE PlainOK'
  BY <1>20 DEF LockCall, Enter, mutex, Pcs, Jobs, Results, Inside
<1>21. ASSUME NEW t \in Threads, NEW p \in BOOLEAN, WaitCall(t, p) PROVE PlainOK'
  BY <1>21 DEF WaitCall, Enter, Returns, mutex, Pcs, Jobs, Results, Inside
<1> HIDE DEF IInv, PlainOK
<1> QED
  BY <1>1, <1>2, <1>3, <1>4, <1>5, <1>6, <1>7, <1>8, <1>9, <1>10, <1>11, <1>12,
     <1>13, <1>14, <1>15, <1>16, <1>17, <1>18, <1>19, <1>20, <1>21
  DEF Next, Step, Retake, Call, Cancel

\* Places and jobs fit.
LEMMA JobStep == ASSUME IInv, [Next]_vars PROVE JobsFit'
<1> USE DEF IInv, PlainOK, JobsFit
<1>1. CASE UNCHANGED vars
  BY <1>1 DEF vars, mutex, Inside, Pcs, Jobs
<1>2. ASSUME Stuck PROVE JobsFit'
  BY <1>2 DEF Stuck, vars, mutex, Inside, Pcs, Jobs
<1>3. ASSUME NEW t \in Threads, TryLock(t) PROVE JobsFit'
  <2>1. Takes(t)
    BY <1>3, AcquireTakes
  <2>2. CASE job[t] = "lock"
    BY <2>1, <2>2 DEF Takes
  <2>3. CASE job[t] = "wait"
    BY <2>1, <2>3 DEF Takes
  <2>4. CASE job[t] = "signal"
    BY <2>1, <2>4 DEF Takes
  <2> QED
    BY <2>1, <2>2, <2>3, <2>4 DEF Takes
<1>4. ASSUME NEW t \in Threads, Refused(t) PROVE JobsFit'
  BY <1>4 DEF Refused, GiveUp, Returns, mutex, Inside, Pcs, Jobs
<1>5. ASSUME NEW t \in Threads, Block(t) PROVE JobsFit'
  BY <1>5 DEF Block, Goto, mutex, Inside, Pcs, Jobs
<1>6. ASSUME NEW t \in Threads, BlockTimesOut(t) PROVE JobsFit'
  <2>1. pc[t] = "block" /\ job' = [job EXCEPT ![t] = "none"] /\ use' = use
        /\ pc' = [pc EXCEPT ![t] = IF holder = t THEN "held" ELSE "idle"]
    BY <1>6 DEF BlockTimesOut, GiveUp, Returns
  <2>2. holder = t => use = "lock"
    BY <2>1 DEF HolderFits
  <2>3. CASE holder = t
    BY <2>1, <2>2, <2>3
  <2>4. CASE holder # t
    BY <2>1, <2>4
  <2> QED
    BY <2>3, <2>4
<1>7. ASSUME NEW t \in Threads, UnlockCall(t) PROVE JobsFit'
  BY <1>7 DEF UnlockCall, Leave, Inside, Pcs, Jobs
<1>8. ASSUME NEW t \in Threads, Test(t) PROVE JobsFit'
  BY <1>8 DEF Test, Goto, Returns, mutex, Inside, Pcs, Jobs
<1>9. ASSUME NEW t \in Threads, SleepTimesOut(t) PROVE JobsFit'
  BY <1>9 DEF SleepTimesOut, Goto, mutex, Inside, Pcs, Jobs
<1>10. ASSUME NEW t \in Threads, SetFlag(t) PROVE JobsFit'
  BY <1>10 DEF SetFlag, Goto, Returns, mutex, Inside, Pcs, Jobs
<1>11. ASSUME NEW t \in Threads, Broadcast(t) PROVE JobsFit'
  BY <1>11 DEF Broadcast, Returns, mutex, Inside, Pcs, Jobs
<1>12. ASSUME NEW t \in Threads, ScopeEnds(t) PROVE JobsFit'
  BY <1>12 DEF ScopeEnds, Goto, Leave, Inside, Pcs, Jobs
<1>13. ASSUME NEW t \in Threads, BlockEnds(t) PROVE JobsFit'
  <2>1. Takes(t)
    BY <1>13, AcquireTakes
  <2>2. CASE job[t] = "lock"
    BY <2>1, <2>2 DEF Takes
  <2>3. CASE job[t] = "wait"
    BY <2>1, <2>3 DEF Takes
  <2>4. CASE job[t] = "signal"
    BY <2>1, <2>4 DEF Takes
  <2> QED
    BY <2>1, <2>2, <2>3, <2>4 DEF Takes
<1>14. ASSUME NEW t \in Threads, Relock(t) PROVE JobsFit'
  BY <1>14 DEF Relock, Returns, Inside, Pcs, Jobs
<1>15. ASSUME NEW t \in Threads, SignalCall(t) PROVE JobsFit'
  BY <1>15 DEF SignalCall, Enter, mutex, Inside, Pcs, Jobs
<1>16. ASSUME NEW t \in Threads, ResetCall(t) PROVE JobsFit'
  BY <1>16 DEF ResetCall, mutex, Inside, Pcs, Jobs
<1>17. ASSUME NEW t \in Threads, WakeForNothing(t) PROVE JobsFit'
  BY <1>17 DEF WakeForNothing, Goto, mutex, Inside, Pcs, Jobs
<1>18. ASSUME NEW t \in Threads, CancelKeeps(t) PROVE JobsFit'
  BY <1>18 DEF CancelKeeps, CanCancel, Inside, Pcs, Jobs
<1>19. ASSUME NEW t \in Threads, CancelUnwinds(t) PROVE JobsFit'
  BY <1>19 DEF CancelUnwinds, CanCancel, Inside, Pcs, Jobs
<1>20. ASSUME NEW t \in Threads, NEW p \in BOOLEAN, LockCall(t, p) PROVE JobsFit'
  BY <1>20 DEF LockCall, Enter, mutex, Inside, Pcs, Jobs
<1>21. ASSUME NEW t \in Threads, NEW p \in BOOLEAN, WaitCall(t, p) PROVE JobsFit'
  BY <1>21 DEF WaitCall, Enter, Returns, mutex, Inside, Pcs, Jobs
<1> HIDE DEF IInv, PlainOK, JobsFit
<1> QED
  BY <1>1, <1>2, <1>3, <1>4, <1>5, <1>6, <1>7, <1>8, <1>9, <1>10, <1>11, <1>12,
     <1>13, <1>14, <1>15, <1>16, <1>17, <1>18, <1>19, <1>20, <1>21
  DEF Next, Step, Retake, Call, Cancel

\* The mutex is where its holder is.
LEMMA HolderStep == ASSUME IInv, [Next]_vars PROVE HolderFits'
<1> USE DEF IInv, PlainOK, HolderFits, JobsFit
<1>1. CASE UNCHANGED vars
  BY <1>1 DEF vars, mutex, Inside
<1>2. ASSUME Stuck PROVE HolderFits'
  BY <1>2 DEF Stuck, vars, mutex, Inside
<1>3. ASSUME NEW t \in Threads, TryLock(t) PROVE HolderFits'
  <2>1. Takes(t)
    BY <1>3, AcquireTakes
  <2>2. CASE job[t] = "lock"
    BY <2>1, <2>2 DEF Takes
  <2>3. CASE job[t] = "wait"
    BY <2>1, <2>3 DEF Takes
  <2>4. CASE job[t] = "signal"
    BY <2>1, <2>4 DEF Takes
  <2> QED
    BY <2>1, <2>2, <2>3, <2>4 DEF Takes
<1>4. ASSUME NEW t \in Threads, Refused(t) PROVE HolderFits'
  BY <1>4 DEF Refused, GiveUp, Returns, mutex, Inside
<1>5. ASSUME NEW t \in Threads, Block(t) PROVE HolderFits'
  BY <1>5 DEF Block, Goto, mutex, Inside
<1>6. ASSUME NEW t \in Threads, BlockTimesOut(t) PROVE HolderFits'
  BY <1>6 DEF BlockTimesOut, GiveUp, Returns, mutex, Inside
<1>7. ASSUME NEW t \in Threads, UnlockCall(t) PROVE HolderFits'
  BY <1>7 DEF UnlockCall, Leave, Inside
<1>8. ASSUME NEW t \in Threads, Test(t) PROVE HolderFits'
  BY <1>8 DEF Test, Goto, Returns, mutex, Inside
<1>9. ASSUME NEW t \in Threads, SleepTimesOut(t) PROVE HolderFits'
  BY <1>9 DEF SleepTimesOut, Goto, mutex, Inside
<1>10. ASSUME NEW t \in Threads, SetFlag(t) PROVE HolderFits'
  BY <1>10 DEF SetFlag, Goto, Returns, mutex, Inside
<1>11. ASSUME NEW t \in Threads, Broadcast(t) PROVE HolderFits'
  BY <1>11 DEF Broadcast, Returns, mutex, Inside
<1>12. ASSUME NEW t \in Threads, ScopeEnds(t) PROVE HolderFits'
  BY <1>12 DEF ScopeEnds, Goto, Leave, Inside
<1>13. ASSUME NEW t \in Threads, BlockEnds(t) PROVE HolderFits'
  <2>1. Takes(t)
    BY <1>13, AcquireTakes
  <2>2. CASE job[t] = "lock"
    BY <2>1, <2>2 DEF Takes
  <2>3. CASE job[t] = "wait"
    BY <2>1, <2>3 DEF Takes
  <2>4. CASE job[t] = "signal"
    BY <2>1, <2>4 DEF Takes
  <2> QED
    BY <2>1, <2>2, <2>3, <2>4 DEF Takes
<1>14. ASSUME NEW t \in Threads, Relock(t) PROVE HolderFits'
  BY <1>14 DEF Relock, Returns, Inside
<1>15. ASSUME NEW t \in Threads, SignalCall(t) PROVE HolderFits'
  BY <1>15 DEF SignalCall, Enter, mutex, Inside
<1>16. ASSUME NEW t \in Threads, ResetCall(t) PROVE HolderFits'
  BY <1>16 DEF ResetCall, mutex, Inside
<1>17. ASSUME NEW t \in Threads, WakeForNothing(t) PROVE HolderFits'
  BY <1>17 DEF WakeForNothing, Goto, mutex, Inside
<1>18. ASSUME NEW t \in Threads, CancelKeeps(t) PROVE HolderFits'
  BY <1>18 DEF CancelKeeps, CanCancel, Inside
<1>19. ASSUME NEW t \in Threads, CancelUnwinds(t) PROVE HolderFits'
  BY <1>19 DEF CancelUnwinds, CanCancel, Inside
<1>20. ASSUME NEW t \in Threads, NEW p \in BOOLEAN, LockCall(t, p) PROVE HolderFits'
  BY <1>20 DEF LockCall, Enter, mutex, Inside
<1>21. ASSUME NEW t \in Threads, NEW p \in BOOLEAN, WaitCall(t, p) PROVE HolderFits'
  BY <1>21 DEF WaitCall, Enter, Returns, mutex, Inside
<1> HIDE DEF IInv, PlainOK, HolderFits, JobsFit
<1> QED
  BY <1>1, <1>2, <1>3, <1>4, <1>5, <1>6, <1>7, <1>8, <1>9, <1>10, <1>11, <1>12,
     <1>13, <1>14, <1>15, <1>16, <1>17, <1>18, <1>19, <1>20, <1>21
  DEF Next, Step, Retake, Call, Cancel

\* Count and owner are true.
LEMMA OwnerStep == ASSUME IInv, [Next]_vars PROVE OwnerIsTrue'
<1> USE DEF IInv
<1>1. CASE UNCHANGED vars
  <2>1. Sleepers' = Sleepers
    BY <1>1 DEF vars, Sleepers
  <2>2. Cardinality(Sleepers') = Cardinality(Sleepers)
    BY <2>1
  <2> QED
    BY <1>1, <2>2 DEF vars, mutex, OwnerIsTrue
<1>2. ASSUME Stuck PROVE OwnerIsTrue'
  <2>1. Sleepers' = Sleepers
    BY <1>2 DEF Stuck, vars, mutex, Sleepers, PlainOK, JobsFit
  <2>2. Cardinality(Sleepers') = Cardinality(Sleepers)
    BY <2>1
  <2> QED
    BY <1>2, <2>2, SleepersCount DEF Stuck, vars, mutex, OwnerIsTrue, HolderFits, PlainOK, JobsFit
<1>3. ASSUME NEW t \in Threads, TryLock(t) PROVE OwnerIsTrue'
  <2>1. Takes(t)
    BY <1>3, AcquireTakes
  <2>2. Sleepers' = Sleepers
    BY <2>1 DEF Takes, Sleepers, PlainOK, JobsFit
  <2>3. Cardinality(Sleepers') = Cardinality(Sleepers)
    BY <2>2
  <2>4. nCount' = depth' + Cardinality(Sleepers') /\ nCount' # 0 /\ uOwner' = t /\ holder' = t /\ t # None
    BY <2>1, <2>3, SleepersCount DEF Takes, OwnerIsTrue, HolderFits
  <2>5. \A u \in Threads : pc'[u] \in {"held", "test", "set", "broadcast"} => u = t
    BY <2>1 DEF Takes, HolderFits, PlainOK
  <2> QED
    BY <2>4, <2>5 DEF OwnerIsTrue
<1>4. ASSUME NEW t \in Threads, Refused(t) PROVE OwnerIsTrue'
  <2>1. Sleepers' = Sleepers
    BY <1>4 DEF Refused, GiveUp, Returns, mutex, Sleepers, PlainOK, JobsFit
  <2>2. Cardinality(Sleepers') = Cardinality(Sleepers)
    BY <2>1
  <2> QED
    BY <1>4, <2>2, SleepersCount DEF Refused, GiveUp, Returns, mutex, OwnerIsTrue, HolderFits, PlainOK, JobsFit
<1>5. ASSUME NEW t \in Threads, Block(t) PROVE OwnerIsTrue'
  <2>1. Sleepers' = Sleepers
    BY <1>5 DEF Block, Goto, mutex, Sleepers, PlainOK, JobsFit
  <2>2. Cardinality(Sleepers') = Cardinality(Sleepers)
    BY <2>1
  <2> QED
    BY <1>5, <2>2, SleepersCount DEF Block, Goto, mutex, OwnerIsTrue, HolderFits, PlainOK, JobsFit
<1>6. ASSUME NEW t \in Threads, BlockTimesOut(t) PROVE OwnerIsTrue'
  <2>1. Sleepers' = Sleepers
    BY <1>6 DEF BlockTimesOut, GiveUp, Returns, mutex, Sleepers, PlainOK, JobsFit
  <2>2. Cardinality(Sleepers') = Cardinality(Sleepers)
    BY <2>1
  <2> QED
    BY <1>6, <2>2, SleepersCount DEF BlockTimesOut, GiveUp, Returns, mutex, OwnerIsTrue, HolderFits, PlainOK, JobsFit
<1>7. ASSUME NEW t \in Threads, UnlockCall(t) PROVE OwnerIsTrue'
  <2>1. holder = t /\ use = "lock" /\ depth \in Nat /\ depth # 0 /\ t # None
    BY <1>7 DEF UnlockCall, HolderFits, JobsFit, PlainOK
  <2>2. Sleepers = {}
    BY <2>1 DEF Sleepers, JobsFit
  <2>3. Sleepers' = {}
    BY <1>7, <2>2 DEF UnlockCall, Sleepers, PlainOK
  <2>4. nCount = depth /\ uOwner = t
    BY <2>1, <2>2, FS_EmptySet DEF OwnerIsTrue
  <2>5. nCount' = depth' + Cardinality(Sleepers')
    BY <1>7, <2>1, <2>3, <2>4, FS_EmptySet DEF UnlockCall, Leave
  <2>6. /\ uOwner' = None <=> nCount' = 0
        /\ use' = "lock" => uOwner' = holder'
    BY <1>7, <2>1, <2>4 DEF UnlockCall, Leave
  <2>7. \A u \in Threads : pc'[u] \in {"held", "test", "set", "broadcast"} => u = t /\ depth # 1
    BY <1>7, <2>1 DEF UnlockCall, HolderFits, PlainOK
  <2>8. depth # 1 => uOwner' = t
    BY <1>7, <2>4 DEF UnlockCall, Leave
  <2> QED
    BY <2>5, <2>6, <2>7, <2>8 DEF OwnerIsTrue
<1>8. ASSUME NEW t \in Threads, Test(t) PROVE OwnerIsTrue'
  <2>1. pc[t] = "test" /\ holder = t /\ use = "event" /\ depth = 1 /\ t # None /\ t \notin Sleepers
    BY <1>8 DEF Test, Goto, HolderFits, JobsFit, PlainOK, Sleepers
  <2>2. UNCHANGED <<use, nCount, uOwner>>
    BY <1>8 DEF Test, mutex
  <2>3. CASE uOwner = t /\ ~signaled
    <3>1. pc' = [pc EXCEPT ![t] = "asleep"] /\ holder' = None /\ depth' = 0
      BY <1>8, <2>3 DEF Test, Goto
    <3>2. Sleepers' = Sleepers \cup {t}
      BY <3>1 DEF Sleepers, PlainOK
    <3>3. Cardinality(Sleepers') = Cardinality(Sleepers) + 1
      BY <2>1, <3>2, OneMore
    <3>4. nCount' = depth' + Cardinality(Sleepers')
      BY <2>1, <2>2, <3>1, <3>3, SleepersCount DEF OwnerIsTrue
    <3>5. \A u \in Threads : pc'[u] \notin {"held", "test", "set", "broadcast"}
      BY <2>1, <3>1 DEF HolderFits, PlainOK
    <3> QED
      BY <2>1, <2>2, <3>4, <3>5 DEF OwnerIsTrue
  <2>4. CASE ~(uOwner = t /\ ~signaled)
    <3>1. pc' = [pc EXCEPT ![t] = "unlock"] /\ UNCHANGED mutex
      BY <1>8, <2>4 DEF Test, Goto
    <3>2. Sleepers' = Sleepers
      BY <2>1, <3>1 DEF Sleepers, PlainOK
    <3>3. Cardinality(Sleepers') = Cardinality(Sleepers)
      BY <3>2
    <3> QED
      BY <2>2, <3>1, <3>3 DEF OwnerIsTrue, PlainOK, mutex
  <2> QED
    BY <2>3, <2>4
<1>9. ASSUME NEW t \in Threads, SleepTimesOut(t) PROVE OwnerIsTrue'
  <2>1. Sleepers' = Sleepers
    BY <1>9 DEF SleepTimesOut, Goto, mutex, Sleepers, PlainOK, JobsFit
  <2>2. Cardinality(Sleepers') = Cardinality(Sleepers)
    BY <2>1
  <2> QED
    BY <1>9, <2>2, SleepersCount DEF SleepTimesOut, Goto, mutex, OwnerIsTrue, HolderFits, PlainOK, JobsFit
<1>10. ASSUME NEW t \in Threads, SetFlag(t) PROVE OwnerIsTrue'
  <2>1. Sleepers' = Sleepers
    BY <1>10 DEF SetFlag, Goto, Returns, mutex, Sleepers, PlainOK, JobsFit
  <2>2. Cardinality(Sleepers') = Cardinality(Sleepers)
    BY <2>1
  <2> QED
    BY <1>10, <2>2, SleepersCount DEF SetFlag, Goto, Returns, mutex, OwnerIsTrue, HolderFits, PlainOK, JobsFit
<1>11. ASSUME NEW t \in Threads, Broadcast(t) PROVE OwnerIsTrue'
  <2>1. Sleepers' = Sleepers
    BY <1>11 DEF Broadcast, Returns, mutex, Sleepers, PlainOK, JobsFit
  <2>2. Cardinality(Sleepers') = Cardinality(Sleepers)
    BY <2>1
  <2> QED
    BY <1>11, <2>2, SleepersCount DEF Broadcast, Returns, mutex, OwnerIsTrue, HolderFits, PlainOK, JobsFit
<1>12. ASSUME NEW t \in Threads, ScopeEnds(t) PROVE OwnerIsTrue'
  <2>1. Sleepers' = Sleepers
    BY <1>12 DEF ScopeEnds, Goto, Leave, Sleepers, PlainOK, JobsFit
  <2>2. Cardinality(Sleepers') = Cardinality(Sleepers)
    BY <2>1
  <2> QED
    BY <1>12, <2>2, SleepersCount DEF ScopeEnds, Goto, Leave, OwnerIsTrue, HolderFits, PlainOK, JobsFit
<1>13. ASSUME NEW t \in Threads, BlockEnds(t) PROVE OwnerIsTrue'
  <2>1. Takes(t)
    BY <1>13, AcquireTakes
  <2>2. Sleepers' = Sleepers
    BY <2>1 DEF Takes, Sleepers, PlainOK, JobsFit
  <2>3. Cardinality(Sleepers') = Cardinality(Sleepers)
    BY <2>2
  <2>4. nCount' = depth' + Cardinality(Sleepers') /\ nCount' # 0 /\ uOwner' = t /\ holder' = t /\ t # None
    BY <2>1, <2>3, SleepersCount DEF Takes, OwnerIsTrue, HolderFits
  <2>5. \A u \in Threads : pc'[u] \in {"held", "test", "set", "broadcast"} => u = t
    BY <2>1 DEF Takes, HolderFits, PlainOK
  <2> QED
    BY <2>4, <2>5 DEF OwnerIsTrue
<1>14. ASSUME NEW t \in Threads, Relock(t) PROVE OwnerIsTrue'
  <2>1. t \in Sleepers /\ holder = None /\ depth = 0 /\ holder' = t /\ depth' = 1
        /\ pc' = [pc EXCEPT ![t] = "unlock"] /\ UNCHANGED <<use, nCount, uOwner>>
    BY <1>14 DEF Relock, Sleepers, HolderFits
  <2>2. Sleepers' = Sleepers \ {t} /\ use = "event"
    BY <2>1 DEF Sleepers, PlainOK, JobsFit
  <2>3. Cardinality(Sleepers') = Cardinality(Sleepers) - 1
    BY <2>1, <2>2, OneLess
  <2>4. nCount' = depth' + Cardinality(Sleepers')
    BY <2>1, <2>3, SleepersCount DEF OwnerIsTrue
  <2>5. \A u \in Threads : pc'[u] \notin {"held", "test", "set", "broadcast"}
    BY <2>1 DEF HolderFits, PlainOK
  <2> QED
    BY <2>1, <2>2, <2>4, <2>5 DEF OwnerIsTrue
<1>15. ASSUME NEW t \in Threads, SignalCall(t) PROVE OwnerIsTrue'
  <2>1. Sleepers' = Sleepers
    BY <1>15 DEF SignalCall, Enter, mutex, Sleepers, PlainOK, JobsFit
  <2>2. Cardinality(Sleepers') = Cardinality(Sleepers)
    BY <2>1
  <2> QED
    BY <1>15, <2>2, SleepersCount DEF SignalCall, Enter, mutex, OwnerIsTrue, HolderFits, PlainOK, JobsFit
<1>16. ASSUME NEW t \in Threads, ResetCall(t) PROVE OwnerIsTrue'
  <2>1. Sleepers' = Sleepers
    BY <1>16 DEF ResetCall, mutex, Sleepers, PlainOK, JobsFit
  <2>2. Cardinality(Sleepers') = Cardinality(Sleepers)
    BY <2>1
  <2> QED
    BY <1>16, <2>2, SleepersCount DEF ResetCall, mutex, OwnerIsTrue, HolderFits, PlainOK, JobsFit
<1>17. ASSUME NEW t \in Threads, WakeForNothing(t) PROVE OwnerIsTrue'
  <2>1. Sleepers' = Sleepers
    BY <1>17 DEF WakeForNothing, Goto, mutex, Sleepers, PlainOK, JobsFit
  <2>2. Cardinality(Sleepers') = Cardinality(Sleepers)
    BY <2>1
  <2> QED
    BY <1>17, <2>2, SleepersCount DEF WakeForNothing, Goto, mutex, OwnerIsTrue, HolderFits, PlainOK, JobsFit
<1>18. ASSUME NEW t \in Threads, CancelKeeps(t) PROVE OwnerIsTrue'
  <2>1. pc' = [pc EXCEPT ![t] = "cancelled"] /\ UNCHANGED <<use, nCount, uOwner>> /\ holder' = t
    BY <1>18 DEF CancelKeeps
  <2>2. CASE holder = t
    <3>1. Sleepers' = Sleepers /\ depth' = depth
      BY <1>18, <2>1, <2>2 DEF CancelKeeps, HolderFits, JobsFit, Sleepers, PlainOK
    <3>2. Cardinality(Sleepers') = Cardinality(Sleepers)
      BY <3>1
    <3> QED
      BY <2>1, <2>2, <3>1, <3>2 DEF OwnerIsTrue, PlainOK
  <2>3. CASE holder # t
    <3>1. t \in Sleepers /\ holder = None /\ depth = 0 /\ depth' = 1
      BY <1>18, <2>3 DEF CancelKeeps, HolderFits
    <3>2. Sleepers' = Sleepers \ {t} /\ use = "event"
      BY <2>1, <3>1 DEF Sleepers, PlainOK, JobsFit
    <3>3. Cardinality(Sleepers') = Cardinality(Sleepers) - 1
      BY <3>1, <3>2, OneLess
    <3>4. nCount' = depth' + Cardinality(Sleepers')
      BY <2>1, <3>1, <3>3, SleepersCount DEF OwnerIsTrue
    <3>5. \A u \in Threads : pc'[u] \notin {"held", "test", "set", "broadcast"}
      BY <2>1, <3>1 DEF HolderFits, PlainOK
    <3> QED
      BY <2>1, <3>2, <3>4, <3>5 DEF OwnerIsTrue
  <2> QED
    BY <2>2, <2>3
<1>19. ASSUME NEW t \in Threads, CancelUnwinds(t) PROVE OwnerIsTrue'
  <2> DEFINE levels == IF holder = t THEN depth ELSE IF t \in Sleepers THEN 1 ELSE 0
  <2>1. /\ pc' = [pc EXCEPT ![t] = "cancelled"] /\ use' = use
        /\ nCount' = nCount - levels
        /\ uOwner' = IF levels > 0 /\ nCount = levels THEN None ELSE uOwner
        /\ holder' = IF holder = t THEN None ELSE holder
        /\ depth' = IF holder = t THEN 0 ELSE depth
        /\ t \in Sleepers => holder = None
    BY <1>19 DEF CancelUnwinds
  <2>2. /\ \A u \in Threads : pc'[u] \in {"held", "test", "set", "broadcast"} =>
              u # t /\ holder = u /\ uOwner = u
        /\ t # None /\ depth \in Nat /\ Cardinality(Sleepers) \in Nat
        /\ nCount = depth + Cardinality(Sleepers)
    BY <2>1, SleepersCount DEF HolderFits, PlainOK, OwnerIsTrue
  <2>3. CASE holder = t
    <3>1. Sleepers' = Sleepers
      BY <2>1, <2>3 DEF HolderFits, JobsFit, Sleepers, PlainOK
    <3>2. Cardinality(Sleepers') = Cardinality(Sleepers)
      BY <3>1
    <3>3. depth > 0 /\ levels = depth /\ depth' = 0 /\ holder' = None
      BY <2>1, <2>2, <2>3 DEF HolderFits
    <3>4. use = "lock" => Cardinality(Sleepers) = 0
      <4>1. use = "lock" => Sleepers = {}
        BY DEF Sleepers, JobsFit
      <4> QED
        BY <4>1, FS_EmptySet
    <3>5. nCount' = depth' + Cardinality(Sleepers') /\ uOwner # None
      BY <2>1, <2>2, <3>2, <3>3 DEF OwnerIsTrue
    <3> QED
      BY <2>1, <2>2, <2>3, <3>2, <3>3, <3>4, <3>5 DEF OwnerIsTrue
  <2>4. CASE t \in Sleepers
    <3>1. holder = None /\ depth = 0 /\ levels = 1 /\ depth' = 0 /\ holder' = None
      BY <2>1, <2>4 DEF HolderFits, PlainOK
    <3>2. Sleepers' = Sleepers \ {t} /\ use = "event"
      BY <2>1, <2>4 DEF Sleepers, PlainOK, JobsFit
    <3>3. Cardinality(Sleepers') = Cardinality(Sleepers) - 1 /\ Cardinality(Sleepers) >= 1
      BY <2>4, <3>2, OneLess
    <3>4. nCount' = depth' + Cardinality(Sleepers') /\ uOwner # None
      BY <2>1, <2>2, <3>1, <3>3 DEF OwnerIsTrue
    <3>5. uOwner' = None <=> nCount' = 0
      BY <2>1, <2>2, <3>1, <3>4
    <3> QED
      BY <2>1, <2>2, <3>1, <3>2, <3>4, <3>5 DEF OwnerIsTrue
  <2>5. CASE holder # t /\ t \notin Sleepers
    <3>1. levels = 0 /\ UNCHANGED <<holder, depth, uOwner>> /\ nCount' = nCount
      BY <2>1, <2>2, <2>5
    <3>2. Sleepers' = Sleepers
      BY <2>1, <2>5 DEF Sleepers, PlainOK
    <3>3. Cardinality(Sleepers') = Cardinality(Sleepers)
      BY <3>2
    <3> QED
      BY <2>1, <2>2, <3>1, <3>3 DEF OwnerIsTrue
  <2> QED
    BY <2>3, <2>4, <2>5
<1>20. ASSUME NEW t \in Threads, NEW p \in BOOLEAN, LockCall(t, p) PROVE OwnerIsTrue'
  <2>1. Sleepers' = Sleepers
    BY <1>20 DEF LockCall, Enter, mutex, Sleepers, PlainOK, JobsFit
  <2>2. Cardinality(Sleepers') = Cardinality(Sleepers)
    BY <2>1
  <2> QED
    BY <1>20, <2>2, SleepersCount DEF LockCall, Enter, mutex, OwnerIsTrue, HolderFits, PlainOK, JobsFit
<1>21. ASSUME NEW t \in Threads, NEW p \in BOOLEAN, WaitCall(t, p) PROVE OwnerIsTrue'
  <2>1. Sleepers' = Sleepers
    BY <1>21 DEF WaitCall, Enter, Returns, mutex, Sleepers, PlainOK, JobsFit
  <2>2. Cardinality(Sleepers') = Cardinality(Sleepers)
    BY <2>1
  <2> QED
    BY <1>21, <2>2, SleepersCount DEF WaitCall, Enter, Returns, mutex, OwnerIsTrue, HolderFits, PlainOK, JobsFit
<1> HIDE DEF IInv
<1> QED
  BY <1>1, <1>2, <1>3, <1>4, <1>5, <1>6, <1>7, <1>8, <1>9, <1>10, <1>11, <1>12,
     <1>13, <1>14, <1>15, <1>16, <1>17, <1>18, <1>19, <1>20, <1>21
  DEF Next, Step, Retake, Call, Cancel

\* What is set is seen.
LEMMA SawStep == ASSUME IInv, [Next]_vars PROVE SawIt'
<1> USE DEF IInv, PlainOK, JobsFit, SawIt
<1>1. CASE UNCHANGED vars
  BY <1>1 DEF vars, mutex, Inside
<1>2. ASSUME Stuck PROVE SawIt'
  BY <1>2 DEF Stuck, vars, mutex, Inside
<1>3. ASSUME NEW t \in Threads, TryLock(t) PROVE SawIt'
  <2>1. Takes(t)
    BY <1>3, AcquireTakes
  <2>2. CASE job[t] = "lock"
    BY <2>1, <2>2 DEF Takes
  <2>3. CASE job[t] = "wait"
    BY <2>1, <2>3 DEF Takes
  <2>4. CASE job[t] = "signal"
    BY <2>1, <2>4 DEF Takes
  <2> QED
    BY <2>1, <2>2, <2>3, <2>4 DEF Takes
<1>4. ASSUME NEW t \in Threads, Refused(t) PROVE SawIt'
  BY <1>4 DEF Refused, GiveUp, Returns, mutex, Inside
<1>5. ASSUME NEW t \in Threads, Block(t) PROVE SawIt'
  BY <1>5 DEF Block, Goto, mutex, Inside
<1>6. ASSUME NEW t \in Threads, BlockTimesOut(t) PROVE SawIt'
  BY <1>6 DEF BlockTimesOut, GiveUp, Returns, mutex, Inside
<1>7. ASSUME NEW t \in Threads, UnlockCall(t) PROVE SawIt'
  BY <1>7 DEF UnlockCall, Leave, Inside
<1>8. ASSUME NEW t \in Threads, Test(t) PROVE SawIt'
  BY <1>8 DEF Test, Goto, Returns, mutex, Inside
<1>9. ASSUME NEW t \in Threads, SleepTimesOut(t) PROVE SawIt'
  BY <1>9 DEF SleepTimesOut, Goto, mutex, Inside
<1>10. ASSUME NEW t \in Threads, SetFlag(t) PROVE SawIt'
  <2>1. CASE uOwner = t
    <3>1. /\ saw' = [u \in Threads |-> saw[u] \/ job[u] = "wait" \/ u = t]
          /\ pc' = [pc EXCEPT ![t] = "broadcast"] /\ job' = job
      BY <1>10, <2>1 DEF SetFlag, Goto
    <3>2. \A u \in Threads : saw[u] \/ job[u] = "wait" \/ u = t => saw'[u]
      BY <3>1
    <3> QED
      BY <3>1, <3>2
  <2>2. CASE uOwner # t
    BY <1>10, <2>2 DEF SetFlag, Goto, Returns
  <2> QED
    BY <2>1, <2>2
<1>11. ASSUME NEW t \in Threads, Broadcast(t) PROVE SawIt'
  BY <1>11 DEF Broadcast, Returns, mutex, Inside
<1>12. ASSUME NEW t \in Threads, ScopeEnds(t) PROVE SawIt'
  BY <1>12 DEF ScopeEnds, Goto, Leave, Inside
<1>13. ASSUME NEW t \in Threads, BlockEnds(t) PROVE SawIt'
  <2>1. Takes(t)
    BY <1>13, AcquireTakes
  <2>2. CASE job[t] = "lock"
    BY <2>1, <2>2 DEF Takes
  <2>3. CASE job[t] = "wait"
    BY <2>1, <2>3 DEF Takes
  <2>4. CASE job[t] = "signal"
    BY <2>1, <2>4 DEF Takes
  <2> QED
    BY <2>1, <2>2, <2>3, <2>4 DEF Takes
<1>14. ASSUME NEW t \in Threads, Relock(t) PROVE SawIt'
  BY <1>14 DEF Relock, Returns, Inside
<1>15. ASSUME NEW t \in Threads, SignalCall(t) PROVE SawIt'
  BY <1>15 DEF SignalCall, Enter, mutex, Inside
<1>16. ASSUME NEW t \in Threads, ResetCall(t) PROVE SawIt'
  BY <1>16 DEF ResetCall, mutex, Inside
<1>17. ASSUME NEW t \in Threads, WakeForNothing(t) PROVE SawIt'
  BY <1>17 DEF WakeForNothing, Goto, mutex, Inside
<1>18. ASSUME NEW t \in Threads, CancelKeeps(t) PROVE SawIt'
  BY <1>18 DEF CancelKeeps, CanCancel, Inside
<1>19. ASSUME NEW t \in Threads, CancelUnwinds(t) PROVE SawIt'
  BY <1>19 DEF CancelUnwinds, CanCancel, Inside
<1>20. ASSUME NEW t \in Threads, NEW p \in BOOLEAN, LockCall(t, p) PROVE SawIt'
  BY <1>20 DEF LockCall, Enter, mutex, Inside
<1>21. ASSUME NEW t \in Threads, NEW p \in BOOLEAN, WaitCall(t, p) PROVE SawIt'
  BY <1>21 DEF WaitCall, Enter, Returns, mutex, Inside
<1> HIDE DEF IInv, PlainOK, JobsFit, SawIt
<1> QED
  BY <1>1, <1>2, <1>3, <1>4, <1>5, <1>6, <1>7, <1>8, <1>9, <1>10, <1>11, <1>12,
     <1>13, <1>14, <1>15, <1>16, <1>17, <1>18, <1>19, <1>20, <1>21
  DEF Next, Step, Retake, Call, Cancel

\* Success is seen.
LEMMA SuccessStep == ASSUME IInv, [Next]_vars PROVE SuccessMeansSignalled'
<1> USE DEF IInv, PlainOK, JobsFit, SawIt, SuccessMeansSignalled
<1>1. CASE UNCHANGED vars
  BY <1>1 DEF vars, mutex
<1>2. ASSUME Stuck PROVE SuccessMeansSignalled'
  BY <1>2 DEF Stuck, vars, mutex
<1>3. ASSUME NEW t \in Threads, TryLock(t) PROVE SuccessMeansSignalled'
  BY <1>3 DEF TryLock, Acquire, Returns
<1>4. ASSUME NEW t \in Threads, Refused(t) PROVE SuccessMeansSignalled'
  BY <1>4 DEF Refused, GiveUp, Returns, mutex
<1>5. ASSUME NEW t \in Threads, Block(t) PROVE SuccessMeansSignalled'
  BY <1>5 DEF Block, Goto, mutex
<1>6. ASSUME NEW t \in Threads, BlockTimesOut(t) PROVE SuccessMeansSignalled'
  BY <1>6 DEF BlockTimesOut, GiveUp, Returns, mutex
<1>7. ASSUME NEW t \in Threads, UnlockCall(t) PROVE SuccessMeansSignalled'
  BY <1>7 DEF UnlockCall, Leave
<1>8. ASSUME NEW t \in Threads, Test(t) PROVE SuccessMeansSignalled'
  BY <1>8 DEF Test, Goto, Returns, mutex
<1>9. ASSUME NEW t \in Threads, SleepTimesOut(t) PROVE SuccessMeansSignalled'
  BY <1>9 DEF SleepTimesOut, Goto, mutex
<1>10. ASSUME NEW t \in Threads, SetFlag(t) PROVE SuccessMeansSignalled'
  BY <1>10 DEF SetFlag, Goto, Returns, mutex
<1>11. ASSUME NEW t \in Threads, Broadcast(t) PROVE SuccessMeansSignalled'
  BY <1>11 DEF Broadcast, Returns, mutex
<1>12. ASSUME NEW t \in Threads, ScopeEnds(t) PROVE SuccessMeansSignalled'
  BY <1>12 DEF ScopeEnds, Goto, Leave
<1>13. ASSUME NEW t \in Threads, BlockEnds(t) PROVE SuccessMeansSignalled'
  BY <1>13 DEF BlockEnds, Acquire, Returns
<1>14. ASSUME NEW t \in Threads, Relock(t) PROVE SuccessMeansSignalled'
  BY <1>14 DEF Relock, Returns
<1>15. ASSUME NEW t \in Threads, SignalCall(t) PROVE SuccessMeansSignalled'
  BY <1>15 DEF SignalCall, Enter, mutex
<1>16. ASSUME NEW t \in Threads, ResetCall(t) PROVE SuccessMeansSignalled'
  BY <1>16 DEF ResetCall, mutex
<1>17. ASSUME NEW t \in Threads, WakeForNothing(t) PROVE SuccessMeansSignalled'
  BY <1>17 DEF WakeForNothing, Goto, mutex
<1>18. ASSUME NEW t \in Threads, CancelKeeps(t) PROVE SuccessMeansSignalled'
  BY <1>18 DEF CancelKeeps, CanCancel
<1>19. ASSUME NEW t \in Threads, CancelUnwinds(t) PROVE SuccessMeansSignalled'
  BY <1>19 DEF CancelUnwinds, CanCancel
<1>20. ASSUME NEW t \in Threads, NEW p \in BOOLEAN, LockCall(t, p) PROVE SuccessMeansSignalled'
  BY <1>20 DEF LockCall, Enter, mutex
<1>21. ASSUME NEW t \in Threads, NEW p \in BOOLEAN, WaitCall(t, p) PROVE SuccessMeansSignalled'
  BY <1>21 DEF WaitCall, Enter, Returns, mutex
<1> HIDE DEF IInv, PlainOK, JobsFit, SawIt, SuccessMeansSignalled
<1> QED
  BY <1>1, <1>2, <1>3, <1>4, <1>5, <1>6, <1>7, <1>8, <1>9, <1>10, <1>11, <1>12,
     <1>13, <1>14, <1>15, <1>16, <1>17, <1>18, <1>19, <1>20, <1>21
  DEF Next, Step, Retake, Call, Cancel

\* No wake-up is lost.
LEMMA WakeStep == ASSUME IInv, [Next]_vars PROVE NoLostWakeup'
<1> USE DEF IInv, PlainOK, NoLostWakeup, Cancelled
<1>1. CASE UNCHANGED vars
  BY <1>1 DEF vars, mutex, Inside
<1>2. ASSUME Stuck PROVE NoLostWakeup'
  BY <1>2 DEF Stuck, vars, mutex, Inside
<1>3. ASSUME NEW t \in Threads, TryLock(t) PROVE NoLostWakeup'
  <2>1. Takes(t)
    BY <1>3, AcquireTakes
  <2>2. CASE job[t] = "lock"
    BY <2>1, <2>2 DEF Takes
  <2>3. CASE job[t] = "wait"
    BY <2>1, <2>3 DEF Takes
  <2>4. CASE job[t] = "signal"
    BY <2>1, <2>4 DEF Takes
  <2> QED
    BY <2>1, <2>2, <2>3, <2>4 DEF Takes
<1>4. ASSUME NEW t \in Threads, Refused(t) PROVE NoLostWakeup'
  BY <1>4 DEF Refused, GiveUp, Returns, mutex, Inside
<1>5. ASSUME NEW t \in Threads, Block(t) PROVE NoLostWakeup'
  BY <1>5 DEF Block, Goto, mutex, Inside
<1>6. ASSUME NEW t \in Threads, BlockTimesOut(t) PROVE NoLostWakeup'
  BY <1>6 DEF BlockTimesOut, GiveUp, Returns, mutex, Inside
<1>7. ASSUME NEW t \in Threads, UnlockCall(t) PROVE NoLostWakeup'
  BY <1>7 DEF UnlockCall, Leave, Inside
<1>8. ASSUME NEW t \in Threads, Test(t) PROVE NoLostWakeup'
  BY <1>8 DEF Test, Goto, Returns, mutex, Inside
<1>9. ASSUME NEW t \in Threads, SleepTimesOut(t) PROVE NoLostWakeup'
  BY <1>9 DEF SleepTimesOut, Goto, mutex, Inside
<1>10. ASSUME NEW t \in Threads, SetFlag(t) PROVE NoLostWakeup'
  <2>1. CASE uOwner = t
    <3>1. pc'[t] = "broadcast"
      BY <1>10, <2>1 DEF SetFlag, Goto
    <3> QED
      BY <3>1
  <2>2. CASE uOwner # t
    <3>1. /\ signaled' = signaled
          /\ pc[t] = "set" /\ pc' = [pc EXCEPT ![t] = "unlock"]
      BY <1>10, <2>2 DEF SetFlag, Goto
    <3>2. \A s \in Threads \ {t} : pc'[s] = pc[s]
      BY <3>1
    <3>3. pc[t] = "set" /\ pc'[t] = "unlock"
      BY <3>1
    <3> QED
      BY <3>1, <3>2, <3>3
  <2> QED
    BY <2>1, <2>2
<1>11. ASSUME NEW t \in Threads, Broadcast(t) PROVE NoLostWakeup'
  BY <1>11 DEF Broadcast, Returns, mutex, Inside
<1>12. ASSUME NEW t \in Threads, ScopeEnds(t) PROVE NoLostWakeup'
  BY <1>12 DEF ScopeEnds, Goto, Leave, Inside
<1>13. ASSUME NEW t \in Threads, BlockEnds(t) PROVE NoLostWakeup'
  <2>1. Takes(t)
    BY <1>13, AcquireTakes
  <2>2. CASE job[t] = "lock"
    BY <2>1, <2>2 DEF Takes
  <2>3. CASE job[t] = "wait"
    BY <2>1, <2>3 DEF Takes
  <2>4. CASE job[t] = "signal"
    BY <2>1, <2>4 DEF Takes
  <2> QED
    BY <2>1, <2>2, <2>3, <2>4 DEF Takes
<1>14. ASSUME NEW t \in Threads, Relock(t) PROVE NoLostWakeup'
  BY <1>14 DEF Relock, Returns, Inside
<1>15. ASSUME NEW t \in Threads, SignalCall(t) PROVE NoLostWakeup'
  BY <1>15 DEF SignalCall, Enter, mutex, Inside
<1>16. ASSUME NEW t \in Threads, ResetCall(t) PROVE NoLostWakeup'
  BY <1>16 DEF ResetCall, mutex, Inside
<1>17. ASSUME NEW t \in Threads, WakeForNothing(t) PROVE NoLostWakeup'
  BY <1>17 DEF WakeForNothing, Goto, mutex, Inside
<1>18. ASSUME NEW t \in Threads, CancelKeeps(t) PROVE NoLostWakeup'
  BY <1>18 DEF CancelKeeps, CanCancel, Inside
<1>19. ASSUME NEW t \in Threads, CancelUnwinds(t) PROVE NoLostWakeup'
  BY <1>19 DEF CancelUnwinds, CanCancel, Inside
<1>20. ASSUME NEW t \in Threads, NEW p \in BOOLEAN, LockCall(t, p) PROVE NoLostWakeup'
  BY <1>20 DEF LockCall, Enter, mutex, Inside
<1>21. ASSUME NEW t \in Threads, NEW p \in BOOLEAN, WaitCall(t, p) PROVE NoLostWakeup'
  BY <1>21 DEF WaitCall, Enter, Returns, mutex, Inside
<1> HIDE DEF IInv, PlainOK, NoLostWakeup, Cancelled
<1> QED
  BY <1>1, <1>2, <1>3, <1>4, <1>5, <1>6, <1>7, <1>8, <1>9, <1>10, <1>11, <1>12,
     <1>13, <1>14, <1>15, <1>16, <1>17, <1>18, <1>19, <1>20, <1>21
  DEF Next, Step, Retake, Call, Cancel

-----------------------------------------------------------------------------
LEMMA InitIInv == Init => IInv
<1> SUFFICES ASSUME Init PROVE IInv
  OBVIOUS
<1>1. PlainOK
  BY DEF Init, PlainOK, Pcs, Jobs, Results
<1>2. JobsFit
  BY DEF Init, JobsFit
<1>3. HolderFits
  BY DEF Init, HolderFits
<1>4. OwnerIsTrue
  <2>1. Sleepers = {}
    BY DEF Init, Sleepers
  <2>2. Cardinality(Sleepers) = 0
    BY <2>1, FS_EmptySet
  <2> QED
    BY <2>2 DEF Init, OwnerIsTrue
<1>5. SawIt /\ SuccessMeansSignalled /\ NoLostWakeup
  BY DEF Init, SawIt, SuccessMeansSignalled, NoLostWakeup
<1> QED
  BY <1>1, <1>2, <1>3, <1>4, <1>5 DEF IInv

LEMMA StepIInv == IInv /\ [Next]_vars => IInv'
BY PlainStep, JobStep, HolderStep, OwnerStep, SawStep, SuccessStep, WakeStep DEF IInv

\* Every variable keeps its type; the lock is not locked deeper than the bound,
\* and its own count is never negative.
THEOREM Types == Spec => []TypeOK
<1>1. ASSUME IInv PROVE TypeOK
  <2>1. nCount = depth + Cardinality(Sleepers) /\ depth \in 0 .. MaxDepth
    BY <1>1 DEF IInv, OwnerIsTrue, HolderFits
  <2>2. nCount \in Nat
    BY <2>1, SleepersCount
  <2> QED
    BY <1>1, <2>1, <2>2 DEF IInv, PlainOK, TypeOK
<1> QED
  BY InitIInv, StepIInv, <1>1, PTL DEF Spec

\* nCount and uOwner say who has the lock, through recursive locking, waits that
\* give the mutex away and threads cancelled with it.
THEOREM TheOwnerIsTrue == Spec => []OwnerIsTrue
<1>1. IInv => OwnerIsTrue
  BY DEF IInv
<1> QED
  BY InitIInv, StepIInv, <1>1, PTL DEF Spec

\* An event's Wait that returns success was signalled while it waited.
THEOREM SuccessIsSignalled == Spec => []SuccessMeansSignalled
<1>1. IInv => SuccessMeansSignalled
  BY DEF IInv
<1> QED
  BY InitIInv, StepIInv, <1>1, PTL DEF Spec

\* No thread goes to sleep, or on sleeping, after a signal that no one will
\* broadcast, although Reset takes no lock.
THEOREM NoWakeupIsLost == Spec => []NoLostWakeup
<1>1. IInv => NoLostWakeup
  BY DEF IInv
<1> QED
  BY InitIInv, StepIInv, <1>1, PTL DEF Spec
=============================================================================
