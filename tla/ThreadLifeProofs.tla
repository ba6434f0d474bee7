-------------------------- MODULE ThreadLifeProofs --------------------------
(***************************************************************************)
(* Proofs about ThreadLife, for any number of starts.                      *)
(***************************************************************************)
EXTENDS ThreadLife, FiniteSetTheorems, TLAPS

\* The owner is in Start(), and NewThread() is still to come.
Starting ==
    pc[Owner] = "new" \/ (then = "start" /\ pc[Owner] \in {"destroy", "take", "free", "join"})

\* Where actors are and what they left behind, whoever stops the thread.
Places ==
    /\ \A a \in Actors : pc[a] \in {"take", "free", "join"} => hold[a] # 0
    /\ Starting => starts < MaxStarts
    /\ \A k \in Runs : pc[k] = "none" <=> k > starts
    /\ \A k \in Runs : exited[k] => pc[k] \in {"wake", "leave", "gone"}
    /\ \A k \in Runs : cancel[k] => pc[k] # "none"

\* Who frees a SResourceInfo: the owner, once the CThread has forgotten it.
OwnerFrees ==
    ~selfStops =>
        /\ \A k \in Runs : pc[k] \notin StopPcs
        /\ pc[Owner] = "take" => handle = hold[Owner]
        /\ pc[Owner] \in {"new", "cleared", "free", "join"} => handle = 0
        /\ handle # 0 => refs[handle] = 2
        /\ pc[Owner] \in {"free", "join"} => refs[hold[Owner]] = 1

\* What is left of the run before has no more to say while the next begins.
LastIsOver ==
    ~selfStops /\ Starting =>
        ~evInit /\ \A k \in Runs : pc[k] \in {"none", "wake", "leave", "gone"}

\* What m_bInitStatus and m_evInit are to the run the CThread knows.
StatusOfRun ==
    ~selfStops /\ handle # 0 =>
        /\ ~cancel[handle]
        /\ pc[handle] \in {"born", "init"} \/ initStatus = result[handle]
        /\ evInit => pc[handle] \notin {"born", "init"}

KilledAreGone == \A k \in killed : pc[k] = "gone"

CountedRuns == {k \in Runs : pc[k] \in Counted}

\* The inductive invariant.
IInv ==
    /\ TypeOK /\ Places /\ OwnerFrees /\ StoppedIsGone /\ LastIsOver /\ StatusOfRun
    /\ KilledAreGone /\ CountIsRunning

USE MaxStartsIsPositive

\* What NewThread does, for the run k that it makes.
Makes(k) ==
    /\ k = starts + 1 /\ k # Owner /\ k <= MaxStarts
    /\ pc[Owner] = "new" /\ pc[k] = "none" /\ ~exited[k] /\ ~cancel[k]
    /\ pc' \in [Actors -> Pcs] /\ pc'[Owner] = "idle" /\ pc'[k] = "born"
    /\ \A a \in Actors \ {Owner, k} : pc'[a] = pc[a]
    /\ starts' = k /\ handle' = k
    /\ refs' = [refs EXCEPT ![k] = 2]
    /\ UNCHANGED <<hold, then, exitVars, evVars, data, running, selfStops, result>>

\* The run that a start makes is one that never was.
LEMMA NewRun == ASSUME TypeOK, Places, NewThread PROVE \E k \in Runs : Makes(k)
<1>1. starts \in 0 .. MaxStarts /\ starts < MaxStarts /\ pc[Owner] = "new"
  BY DEF TypeOK, Places, Starting, NewThread, NewThreadWith
<1>2. starts + 1 \in Runs /\ starts + 1 # Owner
  BY <1>1 DEF Runs, Owner
<1>3. pc[starts + 1] = "none"
  BY <1>1, <1>2 DEF Places, Runs
<1>4. pc' = [pc EXCEPT ![Owner] = "idle", ![starts + 1] = "born"] /\ pc \in [Actors -> Pcs]
  BY DEF NewThread, NewThreadWith, TypeOK
<1>5. /\ pc'[Owner] = "idle" /\ pc'[starts + 1] = "born"
      /\ \A a \in Actors \ {Owner, starts + 1} : pc'[a] = pc[a]
      /\ pc' \in [Actors -> Pcs]
  BY <1>2, <1>4 DEF Actors, Pcs
<1>6. ~exited[starts + 1] /\ ~cancel[starts + 1]
  BY <1>2, <1>3 DEF Places
<1>7. /\ starts' = starts + 1 /\ handle' = starts + 1 /\ refs' = [refs EXCEPT ![starts + 1] = 2]
      /\ UNCHANGED <<hold, then, exitVars, evVars, data, running, selfStops, result>>
  BY DEF NewThread, NewThreadWith
<1>8. starts + 1 <= MaxStarts
  BY <1>1
<1> QED
  BY <1>1, <1>2, <1>3, <1>5, <1>6, <1>7, <1>8 DEF Makes

LEMMA FiniteRuns ==
    /\ IsFiniteSet(CountedRuns)
    /\ \A S \in SUBSET Runs : IsFiniteSet(S)
<1>1. IsFiniteSet(Runs)
  BY FS_Interval DEF Runs
<1> QED
  BY <1>1, FS_Subset DEF CountedRuns

\* Types are kept.
LEMMA TypeStep ==
    ASSUME TypeOK, Places, [Next]_vars
    PROVE  TypeOK'
<1> USE DEF Runs, Owner, Actors, TypeOK, Places, Starting, UserPcs, StopPcs, Counted, Pcs
<1>1. CASE UNCHANGED vars
  BY <1>1 DEF vars, freeVars, exitVars, evVars, runVars
<1>2. ASSUME Start PROVE TypeOK'
  <2>1. data' \in 0 .. MaxStarts
    BY <1>2 DEF Start
  <2>2. pc' \in [Actors -> Pcs]
    BY <1>2 DEF Start, Goto, Pcs
  <2>3. /\ evStop' = FALSE /\ evInit' = FALSE /\ late' = 0 /\ then' = "start"
        /\ UNCHANGED <<handle, hold, refs, exitVars, initStatus, running, starts,
                       selfStops, result>>
    BY <1>2 DEF Start
  <2>4. /\ handle' \in 0 .. starts' /\ hold' \in [Actors -> 0 .. starts']
        /\ refs' \in [Runs -> 0 .. 2] /\ running' \in Nat /\ starts' \in 0 .. MaxStarts
        /\ late' \in 0 .. 2
    BY <2>3
  <2>5. /\ exited' \in [Runs -> BOOLEAN] /\ cancel' \in [Runs -> BOOLEAN]
        /\ killed' \subseteq Runs /\ result' \in [Runs -> BOOLEAN]
    BY <2>3 DEF exitVars
  <2>6. /\ then' \in {"stop", "start"} /\ evStop' \in BOOLEAN /\ evInit' \in BOOLEAN
        /\ initStatus' \in BOOLEAN /\ selfStops' \in BOOLEAN
    BY <2>3
  <2> QED
    BY <2>1, <2>2, <2>4, <2>5, <2>6
<1>3. ASSUME NewThread PROVE TypeOK'
  <2>1. PICK k \in Runs : Makes(k)
    BY <1>3, NewRun
  <2> QED
    BY <2>1 DEF Makes, Pcs, exitVars, evVars
<1>4. ASSUME NEW a \in Actors, Stop(a) PROVE TypeOK'
  BY <1>4 DEF Stop, freeVars, exitVars, evVars, runVars
<1>5. ASSUME NEW a \in Actors, DestroyReads(a) PROVE TypeOK'
  BY <1>5 DEF DestroyReads, Goto, AfterDestroy, freeVars, exitVars, evVars, runVars
<1>6. ASSUME NEW a \in Actors, DestroyTakes(a) PROVE TypeOK'
  BY <1>6 DEF DestroyTakes, Goto, AfterDestroy, freeVars, exitVars, evVars, runVars
<1>7. ASSUME NEW a \in Actors, ExitSeen(a) PROVE TypeOK'
  BY <1>7 DEF ExitSeen, Moves, Goto, freeVars, exitVars, evVars, runVars
<1>8. ASSUME NEW a \in Actors, CancelLate(a) PROVE TypeOK'
  BY <1>8 DEF CancelLate, Goto, freeVars, exitVars, evVars, runVars
<1>9. ASSUME NEW a \in Actors, Join(a) PROVE TypeOK'
  BY <1>9 DEF Join, Goto, AfterDestroy, freeVars, exitVars, evVars, runVars
<1>10. ASSUME NEW a \in Actors, Clear(a) PROVE TypeOK'
  <2>1. pc' \in [Actors -> Pcs]
    BY <1>10 DEF Clear, Goto, Pcs
  <2>2. data' \in 0 .. MaxStarts
    BY <1>10 DEF Clear
  <2> QED
    BY <1>10, <2>1, <2>2 DEF Clear, Pcs, freeVars, exitVars, evVars, runVars
<1>11. ASSUME NEW k \in Runs, InitThread(k) PROVE TypeOK'
  BY <1>11 DEF InitThread, Goto, freeVars, exitVars, evVars, runVars
<1>12. ASSUME NEW k \in Runs, SignalInit(k) PROVE TypeOK'
  BY <1>12 DEF SignalInit, SignalInitTo, Goto, freeVars, exitVars, evVars, runVars
<1>13. ASSUME NEW k \in Runs, Check(k) PROVE TypeOK'
  BY <1>13 DEF Check, Moves, Goto, freeVars, exitVars, evVars, runVars
<1>14. ASSUME NEW k \in Runs, CallDoThread(k) PROVE TypeOK'
  BY <1>14 DEF CallDoThread, Goto, freeVars, exitVars, evVars, runVars
<1>15. ASSUME NEW k \in Runs, DoThread(k) PROVE TypeOK'
  BY <1>15 DEF DoThread, Moves, Goto, freeVars, exitVars, evVars, runVars
<1>16. ASSUME NEW k \in Runs, Sleep(k) PROVE TypeOK'
  BY <1>16 DEF Sleep, Moves, Goto, freeVars, exitVars, evVars, runVars
<1>17. ASSUME NEW k \in Runs, EndThread(k) PROVE TypeOK'
  BY <1>17 DEF EndThread, Moves, Goto, freeVars, exitVars, evVars, runVars
<1>18. ASSUME NEW k \in Runs, Finish(k) PROVE TypeOK'
  BY <1>18 DEF Finish, Goto, freeVars, exitVars, evVars, runVars
<1>19. ASSUME NEW k \in Runs, Enter(k) PROVE TypeOK'
  BY <1>19 DEF Enter, Goto, freeVars, exitVars, evVars, runVars
<1>20. ASSUME NEW k \in Runs, SetExited(k) PROVE TypeOK'
  BY <1>20 DEF SetExited, Goto, freeVars, exitVars, evVars, runVars
<1>21. ASSUME NEW k \in Runs, WakeOwner(k) PROVE TypeOK'
  BY <1>21 DEF WakeOwner, Moves, Goto, freeVars, exitVars, evVars, runVars
<1>22. ASSUME NEW k \in Runs, Leave(k) PROVE TypeOK'
  BY <1>22 DEF Leave, Moves, Goto, freeVars, exitVars, evVars, runVars
<1>23. ASSUME NEW k \in Runs, Die(k) PROVE TypeOK'
  BY <1>23 DEF Die, Alive, freeVars, exitVars, evVars, runVars
<1> HIDE DEF Runs, Owner, Actors, TypeOK, Places, Starting, UserPcs, StopPcs, Counted, Pcs
<1> QED
  BY <1>1, <1>2, <1>3, <1>4, <1>5, <1>6, <1>7, <1>8, <1>9, <1>10, <1>11,
     <1>12, <1>13, <1>14, <1>15, <1>16, <1>17, <1>18, <1>19, <1>20, <1>21,
     <1>22, <1>23
  DEF Next, StopStep, UserStep, ExitStep

\* An actor is where its run is, and holds what it frees.
LEMMA PlacesStep ==
    ASSUME TypeOK, Places, [Next]_vars
    PROVE  Places'
<1> USE DEF Runs, Owner, Actors, TypeOK, Places, Starting
<1>1. CASE UNCHANGED vars
  BY <1>1 DEF vars, freeVars, exitVars, evVars, runVars
<1>2. ASSUME Start PROVE Places'
  BY <1>2 DEF Start, Goto, IsRunning, freeVars, exitVars, evVars, runVars
<1>3. ASSUME NewThread PROVE Places'
  <2>1. PICK k \in Runs : Makes(k)
    BY <1>3, NewRun
  <2>2. pc'[Owner] = "idle" /\ pc'[k] = "born" /\ \A a \in Actors \ {Owner, k} : pc'[a] = pc[a]
    BY <2>1 DEF Makes
  <2>3. ~Starting'
    BY <2>2
  <2>4. \A a \in Actors : pc'[a] \in {"take", "free", "join"} => hold'[a] # 0
    BY <2>1, <2>2 DEF Makes
  <2>5. \A s \in Runs : pc'[s] = "none" <=> s > starts'
    BY <2>1, <2>2 DEF Makes
  <2>6. \A s \in Runs : exited'[s] => pc'[s] \in {"wake", "leave", "gone"}
    BY <2>1, <2>2 DEF Makes, exitVars
  <2>7. \A s \in Runs : cancel'[s] => pc'[s] # "none"
    BY <2>1, <2>2 DEF Makes, exitVars
  <2> QED
    BY <2>3, <2>4, <2>5, <2>6, <2>7
<1>4. ASSUME NEW a \in Actors, Stop(a) PROVE Places'
  BY <1>4 DEF Stop, freeVars, exitVars, evVars, runVars
<1>5. ASSUME NEW a \in Actors, DestroyReads(a) PROVE Places'
  BY <1>5 DEF DestroyReads, Goto, AfterDestroy, freeVars, exitVars, evVars, runVars
<1>6. ASSUME NEW a \in Actors, DestroyTakes(a) PROVE Places'
  BY <1>6 DEF DestroyTakes, Goto, AfterDestroy, freeVars, exitVars, evVars, runVars
<1>7. ASSUME NEW a \in Actors, ExitSeen(a) PROVE Places'
  BY <1>7 DEF ExitSeen, Moves, Goto, freeVars, exitVars, evVars, runVars
<1>8. ASSUME NEW a \in Actors, CancelLate(a) PROVE Places'
  BY <1>8 DEF CancelLate, Goto, freeVars, exitVars, evVars, runVars
<1>9. ASSUME NEW a \in Actors, Join(a) PROVE Places'
  BY <1>9 DEF Join, Goto, AfterDestroy, freeVars, exitVars, evVars, runVars
<1>10. ASSUME NEW a \in Actors, Clear(a) PROVE Places'
  BY <1>10 DEF Clear, Goto, freeVars, exitVars, evVars, runVars
<1>11. ASSUME NEW k \in Runs, InitThread(k) PROVE Places'
  BY <1>11 DEF InitThread, Goto, freeVars, exitVars, evVars, runVars
<1>12. ASSUME NEW k \in Runs, SignalInit(k) PROVE Places'
  BY <1>12 DEF SignalInit, SignalInitTo, Goto, freeVars, exitVars, evVars, runVars
<1>13. ASSUME NEW k \in Runs, Check(k) PROVE Places'
  BY <1>13 DEF Check, Moves, Goto, freeVars, exitVars, evVars, runVars
<1>14. ASSUME NEW k \in Runs, CallDoThread(k) PROVE Places'
  BY <1>14 DEF CallDoThread, Goto, freeVars, exitVars, evVars, runVars
<1>15. ASSUME NEW k \in Runs, DoThread(k) PROVE Places'
  BY <1>15 DEF DoThread, Moves, Goto, freeVars, exitVars, evVars, runVars
<1>16. ASSUME NEW k \in Runs, Sleep(k) PROVE Places'
  BY <1>16 DEF Sleep, Moves, Goto, freeVars, exitVars, evVars, runVars
<1>17. ASSUME NEW k \in Runs, EndThread(k) PROVE Places'
  BY <1>17 DEF EndThread, Moves, Goto, freeVars, exitVars, evVars, runVars
<1>18. ASSUME NEW k \in Runs, Finish(k) PROVE Places'
  BY <1>18 DEF Finish, Goto, freeVars, exitVars, evVars, runVars
<1>19. ASSUME NEW k \in Runs, Enter(k) PROVE Places'
  BY <1>19 DEF Enter, Goto, freeVars, exitVars, evVars, runVars
<1>20. ASSUME NEW k \in Runs, SetExited(k) PROVE Places'
  BY <1>20 DEF SetExited, Goto, freeVars, exitVars, evVars, runVars
<1>21. ASSUME NEW k \in Runs, WakeOwner(k) PROVE Places'
  BY <1>21 DEF WakeOwner, Moves, Goto, freeVars, exitVars, evVars, runVars
<1>22. ASSUME NEW k \in Runs, Leave(k) PROVE Places'
  BY <1>22 DEF Leave, Moves, Goto, freeVars, exitVars, evVars, runVars
<1>23. ASSUME NEW k \in Runs, Die(k) PROVE Places'
  BY <1>23 DEF Die, Alive, freeVars, exitVars, evVars, runVars
<1> HIDE DEF Runs, Owner, Actors, TypeOK, Places, Starting
<1> QED
  BY <1>1, <1>2, <1>3, <1>4, <1>5, <1>6, <1>7, <1>8, <1>9, <1>10, <1>11,
     <1>12, <1>13, <1>14, <1>15, <1>16, <1>17, <1>18, <1>19, <1>20, <1>21,
     <1>22, <1>23
  DEF Next, StopStep, UserStep, ExitStep

\* A reference is dropped by the owner only, and only as it takes the pRi.
LEMMA FreesStep ==
    ASSUME TypeOK, Places, OwnerFrees, [Next]_vars
    PROVE  OwnerFrees'
<1> USE DEF Runs, Owner, Actors, TypeOK, Places, OwnerFrees, StopPcs
<1>1. CASE UNCHANGED vars
  BY <1>1 DEF vars, freeVars, exitVars, evVars, runVars
<1>2. ASSUME Start PROVE OwnerFrees'
  BY <1>2 DEF Start, Goto, IsRunning, freeVars, exitVars, evVars, runVars
<1>3. ASSUME NewThread PROVE OwnerFrees'
  <2>1. PICK k \in Runs : Makes(k)
    BY <1>3, NewRun
  <2> QED
    BY <2>1 DEF Makes, Pcs, exitVars, evVars
<1>4. ASSUME NEW a \in Actors, Stop(a) PROVE OwnerFrees'
  BY <1>4 DEF Stop, freeVars, exitVars, evVars, runVars
<1>5. ASSUME NEW a \in Actors, DestroyReads(a) PROVE OwnerFrees'
  BY <1>5 DEF DestroyReads, Goto, AfterDestroy, freeVars, exitVars, evVars, runVars
<1>6. ASSUME NEW a \in Actors, DestroyTakes(a) PROVE OwnerFrees'
  BY <1>6 DEF DestroyTakes, Goto, AfterDestroy, freeVars, exitVars, evVars, runVars
<1>7. ASSUME NEW a \in Actors, ExitSeen(a) PROVE OwnerFrees'
  BY <1>7 DEF ExitSeen, Moves, Goto, freeVars, exitVars, evVars, runVars
<1>8. ASSUME NEW a \in Actors, CancelLate(a) PROVE OwnerFrees'
  BY <1>8 DEF CancelLate, Goto, freeVars, exitVars, evVars, runVars
<1>9. ASSUME NEW a \in Actors, Join(a) PROVE OwnerFrees'
  BY <1>9 DEF Join, Goto, AfterDestroy, freeVars, exitVars, evVars, runVars
<1>10. ASSUME NEW a \in Actors, Clear(a) PROVE OwnerFrees'
  BY <1>10 DEF Clear, Goto, freeVars, exitVars, evVars, runVars
<1>11. ASSUME NEW k \in Runs, InitThread(k) PROVE OwnerFrees'
  BY <1>11 DEF InitThread, Goto, freeVars, exitVars, evVars, runVars
<1>12. ASSUME NEW k \in Runs, SignalInit(k) PROVE OwnerFrees'
  BY <1>12 DEF SignalInit, SignalInitTo, Goto, freeVars, exitVars, evVars, runVars
<1>13. ASSUME NEW k \in Runs, Check(k) PROVE OwnerFrees'
  BY <1>13 DEF Check, Moves, Goto, freeVars, exitVars, evVars, runVars
<1>14. ASSUME NEW k \in Runs, CallDoThread(k) PROVE OwnerFrees'
  BY <1>14 DEF CallDoThread, Goto, freeVars, exitVars, evVars, runVars
<1>15. ASSUME NEW k \in Runs, DoThread(k) PROVE OwnerFrees'
  BY <1>15 DEF DoThread, Moves, Goto, freeVars, exitVars, evVars, runVars
<1>16. ASSUME NEW k \in Runs, Sleep(k) PROVE OwnerFrees'
  BY <1>16 DEF Sleep, Moves, Goto, freeVars, exitVars, evVars, runVars
<1>17. ASSUME NEW k \in Runs, EndThread(k) PROVE OwnerFrees'
  BY <1>17 DEF EndThread, Moves, Goto, freeVars, exitVars, evVars, runVars
<1>18. ASSUME NEW k \in Runs, Finish(k) PROVE OwnerFrees'
  BY <1>18 DEF Finish, Goto, freeVars, exitVars, evVars, runVars
<1>19. ASSUME NEW k \in Runs, Enter(k) PROVE OwnerFrees'
  BY <1>19 DEF Enter, Goto, freeVars, exitVars, evVars, runVars
<1>20. ASSUME NEW k \in Runs, SetExited(k) PROVE OwnerFrees'
  BY <1>20 DEF SetExited, Goto, freeVars, exitVars, evVars, runVars
<1>21. ASSUME NEW k \in Runs, WakeOwner(k) PROVE OwnerFrees'
  BY <1>21 DEF WakeOwner, Moves, Goto, freeVars, exitVars, evVars, runVars
<1>22. ASSUME NEW k \in Runs, Leave(k) PROVE OwnerFrees'
  BY <1>22 DEF Leave, Moves, Goto, freeVars, exitVars, evVars, runVars
<1>23. ASSUME NEW k \in Runs, Die(k) PROVE OwnerFrees'
  BY <1>23 DEF Die, Alive, freeVars, exitVars, evVars, runVars
<1> HIDE DEF Runs, Owner, Actors, TypeOK, Places, OwnerFrees, StopPcs
<1> QED
  BY <1>1, <1>2, <1>3, <1>4, <1>5, <1>6, <1>7, <1>8, <1>9, <1>10, <1>11,
     <1>12, <1>13, <1>14, <1>15, <1>16, <1>17, <1>18, <1>19, <1>20, <1>21,
     <1>22, <1>23
  DEF Next, StopStep, UserStep, ExitStep

\* A pRi is forgotten only by who frees it, and freed only when its thread is gone.
LEMMA GoneStep ==
    ASSUME TypeOK, Places, OwnerFrees, StoppedIsGone, [Next]_vars
    PROVE  StoppedIsGone'
<1> USE DEF Runs, Owner, Actors, TypeOK, Places, OwnerFrees, StoppedIsGone, StopPcs, Alive
<1>1. CASE UNCHANGED vars
  BY <1>1 DEF vars, freeVars, exitVars, evVars, runVars
<1>2. ASSUME Start PROVE StoppedIsGone'
  BY <1>2 DEF Start, Goto, IsRunning, freeVars, exitVars, evVars, runVars
<1>3. ASSUME NewThread PROVE StoppedIsGone'
  <2>1. PICK k \in Runs : Makes(k)
    BY <1>3, NewRun
  <2> QED
    BY <2>1 DEF Makes, Pcs, exitVars, evVars
<1>4. ASSUME NEW a \in Actors, Stop(a) PROVE StoppedIsGone'
  BY <1>4 DEF Stop, freeVars, exitVars, evVars, runVars
<1>5. ASSUME NEW a \in Actors, DestroyReads(a) PROVE StoppedIsGone'
  BY <1>5 DEF DestroyReads, Goto, AfterDestroy, freeVars, exitVars, evVars, runVars
<1>6. ASSUME NEW a \in Actors, DestroyTakes(a) PROVE StoppedIsGone'
  BY <1>6 DEF DestroyTakes, Goto, AfterDestroy, freeVars, exitVars, evVars, runVars
<1>7. ASSUME NEW a \in Actors, ExitSeen(a) PROVE StoppedIsGone'
  BY <1>7 DEF ExitSeen, Moves, Goto, freeVars, exitVars, evVars, runVars
<1>8. ASSUME NEW a \in Actors, CancelLate(a) PROVE StoppedIsGone'
  BY <1>8 DEF CancelLate, Goto, freeVars, exitVars, evVars, runVars
<1>9. ASSUME NEW a \in Actors, Join(a) PROVE StoppedIsGone'
  BY <1>9 DEF Join, Goto, AfterDestroy, freeVars, exitVars, evVars, runVars
<1>10. ASSUME NEW a \in Actors, Clear(a) PROVE StoppedIsGone'
  BY <1>10 DEF Clear, Goto, freeVars, exitVars, evVars, runVars
<1>11. ASSUME NEW k \in Runs, InitThread(k) PROVE StoppedIsGone'
  BY <1>11 DEF InitThread, Goto, freeVars, exitVars, evVars, runVars
<1>12. ASSUME NEW k \in Runs, SignalInit(k) PROVE StoppedIsGone'
  BY <1>12 DEF SignalInit, SignalInitTo, Goto, freeVars, exitVars, evVars, runVars
<1>13. ASSUME NEW k \in Runs, Check(k) PROVE StoppedIsGone'
  BY <1>13 DEF Check, Moves, Goto, freeVars, exitVars, evVars, runVars
<1>14. ASSUME NEW k \in Runs, CallDoThread(k) PROVE StoppedIsGone'
  BY <1>14 DEF CallDoThread, Goto, freeVars, exitVars, evVars, runVars
<1>15. ASSUME NEW k \in Runs, DoThread(k) PROVE StoppedIsGone'
  BY <1>15 DEF DoThread, Moves, Goto, freeVars, exitVars, evVars, runVars
<1>16. ASSUME NEW k \in Runs, Sleep(k) PROVE StoppedIsGone'
  BY <1>16 DEF Sleep, Moves, Goto, freeVars, exitVars, evVars, runVars
<1>17. ASSUME NEW k \in Runs, EndThread(k) PROVE StoppedIsGone'
  BY <1>17 DEF EndThread, Moves, Goto, freeVars, exitVars, evVars, runVars
<1>18. ASSUME NEW k \in Runs, Finish(k) PROVE StoppedIsGone'
  BY <1>18 DEF Finish, Goto, freeVars, exitVars, evVars, runVars
<1>19. ASSUME NEW k \in Runs, Enter(k) PROVE StoppedIsGone'
  BY <1>19 DEF Enter, Goto, freeVars, exitVars, evVars, runVars
<1>20. ASSUME NEW k \in Runs, SetExited(k) PROVE StoppedIsGone'
  BY <1>20 DEF SetExited, Goto, freeVars, exitVars, evVars, runVars
<1>21. ASSUME NEW k \in Runs, WakeOwner(k) PROVE StoppedIsGone'
  BY <1>21 DEF WakeOwner, Moves, Goto, freeVars, exitVars, evVars, runVars
<1>22. ASSUME NEW k \in Runs, Leave(k) PROVE StoppedIsGone'
  BY <1>22 DEF Leave, Moves, Goto, freeVars, exitVars, evVars, runVars
<1>23. ASSUME NEW k \in Runs, Die(k) PROVE StoppedIsGone'
  BY <1>23 DEF Die, Alive, freeVars, exitVars, evVars, runVars
<1> HIDE DEF Runs, Owner, Actors, TypeOK, Places, OwnerFrees, StoppedIsGone, StopPcs, Alive
<1> QED
  BY <1>1, <1>2, <1>3, <1>4, <1>5, <1>6, <1>7, <1>8, <1>9, <1>10, <1>11,
     <1>12, <1>13, <1>14, <1>15, <1>16, <1>17, <1>18, <1>19, <1>20, <1>21,
     <1>22, <1>23
  DEF Next, StopStep, UserStep, ExitStep

\* Start() finds the run before exited or stopped.
LEMMA OverStep ==
    ASSUME TypeOK, Places, OwnerFrees, StoppedIsGone, LastIsOver, [Next]_vars
    PROVE  LastIsOver'
<1> USE DEF Runs, Owner, Actors, TypeOK, Places, OwnerFrees, StoppedIsGone, LastIsOver, Starting, Alive
<1>1. CASE UNCHANGED vars
  BY <1>1 DEF vars, freeVars, exitVars, evVars, runVars
<1>2. ASSUME Start PROVE LastIsOver'
  BY <1>2 DEF Start, Goto, IsRunning, freeVars, exitVars, evVars, runVars
<1>3. ASSUME NewThread PROVE LastIsOver'
  BY <1>3 DEF NewThread, NewThreadWith, freeVars, exitVars, evVars, runVars
<1>4. ASSUME NEW a \in Actors, Stop(a) PROVE LastIsOver'
  BY <1>4 DEF Stop, freeVars, exitVars, evVars, runVars
<1>5. ASSUME NEW a \in Actors, DestroyReads(a) PROVE LastIsOver'
  BY <1>5 DEF DestroyReads, Goto, AfterDestroy, freeVars, exitVars, evVars, runVars
<1>6. ASSUME NEW a \in Actors, DestroyTakes(a) PROVE LastIsOver'
  BY <1>6 DEF DestroyTakes, Goto, AfterDestroy, freeVars, exitVars, evVars, runVars
<1>7. ASSUME NEW a \in Actors, ExitSeen(a) PROVE LastIsOver'
  BY <1>7 DEF ExitSeen, Moves, Goto, freeVars, exitVars, evVars, runVars
<1>8. ASSUME NEW a \in Actors, CancelLate(a) PROVE LastIsOver'
  BY <1>8 DEF CancelLate, Goto, freeVars, exitVars, evVars, runVars
<1>9. ASSUME NEW a \in Actors, Join(a) PROVE LastIsOver'
  BY <1>9 DEF Join, Goto, AfterDestroy, freeVars, exitVars, evVars, runVars
<1>10. ASSUME NEW a \in Actors, Clear(a) PROVE LastIsOver'
  BY <1>10 DEF Clear, Goto, freeVars, exitVars, evVars, runVars
<1>11. ASSUME NEW k \in Runs, InitThread(k) PROVE LastIsOver'
  BY <1>11 DEF InitThread, Goto, freeVars, exitVars, evVars, runVars
<1>12. ASSUME NEW k \in Runs, SignalInit(k) PROVE LastIsOver'
  BY <1>12 DEF SignalInit, SignalInitTo, Goto, freeVars, exitVars, evVars, runVars
<1>13. ASSUME NEW k \in Runs, Check(k) PROVE LastIsOver'
  BY <1>13 DEF Check, Moves, Goto, freeVars, exitVars, evVars, runVars
<1>14. ASSUME NEW k \in Runs, CallDoThread(k) PROVE LastIsOver'
  BY <1>14 DEF CallDoThread, Goto, freeVars, exitVars, evVars, runVars
<1>15. ASSUME NEW k \in Runs, DoThread(k) PROVE LastIsOver'
  BY <1>15 DEF DoThread, Moves, Goto, freeVars, exitVars, evVars, runVars
<1>16. ASSUME NEW k \in Runs, Sleep(k) PROVE LastIsOver'
  BY <1>16 DEF Sleep, Moves, Goto, freeVars, exitVars, evVars, runVars
<1>17. ASSUME NEW k \in Runs, EndThread(k) PROVE LastIsOver'
  BY <1>17 DEF EndThread, Moves, Goto, freeVars, exitVars, evVars, runVars
<1>18. ASSUME NEW k \in Runs, Finish(k) PROVE LastIsOver'
  BY <1>18 DEF Finish, Goto, freeVars, exitVars, evVars, runVars
<1>19. ASSUME NEW k \in Runs, Enter(k) PROVE LastIsOver'
  BY <1>19 DEF Enter, Goto, freeVars, exitVars, evVars, runVars
<1>20. ASSUME NEW k \in Runs, SetExited(k) PROVE LastIsOver'
  BY <1>20 DEF SetExited, Goto, freeVars, exitVars, evVars, runVars
<1>21. ASSUME NEW k \in Runs, WakeOwner(k) PROVE LastIsOver'
  BY <1>21 DEF WakeOwner, Moves, Goto, freeVars, exitVars, evVars, runVars
<1>22. ASSUME NEW k \in Runs, Leave(k) PROVE LastIsOver'
  BY <1>22 DEF Leave, Moves, Goto, freeVars, exitVars, evVars, runVars
<1>23. ASSUME NEW k \in Runs, Die(k) PROVE LastIsOver'
  BY <1>23 DEF Die, Alive, freeVars, exitVars, evVars, runVars
<1> HIDE DEF Runs, Owner, Actors, TypeOK, Places, OwnerFrees, StoppedIsGone, LastIsOver, Starting, Alive
<1> QED
  BY <1>1, <1>2, <1>3, <1>4, <1>5, <1>6, <1>7, <1>8, <1>9, <1>10, <1>11,
     <1>12, <1>13, <1>14, <1>15, <1>16, <1>17, <1>18, <1>19, <1>20, <1>21,
     <1>22, <1>23
  DEF Next, StopStep, UserStep, ExitStep

\* Only the run the CThread knows writes m_bInitStatus and signals m_evInit.
LEMMA StatusStep ==
    ASSUME TypeOK, Places, OwnerFrees, StoppedIsGone, LastIsOver, StatusOfRun, [Next]_vars
    PROVE  StatusOfRun'
<1> USE DEF Runs, Owner, Actors, TypeOK, Places, OwnerFrees, StoppedIsGone, LastIsOver, StatusOfRun, Starting, StopPcs, Alive
<1>1. CASE UNCHANGED vars
  BY <1>1 DEF vars, freeVars, exitVars, evVars, runVars
<1>2. ASSUME Start PROVE StatusOfRun'
  BY <1>2 DEF Start, Goto, IsRunning, freeVars, exitVars, evVars, runVars
<1>3. ASSUME NewThread PROVE StatusOfRun'
  BY <1>3 DEF NewThread, NewThreadWith, freeVars, exitVars, evVars, runVars
<1>4. ASSUME NEW a \in Actors, Stop(a) PROVE StatusOfRun'
  BY <1>4 DEF Stop, freeVars, exitVars, evVars, runVars
<1>5. ASSUME NEW a \in Actors, DestroyReads(a) PROVE StatusOfRun'
  BY <1>5 DEF DestroyReads, Goto, AfterDestroy, freeVars, exitVars, evVars, runVars
<1>6. ASSUME NEW a \in Actors, DestroyTakes(a) PROVE StatusOfRun'
  BY <1>6 DEF DestroyTakes, Goto, AfterDestroy, freeVars, exitVars, evVars, runVars
<1>7. ASSUME NEW a \in Actors, ExitSeen(a) PROVE StatusOfRun'
  BY <1>7 DEF ExitSeen, Moves, Goto, freeVars, exitVars, evVars, runVars
<1>8. ASSUME NEW a \in Actors, CancelLate(a) PROVE StatusOfRun'
  BY <1>8 DEF CancelLate, Goto, freeVars, exitVars, evVars, runVars
<1>9. ASSUME NEW a \in Actors, Join(a) PROVE StatusOfRun'
  BY <1>9 DEF Join, Goto, AfterDestroy, freeVars, exitVars, evVars, runVars
<1>10. ASSUME NEW a \in Actors, Clear(a) PROVE StatusOfRun'
  BY <1>10 DEF Clear, Goto, freeVars, exitVars, evVars, runVars
<1>11. ASSUME NEW k \in Runs, InitThread(k) PROVE StatusOfRun'
  BY <1>11 DEF InitThread, Goto, freeVars, exitVars, evVars, runVars
<1>12. ASSUME NEW k \in Runs, SignalInit(k) PROVE StatusOfRun'
  BY <1>12 DEF SignalInit, SignalInitTo, Goto, freeVars, exitVars, evVars, runVars
<1>13. ASSUME NEW k \in Runs, Check(k) PROVE StatusOfRun'
  BY <1>13 DEF Check, Moves, Goto, freeVars, exitVars, evVars, runVars
<1>14. ASSUME NEW k \in Runs, CallDoThread(k) PROVE StatusOfRun'
  BY <1>14 DEF CallDoThread, Goto, freeVars, exitVars, evVars, runVars
<1>15. ASSUME NEW k \in Runs, DoThread(k) PROVE StatusOfRun'
  BY <1>15 DEF DoThread, Moves, Goto, freeVars, exitVars, evVars, runVars
<1>16. ASSUME NEW k \in Runs, Sleep(k) PROVE StatusOfRun'
  BY <1>16 DEF Sleep, Moves, Goto, freeVars, exitVars, evVars, runVars
<1>17. ASSUME NEW k \in Runs, EndThread(k) PROVE StatusOfRun'
  BY <1>17 DEF EndThread, Moves, Goto, freeVars, exitVars, evVars, runVars
<1>18. ASSUME NEW k \in Runs, Finish(k) PROVE StatusOfRun'
  BY <1>18 DEF Finish, Goto, freeVars, exitVars, evVars, runVars
<1>19. ASSUME NEW k \in Runs, Enter(k) PROVE StatusOfRun'
  BY <1>19 DEF Enter, Goto, freeVars, exitVars, evVars, runVars
<1>20. ASSUME NEW k \in Runs, SetExited(k) PROVE StatusOfRun'
  BY <1>20 DEF SetExited, Goto, freeVars, exitVars, evVars, runVars
<1>21. ASSUME NEW k \in Runs, WakeOwner(k) PROVE StatusOfRun'
  BY <1>21 DEF WakeOwner, Moves, Goto, freeVars, exitVars, evVars, runVars
<1>22. ASSUME NEW k \in Runs, Leave(k) PROVE StatusOfRun'
  BY <1>22 DEF Leave, Moves, Goto, freeVars, exitVars, evVars, runVars
<1>23. ASSUME NEW k \in Runs, Die(k) PROVE StatusOfRun'
  BY <1>23 DEF Die, Alive, freeVars, exitVars, evVars, runVars
<1> HIDE DEF Runs, Owner, Actors, TypeOK, Places, OwnerFrees, StoppedIsGone, LastIsOver, StatusOfRun, Starting, StopPcs, Alive
<1> QED
  BY <1>1, <1>2, <1>3, <1>4, <1>5, <1>6, <1>7, <1>8, <1>9, <1>10, <1>11,
     <1>12, <1>13, <1>14, <1>15, <1>16, <1>17, <1>18, <1>19, <1>20, <1>21,
     <1>22, <1>23
  DEF Next, StopStep, UserStep, ExitStep

\* Nobody comes back.
LEMMA KilledStep ==
    ASSUME TypeOK, Places, KilledAreGone, [Next]_vars
    PROVE  KilledAreGone'
<1> USE DEF Runs, Owner, Actors, TypeOK, Places, KilledAreGone
<1>1. CASE UNCHANGED vars
  BY <1>1 DEF vars, freeVars, exitVars, evVars, runVars
<1>2. ASSUME Start PROVE KilledAreGone'
  BY <1>2 DEF Start, Goto, IsRunning, freeVars, exitVars, evVars, runVars
<1>3. ASSUME NewThread PROVE KilledAreGone'
  <2>1. PICK k \in Runs : Makes(k)
    BY <1>3, NewRun
  <2> QED
    BY <2>1 DEF Makes, Pcs, exitVars, evVars
<1>4. ASSUME NEW a \in Actors, Stop(a) PROVE KilledAreGone'
  BY <1>4 DEF Stop, freeVars, exitVars, evVars, runVars
<1>5. ASSUME NEW a \in Actors, DestroyReads(a) PROVE KilledAreGone'
  BY <1>5 DEF DestroyReads, Goto, AfterDestroy, freeVars, exitVars, evVars, runVars
<1>6. ASSUME NEW a \in Actors, DestroyTakes(a) PROVE KilledAreGone'
  BY <1>6 DEF DestroyTakes, Goto, AfterDestroy, freeVars, exitVars, evVars, runVars
<1>7. ASSUME NEW a \in Actors, ExitSeen(a) PROVE KilledAreGone'
  BY <1>7 DEF ExitSeen, Moves, Goto, freeVars, exitVars, evVars, runVars
<1>8. ASSUME NEW a \in Actors, CancelLate(a) PROVE KilledAreGone'
  BY <1>8 DEF CancelLate, Goto, freeVars, exitVars, evVars, runVars
<1>9. ASSUME NEW a \in Actors, Join(a) PROVE KilledAreGone'
  BY <1>9 DEF Join, Goto, AfterDestroy, freeVars, exitVars, evVars, runVars
<1>10. ASSUME NEW a \in Actors, Clear(a) PROVE KilledAreGone'
  BY <1>10 DEF Clear, Goto, freeVars, exitVars, evVars, runVars
<1>11. ASSUME NEW k \in Runs, InitThread(k) PROVE KilledAreGone'
  BY <1>11 DEF InitThread, Goto, freeVars, exitVars, evVars, runVars
<1>12. ASSUME NEW k \in Runs, SignalInit(k) PROVE KilledAreGone'
  BY <1>12 DEF SignalInit, SignalInitTo, Goto, freeVars, exitVars, evVars, runVars
<1>13. ASSUME NEW k \in Runs, Check(k) PROVE KilledAreGone'
  BY <1>13 DEF Check, Moves, Goto, freeVars, exitVars, evVars, runVars
<1>14. ASSUME NEW k \in Runs, CallDoThread(k) PROVE KilledAreGone'
  BY <1>14 DEF CallDoThread, Goto, freeVars, exitVars, evVars, runVars
<1>15. ASSUME NEW k \in Runs, DoThread(k) PROVE KilledAreGone'
  BY <1>15 DEF DoThread, Moves, Goto, freeVars, exitVars, evVars, runVars
<1>16. ASSUME NEW k \in Runs, Sleep(k) PROVE KilledAreGone'
  BY <1>16 DEF Sleep, Moves, Goto, freeVars, exitVars, evVars, runVars
<1>17. ASSUME NEW k \in Runs, EndThread(k) PROVE KilledAreGone'
  BY <1>17 DEF EndThread, Moves, Goto, freeVars, exitVars, evVars, runVars
<1>18. ASSUME NEW k \in Runs, Finish(k) PROVE KilledAreGone'
  BY <1>18 DEF Finish, Goto, freeVars, exitVars, evVars, runVars
<1>19. ASSUME NEW k \in Runs, Enter(k) PROVE KilledAreGone'
  BY <1>19 DEF Enter, Goto, freeVars, exitVars, evVars, runVars
<1>20. ASSUME NEW k \in Runs, SetExited(k) PROVE KilledAreGone'
  BY <1>20 DEF SetExited, Goto, freeVars, exitVars, evVars, runVars
<1>21. ASSUME NEW k \in Runs, WakeOwner(k) PROVE KilledAreGone'
  BY <1>21 DEF WakeOwner, Moves, Goto, freeVars, exitVars, evVars, runVars
<1>22. ASSUME NEW k \in Runs, Leave(k) PROVE KilledAreGone'
  BY <1>22 DEF Leave, Moves, Goto, freeVars, exitVars, evVars, runVars
<1>23. ASSUME NEW k \in Runs, Die(k) PROVE KilledAreGone'
  BY <1>23 DEF Die, Alive, freeVars, exitVars, evVars, runVars
<1> HIDE DEF Runs, Owner, Actors, TypeOK, Places, KilledAreGone
<1> QED
  BY <1>1, <1>2, <1>3, <1>4, <1>5, <1>6, <1>7, <1>8, <1>9, <1>10, <1>11,
     <1>12, <1>13, <1>14, <1>15, <1>16, <1>17, <1>18, <1>19, <1>20, <1>21,
     <1>22, <1>23
  DEF Next, StopStep, UserStep, ExitStep

\* The count is right if the threads that are counted, and those that were when
\* they were cancelled, are the same ones ...
LEMMA SameCount ==
    ASSUME CountIsRunning, CountedRuns' = CountedRuns, killed' = killed, running' = running
    PROVE  CountIsRunning'
BY DEF CountIsRunning, CountedRuns

\* ... or there is one more, or one less, and it was counted ...
LEMMA OneMore ==
    ASSUME TypeOK, CountIsRunning, NEW k \in Runs, k \notin CountedRuns,
           CountedRuns' = CountedRuns \cup {k}, killed' = killed, running' = running + 1
    PROVE  CountIsRunning'
<1>1. IsFiniteSet(CountedRuns) /\ IsFiniteSet(killed)
  BY FiniteRuns DEF TypeOK
<1>2. Cardinality(CountedRuns) \in Nat /\ Cardinality(killed) \in Nat
  BY <1>1, FS_CardinalityType
<1>3. Cardinality(CountedRuns') = Cardinality(CountedRuns) + 1
  BY <1>1, FS_AddElement
<1> QED
  BY <1>2, <1>3 DEF CountIsRunning, CountedRuns

LEMMA OneLess ==
    ASSUME TypeOK, CountIsRunning, NEW k \in CountedRuns,
           CountedRuns' = CountedRuns \ {k}, killed' = killed,
           running' = IF running > 0 THEN running - 1 ELSE 0
    PROVE  CountIsRunning'
<1>1. IsFiniteSet(CountedRuns) /\ IsFiniteSet(killed)
  BY FiniteRuns DEF TypeOK
<1>2. Cardinality(CountedRuns) \in Nat /\ Cardinality(killed) \in Nat
  BY <1>1, FS_CardinalityType
<1>3. Cardinality(CountedRuns') = Cardinality(CountedRuns) - 1
  BY <1>1, FS_RemoveElement
<1>4. Cardinality(CountedRuns) # 0
  BY <1>1, FS_EmptySet
<1> QED
  BY <1>2, <1>3, <1>4 DEF CountIsRunning, CountedRuns

\* ... or it is cancelled.
LEMMA OneKilled ==
    ASSUME TypeOK, CountIsRunning, NEW k \in CountedRuns, k \notin killed,
           CountedRuns' = CountedRuns \ {k}, killed' = killed \cup {k}, running' = running
    PROVE  CountIsRunning'
<1>1. IsFiniteSet(CountedRuns) /\ IsFiniteSet(killed)
  BY FiniteRuns DEF TypeOK
<1>2. Cardinality(CountedRuns) \in Nat /\ Cardinality(killed) \in Nat
  BY <1>1, FS_CardinalityType
<1>3. Cardinality(CountedRuns') = Cardinality(CountedRuns) - 1
  BY <1>1, FS_RemoveElement
<1>4. Cardinality(killed') = Cardinality(killed) + 1
  BY <1>1, FS_AddElement
<1> QED
  BY <1>2, <1>3, <1>4 DEF CountIsRunning, CountedRuns

\* One thread at a time comes into the count or leaves it.
LEMMA CountStep ==
    ASSUME TypeOK, Places, KilledAreGone, CountIsRunning, [Next]_vars
    PROVE  CountIsRunning'
<1> USE DEF TypeOK, Places
<1>1. CASE UNCHANGED vars
  <2>1. CountedRuns' = CountedRuns /\ killed' = killed /\ running' = running
    BY <1>1 DEF vars, exitVars, runVars, CountedRuns
  <2> QED
    BY <2>1, SameCount
<1>2. ASSUME Start PROVE CountIsRunning'
  <2>1. CountedRuns' = CountedRuns
    BY <1>2 DEF Start, Goto, IsRunning, CountedRuns, Counted, UserPcs, StopPcs, Runs, Owner
  <2>2. killed' = killed /\ running' = running
    BY <1>2 DEF Start, Goto, IsRunning, exitVars, runVars, freeVars, evVars
  <2> QED
    BY <2>1, <2>2, SameCount
<1>3. ASSUME NewThread PROVE CountIsRunning'
  <2>1. PICK k \in Runs : Makes(k)
    BY <1>3, NewRun
  <2>2. CountedRuns' = CountedRuns
    BY <2>1 DEF Makes, CountedRuns, Counted, UserPcs, StopPcs, Runs, Actors, Owner
  <2>3. killed' = killed /\ running' = running
    BY <2>1 DEF Makes, exitVars
  <2> QED
    BY <2>2, <2>3, SameCount
<1>4. ASSUME NEW a \in Actors, Stop(a) PROVE CountIsRunning'
  <2>1. CountedRuns' = CountedRuns
    BY <1>4 DEF Stop, CountedRuns, Counted, UserPcs, StopPcs, Runs, Owner
  <2>2. killed' = killed /\ running' = running
    BY <1>4 DEF Stop, exitVars, runVars, freeVars, evVars
  <2> QED
    BY <2>1, <2>2, SameCount
<1>5. ASSUME NEW a \in Actors, DestroyReads(a) PROVE CountIsRunning'
  <2>1. CountedRuns' = CountedRuns
    BY <1>5 DEF DestroyReads, Goto, AfterDestroy, CountedRuns, Counted, UserPcs, StopPcs, Runs, Owner
  <2>2. killed' = killed /\ running' = running
    BY <1>5 DEF DestroyReads, Goto, AfterDestroy, exitVars, runVars, freeVars, evVars
  <2> QED
    BY <2>1, <2>2, SameCount
<1>6. ASSUME NEW a \in Actors, DestroyTakes(a) PROVE CountIsRunning'
  <2>1. CountedRuns' = CountedRuns
    BY <1>6 DEF DestroyTakes, Goto, AfterDestroy, CountedRuns, Counted, UserPcs, StopPcs, Runs, Owner
  <2>2. killed' = killed /\ running' = running
    BY <1>6 DEF DestroyTakes, Goto, AfterDestroy, exitVars, runVars, freeVars, evVars
  <2> QED
    BY <2>1, <2>2, SameCount
<1>7. ASSUME NEW a \in Actors, ExitSeen(a) PROVE CountIsRunning'
  <2>1. CountedRuns' = CountedRuns
    BY <1>7 DEF ExitSeen, Moves, Goto, CountedRuns, Counted, UserPcs, StopPcs, Runs, Owner
  <2>2. killed' = killed /\ running' = running
    BY <1>7 DEF ExitSeen, Moves, Goto, exitVars, runVars, freeVars, evVars
  <2> QED
    BY <2>1, <2>2, SameCount
<1>8. ASSUME NEW a \in Actors, CancelLate(a) PROVE CountIsRunning'
  <2>1. running' = running
    BY <1>8 DEF CancelLate, runVars
  <2>2. CASE hold[a] = a
    <3>1. a \in CountedRuns /\ CountedRuns' = CountedRuns \ {a}
      BY <1>8, <2>2 DEF CancelLate, Goto, CountedRuns, Counted, UserPcs, StopPcs, Actors, Owner
    <3>2. killed' = killed \cup {a} /\ a \notin killed
      BY <1>8, <2>2 DEF CancelLate, Goto, KilledAreGone
    <3> QED
      BY <2>1, <3>1, <3>2, OneKilled
  <2>3. CASE hold[a] # a
    <3>1. CountedRuns' = CountedRuns
      BY <1>8, <2>3 DEF CancelLate, Goto, CountedRuns, Counted, UserPcs, StopPcs
    <3>2. killed' = killed
      BY <1>8, <2>3 DEF CancelLate
    <3> QED
      BY <2>1, <3>1, <3>2, SameCount
  <2> QED
    BY <2>2, <2>3
<1>9. ASSUME NEW a \in Actors, Join(a) PROVE CountIsRunning'
  <2>1. CountedRuns' = CountedRuns
    BY <1>9 DEF Join, Goto, AfterDestroy, CountedRuns, Counted, UserPcs, StopPcs, Runs, Owner
  <2>2. killed' = killed /\ running' = running
    BY <1>9 DEF Join, Goto, AfterDestroy, exitVars, runVars, freeVars, evVars
  <2> QED
    BY <2>1, <2>2, SameCount
<1>10. ASSUME NEW a \in Actors, Clear(a) PROVE CountIsRunning'
  <2>1. CountedRuns' = CountedRuns
    BY <1>10 DEF Clear, Goto, CountedRuns, Counted, UserPcs, StopPcs, Runs, Owner
  <2>2. killed' = killed /\ running' = running
    BY <1>10 DEF Clear, Goto, exitVars, runVars, freeVars, evVars
  <2> QED
    BY <2>1, <2>2, SameCount
<1>11. ASSUME NEW k \in Runs, InitThread(k) PROVE CountIsRunning'
  <2>1. CountedRuns' = CountedRuns
    BY <1>11 DEF InitThread, Goto, CountedRuns, Counted, UserPcs, StopPcs, Runs, Owner
  <2>2. killed' = killed /\ running' = running
    BY <1>11 DEF InitThread, Goto, exitVars, runVars, freeVars, evVars
  <2> QED
    BY <2>1, <2>2, SameCount
<1>12. ASSUME NEW k \in Runs, SignalInit(k) PROVE CountIsRunning'
  <2>1. CountedRuns' = CountedRuns
    BY <1>12 DEF SignalInit, SignalInitTo, Goto, CountedRuns, Counted, UserPcs, StopPcs, Runs, Owner
  <2>2. killed' = killed /\ running' = running
    BY <1>12 DEF SignalInit, SignalInitTo, Goto, exitVars, runVars, freeVars, evVars
  <2> QED
    BY <2>1, <2>2, SameCount
<1>13. ASSUME NEW k \in Runs, Check(k) PROVE CountIsRunning'
  <2>1. CountedRuns' = CountedRuns
    BY <1>13 DEF Check, Moves, Goto, CountedRuns, Counted, UserPcs, StopPcs, Runs, Owner
  <2>2. killed' = killed /\ running' = running
    BY <1>13 DEF Check, Moves, Goto, exitVars, runVars, freeVars, evVars
  <2> QED
    BY <2>1, <2>2, SameCount
<1>14. ASSUME NEW k \in Runs, CallDoThread(k) PROVE CountIsRunning'
  <2>1. CountedRuns' = CountedRuns
    BY <1>14 DEF CallDoThread, Goto, CountedRuns, Counted, UserPcs, StopPcs, Runs, Owner
  <2>2. killed' = killed /\ running' = running
    BY <1>14 DEF CallDoThread, Goto, exitVars, runVars, freeVars, evVars
  <2> QED
    BY <2>1, <2>2, SameCount
<1>15. ASSUME NEW k \in Runs, DoThread(k) PROVE CountIsRunning'
  <2>1. CountedRuns' = CountedRuns
    BY <1>15 DEF DoThread, Moves, Goto, CountedRuns, Counted, UserPcs, StopPcs, Runs, Owner
  <2>2. killed' = killed /\ running' = running
    BY <1>15 DEF DoThread, Moves, Goto, exitVars, runVars, freeVars, evVars
  <2> QED
    BY <2>1, <2>2, SameCount
<1>16. ASSUME NEW k \in Runs, Sleep(k) PROVE CountIsRunning'
  <2>1. CountedRuns' = CountedRuns
    BY <1>16 DEF Sleep, Moves, Goto, CountedRuns, Counted, UserPcs, StopPcs, Runs, Owner
  <2>2. killed' = killed /\ running' = running
    BY <1>16 DEF Sleep, Moves, Goto, exitVars, runVars, freeVars, evVars
  <2> QED
    BY <2>1, <2>2, SameCount
<1>17. ASSUME NEW k \in Runs, EndThread(k) PROVE CountIsRunning'
  <2>1. CountedRuns' = CountedRuns
    BY <1>17 DEF EndThread, Moves, Goto, CountedRuns, Counted, UserPcs, StopPcs, Runs, Owner
  <2>2. killed' = killed /\ running' = running
    BY <1>17 DEF EndThread, Moves, Goto, exitVars, runVars, freeVars, evVars
  <2> QED
    BY <2>1, <2>2, SameCount
<1>18. ASSUME NEW k \in Runs, Finish(k) PROVE CountIsRunning'
  <2>1. CountedRuns' = CountedRuns \ {k} /\ k \in CountedRuns
    BY <1>18 DEF Finish, Goto, CountedRuns, Counted, UserPcs, StopPcs, Actors
  <2>2. killed' = killed /\ running' = IF running > 0 THEN running - 1 ELSE 0
    BY <1>18 DEF Finish, exitVars
  <2> QED
    BY <2>1, <2>2, OneLess
<1>19. ASSUME NEW k \in Runs, Enter(k) PROVE CountIsRunning'
  <2>1. CountedRuns' = CountedRuns \cup {k} /\ k \notin CountedRuns
    BY <1>19 DEF Enter, Goto, CountedRuns, Counted, UserPcs, StopPcs, Actors
  <2>2. killed' = killed /\ running' = running + 1
    BY <1>19 DEF Enter, exitVars
  <2> QED
    BY <2>1, <2>2, OneMore
<1>20. ASSUME NEW k \in Runs, SetExited(k) PROVE CountIsRunning'
  <2>1. CountedRuns' = CountedRuns
    BY <1>20 DEF SetExited, Goto, CountedRuns, Counted, UserPcs, StopPcs, Runs, Owner
  <2>2. killed' = killed /\ running' = running
    BY <1>20 DEF SetExited, Goto, exitVars, runVars, freeVars, evVars
  <2> QED
    BY <2>1, <2>2, SameCount
<1>21. ASSUME NEW k \in Runs, WakeOwner(k) PROVE CountIsRunning'
  <2>1. CountedRuns' = CountedRuns
    BY <1>21 DEF WakeOwner, Moves, Goto, CountedRuns, Counted, UserPcs, StopPcs, Runs, Owner
  <2>2. killed' = killed /\ running' = running
    BY <1>21 DEF WakeOwner, Moves, Goto, exitVars, runVars, freeVars, evVars
  <2> QED
    BY <2>1, <2>2, SameCount
<1>22. ASSUME NEW k \in Runs, Leave(k) PROVE CountIsRunning'
  <2>1. CountedRuns' = CountedRuns
    BY <1>22 DEF Leave, Moves, Goto, CountedRuns, Counted, UserPcs, StopPcs, Runs, Owner
  <2>2. killed' = killed /\ running' = running
    BY <1>22 DEF Leave, Moves, Goto, exitVars, runVars, freeVars, evVars
  <2> QED
    BY <2>1, <2>2, SameCount
<1>23. ASSUME NEW k \in Runs, Die(k) PROVE CountIsRunning'
  <2>1. running' = running
    BY <1>23 DEF Die, runVars
  <2>2. CASE pc[k] \in Counted
    <3>1. k \in CountedRuns /\ CountedRuns' = CountedRuns \ {k}
      BY <1>23, <2>2 DEF Die, CountedRuns, Counted, UserPcs, StopPcs, Actors
    <3>2. killed' = killed \cup {k} /\ k \notin killed
      BY <1>23, <2>2 DEF Die, Alive, KilledAreGone
    <3> QED
      BY <2>1, <3>1, <3>2, OneKilled
  <2>3. CASE pc[k] \notin Counted
    <3>1. CountedRuns' = CountedRuns
      BY <1>23, <2>3 DEF Die, CountedRuns, Counted, UserPcs, StopPcs
    <3>2. killed' = killed
      BY <1>23, <2>3 DEF Die
    <3> QED
      BY <2>1, <3>1, <3>2, SameCount
  <2> QED
    BY <2>2, <2>3
<1> HIDE DEF TypeOK, Places
<1> QED
  BY <1>1, <1>2, <1>3, <1>4, <1>5, <1>6, <1>7, <1>8, <1>9, <1>10, <1>11,
     <1>12, <1>13, <1>14, <1>15, <1>16, <1>17, <1>18, <1>19, <1>20, <1>21,
     <1>22, <1>23
  DEF Next, StopStep, UserStep, ExitStep

LEMMA InitIInv == Init => IInv
<1> SUFFICES ASSUME Init PROVE IInv
  OBVIOUS
<1> USE DEF Init, Runs, Owner, Actors
<1>1. TypeOK
  <2>1. pc \in [Actors -> Pcs]
    BY DEF Pcs
  <2>2. /\ handle \in 0 .. starts /\ hold \in [Actors -> 0 .. starts]
        /\ refs \in [Runs -> 0 .. 2] /\ data \in 0 .. MaxStarts /\ running \in Nat
        /\ starts \in 0 .. MaxStarts /\ killed \subseteq Runs /\ late \in 0 .. 2
    OBVIOUS
  <2>3. /\ exited \in [Runs -> BOOLEAN] /\ cancel \in [Runs -> BOOLEAN]
        /\ result \in [Runs -> BOOLEAN]
    OBVIOUS
  <2>4. /\ then \in {"stop", "start"} /\ evStop \in BOOLEAN /\ evInit \in BOOLEAN
        /\ initStatus \in BOOLEAN /\ selfStops \in BOOLEAN
    OBVIOUS
  <2> QED
    BY <2>1, <2>2, <2>3, <2>4 DEF TypeOK
<1>2. Places /\ OwnerFrees /\ LastIsOver /\ StatusOfRun /\ KilledAreGone
  BY DEF Places, Starting, OwnerFrees, LastIsOver, StatusOfRun, KilledAreGone, StopPcs
<1>3. StoppedIsGone
  BY DEF StoppedIsGone, Alive
<1>4. CountedRuns = {} /\ killed = {} /\ running = 0
  BY DEF CountedRuns, Counted, UserPcs, StopPcs
<1>5. CountIsRunning
  <2>1. Cardinality(CountedRuns) = 0 /\ Cardinality(killed) = 0
    BY <1>4, FS_EmptySet
  <2> HIDE DEF Init, Runs, Owner, Actors
  <2> QED
    BY <1>4, <2>1 DEF CountIsRunning, CountedRuns
<1> QED
  BY <1>1, <1>2, <1>3, <1>5 DEF IInv

LEMMA StepIInv == IInv /\ [Next]_vars => IInv'
BY TypeStep, PlacesStep, FreesStep, GoneStep, OverStep, StatusStep, KilledStep, CountStep
   DEF IInv

\* Every reachable state has well-typed variables.
THEOREM Types == Spec => []TypeOK
<1>1. IInv => TypeOK
  BY DEF IInv
<1> QED
  BY InitIInv, StepIInv, <1>1, PTL DEF Spec

\* A SResourceInfo is freed only after its thread's last use of it and by whoever
\* uses it last.
THEOREM RiIsNotFreedTooSoon == Spec => []RiIsThere
<1>1. IInv => RiIsThere
  <2> SUFFICES ASSUME IInv, ~selfStops PROVE
                 /\ \A k \in Runs : pc[k] \in {"born", "done", "wake"} => refs[k] > 0
                 /\ \A a \in Actors : pc[a] \in {"free", "join"} => refs[hold[a]] > 0
    BY DEF RiIsThere
  <2>1. \A k \in Runs : pc[k] \in {"born", "done", "wake"} => refs[k] > 0
    BY DEF IInv, OwnerFrees, StoppedIsGone, Alive, Runs
  <2>2. \A a \in Actors : pc[a] \in {"free", "join"} => refs[hold[a]] > 0
    BY DEF IInv, OwnerFrees, StopPcs, Actors
  <2> QED
    BY <2>1, <2>2
<1> QED
  BY InitIInv, StepIInv, <1>1, PTL DEF Spec

\* A thread of which the CThread knows nothing any more, and that nobody is
\* freeing, is over.
THEOREM OneThreadAtATime == Spec => []StoppedIsGone
<1>1. IInv => StoppedIsGone
  BY DEF IInv
<1> QED
  BY InitIInv, StepIInv, <1>1, PTL DEF Spec

\* Whoever finds m_evInit signalled reads what InitThread of this run returned.
THEOREM InitStatusIsOfThisRun == Spec => []InitStatusIsValid
<1>1. IInv => InitStatusIsValid
  BY DEF IInv, StatusOfRun, InitStatusIsValid
<1> QED
  BY InitIInv, StepIInv, <1>1, PTL DEF Spec

\* m_lRunningThreadCount counts the threads that run, and for ever those that
\* were cancelled while they did.
THEOREM CountIsExact == Spec => []CountIsRunning
<1>1. IInv => CountIsRunning
  BY DEF IInv
<1> QED
  BY InitIInv, StepIInv, <1>1, PTL DEF Spec
-----------------------------------------------------------------------------
(* m_evStop is heeded, also where a thread stops itself.                     *)

\* Where a thread may still come to call DoThread, as far as it knows.
Onward ==
    {"born", "init", "inited", "check", "ready", "do", "sleep", "end", "finish",
     "destroy", "take", "cleared"}

\* Only the last run goes on, and the CThread knows it or its owner is freeing it.
OnlyLast ==
    \A k \in Runs : pc[k] \in Onward =>
        k = starts /\ (handle = k \/ pc[Owner] \in {"free", "join"})

\* The last run's pRi is in the handle until one of the two that may take it does,
\* and a thread can only take its own.
Takers ==
    /\ handle \in {0, starts}
    /\ \A k \in Runs : pc[k] # "join" /\ (pc[k] \in {"take", "free"} => hold[k] = k)
    /\ \A a \in Actors : pc[a] = "take" => handle \in {0, hold[a]}
    /\ \A k \in Runs : refs[k] = 2 <=> handle = k
    /\ pc[Owner] \in {"free", "join", "cleared", "new"} => handle = 0
    /\ pc[Owner] \in {"free", "join"} => hold[Owner] = starts

\* A call that began late is the last: nobody is about to begin another.
OneLate == late = 0 \/ (late = 1 /\ evStop /\ \A k \in Runs : pc[k] # "ready")

PromptInv == TypeOK /\ Places /\ OnlyLast /\ Takers /\ OneLate

\* A run is forgotten by its owner before the next begins, or by itself as it ends.
LEMMA OnlyLastStep == ASSUME TypeOK, Places, OnlyLast, Takers, [Next]_vars PROVE OnlyLast'
<1> USE DEF Runs, Owner, Actors, TypeOK, Places, OnlyLast, Takers, Onward
<1>1. CASE UNCHANGED vars
  BY <1>1 DEF vars, freeVars, exitVars, evVars, runVars
<1>2. ASSUME Start PROVE OnlyLast'
  BY <1>2 DEF Start, Goto, IsRunning, freeVars, exitVars, evVars, runVars
<1>3. ASSUME NewThread PROVE OnlyLast'
  <2>1. PICK k \in Runs : Makes(k)
    BY <1>3, NewRun
  <2> QED
    BY <2>1 DEF Makes, exitVars, evVars
<1>4. ASSUME NEW a \in Actors, Stop(a) PROVE OnlyLast'
  BY <1>4 DEF Stop, freeVars, exitVars, evVars, runVars
<1>5. ASSUME NEW a \in Actors, DestroyReads(a) PROVE OnlyLast'
  BY <1>5 DEF DestroyReads, Goto, AfterDestroy, freeVars, exitVars, evVars, runVars
<1>6. ASSUME NEW a \in Actors, DestroyTakes(a) PROVE OnlyLast'
  BY <1>6 DEF DestroyTakes, Goto, AfterDestroy, freeVars, exitVars, evVars, runVars
<1>7. ASSUME NEW a \in Actors, ExitSeen(a) PROVE OnlyLast'
  BY <1>7 DEF ExitSeen, Moves, Goto, freeVars, exitVars, evVars, runVars
<1>8. ASSUME NEW a \in Actors, CancelLate(a) PROVE OnlyLast'
  BY <1>8 DEF CancelLate, Goto, freeVars, exitVars, evVars, runVars
<1>9. ASSUME NEW a \in Actors, Join(a) PROVE OnlyLast'
  BY <1>9 DEF Join, Goto, AfterDestroy, freeVars, exitVars, evVars, runVars
<1>10. ASSUME NEW a \in Actors, Clear(a) PROVE OnlyLast'
  BY <1>10 DEF Clear, Goto, freeVars, exitVars, evVars, runVars
<1>11. ASSUME NEW k \in Runs, InitThread(k) PROVE OnlyLast'
  BY <1>11 DEF InitThread, Goto, freeVars, exitVars, evVars, runVars
<1>12. ASSUME NEW k \in Runs, SignalInit(k) PROVE OnlyLast'
  BY <1>12 DEF SignalInit, SignalInitTo, Goto, freeVars, exitVars, evVars, runVars
<1>13. ASSUME NEW k \in Runs, Check(k) PROVE OnlyLast'
  BY <1>13 DEF Check, Moves, Goto, freeVars, exitVars, evVars, runVars
<1>14. ASSUME NEW k \in Runs, CallDoThread(k) PROVE OnlyLast'
  BY <1>14 DEF CallDoThread, Goto, freeVars, exitVars, evVars, runVars
<1>15. ASSUME NEW k \in Runs, DoThread(k) PROVE OnlyLast'
  BY <1>15 DEF DoThread, Moves, Goto, freeVars, exitVars, evVars, runVars
<1>16. ASSUME NEW k \in Runs, Sleep(k) PROVE OnlyLast'
  BY <1>16 DEF Sleep, Moves, Goto, freeVars, exitVars, evVars, runVars
<1>17. ASSUME NEW k \in Runs, EndThread(k) PROVE OnlyLast'
  BY <1>17 DEF EndThread, Moves, Goto, freeVars, exitVars, evVars, runVars
<1>18. ASSUME NEW k \in Runs, Finish(k) PROVE OnlyLast'
  BY <1>18 DEF Finish, Goto, freeVars, exitVars, evVars, runVars
<1>19. ASSUME NEW k \in Runs, Enter(k) PROVE OnlyLast'
  BY <1>19 DEF Enter, Goto, freeVars, exitVars, evVars, runVars
<1>20. ASSUME NEW k \in Runs, SetExited(k) PROVE OnlyLast'
  BY <1>20 DEF SetExited, Goto, freeVars, exitVars, evVars, runVars
<1>21. ASSUME NEW k \in Runs, WakeOwner(k) PROVE OnlyLast'
  BY <1>21 DEF WakeOwner, Moves, Goto, freeVars, exitVars, evVars, runVars
<1>22. ASSUME NEW k \in Runs, Leave(k) PROVE OnlyLast'
  BY <1>22 DEF Leave, Moves, Goto, freeVars, exitVars, evVars, runVars
<1>23. ASSUME NEW k \in Runs, Die(k) PROVE OnlyLast'
  BY <1>23 DEF Die, Alive, freeVars, exitVars, evVars, runVars
<1> HIDE DEF Runs, Owner, Actors, TypeOK, Places, OnlyLast, Takers, Onward
<1> QED
  BY <1>1, <1>2, <1>3, <1>4, <1>5, <1>6, <1>7, <1>8, <1>9, <1>10, <1>11, <1>12,
     <1>13, <1>14, <1>15, <1>16, <1>17, <1>18, <1>19, <1>20, <1>21, <1>22, <1>23
  DEF Next, StopStep, UserStep, ExitStep

\* The handle is cleared by the first who takes it, who alone finds two references.
LEMMA TakersStep == ASSUME TypeOK, Places, OnlyLast, Takers, [Next]_vars PROVE Takers'
<1> USE DEF Runs, Owner, Actors, TypeOK, Places, OnlyLast, Takers, Onward
<1>1. CASE UNCHANGED vars
  BY <1>1 DEF vars, freeVars, exitVars, evVars, runVars
<1>2. ASSUME Start PROVE Takers'
  BY <1>2 DEF Start, Goto, IsRunning, freeVars, exitVars, evVars, runVars
<1>3. ASSUME NewThread PROVE Takers'
  <2>1. PICK k \in Runs : Makes(k)
    BY <1>3, NewRun
  <2> QED
    BY <2>1 DEF Makes, exitVars, evVars
<1>4. ASSUME NEW a \in Actors, Stop(a) PROVE Takers'
  BY <1>4 DEF Stop, freeVars, exitVars, evVars, runVars
<1>5. ASSUME NEW a \in Actors, DestroyReads(a) PROVE Takers'
  BY <1>5 DEF DestroyReads, Goto, AfterDestroy, freeVars, exitVars, evVars, runVars
<1>6. ASSUME NEW a \in Actors, DestroyTakes(a) PROVE Takers'
  BY <1>6 DEF DestroyTakes, Goto, AfterDestroy, freeVars, exitVars, evVars, runVars
<1>7. ASSUME NEW a \in Actors, ExitSeen(a) PROVE Takers'
  BY <1>7 DEF ExitSeen, Moves, Goto, freeVars, exitVars, evVars, runVars
<1>8. ASSUME NEW a \in Actors, CancelLate(a) PROVE Takers'
  BY <1>8 DEF CancelLate, Goto, freeVars, exitVars, evVars, runVars
<1>9. ASSUME NEW a \in Actors, Join(a) PROVE Takers'
  BY <1>9 DEF Join, Goto, AfterDestroy, freeVars, exitVars, evVars, runVars
<1>10. ASSUME NEW a \in Actors, Clear(a) PROVE Takers'
  BY <1>10 DEF Clear, Goto, freeVars, exitVars, evVars, runVars
<1>11. ASSUME NEW k \in Runs, InitThread(k) PROVE Takers'
  BY <1>11 DEF InitThread, Goto, freeVars, exitVars, evVars, runVars
<1>12. ASSUME NEW k \in Runs, SignalInit(k) PROVE Takers'
  BY <1>12 DEF SignalInit, SignalInitTo, Goto, freeVars, exitVars, evVars, runVars
<1>13. ASSUME NEW k \in Runs, Check(k) PROVE Takers'
  BY <1>13 DEF Check, Moves, Goto, freeVars, exitVars, evVars, runVars
<1>14. ASSUME NEW k \in Runs, CallDoThread(k) PROVE Takers'
  BY <1>14 DEF CallDoThread, Goto, freeVars, exitVars, evVars, runVars
<1>15. ASSUME NEW k \in Runs, DoThread(k) PROVE Takers'
  BY <1>15 DEF DoThread, Moves, Goto, freeVars, exitVars, evVars, runVars
<1>16. ASSUME NEW k \in Runs, Sleep(k) PROVE Takers'
  BY <1>16 DEF Sleep, Moves, Goto, freeVars, exitVars, evVars, runVars
<1>17. ASSUME NEW k \in Runs, EndThread(k) PROVE Takers'
  BY <1>17 DEF EndThread, Moves, Goto, freeVars, exitVars, evVars, runVars
<1>18. ASSUME NEW k \in Runs, Finish(k) PROVE Takers'
  BY <1>18 DEF Finish, Goto, freeVars, exitVars, evVars, runVars
<1>19. ASSUME NEW k \in Runs, Enter(k) PROVE Takers'
  BY <1>19 DEF Enter, Goto, freeVars, exitVars, evVars, runVars
<1>20. ASSUME NEW k \in Runs, SetExited(k) PROVE Takers'
  BY <1>20 DEF SetExited, Goto, freeVars, exitVars, evVars, runVars
<1>21. ASSUME NEW k \in Runs, WakeOwner(k) PROVE Takers'
  BY <1>21 DEF WakeOwner, Moves, Goto, freeVars, exitVars, evVars, runVars
<1>22. ASSUME NEW k \in Runs, Leave(k) PROVE Takers'
  BY <1>22 DEF Leave, Moves, Goto, freeVars, exitVars, evVars, runVars
<1>23. ASSUME NEW k \in Runs, Die(k) PROVE Takers'
  BY <1>23 DEF Die, Alive, freeVars, exitVars, evVars, runVars
<1> HIDE DEF Runs, Owner, Actors, TypeOK, Places, OnlyLast, Takers, Onward
<1> QED
  BY <1>1, <1>2, <1>3, <1>4, <1>5, <1>6, <1>7, <1>8, <1>9, <1>10, <1>11, <1>12,
     <1>13, <1>14, <1>15, <1>16, <1>17, <1>18, <1>19, <1>20, <1>21, <1>22, <1>23
  DEF Next, StopStep, UserStep, ExitStep

\* A thread that has seen m_evStop does not call DoThread again.
LEMMA OneLateStep == ASSUME TypeOK, OnlyLast, OneLate, [Next]_vars PROVE OneLate'
<1> USE DEF Runs, Owner, Actors, TypeOK, OnlyLast, OneLate, Onward
<1>1. CASE UNCHANGED vars
  BY <1>1 DEF vars, freeVars, exitVars, evVars, runVars
<1>2. ASSUME Start PROVE OneLate'
  BY <1>2 DEF Start, Goto, IsRunning, freeVars, exitVars, evVars, runVars
<1>3. ASSUME NewThread PROVE OneLate'
  BY <1>3 DEF NewThread, NewThreadWith, evVars
<1>4. ASSUME NEW a \in Actors, Stop(a) PROVE OneLate'
  BY <1>4 DEF Stop, freeVars, exitVars, evVars, runVars
<1>5. ASSUME NEW a \in Actors, DestroyReads(a) PROVE OneLate'
  BY <1>5 DEF DestroyReads, Goto, AfterDestroy, freeVars, exitVars, evVars, runVars
<1>6. ASSUME NEW a \in Actors, DestroyTakes(a) PROVE OneLate'
  BY <1>6 DEF DestroyTakes, Goto, AfterDestroy, freeVars, exitVars, evVars, runVars
<1>7. ASSUME NEW a \in Actors, ExitSeen(a) PROVE OneLate'
  BY <1>7 DEF ExitSeen, Moves, Goto, freeVars, exitVars, evVars, runVars
<1>8. ASSUME NEW a \in Actors, CancelLate(a) PROVE OneLate'
  BY <1>8 DEF CancelLate, Goto, freeVars, exitVars, evVars, runVars
<1>9. ASSUME NEW a \in Actors, Join(a) PROVE OneLate'
  BY <1>9 DEF Join, Goto, AfterDestroy, freeVars, exitVars, evVars, runVars
<1>10. ASSUME NEW a \in Actors, Clear(a) PROVE OneLate'
  BY <1>10 DEF Clear, Goto, freeVars, exitVars, evVars, runVars
<1>11. ASSUME NEW k \in Runs, InitThread(k) PROVE OneLate'
  BY <1>11 DEF InitThread, Goto, freeVars, exitVars, evVars, runVars
<1>12. ASSUME NEW k \in Runs, SignalInit(k) PROVE OneLate'
  BY <1>12 DEF SignalInit, SignalInitTo, Goto, freeVars, exitVars, evVars, runVars
<1>13. ASSUME NEW k \in Runs, Check(k) PROVE OneLate'
  BY <1>13 DEF Check, Moves, Goto, freeVars, exitVars, evVars, runVars
<1>14. ASSUME NEW k \in Runs, CallDoThread(k) PROVE OneLate'
  BY <1>14 DEF CallDoThread, Goto, freeVars, exitVars, evVars, runVars
<1>15. ASSUME NEW k \in Runs, DoThread(k) PROVE OneLate'
  BY <1>15 DEF DoThread, Moves, Goto, freeVars, exitVars, evVars, runVars
<1>16. ASSUME NEW k \in Runs, Sleep(k) PROVE OneLate'
  BY <1>16 DEF Sleep, Moves, Goto, freeVars, exitVars, evVars, runVars
<1>17. ASSUME NEW k \in Runs, EndThread(k) PROVE OneLate'
  BY <1>17 DEF EndThread, Moves, Goto, freeVars, exitVars, evVars, runVars
<1>18. ASSUME NEW k \in Runs, Finish(k) PROVE OneLate'
  BY <1>18 DEF Finish, Goto, freeVars, exitVars, evVars, runVars
<1>19. ASSUME NEW k \in Runs, Enter(k) PROVE OneLate'
  BY <1>19 DEF Enter, Goto, freeVars, exitVars, evVars, runVars
<1>20. ASSUME NEW k \in Runs, SetExited(k) PROVE OneLate'
  BY <1>20 DEF SetExited, Goto, freeVars, exitVars, evVars, runVars
<1>21. ASSUME NEW k \in Runs, WakeOwner(k) PROVE OneLate'
  BY <1>21 DEF WakeOwner, Moves, Goto, freeVars, exitVars, evVars, runVars
<1>22. ASSUME NEW k \in Runs, Leave(k) PROVE OneLate'
  BY <1>22 DEF Leave, Moves, Goto, freeVars, exitVars, evVars, runVars
<1>23. ASSUME NEW k \in Runs, Die(k) PROVE OneLate'
  BY <1>23 DEF Die, Alive, freeVars, exitVars, evVars, runVars
<1> HIDE DEF Runs, Owner, Actors, TypeOK, OnlyLast, OneLate, Onward
<1> QED
  BY <1>1, <1>2, <1>3, <1>4, <1>5, <1>6, <1>7, <1>8, <1>9, <1>10, <1>11, <1>12,
     <1>13, <1>14, <1>15, <1>16, <1>17, <1>18, <1>19, <1>20, <1>21, <1>22, <1>23
  DEF Next, StopStep, UserStep, ExitStep

LEMMA PromptStep == PromptInv /\ [Next]_vars => PromptInv'
BY TypeStep, PlacesStep, OnlyLastStep, TakersStep, OneLateStep DEF PromptInv

\* Once m_evStop is signalled one call of DoThread begins at most, whoever signalled
\* it and however the thread is freed.
THEOREM StopIsHeeded == Spec => []StopIsPrompt
<1>1. Init => PromptInv
  <2> SUFFICES ASSUME Init PROVE PromptInv
    OBVIOUS
  <2>1. TypeOK /\ Places
    BY InitIInv DEF IInv
  <2>2. OnlyLast /\ Takers /\ OneLate
    BY DEF Init, OnlyLast, Onward, Takers, OneLate, Runs, Owner, Actors
  <2> QED
    BY <2>1, <2>2 DEF PromptInv
<1>2. PromptInv => StopIsPrompt
  BY DEF PromptInv, OneLate, StopIsPrompt
<1> QED
  BY <1>1, <1>2, PromptStep, PTL DEF Spec
=============================================================================
