----------------------------- MODULE ThreadLife -----------------------------
(***************************************************************************)
(* The life of the thread behind one CThread: its owner starts and stops   *)
(* it, again and again, while the thread runs InitThread, DoThread and     *)
(* EndThread.  The k-th start makes the k-th SResourceInfo (pRi), which    *)
(* holds the pthread and an event (cSync) that says the thread is done;    *)
(* owner and thread both use it, and FreeRi frees it.                      *)
(*                                                                         *)
(* Stop() signals m_evStop, waits, and has FreeRi wait again, cancel a     *)
(* thread that is late, and join it.  A script's thread may call Stop() on *)
(* itself (the message terminate_thread): selfStops says that it may.      *)
(* A wait with a timeout ends on its event or at any time.  Threads are    *)
(* cancelled asynchronously: between any two steps.  That a pthread cannot *)
(* be created is not modelled.                                             *)
(***************************************************************************)
EXTENDS Integers, FiniteSets

CONSTANT MaxStarts          \* bound: how often the thread is started

ASSUME MaxStartsIsPositive == MaxStarts \in Nat \ {0}

Runs == 1 .. MaxStarts
Owner == 0
Actors == {Owner} \cup Runs

VARIABLES
    pc,         \* where the owner and the threads are
    handle,     \* m_hHandle: the run whose pRi it is, or 0
    hold,       \* the pRi that an actor has in Destroy() and FreeRi()
    then,       \* what the owner's FreeRi() is part of: "stop" or "start"
    refs,       \* references to every pRi; freed at 0
    exited,     \* cSync of every pRi is signalled
    cancel,     \* pthread_cancel was called on the thread
    evStop,     \* m_evStop
    evInit,     \* m_evInit
    initStatus, \* m_bInitStatus
    data,       \* m_pData: which run's, or 0
    running,    \* m_lRunningThreadCount
    starts,     \* how often it was started
    selfStops,  \* DoThread may call Stop()
    result,     \* history: what InitThread returned in every run
    killed,     \* history: runs cancelled while they were counted
    late        \* history: calls of DoThread begun since m_evStop was signalled

freeVars == <<handle, hold, then, refs>>
exitVars == <<exited, cancel, killed>>
evVars == <<evStop, evInit, initStatus, late>>
runVars == <<data, running, starts, selfStops, result>>
vars == <<pc, freeVars, exitVars, evVars, runVars>>

\* Where a thread is while it is counted, in the user's functions or in Stop().
UserPcs == {"init", "inited", "check", "ready", "do", "sleep", "end", "finish"}
StopPcs == {"destroy", "take", "free", "join", "cleared"}
Counted == UserPcs \cup StopPcs
Pcs == Counted \cup {"idle", "new", "none", "born", "done", "wake", "leave", "gone"}
Alive(k) == pc[k] \notin {"none", "gone"}

Init ==
    /\ pc = [a \in Actors |-> IF a = Owner THEN "idle" ELSE "none"]
    /\ handle = 0
    /\ hold = [a \in Actors |-> 0]
    /\ then = "stop"
    /\ refs = [k \in Runs |-> 0]
    /\ exited = [k \in Runs |-> FALSE]
    /\ cancel = [k \in Runs |-> FALSE]
    /\ evStop = FALSE
    /\ evInit = FALSE
    /\ initStatus = FALSE
    /\ data = 0
    /\ running = 0
    /\ starts = 0
    /\ selfStops \in BOOLEAN
    /\ result = [k \in Runs |-> FALSE]
    /\ killed = {}
    /\ late = 0

Goto(a, from, to) == pc[a] = from /\ pc' = [pc EXCEPT ![a] = to]

\* A step that another actor sees only by where this one is.
Moves(a, from, to) ==
    Goto(a, from, to) /\ UNCHANGED <<freeVars, exitVars, evVars, runVars>>

-----------------------------------------------------------------------------
(* Start, by the owner *)

IsRunning == handle # 0 /\ ~exited[handle]

\* Mutant: m_evInit keeps what the last run left in it.
StartNoReset ==
    /\ ~IsRunning /\ starts < MaxStarts
    /\ Goto(Owner, "idle", IF handle = 0 THEN "new" ELSE "destroy")
    /\ data' = starts + 1
    /\ evStop' = FALSE /\ late' = 0
    /\ then' = "start"
    /\ UNCHANGED <<handle, hold, refs, exitVars, evInit, initStatus,
                   running, starts, selfStops, result>>

\* Data, m_evStop and m_evInit, then NewThread(), which first destroys what
\* is left of the run before.  A thread that is running is left alone.
Start ==
    /\ ~IsRunning /\ starts < MaxStarts
    /\ Goto(Owner, "idle", IF handle = 0 THEN "new" ELSE "destroy")
    /\ data' = starts + 1
    /\ evStop' = FALSE /\ evInit' = FALSE /\ late' = 0
    /\ then' = "start"
    /\ UNCHANGED <<handle, hold, refs, exitVars, initStatus,
                   running, starts, selfStops, result>>

NewThreadWith(n) ==
    LET k == starts + 1
    IN /\ pc[Owner] = "new"
       /\ pc' = [pc EXCEPT ![Owner] = "idle", ![k] = "born"]
       /\ starts' = k
       /\ handle' = k
       /\ refs' = [refs EXCEPT ![k] = n]
       /\ UNCHANGED <<hold, then, exitVars, evVars, data, running, selfStops, result>>

\* Mutant: CreateRi adds a reference too many.
NewThreadAddRefs == NewThreadWith(3)

\* CreateRi makes the pRi with a second reference, "for deletion".
NewThread == NewThreadWith(2)

-----------------------------------------------------------------------------
(* Stop, by the owner or by the thread itself *)

\* m_evStop is signalled even if there is no thread.
Stop(a) ==
    /\ a \in Runs => selfStops
    /\ pc[a] = IF a = Owner THEN "idle" ELSE "do"
    /\ evStop' = TRUE
    /\ pc' = [pc EXCEPT ![a] = IF handle = 0 THEN @ ELSE "destroy"]
    /\ then' = IF a = Owner THEN "stop" ELSE then
    /\ UNCHANGED <<handle, hold, refs, exitVars, evInit, initStatus, late, runVars>>

\* Where Stop() and Start() go on after Destroy().
AfterDestroy(a) == IF a = Owner /\ then = "start" THEN "new" ELSE "cleared"

\* WaitThreadExit() is over; Destroy() reads m_hHandle ...
DestroyReads(a) ==
    /\ Goto(a, "destroy", IF handle = 0 THEN AfterDestroy(a) ELSE "take")
    /\ hold' = [hold EXCEPT ![a] = handle]
    /\ UNCHANGED <<handle, then, refs, exitVars, evVars, runVars>>

\* ... clears it, and FreeRi() goes on if no other reference is left.
DestroyTakes(a) ==
    LET k == hold[a]
    IN /\ Goto(a, "take", IF refs[k] = 2 THEN "free" ELSE AfterDestroy(a))
       /\ handle' = 0
       /\ refs' = [refs EXCEPT ![k] = IF @ > 0 THEN @ - 1 ELSE 0]
       /\ UNCHANGED <<hold, then, exitVars, evVars, runVars>>

\* The first wait of FreeRi() ends because the thread has exited.
ExitSeen(a) == Moves(a, "free", "join") /\ exited[hold[a]]

\* Mutants: a late thread is abandoned; it is joined without being cancelled.
Abandon(a) == Moves(a, "free", AfterDestroy(a)) /\ ~exited[hold[a]]
JoinOnly(a) == Moves(a, "free", "join") /\ ~exited[hold[a]]

\* The thread is late: pthread_cancel(), whose zero ends the condition, so the
\* branch that asks for x_bForce is not taken.  A thread that cancels itself
\* ends here.
CancelLate(a) ==
    LET k == hold[a]
    IN /\ Goto(a, "free", IF k = a THEN "gone" ELSE "join")
       /\ ~exited[k]
       /\ cancel' = [cancel EXCEPT ![k] = TRUE]
       /\ killed' = IF k = a THEN killed \cup {k} ELSE killed
       /\ UNCHANGED <<freeVars, exited, evVars, runVars>>

\* Mutant: the event that the thread has exited is taken for its exit.
FreeAtOnce(a) ==
    /\ Goto(a, "join", AfterDestroy(a))
    /\ refs' = [refs EXCEPT ![hold[a]] = 0]
    /\ UNCHANGED <<handle, hold, then, exitVars, evVars, runVars>>

\* pthread_join(), and the memory goes.
Join(a) ==
    /\ Goto(a, "join", AfterDestroy(a))
    /\ pc[hold[a]] = "gone"
    /\ refs' = [refs EXCEPT ![hold[a]] = 0]
    /\ UNCHANGED <<handle, hold, then, exitVars, evVars, runVars>>

\* The end of Stop().  A thread that finds its pRi taken goes on.
Clear(a) ==
    /\ Goto(a, "cleared", IF a = Owner THEN "idle" ELSE "do")
    /\ data' = 0
    /\ initStatus' = FALSE
    /\ UNCHANGED <<freeVars, exitVars, evStop, evInit, late,
                   running, starts, selfStops, result>>

-----------------------------------------------------------------------------
(* ThreadProc, run k *)

Enter(k) ==
    /\ Goto(k, "born", "init")
    /\ running' = running + 1
    /\ UNCHANGED <<freeVars, exitVars, evVars, data, starts, selfStops, result>>

\* InitThread returns.
InitThread(k) ==
    /\ Goto(k, "init", "inited")
    /\ \E ok \in BOOLEAN :
          /\ initStatus' = ok
          /\ result' = [result EXCEPT ![k] = ok]
    /\ UNCHANGED <<freeVars, exitVars, evStop, evInit, late,
                   data, running, starts, selfStops>>

SignalInitTo(k, failed) ==
    /\ Goto(k, "inited", IF initStatus THEN "check" ELSE failed)
    /\ evInit' = TRUE
    /\ UNCHANGED <<freeVars, exitVars, evStop, initStatus, late, runVars>>

\* Mutant: a thread that did not initialize is not uncounted.
SignalInitOnly(k) == SignalInitTo(k, "done")

\* m_evInit, then "Was initialization a success?"
SignalInit(k) == SignalInitTo(k, "finish")

\* m_evStop ends the loop before the first DoThread ...
Check(k) == Moves(k, "check", IF evStop THEN "end" ELSE "ready")

\* ... and, in the sleep of m_uSleep, after every one.
SleepOnly(k) == Moves(k, "sleep", "ready")      \* Mutant: but it is not looked at.
Sleep(k) == Moves(k, "sleep", IF evStop THEN "end" ELSE "ready")

CallDoThread(k) ==
    /\ Goto(k, "ready", "do")
    /\ late' = IF evStop /\ late < 2 THEN late + 1 ELSE late
    /\ UNCHANGED <<freeVars, exitVars, evStop, evInit, initStatus, runVars>>

\* DoThread returns: more is to be done, or not.
DoThread(k) == \E next \in {"sleep", "end"} : Moves(k, "do", next)

EndThread(k) == Moves(k, "end", "finish")

Finish(k) ==
    /\ Goto(k, "finish", "done")
    /\ running' = IF running > 0 THEN running - 1 ELSE 0
    /\ UNCHANGED <<freeVars, exitVars, evVars, data, starts, selfStops, result>>

\* cSync.Signal() sets the flag and then wakes whoever waits ...
SetExited(k) ==
    /\ Goto(k, "done", "wake")
    /\ exited' = [exited EXCEPT ![k] = TRUE]
    /\ UNCHANGED <<freeVars, cancel, killed, evVars, runVars>>

\* ... and the thread is gone after that.
WakeOwner(k) == Moves(k, "wake", "leave")
Leave(k) == Moves(k, "leave", "gone")

\* A cancelled thread ends wherever it is; a new one where it allows it.
Die(k) ==
    /\ cancel[k] /\ Alive(k)
    /\ pc' = [pc EXCEPT ![k] = "gone"]
    /\ killed' = IF pc[k] \in Counted THEN killed \cup {k} ELSE killed
    /\ UNCHANGED <<freeVars, exited, cancel, evVars, runVars>>

-----------------------------------------------------------------------------
StopStep(a) ==
    DestroyReads(a) \/ DestroyTakes(a) \/ ExitSeen(a) \/ CancelLate(a) \/ Join(a) \/ Clear(a)

UserStep(k) ==
    InitThread(k) \/ SignalInit(k) \/ Check(k) \/ CallDoThread(k) \/ DoThread(k)
        \/ Sleep(k) \/ EndThread(k) \/ Finish(k)

\* What the thread does outside the user's functions, or whatever it does.
ExitStep(k) == Enter(k) \/ SetExited(k) \/ WakeOwner(k) \/ Leave(k) \/ Die(k)

Next ==
    \/ Start \/ NewThread
    \/ \E a \in Actors : Stop(a) \/ StopStep(a)
    \/ \E k \in Runs : UserStep(k) \/ ExitStep(k)

Spec == Init /\ [][Next]_vars

\* The owner goes on, and a thread that leaves or was cancelled does.  Nothing
\* is assumed of the user's functions: they may never return.
FairSpec ==
    /\ Spec
    /\ WF_vars(StopStep(Owner)) /\ WF_vars(NewThread)
    /\ \A k \in Runs : WF_vars(ExitStep(k))
-----------------------------------------------------------------------------
(* Properties.  Where a thread may stop itself, its Stop() can interleave    *)
(* with the owner's, and some of them are not promised.                      *)

\* Every variable has its type.
TypeOK ==
    /\ pc \in [Actors -> Pcs]
    /\ handle \in 0 .. starts /\ hold \in [Actors -> 0 .. starts]
    /\ then \in {"stop", "start"}
    /\ refs \in [Runs -> 0 .. 2]
    /\ exited \in [Runs -> BOOLEAN] /\ cancel \in [Runs -> BOOLEAN]
    /\ evStop \in BOOLEAN /\ evInit \in BOOLEAN /\ initStatus \in BOOLEAN
    /\ data \in 0 .. MaxStarts /\ running \in Nat /\ starts \in 0 .. MaxStarts
    /\ selfStops \in BOOLEAN /\ result \in [Runs -> BOOLEAN]
    /\ killed \subseteq Runs /\ late \in 0 .. 2

\* Nobody uses a SResourceInfo that has been freed: neither the thread on its
\* way in or out nor whoever frees it.
RiIsThere ==
    ~selfStops =>
        /\ \A k \in Runs : pc[k] \in {"born", "done", "wake"} => refs[k] > 0
        /\ \A a \in Actors : pc[a] \in {"free", "join"} => refs[hold[a]] > 0

\* A thread that is not over is the one the CThread knows, or is just being
\* freed: Stop() comes back, and a new run begins, only after the last one.
StoppedIsGone ==
    ~selfStops =>
        \A k \in Runs : Alive(k) =>
            \/ handle = k
            \/ hold[Owner] = k /\ pc[Owner] \in {"free", "join"}

\* m_evInit says that m_bInitStatus is what InitThread of this run returned,
\* "call GetInitEvent().Wait() to ensure it's valid", until it is stopped.
InitStatusIsValid ==
    ~selfStops /\ evInit /\ handle # 0 => initStatus = result[handle]

\* m_lRunningThreadCount counts the threads between ThreadProc's two ends,
\* whoever starts and stops them; one that was cancelled there is never
\* uncounted.
CountIsRunning ==
    running = Cardinality({k \in Runs : pc[k] \in Counted}) + Cardinality(killed)

\* At most one more DoThread begins once Stop() has signalled m_evStop.
StopIsPrompt == late <= 1

\* Start() and Stop() come back, whatever the user's functions do.
StopComesBack == pc[Owner] # "idle" ~> pc[Owner] = "idle"

\* IsRunning() denies only a thread that has left the user's functions:
\* "Returns the running state of the thread".
RunningIsSeen ==
    pc[Owner] = "idle" /\ ~IsRunning => \A k \in Runs : pc[k] \notin Counted
=============================================================================
