----------------------------- MODULE ScriptTree -----------------------------
(***************************************************************************)
(* Scripts that spawn scripts.  A CScriptThread owns the objects of its    *)
(* children in m_lstScript, the children point to it by m_pParentScript.   *)
(* A message with a path is routed by the CALLER's thread: ProcessMsg goes *)
(* up the parents' pointers and down the lists of other scripts, without a *)
(* lock, and a pb_* message is then executed on that thread too, under the *)
(* target's m_lockPb.  Any other message goes into the target's queue, and *)
(* the caller waits for the reply; what happens in a queue is in MsgQueue. *)
(* Meanwhile scripts spawn children (OnSpawn), clean up those that have    *)
(* ended (Cleanup), and stop and delete all of them when they end          *)
(* (EndThread).                                                            *)
(*                                                                         *)
(* A script that is replaced or stopped and does not end in time is        *)
(* cancelled (ThreadLife).  A cancelled thread, and one whose text did not *)
(* load, never calls EndThread.  Whoever follows a pointer to an object    *)
(* that has been deleted is lost: what it does from there on is undefined. *)
(*                                                                         *)
(* terminate_thread is not here.  A name stands for one object at a time:  *)
(* an orphan's is not used again.  orphan is history.                      *)
(***************************************************************************)
EXTENDS Integers, FiniteSets

CONSTANTS Scripts,
          Parent,       \* the tree of names: a script's parent
          None,         \* the root's parent; no script
          Gone,         \* a thread that was cancelled with a lock
          Paths,        \* calls made: who, up to where, whom, what
          MaxCalls,     \* bound: calls made in all
          MaxSpawns     \* bound: children spawned in all

ASSUME NoScripts == None \notin Scripts /\ Gone \notin Scripts /\ None # Gone
ASSUME ParentIsScript == Parent \in [Scripts -> Scripts \cup {None}]
ASSUME BoundsAreNat == MaxCalls \in Nat /\ MaxSpawns \in Nat

VARIABLES
    made,       \* scripts whose object exists
    list,       \* m_lstScript
    phase,      \* where the thread is in ThreadProc
    act,        \* what it is doing there
    route,      \* its call, on the way
    victim,     \* the child it spawns, or stops and deletes
    stop,       \* scripts that have been told to stop
    pbLock,     \* who holds m_lockPb
    held,       \* scripts whose EndThread has got it
    due,        \* scripts with a key whose time is over
    dangling,   \* scripts whose m_pParentScript has been deleted
    lost,       \* threads that follow a pointer to what was deleted
    orphan,     \* history: scripts whose parent's thread has ended without EndThread
    calls, spawns

threadVars == <<phase, act, route, victim>>
objectVars == <<made, list, dangling, lost, orphan>>
lockVars == <<pbLock, held>>
vars == <<threadVars, objectVars, stop, lockVars, due, calls, spawns>>

Phases == {"none", "init", "loop", "exit", "exitfn", "stopping", "over"}
Acts == {"none", "route", "bag", "asked", "replace", "create", "spawned", "tidy", "keys"}
\* pb_tset sets a key for a time, pb_set stands for the other pb_* messages, and
\* msg for what only the target's own thread does.
Kinds == {"pb_set", "pb_tset", "msg"}
Route == [at : Scripts, top : Scripts \cup {None}, goal : Scripts, kind : Kinds]

Children(s) == {c \in Scripts : Parent[c] = s}
\* The script and all above it.
Above[s \in Scripts] == IF Parent[s] = None THEN {s} ELSE {s} \cup Above[Parent[s]]
Roots == Children(None)

\* Following the parents comes to an end: some member of every set of scripts
\* is highest.
ASSUME ParentsEnd == \A S \in SUBSET Scripts : S # {} => \E s \in S : Parent[s] \notin S
ASSUME NamesAreATree == \A s \in Scripts :
    Above[s] = IF Parent[s] = None THEN {s} ELSE {s} \cup Above[Parent[s]]
ASSUME PathsArePaths == \A p \in Paths :
    p \in Scripts \X Scripts \X Scripts \X Kinds /\ p[2] \in Above[p[1]] \cap Above[p[3]]

Init ==
    /\ made = Roots
    /\ list = [s \in Scripts |-> {}]
    /\ phase = [s \in Scripts |-> IF s \in Roots THEN "init" ELSE "none"]
    /\ act = [s \in Scripts |-> "none"]
    /\ route = [s \in Scripts |-> None]
    /\ victim = [s \in Scripts |-> None]
    /\ stop = {}
    /\ pbLock = [s \in Scripts |-> None]
    /\ held = {} /\ due = {}
    /\ dangling = {} /\ lost = {} /\ orphan = {}
    /\ calls = 0 /\ spawns = 0

\* Script code is running: the text itself, a message, a timer, the idle or the
\* exit function.
InScript(t) == phase[t] \in {"init", "loop", "exitfn"} /\ act[t] = "none" /\ t \notin lost

Does(t, a, b) == t \notin lost /\ act[t] = a /\ act' = [act EXCEPT ![t] = b]

-----------------------------------------------------------------------------
(* Calls, on thread t *)

\* The route is at a script, on its way up to top, or down when top is reached.
Going(x, top, goal, kind) ==
    [at |-> x, top |-> IF top = x THEN None ELSE top, goal |-> goal, kind |-> kind]

\* A msg to itself is more of the script's code.
Call(t, goal, top, kind) ==
    /\ InScript(t) /\ calls < MaxCalls
    /\ kind = "msg" => goal # t
    /\ Does(t, "none", "route")
    /\ calls' = calls + 1
    /\ route' = [route EXCEPT ![t] = Going(t, top, goal, kind)]
    /\ UNCHANGED <<phase, victim, objectVars, stop, lockVars, due, spawns>>

Returns(t) == Does(t, act[t], "none") /\ route' = [route EXCEPT ![t] = None]

\* Up: the pointer is followed whatever has become of the parent.
HopUp(t) ==
    /\ act[t] = "route" /\ t \notin lost
    /\ route[t].top # None
    /\ LET x == route[t].at
       IN IF x \in dangling
            THEN lost' = lost \cup {t} /\ UNCHANGED route
            ELSE /\ route' = [route EXCEPT ![t] = Going(Parent[x], @.top, @.goal, @.kind)]
                 /\ UNCHANGED lost
    /\ UNCHANGED <<phase, act, victim, made, list, dangling, orphan, stop, lockVars, due, calls, spawns>>

\* Down: the child is looked up in the list of the script where the route is.
HopDown(t) ==
    /\ act[t] = "route" /\ t \notin lost
    /\ route[t].top = None /\ route[t].at # route[t].goal
    /\ \E c \in Children(route[t].at) \cap Above[route[t].goal] :
          IF c \in list[route[t].at]
            THEN route' = [route EXCEPT ![t].at = c] /\ UNCHANGED act
            ELSE Returns(t)
    /\ UNCHANGED <<phase, victim, objectVars, stop, lockVars, due, calls, spawns>>

Arrived(t) ==
    act[t] = "route" /\ t \notin lost /\ route[t].top = None /\ route[t].at = route[t].goal

\* A pb_* message: in the target's bag, under its lock.
EnterBag(t) ==
    /\ Arrived(t) /\ route[t].kind = "pb_set"
    /\ pbLock[route[t].goal] \in {None, t}
    /\ Does(t, "route", "bag")
    /\ pbLock' = [pbLock EXCEPT ![route[t].goal] = t]
    /\ UNCHANGED <<phase, route, victim, objectVars, stop, held, due, calls, spawns>>

\* The lock is recursive: EndThread's own, around the exit function, stays.
LeaveBag(t) ==
    /\ act[t] = "bag" /\ Returns(t)
    /\ pbLock' = [pbLock EXCEPT ![route[t].goal] =
                    IF route[t].goal = t /\ t \in held THEN t ELSE None]
    /\ UNCHANGED <<phase, victim, objectVars, stop, held, due, calls, spawns>>

\* Mutant: the wait for the lock has no end.
BagTimesOutNever(t) ==
    /\ Arrived(t) /\ route[t].kind = "pb_set"
    /\ pbLock[route[t].goal] \notin {None, t} /\ UNCHANGED vars

\* The lock's time is over: FALSE, and no reply.
BagTimesOut(t) ==
    /\ Arrived(t) /\ route[t].kind = "pb_set"
    /\ pbLock[route[t].goal] \notin {None, t}
    /\ Returns(t)
    /\ UNCHANGED <<phase, victim, objectVars, stop, lockVars, due, calls, spawns>>

\* Cleanup holds m_lockTo while it goes through the keys.
ToLocked(s) == act[s] = "keys"

\* pb_tset: the key's time will be over some time.
TimeKey(t) ==
    /\ Arrived(t) /\ route[t].kind = "pb_tset"
    /\ Returns(t)
    /\ due' = IF ToLocked(route[t].goal) THEN due ELSE due \cup {route[t].goal}
    /\ UNCHANGED <<phase, victim, objectVars, stop, lockVars, calls, spawns>>

\* Into the target's queue, unless that is quitting; then the reply is waited
\* for, if one is wanted.
Ask(t) ==
    /\ Arrived(t) /\ route[t].kind = "msg"
    /\ \/ Does(t, "route", "asked") /\ UNCHANGED route
       \/ Returns(t)
    /\ UNCHANGED <<phase, victim, objectVars, stop, lockVars, due, calls, spawns>>

\* u waits for the reply to a message in c's queue.
AsksOf(u, c) == act[u] = "asked" /\ route[u] # None /\ route[u].goal = c

\* The target's loop, and nothing else, takes messages from its queue.
Reply(t, u) ==
    /\ InScript(t) /\ phase[t] = "loop"
    /\ AsksOf(u, t) /\ Returns(u)
    /\ UNCHANGED <<phase, victim, objectVars, stop, lockVars, due, calls, spawns>>

\* What a reply that is late writes to is in MsgQueue.
AskTimesOut(t) ==
    /\ act[t] = "asked" /\ Returns(t)
    /\ UNCHANGED <<phase, victim, objectVars, stop, lockVars, due, calls, spawns>>

-----------------------------------------------------------------------------
(* Objects *)

\* The object of c goes, with its locks, its bag, its list and its queue: who
\* waits for a reply of c hears nothing.
Delete(c) ==
    /\ made' = made \ {c}
    /\ list' = [s \in Scripts |-> IF s = c THEN {} ELSE list[s] \ {c}]
    /\ phase' = [phase EXCEPT ![c] = "none"]
    /\ pbLock' = [pbLock EXCEPT ![c] = None] /\ held' = held \ {c}
    /\ due' = due \ {c}
    /\ stop' = stop \ {c}
    /\ dangling' = (dangling \cup {x \in made : Parent[x] = c}) \ {c}
    /\ lost' = lost \cup {u \in Scripts : act[u] \in {"route", "bag"} /\ route[u].at = c}
    /\ orphan' = orphan \ {c}
    /\ route' = [u \in Scripts |-> IF AsksOf(u, c) THEN None ELSE route[u]]

\* Spawning a name that is in use first deletes the object, whose destructor
\* stops the thread.
Spawn(t, c) ==
    /\ InScript(t) /\ spawns < MaxSpawns
    /\ c \in Children(t) /\ (c \in made => c \in list[t])
    /\ Does(t, "none", IF c \in list[t] THEN "replace" ELSE "create")
    /\ victim' = [victim EXCEPT ![t] = c]
    /\ spawns' = spawns + 1
    /\ stop' = IF c \in list[t] THEN stop \cup {c} ELSE stop
    /\ UNCHANGED <<phase, route, objectVars, lockVars, due, calls>>

Replace(t) ==
    /\ act[t] = "replace" /\ phase[victim[t]] = "over"
    /\ Does(t, "replace", "create")
    /\ Delete(victim[t])
    /\ UNCHANGED <<victim, calls, spawns>>

\* The new child, in its list before it runs.  A spawn with a reply waits for it.
Create(t) ==
    /\ \/ Does(t, "create", "spawned") /\ UNCHANGED victim
       \/ Does(t, "create", "none") /\ victim' = [victim EXCEPT ![t] = None]
    /\ made' = made \cup {victim[t]}
    /\ list' = [list EXCEPT ![t] = @ \cup {victim[t]}]
    /\ phase' = [phase EXCEPT ![victim[t]] = "init"]
    /\ UNCHANGED <<route, dangling, lost, orphan, stop, lockVars, due, calls, spawns>>

\* The child's m_evInit is signalled when its text has run, or has not loaded.
SpawnReturns(t) ==
    /\ Does(t, "spawned", "none") /\ phase[victim[t]] # "init"
    /\ victim' = [victim EXCEPT ![t] = None]
    /\ UNCHANGED <<phase, route, objectVars, stop, lockVars, due, calls, spawns>>

\* The text takes too long; it may be waiting for a reply of its parent.
SpawnTimesOut(t) ==
    /\ Does(t, "spawned", "none") /\ phase[victim[t]] = "init"
    /\ victim' = [victim EXCEPT ![t] = None]
    /\ UNCHANGED <<phase, route, objectVars, stop, lockVars, due, calls, spawns>>

-----------------------------------------------------------------------------
(* The end of a thread *)

\* The text did not load: EndThread is not called, the children stay.
InitFails(t) ==
    /\ InScript(t) /\ phase[t] = "init"
    /\ phase' = [phase EXCEPT ![t] = "over"]
    /\ orphan' = orphan \cup list[t]
    /\ UNCHANGED <<act, route, victim, made, list, dangling, lost, stop, lockVars, due, calls, spawns>>

InitOk(t) ==
    /\ InScript(t) /\ phase[t] = "init"
    /\ phase' = [phase EXCEPT ![t] = IF t \in stop THEN "exit" ELSE "loop"]
    /\ UNCHANGED <<act, route, victim, objectVars, stop, lockVars, due, calls, spawns>>

\* The loop ends, by a stop, a kill or the idle function.
LeaveLoop(t) ==
    /\ InScript(t) /\ phase[t] = "loop"
    /\ phase' = [phase EXCEPT ![t] = "exit"]
    /\ UNCHANGED <<act, route, victim, objectVars, stop, lockVars, due, calls, spawns>>

\* EndThread wants the bag's lock for itself, and goes on without it when the
\* time is over.
EndThread(t) ==
    /\ phase[t] = "exit" /\ t \notin lost
    /\ phase' = [phase EXCEPT ![t] = "exitfn"]
    /\ IF pbLock[t] = None
         THEN pbLock' = [pbLock EXCEPT ![t] = t] /\ held' = held \cup {t}
         ELSE UNCHANGED lockVars
    /\ UNCHANGED <<act, route, victim, objectVars, stop, due, calls, spawns>>

\* The exit function has returned.
ExitDone(t) ==
    /\ InScript(t) /\ phase[t] = "exitfn"
    /\ phase' = [phase EXCEPT ![t] = "stopping"]
    /\ UNCHANGED <<act, route, victim, objectVars, stop, lockVars, due, calls, spawns>>

\* DestroyChildScripts: each child is stopped, and deleted when it is over.
StopChild(t) ==
    /\ phase[t] = "stopping" /\ victim[t] = None
    /\ \E c \in list[t] : victim' = [victim EXCEPT ![t] = c] /\ stop' = stop \cup {c}
    /\ UNCHANGED <<phase, act, route, objectVars, lockVars, due, calls, spawns>>

DeleteChild(t) ==
    /\ phase[t] = "stopping" /\ victim[t] # None /\ phase[victim[t]] = "over"
    /\ Delete(victim[t])
    /\ victim' = [victim EXCEPT ![t] = None]
    /\ UNCHANGED <<act, calls, spawns>>

\* Mutant: the thread ends without its children.
EndOfThreadFirst(t) ==
    /\ phase[t] = "stopping" /\ victim[t] = None
    /\ phase' = [phase EXCEPT ![t] = "over"]
    /\ IF t \in held THEN pbLock' = [pbLock EXCEPT ![t] = None] /\ held' = held \ {t}
                     ELSE UNCHANGED lockVars
    /\ UNCHANGED <<act, route, victim, objectVars, stop, due, calls, spawns>>

\* No child is left: the bag is emptied and its lock left.
EndOfThread(t) ==
    /\ phase[t] = "stopping" /\ victim[t] = None /\ list[t] = {}
    /\ phase' = [phase EXCEPT ![t] = "over"]
    /\ IF t \in held THEN pbLock' = [pbLock EXCEPT ![t] = None] /\ held' = held \ {t}
                     ELSE UNCHANGED lockVars
    /\ UNCHANGED <<act, route, victim, objectVars, stop, due, calls, spawns>>

\* Who waits for c to end: its parent, or the host program for a root.
Awaited(c) == c \in stop /\ (c \in Roots \/ \E p \in Scripts : victim[p] = c)

\* Its time is over: c is cancelled wherever it is.  It leaves the locks it
\* holds, or they stay locked.
Cancel(c) ==
    /\ Awaited(c) /\ phase[c] \notin {"none", "over"}
    /\ phase' = [phase EXCEPT ![c] = "over"]
    /\ act' = [act EXCEPT ![c] = "none"]
    /\ route' = [route EXCEPT ![c] = None]
    /\ victim' = [victim EXCEPT ![c] = None]
    /\ \E left \in {None, Gone} :
          pbLock' = [s \in Scripts |-> IF pbLock[s] = c THEN left ELSE pbLock[s]]
    /\ held' = held \ {c}
    /\ orphan' = orphan \cup list[c]
    /\ lost' = lost \ {c}
    /\ UNCHANGED <<made, list, dangling, stop, due, calls, spawns>>

-----------------------------------------------------------------------------
(* Cleanup *)

StartCleanup(t) ==
    /\ phase[t] = "loop" /\ Does(t, "none", "tidy")
    /\ UNCHANGED <<phase, route, victim, objectVars, stop, lockVars, due, calls, spawns>>

\* Mutant: the children's children too.
EndedBelow(t) == {c \in made \ {t} : t \in Above[c] /\ phase[c] = "over"}

Ended(t) == {c \in list[t] : phase[c] = "over"}

\* A child that does not run is deleted.
CleanupChild(t) ==
    /\ act[t] = "tidy" /\ t \notin lost
    /\ \E c \in Ended(t) : Delete(c)
    /\ UNCHANGED <<act, victim, calls, spawns>>

\* Then the keys whose time is over, with m_lockTo held.
CleanupKeys(t) ==
    /\ act[t] = "tidy" /\ Ended(t) = {}
    /\ Does(t, "tidy", IF t \in due THEN "keys" ELSE "none")
    /\ UNCHANGED <<phase, route, victim, objectVars, stop, lockVars, due, calls, spawns>>

\* Each needs the bag's lock.  The loop does not go on without it, nor end.
EraseKey(t) ==
    /\ act[t] = "keys" /\ pbLock[t] = None
    /\ Does(t, "keys", "none")
    /\ due' = due \ {t}
    /\ UNCHANGED <<phase, route, victim, objectVars, stop, lockVars, calls, spawns>>

-----------------------------------------------------------------------------
(* The host program, for the roots *)

HostStops(r) ==
    /\ r \in (Roots \cap made) \ stop
    /\ stop' = stop \cup {r}
    /\ UNCHANGED <<threadVars, objectVars, lockVars, due, calls, spawns>>

HostDeletes(r) ==
    /\ r \in Roots \cap stop /\ phase[r] = "over"
    /\ Delete(r)
    /\ UNCHANGED <<act, victim, calls, spawns>>

-----------------------------------------------------------------------------
\* What goes on by itself, and what depends on script code.
Step(t) ==
    \/ HopUp(t) \/ HopDown(t) \/ EnterBag(t) \/ LeaveBag(t) \/ BagTimesOut(t) \/ TimeKey(t)
    \/ Ask(t) \/ AskTimesOut(t)
    \/ Replace(t) \/ Create(t) \/ SpawnReturns(t) \/ SpawnTimesOut(t)
    \/ EndThread(t) \/ StopChild(t) \/ DeleteChild(t) \/ EndOfThread(t)
    \/ CleanupChild(t) \/ CleanupKeys(t) \/ EraseKey(t)

Script(t) ==
    \/ \E goal, top \in Scripts, kind \in Kinds :
          <<t, top, goal, kind>> \in Paths /\ Call(t, goal, top, kind)
    \/ \E u \in Scripts : Reply(t, u)
    \/ \E c \in Children(t) : Spawn(t, c)
    \/ InitFails(t) \/ InitOk(t) \/ LeaveLoop(t) \/ ExitDone(t) \/ StartCleanup(t)

Host == \E r \in Roots : HostStops(r) \/ HostDeletes(r)

\* All roots are gone, and what is left does not go on.
AllGone == made \cap Roots = {} /\ UNCHANGED vars

Next == AllGone \/ Host \/ \E t \in Scripts : Step(t) \/ Cancel(t) \/ Script(t)

Spec == Init /\ [][Next]_vars

\* The library goes on, its waits end and who is late is cancelled; a script's
\* code may run for ever.
FairSpec == Spec /\ \A t \in Scripts : WF_vars(Step(t)) /\ WF_vars(Cancel(t))
-----------------------------------------------------------------------------
(* Properties *)

\* Every variable has its type.
TypeOK ==
    /\ made \subseteq Scripts
    /\ list \in [Scripts -> SUBSET Scripts]
    /\ \A s \in Scripts : list[s] \subseteq Children(s) \cap made
    /\ phase \in [Scripts -> Phases]
    /\ \A s \in Scripts : phase[s] # "none" <=> s \in made
    /\ act \in [Scripts -> Acts]
    /\ route \in [Scripts -> Route \cup {None}]
    /\ victim \in [Scripts -> Scripts \cup {None}]
    /\ stop \subseteq made
    /\ pbLock \in [Scripts -> Scripts \cup {None, Gone}]
    /\ held \subseteq made /\ due \subseteq made
    /\ dangling \subseteq made /\ lost \subseteq made /\ orphan \subseteq made
    /\ calls \in 0 .. MaxCalls /\ spawns \in 0 .. MaxSpawns

\* A child is gone before the object of its parent is: the pointer to the
\* parent is good as long as the child's thread runs.  The exceptions are the
\* children of a thread that ended without EndThread.
ChildrenGoFirst == dangling \subseteq orphan

\* A route along the caller's ancestors and to its own children only meets
\* objects that exist, whatever ends, is replaced or cleaned up meanwhile,
\* unless the caller or an ancestor of it is an orphan.
OwnLineIsSafe == \A t \in lost :
    route[t].at \in Above[t] \cup Children(t) => Above[t] \cap orphan # {}

\* A call, or a spawn, returns and a script that stops its children has done so
\* in the end, although scripts wait for replies of each other and for the text
\* of a child that waits for them, children ask for the bag whose lock their
\* parent holds while it waits for them, and locks may stay locked for ever.
\* What does not end is what follows a deleted pointer, and a cleanup of keys
\* whose bag's lock went with a cancelled thread.
ComesBack == \A t \in Scripts :
    act[t] # "none" \/ phase[t] = "stopping" ~>
        \/ act[t] = "none" /\ phase[t] # "stopping"
        \/ t \in lost
        \/ act[t] = "keys" /\ pbLock[t] = Gone

=============================================================================
