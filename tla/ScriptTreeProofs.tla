-------------------------- MODULE ScriptTreeProofs --------------------------
(***************************************************************************)
(* Proofs about ScriptTree, for any tree of names, any calls along it and  *)
(* any number of them.                                                     *)
(***************************************************************************)
EXTENDS ScriptTree, TLAPS

\* The sets of scripts and what each object holds.
ObjectsOK ==
    /\ made \subseteq Scripts
    /\ list \in [Scripts -> SUBSET Scripts]
    /\ \A s \in Scripts : list[s] \subseteq Children(s) \cap made
    /\ stop \subseteq made /\ held \subseteq made /\ due \subseteq made
    /\ dangling \subseteq made /\ lost \subseteq made /\ orphan \subseteq made

\* Where the threads are.
PhasesOK ==
    /\ phase \in [Scripts -> Phases]
    /\ \A s \in Scripts : phase[s] # "none" <=> s \in made

\* What they do there, and the rest.
ThreadsOK ==
    /\ act \in [Scripts -> Acts]
    /\ route \in [Scripts -> Route \cup {None}]
    /\ victim \in [Scripts -> Scripts \cup {None}]
    /\ pbLock \in [Scripts -> Scripts \cup {None, Gone}]
    /\ calls \in 0 .. MaxCalls /\ spawns \in 0 .. MaxSpawns

\* A thread that is busy runs the user's part of ThreadProc; the child it spawns
\* or stops is one of its own.
BusyRuns == \A t \in Scripts :
    /\ act[t] # "none" => phase[t] \in {"init", "loop", "exitfn"}
    /\ t \in lost => act[t] \in {"route", "bag"}
    /\ act[t] \in {"replace", "create", "spawned"} => victim[t] \in Children(t)
    /\ victim[t] # None => victim[t] \in Children(t)

\* A route is on its way to an ancestor, and at an object that exists unless
\* its thread is lost.
RoutesGoUp == \A t \in Scripts :
    act[t] \in {"route", "bag"} =>
        /\ route[t] \in Route
        /\ route[t].top # None => route[t].top # route[t].at /\ route[t].top \in Above[route[t].at]
        /\ t \notin lost => route[t].at \in made

\* The lists and the parents' pointers.
Family ==
    /\ \A x \in made : Parent[x] # None => x \in list[Parent[x]] \/ x \in orphan
    /\ \A x \in made : Parent[x] # None => Parent[x] \in made \/ x \in dangling
    /\ \A s \in Scripts : phase[s] = "over" => list[s] \subseteq orphan

\* On its way up a route is at the caller or above it.
StillAbove == \A t \in Scripts :
    act[t] = "route" /\ route[t].top # None => route[t].at \in Above[t]

\* On the way up from t, what comes before x.
Below(t, x) == {y \in Above[t] : x \in Above[y] /\ y # x}

\* The line above a script exists, up to the first orphan in it.
LineStands == \A t \in made : \A x \in Above[t] :
    Below(t, x) \cap orphan = {} => x \in made

\* The inductive invariant.
IInv ==
    /\ ObjectsOK /\ PhasesOK /\ ThreadsOK /\ BusyRuns /\ RoutesGoUp
    /\ Family /\ ChildrenGoFirst /\ StillAbove /\ LineStands /\ OwnLineIsSafe

USE NoScripts, ParentIsScript, BoundsAreNat

-----------------------------------------------------------------------------
(* The tree of names. *)

\* Whatever holds for a script if it does for its parent holds for all: take the
\* highest for which it does not.
LEMMA AboveIn == \A s \in Scripts : s \in Above[s] /\ Above[s] \subseteq Scripts
<1> DEFINE Bad == {s \in Scripts : ~(s \in Above[s] /\ Above[s] \subseteq Scripts)}
<1>1. SUFFICES ASSUME Bad # {} PROVE FALSE
  OBVIOUS
<1>2. PICK s \in Bad : Parent[s] \notin Bad
  BY <1>1, ParentsEnd
<1>3. CASE Parent[s] = None
  BY <1>2, <1>3, NamesAreATree
<1>4. CASE Parent[s] # None
  <2>1. Parent[s] \in Scripts /\ Above[s] = {s} \cup Above[Parent[s]]
    BY <1>2, <1>4, NamesAreATree
  <2> QED
    BY <1>2, <2>1
<1> QED
  BY <1>3, <1>4

\* Who is above somebody above s is above s.
LEMMA AboveUp == \A s \in Scripts : \A x \in Above[s] : Above[x] \subseteq Above[s]
<1> DEFINE Good(s) == \A x \in Above[s] : Above[x] \subseteq Above[s]
           Bad == {s \in Scripts : ~Good(s)}
<1>1. SUFFICES ASSUME Bad # {} PROVE FALSE
  OBVIOUS
<1>2. PICK s \in Bad : Parent[s] \notin Bad
  BY <1>1, ParentsEnd
<1>3. s \in Scripts /\ ~Good(s)
  BY <1>2
<1>4. CASE Parent[s] = None
  <2>1. Above[s] = {s}
    BY <1>3, <1>4, NamesAreATree
  <2> QED
    BY <1>3, <2>1
<1>5. CASE Parent[s] # None
  <2>1. Parent[s] \in Scripts /\ Above[s] = {s} \cup Above[Parent[s]]
    BY <1>3, <1>5, NamesAreATree
  <2>2. Good(Parent[s])
    BY <1>2, <2>1
  <2> QED
    BY <1>3, <2>1, <2>2
<1> QED
  BY <1>4, <1>5

\* The way up from s to x goes through a child of x.
LEMMA LastStep ==
    \A s \in Scripts : \A x \in Above[s] : x # s => \E d \in Above[s] : Parent[d] = x /\ d # x
<1> DEFINE Comes(s, x) == \E d \in Above[s] : Parent[d] = x /\ d # x
           Good(s) == \A x \in Above[s] : x # s => Comes(s, x)
           Bad == {s \in Scripts : ~Good(s)}
<1>1. SUFFICES ASSUME Bad # {} PROVE FALSE
  OBVIOUS
<1>2. PICK s \in Bad : Parent[s] \notin Bad
  BY <1>1, ParentsEnd
<1>3. s \in Scripts /\ ~Good(s)
  BY <1>2
<1>4. CASE Parent[s] = None
  <2>1. Above[s] = {s}
    BY <1>3, <1>4, NamesAreATree
  <2> QED
    BY <1>3, <2>1
<1>5. CASE Parent[s] # None
  <2>1. Parent[s] \in Scripts /\ Above[s] = {s} \cup Above[Parent[s]]
    BY <1>3, <1>5, NamesAreATree
  <2>2. Parent[s] # s
    <3>1. {s} \in SUBSET Scripts /\ {s} # {}
      BY <1>3
    <3>2. \E x \in {s} : Parent[x] \notin {s}
      BY <3>1, ParentsEnd
    <3> QED
      BY <3>2
  <2>3. Good(Parent[s])
    BY <1>2, <2>1
  <2>4. PICK x \in Above[s] : x # s /\ ~Comes(s, x)
    BY <1>3
  <2>5. x # Parent[s]
    BY <2>1, <2>2, <2>4
  <2>6. Comes(Parent[s], x)
    BY <2>1, <2>3, <2>4, <2>5
  <2> QED
    BY <2>1, <2>4, <2>6
<1> QED
  BY <1>4, <1>5

\* Nobody is above its parent.
LEMMA NoneAboveItself ==
    \A s \in Scripts : Parent[s] # None => s \notin Above[Parent[s]]
<1> DEFINE Bad == {s \in Scripts : Parent[s] # None /\ s \in Above[Parent[s]]}
<1>1. SUFFICES ASSUME Bad # {} PROVE FALSE
  OBVIOUS
<1>2. PICK s \in Bad : Parent[s] \notin Bad
  BY <1>1, ParentsEnd
<1>3. Parent[s] \in Scripts /\ s \in Above[Parent[s]]
  BY <1>2
<1>4. Parent[s] # s
  BY <1>2
<1>5. Parent[Parent[s]] # None /\ s \in Above[Parent[Parent[s]]]
  <2> DEFINE p == Parent[s]
  <2>1. p \in Scripts /\ s \in Above[p] /\ p # s
    BY <1>3, <1>4
  <2>2. Above[p] = IF Parent[p] = None THEN {p} ELSE {p} \cup Above[Parent[p]]
    BY <2>1, NamesAreATree
  <2> HIDE DEF p
  <2>3. Parent[p] # None /\ s \in Above[Parent[p]]
    BY <2>1, <2>2
  <2> QED
    BY <2>3 DEF p
<1>6. Parent[s] \in Above[s]
  BY <1>2, <1>3, AboveIn, NamesAreATree
<1>7. Parent[s] \in Above[Parent[Parent[s]]]
  BY <1>3, <1>5, <1>6, AboveUp
<1> QED
  BY <1>2, <1>3, <1>5, <1>7

\* Of two scripts one at most is above the other.
LEMMA NotBoth ==
    ASSUME NEW c \in Scripts, NEW x \in Above[c], c \in Above[x]
    PROVE  x = c
<1>1. SUFFICES ASSUME x # c PROVE FALSE
  OBVIOUS
<1>2. Parent[c] # None /\ Parent[c] \in Scripts /\ x \in Above[Parent[c]]
  <2>1. Above[c] = IF Parent[c] = None THEN {c} ELSE {c} \cup Above[Parent[c]]
    BY NamesAreATree
  <2>2. Parent[c] \in Scripts \cup {None}
    OBVIOUS
  <2>3. CASE Parent[c] = None
    BY <1>1, <2>1, <2>3
  <2>4. CASE Parent[c] # None
    <3>1. Above[c] = {c} \cup Above[Parent[c]]
      BY <2>1, <2>4
    <3> QED
      BY <1>1, <2>2, <2>4, <3>1
  <2> QED
    BY <2>3, <2>4
<1>3. c \in Above[Parent[c]]
  BY <1>2, AboveUp
<1> QED
  BY <1>2, <1>3, NoneAboveItself

-----------------------------------------------------------------------------
(* The object of a script that is over. *)

\* What Delete does, name by name.
Deleted(c) ==
    /\ c \in Scripts /\ phase[c] = "over"
    /\ made' = made \ {c}
    /\ \A s \in Scripts : list'[s] = IF s = c THEN {} ELSE list[s] \ {c}
    /\ list' \in [Scripts -> SUBSET Scripts]
    /\ phase' = [phase EXCEPT ![c] = "none"]
    /\ stop' = stop \ {c} /\ due' = due \ {c} /\ held' = held \ {c} /\ orphan' = orphan \ {c}
    /\ pbLock' = [pbLock EXCEPT ![c] = None]
    /\ dangling' = (dangling \cup {x \in made : Parent[x] = c}) \ {c}
    /\ lost' = lost \cup {u \in Scripts : act[u] \in {"route", "bag"} /\ route[u].at = c}
    /\ route' \in [Scripts -> Route \cup {None}]
    /\ \A u \in Scripts : act[u] # "asked" => route'[u] = route[u]

LEMMA DeleteDeletes ==
    ASSUME ObjectsOK, ThreadsOK, NEW c \in Scripts, phase[c] = "over", Delete(c)
    PROVE  Deleted(c)
<1>1. list' = [s \in Scripts |-> IF s = c THEN {} ELSE list[s] \ {c}]
  BY DEF Delete
<1>2. list' \in [Scripts -> SUBSET Scripts]
  BY <1>1 DEF ObjectsOK
<1>3. route' = [u \in Scripts |-> IF AsksOf(u, c) THEN None ELSE route[u]]
  BY DEF Delete
<1>4. route' \in [Scripts -> Route \cup {None}]
  BY <1>3 DEF ThreadsOK
<1>5. \A u \in Scripts : act[u] # "asked" => route'[u] = route[u]
  BY <1>3 DEF AsksOf
<1> QED
  BY <1>1, <1>2, <1>4, <1>5 DEF Delete, Deleted

\* What a step does that deletes.
AfterDelete(c) ==
    /\ Deleted(c)
    /\ act' \in [Scripts -> Acts]
    /\ \A u \in Scripts : act'[u] = act[u] \/ (act[u] = "replace" /\ act'[u] = "create")
    /\ victim' \in [Scripts -> Scripts \cup {None}]
    /\ \A u \in Scripts : victim'[u] = victim[u] \/ (act[u] = "none" /\ victim'[u] = None)
    /\ Parent[c] # None => act[Parent[c]] \notin {"route", "bag"}
    /\ UNCHANGED <<calls, spawns>>

Deletes(t) == HostDeletes(t) \/ Replace(t) \/ DeleteChild(t) \/ CleanupChild(t)

LEMMA WhoDeletes ==
    ASSUME IInv, NEW t \in Scripts, Deletes(t)
    PROVE  \E c \in Scripts : AfterDelete(c)
<1> USE DEF IInv, ThreadsOK
<1>1. CASE HostDeletes(t)
  <2>1. Deleted(t)
    BY <1>1, DeleteDeletes DEF HostDeletes
  <2>2. Parent[t] = None
    BY <1>1 DEF HostDeletes, Roots, Children
  <2> QED
    BY <1>1, <2>1, <2>2 DEF HostDeletes, AfterDelete
<1>2. CASE Replace(t)
  <2>1. act[t] = "replace" /\ victim[t] \in Scripts /\ Parent[victim[t]] = t
    BY <1>2 DEF Replace, BusyRuns, Children
  <2>2. Deleted(victim[t])
    BY <1>2, <2>1, DeleteDeletes DEF Replace
  <2>3. act' = [act EXCEPT ![t] = "create"] /\ UNCHANGED <<victim, calls, spawns>>
    BY <1>2 DEF Replace, Does
  <2>4. act' \in [Scripts -> Acts]
    BY <2>3 DEF Acts
  <2> QED
    BY <2>1, <2>2, <2>3, <2>4 DEF AfterDelete
<1>3. CASE DeleteChild(t)
  <2>1. victim[t] \in Scripts /\ act[t] = "none" /\ Parent[victim[t]] = t
    BY <1>3 DEF DeleteChild, BusyRuns, Children
  <2>2. Deleted(victim[t])
    BY <1>3, <2>1, DeleteDeletes DEF DeleteChild
  <2> QED
    BY <1>3, <2>1, <2>2 DEF DeleteChild, AfterDelete
<1>4. CASE CleanupChild(t)
  <2>1. PICK c \in Ended(t) : Delete(c)
    BY <1>4 DEF CleanupChild
  <2>2. c \in Scripts /\ phase[c] = "over" /\ Parent[c] = t
    BY <2>1 DEF Ended, ObjectsOK, Children
  <2>3. Deleted(c)
    BY <2>1, <2>2, DeleteDeletes
  <2> QED
    BY <1>4, <2>2, <2>3 DEF CleanupChild, AfterDelete
<1> QED
  BY <1>1, <1>2, <1>3, <1>4 DEF Deletes

\* Below a script that is over the line up to it holds an orphan.
LEMMA OrphanBelow ==
    ASSUME IInv, NEW t \in made, NEW c \in Above[t], c # t, phase[c] = "over"
    PROVE  \E o \in orphan : o \in Below(t, c)
<1> USE DEF IInv
<1>1. t \in Scripts /\ c \in Scripts
  BY AboveIn DEF ObjectsOK
<1>2. PICK d \in Above[t] : Parent[d] = c /\ d # c
  BY <1>1, LastStep
<1>3. d \in Scripts /\ Above[d] = {d} \cup Above[c] /\ c \in Above[c]
  BY <1>1, <1>2, AboveIn, NamesAreATree
<1>4. d \in Below(t, c)
  BY <1>2, <1>3 DEF Below
<1>5. Below(t, d) \subseteq Below(t, c)
  <2>1. ASSUME NEW y \in Below(t, d) PROVE y \in Below(t, c)
    <3>1. y \in Above[t] /\ d \in Above[y] /\ y # d
      BY DEF Below
    <3>2. y \in Scripts /\ c \in Above[y]
      BY <1>1, <1>3, <3>1, AboveIn, AboveUp
    <3>3. y # c
      BY <1>1, <1>2, <1>3, <3>1, NoneAboveItself, NoScripts
    <3> QED
      BY <3>1, <3>2, <3>3 DEF Below
  <2> QED
    BY <2>1
<1>6. CASE Below(t, d) \cap orphan = {}
  <2>1. d \in made
    BY <1>2, <1>6 DEF LineStands
  <2>2. d \in list[c] \/ d \in orphan
    BY <1>1, <1>2, <2>1, NoScripts DEF Family
  <2>3. d \in orphan
    BY <1>1, <2>2 DEF Family
  <2> QED
    BY <1>4, <2>3
<1>7. CASE Below(t, d) \cap orphan # {}
  BY <1>5, <1>7
<1> QED
  BY <1>6, <1>7

\* No thread is busy, or lost, that is over; its children are orphans.
LEMMA OverIsOver ==
    ASSUME IInv, NEW c \in Scripts, phase[c] = "over"
    PROVE  /\ act[c] = "none" /\ c \notin lost
           /\ \A x \in made : Parent[x] = c => x \in orphan
BY DEF IInv, BusyRuns, Family

LEMMA DeleteKeeps == ASSUME IInv, NEW c \in Scripts, AfterDelete(c) PROVE IInv'
<1> USE DEF IInv, AfterDelete, Deleted
<1>1. act[c] = "none" /\ c \notin lost /\ \A x \in made : Parent[x] = c => x \in orphan
  BY OverIsOver
<1>2. ObjectsOK'
  <2>1. lost' \subseteq made'
    <3>1. \A u \in Scripts : act[u] # "none" => u \in made
      BY DEF BusyRuns, PhasesOK
    <3> QED
      BY <1>1, <3>1 DEF ObjectsOK
  <2>2. \A s \in Scripts : list'[s] \subseteq Children(s) \cap made'
    BY DEF ObjectsOK
  <2> QED
    BY <2>1, <2>2 DEF ObjectsOK
<1>3. PhasesOK'
  <2>1. phase' \in [Scripts -> Phases]
    BY DEF PhasesOK, Phases
  <2> QED
    BY <2>1 DEF PhasesOK
<1>4. ThreadsOK'
  BY DEF ThreadsOK
<1>5. BusyRuns'
  <2>1. \A u \in Scripts : act'[u] # "none" => act[u] # "none" /\ u # c /\ phase'[u] = phase[u]
    BY <1>1 DEF PhasesOK
  <2>2. \A u \in lost' : act'[u] \in {"route", "bag"}
    BY DEF BusyRuns, ObjectsOK
  <2> QED
    BY <2>1, <2>2 DEF BusyRuns
<1>6. RoutesGoUp'
  BY DEF RoutesGoUp
<1>7. Family'
  <2>1. \A x \in made' : Parent[x] # None => x \in list'[Parent[x]] \/ x \in orphan'
    BY <1>1 DEF Family, ObjectsOK
  <2>2. \A x \in made' : Parent[x] # None => Parent[x] \in made' \/ x \in dangling'
    BY DEF Family, ObjectsOK
  <2>3. \A s \in Scripts : phase'[s] = "over" => list'[s] \subseteq orphan'
    BY DEF Family, PhasesOK, ObjectsOK
  <2> QED
    BY <2>1, <2>2, <2>3 DEF Family
<1>8. ChildrenGoFirst'
  BY <1>1 DEF ChildrenGoFirst
<1>9. StillAbove'
  BY DEF StillAbove
<1>10. ASSUME NEW t \in made', c \in Above[t] PROVE \E o \in orphan' : o \in Below(t, c)
  <2>1. t \in made /\ t # c
    OBVIOUS
  <2>2. PICK o \in orphan : o \in Below(t, c)
    BY <1>10, <2>1, OrphanBelow
  <2>3. o # c
    BY <2>2 DEF Below
  <2> QED
    BY <2>2, <2>3
<1>11. LineStands'
  <2>1. SUFFICES ASSUME NEW t \in made', NEW x \in Above[t], Below(t, x) \cap orphan' = {}
                 PROVE  x \in made'
    BY DEF LineStands, Below
  <2>2. t \in Scripts /\ t \in made
    BY DEF ObjectsOK
  <2>3. x # c
    BY <1>10, <2>1
  <2>4. c \notin Below(t, x)
    <3>1. SUFFICES ASSUME c \in Below(t, x) PROVE FALSE
      OBVIOUS
    <3>2. c \in Above[t] /\ x \in Above[c]
      BY <3>1 DEF Below
    <3>3. PICK o \in orphan' : o \in Below(t, c)
      BY <1>10, <3>2
    <3>4. o \in Above[t] /\ c \in Above[o] /\ o # c /\ o \in Scripts
      BY <2>2, <3>3, AboveIn DEF Below
    <3>5. x \in Above[o]
      BY <3>2, <3>4, AboveUp
    <3>6. o # x
      BY <2>3, <3>2, <3>4, NotBoth
    <3> QED
      BY <2>1, <3>3, <3>4, <3>5, <3>6 DEF Below
  <2>5. Below(t, x) \cap orphan = {}
    BY <2>1, <2>4
  <2> QED
    BY <2>2, <2>3, <2>5 DEF LineStands
<1>12. OwnLineIsSafe'
  <2>0. \A t \in lost' : t \in Scripts /\ act[t] \in {"route", "bag"} /\ route'[t] = route[t]
    BY DEF BusyRuns, ObjectsOK
  <2>1. SUFFICES ASSUME NEW t \in lost', route[t].at \in Above[t] \cup Children(t)
                 PROVE  Above[t] \cap orphan' # {}
    BY <2>0 DEF OwnLineIsSafe
  <2>2. t \in made' /\ t \in Scripts
    BY <1>2 DEF ObjectsOK
  <2>3. CASE t \in lost
    <3>1. PICK o \in Above[t] : o \in orphan
      BY <2>1, <2>3 DEF OwnLineIsSafe
    <3> QED
      BY <1>10, <2>2, <3>1 DEF Below
  <2>4. CASE t \notin lost
    <3>1. act[t] \in {"route", "bag"} /\ route[t].at = c
      BY <2>4
    <3>2. Parent[c] # t
      BY <2>2, <3>1, NoScripts
    <3>3. c \in Above[t]
      BY <2>1, <3>1, <3>2 DEF Children
    <3> QED
      BY <1>10, <2>2, <3>3 DEF Below
  <2> QED
    BY <2>3, <2>4
<1> QED
  BY <1>2, <1>3, <1>4, <1>5, <1>6, <1>7, <1>8, <1>9, <1>11, <1>12

LEMMA DeleteOk == ASSUME IInv, NEW t \in Scripts, Deletes(t) PROVE IInv'
BY WhoDeletes, DeleteKeeps

\* A route that goes on upwards has a parent to go to.
LEMMA UpIsThere ==
    ASSUME IInv, NEW t \in Scripts, act[t] = "route", route[t].top # None
    PROVE  /\ route[t] \in Route /\ Parent[route[t].at] \in Scripts
           /\ route[t].top \in Above[Parent[route[t].at]]
<1>1. route[t] \in Route /\ route[t].top # route[t].at /\ route[t].top \in Above[route[t].at]
  BY DEF IInv, RoutesGoUp
<1>2. route[t].at \in Scripts
  BY <1>1 DEF Route
<1>3. Parent[route[t].at] # None
  BY <1>1, <1>2, NamesAreATree
<1> QED
  BY <1>1, <1>2, <1>3, NamesAreATree

\* Objects exist as long as anything names them.
LEMMA ObjectStep == ASSUME IInv, [Next]_vars PROVE ObjectsOK'
<1> USE DEF IInv, ObjectsOK
<1>1. CASE UNCHANGED vars
  BY <1>1 DEF vars, threadVars, objectVars, lockVars
<1>2. ASSUME AllGone PROVE ObjectsOK'
  BY <1>2 DEF AllGone, vars, threadVars, objectVars, lockVars, Does, InScript, Returns
<1>3. ASSUME NEW r \in Roots, HostStops(r) PROVE ObjectsOK'
  BY <1>3 DEF HostStops, threadVars, objectVars, lockVars, Does, InScript, Returns
<1>4. ASSUME NEW r \in Roots, HostDeletes(r) PROVE ObjectsOK'
  BY <1>4, DeleteOk DEF Deletes, Roots, Children
<1>5. ASSUME NEW t \in Scripts, HopUp(t) PROVE ObjectsOK'
  <2>1. t \in made /\ lost' \subseteq lost \cup {t}
        /\ UNCHANGED <<made, list, dangling, orphan, stop, held, due>>
    BY <1>5 DEF HopUp, lockVars, BusyRuns, PhasesOK
  <2> QED
    BY <2>1
<1>6. ASSUME NEW t \in Scripts, HopDown(t) PROVE ObjectsOK'
  BY <1>6 DEF HopDown, threadVars, objectVars, lockVars, Does, InScript, Returns
<1>7. ASSUME NEW t \in Scripts, EnterBag(t) PROVE ObjectsOK'
  BY <1>7 DEF EnterBag, threadVars, objectVars, lockVars, Does, InScript, Returns
<1>8. ASSUME NEW t \in Scripts, LeaveBag(t) PROVE ObjectsOK'
  BY <1>8 DEF LeaveBag, threadVars, objectVars, lockVars, Does, InScript, Returns
<1>9. ASSUME NEW t \in Scripts, BagTimesOut(t) PROVE ObjectsOK'
  BY <1>9 DEF BagTimesOut, threadVars, objectVars, lockVars, Does, InScript, Returns
<1>10. ASSUME NEW t \in Scripts, TimeKey(t) PROVE ObjectsOK'
  <2>1. route[t].goal \in made
    BY <1>10 DEF TimeKey, Arrived, RoutesGoUp
  <2>2. due' \subseteq due \cup {route[t].goal} /\ UNCHANGED <<objectVars, stop, held>>
    BY <1>10 DEF TimeKey, lockVars
  <2> QED
    BY <2>1, <2>2 DEF objectVars
<1>11. ASSUME NEW t \in Scripts, Replace(t) PROVE ObjectsOK'
  BY <1>11, DeleteOk DEF Deletes
<1>12. ASSUME NEW t \in Scripts, Create(t) PROVE ObjectsOK'
  <2>1. t \in made /\ victim[t] \in Children(t) /\ victim[t] \in Scripts
    BY <1>12 DEF Create, Does, BusyRuns, PhasesOK, Children
  <2>2. /\ made' = made \cup {victim[t]} /\ list' = [list EXCEPT ![t] = @ \cup {victim[t]}]
        /\ UNCHANGED <<dangling, lost, orphan, stop, held, due>>
    BY <1>12 DEF Create, lockVars
  <2>3. list' \in [Scripts -> SUBSET Scripts]
    BY <2>1, <2>2
  <2>4. \A s \in Scripts : list'[s] \subseteq Children(s) \cap made'
    BY <2>1, <2>2
  <2> QED
    BY <2>1, <2>2, <2>3, <2>4
<1>13. ASSUME NEW t \in Scripts, SpawnReturns(t) PROVE ObjectsOK'
  BY <1>13 DEF SpawnReturns, threadVars, objectVars, lockVars, Does, InScript, Returns
<1>14. ASSUME NEW t \in Scripts, EndThread(t) PROVE ObjectsOK'
  <2>1. t \in made /\ held' \subseteq held \cup {t} /\ UNCHANGED <<objectVars, stop, due>>
    BY <1>14 DEF EndThread, lockVars, PhasesOK
  <2> QED
    BY <2>1 DEF objectVars
<1>15. ASSUME NEW t \in Scripts, StopChild(t) PROVE ObjectsOK'
  BY <1>15 DEF StopChild, threadVars, objectVars, lockVars, Does, InScript, Returns
<1>16. ASSUME NEW t \in Scripts, DeleteChild(t) PROVE ObjectsOK'
  BY <1>16, DeleteOk DEF Deletes
<1>17. ASSUME NEW t \in Scripts, EndOfThread(t) PROVE ObjectsOK'
  BY <1>17 DEF EndOfThread, threadVars, objectVars, lockVars, Does, InScript, Returns
<1>18. ASSUME NEW t \in Scripts, CleanupChild(t) PROVE ObjectsOK'
  BY <1>18, DeleteOk DEF Deletes
<1>19. ASSUME NEW t \in Scripts, CleanupKeys(t) PROVE ObjectsOK'
  BY <1>19 DEF CleanupKeys, threadVars, objectVars, lockVars, Does, InScript, Returns
<1>20. ASSUME NEW t \in Scripts, EraseKey(t) PROVE ObjectsOK'
  BY <1>20 DEF EraseKey, threadVars, objectVars, lockVars, Does, InScript, Returns
<1>21. ASSUME NEW t \in Scripts, Cancel(t) PROVE ObjectsOK'
  BY <1>21 DEF Cancel, threadVars, objectVars, lockVars, Does, InScript, Returns
<1>22. ASSUME NEW t \in Scripts, InitFails(t) PROVE ObjectsOK'
  BY <1>22 DEF InitFails, threadVars, objectVars, lockVars, Does, InScript, Returns
<1>23. ASSUME NEW t \in Scripts, InitOk(t) PROVE ObjectsOK'
  BY <1>23 DEF InitOk, threadVars, objectVars, lockVars, Does, InScript, Returns
<1>24. ASSUME NEW t \in Scripts, LeaveLoop(t) PROVE ObjectsOK'
  BY <1>24 DEF LeaveLoop, threadVars, objectVars, lockVars, Does, InScript, Returns
<1>25. ASSUME NEW t \in Scripts, ExitDone(t) PROVE ObjectsOK'
  BY <1>25 DEF ExitDone, threadVars, objectVars, lockVars, Does, InScript, Returns
<1>26. ASSUME NEW t \in Scripts, StartCleanup(t) PROVE ObjectsOK'
  BY <1>26 DEF StartCleanup, threadVars, objectVars, lockVars, Does, InScript, Returns
<1>27. ASSUME NEW t \in Scripts, NEW goal \in Scripts, NEW top \in Scripts,
              NEW kind \in Kinds, <<t, top, goal, kind>> \in Paths, Call(t, goal, top, kind) PROVE ObjectsOK'
  BY <1>27 DEF Call, threadVars, objectVars, lockVars, Does, InScript, Returns
<1>28. ASSUME NEW t \in Scripts, NEW c \in Children(t), Spawn(t, c) PROVE ObjectsOK'
  BY <1>28 DEF Spawn, threadVars, objectVars, lockVars, Does, InScript, Returns
<1>29. ASSUME NEW t \in Scripts, Ask(t) PROVE ObjectsOK'
  BY <1>29 DEF Ask, threadVars, objectVars, lockVars, Does, InScript, Returns
<1>30. ASSUME NEW t \in Scripts, AskTimesOut(t) PROVE ObjectsOK'
  BY <1>30 DEF AskTimesOut, threadVars, objectVars, lockVars, Does, InScript, Returns
<1>31. ASSUME NEW t \in Scripts, SpawnTimesOut(t) PROVE ObjectsOK'
  BY <1>31 DEF SpawnTimesOut, threadVars, objectVars, lockVars, Does, InScript, Returns
<1>32. ASSUME NEW t \in Scripts, NEW u \in Scripts, Reply(t, u) PROVE ObjectsOK'
  BY <1>32 DEF Reply, AsksOf, threadVars, objectVars, lockVars, Does, InScript, Returns
<1> HIDE DEF IInv, ObjectsOK
<1> QED
  BY <1>1, <1>2, <1>3, <1>4, <1>5, <1>6, <1>7, <1>8, <1>9, <1>10, <1>11, <1>12,
     <1>13, <1>14, <1>15, <1>16, <1>17, <1>18, <1>19, <1>20, <1>21, <1>22,
     <1>23, <1>24, <1>25, <1>26, <1>27, <1>28,
     <1>29, <1>30, <1>31, <1>32
  DEF Next, Host, Step, Script

\* A phase is that of an object.
LEMMA PhaseStep == ASSUME IInv, [Next]_vars PROVE PhasesOK'
<1> USE DEF IInv, PhasesOK, Phases
<1>1. CASE UNCHANGED vars
  BY <1>1 DEF vars, threadVars, objectVars, lockVars
<1>2. ASSUME AllGone PROVE PhasesOK'
  BY <1>2 DEF AllGone, vars, threadVars, objectVars, lockVars, Does, InScript, Returns
<1>3. ASSUME NEW r \in Roots, HostStops(r) PROVE PhasesOK'
  BY <1>3 DEF HostStops, threadVars, objectVars, lockVars, Does, InScript, Returns
<1>4. ASSUME NEW r \in Roots, HostDeletes(r) PROVE PhasesOK'
  BY <1>4, DeleteOk DEF Deletes, Roots, Children
<1>5. ASSUME NEW t \in Scripts, HopUp(t) PROVE PhasesOK'
  BY <1>5 DEF HopUp, threadVars, objectVars, lockVars, Does, InScript, Returns
<1>6. ASSUME NEW t \in Scripts, HopDown(t) PROVE PhasesOK'
  BY <1>6 DEF HopDown, threadVars, objectVars, lockVars, Does, InScript, Returns
<1>7. ASSUME NEW t \in Scripts, EnterBag(t) PROVE PhasesOK'
  BY <1>7 DEF EnterBag, threadVars, objectVars, lockVars, Does, InScript, Returns
<1>8. ASSUME NEW t \in Scripts, LeaveBag(t) PROVE PhasesOK'
  BY <1>8 DEF LeaveBag, threadVars, objectVars, lockVars, Does, InScript, Returns
<1>9. ASSUME NEW t \in Scripts, BagTimesOut(t) PROVE PhasesOK'
  BY <1>9 DEF BagTimesOut, threadVars, objectVars, lockVars, Does, InScript, Returns
<1>10. ASSUME NEW t \in Scripts, TimeKey(t) PROVE PhasesOK'
  BY <1>10 DEF TimeKey, threadVars, objectVars, lockVars, Does, InScript, Returns
<1>11. ASSUME NEW t \in Scripts, Replace(t) PROVE PhasesOK'
  BY <1>11, DeleteOk DEF Deletes
<1>12. ASSUME NEW t \in Scripts, Create(t) PROVE PhasesOK'
  BY <1>12 DEF Create, threadVars, objectVars, lockVars, Does, InScript, Returns
<1>13. ASSUME NEW t \in Scripts, SpawnReturns(t) PROVE PhasesOK'
  BY <1>13 DEF SpawnReturns, threadVars, objectVars, lockVars, Does, InScript, Returns
<1>14. ASSUME NEW t \in Scripts, EndThread(t) PROVE PhasesOK'
  BY <1>14 DEF EndThread, threadVars, objectVars, lockVars, Does, InScript, Returns
<1>15. ASSUME NEW t \in Scripts, StopChild(t) PROVE PhasesOK'
  BY <1>15 DEF StopChild, threadVars, objectVars, lockVars, Does, InScript, Returns
<1>16. ASSUME NEW t \in Scripts, DeleteChild(t) PROVE PhasesOK'
  BY <1>16, DeleteOk DEF Deletes
<1>17. ASSUME NEW t \in Scripts, EndOfThread(t) PROVE PhasesOK'
  BY <1>17 DEF EndOfThread, threadVars, objectVars, lockVars, Does, InScript, Returns
<1>18. ASSUME NEW t \in Scripts, CleanupChild(t) PROVE PhasesOK'
  BY <1>18, DeleteOk DEF Deletes
<1>19. ASSUME NEW t \in Scripts, CleanupKeys(t) PROVE PhasesOK'
  BY <1>19 DEF CleanupKeys, threadVars, objectVars, lockVars, Does, InScript, Returns
<1>20. ASSUME NEW t \in Scripts, EraseKey(t) PROVE PhasesOK'
  BY <1>20 DEF EraseKey, threadVars, objectVars, lockVars, Does, InScript, Returns
<1>21. ASSUME NEW t \in Scripts, Cancel(t) PROVE PhasesOK'
  BY <1>21 DEF Cancel, threadVars, objectVars, lockVars, Does, InScript, Returns
<1>22. ASSUME NEW t \in Scripts, InitFails(t) PROVE PhasesOK'
  BY <1>22 DEF InitFails, threadVars, objectVars, lockVars, Does, InScript, Returns
<1>23. ASSUME NEW t \in Scripts, InitOk(t) PROVE PhasesOK'
  BY <1>23 DEF InitOk, threadVars, objectVars, lockVars, Does, InScript, Returns
<1>24. ASSUME NEW t \in Scripts, LeaveLoop(t) PROVE PhasesOK'
  BY <1>24 DEF LeaveLoop, threadVars, objectVars, lockVars, Does, InScript, Returns
<1>25. ASSUME NEW t \in Scripts, ExitDone(t) PROVE PhasesOK'
  BY <1>25 DEF ExitDone, threadVars, objectVars, lockVars, Does, InScript, Returns
<1>26. ASSUME NEW t \in Scripts, StartCleanup(t) PROVE PhasesOK'
  BY <1>26 DEF StartCleanup, threadVars, objectVars, lockVars, Does, InScript, Returns
<1>27. ASSUME NEW t \in Scripts, NEW goal \in Scripts, NEW top \in Scripts,
              NEW kind \in Kinds, <<t, top, goal, kind>> \in Paths, Call(t, goal, top, kind) PROVE PhasesOK'
  BY <1>27 DEF Call, threadVars, objectVars, lockVars, Does, InScript, Returns
<1>28. ASSUME NEW t \in Scripts, NEW c \in Children(t), Spawn(t, c) PROVE PhasesOK'
  BY <1>28 DEF Spawn, threadVars, objectVars, lockVars, Does, InScript, Returns
<1>29. ASSUME NEW t \in Scripts, Ask(t) PROVE PhasesOK'
  BY <1>29 DEF Ask, threadVars, objectVars, lockVars, Does, InScript, Returns
<1>30. ASSUME NEW t \in Scripts, AskTimesOut(t) PROVE PhasesOK'
  BY <1>30 DEF AskTimesOut, threadVars, objectVars, lockVars, Does, InScript, Returns
<1>31. ASSUME NEW t \in Scripts, SpawnTimesOut(t) PROVE PhasesOK'
  BY <1>31 DEF SpawnTimesOut, threadVars, objectVars, lockVars, Does, InScript, Returns
<1>32. ASSUME NEW t \in Scripts, NEW u \in Scripts, Reply(t, u) PROVE PhasesOK'
  BY <1>32 DEF Reply, AsksOf, threadVars, objectVars, lockVars, Does, InScript, Returns
<1> HIDE DEF IInv, PhasesOK, Phases
<1> QED
  BY <1>1, <1>2, <1>3, <1>4, <1>5, <1>6, <1>7, <1>8, <1>9, <1>10, <1>11, <1>12,
     <1>13, <1>14, <1>15, <1>16, <1>17, <1>18, <1>19, <1>20, <1>21, <1>22,
     <1>23, <1>24, <1>25, <1>26, <1>27, <1>28,
     <1>29, <1>30, <1>31, <1>32
  DEF Next, Host, Step, Script

\* The other types are kept.
LEMMA ThreadStep == ASSUME IInv, [Next]_vars PROVE ThreadsOK'
<1> USE DEF IInv, ThreadsOK
<1>1. CASE UNCHANGED vars
  BY <1>1 DEF vars, threadVars, objectVars, lockVars
<1>2. ASSUME AllGone PROVE ThreadsOK'
  BY <1>2 DEF AllGone, vars, threadVars, objectVars, lockVars, Does, InScript, Returns
<1>3. ASSUME NEW r \in Roots, HostStops(r) PROVE ThreadsOK'
  BY <1>3 DEF HostStops, threadVars, objectVars, lockVars, Does, InScript, Returns
<1>4. ASSUME NEW r \in Roots, HostDeletes(r) PROVE ThreadsOK'
  BY <1>4, DeleteOk DEF Deletes, Roots, Children
<1>5. ASSUME NEW t \in Scripts, HopUp(t) PROVE ThreadsOK'
  <2>1. CASE route[t].at \in dangling
    BY <1>5, <2>1 DEF HopUp, lockVars
  <2>2. CASE route[t].at \notin dangling
    <3>1. route[t] \in Route /\ Parent[route[t].at] \in Scripts
      BY <1>5, UpIsThere DEF HopUp
    <3>2. Going(Parent[route[t].at], route[t].top, route[t].goal, route[t].kind) \in Route
      BY <3>1 DEF Going, Route
    <3>3. route' = [route EXCEPT ![t] = Going(Parent[route[t].at], route[t].top, route[t].goal, route[t].kind)]
          /\ UNCHANGED <<act, victim, pbLock, calls, spawns>>
      BY <1>5, <2>2 DEF HopUp, lockVars
    <3> QED
      BY <3>2, <3>3
  <2> QED
    BY <2>1, <2>2
<1>6. ASSUME NEW t \in Scripts, HopDown(t) PROVE ThreadsOK'
  <2>1. PICK c \in Children(route[t].at) \cap Above[route[t].goal] :
          IF c \in list[route[t].at] THEN route' = [route EXCEPT ![t].at = c] /\ UNCHANGED act
                                     ELSE Returns(t)
    BY <1>6 DEF HopDown
  <2>2. UNCHANGED <<victim, pbLock, calls, spawns>>
    BY <1>6 DEF HopDown, lockVars
  <2>3. CASE Returns(t)
    BY <2>2, <2>3 DEF Returns, Does, Acts
  <2>4. CASE route' = [route EXCEPT ![t].at = c] /\ UNCHANGED act
    <3>1. route[t] \in Route /\ c \in Scripts
      BY <1>6 DEF HopDown, RoutesGoUp, Children
    <3>2. [route[t] EXCEPT !.at = c] \in Route
      BY <3>1 DEF Route
    <3>3. route' = [route EXCEPT ![t] = [route[t] EXCEPT !.at = c]]
      BY <2>4
    <3>4. route' \in [Scripts -> Route \cup {None}]
      BY <3>2, <3>3
    <3> QED
      BY <2>2, <2>4, <3>4
  <2> QED
    BY <2>1, <2>3, <2>4
<1>7. ASSUME NEW t \in Scripts, EnterBag(t) PROVE ThreadsOK'
  BY <1>7 DEF EnterBag, threadVars, objectVars, lockVars, Does, InScript, Returns, Acts, Arrived
<1>8. ASSUME NEW t \in Scripts, LeaveBag(t) PROVE ThreadsOK'
  BY <1>8 DEF LeaveBag, threadVars, objectVars, lockVars, Does, InScript, Returns, Acts, Arrived
<1>9. ASSUME NEW t \in Scripts, BagTimesOut(t) PROVE ThreadsOK'
  BY <1>9 DEF BagTimesOut, threadVars, objectVars, lockVars, Does, InScript, Returns, Acts, Arrived
<1>10. ASSUME NEW t \in Scripts, TimeKey(t) PROVE ThreadsOK'
  BY <1>10 DEF TimeKey, threadVars, objectVars, lockVars, Does, InScript, Returns, Acts, Arrived
<1>11. ASSUME NEW t \in Scripts, Replace(t) PROVE ThreadsOK'
  BY <1>11, DeleteOk DEF Deletes
<1>12. ASSUME NEW t \in Scripts, Create(t) PROVE ThreadsOK'
  BY <1>12 DEF Create, threadVars, objectVars, lockVars, Does, InScript, Returns, Acts
<1>13. ASSUME NEW t \in Scripts, SpawnReturns(t) PROVE ThreadsOK'
  BY <1>13 DEF SpawnReturns, threadVars, objectVars, lockVars, Does, InScript, Returns, Acts
<1>14. ASSUME NEW t \in Scripts, EndThread(t) PROVE ThreadsOK'
  BY <1>14 DEF EndThread, threadVars, objectVars, lockVars, Does, InScript, Returns
<1>15. ASSUME NEW t \in Scripts, StopChild(t) PROVE ThreadsOK'
  <2>1. PICK c \in list[t] : victim' = [victim EXCEPT ![t] = c]
    BY <1>15 DEF StopChild
  <2>2. c \in Scripts /\ UNCHANGED <<act, route, pbLock, calls, spawns>>
    BY <1>15 DEF StopChild, ObjectsOK, lockVars
  <2> QED
    BY <2>1, <2>2
<1>16. ASSUME NEW t \in Scripts, DeleteChild(t) PROVE ThreadsOK'
  BY <1>16, DeleteOk DEF Deletes
<1>17. ASSUME NEW t \in Scripts, EndOfThread(t) PROVE ThreadsOK'
  BY <1>17 DEF EndOfThread, threadVars, objectVars, lockVars, Does, InScript, Returns
<1>18. ASSUME NEW t \in Scripts, CleanupChild(t) PROVE ThreadsOK'
  BY <1>18, DeleteOk DEF Deletes
<1>19. ASSUME NEW t \in Scripts, CleanupKeys(t) PROVE ThreadsOK'
  BY <1>19 DEF CleanupKeys, threadVars, objectVars, lockVars, Does, InScript, Returns, Acts
<1>20. ASSUME NEW t \in Scripts, EraseKey(t) PROVE ThreadsOK'
  BY <1>20 DEF EraseKey, threadVars, objectVars, lockVars, Does, InScript, Returns, Acts
<1>21. ASSUME NEW t \in Scripts, Cancel(t) PROVE ThreadsOK'
  <2>1. act' \in [Scripts -> Acts]
    BY <1>21 DEF Cancel, Acts
  <2>2. PICK left \in {None, Gone} :
          pbLock' = [s \in Scripts |-> IF pbLock[s] = t THEN left ELSE pbLock[s]]
    BY <1>21 DEF Cancel
  <2>3. pbLock' \in [Scripts -> Scripts \cup {None, Gone}]
    BY <2>2
  <2>4. /\ route' \in [Scripts -> Route \cup {None}] /\ victim' \in [Scripts -> Scripts \cup {None}]
        /\ UNCHANGED <<calls, spawns>>
    BY <1>21 DEF Cancel
  <2> QED
    BY <2>1, <2>3, <2>4
<1>22. ASSUME NEW t \in Scripts, InitFails(t) PROVE ThreadsOK'
  BY <1>22 DEF InitFails, threadVars, objectVars, lockVars, Does, InScript, Returns
<1>23. ASSUME NEW t \in Scripts, InitOk(t) PROVE ThreadsOK'
  BY <1>23 DEF InitOk, threadVars, objectVars, lockVars, Does, InScript, Returns
<1>24. ASSUME NEW t \in Scripts, LeaveLoop(t) PROVE ThreadsOK'
  BY <1>24 DEF LeaveLoop, threadVars, objectVars, lockVars, Does, InScript, Returns
<1>25. ASSUME NEW t \in Scripts, ExitDone(t) PROVE ThreadsOK'
  BY <1>25 DEF ExitDone, threadVars, objectVars, lockVars, Does, InScript, Returns
<1>26. ASSUME NEW t \in Scripts, StartCleanup(t) PROVE ThreadsOK'
  BY <1>26 DEF StartCleanup, threadVars, objectVars, lockVars, Does, InScript, Returns, Acts
<1>27. ASSUME NEW t \in Scripts, NEW goal \in Scripts, NEW top \in Scripts,
              NEW kind \in Kinds, <<t, top, goal, kind>> \in Paths, Call(t, goal, top, kind) PROVE ThreadsOK'
  <2>1. Going(t, top, goal, kind) \in Route
    BY DEF Going, Route
  <2>2. act' \in [Scripts -> Acts]
    BY <1>27 DEF Call, Does, Acts
  <2>3. calls' \in 0 .. MaxCalls
    BY <1>27 DEF Call
  <2>4. /\ route' = [route EXCEPT ![t] = Going(t, top, goal, kind)]
        /\ UNCHANGED <<victim, pbLock, spawns>>
    BY <1>27 DEF Call, lockVars
  <2> QED
    BY <2>1, <2>2, <2>3, <2>4
<1>28. ASSUME NEW t \in Scripts, NEW c \in Children(t), Spawn(t, c) PROVE ThreadsOK'
  <2>1. act' \in [Scripts -> Acts]
    BY <1>28 DEF Spawn, Does, Acts
  <2>2. spawns' \in 0 .. MaxSpawns /\ c \in Scripts
    BY <1>28 DEF Spawn, Children
  <2>3. victim' = [victim EXCEPT ![t] = c] /\ UNCHANGED <<route, pbLock, calls>>
    BY <1>28 DEF Spawn, lockVars
  <2> QED
    BY <2>1, <2>2, <2>3
<1>29. ASSUME NEW t \in Scripts, Ask(t) PROVE ThreadsOK'
  BY <1>29 DEF Ask, threadVars, objectVars, lockVars, Does, InScript, Returns, Acts, Arrived
<1>30. ASSUME NEW t \in Scripts, AskTimesOut(t) PROVE ThreadsOK'
  BY <1>30 DEF AskTimesOut, threadVars, objectVars, lockVars, Does, InScript, Returns, Acts, Arrived
<1>31. ASSUME NEW t \in Scripts, SpawnTimesOut(t) PROVE ThreadsOK'
  BY <1>31 DEF SpawnTimesOut, threadVars, objectVars, lockVars, Does, InScript, Returns, Acts
<1>32. ASSUME NEW t \in Scripts, NEW u \in Scripts, Reply(t, u) PROVE ThreadsOK'
  BY <1>32 DEF Reply, AsksOf, threadVars, objectVars, lockVars, Does, InScript, Returns, Acts, Arrived
<1> HIDE DEF IInv, ThreadsOK
<1> QED
  BY <1>1, <1>2, <1>3, <1>4, <1>5, <1>6, <1>7, <1>8, <1>9, <1>10, <1>11, <1>12,
     <1>13, <1>14, <1>15, <1>16, <1>17, <1>18, <1>19, <1>20, <1>21, <1>22,
     <1>23, <1>24, <1>25, <1>26, <1>27, <1>28,
     <1>29, <1>30, <1>31, <1>32
  DEF Next, Host, Step, Script

\* A thread is only busy where it runs.
LEMMA BusyStep == ASSUME IInv, [Next]_vars PROVE BusyRuns'
<1> USE DEF IInv, BusyRuns, ThreadsOK
<1>1. CASE UNCHANGED vars
  BY <1>1 DEF vars, threadVars, objectVars, lockVars
<1>2. ASSUME AllGone PROVE BusyRuns'
  BY <1>2 DEF AllGone, vars, threadVars, objectVars, lockVars, Does, InScript, Returns
<1>3. ASSUME NEW r \in Roots, HostStops(r) PROVE BusyRuns'
  BY <1>3 DEF HostStops, threadVars, objectVars, lockVars, Does, InScript, Returns
<1>4. ASSUME NEW r \in Roots, HostDeletes(r) PROVE BusyRuns'
  BY <1>4, DeleteOk DEF Deletes, Roots, Children
<1>5. ASSUME NEW t \in Scripts, HopUp(t) PROVE BusyRuns'
  BY <1>5 DEF HopUp, threadVars, objectVars, lockVars, Does, InScript, Returns
<1>6. ASSUME NEW t \in Scripts, HopDown(t) PROVE BusyRuns'
  BY <1>6 DEF HopDown, threadVars, objectVars, lockVars, Does, InScript, Returns
<1>7. ASSUME NEW t \in Scripts, EnterBag(t) PROVE BusyRuns'
  BY <1>7 DEF EnterBag, threadVars, objectVars, lockVars, Does, InScript, Returns
<1>8. ASSUME NEW t \in Scripts, LeaveBag(t) PROVE BusyRuns'
  BY <1>8 DEF LeaveBag, threadVars, objectVars, lockVars, Does, InScript, Returns
<1>9. ASSUME NEW t \in Scripts, BagTimesOut(t) PROVE BusyRuns'
  BY <1>9 DEF BagTimesOut, threadVars, objectVars, lockVars, Does, InScript, Returns
<1>10. ASSUME NEW t \in Scripts, TimeKey(t) PROVE BusyRuns'
  BY <1>10 DEF TimeKey, threadVars, objectVars, lockVars, Does, InScript, Returns
<1>11. ASSUME NEW t \in Scripts, Replace(t) PROVE BusyRuns'
  BY <1>11, DeleteOk DEF Deletes
<1>12. ASSUME NEW t \in Scripts, Create(t) PROVE BusyRuns'
  BY <1>12 DEF Create, threadVars, objectVars, lockVars, Does, InScript, Returns
<1>13. ASSUME NEW t \in Scripts, SpawnReturns(t) PROVE BusyRuns'
  BY <1>13 DEF SpawnReturns, threadVars, objectVars, lockVars, Does, InScript, Returns
<1>14. ASSUME NEW t \in Scripts, EndThread(t) PROVE BusyRuns'
  BY <1>14 DEF EndThread, threadVars, objectVars, lockVars, Does, InScript, Returns
<1>15. ASSUME NEW t \in Scripts, StopChild(t) PROVE BusyRuns'
  <2>1. PICK c \in list[t] : victim' = [victim EXCEPT ![t] = c]
    BY <1>15 DEF StopChild
  <2>2. c \in Children(t) /\ phase[t] = "stopping" /\ UNCHANGED <<act, phase, lost>>
    BY <1>15, <2>1 DEF StopChild, ObjectsOK, objectVars
  <2> QED
    BY <2>1, <2>2
<1>16. ASSUME NEW t \in Scripts, DeleteChild(t) PROVE BusyRuns'
  BY <1>16, DeleteOk DEF Deletes
<1>17. ASSUME NEW t \in Scripts, EndOfThread(t) PROVE BusyRuns'
  BY <1>17 DEF EndOfThread, threadVars, objectVars, lockVars, Does, InScript, Returns
<1>18. ASSUME NEW t \in Scripts, CleanupChild(t) PROVE BusyRuns'
  BY <1>18, DeleteOk DEF Deletes
<1>19. ASSUME NEW t \in Scripts, CleanupKeys(t) PROVE BusyRuns'
  BY <1>19 DEF CleanupKeys, threadVars, objectVars, lockVars, Does, InScript, Returns
<1>20. ASSUME NEW t \in Scripts, EraseKey(t) PROVE BusyRuns'
  BY <1>20 DEF EraseKey, threadVars, objectVars, lockVars, Does, InScript, Returns
<1>21. ASSUME NEW t \in Scripts, Cancel(t) PROVE BusyRuns'
  BY <1>21 DEF Cancel, threadVars, objectVars, lockVars, Does, InScript, Returns
<1>22. ASSUME NEW t \in Scripts, InitFails(t) PROVE BusyRuns'
  BY <1>22 DEF InitFails, threadVars, objectVars, lockVars, Does, InScript, Returns
<1>23. ASSUME NEW t \in Scripts, InitOk(t) PROVE BusyRuns'
  BY <1>23 DEF InitOk, threadVars, objectVars, lockVars, Does, InScript, Returns
<1>24. ASSUME NEW t \in Scripts, LeaveLoop(t) PROVE BusyRuns'
  BY <1>24 DEF LeaveLoop, threadVars, objectVars, lockVars, Does, InScript, Returns
<1>25. ASSUME NEW t \in Scripts, ExitDone(t) PROVE BusyRuns'
  BY <1>25 DEF ExitDone, threadVars, objectVars, lockVars, Does, InScript, Returns
<1>26. ASSUME NEW t \in Scripts, StartCleanup(t) PROVE BusyRuns'
  BY <1>26 DEF StartCleanup, threadVars, objectVars, lockVars, Does, InScript, Returns
<1>27. ASSUME NEW t \in Scripts, NEW goal \in Scripts, NEW top \in Scripts,
              NEW kind \in Kinds, <<t, top, goal, kind>> \in Paths, Call(t, goal, top, kind) PROVE BusyRuns'
  BY <1>27 DEF Call, threadVars, objectVars, lockVars, Does, InScript, Returns
<1>28. ASSUME NEW t \in Scripts, NEW c \in Children(t), Spawn(t, c) PROVE BusyRuns'
  BY <1>28 DEF Spawn, threadVars, objectVars, lockVars, Does, InScript, Returns
<1>29. ASSUME NEW t \in Scripts, Ask(t) PROVE BusyRuns'
  BY <1>29 DEF Ask, threadVars, objectVars, lockVars, Does, InScript, Returns
<1>30. ASSUME NEW t \in Scripts, AskTimesOut(t) PROVE BusyRuns'
  BY <1>30 DEF AskTimesOut, threadVars, objectVars, lockVars, Does, InScript, Returns
<1>31. ASSUME NEW t \in Scripts, SpawnTimesOut(t) PROVE BusyRuns'
  BY <1>31 DEF SpawnTimesOut, threadVars, objectVars, lockVars, Does, InScript, Returns
<1>32. ASSUME NEW t \in Scripts, NEW u \in Scripts, Reply(t, u) PROVE BusyRuns'
  BY <1>32 DEF Reply, AsksOf, threadVars, objectVars, lockVars, Does, InScript, Returns
<1> HIDE DEF IInv, BusyRuns, ThreadsOK
<1> QED
  BY <1>1, <1>2, <1>3, <1>4, <1>5, <1>6, <1>7, <1>8, <1>9, <1>10, <1>11, <1>12,
     <1>13, <1>14, <1>15, <1>16, <1>17, <1>18, <1>19, <1>20, <1>21, <1>22,
     <1>23, <1>24, <1>25, <1>26, <1>27, <1>28,
     <1>29, <1>30, <1>31, <1>32
  DEF Next, Host, Step, Script

\* A route goes from object to object, or its thread is lost.
LEMMA RouteStep == ASSUME IInv, [Next]_vars PROVE RoutesGoUp'
<1> USE DEF IInv, RoutesGoUp, ThreadsOK
<1>1. CASE UNCHANGED vars
  BY <1>1 DEF vars, threadVars, objectVars, lockVars
<1>2. ASSUME AllGone PROVE RoutesGoUp'
  BY <1>2 DEF AllGone, vars, threadVars, objectVars, lockVars, Does, InScript, Returns
<1>3. ASSUME NEW r \in Roots, HostStops(r) PROVE RoutesGoUp'
  BY <1>3 DEF HostStops, threadVars, objectVars, lockVars, Does, InScript, Returns
<1>4. ASSUME NEW r \in Roots, HostDeletes(r) PROVE RoutesGoUp'
  BY <1>4, DeleteOk DEF Deletes, Roots, Children
<1>5. ASSUME NEW t \in Scripts, HopUp(t) PROVE RoutesGoUp'
  <2>1. act' = act /\ UNCHANGED made
    BY <1>5 DEF HopUp
  <2>2. CASE route[t].at \in dangling
    BY <1>5, <2>1, <2>2 DEF HopUp
  <2>3. CASE route[t].at \notin dangling
    <3>1. /\ route[t] \in Route /\ Parent[route[t].at] \in Scripts
          /\ route[t].top \in Above[Parent[route[t].at]] /\ route[t].top # None
      BY <1>5, UpIsThere DEF HopUp
    <3>2. Parent[route[t].at] \in made
      BY <1>5, <2>3, <3>1 DEF HopUp, RoutesGoUp, Family
    <3> DEFINE up == Going(Parent[route[t].at], route[t].top, route[t].goal, route[t].kind)
    <3>3. /\ up \in Route /\ up.at \in made
          /\ up.top # None => up.top # up.at /\ up.top \in Above[up.at]
      BY <3>1, <3>2 DEF Going, Route
    <3>4. route' = [route EXCEPT ![t] = up] /\ UNCHANGED lost
      BY <1>5, <2>3 DEF HopUp
    <3> HIDE DEF up
    <3> QED
      BY <2>1, <3>3, <3>4
  <2> QED
    BY <2>2, <2>3
<1>6. ASSUME NEW t \in Scripts, HopDown(t) PROVE RoutesGoUp'
  <2>1. PICK c \in Children(route[t].at) \cap Above[route[t].goal] :
          IF c \in list[route[t].at] THEN route' = [route EXCEPT ![t].at = c] /\ UNCHANGED act
                                     ELSE Returns(t)
    BY <1>6 DEF HopDown
  <2>2. UNCHANGED <<made, lost>> /\ act[t] = "route" /\ route[t].top = None
    BY <1>6 DEF HopDown, objectVars
  <2>3. CASE c \notin list[route[t].at]
    BY <2>1, <2>2, <2>3 DEF Returns, Does
  <2>4. CASE c \in list[route[t].at]
    <3>1. route[t] \in Route /\ c \in Scripts
      BY <2>1, <2>2 DEF Children
    <3>2. [route[t] EXCEPT !.at = c] \in Route /\ [route[t] EXCEPT !.at = c].top = None
          /\ [route[t] EXCEPT !.at = c].at = c
      BY <2>2, <3>1 DEF Route
    <3>3. c \in made
      BY <2>4, <3>1 DEF ObjectsOK, Route
    <3>4. route' = [route EXCEPT ![t] = [route[t] EXCEPT !.at = c]] /\ UNCHANGED act
      BY <2>1, <2>4
    <3> QED
      BY <2>2, <3>2, <3>3, <3>4
  <2> QED
    BY <2>3, <2>4
<1>7. ASSUME NEW t \in Scripts, EnterBag(t) PROVE RoutesGoUp'
  BY <1>7 DEF EnterBag, threadVars, objectVars, lockVars, Does, InScript, Returns
<1>8. ASSUME NEW t \in Scripts, LeaveBag(t) PROVE RoutesGoUp'
  BY <1>8 DEF LeaveBag, threadVars, objectVars, lockVars, Does, InScript, Returns
<1>9. ASSUME NEW t \in Scripts, BagTimesOut(t) PROVE RoutesGoUp'
  BY <1>9 DEF BagTimesOut, threadVars, objectVars, lockVars, Does, InScript, Returns
<1>10. ASSUME NEW t \in Scripts, TimeKey(t) PROVE RoutesGoUp'
  BY <1>10 DEF TimeKey, threadVars, objectVars, lockVars, Does, InScript, Returns
<1>11. ASSUME NEW t \in Scripts, Replace(t) PROVE RoutesGoUp'
  BY <1>11, DeleteOk DEF Deletes
<1>12. ASSUME NEW t \in Scripts, Create(t) PROVE RoutesGoUp'
  BY <1>12 DEF Create, threadVars, objectVars, lockVars, Does, InScript, Returns
<1>13. ASSUME NEW t \in Scripts, SpawnReturns(t) PROVE RoutesGoUp'
  BY <1>13 DEF SpawnReturns, threadVars, objectVars, lockVars, Does, InScript, Returns
<1>14. ASSUME NEW t \in Scripts, EndThread(t) PROVE RoutesGoUp'
  BY <1>14 DEF EndThread, threadVars, objectVars, lockVars, Does, InScript, Returns
<1>15. ASSUME NEW t \in Scripts, StopChild(t) PROVE RoutesGoUp'
  BY <1>15 DEF StopChild, threadVars, objectVars, lockVars, Does, InScript, Returns
<1>16. ASSUME NEW t \in Scripts, DeleteChild(t) PROVE RoutesGoUp'
  BY <1>16, DeleteOk DEF Deletes
<1>17. ASSUME NEW t \in Scripts, EndOfThread(t) PROVE RoutesGoUp'
  BY <1>17 DEF EndOfThread, threadVars, objectVars, lockVars, Does, InScript, Returns
<1>18. ASSUME NEW t \in Scripts, CleanupChild(t) PROVE RoutesGoUp'
  BY <1>18, DeleteOk DEF Deletes
<1>19. ASSUME NEW t \in Scripts, CleanupKeys(t) PROVE RoutesGoUp'
  BY <1>19 DEF CleanupKeys, threadVars, objectVars, lockVars, Does, InScript, Returns
<1>20. ASSUME NEW t \in Scripts, EraseKey(t) PROVE RoutesGoUp'
  BY <1>20 DEF EraseKey, threadVars, objectVars, lockVars, Does, InScript, Returns
<1>21. ASSUME NEW t \in Scripts, Cancel(t) PROVE RoutesGoUp'
  BY <1>21 DEF Cancel, threadVars, objectVars, lockVars, Does, InScript, Returns
<1>22. ASSUME NEW t \in Scripts, InitFails(t) PROVE RoutesGoUp'
  BY <1>22 DEF InitFails, threadVars, objectVars, lockVars, Does, InScript, Returns
<1>23. ASSUME NEW t \in Scripts, InitOk(t) PROVE RoutesGoUp'
  BY <1>23 DEF InitOk, threadVars, objectVars, lockVars, Does, InScript, Returns
<1>24. ASSUME NEW t \in Scripts, LeaveLoop(t) PROVE RoutesGoUp'
  BY <1>24 DEF LeaveLoop, threadVars, objectVars, lockVars, Does, InScript, Returns
<1>25. ASSUME NEW t \in Scripts, ExitDone(t) PROVE RoutesGoUp'
  BY <1>25 DEF ExitDone, threadVars, objectVars, lockVars, Does, InScript, Returns
<1>26. ASSUME NEW t \in Scripts, StartCleanup(t) PROVE RoutesGoUp'
  BY <1>26 DEF StartCleanup, threadVars, objectVars, lockVars, Does, InScript, Returns
<1>27. ASSUME NEW t \in Scripts, NEW goal \in Scripts, NEW top \in Scripts,
              NEW kind \in Kinds, <<t, top, goal, kind>> \in Paths, Call(t, goal, top, kind) PROVE RoutesGoUp'
  <2> DEFINE new == Going(t, top, goal, kind)
  <2>1. top \in Above[t]
    BY <1>27, PathsArePaths
  <2>2. t \in made /\ t \notin lost
    BY <1>27 DEF Call, InScript, PhasesOK
  <2>3. new \in Route /\ new.at = t /\ (new.top # None => new.top # t /\ new.top \in Above[t])
    BY <2>1 DEF Going, Route
  <2>4. act' = [act EXCEPT ![t] = "route"] /\ route' = [route EXCEPT ![t] = new]
        /\ UNCHANGED <<made, lost>>
    BY <1>27 DEF Call, Does, objectVars
  <2> HIDE DEF new
  <2> QED
    BY <2>2, <2>3, <2>4
<1>28. ASSUME NEW t \in Scripts, NEW c \in Children(t), Spawn(t, c) PROVE RoutesGoUp'
  BY <1>28 DEF Spawn, threadVars, objectVars, lockVars, Does, InScript, Returns
<1>29. ASSUME NEW t \in Scripts, Ask(t) PROVE RoutesGoUp'
  BY <1>29 DEF Ask, threadVars, objectVars, lockVars, Does, InScript, Returns
<1>30. ASSUME NEW t \in Scripts, AskTimesOut(t) PROVE RoutesGoUp'
  BY <1>30 DEF AskTimesOut, threadVars, objectVars, lockVars, Does, InScript, Returns
<1>31. ASSUME NEW t \in Scripts, SpawnTimesOut(t) PROVE RoutesGoUp'
  BY <1>31 DEF SpawnTimesOut, threadVars, objectVars, lockVars, Does, InScript, Returns
<1>32. ASSUME NEW t \in Scripts, NEW u \in Scripts, Reply(t, u) PROVE RoutesGoUp'
  BY <1>32 DEF Reply, AsksOf, threadVars, objectVars, lockVars, Does, InScript, Returns
<1> HIDE DEF IInv, RoutesGoUp, ThreadsOK
<1> QED
  BY <1>1, <1>2, <1>3, <1>4, <1>5, <1>6, <1>7, <1>8, <1>9, <1>10, <1>11, <1>12,
     <1>13, <1>14, <1>15, <1>16, <1>17, <1>18, <1>19, <1>20, <1>21, <1>22,
     <1>23, <1>24, <1>25, <1>26, <1>27, <1>28,
     <1>29, <1>30, <1>31, <1>32
  DEF Next, Host, Step, Script

\* Lists and pointers agree.
LEMMA FamilyStep == ASSUME IInv, [Next]_vars PROVE Family'
<1> USE DEF IInv, Family
<1>1. CASE UNCHANGED vars
  BY <1>1 DEF vars, threadVars, objectVars, lockVars
<1>2. ASSUME AllGone PROVE Family'
  BY <1>2 DEF AllGone, vars, threadVars, objectVars, lockVars, Does, InScript, Returns
<1>3. ASSUME NEW r \in Roots, HostStops(r) PROVE Family'
  BY <1>3 DEF HostStops, threadVars, objectVars, lockVars, Does, InScript, Returns
<1>4. ASSUME NEW r \in Roots, HostDeletes(r) PROVE Family'
  BY <1>4, DeleteOk DEF Deletes, Roots, Children
<1>5. ASSUME NEW t \in Scripts, HopUp(t) PROVE Family'
  BY <1>5 DEF HopUp, threadVars, objectVars, lockVars, Does, InScript, Returns
<1>6. ASSUME NEW t \in Scripts, HopDown(t) PROVE Family'
  BY <1>6 DEF HopDown, threadVars, objectVars, lockVars, Does, InScript, Returns
<1>7. ASSUME NEW t \in Scripts, EnterBag(t) PROVE Family'
  BY <1>7 DEF EnterBag, threadVars, objectVars, lockVars, Does, InScript, Returns
<1>8. ASSUME NEW t \in Scripts, LeaveBag(t) PROVE Family'
  BY <1>8 DEF LeaveBag, threadVars, objectVars, lockVars, Does, InScript, Returns
<1>9. ASSUME NEW t \in Scripts, BagTimesOut(t) PROVE Family'
  BY <1>9 DEF BagTimesOut, threadVars, objectVars, lockVars, Does, InScript, Returns
<1>10. ASSUME NEW t \in Scripts, TimeKey(t) PROVE Family'
  BY <1>10 DEF TimeKey, threadVars, objectVars, lockVars, Does, InScript, Returns
<1>11. ASSUME NEW t \in Scripts, Replace(t) PROVE Family'
  BY <1>11, DeleteOk DEF Deletes
<1>12. ASSUME NEW t \in Scripts, Create(t) PROVE Family'
  <2>1. t \in made /\ phase[t] # "over" /\ Parent[victim[t]] = t /\ victim[t] \in Scripts
        /\ victim[t] \in Children(t)
    BY <1>12 DEF Create, Does, BusyRuns, PhasesOK, Children
  <2>2. /\ made' = made \cup {victim[t]} /\ list' = [list EXCEPT ![t] = @ \cup {victim[t]}]
        /\ phase' = [phase EXCEPT ![victim[t]] = "init"]
        /\ UNCHANGED <<dangling, orphan>>
    BY <1>12 DEF Create
  <2>3. \A x \in made' : Parent[x] # None => x \in list'[Parent[x]] \/ x \in orphan
    BY <2>1, <2>2 DEF ObjectsOK
  <2>4. \A x \in made' : Parent[x] # None => Parent[x] \in made' \/ x \in dangling
    BY <2>1, <2>2
  <2>5. \A s \in Scripts : phase'[s] = "over" => phase[s] = "over" /\ s # t /\ list'[s] = list[s]
    BY <2>1, <2>2 DEF PhasesOK, ObjectsOK
  <2> QED
    BY <2>2, <2>3, <2>4, <2>5
<1>13. ASSUME NEW t \in Scripts, SpawnReturns(t) PROVE Family'
  BY <1>13 DEF SpawnReturns, threadVars, objectVars, lockVars, Does, InScript, Returns
<1>14. ASSUME NEW t \in Scripts, EndThread(t) PROVE Family'
  BY <1>14 DEF EndThread, threadVars, objectVars, lockVars, Does, InScript, Returns
<1>15. ASSUME NEW t \in Scripts, StopChild(t) PROVE Family'
  BY <1>15 DEF StopChild, threadVars, objectVars, lockVars, Does, InScript, Returns
<1>16. ASSUME NEW t \in Scripts, DeleteChild(t) PROVE Family'
  BY <1>16, DeleteOk DEF Deletes
<1>17. ASSUME NEW t \in Scripts, EndOfThread(t) PROVE Family'
  BY <1>17 DEF EndOfThread, threadVars, objectVars, lockVars, Does, InScript, Returns
<1>18. ASSUME NEW t \in Scripts, CleanupChild(t) PROVE Family'
  BY <1>18, DeleteOk DEF Deletes
<1>19. ASSUME NEW t \in Scripts, CleanupKeys(t) PROVE Family'
  BY <1>19 DEF CleanupKeys, threadVars, objectVars, lockVars, Does, InScript, Returns
<1>20. ASSUME NEW t \in Scripts, EraseKey(t) PROVE Family'
  BY <1>20 DEF EraseKey, threadVars, objectVars, lockVars, Does, InScript, Returns
<1>21. ASSUME NEW t \in Scripts, Cancel(t) PROVE Family'
  BY <1>21 DEF Cancel, threadVars, objectVars, lockVars, Does, InScript, Returns
<1>22. ASSUME NEW t \in Scripts, InitFails(t) PROVE Family'
  BY <1>22 DEF InitFails, threadVars, objectVars, lockVars, Does, InScript, Returns
<1>23. ASSUME NEW t \in Scripts, InitOk(t) PROVE Family'
  BY <1>23 DEF InitOk, threadVars, objectVars, lockVars, Does, InScript, Returns
<1>24. ASSUME NEW t \in Scripts, LeaveLoop(t) PROVE Family'
  BY <1>24 DEF LeaveLoop, threadVars, objectVars, lockVars, Does, InScript, Returns
<1>25. ASSUME NEW t \in Scripts, ExitDone(t) PROVE Family'
  BY <1>25 DEF ExitDone, threadVars, objectVars, lockVars, Does, InScript, Returns
<1>26. ASSUME NEW t \in Scripts, StartCleanup(t) PROVE Family'
  BY <1>26 DEF StartCleanup, threadVars, objectVars, lockVars, Does, InScript, Returns
<1>27. ASSUME NEW t \in Scripts, NEW goal \in Scripts, NEW top \in Scripts,
              NEW kind \in Kinds, <<t, top, goal, kind>> \in Paths, Call(t, goal, top, kind) PROVE Family'
  BY <1>27 DEF Call, threadVars, objectVars, lockVars, Does, InScript, Returns
<1>28. ASSUME NEW t \in Scripts, NEW c \in Children(t), Spawn(t, c) PROVE Family'
  BY <1>28 DEF Spawn, threadVars, objectVars, lockVars, Does, InScript, Returns
<1>29. ASSUME NEW t \in Scripts, Ask(t) PROVE Family'
  BY <1>29 DEF Ask, threadVars, objectVars, lockVars, Does, InScript, Returns
<1>30. ASSUME NEW t \in Scripts, AskTimesOut(t) PROVE Family'
  BY <1>30 DEF AskTimesOut, threadVars, objectVars, lockVars, Does, InScript, Returns
<1>31. ASSUME NEW t \in Scripts, SpawnTimesOut(t) PROVE Family'
  BY <1>31 DEF SpawnTimesOut, threadVars, objectVars, lockVars, Does, InScript, Returns
<1>32. ASSUME NEW t \in Scripts, NEW u \in Scripts, Reply(t, u) PROVE Family'
  BY <1>32 DEF Reply, AsksOf, threadVars, objectVars, lockVars, Does, InScript, Returns
<1> HIDE DEF IInv, Family
<1> QED
  BY <1>1, <1>2, <1>3, <1>4, <1>5, <1>6, <1>7, <1>8, <1>9, <1>10, <1>11, <1>12,
     <1>13, <1>14, <1>15, <1>16, <1>17, <1>18, <1>19, <1>20, <1>21, <1>22,
     <1>23, <1>24, <1>25, <1>26, <1>27, <1>28,
     <1>29, <1>30, <1>31, <1>32
  DEF Next, Host, Step, Script

\* Children go first.
LEMMA FirstStep == ASSUME IInv, [Next]_vars PROVE ChildrenGoFirst'
<1> USE DEF IInv, ChildrenGoFirst
<1>1. CASE UNCHANGED vars
  BY <1>1 DEF vars, threadVars, objectVars, lockVars
<1>2. ASSUME AllGone PROVE ChildrenGoFirst'
  BY <1>2 DEF AllGone, vars, threadVars, objectVars, lockVars, Does, InScript, Returns
<1>3. ASSUME NEW r \in Roots, HostStops(r) PROVE ChildrenGoFirst'
  BY <1>3 DEF HostStops, threadVars, objectVars, lockVars, Does, InScript, Returns
<1>4. ASSUME NEW r \in Roots, HostDeletes(r) PROVE ChildrenGoFirst'
  BY <1>4, DeleteOk DEF Deletes, Roots, Children
<1>5. ASSUME NEW t \in Scripts, HopUp(t) PROVE ChildrenGoFirst'
  BY <1>5 DEF HopUp, threadVars, objectVars, lockVars, Does, InScript, Returns
<1>6. ASSUME NEW t \in Scripts, HopDown(t) PROVE ChildrenGoFirst'
  BY <1>6 DEF HopDown, threadVars, objectVars, lockVars, Does, InScript, Returns
<1>7. ASSUME NEW t \in Scripts, EnterBag(t) PROVE ChildrenGoFirst'
  BY <1>7 DEF EnterBag, threadVars, objectVars, lockVars, Does, InScript, Returns
<1>8. ASSUME NEW t \in Scripts, LeaveBag(t) PROVE ChildrenGoFirst'
  BY <1>8 DEF LeaveBag, threadVars, objectVars, lockVars, Does, InScript, Returns
<1>9. ASSUME NEW t \in Scripts, BagTimesOut(t) PROVE ChildrenGoFirst'
  BY <1>9 DEF BagTimesOut, threadVars, objectVars, lockVars, Does, InScript, Returns
<1>10. ASSUME NEW t \in Scripts, TimeKey(t) PROVE ChildrenGoFirst'
  BY <1>10 DEF TimeKey, threadVars, objectVars, lockVars, Does, InScript, Returns
<1>11. ASSUME NEW t \in Scripts, Replace(t) PROVE ChildrenGoFirst'
  BY <1>11, DeleteOk DEF Deletes
<1>12. ASSUME NEW t \in Scripts, Create(t) PROVE ChildrenGoFirst'
  BY <1>12 DEF Create, threadVars, objectVars, lockVars, Does, InScript, Returns
<1>13. ASSUME NEW t \in Scripts, SpawnReturns(t) PROVE ChildrenGoFirst'
  BY <1>13 DEF SpawnReturns, threadVars, objectVars, lockVars, Does, InScript, Returns
<1>14. ASSUME NEW t \in Scripts, EndThread(t) PROVE ChildrenGoFirst'
  BY <1>14 DEF EndThread, threadVars, objectVars, lockVars, Does, InScript, Returns
<1>15. ASSUME NEW t \in Scripts, StopChild(t) PROVE ChildrenGoFirst'
  BY <1>15 DEF StopChild, threadVars, objectVars, lockVars, Does, InScript, Returns
<1>16. ASSUME NEW t \in Scripts, DeleteChild(t) PROVE ChildrenGoFirst'
  BY <1>16, DeleteOk DEF Deletes
<1>17. ASSUME NEW t \in Scripts, EndOfThread(t) PROVE ChildrenGoFirst'
  BY <1>17 DEF EndOfThread, threadVars, objectVars, lockVars, Does, InScript, Returns
<1>18. ASSUME NEW t \in Scripts, CleanupChild(t) PROVE ChildrenGoFirst'
  BY <1>18, DeleteOk DEF Deletes
<1>19. ASSUME NEW t \in Scripts, CleanupKeys(t) PROVE ChildrenGoFirst'
  BY <1>19 DEF CleanupKeys, threadVars, objectVars, lockVars, Does, InScript, Returns
<1>20. ASSUME NEW t \in Scripts, EraseKey(t) PROVE ChildrenGoFirst'
  BY <1>20 DEF EraseKey, threadVars, objectVars, lockVars, Does, InScript, Returns
<1>21. ASSUME NEW t \in Scripts, Cancel(t) PROVE ChildrenGoFirst'
  BY <1>21 DEF Cancel, threadVars, objectVars, lockVars, Does, InScript, Returns
<1>22. ASSUME NEW t \in Scripts, InitFails(t) PROVE ChildrenGoFirst'
  BY <1>22 DEF InitFails, threadVars, objectVars, lockVars, Does, InScript, Returns
<1>23. ASSUME NEW t \in Scripts, InitOk(t) PROVE ChildrenGoFirst'
  BY <1>23 DEF InitOk, threadVars, objectVars, lockVars, Does, InScript, Returns
<1>24. ASSUME NEW t \in Scripts, LeaveLoop(t) PROVE ChildrenGoFirst'
  BY <1>24 DEF LeaveLoop, threadVars, objectVars, lockVars, Does, InScript, Returns
<1>25. ASSUME NEW t \in Scripts, ExitDone(t) PROVE ChildrenGoFirst'
  BY <1>25 DEF ExitDone, threadVars, objectVars, lockVars, Does, InScript, Returns
<1>26. ASSUME NEW t \in Scripts, StartCleanup(t) PROVE ChildrenGoFirst'
  BY <1>26 DEF StartCleanup, threadVars, objectVars, lockVars, Does, InScript, Returns
<1>27. ASSUME NEW t \in Scripts, NEW goal \in Scripts, NEW top \in Scripts,
              NEW kind \in Kinds, <<t, top, goal, kind>> \in Paths, Call(t, goal, top, kind) PROVE ChildrenGoFirst'
  BY <1>27 DEF Call, threadVars, objectVars, lockVars, Does, InScript, Returns
<1>28. ASSUME NEW t \in Scripts, NEW c \in Children(t), Spawn(t, c) PROVE ChildrenGoFirst'
  BY <1>28 DEF Spawn, threadVars, objectVars, lockVars, Does, InScript, Returns
<1>29. ASSUME NEW t \in Scripts, Ask(t) PROVE ChildrenGoFirst'
  BY <1>29 DEF Ask, threadVars, objectVars, lockVars, Does, InScript, Returns
<1>30. ASSUME NEW t \in Scripts, AskTimesOut(t) PROVE ChildrenGoFirst'
  BY <1>30 DEF AskTimesOut, threadVars, objectVars, lockVars, Does, InScript, Returns
<1>31. ASSUME NEW t \in Scripts, SpawnTimesOut(t) PROVE ChildrenGoFirst'
  BY <1>31 DEF SpawnTimesOut, threadVars, objectVars, lockVars, Does, InScript, Returns
<1>32. ASSUME NEW t \in Scripts, NEW u \in Scripts, Reply(t, u) PROVE ChildrenGoFirst'
  BY <1>32 DEF Reply, AsksOf, threadVars, objectVars, lockVars, Does, InScript, Returns
<1> HIDE DEF IInv, ChildrenGoFirst
<1> QED
  BY <1>1, <1>2, <1>3, <1>4, <1>5, <1>6, <1>7, <1>8, <1>9, <1>10, <1>11, <1>12,
     <1>13, <1>14, <1>15, <1>16, <1>17, <1>18, <1>19, <1>20, <1>21, <1>22,
     <1>23, <1>24, <1>25, <1>26, <1>27, <1>28,
     <1>29, <1>30, <1>31, <1>32
  DEF Next, Host, Step, Script

\* A call begins at its caller and goes to the parent of where it is.
LEMMA AboveStep == ASSUME IInv, [Next]_vars PROVE StillAbove'
<1> USE DEF IInv, StillAbove
<1>1. CASE UNCHANGED vars
  BY <1>1 DEF vars, threadVars, objectVars, lockVars
<1>2. ASSUME AllGone PROVE StillAbove'
  BY <1>2 DEF AllGone, vars, threadVars, objectVars, lockVars
<1>3. ASSUME NEW r \in Roots, HostStops(r) PROVE StillAbove'
  BY <1>3 DEF HostStops, ThreadsOK, Does, InScript, Returns, threadVars, objectVars, lockVars
<1>4. ASSUME NEW r \in Roots, HostDeletes(r) PROVE StillAbove'
  BY <1>4, DeleteOk DEF Deletes, Roots, Children
<1>5. ASSUME NEW t \in Scripts, HopUp(t) PROVE StillAbove'
  <2>1. act[t] = "route" /\ route[t].top # None /\ UNCHANGED act
    BY <1>5 DEF HopUp
  <2>2. CASE route[t].at \in dangling
    BY <1>5, <2>1, <2>2 DEF HopUp
  <2>3. CASE route[t].at \notin dangling
    <3>1. route[t].at \in Scripts /\ Parent[route[t].at] \in Scripts
      BY <2>1, UpIsThere DEF Route
    <3>2. route[t].at \in Above[t] /\ Parent[route[t].at] \in Above[route[t].at]
      <4> DEFINE x == route[t].at
      <4>1. x \in Scripts /\ Parent[x] \in Scripts /\ x \in Above[t]
        BY <2>1, <3>1
      <4> HIDE DEF x
      <4>2. Above[x] = {x} \cup Above[Parent[x]] /\ Parent[x] \in Above[Parent[x]]
        BY <4>1, AboveIn, NamesAreATree, NoScripts
      <4>3. Parent[x] \in Above[x]
        BY <4>2
      <4> QED
        BY <4>1, <4>3 DEF x
    <3>3. Parent[route[t].at] \in Above[t]
      BY <3>2, AboveUp
    <3> DEFINE up == Going(Parent[route[t].at], route[t].top, route[t].goal, route[t].kind)
    <3>4. up.at = Parent[route[t].at]
      BY DEF Going
    <3>5. route' = [route EXCEPT ![t] = up]
      BY <1>5, <2>3 DEF HopUp
    <3> HIDE DEF up
    <3> QED
      BY <2>1, <3>3, <3>4, <3>5 DEF ThreadsOK
  <2> QED
    BY <2>2, <2>3
<1>6. ASSUME NEW t \in Scripts, HopDown(t) PROVE StillAbove'
  <2>1. \A u \in Scripts : u # t => act'[u] = act[u] /\ route'[u] = route[u]
    BY <1>6 DEF HopDown, Returns, Does, ThreadsOK
  <2>2. PICK c \in Children(route[t].at) \cap Above[route[t].goal] :
          IF c \in list[route[t].at] THEN route' = [route EXCEPT ![t].at = c] /\ UNCHANGED act
                                     ELSE Returns(t)
    BY <1>6 DEF HopDown
  <2>3. CASE c \notin list[route[t].at]
    BY <2>1, <2>2, <2>3 DEF Returns, Does, ThreadsOK
  <2>4. CASE c \in list[route[t].at]
    <3>1. route[t] \in Route /\ route[t].top = None
      BY <1>6 DEF HopDown, RoutesGoUp
    <3>2. route'[t].top = None
      BY <2>2, <2>4, <3>1 DEF ThreadsOK, Route
    <3> QED
      BY <2>1, <3>2
  <2> QED
    BY <2>3, <2>4
<1>7. ASSUME NEW t \in Scripts, EnterBag(t) PROVE StillAbove'
  BY <1>7 DEF EnterBag, ThreadsOK, Does, InScript, Returns, threadVars, objectVars, lockVars
<1>8. ASSUME NEW t \in Scripts, LeaveBag(t) PROVE StillAbove'
  BY <1>8 DEF LeaveBag, ThreadsOK, Does, InScript, Returns, threadVars, objectVars, lockVars
<1>9. ASSUME NEW t \in Scripts, BagTimesOut(t) PROVE StillAbove'
  BY <1>9 DEF BagTimesOut, ThreadsOK, Does, InScript, Returns, threadVars, objectVars, lockVars
<1>10. ASSUME NEW t \in Scripts, TimeKey(t) PROVE StillAbove'
  BY <1>10 DEF TimeKey, ThreadsOK, Does, InScript, Returns, threadVars, objectVars, lockVars
<1>11. ASSUME NEW t \in Scripts, Replace(t) PROVE StillAbove'
  BY <1>11, DeleteOk DEF Deletes
<1>12. ASSUME NEW t \in Scripts, Create(t) PROVE StillAbove'
  BY <1>12 DEF Create, ThreadsOK, Does, InScript, Returns, threadVars, objectVars, lockVars
<1>13. ASSUME NEW t \in Scripts, SpawnReturns(t) PROVE StillAbove'
  BY <1>13 DEF SpawnReturns, ThreadsOK, Does, InScript, Returns, threadVars, objectVars, lockVars
<1>14. ASSUME NEW t \in Scripts, EndThread(t) PROVE StillAbove'
  BY <1>14 DEF EndThread, ThreadsOK, Does, InScript, Returns, threadVars, objectVars, lockVars
<1>15. ASSUME NEW t \in Scripts, StopChild(t) PROVE StillAbove'
  BY <1>15 DEF StopChild, ThreadsOK, Does, InScript, Returns, threadVars, objectVars, lockVars
<1>16. ASSUME NEW t \in Scripts, DeleteChild(t) PROVE StillAbove'
  BY <1>16, DeleteOk DEF Deletes
<1>17. ASSUME NEW t \in Scripts, EndOfThread(t) PROVE StillAbove'
  BY <1>17 DEF EndOfThread, ThreadsOK, Does, InScript, Returns, threadVars, objectVars, lockVars
<1>18. ASSUME NEW t \in Scripts, CleanupChild(t) PROVE StillAbove'
  BY <1>18, DeleteOk DEF Deletes
<1>19. ASSUME NEW t \in Scripts, CleanupKeys(t) PROVE StillAbove'
  BY <1>19 DEF CleanupKeys, ThreadsOK, Does, InScript, Returns, threadVars, objectVars, lockVars
<1>20. ASSUME NEW t \in Scripts, EraseKey(t) PROVE StillAbove'
  BY <1>20 DEF EraseKey, ThreadsOK, Does, InScript, Returns, threadVars, objectVars, lockVars
<1>21. ASSUME NEW t \in Scripts, Cancel(t) PROVE StillAbove'
  BY <1>21 DEF Cancel, ThreadsOK, Does, InScript, Returns, threadVars, objectVars, lockVars
<1>22. ASSUME NEW t \in Scripts, InitFails(t) PROVE StillAbove'
  BY <1>22 DEF InitFails, ThreadsOK, Does, InScript, Returns, threadVars, objectVars, lockVars
<1>23. ASSUME NEW t \in Scripts, InitOk(t) PROVE StillAbove'
  BY <1>23 DEF InitOk, ThreadsOK, Does, InScript, Returns, threadVars, objectVars, lockVars
<1>24. ASSUME NEW t \in Scripts, LeaveLoop(t) PROVE StillAbove'
  BY <1>24 DEF LeaveLoop, ThreadsOK, Does, InScript, Returns, threadVars, objectVars, lockVars
<1>25. ASSUME NEW t \in Scripts, ExitDone(t) PROVE StillAbove'
  BY <1>25 DEF ExitDone, ThreadsOK, Does, InScript, Returns, threadVars, objectVars, lockVars
<1>26. ASSUME NEW t \in Scripts, StartCleanup(t) PROVE StillAbove'
  BY <1>26 DEF StartCleanup, ThreadsOK, Does, InScript, Returns, threadVars, objectVars, lockVars
<1>27. ASSUME NEW t \in Scripts, NEW goal \in Scripts, NEW top \in Scripts,
              NEW kind \in Kinds, <<t, top, goal, kind>> \in Paths, Call(t, goal, top, kind) PROVE StillAbove'
  <2>1. t \in Above[t]
    BY AboveIn
  <2>2. Going(t, top, goal, kind).at = t
    BY DEF Going
  <2>3. route' = [route EXCEPT ![t] = Going(t, top, goal, kind)] /\ act' = [act EXCEPT ![t] = "route"]
    BY <1>27 DEF Call, Does
  <2> QED
    BY <2>1, <2>2, <2>3 DEF ThreadsOK
<1>28. ASSUME NEW t \in Scripts, NEW c \in Children(t), Spawn(t, c) PROVE StillAbove'
  BY <1>28 DEF Spawn, ThreadsOK, Does, InScript, Returns, threadVars, objectVars, lockVars
<1>29. ASSUME NEW t \in Scripts, Ask(t) PROVE StillAbove'
  BY <1>29 DEF Ask, ThreadsOK, Does, InScript, Returns, threadVars, objectVars, lockVars
<1>30. ASSUME NEW t \in Scripts, AskTimesOut(t) PROVE StillAbove'
  BY <1>30 DEF AskTimesOut, ThreadsOK, Does, InScript, Returns, threadVars, objectVars, lockVars
<1>31. ASSUME NEW t \in Scripts, SpawnTimesOut(t) PROVE StillAbove'
  BY <1>31 DEF SpawnTimesOut, ThreadsOK, Does, InScript, Returns, threadVars, objectVars, lockVars
<1>32. ASSUME NEW t \in Scripts, NEW u \in Scripts, Reply(t, u) PROVE StillAbove'
  BY <1>32 DEF Reply, AsksOf, ThreadsOK, Does, InScript, Returns, threadVars, objectVars, lockVars
<1> HIDE DEF IInv, StillAbove
<1> QED
  BY <1>1, <1>2, <1>3, <1>4, <1>5, <1>6, <1>7, <1>8, <1>9, <1>10, <1>11, <1>12,
     <1>13, <1>14, <1>15, <1>16, <1>17, <1>18, <1>19, <1>20, <1>21, <1>22,
     <1>23, <1>24, <1>25, <1>26, <1>27, <1>28,
     <1>29, <1>30, <1>31, <1>32
  DEF Next, Host, Step, Script

\* As long as no object is made or deleted the lines stand.
LEMMA LinesKept ==
    ASSUME LineStands, made' = made, orphan \subseteq orphan'
    PROVE  LineStands'
BY DEF LineStands, Below

\* The line above a script is made before it and deleted after it, or from an orphan on.
LEMMA LineStep == ASSUME IInv, [Next]_vars PROVE LineStands'
<1> USE DEF IInv
<1>1. CASE UNCHANGED vars
  BY <1>1, LinesKept DEF vars, objectVars
<1>2. ASSUME AllGone PROVE LineStands'
  BY <1>2, LinesKept DEF AllGone, vars, objectVars
<1>3. ASSUME NEW r \in Roots, HostStops(r) PROVE LineStands'
  BY <1>3, LinesKept DEF HostStops, objectVars
<1>4. ASSUME NEW r \in Roots, HostDeletes(r) PROVE LineStands'
  BY <1>4, DeleteOk DEF Deletes, Roots, Children
<1>5. ASSUME NEW t \in Scripts, HopUp(t) PROVE LineStands'
  BY <1>5, LinesKept DEF HopUp, objectVars
<1>6. ASSUME NEW t \in Scripts, HopDown(t) PROVE LineStands'
  BY <1>6, LinesKept DEF HopDown, objectVars
<1>7. ASSUME NEW t \in Scripts, EnterBag(t) PROVE LineStands'
  BY <1>7, LinesKept DEF EnterBag, objectVars
<1>8. ASSUME NEW t \in Scripts, LeaveBag(t) PROVE LineStands'
  BY <1>8, LinesKept DEF LeaveBag, objectVars
<1>9. ASSUME NEW t \in Scripts, BagTimesOut(t) PROVE LineStands'
  BY <1>9, LinesKept DEF BagTimesOut, objectVars
<1>10. ASSUME NEW t \in Scripts, TimeKey(t) PROVE LineStands'
  BY <1>10, LinesKept DEF TimeKey, objectVars
<1>11. ASSUME NEW t \in Scripts, Replace(t) PROVE LineStands'
  BY <1>11, DeleteOk DEF Deletes
<1>12. ASSUME NEW t \in Scripts, Create(t) PROVE LineStands'
  <2> DEFINE c == victim[t]
  <2>1. t \in made /\ c \in Scripts /\ Parent[c] = t
    BY <1>12 DEF Create, Does, BusyRuns, PhasesOK, Children
  <2>2. made' = made \cup {c} /\ UNCHANGED orphan
    BY <1>12 DEF Create
  <2> HIDE DEF c
  <2>3. t \in Scripts /\ Above[c] = {c} \cup Above[t]
    BY <2>1, NamesAreATree, NoScripts
  <2>4. ASSUME NEW x \in Above[c], Below(c, x) \cap orphan = {} PROVE x \in made'
    <3>1. CASE x = c
      BY <2>2, <3>1
    <3>2. CASE x # c
      <4>1. x \in Above[t] /\ Below(t, x) \subseteq Below(c, x)
        BY <2>3, <3>2 DEF Below
      <4> QED
        BY <2>1, <2>2, <2>4, <4>1 DEF LineStands
    <3> QED
      BY <3>1, <3>2
  <2>5. ASSUME NEW u \in made, NEW x \in Above[u], Below(u, x) \cap orphan = {} PROVE x \in made'
    BY <2>2, <2>5 DEF LineStands
  <2> QED
    BY <2>2, <2>4, <2>5 DEF LineStands, Below
<1>13. ASSUME NEW t \in Scripts, SpawnReturns(t) PROVE LineStands'
  BY <1>13, LinesKept DEF SpawnReturns, objectVars
<1>14. ASSUME NEW t \in Scripts, EndThread(t) PROVE LineStands'
  BY <1>14, LinesKept DEF EndThread, objectVars
<1>15. ASSUME NEW t \in Scripts, StopChild(t) PROVE LineStands'
  BY <1>15, LinesKept DEF StopChild, objectVars
<1>16. ASSUME NEW t \in Scripts, DeleteChild(t) PROVE LineStands'
  BY <1>16, DeleteOk DEF Deletes
<1>17. ASSUME NEW t \in Scripts, EndOfThread(t) PROVE LineStands'
  BY <1>17, LinesKept DEF EndOfThread, objectVars
<1>18. ASSUME NEW t \in Scripts, CleanupChild(t) PROVE LineStands'
  BY <1>18, DeleteOk DEF Deletes
<1>19. ASSUME NEW t \in Scripts, CleanupKeys(t) PROVE LineStands'
  BY <1>19, LinesKept DEF CleanupKeys, objectVars
<1>20. ASSUME NEW t \in Scripts, EraseKey(t) PROVE LineStands'
  BY <1>20, LinesKept DEF EraseKey, objectVars
<1>21. ASSUME NEW t \in Scripts, Cancel(t) PROVE LineStands'
  BY <1>21, LinesKept DEF Cancel, objectVars
<1>22. ASSUME NEW t \in Scripts, InitFails(t) PROVE LineStands'
  BY <1>22, LinesKept DEF InitFails, objectVars
<1>23. ASSUME NEW t \in Scripts, InitOk(t) PROVE LineStands'
  BY <1>23, LinesKept DEF InitOk, objectVars
<1>24. ASSUME NEW t \in Scripts, LeaveLoop(t) PROVE LineStands'
  BY <1>24, LinesKept DEF LeaveLoop, objectVars
<1>25. ASSUME NEW t \in Scripts, ExitDone(t) PROVE LineStands'
  BY <1>25, LinesKept DEF ExitDone, objectVars
<1>26. ASSUME NEW t \in Scripts, StartCleanup(t) PROVE LineStands'
  BY <1>26, LinesKept DEF StartCleanup, objectVars
<1>27. ASSUME NEW t \in Scripts, NEW goal \in Scripts, NEW top \in Scripts,
              NEW kind \in Kinds, <<t, top, goal, kind>> \in Paths, Call(t, goal, top, kind) PROVE LineStands'
  BY <1>27, LinesKept DEF Call, objectVars
<1>28. ASSUME NEW t \in Scripts, NEW c \in Children(t), Spawn(t, c) PROVE LineStands'
  BY <1>28, LinesKept DEF Spawn, objectVars
<1>29. ASSUME NEW t \in Scripts, Ask(t) PROVE LineStands'
  BY <1>29, LinesKept DEF Ask, objectVars
<1>30. ASSUME NEW t \in Scripts, AskTimesOut(t) PROVE LineStands'
  BY <1>30, LinesKept DEF AskTimesOut, objectVars
<1>31. ASSUME NEW t \in Scripts, SpawnTimesOut(t) PROVE LineStands'
  BY <1>31, LinesKept DEF SpawnTimesOut, objectVars
<1>32. ASSUME NEW t \in Scripts, NEW u \in Scripts, Reply(t, u) PROVE LineStands'
  BY <1>32, LinesKept DEF Reply, AsksOf, objectVars
<1> HIDE DEF IInv
<1> QED
  BY <1>1, <1>2, <1>3, <1>4, <1>5, <1>6, <1>7, <1>8, <1>9, <1>10, <1>11, <1>12,
     <1>13, <1>14, <1>15, <1>16, <1>17, <1>18, <1>19, <1>20, <1>21, <1>22,
     <1>23, <1>24, <1>25, <1>26, <1>27, <1>28,
     <1>29, <1>30, <1>31, <1>32
  DEF Next, Host, Step, Script

\* Who is lost on its own line has an orphan above it.
LEMMA OwnLineStep == ASSUME IInv, [Next]_vars PROVE OwnLineIsSafe'
<1> USE DEF IInv, OwnLineIsSafe
<1>1. CASE UNCHANGED vars
  BY <1>1 DEF vars, threadVars, objectVars, lockVars
<1>2. ASSUME AllGone PROVE OwnLineIsSafe'
  BY <1>2 DEF AllGone, vars, threadVars, objectVars, lockVars
<1>3. ASSUME NEW r \in Roots, HostStops(r) PROVE OwnLineIsSafe'
  BY <1>3 DEF HostStops, ThreadsOK, ObjectsOK, Does, InScript, Returns, threadVars, objectVars, lockVars
<1>4. ASSUME NEW r \in Roots, HostDeletes(r) PROVE OwnLineIsSafe'
  BY <1>4, DeleteOk DEF Deletes, Roots, Children
<1>5. ASSUME NEW t \in Scripts, HopUp(t) PROVE OwnLineIsSafe'
  <2>1. UNCHANGED orphan /\ \A u \in lost : route'[u] = route[u]
    BY <1>5 DEF HopUp, ThreadsOK, ObjectsOK
  <2>2. CASE route[t].at \notin dangling
    BY <1>5, <2>1, <2>2 DEF HopUp
  <2>3. CASE route[t].at \in dangling
    <3>1. lost' = lost \cup {t} /\ UNCHANGED route
      BY <1>5, <2>3 DEF HopUp
    <3>2. route[t].at \in Above[t] /\ route[t].at \in orphan
      BY <1>5, <2>3 DEF HopUp, StillAbove, ChildrenGoFirst
    <3> QED
      BY <2>1, <3>1, <3>2
  <2> QED
    BY <2>2, <2>3
<1>6. ASSUME NEW t \in Scripts, HopDown(t) PROVE OwnLineIsSafe'
  <2>1. UNCHANGED <<orphan, lost>> /\ \A u \in lost : route'[u] = route[u]
    BY <1>6 DEF HopDown, Returns, Does, ThreadsOK, ObjectsOK, objectVars
  <2> QED
    BY <2>1
<1>7. ASSUME NEW t \in Scripts, EnterBag(t) PROVE OwnLineIsSafe'
  BY <1>7 DEF EnterBag, ThreadsOK, ObjectsOK, Does, InScript, Returns, threadVars, objectVars, lockVars
<1>8. ASSUME NEW t \in Scripts, LeaveBag(t) PROVE OwnLineIsSafe'
  BY <1>8 DEF LeaveBag, ThreadsOK, ObjectsOK, Does, InScript, Returns, threadVars, objectVars, lockVars
<1>9. ASSUME NEW t \in Scripts, BagTimesOut(t) PROVE OwnLineIsSafe'
  BY <1>9 DEF BagTimesOut, ThreadsOK, ObjectsOK, Does, InScript, Returns, threadVars, objectVars, lockVars
<1>10. ASSUME NEW t \in Scripts, TimeKey(t) PROVE OwnLineIsSafe'
  BY <1>10 DEF TimeKey, ThreadsOK, ObjectsOK, Does, InScript, Returns, threadVars, objectVars, lockVars
<1>11. ASSUME NEW t \in Scripts, Replace(t) PROVE OwnLineIsSafe'
  BY <1>11, DeleteOk DEF Deletes
<1>12. ASSUME NEW t \in Scripts, Create(t) PROVE OwnLineIsSafe'
  BY <1>12 DEF Create, ThreadsOK, ObjectsOK, Does, InScript, Returns, threadVars, objectVars, lockVars
<1>13. ASSUME NEW t \in Scripts, SpawnReturns(t) PROVE OwnLineIsSafe'
  BY <1>13 DEF SpawnReturns, ThreadsOK, ObjectsOK, Does, InScript, Returns, threadVars, objectVars, lockVars
<1>14. ASSUME NEW t \in Scripts, EndThread(t) PROVE OwnLineIsSafe'
  BY <1>14 DEF EndThread, ThreadsOK, ObjectsOK, Does, InScript, Returns, threadVars, objectVars, lockVars
<1>15. ASSUME NEW t \in Scripts, StopChild(t) PROVE OwnLineIsSafe'
  BY <1>15 DEF StopChild, ThreadsOK, ObjectsOK, Does, InScript, Returns, threadVars, objectVars, lockVars
<1>16. ASSUME NEW t \in Scripts, DeleteChild(t) PROVE OwnLineIsSafe'
  BY <1>16, DeleteOk DEF Deletes
<1>17. ASSUME NEW t \in Scripts, EndOfThread(t) PROVE OwnLineIsSafe'
  BY <1>17 DEF EndOfThread, ThreadsOK, ObjectsOK, Does, InScript, Returns, threadVars, objectVars, lockVars
<1>18. ASSUME NEW t \in Scripts, CleanupChild(t) PROVE OwnLineIsSafe'
  BY <1>18, DeleteOk DEF Deletes
<1>19. ASSUME NEW t \in Scripts, CleanupKeys(t) PROVE OwnLineIsSafe'
  BY <1>19 DEF CleanupKeys, ThreadsOK, ObjectsOK, Does, InScript, Returns, threadVars, objectVars, lockVars
<1>20. ASSUME NEW t \in Scripts, EraseKey(t) PROVE OwnLineIsSafe'
  BY <1>20 DEF EraseKey, ThreadsOK, ObjectsOK, Does, InScript, Returns, threadVars, objectVars, lockVars
<1>21. ASSUME NEW t \in Scripts, Cancel(t) PROVE OwnLineIsSafe'
  BY <1>21 DEF Cancel, ThreadsOK, ObjectsOK, Does, InScript, Returns, threadVars, objectVars, lockVars
<1>22. ASSUME NEW t \in Scripts, InitFails(t) PROVE OwnLineIsSafe'
  BY <1>22 DEF InitFails, ThreadsOK, ObjectsOK, Does, InScript, Returns, threadVars, objectVars, lockVars
<1>23. ASSUME NEW t \in Scripts, InitOk(t) PROVE OwnLineIsSafe'
  BY <1>23 DEF InitOk, ThreadsOK, ObjectsOK, Does, InScript, Returns, threadVars, objectVars, lockVars
<1>24. ASSUME NEW t \in Scripts, LeaveLoop(t) PROVE OwnLineIsSafe'
  BY <1>24 DEF LeaveLoop, ThreadsOK, ObjectsOK, Does, InScript, Returns, threadVars, objectVars, lockVars
<1>25. ASSUME NEW t \in Scripts, ExitDone(t) PROVE OwnLineIsSafe'
  BY <1>25 DEF ExitDone, ThreadsOK, ObjectsOK, Does, InScript, Returns, threadVars, objectVars, lockVars
<1>26. ASSUME NEW t \in Scripts, StartCleanup(t) PROVE OwnLineIsSafe'
  BY <1>26 DEF StartCleanup, ThreadsOK, ObjectsOK, Does, InScript, Returns, threadVars, objectVars, lockVars
<1>27. ASSUME NEW t \in Scripts, NEW goal \in Scripts, NEW top \in Scripts,
              NEW kind \in Kinds, <<t, top, goal, kind>> \in Paths, Call(t, goal, top, kind) PROVE OwnLineIsSafe'
  BY <1>27 DEF Call, ThreadsOK, ObjectsOK, Does, InScript, Returns, threadVars, objectVars, lockVars
<1>28. ASSUME NEW t \in Scripts, NEW c \in Children(t), Spawn(t, c) PROVE OwnLineIsSafe'
  BY <1>28 DEF Spawn, ThreadsOK, ObjectsOK, Does, InScript, Returns, threadVars, objectVars, lockVars
<1>29. ASSUME NEW t \in Scripts, Ask(t) PROVE OwnLineIsSafe'
  BY <1>29 DEF Ask, ThreadsOK, ObjectsOK, Does, InScript, Returns, threadVars, objectVars, lockVars
<1>30. ASSUME NEW t \in Scripts, AskTimesOut(t) PROVE OwnLineIsSafe'
  BY <1>30 DEF AskTimesOut, ThreadsOK, ObjectsOK, Does, InScript, Returns, threadVars, objectVars, lockVars
<1>31. ASSUME NEW t \in Scripts, SpawnTimesOut(t) PROVE OwnLineIsSafe'
  BY <1>31 DEF SpawnTimesOut, ThreadsOK, ObjectsOK, Does, InScript, Returns, threadVars, objectVars, lockVars
<1>32. ASSUME NEW t \in Scripts, NEW u \in Scripts, Reply(t, u) PROVE OwnLineIsSafe'
  BY <1>32 DEF Reply, AsksOf, ThreadsOK, ObjectsOK, Does, InScript, Returns, threadVars, objectVars, lockVars
<1> HIDE DEF IInv, OwnLineIsSafe
<1> QED
  BY <1>1, <1>2, <1>3, <1>4, <1>5, <1>6, <1>7, <1>8, <1>9, <1>10, <1>11, <1>12,
     <1>13, <1>14, <1>15, <1>16, <1>17, <1>18, <1>19, <1>20, <1>21, <1>22,
     <1>23, <1>24, <1>25, <1>26, <1>27, <1>28,
     <1>29, <1>30, <1>31, <1>32
  DEF Next, Host, Step, Script

-----------------------------------------------------------------------------
LEMMA InitIInv == Init => IInv
<1> SUFFICES ASSUME Init PROVE IInv
  OBVIOUS
<1> USE DEF Init, Roots, Children
<1>1. ObjectsOK
  BY DEF ObjectsOK
<1>2. PhasesOK
  BY DEF PhasesOK, Phases
<1>3. ThreadsOK
  BY DEF ThreadsOK, Acts
<1>4. BusyRuns /\ RoutesGoUp
  BY DEF BusyRuns, RoutesGoUp
<1>5. Family /\ ChildrenGoFirst
  BY DEF Family, ChildrenGoFirst
<1>6. StillAbove /\ OwnLineIsSafe
  BY DEF StillAbove, OwnLineIsSafe
<1>7. LineStands
  BY NamesAreATree DEF LineStands
<1> QED
  BY <1>1, <1>2, <1>3, <1>4, <1>5, <1>6, <1>7 DEF IInv

LEMMA StepIInv == IInv /\ [Next]_vars => IInv'
BY ObjectStep, PhaseStep, ThreadStep, BusyStep, RouteStep, FamilyStep, FirstStep,
   AboveStep, LineStep, OwnLineStep
DEF IInv

\* Every variable keeps its type: nothing names a script whose object is gone,
\* but the parent of an orphan.
THEOREM Types == Spec => []TypeOK
<1>1. IInv => TypeOK
  BY DEF IInv, ObjectsOK, PhasesOK, ThreadsOK, TypeOK
<1> QED
  BY InitIInv, StepIInv, <1>1, PTL DEF Spec

\* The object of a script is deleted after those of its children, whoever stops,
\* replaces, cleans up or cancels whom: EndThread destroys what is in the list
\* and only a thread that ends without it leaves children, the orphans.
THEOREM ChildrenAreGoneFirst == Spec => []ChildrenGoFirst
<1>1. IInv => ChildrenGoFirst
  BY DEF IInv
<1> QED
  BY InitIInv, StepIInv, <1>1, PTL DEF Spec

\* A call along the caller's ancestors or to its own child meets no object that has
\* been deleted, whoever stops, replaces, cleans up or cancels whom meanwhile,
\* unless the caller or an ancestor of it is an orphan.
THEOREM OwnLinesAreSafe == Spec => []OwnLineIsSafe
<1>1. IInv => OwnLineIsSafe
  BY DEF IInv
<1> QED
  BY InitIInv, StepIInv, <1>1, PTL DEF Spec
=============================================================================
