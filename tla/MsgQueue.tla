------------------------------ MODULE MsgQueue ------------------------------
(***************************************************************************)
(* Script threads that call one another through their message queues.      *)
(*                                                                         *)
(* Every script is a CScriptThread: an OS thread that owns a CSqMsgQueue,  *)
(* loops in DoThread (wait for the queue's event, ProcessMsgs, timers and  *)
(* idle function, quit flag) and, from any script code it runs, may call   *)
(* Msg() on another script.  A call that wants a reply carries a pointer   *)
(* to the caller's stack (pReply) and an event the caller then waits on.   *)
(*                                                                         *)
(* A step is what one thread does between two points another thread can    *)
(* observe: the queue's mutex m_cLock is held from the push to the end of  *)
(* the signal, and from the pop to the end of the reset.  A call's number  *)
(* in its caller identifies it; acc, taken, written, late and res are      *)
(* history: they record what happened and no step depends on them.         *)
(***************************************************************************)
EXTENDS Integers, Sequences

CONSTANTS Scripts,      \* the script threads
          None,         \* no thread holds the lock, no message is in hand
          MaxCalls      \* bound: calls each script makes

ASSUME MaxCallsAreNat == MaxCalls \in [Scripts -> Nat]

VARIABLES
    queue,      \* m_lstMsgQueue of every script
    sig,        \* the queue's manual reset event
    lock,       \* holder of m_cLock
    wantQuit,   \* m_bWantQuit
    stop,       \* the thread's stop event (CThread::m_evStop)
    owner,      \* m_uOwnerThreadId is set
    pc,         \* where the thread is
    phase,      \* which script code the engine is running
    cur,        \* the message ProcessMsgs is working on
    out,        \* the call in progress
    calls,      \* calls made so far
    evReply,    \* calls whose reply event is signalled
    acc,        \* history: messages in the order the queue accepted them
    taken,      \* history: messages taken off the queue
    written,    \* history: calls whose handler has run to its end
    late,       \* history: calls answered after the caller had returned
    res         \* history: what Msg() returned

queueVars == <<queue, sig, lock, acc, taken>>
flagVars  == <<wantQuit, stop, owner>>
callVars  == <<out, calls, res>>
replyVars == <<evReply, written, late>>
vars == <<queueVars, flagVars, pc, phase, cur, callVars, replyVars>>

Kinds == {"msg", "kill"}
CallId == UNION {{t} \X (1 .. MaxCalls[t]) : t \in Scripts}
Message == {m \in [from : Scripts, n : Nat \ {0}, kind : Kinds, reply : BOOLEAN] :
                m.n <= MaxCalls[m.from]}
Call == [to : Scripts, kind : Kinds, reply : BOOLEAN]
ASSUME NoneIsNothing == None \notin Scripts /\ None \notin Message /\ None \notin Call

Phases == {"none", "init", "loop", "exit"}
Pcs == {"start", "wait", "pop", "popped", "run", "reply",
        "push", "pushed", "await", "dead"}
Results == {"none", "refused", "sent", "ok", "timeout"}

Id(m) == <<m.from, m.n>>

Init ==
    /\ queue = [t \in Scripts |-> <<>>]
    /\ sig = [t \in Scripts |-> FALSE]
    /\ lock = [t \in Scripts |-> None]
    /\ wantQuit = [t \in Scripts |-> FALSE]
    /\ stop = [t \in Scripts |-> FALSE]
    /\ owner = [t \in Scripts |-> FALSE]
    /\ pc = [t \in Scripts |-> "start"]
    /\ phase = [t \in Scripts |-> "none"]
    /\ cur = [t \in Scripts |-> None]
    /\ out = [t \in Scripts |-> None]
    /\ calls = [t \in Scripts |-> 0]
    /\ evReply = {}
    /\ acc = [t \in Scripts |-> <<>>]
    /\ taken = [t \in Scripts |-> 0]
    /\ written = {}
    /\ late = {}
    /\ res = [c \in CallId |-> "none"]

Goto(t, from, to) == pc[t] = from /\ pc' = [pc EXCEPT ![t] = to]

-----------------------------------------------------------------------------
(* Life of the thread *)

\* InitEngine records the owner thread, then the script's own text is run.
InitThread(t) ==
    /\ Goto(t, "start", "run")
    /\ owner' = [owner EXCEPT ![t] = TRUE]
    /\ phase' = [phase EXCEPT ![t] = "init"]
    /\ UNCHANGED <<queueVars, wantQuit, stop, cur, callVars, replyVars>>

\* The script loaded: DoThread runs, unless the stop event is already set.
InitOk(t) ==
    /\ phase[t] = "init"
    /\ IF stop[t] THEN Goto(t, "run", "run") ELSE Goto(t, "run", "wait")
    /\ phase' = [phase EXCEPT ![t] = IF stop[t] THEN "exit" ELSE "loop"]
    /\ UNCHANGED <<queueVars, flagVars, cur, callVars, replyVars>>

\* The script did not load: the thread ends and EndThread is not called.
InitFails(t) ==
    /\ phase[t] = "init"
    /\ Goto(t, "run", "dead")
    /\ UNCHANGED <<queueVars, flagVars, phase, cur, callVars, replyVars>>

\* Head of DoThread: the stop event, then Wait(m_uToFreq) on the queue's
\* event, which ends on the event or on its time, so always, then m_bQuit.
WaitQueue(t) ==
    /\ ~stop[t]
    /\ Goto(t, "wait", "pop")
    /\ UNCHANGED <<queueVars, flagVars, phase, cur, callVars, replyVars>>

\* The stop event is set, or a destructor has set m_bQuit, which it does just
\* before it stops the thread: no message is processed any more.
StopSeen(t) ==
    /\ stop[t]
    /\ Goto(t, "wait", "run")
    /\ phase' = [phase EXCEPT ![t] = "exit"]
    /\ UNCHANGED <<queueVars, flagVars, cur, callVars, replyVars>>

\* Mutant: DoThread forgets to look at WantQuit.
LoopAgainNoQuit(t) ==
    /\ phase[t] = "loop" /\ cur[t] = None
    /\ Goto(t, "run", "wait")
    /\ UNCHANGED <<queueVars, flagVars, phase, cur, callVars, replyVars>>

\* Timers and idle function are done and nobody has requested to quit.
LoopAgain(t) ==
    /\ phase[t] = "loop" /\ cur[t] = None
    /\ ~wantQuit[t]
    /\ Goto(t, "run", "wait")
    /\ UNCHANGED <<queueVars, flagVars, phase, cur, callVars, replyVars>>

\* The thread leaves the loop: quit was requested, or the idle function failed
\* or asked for it.
LoopLeave(t) ==
    /\ phase[t] = "loop" /\ cur[t] = None
    /\ Goto(t, "run", "run")
    /\ phase' = [phase EXCEPT ![t] = "exit"]
    /\ UNCHANGED <<queueVars, flagVars, cur, callVars, replyVars>>

\* The rest of EndThread, once the script's exit function has returned.  The
\* queue is left as it is.
EndThread(t) ==
    /\ phase[t] = "exit"
    /\ Goto(t, "run", "dead")
    /\ owner' = [owner EXCEPT ![t] = FALSE]
    /\ UNCHANGED <<queueVars, wantQuit, stop, phase, cur, callVars, replyVars>>

\* CThread::Stop() by whoever owns the thread: the parent, the host program.
StopThread(t) ==
    /\ ~stop[t]
    /\ stop' = [stop EXCEPT ![t] = TRUE]
    /\ UNCHANGED <<queueVars, wantQuit, owner, pc, phase, cur, callVars, replyVars>>

-----------------------------------------------------------------------------
(* ProcessMsgs *)

\* An empty queue ends ProcessMsgs; timers and idle function follow.
QueueEmpty(t) ==
    /\ lock[t] = None /\ queue[t] = <<>>
    /\ Goto(t, "pop", "run")
    /\ UNCHANGED <<queueVars, flagVars, phase, cur, callVars, replyVars>>

\* Mutant: the last node of the list is erased, not the first.
PopErasesLast(t) ==
    /\ lock[t] = None /\ queue[t] # <<>>
    /\ Goto(t, "pop", "popped")
    /\ lock' = [lock EXCEPT ![t] = t]
    /\ cur' = [cur EXCEPT ![t] = Head(queue[t])]
    /\ queue' = [queue EXCEPT ![t] = SubSeq(@, 1, Len(@) - 1)]
    /\ taken' = [taken EXCEPT ![t] = taken[t] + 1]
    /\ UNCHANGED <<sig, acc, flagVars, phase, callVars, replyVars>>

Pop(t) ==
    /\ lock[t] = None /\ queue[t] # <<>>
    /\ Goto(t, "pop", "popped")
    /\ lock' = [lock EXCEPT ![t] = t]
    /\ cur' = [cur EXCEPT ![t] = Head(queue[t])]
    /\ queue' = [queue EXCEPT ![t] = Tail(queue[t])]
    /\ taken' = [taken EXCEPT ![t] = taken[t] + 1]
    /\ UNCHANGED <<sig, acc, flagVars, phase, callVars, replyVars>>

\* Mutant: the event is reset whether or not the queue is empty now.
PopDoneResets(t) ==
    /\ Goto(t, "popped", "run")
    /\ sig' = [sig EXCEPT ![t] = FALSE]
    /\ lock' = [lock EXCEPT ![t] = None]
    /\ UNCHANGED <<queue, acc, taken, flagVars, phase, cur, callVars, replyVars>>

\* Mutant: the reply is signalled when the message is taken.
PopDoneSignals(t) ==
    /\ Goto(t, "popped", "run")
    /\ sig' = [sig EXCEPT ![t] = sig[t] /\ queue[t] # <<>>]
    /\ lock' = [lock EXCEPT ![t] = None]
    /\ evReply' = IF cur[t].reply THEN evReply \cup {Id(cur[t])} ELSE evReply
    /\ UNCHANGED <<queue, acc, taken, flagVars, phase, cur, callVars, written, late>>

\* "Is it empty now?" Reset the event, then leave the lock.
PopDone(t) ==
    /\ Goto(t, "popped", "run")
    /\ sig' = [sig EXCEPT ![t] = sig[t] /\ queue[t] # <<>>]
    /\ lock' = [lock EXCEPT ![t] = None]
    /\ UNCHANGED <<queue, acc, taken, flagVars, phase, cur, callVars, replyVars>>

\* ExecuteMsg has done what the message asks for; a "msg" leaves its result in
\* the caller's pReply, wherever the caller is by now.
Execute(t) ==
    /\ cur[t] # None
    /\ Goto(t, "run", "reply")
    /\ wantQuit' = [wantQuit EXCEPT ![t] = @ \/ cur[t].kind = "kill"]
    /\ written' = written \cup {Id(cur[t])}
    /\ late' = IF cur[t].kind = "msg" /\ cur[t].reply /\ res[Id(cur[t])] # "none"
                 THEN late \cup {Id(cur[t])} ELSE late
    /\ UNCHANGED <<queueVars, stop, owner, phase, cur, callVars, evReply>>

\* Signal the reply event.  ProcessMsgs returns after a message that wanted a
\* reply and takes the next one otherwise.
SignalReply(t) ==
    /\ Goto(t, "reply", IF cur[t].reply THEN "run" ELSE "pop")
    /\ evReply' = IF cur[t].reply THEN evReply \cup {Id(cur[t])} ELSE evReply
    /\ cur' = [cur EXCEPT ![t] = None]
    /\ UNCHANGED <<queueVars, flagVars, phase, callVars, written, late>>

-----------------------------------------------------------------------------
(* Msg, from script code running on thread t *)

\* The result of the call that is being made or was just made.
Return(t, n, r) == res' = [res EXCEPT ![<<t, n>>] = r]

\* Msg() looks at the caller's own quit flag and, once routed, at the
\* target's, before it takes any lock.
CallRefused(t, to) ==
    /\ calls[t] < MaxCalls[t]
    /\ wantQuit[t] \/ (to # t /\ wantQuit[to])
    /\ Goto(t, "run", "run")
    /\ calls' = [calls EXCEPT ![t] = @ + 1]
    /\ Return(t, calls[t] + 1, "refused")
    /\ UNCHANGED <<queueVars, flagVars, phase, cur, out, replyVars>>

\* On its own thread ProcessMsg runs at once, ahead of what is queued.
CallSelf(t, kind, reply) ==
    /\ calls[t] < MaxCalls[t]
    /\ owner[t] /\ ~wantQuit[t]
    /\ Goto(t, "run", "run")
    /\ calls' = [calls EXCEPT ![t] = @ + 1]
    /\ wantQuit' = [wantQuit EXCEPT ![t] = @ \/ kind = "kill"]
    /\ written' = written \cup {<<t, calls[t] + 1>>}
    /\ evReply' = IF reply THEN evReply \cup {<<t, calls[t] + 1>>} ELSE evReply
    /\ Return(t, calls[t] + 1, IF reply THEN "ok" ELSE "sent")
    /\ UNCHANGED <<queueVars, stop, owner, phase, cur, out, late>>

CallOther(t, to, kind, reply) ==
    /\ calls[t] < MaxCalls[t]
    /\ to # t /\ ~wantQuit[t] /\ ~wantQuit[to]
    /\ Goto(t, "run", "push")
    /\ calls' = [calls EXCEPT ![t] = @ + 1]
    /\ out' = [out EXCEPT ![t] = [to |-> to, kind |-> kind, reply |-> reply]]
    /\ UNCHANGED <<queueVars, flagVars, phase, cur, res, replyVars>>

\* The SMsg that the call in progress puts into the target's queue.
NewMsg(t) == [from |-> t, n |-> calls[t], kind |-> out[t].kind, reply |-> out[t].reply]

\* push_back under the target's lock.
Push(t) ==
    LET to == out[t].to
    IN /\ pc[t] = "push"
       /\ lock[to] = None
       /\ Goto(t, "push", "pushed")
       /\ lock' = [lock EXCEPT ![to] = t]
       /\ queue' = [queue EXCEPT ![to] = Append(@, NewMsg(t))]
       /\ acc' = [acc EXCEPT ![to] = Append(@, NewMsg(t))]
       /\ UNCHANGED <<sig, taken, flagVars, phase, cur, callVars, replyVars>>

\* Signal the queue's event, still under the lock; then wait if a reply is
\* wanted.
PushDone(t) ==
    LET to == out[t].to
    IN /\ pc[t] = "pushed"
       /\ Goto(t, "pushed", IF out[t].reply THEN "await" ELSE "run")
       /\ sig' = [sig EXCEPT ![to] = TRUE]
       /\ lock' = [lock EXCEPT ![to] = None]
       /\ IF out[t].reply
            THEN UNCHANGED <<out, res>>
            ELSE /\ Return(t, calls[t], "sent")
                 /\ out' = [out EXCEPT ![t] = None]
       /\ UNCHANGED <<queue, acc, taken, flagVars, phase, cur, calls, replyVars>>

\* Mutant: one reply event per thread, never reset, instead of one per call.
ReplyArrivesStale(t) ==
    /\ \E n \in 1 .. calls[t] : <<t, n>> \in evReply
    /\ Goto(t, "await", "run")
    /\ Return(t, calls[t], "ok")
    /\ out' = [out EXCEPT ![t] = None]
    /\ UNCHANGED <<queueVars, flagVars, phase, cur, calls, replyVars>>

ReplyArrives(t) ==
    /\ <<t, calls[t]>> \in evReply
    /\ Goto(t, "await", "run")
    /\ Return(t, calls[t], "ok")
    /\ out' = [out EXCEPT ![t] = None]
    /\ UNCHANGED <<queueVars, flagVars, phase, cur, calls, replyVars>>

\* Mutants: the result of the wait is returned as it is; it is not looked at;
\* the wait has no end; the message is sent again.
TimeOutReturns(t, r) ==
    /\ <<t, calls[t]>> \notin evReply
    /\ Goto(t, "await", "run")
    /\ Return(t, calls[t], r)
    /\ out' = [out EXCEPT ![t] = None]
    /\ UNCHANGED <<queueVars, flagVars, phase, cur, calls, replyVars>>
TimeOutRaw(t) == TimeOutReturns(t, "waitTimeout")
TimeOutIgnored(t) == TimeOutReturns(t, "ok")
TimeOutNever(t) == pc[t] = "await" /\ UNCHANGED vars

\* uTimeout passes first.  The message stays where it is, pReply and all.
ReplyTimesOut(t) ==
    /\ <<t, calls[t]>> \notin evReply
    /\ Goto(t, "await", "run")
    /\ Return(t, calls[t], "timeout")
    /\ out' = [out EXCEPT ![t] = None]
    /\ UNCHANGED <<queueVars, flagVars, phase, cur, calls, replyVars>>

-----------------------------------------------------------------------------
\* What the thread does once its script code has returned, or with none running
Step(t) ==
    \/ InitThread(t) \/ InitOk(t) \/ InitFails(t)
    \/ WaitQueue(t) \/ StopSeen(t) \/ LoopAgain(t) \/ LoopLeave(t) \/ EndThread(t)
    \/ QueueEmpty(t) \/ Pop(t) \/ PopDone(t) \/ Execute(t) \/ SignalReply(t)
    \/ Push(t) \/ PushDone(t) \/ ReplyArrives(t) \/ ReplyTimesOut(t)

MakeCall(t) ==
    \/ \E to \in Scripts : CallRefused(t, to)
    \/ \E kind \in Kinds, reply \in BOOLEAN :
          \/ CallSelf(t, kind, reply)
          \/ \E to \in Scripts : CallOther(t, to, kind, reply)

\* Every thread has ended.
AllDead == (\A t \in Scripts : pc[t] = "dead") /\ UNCHANGED vars

Next == AllDead \/ \E t \in Scripts : Step(t) \/ MakeCall(t) \/ StopThread(t)

Spec == Init /\ [][Next]_vars

\* A thread that can go on does; script functions return; a wait for a reply
\* ends on the reply or on its timeout.
FairSpec == Spec /\ \A t \in Scripts : WF_vars(Step(t))
-----------------------------------------------------------------------------
(* Properties *)

\* Every variable has its type.
TypeOK ==
    /\ queue \in [Scripts -> Seq(Message)]
    /\ sig \in [Scripts -> BOOLEAN]
    /\ lock \in [Scripts -> Scripts \cup {None}]
    /\ wantQuit \in [Scripts -> BOOLEAN]
    /\ stop \in [Scripts -> BOOLEAN]
    /\ owner \in [Scripts -> BOOLEAN]
    /\ pc \in [Scripts -> Pcs]
    /\ phase \in [Scripts -> Phases]
    /\ cur \in [Scripts -> Message \cup {None}]
    /\ out \in [Scripts -> Call \cup {None}]
    /\ calls \in [Scripts -> Nat] /\ \A t \in Scripts : calls[t] <= MaxCalls[t]
    /\ evReply \subseteq CallId
    /\ acc \in [Scripts -> Seq(Message)]
    /\ taken \in [Scripts -> Nat]
    /\ written \subseteq CallId
    /\ late \subseteq CallId
    /\ res \in [CallId -> Results]

\* Who is inside a queue's lock, and what the lock's holder has done so far:
\* the part of the inductive invariant that is about the locks.
Holds(t) ==
    /\ pc[t] \in {"popped", "reply"} => cur[t] # None
    /\ pc[t] = "popped" => lock[t] = t /\ sig[t]
    /\ pc[t] \in {"push", "pushed", "await"} =>
          out[t] # None /\ out[t].to # t /\ calls[t] > 0
    /\ pc[t] = "pushed" => lock[out[t].to] = t /\ queue[out[t].to] # <<>>
LockHolders == \A t \in Scripts : Holds(t)

\* Whenever nobody is inside a queue's lock its event says whether it holds a
\* message: a wait neither misses a message nor returns for nothing, for ever.
SignalMatchesQueue ==
    \A t \in Scripts : lock[t] = None => (sig[t] <=> queue[t] # <<>>)

\* What is queued is what was accepted and not yet taken, in that order:
\* no message is lost, repeated or overtaken, however often ProcessMsgs stops
\* after a reply and resumes.
InOrder ==
    \A t \in Scripts :
        /\ Len(acc[t]) = taken[t] + Len(queue[t])
        /\ \A i \in 1 .. Len(queue[t]) : queue[t][i] = acc[t][taken[t] + i]

\* Msg() returns TRUE for a call with a reply only when the handler of that
\* very call has run to its end.
OkMeansHandled == \A c \in CallId : res[c] = "ok" => c \in written

\* A reply event is signalled only after the handler has run to its end.
SignalledHandled ==
    /\ evReply \subseteq written
    /\ \A t \in Scripts : pc[t] = "reply" => Id(cur[t]) \in written

\* A handler writes through pReply after its caller has returned only if that
\* caller gave up waiting: signalling comes after the write.
LateOnlyAfterTimeout == \A c \in late : res[c] = "timeout"

\* Every call with a reply ends, even when two scripts call each other and
\* neither can serve the other's queue.
CallsEnd == \A t \in Scripts : pc[t] = "await" ~> pc[t] # "await"

Queued(t, c) == \E i \in 1 .. Len(queue[t]) : Id(queue[t][i]) = c

\* An accepted message is taken, unless its thread leaves the loop first:
\* EndThread does not drain the queue.
AcceptedIsTaken ==
    \A t \in Scripts, c \in CallId :
        Queued(t, c) ~> (~Queued(t, c) \/ phase[t] = "exit" \/ pc[t] = "dead")

\* The queues, locks, events and stack pointers implement the mailboxes.
Bus == INSTANCE MsgBus WITH
    acc <- [t \in Scripts |-> [i \in DOMAIN acc[t] |-> Id(acc[t][i])]],
    handled <- written

ImplementsBus == Bus!Spec

\* A script that was killed or stopped comes to its end.
QuitEnds == \A t \in Scripts : wantQuit[t] \/ stop[t] ~> pc[t] = "dead"

=============================================================================
