--------------------------- MODULE MsgQueueProofs ---------------------------
(***************************************************************************)
(* Proofs about MsgQueue, for any set of scripts and any number of calls.  *)
(***************************************************************************)
EXTENDS MsgQueue, TLAPS

\* The inductive invariant of the queues: types, who holds which lock, the fact the locks
\* protect, and what a signalled reply and a TRUE of Msg() stand for.
IInv ==
    TypeOK /\ LockHolders /\ SignalMatchesQueue /\ SignalledHandled /\ OkMeansHandled


LEMMA IdIsCallId == ASSUME NEW m \in Message PROVE Id(m) \in CallId
BY MaxCallsAreNat DEF Message, Id, CallId

LEMMA AppendNotEmpty ==
    ASSUME NEW q \in Seq(Message), NEW e \in Message PROVE Append(q, e) # <<>>
<1>1. Len(Append(q, e)) = Len(q) + 1 /\ Len(q) \in Nat
  OBVIOUS
<1>2. Len(<<>>) = 0
  OBVIOUS
<1> QED
  BY <1>1, <1>2

\* What a call in progress pushes is a message for some script.
LEMMA CallMakesMessage ==
    ASSUME TypeOK, LockHolders, NEW t \in Scripts, pc[t] = "push"
    PROVE  /\ out[t].to \in Scripts
           /\ out[t].to # t
           /\ NewMsg(t) \in Message
<1>1. out[t] \in Call /\ out[t].to # t /\ calls[t] \in Nat /\ 0 < calls[t]
  BY DEF TypeOK, LockHolders, Holds
<1>2. calls[t] <= MaxCalls[t]
  BY DEF TypeOK
<1>3. out[t].to \in Scripts /\ out[t].kind \in Kinds /\ out[t].reply \in BOOLEAN
  BY <1>1 DEF Call
<1> QED
  BY <1>1, <1>2, <1>3 DEF Message, NewMsg

LEMMA InitIInv == Init => IInv
<1> SUFFICES ASSUME Init PROVE IInv
  OBVIOUS
<1>1. TypeOK
  BY NoneIsNothing, MaxCallsAreNat DEF Init, TypeOK, Pcs, Phases, Results, CallId
<1>2. LockHolders /\ SignalMatchesQueue /\ SignalledHandled
  BY DEF Init, LockHolders, Holds, SignalMatchesQueue, SignalledHandled
<1>3. OkMeansHandled
  BY DEF Init, OkMeansHandled
<1> QED
  BY <1>1, <1>2, <1>3 DEF IInv

\* Types are kept: what is called is a call, what is handled is a message.
LEMMA TypeStep == TypeOK /\ LockHolders /\ [Next]_vars => TypeOK'
<1> SUFFICES ASSUME TypeOK /\ LockHolders, [Next]_vars PROVE TypeOK'
  OBVIOUS
<1> USE NoneIsNothing, MaxCallsAreNat DEF TypeOK, LockHolders, Holds, Goto, Pcs, Phases
<1>1. CASE UNCHANGED vars
  BY <1>1 DEF vars, queueVars, flagVars, callVars, replyVars
<1>2. ASSUME NEW t \in Scripts, InitThread(t) PROVE TypeOK'
  BY <1>2 DEF InitThread, queueVars, flagVars, callVars, replyVars
<1>3. ASSUME NEW t \in Scripts, InitOk(t) PROVE TypeOK'
  BY <1>3 DEF InitOk, queueVars, flagVars, callVars, replyVars
<1>4. ASSUME NEW t \in Scripts, InitFails(t) PROVE TypeOK'
  BY <1>4 DEF InitFails, queueVars, flagVars, callVars, replyVars
<1>5. ASSUME NEW t \in Scripts, WaitQueue(t) PROVE TypeOK'
  BY <1>5 DEF WaitQueue, queueVars, flagVars, callVars, replyVars
<1>6. ASSUME NEW t \in Scripts, StopSeen(t) PROVE TypeOK'
  BY <1>6 DEF StopSeen, queueVars, flagVars, callVars, replyVars
<1>7. ASSUME NEW t \in Scripts, LoopAgain(t) PROVE TypeOK'
  BY <1>7 DEF LoopAgain, queueVars, flagVars, callVars, replyVars
<1>8. ASSUME NEW t \in Scripts, LoopLeave(t) PROVE TypeOK'
  BY <1>8 DEF LoopLeave, queueVars, flagVars, callVars, replyVars
<1>9. ASSUME NEW t \in Scripts, EndThread(t) PROVE TypeOK'
  BY <1>9 DEF EndThread, queueVars, flagVars, callVars, replyVars
<1>10. ASSUME NEW t \in Scripts, QueueEmpty(t) PROVE TypeOK'
  BY <1>10 DEF QueueEmpty, queueVars, flagVars, callVars, replyVars
<1>11. ASSUME NEW t \in Scripts, Pop(t) PROVE TypeOK'
  BY <1>11 DEF Pop, queueVars, flagVars, callVars, replyVars
<1>12. ASSUME NEW t \in Scripts, PopDone(t) PROVE TypeOK'
  BY <1>12 DEF PopDone, queueVars, flagVars, callVars, replyVars
<1>13. ASSUME NEW t \in Scripts, Execute(t) PROVE TypeOK'
  <2>1. Id(cur[t]) \in CallId
    BY <1>13, IdIsCallId DEF Execute
  <2>2. written' \subseteq CallId /\ late' \subseteq CallId
    BY <1>13, <2>1 DEF Execute
  <2>3. wantQuit' \in [Scripts -> BOOLEAN]
    BY <1>13 DEF Execute
  <2> QED
    BY <1>13, <2>2, <2>3 DEF Execute, queueVars, flagVars, callVars, replyVars
<1>14. ASSUME NEW t \in Scripts, SignalReply(t) PROVE TypeOK'
  <2>1. evReply' \subseteq CallId
    BY <1>14, IdIsCallId DEF SignalReply
  <2>2. cur' \in [Scripts -> Message \cup {None}] /\ pc' \in [Scripts -> Pcs]
    BY <1>14 DEF SignalReply
  <2> QED
    BY <1>14, <2>1, <2>2 DEF SignalReply, queueVars, flagVars, callVars, replyVars
<1>15. ASSUME NEW t \in Scripts, Push(t) PROVE TypeOK'
  <2> DEFINE to == out[t].to
             m  == NewMsg(t)
  <2>1. to \in Scripts /\ m \in Message
    BY <1>15, CallMakesMessage DEF Push
  <2>2. queue' = [queue EXCEPT ![to] = Append(@, m)]
        /\ acc' = [acc EXCEPT ![to] = Append(@, m)]
        /\ lock' = [lock EXCEPT ![to] = t] /\ pc' = [pc EXCEPT ![t] = "pushed"]
    BY <1>15 DEF Push
  <2> HIDE DEF m, to
  <2>3. queue' \in [Scripts -> Seq(Message)] /\ acc' \in [Scripts -> Seq(Message)]
    BY <2>1, <2>2
  <2>4. lock' \in [Scripts -> Scripts \cup {None}] /\ pc' \in [Scripts -> Pcs]
    BY <2>1, <2>2
  <2> QED
    BY <1>15, <2>3, <2>4 DEF Push, queueVars, flagVars, callVars, replyVars
<1>16. ASSUME NEW t \in Scripts, PushDone(t) PROVE TypeOK'
  BY <1>16 DEF PushDone, Return, Results, CallId, queueVars, flagVars, callVars, replyVars
<1>17. ASSUME NEW t \in Scripts, ReplyArrives(t) PROVE TypeOK'
  BY <1>17 DEF ReplyArrives, Return, Results, CallId, queueVars, flagVars, callVars, replyVars
<1>18. ASSUME NEW t \in Scripts, ReplyTimesOut(t) PROVE TypeOK'
  BY <1>18 DEF ReplyTimesOut, Return, Results, CallId, queueVars, flagVars, callVars, replyVars
<1>19. ASSUME NEW t \in Scripts, StopThread(t) PROVE TypeOK'
  BY <1>19 DEF StopThread, queueVars, flagVars, callVars, replyVars
<1>20. ASSUME NEW t \in Scripts, NEW to \in Scripts, CallRefused(t, to) PROVE TypeOK'
  <2>1. res' \in [CallId -> Results]
    BY <1>20 DEF CallRefused, Return, Results
  <2>2. calls' \in [Scripts -> Nat] /\ \A s \in Scripts : calls'[s] <= MaxCalls[s]
    BY <1>20 DEF CallRefused
  <2>3. pc' \in [Scripts -> Pcs]
    BY <1>20 DEF CallRefused
  <2> QED
    BY <1>20, <2>1, <2>2, <2>3 DEF CallRefused, queueVars, flagVars, callVars, replyVars
<1>21. ASSUME NEW t \in Scripts, NEW kind \in Kinds, NEW reply \in BOOLEAN,
              CallSelf(t, kind, reply) PROVE TypeOK'
  <2>1. res' \in [CallId -> Results]
    BY <1>21 DEF CallSelf, Return, Results
  <2>2. calls' \in [Scripts -> Nat] /\ \A s \in Scripts : calls'[s] <= MaxCalls[s]
    BY <1>21 DEF CallSelf
  <2>3. pc' \in [Scripts -> Pcs]
    BY <1>21 DEF CallSelf
  <2>4. written' \subseteq CallId /\ evReply' \subseteq CallId
    BY <1>21 DEF CallSelf, CallId
  <2>5. wantQuit' \in [Scripts -> BOOLEAN]
    BY <1>21 DEF CallSelf
  <2>6. UNCHANGED <<queueVars, stop, owner, phase, cur, out, late>>
    BY <1>21 DEF CallSelf
  <2> QED
    BY <2>1, <2>2, <2>3, <2>4, <2>5, <2>6 DEF queueVars, flagVars, callVars, replyVars
<1>22. ASSUME NEW t \in Scripts, NEW kind \in Kinds, NEW reply \in BOOLEAN,
              NEW to \in Scripts, CallOther(t, to, kind, reply) PROVE TypeOK'
  BY <1>22 DEF CallOther, Call, queueVars, flagVars, callVars, replyVars
<1> HIDE DEF TypeOK, LockHolders, Holds, Goto, Pcs, Phases
<1> QED
  BY <1>1, <1>2, <1>3, <1>4, <1>5, <1>6, <1>7, <1>8, <1>9, <1>10, <1>11,
     <1>12, <1>13, <1>14, <1>15, <1>16, <1>17, <1>18, <1>19, <1>20, <1>21,
     <1>22
  DEF Next, Step, MakeCall, AllDead

\* A lock has one holder, and its holder is where the lock says.
LEMMA LockStep == TypeOK /\ LockHolders /\ SignalMatchesQueue /\ [Next]_vars => LockHolders'
<1> SUFFICES ASSUME TypeOK /\ LockHolders /\ SignalMatchesQueue, [Next]_vars PROVE LockHolders'
  OBVIOUS
<1> USE NoneIsNothing DEF TypeOK, LockHolders, Holds, SignalMatchesQueue, Goto, Pcs
<1>1. CASE UNCHANGED vars
  BY <1>1 DEF vars, queueVars, flagVars, callVars, replyVars
<1>2. ASSUME NEW t \in Scripts, InitThread(t) PROVE LockHolders'
  BY <1>2 DEF InitThread, queueVars, flagVars, callVars, replyVars
<1>3. ASSUME NEW t \in Scripts, InitOk(t) PROVE LockHolders'
  BY <1>3 DEF InitOk, queueVars, flagVars, callVars, replyVars
<1>4. ASSUME NEW t \in Scripts, InitFails(t) PROVE LockHolders'
  BY <1>4 DEF InitFails, queueVars, flagVars, callVars, replyVars
<1>5. ASSUME NEW t \in Scripts, WaitQueue(t) PROVE LockHolders'
  BY <1>5 DEF WaitQueue, queueVars, flagVars, callVars, replyVars
<1>6. ASSUME NEW t \in Scripts, StopSeen(t) PROVE LockHolders'
  BY <1>6 DEF StopSeen, queueVars, flagVars, callVars, replyVars
<1>7. ASSUME NEW t \in Scripts, LoopAgain(t) PROVE LockHolders'
  BY <1>7 DEF LoopAgain, queueVars, flagVars, callVars, replyVars
<1>8. ASSUME NEW t \in Scripts, LoopLeave(t) PROVE LockHolders'
  BY <1>8 DEF LoopLeave, queueVars, flagVars, callVars, replyVars
<1>9. ASSUME NEW t \in Scripts, EndThread(t) PROVE LockHolders'
  BY <1>9 DEF EndThread, queueVars, flagVars, callVars, replyVars
<1>10. ASSUME NEW t \in Scripts, QueueEmpty(t) PROVE LockHolders'
  BY <1>10 DEF QueueEmpty, queueVars, flagVars, callVars, replyVars
<1>11. ASSUME NEW t \in Scripts, Pop(t) PROVE LockHolders'
  <2> SUFFICES ASSUME NEW s \in Scripts PROVE Holds(s)'
    BY DEF LockHolders
  <2>1. CASE s = t
    BY <1>11, <2>1 DEF Pop, queueVars, flagVars, callVars, replyVars
  <2>2. CASE s # t
    BY <1>11, <2>2 DEF Pop, queueVars, flagVars, callVars, replyVars
  <2> QED
    BY <2>1, <2>2
<1>12. ASSUME NEW t \in Scripts, PopDone(t) PROVE LockHolders'
  BY <1>12 DEF PopDone, queueVars, flagVars, callVars, replyVars
<1>13. ASSUME NEW t \in Scripts, Execute(t) PROVE LockHolders'
  BY <1>13 DEF Execute, queueVars, flagVars, callVars, replyVars
<1>14. ASSUME NEW t \in Scripts, SignalReply(t) PROVE LockHolders'
  BY <1>14 DEF SignalReply, queueVars, flagVars, callVars, replyVars
<1>15. ASSUME NEW t \in Scripts, Push(t) PROVE LockHolders'
  <2> SUFFICES ASSUME NEW s \in Scripts PROVE Holds(s)'
    BY DEF LockHolders
  <2>1. CASE s = t
    <3> DEFINE to == out[t].to
               m  == NewMsg(t)
    <3>1. to \in Scripts /\ m \in Message
      BY <1>15, CallMakesMessage DEF Push
    <3>2. queue'[to] = Append(queue[to], m) /\ lock'[to] = t
      BY <1>15, <3>1 DEF Push
    <3>3. pc'[t] = "pushed" /\ out' = out /\ calls' = calls /\ out[t] # None /\ to # t /\ calls[t] > 0
      BY <1>15 DEF Push, flagVars, callVars, replyVars
    <3> HIDE DEF m
    <3>4. queue[to] \in Seq(Message)
      BY <3>1
    <3> HIDE DEF to, TypeOK, LockHolders, Holds, SignalMatchesQueue
    <3>5. Append(queue[to], m) # <<>>
      BY <3>1, <3>4, AppendNotEmpty
    <3> QED
      BY <2>1, <3>2, <3>3, <3>5 DEF to, Holds
  <2>2. CASE s # t
    <3> DEFINE to == out[t].to
    <3>1. /\ to \in Scripts /\ (to # s \/ lock[to] = None)
          /\ queue' = [queue EXCEPT ![to] = Append(@, NewMsg(t))]
          /\ lock' = [lock EXCEPT ![to] = t]
      BY <1>15, CallMakesMessage DEF Push
    <3>2. pc'[s] = pc[s] /\ UNCHANGED <<cur, sig, out, calls>>
      BY <1>15, <2>2 DEF Push, flagVars, callVars, replyVars
    <3>3. pc[s] = "popped" => lock'[s] = s /\ sig[s]
      BY <1>15, <2>2, <3>1 DEF Push
    <3>4. pc[s] = "pushed" => out[s].to # to
      <4>1. lock[to] = None /\ s # None
        BY <1>15 DEF Push
      <4>2. pc[s] = "pushed" => lock[out[s].to] = s
        OBVIOUS
      <4> HIDE DEF TypeOK, LockHolders, Holds, SignalMatchesQueue
      <4> QED
        BY <4>1, <4>2
    <3>5. pc[s] = "pushed" => out[s].to \in Scripts
      BY <2>2 DEF Call
    <3>6. pc[s] = "pushed" => lock'[out[s].to] = s /\ queue'[out[s].to] # <<>>
      BY <2>2, <3>1, <3>4, <3>5
    <3> QED
      BY <2>2, <3>2, <3>3, <3>6
  <2> QED
    BY <2>1, <2>2
<1>16. ASSUME NEW t \in Scripts, PushDone(t) PROVE LockHolders'
  BY <1>16 DEF PushDone, queueVars, flagVars, callVars, replyVars
<1>17. ASSUME NEW t \in Scripts, ReplyArrives(t) PROVE LockHolders'
  BY <1>17 DEF ReplyArrives, queueVars, flagVars, callVars, replyVars
<1>18. ASSUME NEW t \in Scripts, ReplyTimesOut(t) PROVE LockHolders'
  BY <1>18 DEF ReplyTimesOut, queueVars, flagVars, callVars, replyVars
<1>19. ASSUME NEW t \in Scripts, StopThread(t) PROVE LockHolders'
  BY <1>19 DEF StopThread, queueVars, flagVars, callVars, replyVars
<1>20. ASSUME NEW t \in Scripts, NEW to \in Scripts, CallRefused(t, to) PROVE LockHolders'
  BY <1>20 DEF CallRefused, queueVars, flagVars, callVars, replyVars
<1>21. ASSUME NEW t \in Scripts, NEW kind \in Kinds, NEW reply \in BOOLEAN,
              CallSelf(t, kind, reply) PROVE LockHolders'
  BY <1>21 DEF CallSelf, queueVars, flagVars, callVars, replyVars
<1>22. ASSUME NEW t \in Scripts, NEW kind \in Kinds, NEW reply \in BOOLEAN,
              NEW to \in Scripts, CallOther(t, to, kind, reply) PROVE LockHolders'
  <2> SUFFICES ASSUME NEW s \in Scripts PROVE Holds(s)'
    BY DEF LockHolders
  <2>1. CASE s = t
    BY <1>22, <2>1 DEF CallOther, Call, queueVars, flagVars, callVars, replyVars
  <2>2. CASE s # t
    BY <1>22, <2>2 DEF CallOther, Call, queueVars, flagVars, callVars, replyVars
  <2> QED
    BY <2>1, <2>2
<1> HIDE DEF TypeOK, LockHolders, Holds, SignalMatchesQueue, Goto, Pcs
<1> QED
  BY <1>1, <1>2, <1>3, <1>4, <1>5, <1>6, <1>7, <1>8, <1>9, <1>10, <1>11,
     <1>12, <1>13, <1>14, <1>15, <1>16, <1>17, <1>18, <1>19, <1>20, <1>21,
     <1>22
  DEF Next, Step, MakeCall, AllDead

\* The event is brought back in step with the queue before the lock is left.
LEMMA SignalStep == TypeOK /\ LockHolders /\ SignalMatchesQueue /\ [Next]_vars => SignalMatchesQueue'
<1> SUFFICES ASSUME TypeOK /\ LockHolders /\ SignalMatchesQueue, [Next]_vars PROVE SignalMatchesQueue'
  OBVIOUS
<1> USE NoneIsNothing DEF TypeOK, LockHolders, Holds, SignalMatchesQueue, Goto
<1>1. CASE UNCHANGED vars
  BY <1>1 DEF vars, queueVars, flagVars, callVars, replyVars
<1>2. ASSUME NEW t \in Scripts, InitThread(t) PROVE SignalMatchesQueue'
  BY <1>2 DEF InitThread, queueVars, flagVars, callVars, replyVars
<1>3. ASSUME NEW t \in Scripts, InitOk(t) PROVE SignalMatchesQueue'
  BY <1>3 DEF InitOk, queueVars, flagVars, callVars, replyVars
<1>4. ASSUME NEW t \in Scripts, InitFails(t) PROVE SignalMatchesQueue'
  BY <1>4 DEF InitFails, queueVars, flagVars, callVars, replyVars
<1>5. ASSUME NEW t \in Scripts, WaitQueue(t) PROVE SignalMatchesQueue'
  BY <1>5 DEF WaitQueue, queueVars, flagVars, callVars, replyVars
<1>6. ASSUME NEW t \in Scripts, StopSeen(t) PROVE SignalMatchesQueue'
  BY <1>6 DEF StopSeen, queueVars, flagVars, callVars, replyVars
<1>7. ASSUME NEW t \in Scripts, LoopAgain(t) PROVE SignalMatchesQueue'
  BY <1>7 DEF LoopAgain, queueVars, flagVars, callVars, replyVars
<1>8. ASSUME NEW t \in Scripts, LoopLeave(t) PROVE SignalMatchesQueue'
  BY <1>8 DEF LoopLeave, queueVars, flagVars, callVars, replyVars
<1>9. ASSUME NEW t \in Scripts, EndThread(t) PROVE SignalMatchesQueue'
  BY <1>9 DEF EndThread, queueVars, flagVars, callVars, replyVars
<1>10. ASSUME NEW t \in Scripts, QueueEmpty(t) PROVE SignalMatchesQueue'
  BY <1>10 DEF QueueEmpty, queueVars, flagVars, callVars, replyVars
<1>11. ASSUME NEW t \in Scripts, Pop(t) PROVE SignalMatchesQueue'
  BY <1>11 DEF Pop, queueVars, flagVars, callVars, replyVars
<1>12. ASSUME NEW t \in Scripts, PopDone(t) PROVE SignalMatchesQueue'
  BY <1>12 DEF PopDone, queueVars, flagVars, callVars, replyVars
<1>13. ASSUME NEW t \in Scripts, Execute(t) PROVE SignalMatchesQueue'
  BY <1>13 DEF Execute, queueVars, flagVars, callVars, replyVars
<1>14. ASSUME NEW t \in Scripts, SignalReply(t) PROVE SignalMatchesQueue'
  BY <1>14 DEF SignalReply, queueVars, flagVars, callVars, replyVars
<1>15. ASSUME NEW t \in Scripts, Push(t) PROVE SignalMatchesQueue'
  BY <1>15 DEF Push, Call, queueVars, flagVars, callVars, replyVars
<1>16. ASSUME NEW t \in Scripts, PushDone(t) PROVE SignalMatchesQueue'
  BY <1>16 DEF PushDone, Call, queueVars, flagVars, callVars, replyVars
<1>17. ASSUME NEW t \in Scripts, ReplyArrives(t) PROVE SignalMatchesQueue'
  BY <1>17 DEF ReplyArrives, queueVars, flagVars, callVars, replyVars
<1>18. ASSUME NEW t \in Scripts, ReplyTimesOut(t) PROVE SignalMatchesQueue'
  BY <1>18 DEF ReplyTimesOut, queueVars, flagVars, callVars, replyVars
<1>19. ASSUME NEW t \in Scripts, StopThread(t) PROVE SignalMatchesQueue'
  BY <1>19 DEF StopThread, queueVars, flagVars, callVars, replyVars
<1>20. ASSUME NEW t \in Scripts, NEW to \in Scripts, CallRefused(t, to) PROVE SignalMatchesQueue'
  BY <1>20 DEF CallRefused, queueVars, flagVars, callVars, replyVars
<1>21. ASSUME NEW t \in Scripts, NEW kind \in Kinds, NEW reply \in BOOLEAN,
              CallSelf(t, kind, reply) PROVE SignalMatchesQueue'
  BY <1>21 DEF CallSelf, queueVars, flagVars, callVars, replyVars
<1>22. ASSUME NEW t \in Scripts, NEW kind \in Kinds, NEW reply \in BOOLEAN,
              NEW to \in Scripts, CallOther(t, to, kind, reply) PROVE SignalMatchesQueue'
  BY <1>22 DEF CallOther, queueVars, flagVars, callVars, replyVars
<1> HIDE DEF TypeOK, LockHolders, Holds, SignalMatchesQueue, Goto
<1> QED
  BY <1>1, <1>2, <1>3, <1>4, <1>5, <1>6, <1>7, <1>8, <1>9, <1>10, <1>11,
     <1>12, <1>13, <1>14, <1>15, <1>16, <1>17, <1>18, <1>19, <1>20, <1>21,
     <1>22
  DEF Next, Step, MakeCall, AllDead

\* The reply is written before its event is signalled.
LEMMA HandledStep == TypeOK /\ LockHolders /\ SignalledHandled /\ [Next]_vars => SignalledHandled'
<1> SUFFICES ASSUME TypeOK /\ LockHolders /\ SignalledHandled, [Next]_vars PROVE SignalledHandled'
  OBVIOUS
<1> USE DEF TypeOK, LockHolders, Holds, SignalledHandled, Goto
<1>1. CASE UNCHANGED vars
  BY <1>1 DEF vars, queueVars, flagVars, callVars, replyVars
<1>2. ASSUME NEW t \in Scripts, InitThread(t) PROVE SignalledHandled'
  BY <1>2 DEF InitThread, queueVars, flagVars, callVars, replyVars
<1>3. ASSUME NEW t \in Scripts, InitOk(t) PROVE SignalledHandled'
  BY <1>3 DEF InitOk, queueVars, flagVars, callVars, replyVars
<1>4. ASSUME NEW t \in Scripts, InitFails(t) PROVE SignalledHandled'
  BY <1>4 DEF InitFails, queueVars, flagVars, callVars, replyVars
<1>5. ASSUME NEW t \in Scripts, WaitQueue(t) PROVE SignalledHandled'
  BY <1>5 DEF WaitQueue, queueVars, flagVars, callVars, replyVars
<1>6. ASSUME NEW t \in Scripts, StopSeen(t) PROVE SignalledHandled'
  BY <1>6 DEF StopSeen, queueVars, flagVars, callVars, replyVars
<1>7. ASSUME NEW t \in Scripts, LoopAgain(t) PROVE SignalledHandled'
  BY <1>7 DEF LoopAgain, queueVars, flagVars, callVars, replyVars
<1>8. ASSUME NEW t \in Scripts, LoopLeave(t) PROVE SignalledHandled'
  BY <1>8 DEF LoopLeave, queueVars, flagVars, callVars, replyVars
<1>9. ASSUME NEW t \in Scripts, EndThread(t) PROVE SignalledHandled'
  BY <1>9 DEF EndThread, queueVars, flagVars, callVars, replyVars
<1>10. ASSUME NEW t \in Scripts, QueueEmpty(t) PROVE SignalledHandled'
  BY <1>10 DEF QueueEmpty, queueVars, flagVars, callVars, replyVars
<1>11. ASSUME NEW t \in Scripts, Pop(t) PROVE SignalledHandled'
  BY <1>11 DEF Pop, queueVars, flagVars, callVars, replyVars
<1>12. ASSUME NEW t \in Scripts, PopDone(t) PROVE SignalledHandled'
  BY <1>12 DEF PopDone, queueVars, flagVars, callVars, replyVars
<1>13. ASSUME NEW t \in Scripts, Execute(t) PROVE SignalledHandled'
  BY <1>13 DEF Execute, Id, queueVars, flagVars, callVars, replyVars
<1>14. ASSUME NEW t \in Scripts, SignalReply(t) PROVE SignalledHandled'
  BY <1>14 DEF SignalReply, Id, queueVars, flagVars, callVars, replyVars
<1>15. ASSUME NEW t \in Scripts, Push(t) PROVE SignalledHandled'
  BY <1>15 DEF Push, queueVars, flagVars, callVars, replyVars
<1>16. ASSUME NEW t \in Scripts, PushDone(t) PROVE SignalledHandled'
  BY <1>16 DEF PushDone, queueVars, flagVars, callVars, replyVars
<1>17. ASSUME NEW t \in Scripts, ReplyArrives(t) PROVE SignalledHandled'
  BY <1>17 DEF ReplyArrives, queueVars, flagVars, callVars, replyVars
<1>18. ASSUME NEW t \in Scripts, ReplyTimesOut(t) PROVE SignalledHandled'
  BY <1>18 DEF ReplyTimesOut, queueVars, flagVars, callVars, replyVars
<1>19. ASSUME NEW t \in Scripts, StopThread(t) PROVE SignalledHandled'
  BY <1>19 DEF StopThread, queueVars, flagVars, callVars, replyVars
<1>20. ASSUME NEW t \in Scripts, NEW to \in Scripts, CallRefused(t, to) PROVE SignalledHandled'
  BY <1>20 DEF CallRefused, queueVars, flagVars, callVars, replyVars
<1>21. ASSUME NEW t \in Scripts, NEW kind \in Kinds, NEW reply \in BOOLEAN,
              CallSelf(t, kind, reply) PROVE SignalledHandled'
  BY <1>21 DEF CallSelf, queueVars, flagVars, callVars, replyVars
<1>22. ASSUME NEW t \in Scripts, NEW kind \in Kinds, NEW reply \in BOOLEAN,
              NEW to \in Scripts, CallOther(t, to, kind, reply) PROVE SignalledHandled'
  BY <1>22 DEF CallOther, queueVars, flagVars, callVars, replyVars
<1> HIDE DEF TypeOK, LockHolders, Holds, SignalledHandled, Goto
<1> QED
  BY <1>1, <1>2, <1>3, <1>4, <1>5, <1>6, <1>7, <1>8, <1>9, <1>10, <1>11,
     <1>12, <1>13, <1>14, <1>15, <1>16, <1>17, <1>18, <1>19, <1>20, <1>21,
     <1>22
  DEF Next, Step, MakeCall, AllDead

\* Msg() returns TRUE where it finds its event signalled, and on its own thread
\* where it has just run the handler.
LEMMA OkStep ==
    TypeOK /\ SignalledHandled /\ OkMeansHandled /\ [Next]_vars => OkMeansHandled'
<1> SUFFICES ASSUME TypeOK /\ SignalledHandled /\ OkMeansHandled, [Next]_vars
             PROVE OkMeansHandled'
  OBVIOUS
<1> USE DEF TypeOK, SignalledHandled, OkMeansHandled, Goto, Return
<1>1. CASE UNCHANGED vars
  BY <1>1 DEF vars, queueVars, flagVars, callVars, replyVars
<1>2. ASSUME NEW t \in Scripts, InitThread(t) PROVE OkMeansHandled'
  BY <1>2 DEF InitThread, queueVars, flagVars, callVars, replyVars
<1>3. ASSUME NEW t \in Scripts, InitOk(t) PROVE OkMeansHandled'
  BY <1>3 DEF InitOk, queueVars, flagVars, callVars, replyVars
<1>4. ASSUME NEW t \in Scripts, InitFails(t) PROVE OkMeansHandled'
  BY <1>4 DEF InitFails, queueVars, flagVars, callVars, replyVars
<1>5. ASSUME NEW t \in Scripts, WaitQueue(t) PROVE OkMeansHandled'
  BY <1>5 DEF WaitQueue, queueVars, flagVars, callVars, replyVars
<1>6. ASSUME NEW t \in Scripts, StopSeen(t) PROVE OkMeansHandled'
  BY <1>6 DEF StopSeen, queueVars, flagVars, callVars, replyVars
<1>7. ASSUME NEW t \in Scripts, LoopAgain(t) PROVE OkMeansHandled'
  BY <1>7 DEF LoopAgain, queueVars, flagVars, callVars, replyVars
<1>8. ASSUME NEW t \in Scripts, LoopLeave(t) PROVE OkMeansHandled'
  BY <1>8 DEF LoopLeave, queueVars, flagVars, callVars, replyVars
<1>9. ASSUME NEW t \in Scripts, EndThread(t) PROVE OkMeansHandled'
  BY <1>9 DEF EndThread, queueVars, flagVars, callVars, replyVars
<1>10. ASSUME NEW t \in Scripts, QueueEmpty(t) PROVE OkMeansHandled'
  BY <1>10 DEF QueueEmpty, queueVars, flagVars, callVars, replyVars
<1>11. ASSUME NEW t \in Scripts, Pop(t) PROVE OkMeansHandled'
  BY <1>11 DEF Pop, queueVars, flagVars, callVars, replyVars
<1>12. ASSUME NEW t \in Scripts, PopDone(t) PROVE OkMeansHandled'
  BY <1>12 DEF PopDone, queueVars, flagVars, callVars, replyVars
<1>13. ASSUME NEW t \in Scripts, Execute(t) PROVE OkMeansHandled'
  BY <1>13 DEF Execute, queueVars, flagVars, callVars, replyVars
<1>14. ASSUME NEW t \in Scripts, SignalReply(t) PROVE OkMeansHandled'
  BY <1>14 DEF SignalReply, queueVars, flagVars, callVars, replyVars
<1>15. ASSUME NEW t \in Scripts, Push(t) PROVE OkMeansHandled'
  BY <1>15 DEF Push, queueVars, flagVars, callVars, replyVars
<1>16. ASSUME NEW t \in Scripts, PushDone(t) PROVE OkMeansHandled'
  BY <1>16 DEF PushDone, queueVars, flagVars, callVars, replyVars
<1>17. ASSUME NEW t \in Scripts, ReplyArrives(t) PROVE OkMeansHandled'
  BY <1>17 DEF ReplyArrives, queueVars, flagVars, callVars, replyVars
<1>18. ASSUME NEW t \in Scripts, ReplyTimesOut(t) PROVE OkMeansHandled'
  BY <1>18 DEF ReplyTimesOut, queueVars, flagVars, callVars, replyVars
<1>19. ASSUME NEW t \in Scripts, StopThread(t) PROVE OkMeansHandled'
  BY <1>19 DEF StopThread, queueVars, flagVars, callVars, replyVars
<1>20. ASSUME NEW t \in Scripts, NEW to \in Scripts, CallRefused(t, to) PROVE OkMeansHandled'
  BY <1>20 DEF CallRefused, queueVars, flagVars, callVars, replyVars
<1>21. ASSUME NEW t \in Scripts, NEW kind \in Kinds, NEW reply \in BOOLEAN,
              CallSelf(t, kind, reply) PROVE OkMeansHandled'
  BY <1>21 DEF CallSelf, queueVars, flagVars, callVars, replyVars
<1>22. ASSUME NEW t \in Scripts, NEW kind \in Kinds, NEW reply \in BOOLEAN,
              NEW to \in Scripts, CallOther(t, to, kind, reply) PROVE OkMeansHandled'
  BY <1>22 DEF CallOther, queueVars, flagVars, callVars, replyVars
<1> HIDE DEF TypeOK, SignalledHandled, OkMeansHandled, Goto, Return
<1> QED
  BY <1>1, <1>2, <1>3, <1>4, <1>5, <1>6, <1>7, <1>8, <1>9, <1>10, <1>11,
     <1>12, <1>13, <1>14, <1>15, <1>16, <1>17, <1>18, <1>19, <1>20, <1>21,
     <1>22
  DEF Next, Step, MakeCall, AllDead

LEMMA StepIInv == IInv /\ [Next]_vars => IInv'
BY TypeStep, LockStep, SignalStep, HandledStep, OkStep DEF IInv

\* Every reachable state has well-typed variables.
THEOREM Types == Spec => []TypeOK
<1>1. IInv => TypeOK
  BY DEF IInv
<1> QED
  BY InitIInv, StepIInv, <1>1, PTL DEF Spec

\* No message waits in a queue whose event is not signalled, and no event stays
\* signalled over an empty queue, outside the queue's lock.
THEOREM NoLostWakeup == Spec => []SignalMatchesQueue
<1>1. IInv => SignalMatchesQueue
  BY DEF IInv
<1> QED
  BY InitIInv, StepIInv, <1>1, PTL DEF Spec

\* A call whose Msg() returned TRUE for a reply was handled, by the script it was
\* made to, although replies come late and calls are made out of handlers.
THEOREM RepliesAreHandled == Spec => []OkMeansHandled
<1>1. IInv => OkMeansHandled
  BY DEF IInv
<1> QED
  BY InitIInv, StepIInv, <1>1, PTL DEF Spec
-----------------------------------------------------------------------------
(* What the history says: the mailboxes that the queues implement.          *)

\* The message in hand is the last one taken.
CurIsTaken ==
    \A t \in Scripts : cur[t] # None =>
        taken[t] \in 1 .. Len(acc[t]) /\ cur[t] = acc[t][taken[t]]

\* Its caller has got past the push of call c.
Past(c) == c[2] <= calls[c[1]] /\ (pc[c[1]] = "push" => c[2] # calls[c[1]])

\* What was accepted, handled or answered was pushed, run or refused before.
Begun ==
    /\ \A c \in CallId : c \in written \/ res[c] # "none" => Past(c)
    /\ \A t \in Scripts : \A i \in 1 .. Len(acc[t]) : Past(Id(acc[t][i]))

\* A call is accepted once.
OncePushed ==
    \A s, t \in Scripts : \A i \in 1 .. Len(acc[s]), j \in 1 .. Len(acc[t]) :
        Id(acc[s][i]) = Id(acc[t][j]) => s = t /\ i = j

\* What waits in a queue or is being executed has not been handled.
HandledInTurn ==
    \A t \in Scripts : \A i \in 1 .. Len(acc[t]) :
        Id(acc[t][i]) \in written =>
            i <= taken[t] /\ (i = taken[t] => cur[t] = None \/ pc[t] = "reply")

\* A call in progress is accepted and its caller has not been told anything.
InFlight ==
    \A t \in Scripts : pc[t] \in {"pushed", "await"} =>
        /\ \E i \in 1 .. Len(acc[out[t].to]) : acc[out[t].to][i] = NewMsg(t)
        /\ res[<<t, calls[t]>>] = "none"
        /\ pc[t] = "await" => out[t].reply

\* Nobody leaves a call that wants a reply without a reply or its time over.
WantsAnAnswer ==
    \A t \in Scripts : \A i \in 1 .. Len(acc[t]) :
        acc[t][i].reply => res[Id(acc[t][i])] \notin {"sent", "refused"}

\* The inductive invariant of the mailboxes.
Mailboxes ==
    /\ InOrder /\ CurIsTaken /\ Begun /\ OncePushed
    /\ HandledInTurn /\ InFlight /\ WantsAnAnswer /\ LateOnlyAfterTimeout

\* A step that the mailboxes do not show, and no caller's call is moved by.
Stages == {"push", "pushed", "await", "reply"}
Quiet ==
    /\ UNCHANGED <<queue, acc, taken, cur, out, calls, written, late, res>>
    /\ \A t \in Scripts : pc'[t] = pc[t] \/ (pc[t] \notin Stages /\ pc'[t] \notin Stages)

\* The steps that are not quiet.
Loud(t) ==
    \/ Pop(t) \/ Execute(t) \/ SignalReply(t) \/ Push(t) \/ PushDone(t)
    \/ ReplyArrives(t) \/ ReplyTimesOut(t) \/ MakeCall(t)

LEMMA QuietOrLoud ==
    ASSUME TypeOK, [Next]_vars PROVE Quiet \/ \E t \in Scripts : Loud(t)
<1> SUFFICES ASSUME ~ \E t \in Scripts : Loud(t) PROVE Quiet
  OBVIOUS
<1> USE DEF Quiet, Stages, Goto, queueVars, flagVars, callVars, replyVars
<1>1. CASE UNCHANGED vars
  BY <1>1 DEF vars
<1>2. ASSUME NEW t \in Scripts, StopThread(t) PROVE Quiet
  BY <1>2 DEF StopThread
<1>3. ASSUME NEW t \in Scripts, Step(t), ~Loud(t) PROVE Quiet
  <2> USE DEF TypeOK
  <2>1. CASE InitThread(t)
    BY <2>1 DEF InitThread
  <2>2. CASE InitOk(t)
    BY <2>2 DEF InitOk
  <2>3. CASE InitFails(t)
    BY <2>3 DEF InitFails
  <2>4. CASE WaitQueue(t)
    BY <2>4 DEF WaitQueue
  <2>5. CASE StopSeen(t)
    BY <2>5 DEF StopSeen
  <2>6. CASE LoopAgain(t)
    BY <2>6 DEF LoopAgain
  <2>7. CASE LoopLeave(t)
    BY <2>7 DEF LoopLeave
  <2>8. CASE EndThread(t)
    BY <2>8 DEF EndThread
  <2>9. CASE QueueEmpty(t)
    BY <2>9 DEF QueueEmpty
  <2>10. CASE PopDone(t)
    BY <2>10 DEF PopDone
  <2> HIDE DEF TypeOK, Quiet
  <2> QED
    BY <1>3, <2>1, <2>2, <2>3, <2>4, <2>5, <2>6, <2>7, <2>8, <2>9, <2>10 DEF Step, Loud
<1> HIDE DEF Quiet
<1> QED
  BY <1>1, <1>2, <1>3 DEF Next, AllDead, Loud

LEMMA InitMailboxes == Init => Mailboxes
<1> SUFFICES ASSUME Init PROVE Mailboxes
  OBVIOUS
<1>1. InOrder /\ CurIsTaken /\ OncePushed /\ HandledInTurn /\ WantsAnAnswer
  BY DEF Init, InOrder, CurIsTaken, OncePushed, HandledInTurn, WantsAnAnswer
<1>2. Begun /\ InFlight /\ LateOnlyAfterTimeout
  BY DEF Init, Begun, InFlight, LateOnlyAfterTimeout
<1> QED
  BY <1>1, <1>2 DEF Mailboxes

\* What Push does to the mailbox of its target.
Pushes(t, to, m) ==
    /\ to \in Scripts /\ to # t /\ m \in Message
    /\ \A s \in Scripts \ {to} : acc'[s] = acc[s] /\ queue'[s] = queue[s]
    /\ acc[to] \in Seq(Message) /\ queue[to] \in Seq(Message)
    /\ acc'[to] = Append(acc[to], m) /\ queue'[to] = Append(queue[to], m)
    /\ UNCHANGED <<taken, cur, out, calls, written, late, res>>
    /\ pc[t] = "push" /\ pc' = [pc EXCEPT ![t] = "pushed"]

LEMMA PushEffect ==
    ASSUME TypeOK, LockHolders, NEW t \in Scripts, Push(t)
    PROVE  Pushes(t, out[t].to, NewMsg(t))
<1> DEFINE to == out[t].to
           m == NewMsg(t)
<1>1. to \in Scripts /\ to # t /\ m \in Message
  BY CallMakesMessage DEF Push
<1>2. /\ queue' = [queue EXCEPT ![to] = Append(@, m)]
      /\ acc' = [acc EXCEPT ![to] = Append(@, m)]
      /\ pc[t] = "push" /\ pc' = [pc EXCEPT ![t] = "pushed"]
      /\ UNCHANGED <<taken, cur, out, calls, written, late, res>>
  BY DEF Push, Goto, queueVars, callVars, replyVars
<1> HIDE DEF to, m
<1>3. acc[to] \in Seq(Message) /\ queue[to] \in Seq(Message)
  BY <1>1 DEF TypeOK
<1>4. acc'[to] = Append(acc[to], m) /\ queue'[to] = Append(queue[to], m)
  BY <1>1, <1>2 DEF TypeOK
<1>5. \A s \in Scripts \ {to} : acc'[s] = acc[s] /\ queue'[s] = queue[s]
  BY <1>2 DEF TypeOK
<1>6. Pushes(t, to, m)
  BY <1>1, <1>2, <1>3, <1>4, <1>5 DEF Pushes
<1> QED
  BY <1>6 DEF to, m

\* A message appended is the last one, and the others stay in their places.
LEMMA AppendIndex ==
    ASSUME NEW q \in Seq(Message), NEW m \in Message
    PROVE  /\ Len(q) \in Nat /\ Len(Append(q, m)) = Len(q) + 1
           /\ \A i \in 1 .. Len(q) : Append(q, m)[i] = q[i]
           /\ Append(q, m)[Len(q) + 1] = m
OBVIOUS

LEMMA PushPlaces ==
    ASSUME NEW t, NEW to, NEW m, Pushes(t, to, m)
    PROVE  /\ Len(acc[to]) \in Nat /\ Len(acc'[to]) = Len(acc[to]) + 1
           /\ \A i \in 1 .. Len(acc[to]) : acc'[to][i] = acc[to][i]
           /\ acc'[to][Len(acc[to]) + 1] = m
           /\ Len(queue[to]) \in Nat /\ Len(queue'[to]) = Len(queue[to]) + 1
           /\ \A i \in 1 .. Len(queue[to]) : queue'[to][i] = queue[to][i]
           /\ queue'[to][Len(queue[to]) + 1] = m
<1>1. /\ acc[to] \in Seq(Message) /\ queue[to] \in Seq(Message) /\ m \in Message
      /\ acc'[to] = Append(acc[to], m) /\ queue'[to] = Append(queue[to], m)
  BY DEF Pushes
<1>2. /\ Len(acc[to]) \in Nat /\ Len(acc'[to]) = Len(acc[to]) + 1
      /\ \A i \in 1 .. Len(acc[to]) : acc'[to][i] = acc[to][i]
      /\ acc'[to][Len(acc[to]) + 1] = m
  BY <1>1, AppendIndex
<1>3. /\ Len(queue[to]) \in Nat /\ Len(queue'[to]) = Len(queue[to]) + 1
      /\ \A i \in 1 .. Len(queue[to]) : queue'[to][i] = queue[to][i]
      /\ queue'[to][Len(queue[to]) + 1] = m
  BY <1>1, AppendIndex
<1> QED
  BY <1>2, <1>3

\* What Pop does to the mailbox of its script.
LEMMA PopEffect ==
    ASSUME TypeOK, NEW t \in Scripts, Pop(t)
    PROVE  /\ queue[t] \in Seq(Message) /\ queue[t] # <<>>
           /\ \A s \in Scripts \ {t} : /\ queue'[s] = queue[s] /\ taken'[s] = taken[s]
                                       /\ cur'[s] = cur[s] /\ pc'[s] = pc[s]
           /\ Len(queue'[t]) = Len(queue[t]) - 1 /\ Len(queue[t]) > 0
           /\ \A i \in 1 .. Len(queue'[t]) : queue'[t][i] = queue[t][i + 1]
           /\ cur'[t] = queue[t][1] /\ taken'[t] = taken[t] + 1 /\ taken[t] \in Nat
           /\ pc[t] = "pop" /\ pc'[t] = "popped"
           /\ UNCHANGED <<acc, out, calls, written, late, res>>
<1>1. queue[t] \in Seq(Message) /\ queue[t] # <<>>
  BY DEF Pop, TypeOK
<1>2. /\ queue'[t] = Tail(queue[t]) /\ cur'[t] = Head(queue[t])
      /\ taken'[t] = taken[t] + 1 /\ taken[t] \in Nat
      /\ pc[t] = "pop" /\ pc'[t] = "popped"
  BY DEF Pop, Goto, TypeOK
<1>3. \A s \in Scripts \ {t} : /\ queue'[s] = queue[s] /\ taken'[s] = taken[s]
                               /\ cur'[s] = cur[s] /\ pc'[s] = pc[s]
  BY DEF Pop, Goto, TypeOK
<1>4. UNCHANGED <<acc, out, calls, written, late, res>>
  BY DEF Pop, callVars, replyVars
<1>5. Len(queue[t]) > 0
  BY <1>1
<1> QED
  BY <1>1, <1>2, <1>3, <1>4, <1>5

LEMMA LenIsNat ==
    ASSUME TypeOK, NEW t \in Scripts
    PROVE  taken[t] \in Nat /\ Len(queue[t]) \in Nat /\ Len(acc[t]) \in Nat
<1>1. taken[t] \in Nat /\ queue[t] \in Seq(Message) /\ acc[t] \in Seq(Message)
  BY DEF TypeOK
<1> QED
  BY <1>1

\* What every step that is neither Push nor Pop leaves alone.
LEMMA OthersKeepQueues ==
    ASSUME NEW t \in Scripts, Loud(t)
    PROVE  Push(t) \/ Pop(t) \/ UNCHANGED <<queue, acc, taken>>
BY DEF Loud, Execute, SignalReply, PushDone, ReplyArrives, ReplyTimesOut, MakeCall,
    CallRefused, CallSelf, CallOther, queueVars

\* Messages leave a queue at its head and enter it at its end.
LEMMA InOrderStep ==
    ASSUME TypeOK, LockHolders, InOrder, [Next]_vars PROVE InOrder'
<1>1. CASE UNCHANGED <<queue, acc, taken>>
  BY <1>1 DEF InOrder
<1>2. ASSUME NEW t \in Scripts, Push(t) PROVE InOrder'
  <2> DEFINE to == out[t].to
             m == NewMsg(t)
  <2> HIDE DEF to, m
  <2> SUFFICES ASSUME NEW s \in Scripts
               PROVE  /\ Len(acc'[s]) = taken'[s] + Len(queue'[s])
                      /\ \A i \in 1 .. Len(queue'[s]) : queue'[s][i] = acc'[s][taken'[s] + i]
    BY DEF InOrder
  <2>1. Pushes(t, to, m)
    BY <1>2, PushEffect DEF to, m
  <2>2. /\ Len(acc[s]) = taken[s] + Len(queue[s])
        /\ \A i \in 1 .. Len(queue[s]) : queue[s][i] = acc[s][taken[s] + i]
    BY DEF InOrder
  <2>3. taken[s] \in Nat /\ Len(queue[s]) \in Nat /\ Len(acc[s]) \in Nat
    BY LenIsNat
  <2>4. CASE s # to
    BY <2>1, <2>2, <2>4 DEF Pushes
  <2>5. CASE s = to
    <3>1. /\ Len(acc'[s]) = Len(acc[s]) + 1 /\ Len(queue'[s]) = Len(queue[s]) + 1
          /\ \A i \in 1 .. Len(acc[s]) : acc'[s][i] = acc[s][i]
          /\ \A i \in 1 .. Len(queue[s]) : queue'[s][i] = queue[s][i]
          /\ acc'[s][Len(acc[s]) + 1] = m /\ queue'[s][Len(queue[s]) + 1] = m
      BY <2>1, <2>5, PushPlaces
    <3>2. taken' = taken
      BY <2>1 DEF Pushes
    <3>3. Len(acc'[s]) = taken'[s] + Len(queue'[s])
      BY <2>2, <2>3, <3>1, <3>2
    <3>4. ASSUME NEW i \in 1 .. Len(queue'[s]) PROVE queue'[s][i] = acc'[s][taken'[s] + i]
      <4>1. CASE i = Len(queue[s]) + 1
        <5>1. taken[s] + i = Len(acc[s]) + 1
          BY <2>2, <2>3, <4>1
        <5> QED
          BY <3>1, <3>2, <4>1, <5>1
      <4>2. CASE i # Len(queue[s]) + 1
        <5>1. i \in 1 .. Len(queue[s])
          BY <2>3, <3>1, <3>4, <4>2
        <5>2. taken[s] + i \in 1 .. Len(acc[s])
          BY <2>2, <2>3, <5>1
        <5> QED
          BY <2>2, <3>1, <3>2, <5>1, <5>2
      <4> QED
        BY <4>1, <4>2
    <3> QED
      BY <3>3, <3>4
  <2> QED
    BY <2>4, <2>5
<1>3. ASSUME NEW t \in Scripts, Pop(t) PROVE InOrder'
  <2> SUFFICES ASSUME NEW s \in Scripts
               PROVE  /\ Len(acc'[s]) = taken'[s] + Len(queue'[s])
                      /\ \A i \in 1 .. Len(queue'[s]) : queue'[s][i] = acc'[s][taken'[s] + i]
    BY DEF InOrder
  <2>1. /\ Len(acc[s]) = taken[s] + Len(queue[s])
        /\ \A i \in 1 .. Len(queue[s]) : queue[s][i] = acc[s][taken[s] + i]
    BY DEF InOrder
  <2>2. taken[s] \in Nat /\ Len(queue[s]) \in Nat
    BY LenIsNat
  <2>3. CASE s # t
    BY <1>3, <2>1, <2>3, PopEffect
  <2>4. CASE s = t
    <3>1. /\ Len(queue'[s]) = Len(queue[s]) - 1
          /\ \A i \in 1 .. Len(queue'[s]) : queue'[s][i] = queue[s][i + 1]
          /\ acc'[s] = acc[s]
      BY <1>3, <2>4, PopEffect
    <3>2. taken'[s] = taken[s] + 1
      BY <1>3, <2>4, PopEffect
    <3>3. ASSUME NEW i \in 1 .. Len(queue'[s]) PROVE queue'[s][i] = acc'[s][taken'[s] + i]
      <4>1. i \in Nat /\ i + 1 \in 1 .. Len(queue[s])
        BY <2>2, <3>1, <3>3
      <4>2. taken[s] + (i + 1) = taken'[s] + i
        BY <2>2, <3>2, <4>1
      <4>3. queue'[s][i] = queue[s][i + 1]
        BY <3>1, <3>3
      <4>4. queue[s][i + 1] = acc[s][taken[s] + (i + 1)]
        BY <2>1, <4>1
      <4> QED
        BY <3>1, <4>2, <4>3, <4>4
    <3>4. Len(acc'[s]) = taken'[s] + Len(queue'[s])
      <4>1. Len(acc[s]) = taken[s] + Len(queue[s]) /\ acc'[s] = acc[s]
        BY <2>1, <3>1
      <4>2. Len(queue'[s]) = Len(queue[s]) - 1
        BY <3>1
      <4>3. taken[s] + Len(queue[s]) = (taken[s] + 1) + (Len(queue[s]) - 1)
        BY <2>2
      <4> QED
        BY <3>2, <4>1, <4>2, <4>3, Zenon
    <3> QED
      BY <3>3, <3>4
  <2> QED
    BY <2>3, <2>4
<1> QED
  BY <1>1, <1>2, <1>3, QuietOrLoud, OthersKeepQueues DEF Quiet

\* Every script's messages wait in the order in which they were accepted.
LEMMA CurIsTakenStep ==
    ASSUME TypeOK, LockHolders, InOrder, CurIsTaken, [Next]_vars PROVE CurIsTaken'
<1>1. CASE UNCHANGED <<acc, taken, cur>>
  BY <1>1 DEF CurIsTaken
<1>2. ASSUME NEW t \in Scripts, SignalReply(t) PROVE CurIsTaken'
  BY <1>2 DEF SignalReply, CurIsTaken, TypeOK, queueVars
<1>3. ASSUME NEW t \in Scripts, Push(t) PROVE CurIsTaken'
  <2> DEFINE to == out[t].to
             m == NewMsg(t)
  <2> HIDE DEF to, m
  <2> SUFFICES ASSUME NEW s \in Scripts, cur'[s] # None
               PROVE  taken'[s] \in 1 .. Len(acc'[s]) /\ cur'[s] = acc'[s][taken'[s]]
    BY DEF CurIsTaken
  <2>1. Pushes(t, to, m)
    BY <1>3, PushEffect DEF to, m
  <2>2. taken' = taken /\ cur' = cur
    BY <2>1 DEF Pushes
  <2>3. taken[s] \in 1 .. Len(acc[s]) /\ cur[s] = acc[s][taken[s]]
    BY <2>2 DEF CurIsTaken
  <2>4. CASE s = to
    <3>1. /\ Len(acc'[s]) = Len(acc[s]) + 1
          /\ \A i \in 1 .. Len(acc[s]) : acc'[s][i] = acc[s][i]
      BY <2>1, <2>4, PushPlaces
    <3> QED
      BY <2>2, <2>3, <3>1, LenIsNat
  <2>5. CASE s # to
    BY <2>1, <2>2, <2>3, <2>5 DEF Pushes
  <2> QED
    BY <2>4, <2>5
<1>4. ASSUME NEW t \in Scripts, Pop(t) PROVE CurIsTaken'
  <2> SUFFICES ASSUME NEW s \in Scripts, cur'[s] # None
               PROVE  taken'[s] \in 1 .. Len(acc'[s]) /\ cur'[s] = acc'[s][taken'[s]]
    BY DEF CurIsTaken
  <2>1. CASE s = t
    <3>1. /\ Len(acc[s]) = taken[s] + Len(queue[s])
          /\ \A i \in 1 .. Len(queue[s]) : queue[s][i] = acc[s][taken[s] + i]
      BY DEF InOrder
    <3>2. /\ Len(queue[s]) > 0 /\ Len(queue[s]) \in Nat /\ cur'[s] = queue[s][1]
          /\ taken'[s] = taken[s] + 1 /\ taken[s] \in Nat /\ acc' = acc
      BY <1>4, <2>1, PopEffect DEF TypeOK
    <3>3. 1 \in 1 .. Len(queue[s]) /\ taken'[s] \in 1 .. Len(acc[s])
      BY <3>1, <3>2
    <3> QED
      BY <3>1, <3>2, <3>3
  <2>2. CASE s # t
    BY <1>4, <2>2, PopEffect DEF CurIsTaken
  <2> QED
    BY <2>1, <2>2
<1>5. ASSUME NEW t \in Scripts, Loud(t)
      PROVE  SignalReply(t) \/ Push(t) \/ Pop(t) \/ UNCHANGED <<acc, taken, cur>>
  BY <1>5 DEF Loud, Execute, PushDone, ReplyArrives, ReplyTimesOut, MakeCall,
     CallRefused, CallSelf, CallOther, queueVars
<1> QED
  BY <1>1, <1>2, <1>3, <1>4, <1>5, QuietOrLoud DEF Quiet

\* A caller's number moves on when it calls, and only then is a call pushed.
LEMMA PastStays ==
    ASSUME TypeOK, [Next]_vars, NEW c \in CallId, Past(c) PROVE Past(c)'
<1> DEFINE s == c[1]
           n == c[2]
<1>1. s \in Scripts /\ n \in Nat /\ calls[s] \in Nat
  BY DEF CallId, TypeOK
<1>2. Past(c) <=> n <= calls[s] /\ (pc[s] = "push" => n # calls[s])
  BY DEF Past
<1>3. Past(c)' <=> n <= calls'[s] /\ (pc'[s] = "push" => n # calls'[s])
  BY DEF Past
<1> HIDE DEF s, n
<1>4. CASE calls' = calls /\ (pc'[s] = "push" => pc[s] = "push")
  BY <1>2, <1>3, <1>4
<1>5. ASSUME NEW t \in Scripts, MakeCall(t) PROVE Past(c)'
  <2>1. calls' = [calls EXCEPT ![t] = @ + 1]
    BY <1>5 DEF MakeCall, CallRefused, CallSelf, CallOther
  <2>2. \A u \in Scripts \ {t} : pc'[u] = pc[u]
    BY <1>5 DEF MakeCall, CallRefused, CallSelf, CallOther, Goto, TypeOK
  <2>3. CASE s = t
    <3>1. calls'[s] = calls[s] + 1
      BY <2>1, <2>3 DEF TypeOK
    <3> QED
      BY <1>1, <1>2, <1>3, <3>1
  <2>4. CASE s # t
    <3>1. calls'[s] = calls[s] /\ pc'[s] = pc[s]
      BY <1>1, <2>1, <2>2, <2>4 DEF TypeOK
    <3> QED
      BY <1>1, <1>2, <1>3, <3>1
  <2> QED
    BY <2>3, <2>4
<1>6. ASSUME NEW t \in Scripts, Loud(t), ~MakeCall(t)
      PROVE  calls' = calls /\ (pc'[s] = "push" => pc[s] = "push")
  BY <1>1, <1>6 DEF Loud, Pop, Execute, SignalReply, Push, PushDone, ReplyArrives,
     ReplyTimesOut, Goto, TypeOK, callVars
<1>7. CASE Quiet
  BY <1>1, <1>4, <1>7 DEF Quiet, Stages
<1> QED
  BY <1>4, <1>5, <1>6, <1>7, QuietOrLoud

LEMMA PlaceIsMessage ==
    ASSUME TypeOK, NEW t \in Scripts, NEW i \in 1 .. Len(acc[t])
    PROVE  acc[t][i] \in Message /\ Id(acc[t][i]) \in CallId
<1>1. acc[t] \in Seq(Message)
  BY DEF TypeOK
<1>2. acc[t][i] \in Message
  BY <1>1
<1> QED
  BY <1>2, IdIsCallId

\* Once its push is behind it a caller is past its call.
LEMMA NowPast ==
    ASSUME NEW t \in Scripts, calls'[t] \in Nat, pc'[t] # "push"
    PROVE  Past(<<t, calls[t]>>)'
BY DEF Past

\* Nothing has the number of a call that is about to be pushed, or to be made.
LEMMA NotYetPast ==
    ASSUME TypeOK, NEW t \in Scripts
    PROVE  /\ pc[t] = "push" => ~Past(<<t, calls[t]>>)
           /\ ~Past(<<t, calls[t] + 1>>)
<1>1. calls[t] \in Nat
  BY DEF TypeOK
<1> QED
  BY <1>1 DEF Past

\* A place in a mailbox after a push: an old one, or the one of the new message.
LEMMA PushSplit ==
    ASSUME TypeOK, LockHolders, Begun, NEW t \in Scripts, Push(t),
           NEW s \in Scripts, NEW i \in 1 .. Len(acc'[s])
    PROVE  \/ i \in 1 .. Len(acc[s]) /\ acc'[s][i] = acc[s][i]
              /\ Id(acc[s][i]) # <<t, calls[t]>>
           \/ s = out[t].to /\ i = Len(acc[s]) + 1 /\ acc'[s][i] = NewMsg(t)
<1> DEFINE to == out[t].to
           m == NewMsg(t)
<1>1. Pushes(t, to, m)
  BY PushEffect
<1> HIDE DEF to, m
<1>2. ASSUME NEW j \in 1 .. Len(acc[s]) PROVE Id(acc[s][j]) # <<t, calls[t]>>
  <2>1. Past(Id(acc[s][j]))
    BY <1>2 DEF Begun
  <2>2. pc[t] = "push"
    BY <1>1 DEF Pushes
  <2> QED
    BY <2>1, <2>2, NotYetPast
<1>3. CASE s # to
  <2>1. acc'[s] = acc[s]
    BY <1>1, <1>3 DEF Pushes
  <2> QED
    BY <1>2, <2>1
<1>4. CASE s = to
  <2>1. /\ Len(acc[s]) \in Nat /\ Len(acc'[s]) = Len(acc[s]) + 1
        /\ \A j \in 1 .. Len(acc[s]) : acc'[s][j] = acc[s][j]
        /\ acc'[s][Len(acc[s]) + 1] = m
    BY <1>1, <1>4, PushPlaces
  <2>2. i \in 1 .. Len(acc[s]) \/ i = Len(acc[s]) + 1
    BY <2>1
  <2> QED
    BY <1>2, <1>4, <2>1, <2>2 DEF to, m
<1> QED
  BY <1>3, <1>4

\* The id of what a push appends.
LEMMA NewId == ASSUME NEW t \in Scripts PROVE Id(NewMsg(t)) = <<t, calls[t]>>
BY DEF Id, NewMsg

\* A number is used once: nothing is accepted, handled or answered under it
\* before its caller is past it.
LEMMA BegunStep ==
    ASSUME TypeOK, TypeOK', LockHolders, CurIsTaken, Begun, [Next]_vars PROVE Begun'
<1>1. ASSUME NEW c \in CallId, c \in written' \/ res'[c] # "none" PROVE Past(c)'
  <2>1. CASE c \in written \/ res[c] # "none"
    BY <2>1, PastStays DEF Begun
  <2>2. ASSUME NEW t \in Scripts, Execute(t), c \notin written, res[c] = "none" PROVE Past(c)'
    <3>1. cur[t] # None /\ c = Id(cur[t])
      BY <1>1, <2>2 DEF Execute, callVars
    <3>2. taken[t] \in 1 .. Len(acc[t]) /\ cur[t] = acc[t][taken[t]]
      BY <3>1 DEF CurIsTaken
    <3>3. Past(c)
      BY <3>1, <3>2 DEF Begun
    <3> QED
      BY <3>3, PastStays
  <2>3. ASSUME NEW t \in Scripts, PushDone(t) \/ ReplyArrives(t) \/ ReplyTimesOut(t),
               c \notin written, res[c] = "none" PROVE Past(c)'
    <3>1. c = <<t, calls'[t]>> /\ pc'[t] # "push"
      BY <1>1, <2>3 DEF PushDone, ReplyArrives, ReplyTimesOut, Goto, Return, TypeOK, replyVars
    <3>2. calls'[t] \in Nat
      BY DEF TypeOK
    <3> QED
      BY <3>1, <3>2, NowPast
  <2>4. ASSUME NEW t \in Scripts, MakeCall(t), c \notin written, res[c] = "none" PROVE Past(c)'
    <3>1. c = <<t, calls'[t]>> /\ pc'[t] # "push"
      BY <1>1, <2>4 DEF MakeCall, CallRefused, CallSelf, CallOther, Goto, Return, TypeOK,
         replyVars, callVars
    <3>2. calls'[t] \in Nat
      BY DEF TypeOK
    <3> QED
      BY <3>1, <3>2, NowPast
  <2>5. ASSUME NEW t \in Scripts, Pop(t) \/ SignalReply(t) \/ Push(t)
        PROVE  written' = written /\ res' = res
    BY <2>5 DEF Pop, SignalReply, Push, callVars, replyVars
  <2>6. CASE Quiet
    BY <1>1, <2>1, <2>6 DEF Quiet
  <2> QED
    BY <1>1, <2>1, <2>2, <2>3, <2>4, <2>5, <2>6, QuietOrLoud DEF Loud
<1>2. ASSUME NEW s \in Scripts, NEW i \in 1 .. Len(acc'[s]) PROVE Past(Id(acc[s][i]))'
  <2>1. CASE i \in 1 .. Len(acc[s]) /\ acc'[s][i] = acc[s][i]
    <3>1. Id(acc[s][i]) \in CallId /\ Past(Id(acc[s][i]))
      BY <2>1, PlaceIsMessage DEF Begun
    <3>2. \A d \in CallId : Past(d) => Past(d)'
      BY PastStays
    <3>3. Id(acc[s][i])' = Id(acc[s][i])
      BY <2>1 DEF Id
    <3> QED
      BY <3>1, <3>2, <3>3 DEF Past
  <2>2. ASSUME NEW t \in Scripts, Push(t) PROVE Past(Id(acc[s][i]))'
    <3>1. CASE acc'[s][i] = NewMsg(t)
      <4>1. calls' = calls /\ pc' = [pc EXCEPT ![t] = "pushed"]
        BY <2>2, PushEffect DEF Pushes
      <4>2. Id(acc[s][i])' = <<t, calls'[t]>>
        BY <3>1, <4>1, NewId DEF Id
      <4>3. pc'[t] # "push" /\ calls'[t] \in Nat
        BY <4>1 DEF TypeOK
      <4> QED
        BY <4>2, <4>3, NowPast DEF Past
    <3> QED
      BY <1>2, <2>1, <2>2, <3>1, PushSplit
  <2>3. ASSUME NEW t \in Scripts, Loud(t), ~Push(t) PROVE acc' = acc
    BY <2>3 DEF Loud, Pop, Execute, SignalReply, PushDone, ReplyArrives, ReplyTimesOut,
       MakeCall, CallRefused, CallSelf, CallOther, queueVars
  <2> QED
    BY <1>2, <2>1, <2>2, <2>3, QuietOrLoud DEF Quiet
<1> QED
  BY <1>1, <1>2 DEF Begun

LEMMA OncePushedStep ==
    ASSUME TypeOK, LockHolders, Begun, OncePushed, [Next]_vars PROVE OncePushed'
<1>1. CASE acc' = acc
  BY <1>1 DEF OncePushed, Id
<1>2. ASSUME NEW t \in Scripts, Push(t) PROVE OncePushed'
  <2> SUFFICES ASSUME NEW r \in Scripts, NEW s \in Scripts,
                      NEW i \in 1 .. Len(acc'[r]), NEW j \in 1 .. Len(acc'[s]),
                      Id(acc'[r][i]) = Id(acc'[s][j])
               PROVE  r = s /\ i = j
    BY DEF OncePushed, Id
  <2> DEFINE Old(u, k) == /\ k \in 1 .. Len(acc[u]) /\ acc'[u][k] = acc[u][k]
                          /\ Id(acc[u][k]) # <<t, calls[t]>>
             New(u, k) == /\ u = out[t].to /\ k = Len(acc[u]) + 1
                          /\ acc'[u][k] = NewMsg(t)
  <2>1. (Old(r, i) \/ New(r, i)) /\ (Old(s, j) \/ New(s, j))
    BY <1>2, PushSplit
  <2>2. CASE Old(r, i) /\ Old(s, j)
    BY <2>2 DEF OncePushed
  <2>3. CASE New(r, i) /\ New(s, j)
    BY <2>3
  <2>4. CASE Old(r, i) /\ New(s, j)
    BY <2>4, NewId
  <2>5. CASE New(r, i) /\ Old(s, j)
    BY <2>5, NewId
  <2> QED
    BY <2>1, <2>2, <2>3, <2>4, <2>5
<1>3. ASSUME NEW t \in Scripts, Loud(t), ~Push(t) PROVE acc' = acc
  BY <1>3 DEF Loud, Pop, Execute, SignalReply, PushDone, ReplyArrives, ReplyTimesOut,
     MakeCall, CallRefused, CallSelf, CallOther, queueVars
<1> QED
  BY <1>1, <1>2, <1>3, QuietOrLoud DEF Quiet

\* A handler ends after its message is taken, and once.
LEMMA HandledInTurnStep ==
    ASSUME TypeOK, LockHolders, CurIsTaken, Begun, OncePushed, HandledInTurn, [Next]_vars
    PROVE  HandledInTurn'
<1> SUFFICES ASSUME NEW s \in Scripts, NEW i \in 1 .. Len(acc'[s]), Id(acc'[s][i]) \in written'
             PROVE  i <= taken'[s] /\ (i = taken'[s] => cur'[s] = None \/ pc'[s] = "reply")
  BY DEF HandledInTurn, Id
<1>1. ASSUME i \in 1 .. Len(acc[s]), acc'[s][i] = acc[s][i], Id(acc[s][i]) \in written
      PROVE  i <= taken[s] /\ (i = taken[s] => cur[s] = None \/ pc[s] = "reply")
  BY <1>1 DEF HandledInTurn
<1>2. CASE UNCHANGED <<acc, written, taken, cur>> /\ (pc[s] = "reply" => pc'[s] = "reply")
  BY <1>1, <1>2
<1>3. ASSUME NEW t \in Scripts, Push(t)
      PROVE  i <= taken'[s] /\ (i = taken'[s] => cur'[s] = None \/ pc'[s] = "reply")
  <2>1. /\ UNCHANGED <<taken, cur, written>>
        /\ pc[t] = "push" /\ pc' = [pc EXCEPT ![t] = "pushed"]
    BY <1>3, PushEffect DEF Pushes
  <2>2. pc[s] = "reply" => pc'[s] = "reply"
    BY <2>1 DEF TypeOK
  <2>3. CASE acc'[s][i] = NewMsg(t)
    <3>1. <<t, calls[t]>> \in written /\ written \subseteq CallId
      BY <2>1, <2>3, NewId DEF TypeOK
    <3> QED
      BY <2>1, <3>1, NotYetPast DEF Begun
  <2> QED
    BY <1>1, <1>3, <2>1, <2>2, <2>3, PushSplit
<1>4. ASSUME NEW t \in Scripts, Pop(t)
      PROVE  i <= taken'[s] /\ (i = taken'[s] => cur'[s] = None \/ pc'[s] = "reply")
  <2>1. acc' = acc /\ written' = written
    BY <1>4, PopEffect
  <2>2. CASE s = t
    <3>1. taken'[s] = taken[s] + 1
      BY <1>4, <2>2, PopEffect
    <3>2. taken[s] \in Nat /\ i <= taken[s] /\ i \in Nat
      BY <1>1, <2>1, LenIsNat
    <3> QED
      BY <3>1, <3>2
  <2>3. CASE s # t
    BY <1>1, <1>4, <2>1, <2>3, PopEffect
  <2> QED
    BY <2>2, <2>3
<1>5. ASSUME NEW t \in Scripts, Execute(t)
      PROVE  i <= taken'[s] /\ (i = taken'[s] => cur'[s] = None \/ pc'[s] = "reply")
  <2>1. /\ UNCHANGED <<acc, taken, cur>> /\ cur[t] # None
        /\ pc[t] = "run" /\ pc' = [pc EXCEPT ![t] = "reply"]
        /\ written' = written \cup {Id(cur[t])}
    BY <1>5 DEF Execute, Goto, queueVars
  <2>2. CASE Id(acc[s][i]) \in written
    <3>1. pc[s] = "reply" => pc'[s] = "reply"
      BY <2>1 DEF TypeOK
    <3> QED
      BY <1>1, <2>1, <2>2, <3>1
  <2>3. CASE Id(acc[s][i]) = Id(cur[t])
    <3>1. taken[t] \in 1 .. Len(acc[t]) /\ cur[t] = acc[t][taken[t]]
      BY <2>1 DEF CurIsTaken
    <3>2. s = t /\ i = taken[t]
      BY <2>1, <2>3, <3>1 DEF OncePushed
    <3> QED
      BY <2>1, <3>1, <3>2 DEF TypeOK
  <2> QED
    BY <2>1, <2>2, <2>3
<1>6. ASSUME NEW t \in Scripts, SignalReply(t)
      PROVE  i <= taken'[s] /\ (i = taken'[s] => cur'[s] = None \/ pc'[s] = "reply")
  <2>1. /\ UNCHANGED <<acc, taken, written>> /\ cur' = [cur EXCEPT ![t] = None]
        /\ \A u \in Scripts \ {t} : pc'[u] = pc[u]
    BY <1>6 DEF SignalReply, Goto, queueVars, TypeOK
  <2> QED
    BY <1>1, <2>1 DEF TypeOK
<1>7. ASSUME NEW t \in Scripts, MakeCall(t)
      PROVE  i <= taken'[s] /\ (i = taken'[s] => cur'[s] = None \/ pc'[s] = "reply")
  <2>1. /\ UNCHANGED <<acc, taken, cur>> /\ pc[t] = "run"
        /\ \A u \in Scripts \ {t} : pc'[u] = pc[u]
        /\ written' \in {written, written \cup {<<t, calls[t] + 1>>}}
    BY <1>7 DEF MakeCall, CallRefused, CallSelf, CallOther, Goto, queueVars, replyVars, TypeOK
  <2>2. Id(acc[s][i]) # <<t, calls[t] + 1>>
    BY <2>1, NotYetPast DEF Begun
  <2>3. Id(acc[s][i]) \in written
    BY <2>1, <2>2
  <2> QED
    BY <1>1, <2>1, <2>3
<1>8. ASSUME NEW t \in Scripts, PushDone(t) \/ ReplyArrives(t) \/ ReplyTimesOut(t)
      PROVE  UNCHANGED <<acc, written, taken, cur>> /\ (pc[s] = "reply" => pc'[s] = "reply")
  BY <1>8 DEF PushDone, ReplyArrives, ReplyTimesOut, Goto, queueVars, replyVars, TypeOK
<1>9. CASE Quiet
  BY <1>1, <1>9 DEF Quiet, Stages
<1> QED
  BY <1>2, <1>3, <1>4, <1>5, <1>6, <1>7, <1>8, <1>9, QuietOrLoud DEF Loud

LEMMA InFlightIsCall ==
    ASSUME TypeOK, LockHolders, NEW t \in Scripts, pc[t] \in {"push", "pushed", "await"}
    PROVE  <<t, calls[t]>> \in CallId
<1>1. calls[t] \in Nat /\ calls[t] > 0 /\ calls[t] <= MaxCalls[t]
  BY DEF TypeOK, LockHolders, Holds
<1>2. calls[t] \in 1 .. MaxCalls[t]
  BY <1>1
<1> QED
  BY <1>2 DEF CallId

\* The caller of a call in progress finds it where it has put it.
LEMMA InFlightStep ==
    ASSUME TypeOK, LockHolders, Begun, InFlight, [Next]_vars PROVE InFlight'
<1> SUFFICES ASSUME NEW u \in Scripts, pc'[u] \in {"pushed", "await"}
             PROVE  /\ \E i \in 1 .. Len(acc'[out'[u].to]) : acc'[out'[u].to][i] = NewMsg(u)'
                    /\ res'[<<u, calls'[u]>>] = "none"
                    /\ pc'[u] = "await" => out'[u].reply
  BY DEF InFlight, NewMsg
<1> DEFINE Flies ==
             /\ \E i \in 1 .. Len(acc'[out'[u].to]) : acc'[out'[u].to][i] = NewMsg(u)'
             /\ res'[<<u, calls'[u]>>] = "none"
             /\ pc'[u] = "await" => out'[u].reply
<1>1. CASE /\ pc[u] \in {"pushed", "await"} /\ acc' = acc
           /\ out'[u] = out[u] /\ calls'[u] = calls[u]
           /\ res'[<<u, calls[u]>>] = res[<<u, calls[u]>>]
           /\ pc'[u] = "await" => pc[u] = "await" \/ out[u].reply
  BY <1>1 DEF InFlight, NewMsg
<1>2. ASSUME NEW t \in Scripts, Push(t) PROVE Flies
  <2> DEFINE to == out[t].to
  <2>1. Pushes(t, to, NewMsg(t))
    BY <1>2, PushEffect
  <2>2. /\ out' = out /\ calls' = calls /\ res' = res
        /\ pc[t] = "push" /\ pc' = [pc EXCEPT ![t] = "pushed"]
    BY <2>1 DEF Pushes
  <2>3. NewMsg(u)' = NewMsg(u)
    BY <2>2 DEF NewMsg
  <2>4. CASE u = t
    <3>1. \E i \in 1 .. Len(acc'[to]) : acc'[to][i] = NewMsg(t)
      <4>1. /\ Len(acc[to]) \in Nat /\ Len(acc'[to]) = Len(acc[to]) + 1
            /\ acc'[to][Len(acc[to]) + 1] = NewMsg(t)
        BY <2>1, PushPlaces
      <4>2. Len(acc[to]) + 1 \in 1 .. Len(acc'[to])
        BY <4>1
      <4> QED
        BY <4>1, <4>2
    <3>2. <<t, calls[t]>> \in CallId
      <4>1. NewMsg(t) \in Message
        BY <2>1 DEF Pushes
      <4> QED
        BY <4>1, IdIsCallId, NewId
    <3>3. res[<<t, calls[t]>>] = "none"
      BY <2>2, <3>2, NotYetPast DEF Begun
    <3>4. pc'[t] = "pushed"
      BY <2>2 DEF TypeOK
    <3> QED
      BY <2>2, <2>3, <2>4, <3>1, <3>3, <3>4
  <2>5. CASE u # t
    <3>1. pc'[u] = pc[u]
      BY <2>2, <2>5
    <3>2. /\ \E i \in 1 .. Len(acc[out[u].to]) : acc[out[u].to][i] = NewMsg(u)
          /\ res[<<u, calls[u]>>] = "none"
          /\ pc[u] = "await" => out[u].reply
      BY <3>1 DEF InFlight
    <3>3. \E i \in 1 .. Len(acc'[out[u].to]) : acc'[out[u].to][i] = NewMsg(u)
      <4>1. CASE out[u].to = to
        <5>1. /\ Len(acc[to]) \in Nat /\ Len(acc'[to]) = Len(acc[to]) + 1
              /\ \A i \in 1 .. Len(acc[to]) : acc'[to][i] = acc[to][i]
          BY <2>1, PushPlaces
        <5>2. \A i \in 1 .. Len(acc[to]) : i \in 1 .. Len(acc'[to])
          BY <5>1
        <5> QED
          BY <3>2, <4>1, <5>1, <5>2
      <4>2. CASE out[u].to # to
        <5>1. out[u].to \in Scripts
          BY <3>1 DEF TypeOK, LockHolders, Holds, Call
        <5> QED
          BY <2>1, <3>2, <4>2, <5>1 DEF Pushes
      <4> QED
        BY <4>1, <4>2
    <3> QED
      BY <2>2, <2>3, <3>1, <3>2, <3>3
  <2> QED
    BY <2>4, <2>5
<1>3. ASSUME NEW t \in Scripts, Pop(t) \/ Execute(t) \/ SignalReply(t)
      PROVE  Flies
  <2>1. /\ acc' = acc /\ out' = out /\ calls' = calls /\ res' = res
        /\ pc'[u] = pc[u]
    BY <1>3 DEF Pop, Execute, SignalReply, Goto, queueVars, callVars, TypeOK
  <2> QED
    BY <1>1, <2>1
<1>4. ASSUME NEW t \in Scripts, PushDone(t) \/ ReplyArrives(t) \/ ReplyTimesOut(t)
      PROVE  Flies
  <2>1. acc' = acc /\ calls' = calls
    BY <1>4 DEF PushDone, ReplyArrives, ReplyTimesOut, queueVars
  <2>2. CASE u = t
    <3>1. PushDone(t) /\ out[t].reply
      BY <1>4, <2>2 DEF PushDone, ReplyArrives, ReplyTimesOut, Goto, TypeOK
    <3>2. pc[t] = "pushed" /\ out' = out /\ res' = res
      BY <3>1 DEF PushDone
    <3> QED
      BY <1>1, <2>1, <2>2, <3>1, <3>2
  <2>3. CASE u # t
    <3>1. /\ pc'[u] = pc[u] /\ out'[u] = out[u]
      BY <1>4, <2>3 DEF PushDone, ReplyArrives, ReplyTimesOut, Goto, TypeOK
    <3>2. res'[<<u, calls[u]>>] = res[<<u, calls[u]>>]
      <4>1. <<u, calls[u]>> \in CallId
        BY <3>1, InFlightIsCall
      <4>2. <<u, calls[u]>> # <<t, calls[t]>>
        BY <2>3
      <4> QED
        BY <1>4, <4>1, <4>2 DEF PushDone, ReplyArrives, ReplyTimesOut, Return, TypeOK
    <3> QED
      BY <1>1, <2>1, <3>1, <3>2
  <2> QED
    BY <2>2, <2>3
<1>5. ASSUME NEW t \in Scripts, MakeCall(t) PROVE Flies
  <2>1. acc' = acc
    BY <1>5 DEF MakeCall, CallRefused, CallSelf, CallOther, queueVars
  <2>2. u # t
    BY <1>5 DEF MakeCall, CallRefused, CallSelf, CallOther, Goto, TypeOK
  <2>3. pc'[u] = pc[u] /\ out'[u] = out[u] /\ calls'[u] = calls[u]
    BY <1>5, <2>2 DEF MakeCall, CallRefused, CallSelf, CallOther, Goto, TypeOK
  <2>4. res'[<<u, calls[u]>>] = res[<<u, calls[u]>>]
    <3>1. <<u, calls[u]>> \in CallId
      BY <2>3, InFlightIsCall
    <3>2. <<u, calls[u]>> # <<t, calls[t] + 1>>
      BY <2>2
    <3> QED
      BY <1>5, <3>1, <3>2 DEF MakeCall, CallRefused, CallSelf, CallOther, Return, TypeOK
  <2> QED
    BY <1>1, <2>1, <2>3, <2>4
<1>6. ASSUME Quiet PROVE Flies
  BY <1>1, <1>6 DEF Quiet, Stages
<1> HIDE DEF Flies
<1>7. ASSUME NEW t \in Scripts, Loud(t) PROVE Flies
  BY <1>2, <1>3, <1>4, <1>5, <1>7 DEF Loud
<1>8. Flies
  BY <1>6, <1>7, QuietOrLoud
<1> QED
  BY <1>8 DEF Flies

\* What the steps that end or refuse a call tell its caller.
LEMMA Tells ==
    ASSUME TypeOK, NEW t \in Scripts, Loud(t), NEW c \in CallId, res'[c] # res[c]
    PROVE  \/ /\ PushDone(t) /\ c = <<t, calls[t]>> /\ ~out[t].reply /\ res'[c] = "sent"
              /\ pc[t] = "pushed"
           \/ /\ ReplyArrives(t) /\ c = <<t, calls[t]>> /\ c \in evReply /\ res'[c] = "ok"
              /\ pc[t] = "await"
           \/ /\ ReplyTimesOut(t) /\ c = <<t, calls[t]>> /\ res'[c] = "timeout"
              /\ pc[t] = "await"
           \/ MakeCall(t) /\ c = <<t, calls[t] + 1>>
<1>1. CASE MakeCall(t)
  BY <1>1 DEF MakeCall, CallRefused, CallSelf, CallOther, Return, TypeOK
<1>2. CASE PushDone(t)
  <2>1. ~out[t].reply /\ res' = [res EXCEPT ![<<t, calls[t]>>] = "sent"] /\ pc[t] = "pushed"
    BY <1>2 DEF PushDone, Return
  <2> QED
    BY <1>2, <2>1 DEF TypeOK
<1>3. CASE ReplyArrives(t)
  <2>1. /\ res' = [res EXCEPT ![<<t, calls[t]>>] = "ok"] /\ pc[t] = "await"
        /\ <<t, calls[t]>> \in evReply
    BY <1>3 DEF ReplyArrives, Return, Goto
  <2> QED
    BY <1>3, <2>1 DEF TypeOK
<1>4. CASE ReplyTimesOut(t)
  <2>1. res' = [res EXCEPT ![<<t, calls[t]>>] = "timeout"] /\ pc[t] = "await"
    BY <1>4 DEF ReplyTimesOut, Return, Goto
  <2> QED
    BY <1>4, <2>1 DEF TypeOK
<1> QED
  BY <1>1, <1>2, <1>3, <1>4 DEF Loud, Pop, Execute, SignalReply, Push, callVars

\* A call that wants a reply is answered or runs out of time; it is not dropped.
LEMMA WantsAnAnswerStep ==
    ASSUME TypeOK, LockHolders, Begun, OncePushed, InFlight, WantsAnAnswer, [Next]_vars
    PROVE  WantsAnAnswer'
<1> SUFFICES ASSUME NEW s \in Scripts, NEW i \in 1 .. Len(acc'[s]), acc'[s][i].reply
             PROVE  res'[Id(acc'[s][i])] \notin {"sent", "refused"}
  BY DEF WantsAnAnswer, Id
<1>1. ASSUME i \in 1 .. Len(acc[s]), acc'[s][i] = acc[s][i],
             res'[Id(acc[s][i])] = res[Id(acc[s][i])]
      PROVE  res'[Id(acc'[s][i])] \notin {"sent", "refused"}
  BY <1>1 DEF WantsAnAnswer
<1>2. ASSUME NEW t \in Scripts, Push(t)
      PROVE  res'[Id(acc'[s][i])] \notin {"sent", "refused"}
  <2>1. res' = res /\ pc[t] = "push" /\ NewMsg(t) \in Message
    BY <1>2, PushEffect DEF Pushes
  <2>2. CASE acc'[s][i] = NewMsg(t)
    <3>1. Id(acc'[s][i]) = <<t, calls[t]>> /\ <<t, calls[t]>> \in CallId
      BY <2>1, <2>2, NewId, IdIsCallId
    <3>2. res[<<t, calls[t]>>] = "none"
      BY <2>1, <3>1, NotYetPast DEF Begun
    <3> QED
      BY <2>1, <3>1, <3>2
  <2> QED
    BY <1>1, <1>2, <2>1, <2>2, PushSplit
<1>3. ASSUME NEW t \in Scripts, Loud(t), ~Push(t)
      PROVE  res'[Id(acc'[s][i])] \notin {"sent", "refused"}
  <2>1. acc' = acc
    BY <1>3 DEF Loud, Pop, Execute, SignalReply, PushDone, ReplyArrives, ReplyTimesOut,
       MakeCall, CallRefused, CallSelf, CallOther, queueVars
  <2> DEFINE c == Id(acc[s][i])
  <2>2. c \in CallId /\ Past(c)
    BY <2>1, PlaceIsMessage DEF Begun
  <2>3. CASE res'[c] = res[c]
    BY <1>1, <2>1, <2>3
  <2>4. CASE res'[c] # res[c]
    <3>1. c # <<t, calls[t] + 1>>
      BY <2>2, NotYetPast
    <3>2. ~(c = <<t, calls[t]>> /\ ~out[t].reply /\ pc[t] = "pushed")
      <4> SUFFICES ASSUME c = <<t, calls[t]>>, ~out[t].reply, pc[t] = "pushed" PROVE FALSE
        OBVIOUS
      <4>1. PICK j \in 1 .. Len(acc[out[t].to]) : acc[out[t].to][j] = NewMsg(t)
        BY DEF InFlight
      <4>2. out[t].to \in Scripts
        BY DEF TypeOK, LockHolders, Holds, Call
      <4>3. Id(acc[s][i]) = Id(acc[out[t].to][j])
        BY <4>1, NewId
      <4>4. acc[s][i] = NewMsg(t)
        BY <2>1, <4>1, <4>2, <4>3 DEF OncePushed
      <4> QED
        BY <2>1, <4>4 DEF NewMsg
    <3>3. res'[c] \in {"ok", "timeout"}
      BY <1>3, <2>2, <2>4, <3>1, <3>2, Tells
    <3> QED
      BY <2>1, <3>3
  <2> QED
    BY <2>3, <2>4
<1>4. CASE Quiet
  BY <1>1, <1>4 DEF Quiet
<1> QED
  BY <1>2, <1>3, <1>4, QuietOrLoud

\* Who comes late comes after a timeout: what is handled for the first time has
\* not been answered otherwise, and an answer is final.
LEMMA LateStep ==
    ASSUME TypeOK, OkMeansHandled, CurIsTaken, Begun, HandledInTurn, InFlight,
           WantsAnAnswer, LateOnlyAfterTimeout, [Next]_vars
    PROVE  LateOnlyAfterTimeout'
<1> SUFFICES ASSUME NEW c \in late' PROVE res'[c] = "timeout"
  BY DEF LateOnlyAfterTimeout
<1>1. ASSUME c \in late, res'[c] # res[c] PROVE FALSE
  <2>1. c \in CallId /\ res[c] = "timeout"
    BY <1>1 DEF TypeOK, LateOnlyAfterTimeout
  <2>2. Past(c)
    BY <2>1 DEF Begun
  <2>3. PICK t \in Scripts : Loud(t)
    BY <1>1, QuietOrLoud DEF Quiet
  <2>4. c # <<t, calls[t] + 1>>
    BY <2>2, NotYetPast
  <2>5. c = <<t, calls[t]>> /\ pc[t] \in {"pushed", "await"}
    BY <1>1, <2>1, <2>3, <2>4, Tells
  <2> QED
    BY <2>1, <2>5 DEF InFlight
<1>2. ASSUME NEW t \in Scripts, Execute(t), c \notin late PROVE res'[c] = "timeout"
  <2>1. /\ cur[t] # None /\ pc[t] = "run" /\ res' = res
        /\ c = Id(cur[t]) /\ cur[t].reply /\ res[c] # "none"
    BY <1>2 DEF Execute, Goto, callVars
  <2>2. taken[t] \in 1 .. Len(acc[t]) /\ cur[t] = acc[t][taken[t]]
    BY <2>1 DEF CurIsTaken
  <2>3. c \in CallId
    BY <2>1, <2>2, PlaceIsMessage
  <2>4. c \notin written
    BY <2>1, <2>2 DEF HandledInTurn
  <2>5. res[c] \notin {"sent", "refused"}
    BY <2>1, <2>2 DEF WantsAnAnswer
  <2>6. res[c] # "ok"
    BY <2>3, <2>4 DEF OkMeansHandled
  <2>7. res[c] \in Results
    BY <2>3 DEF TypeOK
  <2> QED
    BY <2>1, <2>5, <2>6, <2>7 DEF Results
<1>3. ASSUME NEW t \in Scripts, Loud(t), ~Execute(t) PROVE late' = late
  BY <1>3 DEF Loud, Pop, SignalReply, Push, PushDone, ReplyArrives, ReplyTimesOut,
     MakeCall, CallRefused, CallSelf, CallOther, replyVars
<1>4. CASE c \in late
  BY <1>1, <1>4 DEF LateOnlyAfterTimeout
<1> QED
  BY <1>2, <1>3, <1>4, QuietOrLoud DEF Quiet

LEMMA StepMailboxes == IInv /\ Mailboxes /\ [Next]_vars => Mailboxes'
<1> SUFFICES ASSUME IInv, Mailboxes, [Next]_vars PROVE Mailboxes'
  OBVIOUS
<1>1. TypeOK /\ LockHolders /\ OkMeansHandled /\ TypeOK'
  BY TypeStep DEF IInv
<1> QED
  BY <1>1, InOrderStep, CurIsTakenStep, BegunStep, OncePushedStep, HandledInTurnStep,
     InFlightStep, WantsAnAnswerStep, LateStep DEF Mailboxes

LEMMA SpecMailboxes == Spec => [](IInv /\ Mailboxes)
<1>1. Init => IInv /\ Mailboxes
  BY InitIInv, InitMailboxes
<1>2. IInv /\ Mailboxes /\ [Next]_vars => (IInv /\ Mailboxes)'
  BY StepIInv, StepMailboxes
<1> QED
  BY <1>1, <1>2, PTL DEF Spec

\* No message is lost, repeated or overtaken between a script's queue and its
\* thread, however the calls to it interleave.
THEOREM QueuesKeepOrder == Spec => []InOrder
<1>1. Mailboxes => InOrder
  BY DEF Mailboxes
<1> QED
  BY SpecMailboxes, <1>1, PTL

\* A reply that is written when its caller has returned finds a caller that gave
\* up waiting: none that was refused, sent or answered.
THEOREM LateRepliesTimedOut == Spec => []LateOnlyAfterTimeout
<1>1. Mailboxes => LateOnlyAfterTimeout
  BY DEF Mailboxes
<1> QED
  BY SpecMailboxes, <1>1, PTL

-----------------------------------------------------------------------------
(* The queues implement the mailboxes of MsgBus.                            *)

\* The mailboxes as MsgBus sees them.
BusAcc == [t \in Scripts |-> [i \in DOMAIN acc[t] |-> Id(acc[t][i])]]

LEMMA InitBus == Init => Bus!Init
<1> SUFFICES ASSUME Init PROVE Bus!Init
  OBVIOUS
<1>1. [t \in Scripts |-> [i \in DOMAIN acc[t] |-> Id(acc[t][i])]] = [t \in Scripts |-> <<>>]
  <2>1. \A t \in Scripts : acc[t] = <<>>
    BY DEF Init
  <2>2. \A f : [i \in DOMAIN <<>> |-> f[i]] = <<>>
    OBVIOUS
  <2> QED
    BY <2>1
<1> QED
  BY <1>1 DEF Init, Bus!Init

LEMMA BusPlaces ==
    ASSUME TypeOK, NEW t \in Scripts
    PROVE  /\ BusAcc[t] = [i \in 1 .. Len(acc[t]) |-> Id(acc[t][i])]
           /\ Len(BusAcc[t]) = Len(acc[t])
           /\ \A i \in 1 .. Len(acc[t]) : BusAcc[t][i] = Id(acc[t][i])
<1>1. acc[t] \in Seq(Message)
  BY DEF TypeOK
<1>2. BusAcc[t] = [i \in 1 .. Len(acc[t]) |-> Id(acc[t][i])]
  BY <1>1 DEF BusAcc
<1> QED
  BY <1>1, <1>2

LEMMA BusAccepted ==
    ASSUME TypeOK, NEW c
    PROVE  c \in Bus!Accepted <=> \E t \in Scripts : \E i \in 1 .. Len(acc[t]) : c = Id(acc[t][i])
<1>1. c \in Bus!Accepted <=> \E t \in Scripts : c \in {BusAcc[t][i] : i \in 1 .. Len(BusAcc[t])}
  BY DEF Bus!Accepted, BusAcc
<1>2. ASSUME NEW t \in Scripts
      PROVE  c \in {BusAcc[t][i] : i \in 1 .. Len(BusAcc[t])}
                 <=> \E i \in 1 .. Len(acc[t]) : c = Id(acc[t][i])
  <2>1. /\ Len(BusAcc[t]) = Len(acc[t])
        /\ \A i \in 1 .. Len(acc[t]) : BusAcc[t][i] = Id(acc[t][i])
    BY BusPlaces
  <2> QED
    BY <2>1
<1> QED
  BY <1>1, <1>2

\* A call its caller is not past is new to the mailboxes.
LEMMA NotPastIsNew ==
    ASSUME TypeOK, Begun, NEW c \in CallId, ~Past(c)
    PROVE  c \notin Bus!Accepted /\ c \notin written /\ res[c] = "none"
BY BusAccepted DEF Begun

LEMMA AppendAsFunction ==
    ASSUME NEW S, NEW q \in Seq(S), NEW e \in S
    PROVE  Append(q, e) = [i \in 1 .. Len(q) + 1 |-> IF i = Len(q) + 1 THEN e ELSE q[i]]
<1> DEFINE a == Append(q, e)
           n == Len(q) + 1
<1>1. a \in Seq(S) /\ Len(a) = n /\ Len(q) \in Nat
  OBVIOUS
<1>2. /\ a[n] = e
      /\ \A i \in 1 .. Len(q) : a[i] = q[i]
  OBVIOUS
<1> HIDE DEF a
<1>3. a = [i \in 1 .. n |-> a[i]]
  BY <1>1
<1>4. \A i \in 1 .. n : a[i] = IF i = n THEN e ELSE q[i]
  BY <1>1, <1>2
<1> QED
  BY <1>3, <1>4 DEF a

LEMMA PushAccepts ==
    ASSUME TypeOK, LockHolders, Begun, NEW t \in Scripts, Push(t)
    PROVE  \E to \in Scripts, c \in CallId : Bus!Accept(to, c)
<1> DEFINE m == NewMsg(t)
<1>1. PICK to : to = out[t].to
  OBVIOUS
<1>2. Pushes(t, to, m)
  BY <1>1, PushEffect
<1>3. to \in Scripts /\ m \in Message /\ pc[t] = "push"
  BY <1>2 DEF Pushes
<1>4. PICK c \in CallId : c = <<t, calls[t]>> /\ Id(m) = c
  BY <1>3, IdIsCallId, NewId
<1>5. c \notin Bus!Accepted /\ c \notin written /\ res[c] = "none"
  BY <1>3, <1>4, NotYetPast, NotPastIsNew
<1> HIDE DEF m
<1>6. BusAcc' = [BusAcc EXCEPT ![to] = Append(@, c)]
  <2>1. BusAcc' = [s \in Scripts |-> [i \in DOMAIN acc'[s] |-> Id(acc'[s][i])]]
    BY DEF BusAcc, Id
  <2>2. ASSUME NEW s \in Scripts, s # to
        PROVE  [i \in DOMAIN acc'[s] |-> Id(acc'[s][i])] = BusAcc[s]
    BY <1>2, <2>2 DEF Pushes, BusAcc
  <2>3. [i \in DOMAIN acc'[to] |-> Id(acc'[to][i])] = Append(BusAcc[to], c)
    <3>1. /\ Len(acc[to]) \in Nat /\ Len(acc'[to]) = Len(acc[to]) + 1
          /\ \A i \in 1 .. Len(acc[to]) : acc'[to][i] = acc[to][i]
          /\ acc'[to][Len(acc[to]) + 1] = m
      BY <1>2, PushPlaces
    <3>2. DOMAIN acc'[to] = 1 .. Len(acc[to]) + 1
      BY <1>2, <3>1 DEF Pushes
    <3>3. BusAcc[to] \in Seq(CallId)
      <4>1. \A i \in 1 .. Len(acc[to]) : Id(acc[to][i]) \in CallId
        BY <1>3, PlaceIsMessage
      <4>2. BusAcc[to] = [i \in 1 .. Len(acc[to]) |-> Id(acc[to][i])]
        BY <1>3, BusPlaces
      <4>3. BusAcc[to] \in [1 .. Len(acc[to]) -> CallId]
        BY <4>1, <4>2
      <4> QED
        BY <3>1, <4>3
    <3>4. Append(BusAcc[to], c) =
            [i \in 1 .. Len(acc[to]) + 1 |-> IF i = Len(acc[to]) + 1 THEN c ELSE BusAcc[to][i]]
      <4>1. Len(BusAcc[to]) = Len(acc[to])
        BY <1>3, BusPlaces
      <4> QED
        BY <1>4, <3>3, <4>1, AppendAsFunction
    <3>5. ASSUME NEW i \in 1 .. Len(acc[to]) + 1
          PROVE  Id(acc'[to][i]) = IF i = Len(acc[to]) + 1 THEN c ELSE BusAcc[to][i]
      <4>1. CASE i = Len(acc[to]) + 1
        BY <1>4, <3>1, <4>1
      <4>2. CASE i # Len(acc[to]) + 1
        <5>1. i \in 1 .. Len(acc[to])
          BY <3>1, <4>2
        <5> QED
          BY <1>3, <3>1, <4>2, <5>1, BusPlaces
      <4> QED
        BY <4>1, <4>2
    <3> QED
      BY <3>2, <3>4, <3>5
  <2> QED
    BY <1>3, <2>1, <2>2, <2>3 DEF BusAcc
<1>7. taken' = taken /\ written' = written /\ res' = res
  BY <1>2 DEF Pushes
<1>8. Bus!Accept(to, c)
  BY <1>5, <1>6, <1>7 DEF Bus!Accept, BusAcc
<1> QED
  BY <1>3, <1>8

LEMMA PopTakes ==
    ASSUME TypeOK, InOrder, NEW t \in Scripts, Pop(t) PROVE Bus!Take(t)
<1>1. /\ UNCHANGED <<acc, written, res>> /\ taken' = [taken EXCEPT ![t] = taken[t] + 1]
      /\ queue[t] # <<>> /\ queue[t] \in Seq(Message)
  BY DEF Pop, callVars, replyVars, TypeOK
<1>2. Len(queue[t]) > 0 /\ taken[t] \in Nat /\ Len(acc[t]) = taken[t] + Len(queue[t])
  BY <1>1 DEF InOrder, TypeOK
<1>3. taken[t] < Len(BusAcc[t])
  <2>1. Len(BusAcc[t]) = Len(acc[t])
    BY BusPlaces
  <2>2. Len(queue[t]) \in Nat
    BY <1>1
  <2> QED
    BY <1>2, <2>1, <2>2
<1>4. BusAcc' = BusAcc
  BY <1>1 DEF BusAcc, Id
<1> QED
  BY <1>1, <1>3, <1>4 DEF Bus!Take, BusAcc

LEMMA ExecuteHandles ==
    ASSUME TypeOK, CurIsTaken, HandledInTurn, NEW t \in Scripts, Execute(t)
    PROVE  Bus!Handle(t)
<1>1. /\ cur[t] # None /\ pc[t] = "run" /\ UNCHANGED <<acc, taken, res>>
      /\ written' = written \cup {Id(cur[t])}
  BY DEF Execute, Goto, queueVars, callVars
<1>2. taken[t] \in 1 .. Len(acc[t]) /\ cur[t] = acc[t][taken[t]]
  BY <1>1 DEF CurIsTaken
<1>3. Id(cur[t]) \notin written
  BY <1>1, <1>2 DEF HandledInTurn
<1>4. BusAcc[t][taken[t]] = Id(cur[t]) /\ taken[t] > 0
  <2>1. \A i \in 1 .. Len(acc[t]) : BusAcc[t][i] = Id(acc[t][i])
    BY BusPlaces
  <2>2. taken[t] > 0
    BY <1>2, LenIsNat
  <2> QED
    BY <1>2, <2>1, <2>2
<1>5. BusAcc' = BusAcc
  BY <1>1 DEF BusAcc, Id
<1> QED
  BY <1>1, <1>3, <1>4, <1>5 DEF Bus!Handle, BusAcc

LEMMA EndTells ==
    ASSUME TypeOK, LockHolders, SignalledHandled, InFlight, NEW t \in Scripts,
           PushDone(t) \/ ReplyArrives(t) \/ ReplyTimesOut(t)
    PROVE  Bus!Tell(<<t, calls[t]>>) \/ UNCHANGED <<acc, taken, written, res>>
<1> DEFINE c == <<t, calls[t]>>
<1>1. UNCHANGED <<acc, taken, written>> /\ pc[t] \in {"pushed", "await"}
  BY DEF PushDone, ReplyArrives, ReplyTimesOut, Goto, queueVars, replyVars
<1>2. c \in Bus!Accepted /\ res[c] = "none"
  <2>1. PICK i \in 1 .. Len(acc[out[t].to]) : acc[out[t].to][i] = NewMsg(t)
    BY <1>1 DEF InFlight
  <2>2. out[t].to \in Scripts
    BY <1>1 DEF TypeOK, LockHolders, Holds, Call
  <2>3. c \in Bus!Accepted
    BY <2>1, <2>2, NewId, BusAccepted
  <2> QED
    BY <1>1, <2>3 DEF InFlight
<1>3. BusAcc' = BusAcc
  BY <1>1 DEF BusAcc, Id
<1>4. ASSUME NEW r, r \in {"sent", "timeout"} \cup (IF c \in written THEN {"ok"} ELSE {}),
             res' = [res EXCEPT ![c] = r]
      PROVE  Bus!Tell(c)
  BY <1>1, <1>2, <1>3, <1>4 DEF Bus!Tell, BusAcc
<1>5. CASE PushDone(t)
  BY <1>1, <1>4, <1>5 DEF PushDone, Return
<1>6. CASE ReplyArrives(t)
  <2>1. c \in written /\ res' = [res EXCEPT ![c] = "ok"]
    BY <1>6 DEF ReplyArrives, Return, SignalledHandled
  <2> QED
    BY <1>4, <2>1
<1>7. CASE ReplyTimesOut(t)
  BY <1>4, <1>7 DEF ReplyTimesOut, Return
<1> QED
  BY <1>5, <1>6, <1>7

LEMMA CallMapsToBus ==
    ASSUME TypeOK, Begun, NEW t \in Scripts, MakeCall(t)
    PROVE  \/ \E c \in CallId : Bus!Refuse(c) \/ Bus!Direct(c)
           \/ UNCHANGED <<acc, taken, written, res>>
<1> DEFINE c == <<t, calls[t] + 1>>
<1>1. UNCHANGED <<acc, taken>> /\ calls[t] < MaxCalls[t] /\ calls[t] \in Nat
  BY DEF MakeCall, CallRefused, CallSelf, CallOther, queueVars, TypeOK
<1>2. c \in CallId
  <2>1. calls[t] + 1 \in 1 .. MaxCalls[t]
    BY <1>1, MaxCallsAreNat
  <2> QED
    BY <2>1 DEF CallId
<1>3. c \notin Bus!Accepted /\ c \notin written /\ res[c] = "none"
  BY <1>2, NotYetPast, NotPastIsNew
<1>4. BusAcc' = BusAcc
  BY <1>1 DEF BusAcc, Id
<1>5. ASSUME NEW to \in Scripts, CallRefused(t, to) PROVE Bus!Refuse(c)
  <2>1. res' = [res EXCEPT ![c] = "refused"] /\ written' = written
    BY <1>5 DEF CallRefused, Return, replyVars
  <2> QED
    BY <1>1, <1>3, <1>4, <2>1 DEF Bus!Refuse, BusAcc
<1>6. ASSUME NEW kind \in Kinds, NEW reply \in BOOLEAN, CallSelf(t, kind, reply)
      PROVE  Bus!Direct(c)
  <2>1. /\ written' = written \cup {c}
        /\ \E r \in {"ok", "sent"} : res' = [res EXCEPT ![c] = r]
    BY <1>6 DEF CallSelf, Return
  <2> QED
    BY <1>1, <1>3, <1>4, <2>1 DEF Bus!Direct, BusAcc
<1>7. ASSUME NEW kind \in Kinds, NEW reply \in BOOLEAN, NEW to \in Scripts,
             CallOther(t, to, kind, reply)
      PROVE  UNCHANGED <<acc, taken, written, res>>
  BY <1>1, <1>7 DEF CallOther, replyVars
<1> HIDE DEF c
<1> QED
  BY <1>2, <1>5, <1>6, <1>7 DEF MakeCall

LEMMA StepBus ==
    ASSUME IInv, Mailboxes, [Next]_vars PROVE [Bus!Next]_(Bus!vars)
<1>1. /\ TypeOK /\ LockHolders /\ SignalledHandled
      /\ InOrder /\ CurIsTaken /\ Begun /\ HandledInTurn /\ InFlight
  BY DEF IInv, Mailboxes
<1>2. ASSUME UNCHANGED <<acc, taken, written, res>> PROVE UNCHANGED Bus!vars
  <2>1. BusAcc' = BusAcc
    BY <1>2 DEF BusAcc, Id
  <2> QED
    BY <1>2, <2>1 DEF Bus!vars, BusAcc
<1>3. ASSUME NEW t \in Scripts, Push(t) PROVE Bus!Next
  BY <1>1, <1>3, PushAccepts DEF Bus!Next
<1>4. ASSUME NEW t \in Scripts, Pop(t) PROVE Bus!Next
  BY <1>1, <1>4, PopTakes DEF Bus!Next
<1>5. ASSUME NEW t \in Scripts, Execute(t) PROVE Bus!Next
  BY <1>1, <1>5, ExecuteHandles DEF Bus!Next
<1>6. ASSUME NEW t \in Scripts, PushDone(t) \/ ReplyArrives(t) \/ ReplyTimesOut(t)
      PROVE  Bus!Next \/ UNCHANGED Bus!vars
  <2>1. <<t, calls[t]>> \in CallId
    BY <1>1, <1>6, InFlightIsCall DEF PushDone, ReplyArrives, ReplyTimesOut, Goto
  <2> QED
    BY <1>1, <1>2, <1>6, <2>1, EndTells DEF Bus!Next
<1>7. ASSUME NEW t \in Scripts, MakeCall(t) PROVE Bus!Next \/ UNCHANGED Bus!vars
  BY <1>1, <1>2, <1>7, CallMapsToBus DEF Bus!Next
<1>8. ASSUME NEW t \in Scripts, SignalReply(t) PROVE UNCHANGED Bus!vars
  BY <1>2, <1>8 DEF SignalReply, queueVars, callVars
<1>9. CASE Quiet
  BY <1>2, <1>9 DEF Quiet
<1> QED
  BY <1>1, <1>3, <1>4, <1>5, <1>6, <1>7, <1>8, <1>9, QuietOrLoud DEF Loud

\* Queues, locks, events and stack pointers keep the promises of MsgBus: every
\* call enters one mailbox at most once, is begun in its turn, is handled at
\* most once, and its caller is told "ok" of what was handled only.
THEOREM QueuesImplementBus == Spec => ImplementsBus
<1>1. Init => Bus!Init
  BY InitBus
<1>2. IInv /\ Mailboxes /\ [Next]_vars => [Bus!Next]_(Bus!vars)
  BY StepBus
<1> QED
  BY SpecMailboxes, <1>1, <1>2, PTL DEF Spec, ImplementsBus, Bus!Spec
=============================================================================
