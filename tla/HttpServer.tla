----------------------------- MODULE HttpServer -----------------------------
(***************************************************************************)
(* The HTTP server that a script owns (CSqHttpServer, THttpServer).  The   *)
(* server's thread accepts connections.  In multi-threaded mode each gets  *)
(* a thread of its own, a CSessionThread in m_lstSessionThread, a list     *)
(* that only the server's thread uses.  In single-threaded mode it becomes *)
(* a CSessionInfo in m_lstSessionInfo, and one thread, One, serves them    *)
(* all; it walks the list, and erases from it, while the server's thread   *)
(* appends, without a lock that both would take.  The mode may be changed  *)
(* at any time.                                                            *)
(*                                                                         *)
(* A request is handled by the script: the session waits for its answer,   *)
(* which may be to stream a share for as long as the client stays.  The    *)
(* script in turn waits for the server when it stops it, and the server    *)
(* for its sessions.  All waits have a timeout, after which a thread is    *)
(* cancelled and joined (ThreadLife).                                      *)
(*                                                                         *)
(* What two threads do to the list at once, or find half done, is          *)
(* undefined, and nothing goes on from there (raced).  Requests and        *)
(* replies, session data and the locks around them, handler scripts and a  *)
(* listening socket that fails are not modelled.  cut is history.          *)
(***************************************************************************)
EXTENDS Integers, FiniteSets

CONSTANTS Sessions,     \* connections, each accepted once
          Host,         \* the script's thread, which owns the server
          Server,       \* the THttpServer's thread
          One,          \* m_cSingleSessionThread
          None,
          MaxConn       \* m_uMaxConnections

ASSUME SessionsAreFinite == IsFiniteSet(Sessions)
ASSUME ThreadsDiffer ==
    /\ Host # Server /\ Host # One /\ Server # One
    /\ None \notin {Host, Server, One}
    /\ {Host, Server, One, None} \cap Sessions = {}
ASSUME MaxConnIsNat == MaxConn \in Nat

VARIABLES
    pc,         \* where each thread is
    cur,        \* the session it deals with
    told,       \* threads whose m_evStop is signalled
    multi,      \* m_bMultiThreaded
    threads,    \* m_lstSessionThread
    infos,      \* m_lstSessionInfo
    port,       \* the connection of a session
    raced,      \* m_lstSessionInfo is undefined
    stuck,      \* nobody can take m_lockSessionInfo any more
    cut         \* history: the server's thread was cancelled

listVars == <<threads, infos, raced>>
cutVars == <<cut, stuck>>
vars == <<pc, cur, told, multi, port, listVars, cutVars>>

HostPcs == {"idle", "stop", "replace", "end", "endone", "lose", "wait", "gone"}
ServerPcs == {"none", "init", "loop", "pass", "append", "bare", "judge", "erase",
              "start", "clean", "end", "endone", "lose", "wait", "over"}
OnePcs == {"none", "walk", "erase", "ask", "share", "over"}
SessionPcs == {"none", "serve", "ask", "share", "over", "freed"}
\* No port yet; connected, but the session is not informed of it; open; closed by
\* the client; of no use any more; destroyed or never connected, its connect
\* state zero.
Ports == {"none", "raw", "open", "eof", "shut", "dead"}

Init ==
    /\ pc = [t \in {Host, Server, One} \cup Sessions |-> IF t = Host THEN "idle" ELSE "none"]
    /\ cur = [t \in {Host, Server, One} |-> None]
    /\ told = {}
    /\ multi = TRUE
    /\ threads = {} /\ infos = {}
    /\ port = [s \in Sessions |-> "none"]
    /\ raced = FALSE /\ stuck = FALSE /\ cut = FALSE

Goto(t, from, to) == pc[t] = from /\ pc' = [pc EXCEPT ![t] = to]
Takes(t, s) == cur' = [cur EXCEPT ![t] = s]

\* ~CSessionInfo frees the port.
Destroyed(lost) == [s \in Sessions |-> IF s \in lost THEN "dead" ELSE port[s]]

Fresh(s) == port[s] = "none" /\ s # cur[Server] /\ s \notin infos
Full(list) == Cardinality(list) >= MaxConn

-----------------------------------------------------------------------------
(* The loop of the server's thread *)

\* It binds and listens, or the thread is over at once.
InitThread ==
    /\ \E next \in {"loop", "over"} : Goto(Server, "init", next)
    /\ UNCHANGED <<cur, told, multi, port, listVars, cutVars>>

LoopTop ==
    /\ Goto(Server, "loop", IF Server \in told THEN "end" ELSE "pass")
    /\ UNCHANGED <<cur, told, multi, port, listVars, cutVars>>

\* Nobody connects, or is refused in multi-threaded mode, which leaves nothing.
NoAccept ==
    /\ Goto(Server, "pass", "clean")
    /\ UNCHANGED <<cur, told, multi, port, listVars, cutVars>>

\* MultiAccept: the session is complete when its thread starts.  accept() may
\* have failed nevertheless.
MultiAccept ==
    /\ multi
    /\ \E s \in Sessions, p \in {"open", "shut"} :
          /\ Fresh(s) /\ ~Full(threads \cup {s})
          /\ pc[Server] = "pass"
          /\ pc' = [pc EXCEPT ![Server] = "clean", ![s] = "serve"]
          /\ port' = [port EXCEPT ![s] = p]
          /\ threads' = threads \cup {s}
          /\ told' = told \ {s}
    /\ UNCHANGED <<cur, multi, infos, raced, cutVars>>

\* CleanupConnections: sessions whose thread does not run are erased.
Over == {s \in threads : pc[s] = "over"}
\* Mutant: nothing is erased.
CleanupNothing ==
    /\ Goto(Server, "clean", "loop")
    /\ UNCHANGED <<cur, told, multi, port, listVars, cutVars>>
CleanupConnections ==
    /\ pc[Server] = "clean"
    /\ threads' = threads \ Over
    /\ pc' = [t \in DOMAIN pc |-> IF t = Server THEN "loop"
                                  ELSE IF t \in Over THEN "freed" ELSE pc[t]]
    /\ port' = Destroyed(Over)
    /\ told' = told \ Over
    /\ UNCHANGED <<cur, multi, infos, raced, cutVars>>

-----------------------------------------------------------------------------
(* SingleAccept *)

\* Two threads in the list at once.
InList(t) == pc[t] \in {"append", "erase"}

Append ==
    /\ ~multi /\ ~stuck
    /\ \E s \in Sessions : Fresh(s) /\ Takes(Server, s)
    /\ Goto(Server, "pass", "append")
    /\ raced' = InList(One)
    /\ UNCHANGED <<told, multi, threads, infos, port, cutVars>>

\* The node is in the list and counted.
Appended ==
    /\ Goto(Server, "append", "bare")
    /\ infos' = infos \cup {cur[Server]}
    /\ UNCHANGED <<cur, told, multi, threads, port, raced, cutVars>>

\* SetPort and Accept, which does not tell that accept() failed.
Connect ==
    /\ Goto(Server, "bare", "judge")
    /\ \E p \in {"raw", "shut"} : port' = [port EXCEPT ![cur[Server]] = p]
    /\ UNCHANGED <<cur, told, multi, listVars, cutVars>>

\* Accept finds no socket to listen at: the node, whose port has no connect
\* state, is erased.
AcceptFails ==
    /\ Goto(Server, "bare", "erase")
    /\ port' = [port EXCEPT ![cur[Server]] = "dead"]
    /\ raced' = InList(One)
    /\ UNCHANGED <<cur, told, multi, threads, infos, cutVars>>

\* InformSession.
Inform ==
    /\ ~Full(infos)
    /\ Goto(Server, "judge", "start")
    /\ port' = [port EXCEPT ![cur[Server]] = IF @ = "raw" THEN "open" ELSE @]
    /\ raced' = (cur[Server] \notin infos)   \* One has erased it
    /\ UNCHANGED <<cur, told, multi, threads, infos, cutVars>>

\* Too many, or not authenticated: erased, if One has not done so already.
Refuse ==
    /\ Goto(Server, "judge", "erase")
    /\ raced' = (InList(One) \/ cur[Server] \notin infos)
    /\ UNCHANGED <<cur, told, multi, threads, infos, port, cutVars>>

Refused ==
    /\ Goto(Server, "erase", "start")
    /\ infos' = infos \ {cur[Server]}
    /\ port' = Destroyed({cur[Server]})
    /\ UNCHANGED <<cur, told, multi, threads, raced, cutVars>>

\* The thread that serves them starts with the first of them.
StartOne ==
    /\ pc[Server] = "start"
    /\ pc' = [pc EXCEPT ![Server] = "clean",
                        ![One] = IF @ \in {"none", "over"} THEN "walk" ELSE @]
    /\ told' = IF pc[One] \in {"none", "over"} THEN told \ {One} ELSE told
    /\ Takes(Server, None)
    /\ UNCHANGED <<multi, port, listVars, cutVars>>

-----------------------------------------------------------------------------
(* One *)

\* A port whose connect state is zero is passed over, here and ever after.
\* Mutant: so is one that is of no use.
ShutIsPassed(s) == port[s] \in {"dead", "shut"}
Passed(s) == port[s] = "dead"

\* The walk comes to a session.  One that has no port, and there is no going on.
Visit(s) ==
    /\ s \in infos /\ ~Passed(s)
    /\ \/ /\ port[s] = "none" /\ pc[One] = "walk"
          /\ raced' = TRUE /\ UNCHANGED <<pc, cur, port>>
       \/ /\ port[s] \in {"raw", "shut"} /\ Goto(One, "walk", "erase") /\ Takes(One, s)
          /\ raced' = InList(Server) /\ UNCHANGED port
       \/ /\ port[s] = "open" /\ Goto(One, "walk", "ask") /\ Takes(One, s)
          /\ UNCHANGED <<port, raced>>
       \/ /\ port[s] = "eof" /\ pc[One] = "walk" /\ port' = Destroyed({s})
          /\ UNCHANGED <<pc, cur, raced>>
    /\ UNCHANGED <<told, multi, threads, infos, cutVars>>

EraseInfo ==
    /\ Goto(One, "erase", "walk") /\ Takes(One, None)
    /\ infos' = infos \ {cur[One]}
    /\ port' = Destroyed({cur[One]})
    /\ UNCHANGED <<told, multi, threads, raced, cutVars>>

OneStops ==
    /\ One \in told /\ Goto(One, "walk", "over")
    /\ UNCHANGED <<cur, told, multi, port, listVars, cutVars>>

-----------------------------------------------------------------------------
(* A session and the script.  t is One, or a session's own thread. *)

Ready(t) == IF t = One THEN "walk" ELSE "serve"
Workers == Sessions \cup {One}

Request(s) ==
    /\ port[s] = "open" /\ Goto(s, "serve", "ask")
    /\ UNCHANGED <<cur, told, multi, port, listVars, cutVars>>

\* The script handles the request.  It replies, or names a share to stream.
Answer(t) ==
    /\ pc[Host] = "idle"
    /\ \E next \in {Ready(t), "share"} : Goto(t, "ask", next)
    /\ UNCHANGED <<cur, told, multi, port, listVars, cutVars>>

AskTimesOut(t) ==
    /\ Goto(t, "ask", Ready(t))
    /\ UNCHANGED <<cur, told, multi, port, listVars, cutVars>>

\* The share is not there, or a write finds that the client is gone.
ShareEnds(t) ==
    /\ Goto(t, "share", Ready(t))
    /\ UNCHANGED <<cur, told, multi, port, listVars, cutVars>>

SessionEnds(s) ==
    /\ s \in told \/ port[s] # "open"
    /\ Goto(s, "serve", "over")
    /\ UNCHANGED <<cur, told, multi, port, listVars, cutVars>>

\* The client closes the connection; or nothing was heard of it for too long, or
\* an error was seen.
Closes(s, p) ==
    /\ p \in {"eof", "shut"}
    /\ port[s] = "open" /\ port' = [port EXCEPT ![s] = p]
    /\ UNCHANGED <<pc, cur, told, multi, listVars, cutVars>>

-----------------------------------------------------------------------------
(* EndThread of the server, and the members' destructors, by the thread w *)

\* Mutant: the single thread is left alone in the other mode.
StopOneInMode(w) ==
    /\ pc[w] = "end"
    /\ IF pc[One] = "none" \/ multi
       THEN pc' = [pc EXCEPT ![w] = "lose"] /\ UNCHANGED told
       ELSE pc' = [pc EXCEPT ![w] = "endone"] /\ told' = told \cup {One}
    /\ UNCHANGED <<cur, multi, port, listVars, cutVars>>
StopOne(w) ==
    /\ pc[w] = "end"
    /\ IF pc[One] = "none"
       THEN pc' = [pc EXCEPT ![w] = "lose"] /\ UNCHANGED told
       ELSE pc' = [pc EXCEPT ![w] = "endone"] /\ told' = told \cup {One}
    /\ UNCHANGED <<cur, multi, port, listVars, cutVars>>

OneIsOver(w) ==
    /\ pc[w] = "endone" /\ pc[One] \in {"none", "over"}
    /\ pc' = [pc EXCEPT ![w] = "lose", ![One] = "none"]
    /\ UNCHANGED <<cur, told, multi, port, listVars, cutVars>>

\* It is cancelled, wherever it is.
OneIsLate(w) ==
    /\ pc[w] = "endone" /\ pc[One] \notin {"none", "over"}
    /\ pc' = [pc EXCEPT ![w] = "lose", ![One] = "none"]
    /\ raced' = InList(One)
    /\ Takes(One, None)
    /\ UNCHANGED <<told, multi, threads, infos, port, cutVars>>

\* A node is taken out of the list and deleted, which stops its thread.
LoseNext(w) ==
    /\ Goto(w, "lose", "wait")
    /\ \E s \in threads :
          Takes(w, s) /\ told' = told \cup {s} /\ threads' = threads \ {s}
    /\ UNCHANGED <<multi, infos, port, raced, cutVars>>

Freed(w, s) ==
    /\ pc' = [pc EXCEPT ![w] = "lose", ![s] = "freed"]
    /\ Takes(w, None)
    /\ told' = told \ {s}
    /\ port' = Destroyed({s})
    /\ UNCHANGED <<multi, listVars, cutVars>>

SessionIsOver(w) ==
    /\ pc[w] = "wait" /\ pc[cur[w]] = "over"
    /\ Freed(w, cur[w])

SessionIsLate(w) ==
    /\ pc[w] = "wait" /\ pc[cur[w]] # "over"
    /\ Freed(w, cur[w])

AllLost(w) ==
    /\ threads = {} /\ Goto(w, "lose", IF w = Host THEN "gone" ELSE "over")
    /\ infos' = {}
    /\ port' = Destroyed(infos)
    /\ UNCHANGED <<cur, told, multi, threads, raced, cutVars>>

-----------------------------------------------------------------------------
(* The script *)

Start ==
    /\ pc[Host] = "idle" /\ Goto(Server, "none", "init")
    /\ told' = told \ {Server}
    /\ UNCHANGED <<cur, multi, port, listVars, cutVars>>

EnableMultiThreading ==
    /\ pc[Host] = "idle"
    /\ multi' = ~multi
    /\ UNCHANGED <<pc, cur, told, port, listVars, cutVars>>

Stop ==
    /\ pc[Server] # "none" /\ Goto(Host, "idle", "stop")
    /\ told' = told \cup {Server}
    /\ UNCHANGED <<cur, multi, port, listVars, cutVars>>

StopReturns ==
    /\ pc[Host] = "stop" /\ pc[Server] = "over"
    /\ pc' = [pc EXCEPT ![Host] = "idle", ![Server] = "none"]
    /\ UNCHANGED <<cur, told, multi, port, listVars, cutVars>>

\* Start of a server that runs: it is not told to stop, only waited for.
Restart ==
    /\ pc[Server] # "none" /\ Goto(Host, "idle", "replace")
    /\ UNCHANGED <<cur, told, multi, port, listVars, cutVars>>

Restarted ==
    /\ pc[Host] = "replace" /\ pc[Server] = "over"
    /\ pc' = [pc EXCEPT ![Host] = "idle", ![Server] = "init"]
    /\ told' = told \ {Server}
    /\ UNCHANGED <<cur, multi, port, listVars, cutVars>>

\* The wait for the server is over before the server is.  It is cancelled where
\* it is: in the list, with a session that is not complete, or while it waits
\* for a session that is in no list any more.
InSingleAccept == pc[Server] \in {"append", "bare", "judge", "erase", "start"}
CancelServer ==
    /\ pc[Host] \in {"stop", "replace"} /\ pc[Server] # "over"
    /\ pc' = [pc EXCEPT ![Server] = "over"]
    /\ raced' = InList(Server)
    /\ stuck' = (stuck \/ InSingleAccept)
    /\ Takes(Server, None)
    /\ cut' = TRUE
    /\ UNCHANGED <<told, multi, threads, infos, port>>

Delete ==
    /\ pc[Server] = "none" /\ Goto(Host, "idle", "end")
    /\ UNCHANGED <<cur, told, multi, port, listVars, cutVars>>

-----------------------------------------------------------------------------
(* What each thread does, as far as it may still do anything *)

Ends(w) ==
    \/ StopOne(w) \/ OneIsOver(w) \/ OneIsLate(w)
    \/ LoseNext(w) \/ SessionIsOver(w) \/ SessionIsLate(w) \/ AllLost(w)

ServerStep ==
    /\ ~raced
    /\ \/ InitThread \/ LoopTop \/ NoAccept \/ MultiAccept \/ CleanupConnections
       \/ Append \/ Appended \/ Connect \/ AcceptFails \/ Inform \/ Refuse \/ Refused \/ StartOne
       \/ Ends(Server)

HostStep == ~raced /\ (StopReturns \/ Restarted \/ CancelServer \/ Ends(Host))
ScriptCalls ==
    ~raced /\ (Start \/ EnableMultiThreading \/ Stop \/ Restart \/ Delete)

OneErases(s) == ~raced /\ port[s] \in {"raw", "shut"} /\ Visit(s)
OneStep == ~raced /\ (EraseInfo \/ OneStops \/ \E s \in Sessions : Visit(s))

Asked(t) == ~raced /\ (Answer(t) \/ AskTimesOut(t))
SessionStep(s) == ~raced /\ SessionEnds(s)
Client(s) == ~raced /\ (Request(s) \/ \E p \in Ports : Closes(s, p))
Shared(t) == ~raced /\ ShareEnds(t)

Next ==
    \/ ServerStep \/ HostStep \/ ScriptCalls \/ OneStep
    \/ \E t \in Workers : Asked(t) \/ Shared(t)
    \/ \E s \in Sessions : SessionStep(s) \/ Client(s)

Spec == Init /\ [][Next]_vars

\* Every wait of the library's threads has a timeout.  The walk comes round to
\* each session.  No client need send or leave, no script need call, and a
\* share may be streamed for ever.
FairSpec ==
    /\ Spec
    /\ WF_vars(ServerStep) /\ WF_vars(HostStep)
    /\ WF_vars(~raced /\ EraseInfo)
    /\ \A s \in Sessions : SF_vars(OneErases(s)) /\ WF_vars(SessionStep(s))
    /\ \A t \in Workers : WF_vars(Asked(t))

-----------------------------------------------------------------------------
(* Properties *)

TypeOK ==
    /\ pc \in [{Host, Server, One} \cup Sessions ->
                 HostPcs \cup ServerPcs \cup OnePcs \cup SessionPcs]
    /\ pc[Host] \in HostPcs /\ pc[Server] \in ServerPcs /\ pc[One] \in OnePcs
    /\ \A s \in Sessions : pc[s] \in SessionPcs
    /\ cur \in [{Host, Server, One} -> Sessions \cup {None}]
    /\ told \subseteq {Server, One} \cup Sessions
    /\ threads \subseteq Sessions /\ infos \subseteq Sessions
    /\ port \in [Sessions -> Ports]
    /\ multi \in BOOLEAN /\ raced \in BOOLEAN /\ stuck \in BOOLEAN /\ cut \in BOOLEAN

\* When the server has stopped, or could not start, nothing of it is left: no
\* session is in a list, no thread serves one, whichever modes it was in, unless
\* its thread was cancelled (EndThread, ~TList, CThread::Stop).
NothingIsLeft ==
    ~raced /\ ~cut /\ pc[Server] \in {"none", "init", "over"} =>
        /\ threads = {} /\ infos = {}
        /\ pc[One] = "none"
        /\ \A s \in Sessions : pc[s] \in {"none", "freed"}

\* A session whose thread is over is freed, by the next pass of the server's loop
\* or when the server ends (CleanupConnections).
OverGoes ==
    \A s \in Sessions :
        pc[s] = "over" ~> pc[s] = "freed" \/ cut \/ raced

\* A connection that is of no use leaves the list of the single thread, unless that
\* is streaming a share to another client (CSingleSessionThread::DoThread).  This
\* is not so of one whose port is destroyed: it is counted as a client until
\* the server ends.
ShutGoes ==
    \A s \in Sessions :
        s \in infos /\ port[s] = "shut" ~> s \notin infos \/ pc[One] = "share" \/ cut \/ raced

=============================================================================
