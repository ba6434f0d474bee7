-------------------------- MODULE HttpServerProofs --------------------------
(***************************************************************************)
(* Proofs about HttpServer, for any set of sessions and any limit.         *)
(***************************************************************************)
EXTENDS HttpServer, TLAPS

Places ==
    /\ pc \in [{Host, Server, One} \cup Sessions ->
                 HostPcs \cup ServerPcs \cup OnePcs \cup SessionPcs]
    /\ pc[Host] \in HostPcs /\ pc[Server] \in ServerPcs /\ pc[One] \in OnePcs
    /\ \A s \in Sessions : pc[s] \in SessionPcs

Data ==
    /\ cur \in [{Host, Server, One} -> Sessions \cup {None}]
    /\ told \subseteq {Server, One} \cup Sessions
    /\ threads \subseteq Sessions /\ infos \subseteq Sessions
    /\ port \in [Sessions -> Ports]
    /\ multi \in BOOLEAN /\ raced \in BOOLEAN /\ stuck \in BOOLEAN /\ cut \in BOOLEAN

\* Who appends, and who waits, does it for a session.
CurFits ==
    /\ pc[Server] \in {"append", "wait"} => cur[Server] \in Sessions
    /\ pc[Host] = "wait" => cur[Host] \in Sessions

\* The destructors run when there is no server.
HostEnds ==
    pc[Host] \in {"end", "endone", "lose", "wait", "gone"} => pc[Server] = "none"

\* As long as no server was cancelled: what a server that has not begun, or is
\* over, does not have; that the single thread is gone before sessions are
\* lost; and that each thread there is is in the list or waited for.
Clean == pc[Server] \in {"none", "init", "over"} =>
    threads = {} /\ infos = {} /\ pc[One] = "none"
OneIsGone == pc[Server] \in {"lose", "wait"} => pc[One] = "none"
Listed == \A s \in Sessions :
    \/ pc[s] \in {"none", "freed"}
    \/ s \in threads
    \/ pc[Server] = "wait" /\ cur[Server] = s
Family == ~cut => Clean /\ OneIsGone /\ Listed

\* The inductive invariant.
IInv == Places /\ Data /\ CurFits /\ HostEnds /\ Family

USE ThreadsDiffer

-----------------------------------------------------------------------------
(* What a step does to each part. *)

\* Each thread is somewhere.
LEMMA PlacesStep == ASSUME Places, Data, CurFits, [Next]_vars PROVE Places'
<1>1. CASE UNCHANGED vars
  BY <1>1 DEF vars, listVars, cutVars, Places, HostPcs, ServerPcs, OnePcs, SessionPcs
<1>2. ASSUME InitThread PROVE Places'
  BY <1>2 DEF InitThread, Goto, listVars, cutVars, Places, HostPcs, ServerPcs,
     OnePcs, SessionPcs
<1>3. ASSUME LoopTop PROVE Places'
  BY <1>3 DEF LoopTop, Goto, listVars, cutVars, Places, HostPcs, ServerPcs, OnePcs,
     SessionPcs
<1>4. ASSUME NoAccept PROVE Places'
  BY <1>4 DEF NoAccept, Goto, listVars, cutVars, Places, HostPcs, ServerPcs, OnePcs,
     SessionPcs
<1>5. ASSUME MultiAccept PROVE Places'
  BY <1>5 DEF MultiAccept, listVars, cutVars, Places, HostPcs, ServerPcs, OnePcs,
     SessionPcs
<1>6. ASSUME CleanupConnections PROVE Places'
  <2>1. \A t \in {Host, Server, One} : t \notin Over
    BY DEF Over, Places, Data
  <2>2. pc' = [t \in {Host, Server, One} \cup Sessions |->
                 IF t = Server THEN "loop" ELSE IF t \in Over THEN "freed" ELSE pc[t]]
    BY <1>6 DEF CleanupConnections, Places
  <2> QED
    BY <2>1, <2>2 DEF Places, HostPcs, ServerPcs, OnePcs, SessionPcs
<1>7. ASSUME Append PROVE Places'
  BY <1>7 DEF Append, Goto, Takes, InList, listVars, cutVars, Places, HostPcs,
     ServerPcs, OnePcs, SessionPcs
<1>8. ASSUME Appended PROVE Places'
  BY <1>8 DEF Appended, Goto, listVars, cutVars, Places, HostPcs, ServerPcs, OnePcs,
     SessionPcs
<1>9. ASSUME Connect PROVE Places'
  BY <1>9 DEF Connect, Goto, listVars, cutVars, Places, HostPcs, ServerPcs, OnePcs,
     SessionPcs
<1>10. ASSUME Inform PROVE Places'
  BY <1>10 DEF Inform, Goto, listVars, cutVars, Places, HostPcs, ServerPcs, OnePcs,
     SessionPcs
<1>11. ASSUME Refuse PROVE Places'
  BY <1>11 DEF Refuse, Goto, InList, listVars, cutVars, Places, HostPcs, ServerPcs,
     OnePcs, SessionPcs
<1>12. ASSUME Refused PROVE Places'
  BY <1>12 DEF Refused, Goto, Destroyed, listVars, cutVars, Places, HostPcs,
     ServerPcs, OnePcs, SessionPcs
<1>13. ASSUME StartOne PROVE Places'
  BY <1>13 DEF StartOne, Takes, listVars, cutVars, Places, HostPcs, ServerPcs,
     OnePcs, SessionPcs
<1>14. ASSUME NEW w \in {Host, Server}, StopOne(w) PROVE Places'
  BY <1>14 DEF StopOne, listVars, cutVars, Places, HostPcs, ServerPcs, OnePcs,
     SessionPcs
<1>15. ASSUME NEW w \in {Host, Server}, OneIsOver(w) PROVE Places'
  BY <1>15 DEF OneIsOver, listVars, cutVars, Places, HostPcs, ServerPcs, OnePcs,
     SessionPcs
<1>16. ASSUME NEW w \in {Host, Server}, OneIsLate(w) PROVE Places'
  BY <1>16 DEF OneIsLate, Takes, InList, listVars, cutVars, Places, HostPcs,
     ServerPcs, OnePcs, SessionPcs
<1>17. ASSUME NEW w \in {Host, Server}, LoseNext(w) PROVE Places'
  BY <1>17 DEF LoseNext, Goto, Takes, listVars, cutVars, Places, HostPcs, ServerPcs,
     OnePcs, SessionPcs
<1>18. ASSUME NEW w \in {Host, Server}, SessionIsOver(w) PROVE Places'
  BY <1>18 DEF SessionIsOver, Freed, Destroyed, Takes, listVars, cutVars, Places,
     HostPcs, ServerPcs, OnePcs, SessionPcs, Data, CurFits
<1>19. ASSUME NEW w \in {Host, Server}, SessionIsLate(w) PROVE Places'
  BY <1>19 DEF SessionIsLate, Freed, Destroyed, Takes, listVars, cutVars, Places,
     HostPcs, ServerPcs, OnePcs, SessionPcs, Data, CurFits
<1>20. ASSUME NEW w \in {Host, Server}, AllLost(w) PROVE Places'
  BY <1>20 DEF AllLost, Goto, Destroyed, listVars, cutVars, Places, HostPcs,
     ServerPcs, OnePcs, SessionPcs
<1>21. ASSUME StopReturns PROVE Places'
  BY <1>21 DEF StopReturns, listVars, cutVars, Places, HostPcs, ServerPcs, OnePcs,
     SessionPcs
<1>22. ASSUME Restarted PROVE Places'
  BY <1>22 DEF Restarted, listVars, cutVars, Places, HostPcs, ServerPcs, OnePcs,
     SessionPcs
<1>23. ASSUME CancelServer PROVE Places'
  BY <1>23 DEF CancelServer, Takes, InList, InSingleAccept, listVars, cutVars,
     Places, HostPcs, ServerPcs, OnePcs, SessionPcs
<1>24. ASSUME Start PROVE Places'
  BY <1>24 DEF Start, Goto, listVars, cutVars, Places, HostPcs, ServerPcs, OnePcs,
     SessionPcs
<1>25. ASSUME EnableMultiThreading PROVE Places'
  BY <1>25 DEF EnableMultiThreading, listVars, cutVars, Places, HostPcs, ServerPcs,
     OnePcs, SessionPcs
<1>26. ASSUME Stop PROVE Places'
  BY <1>26 DEF Stop, Goto, listVars, cutVars, Places, HostPcs, ServerPcs, OnePcs,
     SessionPcs
<1>27. ASSUME Restart PROVE Places'
  BY <1>27 DEF Restart, Goto, listVars, cutVars, Places, HostPcs, ServerPcs, OnePcs,
     SessionPcs
<1>28. ASSUME Delete PROVE Places'
  BY <1>28 DEF Delete, Goto, listVars, cutVars, Places, HostPcs, ServerPcs, OnePcs,
     SessionPcs
<1>29. ASSUME EraseInfo PROVE Places'
  BY <1>29 DEF EraseInfo, Goto, Destroyed, Takes, listVars, cutVars, Places,
     HostPcs, ServerPcs, OnePcs, SessionPcs
<1>30. ASSUME OneStops PROVE Places'
  BY <1>30 DEF OneStops, Goto, listVars, cutVars, Places, HostPcs, ServerPcs,
     OnePcs, SessionPcs
<1>31. ASSUME NEW s \in Sessions, Visit(s) PROVE Places'
  BY <1>31 DEF Visit, Goto, Destroyed, Takes, InList, listVars, cutVars, Places,
     HostPcs, ServerPcs, OnePcs, SessionPcs
<1>32. ASSUME NEW s \in Sessions, SessionEnds(s) PROVE Places'
  BY <1>32 DEF SessionEnds, Goto, listVars, cutVars, Places, HostPcs, ServerPcs,
     OnePcs, SessionPcs
<1>33. ASSUME NEW s \in Sessions, Request(s) PROVE Places'
  BY <1>33 DEF Request, Goto, listVars, cutVars, Places, HostPcs, ServerPcs, OnePcs,
     SessionPcs
<1>34. ASSUME NEW s \in Sessions, NEW p \in Ports, Closes(s, p) PROVE Places'
  BY <1>34 DEF Closes, listVars, cutVars, Places, HostPcs, ServerPcs, OnePcs, SessionPcs
<1>35. ASSUME NEW t \in Workers, Answer(t) PROVE Places'
  BY <1>35 DEF Answer, Goto, Ready, Workers, listVars, cutVars, Places, HostPcs,
     ServerPcs, OnePcs, SessionPcs
<1>36. ASSUME NEW t \in Workers, AskTimesOut(t) PROVE Places'
  BY <1>36 DEF AskTimesOut, Goto, Ready, Workers, listVars, cutVars, Places,
     HostPcs, ServerPcs, OnePcs, SessionPcs
<1>37. ASSUME NEW t \in Workers, ShareEnds(t) PROVE Places'
  BY <1>37 DEF ShareEnds, Goto, Ready, Workers, listVars, cutVars, Places, HostPcs,
     ServerPcs, OnePcs, SessionPcs
<1>38. ASSUME AcceptFails PROVE Places'
  BY <1>38 DEF AcceptFails, Goto, InList, listVars, cutVars, Places, HostPcs,
     ServerPcs, OnePcs, SessionPcs
<1> QED
  BY <1>1, <1>2, <1>3, <1>4, <1>5, <1>6, <1>7, <1>8, <1>9, <1>10, <1>11, <1>12,
     <1>13, <1>14, <1>15, <1>16, <1>17, <1>18, <1>19, <1>20, <1>21, <1>22,
     <1>23, <1>24, <1>25, <1>26, <1>27, <1>28, <1>29, <1>30, <1>31, <1>32,
     <1>33, <1>34, <1>35, <1>36, <1>37, <1>38
  DEF Next, ServerStep, Ends, HostStep, ScriptCalls, OneStep, Asked, Shared,
     SessionStep, Client

\* Everything else has its type.
LEMMA DataStep == ASSUME Data, Places, CurFits, [Next]_vars PROVE Data'
<1>1. CASE UNCHANGED vars
  BY <1>1 DEF vars, listVars, cutVars, Data, Ports
<1>2. ASSUME InitThread PROVE Data'
  BY <1>2 DEF InitThread, Goto, listVars, cutVars, Data, Ports
<1>3. ASSUME LoopTop PROVE Data'
  BY <1>3 DEF LoopTop, Goto, listVars, cutVars, Data, Ports
<1>4. ASSUME NoAccept PROVE Data'
  BY <1>4 DEF NoAccept, Goto, listVars, cutVars, Data, Ports
<1>5. ASSUME MultiAccept PROVE Data'
  BY <1>5 DEF MultiAccept, listVars, cutVars, Data, Ports
<1>6. ASSUME CleanupConnections PROVE Data'
  BY <1>6 DEF CleanupConnections, Destroyed, Over, listVars, cutVars, Data, Ports
<1>7. ASSUME Append PROVE Data'
  BY <1>7 DEF Append, Goto, Takes, InList, listVars, cutVars, Data, Ports
<1>8. ASSUME Appended PROVE Data'
  BY <1>8 DEF Appended, Goto, listVars, cutVars, Data, Ports, CurFits
<1>9. ASSUME Connect PROVE Data'
  BY <1>9 DEF Connect, Goto, listVars, cutVars, Data, Ports
<1>10. ASSUME Inform PROVE Data'
  BY <1>10 DEF Inform, Goto, listVars, cutVars, Data, Ports
<1>11. ASSUME Refuse PROVE Data'
  BY <1>11 DEF Refuse, Goto, InList, listVars, cutVars, Data, Ports
<1>12. ASSUME Refused PROVE Data'
  BY <1>12 DEF Refused, Goto, Destroyed, listVars, cutVars, Data, Ports
<1>13. ASSUME StartOne PROVE Data'
  BY <1>13 DEF StartOne, Takes, listVars, cutVars, Data, Ports
<1>14. ASSUME NEW w \in {Host, Server}, StopOne(w) PROVE Data'
  BY <1>14 DEF StopOne, listVars, cutVars, Data, Ports
<1>15. ASSUME NEW w \in {Host, Server}, OneIsOver(w) PROVE Data'
  BY <1>15 DEF OneIsOver, listVars, cutVars, Data, Ports
<1>16. ASSUME NEW w \in {Host, Server}, OneIsLate(w) PROVE Data'
  BY <1>16 DEF OneIsLate, Takes, InList, listVars, cutVars, Data, Ports
<1>17. ASSUME NEW w \in {Host, Server}, LoseNext(w) PROVE Data'
  BY <1>17 DEF LoseNext, Goto, Takes, listVars, cutVars, Data, Ports
<1>18. ASSUME NEW w \in {Host, Server}, SessionIsOver(w) PROVE Data'
  BY <1>18 DEF SessionIsOver, Freed, Destroyed, Takes, listVars, cutVars, Data,
     Ports, CurFits
<1>19. ASSUME NEW w \in {Host, Server}, SessionIsLate(w) PROVE Data'
  BY <1>19 DEF SessionIsLate, Freed, Destroyed, Takes, listVars, cutVars, Data,
     Ports, CurFits
<1>20. ASSUME NEW w \in {Host, Server}, AllLost(w) PROVE Data'
  BY <1>20 DEF AllLost, Goto, Destroyed, listVars, cutVars, Data, Ports
<1>21. ASSUME StopReturns PROVE Data'
  BY <1>21 DEF StopReturns, listVars, cutVars, Data, Ports
<1>22. ASSUME Restarted PROVE Data'
  BY <1>22 DEF Restarted, listVars, cutVars, Data, Ports
<1>23. ASSUME CancelServer PROVE Data'
  BY <1>23 DEF CancelServer, Takes, InList, InSingleAccept, listVars, cutVars, Data,
     Ports
<1>24. ASSUME Start PROVE Data'
  BY <1>24 DEF Start, Goto, listVars, cutVars, Data, Ports
<1>25. ASSUME EnableMultiThreading PROVE Data'
  BY <1>25 DEF EnableMultiThreading, listVars, cutVars, Data, Ports
<1>26. ASSUME Stop PROVE Data'
  BY <1>26 DEF Stop, Goto, listVars, cutVars, Data, Ports
<1>27. ASSUME Restart PROVE Data'
  BY <1>27 DEF Restart, Goto, listVars, cutVars, Data, Ports
<1>28. ASSUME Delete PROVE Data'
  BY <1>28 DEF Delete, Goto, listVars, cutVars, Data, Ports
<1>29. ASSUME EraseInfo PROVE Data'
  BY <1>29 DEF EraseInfo, Goto, Destroyed, Takes, listVars, cutVars, Data, Ports
<1>30. ASSUME OneStops PROVE Data'
  BY <1>30 DEF OneStops, Goto, listVars, cutVars, Data, Ports
<1>31. ASSUME NEW s \in Sessions, Visit(s) PROVE Data'
  <2>1. raced' \in BOOLEAN
    <3>1. raced' = TRUE \/ raced' = InList(Server) \/ raced' = raced
      BY <1>31 DEF Visit
    <3>2. InList(Server) \in BOOLEAN
      BY DEF InList
    <3> QED
      BY <3>1, <3>2, Zenon DEF Data
  <2>2. cur' \in [{Host, Server, One} -> Sessions \cup {None}] /\ port' \in [Sessions -> Ports]
    BY <1>31 DEF Visit, Takes, Destroyed, Data, Ports
  <2> QED
    BY <1>31, <2>1, <2>2 DEF Visit, cutVars, Data
<1>32. ASSUME NEW s \in Sessions, SessionEnds(s) PROVE Data'
  BY <1>32 DEF SessionEnds, Goto, listVars, cutVars, Data, Ports
<1>33. ASSUME NEW s \in Sessions, Request(s) PROVE Data'
  BY <1>33 DEF Request, Goto, listVars, cutVars, Data, Ports
<1>34. ASSUME NEW s \in Sessions, NEW p \in Ports, Closes(s, p) PROVE Data'
  BY <1>34 DEF Closes, listVars, cutVars, Data, Ports
<1>35. ASSUME NEW t \in Workers, Answer(t) PROVE Data'
  BY <1>35 DEF Answer, Goto, Ready, Workers, listVars, cutVars, Data, Ports
<1>36. ASSUME NEW t \in Workers, AskTimesOut(t) PROVE Data'
  BY <1>36 DEF AskTimesOut, Goto, Ready, Workers, listVars, cutVars, Data, Ports
<1>37. ASSUME NEW t \in Workers, ShareEnds(t) PROVE Data'
  BY <1>37 DEF ShareEnds, Goto, Ready, Workers, listVars, cutVars, Data, Ports
<1>38. ASSUME AcceptFails PROVE Data'
  <2>1. raced' \in BOOLEAN
    <3>1. raced' = InList(One)
      BY <1>38 DEF AcceptFails
    <3>2. InList(One) \in BOOLEAN
      BY DEF InList
    <3> QED
      BY <3>1, <3>2, Zenon
  <2>2. port' \in [Sessions -> Ports]
    BY <1>38 DEF AcceptFails, Goto, Data, Ports
  <2> QED
    BY <1>38, <2>1, <2>2 DEF AcceptFails, Goto, cutVars, Data
<1> QED
  BY <1>1, <1>2, <1>3, <1>4, <1>5, <1>6, <1>7, <1>8, <1>9, <1>10, <1>11, <1>12,
     <1>13, <1>14, <1>15, <1>16, <1>17, <1>18, <1>19, <1>20, <1>21, <1>22,
     <1>23, <1>24, <1>25, <1>26, <1>27, <1>28, <1>29, <1>30, <1>31, <1>32,
     <1>33, <1>34, <1>35, <1>36, <1>37, <1>38
  DEF Next, ServerStep, Ends, HostStep, ScriptCalls, OneStep, Asked, Shared,
     SessionStep, Client

\* Who appends or waits has a session.
LEMMA CurStep == ASSUME Places, Data, CurFits, [Next]_vars PROVE CurFits'
<1>1. CASE UNCHANGED vars
  BY <1>1 DEF vars, listVars, cutVars, CurFits, Places, Data
<1>2. ASSUME InitThread PROVE CurFits'
  BY <1>2 DEF InitThread, Goto, listVars, cutVars, CurFits, Places, Data
<1>3. ASSUME LoopTop PROVE CurFits'
  BY <1>3 DEF LoopTop, Goto, listVars, cutVars, CurFits, Places, Data
<1>4. ASSUME NoAccept PROVE CurFits'
  BY <1>4 DEF NoAccept, Goto, listVars, cutVars, CurFits, Places, Data
<1>5. ASSUME MultiAccept PROVE CurFits'
  BY <1>5 DEF MultiAccept, listVars, cutVars, CurFits, Places, Data
<1>6. ASSUME CleanupConnections PROVE CurFits'
  BY <1>6 DEF CleanupConnections, Destroyed, Over, listVars, cutVars, CurFits,
     Places, Data
<1>7. ASSUME Append PROVE CurFits'
  BY <1>7 DEF Append, Goto, Takes, InList, listVars, cutVars, CurFits, Places, Data
<1>8. ASSUME Appended PROVE CurFits'
  BY <1>8 DEF Appended, Goto, listVars, cutVars, CurFits, Places, Data
<1>9. ASSUME Connect PROVE CurFits'
  BY <1>9 DEF Connect, Goto, listVars, cutVars, CurFits, Places, Data
<1>10. ASSUME Inform PROVE CurFits'
  BY <1>10 DEF Inform, Goto, listVars, cutVars, CurFits, Places, Data
<1>11. ASSUME Refuse PROVE CurFits'
  BY <1>11 DEF Refuse, Goto, InList, listVars, cutVars, CurFits, Places, Data
<1>12. ASSUME Refused PROVE CurFits'
  BY <1>12 DEF Refused, Goto, Destroyed, listVars, cutVars, CurFits, Places, Data
<1>13. ASSUME StartOne PROVE CurFits'
  BY <1>13 DEF StartOne, Takes, listVars, cutVars, CurFits, Places, Data
<1>14. ASSUME NEW w \in {Host, Server}, StopOne(w) PROVE CurFits'
  BY <1>14 DEF StopOne, listVars, cutVars, CurFits, Places, Data
<1>15. ASSUME NEW w \in {Host, Server}, OneIsOver(w) PROVE CurFits'
  BY <1>15 DEF OneIsOver, listVars, cutVars, CurFits, Places, Data
<1>16. ASSUME NEW w \in {Host, Server}, OneIsLate(w) PROVE CurFits'
  BY <1>16 DEF OneIsLate, Takes, InList, listVars, cutVars, CurFits, Places, Data
<1>17. ASSUME NEW w \in {Host, Server}, LoseNext(w) PROVE CurFits'
  BY <1>17 DEF LoseNext, Goto, Takes, listVars, cutVars, CurFits, Places, Data
<1>18. ASSUME NEW w \in {Host, Server}, SessionIsOver(w) PROVE CurFits'
  BY <1>18 DEF SessionIsOver, Freed, Destroyed, Takes, listVars, cutVars, CurFits,
     Places, Data
<1>19. ASSUME NEW w \in {Host, Server}, SessionIsLate(w) PROVE CurFits'
  BY <1>19 DEF SessionIsLate, Freed, Destroyed, Takes, listVars, cutVars, CurFits,
     Places, Data
<1>20. ASSUME NEW w \in {Host, Server}, AllLost(w) PROVE CurFits'
  BY <1>20 DEF AllLost, Goto, Destroyed, listVars, cutVars, CurFits, Places, Data
<1>21. ASSUME StopReturns PROVE CurFits'
  BY <1>21 DEF StopReturns, listVars, cutVars, CurFits, Places, Data
<1>22. ASSUME Restarted PROVE CurFits'
  BY <1>22 DEF Restarted, listVars, cutVars, CurFits, Places, Data
<1>23. ASSUME CancelServer PROVE CurFits'
  BY <1>23 DEF CancelServer, Takes, InList, InSingleAccept, listVars, cutVars,
     CurFits, Places, Data
<1>24. ASSUME Start PROVE CurFits'
  BY <1>24 DEF Start, Goto, listVars, cutVars, CurFits, Places, Data
<1>25. ASSUME EnableMultiThreading PROVE CurFits'
  BY <1>25 DEF EnableMultiThreading, listVars, cutVars, CurFits, Places, Data
<1>26. ASSUME Stop PROVE CurFits'
  BY <1>26 DEF Stop, Goto, listVars, cutVars, CurFits, Places, Data
<1>27. ASSUME Restart PROVE CurFits'
  BY <1>27 DEF Restart, Goto, listVars, cutVars, CurFits, Places, Data
<1>28. ASSUME Delete PROVE CurFits'
  BY <1>28 DEF Delete, Goto, listVars, cutVars, CurFits, Places, Data
<1>29. ASSUME EraseInfo PROVE CurFits'
  BY <1>29 DEF EraseInfo, Goto, Destroyed, Takes, listVars, cutVars, CurFits,
     Places, Data
<1>30. ASSUME OneStops PROVE CurFits'
  BY <1>30 DEF OneStops, Goto, listVars, cutVars, CurFits, Places, Data
<1>31. ASSUME NEW s \in Sessions, Visit(s) PROVE CurFits'
  BY <1>31 DEF Visit, Goto, Destroyed, Takes, InList, listVars, cutVars, CurFits,
     Places, Data
<1>32. ASSUME NEW s \in Sessions, SessionEnds(s) PROVE CurFits'
  BY <1>32 DEF SessionEnds, Goto, listVars, cutVars, CurFits, Places, Data
<1>33. ASSUME NEW s \in Sessions, Request(s) PROVE CurFits'
  BY <1>33 DEF Request, Goto, listVars, cutVars, CurFits, Places, Data
<1>34. ASSUME NEW s \in Sessions, NEW p \in Ports, Closes(s, p) PROVE CurFits'
  BY <1>34 DEF Closes, listVars, cutVars, CurFits, Places, Data
<1>35. ASSUME NEW t \in Workers, Answer(t) PROVE CurFits'
  BY <1>35 DEF Answer, Goto, Ready, Workers, listVars, cutVars, CurFits, Places, Data
<1>36. ASSUME NEW t \in Workers, AskTimesOut(t) PROVE CurFits'
  BY <1>36 DEF AskTimesOut, Goto, Ready, Workers, listVars, cutVars, CurFits,
     Places, Data
<1>37. ASSUME NEW t \in Workers, ShareEnds(t) PROVE CurFits'
  BY <1>37 DEF ShareEnds, Goto, Ready, Workers, listVars, cutVars, CurFits, Places, Data
<1>38. ASSUME AcceptFails PROVE CurFits'
  BY <1>38 DEF AcceptFails, Goto, InList, listVars, cutVars, CurFits, Places,
     Data
<1> QED
  BY <1>1, <1>2, <1>3, <1>4, <1>5, <1>6, <1>7, <1>8, <1>9, <1>10, <1>11, <1>12,
     <1>13, <1>14, <1>15, <1>16, <1>17, <1>18, <1>19, <1>20, <1>21, <1>22,
     <1>23, <1>24, <1>25, <1>26, <1>27, <1>28, <1>29, <1>30, <1>31, <1>32,
     <1>33, <1>34, <1>35, <1>36, <1>37, <1>38
  DEF Next, ServerStep, Ends, HostStep, ScriptCalls, OneStep, Asked, Shared,
     SessionStep, Client

\* No server begins once the destructors do.
LEMMA HostEndsStep == ASSUME Places, Data, CurFits, HostEnds, [Next]_vars PROVE HostEnds'
<1>1. CASE UNCHANGED vars
  BY <1>1 DEF vars, listVars, cutVars, HostEnds, Places, Data
<1>2. ASSUME InitThread PROVE HostEnds'
  BY <1>2 DEF InitThread, Goto, listVars, cutVars, HostEnds, Places, Data
<1>3. ASSUME LoopTop PROVE HostEnds'
  BY <1>3 DEF LoopTop, Goto, listVars, cutVars, HostEnds, Places, Data
<1>4. ASSUME NoAccept PROVE HostEnds'
  BY <1>4 DEF NoAccept, Goto, listVars, cutVars, HostEnds, Places, Data
<1>5. ASSUME MultiAccept PROVE HostEnds'
  BY <1>5 DEF MultiAccept, listVars, cutVars, HostEnds, Places, Data
<1>6. ASSUME CleanupConnections PROVE HostEnds'
  BY <1>6 DEF CleanupConnections, Destroyed, Over, listVars, cutVars, HostEnds,
     Places, Data
<1>7. ASSUME Append PROVE HostEnds'
  BY <1>7 DEF Append, Goto, Takes, InList, listVars, cutVars, HostEnds, Places, Data
<1>8. ASSUME Appended PROVE HostEnds'
  BY <1>8 DEF Appended, Goto, listVars, cutVars, HostEnds, Places, Data
<1>9. ASSUME Connect PROVE HostEnds'
  BY <1>9 DEF Connect, Goto, listVars, cutVars, HostEnds, Places, Data
<1>10. ASSUME Inform PROVE HostEnds'
  BY <1>10 DEF Inform, Goto, listVars, cutVars, HostEnds, Places, Data
<1>11. ASSUME Refuse PROVE HostEnds'
  BY <1>11 DEF Refuse, Goto, InList, listVars, cutVars, HostEnds, Places, Data
<1>12. ASSUME Refused PROVE HostEnds'
  BY <1>12 DEF Refused, Goto, Destroyed, listVars, cutVars, HostEnds, Places, Data
<1>13. ASSUME StartOne PROVE HostEnds'
  BY <1>13 DEF StartOne, Takes, listVars, cutVars, HostEnds, Places, Data
<1>14. ASSUME NEW w \in {Host, Server}, StopOne(w) PROVE HostEnds'
  BY <1>14 DEF StopOne, listVars, cutVars, HostEnds, Places, Data
<1>15. ASSUME NEW w \in {Host, Server}, OneIsOver(w) PROVE HostEnds'
  BY <1>15 DEF OneIsOver, listVars, cutVars, HostEnds, Places, Data
<1>16. ASSUME NEW w \in {Host, Server}, OneIsLate(w) PROVE HostEnds'
  BY <1>16 DEF OneIsLate, Takes, InList, listVars, cutVars, HostEnds, Places, Data
<1>17. ASSUME NEW w \in {Host, Server}, LoseNext(w) PROVE HostEnds'
  BY <1>17 DEF LoseNext, Goto, Takes, listVars, cutVars, HostEnds, Places, Data
<1>18. ASSUME NEW w \in {Host, Server}, SessionIsOver(w) PROVE HostEnds'
  BY <1>18 DEF SessionIsOver, Freed, Destroyed, Takes, listVars, cutVars, HostEnds,
     Places, Data
<1>19. ASSUME NEW w \in {Host, Server}, SessionIsLate(w) PROVE HostEnds'
  BY <1>19 DEF SessionIsLate, Freed, Destroyed, Takes, listVars, cutVars, HostEnds,
     Places, Data
<1>20. ASSUME NEW w \in {Host, Server}, AllLost(w) PROVE HostEnds'
  BY <1>20 DEF AllLost, Goto, Destroyed, listVars, cutVars, HostEnds, Places, Data
<1>21. ASSUME StopReturns PROVE HostEnds'
  BY <1>21 DEF StopReturns, listVars, cutVars, HostEnds, Places, Data
<1>22. ASSUME Restarted PROVE HostEnds'
  BY <1>22 DEF Restarted, listVars, cutVars, HostEnds, Places, Data
<1>23. ASSUME CancelServer PROVE HostEnds'
  BY <1>23 DEF CancelServer, Takes, InList, InSingleAccept, listVars, cutVars,
     HostEnds, Places, Data
<1>24. ASSUME Start PROVE HostEnds'
  BY <1>24 DEF Start, Goto, listVars, cutVars, HostEnds, Places, Data
<1>25. ASSUME EnableMultiThreading PROVE HostEnds'
  BY <1>25 DEF EnableMultiThreading, listVars, cutVars, HostEnds, Places, Data
<1>26. ASSUME Stop PROVE HostEnds'
  BY <1>26 DEF Stop, Goto, listVars, cutVars, HostEnds, Places, Data
<1>27. ASSUME Restart PROVE HostEnds'
  BY <1>27 DEF Restart, Goto, listVars, cutVars, HostEnds, Places, Data
<1>28. ASSUME Delete PROVE HostEnds'
  BY <1>28 DEF Delete, Goto, listVars, cutVars, HostEnds, Places, Data
<1>29. ASSUME EraseInfo PROVE HostEnds'
  BY <1>29 DEF EraseInfo, Goto, Destroyed, Takes, listVars, cutVars, HostEnds,
     Places, Data
<1>30. ASSUME OneStops PROVE HostEnds'
  BY <1>30 DEF OneStops, Goto, listVars, cutVars, HostEnds, Places, Data
<1>31. ASSUME NEW s \in Sessions, Visit(s) PROVE HostEnds'
  BY <1>31 DEF Visit, Goto, Destroyed, Takes, InList, listVars, cutVars, HostEnds,
     Places, Data
<1>32. ASSUME NEW s \in Sessions, SessionEnds(s) PROVE HostEnds'
  BY <1>32 DEF SessionEnds, Goto, listVars, cutVars, HostEnds, Places, Data
<1>33. ASSUME NEW s \in Sessions, Request(s) PROVE HostEnds'
  BY <1>33 DEF Request, Goto, listVars, cutVars, HostEnds, Places, Data
<1>34. ASSUME NEW s \in Sessions, NEW p \in Ports, Closes(s, p) PROVE HostEnds'
  BY <1>34 DEF Closes, listVars, cutVars, HostEnds, Places, Data
<1>35. ASSUME NEW t \in Workers, Answer(t) PROVE HostEnds'
  BY <1>35 DEF Answer, Goto, Ready, Workers, listVars, cutVars, HostEnds, Places, Data
<1>36. ASSUME NEW t \in Workers, AskTimesOut(t) PROVE HostEnds'
  BY <1>36 DEF AskTimesOut, Goto, Ready, Workers, listVars, cutVars, HostEnds,
     Places, Data
<1>37. ASSUME NEW t \in Workers, ShareEnds(t) PROVE HostEnds'
  BY <1>37 DEF ShareEnds, Goto, Ready, Workers, listVars, cutVars, HostEnds, Places,
     Data
<1>38. ASSUME AcceptFails PROVE HostEnds'
  BY <1>38 DEF AcceptFails, Goto, InList, listVars, cutVars, HostEnds,
     Places, Data
<1> QED
  BY <1>1, <1>2, <1>3, <1>4, <1>5, <1>6, <1>7, <1>8, <1>9, <1>10, <1>11, <1>12,
     <1>13, <1>14, <1>15, <1>16, <1>17, <1>18, <1>19, <1>20, <1>21, <1>22,
     <1>23, <1>24, <1>25, <1>26, <1>27, <1>28, <1>29, <1>30, <1>31, <1>32,
     <1>33, <1>34, <1>35, <1>36, <1>37, <1>38
  DEF Next, ServerStep, Ends, HostStep, ScriptCalls, OneStep, Asked, Shared,
     SessionStep, Client

\* Threads are where they can be found.
LEMMA FamilyStep == ASSUME Places, Data, CurFits, HostEnds, Family, [Next]_vars PROVE Family'
<1>1. CASE UNCHANGED vars
  BY <1>1 DEF vars, listVars, cutVars, Family, Clean, OneIsGone, Listed, Places,
     Data, CurFits, HostEnds
<1>2. ASSUME InitThread PROVE Family'
  BY <1>2 DEF InitThread, Goto, listVars, cutVars, Family, Clean, OneIsGone, Listed,
     Places, Data, CurFits, HostEnds
<1>3. ASSUME LoopTop PROVE Family'
  BY <1>3 DEF LoopTop, Goto, listVars, cutVars, Family, Clean, OneIsGone, Listed,
     Places, Data, CurFits, HostEnds
<1>4. ASSUME NoAccept PROVE Family'
  BY <1>4 DEF NoAccept, Goto, listVars, cutVars, Family, Clean, OneIsGone, Listed,
     Places, Data, CurFits, HostEnds
<1>5. ASSUME MultiAccept PROVE Family'
  BY <1>5 DEF MultiAccept, listVars, cutVars, Family, Clean, OneIsGone, Listed,
     Places, Data, CurFits, HostEnds
<1>6. ASSUME CleanupConnections PROVE Family'
  BY <1>6 DEF CleanupConnections, Destroyed, Over, listVars, cutVars, Family, Clean,
     OneIsGone, Listed, Places, Data, CurFits, HostEnds
<1>7. ASSUME Append PROVE Family'
  BY <1>7 DEF Append, Goto, Takes, InList, listVars, cutVars, Family, Clean,
     OneIsGone, Listed, Places, Data, CurFits, HostEnds
<1>8. ASSUME Appended PROVE Family'
  BY <1>8 DEF Appended, Goto, listVars, cutVars, Family, Clean, OneIsGone, Listed,
     Places, Data, CurFits, HostEnds
<1>9. ASSUME Connect PROVE Family'
  BY <1>9 DEF Connect, Goto, listVars, cutVars, Family, Clean, OneIsGone, Listed,
     Places, Data, CurFits, HostEnds
<1>10. ASSUME Inform PROVE Family'
  BY <1>10 DEF Inform, Goto, listVars, cutVars, Family, Clean, OneIsGone, Listed,
     Places, Data, CurFits, HostEnds
<1>11. ASSUME Refuse PROVE Family'
  BY <1>11 DEF Refuse, Goto, InList, listVars, cutVars, Family, Clean, OneIsGone,
     Listed, Places, Data, CurFits, HostEnds
<1>12. ASSUME Refused PROVE Family'
  BY <1>12 DEF Refused, Goto, Destroyed, listVars, cutVars, Family, Clean,
     OneIsGone, Listed, Places, Data, CurFits, HostEnds
<1>13. ASSUME StartOne PROVE Family'
  BY <1>13 DEF StartOne, Takes, listVars, cutVars, Family, Clean, OneIsGone, Listed,
     Places, Data, CurFits, HostEnds
<1>14. ASSUME NEW w \in {Host, Server}, StopOne(w) PROVE Family'
  BY <1>14 DEF StopOne, listVars, cutVars, Family, Clean, OneIsGone, Listed, Places,
     Data, CurFits, HostEnds
<1>15. ASSUME NEW w \in {Host, Server}, OneIsOver(w) PROVE Family'
  BY <1>15 DEF OneIsOver, listVars, cutVars, Family, Clean, OneIsGone, Listed,
     Places, Data, CurFits, HostEnds
<1>16. ASSUME NEW w \in {Host, Server}, OneIsLate(w) PROVE Family'
  BY <1>16 DEF OneIsLate, Takes, InList, listVars, cutVars, Family, Clean,
     OneIsGone, Listed, Places, Data, CurFits, HostEnds
<1>17. ASSUME NEW w \in {Host, Server}, LoseNext(w) PROVE Family'
  BY <1>17 DEF LoseNext, Goto, Takes, listVars, cutVars, Family, Clean, OneIsGone,
     Listed, Places, Data, CurFits, HostEnds
<1>18. ASSUME NEW w \in {Host, Server}, SessionIsOver(w) PROVE Family'
  BY <1>18 DEF SessionIsOver, Freed, Destroyed, Takes, listVars, cutVars, Family,
     Clean, OneIsGone, Listed, Places, Data, CurFits, HostEnds
<1>19. ASSUME NEW w \in {Host, Server}, SessionIsLate(w) PROVE Family'
  BY <1>19 DEF SessionIsLate, Freed, Destroyed, Takes, listVars, cutVars, Family,
     Clean, OneIsGone, Listed, Places, Data, CurFits, HostEnds
<1>20. ASSUME NEW w \in {Host, Server}, AllLost(w) PROVE Family'
  BY <1>20 DEF AllLost, Goto, Destroyed, listVars, cutVars, Family, Clean,
     OneIsGone, Listed, Places, Data, CurFits, HostEnds
<1>21. ASSUME StopReturns PROVE Family'
  BY <1>21 DEF StopReturns, listVars, cutVars, Family, Clean, OneIsGone, Listed,
     Places, Data, CurFits, HostEnds
<1>22. ASSUME Restarted PROVE Family'
  BY <1>22 DEF Restarted, listVars, cutVars, Family, Clean, OneIsGone, Listed,
     Places, Data, CurFits, HostEnds
<1>23. ASSUME CancelServer PROVE Family'
  BY <1>23 DEF CancelServer, Takes, InList, InSingleAccept, listVars, cutVars,
     Family, Clean, OneIsGone, Listed, Places, Data, CurFits, HostEnds
<1>24. ASSUME Start PROVE Family'
  BY <1>24 DEF Start, Goto, listVars, cutVars, Family, Clean, OneIsGone, Listed,
     Places, Data, CurFits, HostEnds
<1>25. ASSUME EnableMultiThreading PROVE Family'
  BY <1>25 DEF EnableMultiThreading, listVars, cutVars, Family, Clean, OneIsGone,
     Listed, Places, Data, CurFits, HostEnds
<1>26. ASSUME Stop PROVE Family'
  BY <1>26 DEF Stop, Goto, listVars, cutVars, Family, Clean, OneIsGone, Listed,
     Places, Data, CurFits, HostEnds
<1>27. ASSUME Restart PROVE Family'
  BY <1>27 DEF Restart, Goto, listVars, cutVars, Family, Clean, OneIsGone, Listed,
     Places, Data, CurFits, HostEnds
<1>28. ASSUME Delete PROVE Family'
  BY <1>28 DEF Delete, Goto, listVars, cutVars, Family, Clean, OneIsGone, Listed,
     Places, Data, CurFits, HostEnds
<1>29. ASSUME EraseInfo PROVE Family'
  BY <1>29 DEF EraseInfo, Goto, Destroyed, Takes, listVars, cutVars, Family, Clean,
     OneIsGone, Listed, Places, Data, CurFits, HostEnds
<1>30. ASSUME OneStops PROVE Family'
  BY <1>30 DEF OneStops, Goto, listVars, cutVars, Family, Clean, OneIsGone, Listed,
     Places, Data, CurFits, HostEnds
<1>31. ASSUME NEW s \in Sessions, Visit(s) PROVE Family'
  BY <1>31 DEF Visit, Goto, Destroyed, Takes, InList, listVars, cutVars, Family,
     Clean, OneIsGone, Listed, Places, Data, CurFits, HostEnds
<1>32. ASSUME NEW s \in Sessions, SessionEnds(s) PROVE Family'
  BY <1>32 DEF SessionEnds, Goto, listVars, cutVars, Family, Clean, OneIsGone,
     Listed, Places, Data, CurFits, HostEnds
<1>33. ASSUME NEW s \in Sessions, Request(s) PROVE Family'
  BY <1>33 DEF Request, Goto, listVars, cutVars, Family, Clean, OneIsGone, Listed,
     Places, Data, CurFits, HostEnds
<1>34. ASSUME NEW s \in Sessions, NEW p \in Ports, Closes(s, p) PROVE Family'
  BY <1>34 DEF Closes, listVars, cutVars, Family, Clean, OneIsGone, Listed, Places,
     Data, CurFits, HostEnds
<1>35. ASSUME NEW t \in Workers, Answer(t) PROVE Family'
  BY <1>35 DEF Answer, Goto, Ready, Workers, listVars, cutVars, Family, Clean,
     OneIsGone, Listed, Places, Data, CurFits, HostEnds
<1>36. ASSUME NEW t \in Workers, AskTimesOut(t) PROVE Family'
  BY <1>36 DEF AskTimesOut, Goto, Ready, Workers, listVars, cutVars, Family, Clean,
     OneIsGone, Listed, Places, Data, CurFits, HostEnds
<1>37. ASSUME NEW t \in Workers, ShareEnds(t) PROVE Family'
  BY <1>37 DEF ShareEnds, Goto, Ready, Workers, listVars, cutVars, Family, Clean,
     OneIsGone, Listed, Places, Data, CurFits, HostEnds
<1>38. ASSUME AcceptFails PROVE Family'
  BY <1>38 DEF AcceptFails, Goto, InList, listVars, cutVars, Family, Clean,
     OneIsGone, Listed, Places, Data, CurFits, HostEnds
<1> QED
  BY <1>1, <1>2, <1>3, <1>4, <1>5, <1>6, <1>7, <1>8, <1>9, <1>10, <1>11, <1>12,
     <1>13, <1>14, <1>15, <1>16, <1>17, <1>18, <1>19, <1>20, <1>21, <1>22,
     <1>23, <1>24, <1>25, <1>26, <1>27, <1>28, <1>29, <1>30, <1>31, <1>32,
     <1>33, <1>34, <1>35, <1>36, <1>37, <1>38
  DEF Next, ServerStep, Ends, HostStep, ScriptCalls, OneStep, Asked, Shared,
     SessionStep, Client

-----------------------------------------------------------------------------
LEMMA InitIInv == Init => IInv
BY DEF Init, IInv, Places, Data, CurFits, HostEnds, Family, Clean, OneIsGone, Listed,
       HostPcs, ServerPcs, OnePcs, SessionPcs, Ports

LEMMA StepIInv == IInv /\ [Next]_vars => IInv'
BY PlacesStep, DataStep, CurStep, HostEndsStep, FamilyStep DEF IInv

\* Every variable keeps its type.
THEOREM Types == Spec => []TypeOK
<1>1. IInv => TypeOK
  BY DEF IInv, Places, Data, TypeOK
<1> QED
  BY InitIInv, StepIInv, <1>1, PTL DEF Spec

\* A server that has stopped has left nothing behind, however its sessions were
\* served, whatever the script did and wherever they were when it stopped.
THEOREM NothingOfItIsLeft == Spec => []NothingIsLeft
<1>1. IInv => NothingIsLeft
  BY DEF IInv, Family, Clean, Listed, NothingIsLeft
<1> QED
  BY InitIInv, StepIInv, <1>1, PTL DEF Spec
=============================================================================
