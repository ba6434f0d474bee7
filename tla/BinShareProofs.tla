--------------------------- MODULE BinShareProofs ---------------------------
(***************************************************************************)
(* Proofs about BinShare, for any number of scripts, names and blocks.     *)
(***************************************************************************)
EXTENDS BinShare, FiniteSetTheorems, TLAPS

\* The types of all but the counts.
PlainOK ==
    /\ torn \subseteq Blocks
    /\ bin \in [Scripts -> Held \cup {None}]
    /\ entry \in [Names -> Held \cup {None}]
    /\ age \in [Names -> Ages]
    /\ lock \in Threads \cup {None}
    /\ pc \in [Threads -> Pcs]
    /\ arg \in [Threads -> Names \cup {None}]
    /\ left \subseteq Names

\* The counts are numbers; a thread that is about to let go of a block has
\* found it held.
RefsOK == refs \in [Blocks -> Nat]
RegsOK == reg \in [Threads -> Nat]

\* Who is in the map has its lock.
LockFits == \A t \in Threads :
    pc[t] \in {"get", "replace", "assign", "share", "unset", "clean", "erase"} => lock = t

\* What a thread in a call has and what the name it is about holds.
CallsFit ==
    /\ pc[Host] \in {"idle", "clean", "erase"}
    /\ pc[Host] # "idle" => \A n \in left : entry[n] # None
    /\ pc[Host] = "erase" => arg[Host] \notin left
    /\ \A t \in Scripts :
          /\ pc[t] \notin {"clean", "erase"}
          /\ pc[t] \in {"drop", "copy", "unshare", "replace", "assign", "share"} => bin[t] # None
          /\ pc[t] = "get" => bin[t] = None
    /\ \A t \in Threads :
          /\ pc[t] \in {"get", "replace", "unset", "erase"} =>
                arg[t] \in Names /\ entry[arg[t]] # None
          /\ pc[t] \in {"assign", "share"} => arg[t] \in Names /\ entry[arg[t]] = None

\* The name Cleanup is about to erase was found unused, and still is.
ErasesUnused == pc[Host] = "erase" =>
    /\ age[arg[Host]] > Timeout
    /\ entry[arg[Host]] \in Blocks \ torn => BinsOf(entry[arg[Host]]) = {}

\* The inductive invariant.
IInv ==
    /\ PlainOK /\ RefsOK /\ RegsOK
    /\ LockFits /\ CallsFit /\ CountIsExact /\ ErasesUnused

USE SetsAreFinite, HostIsNoScript, NoneIsNothing, ForeignIsNoBlock, TimeoutIsNat

-----------------------------------------------------------------------------
(* Counting who holds a block. *)

One(v, b) == IF v = b THEN 1 ELSE 0
Holding(S, f, b) == {y \in S : f[y] = b}
Changes(S, f, g, x, v) == \A y \in S : g[y] = IF y = x THEN v ELSE f[y]

LEMMA Counts ==
    ASSUME NEW S, IsFiniteSet(S), NEW P, P \subseteq S
    PROVE  IsFiniteSet(P) /\ Cardinality(P) \in Nat /\ (Cardinality(P) = 0 <=> P = {})
BY FS_Subset, FS_CardinalityType, FS_EmptySet

\* One holder changes what it holds from f[x] to v.
LEMMA OneChanges ==
    ASSUME NEW S, IsFiniteSet(S), NEW f, NEW g, NEW x \in S, NEW v, NEW b,
           Changes(S, f, g, x, v)
    PROVE  Cardinality(Holding(S, g, b)) =
               Cardinality(Holding(S, f, b)) + One(v, b) - One(f[x], b)
<1> DEFINE F == Holding(S, f, b)
           G == Holding(S, g, b)
<1>1. IsFiniteSet(F) /\ Cardinality(F) \in Nat
  BY Counts, F \subseteq S DEF Holding
<1>2. CASE v = b /\ f[x] = b
  <2>1. G = F
    BY <1>2 DEF Holding, Changes
  <2> QED
    BY <2>1, <1>1, <1>2 DEF One
<1>3. CASE v = b /\ f[x] # b
  <2>1. G = F \cup {x} /\ x \notin F
    BY <1>3 DEF Holding, Changes
  <2>2. Cardinality(G) = Cardinality(F) + 1
    BY <2>1, <1>1, FS_AddElement
  <2> QED
    BY <2>2, <1>1, <1>3 DEF One
<1>4. CASE v # b /\ f[x] = b
  <2>1. G = F \ {x} /\ x \in F
    BY <1>4 DEF Holding, Changes
  <2>2. Cardinality(G) = Cardinality(F) - 1
    BY <2>1, <1>1, FS_RemoveElement
  <2> QED
    BY <2>2, <1>1, <1>4 DEF One
<1>5. CASE v # b /\ f[x] # b
  <2>1. G = F
    BY <1>5 DEF Holding, Changes
  <2> QED
    BY <2>1, <1>1, <1>5 DEF One
<1> QED
  BY <1>2, <1>3, <1>4, <1>5

LEMMA BinsCount ==
    ASSUME NEW b
    PROVE  /\ Cardinality(BinsOf(b)) \in Nat /\ (Cardinality(BinsOf(b)) = 0 <=> BinsOf(b) = {})
           /\ Cardinality(NamesOf(b)) \in Nat /\ (Cardinality(NamesOf(b)) = 0 <=> NamesOf(b) = {})
<1>1. BinsOf(b) \subseteq Scripts /\ NamesOf(b) \subseteq Names
  BY DEF BinsOf, NamesOf
<1> QED
  BY <1>1, Counts

\* A script's CBin changes.
LEMMA BinChanges ==
    ASSUME PlainOK, NEW t \in Scripts, NEW v, bin' = [bin EXCEPT ![t] = v], NEW b
    PROVE  Cardinality(BinsOf(b)') = Cardinality(BinsOf(b)) + One(v, b) - One(bin[t], b)
<1>1. Changes(Scripts, bin, bin', t, v)
  BY DEF PlainOK, Changes
<1>2. BinsOf(b) = Holding(Scripts, bin, b) /\ BinsOf(b)' = Holding(Scripts, bin', b)
  BY DEF BinsOf, Holding
<1> QED
  BY <1>1, <1>2, OneChanges

\* What a name holds changes.
LEMMA EntryChanges ==
    ASSUME PlainOK, NEW n \in Names, NEW v, entry' = [entry EXCEPT ![n] = v], NEW b
    PROVE  Cardinality(NamesOf(b)') = Cardinality(NamesOf(b)) + One(v, b) - One(entry[n], b)
<1>1. Changes(Names, entry, entry', n, v)
  BY DEF PlainOK, Changes
<1>2. NamesOf(b) = Holding(Names, entry, b) /\ NamesOf(b)' = Holding(Names, entry', b)
  BY DEF NamesOf, Holding
<1> QED
  BY <1>1, <1>2, OneChanges

\* A block that is free is held by nobody.
LEMMA FreeIsUnheld ==
    ASSUME CountIsExact, NEW b \in Free
    PROVE  b \in Blocks \ torn /\ BinsOf(b) = {} /\ NamesOf(b) = {}
<1>1. b \in Blocks \ torn /\ refs[b] = 0
  BY DEF Free
<1>2. 0 = Cardinality(BinsOf(b)) + Cardinality(NamesOf(b))
  BY <1>1 DEF CountIsExact
<1>3. Cardinality(BinsOf(b)) = 0 /\ Cardinality(NamesOf(b)) = 0
  BY <1>2, BinsCount
<1> QED
  BY <1>1, <1>3, BinsCount

\* A block that is held has a count.
LEMMA HeldIsCounted ==
    ASSUME CountIsExact, NEW b \in Blocks \ torn, BinsOf(b) # {} \/ NamesOf(b) # {}
    PROVE  refs[b] >= 1
<1>1. refs[b] = Cardinality(BinsOf(b)) + Cardinality(NamesOf(b))
  BY DEF CountIsExact
<1> QED
  BY <1>1, BinsCount

\* Storing a count: it is right, or the block is torn.
LEMMA StoreCounts ==
    ASSUME RefsOK, RegsOK, NEW t \in Threads, NEW h, NEW d \in Int, NEW v, v = reg[t] + d,
           NEW b \in Blocks \ Torn(t, h)
    PROVE  b \notin torn /\ Stored(t, h, v)[b] = refs[b] + (IF h = b THEN d ELSE 0)
<1>1. b \notin torn /\ ~(b = h /\ Tears(t, h))
  BY DEF Torn, Tears
<1>2. CASE b = h
  <2>1. refs[b] = reg[t]
    BY <1>1, <1>2 DEF Tears
  <2> QED
    BY <1>1, <1>2, <2>1 DEF Stored, RefsOK
<1>3. CASE b # h
  BY <1>1, <1>3 DEF Stored, RefsOK
<1> QED
  BY <1>2, <1>3

\* It is a number, since who lets go of a block held it.
LEMMA StoreIsNat ==
    ASSUME RefsOK, RegsOK, CountIsExact, NEW t \in Threads, NEW h, NEW d \in {-1, 1},
           NEW v, v = reg[t] + d,
           BinsOf(h) # {} \/ NamesOf(h) # {}
    PROVE  Stored(t, h, v) \in [Blocks -> Nat]
<1>1. CASE h \in Blocks \ torn
  <2>1. refs[h] >= 1
    BY <1>1, HeldIsCounted
  <2>2. reg[t] \in Nat /\ refs[h] \in Nat
    BY <1>1 DEF RegsOK, RefsOK
  <2>3. (IF Tears(t, h) THEN 1 ELSE v) \in Nat
    BY <2>1, <2>2, <1>1 DEF Tears
  <2> QED
    BY <2>3 DEF Stored, RefsOK
<1>2. CASE h \notin Blocks \ torn
  BY <1>2 DEF Stored, RefsOK
<1> QED
  BY <1>1, <1>2

LEMMA TornAreBlocks == ASSUME PlainOK, NEW t, NEW h PROVE Torn(t, h) \subseteq Blocks
BY DEF Torn, Tears, PlainOK

-----------------------------------------------------------------------------
(* What a step does to each part. *)

\* The plain types are kept.
LEMMA PlainStep == ASSUME PlainOK, CallsFit, [Next]_vars PROVE PlainOK'
<1>1. CASE UNCHANGED vars
  BY <1>1 DEF vars, mapVars, memVars, callVars, PlainOK, Threads, Held, Pcs, Ages, Free
<1>2. ASSUME Tick PROVE PlainOK'
  BY <1>2 DEF Tick, mapVars, memVars, callVars, PlainOK, Threads, Held, Pcs, Ages, Free
<1>3. ASSUME CleanupCall PROVE PlainOK'
  BY <1>3 DEF CleanupCall, Locks, mapVars, memVars, callVars, PlainOK, Threads, Held, Pcs, Ages, Free
<1>4. ASSUME Erased PROVE PlainOK'
  BY <1>4, TornAreBlocks DEF Erased, Releases, Store, mapVars, memVars, callVars, PlainOK, Threads, Held, Pcs, Ages, Free, CallsFit
<1>5. ASSUME CleanupDone PROVE PlainOK'
  BY <1>5 DEF CleanupDone, Unlocks, mapVars, memVars, callVars, PlainOK, Threads, Held, Pcs, Ages, Free
<1>6. ASSUME NEW n \in Names, Keep(n) PROVE PlainOK'
  BY <1>6 DEF Keep, Visits, mapVars, memVars, callVars, PlainOK, Threads, Held, Pcs, Ages, Free
<1>7. ASSUME NEW n \in Names, Collect(n) PROVE PlainOK'
  BY <1>7 DEF Collect, Visits, Load, mapVars, memVars, callVars, PlainOK, Threads, Held, Pcs, Ages, Free
<1>8. ASSUME NEW n \in Names, Spare(n) PROVE PlainOK'
  BY <1>8 DEF Spare, Visits, mapVars, memVars, callVars, PlainOK, Threads, Held, Pcs, Ages, Free
<1>9. ASSUME NEW t \in Scripts, Dropped(t) PROVE PlainOK'
  BY <1>9, TornAreBlocks DEF Dropped, Store, mapVars, memVars, callVars, PlainOK, Threads, Held, Pcs, Ages, Free
<1>10. ASSUME NEW t \in Scripts, Copied(t) PROVE PlainOK'
  BY <1>10 DEF Copied, Load, mapVars, memVars, callVars, PlainOK, Threads, Held, Pcs, Ages, Free
<1>11. ASSUME NEW t \in Scripts, Unshared(t) PROVE PlainOK'
  BY <1>11, TornAreBlocks DEF Unshared, mapVars, memVars, callVars, PlainOK, Threads, Held, Pcs, Ages, Free
<1>12. ASSUME NEW t \in Scripts, Got(t) PROVE PlainOK'
  BY <1>12, TornAreBlocks DEF Got, Store, Unlocks, mapVars, memVars, callVars, PlainOK, Threads, Held, Pcs, Ages, Free, CallsFit
<1>13. ASSUME NEW t \in Scripts, Assign(t) PROVE PlainOK'
  BY <1>13 DEF Assign, Load, mapVars, memVars, callVars, PlainOK, Threads, Held, Pcs, Ages, Free
<1>14. ASSUME NEW t \in Scripts, Assigned(t) PROVE PlainOK'
  BY <1>14, TornAreBlocks DEF Assigned, Store, Unlocks, mapVars, memVars, callVars, PlainOK, Threads, Held, Pcs, Ages, Free, CallsFit
<1>15. ASSUME NEW t \in Scripts, Replaced(t) PROVE PlainOK'
  BY <1>15, TornAreBlocks DEF Replaced, Releases, Store, mapVars, memVars, callVars, PlainOK, Threads, Held, Pcs, Ages, Free, CallsFit
<1>16. ASSUME NEW t \in Scripts, Unset(t) PROVE PlainOK'
  BY <1>16, TornAreBlocks DEF Unset, Releases, Store, Unlocks, mapVars, memVars, callVars, PlainOK, Threads, Held, Pcs, Ages, Free, CallsFit
<1>17. ASSUME NEW t \in Scripts, New(t) PROVE PlainOK'
  BY <1>17 DEF New, mapVars, memVars, callVars, PlainOK, Threads, Held, Pcs, Ages, Free
<1>18. ASSUME NEW t \in Scripts, Point(t) PROVE PlainOK'
  BY <1>18 DEF Point, mapVars, memVars, callVars, PlainOK, Threads, Held, Pcs, Ages, Free
<1>19. ASSUME NEW t \in Scripts, DropCall(t) PROVE PlainOK'
  BY <1>19 DEF DropCall, Load, mapVars, memVars, callVars, PlainOK, Threads, Held, Pcs, Ages, Free
<1>20. ASSUME NEW t \in Scripts, ResizeCall(t) PROVE PlainOK'
  BY <1>20 DEF ResizeCall, mapVars, memVars, callVars, PlainOK, Threads, Held, Pcs, Ages, Free
<1>21. ASSUME NEW t \in Scripts, NEW n \in Names, GetCall(t, n) PROVE PlainOK'
  BY <1>21 DEF GetCall, Locks, Load, mapVars, memVars, callVars, PlainOK, Threads, Held, Pcs, Ages, Free
<1>22. ASSUME NEW t \in Scripts, NEW n \in Names, Create(t, n) PROVE PlainOK'
  BY <1>22 DEF Create, Locks, mapVars, memVars, callVars, PlainOK, Threads, Held, Pcs, Ages, Free
<1>23. ASSUME NEW t \in Scripts, NEW n \in Names, SetCall(t, n) PROVE PlainOK'
  BY <1>23 DEF SetCall, Locks, Load, mapVars, memVars, callVars, PlainOK, Threads, Held, Pcs, Ages, Free
<1>24. ASSUME NEW t \in Scripts, NEW n \in Names, UnsetCall(t, n) PROVE PlainOK'
  BY <1>24 DEF UnsetCall, Locks, Load, mapVars, memVars, callVars, PlainOK, Threads, Held, Pcs, Ages, Free
<1> QED
  BY <1>1, <1>2, <1>3, <1>4, <1>5, <1>6, <1>7, <1>8, <1>9, <1>10, <1>11, <1>12,
     <1>13, <1>14, <1>15, <1>16, <1>17, <1>18, <1>19, <1>20, <1>21, <1>22,
     <1>23, <1>24
  DEF Next, Cleanup, Step, Call

\* What is loaded is a number.
LEMMA RegStep == ASSUME RefsOK, RegsOK, [Next]_vars PROVE RegsOK'
<1>1. CASE UNCHANGED vars
  BY <1>1 DEF vars, mapVars, memVars, callVars, RefsOK, RegsOK, Threads
<1>2. ASSUME Tick PROVE RegsOK'
  BY <1>2 DEF Tick, mapVars, memVars, callVars, RefsOK, RegsOK, Threads
<1>3. ASSUME CleanupCall PROVE RegsOK'
  BY <1>3 DEF CleanupCall, Locks, mapVars, memVars, callVars, RefsOK, RegsOK, Threads
<1>4. ASSUME Erased PROVE RegsOK'
  BY <1>4 DEF Erased, Releases, Store, mapVars, memVars, callVars, RefsOK, RegsOK, Threads
<1>5. ASSUME CleanupDone PROVE RegsOK'
  BY <1>5 DEF CleanupDone, Unlocks, mapVars, memVars, callVars, RefsOK, RegsOK, Threads
<1>6. ASSUME NEW n \in Names, Keep(n) PROVE RegsOK'
  BY <1>6 DEF Keep, Visits, mapVars, memVars, callVars, RefsOK, RegsOK, Threads
<1>7. ASSUME NEW n \in Names, Collect(n) PROVE RegsOK'
  BY <1>7 DEF Collect, Visits, Load, mapVars, memVars, callVars, RefsOK, RegsOK, Threads
<1>8. ASSUME NEW n \in Names, Spare(n) PROVE RegsOK'
  BY <1>8 DEF Spare, Visits, mapVars, memVars, callVars, RefsOK, RegsOK, Threads
<1>9. ASSUME NEW t \in Scripts, Dropped(t) PROVE RegsOK'
  BY <1>9 DEF Dropped, Store, mapVars, memVars, callVars, RefsOK, RegsOK, Threads
<1>10. ASSUME NEW t \in Scripts, Copied(t) PROVE RegsOK'
  BY <1>10 DEF Copied, Load, mapVars, memVars, callVars, RefsOK, RegsOK, Threads
<1>11. ASSUME NEW t \in Scripts, Unshared(t) PROVE RegsOK'
  BY <1>11 DEF Unshared, mapVars, memVars, callVars, RefsOK, RegsOK, Threads
<1>12. ASSUME NEW t \in Scripts, Got(t) PROVE RegsOK'
  BY <1>12 DEF Got, Store, Unlocks, mapVars, memVars, callVars, RefsOK, RegsOK, Threads
<1>13. ASSUME NEW t \in Scripts, Assign(t) PROVE RegsOK'
  BY <1>13 DEF Assign, Load, mapVars, memVars, callVars, RefsOK, RegsOK, Threads
<1>14. ASSUME NEW t \in Scripts, Assigned(t) PROVE RegsOK'
  BY <1>14 DEF Assigned, Store, Unlocks, mapVars, memVars, callVars, RefsOK, RegsOK, Threads
<1>15. ASSUME NEW t \in Scripts, Replaced(t) PROVE RegsOK'
  BY <1>15 DEF Replaced, Releases, Store, mapVars, memVars, callVars, RefsOK, RegsOK, Threads
<1>16. ASSUME NEW t \in Scripts, Unset(t) PROVE RegsOK'
  BY <1>16 DEF Unset, Releases, Store, Unlocks, mapVars, memVars, callVars, RefsOK, RegsOK, Threads
<1>17. ASSUME NEW t \in Scripts, New(t) PROVE RegsOK'
  BY <1>17 DEF New, mapVars, memVars, callVars, RefsOK, RegsOK, Threads
<1>18. ASSUME NEW t \in Scripts, Point(t) PROVE RegsOK'
  BY <1>18 DEF Point, mapVars, memVars, callVars, RefsOK, RegsOK, Threads
<1>19. ASSUME NEW t \in Scripts, DropCall(t) PROVE RegsOK'
  BY <1>19 DEF DropCall, Load, mapVars, memVars, callVars, RefsOK, RegsOK, Threads
<1>20. ASSUME NEW t \in Scripts, ResizeCall(t) PROVE RegsOK'
  BY <1>20 DEF ResizeCall, mapVars, memVars, callVars, RefsOK, RegsOK, Threads
<1>21. ASSUME NEW t \in Scripts, NEW n \in Names, GetCall(t, n) PROVE RegsOK'
  BY <1>21 DEF GetCall, Locks, Load, mapVars, memVars, callVars, RefsOK, RegsOK, Threads
<1>22. ASSUME NEW t \in Scripts, NEW n \in Names, Create(t, n) PROVE RegsOK'
  BY <1>22 DEF Create, Locks, mapVars, memVars, callVars, RefsOK, RegsOK, Threads
<1>23. ASSUME NEW t \in Scripts, NEW n \in Names, SetCall(t, n) PROVE RegsOK'
  BY <1>23 DEF SetCall, Locks, Load, mapVars, memVars, callVars, RefsOK, RegsOK, Threads
<1>24. ASSUME NEW t \in Scripts, NEW n \in Names, UnsetCall(t, n) PROVE RegsOK'
  BY <1>24 DEF UnsetCall, Locks, Load, mapVars, memVars, callVars, RefsOK, RegsOK, Threads
<1> QED
  BY <1>1, <1>2, <1>3, <1>4, <1>5, <1>6, <1>7, <1>8, <1>9, <1>10, <1>11, <1>12,
     <1>13, <1>14, <1>15, <1>16, <1>17, <1>18, <1>19, <1>20, <1>21, <1>22,
     <1>23, <1>24
  DEF Next, Cleanup, Step, Call

\* The map has one user at a time.
LEMMA LockStep == ASSUME PlainOK, LockFits, [Next]_vars PROVE LockFits'
<1>1. CASE UNCHANGED vars
  BY <1>1 DEF vars, mapVars, memVars, callVars, PlainOK, LockFits, Threads, Pcs
<1>2. ASSUME Tick PROVE LockFits'
  BY <1>2 DEF Tick, mapVars, memVars, callVars, PlainOK, LockFits, Threads, Pcs
<1>3. ASSUME CleanupCall PROVE LockFits'
  BY <1>3 DEF CleanupCall, Locks, mapVars, memVars, callVars, PlainOK, LockFits, Threads, Pcs
<1>4. ASSUME Erased PROVE LockFits'
  BY <1>4 DEF Erased, Releases, Store, mapVars, memVars, callVars, PlainOK, LockFits, Threads, Pcs
<1>5. ASSUME CleanupDone PROVE LockFits'
  BY <1>5 DEF CleanupDone, Unlocks, mapVars, memVars, callVars, PlainOK, LockFits, Threads, Pcs
<1>6. ASSUME NEW n \in Names, Keep(n) PROVE LockFits'
  BY <1>6 DEF Keep, Visits, mapVars, memVars, callVars, PlainOK, LockFits, Threads, Pcs
<1>7. ASSUME NEW n \in Names, Collect(n) PROVE LockFits'
  BY <1>7 DEF Collect, Visits, Load, mapVars, memVars, callVars, PlainOK, LockFits, Threads, Pcs
<1>8. ASSUME NEW n \in Names, Spare(n) PROVE LockFits'
  BY <1>8 DEF Spare, Visits, mapVars, memVars, callVars, PlainOK, LockFits, Threads, Pcs
<1>9. ASSUME NEW t \in Scripts, Dropped(t) PROVE LockFits'
  BY <1>9 DEF Dropped, Store, mapVars, memVars, callVars, PlainOK, LockFits, Threads, Pcs
<1>10. ASSUME NEW t \in Scripts, Copied(t) PROVE LockFits'
  BY <1>10 DEF Copied, Load, mapVars, memVars, callVars, PlainOK, LockFits, Threads, Pcs
<1>11. ASSUME NEW t \in Scripts, Unshared(t) PROVE LockFits'
  BY <1>11 DEF Unshared, mapVars, memVars, callVars, PlainOK, LockFits, Threads, Pcs
<1>12. ASSUME NEW t \in Scripts, Got(t) PROVE LockFits'
  BY <1>12 DEF Got, Store, Unlocks, mapVars, memVars, callVars, PlainOK, LockFits, Threads, Pcs
<1>13. ASSUME NEW t \in Scripts, Assign(t) PROVE LockFits'
  BY <1>13 DEF Assign, Load, mapVars, memVars, callVars, PlainOK, LockFits, Threads, Pcs
<1>14. ASSUME NEW t \in Scripts, Assigned(t) PROVE LockFits'
  BY <1>14 DEF Assigned, Store, Unlocks, mapVars, memVars, callVars, PlainOK, LockFits, Threads, Pcs
<1>15. ASSUME NEW t \in Scripts, Replaced(t) PROVE LockFits'
  BY <1>15 DEF Replaced, Releases, Store, mapVars, memVars, callVars, PlainOK, LockFits, Threads, Pcs
<1>16. ASSUME NEW t \in Scripts, Unset(t) PROVE LockFits'
  BY <1>16 DEF Unset, Releases, Store, Unlocks, mapVars, memVars, callVars, PlainOK, LockFits, Threads, Pcs
<1>17. ASSUME NEW t \in Scripts, New(t) PROVE LockFits'
  BY <1>17 DEF New, mapVars, memVars, callVars, PlainOK, LockFits, Threads, Pcs
<1>18. ASSUME NEW t \in Scripts, Point(t) PROVE LockFits'
  BY <1>18 DEF Point, mapVars, memVars, callVars, PlainOK, LockFits, Threads, Pcs
<1>19. ASSUME NEW t \in Scripts, DropCall(t) PROVE LockFits'
  BY <1>19 DEF DropCall, Load, mapVars, memVars, callVars, PlainOK, LockFits, Threads, Pcs
<1>20. ASSUME NEW t \in Scripts, ResizeCall(t) PROVE LockFits'
  BY <1>20 DEF ResizeCall, mapVars, memVars, callVars, PlainOK, LockFits, Threads, Pcs
<1>21. ASSUME NEW t \in Scripts, NEW n \in Names, GetCall(t, n) PROVE LockFits'
  BY <1>21 DEF GetCall, Locks, Load, mapVars, memVars, callVars, PlainOK, LockFits, Threads, Pcs
<1>22. ASSUME NEW t \in Scripts, NEW n \in Names, Create(t, n) PROVE LockFits'
  BY <1>22 DEF Create, Locks, mapVars, memVars, callVars, PlainOK, LockFits, Threads, Pcs
<1>23. ASSUME NEW t \in Scripts, NEW n \in Names, SetCall(t, n) PROVE LockFits'
  BY <1>23 DEF SetCall, Locks, Load, mapVars, memVars, callVars, PlainOK, LockFits, Threads, Pcs
<1>24. ASSUME NEW t \in Scripts, NEW n \in Names, UnsetCall(t, n) PROVE LockFits'
  BY <1>24 DEF UnsetCall, Locks, Load, mapVars, memVars, callVars, PlainOK, LockFits, Threads, Pcs
<1> QED
  BY <1>1, <1>2, <1>3, <1>4, <1>5, <1>6, <1>7, <1>8, <1>9, <1>10, <1>11, <1>12,
     <1>13, <1>14, <1>15, <1>16, <1>17, <1>18, <1>19, <1>20, <1>21, <1>22,
     <1>23, <1>24
  DEF Next, Cleanup, Step, Call

\* Calls fit.
LEMMA CallStep == ASSUME PlainOK, LockFits, CallsFit, [Next]_vars PROVE CallsFit'
<1>1. CASE UNCHANGED vars
  BY <1>1 DEF vars, mapVars, memVars, callVars, PlainOK, LockFits, CallsFit, Threads, Pcs, Held
<1>2. ASSUME Tick PROVE CallsFit'
  BY <1>2 DEF Tick, mapVars, memVars, callVars, PlainOK, LockFits, CallsFit, Threads, Pcs, Held
<1>3. ASSUME CleanupCall PROVE CallsFit'
  BY <1>3 DEF CleanupCall, Locks, mapVars, memVars, callVars, PlainOK, LockFits, CallsFit, Threads, Pcs, Held
<1>4. ASSUME Erased PROVE CallsFit'
  BY <1>4 DEF Erased, Releases, Store, mapVars, memVars, callVars, PlainOK, LockFits, CallsFit, Threads, Pcs, Held
<1>5. ASSUME CleanupDone PROVE CallsFit'
  BY <1>5 DEF CleanupDone, Unlocks, mapVars, memVars, callVars, PlainOK, LockFits, CallsFit, Threads, Pcs, Held
<1>6. ASSUME NEW n \in Names, Keep(n) PROVE CallsFit'
  BY <1>6 DEF Keep, Visits, mapVars, memVars, callVars, PlainOK, LockFits, CallsFit, Threads, Pcs, Held
<1>7. ASSUME NEW n \in Names, Collect(n) PROVE CallsFit'
  BY <1>7 DEF Collect, Visits, Load, mapVars, memVars, callVars, PlainOK, LockFits, CallsFit, Threads, Pcs, Held
<1>8. ASSUME NEW n \in Names, Spare(n) PROVE CallsFit'
  BY <1>8 DEF Spare, Visits, mapVars, memVars, callVars, PlainOK, LockFits, CallsFit, Threads, Pcs, Held
<1>9. ASSUME NEW t \in Scripts, Dropped(t) PROVE CallsFit'
  BY <1>9 DEF Dropped, Store, mapVars, memVars, callVars, PlainOK, LockFits, CallsFit, Threads, Pcs, Held
<1>10. ASSUME NEW t \in Scripts, Copied(t) PROVE CallsFit'
  BY <1>10 DEF Copied, Load, mapVars, memVars, callVars, PlainOK, LockFits, CallsFit, Threads, Pcs, Held
<1>11. ASSUME NEW t \in Scripts, Unshared(t) PROVE CallsFit'
  BY <1>11 DEF Unshared, mapVars, memVars, callVars, PlainOK, LockFits, CallsFit, Threads, Pcs, Held
<1>12. ASSUME NEW t \in Scripts, Got(t) PROVE CallsFit'
  BY <1>12 DEF Got, Store, Unlocks, mapVars, memVars, callVars, PlainOK, LockFits, CallsFit, Threads, Pcs, Held
<1>13. ASSUME NEW t \in Scripts, Assign(t) PROVE CallsFit'
  BY <1>13 DEF Assign, Load, mapVars, memVars, callVars, PlainOK, LockFits, CallsFit, Threads, Pcs, Held
<1>14. ASSUME NEW t \in Scripts, Assigned(t) PROVE CallsFit'
  BY <1>14 DEF Assigned, Store, Unlocks, mapVars, memVars, callVars, PlainOK, LockFits, CallsFit, Threads, Pcs, Held
<1>15. ASSUME NEW t \in Scripts, Replaced(t) PROVE CallsFit'
  BY <1>15 DEF Replaced, Releases, Store, mapVars, memVars, callVars, PlainOK, LockFits, CallsFit, Threads, Pcs, Held
<1>16. ASSUME NEW t \in Scripts, Unset(t) PROVE CallsFit'
  BY <1>16 DEF Unset, Releases, Store, Unlocks, mapVars, memVars, callVars, PlainOK, LockFits, CallsFit, Threads, Pcs, Held
<1>17. ASSUME NEW t \in Scripts, New(t) PROVE CallsFit'
  BY <1>17 DEF New, mapVars, memVars, callVars, PlainOK, LockFits, CallsFit, Threads, Pcs, Held
<1>18. ASSUME NEW t \in Scripts, Point(t) PROVE CallsFit'
  BY <1>18 DEF Point, mapVars, memVars, callVars, PlainOK, LockFits, CallsFit, Threads, Pcs, Held
<1>19. ASSUME NEW t \in Scripts, DropCall(t) PROVE CallsFit'
  BY <1>19 DEF DropCall, Load, mapVars, memVars, callVars, PlainOK, LockFits, CallsFit, Threads, Pcs, Held
<1>20. ASSUME NEW t \in Scripts, ResizeCall(t) PROVE CallsFit'
  BY <1>20 DEF ResizeCall, mapVars, memVars, callVars, PlainOK, LockFits, CallsFit, Threads, Pcs, Held
<1>21. ASSUME NEW t \in Scripts, NEW n \in Names, GetCall(t, n) PROVE CallsFit'
  BY <1>21 DEF GetCall, Locks, Load, mapVars, memVars, callVars, PlainOK, LockFits, CallsFit, Threads, Pcs, Held
<1>22. ASSUME NEW t \in Scripts, NEW n \in Names, Create(t, n) PROVE CallsFit'
  BY <1>22 DEF Create, Locks, mapVars, memVars, callVars, PlainOK, LockFits, CallsFit, Threads, Pcs, Held, Free
<1>23. ASSUME NEW t \in Scripts, NEW n \in Names, SetCall(t, n) PROVE CallsFit'
  BY <1>23 DEF SetCall, Locks, Load, mapVars, memVars, callVars, PlainOK, LockFits, CallsFit, Threads, Pcs, Held
<1>24. ASSUME NEW t \in Scripts, NEW n \in Names, UnsetCall(t, n) PROVE CallsFit'
  BY <1>24 DEF UnsetCall, Locks, Load, mapVars, memVars, callVars, PlainOK, LockFits, CallsFit, Threads, Pcs, Held
<1> QED
  BY <1>1, <1>2, <1>3, <1>4, <1>5, <1>6, <1>7, <1>8, <1>9, <1>10, <1>11, <1>12,
     <1>13, <1>14, <1>15, <1>16, <1>17, <1>18, <1>19, <1>20, <1>21, <1>22,
     <1>23, <1>24
  DEF Next, Cleanup, Step, Call

\* Counts are never negative.
LEMMA RefStep == ASSUME PlainOK, RefsOK, RegsOK, CallsFit, CountIsExact, [Next]_vars PROVE RefsOK'
<1>1. CASE UNCHANGED vars
  BY <1>1 DEF vars, mapVars, memVars, callVars, RefsOK, Free
<1>2. ASSUME Tick PROVE RefsOK'
  BY <1>2 DEF Tick, mapVars, memVars, callVars, RefsOK, Free
<1>3. ASSUME CleanupCall PROVE RefsOK'
  BY <1>3 DEF CleanupCall, Locks, mapVars, memVars, callVars, RefsOK, Free
<1>4. ASSUME Erased PROVE RefsOK'
  <2>1. Host \in Threads /\ entry[arg[Host]] # None /\ arg[Host] \in NamesOf(entry[arg[Host]])
    BY <1>4 DEF Erased, Releases, Store, CallsFit, PlainOK, Threads, BinsOf, NamesOf
  <2>2. Stored(Host, entry[arg[Host]], reg[Host] - 1) \in [Blocks -> Nat]
    <3>1. reg[Host] - 1 = reg[Host] + (-1)
      BY <2>1 DEF RegsOK
    <3> QED
      BY <2>1, <3>1, StoreIsNat
  <2> QED
    BY <1>4, <2>2 DEF Erased, Releases, Store, RefsOK
<1>5. ASSUME CleanupDone PROVE RefsOK'
  BY <1>5 DEF CleanupDone, Unlocks, mapVars, memVars, callVars, RefsOK, Free
<1>6. ASSUME NEW n \in Names, Keep(n) PROVE RefsOK'
  BY <1>6 DEF Keep, Visits, mapVars, memVars, callVars, RefsOK, Free
<1>7. ASSUME NEW n \in Names, Collect(n) PROVE RefsOK'
  BY <1>7 DEF Collect, Visits, Load, mapVars, memVars, callVars, RefsOK, Free
<1>8. ASSUME NEW n \in Names, Spare(n) PROVE RefsOK'
  BY <1>8 DEF Spare, Visits, mapVars, memVars, callVars, RefsOK, Free
<1>9. ASSUME NEW t \in Scripts, Dropped(t) PROVE RefsOK'
  <2>1. t \in Threads /\ bin[t] # None /\ t \in BinsOf(bin[t])
    BY <1>9 DEF Dropped, Store, CallsFit, PlainOK, Threads, BinsOf, NamesOf
  <2>2. Stored(t, bin[t], reg[t] - 1) \in [Blocks -> Nat]
    <3>1. reg[t] - 1 = reg[t] + (-1)
      BY <2>1 DEF RegsOK
    <3> QED
      BY <2>1, <3>1, StoreIsNat
  <2> QED
    BY <1>9, <2>2 DEF Dropped, Store, RefsOK
<1>10. ASSUME NEW t \in Scripts, Copied(t) PROVE RefsOK'
  BY <1>10 DEF Copied, Load, mapVars, memVars, callVars, RefsOK, Free
<1>11. ASSUME NEW t \in Scripts, Unshared(t) PROVE RefsOK'
  <2>1. t \in Threads /\ t \in BinsOf(bin[t])
    BY <1>11 DEF Unshared, Threads, BinsOf
  <2>2. Stored(t, bin[t], reg[t] - 1) \in [Blocks -> Nat]
    <3>1. reg[t] - 1 = reg[t] + (-1)
      BY <2>1 DEF RegsOK
    <3> QED
      BY <2>1, <3>1, StoreIsNat
  <2> QED
    BY <1>11, <2>2 DEF Unshared, RefsOK, Free
<1>12. ASSUME NEW t \in Scripts, Got(t) PROVE RefsOK'
  <2>1. t \in Threads /\ entry[arg[t]] # None /\ arg[t] \in NamesOf(entry[arg[t]])
    BY <1>12 DEF Got, Store, CallsFit, PlainOK, Threads, BinsOf, NamesOf
  <2>2. Stored(t, entry[arg[t]], reg[t] + 1) \in [Blocks -> Nat]
    <3>1. reg[t] + 1 = reg[t] + (1)
      BY <2>1 DEF RegsOK
    <3> QED
      BY <2>1, <3>1, StoreIsNat
  <2> QED
    BY <1>12, <2>2 DEF Got, Store, RefsOK
<1>13. ASSUME NEW t \in Scripts, Assign(t) PROVE RefsOK'
  BY <1>13 DEF Assign, Load, mapVars, memVars, callVars, RefsOK, Free
<1>14. ASSUME NEW t \in Scripts, Assigned(t) PROVE RefsOK'
  <2>1. t \in Threads /\ bin[t] # None /\ t \in BinsOf(bin[t])
    BY <1>14 DEF Assigned, Store, CallsFit, PlainOK, Threads, BinsOf, NamesOf
  <2>2. Stored(t, bin[t], reg[t] + 1) \in [Blocks -> Nat]
    <3>1. reg[t] + 1 = reg[t] + (1)
      BY <2>1 DEF RegsOK
    <3> QED
      BY <2>1, <3>1, StoreIsNat
  <2> QED
    BY <1>14, <2>2 DEF Assigned, Store, RefsOK
<1>15. ASSUME NEW t \in Scripts, Replaced(t) PROVE RefsOK'
  <2>1. t \in Threads /\ entry[arg[t]] # None /\ arg[t] \in NamesOf(entry[arg[t]])
    BY <1>15 DEF Replaced, Releases, Store, CallsFit, PlainOK, Threads, BinsOf, NamesOf
  <2>2. Stored(t, entry[arg[t]], reg[t] - 1) \in [Blocks -> Nat]
    <3>1. reg[t] - 1 = reg[t] + (-1)
      BY <2>1 DEF RegsOK
    <3> QED
      BY <2>1, <3>1, StoreIsNat
  <2> QED
    BY <1>15, <2>2 DEF Replaced, Releases, Store, RefsOK
<1>16. ASSUME NEW t \in Scripts, Unset(t) PROVE RefsOK'
  <2>1. t \in Threads /\ entry[arg[t]] # None /\ arg[t] \in NamesOf(entry[arg[t]])
    BY <1>16 DEF Unset, Releases, Store, CallsFit, PlainOK, Threads, BinsOf, NamesOf
  <2>2. Stored(t, entry[arg[t]], reg[t] - 1) \in [Blocks -> Nat]
    <3>1. reg[t] - 1 = reg[t] + (-1)
      BY <2>1 DEF RegsOK
    <3> QED
      BY <2>1, <3>1, StoreIsNat
  <2> QED
    BY <1>16, <2>2 DEF Unset, Releases, Store, RefsOK
<1>17. ASSUME NEW t \in Scripts, New(t) PROVE RefsOK'
  BY <1>17 DEF New, mapVars, memVars, callVars, RefsOK, Free
<1>18. ASSUME NEW t \in Scripts, Point(t) PROVE RefsOK'
  BY <1>18 DEF Point, mapVars, memVars, callVars, RefsOK, Free
<1>19. ASSUME NEW t \in Scripts, DropCall(t) PROVE RefsOK'
  BY <1>19 DEF DropCall, Load, mapVars, memVars, callVars, RefsOK, Free
<1>20. ASSUME NEW t \in Scripts, ResizeCall(t) PROVE RefsOK'
  BY <1>20 DEF ResizeCall, mapVars, memVars, callVars, RefsOK, Free
<1>21. ASSUME NEW t \in Scripts, NEW n \in Names, GetCall(t, n) PROVE RefsOK'
  BY <1>21 DEF GetCall, Locks, Load, mapVars, memVars, callVars, RefsOK, Free
<1>22. ASSUME NEW t \in Scripts, NEW n \in Names, Create(t, n) PROVE RefsOK'
  BY <1>22 DEF Create, Locks, mapVars, memVars, callVars, RefsOK, Free
<1>23. ASSUME NEW t \in Scripts, NEW n \in Names, SetCall(t, n) PROVE RefsOK'
  BY <1>23 DEF SetCall, Locks, Load, mapVars, memVars, callVars, RefsOK, Free
<1>24. ASSUME NEW t \in Scripts, NEW n \in Names, UnsetCall(t, n) PROVE RefsOK'
  BY <1>24 DEF UnsetCall, Locks, Load, mapVars, memVars, callVars, RefsOK, Free
<1> QED
  BY <1>1, <1>2, <1>3, <1>4, <1>5, <1>6, <1>7, <1>8, <1>9, <1>10, <1>11, <1>12,
     <1>13, <1>14, <1>15, <1>16, <1>17, <1>18, <1>19, <1>20, <1>21, <1>22,
     <1>23, <1>24
  DEF Next, Cleanup, Step, Call

\* Counts stay exact.
LEMMA CountStep == ASSUME PlainOK, RefsOK, RegsOK, CallsFit, CountIsExact, [Next]_vars PROVE CountIsExact'
<1>1. CASE UNCHANGED vars
  BY <1>1 DEF vars, mapVars, memVars, callVars, CountIsExact, BinsOf, NamesOf
<1>2. ASSUME Tick PROVE CountIsExact'
  BY <1>2 DEF Tick, mapVars, memVars, callVars, CountIsExact, BinsOf, NamesOf, CountIsExact, BinsOf, NamesOf
<1>3. ASSUME CleanupCall PROVE CountIsExact'
  BY <1>3 DEF CleanupCall, Locks, mapVars, memVars, callVars, CountIsExact, BinsOf, NamesOf, CountIsExact, BinsOf, NamesOf
<1>4. ASSUME Erased PROVE CountIsExact'
  <2> SUFFICES ASSUME NEW b \in Blocks \ torn'
               PROVE  refs'[b] = Cardinality(BinsOf(b)') + Cardinality(NamesOf(b)')
    BY DEF CountIsExact
  <2>1. Host \in Threads /\ reg[Host] - 1 = reg[Host] + (-1) /\ arg[Host] \in Names
    BY <1>4 DEF Erased, Releases, Store, CallsFit, Threads, RegsOK
  <2>2. torn' = Torn(Host, entry[arg[Host]]) /\ refs' = Stored(Host, entry[arg[Host]], reg[Host] - 1)
    BY <1>4 DEF Erased, Releases, Store
  <2>3. b \notin torn /\ refs'[b] = refs[b] + (IF entry[arg[Host]] = b THEN -1 ELSE 0)
    BY <2>1, <2>2, StoreCounts
  <2>4. Cardinality(NamesOf(b)') = Cardinality(NamesOf(b)) + One(None, b) - One(entry[arg[Host]], b)
    BY <1>4, <2>1, EntryChanges DEF Erased, Releases, Store
  <2>5. BinsOf(b)' = BinsOf(b)
    BY <1>4 DEF Erased, Releases, Store, mapVars, BinsOf
  <2>6. refs[b] = Cardinality(BinsOf(b)) + Cardinality(NamesOf(b))
    BY <2>3 DEF CountIsExact
  <2> QED
    BY <2>1, <2>3, <2>4, <2>5, <2>6, BinsCount DEF One
<1>5. ASSUME CleanupDone PROVE CountIsExact'
  BY <1>5 DEF CleanupDone, Unlocks, mapVars, memVars, callVars, CountIsExact, BinsOf, NamesOf, CountIsExact, BinsOf, NamesOf
<1>6. ASSUME NEW n \in Names, Keep(n) PROVE CountIsExact'
  BY <1>6 DEF Keep, Visits, mapVars, memVars, callVars, CountIsExact, BinsOf, NamesOf, CountIsExact, BinsOf, NamesOf
<1>7. ASSUME NEW n \in Names, Collect(n) PROVE CountIsExact'
  BY <1>7 DEF Collect, Visits, Load, mapVars, memVars, callVars, CountIsExact, BinsOf, NamesOf, CountIsExact, BinsOf, NamesOf
<1>8. ASSUME NEW n \in Names, Spare(n) PROVE CountIsExact'
  BY <1>8 DEF Spare, Visits, mapVars, memVars, callVars, CountIsExact, BinsOf, NamesOf, CountIsExact, BinsOf, NamesOf
<1>9. ASSUME NEW t \in Scripts, Dropped(t) PROVE CountIsExact'
  <2> SUFFICES ASSUME NEW b \in Blocks \ torn'
               PROVE  refs'[b] = Cardinality(BinsOf(b)') + Cardinality(NamesOf(b)')
    BY DEF CountIsExact
  <2>1. t \in Threads /\ reg[t] - 1 = reg[t] + (-1)
    BY <1>9 DEF Dropped, Store, CallsFit, Threads, RegsOK
  <2>2. torn' = Torn(t, bin[t]) /\ refs' = Stored(t, bin[t], reg[t] - 1)
    BY <1>9 DEF Dropped, Store
  <2>3. b \notin torn /\ refs'[b] = refs[b] + (IF bin[t] = b THEN -1 ELSE 0)
    BY <2>1, <2>2, StoreCounts
  <2>4. Cardinality(BinsOf(b)') = Cardinality(BinsOf(b)) + One(None, b) - One(bin[t], b)
    BY <1>9, <2>1, BinChanges DEF Dropped, Store
  <2>5. NamesOf(b)' = NamesOf(b)
    BY <1>9 DEF Dropped, Store, mapVars, NamesOf
  <2>6. refs[b] = Cardinality(BinsOf(b)) + Cardinality(NamesOf(b))
    BY <2>3 DEF CountIsExact
  <2> QED
    BY <2>1, <2>3, <2>4, <2>5, <2>6, BinsCount DEF One
<1>10. ASSUME NEW t \in Scripts, Copied(t) PROVE CountIsExact'
  BY <1>10 DEF Copied, Load, mapVars, memVars, callVars, CountIsExact, BinsOf, NamesOf, CountIsExact, BinsOf, NamesOf
<1>11. ASSUME NEW t \in Scripts, Unshared(t) PROVE CountIsExact'
  <2> SUFFICES ASSUME NEW b \in Blocks \ torn'
               PROVE  refs'[b] = Cardinality(BinsOf(b)') + Cardinality(NamesOf(b)')
    BY DEF CountIsExact
  <2>1. PICK c \in Free : /\ torn' = Torn(t, bin[t])
                          /\ refs' = [Stored(t, bin[t], reg[t] - 1) EXCEPT ![c] = 1]
                          /\ bin' = [bin EXCEPT ![t] = c]
    BY <1>11 DEF Unshared
  <2>2. t \in Threads /\ reg[t] - 1 = reg[t] + (-1) /\ NamesOf(b)' = NamesOf(b)
    BY <1>11 DEF Unshared, Threads, RegsOK, mapVars, NamesOf
  <2>3. b \notin torn /\ Stored(t, bin[t], reg[t] - 1)[b] = refs[b] + (IF bin[t] = b THEN -1 ELSE 0)
    BY <2>1, <2>2, StoreCounts
  <2>4. Cardinality(BinsOf(b)') = Cardinality(BinsOf(b)) + One(c, b) - One(bin[t], b)
    BY <2>1, BinChanges
  <2>5. refs[b] = Cardinality(BinsOf(b)) + Cardinality(NamesOf(b))
    BY <2>3 DEF CountIsExact
  <2>6. c # bin[t]
    BY FreeIsUnheld DEF BinsOf
  <2>7. b = c => refs[b] = 0
    BY DEF Free
  <2>8. refs'[b] = IF c = b THEN 1 ELSE Stored(t, bin[t], reg[t] - 1)[b]
    <3>1. DOMAIN Stored(t, bin[t], reg[t] - 1) = Blocks
      BY DEF Stored, RefsOK
    <3> QED
      BY <2>1, <3>1
  <2> QED
    BY <2>2, <2>3, <2>4, <2>5, <2>6, <2>7, <2>8, BinsCount DEF One
<1>12. ASSUME NEW t \in Scripts, Got(t) PROVE CountIsExact'
  <2> SUFFICES ASSUME NEW b \in Blocks \ torn'
               PROVE  refs'[b] = Cardinality(BinsOf(b)') + Cardinality(NamesOf(b)')
    BY DEF CountIsExact
  <2>1. t \in Threads /\ reg[t] + 1 = reg[t] + (1) /\ arg[t] \in Names /\ bin[t] = None
    BY <1>12 DEF Got, Store, CallsFit, Threads, RegsOK
  <2>2. torn' = Torn(t, entry[arg[t]]) /\ refs' = Stored(t, entry[arg[t]], reg[t] + 1)
    BY <1>12 DEF Got, Store
  <2>3. b \notin torn /\ refs'[b] = refs[b] + (IF entry[arg[t]] = b THEN 1 ELSE 0)
    BY <2>1, <2>2, StoreCounts
  <2>4. Cardinality(BinsOf(b)') = Cardinality(BinsOf(b)) + One(entry[arg[t]], b) - One(bin[t], b)
    BY <1>12, <2>1, BinChanges DEF Got, Store
  <2>5. NamesOf(b)' = NamesOf(b)
    BY <1>12 DEF Got, Store, mapVars, NamesOf
  <2>6. refs[b] = Cardinality(BinsOf(b)) + Cardinality(NamesOf(b))
    BY <2>3 DEF CountIsExact
  <2> QED
    BY <2>1, <2>3, <2>4, <2>5, <2>6, BinsCount DEF One
<1>13. ASSUME NEW t \in Scripts, Assign(t) PROVE CountIsExact'
  BY <1>13 DEF Assign, Load, mapVars, memVars, callVars, CountIsExact, BinsOf, NamesOf, CountIsExact, BinsOf, NamesOf
<1>14. ASSUME NEW t \in Scripts, Assigned(t) PROVE CountIsExact'
  <2> SUFFICES ASSUME NEW b \in Blocks \ torn'
               PROVE  refs'[b] = Cardinality(BinsOf(b)') + Cardinality(NamesOf(b)')
    BY DEF CountIsExact
  <2>1. t \in Threads /\ reg[t] + 1 = reg[t] + (1) /\ arg[t] \in Names /\ entry[arg[t]] = None
    BY <1>14 DEF Assigned, Store, CallsFit, Threads, RegsOK
  <2>2. torn' = Torn(t, bin[t]) /\ refs' = Stored(t, bin[t], reg[t] + 1)
    BY <1>14 DEF Assigned, Store
  <2>3. b \notin torn /\ refs'[b] = refs[b] + (IF bin[t] = b THEN 1 ELSE 0)
    BY <2>1, <2>2, StoreCounts
  <2>4. Cardinality(NamesOf(b)') = Cardinality(NamesOf(b)) + One(bin[t], b) - One(entry[arg[t]], b)
    BY <1>14, <2>1, EntryChanges DEF Assigned, Store
  <2>5. BinsOf(b)' = BinsOf(b)
    BY <1>14 DEF Assigned, Store, mapVars, BinsOf
  <2>6. refs[b] = Cardinality(BinsOf(b)) + Cardinality(NamesOf(b))
    BY <2>3 DEF CountIsExact
  <2> QED
    BY <2>1, <2>3, <2>4, <2>5, <2>6, BinsCount DEF One
<1>15. ASSUME NEW t \in Scripts, Replaced(t) PROVE CountIsExact'
  <2> SUFFICES ASSUME NEW b \in Blocks \ torn'
               PROVE  refs'[b] = Cardinality(BinsOf(b)') + Cardinality(NamesOf(b)')
    BY DEF CountIsExact
  <2>1. t \in Threads /\ reg[t] - 1 = reg[t] + (-1) /\ arg[t] \in Names
    BY <1>15 DEF Replaced, Releases, Store, CallsFit, Threads, RegsOK
  <2>2. torn' = Torn(t, entry[arg[t]]) /\ refs' = Stored(t, entry[arg[t]], reg[t] - 1)
    BY <1>15 DEF Replaced, Releases, Store
  <2>3. b \notin torn /\ refs'[b] = refs[b] + (IF entry[arg[t]] = b THEN -1 ELSE 0)
    BY <2>1, <2>2, StoreCounts
  <2>4. Cardinality(NamesOf(b)') = Cardinality(NamesOf(b)) + One(None, b) - One(entry[arg[t]], b)
    BY <1>15, <2>1, EntryChanges DEF Replaced, Releases, Store
  <2>5. BinsOf(b)' = BinsOf(b)
    BY <1>15 DEF Replaced, Releases, Store, mapVars, BinsOf
  <2>6. refs[b] = Cardinality(BinsOf(b)) + Cardinality(NamesOf(b))
    BY <2>3 DEF CountIsExact
  <2> QED
    BY <2>1, <2>3, <2>4, <2>5, <2>6, BinsCount DEF One
<1>16. ASSUME NEW t \in Scripts, Unset(t) PROVE CountIsExact'
  <2> SUFFICES ASSUME NEW b \in Blocks \ torn'
               PROVE  refs'[b] = Cardinality(BinsOf(b)') + Cardinality(NamesOf(b)')
    BY DEF CountIsExact
  <2>1. t \in Threads /\ reg[t] - 1 = reg[t] + (-1) /\ arg[t] \in Names
    BY <1>16 DEF Unset, Releases, Store, CallsFit, Threads, RegsOK
  <2>2. torn' = Torn(t, entry[arg[t]]) /\ refs' = Stored(t, entry[arg[t]], reg[t] - 1)
    BY <1>16 DEF Unset, Releases, Store
  <2>3. b \notin torn /\ refs'[b] = refs[b] + (IF entry[arg[t]] = b THEN -1 ELSE 0)
    BY <2>1, <2>2, StoreCounts
  <2>4. Cardinality(NamesOf(b)') = Cardinality(NamesOf(b)) + One(None, b) - One(entry[arg[t]], b)
    BY <1>16, <2>1, EntryChanges DEF Unset, Releases, Store
  <2>5. BinsOf(b)' = BinsOf(b)
    BY <1>16 DEF Unset, Releases, Store, mapVars, BinsOf
  <2>6. refs[b] = Cardinality(BinsOf(b)) + Cardinality(NamesOf(b))
    BY <2>3 DEF CountIsExact
  <2> QED
    BY <2>1, <2>3, <2>4, <2>5, <2>6, BinsCount DEF One
<1>17. ASSUME NEW t \in Scripts, New(t) PROVE CountIsExact'
  <2> SUFFICES ASSUME NEW b \in Blocks \ torn'
               PROVE  refs'[b] = Cardinality(BinsOf(b)') + Cardinality(NamesOf(b)')
    BY DEF CountIsExact
  <2>1. PICK c \in Free : bin' = [bin EXCEPT ![t] = c] /\ refs' = [refs EXCEPT ![c] = 1]
    BY <1>17 DEF New
  <2>2. bin[t] = None /\ torn' = torn /\ NamesOf(b)' = NamesOf(b)
    BY <1>17 DEF New, mapVars, NamesOf
  <2>3. Cardinality(BinsOf(b)') = Cardinality(BinsOf(b)) + One(c, b) - One(bin[t], b)
    BY <2>1, BinChanges
  <2>4. c \in Blocks \ torn /\ refs[c] = 0
    BY DEF Free
  <2>5. refs'[b] = IF c = b THEN refs[b] + 1 ELSE refs[b]
    BY <2>1, <2>4 DEF RefsOK
  <2>6. refs[b] = Cardinality(BinsOf(b)) + Cardinality(NamesOf(b))
    BY <2>2 DEF CountIsExact
  <2> QED
    BY <2>2, <2>3, <2>5, <2>6, BinsCount DEF One
<1>18. ASSUME NEW t \in Scripts, Point(t) PROVE CountIsExact'
  BY <1>18 DEF Point, mapVars, memVars, callVars, CountIsExact, BinsOf, NamesOf, CountIsExact, BinsOf, NamesOf
<1>19. ASSUME NEW t \in Scripts, DropCall(t) PROVE CountIsExact'
  BY <1>19 DEF DropCall, Load, mapVars, memVars, callVars, CountIsExact, BinsOf, NamesOf, CountIsExact, BinsOf, NamesOf
<1>20. ASSUME NEW t \in Scripts, ResizeCall(t) PROVE CountIsExact'
  BY <1>20 DEF ResizeCall, mapVars, memVars, callVars, CountIsExact, BinsOf, NamesOf, CountIsExact, BinsOf, NamesOf
<1>21. ASSUME NEW t \in Scripts, NEW n \in Names, GetCall(t, n) PROVE CountIsExact'
  BY <1>21 DEF GetCall, Locks, Load, mapVars, memVars, callVars, CountIsExact, BinsOf, NamesOf, CountIsExact, BinsOf, NamesOf
<1>22. ASSUME NEW t \in Scripts, NEW n \in Names, Create(t, n) PROVE CountIsExact'
  <2> SUFFICES ASSUME NEW b \in Blocks \ torn'
               PROVE  refs'[b] = Cardinality(BinsOf(b)') + Cardinality(NamesOf(b)')
    BY DEF CountIsExact
  <2>1. PICK c \in Free : entry' = [entry EXCEPT ![n] = c] /\ refs' = [refs EXCEPT ![c] = 1]
    BY <1>22 DEF Create
  <2>2. entry[n] = None /\ torn' = torn /\ BinsOf(b)' = BinsOf(b)
    BY <1>22 DEF Create, BinsOf
  <2>3. Cardinality(NamesOf(b)') = Cardinality(NamesOf(b)) + One(c, b) - One(entry[n], b)
    BY <2>1, EntryChanges
  <2>4. c \in Blocks \ torn /\ refs[c] = 0
    BY DEF Free
  <2>5. refs'[b] = IF c = b THEN refs[b] + 1 ELSE refs[b]
    BY <2>1, <2>4 DEF RefsOK
  <2>6. refs[b] = Cardinality(BinsOf(b)) + Cardinality(NamesOf(b))
    BY <2>2 DEF CountIsExact
  <2> QED
    BY <2>2, <2>3, <2>5, <2>6, BinsCount DEF One
<1>23. ASSUME NEW t \in Scripts, NEW n \in Names, SetCall(t, n) PROVE CountIsExact'
  BY <1>23 DEF SetCall, Locks, Load, mapVars, memVars, callVars, CountIsExact, BinsOf, NamesOf, CountIsExact, BinsOf, NamesOf
<1>24. ASSUME NEW t \in Scripts, NEW n \in Names, UnsetCall(t, n) PROVE CountIsExact'
  BY <1>24 DEF UnsetCall, Locks, Load, mapVars, memVars, callVars, CountIsExact, BinsOf, NamesOf, CountIsExact, BinsOf, NamesOf
<1> QED
  BY <1>1, <1>2, <1>3, <1>4, <1>5, <1>6, <1>7, <1>8, <1>9, <1>10, <1>11, <1>12,
     <1>13, <1>14, <1>15, <1>16, <1>17, <1>18, <1>19, <1>20, <1>21, <1>22,
     <1>23, <1>24
  DEF Next, Cleanup, Step, Call

\* What Cleanup is about to erase stays unused.
LEMMA UnusedStep == ASSUME PlainOK, RefsOK, LockFits, CallsFit, CountIsExact, ErasesUnused, [Next]_vars PROVE ErasesUnused'
<1>1. CASE UNCHANGED vars
  BY <1>1 DEF vars, mapVars, memVars, callVars, ErasesUnused, BinsOf
<1>2. ASSUME Tick PROVE ErasesUnused'
  BY <1>2 DEF Tick, mapVars, memVars, callVars, ErasesUnused, BinsOf, ErasesUnused, LockFits, CallsFit, PlainOK, Threads, BinsOf
<1>3. ASSUME CleanupCall PROVE ErasesUnused'
  BY <1>3 DEF CleanupCall, Locks, mapVars, memVars, callVars, ErasesUnused, BinsOf, ErasesUnused, LockFits, CallsFit, PlainOK, Threads, BinsOf
<1>4. ASSUME Erased PROVE ErasesUnused'
  BY <1>4 DEF Erased, Releases, Store, mapVars, memVars, callVars, ErasesUnused, BinsOf, ErasesUnused, LockFits, CallsFit, PlainOK, Threads, BinsOf
<1>5. ASSUME CleanupDone PROVE ErasesUnused'
  BY <1>5 DEF CleanupDone, Unlocks, mapVars, memVars, callVars, ErasesUnused, BinsOf, ErasesUnused, LockFits, CallsFit, PlainOK, Threads, BinsOf
<1>6. ASSUME NEW n \in Names, Keep(n) PROVE ErasesUnused'
  BY <1>6 DEF Keep, Visits, mapVars, memVars, callVars, ErasesUnused, BinsOf, ErasesUnused, LockFits, CallsFit, PlainOK, Threads, BinsOf
<1>7. ASSUME NEW n \in Names, Collect(n) PROVE ErasesUnused'
  <2>1. pc'[Host] = "erase" /\ arg'[Host] = n /\ age' = age /\ entry' = entry /\ torn' = torn /\ bin' = bin
    BY <1>7 DEF Collect, Visits, Load, PlainOK, Threads, mapVars, memVars
  <2>2. age[n] > Timeout
    BY <1>7 DEF Collect
  <2>3. ASSUME entry[n] \in Blocks \ torn PROVE BinsOf(entry[n]) = {}
    <3>1. ~(refs[entry[n]] > 1)
      <4>1. FALSE \in {refs[entry[n]] > 1}
        BY <1>7, <2>3 DEF Collect, Unused, Shared
      <4> QED
        BY <4>1, Zenon
    <3>2. refs[entry[n]] = Cardinality(BinsOf(entry[n])) + Cardinality(NamesOf(entry[n]))
      BY <2>3 DEF CountIsExact
    <3>3. Cardinality(NamesOf(entry[n])) # 0
      BY BinsCount DEF NamesOf
    <3> QED
      BY <3>1, <3>2, <3>3, BinsCount
  <2> QED
    BY <2>1, <2>2, <2>3 DEF ErasesUnused, BinsOf
<1>8. ASSUME NEW n \in Names, Spare(n) PROVE ErasesUnused'
  BY <1>8 DEF Spare, Visits, mapVars, memVars, callVars, ErasesUnused, BinsOf, ErasesUnused, LockFits, CallsFit, PlainOK, Threads, BinsOf
<1>9. ASSUME NEW t \in Scripts, Dropped(t) PROVE ErasesUnused'
  <2>1. pc'[Host] = "erase" =>
           /\ pc[Host] = "erase" /\ arg'[Host] = arg[Host] /\ arg[Host] \in Names
           /\ age' = age /\ entry' = entry
    BY <1>9 DEF Dropped, Store, mapVars, CallsFit, PlainOK, Threads
  <2>2. ASSUME pc'[Host] = "erase", entry[arg[Host]] \in Blocks \ torn', NEW u \in Scripts
        PROVE  entry[arg[Host]] \notin torn /\ bin'[u] # entry[arg[Host]]
    BY <1>9, <2>1, <2>2 DEF Dropped, Store, ErasesUnused, BinsOf, PlainOK, Torn
  <2> QED
    BY <2>1, <2>2 DEF ErasesUnused, BinsOf
<1>10. ASSUME NEW t \in Scripts, Copied(t) PROVE ErasesUnused'
  BY <1>10 DEF Copied, Load, mapVars, memVars, callVars, ErasesUnused, BinsOf, ErasesUnused, LockFits, CallsFit, PlainOK, Threads, BinsOf
<1>11. ASSUME NEW t \in Scripts, Unshared(t) PROVE ErasesUnused'
  <2>1. pc'[Host] = "erase" =>
           /\ pc[Host] = "erase" /\ arg'[Host] = arg[Host] /\ arg[Host] \in Names
           /\ age' = age /\ entry' = entry
    BY <1>11 DEF Unshared, mapVars, CallsFit, PlainOK, Threads
  <2>2. ASSUME pc'[Host] = "erase", entry[arg[Host]] \in Blocks \ torn', NEW u \in Scripts
        PROVE  entry[arg[Host]] \notin torn /\ bin'[u] # entry[arg[Host]]
    <3>1. PICK c \in Free : torn' = Torn(t, bin[t]) /\ bin' = [bin EXCEPT ![t] = c]
      BY <1>11 DEF Unshared
    <3>2. c # entry[arg[Host]]
      BY <2>1, <2>2, FreeIsUnheld DEF NamesOf
    <3>3. entry[arg[Host]] \notin torn /\ bin[u] # entry[arg[Host]]
      BY <2>1, <2>2, <3>1 DEF ErasesUnused, BinsOf, Torn
    <3> QED
      BY <3>1, <3>2, <3>3 DEF PlainOK
  <2> QED
    BY <2>1, <2>2 DEF ErasesUnused, BinsOf
<1>12. ASSUME NEW t \in Scripts, Got(t) PROVE ErasesUnused'
  BY <1>12 DEF Got, Store, Unlocks, mapVars, memVars, callVars, ErasesUnused, BinsOf, ErasesUnused, LockFits, CallsFit, PlainOK, Threads, BinsOf
<1>13. ASSUME NEW t \in Scripts, Assign(t) PROVE ErasesUnused'
  BY <1>13 DEF Assign, Load, mapVars, memVars, callVars, ErasesUnused, BinsOf, ErasesUnused, LockFits, CallsFit, PlainOK, Threads, BinsOf
<1>14. ASSUME NEW t \in Scripts, Assigned(t) PROVE ErasesUnused'
  BY <1>14 DEF Assigned, Store, Unlocks, mapVars, memVars, callVars, ErasesUnused, BinsOf, ErasesUnused, LockFits, CallsFit, PlainOK, Threads, BinsOf
<1>15. ASSUME NEW t \in Scripts, Replaced(t) PROVE ErasesUnused'
  BY <1>15 DEF Replaced, Releases, Store, mapVars, memVars, callVars, ErasesUnused, BinsOf, ErasesUnused, LockFits, CallsFit, PlainOK, Threads, BinsOf
<1>16. ASSUME NEW t \in Scripts, Unset(t) PROVE ErasesUnused'
  BY <1>16 DEF Unset, Releases, Store, Unlocks, mapVars, memVars, callVars, ErasesUnused, BinsOf, ErasesUnused, LockFits, CallsFit, PlainOK, Threads, BinsOf
<1>17. ASSUME NEW t \in Scripts, New(t) PROVE ErasesUnused'
  <2>1. pc'[Host] = "erase" =>
           /\ pc[Host] = "erase" /\ arg'[Host] = arg[Host] /\ arg[Host] \in Names
           /\ age' = age /\ entry' = entry
    BY <1>17 DEF New, mapVars, callVars, CallsFit, PlainOK, Threads
  <2>2. ASSUME pc'[Host] = "erase", entry[arg[Host]] \in Blocks \ torn', NEW u \in Scripts
        PROVE  entry[arg[Host]] \notin torn /\ bin'[u] # entry[arg[Host]]
    <3>1. PICK c \in Free : bin' = [bin EXCEPT ![t] = c]
      BY <1>17 DEF New
    <3>2. c # entry[arg[Host]]
      BY <2>1, <2>2, FreeIsUnheld DEF NamesOf
    <3>3. entry[arg[Host]] \notin torn /\ bin[u] # entry[arg[Host]]
      BY <1>17, <2>1, <2>2 DEF New, ErasesUnused, BinsOf
    <3> QED
      BY <3>1, <3>2, <3>3 DEF PlainOK
  <2> QED
    BY <2>1, <2>2 DEF ErasesUnused, BinsOf
<1>18. ASSUME NEW t \in Scripts, Point(t) PROVE ErasesUnused'
  <2>1. pc'[Host] = "erase" =>
           /\ pc[Host] = "erase" /\ arg'[Host] = arg[Host] /\ arg[Host] \in Names
           /\ age' = age /\ entry' = entry
    BY <1>18 DEF Point, mapVars, callVars, CallsFit, PlainOK, Threads
  <2>2. ASSUME pc'[Host] = "erase", entry[arg[Host]] \in Blocks \ torn', NEW u \in Scripts
        PROVE  entry[arg[Host]] \notin torn /\ bin'[u] # entry[arg[Host]]
    BY <1>18, <2>1, <2>2 DEF Point, ErasesUnused, BinsOf, PlainOK, memVars
  <2> QED
    BY <2>1, <2>2 DEF ErasesUnused, BinsOf
<1>19. ASSUME NEW t \in Scripts, DropCall(t) PROVE ErasesUnused'
  BY <1>19 DEF DropCall, Load, mapVars, memVars, callVars, ErasesUnused, BinsOf, ErasesUnused, LockFits, CallsFit, PlainOK, Threads, BinsOf
<1>20. ASSUME NEW t \in Scripts, ResizeCall(t) PROVE ErasesUnused'
  BY <1>20 DEF ResizeCall, mapVars, memVars, callVars, ErasesUnused, BinsOf, ErasesUnused, LockFits, CallsFit, PlainOK, Threads, BinsOf
<1>21. ASSUME NEW t \in Scripts, NEW n \in Names, GetCall(t, n) PROVE ErasesUnused'
  BY <1>21 DEF GetCall, Locks, Load, mapVars, memVars, callVars, ErasesUnused, BinsOf, ErasesUnused, LockFits, CallsFit, PlainOK, Threads, BinsOf
<1>22. ASSUME NEW t \in Scripts, NEW n \in Names, Create(t, n) PROVE ErasesUnused'
  BY <1>22 DEF Create, Locks, mapVars, memVars, callVars, ErasesUnused, BinsOf, ErasesUnused, LockFits, CallsFit, PlainOK, Threads, BinsOf
<1>23. ASSUME NEW t \in Scripts, NEW n \in Names, SetCall(t, n) PROVE ErasesUnused'
  BY <1>23 DEF SetCall, Locks, Load, mapVars, memVars, callVars, ErasesUnused, BinsOf, ErasesUnused, LockFits, CallsFit, PlainOK, Threads, BinsOf
<1>24. ASSUME NEW t \in Scripts, NEW n \in Names, UnsetCall(t, n) PROVE ErasesUnused'
  BY <1>24 DEF UnsetCall, Locks, Load, mapVars, memVars, callVars, ErasesUnused, BinsOf, ErasesUnused, LockFits, CallsFit, PlainOK, Threads, BinsOf
<1> QED
  BY <1>1, <1>2, <1>3, <1>4, <1>5, <1>6, <1>7, <1>8, <1>9, <1>10, <1>11, <1>12,
     <1>13, <1>14, <1>15, <1>16, <1>17, <1>18, <1>19, <1>20, <1>21, <1>22,
     <1>23, <1>24
  DEF Next, Cleanup, Step, Call

-----------------------------------------------------------------------------
LEMMA InitIInv == Init => IInv
<1> SUFFICES ASSUME Init PROVE IInv
  OBVIOUS
<1>1. PlainOK
  BY DEF Init, PlainOK, Threads, Pcs, Ages
<1>2. RefsOK /\ RegsOK
  BY DEF Init, RefsOK, RegsOK
<1>3. LockFits /\ CallsFit /\ ErasesUnused
  BY DEF Init, LockFits, CallsFit, ErasesUnused, Threads
<1>4. CountIsExact
  <2>1. ASSUME NEW b \in Blocks PROVE BinsOf(b) = {} /\ NamesOf(b) = {}
    BY DEF Init, BinsOf, NamesOf
  <2>2. ASSUME NEW b \in Blocks PROVE refs[b] = Cardinality(BinsOf(b)) + Cardinality(NamesOf(b))
    BY <2>1, BinsCount DEF Init
  <2> QED
    BY <2>2 DEF CountIsExact
<1> QED
  BY <1>1, <1>2, <1>3, <1>4 DEF IInv

LEMMA StepIInv == IInv /\ [Next]_vars => IInv'
BY PlainStep, RefStep, RegStep, LockStep, CallStep, CountStep, UnusedStep DEF IInv

\* Every variable keeps its type; no count ever goes below zero.
THEOREM Types == Spec => []TypeOK
<1>1. IInv => TypeOK
  BY DEF IInv, PlainOK, RefsOK, RegsOK, TypeOK
<1> QED
  BY InitIInv, StepIInv, <1>1, PTL DEF Spec

\* A block's count is the number of CBins that hold it, of scripts and of
\* names, whatever copies, assignments and collections do at the same time, as
\* long as no two changes of that count have met.
THEOREM TheCountIsExact == Spec => []CountIsExact
<1>1. IInv => CountIsExact
  BY DEF IInv
<1> QED
  BY InitIInv, StepIInv, <1>1, PTL DEF Spec

\* Cleanup never erases a name that was used a short while ago or whose buffer
\* a script holds.
THEOREM WhatIsCollectedIsUnused == Spec => CollectedIsUnused
<1>1. IInv /\ [Next]_vars => [Erased =>
         LET n == arg[Host]
         IN /\ age[n] > Timeout
            /\ entry[n] \in Blocks \ torn => BinsOf(entry[n]) = {}]_vars
  BY DEF IInv, ErasesUnused, Erased
<1> QED
  BY InitIInv, StepIInv, <1>1, PTL DEF Spec, CollectedIsUnused
=============================================================================
