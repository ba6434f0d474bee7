------------------------- MODULE ScriptTimersProofs -------------------------
(***************************************************************************)
(* Proofs about ScriptTimers, for any periods, any number of timers and    *)
(* any resolution of the clock.                                            *)
(***************************************************************************)
EXTENDS ScriptTimers, TLAPS

USE PeriodsArePositive, TimesArePositive, BoundsAreNat, ScaleIsPositive, WidthIsWide

InPass == pc \in {"walk", "callback"}

\* An entry that was called after it was killed is in the map only until the
\* pass that called it is over, and the walk is past it.
OnceMore ==
    /\ \A i \in Ids : late[i] <= 1 /\ (i > tid => late[i] = 0)
    /\ \A i \in Live : late[i] # 0 => i \in remove /\ InPass /\ i <= cursor

\* The sample up to which an entry has been given its time.
Upto(i) == IF InPass /\ i > cursor THEN prev ELSE sampled

\* Whole milliseconds given to a timer since it was set.
Spent(i) == fires[i] * timers[i].period + timers[i].to - timers[i].period

Account(i) ==
    /\ Spent(i) * TicksPerMs <= Upto(i) - base[i]
    /\ Upto(i) - base[i] <= Spent(i) * TicksPerMs + passes[i] * (TicksPerMs - 1)

\* Before the first pass nothing is counted, nor for an id that is yet to come.
NotYet ==
    /\ sampled = 0 => \A i \in Live : base[i] = 0 /\ passes[i] = 0
    /\ \A i \in Ids : i > tid => fires[i] = 0 /\ passes[i] = 0

\* As long as the clock runs forward: every timer has been given the time since
\* it was set, up to the sample that it has seen.
Accounts ==
    ~setBack =>
        /\ NotYet
        /\ sampled <= clock
        /\ pc = "loop" => cursor = 0
        /\ InPass => sampled # 0 /\ prev # 0 /\ prev <= sampled /\ elapsed = (sampled - prev) \div TicksPerMs
        /\ \A i \in Live : timers[i].at = 0 => Account(i)

\* The inductive invariant.
IInv == TypeOK /\ OnceMore /\ WaitIsShort /\ Accounts

\* Whole units in a time.
LEMMA DivBounds ==
    ASSUME NEW d \in Nat, NEW T \in Nat \ {0}
    PROVE  d \div T \in Nat /\ (d \div T) * T <= d /\ d <= (d \div T) * T + (T - 1) /\ d \div T <= d
<1>1. d = T * (d \div T) + (d % T) /\ d % T \in 0 .. T - 1
  OBVIOUS
<1>2. d \div T \in Int
  OBVIOUS
<1> QED
  BY <1>1, <1>2

LEMMA TimesBounds ==
    ASSUME NEW x \in Int, NEW T \in Nat \ {0}, NEW m \in Nat, x * T <= m
    PROVE  x <= m
<1>1. CASE x <= 0
  BY <1>1
<1>2. CASE x > 0
  <2>1. x * (T - 1) >= 0
    BY <1>2
  <2>2. x * T = x * (T - 1) + x
    OBVIOUS
  <2> QED
    BY <2>1, <2>2
<1> QED
  BY <1>1, <1>2

\* A pass of d ticks, of which e whole milliseconds are given, adds less than a
\* millisecond to what is missing.
LEMMA PassAdds ==
    ASSUME NEW g \in Int, NEW r \in Int, NEW d \in Nat, NEW n \in Nat, NEW T \in Nat \ {0},
           NEW e \in Nat, e * T <= d, d <= e * T + (T - 1),
           g * T <= r, r <= g * T + n * (T - 1)
    PROVE  (g + e) * T <= r + d /\ r + d <= (g + e) * T + (n + 1) * (T - 1)
<1>1. (g + e) * T = g * T + e * T
  OBVIOUS
<1>2. (n + 1) * (T - 1) = n * (T - 1) + (T - 1)
  OBVIOUS
<1>3. g * T \in Int /\ e * T \in Int /\ n * (T - 1) \in Int
  OBVIOUS
<1> QED
  BY <1>1, <1>2, <1>3

-----------------------------------------------------------------------------
(* What becomes of the map, entry by entry. *)

Added(entry) ==
    /\ Live' = Live \cup {tid + 1} /\ timers'[tid + 1] = entry
    /\ \A j \in Live : timers'[j] = timers[j] /\ j # tid + 1

Removed(S) ==
    /\ Live' = Live \ S
    /\ \A j \in Live' : timers'[j] = timers[j]

Visited(i) ==
    /\ Live' = Live /\ i \in Live
    /\ \A j \in Live : j # i => timers'[j] = timers[j]
    /\ timers[i].at = 0 /\ timers'[i].at = 0 /\ timers'[i].period = timers[i].period
    /\ timers'[i].to = IF Given(i) >= timers[i].period THEN Given(i) - timers[i].period ELSE Given(i)

LEMMA Entries ==
    ASSUME TypeOK
    PROVE  \A i \in Live :
               /\ i \in Ids /\ i <= tid
               /\ timers[i].at \in Nat /\ timers[i].period \in Nat /\ timers[i].to \in 0 .. Width - 1
               /\ timers[i].at = 0 => timers[i].period \in Periods /\ timers[i] \in Timer
<1> SUFFICES ASSUME NEW i \in Live
             PROVE  /\ i \in Ids /\ i <= tid
                    /\ timers[i].at \in Nat /\ timers[i].period \in Nat /\ timers[i].to \in 0 .. Width - 1
                    /\ timers[i].at = 0 => timers[i].period \in Periods /\ timers[i] \in Timer
  OBVIOUS
<1>1. i \in Ids /\ i <= tid
  BY DEF TypeOK, Ids
<1>2. CASE timers[i] \in Timer
  <2>1. timers[i].period \in Periods /\ timers[i].at = 0 /\ timers[i].to \in 0 .. Width - 1
    BY <1>2 DEF Timer
  <2>2. timers[i].period \in Nat
    BY <2>1
  <2> QED
    BY <1>1, <1>2, <2>1, <2>2
<1>3. CASE timers[i] \in Timeout
  <2>1. timers[i].at \in Times /\ timers[i].period = 0 /\ timers[i].to = 0
    BY <1>3 DEF Timeout
  <2>2. timers[i].at \in Nat \ {0}
    BY <2>1
  <2>3. 0 \in 0 .. Width - 1
    OBVIOUS
  <2> QED
    BY <1>1, <2>1, <2>2, <2>3
<1> QED
  BY <1>2, <1>3 DEF TypeOK

LEMMA InsertAdds == ASSUME TypeOK, NEW entry, Insert(entry) PROVE Added(entry)
<1>1. tid \in Nat /\ tid + 1 \notin Live
  BY DEF TypeOK
<1> QED
  BY <1>1 DEF Insert, Added, Live

LEMMA CallbackRemoves == ASSUME CallbackReturns PROVE \E S \in SUBSET Live : Removed(S)
<1>1. PICK negative \in BOOLEAN :
        timers' = IF negative \/ timers[cursor].at # 0 THEN Without({cursor}) ELSE timers
  BY DEF CallbackReturns
<1>2. CASE timers' = timers
  <2>1. Removed({})
    BY <1>2 DEF Removed, Live
  <2> QED
    BY <2>1
<1>3. CASE timers' = Without({cursor})
  <2>1. Removed({cursor} \cap Live)
    BY <1>3 DEF Removed, Live, Without
  <2> QED
    BY <2>1
<1> QED
  BY <1>1, <1>2, <1>3

LEMMA EndPassRemoves == ASSUME EndPass PROVE Removed(remove)
BY DEF EndPass, Removed, Live, Without

LEMMA GivenIsInt ==
    ASSUME TypeOK, NEW i \in Live, timers[i].at = 0
    PROVE  Given(i) \in 0 .. Width - 1 /\ timers[i].period \in Nat \ {0}
<1>1. timers[i].period \in Periods /\ timers[i].to \in 0 .. Width - 1
  BY Entries
<1>2. elapsed \in 0 .. Width - 1 /\ Width \in Nat \ {0}
  BY <1>1 DEF TypeOK
<1>3. (timers[i].to + elapsed) % Width \in 0 .. Width - 1
  BY <1>1, <1>2
<1> QED
  BY <1>1, <1>3 DEF Given

LEMMA VisitVisits == ASSUME TypeOK, NEW i \in Ids, VisitTimer(i) PROVE Visited(i)
<1>1. i \in Live /\ timers[i].at = 0
  BY DEF VisitTimer, IsNext
<1>2. timers[i] \in Timer
  BY <1>1, Entries
<1>3. timers' = [timers EXCEPT ![i].to =
                   IF Given(i) >= timers[i].period THEN Given(i) - timers[i].period ELSE Given(i)]
  BY DEF VisitTimer
<1>4. Live' = Live /\ \A j \in Live : j # i => timers'[j] = timers[j]
  BY <1>3 DEF Live
<1>5. timers'[i] = [timers[i] EXCEPT !.to =
                      IF Given(i) >= timers[i].period THEN Given(i) - timers[i].period ELSE Given(i)]
  BY <1>1, <1>3 DEF Live
<1>6. timers'[i].at = 0 /\ timers'[i].period = timers[i].period
  BY <1>1, <1>2, <1>5 DEF Timer
<1>7. timers'[i].to = IF Given(i) >= timers[i].period THEN Given(i) - timers[i].period ELSE Given(i)
  BY <1>2, <1>5 DEF Timer
<1> QED
  BY <1>1, <1>4, <1>6, <1>7 DEF Visited

-----------------------------------------------------------------------------
(* Types *)

\* The map's part of the type invariant.
MapOK ==
    /\ Live \subseteq 1 .. tid /\ tid \in 0 .. MaxId
    /\ \A i \in Live : timers[i] \in Timer \cup Timeout

\* The map's types are kept.
LEMMA MapStep == ASSUME TypeOK, [Next]_vars PROVE MapOK'
<1> USE DEF MapOK
<1>0. MapOK
  BY DEF TypeOK
<1>1. ASSUME UNCHANGED <<timers, tid>> PROVE MapOK'
  BY <1>0, <1>1 DEF Live
<1>2. ASSUME NEW entry \in Timer \cup Timeout, Insert(entry) PROVE MapOK'
  <2>1. Added(entry)
    BY <1>2, InsertAdds
  <2>2. tid' = tid + 1 /\ tid \in Nat /\ tid' \in 0 .. MaxId
    BY <1>0, <1>2 DEF Insert
  <2>3. \A j \in Live' : timers'[j] \in Timer \cup Timeout
    BY <1>0, <2>1 DEF Added
  <2>4. Live' \subseteq 1 .. tid'
    BY <1>0, <2>1, <2>2 DEF Added
  <2> QED
    BY <2>2, <2>3, <2>4
<1>3. ASSUME NEW S, Removed(S), tid' = tid PROVE MapOK'
  BY <1>0, <1>3 DEF Removed
<1>4. ASSUME NEW p \in Periods, SetTimer(p) PROVE MapOK'
  <2>1. [period |-> p, at |-> 0, to |-> p] \in Timer
    BY DEF Timer
  <2> QED
    BY <1>2, <1>4, <2>1 DEF SetTimer
<1>5. ASSUME NEW at \in Times, SetTimeout(at) PROVE MapOK'
  <2>1. [period |-> 0, at |-> at, to |-> 0] \in Timeout
    BY DEF Timeout
  <2> QED
    BY <1>2, <1>5, <2>1 DEF SetTimeout
<1>6. ASSUME CallbackReturns PROVE MapOK'
  <2>1. tid' = tid
    BY <1>6 DEF CallbackReturns
  <2> QED
    BY <1>3, <1>6, <2>1, CallbackRemoves
<1>7. ASSUME EndPass PROVE MapOK'
  <2>1. tid' = tid
    BY <1>7 DEF EndPass, EndWalk
  <2> QED
    BY <1>3, <1>7, <2>1, EndPassRemoves
<1>8. ASSUME NEW i \in Ids, VisitTimer(i) PROVE MapOK'
  <2>1. Visited(i) /\ tid' = tid
    BY <1>8, VisitVisits DEF VisitTimer
  <2>2. timers[i] \in Timer /\ Given(i) \in 0 .. Width - 1 /\ timers[i].period \in Nat \ {0}
    BY <2>1, Entries, GivenIsInt DEF Visited
  <2>3. timers' = [timers EXCEPT ![i].to =
                     IF Given(i) >= timers[i].period THEN Given(i) - timers[i].period ELSE Given(i)]
    BY <1>8 DEF VisitTimer
  <2>4. timers'[i] = [timers[i] EXCEPT !.to =
                       IF Given(i) >= timers[i].period THEN Given(i) - timers[i].period ELSE Given(i)]
    BY <2>1, <2>3 DEF Live, Visited
  <2>5. timers'[i] \in Timer
    BY <2>2, <2>4 DEF Timer
  <2> QED
    BY <1>0, <2>1, <2>5 DEF Visited
<1>9. ASSUME EndThread PROVE MapOK'
  BY <1>0, <1>9 DEF EndThread, Live
<1> HIDE DEF MapOK
<1> QED
  BY <1>1, <1>4, <1>5, <1>6, <1>7, <1>8, <1>9
  DEF Next, Pass, Script, vars, mapVars, passVars, Tick, SetBack, KillTimer, FirstPass, BeginPass,
      VisitTimeout, Ended

\* The other variables: numbers, counts of each entry, and where the thread is.
NumbersOK ==
    /\ clock \in 1 .. MaxClock
    /\ freq \in 1 .. MaxFreq
    /\ sampled \in 0 .. MaxClock /\ prev \in 0 .. MaxClock
    /\ elapsed \in 0 .. Width - 1
    /\ gmt \in Nat /\ cursor \in 0 .. MaxId

CountsOK ==
    /\ fires \in [Ids -> Nat] /\ late \in [Ids -> Nat]
    /\ base \in [Ids -> 0 .. MaxClock] /\ passes \in [Ids -> Nat]

PlaceOK ==
    /\ remove \subseteq 1 .. tid
    /\ pc \in Pcs
    /\ pc = "callback" => cursor \in Live
    /\ setBack \in BOOLEAN

LEMMA TypesAreFour == TypeOK <=> MapOK /\ NumbersOK /\ CountsOK /\ PlaceOK
BY DEF TypeOK, MapOK, NumbersOK, CountsOK, PlaceOK

LEMMA CountGoesOn ==
    ASSUME NEW f \in [Ids -> Nat], NEW i \in Ids,
           NEW g \in {f, [f EXCEPT ![i] = 1], [f EXCEPT ![i] = @ + 1]}
    PROVE  g \in [Ids -> Nat]
<1>1. [f EXCEPT ![i] = @ + 1] \in [Ids -> Nat] /\ [f EXCEPT ![i] = 1] \in [Ids -> Nat]
  OBVIOUS
<1> QED
  BY <1>1

\* The types of the numbers are kept.
LEMMA NumberStep == ASSUME TypeOK, NumbersOK, [Next]_vars PROVE NumbersOK'
<1> USE DEF NumbersOK
<1>1. CASE UNCHANGED vars
  BY <1>1 DEF vars, mapVars, passVars, history
<1>2. ASSUME Tick PROVE NumbersOK'
  BY <1>2 DEF Tick, mapVars, passVars, history
<1>3. ASSUME SetBack PROVE NumbersOK'
  BY <1>3 DEF SetBack, mapVars, passVars, history
<1>4. ASSUME NEW p \in Periods, SetTimer(p) PROVE NumbersOK'
  <2>1. p \div 2 \in Nat /\ p \in Nat \ {0}
    OBVIOUS
  <2>2. freq' \in 1 .. MaxFreq
    BY <1>4, <2>1 DEF SetTimer
  <2> QED
    BY <1>4, <2>2 DEF SetTimer, Insert, passVars
<1>5. ASSUME NEW at \in Times, SetTimeout(at) PROVE NumbersOK'
  BY <1>5 DEF SetTimeout, Insert, mapVars, passVars, history
<1>6. ASSUME NEW i \in Ids, KillTimer(i) PROVE NumbersOK'
  BY <1>6 DEF KillTimer, mapVars, passVars, history
<1>7. ASSUME FirstPass PROVE NumbersOK'
  BY <1>7 DEF FirstPass, mapVars, passVars, history
<1>8. ASSUME BeginPass PROVE NumbersOK'
  <2>1. elapsed' \in ToUInt(clock - sampled) /\ sampled' = clock /\ prev' = sampled
        /\ UNCHANGED <<clock, freq, gmt, cursor>>
    BY <1>8 DEF BeginPass, mapVars
  <2>2. CASE clock - sampled >= 0
    <3>0. clock - sampled \in Nat
      BY <2>2
    <3>1. (clock - sampled) \div TicksPerMs \in Nat
          /\ (clock - sampled) \div TicksPerMs <= clock - sampled
      BY <3>0, DivBounds
    <3>2. elapsed' = (clock - sampled) \div TicksPerMs
      BY <2>1, <2>2 DEF ToUInt
    <3> QED
      BY <2>1, <3>1, <3>2
  <2>3. CASE clock - sampled < 0
    <3> DEFINE back == (-(clock - sampled)) \div TicksPerMs
    <3>1. back \in Nat
      BY <2>3, DivBounds
    <3>2. elapsed' \in {0, (Width - back) % Width}
      BY <2>1, <2>3 DEF ToUInt
    <3>3. (Width - back) % Width \in 0 .. Width - 1
      BY <3>1
    <3>4. elapsed' \in 0 .. Width - 1
      BY <3>2, <3>3
    <3> HIDE DEF back
    <3> QED
      BY <2>1, <3>4
  <2> QED
    BY <2>2, <2>3
<1>9. ASSUME CallbackReturns PROVE NumbersOK'
  BY <1>9 DEF CallbackReturns, mapVars, passVars, history
<1>10. ASSUME EndPass PROVE NumbersOK'
  BY <1>10 DEF EndPass, EndWalk, mapVars, passVars, history
<1>11. ASSUME NEW i \in Ids, VisitTimer(i) PROVE NumbersOK'
  BY <1>11 DEF VisitTimer, Ids, mapVars, passVars, history
<1>12. ASSUME NEW i \in Ids, VisitTimeout(i) PROVE NumbersOK'
  <2>1. Gmt \in Nat
    BY DivBounds DEF Gmt
  <2>2. cursor' = i /\ gmt' = Gmt /\ UNCHANGED <<clock, freq, sampled, elapsed, prev>>
    BY <1>12 DEF VisitTimeout, mapVars
  <2> QED
    BY <2>1, <2>2 DEF Ids
<1>13. ASSUME EndThread PROVE NumbersOK'
  BY <1>13 DEF EndThread, mapVars, passVars, history
<1>14. ASSUME Ended PROVE NumbersOK'
  BY <1>14 DEF Ended, vars, mapVars, passVars, history
<1> HIDE DEF NumbersOK
<1> QED
  BY <1>1, <1>2, <1>3, <1>4, <1>5, <1>6, <1>7, <1>8, <1>9, <1>10, <1>11, <1>12,
     <1>13, <1>14
  DEF Next, Pass, Script

\* The types of the counts are kept.
LEMMA CountStep == ASSUME TypeOK, NumbersOK, CountsOK, [Next]_vars PROVE CountsOK'
<1> USE DEF NumbersOK, CountsOK
<1>1. CASE UNCHANGED vars
  BY <1>1 DEF vars, mapVars, passVars, history
<1>2. ASSUME Tick PROVE CountsOK'
  BY <1>2 DEF Tick, mapVars, passVars, history
<1>3. ASSUME SetBack PROVE CountsOK'
  BY <1>3 DEF SetBack, mapVars, passVars, history
<1>4. ASSUME NEW p \in Periods, SetTimer(p) PROVE CountsOK'
  <2>1. base' = [base EXCEPT ![tid + 1] = IF setBack THEN 0 ELSE CountsFrom]
        /\ UNCHANGED <<fires, late, passes>>
    BY <1>4 DEF SetTimer, Insert
  <2>2. CountsFrom \in 0 .. MaxClock
    BY DEF CountsFrom
  <2>3. (IF setBack THEN 0 ELSE CountsFrom) \in 0 .. MaxClock
    BY <2>2
  <2>4. base' \in [Ids -> 0 .. MaxClock]
    BY <2>1, <2>3
  <2> QED
    BY <2>1, <2>4
<1>5. ASSUME NEW at \in Times, SetTimeout(at) PROVE CountsOK'
  <2>1. base' = [base EXCEPT ![tid + 1] = IF setBack THEN 0 ELSE CountsFrom]
        /\ UNCHANGED <<fires, late, passes>>
    BY <1>5 DEF SetTimeout, Insert
  <2>2. CountsFrom \in 0 .. MaxClock
    BY DEF CountsFrom
  <2>3. (IF setBack THEN 0 ELSE CountsFrom) \in 0 .. MaxClock
    BY <2>2
  <2>4. base' \in [Ids -> 0 .. MaxClock]
    BY <2>1, <2>3
  <2> QED
    BY <2>1, <2>4
<1>6. ASSUME NEW i \in Ids, KillTimer(i) PROVE CountsOK'
  BY <1>6 DEF KillTimer, mapVars, passVars, history
<1>7. ASSUME FirstPass PROVE CountsOK'
  BY <1>7 DEF FirstPass, mapVars, passVars, history
<1>8. ASSUME BeginPass PROVE CountsOK'
  BY <1>8 DEF BeginPass, mapVars, passVars, history
<1>9. ASSUME CallbackReturns PROVE CountsOK'
  BY <1>9 DEF CallbackReturns, mapVars, passVars, history
<1>10. ASSUME EndPass PROVE CountsOK'
  BY <1>10 DEF EndPass, EndWalk, mapVars, passVars, history
<1>11. ASSUME NEW i \in Ids, VisitTimer(i) PROVE CountsOK'
  <2>1. /\ fires' \in {fires, [fires EXCEPT ![i] = 1], [fires EXCEPT ![i] = @ + 1]}
        /\ late' \in {late, [late EXCEPT ![i] = @ + 1]}
        /\ passes' \in {passes, [passes EXCEPT ![i] = @ + 1]}
        /\ base' = base
    BY <1>11 DEF VisitTimer, Call
  <2>2. fires' \in [Ids -> Nat]
    BY <2>1, CountGoesOn
  <2>3. late' \in [Ids -> Nat]
    BY <2>1, CountGoesOn
  <2>4. passes' \in [Ids -> Nat]
    BY <2>1, CountGoesOn
  <2> QED
    BY <2>1, <2>2, <2>3, <2>4
<1>12. ASSUME NEW i \in Ids, VisitTimeout(i) PROVE CountsOK'
  <2>1. /\ fires' \in {fires, [fires EXCEPT ![i] = 1], [fires EXCEPT ![i] = @ + 1]}
        /\ late' \in {late, [late EXCEPT ![i] = @ + 1]}
        /\ passes' = passes /\ base' = base
    BY <1>12 DEF VisitTimeout, Call
  <2>2. fires' \in [Ids -> Nat]
    BY <2>1, CountGoesOn
  <2>3. late' \in [Ids -> Nat]
    BY <2>1, CountGoesOn
  <2> QED
    BY <2>1, <2>2, <2>3
<1>13. ASSUME EndThread PROVE CountsOK'
  BY <1>13 DEF EndThread, mapVars, passVars, history
<1>14. ASSUME Ended PROVE CountsOK'
  BY <1>14 DEF Ended, vars, mapVars, passVars, history
<1> HIDE DEF NumbersOK, CountsOK
<1> QED
  BY <1>1, <1>2, <1>3, <1>4, <1>5, <1>6, <1>7, <1>8, <1>9, <1>10, <1>11, <1>12,
     <1>13, <1>14
  DEF Next, Pass, Script

\* The types of the rest are kept.
LEMMA PlaceStep == ASSUME TypeOK, MapOK, PlaceOK, [Next]_vars PROVE PlaceOK'
<1> USE DEF PlaceOK, Pcs
<1>1. CASE UNCHANGED vars
  BY <1>1 DEF vars, Live, mapVars, passVars, history
<1>2. ASSUME Tick PROVE PlaceOK'
  BY <1>2 DEF Tick, Live, mapVars, passVars, history
<1>3. ASSUME SetBack PROVE PlaceOK'
  BY <1>3 DEF SetBack, Live, mapVars, passVars, history
<1>4. ASSUME NEW p \in Periods, SetTimer(p) PROVE PlaceOK'
  <2>1. Added([period |-> p, at |-> 0, to |-> p]) /\ tid' = tid + 1 /\ tid \in Nat
        /\ UNCHANGED <<remove, pc, cursor, setBack>>
    BY <1>4, InsertAdds DEF SetTimer, Insert, passVars, MapOK
  <2> QED
    BY <2>1 DEF Added
<1>5. ASSUME NEW at \in Times, SetTimeout(at) PROVE PlaceOK'
  <2>1. Added([period |-> 0, at |-> at, to |-> 0]) /\ tid' = tid + 1 /\ tid \in Nat
        /\ UNCHANGED <<remove, pc, cursor, setBack>>
    BY <1>5, InsertAdds DEF SetTimeout, Insert, passVars, MapOK
  <2> QED
    BY <2>1 DEF Added
<1>6. ASSUME NEW i \in Ids, KillTimer(i) PROVE PlaceOK'
  <2>1. i \in 1 .. tid /\ UNCHANGED <<timers, tid, pc, cursor, setBack>> /\ remove' = remove \cup {i}
    BY <1>6 DEF KillTimer, passVars, MapOK
  <2> QED
    BY <2>1 DEF Live
<1>7. ASSUME FirstPass PROVE PlaceOK'
  BY <1>7 DEF FirstPass, mapVars, passVars, history
<1>8. ASSUME BeginPass PROVE PlaceOK'
  BY <1>8 DEF BeginPass, mapVars, passVars, history
<1>9. ASSUME CallbackReturns PROVE PlaceOK'
  BY <1>9 DEF CallbackReturns, mapVars, passVars, history
<1>10. ASSUME EndPass PROVE PlaceOK'
  BY <1>10 DEF EndPass, EndWalk, mapVars, passVars, history
<1>11. ASSUME NEW i \in Ids, VisitTimer(i) PROVE PlaceOK'
  <2>1. Live' = Live /\ i \in Live
    BY <1>11, VisitVisits DEF Visited
  <2>2. pc' \in {"walk", "callback"} /\ cursor' = i /\ UNCHANGED <<remove, tid, setBack>>
    BY <1>11 DEF VisitTimer, Call
  <2> QED
    BY <2>1, <2>2
<1>12. ASSUME NEW i \in Ids, VisitTimeout(i) PROVE PlaceOK'
  <2>1. Live' = Live /\ i \in Live
    BY <1>12 DEF VisitTimeout, IsNext, mapVars, Live
  <2>2. pc' \in {"walk", "callback"} /\ cursor' = i /\ UNCHANGED <<remove, tid, setBack>>
    BY <1>12 DEF VisitTimeout, Call, mapVars
  <2> QED
    BY <2>1, <2>2
<1>13. ASSUME EndThread PROVE PlaceOK'
  BY <1>13 DEF EndThread, mapVars, passVars, history
<1>14. ASSUME Ended PROVE PlaceOK'
  BY <1>14 DEF Ended, vars, Live, mapVars, passVars, history
<1> HIDE DEF PlaceOK, Pcs
<1> QED
  BY <1>1, <1>2, <1>3, <1>4, <1>5, <1>6, <1>7, <1>8, <1>9, <1>10, <1>11, <1>12,
     <1>13, <1>14
  DEF Next, Pass, Script

\* What has been called after it was killed goes before it is met again.
LEMMA LateStep == ASSUME TypeOK, OnceMore, [Next]_vars PROVE OnceMore'
<1>1. CASE UNCHANGED vars
  BY <1>1 DEF vars, OnceMore, InPass, Live, mapVars, passVars, history
<1>2. ASSUME Tick PROVE OnceMore'
  BY <1>2 DEF Tick, OnceMore, InPass, InScript, Live, TypeOK, mapVars, passVars, history
<1>3. ASSUME SetBack PROVE OnceMore'
  BY <1>3 DEF SetBack, OnceMore, InPass, InScript, Live, TypeOK, mapVars, passVars, history
<1>4. ASSUME NEW p \in Periods, SetTimer(p) PROVE OnceMore'
  <2>1. Added([period |-> p, at |-> 0, to |-> p])
    BY <1>4, InsertAdds DEF SetTimer
  <2>2. tid \in Nat /\ tid' = tid + 1 /\ tid < MaxId
    BY <1>4 DEF SetTimer, Insert, TypeOK
  <2>3. UNCHANGED <<remove, pc, cursor, late>>
    BY <1>4 DEF SetTimer, Insert, passVars
  <2>4. tid + 1 \in Ids
    BY <2>2 DEF Ids
  <2> QED
    BY <2>1, <2>2, <2>3, <2>4 DEF OnceMore, InPass, Added, Ids
<1>5. ASSUME NEW at \in Times, SetTimeout(at) PROVE OnceMore'
  <2>1. Added([period |-> 0, at |-> at, to |-> 0])
    BY <1>5, InsertAdds DEF SetTimeout
  <2>2. tid \in Nat /\ tid' = tid + 1 /\ tid < MaxId
    BY <1>5 DEF SetTimeout, Insert, TypeOK
  <2>3. UNCHANGED <<remove, pc, cursor, late>>
    BY <1>5 DEF SetTimeout, Insert, passVars
  <2>4. tid + 1 \in Ids
    BY <2>2 DEF Ids
  <2> QED
    BY <2>1, <2>2, <2>3, <2>4 DEF OnceMore, InPass, Added, Ids
<1>6. ASSUME NEW i \in Ids, KillTimer(i) PROVE OnceMore'
  BY <1>6 DEF KillTimer, OnceMore, InPass, InScript, Live, TypeOK, mapVars, passVars, history
<1>7. ASSUME FirstPass PROVE OnceMore'
  BY <1>7 DEF FirstPass, OnceMore, InPass, InScript, Live, TypeOK, mapVars, passVars, history
<1>8. ASSUME BeginPass PROVE OnceMore'
  BY <1>8 DEF BeginPass, OnceMore, InPass, InScript, Live, TypeOK, mapVars, passVars, history
<1>9. ASSUME CallbackReturns PROVE OnceMore'
  <2>1. PICK S \in SUBSET Live : Removed(S)
    BY <1>9, CallbackRemoves
  <2>2. pc = "callback" /\ pc' = "walk" /\ UNCHANGED <<tid, remove, cursor, late>>
    BY <1>9 DEF CallbackReturns, passVars, history
  <2> QED
    BY <2>1, <2>2 DEF OnceMore, InPass, Removed
<1>10. ASSUME EndPass PROVE OnceMore'
  <2>1. Removed(remove) /\ UNCHANGED <<tid, late>>
    BY <1>10, EndPassRemoves DEF EndPass, EndWalk, history
  <2> QED
    BY <2>1 DEF OnceMore, Removed
<1>11. ASSUME NEW i \in Ids, VisitTimer(i) PROVE OnceMore'
  <2>1. /\ Live' = Live /\ i \in Live /\ i > cursor
        /\ pc = "walk" /\ pc' \in {"walk", "callback"} /\ cursor' = i /\ UNCHANGED <<tid, remove>>
    BY <1>11, VisitVisits DEF VisitTimer, Call, IsNext, Live, mapVars, Visited
  <2>2. late[i] = 0 /\ i <= tid
    BY <2>1, Entries DEF OnceMore, TypeOK
  <2>3. late' = late \/ (i \in remove /\ late' = [late EXCEPT ![i] = @ + 1])
    BY <1>11 DEF VisitTimer, Call
  <2>0. tid \in Nat /\ cursor \in Nat /\ i \in Nat /\ Live \subseteq Nat /\ Live \subseteq Ids
    BY DEF TypeOK, Ids
  <2>4. CASE late' = late
    BY <2>0, <2>1, <2>4 DEF OnceMore, InPass
  <2>5. CASE i \in remove /\ late' = [late EXCEPT ![i] = @ + 1]
    <3>1. late'[i] = 1 /\ \A j \in Ids : j # i => late'[j] = late[j]
      BY <2>2, <2>5 DEF TypeOK
    <3> QED
      BY <2>0, <2>1, <2>2, <2>5, <3>1 DEF OnceMore, InPass
  <2> QED
    BY <2>3, <2>4, <2>5
<1>12. ASSUME NEW i \in Ids, VisitTimeout(i) PROVE OnceMore'
  <2>1. /\ Live' = Live /\ i \in Live /\ i > cursor
        /\ pc = "walk" /\ pc' \in {"walk", "callback"} /\ cursor' = i /\ UNCHANGED <<tid, remove>>
    BY <1>12 DEF VisitTimeout, Call, IsNext, Live, mapVars
  <2>2. late[i] = 0 /\ i <= tid
    BY <2>1, Entries DEF OnceMore, TypeOK
  <2>3. late' = late \/ (i \in remove /\ late' = [late EXCEPT ![i] = @ + 1])
    BY <1>12 DEF VisitTimeout, Call
  <2>0. tid \in Nat /\ cursor \in Nat /\ i \in Nat /\ Live \subseteq Nat /\ Live \subseteq Ids
    BY DEF TypeOK, Ids
  <2>4. CASE late' = late
    BY <2>0, <2>1, <2>4 DEF OnceMore, InPass
  <2>5. CASE i \in remove /\ late' = [late EXCEPT ![i] = @ + 1]
    <3>1. late'[i] = 1 /\ \A j \in Ids : j # i => late'[j] = late[j]
      BY <2>2, <2>5 DEF TypeOK
    <3> QED
      BY <2>0, <2>1, <2>2, <2>5, <3>1 DEF OnceMore, InPass
  <2> QED
    BY <2>3, <2>4, <2>5
<1>13. ASSUME EndThread PROVE OnceMore'
  BY <1>13 DEF EndThread, OnceMore, InPass, InScript, Live, TypeOK, mapVars, passVars, history
<1>14. ASSUME Ended PROVE OnceMore'
  BY <1>14 DEF Ended, vars, OnceMore, InPass, Live, mapVars, passVars, history
<1> QED
  BY <1>1, <1>2, <1>3, <1>4, <1>5, <1>6, <1>7, <1>8, <1>9, <1>10, <1>11, <1>12,
     <1>13, <1>14
  DEF Next, Pass, Script

\* The wait only gets shorter as long as timers are added.
LEMMA WaitStep == ASSUME TypeOK, WaitIsShort, [Next]_vars PROVE WaitIsShort'
<1>1. CASE UNCHANGED vars
  BY <1>1 DEF vars, WaitIsShort, Live, mapVars, passVars, history
<1>2. ASSUME Tick PROVE WaitIsShort'
  BY <1>2 DEF Tick, WaitIsShort, Live, mapVars, passVars, history
<1>3. ASSUME SetBack PROVE WaitIsShort'
  BY <1>3 DEF SetBack, WaitIsShort, Live, mapVars, passVars, history
<1>4. ASSUME NEW p \in Periods, SetTimer(p) PROVE WaitIsShort'
  <2>1. Added([period |-> p, at |-> 0, to |-> p])
    BY <1>4, InsertAdds DEF SetTimer
  <2>2. freq' = IF freq <= p \div 2 THEN freq ELSE IF p \div 2 = 0 THEN 1 ELSE p \div 2
    BY <1>4 DEF SetTimer
  <2>3. freq' <= freq /\ (freq' <= 1 \/ 2 * freq' <= p) /\ freq' \in Nat /\ freq \in Nat
    BY <2>2 DEF TypeOK
  <2>4. ASSUME NEW j \in Live', timers'[j].at = 0
        PROVE  freq' <= 1 \/ 2 * freq' <= timers'[j].period
    <3>1. CASE j = tid + 1
      BY <2>1, <2>3, <3>1 DEF Added
    <3>2. CASE j \in Live
      <4>1. timers'[j] = timers[j] /\ timers[j].period \in Nat /\ timers[j].at = 0
        BY <2>1, <2>4, <3>2, Entries DEF Added
      <4>2. freq <= 1 \/ 2 * freq <= timers[j].period
        BY <3>2, <4>1 DEF WaitIsShort
      <4> QED
        BY <2>3, <4>1, <4>2
    <3> QED
      BY <2>1, <3>1, <3>2 DEF Added
  <2> QED
    BY <2>4 DEF WaitIsShort
<1>5. ASSUME NEW at \in Times, SetTimeout(at) PROVE WaitIsShort'
  <2>1. Added([period |-> 0, at |-> at, to |-> 0]) /\ freq' = freq
    BY <1>5, InsertAdds DEF SetTimeout
  <2> QED
    BY <2>1 DEF Added, WaitIsShort
<1>6. ASSUME NEW i \in Ids, KillTimer(i) PROVE WaitIsShort'
  BY <1>6 DEF KillTimer, WaitIsShort, Live, mapVars, passVars, history
<1>7. ASSUME FirstPass PROVE WaitIsShort'
  BY <1>7 DEF FirstPass, WaitIsShort, Live, mapVars, passVars, history
<1>8. ASSUME BeginPass PROVE WaitIsShort'
  BY <1>8 DEF BeginPass, WaitIsShort, Live, mapVars, passVars, history
<1>9. ASSUME CallbackReturns PROVE WaitIsShort'
  <2>1. PICK S \in SUBSET Live : Removed(S)
    BY <1>9, CallbackRemoves
  <2>2. freq' = freq
    BY <1>9 DEF CallbackReturns
  <2> QED
    BY <2>1, <2>2 DEF WaitIsShort, Removed
<1>10. ASSUME EndPass PROVE WaitIsShort'
  <2>1. Removed(remove) /\ freq' = freq
    BY <1>10, EndPassRemoves DEF EndPass, EndWalk
  <2> QED
    BY <2>1 DEF WaitIsShort, Removed
<1>11. ASSUME NEW i \in Ids, VisitTimer(i) PROVE WaitIsShort'
  <2>1. Visited(i) /\ freq' = freq
    BY <1>11, VisitVisits DEF VisitTimer
  <2>2. \A j \in Live : timers'[j].period = timers[j].period /\ timers'[j].at = timers[j].at
    BY <2>1 DEF Visited
  <2> QED
    BY <2>1, <2>2 DEF WaitIsShort, Visited
<1>12. ASSUME NEW i \in Ids, VisitTimeout(i) PROVE WaitIsShort'
  BY <1>12 DEF VisitTimeout, WaitIsShort, Live, mapVars, passVars, history
<1>13. ASSUME EndThread PROVE WaitIsShort'
  BY <1>13 DEF EndThread, WaitIsShort, Live, mapVars, passVars, history
<1>14. ASSUME Ended PROVE WaitIsShort'
  BY <1>14 DEF Ended, vars, WaitIsShort, Live, mapVars, passVars, history
<1> QED
  BY <1>1, <1>2, <1>3, <1>4, <1>5, <1>6, <1>7, <1>8, <1>9, <1>10, <1>11, <1>12,
     <1>13, <1>14
  DEF Next, Pass, Script

\* The account of every timer is kept.
LEMMA AccountStep == ASSUME TypeOK, TypeOK', Accounts, [Next]_vars PROVE Accounts'
<1>1. CASE UNCHANGED vars
  BY <1>1 DEF vars, mapVars, passVars, history, Accounts, NotYet, InPass, Live, Account, Given, Upto, Spent
<1>2. ASSUME Tick PROVE Accounts'
  BY <1>2 DEF Tick, Live, TypeOK, mapVars, passVars, history, Accounts, NotYet, InPass, Account, Upto, Spent
<1>3. ASSUME SetBack PROVE Accounts'
  BY <1>3 DEF SetBack, Live, TypeOK, mapVars, passVars, history, Accounts, NotYet, InPass, Account, Upto, Spent
<1>4. ASSUME NEW p \in Periods, SetTimer(p) PROVE Accounts'
  <2> SUFFICES ASSUME ~setBack PROVE Accounts'
    BY <1>4 DEF SetTimer, Insert, Accounts
  <2>1. PICK k \in Ids : k = tid + 1
    BY <1>4 DEF SetTimer, Insert, TypeOK, Ids
  <2>2. /\ Live' = Live \cup {k} /\ timers'[k] = [period |-> p, at |-> 0, to |-> p]
        /\ \A j \in Live : timers'[j] = timers[j] /\ j # k
    BY <1>4, <2>1, InsertAdds DEF SetTimer, Added
  <2>3. /\ tid' = k /\ tid \in Nat
        /\ UNCHANGED <<clock, pc, sampled, elapsed, prev, cursor, fires, passes, setBack>>
    BY <1>4, <2>1 DEF SetTimer, Insert, passVars, TypeOK
  <2>4. base'[k] = CountsFrom /\ \A j \in Live : base'[j] = base[j]
    BY <1>4, <2>1, <2>2 DEF SetTimer, Insert, TypeOK
  <2>5. fires[k] = 0 /\ passes[k] = 0
    BY <2>1, <2>3 DEF Accounts, NotYet
  <2>6. \A j \in Live : Account(j)' <=> Account(j)
    BY <2>2, <2>3, <2>4 DEF Account, Upto, Spent, InPass
  <2>7. Account(k)'
    <3>1. Spent(k)' = 0
      BY <2>2, <2>3, <2>5 DEF Spent
    <3>2. CountsFrom \in Nat
      BY DEF CountsFrom, TypeOK
    <3>3. pc = "loop" \/ (pc = "callback" /\ k > cursor)
      BY <1>4, <2>1 DEF SetTimer, Insert, InScript, TypeOK
    <3>4. Upto(k)' = CountsFrom
      BY <2>3, <3>3 DEF Upto, CountsFrom, InPass
    <3> QED
      BY <2>3, <2>4, <2>5, <3>1, <3>2, <3>4 DEF Account
  <2>8. NotYet'
    <3>1. sampled = 0 => CountsFrom = 0
      BY <1>4 DEF SetTimer, Insert, InScript, CountsFrom, Accounts, InPass
    <3>2. sampled = 0 => \A j \in Live' : base'[j] = 0 /\ passes'[j] = 0
      BY <2>2, <2>3, <2>4, <2>5, <3>1 DEF Accounts, NotYet
    <3> QED
      BY <2>1, <2>3, <3>2 DEF Accounts, NotYet, Ids
  <2>9. \A j \in Live' : timers'[j].at = 0 => Account(j)'
    BY <2>2, <2>6, <2>7 DEF Accounts
  <2> QED
    BY <2>3, <2>8, <2>9 DEF Accounts, InPass
<1>5. ASSUME NEW at \in Times, SetTimeout(at) PROVE Accounts'
  <2> SUFFICES ASSUME ~setBack PROVE Accounts'
    BY <1>5 DEF SetTimeout, Insert, Accounts
  <2>1. PICK k \in Ids : k = tid + 1
    BY <1>5 DEF SetTimeout, Insert, TypeOK, Ids
  <2>2. /\ Live' = Live \cup {k} /\ timers'[k] = [period |-> 0, at |-> at, to |-> 0]
        /\ \A j \in Live : timers'[j] = timers[j] /\ j # k
    BY <1>5, <2>1, InsertAdds DEF SetTimeout, Added
  <2>3. /\ tid' = k /\ tid \in Nat
        /\ UNCHANGED <<clock, pc, sampled, elapsed, prev, cursor, fires, passes, setBack>>
    BY <1>5, <2>1 DEF SetTimeout, Insert, passVars, TypeOK
  <2>4. base'[k] = CountsFrom /\ \A j \in Live : base'[j] = base[j]
    BY <1>5, <2>1, <2>2 DEF SetTimeout, Insert, TypeOK
  <2>5. fires[k] = 0 /\ passes[k] = 0
    BY <2>1, <2>3 DEF Accounts, NotYet
  <2>6. \A j \in Live : Account(j)' <=> Account(j)
    BY <2>2, <2>3, <2>4 DEF Account, Upto, Spent, InPass
  <2>7. timers'[k].at # 0
    BY <2>2
  <2>8. NotYet'
    <3>1. sampled = 0 => CountsFrom = 0
      BY <1>5 DEF SetTimeout, Insert, InScript, CountsFrom, Accounts, InPass
    <3>2. sampled = 0 => \A j \in Live' : base'[j] = 0 /\ passes'[j] = 0
      BY <2>2, <2>3, <2>4, <2>5, <3>1 DEF Accounts, NotYet
    <3> QED
      BY <2>1, <2>3, <3>2 DEF Accounts, NotYet, Ids
  <2>9. \A j \in Live' : timers'[j].at = 0 => Account(j)'
    BY <2>2, <2>6, <2>7 DEF Accounts
  <2> QED
    BY <2>3, <2>8, <2>9 DEF Accounts, InPass
<1>6. ASSUME NEW i \in Ids, KillTimer(i) PROVE Accounts'
  BY <1>6 DEF KillTimer, Live, TypeOK, mapVars, passVars, history, Accounts, NotYet, InPass, Account, Upto, Spent
<1>7. ASSUME FirstPass PROVE Accounts'
  <2> SUFFICES ASSUME ~setBack PROVE Accounts'
    BY <1>7 DEF FirstPass, Accounts
  <2>1. /\ UNCHANGED <<clock, timers, tid, cursor, pc, prev, fires, passes, setBack>>
        /\ pc = "loop" /\ sampled = 0 /\ sampled' = clock
    BY <1>7 DEF FirstPass, mapVars
  <2>2. \A j \in Live : base'[j] = clock /\ passes'[j] = 0 /\ base[j] = 0
    BY <1>7, <2>1, Entries DEF FirstPass, Accounts, NotYet
  <2>3. ASSUME NEW j \in Live, timers[j].at = 0 PROVE Account(j)'
    <3>1. Account(j) /\ Upto(j) = 0 /\ Upto(j)' = clock
      BY <2>1, <2>3 DEF Accounts, Upto, InPass
    <3>2. Spent(j)' = Spent(j)
      BY <2>1 DEF Spent
    <3>3. Spent(j) * TicksPerMs <= 0 /\ 0 <= Spent(j) * TicksPerMs + 0 * (TicksPerMs - 1)
      BY <2>1, <2>2, <3>1 DEF Account
    <3>4. Spent(j)' * TicksPerMs <= clock - clock
          /\ clock - clock <= Spent(j)' * TicksPerMs + 0 * (TicksPerMs - 1)
      BY <3>2, <3>3 DEF TypeOK
    <3> QED
      BY <2>2, <3>1, <3>4 DEF Account
  <2>4. Live' = Live /\ clock # 0 /\ clock \in Nat
    BY <2>1 DEF Live, TypeOK
  <2> QED
    BY <2>1, <2>2, <2>3, <2>4 DEF Accounts, NotYet, InPass
<1>8. ASSUME BeginPass PROVE Accounts'
  <2> SUFFICES ASSUME ~setBack PROVE Accounts'
    BY <1>8 DEF BeginPass, history, Accounts
  <2>1. /\ UNCHANGED <<clock, timers, tid, cursor, fires, passes, base, setBack>>
        /\ pc = "loop" /\ pc' = "walk" /\ sampled # 0 /\ sampled' = clock /\ prev' = sampled
        /\ elapsed' \in ToUInt(clock - sampled)
    BY <1>8 DEF BeginPass, mapVars, history
  <2>2. Live' = Live /\ sampled <= clock /\ clock \in Nat \ {0} /\ sampled \in Nat /\ cursor = 0
    BY <2>1 DEF Live, TypeOK, Accounts
  <2>3. elapsed' = (sampled' - prev') \div TicksPerMs
    BY <2>1, <2>2 DEF ToUInt
  <2>4. \A j \in Live : Account(j)' <=> Account(j)
    BY <2>1, <2>2, Entries DEF Account, Upto, Spent, InPass, Ids
  <2> QED
    BY <2>1, <2>2, <2>3, <2>4 DEF Accounts, NotYet, InPass
<1>9. ASSUME CallbackReturns PROVE Accounts'
  <2>1. PICK S \in SUBSET Live : Removed(S)
    BY <1>9, CallbackRemoves
  <2>2. pc = "callback" /\ pc' = "walk"
        /\ UNCHANGED <<clock, tid, sampled, elapsed, prev, cursor, fires, passes, base, setBack>>
    BY <1>9 DEF CallbackReturns, passVars, history
  <2>3. \A j \in Live' : Account(j)' <=> Account(j)
    BY <2>1, <2>2 DEF Account, Upto, Spent, InPass, Removed
  <2> QED
    BY <2>1, <2>2, <2>3 DEF Accounts, NotYet, InPass, Removed
<1>10. ASSUME EndPass PROVE Accounts'
  <2>1. Removed(remove)
    BY <1>10, EndPassRemoves
  <2>2. pc = "walk" /\ pc' = "loop" /\ cursor' = 0 /\ (\A j \in Live : j <= cursor)
        /\ UNCHANGED <<clock, tid, sampled, fires, passes, base, setBack>>
    BY <1>10 DEF EndPass, EndWalk, history
  <2>3. \A j \in Live' : Account(j)' <=> Account(j)
    <3>1. Live \subseteq Nat /\ cursor \in Nat
      BY DEF TypeOK
    <3> QED
      BY <2>1, <2>2, <3>1 DEF Account, Upto, Spent, InPass, Removed
  <2> QED
    BY <2>1, <2>2, <2>3 DEF Accounts, NotYet, InPass, Removed
<1>11. ASSUME NEW i \in Ids, VisitTimer(i) PROVE Accounts'
  <2> SUFFICES ASSUME ~setBack PROVE Accounts'
    BY <1>11 DEF VisitTimer, Accounts
  <2>1. Visited(i)
    BY <1>11, VisitVisits
  <2>2. pc = "walk" /\ pc' \in {"walk", "callback"} /\ cursor' = i
        /\ UNCHANGED <<clock, tid, sampled, elapsed, prev, base, setBack>>
    BY <1>11 DEF VisitTimer, Call
  <2>3. \A j \in Ids : j # i => fires'[j] = fires[j] /\ passes'[j] = passes[j]
    BY <1>11 DEF VisitTimer, Call, TypeOK
  <2>4. \A j \in Live : j # i => (Account(j)' <=> Account(j))
    <3> SUFFICES ASSUME NEW j \in Live, j # i PROVE Account(j)' <=> Account(j)
      OBVIOUS
    <3>1. i \in Nat /\ j \in Nat /\ j \in Ids /\ cursor \in Nat
      BY Entries DEF TypeOK, Ids
    <3>2. i > cursor /\ (j > cursor => i <= j)
      BY <1>11 DEF VisitTimer, IsNext
    <3>3. Upto(j)' = Upto(j)
      BY <2>2, <3>1, <3>2 DEF Upto, InPass
    <3>4. fires'[j] = fires[j] /\ passes'[j] = passes[j]
      BY <2>3, <3>1
    <3> QED
      BY <2>1, <2>2, <3>3, <3>4 DEF Account, Spent, Visited
  <2>5. NotYet'
    <3>1. i <= tid /\ tid \in Nat /\ Ids \subseteq Nat /\ i \in Nat
      <4>1. i \in Live /\ tid \in Nat
        BY <2>1 DEF Visited, TypeOK
      <4> QED
        BY <4>1, Entries DEF Ids
    <3>2. sampled # 0
      BY <2>2 DEF Accounts, InPass
    <3> QED
      BY <2>1, <2>2, <2>3, <3>1, <3>2 DEF Accounts, NotYet
  <2>6. Account(i)'
    <3> DEFINE T == TicksPerMs
               d == sampled - prev
               e == elapsed
               n == passes[i]
               r == prev - base[i]
    <3>1. /\ d \in Nat /\ e = d \div T /\ prev <= sampled
          /\ sampled \in 0 .. MaxClock /\ prev \in Nat /\ base[i] \in Nat
      <4>1. sampled \in 0 .. MaxClock /\ prev \in Nat /\ base[i] \in Nat
        BY DEF TypeOK
      <4>2. prev <= sampled /\ elapsed = (sampled - prev) \div TicksPerMs
        BY <2>2 DEF Accounts, InPass
      <4> QED
        BY <4>1, <4>2
    <3>2. e \in Nat /\ e * T <= d /\ d <= e * T + (T - 1)
      BY <3>1, DivBounds
    <3>3. /\ timers[i].period \in Nat \ {0} /\ timers[i].to \in Nat /\ timers[i].period + MaxClock < Width
          /\ fires[i] \in Nat /\ n \in Nat
      <4>1. i \in Live /\ timers[i].at = 0
        BY <2>1 DEF Visited
      <4>2. timers[i].period \in Periods /\ timers[i].to \in 0 .. Width - 1
        BY <4>1, Entries
      <4>3. timers[i].period \in Nat \ {0}
        BY <4>2
      <4>5. timers[i].to \in Nat
        BY <4>2
      <4>4. fires[i] \in Nat /\ n \in Nat
        BY DEF TypeOK
      <4> QED
        BY <4>2, <4>3, <4>4, <4>5
    <3>4. Spent(i) * T <= r /\ r <= Spent(i) * T + n * (T - 1)
      <4>1. Upto(i) = prev
        BY <1>11, <2>2 DEF Upto, InPass, VisitTimer, IsNext
      <4> QED
        BY <2>1, <4>1 DEF Accounts, Account, Visited
    <3>5. Spent(i) \in Int /\ r \in Int
      BY <3>1, <3>3 DEF Spent
    <3>6. (Spent(i) + e) * T <= r + d /\ r + d <= (Spent(i) + e) * T + (n + 1) * (T - 1)
      <4> HIDE DEF T, d, e, n, r
      <4> QED
        BY <3>1, <3>2, <3>3, <3>4, <3>5, PassAdds DEF T
    <3>7. r + d = sampled - base[i] /\ r + d <= MaxClock
      BY <3>1
    <3>8. Given(i) = timers[i].to + e
      <4>1. Spent(i) + e <= MaxClock
        <5>1. Spent(i) + e \in Int /\ (Spent(i) + e) * T <= MaxClock /\ T \in Nat \ {0}
          BY <3>1, <3>2, <3>5, <3>6, <3>7
        <5> HIDE DEF T, e
        <5> QED
          BY <5>1, TimesBounds
      <4>2. fires[i] * timers[i].period \in Nat
        BY <3>3
      <4>3. timers[i].to + e < Width
        BY <3>2, <3>3, <4>1, <4>2 DEF Spent
      <4> QED
        <5>1. timers[i].to + e \in 0 .. Width - 1
          BY <3>2, <3>3, <4>3
        <5>2. \A x \in 0 .. Width - 1 : x % Width = x
          OBVIOUS
        <5> QED
          BY <5>1, <5>2 DEF Given
    <3>9. Spent(i)' = Spent(i) + e
      <4>1. CASE Given(i) >= timers[i].period
        <5>1. fires'[i] = fires[i] + 1
          BY <1>11, <4>1 DEF VisitTimer, Call, TypeOK
        <5>2. (fires[i] + 1) * timers[i].period = fires[i] * timers[i].period + timers[i].period
          BY <3>3
        <5>3. fires[i] * timers[i].period \in Nat
          BY <3>3
        <5> QED
          BY <2>1, <3>2, <3>3, <3>8, <4>1, <5>1, <5>2, <5>3 DEF Spent, Visited
      <4>2. CASE ~(Given(i) >= timers[i].period)
        <5>1. fires'[i] = fires[i]
          BY <1>11, <4>2 DEF VisitTimer
        <5>2. fires[i] * timers[i].period \in Nat
          BY <3>3
        <5> QED
          BY <2>1, <3>2, <3>3, <3>8, <4>2, <5>1, <5>2 DEF Spent, Visited
      <4> QED
        BY <4>1, <4>2
    <3>10. Upto(i)' = sampled
      BY <2>2 DEF Upto, TypeOK
    <3>11. CASE sampled = prev
      <4>1. passes'[i] = n
        BY <1>11, <3>11 DEF VisitTimer
      <4>2. d = 0 /\ e * T <= 0
        BY <3>1, <3>2, <3>11
      <4>3. e = 0
        BY <3>2, <4>2
      <4>4. Spent(i)' = Spent(i)
        BY <3>5, <3>9, <4>3
      <4> QED
        BY <2>2, <3>4, <3>10, <3>11, <4>1, <4>4 DEF Account
    <3>12. CASE sampled # prev
      <4>1. passes'[i] = n + 1
        BY <1>11, <3>12 DEF VisitTimer, TypeOK
      <4> QED
        BY <2>2, <3>6, <3>7, <3>9, <3>10, <4>1 DEF Account
    <3> QED
      BY <3>11, <3>12
  <2> QED
    BY <2>1, <2>2, <2>4, <2>5, <2>6 DEF Accounts, InPass, Visited
<1>12. ASSUME NEW i \in Ids, VisitTimeout(i) PROVE Accounts'
  <2> SUFFICES ASSUME ~setBack PROVE Accounts'
    BY <1>12 DEF VisitTimeout, Accounts
  <2>1. Live' = Live /\ i \in Live /\ UNCHANGED timers /\ timers[i].at # 0
    BY <1>12 DEF VisitTimeout, IsNext, Live, mapVars
  <2>2. pc = "walk" /\ pc' \in {"walk", "callback"} /\ cursor' = i
        /\ UNCHANGED <<clock, tid, sampled, elapsed, prev, passes, base, setBack>>
    BY <1>12 DEF VisitTimeout, Call, mapVars
  <2>3. \A j \in Ids : j # i => fires'[j] = fires[j] /\ passes'[j] = passes[j]
    BY <1>12 DEF VisitTimeout, Call, TypeOK
  <2>4. \A j \in Live : j # i => (Account(j)' <=> Account(j))
    <3> SUFFICES ASSUME NEW j \in Live, j # i PROVE Account(j)' <=> Account(j)
      OBVIOUS
    <3>1. i \in Nat /\ j \in Nat /\ j \in Ids /\ cursor \in Nat
      BY Entries DEF TypeOK, Ids
    <3>2. i > cursor /\ (j > cursor => i <= j)
      BY <1>12 DEF VisitTimeout, IsNext
    <3>3. Upto(j)' = Upto(j)
      BY <2>2, <3>1, <3>2 DEF Upto, InPass
    <3>4. fires'[j] = fires[j] /\ passes'[j] = passes[j]
      BY <2>3, <3>1
    <3> QED
      BY <2>1, <2>2, <3>3, <3>4 DEF Account, Spent, Visited
  <2>5. NotYet'
    <3>1. i <= tid /\ tid \in Nat /\ Ids \subseteq Nat /\ i \in Nat
      BY <2>1, Entries DEF TypeOK, Ids
    <3> QED
      BY <2>1, <2>2, <2>3, <3>1 DEF Accounts, NotYet, InPass
  <2> QED
    BY <2>1, <2>2, <2>4, <2>5 DEF Accounts, InPass
<1>13. ASSUME EndThread PROVE Accounts'
  <2>1. Live' = {} /\ sampled' = 0 /\ pc = "loop" /\ pc' = "ended"
        /\ UNCHANGED <<clock, tid, fires, passes, setBack>>
    BY <1>13 DEF EndThread, Live, history
  <2> QED
    BY <2>1 DEF Accounts, NotYet, InPass, TypeOK
<1>14. ASSUME Ended PROVE Accounts'
  BY <1>14 DEF Ended, vars, Live, mapVars, passVars, history, Accounts, NotYet, InPass, Account, Upto, Spent
<1> QED
  BY <1>1, <1>2, <1>3, <1>4, <1>5, <1>6, <1>7, <1>8, <1>9, <1>10, <1>11, <1>12,
     <1>13, <1>14
  DEF Next, Pass, Script

-----------------------------------------------------------------------------
LEMMA InitIInv == Init => IInv
<1> SUFFICES ASSUME Init PROVE IInv
  OBVIOUS
<1>1. Live = {} /\ tid = 0
  BY DEF Init, Live
<1>2. MapOK
  BY <1>1 DEF MapOK
<1>3. NumbersOK
  BY DEF Init, NumbersOK
<1>4. CountsOK
  BY DEF Init, CountsOK
<1>5. PlaceOK
  BY DEF Init, PlaceOK, Pcs
<1>6. OnceMore
  BY <1>1 DEF Init, OnceMore
<1>7. WaitIsShort
  BY <1>1 DEF WaitIsShort
<1>8. Accounts
  BY <1>1 DEF Init, Accounts, NotYet, InPass
<1> QED
  BY <1>2, <1>3, <1>4, <1>5, <1>6, <1>7, <1>8, TypesAreFour DEF IInv

LEMMA TypeStep == ASSUME TypeOK, [Next]_vars PROVE TypeOK'
<1>1. MapOK /\ NumbersOK /\ CountsOK /\ PlaceOK
  BY TypesAreFour
<1>2. MapOK' /\ NumbersOK' /\ CountsOK' /\ PlaceOK'
  BY <1>1, MapStep, NumberStep, CountStep, PlaceStep
<1> QED
  BY <1>2 DEF TypeOK, MapOK, NumbersOK, CountsOK, PlaceOK

LEMMA StepIInv == IInv /\ [Next]_vars => IInv'
BY TypeStep, LateStep, WaitStep, AccountStep DEF IInv

\* Every variable keeps its type, whatever callbacks do to the map.
THEOREM Types == Spec => []TypeOK
<1>1. IInv => TypeOK
  BY DEF IInv
<1> QED
  BY InitIInv, StepIInv, <1>1, PTL DEF Spec

\* A timer that was killed is called once more at most: RunTimers takes killed
\* entries out when the pass is over, and a pass meets an entry once.
THEOREM KilledIsCalledOnceMore == Spec => []KilledCalledOnceMore
<1>1. IInv => KilledCalledOnceMore
  BY DEF IInv, OnceMore, KilledCalledOnceMore
<1> QED
  BY InitIInv, StepIInv, <1>1, PTL DEF Spec

\* The loop of DoThread never waits longer than half of a timer's period.
THEOREM TheWaitIsShort == Spec => []WaitIsShort
<1>1. IInv => WaitIsShort
  BY DEF IInv
<1> QED
  BY InitIInv, StepIInv, <1>1, PTL DEF Spec

\* As long as the clock is not set back a timer is given the time that passes,
\* to less than a millisecond a pass, whatever the periods, the resolution of
\* the clock and the number of passes: RunTimers neither loses a call nor makes
\* one early, and its count does not overflow.
THEOREM TimersKeepTime == Spec => []GivenIsRealTime
<1>1. ASSUME IInv PROVE GivenIsRealTime
  <2> SUFFICES ASSUME pc = "loop", ~setBack, NEW i \in Live, timers[i].at = 0
               PROVE  /\ Spent(i) * TicksPerMs <= sampled - base[i]
                      /\ sampled - base[i] <= Spent(i) * TicksPerMs + passes[i] * (TicksPerMs - 1)
    BY DEF GivenIsRealTime, Spent
  <2>1. Account(i) /\ Upto(i) = sampled
    BY <1>1 DEF IInv, Accounts, Upto, InPass
  <2> QED
    BY <2>1 DEF Account
<1> QED
  BY InitIInv, StepIInv, <1>1, PTL DEF Spec
=============================================================================
