---------------------------- MODULE ScriptTimers ----------------------------
(***************************************************************************)
(* The timers of one script: set_timer and set_timeout put entries into    *)
(* the map m_to, kill_timer queues an id in m_lstRemoveTo, and DoThread    *)
(* calls RunTimers once per loop.  RunTimers walks the map in the order of *)
(* the ids and runs callbacks, which are script code: they set and kill    *)
(* timers while the walk is under way.                                     *)
(*                                                                         *)
(* Time is the wall clock (gettimeofday), here in ticks.  RunTimers counts *)
(* whole milliseconds since its last pass, timeouts whole seconds since    *)
(* the epoch.  The clock may be set back (SetBack): the difference is then *)
(* negative and its conversion to an unsigned integer is undefined.        *)
(*                                                                         *)
(* fires, late, base, passes, prev and setBack are history.                *)
(***************************************************************************)
EXTENDS Integers, FiniteSets

CONSTANTS Periods,      \* periods of set_timer, in ms
          Times,        \* times of set_timeout, in seconds of the epoch
          MaxId,        \* bound: timers set
          MaxClock,     \* bound: ticks
          TicksPerMs, TicksPerSec,
          MaxFreq,      \* the longest wait of the loop (100 ms in the code)
          Width         \* 2^w of oexUINT

ASSUME PeriodsArePositive == Periods \subseteq Nat \ {0}
ASSUME TimesArePositive == Times \subseteq Nat \ {0}
ASSUME BoundsAreNat == MaxId \in Nat /\ MaxClock \in Nat \ {0} /\ MaxFreq \in Nat \ {0}
ASSUME ScaleIsPositive == TicksPerMs \in Nat \ {0} /\ TicksPerSec \in Nat \ {0}
ASSUME WidthIsWide == Width \in Nat /\ MaxClock < Width /\ \A p \in Periods : p + MaxClock < Width

VARIABLES
    clock,      \* the wall clock, in ticks; never 0
    timers,     \* m_to: id -> STimerInfo
    tid,        \* m_tid
    remove,     \* m_lstRemoveTo
    freq,       \* m_uToFreq
    sampled,    \* m_dToValue; 0: no pass yet
    elapsed,    \* uE of this pass
    gmt,        \* uGmt of this pass; 0: not read yet
    cursor,     \* the entry the walk is at; 0: before the first
    pc,         \* where the thread is
    fires, late, base, passes, prev, setBack

mapVars == <<timers, tid, remove, freq>>
passVars == <<sampled, elapsed, gmt, cursor, prev>>
history == <<fires, late, base, passes>>
vars == <<clock, mapVars, passVars, pc, history, setBack>>

Ids == 1 .. MaxId
Timer == [period : Periods, at : {0}, to : 0 .. Width - 1]
Timeout == [period : {0}, at : Times, to : {0}]
Live == DOMAIN timers
Pcs == {"loop", "walk", "callback", "ended"}

Init ==
    /\ clock = 1
    /\ timers = << >> /\ tid = 0 /\ remove = {} /\ freq = MaxFreq
    /\ sampled = 0 /\ elapsed = 0 /\ gmt = 0 /\ cursor = 0 /\ prev = 0
    /\ pc = "loop"
    /\ fires = [i \in Ids |-> 0] /\ late = [i \in Ids |-> 0]
    /\ base = [i \in Ids |-> 0] /\ passes = [i \in Ids |-> 0]
    /\ setBack = FALSE

\* Script code runs: a message or the idle function between two passes, a
\* callback within one.
InScript == pc \in {"loop", "callback"}

-----------------------------------------------------------------------------
(* Time *)

\* Time passes while the loop waits and while script code runs.
Tick ==
    /\ InScript /\ clock < MaxClock
    /\ clock' = clock + 1
    /\ UNCHANGED <<mapVars, passVars, pc, history, setBack>>

\* The wall clock is set back, once.  From then on the history only tells
\* whether an entry has been called.
SetBack ==
    /\ InScript /\ ~setBack
    /\ \E t \in 1 .. clock - 1 : clock' = t
    /\ setBack' = TRUE
    /\ fires' = [i \in Ids |-> IF fires[i] > 0 THEN 1 ELSE 0]
    /\ base' = [i \in Ids |-> 0] /\ passes' = [i \in Ids |-> 0]
    /\ UNCHANGED <<mapVars, passVars, pc, late>>

-----------------------------------------------------------------------------
(* set_timer, set_timeout, kill_timer *)

\* The sample that the next uE the entry is given counts from.
CountsFrom == IF pc = "callback" THEN prev ELSE sampled

Insert(entry) ==
    /\ InScript /\ tid < MaxId
    /\ tid' = tid + 1
    /\ timers' = [i \in Live \cup {tid + 1} |-> IF i = tid + 1 THEN entry ELSE timers[i]]
    /\ base' = [base EXCEPT ![tid + 1] = IF setBack THEN 0 ELSE CountsFrom]
    /\ UNCHANGED <<clock, remove, passVars, pc, fires, late, passes, setBack>>

\* Mutant: the count starts at zero.
SetTimerLater(p) ==
    /\ Insert([period |-> p, at |-> 0, to |-> 0])
    /\ freq' = IF freq <= p \div 2 THEN freq ELSE IF p \div 2 = 0 THEN 1 ELSE p \div 2

\* The entry is due at the next pass whatever time that takes; the loop's wait
\* becomes half the period if it was longer, and at least 1 ms.
SetTimer(p) ==
    /\ Insert([period |-> p, at |-> 0, to |-> p])
    /\ freq' = IF freq <= p \div 2 THEN freq ELSE IF p \div 2 = 0 THEN 1 ELSE p \div 2

SetTimeout(at) ==
    /\ Insert([period |-> 0, at |-> at, to |-> 0])
    /\ UNCHANGED freq

\* Mutant: the id is not looked up.
KillTimerUnchecked(i) ==
    /\ InScript
    /\ remove' = remove \cup {i}
    /\ UNCHANGED <<clock, timers, tid, freq, passVars, pc, history, setBack>>

\* An entry is only queued to be removed when the pass is over.
KillTimer(i) ==
    /\ InScript /\ i \in Live
    /\ remove' = remove \cup {i}
    /\ UNCHANGED <<clock, timers, tid, freq, passVars, pc, history, setBack>>

-----------------------------------------------------------------------------
(* RunTimers *)

\* The first call only takes the time: nothing runs and nothing is removed.
FirstPass ==
    /\ pc = "loop" /\ sampled = 0
    /\ sampled' = clock
    /\ base' = [i \in Ids |-> IF i \in Live /\ ~setBack THEN clock ELSE base[i]]
    /\ UNCHANGED <<clock, mapVars, elapsed, gmt, cursor, prev, pc, fires, late, passes, setBack>>

\* The conversion of the milliseconds since the last pass to oexUINT: whole
\* ones, and for a negative number what the build makes of it.
ToUInt(ticks) == IF ticks >= 0 THEN {ticks \div TicksPerMs}
                 ELSE {0, (Width - ((-ticks) \div TicksPerMs)) % Width}

BeginPass ==
    /\ pc = "loop" /\ sampled # 0
    /\ elapsed' \in ToUInt(clock - sampled)
    /\ sampled' = clock /\ prev' = sampled
    /\ pc' = "walk"
    /\ UNCHANGED <<clock, mapVars, gmt, cursor, history, setBack>>

\* The next entry of the map, in the order of the ids.  Entries that callbacks
\* have added are met in the same walk.
IsNext(i) == i \in Live /\ i > cursor /\ \A j \in Live : j > cursor => i <= j

\* The entry's callback is called.  late counts the calls of an entry that had
\* been killed already.
Call(i) ==
    /\ pc' = "callback"
    /\ fires' = [fires EXCEPT ![i] = IF setBack THEN 1 ELSE @ + 1]
    /\ late' = IF i \in remove THEN [late EXCEPT ![i] = @ + 1] ELSE late

\* uGmt is read at the first timeout of a walk and kept.
Gmt == IF gmt = 0 THEN clock \div TicksPerSec ELSE gmt

VisitTimeout(i) ==
    /\ pc = "walk" /\ IsNext(i) /\ timers[i].at # 0
    /\ cursor' = i /\ gmt' = Gmt
    /\ IF timers[i].at < Gmt THEN Call(i) ELSE UNCHANGED <<pc, fires, late>>
    /\ UNCHANGED <<clock, mapVars, sampled, elapsed, prev, base, passes, setBack>>

\* What the entry has been given, this pass included.
Given(i) == (timers[i].to + elapsed) % Width

\* Mutant: the count starts again from zero at every call.
VisitTimerResets(i) ==
    /\ pc = "walk" /\ IsNext(i) /\ timers[i].at = 0
    /\ cursor' = i
    /\ passes' = IF sampled = prev \/ setBack THEN passes ELSE [passes EXCEPT ![i] = @ + 1]
    /\ IF Given(i) >= timers[i].period
         THEN timers' = [timers EXCEPT ![i].to = 0] /\ Call(i)
         ELSE /\ timers' = [timers EXCEPT ![i].to = Given(i)]
              /\ UNCHANGED <<pc, fires, late>>
    /\ UNCHANGED <<clock, tid, remove, freq, sampled, elapsed, gmt, prev, base, setBack>>

\* One call per pass at most; what exceeds the period is kept for the next.
VisitTimer(i) ==
    /\ pc = "walk" /\ IsNext(i) /\ timers[i].at = 0
    /\ cursor' = i
    /\ passes' = IF sampled = prev \/ setBack THEN passes ELSE [passes EXCEPT ![i] = @ + 1]
    /\ IF Given(i) >= timers[i].period
         THEN /\ timers' = [timers EXCEPT ![i].to = Given(i) - timers[i].period]
              /\ Call(i)
         ELSE /\ timers' = [timers EXCEPT ![i].to = Given(i)]
              /\ UNCHANGED <<pc, fires, late>>
    /\ UNCHANGED <<clock, tid, remove, freq, sampled, elapsed, gmt, prev, base, setBack>>

Without(S) == [i \in Live \ S |-> timers[i]]

\* Mutant: only a timer whose callback failed is erased.
CallbackKeepsTimeout ==
    /\ pc = "callback"
    /\ pc' = "walk"
    /\ \E negative \in BOOLEAN :
          timers' = IF negative /\ timers[cursor].at = 0 THEN Without({cursor}) ELSE timers
    /\ UNCHANGED <<clock, tid, remove, freq, passVars, history, setBack>>

\* The callback returns.  A timeout is erased, and so is a timer whose callback
\* returned a negative number.
CallbackReturns ==
    /\ pc = "callback"
    /\ pc' = "walk"
    /\ \E negative \in BOOLEAN :
          timers' = IF negative \/ timers[cursor].at # 0 THEN Without({cursor}) ELSE timers
    /\ UNCHANGED <<clock, tid, remove, freq, passVars, history, setBack>>

\* RunTimers' locals go with the walk.
EndWalk ==
    /\ pc = "walk" /\ \A i \in Live : i <= cursor
    /\ pc' = "loop"
    /\ elapsed' = 0 /\ gmt' = 0 /\ cursor' = 0 /\ prev' = 0
    /\ UNCHANGED <<clock, tid, freq, sampled, history, setBack>>

\* Mutant: one id is taken off the list per pass.
EndPassRemovesOne ==
    /\ EndWalk
    /\ \E i \in remove \cup {0} :
          /\ i = 0 <=> remove = {}
          /\ timers' = Without({i}) /\ remove' = remove \ {i}

\* The walk is over: the killed entries go.
EndPass ==
    /\ EndWalk
    /\ timers' = Without(remove) /\ remove' = {}

\* The thread leaves its loop: EndThread clears the map.  The ids and the list
\* of killed ones stay.
EndThread ==
    /\ pc = "loop"
    /\ pc' = "ended"
    /\ timers' = << >> /\ freq' = MaxFreq /\ sampled' = 0
    /\ UNCHANGED <<clock, tid, remove, elapsed, gmt, cursor, prev, history, setBack>>

Ended == pc = "ended" /\ UNCHANGED vars

-----------------------------------------------------------------------------
Pass == \/ FirstPass \/ BeginPass \/ CallbackReturns \/ EndPass
        \/ \E i \in Ids : VisitTimer(i) \/ VisitTimeout(i)

Script == \/ \E p \in Periods : SetTimer(p)
          \/ \E at \in Times : SetTimeout(at)
          \/ \E i \in Ids : KillTimer(i)

Next == Tick \/ SetBack \/ Script \/ Pass \/ EndThread \/ Ended

Spec == Init /\ [][Next]_vars

\* The loop goes round, callbacks return and time passes.
FairSpec == Spec /\ WF_vars(Pass) /\ SF_vars(Tick)
-----------------------------------------------------------------------------
(* Properties *)

\* Every variable has its type.
TypeOK ==
    /\ clock \in 1 .. MaxClock
    /\ Live \subseteq 1 .. tid /\ tid \in 0 .. MaxId
    /\ \A i \in Live : timers[i] \in Timer \cup Timeout
    /\ remove \subseteq 1 .. tid
    /\ freq \in 1 .. MaxFreq
    /\ sampled \in 0 .. MaxClock /\ prev \in 0 .. MaxClock
    /\ elapsed \in 0 .. Width - 1
    /\ gmt \in Nat /\ cursor \in 0 .. MaxId
    /\ pc \in Pcs
    /\ pc = "callback" => cursor \in Live
    /\ fires \in [Ids -> Nat] /\ late \in [Ids -> Nat]
    /\ base \in [Ids -> 0 .. MaxClock] /\ passes \in [Ids -> Nat]
    /\ setBack \in BOOLEAN

\* Between two passes a timer has been given the time since it was set (since
\* the sample before that), to less than a millisecond per pass that took any,
\* however many calls that made and however many timers were set or killed
\* meanwhile: no call comes before its time, the first one apart, and none is
\* forgotten.  A clock that was set back breaks this.
GivenIsRealTime ==
    pc = "loop" /\ ~setBack => \A i \in Live :
        LET given == fires[i] * timers[i].period + timers[i].to - timers[i].period
            real  == sampled - base[i]
        IN timers[i].at = 0 =>
            /\ given * TicksPerMs <= real
            /\ real <= given * TicksPerMs + passes[i] * (TicksPerMs - 1)

\* A killed timer may be called once more (in the pass that is under way, or in
\* the next) and never again, whoever kills it and whatever its callback does.
KilledCalledOnceMore == \A i \in Ids : late[i] <= 1

\* The loop's wait is at most half of the shortest period in the map.
WaitIsShort == \A i \in Live : timers[i].at = 0 =>
    freq <= 1 \/ 2 * freq <= timers[i].period

\* A timer is called by the first pass after it was set, a timeout once its
\* time is over, unless it is killed or the thread ends first.
ArmedIsCalled == \A i \in Ids :
    i \in Live ~> fires[i] > 0 \/ i \in remove \/ pc = "ended" \/ setBack

\* A timeout is not called twice and a killed entry does not stay.
DoneGoes == \A i \in Ids :
    i \in Live /\ (i \in remove \/ (timers[i].at # 0 /\ fires[i] > 0)) ~> i \notin Live

=============================================================================
