------------------------------ MODULE BinShare ------------------------------
(***************************************************************************)
(* Buffers that scripts share by name.  A block of memory has a reference  *)
(* count in its header (CAlloc); a CBin holds a block, or a plain pointer  *)
(* into memory that is somebody else's and is not counted.  CBinShare maps *)
(* names to CBins under one lock; GetBuffer and SetBuffer copy CBins, and  *)
(* Cleanup, which the host program calls again and again, drops the names  *)
(* that nobody has used for some time.                                     *)
(*                                                                         *)
(* The lock protects the map, not the counts: scripts let go of their      *)
(* CBins without it.  A count is changed by a load and a store, which is a *)
(* data race, and once a store has overwritten another's (torn) the block  *)
(* may be freed or kept, whatever happens.                                 *)
(*                                                                         *)
(* Each script has one CBin; temporary copies come and go with the calls.  *)
(* A script that calls Cleanup does what Host does while it waits.         *)
(* What is in a buffer, and allocations that fail, are not modelled.  Time *)
(* is in seconds, and a walk over the map takes less than one.             *)
(***************************************************************************)
EXTENDS Integers, FiniteSets

CONSTANTS Scripts,      \* threads that use buffers
          Host,         \* the host program's thread
          Names,
          Blocks,       \* memory
          Foreign,      \* memory that is not counted
          None,         \* no block, no name, no thread
          Timeout       \* eBufferTimeout

ASSUME SetsAreFinite == IsFiniteSet(Scripts) /\ IsFiniteSet(Names)
ASSUME HostIsNoScript == Host \notin Scripts
ASSUME NoneIsNothing == None \notin Scripts \cup {Host} \cup Names \cup Blocks \cup {Foreign}
ASSUME ForeignIsNoBlock == Foreign \notin Blocks
ASSUME TimeoutIsNat == Timeout \in Nat

VARIABLES
    refs,       \* uRef in the header of a block; 0: not allocated
    torn,       \* blocks whose count is undefined
    bin,        \* what a script's CBin holds
    entry,      \* m_buffers: what a name's CBin holds
    age,        \* seconds since the name's `to`
    lock,       \* m_lock
    pc,         \* where the thread is
    arg,        \* the name its call is about
    reg,        \* the count it has loaded
    left        \* names Cleanup has yet to visit

mapVars == <<entry, age>>
memVars == <<refs, torn>>
callVars == <<pc, arg, reg>>
vars == <<memVars, bin, mapVars, lock, callVars, left>>

Threads == Scripts \cup {Host}
Held == Blocks \cup {Foreign}
Ages == 0 .. Timeout + 1
Pcs == {"idle", "drop", "copy", "unshare", "get", "replace", "assign", "share", "unset", "clean", "erase"}

Init ==
    /\ refs = [b \in Blocks |-> 0] /\ torn = {}
    /\ bin = [t \in Scripts |-> None]
    /\ entry = [n \in Names |-> None] /\ age = [n \in Names |-> 0]
    /\ lock = None /\ left = {}
    /\ pc = [t \in Threads |-> "idle"]
    /\ arg = [t \in Threads |-> None]
    /\ reg = [t \in Threads |-> 0]

-----------------------------------------------------------------------------
(* Counts *)

Free == {b \in Blocks \ torn : refs[b] = 0}

\* Mutant: one holder is enough.
SharedByOne(b) == IF b \in torn THEN BOOLEAN ELSE {refs[b] >= 1}

\* What a test of the count for more than one may say.
Shared(b) == IF b \in torn THEN BOOLEAN ELSE {refs[b] > 1}

\* The first half of a change: block b's count is loaded, for the call to n.
Load(t, n, b, next) ==
    /\ pc' = [pc EXCEPT ![t] = next]
    /\ arg' = [arg EXCEPT ![t] = n]
    /\ reg' = [reg EXCEPT ![t] = IF b \in Blocks \ torn THEN refs[b] ELSE 0]

\* The second: the result is stored.  At zero the block is freed.  If the count
\* has been changed since it was loaded, nothing is known of it any more.
Tears(t, b) == b \in Blocks \ torn /\ refs[b] # reg[t]
Stored(t, b, v) ==
    IF b \in Blocks \ torn THEN [refs EXCEPT ![b] = IF Tears(t, b) THEN 1 ELSE v] ELSE refs
Torn(t, b) == IF Tears(t, b) THEN torn \cup {b} ELSE torn
Store(t, b, v, next) ==
    /\ refs' = Stored(t, b, v) /\ torn' = Torn(t, b)
    /\ pc' = [pc EXCEPT ![t] = next]
    /\ arg' = IF next = "idle" THEN [arg EXCEPT ![t] = None] ELSE arg
    /\ reg' = [reg EXCEPT ![t] = 0]

-----------------------------------------------------------------------------
(* A script's own CBin, without the lock *)

\* A new buffer, and a pointer to memory that is not counted.
New(t) ==
    /\ pc[t] = "idle" /\ bin[t] = None
    /\ \E b \in Free : bin' = [bin EXCEPT ![t] = b] /\ refs' = [refs EXCEPT ![b] = 1]
    /\ UNCHANGED <<torn, mapVars, lock, callVars, left>>

Point(t) ==
    /\ pc[t] = "idle" /\ bin[t] = None
    /\ bin' = [bin EXCEPT ![t] = Foreign]
    /\ UNCHANGED <<memVars, mapVars, lock, callVars, left>>

\* Destroy().
DropCall(t) ==
    /\ pc[t] = "idle" /\ bin[t] # None
    /\ Load(t, None, bin[t], "drop")
    /\ UNCHANGED <<memVars, bin, mapVars, lock, left>>

\* Mutant: the count does not go down.
DroppedUncounted(t) ==
    /\ pc[t] = "drop"
    /\ Store(t, bin[t], reg[t], "idle")
    /\ bin' = [bin EXCEPT ![t] = None]
    /\ UNCHANGED <<mapVars, lock, left>>

Dropped(t) ==
    /\ pc[t] = "drop"
    /\ Store(t, bin[t], reg[t] - 1, "idle")
    /\ bin' = [bin EXCEPT ![t] = None]
    /\ UNCHANGED <<mapVars, lock, left>>

\* Resize(): in place if the count is one; otherwise a block of its own, and
\* the old one is let go, whose other holders may have gone meanwhile.
ResizeCall(t) ==
    /\ pc[t] = "idle" /\ bin[t] # None
    /\ bin[t] \in Blocks => TRUE \in Shared(bin[t])
    /\ pc' = [pc EXCEPT ![t] = "copy"]
    /\ UNCHANGED <<memVars, bin, mapVars, lock, arg, reg, left>>

Copied(t) ==
    /\ pc[t] = "copy"
    /\ Load(t, None, bin[t], "unshare")
    /\ UNCHANGED <<memVars, bin, mapVars, lock, left>>

Unshared(t) ==
    /\ pc[t] = "unshare"
    /\ \E b \in Free :
          /\ torn' = Torn(t, bin[t])
          /\ refs' = [Stored(t, bin[t], reg[t] - 1) EXCEPT ![b] = 1]
          /\ bin' = [bin EXCEPT ![t] = b]
    /\ pc' = [pc EXCEPT ![t] = "idle"] /\ reg' = [reg EXCEPT ![t] = 0]
    /\ UNCHANGED <<arg, mapVars, lock, left>>

-----------------------------------------------------------------------------
(* GetBuffer, SetBuffer *)

Locks(t) == pc[t] = "idle" /\ lock = None /\ lock' = t
Unlocks == lock' = None

\* Mutant: the map is read without the lock.
GetCallUnlocked(t, n) ==
    /\ pc[t] = "idle" /\ UNCHANGED lock
    /\ bin[t] = None /\ entry[n] # None
    /\ age' = [age EXCEPT ![n] = 0]
    /\ Load(t, n, entry[n], "get")
    /\ UNCHANGED <<memVars, bin, entry, left>>

\* The name is there: its time begins again and its CBin is copied.
GetCall(t, n) ==
    /\ Locks(t)
    /\ bin[t] = None /\ entry[n] # None
    /\ age' = [age EXCEPT ![n] = 0]
    /\ Load(t, n, entry[n], "get")
    /\ UNCHANGED <<memVars, bin, entry, left>>

\* It is not, and a size is given: a new block, and a copy of that.
Create(t, n) ==
    /\ Locks(t)
    /\ bin[t] = None /\ entry[n] = None
    /\ \E b \in Free :
          /\ entry' = [entry EXCEPT ![n] = b]
          /\ refs' = [refs EXCEPT ![b] = 1]
    /\ pc' = [pc EXCEPT ![t] = "get"]
    /\ arg' = [arg EXCEPT ![t] = n]
    /\ reg' = [reg EXCEPT ![t] = 1]
    /\ UNCHANGED <<torn, bin, age, left>>

Got(t) ==
    /\ pc[t] = "get"
    /\ Store(t, entry[arg[t]], reg[t] + 1, "idle")
    /\ bin' = [bin EXCEPT ![t] = entry[arg[t]]]
    /\ Unlocks
    /\ UNCHANGED <<mapVars, left>>

\* The name gets the script's buffer: first it lets go of what it had.
SetCall(t, n) ==
    /\ Locks(t)
    /\ bin[t] # None
    /\ Load(t, n, entry[n], IF entry[n] = None THEN "assign" ELSE "replace")
    /\ UNCHANGED <<memVars, bin, mapVars, left>>

Assign(t) ==
    /\ pc[t] = "assign"
    /\ Load(t, arg[t], bin[t], "share")
    /\ UNCHANGED <<memVars, bin, mapVars, lock, left>>

Assigned(t) ==
    /\ pc[t] = "share"
    /\ Store(t, bin[t], reg[t] + 1, "idle")
    /\ entry' = [entry EXCEPT ![arg[t]] = bin[t]]
    /\ age' = [age EXCEPT ![arg[t]] = 0]
    /\ Unlocks
    /\ UNCHANGED <<bin, left>>

\* No buffer, or an empty one: the name is dropped.
UnsetCall(t, n) ==
    /\ Locks(t)
    /\ entry[n] # None
    /\ Load(t, n, entry[n], "unset")
    /\ UNCHANGED <<memVars, bin, mapVars, left>>

\* A name lets go of its block.
Releases(t, next) ==
    /\ Store(t, entry[arg[t]], reg[t] - 1, next)
    /\ entry' = [entry EXCEPT ![arg[t]] = None]
    /\ age' = [age EXCEPT ![arg[t]] = 0]
    /\ UNCHANGED <<bin, left>>

Replaced(t) == pc[t] = "replace" /\ Releases(t, "assign") /\ UNCHANGED lock
Unset(t) == pc[t] = "unset" /\ Releases(t, "idle") /\ Unlocks

-----------------------------------------------------------------------------
(* Cleanup *)

CleanupCall ==
    /\ Locks(Host)
    /\ left' = {n \in Names : entry[n] # None}
    /\ pc' = [pc EXCEPT ![Host] = "clean"]
    /\ UNCHANGED <<memVars, bin, mapVars, arg, reg>>

Visits(n) == pc[Host] = "clean" /\ n \in left /\ left' = left \ {n}

\* A block that others hold too is in use, and its time begins again.
Keep(n) ==
    /\ Visits(n)
    /\ entry[n] \in Blocks /\ TRUE \in Shared(entry[n])
    /\ age' = [age EXCEPT ![n] = 0]
    /\ UNCHANGED <<memVars, bin, entry, lock, callVars>>

Unused(n) == entry[n] \in Blocks => FALSE \in Shared(entry[n])

\* Any other goes once its time is over.
Collect(n) ==
    /\ Visits(n)
    /\ Unused(n) /\ age[n] > Timeout
    /\ Load(Host, n, entry[n], "erase")
    /\ UNCHANGED <<memVars, bin, mapVars, lock>>

Erased == pc[Host] = "erase" /\ Releases(Host, "clean") /\ UNCHANGED lock

Spare(n) ==
    /\ Visits(n)
    /\ Unused(n) /\ age[n] <= Timeout
    /\ UNCHANGED <<memVars, bin, mapVars, lock, callVars>>

CleanupDone ==
    /\ pc[Host] = "clean" /\ left = {}
    /\ pc' = [pc EXCEPT ![Host] = "idle"]
    /\ arg' = [arg EXCEPT ![Host] = None]
    /\ Unlocks
    /\ UNCHANGED <<memVars, bin, mapVars, reg, left>>

Tick ==
    /\ pc[Host] = "idle"
    /\ age' = [n \in Names |-> IF entry[n] = None \/ age[n] > Timeout THEN age[n] ELSE age[n] + 1]
    /\ UNCHANGED <<memVars, bin, entry, lock, callVars, left>>

-----------------------------------------------------------------------------
\* What a script that is in a call does next, and the calls it may make.
Step(t) ==
    \/ Dropped(t) \/ Copied(t) \/ Unshared(t) \/ Got(t)
    \/ Assign(t) \/ Assigned(t) \/ Replaced(t) \/ Unset(t)

Call(t) ==
    \/ New(t) \/ Point(t) \/ DropCall(t) \/ ResizeCall(t)
    \/ \E n \in Names : GetCall(t, n) \/ Create(t, n) \/ SetCall(t, n) \/ UnsetCall(t, n)

Cleanup == Erased \/ CleanupDone \/ \E n \in Names : Keep(n) \/ Collect(n) \/ Spare(n)

Next ==
    \/ Tick \/ CleanupCall \/ Cleanup
    \/ \E t \in Scripts : Step(t) \/ Call(t)

Spec == Init /\ [][Next]_vars

\* Calls end, time passes, and the host program calls Cleanup again and again;
\* it gets the lock in the end.
FairSpec ==
    /\ Spec
    /\ \A t \in Scripts : WF_vars(Step(t))
    /\ WF_vars(Cleanup) /\ SF_vars(CleanupCall) /\ SF_vars(Tick)
-----------------------------------------------------------------------------
(* Properties *)

\* Every variable has its type.
TypeOK ==
    /\ refs \in [Blocks -> Nat] /\ torn \subseteq Blocks
    /\ bin \in [Scripts -> Held \cup {None}]
    /\ entry \in [Names -> Held \cup {None}]
    /\ age \in [Names -> Ages]
    /\ lock \in Threads \cup {None}
    /\ pc \in [Threads -> Pcs]
    /\ arg \in [Threads -> Names \cup {None}]
    /\ reg \in [Threads -> Nat]
    /\ left \subseteq Names

BinsOf(b) == {t \in Scripts : bin[t] = b}
NamesOf(b) == {n \in Names : entry[n] = b}

\* A block's count is the number of CBins that hold it, of scripts and of
\* names: it is freed by the last one and not before, and who finds the count
\* at one is alone with it, unless two changes of the count met.
CountIsExact == \A b \in Blocks \ torn :
    refs[b] = Cardinality(BinsOf(b)) + Cardinality(NamesOf(b))

\* Cleanup never takes a name whose buffer a script holds, nor one that was got
\* or set a short while ago, although scripts let go of buffers and make new
\* ones while it is between its test and the erasure.  Memory that is not
\* counted is only protected by the time.
CollectedIsUnused == [][Erased =>
    LET n == arg[Host]
    IN /\ age[n] > Timeout
       /\ entry[n] \in Blocks \ torn => BinsOf(entry[n]) = {}]_vars

\* A name that no script holds any more does not stay for ever.  One does that
\* shares its block with another name: each keeps the other.
LeftAlone(n) ==
    /\ entry[n] \in Held \ torn
    /\ BinsOf(entry[n]) = {} /\ NamesOf(entry[n]) = {n}
UnusedGoes == \A n \in Names : LeftAlone(n) ~> ~LeftAlone(n)

=============================================================================
