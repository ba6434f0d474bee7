------------------------------- MODULE CircBuf -------------------------------
(***************************************************************************)
(* A CCircBuf between writers and readers.  Every function runs under the  *)
(* buffer's lock, so it is one step, with one exception: Read() takes the  *)
(* bytes under the lock and lets go of it before Defrag() takes it again.  *)
(* A caller may hold the (recursive) lock around the whole call, as data   *)
(* packets and fifos do; callersLock says whether these callers do.         *)
(*                                                                         *)
(* The bytes are numbered as they are written, so that the buffer's        *)
(* content can be compared with what was written: written and taken count  *)
(* them, torn holds those whose write began with the pointer at the size.  *)
(***************************************************************************)
EXTENDS RingBuf

CONSTANTS
    Chunks,     \* sizes of the writes and reads
    MaxSizes,   \* what a buffer may be kept from growing over
    MaxBytes    \* bound: bytes ever written

ASSUME ChunksArePositive ==
    Chunks \subseteq Nat \ {0} /\ MaxSizes \subseteq Nat /\ MaxBytes \in Nat

\* The sizes a buffer can have: those that are asked for, if they are any.
Sizes == ({0} \cup {Allocated(n) : n \in Chunks}
              \cup {Resized(p) : p \in {q \in Powers : \E max \in MaxSizes : q <= max}}) \cap Nat

\* There is a power of two for every block asked for, as long as sizes stay
\* below 2^PowerBits.
ASSUME PowersSuffice ==
    /\ \A n \in Chunks : Overhead + (n + Header) <= Largest
    /\ \A max \in MaxSizes : Overhead + max <= Largest
    /\ \A s \in Sizes, n \in Chunks : s + n + 1 <= Largest

VARIABLES
    buf,        \* the buffer
    callersLock,\* its callers hold its lock around Read()
    defrag,     \* a reader is between its bytes and Defrag()
    written,    \* history: bytes accepted
    taken,      \* history: bytes read
    torn        \* history: bytes whose write began at the end of the ring, or lost

vars == <<buf, callersLock, defrag, written, taken, torn>>

Init ==
    /\ \E n \in Chunks \cup {0}, mode \in WriteModes, max \in MaxSizes :
          buf = IF n = 0 THEN NoBuffer(mode, max) ELSE Allocate(NoBuffer(mode, max), n)
    /\ callersLock \in BOOLEAN
    /\ defrag = FALSE
    /\ written = 0
    /\ taken = 0
    /\ torn = {}

\* Another thread gets the lock.
Unlocked == callersLock => ~defrag

\* The k bytes that come after the first-th.
Data(first, k) == [i \in 1 .. k |-> first + i]

\* A buffer without memory gets some, in grow mode; one with memory grows.
Prepared(b, n, from) ==
    IF b.mode # "grow" THEN b
    ELSE IF b.size = 0 THEN Allocate(b, n) ELSE EnsureWriteSpace(b, n, from)

\* What the history records of a write of n bytes into b at from.
Records(b, n, from) ==
    /\ written' = written + n
    /\ torn' = IF from = b.size THEN torn \cup (written + 1 .. written + n) ELSE torn

\* Mutant: a reader of the flag is not told.
WriteQuiet(n) ==
    LET b == Prepared(buf, n, buf.wr)
        k == Clipped(b, n, b.wr)
        room == MakeRoom(b, n, b.wr)
    IN /\ Unlocked /\ written + n <= MaxBytes
       /\ b.size > 0
       /\ k > 0
       /\ buf' = [room EXCEPT !.wr = AdvancePtr(b.wr, k, b.size),
                              !.mem = Copied(room, Data(written, k), k, b.wr)]
       /\ Records(b, k, b.wr)
       /\ UNCHANGED <<callersLock, defrag, taken>>

\* Write( buf, size ): grow, copy, advance the write pointer, DataReady().
\* The pointer starts from where it was before room was made.
Write(n) ==
    LET b == Prepared(buf, n, buf.wr)
        k == Clipped(b, n, b.wr)
        room == MakeRoom(b, n, b.wr)
    IN /\ Unlocked /\ written + n <= MaxBytes
       /\ b.size > 0
       /\ k > 0
       /\ buf' = [room EXCEPT !.wr = AdvancePtr(b.wr, k, b.size),
                              !.mem = Copied(room, Data(written, k), k, b.wr),
                              !.ready = TRUE, !.evEmpty = FALSE]
       /\ Records(b, k, b.wr)
       /\ UNCHANGED <<callersLock, defrag, taken>>

\* A write that finds no memory or no room changes nothing and returns zero.
WriteFails(n) ==
    LET b == Prepared(buf, n, buf.wr)
    IN /\ Unlocked /\ written + n <= MaxBytes
       /\ b.size = 0 \/ Clipped(b, n, b.wr) = 0
       /\ buf' = b
       /\ UNCHANGED <<callersLock, defrag, written, taken, torn>>

\* Write( buf, size, &m_uPokePtr ): the bytes after the first-th, at the poke
\* pointer, which alone advances.
Poked(b, n, first) ==
    LET k == Clipped(b, n, b.poke)
        room == MakeRoom(b, n, b.poke)
    IN [room EXCEPT !.mem = Copied(room, Data(first, k), k, b.poke),
                    !.poke = AdvancePtr(b.poke, k, b.size)]

Torn(b, k, first) == IF b.poke = b.size THEN first + 1 .. first + k ELSE {}

\* InitPoke(), two Poke()s and EndPoke() under one lock, as a data packet is
\* written.  The first Poke may grow the buffer, and so may the second, with the
\* first one's bytes not yet committed.  EndPoke() commits a pointer that moved.
PokeWrite(m, n) ==
    LET b == Prepared([buf EXCEPT !.poke = buf.wr], m, buf.wr)
        j == Clipped(b, m, b.poke)
        c == Poked(b, m, written)
        d == Prepared(c, n, c.poke)
        k == Clipped(d, n, d.poke)
        e == Poked(d, n, written + j)
    IN /\ Unlocked /\ written + m + n <= MaxBytes
       /\ j > 0 /\ k > 0
       /\ buf' = [e EXCEPT !.wr = e.poke, !.ready = @ \/ e.wr # e.poke,
                           !.evEmpty = @ /\ e.wr = e.poke]
       /\ written' = written + j + k
       /\ torn' = torn \cup Torn(b, j, written) \cup Torn(d, k, written + j)
       /\ UNCHANGED <<callersLock, defrag, taken>>

\* A packet whose first or second part finds no room is not committed.  The
\* buffer may have grown, and the first part is poked over the oldest bytes.
PokeFails(m, n) ==
    LET b == Prepared([buf EXCEPT !.poke = buf.wr], m, buf.wr)
        j == Clipped(b, m, b.poke)
        d == Prepared(Poked(b, m, written), n, Poked(b, m, written).poke)
        oldest == written - b.size + 1 .. written - b.size + j
    IN /\ Unlocked /\ written + m + n <= MaxBytes
       /\ \/ j = 0 /\ buf' = b /\ UNCHANGED torn
          \/ /\ j > 0 /\ Clipped(d, n, d.poke) = 0
             /\ buf' = d
             /\ torn' = torn \cup (oldest \cap 1 .. written)
       /\ UNCHANGED <<callersLock, defrag, written, taken>>

\* Read( buf, max, &read ): up to n bytes leave the buffer.
Read(n) ==
    LET k == Lesser(n, Readable(buf))
    IN /\ ~defrag
       /\ k > 0
       /\ buf' = [buf EXCEPT !.rd = NormalizePtr(AdvancePtr(@, k, buf.size), buf.size)]
       /\ taken' = taken + k
       /\ defrag' = TRUE
       /\ UNCHANGED <<callersLock, written, torn>>

\* The end of Read(): a writer may have been faster.
ReadEnds ==
    /\ defrag
    /\ defrag' = FALSE
    /\ buf' = Defrag(buf)
    /\ UNCHANGED <<callersLock, written, taken, torn>>

Next ==
    \/ \E n \in Chunks : Write(n) \/ WriteFails(n) \/ Read(n)
    \/ \E m, n \in Chunks : PokeWrite(m, n) \/ PokeFails(m, n)
    \/ ReadEnds

Spec == Init /\ [][Next]_vars
-----------------------------------------------------------------------------
(* Properties *)

\* The buffer's pointers stay where the next operation can use them.
TypeOK ==
    /\ buf.size \in Nat
    /\ DOMAIN buf.mem = 0 .. buf.size - 1
    /\ IF buf.size = 0 THEN buf.rd = 0 /\ buf.wr = 0
       ELSE buf.rd \in 0 .. buf.size - 1 /\ buf.wr \in 0 .. buf.size
    /\ buf.poke \in Nat
    /\ defrag \in BOOLEAN /\ buf.ready \in BOOLEAN /\ buf.evEmpty \in BOOLEAN
    /\ written \in Nat /\ taken \in Nat /\ torn \subseteq 1 .. written

\* Nothing keeps a buffer from growing, nor has at a size it had before:
\* neither its maximum nor a block that is no larger.
CanGrow(b) ==
    \A s \in {t \in Sizes \ {0} : t <= b.size}, n \in Chunks : Grown(s, n, b.max) > s + n

\* A growing buffer whose callers hold its lock has as many bytes as were
\* written and not read, "Ensure correct number of bytes remain in the buffer",
\* and once readers are out of Read() its empty flag and m_evDataReady say so.
\* m_evEmpty is signalled when there have been data and all of them are read:
\* a buffer that is still to be written to is empty and has not signalled it.
CountMatches ==
    buf.mode = "grow" /\ callersLock /\ ~defrag /\ CanGrow(buf) =>
        /\ Readable(buf) = written - taken
        /\ buf.ready <=> written > taken
        /\ buf.evEmpty <=> 0 < written /\ written = taken

\* The bytes a reader gets are the latest ones written, in their order and
\* without a gap, except those whose write began with the pointer at the size:
\* wrapping, growing, overwriting and poking lose and mix up nothing.
LatestBytes ==
    \A i \in 1 .. Readable(buf) :
        LET due == written - Readable(buf) + i
        IN due \notin torn => Content(buf)[i] = due

\* Whatever the mode, and between Read() and its Defrag() too, the flag and
\* the events never deny data that is there.
DataIsAnnounced == Readable(buf) > 0 => buf.ready
=============================================================================
