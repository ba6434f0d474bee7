------------------------------- MODULE RingBuf -------------------------------
(***************************************************************************)
(* The arithmetic of CCircBuf: what each of its functions makes of the     *)
(* buffer, as operators from a buffer to a buffer.  The buffer is also     *)
(* that of a CFifoSync, which derives from CCircBuf and overrides Empty(). *)
(*                                                                         *)
(* The read pointer stays below the size; the write and poke pointers may  *)
(* equal it, for AdvancePtr wraps only a pointer that is past the size.    *)
(* Sizes are those the allocator grants: it rounds the request and its own *)
(* overhead up to a power of two and the buffer takes the whole block.     *)
(***************************************************************************)
EXTENDS Integers, Sequences

CONSTANTS
    Overhead,   \* OEX_SIZE_VAR + ProtectAreaSize(), bytes of every block
    Header,     \* sizeof( SBufferInfo ), in front of the data
    PowerBits   \* bound: sizes stay below 2^PowerBits

ASSUME SizesAreNat == Overhead \in Nat /\ Header \in Nat \ {0} /\ PowerBits \in Nat \ {0}

\* 8 bytes against 84, or 48 in a 32 bit build.  With a header larger than the
\* overhead a ring could become smaller by growing.
ASSUME HeaderIsSmaller == Header <= Overhead

\* m_nWriteMode: eWmFail, eWmGrow, eWmOverwrite
WriteModes == {"fail", "grow", "overwrite"}

\* What is in a byte nobody has written.
Junk == 0

LeastOf(S) == CHOOSE m \in S : \A n \in S : m <= n
Lesser(m, n) == IF m <= n THEN m ELSE n
Greater(m, n) == IF m >= n THEN m ELSE n

\* 2^k, as a function, because the provers have no theory of exponents.
Power[k \in 0 .. PowerBits] == IF k = 0 THEN 1 ELSE 2 * Power[k - 1]
Powers == {Power[k] : k \in 1 .. PowerBits}
Largest == Power[PowerBits]

NextPower2(v) == LeastOf({p \in Powers : p >= v})

\* TMem::Size() of a block that was asked to hold n bytes and uses all of it.
Granted(n) == NextPower2(Overhead + n) - Overhead

\* The size of the ring in a block that Allocate() and that Resize() ask for:
\* only Allocate() asks for the header too.
Allocated(n) == Granted(n + Header) - Header
Resized(n) == Granted(n) - Header

\* What a buffer of s bytes that makes room for n more becomes.
Grown(s, n, max) ==
    IF NextPower2(s + n + 1) > max THEN s ELSE Resized(NextPower2(s + n + 1))

-----------------------------------------------------------------------------
(* Pointers *)

\* Mutants: only a pointer at the size is wrapped; a full buffer is one short.
AdvancePtrNoWrap(p, step, max) == IF p + step = max THEN 0 ELSE p + step
GetMaxReadShort(r, w, max) ==
    IF max = 0 \/ r = w THEN 0 ELSE IF w > r THEN w - r ELSE max - (r - w) - 1

AdvancePtr(p, step, max) ==
    IF max > 0 /\ p + step > max THEN (p + step) % max ELSE p + step

NormalizePtr(p, max) == IF max > 0 /\ p >= max THEN p % max ELSE p

GetMaxRead(r, w, max) ==
    IF max = 0 \/ r = w THEN 0 ELSE IF w > r THEN w - r ELSE max - (r - w)

GetMaxWrite(r, w, max) ==
    LET nw == NormalizePtr(w, max)
    IN CASE max = 0      -> 0
         [] max # 0 /\ r = nw -> IF r = w THEN max ELSE 0
         [] max # 0 /\ nw > r -> max - (nw - r)
         [] max # 0 /\ nw < r -> IF nw + 1 = r THEN 0 ELSE r - nw

\* The one or two views of n bytes from p: none if p is not inside the ring.
Views(p, n, max) == IF p >= max THEN {} ELSE {<<i, (p + i) % max>> : i \in 0 .. n - 1}

-----------------------------------------------------------------------------
(* Buffers.  size = 0 is a buffer without memory (m_pBi is NULL), max is     *)
(* m_uMaxSize.  ready is ~m_bEmpty, with which m_evDataReady always changes; *)
(* m_evEmpty does not always, for it is not signalled when it is created.    *)

NoBuffer(mode, max) ==
    [mode |-> mode, max |-> max, size |-> 0, rd |-> 0, wr |-> 0, poke |-> 0, ready |-> FALSE,
     evEmpty |-> FALSE, mem |-> <<>>, head |-> 0, tail |-> 0]

Readable(b) == GetMaxRead(b.rd, b.wr, b.size)
Writable(b) == GetMaxWrite(b.rd, b.wr, b.size)

\* The bytes a reader would get, oldest first.
Content(b) == [i \in 1 .. Readable(b) |-> b.mem[(b.rd + i - 1) % b.size]]

\* Empty(), CFifoSync's override included: the pointers go back to zero and
\* the flag and the two events say that there is nothing to read.  The poke
\* pointer stays.  Without memory Empty() returns before it signals m_evEmpty,
\* and the flag and the pointers are as they were created.
Empty(b) == [b EXCEPT !.rd = 0, !.wr = 0, !.head = 0, !.tail = 0, !.ready = FALSE,
                      !.evEmpty = @ \/ b.size # 0]

Defrag(b) == IF b.rd = NormalizePtr(b.wr, b.size) THEN Empty(b) ELSE b

AdvanceReadPtr(b, step) ==
    IF Readable(b) = 0 THEN b
    ELSE Defrag([b EXCEPT !.rd = NormalizePtr(AdvancePtr(@, step, b.size), b.size)])

\* Allocate() destroys what there was.
Allocate(b, n) ==
    LET size == Allocated(n)
    IN [Empty(b) EXCEPT !.size = size, !.poke = 0, !.mem = [i \in 0 .. size - 1 |-> Junk]]

\* Mutant: the second view is not copied.
ResizeOneView(b, n) ==
    LET written == Readable(b)
        poked == GetMaxRead(b.rd, b.poke, b.size)
        size == Resized(n)
        used == Lesser(Greater(written, poked), b.size - b.rd)
    IN IF n > b.max \/ n = b.size THEN b
       ELSE [b EXCEPT !.size = size, !.rd = 0, !.wr = written, !.poke = poked,
                !.mem = [i \in 0 .. size - 1 |->
                            IF i < used THEN b.mem[(b.rd + i) % b.size] ELSE Junk]]

\* Resize() moves the data, poked data included, to the front of a new block.
Resize(b, n) ==
    LET written == Readable(b)
        poked == GetMaxRead(b.rd, b.poke, b.size)
        size == Resized(n)
        used == Lesser(Lesser(Greater(written, poked), b.size), size)
    IN IF n > b.max \/ n = b.size THEN b
       ELSE [b EXCEPT !.size = size, !.rd = 0, !.wr = written, !.poke = poked,
                !.mem = [i \in 0 .. size - 1 |->
                            IF i < used THEN b.mem[(b.rd + i) % b.size] ELSE Junk]]

\* Room for n more bytes and one; what Resize() answers is not looked at.
EnsureWriteSpace(b, n, from) ==
    IF GetMaxWrite(b.rd, from, b.size) >= n + 1 THEN b
    ELSE Resize(b, NextPower2(b.size + n + 1))

\* What Write( buf, size, &ptr ) does to the buffer before it copies: in
\* overwrite mode it makes room, by a byte more than is missing.
MakeRoom(b, n, from) ==
    LET avail == GetMaxWrite(b.rd, from, b.size)
    IN IF n <= avail \/ b.mode # "overwrite" THEN b
       ELSE IF n > b.size THEN Empty(b) ELSE AdvanceReadPtr(b, n - avail + 1)

\* How many bytes it copies, clipped to the room there was.
Clipped(b, n, from) ==
    IF b.mode = "overwrite" THEN Lesser(n, b.size)
    ELSE Lesser(n, GetMaxWrite(b.rd, from, b.size))

\* The bytes themselves, from the pointer it was given, wherever the read
\* pointer went meanwhile.
Copied(b, data, n, from) ==
    LET views == Views(from, n, b.size)
    IN [i \in DOMAIN b.mem |->
          IF \E v \in views : v[2] = i
            THEN data[(CHOOSE v \in views : v[2] = i)[1] + 1] ELSE b.mem[i]]
=============================================================================
