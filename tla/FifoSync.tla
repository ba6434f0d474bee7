------------------------------ MODULE FifoSync ------------------------------
(***************************************************************************)
(* CFifoSync: blocks in a ring.  The bytes are in the CCircBuf it derives  *)
(* from, their sizes in a second ring of slots with a head and a tail.     *)
(* Every function holds the buffer's lock throughout, so each is one step; *)
(* the state is one record, the buffer with its slots.  The override of    *)
(* Empty() is part of RingBuf's: emptying the bytes resets head and tail.  *)
(*                                                                         *)
(* The bytes of a block are the block's number.  due lists the blocks that *)
(* should be in the fifo, [id, size]; odd is set by what the code does not *)
(* get right (see Oddities), so that the rest can be checked without it.   *)
(***************************************************************************)
EXTENDS RingBuf, FiniteSets

CONSTANTS
    MaxSize,        \* m_uMaxSize
    BytesPerSlot,   \* Allocate( size ) makes a slot for so many bytes (16)
    SlotHeader,     \* elements that AllocateBuffers asks for on top
    Blocks,         \* sizes of the blocks written
    Starts,         \* <<bytes, slots>> of the first Allocate
    MaxBlocks       \* bound: blocks written

ASSUME FifoConstants ==
    /\ MaxSize \in Nat /\ BytesPerSlot \in Nat \ {0} /\ SlotHeader \in Nat \ {0} /\ MaxBlocks \in Nat
    /\ Blocks \subseteq Nat \ {0} /\ Starts \subseteq (Nat \ {0}) \X (Nat \ {0})

\* There is a power of two for the blocks and the slots asked for at first, and
\* for a fifo that grows to its maximum.
ASSUME FifoPowersSuffice ==
    /\ \A s \in Starts : Overhead + (s[1] + Header) <= Largest /\ s[2] <= Largest
    /\ Overhead + MaxSize <= Largest

\* Bound: a block for a fifo of `size` bytes and n more stays below 2^PowerBits.
Fits(size, n) == Overhead + (size + n + Header) <= Largest

\* What is left of a block of a power of two bytes.
FifoSizes == {p - Overhead - Header : p \in Powers} \cap (Nat \ {0})

VARIABLES
    f,          \* [b: the buffer, slots: m_uMaxBuffers, len: m_auSize]
    stuck,      \* a writer loops for ever, and holds the lock
    due,        \* history: the blocks that were written and not read
    count,      \* history: blocks written
    odd         \* history: one of Oddities has happened

fifoVars == <<f, stuck, due, count, odd>>

\* Blocks there are to read, and slots there are to write.
UsedBuffers(g) == GetMaxRead(g.b.tail, g.b.head, g.slots)
FreeBuffers(g) == GetMaxWrite(g.b.tail, g.b.head, g.slots)

\* AllocateBuffers: new slots only when the array is too short.
WithSlots(g, n) ==
    [g EXCEPT !.slots = n,
              !.len = IF Cardinality(DOMAIN @) > n THEN @
                      ELSE [i \in 0 .. n + SlotHeader - 1 |-> 0]]

\* The two Allocate()s.  Both destroy what the fifo held.
AllocateFifo(g, n, slots) == WithSlots([g EXCEPT !.b = Allocate(@, n)], NextPower2(slots))
AllocateOne(g, n) == AllocateFifo(g, n, n \div BytesPerSlot)

\* Mutants: the tail is not normalized; the bytes stay.
SkipBlockRaw(g) ==
    IF UsedBuffers(g) = 0 THEN g
    ELSE [g EXCEPT !.b = [AdvanceReadPtr(g.b, g.len[g.b.tail]) EXCEPT
                             !.tail = AdvancePtr(@, 1, g.slots)]]

\* SkipBlock: the bytes go first.  If they were the last ones Defrag() empties
\* the buffer, which resets head and tail, and the tail advances all the same.
SkipBlock(g) ==
    LET b == AdvanceReadPtr(g.b, g.len[g.b.tail])
        tail == NormalizePtr(AdvancePtr(b.tail, 1, g.slots), g.slots)
    IN IF UsedBuffers(g) = 0 THEN g
       ELSE IF tail = 0 /\ NormalizePtr(b.head, g.slots) = 0
         THEN [g EXCEPT !.b = [b EXCEPT !.tail = 0, !.head = 0]]
         ELSE [g EXCEPT !.b = [b EXCEPT !.tail = tail]]

HasRoom(g, n) == FreeBuffers(g) > 0 /\ Writable(g.b) >= n

\* "Start knocking stuff out of the buffer": after at most two rounds of the
\* slots SkipBlock has nothing left to skip and the loop goes nowhere.
Skips(g) ==
    LET after[k \in 0 .. 2 * g.slots] == IF k = 0 THEN g ELSE SkipBlock(after[k - 1])
    IN after
RoomAfter(g, n) == {k \in 0 .. 2 * g.slots : HasRoom(Skips(g)[k], n)}

\* The fifo with room for a block of n bytes, as InitFifoWrite leaves it when
\* it gets that far: grown, emptied or with the oldest blocks skipped.
MadeRoom(g, n) ==
    CASE HasRoom(g, n) -> g
      [] ~HasRoom(g, n) /\ g.b.mode = "grow" -> AllocateOne(g, g.b.size + n)
      [] ~HasRoom(g, n) /\ g.b.mode = "overwrite" ->
           IF g.b.size <= n THEN [g EXCEPT !.b = Empty(@)]
           ELSE Skips(g)[LeastOf(RoomAfter(g, n))]
      [] ~HasRoom(g, n) /\ g.b.mode = "fail" -> g

\* Mutant: the slot keeps what its last block left in it.
SlotKept(g) == [g EXCEPT !.b.head = NormalizePtr(@, g.slots), !.b.poke = g.b.wr]

\* The end of InitFifoWrite: the head's slot is cleared and InitPoke.
SlotCleared(g) ==
    LET head == NormalizePtr(g.b.head, g.slots)
    IN [g EXCEPT !.b.head = head, !.b.poke = g.b.wr, !.len[head] = 0]

\* Poke: in grow mode there is room for the block and a byte.
Ensured(g, n) == IF g.b.mode = "grow" THEN EnsureWriteSpace(g.b, n, g.b.poke) ELSE g.b

\* AddFifo and EndFifoWrite: the block's bytes are poked into the ring b, the
\* head advances and EndPoke commits a poke pointer that has moved.
Entered(b, n, id, slots) ==
    LET k == Clipped(b, n, b.poke)
        room == MakeRoom(b, n, b.poke)
        poke == AdvancePtr(b.poke, k, b.size)
    IN [room EXCEPT !.mem = Copied(room, [i \in 1 .. k |-> id], k, b.poke),
                    !.poke = poke, !.wr = poke,
                    !.ready = @ \/ room.wr # poke,
                    !.evEmpty = @ /\ room.wr = poke,
                    !.head = AdvancePtr(@, 1, slots)]

\* The block's size, whole even if the bytes were clipped, goes to its slot.
Committed(g, n, id) ==
    LET b == Ensured(g, n)
        head == MakeRoom(b, n, b.poke).head
    IN [g EXCEPT !.b = Entered(b, n, id, g.slots), !.len[head] = @ + n]

FifoInit ==
    /\ \E s \in Starts, mode \in WriteModes :
          f = AllocateFifo([b |-> NoBuffer(mode, MaxSize), slots |-> 0, len |-> <<>>], s[1], s[2])
    /\ stuck = FALSE
    /\ due = <<>>
    /\ count = 0
    /\ odd = FALSE

\* What goes wrong in g with a block of n bytes: the fifo grows and loses what
\* it held; the block is larger than the buffer; its write begins with the
\* pointer at the size; it ends on the read pointer; or making room for it, or
\* reading, takes the last byte out of the buffer.
Oddities(g, n) ==
    LET h == MadeRoom(g, n)
    IN \/ h.b.size # g.b.size
       \/ n > g.b.size
       \/ h.b.wr = h.b.size
       \/ Readable(Committed(SlotCleared(h), n, 1).b) = 0
       \/ Readable(g.b) > 0 /\ Readable(h.b) = 0
Drains(g) == Readable(SkipBlock(g).b) = 0

WriteBlockHangs(n) ==
    /\ ~stuck /\ count < MaxBlocks /\ Fits(f.b.size, n)
    /\ f.b.mode = "overwrite" /\ ~HasRoom(f, n) /\ f.b.size > n /\ RoomAfter(f, n) = {}
    /\ stuck' = TRUE
    /\ UNCHANGED <<f, due, count, odd>>

WriteBlockFails(n) ==
    /\ ~stuck /\ count < MaxBlocks /\ Fits(f.b.size, n)
    /\ f.b.mode = "fail" /\ ~HasRoom(f, n)
    /\ UNCHANGED fifoVars

Last(s, k) == SubSeq(s, Len(s) - k + 1, Len(s))

\* Write(): one block, whole, behind the others.  An overwritten block is not
\* due any more.
WriteBlock(n) ==
    /\ ~stuck /\ count < MaxBlocks /\ Fits(f.b.size, n)
    /\ HasRoom(f, n) \/ f.b.mode = "grow" \/ (f.b.mode = "overwrite" /\ f.b.size <= n)
          \/ (f.b.mode = "overwrite" /\ RoomAfter(f, n) # {})
    /\ f' = Committed(SlotCleared(MadeRoom(f, n)), n, count + 1)
    /\ count' = count + 1
    /\ LET all == Append(due, [id |-> count + 1, size |-> n])
       IN due' = IF f.b.mode = "overwrite" /\ UsedBuffers(f') <= Len(all)
                   THEN Last(all, UsedBuffers(f')) ELSE all
    /\ odd' = (odd \/ Oddities(f, n))
    /\ UNCHANGED stuck

\* Read(): however small the reader's memory, the whole block is skipped.
ReadBlock ==
    /\ ~stuck
    /\ UsedBuffers(f) > 0
    /\ f' = SkipBlock(f)
    /\ due' = IF due = <<>> THEN due ELSE Tail(due)
    /\ odd' = (odd \/ Drains(f))
    /\ UNCHANGED <<stuck, count>>

FifoNext == ReadBlock \/ \E n \in Blocks : WriteBlock(n) \/ WriteBlockFails(n) \/ WriteBlockHangs(n)

FifoSpec == FifoInit /\ [][FifoNext]_fifoVars
-----------------------------------------------------------------------------
(* Properties *)

\* The block in the i-th slot from the tail, and where its bytes begin: as
\* Peek( i, ... ) finds them.
Slot(i) == (f.b.tail + i) % f.slots
Offset(i) ==
    LET sum[k \in 0 .. i] == IF k = 0 THEN 0 ELSE sum[k - 1] + f.len[Slot(k - 1)]
    IN sum[i]
Peek(i) == [j \in 1 .. f.len[Slot(i)] |->
               IF Offset(i) + j <= Readable(f.b) THEN Content(f.b)[Offset(i) + j] ELSE Junk]

\* Slots and pointers stay where the next operation can use them.
FifoTypeOK ==
    /\ f.b.rd \in 0 .. f.b.size - 1 /\ f.b.wr \in 0 .. f.b.size
    /\ f.b.tail \in 0 .. f.slots - 1 /\ f.b.head \in 0 .. f.slots
    /\ 0 .. f.slots - 1 \subseteq DOMAIN f.len
    /\ stuck \in BOOLEAN /\ odd \in BOOLEAN
    /\ count \in 0 .. MaxBlocks /\ Len(due) <= count

\* As long as none of Oddities has happened the fifo holds the blocks that are
\* due, in order, each with its own size and bytes, and the slots account for
\* every byte: the two rings, which wrap at different times, never drift apart.
\* Growing sets odd: it throws away what the fifo held.
BlocksAreDue ==
    ~odd => /\ UsedBuffers(f) = Len(due)
            /\ Offset(UsedBuffers(f)) = Readable(f.b)
            /\ \A i \in 1 .. Len(due) :
                  Peek(i - 1) = [j \in 1 .. due[i].size |-> due[i].id]

\* Overwriting ends: a writer always finds room by knocking out old blocks.
OverwriteEnds == ~stuck
=============================================================================
