---------------------------- MODULE RingBufProofs ----------------------------
(***************************************************************************)
(* Proofs about CircBuf and FifoSync, which share RingBuf, for every set   *)
(* of sizes and any number of writes.                                      *)
(*                                                                         *)
(* What is known of the ring's memory is known up to a pointer, Known(b,   *)
(* ptr, last, lost): the byte numbered last is in front of it, the ones    *)
(* before it are where they should be, as far back as the ring's start and *)
(* round its end to the read pointer, except the ones in lost.  Each of    *)
(* the buffer's functions keeps that, for the write pointer and for the    *)
(* poke pointer, and so does each step.                                    *)
(*                                                                         *)
(* A fifo is two rings: Laid(g, s) says that the blocks s lie in g, their  *)
(* sizes in the slots from the tail to the head and their bytes, cut at    *)
(* the sums of the sizes, from the read to the write pointer.  Skipping a  *)
(* block takes the first of them, writing one adds it behind the last, and *)
(* growing moves them.                                                     *)
(***************************************************************************)
EXTENDS CircBuf, FifoSync, FiniteSetTheorems, WellFoundedInduction, TLAPS

-----------------------------------------------------------------------------
(* Sizes                                                                   *)

LEMMA LeastOfNat ==
    ASSUME NEW S, S \subseteq Nat, S # {}
    PROVE  LeastOf(S) \in S /\ \A n \in S : LeastOf(S) <= n
<1>1. PICK m \in S : \A k \in S : <<k, m>> \notin OpToRel(<, Nat)
  BY NatLessThanWellFounded, WFMin, Zenon
<1>2. \A k \in S : ~(k < m)
  BY <1>1, Zenon DEF OpToRel
<1>3. \A k \in S : m <= k
  BY <1>2
<1> QED
  BY <1>3 DEF LeastOf

\* The powers up to n: the function that Power is the last of exists,
PowersUpto(n, h) == h = [k \in 0 .. n |-> IF k = 0 THEN 1 ELSE 2 * h[k - 1]]

LEMMA PowersExist == ASSUME NEW n \in Nat PROVE \E h : PowersUpto(n, h)
<1> DEFINE S == {m \in Nat : ~ \E h : PowersUpto(m, h)}
           m == LeastOf(S)
<1> SUFFICES ASSUME S # {} PROVE FALSE
  OBVIOUS
<1>1. m \in S /\ \A k \in S : m <= k
  <2>1. S \subseteq Nat /\ S # {}
    OBVIOUS
  <2> HIDE DEF S
  <2> QED
    BY <2>1, LeastOfNat
<1> HIDE DEF m
<1>2. m \in Nat /\ ~ \E h : PowersUpto(m, h)
  BY <1>1
<1>3. CASE m = 0
  <2> DEFINE h == [k \in 0 .. 0 |-> 1]
  <2>1. h = [k \in 0 .. 0 |-> IF k = 0 THEN 1 ELSE 2 * h[k - 1]]
    OBVIOUS
  <2> QED
    BY <1>2, <1>3, <2>1 DEF PowersUpto
<1>4. CASE m # 0
  <2>1. m - 1 \in Nat /\ ~(m <= m - 1)
    BY <1>2, <1>4
  <2>2. PICK a : PowersUpto(m - 1, a)
    BY <1>1, <2>1
  <2> DEFINE h == [k \in 0 .. m |-> IF k < m THEN a[k] ELSE 2 * a[m - 1]]
  <2>3. a[0] = 1 /\ \A k \in 1 .. m - 1 : a[k] = 2 * a[k - 1]
    BY <2>1, <2>2 DEF PowersUpto
  <2>4. ASSUME NEW k \in 0 .. m PROVE h[k] = IF k = 0 THEN 1 ELSE 2 * h[k - 1]
    <3>1. CASE k = 0
      BY <1>2, <1>4, <2>3, <3>1
    <3>2. CASE k # 0
      <4>1. k - 1 \in 0 .. m /\ k - 1 < m /\ h[k - 1] = a[k - 1]
        BY <1>2, <3>2
      <4>2. k = m => h[k] = 2 * a[k - 1]
        BY <1>2
      <4>3. k # m => k \in 1 .. m - 1 /\ h[k] = a[k]
        BY <1>2, <3>2
      <4> HIDE DEF h
      <4> QED
        BY <2>3, <3>2, <4>1, <4>2, <4>3
    <3> QED
      BY <3>1, <3>2
  <2>5. h = [k \in 0 .. m |-> h[k]]
    OBVIOUS
  <2> HIDE DEF h
  <2>6. PowersUpto(m, h)
    BY <2>4, <2>5 DEF PowersUpto
  <2> QED
    BY <1>2, <2>6
<1> QED
  BY <1>3, <1>4

\* and Power is that function.
LEMMA PowerDoubles == Power[0] = 1 /\ \A k \in 1 .. PowerBits : Power[k] = 2 * Power[k - 1]
<1> DEFINE n == PowerBits
<1>1. n \in Nat
  BY SizesAreNat
<1>2. Power = CHOOSE h : h = [k \in 0 .. n |-> IF k = 0 THEN 1 ELSE 2 * h[k - 1]]
  BY DEF Power
<1> HIDE DEF n
<1>3. \E h : PowersUpto(n, h)
  BY <1>1, PowersExist
<1> DEFINE s == Power
<1>4. s = [k \in 0 .. n |-> IF k = 0 THEN 1 ELSE 2 * s[k - 1]]
  BY <1>2, <1>3, Zenon DEF PowersUpto
<1> HIDE DEF s
<1>5. s[0] = 1 /\ \A k \in 1 .. n : s[k] = 2 * s[k - 1]
  BY <1>1, <1>4
<1> QED
  BY <1>5 DEF s, n

LEMMA PowerIsPositive == \A k \in 0 .. PowerBits : Power[k] \in Nat \ {0}
<1> DEFINE S == {k \in Nat : k <= PowerBits /\ Power[k] \notin Nat \ {0}}
           m == LeastOf(S)
<1> SUFFICES ASSUME S # {} PROVE FALSE
  BY SizesAreNat
<1>1. m \in S /\ \A k \in S : m <= k
  <2>1. S \subseteq Nat
    OBVIOUS
  <2> HIDE DEF S
  <2> QED
    BY <2>1, LeastOfNat
<1> HIDE DEF m
<1>2. m \in Nat /\ m <= PowerBits /\ Power[m] \notin Nat \ {0}
  BY <1>1
<1>3. m # 0
  BY <1>2, PowerDoubles
<1>4. Power[m - 1] \in Nat \ {0}
  BY <1>1, <1>2, <1>3, SizesAreNat
<1>5. Power[m] = 2 * Power[m - 1]
  BY <1>2, <1>3, PowerDoubles, SizesAreNat
<1> QED
  BY <1>2, <1>4, <1>5

LEMMA PowersArePositive == Powers \subseteq Nat \ {0} /\ Largest \in Nat /\ Largest \in Powers
BY PowerIsPositive, SizesAreNat DEF Powers, Largest

\* Of two powers of two the larger is at least twice the smaller.
LEMMA PowersApart ==
    ASSUME NEW i \in 0 .. PowerBits, NEW j \in 0 .. PowerBits, i < j
    PROVE  2 * Power[i] <= Power[j]
<1> DEFINE S == {k \in Nat : i < k /\ k <= PowerBits /\ ~(2 * Power[i] <= Power[k])}
           m == LeastOf(S)
<1> SUFFICES ASSUME S # {} PROVE FALSE
  BY SizesAreNat
<1>1. m \in S /\ \A k \in S : m <= k
  <2>1. S \subseteq Nat
    OBVIOUS
  <2> HIDE DEF S
  <2> QED
    BY <2>1, LeastOfNat
<1> HIDE DEF m
<1>2. m \in Nat /\ i < m /\ m <= PowerBits /\ ~(2 * Power[i] <= Power[m])
  BY <1>1
<1>3. m \in 1 .. PowerBits /\ m - 1 \in 0 .. PowerBits
  BY <1>2, SizesAreNat
<1>4. Power[m] = 2 * Power[m - 1]
  BY <1>3, PowerDoubles
<1>5. Power[i] \in Nat \ {0} /\ Power[m - 1] \in Nat \ {0}
  BY <1>3, PowerIsPositive
<1>6. i # m - 1
  BY <1>2, <1>4, <1>5
<1>7. m - 1 \in Nat /\ i < m - 1 /\ m - 1 <= PowerBits /\ ~(m <= m - 1)
  BY <1>2, <1>3, <1>6, SizesAreNat
<1>8. 2 * Power[i] <= Power[m - 1]
  BY <1>1, <1>7
<1> QED
  BY <1>2, <1>4, <1>5, <1>8

LEMMA PowersDouble ==
    ASSUME NEW p \in Powers, NEW q \in Powers, p < q
    PROVE  2 * p <= q
<1>1. PICK i \in 1 .. PowerBits : p = Power[i]
  BY DEF Powers
<1>2. PICK j \in 1 .. PowerBits : q = Power[j]
  BY DEF Powers
<1>3. i \in 0 .. PowerBits /\ j \in 0 .. PowerBits
  BY SizesAreNat
<1>4. p \in Nat /\ q \in Nat
  BY PowersArePositive
<1>5. i < j
  <2>1. i # j
    BY <1>1, <1>2, <1>4
  <2>2. ~(j < i)
    <3> SUFFICES ASSUME j < i PROVE FALSE
      OBVIOUS
    <3>1. 2 * q <= p
      BY <1>1, <1>2, <1>3, PowersApart
    <3> QED
      BY <3>1, <1>4
  <2> QED
    BY <2>1, <2>2, <1>3, SizesAreNat
<1> QED
  BY <1>1, <1>2, <1>3, <1>5, PowersApart

\* Below 2^PowerBits there is a power of two for every size.
LEMMA NextPowerFits ==
    ASSUME NEW v \in Nat, v <= Largest
    PROVE  NextPower2(v) \in Powers /\ NextPower2(v) \in Nat /\ NextPower2(v) >= v
<1> DEFINE S == {p \in Powers : p >= v}
<1>1. Powers \subseteq Int
  BY PowersArePositive
<1>2. \A p \in S : p \in Nat
  <2> SUFFICES ASSUME NEW p \in Int, p >= v PROVE p \in Nat
    BY <1>1
  <2> QED
    OBVIOUS
<1>3. Largest \in S
  BY PowersArePositive
<1> HIDE DEF S
<1>4. LeastOf(S) \in S
  BY <1>2, <1>3, LeastOfNat
<1> QED
  BY <1>2, <1>4 DEF NextPower2, S

\* A new buffer holds the bytes it is made for.
LEMMA AllocatedFits ==
    ASSUME NEW n \in Chunks
    PROVE  Allocated(n) \in Sizes /\ Allocated(n) \in Nat /\ Allocated(n) >= n
<1>1. n \in Nat /\ Overhead + (n + Header) \in Nat /\ Overhead + (n + Header) <= Largest
  BY ChunksArePositive, SizesAreNat, PowersSuffice
<1>2. /\ NextPower2(Overhead + (n + Header)) \in Nat
      /\ NextPower2(Overhead + (n + Header)) >= Overhead + (n + Header)
  BY <1>1, NextPowerFits
<1>3. Allocated(n) \in Nat /\ Allocated(n) >= n
  BY <1>1, <1>2, SizesAreNat DEF Allocated, Granted
<1> QED
  BY <1>3 DEF Sizes

\* Resize() does not ask for the header, which the ring then goes without, but
\* the next power of two makes up for that: no ring gets smaller by growing.
LEMMA GrowingNeverShrinks ==
    ASSUME NEW s \in Nat \ {0}, NEW block \in Powers, s = block - Overhead - Header,
           NEW n \in Nat \ {0}, s + n + 1 <= Largest, NEW p, p = NextPower2(s + n + 1),
           Overhead + p <= Largest
    PROVE  Resized(p) >= s
<1> DEFINE q == NextPower2(Overhead + p)
<1>1. p \in Powers /\ p \in Nat /\ p >= s + n + 1
  BY NextPowerFits
<1>2. q \in Powers /\ q \in Nat /\ q >= Overhead + p
  <2>1. Overhead + p \in Nat
    BY <1>1, SizesAreNat
  <2> QED
    BY <2>1, NextPowerFits
<1>3. Resized(p) = q - Overhead - Header
  BY DEF Resized, Granted
<1> HIDE DEF q
<1>4. block \in Nat
  BY PowersArePositive
<1>5. q >= block
  <2> SUFFICES ASSUME q < block PROVE FALSE
    BY <1>2, <1>4
  <2>1. 2 * q <= block
    BY <1>2, PowersDouble
  <2> QED
    BY <2>1, <1>1, <1>2, <1>4, SizesAreNat, HeaderIsSmaller
<1> QED
  BY <1>2, <1>3, <1>4, <1>5, SizesAreNat

\* What a buffer with memory has is what is left of a block of a power of two.
LEMMA SizesAreOfBlocks ==
    ASSUME NEW s \in Sizes \ {0}
    PROVE  s \in Nat \ {0} /\ \E block \in Powers : s = block - Overhead - Header
<1>1. s \in Nat \ {0}
  BY DEF Sizes
<1>2. CASE \E n \in Chunks : s = Allocated(n)
  <2>1. PICK n \in Chunks : s = Allocated(n)
    BY <1>2
  <2>2. Overhead + (n + Header) \in Nat /\ Overhead + (n + Header) <= Largest
    BY ChunksArePositive, SizesAreNat, PowersSuffice
  <2>3. NextPower2(Overhead + (n + Header)) \in Powers
    BY <2>2, NextPowerFits
  <2> QED
    BY <1>1, <2>1, <2>3 DEF Allocated, Granted
<1>3. CASE \E p \in Powers : (\E max \in MaxSizes : p <= max) /\ s = Resized(p)
  <2>1. PICK p \in Powers, max \in MaxSizes : p <= max /\ s = Resized(p)
    BY <1>3
  <2>2. p \in Nat /\ max \in Nat /\ Overhead \in Nat /\ Overhead + max <= Largest /\ Largest \in Nat
    BY ChunksArePositive, SizesAreNat, PowersSuffice, PowersArePositive
  <2>3. Overhead + p \in Nat /\ Overhead + p <= Largest
    BY <2>1, <2>2
  <2>4. NextPower2(Overhead + p) \in Powers
    BY <2>3, NextPowerFits
  <2> QED
    BY <1>1, <2>1, <2>4 DEF Resized, Granted
<1> QED
  BY <1>2, <1>3 DEF Sizes

\* A buffer that grows gets a size that is known, and does not shrink.
LEMMA GrownFits ==
    ASSUME NEW s \in Sizes \ {0}, NEW n \in Chunks, NEW max \in MaxSizes
    PROVE  /\ Grown(s, n, max) \in Sizes /\ Grown(s, n, max) \in Nat /\ Grown(s, n, max) >= s
           /\ NextPower2(s + n + 1) \in Nat /\ NextPower2(s + n + 1) > s
<1>1. s \in Nat \ {0} /\ n \in Nat \ {0} /\ s + n + 1 <= Largest
  BY ChunksArePositive, PowersSuffice DEF Sizes
<1> DEFINE p == NextPower2(s + n + 1)
<1>2. p \in Powers /\ p \in Nat /\ p >= s + n + 1
  BY <1>1, NextPowerFits
<1>4. CASE p > max
  BY <1>1, <1>2, <1>4 DEF Grown
<1>5. CASE ~(p > max)
  <2>1. max \in Nat /\ Overhead + p \in Nat /\ Overhead + p <= Largest
    <3>1. max \in Nat /\ Overhead \in Nat /\ Overhead + max <= Largest /\ Largest \in Int
      BY ChunksArePositive, SizesAreNat, PowersSuffice, PowersArePositive
    <3> QED
      BY <3>1, <1>2, <1>5
  <2>2. Resized(p) \in Int
    BY <2>1, NextPowerFits, SizesAreNat DEF Resized, Granted
  <2>3. Grown(s, n, max) = Resized(p)
    BY <1>5 DEF Grown
  <2>4. PICK block \in Powers : s = block - Overhead - Header
    BY SizesAreOfBlocks
  <2>5. Resized(p) >= s
    BY <1>1, <2>1, <2>4, GrowingNeverShrinks
  <2>6. Resized(p) \in Nat
    BY <1>1, <2>2, <2>5
  <2>7. p <= max
    BY <1>2, <1>5, <2>1
  <2>8. Resized(p) \in Sizes
    BY <1>2, <2>6, <2>7, Zenon DEF Sizes
  <2> QED
    BY <1>1, <1>2, <2>3, <2>5, <2>6, <2>8
<1> QED
  BY <1>4, <1>5

-----------------------------------------------------------------------------
(* Pointers, and what growing moves                                        *)

\* Within two rounds a remainder is a difference.
LEMMA Wraps ==
    ASSUME NEW size \in Nat \ {0}, NEW p \in Nat, p < 2 * size
    PROVE  p % size = IF p < size THEN p ELSE p - size
OBVIOUS

LEMMA MaxReadIs ==
    ASSUME NEW size \in Nat \ {0}, NEW r \in 0 .. size - 1, NEW w \in 0 .. size
    PROVE  GetMaxRead(r, w, size) =
             IF r = w THEN 0 ELSE IF w > r THEN w - r ELSE size - r + w
BY DEF GetMaxRead

LEMMA MaxReadBounded ==
    ASSUME NEW size \in Nat \ {0}, NEW r \in 0 .. size - 1, NEW w \in 0 .. size
    PROVE  GetMaxRead(r, w, size) \in 0 .. size
BY DEF GetMaxRead

LEMMA NormalizeIs ==
    ASSUME NEW size \in Nat \ {0}, NEW p \in 0 .. size
    PROVE  NormalizePtr(p, size) = IF p = size THEN 0 ELSE p
<1>1. p = size => p % size = 0
  OBVIOUS
<1> QED
  BY <1>1 DEF NormalizePtr

LEMMA AdvanceIs ==
    ASSUME NEW size \in Nat \ {0}, NEW p \in Nat, NEW step \in Nat, p + step <= 2 * size
    PROVE  AdvancePtr(p, step, size) =
             IF p + step <= size THEN p + step
             ELSE IF p + step = 2 * size THEN 0 ELSE p + step - size
<1>1. p + step = 2 * size => (p + step) % size = 0
  OBVIOUS
<1>2. ASSUME p + step > size, p + step # 2 * size PROVE (p + step) % size = p + step - size
  <2> DEFINE q == p + step
  <2>1. q \in Nat /\ q < 2 * size /\ ~(q < size)
    BY <1>2
  <2> HIDE DEF q
  <2>2. q % size = q - size
    BY <2>1, Wraps
  <2> QED
    BY <2>2 DEF q
<1>3. p + step \in Nat /\ p + step <= 2 * size
  OBVIOUS
<1>4. size > 0 /\ p + step > size => AdvancePtr(p, step, size) = (p + step) % size
  BY DEF AdvancePtr
<1>5. ~(p + step > size) => AdvancePtr(p, step, size) = p + step
  BY DEF AdvancePtr
<1> QED
  BY <1>1, <1>2, <1>3, <1>4, <1>5

LEMMA MaxWriteIs ==
    ASSUME NEW size \in Nat \ {0}, NEW r \in 0 .. size - 1, NEW w \in 0 .. size
    PROVE  GetMaxWrite(r, w, size) =
             IF w = size THEN IF r <= 1 THEN 0 ELSE r
             ELSE IF r = w THEN size
             ELSE IF w > r THEN size - (w - r)
             ELSE IF w + 1 = r THEN 0 ELSE r - w
<1> DEFINE nw == NormalizePtr(w, size)
<1>1. nw = IF w = size THEN 0 ELSE w
  BY NormalizeIs
<1>2. GetMaxWrite(r, w, size) =
        IF r = nw THEN (IF r = w THEN size ELSE 0)
        ELSE IF nw > r THEN size - (nw - r)
        ELSE IF nw + 1 = r THEN 0 ELSE r - nw
  <2>1. nw \in Int
    BY <1>1
  <2> HIDE DEF nw
  <2>2. CASE r = nw
    BY <2>1, <2>2 DEF GetMaxWrite, nw
  <2>3. CASE r # nw /\ nw > r
    BY <2>1, <2>3 DEF GetMaxWrite, nw
  <2>4. CASE r # nw /\ nw < r
    BY <2>1, <2>4 DEF GetMaxWrite, nw
  <2> QED
    BY <2>1, <2>2, <2>3, <2>4
<1> HIDE DEF nw
<1> QED
  BY <1>1, <1>2

-----------------------------------------------------------------------------
Fields == {"mode", "max", "size", "rd", "wr", "poke", "ready", "evEmpty", "mem", "head", "tail"}
IsBuffer(b) == b = [x \in Fields |-> b[x]]

\* A buffer that announces nothing has nothing to read, wherever its pointers are.
QuietIsEmpty(b) == ~b.ready => b.rd = b.wr

Pointers(b) ==
    IF b.size = 0 THEN b.rd = 0 /\ b.wr = 0 /\ b.poke = 0
    ELSE b.rd \in 0 .. b.size - 1 /\ b.wr \in 0 .. b.size /\ b.poke \in 0 .. b.size

\* A buffer whose pointers and memory are those of a ring of its size.
Formed(b) ==
    /\ IsBuffer(b)
    /\ b.size \in Nat
    /\ Pointers(b)
    /\ DOMAIN b.mem = 0 .. b.size - 1
    /\ b.ready \in BOOLEAN /\ b.evEmpty \in BOOLEAN

Shape(b) == Formed(b) /\ b.size \in Sizes /\ b.max \in MaxSizes

LEMMA SizeIsNat == ASSUME NEW b, Shape(b) PROVE b.size \in Nat
BY DEF Shape, Formed, Sizes

\* Data up to the pointer ptr have been moved to the front of the ring c.
Front(b, c, ptr, to) ==
    LET n == GetMaxRead(b.rd, ptr, b.size)
    IN to = n /\ \A p \in 0 .. n - 1 : c.mem[p] = b.mem[(b.rd + p) % b.size]

\* What growing leaves alone, and what it moves.
Kept(b, c) ==
    /\ c.mode = b.mode /\ c.max = b.max /\ c.ready = b.ready /\ c.evEmpty = b.evEmpty
    /\ c.head = b.head /\ c.tail = b.tail
Moved(b, c) ==
    /\ Kept(b, c)
    /\ c.rd = 0
    /\ Front(b, c, b.wr, c.wr) /\ Front(b, c, b.poke, c.poke)

\* A growing buffer of size bytes can be given a power of two for n more, and
\* does not shrink.
Grows(size, n, max) ==
    /\ Grown(size, n, max) \in Nat /\ Grown(size, n, max) >= size
    /\ NextPower2(size + n + 1) \in Nat /\ NextPower2(size + n + 1) > size

LEMMA GrowMoves ==
    ASSUME NEW b, Formed(b), b.size # 0, NEW n \in Nat, NEW from \in 0 .. b.size,
           Grows(b.size, n, b.max), NEW c, c = EnsureWriteSpace(b, n, from)
    PROVE  \/ c = b /\ (GetMaxWrite(b.rd, from, b.size) > n \/ Grown(b.size, n, b.max) = b.size)
           \/ Formed(c) /\ Moved(b, c) /\ c.size = Grown(b.size, n, b.max) /\ c.size >= b.size
<1> DEFINE p == NextPower2(b.size + n + 1)
           avail == GetMaxWrite(b.rd, from, b.size)
<1>1. b.size \in Nat \ {0}
  BY DEF Formed
<1>2. /\ Grown(b.size, n, b.max) \in Nat /\ Grown(b.size, n, b.max) >= b.size
      /\ p \in Nat /\ p > b.size
  BY DEF Grows
<1>3. avail \in Int
  <2>1. b.rd \in 0 .. b.size - 1
    BY <1>1 DEF Formed, Pointers
  <2> DEFINE rd == b.rd
             size == b.size
  <2> HIDE DEF rd, size
  <2>2. rd \in 0 .. size - 1 /\ size \in Nat \ {0} /\ from \in 0 .. size
    BY <1>1, <2>1 DEF rd, size
  <2>3. GetMaxWrite(rd, from, size) \in Int
    BY <2>2, MaxWriteIs
  <2> QED
    BY <2>3 DEF rd, size
<1>4. CASE avail >= n + 1
  BY <1>1, <1>3, <1>4 DEF EnsureWriteSpace
<1>5. CASE ~(avail >= n + 1)
  <2>1. c = Resize(b, p)
    BY <1>5 DEF EnsureWriteSpace
  <2>2. CASE p > b.max
    BY <2>1, <2>2 DEF Resize, Grown
  <2>3. CASE ~(p > b.max)
    <3> DEFINE written_ == Readable(b)
               poked == GetMaxRead(b.rd, b.poke, b.size)
               size == Resized(p)
               used == Lesser(Lesser(Greater(written_, poked), b.size), size)
               mem == [i \in 0 .. size - 1 |->
                          IF i < used THEN b.mem[(b.rd + i) % b.size] ELSE Junk]
    <3>1. ~(p > b.max \/ p = b.size)
      BY <1>1, <1>2, <2>3
    <3>2. c = [b EXCEPT !.size = size, !.rd = 0, !.wr = written_, !.poke = poked, !.mem = mem]
      BY <2>1, <3>1 DEF Resize
    <3>3. size = Grown(b.size, n, b.max)
      BY <2>3 DEF Grown
    <3>4. size \in Nat /\ size >= b.size
      BY <1>2, <3>3
    <3>5. written_ \in 0 .. b.size /\ poked \in 0 .. b.size
      BY <1>1, MaxReadBounded DEF Formed, Pointers, Readable
    <3>6. used >= written_ /\ used >= poked /\ used \in Nat
      <4> HIDE DEF written_, poked, size
      <4> QED
        BY <1>1, <3>4, <3>5 DEF Lesser, Greater
    <3>7. /\ written_ = GetMaxRead(b.rd, b.wr, b.size)
          /\ poked = GetMaxRead(b.rd, b.poke, b.size)
      BY DEF Readable
    <3> HIDE DEF written_, poked, size, used
    <3>8. \A i \in 0 .. used - 1 : i < size => mem[i] = b.mem[(b.rd + i) % b.size]
      BY <3>4, <3>6
    <3>9. DOMAIN mem = 0 .. size - 1
      OBVIOUS
    <3> HIDE DEF mem
    <3>10. /\ IsBuffer(c)
           /\ c.size = size /\ c.rd = 0 /\ c.wr = written_ /\ c.poke = poked /\ c.mem = mem
           /\ Kept(b, c)
      BY <3>2 DEF Formed, IsBuffer, Fields, Kept
    <3>11. Formed(c)
      <4>1. Pointers(c)
        BY <1>1, <3>4, <3>5, <3>10 DEF Pointers
      <4> QED
        BY <3>4, <3>9, <3>10, <4>1 DEF Formed, Kept
    <3>12. \A q \in 0 .. written_ - 1 : c.mem[q] = b.mem[(b.rd + q) % b.size]
      <4> SUFFICES ASSUME NEW q \in 0 .. written_ - 1
                   PROVE  mem[q] = b.mem[(b.rd + q) % b.size]
        BY <3>10
      <4>1. q \in 0 .. used - 1 /\ q < size
        BY <1>1, <3>4, <3>5, <3>6
      <4> QED
        BY <3>8, <4>1
    <3>13. \A q \in 0 .. poked - 1 : c.mem[q] = b.mem[(b.rd + q) % b.size]
      <4> SUFFICES ASSUME NEW q \in 0 .. poked - 1
                   PROVE  mem[q] = b.mem[(b.rd + q) % b.size]
        BY <3>10
      <4>1. q \in 0 .. used - 1 /\ q < size
        BY <1>1, <3>4, <3>5, <3>6
      <4> QED
        BY <3>8, <4>1
    <3>14. Moved(b, c)
      BY <3>7, <3>10, <3>12, <3>13 DEF Moved, Front
    <3> QED
      BY <3>3, <3>4, <3>10, <3>11, <3>14
  <2> QED
    BY <2>2, <2>3
<1> QED
  BY <1>4, <1>5

LEMMA EnsureMoves ==
    ASSUME NEW b, Shape(b), b.size # 0, NEW n \in Chunks, NEW from \in 0 .. b.size,
           NEW c, c = EnsureWriteSpace(b, n, from)
    PROVE  \/ c = b /\ (GetMaxWrite(b.rd, from, b.size) > n \/ Grown(b.size, n, b.max) = b.size)
           \/ Shape(c) /\ Moved(b, c) /\ c.size = Grown(b.size, n, b.max) /\ c.size >= b.size
<1>1. b.size \in Sizes \ {0} /\ b.max \in MaxSizes /\ n \in Nat /\ Formed(b)
  BY ChunksArePositive DEF Shape
<1>2. Grows(b.size, n, b.max) /\ Grown(b.size, n, b.max) \in Sizes
  BY <1>1, GrownFits DEF Grows
<1>3. \/ c = b /\ (GetMaxWrite(b.rd, from, b.size) > n \/ Grown(b.size, n, b.max) = b.size)
      \/ Formed(c) /\ Moved(b, c) /\ c.size = Grown(b.size, n, b.max) /\ c.size >= b.size
  BY <1>1, <1>2, GrowMoves
<1> QED
  BY <1>1, <1>2, <1>3 DEF Shape, Moved, Kept

-----------------------------------------------------------------------------
(* Copying to the ring                                                     *)

\* What a copy of k bytes to from leaves in the ring: the bytes themselves, the
\* second view at the front, and what was there elsewhere.
CopiedByte(old, size, first, k, from, p) ==
    IF from <= p /\ p < from + k THEN first + (p - from) + 1
    ELSE IF p + size < from + k THEN first + (p + size - from) + 1 ELSE old[p]

\* The ring after a copy of the bytes after the first-th to the views.
Overlay(old, size, first, k, views) ==
    [i \in 0 .. size - 1 |->
        IF \E v \in views : v[2] = i
          THEN [j \in 1 .. k |-> first + j][(CHOOSE v \in views : v[2] = i)[1] + 1]
          ELSE old[i]]

\* The views of k bytes, each where it is in the ring.
LEMMA ViewsAre ==
    ASSUME NEW size \in Nat \ {0}, NEW from \in 0 .. size - 1, NEW k \in 0 .. size
    PROVE  Views(from, k, size) =
             {<<i, IF from + i < size THEN from + i ELSE from + i - size>> : i \in 0 .. k - 1}
<1>1. ASSUME NEW i \in 0 .. k - 1
      PROVE  (from + i) % size = IF from + i < size THEN from + i ELSE from + i - size
  <2> DEFINE q == from + i
  <2>1. q \in Nat /\ q < 2 * size
    OBVIOUS
  <2> HIDE DEF q
  <2>2. q % size = IF q < size THEN q ELSE q - size
    BY <2>1, Wraps
  <2> QED
    BY <2>2 DEF q
<1>2. Views(from, k, size) = {<<i, (from + i) % size>> : i \in 0 .. k - 1}
  BY DEF Views
<1> QED
  BY <1>1, <1>2

LEMMA ViewBytes ==
    ASSUME NEW size \in Nat \ {0}, NEW from \in 0 .. size - 1, NEW k \in 0 .. size,
           NEW first \in Nat, NEW old, NEW p \in 0 .. size - 1,
           NEW mem, NEW views, views = Views(from, k, size),
           mem = Overlay(old, size, first, k, views)
    PROVE  mem[p] = CopiedByte(old, size, first, k, from, p)
<1> DEFINE At(i) == IF from + i < size THEN from + i ELSE from + i - size
           c == CHOOSE v \in views : v[2] = p
<1>1. views = {<<i, At(i)>> : i \in 0 .. k - 1}
  BY ViewsAre
<1>2. mem[p] = IF \E v \in views : v[2] = p THEN [j \in 1 .. k |-> first + j][c[1] + 1] ELSE old[p]
  BY DEF Overlay
<1> HIDE DEF c
<1>3. ASSUME NEW i \in 0 .. k - 1, p = At(i) PROVE mem[p] = first + i + 1
  <2>1. <<i, p>> \in views
    BY <1>1, <1>3
  <2>2. \E v \in views : v[2] = p
    BY <2>1
  <2>3. c \in views /\ c[2] = p
    BY <2>2 DEF c
  <2>4. PICK j \in 0 .. k - 1 : c = <<j, At(j)>>
    BY <1>1, <2>3
  <2>5. At(j) = p /\ c[1] = j
    BY <2>3, <2>4
  <2>6. j = i
    BY <2>5, <1>3
  <2>7. mem[p] = [l \in 1 .. k |-> first + l][i + 1]
    BY <1>2, <2>2, <2>5, <2>6
  <2>8. i + 1 \in 1 .. k
    OBVIOUS
  <2>9. [l \in 1 .. k |-> first + l][i + 1] = first + (i + 1)
    BY <2>8
  <2> QED
    BY <2>7, <2>9
<1>4. CASE from <= p /\ p < from + k
  <2>1. p - from \in 0 .. k - 1 /\ p = At(p - from)
    BY <1>4
  <2>2. mem[p] = first + (p - from) + 1
    BY <1>3, <2>1
  <2> QED
    BY <2>2, <1>4 DEF CopiedByte
<1>5. CASE ~(from <= p /\ p < from + k) /\ p + size < from + k
  <2>1. p + size - from \in 0 .. k - 1 /\ p = At(p + size - from)
    BY <1>5
  <2>2. mem[p] = first + (p + size - from) + 1
    BY <1>3, <2>1
  <2> QED
    BY <2>2, <1>5 DEF CopiedByte
<1>6. CASE ~(from <= p /\ p < from + k) /\ ~(p + size < from + k)
  <2>1. ASSUME NEW i \in 0 .. k - 1 PROVE At(i) # p
    BY <1>6
  <2>2. ASSUME NEW v \in views PROVE v[2] # p
    <3>1. PICK i \in 0 .. k - 1 : v = <<i, At(i)>>
      BY <1>1
    <3>2. v[2] = At(i)
      BY <3>1
    <3> QED
      BY <2>1, <3>2
  <2> QED
    BY <1>2, <2>2, <1>6 DEF CopiedByte
<1> QED
  BY <1>4, <1>5, <1>6

Copies(old, mem, size, first, k, from) ==
    /\ from = size => \A p \in 0 .. size - 1 : mem[p] = old[p]
    /\ from < size => \A p \in 0 .. size - 1 : mem[p] = CopiedByte(old, size, first, k, from, p)

\* A ring, and what a copy of k bytes makes of it.
Ring(b, size) == b.size = size /\ DOMAIN b.mem = 0 .. size - 1
IsCopy(b, mem, first, k, from) == mem = Copied(b, Data(first, k), k, from)

LEMMA CopiedBytes ==
    ASSUME NEW b, NEW size \in Nat \ {0}, Ring(b, size),
           NEW from \in 0 .. size, NEW k \in 0 .. size, NEW first \in Nat,
           NEW mem, IsCopy(b, mem, first, k, from)
    PROVE  DOMAIN mem = 0 .. size - 1 /\ Copies(b.mem, mem, size, first, k, from)
<1> DEFINE data == [i \in 1 .. k |-> first + i]
           views == Views(from, k, size)
<1>1. mem = [i \in 0 .. size - 1 |->
              IF \E v \in views : v[2] = i
                THEN data[(CHOOSE v \in views : v[2] = i)[1] + 1] ELSE b.mem[i]]
  BY DEF Copied, Data, IsCopy, Ring
<1>2. ASSUME from = size PROVE \A p \in 0 .. size - 1 : mem[p] = b.mem[p]
  <2>1. views = {}
    BY <1>2 DEF Views
  <2> HIDE DEF views, data
  <2> QED
    BY <1>1, <2>1
<1>3. ASSUME from < size, NEW p \in 0 .. size - 1
      PROVE  mem[p] = CopiedByte(b.mem, size, first, k, from, p)
  <2>1. from \in 0 .. size - 1
    BY <1>3
  <2> DEFINE old == b.mem
  <2>2. views = Views(from, k, size) /\ old = b.mem
    OBVIOUS
  <2>3. mem = Overlay(old, size, first, k, views)
    BY <1>1, Zenon DEF Overlay
  <2> HIDE DEF views, old
  <2>4. mem[p] = CopiedByte(old, size, first, k, from, p)
    BY <2>1, <2>2, <2>3, ViewBytes
  <2> QED
    BY <2>2, <2>4
<1>4. DOMAIN mem = 0 .. size - 1
  <2> HIDE DEF data, views
  <2> QED
    BY <1>1
<1> QED
  BY <1>2, <1>3, <1>4 DEF Copies

\* The room there is from a pointer to the read pointer.
Avail(b, from) == GetMaxWrite(b.rd, from, b.size)

LEMMA AvailIs ==
    ASSUME NEW b, b.size \in Nat \ {0}, b.rd \in 0 .. b.size - 1, NEW from \in 0 .. b.size
    PROVE  /\ Avail(b, from) \in 0 .. b.size
           /\ Avail(b, from) = IF from = b.size THEN IF b.rd <= 1 THEN 0 ELSE b.rd
                               ELSE IF b.rd = from THEN b.size
                               ELSE IF from > b.rd THEN b.size - (from - b.rd)
                               ELSE IF from + 1 = b.rd THEN 0 ELSE b.rd - from
<1> DEFINE size == b.size
           rd == b.rd
<1>1. size \in Nat \ {0} /\ rd \in 0 .. size - 1 /\ from \in 0 .. size
  OBVIOUS
<1>2. Avail(b, from) = GetMaxWrite(rd, from, size)
  BY DEF Avail
<1> HIDE DEF size, rd
<1>3. GetMaxWrite(rd, from, size) = IF from = size THEN IF rd <= 1 THEN 0 ELSE rd
                               ELSE IF rd = from THEN size
                               ELSE IF from > rd THEN size - (from - rd)
                               ELSE IF from + 1 = rd THEN 0 ELSE rd - from
  BY <1>1, MaxWriteIs
<1>4. GetMaxWrite(rd, from, size) \in 0 .. size
  BY <1>1, <1>3
<1> QED
  BY <1>2, <1>3, <1>4 DEF size, rd

LEMMA ClippedIs ==
    ASSUME NEW b, b.size \in Nat \ {0}, b.rd \in 0 .. b.size - 1, NEW from \in 0 .. b.size,
           NEW n \in Nat
    PROVE  /\ Clipped(b, n, from) \in 0 .. b.size
           /\ Clipped(b, n, from) = IF n <= Avail(b, from) THEN n
                                    ELSE IF b.mode # "overwrite" THEN Avail(b, from)
                                    ELSE IF n <= b.size THEN n ELSE b.size
<1> DEFINE size == b.size
           avail == Avail(b, from)
<1>1. avail \in 0 .. size /\ size \in Nat
  BY AvailIs
<1>2. Clipped(b, n, from) = IF b.mode = "overwrite" THEN Lesser(n, size) ELSE Lesser(n, avail)
  BY DEF Clipped, Avail
<1> HIDE DEF size, avail
<1>3. Clipped(b, n, from) = IF n <= avail THEN n ELSE IF b.mode # "overwrite" THEN avail
                            ELSE IF n <= size THEN n ELSE size
  BY <1>1, <1>2 DEF Lesser
<1>4. Clipped(b, n, from) \in 0 .. size
  BY <1>1, <1>3
<1> QED
  BY <1>3, <1>4 DEF size, avail

-----------------------------------------------------------------------------
(* Taking from the ring                                                    *)

LEMMA EmptyIs ==
    ASSUME NEW b, IsBuffer(b), NEW e, e = Empty(b)
    PROVE  /\ IsBuffer(e) /\ QuietIsEmpty(e)
           /\ e.rd = 0 /\ e.wr = 0 /\ e.ready = FALSE
           /\ e.size = b.size /\ e.mem = b.mem /\ e.poke = b.poke /\ e.mode = b.mode /\ e.max = b.max
           /\ e.head = 0 /\ e.tail = 0
           /\ e.evEmpty = (b.evEmpty \/ b.size # 0)
BY DEF IsBuffer, Fields, QuietIsEmpty, Empty

\* A fifo's slots are left alone, or emptied with the bytes.
SlotsKept(b, r) == (r.head = b.head /\ r.tail = b.tail) \/ (r.head = 0 /\ r.tail = 0)

\* A buffer b that has been read from or emptied.
Taken(b, r) ==
    /\ IsBuffer(r) /\ SlotsKept(b, r)
    /\ r.size = b.size /\ r.mem = b.mem /\ r.poke = b.poke /\ r.mode = b.mode /\ r.max = b.max
    /\ r.rd \in 0 .. b.size - 1 /\ r.wr \in 0 .. b.size
    /\ r.ready \in BOOLEAN /\ QuietIsEmpty(r) /\ r.evEmpty \in BOOLEAN

LEMMA EmptyTaken ==
    ASSUME NEW b, Formed(b), b.size # 0, NEW e, e = Empty(b) PROVE Taken(b, e) /\ e.rd = 0
<1>1. b.size \in Nat \ {0}
  BY DEF Formed
<1>2. IsBuffer(b)
  BY DEF Formed
<1>3. /\ IsBuffer(e) /\ QuietIsEmpty(e)
      /\ e.rd = 0 /\ e.wr = 0 /\ e.ready = FALSE
      /\ e.size = b.size /\ e.mem = b.mem /\ e.poke = b.poke /\ e.mode = b.mode /\ e.max = b.max
      /\ e.head = 0 /\ e.tail = 0 /\ e.evEmpty = (b.evEmpty \/ b.size # 0)
  BY <1>2, EmptyIs
<1>4. e.ready \in BOOLEAN /\ e.evEmpty \in BOOLEAN
  BY <1>3, Zenon
<1> QED
  BY <1>1, <1>3, <1>4 DEF Taken, SlotsKept

\* What the read pointer becomes, a ring further at the most.
Ahead(rd, step, size) ==
    IF rd + step < size THEN rd + step
    ELSE IF rd + step = size \/ rd + step = 2 * size THEN 0 ELSE rd + step - size

LEMMA AheadIs ==
    ASSUME NEW size \in Nat \ {0}, NEW rd \in 0 .. size - 1, NEW step \in 0 .. size + 1
    PROVE  /\ NormalizePtr(AdvancePtr(rd, step, size), size) = Ahead(rd, step, size)
           /\ Ahead(rd, step, size) \in 0 .. size - 1
<1>1. AdvancePtr(rd, step, size) = IF rd + step <= size THEN rd + step
                                   ELSE IF rd + step = 2 * size THEN 0 ELSE rd + step - size
  BY AdvanceIs
<1> DEFINE q == AdvancePtr(rd, step, size)
<1>2. q \in 0 .. size
  BY <1>1
<1>3. NormalizePtr(q, size) = IF q = size THEN 0 ELSE q
  <2> HIDE DEF q
  <2> QED
    BY <1>2, NormalizeIs
<1>4. Ahead(rd, step, size) = IF q = size THEN 0 ELSE q
  BY <1>1 DEF Ahead
<1>5. (IF q = size THEN 0 ELSE q) \in 0 .. size - 1
  <2> HIDE DEF q
  <2> QED
    BY <1>2
<1> QED
  BY <1>3, <1>4, <1>5

\* However far it moves it stays in the ring.
LEMMA AheadStays ==
    ASSUME NEW size \in Nat \ {0}, NEW rd \in 0 .. size - 1, NEW step \in Nat
    PROVE  NormalizePtr(AdvancePtr(rd, step, size), size) \in 0 .. size - 1
<1> DEFINE p == rd + step
           q == AdvancePtr(rd, step, size)
<1>1. p \in Nat /\ q = IF p > size THEN p % size ELSE p
  BY DEF AdvancePtr
<1> HIDE DEF p, q
<1>2. p % size \in 0 .. size - 1
  BY <1>1
<1>3. q \in 0 .. size
  BY <1>1, <1>2
<1>4. NormalizePtr(q, size) = IF q = size THEN 0 ELSE q
  BY <1>3, NormalizeIs
<1> QED
  BY <1>3, <1>4 DEF q

LEMMA AdvanceReadTakes ==
    ASSUME NEW b, Formed(b), QuietIsEmpty(b), NEW size, size = b.size, size # 0, NEW rd, rd = b.rd,
           NEW step \in Nat,
           NEW r, r = AdvanceReadPtr(b, step)
    PROVE  /\ Taken(b, r)
           /\ r = b \/ r.rd = 0 \/ r.rd = NormalizePtr(AdvancePtr(rd, step, size), size)
<1>1. size \in Nat \ {0} /\ rd \in 0 .. size - 1 /\ b.wr \in 0 .. size
  BY DEF Formed, Pointers
<1> DEFINE ahead == NormalizePtr(AdvancePtr(rd, step, size), size)
           c == [b EXCEPT !.rd = ahead]
<1>2. ahead \in 0 .. size - 1
  BY <1>1, AheadStays
<1>3. r = IF Readable(b) = 0 THEN b ELSE Defrag(c)
  BY DEF AdvanceReadPtr
<1>4. CASE Readable(b) = 0
  BY <1>1, <1>3, <1>4 DEF Formed, Taken, SlotsKept
<1>5. CASE Readable(b) # 0
  <2>1. b.ready
    BY <1>5 DEF QuietIsEmpty, Readable, GetMaxRead
  <2> HIDE DEF ahead
  <2>2. /\ IsBuffer(c) /\ c.size = b.size /\ c.mem = b.mem /\ c.poke = b.poke /\ c.mode = b.mode
        /\ c.max = b.max /\ c.rd = ahead /\ c.wr = b.wr /\ c.ready = b.ready
        /\ c.head = b.head /\ c.tail = b.tail /\ c.evEmpty = b.evEmpty
    BY DEF Formed, IsBuffer, Fields
  <2> HIDE DEF c
  <2>3. Taken(b, c)
    BY <1>1, <1>2, <2>1, <2>2 DEF Formed, Taken, SlotsKept, QuietIsEmpty
  <2> DEFINE e == Empty(c)
  <2>4. Taken(b, e) /\ e.rd = 0
    <3>1. /\ IsBuffer(e) /\ QuietIsEmpty(e)
          /\ e.rd = 0 /\ e.wr = 0 /\ e.ready = FALSE
          /\ e.size = c.size /\ e.mem = c.mem /\ e.poke = c.poke /\ e.mode = c.mode /\ e.max = c.max
          /\ e.head = 0 /\ e.tail = 0 /\ e.evEmpty = (c.evEmpty \/ c.size # 0)
      BY <2>2, EmptyIs, ZenonT(60)
    <3> HIDE DEF e
    <3>2. e.ready \in BOOLEAN /\ e.evEmpty \in BOOLEAN
      BY <3>1, Zenon
    <3> QED
      BY <1>1, <2>2, <3>1, <3>2 DEF Taken, SlotsKept
  <2>5. r = c \/ r = e
    BY <1>3, <1>5, <2>2 DEF Defrag
  <2> HIDE DEF e
  <2> QED
    BY <2>2, <2>3, <2>4, <2>5 DEF ahead
<1> QED
  BY <1>4, <1>5

\* Bytes that are written from from do not go past the read pointer that room
\* was made with: what is behind it was behind it before.
Passes(size, rd, ahead, from, k) ==
    from < size /\ from + k <= size /\ ahead > from + k => rd > from /\ ahead >= rd

LEMMA MakeRoomTakes ==
    ASSUME NEW b, Formed(b), QuietIsEmpty(b), NEW size, size = b.size, size # 0, NEW rd, rd = b.rd,
           NEW n \in Nat, NEW from \in 0 .. size,
           NEW r, r = MakeRoom(b, n, from)
    PROVE  /\ Taken(b, r)
           /\ Passes(size, rd, r.rd, from, Clipped(b, n, from))
           /\ b.mode # "overwrite" => r = b
<1>1. size \in Nat \ {0} /\ rd \in 0 .. size - 1
  BY DEF Formed, Pointers
<1>2. b.wr \in 0 .. size
  BY <1>1 DEF Formed, Pointers
<1> DEFINE avail == Avail(b, from)
           k == Clipped(b, n, from)
<1>3. /\ k \in 0 .. size
      /\ avail \in 0 .. size
      /\ k = IF n <= avail THEN n ELSE IF b.mode # "overwrite" THEN avail
             ELSE IF n <= size THEN n ELSE size
  BY <1>1, ClippedIs, AvailIs
<1>4. avail = IF from = size THEN IF rd <= 1 THEN 0 ELSE rd
              ELSE IF rd = from THEN size ELSE IF from > rd THEN size - (from - rd)
              ELSE IF from + 1 = rd THEN 0 ELSE rd - from
  BY <1>1, AvailIs
<1>5. r = IF n <= avail \/ b.mode # "overwrite" THEN b
          ELSE IF n > size THEN Empty(b) ELSE AdvanceReadPtr(b, n - avail + 1)
  BY DEF MakeRoom, Avail
<1> HIDE DEF avail, k
<1>6. Passes(size, rd, rd, from, k)
  BY <1>1, <1>3 DEF Passes
<1>7. Passes(size, rd, 0, from, k)
  BY <1>1, <1>3 DEF Passes
<1>8. Taken(b, b)
  BY <1>1, <1>2 DEF Formed, Taken, SlotsKept
<1>9. CASE n <= avail \/ b.mode # "overwrite"
  BY <1>5, <1>6, <1>8, <1>9 DEF k
<1>10. CASE ~(n <= avail \/ b.mode # "overwrite") /\ n > size
  BY <1>5, <1>7, <1>10, EmptyTaken DEF k
<1>11. CASE ~(n <= avail \/ b.mode # "overwrite") /\ ~(n > size)
  <2> DEFINE step == n - avail + 1
  <2>1. step \in 0 .. size + 1 /\ step \in Nat /\ k = n
    BY <1>1, <1>3, <1>11
  <2>2. r = AdvanceReadPtr(b, step)
    BY <1>5, <1>11
  <2>3. Passes(size, rd, Ahead(rd, step, size), from, k)
    BY <1>1, <1>3, <1>4, <1>11, <2>1 DEF Passes, Ahead
  <2> HIDE DEF step
  <2>4. /\ Taken(b, r)
        /\ r = b \/ r.rd = 0 \/ r.rd = NormalizePtr(AdvancePtr(rd, step, size), size)
    BY <2>1, <2>2, AdvanceReadTakes
  <2>5. NormalizePtr(AdvancePtr(rd, step, size), size) = Ahead(rd, step, size)
    BY <1>1, <2>1, AheadIs
  <2> QED
    BY <1>6, <1>7, <1>11, <2>3, <2>4, <2>5 DEF k
<1> QED
  BY <1>9, <1>10, <1>11

-----------------------------------------------------------------------------
(* What is known of the bytes                                              *)

\* The bytes up to the pointer ptr, which end with the last-th: those in front
\* of ptr from the start of the ring, read already or not, and those a reader
\* gets before he comes round the end.
Holds(b, p, n, lost) == n \notin lost => b.mem[p] = n
FrontHolds(b, ptr, last, lost) == \A p \in 0 .. ptr - 1 : Holds(b, p, last - (ptr - 1 - p), lost)
BackHolds(b, ptr, last, lost) ==
    b.rd > ptr => \A p \in b.rd .. b.size - 1 : Holds(b, p, last - (ptr + b.size - 1 - p), lost)
Enough(b, ptr, last) == ptr <= last /\ (b.rd > ptr => ptr + b.size - b.rd <= last)

Known(b, ptr, last, lost) ==
    FrontHolds(b, ptr, last, lost) /\ BackHolds(b, ptr, last, lost) /\ Enough(b, ptr, last)

\* A buffer that is empty has only the bytes in front to know.
LEMMA KnownAtZero ==
    ASSUME NEW b, b.rd = 0, NEW last \in Nat, NEW lost PROVE Known(b, 0, last, lost)
BY DEF Known, FrontHolds, BackHolds, Enough

\* Moving a buffer to the front of a larger ring keeps its bytes.
LEMMA KnownMoved ==
    ASSUME NEW b, NEW c, NEW size \in Nat \ {0}, b.size = size, NEW rd \in 0 .. size - 1, b.rd = rd,
           NEW ptr \in 0 .. size, NEW last \in Nat, NEW lost, Known(b, ptr, last, lost),
           NEW to, Front(b, c, ptr, to), c.rd = 0
    PROVE  Known(c, to, last, lost)
<1>1. /\ to = IF rd = ptr THEN 0 ELSE IF ptr > rd THEN ptr - rd ELSE size - rd + ptr
      /\ \A p \in 0 .. to - 1 : c.mem[p] = b.mem[(rd + p) % size]
  <2>1. to = GetMaxRead(rd, ptr, size) /\ \A p \in 0 .. to - 1 : c.mem[p] = b.mem[(rd + p) % size]
    BY Zenon DEF Front
  <2>2. GetMaxRead(rd, ptr, size) = IF rd = ptr THEN 0 ELSE IF ptr > rd THEN ptr - rd ELSE size - rd + ptr
    BY MaxReadIs
  <2> QED
    BY <2>1, <2>2
<1>2. to \in Nat /\ to <= last
  BY <1>1 DEF Known, Enough
<1>3. ASSUME NEW p \in 0 .. to - 1 PROVE Holds(c, p, last - (to - 1 - p), lost)
  <2> DEFINE q == rd + p
             n == last - (to - 1 - p)
  <2>1. q \in Nat /\ q < 2 * size
    BY <1>1, <1>3
  <2>2. q % size = IF q < size THEN q ELSE q - size
    <3> HIDE DEF q
    <3> QED
      BY <2>1, Wraps
  <2>3. CASE ptr > rd
    <3>1. q \in 0 .. ptr - 1 /\ q < size /\ n = last - (ptr - 1 - q)
      BY <1>1, <1>3, <2>3
    <3>2. Holds(b, q, n, lost)
      BY <3>1 DEF Known, FrontHolds
    <3> QED
      BY <1>1, <2>2, <3>1, <3>2 DEF Holds
  <2>4. CASE ptr < rd /\ q < size
    <3>1. q \in rd .. size - 1 /\ n = last - (ptr + size - 1 - q)
      BY <1>1, <1>3, <2>4
    <3>2. Holds(b, q, n, lost)
      BY <2>4, <3>1 DEF Known, BackHolds
    <3> QED
      BY <1>1, <2>2, <2>4, <3>2 DEF Holds
  <2>5. CASE ptr < rd /\ ~(q < size)
    <3>1. q - size \in 0 .. ptr - 1 /\ n = last - (ptr - 1 - (q - size))
      BY <1>1, <1>3, <2>5
    <3>2. Holds(b, q - size, n, lost)
      BY <3>1 DEF Known, FrontHolds
    <3> QED
      BY <1>1, <2>2, <2>5, <3>2 DEF Holds
  <2> QED
    BY <1>1, <1>3, <2>3, <2>4, <2>5
<1> QED
  BY <1>2, <1>3 DEF Known, FrontHolds, BackHolds, Enough

\* Reading keeps what is known of the bytes that are left.
LEMMA KnownRead ==
    ASSUME NEW b, NEW c, NEW size \in Nat \ {0}, b.size = size, c.size = size, c.mem = b.mem,
           NEW rd \in 0 .. size - 1, b.rd = rd, NEW to \in 0 .. size - 1, c.rd = to,
           NEW ptr \in 0 .. size, NEW last \in Nat, NEW lost, Known(b, ptr, last, lost),
           to > ptr => rd > ptr /\ to >= rd
    PROVE  Known(c, ptr, last, lost)
<1>1. FrontHolds(c, ptr, last, lost)
  BY DEF Known, FrontHolds, Holds
<1>2. BackHolds(c, ptr, last, lost)
  <2> SUFFICES ASSUME to > ptr, NEW p \in to .. size - 1
               PROVE  Holds(c, p, last - (ptr + size - 1 - p), lost)
    BY DEF BackHolds
  <2>1. p \in rd .. size - 1 /\ rd > ptr
    OBVIOUS
  <2> QED
    BY <2>1 DEF Known, BackHolds, Holds
<1>3. Enough(c, ptr, last)
  BY DEF Known, Enough
<1> QED
  BY <1>1, <1>2, <1>3 DEF Known

\* Writing the k bytes after the last-th at the pointer they are known up to
\* keeps what is known.  If it is at the size nothing is written and they are lost.
LEMMA KnownWritten ==
    ASSUME NEW b, NEW c, NEW size \in Nat \ {0}, b.size = size, c.size = size,
           NEW rd \in 0 .. size - 1, b.rd = rd, NEW to \in 0 .. size - 1, c.rd = to,
           NEW ptr \in 0 .. size, NEW last \in Nat, NEW lost, Known(b, ptr, last, lost),
           NEW k \in 1 .. size,
           Copies(b.mem, c.mem, size, last, k, ptr),
           Passes(size, rd, to, ptr, k),
           NEW more, lost \subseteq more, ptr = size => last + 1 .. last + k \subseteq more
    PROVE  Known(c, AdvancePtr(ptr, k, size), last + k, more)
<1> DEFINE next == AdvancePtr(ptr, k, size)
<1>1. next = IF ptr + k <= size THEN ptr + k ELSE IF ptr + k = 2 * size THEN 0 ELSE ptr + k - size
  BY AdvanceIs
<1> HIDE DEF next
<1>2. CASE ptr = size
  <2>1. next = IF k = size THEN 0 ELSE k
    BY <1>1, <1>2
  <2>2. \A p \in 0 .. size - 1 : c.mem[p] = b.mem[p]
    BY <1>2 DEF Copies
  <2>3. FrontHolds(c, next, last + k, more)
    <3> SUFFICES ASSUME NEW p \in 0 .. next - 1 PROVE Holds(c, p, (last + k) - (next - 1 - p), more)
      BY DEF FrontHolds
    <3>1. (last + k) - (next - 1 - p) \in last + 1 .. last + k
      BY <2>1
    <3> QED
      BY <1>2, <3>1 DEF Holds
  <2>4. BackHolds(c, next, last + k, more)
    <3> SUFFICES ASSUME to > next, NEW p \in to .. size - 1
                 PROVE  Holds(c, p, (last + k) - (next + size - 1 - p), more)
      BY DEF BackHolds
    <3>1. CASE k = size
      <4>1. (last + k) - (next + size - 1 - p) \in last + 1 .. last + k
        BY <2>1, <3>1
      <4> QED
        BY <1>2, <4>1 DEF Holds
    <3>2. CASE k # size
      <4>1. /\ (last + k) - (next + size - 1 - p) = last - (ptr - 1 - p)
            /\ p \in 0 .. ptr - 1 /\ p \in 0 .. size - 1
        BY <1>2, <2>1, <3>2
      <4>2. Holds(b, p, last - (ptr - 1 - p), lost)
        BY <4>1 DEF Known, FrontHolds
      <4> QED
        BY <2>2, <4>1, <4>2 DEF Holds
    <3> QED
      BY <3>1, <3>2
  <2>5. Enough(c, next, last + k)
    BY <1>2, <2>1 DEF Known, Enough
  <2> QED
    BY <2>3, <2>4, <2>5 DEF Known, next
<1>3. CASE ptr < size
  <2>1. next = IF ptr + k <= size THEN ptr + k ELSE ptr + k - size
    BY <1>1, <1>3
  <2>2. \A p \in 0 .. size - 1 : c.mem[p] = CopiedByte(b.mem, size, last, k, ptr, p)
    BY <1>3 DEF Copies
  <2>3. FrontHolds(c, next, last + k, more)
    <3> SUFFICES ASSUME NEW p \in 0 .. next - 1 PROVE Holds(c, p, (last + k) - (next - 1 - p), more)
      BY DEF FrontHolds
    <3>0. p \in 0 .. size - 1
      BY <2>1
    <3>1. CASE ptr + k <= size /\ p < ptr
      <4>1. (last + k) - (next - 1 - p) = last - (ptr - 1 - p) /\ p \in 0 .. ptr - 1
        BY <2>1, <3>1
      <4>2. c.mem[p] = b.mem[p]
        BY <2>2, <3>0, <3>1 DEF CopiedByte
      <4>3. Holds(b, p, last - (ptr - 1 - p), lost)
        BY <4>1 DEF Known, FrontHolds
      <4> QED
        BY <4>1, <4>2, <4>3 DEF Holds
    <3>2. CASE ptr + k <= size /\ ~(p < ptr)
      <4>1. c.mem[p] = last + (p - ptr) + 1
        BY <2>1, <2>2, <3>0, <3>2 DEF CopiedByte
      <4> QED
        BY <2>1, <3>2, <4>1 DEF Holds
    <3>3. CASE ~(ptr + k <= size)
      <4>1. c.mem[p] = last + (p + size - ptr) + 1
        BY <2>1, <2>2, <3>0, <3>3 DEF CopiedByte
      <4> QED
        BY <2>1, <3>3, <4>1 DEF Holds
    <3> QED
      BY <3>1, <3>2, <3>3
  <2>4. BackHolds(c, next, last + k, more)
    <3> SUFFICES ASSUME to > next, NEW p \in to .. size - 1
                 PROVE  Holds(c, p, (last + k) - (next + size - 1 - p), more)
      BY DEF BackHolds
    <3>0. p \in 0 .. size - 1
      OBVIOUS
    <3>1. CASE ptr + k <= size
      <4>1. rd > ptr /\ to >= rd
        BY <1>3, <2>1, <3>1 DEF Passes
      <4>2. (last + k) - (next + size - 1 - p) = last - (ptr + size - 1 - p) /\ p \in rd .. size - 1
        BY <2>1, <3>1, <4>1
      <4>3. c.mem[p] = b.mem[p]
        BY <2>1, <2>2, <3>0, <3>1 DEF CopiedByte
      <4>4. Holds(b, p, last - (ptr + size - 1 - p), lost)
        BY <4>1, <4>2 DEF Known, BackHolds
      <4> QED
        BY <4>2, <4>3, <4>4 DEF Holds
    <3>2. CASE ~(ptr + k <= size) /\ p < ptr
      <4>1. (last + k) - (next + size - 1 - p) = last - (ptr - 1 - p) /\ p \in 0 .. ptr - 1
        BY <2>1, <3>0, <3>2
      <4>2. c.mem[p] = b.mem[p]
        BY <2>1, <2>2, <3>0, <3>2 DEF CopiedByte
      <4>3. Holds(b, p, last - (ptr - 1 - p), lost)
        BY <4>1 DEF Known, FrontHolds
      <4> QED
        BY <4>1, <4>2, <4>3 DEF Holds
    <3>3. CASE ~(ptr + k <= size) /\ ~(p < ptr)
      <4>1. c.mem[p] = last + (p - ptr) + 1
        BY <2>2, <3>0, <3>3 DEF CopiedByte
      <4> QED
        BY <2>1, <3>3, <4>1 DEF Holds
    <3> QED
      BY <3>1, <3>2, <3>3
  <2>5. Enough(c, next, last + k)
    <3>1. next <= last + k
      BY <2>1 DEF Known, Enough
    <3>2. to > next => next + size - to <= last + k
      <4>1. CASE ptr + k <= size
        BY <1>3, <2>1, <4>1 DEF Known, Enough, Passes
      <4>2. CASE ~(ptr + k <= size)
        BY <2>1, <4>2 DEF Known, Enough
      <4> QED
        BY <4>1, <4>2
    <3> QED
      BY <3>1, <3>2 DEF Enough
  <2> QED
    BY <2>3, <2>4, <2>5 DEF Known, next
<1> QED
  BY <1>2, <1>3

\* Bytes that are poked behind those known, and no further than the read
\* pointer, are poked over the oldest in the ring.
LEMMA KnownPoked ==
    ASSUME NEW b, NEW c, NEW size \in Nat \ {0}, b.size = size, c.size = size,
           NEW rd \in 0 .. size - 1, b.rd = rd, c.rd = rd,
           NEW ptr \in 0 .. size, NEW last \in Nat, NEW lost, Known(b, ptr, last, lost),
           NEW k \in 0 .. size, NEW first,
           Copies(b.mem, c.mem, size, first, k, ptr),
           rd > ptr => ptr + k <= rd
    PROVE  Known(c, ptr, last, lost \cup ((last - size + 1 .. last - size + k) \cap 1 .. last))
<1> DEFINE more == lost \cup ((last - size + 1 .. last - size + k) \cap 1 .. last)
<1>1. FrontHolds(c, ptr, last, more)
  <2> SUFFICES ASSUME NEW p \in 0 .. ptr - 1 PROVE Holds(c, p, last - (ptr - 1 - p), more)
    BY DEF FrontHolds
  <2>1. Holds(b, p, last - (ptr - 1 - p), lost) /\ p \in 0 .. size - 1
    BY DEF Known, FrontHolds
  <2>2. CASE ptr = size \/ ~(p + size < ptr + k)
    <3>1. c.mem[p] = b.mem[p]
      BY <2>1, <2>2 DEF Copies, CopiedByte
    <3> QED
      BY <2>1, <3>1 DEF Holds
  <2>3. CASE ptr < size /\ p + size < ptr + k
    <3>1. last - (ptr - 1 - p) \in last - size + 1 .. last - size + k
      BY <2>3
    <3>2. last - (ptr - 1 - p) \in 1 .. last
      BY DEF Known, Enough
    <3> QED
      BY <3>1, <3>2 DEF Holds
  <2> QED
    BY <2>2, <2>3
<1>2. BackHolds(c, ptr, last, more)
  <2> SUFFICES ASSUME rd > ptr, NEW p \in rd .. size - 1
               PROVE  Holds(c, p, last - (ptr + size - 1 - p), more)
    BY DEF BackHolds
  <2>1. c.mem[p] = b.mem[p]
    BY DEF Copies, CopiedByte
  <2>2. Holds(b, p, last - (ptr + size - 1 - p), lost)
    BY DEF Known, BackHolds
  <2> QED
    BY <2>1, <2>2 DEF Holds
<1>3. Enough(c, ptr, last)
  BY DEF Known, Enough
<1> QED
  BY <1>1, <1>2, <1>3 DEF Known

-----------------------------------------------------------------------------
(* What the functions of the buffer make of a sound one. *)

Sound(b) == Shape(b) /\ QuietIsEmpty(b)

LEMMA AllocateForms ==
    ASSUME NEW b, IsBuffer(b), NEW n, Allocated(n) \in Nat, NEW c, c = Allocate(b, n)
    PROVE  /\ Formed(c) /\ QuietIsEmpty(c)
           /\ c.size = Allocated(n) /\ c.rd = 0 /\ c.wr = 0 /\ c.poke = 0
           /\ c.mode = b.mode /\ c.max = b.max /\ c.ready = FALSE /\ c.head = 0 /\ c.tail = 0
<1> DEFINE e == Empty(b)
           size == Allocated(n)
           mem == [i \in 0 .. size - 1 |-> Junk]
<1>1. /\ IsBuffer(e) /\ e.rd = 0 /\ e.wr = 0 /\ e.ready = FALSE /\ e.mode = b.mode /\ e.max = b.max
      /\ e.head = 0 /\ e.tail = 0 /\ e.evEmpty = (b.evEmpty \/ b.size # 0)
  BY EmptyIs, Zenon
<1>2. c = [e EXCEPT !.size = size, !.poke = 0, !.mem = mem]
  BY DEF Allocate
<1>3. size \in Nat
  OBVIOUS
<1> HIDE DEF e, size
<1>4. DOMAIN mem = 0 .. size - 1
  OBVIOUS
<1> HIDE DEF mem
<1>5. /\ IsBuffer(c) /\ c.size = size /\ c.poke = 0 /\ c.mem = mem
      /\ c.rd = 0 /\ c.wr = 0 /\ c.ready = FALSE /\ c.mode = b.mode /\ c.max = b.max
      /\ c.head = 0 /\ c.tail = 0 /\ c.evEmpty = e.evEmpty
  BY <1>1, <1>2 DEF IsBuffer, Fields
<1>6. Pointers(c)
  BY <1>3, <1>5 DEF Pointers
<1>7. c.ready \in BOOLEAN /\ c.evEmpty \in BOOLEAN
  BY <1>1, <1>5, Zenon
<1>8. Formed(c) /\ QuietIsEmpty(c)
  BY <1>3, <1>4, <1>5, <1>6, <1>7 DEF Formed, QuietIsEmpty
<1> QED
  BY <1>5, <1>8 DEF size

\* The event of a buffer that had memory is signalled, a new one's is left alone.
LEMMA AllocateSignals ==
    ASSUME NEW b, IsBuffer(b), NEW n, NEW c, c = Allocate(b, n)
    PROVE  c.evEmpty = (b.evEmpty \/ b.size # 0)
<1> DEFINE e == Empty(b)
           size == Allocated(n)
           mem == [i \in 0 .. size - 1 |-> Junk]
<1>1. IsBuffer(e) /\ e.evEmpty = (b.evEmpty \/ b.size # 0)
  BY EmptyIs, Zenon
<1>2. c = [e EXCEPT !.size = size, !.poke = 0, !.mem = mem]
  BY DEF Allocate
<1> HIDE DEF e, size, mem
<1>3. c.evEmpty = e.evEmpty
  BY <1>1, <1>2 DEF IsBuffer, Fields
<1> QED
  BY <1>1, <1>3

LEMMA AllocateIs ==
    ASSUME NEW b, IsBuffer(b), b.max \in MaxSizes, NEW n \in Chunks, NEW c, c = Allocate(b, n)
    PROVE  /\ Sound(c)
           /\ c.size = Allocated(n) /\ c.rd = 0 /\ c.wr = 0 /\ c.poke = 0
           /\ c.mode = b.mode /\ c.max = b.max /\ c.ready = FALSE
<1>1. Allocated(n) \in Sizes /\ Allocated(n) \in Nat
  BY AllocatedFits
<1>2. /\ Formed(c) /\ QuietIsEmpty(c)
      /\ c.size = Allocated(n) /\ c.rd = 0 /\ c.wr = 0 /\ c.poke = 0
      /\ c.mode = b.mode /\ c.max = b.max /\ c.ready = FALSE
  BY <1>1, AllocateForms, ZenonT(60)
<1> QED
  BY <1>1, <1>2 DEF Sound, Shape

\* A buffer that is prepared for a write is left alone, made, or moved.
Fresh(b, c) ==
    b.size = 0 /\ c.rd = 0 /\ c.wr = 0 /\ c.poke = 0 /\ c.ready = FALSE /\ c.evEmpty = b.evEmpty

LEMMA PreparedIs ==
    ASSUME NEW b, Sound(b), NEW n \in Chunks, NEW from, from = b.wr \/ from = b.poke,
           NEW c, c = Prepared(b, n, from)
    PROVE  /\ Sound(c) /\ c.mode = b.mode /\ c.max = b.max
           /\ c = b \/ Fresh(b, c) \/ (b.size # 0 /\ c.size # 0 /\ Moved(b, c))
<1>1. CASE b.mode # "grow"
  BY <1>1 DEF Prepared
<1>2. CASE b.mode = "grow" /\ b.size = 0
  <2>1. c = Allocate(b, n)
    BY <1>2 DEF Prepared
  <2>2. IsBuffer(b) /\ b.max \in MaxSizes
    BY DEF Sound, Shape, Formed
  <2>3. /\ Sound(c) /\ c.rd = 0 /\ c.wr = 0 /\ c.poke = 0
        /\ c.mode = b.mode /\ c.max = b.max /\ c.ready = FALSE
    BY <2>1, <2>2, AllocateIs, ZenonT(60)
  <2>4. c.evEmpty = b.evEmpty
    <3>1. b.evEmpty \in BOOLEAN
      BY DEF Sound, Shape, Formed
    <3>2. c.evEmpty = (b.evEmpty \/ b.size # 0)
      BY <2>1, <2>2, AllocateSignals
    <3> QED
      BY <1>2, <3>1, <3>2, Zenon
  <2> QED
    BY <1>2, <2>3, <2>4 DEF Fresh
<1>3. CASE b.mode = "grow" /\ b.size # 0
  <2>1. c = EnsureWriteSpace(b, n, from)
    BY <1>3 DEF Prepared
  <2>2. from \in 0 .. b.size
    BY <1>3 DEF Sound, Shape, Formed, Pointers
  <2>3. c = b \/ (Shape(c) /\ Moved(b, c) /\ c.size >= b.size)
    BY <1>3, <2>1, <2>2, EnsureMoves DEF Sound
  <2>4. CASE Shape(c) /\ Moved(b, c) /\ c.size >= b.size
    <3>1. c.size # 0
      BY <1>3, <2>4, SizeIsNat DEF Sound
    <3>2. QuietIsEmpty(c)
      <4>1. ~b.ready => b.rd = b.wr
        BY DEF Sound, QuietIsEmpty
      <4>2. b.rd = b.wr => c.wr = 0
        BY <2>4 DEF Moved, Front, GetMaxRead
      <4> QED
        BY <2>4, <4>1, <4>2 DEF QuietIsEmpty, Moved, Kept
    <3> QED
      BY <1>3, <2>4, <3>1, <3>2 DEF Sound, Moved, Kept
  <2> QED
    BY <2>3, <2>4
<1> QED
  BY <1>1, <1>2, <1>3

\* What is known of the bytes survives: up to the write pointer and up to the
\* poke pointer.
LEMMA PreparedKnown ==
    ASSUME NEW b, Sound(b), NEW n \in Chunks, NEW from, from = b.wr \/ from = b.poke,
           NEW c, c = Prepared(b, n, from), NEW last \in Nat, NEW lost
    PROVE  /\ Known(b, b.wr, last, lost) => Known(c, c.wr, last, lost)
           /\ Known(b, b.poke, last, lost) => Known(c, c.poke, last, lost)
<1>1. c = b \/ Fresh(b, c) \/ (b.size # 0 /\ c.size # 0 /\ Moved(b, c))
  BY PreparedIs
<1>2. CASE c = b
  BY <1>2
<1>3. CASE Fresh(b, c)
  <2>1. c.rd = 0 /\ c.wr = 0 /\ c.poke = 0
    BY <1>3 DEF Fresh
  <2> QED
    BY <2>1, KnownAtZero
<1>4. CASE b.size # 0 /\ Moved(b, c)
  <2> DEFINE size == b.size
             rd == b.rd
             wr == b.wr
             poke == b.poke
             towr == c.wr
             topoke == c.poke
  <2>1. size \in Nat \ {0} /\ rd \in 0 .. size - 1 /\ wr \in 0 .. size /\ poke \in 0 .. size
    BY <1>4, SizeIsNat DEF Sound, Shape, Formed, Pointers
  <2>2. c.rd = 0 /\ Front(b, c, wr, towr) /\ Front(b, c, poke, topoke)
    BY <1>4 DEF Moved
  <2>3. b.size = size /\ b.rd = rd
    OBVIOUS
  <2> HIDE DEF size, rd, wr, poke, towr, topoke
  <2>4. Known(b, wr, last, lost) => Known(c, towr, last, lost)
    BY <2>1, <2>2, <2>3, KnownMoved
  <2>5. Known(b, poke, last, lost) => Known(c, topoke, last, lost)
    BY <2>1, <2>2, <2>3, KnownMoved
  <2> QED
    BY <2>4, <2>5 DEF wr, poke, towr, topoke
<1> QED
  BY <1>1, <1>2, <1>3, <1>4

\* The bytes that a write of n at from loses to the end of the ring.
Lost(b, k, first, from) == IF from = b.size THEN first + 1 .. first + k ELSE {}

\* What a write of n bytes at from leaves: the room made for it and the copy.
LEMMA CopyIs ==
    ASSUME NEW b, Sound(b), b.size # 0, NEW n \in Chunks, NEW from \in 0 .. b.size, NEW first \in Nat,
           NEW k, k = Clipped(b, n, from),
           NEW room, room = MakeRoom(b, n, from),
           NEW mem, mem = Copied(room, Data(first, k), k, from)
    PROVE  /\ k \in 0 .. b.size
           /\ Taken(b, room)
           /\ b.mode # "overwrite" => room = b
           /\ Passes(b.size, b.rd, room.rd, from, k)
           /\ DOMAIN mem = 0 .. b.size - 1
           /\ Copies(b.mem, mem, b.size, first, k, from)
           /\ AdvancePtr(from, k, b.size) \in 0 .. b.size
<1> DEFINE size == b.size
           rd == b.rd
<1>1. size \in Nat \ {0} /\ rd \in 0 .. size - 1 /\ from \in 0 .. size /\ n \in Nat
  BY SizeIsNat, ChunksArePositive DEF Sound, Shape, Formed, Pointers
<1>2. k \in 0 .. size
  BY <1>1, ClippedIs
<1>3. Taken(b, room) /\ Passes(size, rd, room.rd, from, k) /\ (b.mode # "overwrite" => room = b)
  BY <1>1, MakeRoomTakes DEF Sound, Shape
<1>4. room.size = size /\ room.mem = b.mem /\ DOMAIN b.mem = 0 .. size - 1
  BY <1>3 DEF Taken, Sound, Shape, Formed
<1> HIDE DEF size, rd
<1>5. Ring(room, size) /\ IsCopy(room, mem, first, k, from)
  BY <1>4 DEF Ring, IsCopy
<1>6. DOMAIN mem = 0 .. size - 1 /\ Copies(room.mem, mem, size, first, k, from)
  BY <1>1, <1>2, <1>5, CopiedBytes
<1>7. AdvancePtr(from, k, size) \in 0 .. size
  <2> DEFINE at == AdvancePtr(from, k, size)
  <2>1. at = IF from + k <= size THEN from + k
             ELSE IF from + k = 2 * size THEN 0 ELSE from + k - size
    <3>1. from \in Nat /\ k \in Nat /\ from + k <= 2 * size
      BY <1>1, <1>2
    <3> QED
      BY <1>1, <3>1, AdvanceIs, ZenonT(60)
  <2> HIDE DEF at
  <2>2. at \in 0 .. size
    BY <1>1, <1>2, <2>1
  <2> QED
    BY <2>2 DEF at
<1> QED
  BY <1>2, <1>3, <1>4, <1>6, <1>7 DEF size, rd

\* The buffer with the bytes copied knows them too.
LEMMA CopyKnown ==
    ASSUME NEW b, Sound(b), b.size # 0, NEW n \in Chunks, NEW from \in 0 .. b.size, NEW first \in Nat,
           NEW k, k = Clipped(b, n, from), k > 0,
           NEW room, room = MakeRoom(b, n, from),
           NEW c, c.size = b.size, c.rd = room.rd,
           c.mem = Copied(room, Data(first, k), k, from),
           NEW lost, Known(b, from, first, lost)
    PROVE  Known(c, AdvancePtr(from, k, b.size), first + k, lost \cup Lost(b, k, first, from))
<1> DEFINE size == b.size
           rd == b.rd
           to == room.rd
           more == lost \cup Lost(b, k, first, from)
<1>1. /\ size \in Nat \ {0} /\ rd \in 0 .. size - 1 /\ from \in 0 .. size
      /\ b.size = size /\ b.rd = rd /\ c.size = size /\ c.rd = to
  BY SizeIsNat DEF Sound, Shape, Formed, Pointers
<1>2. /\ k \in 0 .. size
      /\ to \in 0 .. size - 1
      /\ Passes(size, rd, to, from, k)
      /\ Copies(b.mem, c.mem, size, first, k, from)
  <2> DEFINE mem == c.mem
  <2>1. mem = Copied(room, Data(first, k), k, from)
    OBVIOUS
  <2> HIDE DEF mem
  <2>2. /\ k \in 0 .. b.size
        /\ Taken(b, room)
        /\ Passes(b.size, b.rd, room.rd, from, k)
        /\ Copies(b.mem, mem, b.size, first, k, from)
    BY <2>1, CopyIs
  <2> QED
    BY <2>2 DEF Taken, mem
<1>3. lost \subseteq more /\ (from = size => first + 1 .. first + k \subseteq more)
  BY DEF Lost
<1>4. k \in 1 .. size
  BY <1>1, <1>2
<1> HIDE DEF size, rd, to, more
<1>5. Known(c, AdvancePtr(from, k, size), first + k, more)
  BY <1>1, <1>2, <1>3, <1>4, KnownWritten
<1> QED
  BY <1>5 DEF size, more

-----------------------------------------------------------------------------
(* What the operations make of a sound buffer.                               *)

\* Where there is no memory there is no room.
LEMMA NoRoom ==
    ASSUME NEW b, b.size = 0, NEW n \in Nat, NEW from PROVE Clipped(b, n, from) = 0
<1>1. GetMaxWrite(b.rd, from, b.size) = 0
  BY DEF GetMaxWrite
<1> QED
  BY <1>1 DEF Clipped, Lesser

\* A write, of the bytes after the first-th.
Wrote(b, n, first) ==
    LET k == Clipped(b, n, b.wr)
        room == MakeRoom(b, n, b.wr)
    IN [room EXCEPT !.wr = AdvancePtr(b.wr, k, b.size),
                    !.mem = Copied(room, Data(first, k), k, b.wr),
                    !.ready = TRUE, !.evEmpty = FALSE]

LEMMA WroteIs ==
    ASSUME NEW b, Sound(b), NEW n \in Chunks, NEW first \in Nat, NEW k, k = Clipped(b, n, b.wr), k > 0,
           NEW c, c = Wrote(b, n, first), NEW lost, Known(b, b.wr, first, lost)
    PROVE  /\ Sound(c) /\ k \in Nat \ {0}
           /\ Known(c, c.wr, first + k, lost \cup Lost(b, k, first, b.wr))
<1>1. b.size # 0 /\ n \in Nat
  <2>1. n \in Nat
    BY ChunksArePositive
  <2> QED
    BY <2>1, NoRoom
<1>2. b.wr \in 0 .. b.size
  BY <1>1 DEF Sound, Shape, Formed, Pointers
<1> DEFINE from == b.wr
           room == MakeRoom(b, n, from)
           mem == Copied(room, Data(first, k), k, from)
           at == AdvancePtr(from, k, b.size)
<1>3. c = [room EXCEPT !.wr = at, !.mem = mem, !.ready = TRUE, !.evEmpty = FALSE]
  BY DEF Wrote
<1>4. from \in 0 .. b.size /\ k = Clipped(b, n, from) /\ Known(b, from, first, lost)
  BY <1>2
<1>5. room = MakeRoom(b, n, from) /\ mem = Copied(room, Data(first, k), k, from)
  OBVIOUS
<1>6. at = AdvancePtr(from, k, b.size)
  OBVIOUS
<1> HIDE DEF from, room, mem, at
<1>7. /\ k \in 0 .. b.size
      /\ Taken(b, room)
      /\ DOMAIN mem = 0 .. b.size - 1
      /\ AdvancePtr(from, k, b.size) \in 0 .. b.size
  BY <1>1, <1>4, <1>5, CopyIs
<1>8. /\ IsBuffer(c) /\ c.size = b.size /\ c.rd = room.rd /\ c.wr = at /\ c.poke = b.poke
      /\ c.mem = mem /\ c.mode = b.mode /\ c.max = b.max /\ c.ready = TRUE
      /\ c.evEmpty = FALSE
  BY <1>3, <1>7 DEF Taken, IsBuffer, Fields
<1>9. c.ready \in BOOLEAN /\ QuietIsEmpty(c) /\ c.evEmpty \in BOOLEAN
  BY <1>8, Zenon DEF QuietIsEmpty
<1>10. Pointers(c)
  BY <1>1, <1>6, <1>7, <1>8 DEF Taken, Sound, Shape, Formed, Pointers
<1>11. Sound(c)
  BY <1>7, <1>8, <1>9, <1>10 DEF Sound, Shape, Formed
<1>12. c.mem = Copied(room, Data(first, k), k, from)
  BY <1>5, <1>8
<1>13. Known(c, AdvancePtr(from, k, b.size), first + k, lost \cup Lost(b, k, first, from))
  BY <1>1, <1>4, <1>5, <1>8, <1>12, CopyKnown
<1>14. k \in Nat \ {0}
  BY <1>1, <1>7, SizeIsNat DEF Sound
<1> QED
  BY <1>6, <1>8, <1>11, <1>13, <1>14 DEF from

\* A poke of the bytes after the first-th.
LEMMA PokedIs ==
    ASSUME NEW b, Sound(b), NEW n \in Chunks, NEW first \in Nat, NEW k, k = Clipped(b, n, b.poke), k > 0,
           NEW c, c = Poked(b, n, first)
    PROVE  /\ Sound(c) /\ k \in Nat \ {0} /\ b.size # 0
           /\ c.size = b.size /\ c.mode = b.mode /\ c.max = b.max
           /\ \A lost : Known(b, b.poke, first, lost) =>
                Known(c, c.poke, first + k, lost \cup Lost(b, k, first, b.poke))
           /\ c.mode # "overwrite" =>
                /\ c.rd = b.rd /\ c.wr = b.wr
                /\ Copies(b.mem, c.mem, b.size, first, k, b.poke)
<1>1. b.size # 0 /\ n \in Nat
  <2>1. n \in Nat
    BY ChunksArePositive
  <2> QED
    BY <2>1, NoRoom
<1>2. b.poke \in 0 .. b.size
  BY <1>1 DEF Sound, Shape, Formed, Pointers
<1> DEFINE from == b.poke
           room == MakeRoom(b, n, from)
           mem == Copied(room, Data(first, k), k, from)
           at == AdvancePtr(from, k, b.size)
<1>3. c = [room EXCEPT !.mem = mem, !.poke = at]
  BY DEF Poked
<1>4. from \in 0 .. b.size /\ k = Clipped(b, n, from) /\ from = b.poke
  BY <1>2
<1>5. room = MakeRoom(b, n, from) /\ mem = Copied(room, Data(first, k), k, from)
  OBVIOUS
<1>6. at = AdvancePtr(from, k, b.size)
  OBVIOUS
<1> HIDE DEF from, room, mem, at
<1>7. /\ k \in 0 .. b.size
      /\ Taken(b, room)
      /\ b.mode # "overwrite" => room = b
      /\ DOMAIN mem = 0 .. b.size - 1
      /\ Copies(b.mem, mem, b.size, first, k, from)
      /\ AdvancePtr(from, k, b.size) \in 0 .. b.size
  BY <1>1, <1>4, <1>5, CopyIs
<1>8. /\ IsBuffer(c) /\ c.size = b.size /\ c.rd = room.rd /\ c.wr = room.wr /\ c.poke = at
      /\ c.mem = mem /\ c.mode = b.mode /\ c.max = b.max /\ c.ready = room.ready
      /\ c.evEmpty = room.evEmpty
  BY <1>3, <1>7 DEF Taken, IsBuffer, Fields
<1>9. c.ready \in BOOLEAN /\ QuietIsEmpty(c) /\ c.evEmpty \in BOOLEAN
  BY <1>7, <1>8 DEF Taken, QuietIsEmpty
<1>10. Pointers(c)
  BY <1>1, <1>6, <1>7, <1>8 DEF Taken, Sound, Shape, Formed, Pointers
<1>11. Sound(c)
  BY <1>7, <1>8, <1>9, <1>10 DEF Sound, Shape, Formed
<1>12. ASSUME NEW lost, Known(b, b.poke, first, lost)
       PROVE  Known(c, c.poke, first + k, lost \cup Lost(b, k, first, b.poke))
  <2>1. c.mem = Copied(room, Data(first, k), k, from) /\ Known(b, from, first, lost)
    BY <1>4, <1>5, <1>8, <1>12
  <2>2. Known(c, AdvancePtr(from, k, b.size), first + k, lost \cup Lost(b, k, first, from))
    BY <1>1, <1>4, <1>5, <1>8, <2>1, CopyKnown
  <2> QED
    BY <1>4, <1>6, <1>8, <2>2
<1>13. k \in Nat \ {0}
  BY <1>1, <1>7, SizeIsNat DEF Sound
<1> QED
  BY <1>1, <1>4, <1>7, <1>8, <1>11, <1>12, <1>13

\* The buffer with the bytes poked knows them too.
LEMMA PokedKnows ==
    ASSUME NEW b, Sound(b), NEW n \in Chunks, NEW first \in Nat, NEW k, k = Clipped(b, n, b.poke), k > 0,
           NEW c, c = Poked(b, n, first), NEW lost, Known(b, b.poke, first, lost)
    PROVE  Known(c, c.poke, first + k, lost \cup Lost(b, k, first, b.poke))
BY PokedIs

-----------------------------------------------------------------------------
(* The inductive invariant.                                                  *)

IInv ==
    /\ Sound(buf)
    /\ Known(buf, buf.wr, written, torn)
    /\ written \in Nat /\ taken \in Nat /\ defrag \in BOOLEAN
    /\ torn \subseteq 1 .. written

LEMMA NoBufferIs ==
    ASSUME NEW mode, NEW max \in MaxSizes
    PROVE  LET b == NoBuffer(mode, max)
           IN  /\ Sound(b)
               /\ b.size = 0 /\ b.rd = 0 /\ b.wr = 0 /\ ~b.ready /\ ~b.evEmpty
               /\ b.mode = mode /\ b.max = max
<1> DEFINE b == NoBuffer(mode, max)
<1>1. /\ IsBuffer(b) /\ b.size = 0 /\ b.rd = 0 /\ b.wr = 0 /\ b.poke = 0
      /\ b.ready = FALSE /\ b.evEmpty = FALSE /\ b.mode = mode /\ b.max = max /\ b.mem = <<>>
  BY DEF NoBuffer, IsBuffer, Fields
<1> HIDE DEF b
<1>2. DOMAIN b.mem = 0 .. b.size - 1
  BY <1>1
<1>3. b.ready \in BOOLEAN /\ b.evEmpty \in BOOLEAN
  BY <1>1, Zenon
<1>4. b.size \in Sizes
  BY <1>1 DEF Sizes
<1> QED
  BY <1>1, <1>2, <1>3, <1>4 DEF Sound, Shape, Formed, Pointers, QuietIsEmpty, b

LEMMA InitIInv == Init => IInv
<1> SUFFICES ASSUME Init PROVE IInv
  OBVIOUS
<1>1. PICK n \in Chunks \cup {0}, mode \in WriteModes, max \in MaxSizes :
        buf = IF n = 0 THEN NoBuffer(mode, max) ELSE Allocate(NoBuffer(mode, max), n)
  BY DEF Init
<1> DEFINE b == NoBuffer(mode, max)
<1>2. b = NoBuffer(mode, max)
  OBVIOUS
<1>3. Sound(b) /\ b.rd = 0 /\ b.wr = 0 /\ b.max = max
  BY NoBufferIs
<1> HIDE DEF b
<1>4. Sound(buf) /\ buf.rd = 0 /\ buf.wr = 0
  <2>1. CASE n = 0
    BY <1>1, <1>2, <1>3, <2>1
  <2>2. CASE n # 0
    <3>1. buf = Allocate(b, n) /\ n \in Chunks /\ IsBuffer(b) /\ b.max \in MaxSizes
      BY <1>1, <1>2, <1>3, <2>2 DEF Sound, Shape, Formed
    <3> QED
      BY <3>1, AllocateIs
  <2> QED
    BY <2>1, <2>2
<1>5. written = 0 /\ taken = 0 /\ torn = {} /\ defrag = FALSE
  BY DEF Init
<1>6. Known(buf, buf.wr, written, torn)
  <2>1. Known(buf, 0, 0, torn)
    BY <1>4, KnownAtZero
  <2> QED
    BY <1>4, <1>5, <2>1
<1>7. defrag \in BOOLEAN
  BY <1>5, Zenon
<1> QED
  BY <1>4, <1>5, <1>6, <1>7 DEF IInv

LEMMA WriteKeeps ==
    ASSUME IInv, NEW n \in Chunks, Write(n) PROVE IInv'
<1>1. PICK b : b = Prepared(buf, n, buf.wr)
  OBVIOUS
<1>2. PICK k : k = Clipped(b, n, b.wr)
  OBVIOUS
<1>3. /\ k > 0
      /\ buf' = Wrote(b, n, written)
      /\ Records(b, k, b.wr)
      /\ taken' = taken /\ defrag' = defrag
  BY <1>1, <1>2 DEF Write, Wrote
<1>4. Sound(buf) /\ Known(buf, buf.wr, written, torn) /\ written \in Nat
  BY DEF IInv
<1>5. Sound(b)
  BY <1>1, <1>4, PreparedIs
<1>6. Known(b, b.wr, written, torn)
  BY <1>1, <1>4, PreparedKnown
<1>7. /\ Sound(buf') /\ k \in Nat \ {0}
      /\ Known(buf', buf'.wr, written + k, torn \cup Lost(b, k, written, b.wr))
  BY <1>2, <1>3, <1>4, <1>5, <1>6, WroteIs
<1>8. written' = written + k /\ torn' = torn \cup Lost(b, k, written, b.wr)
  BY <1>3, Zenon DEF Records, Lost
<1>9. torn' \subseteq 1 .. written'
  <2> SUFFICES ASSUME NEW x \in torn' PROVE x \in 1 .. written'
    OBVIOUS
  <2>1. k \in Nat
    BY <1>7
  <2>2. CASE x \in torn
    <3>1. x \in 1 .. written
      BY <2>2 DEF IInv
    <3> QED
      BY <1>4, <1>8, <2>1, <3>1
  <2>3. CASE x \in Lost(b, k, written, b.wr)
    <3>1. x \in written + 1 .. written + k
      BY <2>3 DEF Lost
    <3> QED
      BY <1>4, <1>8, <2>1, <3>1
  <2> QED
    BY <1>8, <2>2, <2>3
<1> QED
  BY <1>3, <1>7, <1>8, <1>9 DEF IInv

LEMMA WriteFailsKeeps ==
    ASSUME IInv, NEW n \in Chunks, WriteFails(n) PROVE IInv'
<1>1. PICK b : b = Prepared(buf, n, buf.wr)
  OBVIOUS
<1>2. Sound(buf) /\ Known(buf, buf.wr, written, torn) /\ written \in Nat
  BY DEF IInv
<1>3. Sound(b)
  BY <1>1, <1>2, PreparedIs
<1>4. Known(b, b.wr, written, torn)
  BY <1>1, <1>2, PreparedKnown
<1>5. buf' = b /\ written' = written /\ taken' = taken /\ defrag' = defrag /\ torn' = torn
  BY <1>1 DEF WriteFails
<1> QED
  BY <1>3, <1>4, <1>5 DEF IInv

\* InitPoke().
Begun(a, from) == Sound(a) /\ a.poke = from /\ a.wr = from

LEMMA PokeBegins ==
    ASSUME NEW o, Sound(o), NEW a, a = [o EXCEPT !.poke = o.wr],
           NEW last, NEW lost, Known(o, o.wr, last, lost)
    PROVE  Begun(a, o.wr) /\ Known(a, o.wr, last, lost)
<1>1. /\ IsBuffer(a) /\ a.size = o.size /\ a.rd = o.rd /\ a.wr = o.wr /\ a.poke = o.wr
      /\ a.mem = o.mem /\ a.mode = o.mode /\ a.max = o.max /\ a.ready = o.ready
      /\ a.evEmpty = o.evEmpty
  BY DEF Sound, Shape, Formed, IsBuffer, Fields
<1>2. Sound(a)
  BY <1>1 DEF Sound, Shape, Formed, Pointers, QuietIsEmpty
<1>3. Known(a, o.wr, last, lost)
  BY <1>1 DEF Known, FrontHolds, BackHolds, Enough, Holds
<1> QED
  BY <1>1, <1>2, <1>3 DEF Begun

\* The room for the first part.
LEMMA PokePrepared ==
    ASSUME NEW a, NEW from, Begun(a, from), NEW m \in Chunks,
           NEW last \in Nat, NEW lost, Known(a, from, last, lost)
    PROVE  LET b == Prepared(a, m, from)
           IN  Sound(b) /\ b.poke = b.wr /\ Known(b, b.wr, last, lost)
<1> DEFINE b == Prepared(a, m, from)
<1>1. Sound(a) /\ from = a.wr /\ a.poke = a.wr /\ b = Prepared(a, m, from) /\ Known(a, a.wr, last, lost)
  BY DEF Begun
<1> HIDE DEF b
<1>2. Sound(b) /\ (b = a \/ Fresh(a, b) \/ (a.size # 0 /\ b.size # 0 /\ Moved(a, b)))
  BY <1>1, PreparedIs
<1>3. Known(b, b.wr, last, lost)
  BY <1>1, PreparedKnown
<1>4. b.poke = b.wr
  BY <1>1, <1>2 DEF Fresh, Moved, Front
<1> QED
  BY <1>2, <1>3, <1>4 DEF b

LEMMA PokeWriteKeeps ==
    ASSUME IInv, NEW m \in Chunks, NEW n \in Chunks, PokeWrite(m, n) PROVE IInv'
<1>1. PICK a : a = [buf EXCEPT !.poke = buf.wr]
  OBVIOUS
<1>2. PICK b : b = Prepared(a, m, buf.wr)
  OBVIOUS
<1>3. PICK j : j = Clipped(b, m, b.poke)
  OBVIOUS
<1>4. PICK c : c = Poked(b, m, written)
  OBVIOUS
<1>5. PICK d : d = Prepared(c, n, c.poke)
  OBVIOUS
<1>6. PICK k : k = Clipped(d, n, d.poke)
  OBVIOUS
<1>7. PICK e : e = Poked(d, n, written + j)
  OBVIOUS
<1>8. /\ j > 0 /\ k > 0
      /\ buf' = [e EXCEPT !.wr = e.poke, !.ready = @ \/ e.wr # e.poke,
                         !.evEmpty = @ /\ e.wr = e.poke]
      /\ written' = written + j + k
      /\ torn' = torn \cup Torn(b, j, written) \cup Torn(d, k, written + j)
      /\ taken' = taken /\ defrag' = defrag
  BY <1>1, <1>2, <1>3, <1>4, <1>5, <1>6, <1>7 DEF PokeWrite
<1>9. Sound(buf) /\ Known(buf, buf.wr, written, torn) /\ written \in Nat
  BY DEF IInv
<1>10. Sound(b) /\ b.poke = b.wr /\ Known(b, b.wr, written, torn)
  <2>1. Begun(a, buf.wr) /\ Known(a, buf.wr, written, torn)
    BY <1>1, <1>9, PokeBegins
  <2> QED
    BY <1>2, <1>9, <2>1, PokePrepared
<1> DEFINE torn1 == torn \cup Lost(b, j, written, b.poke)
           torn2 == torn1 \cup Lost(d, k, written + j, d.poke)
<1>11. Sound(c) /\ j \in Nat \ {0} /\ Known(c, c.poke, written + j, torn1)
  <2>1. Sound(c) /\ j \in Nat \ {0}
    BY <1>3, <1>4, <1>8, <1>9, <1>10, PokedIs
  <2>2. Known(b, b.poke, written, torn)
    BY <1>10
  <2> QED
    BY <1>3, <1>4, <1>8, <1>9, <1>10, <2>1, <2>2, PokedKnows
<1>12. torn' = torn2
  BY <1>8 DEF Torn, Lost
<1> HIDE DEF torn1
<1>13. written + j \in Nat
  BY <1>9, <1>11
<1>14. Sound(d)
  BY <1>5, <1>11, PreparedIs
<1>15. Known(d, d.poke, written + j, torn1)
  BY <1>5, <1>11, <1>13, PreparedKnown
<1>16. Sound(e) /\ k \in Nat \ {0} /\ Known(e, e.poke, (written + j) + k, torn2)
  <2> DEFINE first == written + j
  <2>1. first \in Nat /\ e = Poked(d, n, first) /\ Known(d, d.poke, first, torn1)
    BY <1>7, <1>13, <1>15
  <2> HIDE DEF first
  <2>2. Sound(e) /\ k \in Nat \ {0}
    BY <1>6, <1>8, <1>14, <2>1, PokedIs
  <2>3. Known(e, e.poke, first + k, torn1 \cup Lost(d, k, first, d.poke))
    BY <1>6, <1>8, <1>14, <2>1, PokedKnows
  <2> QED
    BY <2>2, <2>3 DEF first
<1> HIDE DEF torn2
<1>17. /\ IsBuffer(buf') /\ buf'.size = e.size /\ buf'.rd = e.rd /\ buf'.wr = e.poke
       /\ buf'.poke = e.poke /\ buf'.mem = e.mem /\ buf'.max = e.max
       /\ buf'.ready = (e.ready \/ e.wr # e.poke)
       /\ buf'.evEmpty = (e.evEmpty /\ e.wr = e.poke)
  BY <1>8, <1>16 DEF Sound, Shape, Formed, IsBuffer, Fields
<1>18. Sound(buf')
  <2>1. buf'.ready \in BOOLEAN /\ buf'.evEmpty \in BOOLEAN
    BY <1>17, Zenon
  <2>2. Pointers(buf')
    BY <1>16, <1>17 DEF Sound, Shape, Formed, Pointers
  <2>3. QuietIsEmpty(buf')
    <3>1. ASSUME ~buf'.ready PROVE buf'.rd = buf'.wr
      <4>1. ~e.ready /\ e.wr = e.poke
        BY <1>17, <3>1, Zenon
      <4> QED
        BY <1>16, <1>17, <4>1 DEF Sound, QuietIsEmpty
    <3> QED
      BY <3>1, Zenon DEF QuietIsEmpty
  <2> QED
    BY <1>16, <1>17, <2>1, <2>2, <2>3 DEF Sound, Shape, Formed
<1>19. Known(buf', buf'.wr, written', torn')
  <2>1. Known(buf', e.poke, (written + j) + k, torn2)
    BY <1>16, <1>17 DEF Known, FrontHolds, BackHolds, Enough, Holds
  <2> QED
    BY <1>8, <1>12, <1>17, <2>1
<1>20. torn' \subseteq 1 .. written' /\ written' \in Nat
  <2>1. torn \subseteq 1 .. written
    BY DEF IInv
  <2> QED
    BY <1>8, <1>9, <1>11, <1>16, <2>1 DEF Torn
<1> QED
  BY <1>8, <1>18, <1>19, <1>20 DEF IInv

LEMMA PokeFailsKeeps ==
    ASSUME IInv, NEW m \in Chunks, NEW n \in Chunks, PokeFails(m, n) PROVE IInv'
<1>1. PICK a : a = [buf EXCEPT !.poke = buf.wr]
  OBVIOUS
<1>2. PICK b : b = Prepared(a, m, buf.wr)
  OBVIOUS
<1>3. PICK j : j = Clipped(b, m, b.poke)
  OBVIOUS
<1>4. PICK c : c = Poked(b, m, written)
  OBVIOUS
<1>5. PICK d : d = Prepared(c, n, c.poke)
  OBVIOUS
<1> DEFINE oldest == written - b.size + 1 .. written - b.size + j
           more == torn \cup (oldest \cap 1 .. written)
<1>6. /\ \/ j = 0 /\ buf' = b /\ torn' = torn
         \/ j > 0 /\ Clipped(d, n, d.poke) = 0 /\ buf' = d /\ torn' = more
      /\ written' = written /\ taken' = taken /\ defrag' = defrag
  BY <1>1, <1>2, <1>3, <1>4, <1>5 DEF PokeFails
<1>7. Sound(buf) /\ Known(buf, buf.wr, written, torn) /\ written \in Nat /\ torn \subseteq 1 .. written
  BY DEF IInv
<1>8. Sound(b) /\ b.poke = b.wr /\ Known(b, b.wr, written, torn)
  <2>1. Begun(a, buf.wr) /\ Known(a, buf.wr, written, torn)
    BY <1>1, <1>7, PokeBegins
  <2> QED
    BY <1>2, <1>7, <2>1, PokePrepared
<1>9. more \subseteq 1 .. written
  BY <1>7
<1> HIDE DEF more
<1>10. CASE j = 0 /\ buf' = b /\ torn' = torn
  BY <1>6, <1>8, <1>10 DEF IInv
<1>11. CASE j > 0 /\ Clipped(d, n, d.poke) = 0 /\ buf' = d /\ torn' = more
  <2>1. /\ Sound(c) /\ j \in Nat \ {0} /\ b.size # 0 /\ c.size = b.size /\ c.mode = b.mode
        /\ c.mode # "overwrite" =>
             c.rd = b.rd /\ c.wr = b.wr /\ Copies(b.mem, c.mem, b.size, written, j, b.poke)
    BY <1>3, <1>4, <1>7, <1>8, <1>11, PokedIs
  <2>2. /\ Sound(d) /\ d.mode = c.mode
        /\ d = c \/ Fresh(c, d) \/ (c.size # 0 /\ d.size # 0 /\ Moved(c, d))
    BY <1>5, <2>1, PreparedIs
  <2>3. d.size # 0
    BY <2>1, <2>2 DEF Fresh
  <2>4. d.mode # "overwrite"
    <3>1. n > 0 /\ n \in Nat /\ d.size \in Nat /\ d.size > 0
      BY <2>2, <2>3, ChunksArePositive, SizeIsNat DEF Sound
    <3> QED
      BY <1>11, <3>1 DEF Clipped, Lesser
  <2>5. /\ c.rd = b.rd /\ c.wr = b.wr /\ b.mode # "overwrite"
        /\ Copies(b.mem, c.mem, b.size, written, j, b.poke)
    BY <2>1, <2>2, <2>4
  <2> DEFINE size == b.size
             rd == b.rd
             ptr == b.poke
  <2>6. /\ size \in Nat \ {0} /\ rd \in 0 .. size - 1 /\ ptr \in 0 .. size /\ m \in Nat
    BY <1>8, <2>1, ChunksArePositive, SizeIsNat DEF Sound, Shape, Formed, Pointers
  <2>7. /\ Avail(b, ptr) = IF ptr = size THEN IF rd <= 1 THEN 0 ELSE rd
                           ELSE IF rd = ptr THEN size
                           ELSE IF ptr > rd THEN size - (ptr - rd)
                           ELSE IF ptr + 1 = rd THEN 0 ELSE rd - ptr
        /\ Avail(b, ptr) \in 0 .. size
        /\ j \in 0 .. size
        /\ j = IF m <= Avail(b, ptr) THEN m ELSE Avail(b, ptr)
    BY <1>3, <2>5, <2>6, AvailIs, ClippedIs
  <2>8. /\ b.size = size /\ c.size = size /\ b.rd = rd /\ c.rd = rd /\ c.wr = ptr
        /\ Known(b, ptr, written, torn) /\ Copies(b.mem, c.mem, size, written, j, ptr)
    BY <1>8, <2>1, <2>5
  <2>9. more = torn \cup ((written - size + 1 .. written - size + j) \cap 1 .. written)
    BY DEF more
  <2> HIDE DEF size, rd, ptr
  <2>10. rd > ptr => ptr + j <= rd
    BY <2>6, <2>7
  <2>11. Known(c, ptr, written, more)
    BY <1>7, <2>6, <2>7, <2>8, <2>9, <2>10, KnownPoked
  <2>12. Known(d, d.wr, written, more)
    BY <1>5, <1>7, <2>1, <2>8, <2>11, PreparedKnown
  <2> QED
    BY <1>6, <1>7, <1>9, <1>11, <2>2, <2>12 DEF IInv
<1> QED
  BY <1>6, <1>10, <1>11

LEMMA ReadKeeps ==
    ASSUME IInv, NEW n \in Chunks, Read(n) PROVE IInv'
<1> DEFINE size == buf.size
           rd == buf.rd
           wr == buf.wr
           has == Readable(buf)
           k == Lesser(n, has)
           to == NormalizePtr(AdvancePtr(rd, k, size), size)
<1>1. Sound(buf) /\ Known(buf, wr, written, torn) /\ written \in Nat /\ taken \in Nat
  BY DEF IInv
<1>2. /\ k > 0
      /\ buf' = [buf EXCEPT !.rd = to]
      /\ taken' = taken + k /\ defrag' = TRUE /\ written' = written /\ torn' = torn
  BY DEF Read
<1>3. size # 0
  <2>1. size = 0 => has = 0
    BY DEF Readable, GetMaxRead
  <2>2. n \in Nat
    BY ChunksArePositive
  <2> HIDE DEF has
  <2> QED
    BY <1>2, <2>1, <2>2 DEF Lesser
<1>4. size \in Nat \ {0} /\ rd \in 0 .. size - 1 /\ wr \in 0 .. size
  BY <1>1, <1>3, SizeIsNat DEF Sound, Shape, Formed, Pointers
<1>5. has = GetMaxRead(rd, wr, size)
  BY DEF Readable
<1>6. buf.size = size /\ buf.rd = rd /\ buf.wr = wr
  OBVIOUS
<1> HIDE DEF size, rd, wr, has
<1>7. has = IF rd = wr THEN 0 ELSE IF wr > rd THEN wr - rd ELSE size - rd + wr
  BY <1>4, <1>5, MaxReadIs
<1>8. has \in 0 .. size /\ n \in Nat
  BY <1>4, <1>7, ChunksArePositive
<1>9. k \in 1 .. has
  BY <1>2, <1>8 DEF Lesser
<1> HIDE DEF k
<1>10. to = Ahead(rd, k, size) /\ to \in 0 .. size - 1
  <2>1. k \in 0 .. size + 1
    BY <1>4, <1>8, <1>9
  <2> QED
    BY <1>4, <2>1, AheadIs
<1> HIDE DEF to
<1>11. /\ IsBuffer(buf') /\ buf'.size = size /\ buf'.rd = to /\ buf'.wr = wr /\ buf'.poke = buf.poke
       /\ buf'.mem = buf.mem /\ buf'.mode = buf.mode /\ buf'.max = buf.max /\ buf'.ready = buf.ready
       /\ buf'.evEmpty = buf.evEmpty
  BY <1>1, <1>2, <1>6 DEF Sound, Shape, Formed, IsBuffer, Fields
<1>12. Sound(buf')
  <2>1. buf.ready
    BY <1>1, <1>6, <1>4, <1>7, <1>8, <1>9 DEF Sound, QuietIsEmpty
  <2>2. Pointers(buf')
    BY <1>1, <1>4, <1>6, <1>10, <1>11 DEF Sound, Shape, Formed, Pointers
  <2> QED
    BY <1>1, <1>6, <1>11, <2>1, <2>2 DEF Sound, Shape, Formed, QuietIsEmpty
<1>13. Known(buf', wr, written, torn)
  <2>1. to > wr => rd > wr /\ to >= rd
    BY <1>4, <1>7, <1>9, <1>10 DEF Ahead
  <2> QED
    BY <1>1, <1>4, <1>6, <1>10, <1>11, <2>1, KnownRead
<1>14. taken' \in Nat /\ defrag' \in BOOLEAN
  <2>1. taken' \in Nat
    BY <1>1, <1>2, <1>8, <1>9
  <2>2. defrag' \in BOOLEAN
    BY <1>2, Zenon
  <2> QED
    BY <2>1, <2>2
<1> QED
  BY <1>2, <1>11, <1>12, <1>13, <1>14 DEF IInv

LEMMA ReadEndsKeeps ==
    ASSUME IInv, ReadEnds PROVE IInv'
<1>1. Sound(buf) /\ Known(buf, buf.wr, written, torn) /\ written \in Nat
  BY DEF IInv
<1>2. buf' = Defrag(buf) /\ written' = written /\ taken' = taken /\ torn' = torn /\ defrag' = FALSE
  BY DEF ReadEnds
<1>3. Sound(buf') /\ Known(buf', buf'.wr, written, torn)
  <2>1. CASE buf' = buf
    BY <1>1, <2>1
  <2>2. CASE buf' = Empty(buf)
    <3>1. /\ IsBuffer(buf') /\ QuietIsEmpty(buf')
          /\ buf'.rd = 0 /\ buf'.wr = 0 /\ buf'.ready = FALSE
          /\ buf'.size = buf.size /\ buf'.mem = buf.mem /\ buf'.poke = buf.poke
          /\ buf'.max = buf.max /\ buf'.evEmpty = (buf.evEmpty \/ buf.size # 0)
      BY <1>1, <2>2, EmptyIs DEF Sound, Shape, Formed
    <3>2. buf'.ready \in BOOLEAN /\ buf'.evEmpty \in BOOLEAN
      BY <3>1, Zenon
    <3>3. Pointers(buf')
      BY <1>1, <3>1, SizeIsNat DEF Sound, Shape, Formed, Pointers
    <3>4. Known(buf', 0, written, torn)
      BY <1>1, <3>1, KnownAtZero
    <3> QED
      BY <1>1, <3>1, <3>2, <3>3, <3>4 DEF Sound, Shape, Formed
  <2> QED
    BY <1>2, <2>1, <2>2 DEF Defrag
<1>4. defrag' \in BOOLEAN
  BY <1>2, Zenon
<1> QED
  BY <1>2, <1>3, <1>4 DEF IInv

LEMMA StepIInv == IInv /\ [Next]_vars => IInv'
<1> SUFFICES ASSUME IInv, [Next]_vars PROVE IInv'
  OBVIOUS
<1>1. ASSUME NEW n \in Chunks, Write(n) PROVE IInv'
  BY <1>1, WriteKeeps
<1>2. ASSUME NEW n \in Chunks, WriteFails(n) PROVE IInv'
  BY <1>2, WriteFailsKeeps
<1>3. ASSUME NEW n \in Chunks, Read(n) PROVE IInv'
  BY <1>3, ReadKeeps
<1>4. ASSUME NEW m \in Chunks, NEW n \in Chunks, PokeWrite(m, n) PROVE IInv'
  BY <1>4, PokeWriteKeeps
<1>5. ASSUME NEW m \in Chunks, NEW n \in Chunks, PokeFails(m, n) PROVE IInv'
  BY <1>5, PokeFailsKeeps
<1>6. CASE ReadEnds
  BY <1>6, ReadEndsKeeps
<1>7. CASE UNCHANGED vars
  BY <1>7 DEF IInv, vars
<1> QED
  BY <1>1, <1>2, <1>3, <1>4, <1>5, <1>6, <1>7 DEF Next

-----------------------------------------------------------------------------
(* Counting.                                                                 *)

\* What a reader would get up to the pointer ptr.
ReadTo(b, ptr) == GetMaxRead(b.rd, ptr, b.size)

\* Room for n more bytes, and one except at the start of the ring.
Room(b, n, ptr) == n < Avail(b, ptr) \/ (b.rd = 0 /\ n <= Avail(b, ptr))

\* Where there is room a pointer that advances by n has n bytes more behind it.
LEMMA AdvanceCounts ==
    ASSUME NEW b, b.size \in Nat \ {0}, b.rd \in 0 .. b.size - 1, NEW ptr \in 0 .. b.size,
           NEW n \in Nat \ {0}, Room(b, n, ptr)
    PROVE  ReadTo(b, AdvancePtr(ptr, n, b.size)) = ReadTo(b, ptr) + n
<1> DEFINE size == b.size
           rd == b.rd
           avail == Avail(b, ptr)
           at == AdvancePtr(ptr, n, size)
<1>1. avail = (IF ptr = size THEN IF rd <= 1 THEN 0 ELSE rd
               ELSE IF rd = ptr THEN size
               ELSE IF ptr > rd THEN size - (ptr - rd)
               ELSE IF ptr + 1 = rd THEN 0 ELSE rd - ptr) /\ avail \in 0 .. size
  BY AvailIs
<1>2. n < avail \/ (rd = 0 /\ n <= avail)
  BY DEF Room
<1>3. size \in Nat \ {0} /\ rd \in 0 .. size - 1 /\ ptr \in 0 .. size
  OBVIOUS
<1>4. ReadTo(b, ptr) = GetMaxRead(rd, ptr, size) /\ ReadTo(b, at) = GetMaxRead(rd, at, size)
  BY DEF ReadTo
<1> HIDE DEF size, rd, avail, at
<1>5. ptr + n <= 2 * size
  BY <1>1, <1>2, <1>3
<1>6. at = IF ptr + n <= size THEN ptr + n ELSE IF ptr + n = 2 * size THEN 0 ELSE ptr + n - size
  <2>1. ptr \in Nat /\ n \in Nat
    BY <1>3
  <2> QED
    BY <2>1, <1>3, <1>5, AdvanceIs DEF at
<1>7. at \in 0 .. size
  BY <1>3, <1>5, <1>6
<1>8. /\ GetMaxRead(rd, ptr, size) = IF rd = ptr THEN 0 ELSE IF ptr > rd THEN ptr - rd ELSE size - rd + ptr
      /\ GetMaxRead(rd, at, size) = IF rd = at THEN 0 ELSE IF at > rd THEN at - rd ELSE size - rd + at
  BY <1>3, <1>7, MaxReadIs
<1>9. GetMaxRead(rd, at, size) = GetMaxRead(rd, ptr, size) + n
  BY <1>1, <1>2, <1>3, <1>6, <1>8
<1> QED
  BY <1>4, <1>9 DEF size, at

\* Where there is room nothing is clipped.
LEMMA RoomSuffices ==
    ASSUME NEW b, b.size \in Nat \ {0}, b.rd \in 0 .. b.size - 1, NEW ptr \in 0 .. b.size,
           NEW n \in Nat \ {0}, Room(b, n, ptr)
    PROVE  Clipped(b, n, ptr) = n
<1>1. Avail(b, ptr) \in 0 .. b.size
  BY AvailIs
<1>2. n <= Avail(b, ptr)
  BY <1>1 DEF Room
<1> QED
  BY <1>2, ClippedIs

\* Data moved to the front of a larger ring are as many.
LEMMA FrontReads ==
    ASSUME NEW b, NEW c, b.size \in Nat \ {0}, b.rd \in 0 .. b.size - 1, NEW ptr \in 0 .. b.size,
           NEW to, Front(b, c, ptr, to), c.rd = 0, c.size \in Nat, c.size >= b.size
    PROVE  /\ to = ReadTo(b, ptr) /\ to \in 0 .. b.size
           /\ ReadTo(c, to) = ReadTo(b, ptr)
           /\ \A n \in Nat : c.size > b.size + n => Room(c, n, to)
<1>1. to = ReadTo(b, ptr)
  BY DEF Front, ReadTo
<1>2. to \in 0 .. b.size
  BY <1>1, MaxReadBounded DEF ReadTo
<1>3. ReadTo(c, to) = to
  <2> DEFINE size == c.size
  <2>1. size \in Nat \ {0} /\ to \in 0 .. size
    BY <1>2
  <2>2. ReadTo(c, to) = GetMaxRead(0, to, size)
    BY DEF ReadTo
  <2> HIDE DEF size
  <2>3. GetMaxRead(0, to, size) = to
    BY <2>1 DEF GetMaxRead
  <2> QED
    BY <2>2, <2>3
<1>4. ASSUME NEW n \in Nat, c.size > b.size + n PROVE Room(c, n, to)
  <2>1. c.size \in Nat \ {0} /\ c.rd \in 0 .. c.size - 1 /\ to \in 0 .. c.size
    BY <1>2
  <2>2. Avail(c, to) = IF to = c.size THEN IF c.rd <= 1 THEN 0 ELSE c.rd
                               ELSE IF c.rd = to THEN c.size
                               ELSE IF to > c.rd THEN c.size - (to - c.rd)
                               ELSE IF to + 1 = c.rd THEN 0 ELSE c.rd - to
    BY <2>1, AvailIs
  <2>3. Avail(c, to) > n
    BY <1>2, <1>4, <2>1, <2>2
  <2> QED
    BY <2>3 DEF Room
<1> QED
  BY <1>1, <1>2, <1>3, <1>4

\* A buffer that is prepared for a write has as much to read as before.
LEMMA PreparedReads ==
    ASSUME NEW b, Sound(b), NEW n \in Chunks, NEW from, from = b.wr \/ from = b.poke,
           NEW c, c = Prepared(b, n, from)
    PROVE  /\ c.size \in Nat /\ c.size >= b.size /\ c.mode = b.mode /\ c.max = b.max
           /\ ReadTo(c, c.wr) = ReadTo(b, b.wr)
           /\ ReadTo(c, c.poke) = ReadTo(b, b.poke)
           /\ b.size # 0 => c.ready = b.ready
           /\ b.size = 0 /\ ~b.ready => ~c.ready
           /\ c.evEmpty = b.evEmpty
<1>1. /\ Sound(c) /\ c.mode = b.mode /\ c.max = b.max
      /\ c = b \/ Fresh(b, c) \/ (b.size # 0 /\ c.size # 0 /\ Moved(b, c))
  BY PreparedIs
<1>2. b.size \in Nat /\ c.size \in Nat
  BY <1>1, SizeIsNat DEF Sound
<1>3. CASE c = b
  BY <1>1, <1>2, <1>3
<1>4. CASE Fresh(b, c)
  BY <1>1, <1>2, <1>4 DEF Fresh, ReadTo, GetMaxRead, Sound, Shape, Formed, Pointers
<1>5. CASE b.size # 0 /\ Moved(b, c) /\ c # b
  <2>1. b.size \in Nat \ {0} /\ b.rd \in 0 .. b.size - 1 /\ b.wr \in 0 .. b.size /\ b.poke \in 0 .. b.size
    BY <1>2, <1>5 DEF Sound, Shape, Formed, Pointers
  <2>2. c.size >= b.size
    <3>1. b.mode = "grow" /\ c = EnsureWriteSpace(b, n, from) /\ from \in 0 .. b.size
      BY <1>5, <2>1 DEF Prepared
    <3> QED
      BY <1>5, <3>1, EnsureMoves DEF Sound
  <2>3. c.rd = 0 /\ Front(b, c, b.wr, c.wr) /\ Front(b, c, b.poke, c.poke) /\ c.ready = b.ready
        /\ c.evEmpty = b.evEmpty
    BY <1>5 DEF Moved, Kept
  <2>4. ReadTo(c, c.wr) = ReadTo(b, b.wr)
    BY <1>2, <2>1, <2>2, <2>3, FrontReads
  <2>5. ReadTo(c, c.poke) = ReadTo(b, b.poke)
    BY <1>2, <2>1, <2>2, <2>3, FrontReads
  <2> QED
    BY <1>1, <1>2, <1>5, <2>2, <2>3, <2>4, <2>5
<1> QED
  BY <1>1, <1>3, <1>4, <1>5

\* A buffer that could grow when it was larger could when it was not.
LEMMA CouldGrow ==
    ASSUME NEW b, NEW c, CanGrow(c), b.max = c.max, b.size \in Nat, c.size \in Nat, b.size <= c.size
    PROVE  CanGrow(b)
BY DEF CanGrow, Sizes

\* One that can grow has room when it is prepared.
LEMMA PreparedRoom ==
    ASSUME NEW b, Sound(b), b.mode = "grow", NEW n \in Chunks, NEW from, from = b.wr \/ from = b.poke,
           CanGrow(b), NEW c, c = Prepared(b, n, from)
    PROVE  /\ c.size \in Nat \ {0}
           /\ from = b.wr => Room(c, n, c.wr)
           /\ from = b.poke => Room(c, n, c.poke)
<1>0. n \in Nat /\ n > 0
  BY ChunksArePositive
<1>1. CASE b.size = 0
  <2>1. c = Allocate(b, n) /\ IsBuffer(b) /\ b.max \in MaxSizes
    BY <1>1 DEF Prepared, Sound, Shape, Formed
  <2>2. c.size = Allocated(n) /\ c.rd = 0 /\ c.wr = 0 /\ c.poke = 0
    BY <2>1, AllocateIs, ZenonT(30)
  <2>3. c.size \in Nat \ {0} /\ c.size >= n
    BY <1>0, <2>2, AllocatedFits
  <2>4. Avail(c, 0) = c.size
    BY <2>2, <2>3, AvailIs
  <2>5. Room(c, n, 0)
    BY <2>2, <2>3, <2>4 DEF Room
  <2> QED
    BY <2>2, <2>3, <2>5
<1>2. CASE b.size # 0
  <2>1. b.size \in Nat \ {0} /\ b.rd \in 0 .. b.size - 1 /\ b.wr \in 0 .. b.size /\ b.poke \in 0 .. b.size
    BY <1>2, SizeIsNat DEF Sound, Shape, Formed, Pointers
  <2>2. c = EnsureWriteSpace(b, n, from) /\ from \in 0 .. b.size
    BY <1>2, <2>1 DEF Prepared
  <2>3. b.size \in Sizes \ {0} /\ Grown(b.size, n, b.max) > b.size + n
    BY <2>1 DEF CanGrow, Sound, Shape, Formed
  <2>4. CASE c = b /\ (GetMaxWrite(b.rd, from, b.size) > n \/ Grown(b.size, n, b.max) = b.size)
    <3>1. Grown(b.size, n, b.max) # b.size
      <4> DEFINE g == Grown(b.size, n, b.max)
      <4> HIDE DEF g
      <4>1. g > b.size + n => g # b.size
        BY <1>0, <2>1
      <4> QED
        BY <2>3, <4>1 DEF g
    <3>2. Avail(b, from) > n
      BY <2>4, <3>1 DEF Avail
    <3>3. Room(b, n, from)
      BY <3>2, <1>0, <2>1, <2>2, AvailIs DEF Room
    <3> QED
      BY <2>1, <2>4, <3>3
  <2>5. CASE Shape(c) /\ Moved(b, c) /\ c.size = Grown(b.size, n, b.max) /\ c.size >= b.size
    <3>1. c.size \in Nat \ {0} /\ c.size > b.size + n
      BY <1>0, <2>1, <2>3, <2>5, SizeIsNat
    <3>2. c.rd = 0 /\ Front(b, c, b.wr, c.wr) /\ Front(b, c, b.poke, c.poke)
      BY <2>5 DEF Moved
    <3>3. Room(c, n, c.wr)
      BY <1>0, <2>1, <2>5, <3>1, <3>2, FrontReads
    <3>4. Room(c, n, c.poke)
      BY <1>0, <2>1, <2>5, <3>1, <3>2, FrontReads
    <3> QED
      BY <3>1, <3>3, <3>4
  <2> QED
    BY <1>2, <2>2, <2>4, <2>5, EnsureMoves DEF Sound
<1> QED
  BY <1>1, <1>2

-----------------------------------------------------------------------------
(* The count of a buffer that can grow and whose callers hold its lock.      *)

\* As many bytes as were written and not read are there, and the flag and the
\* events say so.
Matches(b, w, t) ==
    /\ ReadTo(b, b.wr) = w - t
    /\ b.ready <=> w > t
    /\ b.evEmpty <=> 0 < w /\ w = t

\* A buffer without memory has never had a byte.
Unused(b, w, t) == b.size = 0 => w = 0 /\ t = 0 /\ ~b.ready

\* Between Read() and Defrag() the pointers of a full buffer and of an empty one
\* can be the same.
Counted ==
    buf.mode = "grow" /\ callersLock /\ CanGrow(buf) =>
        /\ Unused(buf, written, taken)
        /\ IF defrag /\ buf.rd = NormalizePtr(buf.wr, buf.size) THEN 0 < written /\ written = taken
           ELSE Matches(buf, written, taken)

CountInv == IInv /\ Counted

LEMMA ReadToIsNat == ASSUME NEW b, Sound(b) PROVE ReadTo(b, b.wr) \in Nat
<1> DEFINE size == b.size
           rd == b.rd
           wr == b.wr
<1>1. ReadTo(b, wr) = GetMaxRead(rd, wr, size)
  BY DEF ReadTo
<1>2. size \in Nat /\ (size # 0 => rd \in 0 .. size - 1 /\ wr \in 0 .. size)
  BY SizeIsNat DEF Sound, Shape, Formed, Pointers
<1> HIDE DEF size, rd, wr
<1>3. GetMaxRead(rd, wr, size) \in Nat
  BY <1>2 DEF GetMaxRead
<1> QED
  BY <1>1, <1>3 DEF wr

LEMMA WroteCounts ==
    ASSUME NEW b, Sound(b), b.mode = "grow", b.size # 0, NEW n \in Chunks, Room(b, n, b.wr),
           NEW first \in Nat, NEW c, c = Wrote(b, n, first)
    PROVE  /\ c.mode = b.mode /\ c.max = b.max /\ c.size = b.size /\ c.ready /\ ~c.evEmpty
           /\ ReadTo(c, c.wr) = ReadTo(b, b.wr) + n
           /\ Clipped(b, n, b.wr) = n
<1>1. b.size \in Nat \ {0} /\ b.rd \in 0 .. b.size - 1 /\ b.wr \in 0 .. b.size /\ n \in Nat \ {0}
  BY ChunksArePositive, SizeIsNat DEF Sound, Shape, Formed, Pointers
<1>2. Clipped(b, n, b.wr) = n /\ ReadTo(b, AdvancePtr(b.wr, n, b.size)) = ReadTo(b, b.wr) + n
  BY <1>1, RoomSuffices, AdvanceCounts
<1>3. MakeRoom(b, n, b.wr) = b
  BY DEF MakeRoom
<1> DEFINE mem == Copied(b, Data(first, n), n, b.wr)
           at == AdvancePtr(b.wr, n, b.size)
<1>4. c = [b EXCEPT !.wr = at, !.mem = mem, !.ready = TRUE, !.evEmpty = FALSE]
  BY <1>2, <1>3 DEF Wrote
<1> HIDE DEF mem, at
<1>5. /\ c.mode = b.mode /\ c.max = b.max /\ c.size = b.size /\ c.ready /\ ~c.evEmpty
      /\ c.rd = b.rd /\ c.wr = at
  BY <1>4 DEF Sound, Shape, Formed, IsBuffer, Fields
<1> QED
  BY <1>2, <1>5 DEF ReadTo, at

LEMMA PokedCounts ==
    ASSUME NEW b, Sound(b), b.mode = "grow", b.size # 0, NEW n \in Chunks, Room(b, n, b.poke),
           NEW first \in Nat, NEW c, c = Poked(b, n, first)
    PROVE  /\ c.mode = b.mode /\ c.max = b.max /\ c.size = b.size /\ c.ready = b.ready
           /\ c.evEmpty = b.evEmpty
           /\ ReadTo(c, c.poke) = ReadTo(b, b.poke) + n /\ ReadTo(c, c.wr) = ReadTo(b, b.wr)
           /\ Clipped(b, n, b.poke) = n
<1>1. b.size \in Nat \ {0} /\ b.rd \in 0 .. b.size - 1 /\ b.poke \in 0 .. b.size /\ n \in Nat \ {0}
  BY ChunksArePositive, SizeIsNat DEF Sound, Shape, Formed, Pointers
<1>2. Clipped(b, n, b.poke) = n /\ ReadTo(b, AdvancePtr(b.poke, n, b.size)) = ReadTo(b, b.poke) + n
  BY <1>1, RoomSuffices, AdvanceCounts
<1>3. MakeRoom(b, n, b.poke) = b
  BY DEF MakeRoom
<1> DEFINE mem == Copied(b, Data(first, n), n, b.poke)
           at == AdvancePtr(b.poke, n, b.size)
<1>4. c = [b EXCEPT !.mem = mem, !.poke = at]
  BY <1>2, <1>3 DEF Poked
<1> HIDE DEF mem, at
<1>5. /\ c.mode = b.mode /\ c.max = b.max /\ c.size = b.size /\ c.ready = b.ready
      /\ c.evEmpty = b.evEmpty
      /\ c.rd = b.rd /\ c.wr = b.wr /\ c.poke = at
  BY <1>4 DEF Sound, Shape, Formed, IsBuffer, Fields
<1> QED
  BY <1>2, <1>5 DEF ReadTo, at

\* Buffers from before a step to after it, each no smaller than the last.
Grew(b, c) == c.mode = b.mode /\ c.max = b.max /\ b.size \in Nat /\ c.size \in Nat /\ b.size <= c.size

LEMMA PreparedGrew ==
    ASSUME NEW b, Sound(b), NEW n \in Chunks, NEW from, from = b.wr \/ from = b.poke,
           NEW c, c = Prepared(b, n, from)
    PROVE  Grew(b, c)
<1>1. b.size \in Nat
  BY SizeIsNat DEF Sound
<1> QED
  BY <1>1, PreparedReads DEF Grew

LEMMA GrewCould == ASSUME NEW b, NEW c, Grew(b, c), CanGrow(c) PROVE CanGrow(b)
BY CouldGrow DEF Grew

\* What is there to count when the lock is free.
LEMMA CountedUnlocked ==
    ASSUME Counted, buf.mode = "grow", callersLock, CanGrow(buf), ~defrag
    PROVE  Unused(buf, written, taken) /\ Matches(buf, written, taken)
BY DEF Counted

LEMMA InitCounted == Init => Counted
<1> SUFFICES ASSUME Init PROVE Counted
  OBVIOUS
<1>1. PICK n \in Chunks \cup {0}, mode \in WriteModes, max \in MaxSizes :
        buf = IF n = 0 THEN NoBuffer(mode, max) ELSE Allocate(NoBuffer(mode, max), n)
  BY DEF Init
<1> DEFINE b == NoBuffer(mode, max)
<1>2. Sound(b) /\ ~b.ready /\ ~b.evEmpty /\ b.size = 0 /\ b.rd = 0 /\ b.wr = 0 /\ b.max = max
  BY NoBufferIs
<1>3. buf = IF n = 0 THEN b ELSE Allocate(b, n)
  BY <1>1
<1> HIDE DEF b
<1>4. ~buf.ready /\ ~buf.evEmpty /\ buf.rd = 0 /\ buf.wr = 0
  <2>1. CASE n = 0
    BY <1>2, <1>3, <2>1
  <2>2. CASE n # 0
    <3>1. buf = Allocate(b, n) /\ n \in Chunks /\ IsBuffer(b) /\ b.max \in MaxSizes
      BY <1>1, <1>2, <1>3, <2>2 DEF Sound, Shape, Formed
    <3>2. /\ buf.ready = FALSE /\ buf.rd = 0 /\ buf.wr = 0
          /\ buf.evEmpty = (b.evEmpty \/ b.size # 0)
      BY <3>1, AllocateIs, AllocateSignals
    <3> QED
      BY <1>2, <3>2, Zenon
  <2> QED
    BY <2>1, <2>2
<1>5. written = 0 /\ taken = 0 /\ ~defrag
  BY DEF Init
<1>6. Unused(buf, written, taken)
  BY <1>4, <1>5 DEF Unused
<1>7. ReadTo(buf, buf.wr) = 0
  BY <1>4 DEF ReadTo, GetMaxRead
<1>8. Matches(buf, written, taken)
  <2>1. written - taken = 0 /\ ~(written > taken) /\ ~(0 < written)
    BY <1>5
  <2> QED
    BY <1>4, <1>7, <2>1 DEF Matches
<1> QED
  BY <1>5, <1>6, <1>8 DEF Counted

LEMMA WriteCounts ==
    ASSUME CountInv, NEW n \in Chunks, Write(n) PROVE Counted'
<1> SUFFICES ASSUME buf'.mode = "grow", callersLock, CanGrow(buf')
             PROVE  Unused(buf', written', taken') /\ Matches(buf', written', taken') /\ ~defrag'
  BY DEF Write, Counted, Unlocked
<1>1. PICK b : b = Prepared(buf, n, buf.wr)
  OBVIOUS
<1>2. PICK k : k = Clipped(b, n, b.wr)
  OBVIOUS
<1>3. /\ buf' = Wrote(b, n, written) /\ written' = written + k /\ taken' = taken
      /\ ~defrag /\ ~defrag' /\ b.size > 0
  BY <1>1, <1>2 DEF Write, Wrote, Records, Unlocked
<1>4. Sound(buf) /\ Counted /\ written \in Nat /\ taken \in Nat
  BY DEF CountInv, IInv
<1>5. /\ Sound(b) /\ Grew(buf, b) /\ ReadTo(b, b.wr) = ReadTo(buf, buf.wr)
  BY <1>1, <1>4, PreparedIs, PreparedGrew, PreparedReads
<1>6. buf'.mode = b.mode /\ buf'.max = b.max /\ buf'.size = b.size
  <2>1. IsBuffer(MakeRoom(b, n, b.wr)) /\ MakeRoom(b, n, b.wr).size = b.size
        /\ MakeRoom(b, n, b.wr).mode = b.mode /\ MakeRoom(b, n, b.wr).max = b.max
    <3> DEFINE size == b.size
               rd == b.rd
               from == b.wr
               room == MakeRoom(b, n, from)
    <3>1. /\ size = b.size /\ size # 0 /\ rd = b.rd /\ from \in 0 .. size /\ n \in Nat
          /\ Shape(b) /\ QuietIsEmpty(b) /\ room = MakeRoom(b, n, from)
      BY <1>3, <1>5, ChunksArePositive DEF Sound, Shape, Formed, Pointers
    <3> HIDE DEF size, rd, room
    <3>2. Taken(b, room)
      BY <3>1, MakeRoomTakes DEF Shape
    <3> QED
      BY <3>2 DEF Taken, room
  <2> QED
    BY <1>3, <2>1 DEF Wrote, IsBuffer, Fields
<1>7. b.mode = "grow" /\ Grew(b, buf')
  BY <1>5, <1>6 DEF Grew
<1>8. CanGrow(b) /\ CanGrow(buf) /\ buf.mode = "grow"
  BY <1>5, <1>7, GrewCould DEF Grew
<1>9. Unused(buf, written, taken) /\ Matches(buf, written, taken)
  BY <1>3, <1>4, <1>8, CountedUnlocked
<1>10. Room(b, n, b.wr) /\ b.size # 0
  <2>1. b.size \in Nat \ {0} /\ (buf.wr = buf.wr => Room(b, n, b.wr))
    BY <1>1, <1>4, <1>8, PreparedRoom
  <2> QED
    BY <2>1
<1>11. buf'.ready /\ ~buf'.evEmpty /\ ReadTo(buf', buf'.wr) = ReadTo(b, b.wr) + n /\ k = n
  BY <1>2, <1>3, <1>4, <1>5, <1>7, <1>10, WroteCounts
<1>12. n \in Nat \ {0}
  BY ChunksArePositive
<1>13. Matches(buf', written', taken')
  <2>1. ReadTo(b, b.wr) = written - taken /\ (buf.ready <=> written > taken)
    BY <1>5, <1>9 DEF Matches
  <2>2. written - taken \in Nat
    <3>1. ReadTo(buf, buf.wr) \in Nat
      BY <1>4, ReadToIsNat
    <3> QED
      BY <1>5, <2>1, <3>1
  <2>3. written' - taken' = (written - taken) + n /\ written' > taken' /\ written' # taken'
    BY <1>3, <1>4, <1>11, <1>12, <2>2
  <2> QED
    BY <1>11, <2>1, <2>3 DEF Matches
<1>14. Unused(buf', written', taken')
  BY <1>6, <1>10 DEF Unused
<1> QED
  BY <1>3, <1>13, <1>14

\* A step from o to c that changes neither the count nor the flag nor an event.
Keeps(o, c) ==
    /\ Grew(o, c)
    /\ ReadTo(c, c.wr) = ReadTo(o, o.wr)
    /\ o.size # 0 => c.ready = o.ready
    /\ o.size = 0 /\ ~o.ready => ~c.ready
    /\ c.evEmpty = o.evEmpty

LEMMA KeptCounts ==
    ASSUME NEW o, NEW c, Keeps(o, c), NEW w, NEW t, Unused(o, w, t), Matches(o, w, t)
    PROVE  Unused(c, w, t) /\ Matches(c, w, t)
BY DEF Keeps, Grew, Unused, Matches

PokeKept(b, c) == ReadTo(c, c.poke) = ReadTo(b, b.poke)

LEMMA PreparedPoke ==
    ASSUME NEW b, Sound(b), NEW n \in Chunks, NEW from, from = b.wr \/ from = b.poke,
           NEW c, c = Prepared(b, n, from)
    PROVE  PokeKept(b, c)
BY PreparedReads DEF PokeKept

LEMMA PreparedKeeps ==
    ASSUME NEW b, Sound(b), NEW n \in Chunks, NEW from, from = b.wr \/ from = b.poke,
           NEW c, c = Prepared(b, n, from)
    PROVE  Keeps(b, c)
<1>1. Grew(b, c)
  BY PreparedGrew
<1>2. /\ ReadTo(c, c.wr) = ReadTo(b, b.wr)
      /\ b.size # 0 => c.ready = b.ready
      /\ b.size = 0 /\ ~b.ready => ~c.ready
      /\ c.evEmpty = b.evEmpty
  BY PreparedReads
<1> QED
  BY <1>1, <1>2 DEF Keeps

\* The room for the first part of a poke, which InitPoke() moved to the write pointer.
LEMMA PokeBeginCounts ==
    ASSUME NEW o, Sound(o), NEW a, a = [o EXCEPT !.poke = o.wr], NEW m \in Chunks,
           NEW b, b = Prepared(a, m, o.wr)
    PROVE  /\ Sound(b) /\ Keeps(o, b)
           /\ ReadTo(b, b.poke) = ReadTo(o, o.wr)
           /\ o.mode = "grow" /\ CanGrow(o) => b.size # 0 /\ Room(b, m, b.poke)
<1>1. /\ IsBuffer(a) /\ a.size = o.size /\ a.rd = o.rd /\ a.wr = o.wr /\ a.poke = o.wr
      /\ a.mem = o.mem /\ a.mode = o.mode /\ a.max = o.max /\ a.ready = o.ready
      /\ a.evEmpty = o.evEmpty
  BY DEF Sound, Shape, Formed, IsBuffer, Fields
<1>2. Sound(a)
  BY <1>1 DEF Sound, Shape, Formed, Pointers, QuietIsEmpty
<1>3. b = Prepared(a, m, a.poke)
  BY <1>1
<1> HIDE DEF Prepared
<1>4. Sound(b)
  BY <1>2, <1>3, PreparedIs, ZenonT(30)
<1>5. Keeps(a, b)
  BY <1>2, <1>3, PreparedKeeps, ZenonT(30)
<1>6. Keeps(o, b)
  BY <1>1, <1>5 DEF Keeps, Grew, ReadTo
<1>7. PokeKept(a, b)
  BY <1>2, <1>3, PreparedPoke, ZenonT(30)
<1>8. ASSUME o.mode = "grow", CanGrow(o) PROVE b.size # 0 /\ Room(b, m, b.poke)
  <2>1. CanGrow(a) /\ a.mode = "grow"
    BY <1>1, <1>8 DEF CanGrow
  <2>2. b.size \in Nat \ {0} /\ (a.poke = a.poke => Room(b, m, b.poke))
    BY <1>2, <1>3, <2>1, PreparedRoom, ZenonT(30)
  <2> QED
    BY <2>2
<1> QED
  BY <1>1, <1>4, <1>6, <1>7, <1>8 DEF ReadTo, PokeKept

LEMMA WriteFailsCounts ==
    ASSUME CountInv, NEW n \in Chunks, WriteFails(n) PROVE Counted'
<1> SUFFICES ASSUME buf'.mode = "grow", callersLock, CanGrow(buf')
             PROVE  Unused(buf', written', taken') /\ Matches(buf', written', taken') /\ ~defrag'
  BY DEF WriteFails, Counted, Unlocked
<1>1. /\ buf' = Prepared(buf, n, buf.wr) /\ written' = written /\ taken' = taken
      /\ ~defrag /\ ~defrag'
  BY DEF WriteFails, Unlocked
<1>2. Sound(buf) /\ Counted
  BY DEF CountInv, IInv
<1>3. Keeps(buf, buf')
  BY <1>1, <1>2, PreparedKeeps
<1>4. CanGrow(buf) /\ buf.mode = "grow"
  BY <1>3, GrewCould DEF Keeps, Grew
<1>5. Unused(buf, written, taken) /\ Matches(buf, written, taken)
  BY <1>1, <1>2, <1>4, CountedUnlocked
<1>6. Unused(buf', written, taken) /\ Matches(buf', written, taken)
  BY <1>3, <1>5, KeptCounts
<1> QED
  BY <1>1, <1>6

LEMMA PokeWriteCounts ==
    ASSUME CountInv, NEW m \in Chunks, NEW n \in Chunks, PokeWrite(m, n) PROVE Counted'
<1> SUFFICES ASSUME buf'.mode = "grow", callersLock, CanGrow(buf')
             PROVE  Unused(buf', written', taken') /\ Matches(buf', written', taken') /\ ~defrag'
  BY Zenon DEF PokeWrite, Counted, Unlocked
<1>1. PICK a : a = [buf EXCEPT !.poke = buf.wr]
  OBVIOUS
<1>2. PICK b : b = Prepared(a, m, buf.wr)
  OBVIOUS
<1>3. PICK j : j = Clipped(b, m, b.poke)
  OBVIOUS
<1>4. PICK c : c = Poked(b, m, written)
  OBVIOUS
<1>5. PICK d : d = Prepared(c, n, c.poke)
  OBVIOUS
<1>6. PICK k : k = Clipped(d, n, d.poke)
  OBVIOUS
<1>7. PICK e : e = Poked(d, n, written + j)
  OBVIOUS
<1>8. /\ j > 0 /\ k > 0
      /\ buf' = [e EXCEPT !.wr = e.poke, !.ready = @ \/ e.wr # e.poke,
                         !.evEmpty = @ /\ e.wr = e.poke]
      /\ written' = written + j + k /\ taken' = taken /\ ~defrag /\ ~defrag'
  BY <1>1, <1>2, <1>3, <1>4, <1>5, <1>6, <1>7, ZenonT(30) DEF PokeWrite, Unlocked
<1>9. Sound(buf) /\ Counted /\ written \in Nat /\ taken \in Nat /\ m \in Nat \ {0} /\ n \in Nat \ {0}
  BY ChunksArePositive DEF CountInv, IInv
<1>10. /\ Sound(b) /\ Keeps(buf, b) /\ ReadTo(b, b.poke) = ReadTo(buf, buf.wr)
       /\ buf.mode = "grow" /\ CanGrow(buf) => b.size # 0 /\ Room(b, m, b.poke)
  BY <1>1, <1>2, <1>9, PokeBeginCounts
<1>11. /\ Sound(c) /\ j \in Nat \ {0} /\ b.size # 0
       /\ c.size = b.size /\ c.mode = b.mode /\ c.max = b.max
  BY <1>3, <1>4, <1>8, <1>9, <1>10, PokedIs
<1>12. Sound(d) /\ Grew(c, d) /\ ReadTo(d, d.poke) = ReadTo(c, c.poke)
  BY <1>5, <1>11, PreparedIs, PreparedGrew, PreparedReads
<1>13. written + j \in Nat
  BY <1>9, <1>11
<1>14. Sound(e) /\ e.size = d.size /\ e.mode = d.mode /\ e.max = d.max /\ d.size # 0
  BY <1>6, <1>7, <1>8, <1>12, <1>13, PokedIs
<1>15. /\ buf'.size = e.size /\ buf'.rd = e.rd /\ buf'.wr = e.poke
       /\ buf'.max = e.max /\ buf'.mode = e.mode
       /\ buf'.ready = (e.ready \/ e.wr # e.poke)
       /\ buf'.evEmpty = (e.evEmpty /\ e.wr = e.poke)
  BY <1>8, <1>14 DEF Sound, Shape, Formed, IsBuffer, Fields
<1>16. Grew(b, c) /\ Grew(d, buf')
  BY <1>10, <1>11, <1>12, <1>14, <1>15 DEF Keeps, Grew
<1>17. CanGrow(d) /\ CanGrow(c) /\ CanGrow(b) /\ CanGrow(buf)
  BY <1>10, <1>12, <1>16, GrewCould DEF Keeps
<1>18. d.mode = "grow" /\ c.mode = "grow" /\ b.mode = "grow" /\ buf.mode = "grow"
  BY <1>10, <1>12, <1>16 DEF Keeps, Grew
<1>19. Unused(buf, written, taken) /\ Matches(buf, written, taken)
  BY <1>8, <1>9, <1>17, <1>18, CountedUnlocked
<1>20. j = m /\ ReadTo(c, c.poke) = ReadTo(b, b.poke) + m
  BY <1>3, <1>4, <1>9, <1>10, <1>17, <1>18, PokedCounts
<1>21. Room(d, n, d.poke)
  <2>1. c.poke = c.poke => Room(d, n, d.poke)
    BY <1>5, <1>11, <1>17, <1>18, PreparedRoom
  <2> QED
    BY <2>1
<1>22. k = n /\ ReadTo(e, e.poke) = ReadTo(d, d.poke) + n
  BY <1>6, <1>7, <1>12, <1>13, <1>14, <1>18, <1>21, PokedCounts
<1>23. ReadTo(buf', buf'.wr) = ReadTo(e, e.poke)
  BY <1>15 DEF ReadTo
<1>24. ReadTo(buf, buf.wr) = written - taken /\ ReadTo(buf, buf.wr) \in Nat
  BY <1>9, <1>19, ReadToIsNat DEF Matches
<1>25. /\ ReadTo(e, e.poke) = written' - taken' /\ ReadTo(e, e.poke) > 0
       /\ written' > taken' /\ written' # taken'
  BY <1>8, <1>9, <1>10, <1>12, <1>20, <1>22, <1>24
<1>26. buf'.ready /\ ~buf'.evEmpty
  <2>1. ASSUME ~e.ready, e.wr = e.poke PROVE FALSE
    <3>1. e.rd = e.poke
      BY <1>14, <2>1 DEF Sound, QuietIsEmpty
    <3>2. ReadTo(e, e.poke) = 0
      BY <3>1 DEF ReadTo, GetMaxRead
    <3> QED
      BY <1>25, <3>2
  <2>2. c.ready = b.ready /\ c.evEmpty = b.evEmpty
    BY <1>3, <1>4, <1>9, <1>10, <1>17, <1>18, PokedCounts
  <2>3. Keeps(c, d) /\ c.size # 0
    BY <1>5, <1>11, PreparedKeeps
  <2>4. e.ready = d.ready /\ e.evEmpty = d.evEmpty
    BY <1>6, <1>7, <1>12, <1>13, <1>14, <1>18, <1>21, PokedCounts
  <2>5. b.evEmpty = buf.evEmpty /\ (~buf.ready => ~b.ready)
    <3>1. buf.size # 0 => b.ready = buf.ready
      BY <1>10 DEF Keeps
    <3>2. buf.size = 0 /\ ~buf.ready => ~b.ready
      BY <1>10 DEF Keeps
    <3>3. b.evEmpty = buf.evEmpty
      BY <1>10 DEF Keeps
    <3> QED
      BY <3>1, <3>2, <3>3, Zenon
  <2>6. e.evEmpty = buf.evEmpty /\ (~buf.ready => ~e.ready)
    BY <2>2, <2>3, <2>4, <2>5, Zenon DEF Keeps
  <2>7. buf.ready => ~buf.evEmpty
    BY <1>9, <1>19 DEF Matches
  <2> QED
    BY <1>15, <2>1, <2>6, <2>7, Zenon
<1>27. Matches(buf', written', taken')
  BY <1>23, <1>25, <1>26 DEF Matches
<1>28. Unused(buf', written', taken')
  BY <1>14, <1>15 DEF Unused
<1> QED
  BY <1>8, <1>27, <1>28

LEMMA PokeFailsCounts ==
    ASSUME CountInv, NEW m \in Chunks, NEW n \in Chunks, PokeFails(m, n) PROVE Counted'
<1> SUFFICES ASSUME buf'.mode = "grow", callersLock, CanGrow(buf')
             PROVE  Unused(buf', written', taken') /\ Matches(buf', written', taken') /\ ~defrag'
  BY DEF PokeFails, Counted, Unlocked
<1>1. PICK a : a = [buf EXCEPT !.poke = buf.wr]
  OBVIOUS
<1>2. PICK b : b = Prepared(a, m, buf.wr)
  OBVIOUS
<1>3. PICK j : j = Clipped(b, m, b.poke)
  OBVIOUS
<1>4. PICK c : c = Poked(b, m, written)
  OBVIOUS
<1>5. PICK d : d = Prepared(c, n, c.poke)
  OBVIOUS
<1>6. /\ buf' = b \/ (j > 0 /\ buf' = d)
      /\ written' = written /\ taken' = taken /\ ~defrag /\ ~defrag'
  BY <1>1, <1>2, <1>3, <1>4, <1>5 DEF PokeFails, Unlocked
<1>7. Sound(buf) /\ Counted /\ written \in Nat /\ taken \in Nat
  BY DEF CountInv, IInv
<1>8. /\ Sound(b) /\ Keeps(buf, b)
      /\ buf.mode = "grow" /\ CanGrow(buf) => b.size # 0 /\ Room(b, m, b.poke)
  BY <1>1, <1>2, <1>7, PokeBeginCounts
<1>9. ASSUME CanGrow(b), b.mode = "grow" PROVE Unused(b, written, taken) /\ Matches(b, written, taken)
  <2>1. CanGrow(buf) /\ buf.mode = "grow"
    BY <1>8, <1>9, GrewCould DEF Keeps, Grew
  <2>2. Unused(buf, written, taken) /\ Matches(buf, written, taken)
    BY <1>6, <1>7, <2>1, CountedUnlocked
  <2> QED
    BY <1>8, <2>2, KeptCounts
<1>10. CASE buf' = b
  BY <1>6, <1>9, <1>10
<1>11. CASE j > 0 /\ buf' = d
  <2>1. /\ Sound(c) /\ b.size # 0
        /\ c.size = b.size /\ c.mode = b.mode /\ c.max = b.max
    BY <1>3, <1>4, <1>7, <1>8, <1>11, PokedIs
  <2>2. Keeps(c, d)
    BY <1>5, <2>1, PreparedKeeps
  <2>3. Grew(b, c)
    BY <1>8, <2>1 DEF Keeps, Grew
  <2>4. CanGrow(c) /\ CanGrow(b) /\ b.mode = "grow" /\ CanGrow(buf) /\ buf.mode = "grow"
    BY <1>8, <1>11, <2>2, <2>3, GrewCould DEF Keeps, Grew
  <2>5. ReadTo(c, c.wr) = ReadTo(b, b.wr) /\ c.ready = b.ready /\ c.evEmpty = b.evEmpty
    BY <1>4, <1>7, <1>8, <2>4, PokedCounts
  <2>6. Keeps(b, c)
    BY <2>3, <2>1, <2>5 DEF Keeps
  <2>7. Unused(c, written, taken) /\ Matches(c, written, taken)
    BY <1>9, <2>4, <2>6, KeptCounts
  <2>8. Unused(d, written, taken) /\ Matches(d, written, taken)
    BY <2>2, <2>7, KeptCounts
  <2> QED
    BY <1>6, <1>11, <2>8
<1> QED
  BY <1>6, <1>10, <1>11

LEMMA ReadCounts ==
    ASSUME CountInv, NEW n \in Chunks, Read(n) PROVE Counted'
<1> DEFINE size == buf.size
           rd == buf.rd
           wr == buf.wr
           has == Readable(buf)
           k == Lesser(n, has)
           to == NormalizePtr(AdvancePtr(rd, k, size), size)
           end == NormalizePtr(wr, size)
<1>1. Sound(buf) /\ Counted /\ written \in Nat /\ taken \in Nat
  BY DEF CountInv, IInv
<1>2. /\ k > 0
      /\ buf' = [buf EXCEPT !.rd = to]
      /\ taken' = taken + k /\ ~defrag /\ defrag' /\ written' = written /\ callersLock' = callersLock
  BY DEF Read
<1>3. size # 0
  <2>1. size = 0 => has = 0
    BY DEF Readable, GetMaxRead
  <2>2. n \in Nat
    BY ChunksArePositive
  <2> HIDE DEF has
  <2> QED
    BY <1>2, <2>1, <2>2 DEF Lesser
<1>4. size \in Nat \ {0} /\ rd \in 0 .. size - 1 /\ wr \in 0 .. size
  BY <1>1, <1>3, SizeIsNat DEF Sound, Shape, Formed, Pointers
<1>5. has = GetMaxRead(rd, wr, size) /\ has = ReadTo(buf, wr)
  BY DEF Readable, ReadTo
<1>6. buf.size = size /\ buf.rd = rd /\ buf.wr = wr
  OBVIOUS
<1> HIDE DEF size, rd, wr, has
<1>7. has = IF rd = wr THEN 0 ELSE IF wr > rd THEN wr - rd ELSE size - rd + wr
  BY <1>4, <1>5, MaxReadIs
<1>8. has \in 0 .. size /\ n \in Nat
  BY <1>4, <1>7, ChunksArePositive
<1>9. k \in 1 .. has
  BY <1>2, <1>8 DEF Lesser
<1> HIDE DEF k
<1>10. to = Ahead(rd, k, size) /\ to \in 0 .. size - 1
  <2>1. k \in 0 .. size + 1
    BY <1>4, <1>8, <1>9
  <2> QED
    BY <1>4, <2>1, AheadIs
<1>11. end = IF wr = size THEN 0 ELSE wr
  BY <1>4, NormalizeIs
<1> HIDE DEF to, end
<1>12. /\ buf'.size = size /\ buf'.rd = to /\ buf'.wr = wr
       /\ buf'.mode = buf.mode /\ buf'.max = buf.max /\ buf'.ready = buf.ready
       /\ buf'.evEmpty = buf.evEmpty
  BY <1>1, <1>2, <1>6 DEF Sound, Shape, Formed, IsBuffer, Fields
<1>13. to = end => k = has
  BY <1>4, <1>7, <1>9, <1>10, <1>11 DEF Ahead
<1>14. to # end => GetMaxRead(to, wr, size) = has - k /\ k < has
  <2>1. GetMaxRead(to, wr, size) = IF to = wr THEN 0 ELSE IF wr > to THEN wr - to ELSE size - to + wr
    BY <1>4, <1>10, MaxReadIs
  <2> QED
    BY <1>4, <1>7, <1>9, <1>10, <1>11, <2>1 DEF Ahead
<1>15. SUFFICES ASSUME buf.mode = "grow", callersLock, CanGrow(buf)
                PROVE  /\ Unused(buf', written', taken')
                       /\ IF to = end THEN 0 < written' /\ written' = taken' ELSE Matches(buf', written', taken')
  <2>1. CanGrow(buf') => CanGrow(buf)
    BY <1>6, <1>12 DEF CanGrow
  <2>2. end = NormalizePtr(buf'.wr, buf'.size)
    BY <1>12 DEF end
  <2> QED
    BY <1>2, <1>12, <2>1, <2>2, Zenon DEF Counted
<1>16. Unused(buf, written, taken) /\ Matches(buf, written, taken)
  BY <1>1, <1>2, <1>15, CountedUnlocked
<1>17. /\ has = written - taken
       /\ buf.ready <=> written > taken
       /\ buf.evEmpty <=> 0 < written /\ written = taken
  BY <1>5, <1>6, <1>16 DEF Matches
<1>18. Unused(buf', written', taken')
  BY <1>3, <1>12 DEF Unused
<1>19. to = end => 0 < written' /\ written' = taken'
  BY <1>1, <1>2, <1>8, <1>9, <1>13, <1>17
<1>20. to # end => Matches(buf', written', taken')
  <2>1. to # end => /\ written' > taken' /\ written > taken /\ written' - taken' = has - k
                    /\ written' # taken' /\ written # taken
    BY <1>1, <1>2, <1>8, <1>9, <1>14, <1>17
  <2>2. ReadTo(buf', buf'.wr) = GetMaxRead(to, wr, size)
    BY <1>12 DEF ReadTo
  <2> QED
    BY <1>12, <1>14, <1>17, <2>1, <2>2 DEF Matches
<1> QED
  BY <1>18, <1>19, <1>20

LEMMA ReadEndsCounts ==
    ASSUME CountInv, ReadEnds PROVE Counted'
<1>1. Sound(buf) /\ Counted /\ written \in Nat /\ taken \in Nat
  BY DEF CountInv, IInv
<1>2. /\ buf' = IF buf.rd = NormalizePtr(buf.wr, buf.size) THEN Empty(buf) ELSE buf
      /\ defrag /\ ~defrag' /\ written' = written /\ taken' = taken /\ callersLock' = callersLock
  BY DEF ReadEnds, Defrag
<1>3. CASE buf.rd = NormalizePtr(buf.wr, buf.size)
  <2>1. /\ buf'.rd = 0 /\ buf'.wr = 0 /\ ~buf'.ready
        /\ buf'.evEmpty = (buf.evEmpty \/ buf.size # 0)
        /\ buf'.size = buf.size /\ buf'.mode = buf.mode /\ buf'.max = buf.max
    <3>1. buf' = Empty(buf)
      BY <1>2, <1>3
    <3> QED
      BY <1>1, <3>1, EmptyIs DEF Sound, Shape, Formed
  <2>2. SUFFICES ASSUME buf.mode = "grow", callersLock, CanGrow(buf)
                 PROVE  Unused(buf', written', taken') /\ Matches(buf', written', taken')
    <3>1. CanGrow(buf') => CanGrow(buf)
      BY <2>1 DEF CanGrow
    <3> QED
      BY <1>2, <2>1, <3>1 DEF Counted
  <2>3. Unused(buf, written, taken) /\ 0 < written /\ written = taken
    BY <1>1, <1>2, <1>3, <2>2 DEF Counted
  <2>4. ReadTo(buf', buf'.wr) = 0
    BY <2>1 DEF ReadTo, GetMaxRead
  <2>5. written' - taken' = 0 /\ ~(written' > taken') /\ 0 < written' /\ written' = taken'
    BY <1>1, <1>2, <2>3
  <2>6. buf'.evEmpty
    <3>1. buf.size # 0
      BY <1>1, <2>3 DEF Unused
    <3> QED
      BY <2>1, <3>1, Zenon
  <2> QED
    BY <1>2, <2>1, <2>3, <2>4, <2>5, <2>6 DEF Unused, Matches
<1>4. CASE buf.rd # NormalizePtr(buf.wr, buf.size)
  <2>1. buf' = buf
    BY <1>2, <1>4
  <2>2. ASSUME buf.mode = "grow", callersLock, CanGrow(buf)
        PROVE  Unused(buf, written, taken) /\ Matches(buf, written, taken)
    BY <1>1, <1>4, <2>2 DEF Counted
  <2> QED
    BY <1>2, <2>1, <2>2 DEF Counted
<1> QED
  BY <1>3, <1>4

LEMMA StepCountInv == CountInv /\ [Next]_vars => CountInv'
<1> SUFFICES ASSUME CountInv, [Next]_vars PROVE IInv' /\ Counted'
  BY DEF CountInv
<1>1. IInv'
  BY StepIInv DEF CountInv
<1>2. ASSUME NEW n \in Chunks, Write(n) PROVE Counted'
  BY <1>2, WriteCounts
<1>3. ASSUME NEW n \in Chunks, WriteFails(n) PROVE Counted'
  BY <1>3, WriteFailsCounts
<1>4. ASSUME NEW n \in Chunks, Read(n) PROVE Counted'
  BY <1>4, ReadCounts
<1>5. ASSUME NEW m \in Chunks, NEW n \in Chunks, PokeWrite(m, n) PROVE Counted'
  BY <1>5, PokeWriteCounts
<1>6. ASSUME NEW m \in Chunks, NEW n \in Chunks, PokeFails(m, n) PROVE Counted'
  BY <1>6, PokeFailsCounts
<1>7. CASE ReadEnds
  BY <1>1, <1>7, ReadEndsCounts
<1>8. CASE UNCHANGED vars
  BY <1>1, <1>8 DEF CountInv, Counted, CanGrow, vars
<1> QED
  BY <1>1, <1>2, <1>3, <1>4, <1>5, <1>6, <1>7, <1>8 DEF Next

-----------------------------------------------------------------------------
(* The theorems.                                                             *)

LEMMA Soundness == Spec => []IInv
BY InitIInv, StepIInv, PTL DEF Spec

\* The pointers of a buffer, in any mode and whatever order its functions are
\* called in, stay where the next call can use them: the read pointer below the
\* size, the write pointer at most at it, and no byte of the ring gets lost.
THEOREM TypeIsRight == Spec => []TypeOK
<1>1. IInv => TypeOK
  <2> SUFFICES ASSUME IInv PROVE TypeOK
    OBVIOUS
  <2>1. /\ Shape(buf) /\ buf.size \in Nat
        /\ written \in Nat /\ taken \in Nat /\ defrag \in BOOLEAN /\ torn \subseteq 1 .. written
    BY SizeIsNat DEF IInv, Sound
  <2>2. buf.poke \in Nat
    BY <2>1 DEF Shape, Formed, Pointers
  <2>3. buf.ready \in BOOLEAN /\ buf.evEmpty \in BOOLEAN
    BY <2>1 DEF Shape, Formed
  <2>4. DOMAIN buf.mem = 0 .. buf.size - 1
    BY <2>1 DEF Shape, Formed
  <2>5. IF buf.size = 0 THEN buf.rd = 0 /\ buf.wr = 0
        ELSE buf.rd \in 0 .. buf.size - 1 /\ buf.wr \in 0 .. buf.size
    BY <2>1 DEF Shape, Formed, Pointers
  <2> QED
    BY <2>1, <2>2, <2>3, <2>4, <2>5 DEF TypeOK
<1> QED
  BY Soundness, <1>1, PTL

\* A byte of what a reader would get is at the place its number says.
LEMMA ContentIs ==
    ASSUME NEW b, Sound(b), NEW last \in Nat, NEW lost, Known(b, b.wr, last, lost),
           NEW i \in 1 .. Readable(b),
           last - Readable(b) + i \notin lost
    PROVE  Content(b)[i] = last - Readable(b) + i
<1> DEFINE size == b.size
           rd == b.rd
           wr == b.wr
           has == Readable(b)
           p == rd + i - 1
           byte == last - has + i
<1>1. has = GetMaxRead(rd, wr, size)
  BY DEF Readable
<1>2. size # 0
  <2>1. size = 0 => has = 0
    BY <1>1 DEF GetMaxRead
  <2> HIDE DEF has, size
  <2>2. i \in 1 .. has
    BY DEF has
  <2> QED
    BY <2>1, <2>2
<1>3. size \in Nat \ {0} /\ rd \in 0 .. size - 1 /\ wr \in 0 .. size
  BY <1>2, SizeIsNat DEF Sound, Shape, Formed, Pointers
<1>4. i \in 1 .. has /\ byte \notin lost
  OBVIOUS
<1>5. Content(b)[i] = b.mem[p % size]
  BY DEF Content
<1>6. b.rd = rd /\ b.size = size /\ Known(b, wr, last, lost)
  OBVIOUS
<1> HIDE DEF size, rd, wr, has, byte
<1>7. has = IF rd = wr THEN 0 ELSE IF wr > rd THEN wr - rd ELSE size - rd + wr
  BY <1>1, <1>3, MaxReadIs
<1>8. p \in Nat /\ p < 2 * size /\ p >= rd
  BY <1>3, <1>4, <1>7
<1> HIDE DEF p
<1>9. p % size = IF p < size THEN p ELSE p - size
  BY <1>3, <1>8, Wraps
<1>10. CASE wr > rd
  <2>1. p \in 0 .. wr - 1 /\ p < size /\ last - (wr - 1 - p) = byte
    BY <1>3, <1>4, <1>7, <1>8, <1>10 DEF p, byte
  <2>2. Holds(b, p, last - (wr - 1 - p), lost)
    BY <1>6, <2>1 DEF Known, FrontHolds
  <2> QED
    BY <1>4, <1>5, <1>9, <2>1, <2>2 DEF Holds, byte, has
<1>11. CASE wr < rd /\ p < size
  <2>1. p \in rd .. size - 1 /\ last - (wr + size - 1 - p) = byte
    BY <1>3, <1>4, <1>7, <1>8, <1>11 DEF p, byte
  <2>2. Holds(b, p, last - (wr + size - 1 - p), lost)
    BY <1>6, <1>11, <2>1, <1>3 DEF Known, BackHolds
  <2> QED
    BY <1>4, <1>5, <1>9, <1>11, <2>1, <2>2 DEF Holds, byte, has
<1>12. CASE wr < rd /\ ~(p < size)
  <2>1. p - size \in 0 .. wr - 1 /\ last - (wr - 1 - (p - size)) = byte
    BY <1>3, <1>4, <1>7, <1>8, <1>12 DEF p, byte
  <2>2. Holds(b, p - size, last - (wr - 1 - (p - size)), lost)
    BY <1>6, <2>1 DEF Known, FrontHolds
  <2> QED
    BY <1>4, <1>5, <1>9, <1>12, <2>1, <2>2 DEF Holds, byte, has
<1> QED
  BY <1>3, <1>4, <1>7, <1>10, <1>11, <1>12

\* Whatever was written, read, grown, overwritten and poked, in any order, a
\* reader's next bytes are the latest written, in order and without a gap, but
\* for the ones that CCircBuf is known to lose: those whose write began with the
\* pointer at the size, and the oldest under a packet that was not finished.
THEOREM LatestAreRead == Spec => []LatestBytes
<1>1. IInv => LatestBytes
  BY ContentIs DEF IInv, LatestBytes
<1> QED
  BY Soundness, <1>1, PTL

\* A buffer that grows as it needs to, and whose callers hold its lock over a
\* call, has every byte that was written and not read, and its flag is right; so
\* is m_evDataReady, and m_evEmpty once there have been data.
THEOREM CountIsRight == Spec => []CountMatches
<1>1. Init => CountInv
  BY InitIInv, InitCounted DEF CountInv
<1>2. CountInv => CountMatches
  BY DEF CountInv, Counted, Matches, ReadTo, Readable, CountMatches
<1> QED
  BY <1>1, StepCountInv, <1>2, PTL DEF Spec

\* Between any two calls of the buffer's functions, and between a Read() and its
\* Defrag(), a reader who looks at the flag or waits for the event is told of the
\* data there is: growing, overwriting, poking and emptying included.
THEOREM DataIsNeverHidden == Spec => []DataIsAnnounced
<1>1. IInv => DataIsAnnounced
  BY DEF IInv, Sound, QuietIsEmpty, DataIsAnnounced, Readable, GetMaxRead
<1> QED
  BY Soundness, <1>1, PTL

-----------------------------------------------------------------------------
(* FifoSync: what its functions make of a fifo.                            *)

\* The array of the slots.
Lens(len) ==
    /\ \E top \in Nat : DOMAIN len = 0 .. top - 1
    /\ \A i \in DOMAIN len : len[i] \in Nat

\* Head and tail stay in the slots, which the array has.
Slotted(tail, head, slots, len) ==
    /\ slots \in Nat \ {0}
    /\ tail \in 0 .. slots - 1 /\ head \in 0 .. slots
    /\ 0 .. slots - 1 \subseteq DOMAIN len

\* The ring of a fifo.
FifoRing(b) ==
    /\ Formed(b) /\ QuietIsEmpty(b)
    /\ b.mode \in WriteModes /\ b.max = MaxSize /\ b.size \in FifoSizes

IsFifo(g) == g = [x \in {"b", "slots", "len"} |-> g[x]]

Fifo(g) ==
    /\ IsFifo(g) /\ FifoRing(g.b) /\ Lens(g.len)
    /\ Slotted(g.b.tail, g.b.head, g.slots, g.len)

LEMMA FifoSizeIsNat == ASSUME NEW size \in FifoSizes PROVE size \in Nat \ {0}
BY DEF FifoSizes

\* The block that the allocator rounds up to leaves a size fifos can have.
LEMMA FifoAllocatedFits ==
    ASSUME NEW n \in Nat \ {0}, Overhead + (n + Header) <= Largest
    PROVE  Allocated(n) \in FifoSizes /\ Allocated(n) \in Nat /\ Allocated(n) >= n
<1> DEFINE p == NextPower2(Overhead + (n + Header))
<1>1. Overhead + (n + Header) \in Nat
  BY SizesAreNat
<1>2. p \in Powers /\ p \in Nat /\ p >= Overhead + (n + Header)
  BY <1>1, NextPowerFits
<1>3. Allocated(n) = p - Overhead - Header
  BY DEF Allocated, Granted
<1> HIDE DEF p
<1>4. p - Overhead - Header \in Nat \ {0} /\ p - Overhead - Header >= n
  BY <1>2, SizesAreNat
<1>5. p - Overhead - Header \in FifoSizes
  BY <1>2, <1>4 DEF FifoSizes
<1> QED
  BY <1>3, <1>4, <1>5

LEMMA FifoGrows ==
    ASSUME NEW size \in FifoSizes, NEW n \in Blocks, Fits(size, n)
    PROVE  Grows(size, n, MaxSize) /\ Grown(size, n, MaxSize) \in FifoSizes
<1>1. size \in Nat \ {0} /\ n \in Nat \ {0} /\ size + n + 1 <= Largest
  <2>1. size \in Nat \ {0} /\ n \in Nat \ {0}
    BY FifoSizeIsNat, FifoConstants
  <2>2. Overhead \in Nat /\ Header \in Nat \ {0} /\ Largest \in Int
    BY SizesAreNat, PowersArePositive
  <2>3. Overhead + (size + n + Header) <= Largest
    BY DEF Fits
  <2> QED
    BY <2>1, <2>2, <2>3
<1> DEFINE p == NextPower2(size + n + 1)
<1>2. p \in Powers /\ p \in Nat /\ p >= size + n + 1
  BY <1>1, NextPowerFits
<1>4. CASE p > MaxSize
  BY <1>1, <1>2, <1>4 DEF Grown, Grows
<1>5. CASE ~(p > MaxSize)
  <2> DEFINE q == NextPower2(Overhead + p)
  <2>1. Overhead + p \in Nat /\ Overhead + p <= Largest
    <3>1. MaxSize \in Nat /\ Overhead \in Nat /\ Overhead + MaxSize <= Largest /\ Largest \in Int
      BY FifoConstants, SizesAreNat, FifoPowersSuffice, PowersArePositive
    <3> QED
      BY <3>1, <1>2, <1>5
  <2>2. q \in Powers /\ q \in Nat
    BY <2>1, NextPowerFits
  <2>3. Grown(size, n, MaxSize) = q - Overhead - Header
    BY <1>5 DEF Grown, Resized, Granted
  <2>4. Grown(size, n, MaxSize) \in Int
    <3> HIDE DEF q
    <3> QED
      BY <2>2, <2>3, SizesAreNat
  <2>5. Grown(size, n, MaxSize) \in Nat \ {0} /\ Grown(size, n, MaxSize) >= size
    <3>1. PICK block \in Powers : size = block - Overhead - Header
      BY DEF FifoSizes
    <3>2. Resized(p) >= size
      BY <1>1, <2>1, <3>1, GrowingNeverShrinks
    <3> QED
      BY <1>1, <1>5, <2>4, <3>2 DEF Grown
  <2>6. Grown(size, n, MaxSize) \in FifoSizes
    <3> HIDE DEF q
    <3> QED
      BY <2>2, <2>3, <2>5 DEF FifoSizes
  <2> QED
    BY <1>1, <1>2, <2>5, <2>6 DEF Grows
<1> QED
  BY <1>4, <1>5

LEMMA WithSlotsIs ==
    ASSUME NEW g, IsFifo(g), Lens(g.len), NEW n \in Nat \ {0}, NEW h, h = WithSlots(g, n)
    PROVE  /\ IsFifo(h) /\ h.b = g.b /\ h.slots = n
           /\ Lens(h.len) /\ 0 .. n - 1 \subseteq DOMAIN h.len
<1> DEFINE made == [i \in 0 .. n + SlotHeader - 1 |-> 0]
           len == IF Cardinality(DOMAIN g.len) > n THEN g.len ELSE made
<1>1. h = [g EXCEPT !.slots = n, !.len = len]
  BY DEF WithSlots
<1>2. Lens(len) /\ 0 .. n - 1 \subseteq DOMAIN len
  <2>1. CASE Cardinality(DOMAIN g.len) > n
    <3>1. PICK top \in Nat : DOMAIN g.len = 0 .. top - 1
      BY DEF Lens
    <3>2. Cardinality(0 .. top - 1) = IF 0 > top - 1 THEN 0 ELSE top - 1 - 0 + 1
      BY FS_Interval
    <3>3. Cardinality(0 .. top - 1) > n
      BY <2>1, <3>1
    <3>4. top > n
      <4>1. 0 > top - 1 => top = 0
        OBVIOUS
      <4>2. Cardinality(0 .. top - 1) = top
        BY <3>2, <4>1
      <4> QED
        BY <3>3, <4>2
    <3> QED
      BY <2>1, <3>1, <3>4
  <2>2. CASE ~(Cardinality(DOMAIN g.len) > n)
    <3>1. DOMAIN made = 0 .. n + SlotHeader - 1 /\ \A i \in DOMAIN made : made[i] \in Nat
      OBVIOUS
    <3>2. SlotHeader \in Nat \ {0}
      BY FifoConstants
    <3>3. n + SlotHeader \in Nat
      BY <3>2
    <3> HIDE DEF made
    <3>4. Lens(made)
      <4> DEFINE top == n + SlotHeader
      <4>1. top \in Nat /\ DOMAIN made = 0 .. top - 1
        BY <3>1, <3>2, <3>3
      <4>2. \A i \in DOMAIN made : made[i] \in Nat
        BY <3>1
      <4> HIDE DEF top
      <4> QED
        BY <4>1, <4>2 DEF Lens
    <3>5. 0 .. n - 1 \subseteq DOMAIN made
      BY <3>1, <3>2
    <3> QED
      BY <2>2, <3>4, <3>5
  <2> QED
    BY <2>1, <2>2
<1> HIDE DEF len
<1> QED
  BY <1>1, <1>2 DEF IsFifo

\* New memory and made slots: an empty fifo.
LEMMA AllocateFifoIs ==
    ASSUME NEW g, IsFifo(g), IsBuffer(g.b), g.b.mode \in WriteModes, g.b.max = MaxSize, Lens(g.len),
           NEW n \in Nat \ {0}, Overhead + (n + Header) <= Largest,
           NEW slots \in Nat, slots <= Largest,
           NEW h, h = AllocateFifo(g, n, slots)
    PROVE  /\ Fifo(h) /\ h.b.size >= n
           /\ h.b.rd = 0 /\ h.b.wr = 0 /\ h.b.tail = 0 /\ h.b.head = 0 /\ h.b.mode = g.b.mode
<1> DEFINE c == Allocate(g.b, n)
           a == [g EXCEPT !.b = c]
           k == NextPower2(slots)
<1>1. h = WithSlots(a, k)
  BY DEF AllocateFifo
<1>2. Allocated(n) \in FifoSizes /\ Allocated(n) \in Nat /\ Allocated(n) >= n
  BY FifoAllocatedFits
<1>3. /\ Formed(c) /\ QuietIsEmpty(c)
      /\ c.size = Allocated(n) /\ c.rd = 0 /\ c.wr = 0 /\ c.poke = 0
      /\ c.mode = g.b.mode /\ c.max = g.b.max /\ c.ready = FALSE /\ c.head = 0 /\ c.tail = 0
  <2> DEFINE b == g.b
  <2>1. c = Allocate(b, n) /\ IsBuffer(b) /\ Allocated(n) \in Nat
    BY <1>2
  <2> HIDE DEF b, c
  <2>2. /\ Formed(c) /\ QuietIsEmpty(c)
        /\ c.size = Allocated(n) /\ c.rd = 0 /\ c.wr = 0 /\ c.poke = 0
        /\ c.mode = b.mode /\ c.max = b.max /\ c.ready = FALSE /\ c.head = 0 /\ c.tail = 0
    BY <2>1, AllocateForms, ZenonT(60)
  <2> QED
    BY <2>2 DEF b
<1>4. k \in Nat \ {0}
  <2>1. k \in Powers /\ k \in Nat
    BY NextPowerFits
  <2>2. 0 \notin Powers
    BY PowersArePositive
  <2> QED
    BY <2>1, <2>2
<1> HIDE DEF c, k
<1>5. IsFifo(a) /\ a.b = c /\ a.len = g.len
  BY DEF IsFifo
<1> HIDE DEF a
<1>6. /\ IsFifo(h) /\ h.b = c /\ h.slots = k
      /\ Lens(h.len) /\ 0 .. k - 1 \subseteq DOMAIN h.len
  BY <1>1, <1>4, <1>5, WithSlotsIs, SMTT(30)
<1>7. FifoRing(c)
  BY <1>2, <1>3 DEF FifoRing
<1>8. Slotted(c.tail, c.head, k, h.len)
  BY <1>3, <1>4, <1>6 DEF Slotted
<1> QED
  BY <1>2, <1>3, <1>6, <1>7, <1>8 DEF Fifo

-----------------------------------------------------------------------------
(* FifoSync: a block skipped.                                              *)

LEMMA TakenRing ==
    ASSUME NEW b, FifoRing(b), NEW r, Taken(b, r)
    PROVE  FifoRing(r) /\ r.size = b.size /\ r.mode = b.mode
<1>1. b.size \in Nat \ {0} /\ Formed(b)
  BY FifoSizeIsNat DEF FifoRing
<1>2. /\ IsBuffer(r) /\ r.size = b.size /\ r.mem = b.mem /\ r.poke = b.poke
      /\ r.rd \in 0 .. b.size - 1 /\ r.wr \in 0 .. b.size
      /\ r.ready \in BOOLEAN /\ r.evEmpty \in BOOLEAN
  BY DEF Taken
<1>3. Pointers(r)
  BY <1>1, <1>2 DEF Formed, Pointers
<1>4. Formed(r)
  BY <1>1, <1>2, <1>3 DEF Formed
<1> QED
  BY <1>1, <1>4 DEF FifoRing, Taken

\* Moving head and tail is nothing to the bytes.
SameBytes(b, c) ==
    /\ c.size = b.size /\ c.rd = b.rd /\ c.wr = b.wr /\ c.poke = b.poke /\ c.mem = b.mem
    /\ c.mode = b.mode /\ c.max = b.max /\ c.ready = b.ready /\ c.evEmpty = b.evEmpty

WithPointers(b, c, tail, head) == c = [b EXCEPT !.tail = tail, !.head = head]

LEMMA SlotsMove ==
    ASSUME NEW b, FifoRing(b), NEW tail, NEW head, NEW c, WithPointers(b, c, tail, head)
    PROVE  FifoRing(c) /\ SameBytes(b, c) /\ c.tail = tail /\ c.head = head
<1>1. IsBuffer(c) /\ SameBytes(b, c) /\ c.tail = tail /\ c.head = head
  BY DEF FifoRing, Formed, IsBuffer, Fields, SameBytes, WithPointers
<1>2. Formed(c)
  BY <1>1 DEF FifoRing, Formed, Pointers, SameBytes
<1> QED
  BY <1>1, <1>2 DEF FifoRing, SameBytes, QuietIsEmpty

\* A fifo whose ring is another.
LEMMA WithRing ==
    ASSUME NEW g, Fifo(g), NEW c, FifoRing(c), Slotted(c.tail, c.head, g.slots, g.len),
           NEW h, h = [g EXCEPT !.b = c]
    PROVE  Fifo(h) /\ h.b = c /\ h.slots = g.slots /\ h.len = g.len
<1>1. IsFifo(h) /\ h.b = c /\ h.slots = g.slots /\ h.len = g.len
  BY DEF Fifo, IsFifo
<1> QED
  BY <1>1 DEF Fifo

\* The ring after its next block has been skipped, and the tail after it.
SkipRing(g) == AdvanceReadPtr(g.b, g.len[g.b.tail])
NextSlot(p, slots) == NormalizePtr(AdvancePtr(p, 1, slots), slots)

LEMMA NextSlotIs ==
    ASSUME NEW slots \in Nat \ {0}, NEW p \in 0 .. slots - 1
    PROVE  NextSlot(p, slots) = (IF p + 1 = slots THEN 0 ELSE p + 1) /\ NextSlot(p, slots) \in 0 .. slots - 1
<1>1. AdvancePtr(p, 1, slots) = p + 1
  BY DEF AdvancePtr
<1>2. p + 1 \in 0 .. slots
  OBVIOUS
<1>3. NormalizePtr(p + 1, slots) = IF p + 1 = slots THEN 0 ELSE p + 1
  BY <1>2, NormalizeIs
<1> QED
  BY <1>1, <1>3 DEF NextSlot

LEMMA SkipBlockIs ==
    ASSUME NEW g, Fifo(g), NEW h, h = SkipBlock(g)
    PROVE  /\ Fifo(h) /\ h.b.size = g.b.size /\ h.b.mode = g.b.mode /\ h.slots = g.slots /\ h.len = g.len
           /\ UsedBuffers(g) # 0 =>
                 LET b == SkipRing(g)
                     tail == NextSlot(b.tail, g.slots)
                 IN /\ Taken(g.b, b) /\ SameBytes(b, h.b)
                    /\ IF tail = 0 /\ NormalizePtr(b.head, g.slots) = 0
                         THEN h.b.tail = 0 /\ h.b.head = 0
                         ELSE h.b.tail = tail /\ h.b.head = b.head
<1> DEFINE b == SkipRing(g)
           slots == g.slots
           tail == NextSlot(b.tail, slots)
           c == IF tail = 0 /\ NormalizePtr(b.head, slots) = 0 THEN [b EXCEPT !.tail = 0, !.head = 0]
                ELSE [b EXCEPT !.tail = tail]
<1>1. h = IF UsedBuffers(g) = 0 THEN g ELSE [g EXCEPT !.b = c]
  BY DEF SkipBlock, SkipRing, NextSlot
<1>2. CASE UsedBuffers(g) = 0
  BY <1>1, <1>2
<1>3. CASE UsedBuffers(g) # 0
  <2>1. /\ slots \in Nat \ {0} /\ g.b.tail \in 0 .. slots - 1 /\ g.b.head \in 0 .. slots
        /\ 0 .. slots - 1 \subseteq DOMAIN g.len
    BY DEF Fifo, Slotted
  <2>2. g.len[g.b.tail] \in Nat
    BY <2>1 DEF Fifo, Lens
  <2>3. Taken(g.b, b)
    <3> DEFINE ring == g.b
               step == g.len[ring.tail]
               size == ring.size
               rd == ring.rd
    <3>1. /\ Formed(ring) /\ QuietIsEmpty(ring) /\ size = ring.size /\ size # 0 /\ rd = ring.rd
          /\ step \in Nat /\ b = AdvanceReadPtr(ring, step)
      BY <2>2, FifoSizeIsNat DEF Fifo, FifoRing, SkipRing
    <3> HIDE DEF ring, step, size, rd, b
    <3>2. Taken(ring, b)
      BY <3>1, AdvanceReadTakes
    <3> QED
      BY <3>2 DEF ring
  <2> HIDE DEF b
  <2>4. FifoRing(b) /\ b.size = g.b.size /\ b.mode = g.b.mode
    BY <2>3, TakenRing DEF Fifo
  <2>5. b.tail \in 0 .. slots - 1 /\ b.head \in 0 .. slots
    BY <2>1, <2>3 DEF Taken, SlotsKept
  <2>6. tail \in 0 .. slots - 1
    BY <2>1, <2>5, NextSlotIs
  <2>7. /\ FifoRing(c) /\ SameBytes(b, c)
        /\ IF tail = 0 /\ NormalizePtr(b.head, slots) = 0
             THEN c.tail = 0 /\ c.head = 0 ELSE c.tail = tail /\ c.head = b.head
    <3> HIDE DEF tail
    <3>1. CASE tail = 0 /\ NormalizePtr(b.head, slots) = 0
      <4>1. WithPointers(b, c, 0, 0)
        BY <3>1 DEF WithPointers
      <4> HIDE DEF c
      <4> QED
        BY <3>1, <4>1, <2>4, SlotsMove
    <3>2. CASE ~(tail = 0 /\ NormalizePtr(b.head, slots) = 0)
      <4>1. c = [b EXCEPT !.tail = tail]
        BY <3>2
      <4>2. [b EXCEPT !.tail = tail] = [b EXCEPT !.tail = tail, !.head = b.head]
        BY <2>4 DEF FifoRing, Formed, IsBuffer, Fields
      <4> DEFINE head == b.head
      <4>3. WithPointers(b, c, tail, head)
        BY <4>1, <4>2 DEF WithPointers
      <4> HIDE DEF c, head
      <4>4. FifoRing(c) /\ SameBytes(b, c) /\ c.tail = tail /\ c.head = head
        BY <4>3, <2>4, SlotsMove
      <4> QED
        BY <3>2, <4>4 DEF head
    <3> QED
      BY <3>1, <3>2
  <2> HIDE DEF c, tail
  <2>8. Slotted(c.tail, c.head, g.slots, g.len)
    BY <2>1, <2>5, <2>6, <2>7 DEF Slotted
  <2>9. h = [g EXCEPT !.b = c]
    BY <1>1, <1>3
  <2>10. Fifo(h) /\ h.b = c /\ h.slots = g.slots /\ h.len = g.len
    BY <2>7, <2>8, <2>9, WithRing
  <2> QED
    BY <2>3, <2>4, <2>7, <2>10 DEF SameBytes, b, tail
<1> QED
  BY <1>2, <1>3

-----------------------------------------------------------------------------
(* FifoSync: blocks knocked out one after the other.                       *)

\* One skip after the other: the function that Skips defines exists.
SkipsUpto(g, n, h) == h = [k \in 0 .. n |-> IF k = 0 THEN g ELSE SkipBlock(h[k - 1])]

LEMMA SkipsExist == ASSUME NEW g, NEW n \in Nat PROVE \E h : SkipsUpto(g, n, h)
<1> DEFINE S == {m \in Nat : ~ \E h : SkipsUpto(g, m, h)}
           m == LeastOf(S)
<1> SUFFICES ASSUME S # {} PROVE FALSE
  OBVIOUS
<1>1. m \in S /\ \A k \in S : m <= k
  <2>1. S \subseteq Nat /\ S # {}
    OBVIOUS
  <2> HIDE DEF S
  <2> QED
    BY <2>1, LeastOfNat
<1> HIDE DEF m
<1>2. m \in Nat /\ ~ \E h : SkipsUpto(g, m, h)
  BY <1>1
<1>3. CASE m = 0
  <2> DEFINE h == [k \in 0 .. 0 |-> g]
  <2>1. h = [k \in 0 .. 0 |-> IF k = 0 THEN g ELSE SkipBlock(h[k - 1])]
    OBVIOUS
  <2>2. SkipsUpto(g, 0, h)
    BY <2>1 DEF SkipsUpto
  <2> QED
    BY <1>2, <1>3, <2>2
<1>4. CASE m # 0
  <2>1. m - 1 \in Nat /\ ~(m <= m - 1)
    BY <1>2, <1>4
  <2>2. PICK a : SkipsUpto(g, m - 1, a)
    BY <1>1, <2>1
  <2> DEFINE h == [k \in 0 .. m |-> IF k < m THEN a[k] ELSE SkipBlock(a[m - 1])]
  <2>3. a[0] = g /\ \A k \in 1 .. m - 1 : a[k] = SkipBlock(a[k - 1])
    BY <2>1, <2>2 DEF SkipsUpto
  <2>4. ASSUME NEW k \in 0 .. m PROVE h[k] = IF k = 0 THEN g ELSE SkipBlock(h[k - 1])
    <3>1. CASE k = 0
      BY <1>2, <1>4, <2>3, <3>1
    <3>2. CASE k # 0
      <4>1. k - 1 \in 0 .. m /\ k - 1 < m /\ h[k - 1] = a[k - 1]
        BY <1>2, <3>2
      <4>2. k = m => h[k] = SkipBlock(a[k - 1])
        BY <1>2
      <4>3. k # m => k \in 1 .. m - 1 /\ h[k] = a[k]
        BY <1>2, <3>2
      <4> HIDE DEF h
      <4> QED
        BY <2>3, <3>2, <4>1, <4>2, <4>3
    <3> QED
      BY <3>1, <3>2
  <2>5. h = [k \in 0 .. m |-> h[k]]
    OBVIOUS
  <2> HIDE DEF h
  <2>6. SkipsUpto(g, m, h)
    BY <2>4, <2>5 DEF SkipsUpto
  <2> QED
    BY <1>2, <2>6
<1> QED
  BY <1>3, <1>4

LEMMA SkipsAre ==
    ASSUME NEW g, g.slots \in Nat
    PROVE  /\ Skips(g)[0] = g
           /\ \A k \in 1 .. 2 * g.slots : Skips(g)[k] = SkipBlock(Skips(g)[k - 1])
<1> DEFINE n == 2 * g.slots
<1>1. n \in Nat
  OBVIOUS
<1>2. Skips(g) = CHOOSE h : h = [k \in 0 .. n |-> IF k = 0 THEN g ELSE SkipBlock(h[k - 1])]
  BY DEF Skips
<1> HIDE DEF n
<1>3. \E h : SkipsUpto(g, n, h)
  BY <1>1, SkipsExist
<1> DEFINE s == Skips(g)
<1>4. s = [k \in 0 .. n |-> IF k = 0 THEN g ELSE SkipBlock(s[k - 1])]
  BY <1>2, <1>3, Zenon DEF SkipsUpto
<1> HIDE DEF s
<1>5. s[0] = g /\ \A k \in 1 .. n : s[k] = SkipBlock(s[k - 1])
  BY <1>1, <1>4
<1> QED
  BY <1>5 DEF s, n

\* What is left of g after some skips is a fifo of its sizes.
Rest(g, h) == Fifo(h) /\ h.b.size = g.b.size /\ h.b.mode = g.b.mode /\ h.slots = g.slots

LEMMA SkipsKeep ==
    ASSUME NEW g, Fifo(g), NEW n \in 0 .. 2 * g.slots
    PROVE  Rest(g, Skips(g)[n])
<1> DEFINE S == {k \in Nat : k <= 2 * g.slots /\ ~Rest(g, Skips(g)[k])}
           m == LeastOf(S)
<1>1. g.slots \in Nat
  BY DEF Fifo, Slotted
<1>2. Skips(g)[0] = g /\ \A k \in 1 .. 2 * g.slots : Skips(g)[k] = SkipBlock(Skips(g)[k - 1])
  BY <1>1, SkipsAre
<1>3. Rest(g, g)
  BY DEF Rest
<1> SUFFICES ASSUME S # {} PROVE FALSE
  BY <1>1
<1>4. m \in S /\ \A k \in S : m <= k
  <2>1. S \subseteq Nat /\ S # {}
    OBVIOUS
  <2> HIDE DEF S
  <2> QED
    BY <2>1, LeastOfNat
<1> HIDE DEF m
<1>5. m \in Nat /\ m <= 2 * g.slots /\ ~Rest(g, Skips(g)[m])
  BY <1>4
<1>6. m # 0
  BY <1>2, <1>3, <1>5
<1>7. m - 1 \in Nat /\ ~(m <= m - 1) /\ m - 1 <= 2 * g.slots /\ m \in 1 .. 2 * g.slots
  BY <1>1, <1>5, <1>6
<1>8. Rest(g, Skips(g)[m - 1])
  BY <1>4, <1>7
<1>9. Skips(g)[m] = SkipBlock(Skips(g)[m - 1])
  BY <1>2, <1>7
<1> QED
  BY <1>5, <1>8, <1>9, SkipBlockIs DEF Rest

-----------------------------------------------------------------------------
(* FifoSync: room made for a block.                                        *)

\* How a fifo h is made from g with room for a block of n bytes.
Enlarged(g, h, n) == g.b.mode = "grow" /\ h.b.size >= g.b.size + n /\ h.b.rd = 0 /\ h.b.wr = 0
Emptied(g, h, n) == g.b.mode = "overwrite" /\ g.b.size <= n /\ h.b.size = g.b.size /\ h.b.rd = 0 /\ h.b.wr = 0
Skipped(g, h, n) ==
    g.b.mode = "overwrite" /\ h.b.size = g.b.size
        /\ \E k \in 0 .. 2 * g.slots : HasRoom(h, n) /\ h = Skips(g)[k]
MakesRoom(g, h, n) == HasRoom(g, n) /\ h = g
MadeFrom(g, h, n) ==
    MakesRoom(g, h, n) \/ (~HasRoom(g, n) /\ (Enlarged(g, h, n) \/ Emptied(g, h, n) \/ Skipped(g, h, n)))

\* The guard of Write.
Begins(g, n) ==
    \/ HasRoom(g, n) \/ g.b.mode = "grow" \/ (g.b.mode = "overwrite" /\ g.b.size <= n)
    \/ (g.b.mode = "overwrite" /\ RoomAfter(g, n) # {})

LEMMA EmptyRing == ASSUME NEW b, FifoRing(b), NEW e, e = Empty(b)
                   PROVE  FifoRing(e) /\ e.size = b.size /\ e.mode = b.mode /\ e.rd = 0 /\ e.wr = 0
                          /\ e.head = 0 /\ e.tail = 0
<1>1. Formed(b) /\ b.size # 0
  BY FifoSizeIsNat DEF FifoRing
<1>2. Taken(b, e)
  BY <1>1, EmptyTaken
<1>3. e.rd = 0 /\ e.wr = 0 /\ e.head = 0 /\ e.tail = 0
  BY <1>1, EmptyIs, Zenon DEF Formed
<1> QED
  BY <1>2, <1>3, TakenRing

LEMMA MadeRoomIs ==
    ASSUME NEW g, Fifo(g), NEW n \in Blocks, Fits(g.b.size, n), Begins(g, n), NEW h, h = MadeRoom(g, n)
    PROVE  Fifo(h) /\ h.b.mode = g.b.mode /\ MadeFrom(g, h, n)
<1> DEFINE size == g.b.size
<1>1. size \in FifoSizes /\ size \in Nat \ {0} /\ n \in Nat \ {0} /\ g.b.mode \in WriteModes
  BY FifoSizeIsNat, FifoConstants DEF Fifo, FifoRing
<1>2. CASE HasRoom(g, n)
  <2>1. h = g
    BY <1>2 DEF MadeRoom
  <2> QED
    BY <1>2, <2>1 DEF MadeFrom, MakesRoom
<1>3. CASE ~HasRoom(g, n) /\ g.b.mode = "grow"
  <2> DEFINE bytes == size + n
             slots == bytes \div BytesPerSlot
  <2>1. h = AllocateFifo(g, bytes, slots)
    BY <1>3 DEF MadeRoom, AllocateOne
  <2>2. bytes \in Nat \ {0} /\ Overhead + (bytes + Header) <= Largest
    BY <1>1 DEF Fits
  <2> HIDE DEF bytes
  <2>3. slots \in 0 .. bytes
    BY <2>2, FifoConstants
  <2>4. bytes <= Largest
    <3>1. Overhead \in Nat /\ Header \in Nat /\ Largest \in Int
      BY SizesAreNat, PowersArePositive
    <3> QED
      BY <3>1, <2>2
  <2> HIDE DEF slots
  <2>5. slots \in Nat /\ slots <= Largest
    <3>1. Largest \in Int
      BY PowersArePositive
    <3> QED
      BY <3>1, <2>2, <2>3, <2>4
  <2>6. IsFifo(g) /\ IsBuffer(g.b) /\ g.b.mode \in WriteModes /\ g.b.max = MaxSize /\ Lens(g.len)
    BY DEF Fifo, FifoRing, Formed
  <2>7. /\ Fifo(h) /\ h.b.size >= bytes /\ h.b.rd = 0 /\ h.b.wr = 0 /\ h.b.mode = g.b.mode
    BY <2>1, <2>2, <2>5, <2>6, AllocateFifoIs
  <2> QED
    BY <1>3, <2>7 DEF MadeFrom, Enlarged, bytes
<1>4. CASE ~HasRoom(g, n) /\ g.b.mode = "overwrite" /\ size <= n
  <2> DEFINE e == Empty(g.b)
  <2>1. h = [g EXCEPT !.b = e]
    BY <1>4 DEF MadeRoom
  <2>2. /\ FifoRing(e) /\ e.size = size /\ e.mode = g.b.mode /\ e.rd = 0 /\ e.wr = 0
        /\ e.head = 0 /\ e.tail = 0
    BY EmptyRing DEF Fifo
  <2> HIDE DEF e
  <2>3. Slotted(e.tail, e.head, g.slots, g.len)
    BY <2>2 DEF Fifo, Slotted
  <2>4. Fifo(h) /\ h.b = e
    BY <2>1, <2>2, <2>3, WithRing
  <2> QED
    BY <1>4, <2>2, <2>4 DEF MadeFrom, Emptied
<1>5. CASE ~HasRoom(g, n) /\ g.b.mode = "overwrite" /\ ~(size <= n)
  <2> DEFINE k == LeastOf(RoomAfter(g, n))
  <2>1. h = Skips(g)[k]
    BY <1>5 DEF MadeRoom
  <2>2. RoomAfter(g, n) # {}
    BY <1>1, <1>5 DEF Begins
  <2>3. k \in RoomAfter(g, n)
    <3>1. RoomAfter(g, n) \subseteq Nat
      <4>1. g.slots \in Nat
        BY DEF Fifo, Slotted
      <4> QED
        BY <4>1 DEF RoomAfter
    <3> QED
      BY <2>2, <3>1, LeastOfNat
  <2> HIDE DEF k
  <2>4. k \in 0 .. 2 * g.slots /\ HasRoom(h, n)
    BY <2>1, <2>3 DEF RoomAfter
  <2>5. Rest(g, h)
    BY <2>1, <2>4, SkipsKeep
  <2> QED
    BY <1>5, <2>1, <2>4, <2>5 DEF MadeFrom, Skipped, Rest
<1>6. g.b.mode = "fail" => HasRoom(g, n)
  BY DEF Begins
<1> QED
  BY <1>1, <1>2, <1>3, <1>4, <1>5, <1>6 DEF WriteModes

\* A fifo that is ready for a block: its slot is cleared and the poke pointer set.
Ready(g) == Fifo(g) /\ g.b.poke = g.b.wr /\ g.b.head \in 0 .. g.slots - 1

LEMMA LensExcept ==
    ASSUME NEW len, Lens(len), NEW i \in DOMAIN len, NEW v \in Nat, NEW to, to = [len EXCEPT ![i] = v]
    PROVE  Lens(to) /\ DOMAIN to = DOMAIN len
BY DEF Lens

LEMMA SlotClearedIs ==
    ASSUME NEW g, Fifo(g), NEW h, h = SlotCleared(g)
    PROVE  /\ Ready(h) /\ h.slots = g.slots
           /\ h.b.head = NormalizePtr(g.b.head, g.slots) /\ h.b.tail = g.b.tail
           /\ h.len = [g.len EXCEPT ![h.b.head] = 0]
           /\ h.b.size = g.b.size /\ h.b.rd = g.b.rd /\ h.b.wr = g.b.wr /\ h.b.mem = g.b.mem
           /\ h.b.mode = g.b.mode
<1> DEFINE head == NormalizePtr(g.b.head, g.slots)
           wr == g.b.wr
           c == [g.b EXCEPT !.head = head, !.poke = wr]
           len == [g.len EXCEPT ![head] = 0]
<1>1. /\ g.slots \in Nat \ {0} /\ g.b.head \in 0 .. g.slots /\ g.b.tail \in 0 .. g.slots - 1
      /\ 0 .. g.slots - 1 \subseteq DOMAIN g.len /\ Lens(g.len)
  BY DEF Fifo, Slotted
<1>2. head \in 0 .. g.slots - 1
  BY <1>1, NormalizeIs
<1> HIDE DEF head
<1>4. h = [g EXCEPT !.b = c, !.len = len]
  BY DEF SlotCleared, head, Fifo, IsFifo
<1>5. Lens(len) /\ DOMAIN len = DOMAIN g.len
  BY <1>1, <1>2, LensExcept
<1>6. Formed(g.b) /\ QuietIsEmpty(g.b) /\ g.b.size # 0
  BY FifoSizeIsNat DEF Fifo, FifoRing
<1>7. /\ IsBuffer(c) /\ c.size = g.b.size /\ c.rd = g.b.rd /\ c.wr = wr /\ c.mem = g.b.mem
      /\ c.mode = g.b.mode /\ c.max = g.b.max /\ c.ready = g.b.ready /\ c.poke = wr
      /\ c.evEmpty = g.b.evEmpty
      /\ c.head = head /\ c.tail = g.b.tail
  BY <1>6 DEF Formed, IsBuffer, Fields
<1> HIDE DEF c, len
<1>8. Formed(c) /\ QuietIsEmpty(c)
  <2>1. Pointers(c)
    BY <1>6, <1>7 DEF Formed, Pointers
  <2> QED
    BY <1>6, <1>7, <2>1 DEF Formed, QuietIsEmpty
<1>9. FifoRing(c)
  BY <1>7, <1>8 DEF Fifo, FifoRing
<1>10. IsFifo(h) /\ h.b = c /\ h.slots = g.slots /\ h.len = len
  BY <1>4 DEF Fifo, IsFifo
<1>11. Slotted(c.tail, c.head, g.slots, len)
  BY <1>1, <1>2, <1>5, <1>7 DEF Slotted
<1>12. Fifo(h)
  BY <1>5, <1>9, <1>10, <1>11 DEF Fifo
<1> QED
  BY <1>2, <1>7, <1>10, <1>12 DEF Ready, head, len

-----------------------------------------------------------------------------
(* FifoSync: a block written.                                              *)

\* There is room without growing, or the size may grow.
MayGrow(b, n) == Fits(b.size, n) \/ GetMaxWrite(b.rd, b.wr, b.size) > n

LEMMA EnsuredIs ==
    ASSUME NEW g, Ready(g), NEW n \in Blocks, MayGrow(g.b, n), NEW c, c = Ensured(g, n)
    PROVE  /\ FifoRing(c) /\ c.mode = g.b.mode /\ c.head = g.b.head /\ c.tail = g.b.tail
           /\ c.size >= g.b.size /\ c.poke = c.wr
           /\ c = g.b \/ (c.mode = "grow" /\ Moved(g.b, c))
<1> DEFINE b == g.b
           size == b.size
<1>1. FifoRing(b) /\ b.poke = b.wr
  BY DEF Ready, Fifo
<1>2. /\ Formed(b) /\ size \in FifoSizes /\ size \in Nat \ {0} /\ n \in Nat /\ b.max = MaxSize
      /\ b.rd \in 0 .. size - 1 /\ b.wr \in 0 .. size
  BY <1>1, FifoSizeIsNat, FifoConstants DEF FifoRing, Formed, Pointers
<1>3. CASE c = b
  BY <1>1, <1>2, <1>3
<1>4. CASE c # b
  <2>1. b.mode = "grow" /\ c = EnsureWriteSpace(b, n, b.wr)
    BY <1>1, <1>4 DEF Ensured
  <2>2. ~(GetMaxWrite(b.rd, b.wr, size) > n)
    <3>1. GetMaxWrite(b.rd, b.wr, size) \in Int
      <4> DEFINE rd == b.rd
                 wr == b.wr
      <4>1. size \in Nat \ {0} /\ rd \in 0 .. size - 1 /\ wr \in 0 .. size
        BY <1>2
      <4> HIDE DEF rd, wr, size
      <4>2. GetMaxWrite(rd, wr, size) \in Int
        BY <4>1, MaxWriteIs
      <4> QED
        BY <4>2 DEF rd, wr
    <3> QED
      BY <1>2, <1>4, <2>1, <3>1 DEF EnsureWriteSpace
  <2>3. Fits(size, n)
    BY <2>2 DEF MayGrow
  <2>4. Grows(size, n, MaxSize) /\ Grown(size, n, MaxSize) \in FifoSizes
    BY <1>2, <2>3, FifoGrows
  <2>5. /\ Formed(c) /\ Moved(b, c) /\ c.size = Grown(size, n, MaxSize) /\ c.size >= size
    BY <1>2, <1>4, <2>1, <2>4, GrowMoves
  <2>6. c.poke = c.wr
    BY <1>1, <2>5 DEF Moved, Front
  <2>7. QuietIsEmpty(c)
    <3>1. ~b.ready => b.rd = b.wr
      BY <1>1 DEF FifoRing, QuietIsEmpty
    <3>2. b.rd = b.wr => c.wr = 0
      BY <2>5 DEF Moved, Front, GetMaxRead
    <3> QED
      BY <2>5, <3>1, <3>2 DEF QuietIsEmpty, Moved, Kept
  <2>8. c.mode = b.mode /\ c.max = b.max /\ c.head = b.head /\ c.tail = b.tail
    BY <2>5 DEF Moved, Kept
  <2>9. FifoRing(c)
    BY <1>1, <2>4, <2>5, <2>7, <2>8 DEF FifoRing
  <2> QED
    BY <2>1, <2>5, <2>6, <2>8, <2>9
<1> QED
  BY <1>3, <1>4

\* What a block of k bytes makes of the ring that room was made in.
Poking(room, c, mem, poke, slots) ==
    c = [room EXCEPT !.mem = mem, !.poke = poke, !.wr = poke, !.ready = @ \/ room.wr # poke,
                     !.evEmpty = @ /\ room.wr = poke, !.head = AdvancePtr(@, 1, slots)]

LEMMA PokingIs ==
    ASSUME NEW room, FifoRing(room), NEW slots \in Nat \ {0}, room.head \in 0 .. slots - 1,
           NEW poke \in 0 .. room.size, NEW mem, DOMAIN mem = 0 .. room.size - 1,
           NEW c, Poking(room, c, mem, poke, slots)
    PROVE  /\ FifoRing(c) /\ c.size = room.size /\ c.mode = room.mode
           /\ c.rd = room.rd /\ c.wr = poke /\ c.mem = mem
           /\ c.head = room.head + 1 /\ c.tail = room.tail
<1> DEFINE head == AdvancePtr(room.head, 1, slots)
           ready == room.ready \/ room.wr # poke
           drained == room.evEmpty /\ room.wr = poke
<1>1. /\ Formed(room) /\ QuietIsEmpty(room) /\ room.size \in Nat \ {0}
  BY FifoSizeIsNat DEF FifoRing
<1>2. c = [room EXCEPT !.mem = mem, !.poke = poke, !.wr = poke, !.ready = ready, !.evEmpty = drained,
                       !.head = head]
  BY DEF Poking
<1>3. head = room.head + 1
  BY DEF AdvancePtr
<1>4. ready \in BOOLEAN /\ (~ready => room.rd = poke)
  <2>1. room.ready \in BOOLEAN
    BY <1>1 DEF Formed
  <2> QED
    BY <1>1, <2>1 DEF QuietIsEmpty
<1>9. drained \in BOOLEAN
  BY <1>1 DEF Formed
<1> HIDE DEF head, ready, drained
<1>5. /\ IsBuffer(c) /\ c.size = room.size /\ c.mode = room.mode /\ c.max = room.max
      /\ c.rd = room.rd /\ c.wr = poke /\ c.poke = poke /\ c.mem = mem /\ c.ready = ready
      /\ c.head = head /\ c.tail = room.tail /\ c.evEmpty = drained
  BY <1>1, <1>2 DEF Formed, IsBuffer, Fields
<1>6. Pointers(c)
  BY <1>1, <1>5 DEF Formed, Pointers
<1>7. Formed(c)
  BY <1>1, <1>4, <1>5, <1>6, <1>9 DEF Formed
<1>8. QuietIsEmpty(c)
  BY <1>4, <1>5 DEF QuietIsEmpty
<1> QED
  BY <1>3, <1>5, <1>7, <1>8 DEF FifoRing

\* The ring with a block numbered id in the k bytes from from.
BlockCopied(room, mem, id, k, from) == mem = Copied(room, [i \in 1 .. k |-> id], k, from)

LEMMA CommittedIs ==
    ASSUME NEW g, Ready(g), NEW n \in Blocks, MayGrow(g.b, n), NEW id,
           NEW h, h = Committed(g, n, id),
           NEW b, b = Ensured(g, n), NEW k, k = Clipped(b, n, b.wr), NEW room, room = MakeRoom(b, n, b.wr)
    PROVE  /\ Fifo(h) /\ h.slots = g.slots /\ h.b.mode = g.b.mode
           /\ FifoRing(b) /\ Taken(b, room) /\ k \in 0 .. b.size
           /\ h.b.size = b.size /\ h.b.rd = room.rd /\ h.b.wr = AdvancePtr(b.wr, k, b.size)
           /\ h.b.head = room.head + 1 /\ h.b.tail = room.tail
           /\ BlockCopied(room, h.b.mem, id, k, b.wr)
           /\ h.len = [g.len EXCEPT ![room.head] = @ + n]
<1> DEFINE size == b.size
           from == b.wr
           rd == b.rd
           poke == AdvancePtr(from, k, size)
           mem == Copied(room, [i \in 1 .. k |-> id], k, from)
           c == Entered(b, n, id, g.slots)
           len == [g.len EXCEPT ![room.head] = @ + n]
<1>1. FifoRing(b) /\ b.mode = g.b.mode /\ b.head = g.b.head /\ b.tail = g.b.tail /\ b.poke = from
  BY EnsuredIs
<1>2. /\ Formed(b) /\ QuietIsEmpty(b) /\ size \in Nat \ {0} /\ n \in Nat
      /\ rd \in 0 .. size - 1 /\ from \in 0 .. size
  BY <1>1, FifoSizeIsNat, FifoConstants DEF FifoRing, Formed, Pointers
<1>3. h = [g EXCEPT !.b = c, !.len = len]
  <2>1. h = [g EXCEPT !.b = c, !.len[room.head] = @ + n]
    BY <1>1 DEF Committed
  <2> HIDE DEF c
  <2> QED
    BY <2>1 DEF Ready, Fifo, IsFifo
<1>4. k \in 0 .. size
  BY <1>2, ClippedIs
<1>5. Taken(b, room)
  <2>1. size = b.size /\ rd = b.rd /\ room = MakeRoom(b, n, from) /\ size # 0
    BY <1>2
  <2> HIDE DEF size, rd, from
  <2> QED
    BY <1>2, <2>1, MakeRoomTakes
<1>6. FifoRing(room) /\ room.size = size /\ room.mode = b.mode
  BY <1>1, <1>5, TakenRing
<1>7. /\ g.slots \in Nat \ {0} /\ g.b.head \in 0 .. g.slots - 1 /\ g.b.tail \in 0 .. g.slots - 1
      /\ 0 .. g.slots - 1 \subseteq DOMAIN g.len /\ Lens(g.len)
  BY DEF Ready, Fifo, Slotted
<1>8. room.head \in 0 .. g.slots - 1 /\ room.tail \in 0 .. g.slots - 1
  BY <1>1, <1>5, <1>7 DEF Taken, SlotsKept
<1>9. poke \in 0 .. size
  <2> HIDE DEF size, from
  <2>1. from + k <= 2 * size /\ from \in Nat /\ k \in Nat
    BY <1>2, <1>4
  <2>2. poke = IF from + k <= size THEN from + k
               ELSE IF from + k = 2 * size THEN 0 ELSE from + k - size
    BY <1>2, <2>1, AdvanceIs
  <2> HIDE DEF poke
  <2> QED
    BY <1>2, <2>1, <2>2
<1>10. DOMAIN mem = 0 .. room.size - 1
  <2>1. DOMAIN room.mem = 0 .. room.size - 1
    BY <1>6 DEF FifoRing, Formed
  <2> QED
    BY <2>1 DEF Copied
<1>11. Poking(room, c, mem, poke, g.slots) /\ BlockCopied(room, mem, id, k, from)
  BY <1>1 DEF Poking, BlockCopied, Entered
<1>12. Lens(len)
  <2> DEFINE i == room.head
             v == g.len[i] + n
  <2>1. i \in DOMAIN g.len /\ v \in Nat
    <3>1. i \in DOMAIN g.len
      BY <1>7, <1>8
    <3>2. g.len[i] \in Nat
      BY <1>7, <3>1 DEF Lens
    <3> QED
      BY <1>2, <3>1, <3>2
  <2>2. len = [g.len EXCEPT ![i] = v]
    OBVIOUS
  <2> HIDE DEF i, v, len
  <2> QED
    BY <1>7, <2>1, <2>2, LensExcept
<1>13. DOMAIN len = DOMAIN g.len
  OBVIOUS
<1> HIDE DEF c, mem, poke, len, size, from, rd
<1>14. /\ FifoRing(c) /\ c.size = room.size /\ c.mode = room.mode
       /\ c.rd = room.rd /\ c.wr = poke /\ c.mem = mem
       /\ c.head = room.head + 1 /\ c.tail = room.tail
  BY <1>6, <1>7, <1>8, <1>9, <1>10, <1>11, PokingIs
<1>15. IsFifo(h) /\ h.b = c /\ h.slots = g.slots /\ h.len = len
  BY <1>3 DEF Ready, Fifo, IsFifo
<1>16. Slotted(c.tail, c.head, g.slots, len)
  BY <1>7, <1>8, <1>13, <1>14 DEF Slotted
<1>17. Fifo(h)
  BY <1>12, <1>14, <1>15, <1>16 DEF Fifo
<1> QED
  BY <1>1, <1>4, <1>5, <1>6, <1>11, <1>14, <1>15, <1>17 DEF poke, len, size, from

-----------------------------------------------------------------------------
(* FifoSync: where the blocks are.                                         *)

BlockSet == [id : Nat, size : Nat \ {0}]

\* The i-th place from r in a ring.
Place(r, i, size) == (r + i) % size

\* Where the bytes of the blocks s end, the first of the fifo's being byte 0.
Cuts(s, ends) ==
    /\ s \in Seq(BlockSet)
    /\ ends \in [0 .. Len(s) -> Nat] /\ ends[0] = 0
    /\ \A i \in 1 .. Len(s) : ends[i] = ends[i - 1] + s[i].size
    /\ \A i, j \in 0 .. Len(s) : i <= j => ends[i] <= ends[j]

\* The slots from the tail to the head hold the sizes of the blocks,
SlotsLie(tail, head, slots, len, s) ==
    /\ GetMaxRead(tail, head, slots) = Len(s)
    /\ \A i \in 0 .. Len(s) - 1 : len[Place(tail, i, slots)] = s[i + 1].size

\* and the ring from the read to the write pointer their bytes.
BytesLie(rd, wr, size, mem, s, ends) ==
    /\ GetMaxRead(rd, wr, size) = ends[Len(s)]
    /\ \A i \in 1 .. Len(s) : \A p \in ends[i - 1] .. ends[i] - 1 : mem[Place(rd, p, size)] = s[i].id

Laid(g, s) ==
    \E ends : /\ Cuts(s, ends)
              /\ SlotsLie(g.b.tail, g.b.head, g.slots, g.len, s)
              /\ BytesLie(g.b.rd, g.b.wr, g.b.size, g.b.mem, s, ends)

\* Each place of a ring is its own.
LEMMA PlaceIs ==
    ASSUME NEW size \in Nat \ {0}, NEW r \in 0 .. size - 1, NEW i \in 0 .. size
    PROVE  /\ Place(r, i, size) = IF r + i < size THEN r + i ELSE r + i - size
           /\ Place(r, i, size) \in 0 .. size - 1
<1> DEFINE p == r + i
<1>1. p \in Nat /\ p < 2 * size
  OBVIOUS
<1> HIDE DEF p
<1>2. p % size = IF p < size THEN p ELSE p - size
  BY <1>1, Wraps
<1>3. Place(r, i, size) = p % size
  BY DEF Place, p
<1>4. Place(r, i, size) = (IF p < size THEN p ELSE p - size) /\ Place(r, i, size) \in 0 .. size - 1
  <2> DEFINE q == Place(r, i, size)
  <2>1. q = IF p < size THEN p ELSE p - size
    BY <1>2, <1>3
  <2> HIDE DEF q
  <2>2. q \in 0 .. size - 1
    BY <1>1, <2>1
  <2> QED
    BY <2>1, <2>2 DEF q
<1> QED
  BY <1>4 DEF p

LEMMA PlacesDiffer ==
    ASSUME NEW size \in Nat \ {0}, NEW r \in 0 .. size - 1,
           NEW i \in 0 .. size - 1, NEW j \in 0 .. size - 1, i # j
    PROVE  Place(r, i, size) # Place(r, j, size)
<1>1. i \in 0 .. size /\ j \in 0 .. size
  OBVIOUS
<1> DEFINE p == Place(r, i, size)
           q == Place(r, j, size)
<1>2. p = IF r + i < size THEN r + i ELSE r + i - size
  BY <1>1, PlaceIs
<1>3. q = IF r + j < size THEN r + j ELSE r + j - size
  BY <1>1, PlaceIs
<1> HIDE DEF p, q
<1>4. p # q
  BY <1>2, <1>3
<1> QED
  BY <1>4 DEF p, q

LEMMA SlotsSkip ==
    ASSUME NEW slots \in Nat \ {0}, NEW tail \in 0 .. slots - 1, NEW head \in 0 .. slots, NEW len,
           NEW s \in Seq(BlockSet), SlotsLie(tail, head, slots, len, s), Len(s) > 1,
           NEW next, next = NextSlot(tail, slots)
    PROVE  ~(next = 0 /\ NormalizePtr(head, slots) = 0) /\ SlotsLie(next, head, slots, len, Tail(s))
<1>1. next = (IF tail + 1 = slots THEN 0 ELSE tail + 1) /\ next \in 0 .. slots - 1
  BY NextSlotIs
<1>2. NormalizePtr(head, slots) = IF head = slots THEN 0 ELSE head
  BY NormalizeIs
<1> DEFINE n == Len(s)
<1>3. n \in Nat /\ n > 1 /\ Len(Tail(s)) = n - 1
  OBVIOUS
<1>4. \A i \in 1 .. n - 1 : Tail(s)[i] = s[i + 1]
  BY <1>3
<1>5. n = IF tail = head THEN 0 ELSE IF head > tail THEN head - tail ELSE slots - tail + head
  <2>1. n = GetMaxRead(tail, head, slots)
    BY DEF SlotsLie
  <2> HIDE DEF n
  <2> QED
    BY <2>1, MaxReadIs, Zenon
<1> HIDE DEF n
<1>6. ~(next = 0 /\ NormalizePtr(head, slots) = 0)
  BY <1>1, <1>2, <1>3, <1>5
<1>7. GetMaxRead(next, head, slots) = n - 1
  <2>1. GetMaxRead(next, head, slots) =
          IF next = head THEN 0 ELSE IF head > next THEN head - next ELSE slots - next + head
    BY <1>1, MaxReadIs
  <2> QED
    BY <2>1, <1>1, <1>3, <1>5
<1>8. n <= slots
  BY <1>5
<1>9. ASSUME NEW i \in 0 .. n - 2 PROVE len[Place(next, i, slots)] = Tail(s)[i + 1].size
  <2>1. Place(next, i, slots) = Place(tail, i + 1, slots)
    <3> DEFINE j == i + 1
               p == Place(next, i, slots)
               q == Place(tail, j, slots)
    <3>1. i \in 0 .. slots /\ j \in 0 .. slots /\ j = i + 1
      BY <1>3, <1>8
    <3> HIDE DEF j
    <3>2. p = IF next + i < slots THEN next + i ELSE next + i - slots
      BY <1>1, <3>1, PlaceIs
    <3>3. q = IF tail + j < slots THEN tail + j ELSE tail + j - slots
      BY <3>1, PlaceIs
    <3> HIDE DEF p, q
    <3>4. p = q
      BY <1>1, <1>3, <1>8, <3>1, <3>2, <3>3
    <3> QED
      BY <3>4 DEF p, q, j
  <2>2. i + 1 \in 0 .. n - 1
    BY <1>3
  <2>3. len[Place(tail, i + 1, slots)] = s[i + 1 + 1].size
    BY <2>2 DEF SlotsLie, n
  <2>4. Tail(s)[i + 1] = s[i + 1 + 1]
    BY <1>4, <1>3
  <2> QED
    BY <2>1, <2>3, <2>4
<1> QED
  BY <1>3, <1>6, <1>7, <1>9 DEF SlotsLie

\* A ring with room in which the pointer advances by one.
LEMMA OneMore ==
    ASSUME NEW size \in Nat \ {0}, NEW r \in 0 .. size - 1, NEW w \in 0 .. size,
           GetMaxWrite(r, w, size) > 0, NEW at, at = NormalizePtr(w, size)
    PROVE  LET n == GetMaxRead(r, w, size)
           IN /\ at \in 0 .. size - 1 /\ n \in 0 .. size - 1
              /\ GetMaxRead(r, at + 1, size) = n + 1
              /\ Place(r, n, size) = at
<1> DEFINE n == GetMaxRead(r, w, size)
           x == at + 1
<1>1. at = (IF w = size THEN 0 ELSE w) /\ at \in 0 .. size - 1
  BY NormalizeIs
<1>2. n = IF r = w THEN 0 ELSE IF w > r THEN w - r ELSE size - r + w
  BY MaxReadIs
<1>3. GetMaxWrite(r, w, size) =
        IF w = size THEN IF r <= 1 THEN 0 ELSE r
        ELSE IF r = w THEN size ELSE IF w > r THEN size - (w - r)
        ELSE IF w + 1 = r THEN 0 ELSE r - w
  BY MaxWriteIs
<1> HIDE DEF n
<1>4. x \in 0 .. size
  BY <1>1
<1>5. x = at + 1
  OBVIOUS
<1> HIDE DEF x
<1>6. GetMaxRead(r, x, size) = IF r = x THEN 0 ELSE IF x > r THEN x - r ELSE size - r + x
  BY <1>4, MaxReadIs
<1>7. n \in 0 .. size - 1 /\ r + n = IF at < r THEN at + size ELSE at
  BY <1>1, <1>2, <1>3
<1>8. GetMaxRead(r, x, size) = n + 1
  BY <1>1, <1>2, <1>3, <1>5, <1>6
<1>9. Place(r, n, size) = IF r + n < size THEN r + n ELSE r + n - size
  <2>1. n \in 0 .. size
    BY <1>7
  <2> QED
    BY <2>1, PlaceIs
<1>10. Place(r, n, size) = at
  <2> DEFINE q == Place(r, n, size)
  <2>1. q = IF r + n < size THEN r + n ELSE r + n - size
    BY <1>9
  <2> HIDE DEF q
  <2>2. q = at
    BY <1>1, <1>7, <2>1
  <2> QED
    BY <2>2 DEF q
<1> QED
  BY <1>1, <1>5, <1>7, <1>8, <1>10 DEF n

LEMMA SlotsAppend ==
    ASSUME NEW slots \in Nat \ {0}, NEW tail \in 0 .. slots - 1, NEW head \in 0 .. slots,
           NEW len, 0 .. slots - 1 \subseteq DOMAIN len,
           NEW s \in Seq(BlockSet), SlotsLie(tail, head, slots, len, s),
           GetMaxWrite(tail, head, slots) > 0,
           NEW at, at = NormalizePtr(head, slots), NEW block \in BlockSet,
           NEW to, DOMAIN to = DOMAIN len, to[at] = block.size,
           \A i \in DOMAIN len \ {at} : to[i] = len[i]
    PROVE  SlotsLie(tail, at + 1, slots, to, Append(s, block))
<1> DEFINE n == Len(s)
           t == Append(s, block)
<1>1. n \in Nat /\ Len(t) = n + 1 /\ t[n + 1] = block /\ \A i \in 1 .. n : t[i] = s[i]
  OBVIOUS
<1>2. n = GetMaxRead(tail, head, slots)
  BY DEF SlotsLie
<1>3. ASSUME NEW i \in 0 .. n - 1 PROVE len[Place(tail, i, slots)] = s[i + 1].size
  BY DEF SlotsLie
<1> HIDE DEF n, t
<1>4. /\ at \in 0 .. slots - 1 /\ n \in 0 .. slots - 1
      /\ Place(tail, n, slots) = at
  BY <1>2, OneMore
<1>5. GetMaxRead(tail, at + 1, slots) = n + 1
  BY <1>2, OneMore
<1>6. ASSUME NEW i \in 0 .. n PROVE to[Place(tail, i, slots)] = t[i + 1].size
  <2>1. CASE i = n
    BY <1>1, <1>4, <2>1
  <2>2. CASE i # n
    <3> DEFINE q == Place(tail, i, slots)
    <3>1. i \in 0 .. slots - 1 /\ i \in 0 .. n - 1 /\ i + 1 \in 1 .. n
      BY <1>4, <2>2
    <3>2. q \in 0 .. slots - 1 /\ q # at
      <4>1. q \in 0 .. slots - 1
        <5>1. i \in 0 .. slots
          BY <3>1
        <5> QED
          BY <5>1, PlaceIs
      <4>2. q # at
        BY <1>4, <2>2, <3>1, PlacesDiffer
      <4> QED
        BY <4>1, <4>2
    <3>3. len[q] = s[i + 1].size
      BY <1>3, <3>1
    <3> HIDE DEF q
    <3>4. to[q] = len[q]
      BY <3>2
    <3> QED
      BY <1>1, <3>1, <3>3, <3>4 DEF q
  <2> QED
    BY <2>1, <2>2
<1> QED
  BY <1>1, <1>5, <1>6 DEF SlotsLie, t

\* A read pointer that advances by k of the bytes there are.
LEMMA LessToRead ==
    ASSUME NEW size \in Nat \ {0}, NEW r \in 0 .. size - 1, NEW w \in 0 .. size,
           NEW k \in Nat \ {0}, k <= GetMaxRead(r, w, size),
           NEW next, next = NormalizePtr(AdvancePtr(r, k, size), size)
    PROVE  LET n == GetMaxRead(r, w, size)
           IN /\ next \in 0 .. size - 1
              /\ k = n => next = NormalizePtr(w, size)
              /\ k < n => /\ next # NormalizePtr(w, size)
                          /\ GetMaxRead(next, w, size) = n - k
                          /\ \A p \in 0 .. n - k - 1 : Place(next, p, size) = Place(r, p + k, size)
<1> DEFINE n == GetMaxRead(r, w, size)
<1>1. n = (IF r = w THEN 0 ELSE IF w > r THEN w - r ELSE size - r + w) /\ n \in 0 .. size
  BY MaxReadIs, MaxReadBounded
<1> HIDE DEF n
<1>2. k <= n
  BY DEF n
<1>3. next = Ahead(r, k, size) /\ next \in 0 .. size - 1
  <2>1. k \in 0 .. size + 1
    BY <1>1, <1>2
  <2> QED
    BY <2>1, AheadIs
<1>4. next = IF r + k < size THEN r + k ELSE r + k - size
  BY <1>1, <1>2, <1>3 DEF Ahead
<1> DEFINE top == NormalizePtr(w, size)
<1>5. top = IF w = size THEN 0 ELSE w
  BY NormalizeIs
<1> HIDE DEF top
<1>6. ASSUME k = n PROVE next = top
  BY <1>1, <1>4, <1>5, <1>6
<1>7. ASSUME k < n PROVE next # top
  BY <1>1, <1>4, <1>5, <1>7
<1>8. ASSUME k < n PROVE GetMaxRead(next, w, size) = n - k
  <2>1. GetMaxRead(next, w, size) = IF next = w THEN 0 ELSE IF w > next THEN w - next ELSE size - next + w
    BY <1>3, MaxReadIs
  <2> QED
    BY <1>1, <1>4, <1>8, <2>1
<1>9. ASSUME k < n, NEW p \in 0 .. n - k - 1 PROVE Place(next, p, size) = Place(r, p + k, size)
  <2> DEFINE q == p + k
             a == Place(next, p, size)
             b == Place(r, q, size)
  <2>1. p \in 0 .. size /\ q \in 0 .. size /\ q = p + k /\ p + k < n
    BY <1>1, <1>9
  <2> HIDE DEF q
  <2>2. a = IF next + p < size THEN next + p ELSE next + p - size
    BY <1>3, <2>1, PlaceIs
  <2>3. b = IF r + q < size THEN r + q ELSE r + q - size
    BY <2>1, PlaceIs
  <2> HIDE DEF a, b
  <2>4. a = b
    BY <1>1, <1>4, <2>1, <2>2, <2>3
  <2> QED
    BY <2>4 DEF a, b, q
<1> QED
  BY <1>3, <1>6, <1>7, <1>8, <1>9 DEF n, top

\* The blocks behind the first.
Behind(ends, n, to) == to = [i \in 0 .. n - 1 |-> ends[i + 1] - ends[1]]

LEMMA CutsTail ==
    ASSUME NEW s, NEW ends, Cuts(s, ends), Len(s) > 1,
           NEW to, Behind(ends, Len(s), to)
    PROVE  /\ Cuts(Tail(s), to) /\ Len(Tail(s)) = Len(s) - 1
           /\ ends[1] = s[1].size /\ ends[1] < ends[Len(s)]
<1> DEFINE n == Len(s)
           t == Tail(s)
<1>1. n \in Nat /\ n > 1 /\ t \in Seq(BlockSet) /\ Len(t) = n - 1
  BY DEF Cuts
<1>2. \A i \in 1 .. n - 1 : t[i] = s[i + 1]
  BY <1>1 DEF Cuts
<1>3. \A i \in 1 .. n : s[i].size \in Nat \ {0}
  <2>1. \A i \in 1 .. n : s[i] \in BlockSet
    BY <1>1 DEF Cuts
  <2> QED
    BY <2>1 DEF BlockSet
<1>4. /\ ends[0] = 0 /\ \A i \in 0 .. n : ends[i] \in Nat
      /\ \A i \in 1 .. n : ends[i] = ends[i - 1] + s[i].size
      /\ \A i, j \in 0 .. n : i <= j => ends[i] <= ends[j]
  BY DEF Cuts
<1> HIDE DEF n, t
<1>5. to = [i \in 0 .. n - 1 |-> ends[i + 1] - ends[1]]
  BY DEF n, Behind
<1>6. 0 \in 0 .. n /\ 1 \in 1 .. n /\ 1 \in 0 .. n /\ 2 \in 1 .. n /\ 2 \in 0 .. n /\ n \in 0 .. n
  BY <1>1
<1>7. ends[1] = s[1].size /\ ends[1] \in Nat
  <2>1. ends[1] = ends[1 - 1] + s[1].size /\ s[1].size \in Nat
    BY <1>3, <1>4, <1>6
  <2> QED
    BY <1>4, <2>1
<1>8. ends[1] < ends[n]
  <2>1. ends[2] = ends[2 - 1] + s[2].size /\ s[2].size \in Nat \ {0}
    BY <1>3, <1>4, <1>6
  <2>2. ends[2] <= ends[n] /\ ends[2] \in Nat /\ ends[n] \in Nat
    BY <1>1, <1>4, <1>6
  <2> DEFINE x == ends[1]
             y == ends[2]
             z == ends[n]
             c == s[2].size
  <2>3. x \in Nat /\ c \in Nat \ {0} /\ y = x + c /\ y <= z /\ z \in Nat
    BY <1>7, <2>1, <2>2
  <2> HIDE DEF x, y, z, c
  <2>4. x < z
    BY <2>3
  <2> QED
    BY <2>4 DEF x, z
<1>9. ASSUME NEW i \in 0 .. n - 1 PROVE to[i] = ends[i + 1] - ends[1] /\ to[i] \in Nat
  <2>1. i + 1 \in 0 .. n /\ 1 <= i + 1
    BY <1>1
  <2>2. ends[i + 1] \in Nat /\ ends[1] <= ends[i + 1]
    BY <1>4, <1>6, <2>1
  <2> QED
    BY <1>5, <1>7, <2>2
<1>10. to[0] = 0
  <2>1. 0 \in 0 .. n - 1
    BY <1>1
  <2>2. to[0] = ends[0 + 1] - ends[1]
    BY <1>9, <2>1
  <2> QED
    BY <1>7, <2>2
<1>11. to \in [0 .. n - 1 -> Nat]
  BY <1>5, <1>9
<1>12. ASSUME NEW i \in 1 .. n - 1 PROVE to[i] = to[i - 1] + t[i].size
  <2>1. i \in 0 .. n - 1 /\ i - 1 \in 0 .. n - 1 /\ i + 1 \in 1 .. n /\ i \in 0 .. n /\ i - 1 + 1 = i /\ i + 1 - 1 = i
    BY <1>1
  <2>2. to[i] = ends[i + 1] - ends[1] /\ to[i - 1] = ends[i] - ends[1]
    BY <1>9, <2>1
  <2>3. ends[i + 1] = ends[i] + s[i + 1].size /\ s[i + 1].size \in Nat /\ ends[i] \in Nat
    BY <1>3, <1>4, <2>1
  <2>4. t[i] = s[i + 1]
    BY <1>2
  <2> DEFINE a == ends[i + 1]
             b == ends[i]
             c == s[i + 1].size
             d == ends[1]
  <2>5. a = b + c /\ b \in Nat /\ c \in Nat /\ d \in Nat
    BY <1>7, <2>3
  <2> HIDE DEF a, b, c, d
  <2>6. a - d = (b - d) + c
    BY <2>5
  <2> QED
    BY <2>2, <2>4, <2>6, Zenon DEF a, b, c, d
<1>13. ASSUME NEW i \in 0 .. n - 1, NEW j \in 0 .. n - 1, i <= j PROVE to[i] <= to[j]
  <2>1. i + 1 \in 0 .. n /\ j + 1 \in 0 .. n /\ i + 1 <= j + 1
    BY <1>1, <1>13
  <2>2. ends[i + 1] <= ends[j + 1] /\ ends[i + 1] \in Nat /\ ends[j + 1] \in Nat
    BY <1>4, <2>1
  <2>3. to[i] = ends[i + 1] - ends[1] /\ to[j] = ends[j + 1] - ends[1]
    BY <1>9
  <2> DEFINE a == ends[i + 1]
             b == ends[j + 1]
             d == ends[1]
  <2>4. a <= b /\ a \in Nat /\ b \in Nat /\ d \in Nat
    BY <1>7, <2>2
  <2> HIDE DEF a, b, d
  <2>5. a - d <= b - d
    BY <2>4
  <2> QED
    BY <2>3, <2>5 DEF a, b, d
<1>14. Cuts(t, to)
  BY <1>1, <1>10, <1>11, <1>12, <1>13 DEF Cuts
<1> QED
  BY <1>1, <1>7, <1>8, <1>14 DEF n, t

-----------------------------------------------------------------------------
(* FifoSync: blocks skipped stay in order.                                 *)

LEMMA BytesSkip ==
    ASSUME NEW size \in Nat \ {0}, NEW rd \in 0 .. size - 1, NEW wr \in 0 .. size, NEW mem,
           NEW s, NEW ends, Cuts(s, ends), BytesLie(rd, wr, size, mem, s, ends), Len(s) > 1,
           NEW next, next = NormalizePtr(AdvancePtr(rd, s[1].size, size), size),
           NEW to, Behind(ends, Len(s), to)
    PROVE  /\ next \in 0 .. size - 1 /\ next # NormalizePtr(wr, size) /\ GetMaxRead(rd, wr, size) # 0
           /\ BytesLie(next, wr, size, mem, Tail(s), to)
<1> DEFINE m == Len(s)
           t == Tail(s)
           k == s[1].size
           n == GetMaxRead(rd, wr, size)
<1>1. /\ m \in Nat /\ m > 1 /\ Len(t) = m - 1 /\ \A i \in 1 .. m - 1 : t[i] = s[i + 1]
  <2>1. s \in Seq(BlockSet)
    BY DEF Cuts
  <2> QED
    BY <2>1
<1>2. Cuts(t, to) /\ ends[1] = k /\ ends[1] < ends[m]
  BY CutsTail
<1>3. n = ends[m] /\ \A i \in 1 .. m : \A p \in ends[i - 1] .. ends[i] - 1 : mem[Place(rd, p, size)] = s[i].id
  BY DEF BytesLie
<1>4. /\ \A i \in 0 .. m : ends[i] \in Nat
      /\ \A i \in 0 .. m - 1 : to[i] = ends[i + 1] - ends[1]
      /\ \A i, j \in 0 .. m : i <= j => ends[i] <= ends[j]
  <2>1. m \in Nat
    BY <1>1
  <2> HIDE DEF m
  <2> QED
    BY <2>1 DEF Cuts, Behind, m
<1>5. k \in Nat \ {0}
  <2>1. s[1] \in BlockSet
    <3>1. s \in Seq(BlockSet) /\ 1 \in 1 .. Len(s)
      BY <1>1 DEF Cuts
    <3> QED
      BY <3>1
  <2> QED
    BY <2>1 DEF BlockSet
<1> HIDE DEF m, t, k, n
<1>6. k < n /\ n \in Nat /\ ends[m] = n /\ ends[1] = k
  <2>1. ends[m] \in Nat
    BY <1>1, <1>4
  <2> QED
    BY <1>2, <1>3, <2>1
<1>7. next = NormalizePtr(AdvancePtr(rd, k, size), size) /\ n = GetMaxRead(rd, wr, size)
  BY DEF k, n
<1>8. /\ next \in 0 .. size - 1 /\ next # NormalizePtr(wr, size)
      /\ GetMaxRead(next, wr, size) = n - k
      /\ \A p \in 0 .. n - k - 1 : Place(next, p, size) = Place(rd, p + k, size)
  <2>1. k <= GetMaxRead(rd, wr, size)
    BY <1>5, <1>6, <1>7
  <2> QED
    BY <1>5, <1>6, <1>7, <2>1, LessToRead
<1>9. GetMaxRead(next, wr, size) = to[Len(t)]
  <2>1. m - 1 \in 0 .. m - 1 /\ m - 1 + 1 = m
    BY <1>1
  <2>2. to[m - 1] = ends[m] - ends[1]
    BY <1>4, <2>1
  <2> QED
    BY <1>1, <1>6, <1>8, <2>2
<1>10. ASSUME NEW i \in 1 .. m - 1, NEW p \in to[i - 1] .. to[i] - 1
       PROVE  mem[Place(next, p, size)] = t[i].id
  <2> DEFINE a == ends[i]
             b == ends[i + 1]
             q == p + k
  <2>1. i - 1 \in 0 .. m - 1 /\ i \in 0 .. m - 1 /\ i - 1 + 1 = i /\ i + 1 \in 1 .. m /\ i \in 1 .. m
        /\ i \in 0 .. m /\ i + 1 \in 0 .. m /\ i + 1 - 1 = i /\ 1 \in 0 .. m /\ m \in 0 .. m /\ 1 <= i /\ i + 1 <= m
    BY <1>1
  <2>2. to[i - 1] = a - k /\ to[i] = b - k
    BY <1>4, <1>6, <2>1
  <2>3. a \in Nat /\ b \in Nat /\ k <= a /\ b <= n
    <3>1. ends[1] <= ends[i] /\ ends[i + 1] <= ends[m]
      BY <1>4, <2>1
    <3> QED
      BY <1>4, <1>6, <2>1, <3>1
  <2>4. p \in a - k .. b - k - 1
    BY <2>2
  <2>5. q = p + k
    OBVIOUS
  <2> HIDE DEF a, b, q
  <2>6. q \in a .. b - 1 /\ p \in 0 .. n - k - 1
    BY <1>5, <1>6, <2>3, <2>4, <2>5
  <2>7. Place(next, p, size) = Place(rd, q, size)
    BY <1>8, <2>5, <2>6
  <2>8. mem[Place(rd, q, size)] = s[i + 1].id
    <3>1. q \in ends[i + 1 - 1] .. ends[i + 1] - 1
      BY <2>1, <2>6 DEF a, b
    <3> QED
      BY <1>3, <2>1, <3>1
  <2> QED
    BY <1>1, <2>7, <2>8
<1>11. BytesLie(next, wr, size, mem, t, to)
  BY <1>1, <1>9, <1>10 DEF BytesLie
<1> QED
  BY <1>5, <1>6, <1>7, <1>8, <1>11 DEF t

\* What a read that leaves something makes of the ring.
ReadRing(b, next) == [b EXCEPT !.rd = next]

LEMMA AdvanceReadIs ==
    ASSUME NEW b, IsBuffer(b), NEW step,
           NEW next, next = NormalizePtr(AdvancePtr(b.rd, step, b.size), b.size), Readable(b) # 0
    PROVE  LET r == AdvanceReadPtr(b, step)
           IN IF next = NormalizePtr(b.wr, b.size) THEN r.rd = 0 /\ r.wr = 0
              ELSE /\ r.rd = next /\ r.wr = b.wr /\ r.size = b.size /\ r.mem = b.mem
                   /\ r.head = b.head /\ r.tail = b.tail
<1> DEFINE r == AdvanceReadPtr(b, step)
           c == ReadRing(b, next)
<1>1. /\ IsBuffer(c) /\ c.rd = next /\ c.wr = b.wr /\ c.size = b.size /\ c.mem = b.mem
      /\ c.head = b.head /\ c.tail = b.tail
  BY DEF ReadRing, IsBuffer, Fields
<1>2. r = Defrag(c)
  BY DEF AdvanceReadPtr, ReadRing
<1> HIDE DEF c, r
<1>3. CASE next = NormalizePtr(b.wr, b.size)
  <2> DEFINE e == Empty(c)
  <2>1. r = e
    BY <1>1, <1>2, <1>3 DEF Defrag
  <2>2. e.rd = 0 /\ e.wr = 0
    BY <1>1, EmptyIs, Zenon
  <2> QED
    BY <1>3, <2>1, <2>2 DEF r
<1>4. CASE next # NormalizePtr(b.wr, b.size)
  <2>1. r = c
    BY <1>1, <1>2, <1>4 DEF Defrag
  <2> QED
    BY <1>1, <1>4, <2>1 DEF r
<1> QED
  BY <1>3, <1>4

\* Once there is nothing to read nothing comes back.
LEMMA StaysDrained ==
    ASSUME NEW g, Fifo(g), Readable(g.b) = 0, NEW h, h = SkipBlock(g)
    PROVE  Readable(h.b) = 0
<1>1. CASE UsedBuffers(g) = 0
  BY <1>1 DEF SkipBlock
<1>2. CASE UsedBuffers(g) # 0
  <2> DEFINE b == SkipRing(g)
  <2>1. SameBytes(b, h.b)
    BY <1>2, SkipBlockIs
  <2>2. b = g.b
    BY DEF SkipRing, AdvanceReadPtr
  <2> QED
    BY <2>1, <2>2 DEF SameBytes, Readable
<1> QED
  BY <1>1, <1>2

\* What a fifo in use is made of, for the lemmas about its two rings.
LEMMA FifoParts ==
    ASSUME NEW g, Fifo(g)
    PROVE  /\ g.b.size \in Nat \ {0} /\ g.b.rd \in 0 .. g.b.size - 1 /\ g.b.wr \in 0 .. g.b.size
           /\ g.slots \in Nat \ {0} /\ g.b.tail \in 0 .. g.slots - 1 /\ g.b.head \in 0 .. g.slots
           /\ 0 .. g.slots - 1 \subseteq DOMAIN g.len /\ IsBuffer(g.b)
<1>1. g.b.size \in Nat \ {0}
  BY FifoSizeIsNat DEF Fifo, FifoRing
<1>2. g.b.rd \in 0 .. g.b.size - 1 /\ g.b.wr \in 0 .. g.b.size /\ IsBuffer(g.b)
  BY <1>1 DEF Fifo, FifoRing, Formed, Pointers
<1> QED
  BY <1>1, <1>2 DEF Fifo, Slotted

\* The size of the first block is in the tail's slot, its bytes are the first.
LEMMA FirstBlock ==
    ASSUME NEW g, Fifo(g), NEW s, NEW ends, Cuts(s, ends),
           SlotsLie(g.b.tail, g.b.head, g.slots, g.len, s), Len(s) > 0
    PROVE  g.len[g.b.tail] = s[1].size /\ ends[1] = s[1].size /\ s[1].size \in Nat \ {0}
<1>1. s \in Seq(BlockSet) /\ Len(s) \in Nat /\ ends[0] = 0
  BY DEF Cuts
<1>2. s[1] \in BlockSet
  BY <1>1
<1>3. s[1].size \in Nat \ {0}
  BY <1>2 DEF BlockSet
<1>4. ends[1] = ends[1 - 1] + s[1].size
  <2>1. 1 \in 1 .. Len(s)
    BY <1>1
  <2> QED
    BY <2>1 DEF Cuts
<1>5. ends[1] = s[1].size
  BY <1>1, <1>3, <1>4
<1>6. g.len[Place(g.b.tail, 0, g.slots)] = s[0 + 1].size
  <2>1. 0 \in 0 .. Len(s) - 1
    BY <1>1
  <2> QED
    BY <2>1 DEF SlotsLie
<1>7. Place(g.b.tail, 0, g.slots) = g.b.tail
  <2> DEFINE tail == g.b.tail
             slots == g.slots
  <2>1. slots \in Nat \ {0} /\ tail \in 0 .. slots - 1
    BY FifoParts
  <2> HIDE DEF tail, slots
  <2>2. Place(tail, 0, slots) = IF tail + 0 < slots THEN tail + 0 ELSE tail + 0 - slots
    BY <2>1, PlaceIs
  <2>3. Place(tail, 0, slots) = tail
    BY <2>1, <2>2
  <2> QED
    BY <2>3 DEF tail, slots
<1> QED
  BY <1>3, <1>5, <1>6, <1>7

\* A block is skipped whole: those behind it stay as they lie.
LEMMA SkipLays ==
    ASSUME NEW g, Fifo(g), NEW s, Laid(g, s), NEW h, h = SkipBlock(g), Readable(h.b) # 0
    PROVE  Len(s) > 1 /\ Laid(h, Tail(s))
<1>1. PICK ends : /\ Cuts(s, ends)
                  /\ SlotsLie(g.b.tail, g.b.head, g.slots, g.len, s)
                  /\ BytesLie(g.b.rd, g.b.wr, g.b.size, g.b.mem, s, ends)
  BY DEF Laid
<1> DEFINE b == g.b
           r == SkipRing(g)
           size == b.size
           rd == b.rd
           wr == b.wr
           k == s[1].size
           next == NormalizePtr(AdvancePtr(rd, k, size), size)
<1>2. /\ size \in Nat \ {0} /\ rd \in 0 .. size - 1 /\ wr \in 0 .. size /\ IsBuffer(b)
      /\ g.slots \in Nat \ {0} /\ b.tail \in 0 .. g.slots - 1 /\ b.head \in 0 .. g.slots
  BY FifoParts
<1>3. Len(s) \in Nat /\ s \in Seq(BlockSet) /\ UsedBuffers(g) = Len(s) /\ Readable(b) = ends[Len(s)]
  BY <1>1 DEF Cuts, SlotsLie, BytesLie, UsedBuffers, Readable
<1>4. CASE Len(s) = 0
  <2>1. Readable(b) = 0
    BY <1>1, <1>3, <1>4 DEF Cuts
  <2> QED
    BY <2>1, StaysDrained
<1>5. CASE Len(s) # 0
  <2>1. g.len[b.tail] = k /\ ends[1] = k /\ k \in Nat \ {0}
    BY <1>1, <1>3, <1>5, FirstBlock
  <2>2. r = AdvanceReadPtr(b, k)
    BY <2>1 DEF SkipRing
  <2>3. /\ Fifo(h) /\ SameBytes(r, h.b) /\ h.slots = g.slots /\ h.len = g.len /\ size = h.b.size
        /\ IF NextSlot(r.tail, g.slots) = 0 /\ NormalizePtr(r.head, g.slots) = 0
             THEN h.b.tail = 0 /\ h.b.head = 0
             ELSE h.b.tail = NextSlot(r.tail, g.slots) /\ h.b.head = r.head
    BY <1>3, <1>5, SkipBlockIs
  <2>4. Readable(b) # 0
    <3>1. Readable(b) = 0 => Readable(h.b) = 0
      BY StaysDrained
    <3> QED
      BY <3>1
  <2> HIDE DEF r
  <2>5. IF next = NormalizePtr(wr, size) THEN r.rd = 0 /\ r.wr = 0
        ELSE /\ r.rd = next /\ r.wr = wr /\ r.size = size /\ r.mem = b.mem
             /\ r.head = b.head /\ r.tail = b.tail
    BY <1>2, <2>2, <2>4, AdvanceReadIs
  <2>6. next # NormalizePtr(wr, size)
    <3> SUFFICES ASSUME next = NormalizePtr(wr, size) PROVE FALSE
      OBVIOUS
    <3>1. h.b.rd = 0 /\ h.b.wr = 0
      BY <2>3, <2>5 DEF SameBytes
    <3> QED
      BY <3>1 DEF Readable, GetMaxRead
  <2>7. Len(s) > 1
    <3> SUFFICES ASSUME Len(s) = 1 PROVE FALSE
      BY <1>3, <1>5
    <3>1. GetMaxRead(rd, wr, size) = k
      BY <1>3, <2>1 DEF Readable
    <3> DEFINE m == GetMaxRead(rd, wr, size)
    <3>2. k <= m /\ k = m
      BY <2>1, <3>1
    <3> HIDE DEF rd, wr, size, k, m
    <3>3. k <= GetMaxRead(rd, wr, size) /\ k = GetMaxRead(rd, wr, size)
      BY <3>2 DEF m
    <3>4. next = NormalizePtr(wr, size)
      BY <1>2, <2>1, <3>3, LessToRead
    <3> QED
      BY <2>6, <3>4
  <2> DEFINE to == [i \in 0 .. Len(s) - 1 |-> ends[i + 1] - ends[1]]
  <2>8. Behind(ends, Len(s), to)
    BY DEF Behind
  <2> HIDE DEF to
  <2>9. Cuts(Tail(s), to)
    BY <1>1, <2>7, <2>8, CutsTail
  <2>10. BytesLie(next, wr, size, b.mem, Tail(s), to)
    <3> DEFINE mem == b.mem
    <3>1. BytesLie(rd, wr, size, mem, s, ends)
      BY <1>1
    <3> HIDE DEF rd, wr, size, mem
    <3>2. BytesLie(next, wr, size, mem, Tail(s), to)
      BY <1>1, <1>2, <2>7, <2>8, <3>1, BytesSkip
    <3> QED
      BY <3>2 DEF mem
  <2>11. SlotsLie(h.b.tail, h.b.head, h.slots, h.len, Tail(s))
    <3> DEFINE slots == g.slots
               tail == b.tail
               head == b.head
               len == g.len
               slot == NextSlot(tail, slots)
    <3>1. slots \in Nat \ {0} /\ tail \in 0 .. slots - 1 /\ head \in 0 .. slots /\ SlotsLie(tail, head, slots, len, s)
      BY <1>1, <1>2
    <3>2. ~(slot = 0 /\ NormalizePtr(head, slots) = 0) /\ SlotsLie(slot, head, slots, len, Tail(s))
      <4> HIDE DEF slots, tail, head, len
      <4> QED
        BY <1>3, <2>7, <3>1, SlotsSkip
    <3>3. r.tail = tail /\ r.head = head
      BY <2>5, <2>6
    <3>4. h.b.tail = slot /\ h.b.head = head
      BY <2>3, <3>2, <3>3
    <3> QED
      BY <2>3, <3>2, <3>4
  <2>12. h.b.rd = next /\ h.b.wr = wr /\ h.b.size = size /\ h.b.mem = b.mem
    BY <2>3, <2>5, <2>6 DEF SameBytes
  <2> HIDE DEF next
  <2>13. Laid(h, Tail(s))
    BY <2>9, <2>10, <2>11, <2>12 DEF Laid
  <2> QED
    BY <2>7, <2>13
<1> QED
  BY <1>4, <1>5

LEMMA SubSeqIs ==
    ASSUME NEW S, NEW s \in Seq(S), NEW m \in 1 .. Len(s) + 1
    PROVE  /\ SubSeq(s, m, Len(s)) \in Seq(S)
           /\ Len(SubSeq(s, m, Len(s))) = Len(s) - m + 1
           /\ \A i \in 1 .. Len(s) - m + 1 : SubSeq(s, m, Len(s))[i] = s[m + i - 1]
OBVIOUS

LEMMA SameSeq ==
    ASSUME NEW S, NEW s \in Seq(S), NEW t \in Seq(S), Len(s) = Len(t),
           \A i \in 1 .. Len(s) : s[i] = t[i]
    PROVE  s = t
OBVIOUS

Appended(s, x, t) == t = Append(s, x)

LEMMA AppendIs ==
    ASSUME NEW S, NEW s \in Seq(S), NEW x \in S, NEW t, Appended(s, x, t)
    PROVE  t \in Seq(S) /\ Len(t) = Len(s) + 1 /\ t[Len(s) + 1] = x /\ \A i \in 1 .. Len(s) : t[i] = s[i]
BY DEF Appended

LEMMA SubSeqAll == ASSUME NEW S, NEW s \in Seq(S) PROVE SubSeq(s, 1, Len(s)) = s
<1> DEFINE t == SubSeq(s, 1, Len(s))
<1>1. Len(s) \in Nat /\ 1 \in 1 .. Len(s) + 1
  OBVIOUS
<1>2. t \in Seq(S) /\ Len(t) = Len(s) - 1 + 1 /\ \A i \in 1 .. Len(s) - 1 + 1 : t[i] = s[1 + i - 1]
  BY <1>1, SubSeqIs
<1> HIDE DEF t
<1>3. Len(t) = Len(s) /\ \A i \in 1 .. Len(t) : t[i] = s[i]
  BY <1>1, <1>2
<1>4. t = s
  BY <1>2, <1>3, SameSeq
<1> QED
  BY <1>4 DEF t

LEMMA SubSeqTail ==
    ASSUME NEW S, NEW s \in Seq(S), NEW m \in 1 .. Len(s)
    PROVE  Tail(SubSeq(s, m, Len(s))) = SubSeq(s, m + 1, Len(s))
<1> DEFINE n == Len(s)
           a == SubSeq(s, m, n)
           b == SubSeq(s, m + 1, n)
<1>1. n \in Nat /\ m \in 1 .. n + 1 /\ m + 1 \in 1 .. n + 1
  OBVIOUS
<1>2. a \in Seq(S) /\ Len(a) = n - m + 1 /\ \A i \in 1 .. n - m + 1 : a[i] = s[m + i - 1]
  BY <1>1, SubSeqIs
<1>3. b \in Seq(S) /\ Len(b) = n - (m + 1) + 1 /\ \A i \in 1 .. n - (m + 1) + 1 : b[i] = s[m + 1 + i - 1]
  BY <1>1, SubSeqIs
<1> HIDE DEF n, a, b
<1>4. Tail(a) \in Seq(S) /\ Len(Tail(a)) = n - m /\ \A i \in 1 .. n - m : Tail(a)[i] = a[i + 1]
  <2>1. Len(a) >= 1
    BY <1>1, <1>2 DEF n
  <2> QED
    BY <1>1, <1>2, <2>1
<1>5. ASSUME NEW i \in 1 .. n - m PROVE Tail(a)[i] = b[i]
  <2>1. i + 1 \in 1 .. n - m + 1 /\ i \in 1 .. n - (m + 1) + 1 /\ m + (i + 1) - 1 = m + 1 + i - 1
    BY <1>1
  <2>2. a[i + 1] = s[m + (i + 1) - 1] /\ b[i] = s[m + 1 + i - 1]
    BY <1>2, <1>3, <2>1
  <2> QED
    BY <1>4, <2>1, <2>2
<1>6. Len(b) = n - m
  BY <1>1, <1>3
<1>7. Tail(a) = b
  <2> DEFINE t == Tail(a)
  <2>1. t \in Seq(S) /\ Len(t) = Len(b) /\ \A i \in 1 .. Len(t) : t[i] = b[i]
    BY <1>4, <1>5, <1>6
  <2> HIDE DEF t
  <2>2. t = b
    BY <1>3, <2>1, SameSeq
  <2> QED
    BY <2>2 DEF t
<1> QED
  BY <1>7 DEF a, b, n

\* The last blocks, the one behind them included.
LEMMA LastAppend ==
    ASSUME NEW S, NEW s \in Seq(S), NEW x \in S, NEW k \in 0 .. Len(s),
           NEW all, Appended(s, x, all)
    PROVE  Last(all, Len(s) - k + 1) = Append(SubSeq(s, k + 1, Len(s)), x)
<1> DEFINE n == Len(s)
           m == k + 1
           a == SubSeq(all, m, n + 1)
           b == SubSeq(s, m, n)
           c == Append(b, x)
<1>1. n \in Nat /\ m \in 1 .. n + 1
  OBVIOUS
<1>2. all \in Seq(S) /\ Len(all) = n + 1 /\ all[n + 1] = x /\ \A i \in 1 .. n : all[i] = s[i]
  BY AppendIs
<1>3. b \in Seq(S) /\ Len(b) = n - m + 1 /\ \A i \in 1 .. n - m + 1 : b[i] = s[m + i - 1]
  BY <1>1, SubSeqIs
<1>4. a \in Seq(S) /\ Len(a) = (n + 1) - m + 1 /\ \A i \in 1 .. (n + 1) - m + 1 : a[i] = all[m + i - 1]
  <2> DEFINE u == n + 1
  <2>1. m \in 1 .. Len(all) + 1 /\ u = Len(all)
    BY <1>1, <1>2
  <2> HIDE DEF n, m, u
  <2>2. SubSeq(all, m, u) \in Seq(S) /\ Len(SubSeq(all, m, u)) = u - m + 1
        /\ \A i \in 1 .. u - m + 1 : SubSeq(all, m, u)[i] = all[m + i - 1]
    BY <1>2, <2>1, SubSeqIs
  <2> QED
    BY <2>2, Zenon DEF u
<1>5. Last(all, n - k + 1) = a
  <2>1. k \in Nat
    OBVIOUS
  <2>2. Last(all, n - k + 1) = SubSeq(all, Len(all) - (n - k + 1) + 1, Len(all))
    BY DEF Last
  <2> DEFINE u == n - k + 1
             v == Len(all)
  <2>3. v = n + 1 /\ u = n - k + 1 /\ m = k + 1
    BY <1>2
  <2> HIDE DEF n, m, u, v
  <2>4. v - u + 1 = m
    BY <1>1, <2>1, <2>3
  <2> QED
    BY <2>2, <2>3, <2>4 DEF u, v
<1>6. Appended(b, x, c)
  BY DEF Appended
<1> HIDE DEF n, m, a, b, c
<1>7. c \in Seq(S) /\ Len(c) = Len(b) + 1 /\ c[Len(b) + 1] = x /\ \A i \in 1 .. Len(b) : c[i] = b[i]
  BY <1>3, <1>6, AppendIs
<1>8. Len(a) = n - m + 2 /\ Len(b) = n - m + 1 /\ Len(c) = n - m + 2
  BY <1>1, <1>3, <1>4, <1>7
<1>9. ASSUME NEW i \in 1 .. n - m + 2 PROVE a[i] = c[i]
  <2> DEFINE j == m + i - 1
  <2>1. i \in 1 .. (n + 1) - m + 1
    BY <1>1
  <2>2. a[i] = all[j]
    BY <1>4, <2>1
  <2>3. CASE i = n - m + 2
    <3>1. j = n + 1 /\ Len(b) + 1 = i
      BY <1>1, <1>8, <2>3
    <3> QED
      BY <1>2, <1>7, <2>2, <3>1
  <2>4. CASE i # n - m + 2
    <3>1. i \in 1 .. n - m + 1 /\ j \in 1 .. n
      BY <1>1, <2>4
    <3>2. c[i] = b[i]
      BY <1>7, <1>8, <3>1
    <3>3. b[i] = s[j]
      BY <1>3, <3>1
    <3>4. all[j] = s[j]
      BY <1>2, <3>1
    <3> QED
      BY <2>2, <3>2, <3>3, <3>4
  <2> QED
    BY <2>3, <2>4
<1>10. a = c
  <2>1. Len(a) = Len(c) /\ \A i \in 1 .. Len(a) : a[i] = c[i]
    BY <1>8, <1>9
  <2> QED
    BY <1>4, <1>7, <2>1, SameSeq
<1> QED
  BY <1>5, <1>10 DEF b, c, m, n

\* However many blocks are knocked out, those behind them stay.
Left(g, s, k) ==
    Readable(Skips(g)[k].b) # 0 => k <= Len(s) /\ Laid(Skips(g)[k], SubSeq(s, k + 1, Len(s)))

LEMMA SkipsLay ==
    ASSUME NEW g, Fifo(g), NEW s, Laid(g, s), NEW n \in 0 .. 2 * g.slots
    PROVE  Left(g, s, n)
<1> DEFINE S == {k \in Nat : k <= 2 * g.slots /\ ~Left(g, s, k)}
           m == LeastOf(S)
<1>1. g.slots \in Nat /\ s \in Seq(BlockSet) /\ Len(s) \in Nat
  BY DEF Fifo, Slotted, Laid, Cuts
<1>2. Skips(g)[0] = g /\ \A k \in 1 .. 2 * g.slots : Skips(g)[k] = SkipBlock(Skips(g)[k - 1])
  BY <1>1, SkipsAre
<1> SUFFICES ASSUME S # {} PROVE FALSE
  BY <1>1
<1>3. m \in S /\ \A k \in S : m <= k
  <2>1. S \subseteq Nat /\ S # {}
    OBVIOUS
  <2> HIDE DEF S
  <2> QED
    BY <2>1, LeastOfNat
<1> HIDE DEF m
<1>4. m \in Nat /\ m <= 2 * g.slots /\ ~Left(g, s, m)
  BY <1>3
<1>5. m # 0
  <2>1. SubSeq(s, 0 + 1, Len(s)) = s
    BY <1>1, SubSeqAll
  <2>2. 0 <= Len(s)
    BY <1>1
  <2>3. Left(g, s, 0)
    BY <1>2, <2>1, <2>2, Zenon DEF Left
  <2> QED
    BY <1>4, <2>3
<1>6. /\ m - 1 \in Nat /\ ~(m <= m - 1) /\ m - 1 <= 2 * g.slots
      /\ m \in 1 .. 2 * g.slots /\ m - 1 \in 0 .. 2 * g.slots
  BY <1>1, <1>4, <1>5
<1>7. Left(g, s, m - 1)
  BY <1>3, <1>6
<1> DEFINE a == Skips(g)[m - 1]
           b == Skips(g)[m]
           t == SubSeq(s, m, Len(s))
<1>8. b = SkipBlock(a) /\ Fifo(a)
  BY <1>2, <1>6, SkipsKeep DEF Rest
<1> SUFFICES ASSUME Readable(b.b) # 0 PROVE m <= Len(s) /\ Laid(b, SubSeq(s, m + 1, Len(s)))
  BY <1>4 DEF Left
<1>9. Readable(a.b) # 0
  <2> HIDE DEF a, b
  <2> QED
    BY <1>8, StaysDrained
<1>10. m - 1 <= Len(s) /\ Laid(a, t)
  <2>1. m - 1 + 1 = m
    BY <1>4
  <2> QED
    BY <1>7, <1>9, <2>1 DEF Left
<1>11. Len(t) > 1 /\ Laid(b, Tail(t))
  <2> HIDE DEF a, b, t
  <2> QED
    BY <1>8, <1>10, SkipLays
<1>12. Len(t) = Len(s) - m + 1
  <2>1. m \in 1 .. Len(s) + 1
    BY <1>1, <1>6, <1>10
  <2> QED
    BY <1>1, <2>1, SubSeqIs
<1>13. m \in 1 .. Len(s)
  BY <1>1, <1>6, <1>10, <1>11, <1>12
<1>14. Tail(t) = SubSeq(s, m + 1, Len(s))
  BY <1>1, <1>13, SubSeqTail
<1>15. m <= Len(s)
  BY <1>13
<1> QED
  BY <1>11, <1>14, <1>15, Zenon

-----------------------------------------------------------------------------
(* FifoSync: a block written lies behind the others.                       *)

\* A write pointer that advances by n in the room there is, unless it ends on
\* the read pointer.
LEMMA MoreToRead ==
    ASSUME NEW size \in Nat \ {0}, NEW r \in 0 .. size - 1, NEW w \in 0 .. size - 1,
           NEW n \in Nat \ {0}, n <= GetMaxWrite(r, w, size),
           NEW next, next = AdvancePtr(w, n, size), GetMaxRead(r, next, size) # 0
    PROVE  LET m == GetMaxRead(r, w, size)
           IN /\ next \in 0 .. size /\ m \in Nat /\ m + n <= size
              /\ GetMaxRead(r, next, size) = m + n
              /\ \A i \in 0 .. n - 1 : Place(w, i, size) = Place(r, m + i, size)
<1> DEFINE m == GetMaxRead(r, w, size)
           x == GetMaxRead(r, next, size)
           room == GetMaxWrite(r, w, size)
<1>0. w \in 0 .. size
  OBVIOUS
<1>1. m = IF r = w THEN 0 ELSE IF w > r THEN w - r ELSE size - r + w
  BY <1>0, MaxReadIs
<1>2. room = IF r = w THEN size
             ELSE IF w > r THEN size - (w - r)
             ELSE IF w + 1 = r THEN 0 ELSE r - w
  <2>1. room = IF w = size THEN IF r <= 1 THEN 0 ELSE r
             ELSE IF r = w THEN size
             ELSE IF w > r THEN size - (w - r)
             ELSE IF w + 1 = r THEN 0 ELSE r - w
    BY <1>0, MaxWriteIs
  <2> HIDE DEF room
  <2> QED
    BY <2>1
<1>3. n <= room /\ x # 0
  OBVIOUS
<1> HIDE DEF m, x, room
<1>4. n <= size
  BY <1>2, <1>3
<1>5. next = IF w + n <= size THEN w + n ELSE IF w + n = 2 * size THEN 0 ELSE w + n - size
  <2>1. w + n <= 2 * size /\ w \in Nat /\ n \in Nat
    BY <1>4
  <2> QED
    BY <2>1, AdvanceIs
<1>6. next = (IF w + n <= size THEN w + n ELSE w + n - size) /\ next \in 0 .. size
  BY <1>4, <1>5
<1>7. x = IF r = next THEN 0 ELSE IF next > r THEN next - r ELSE size - r + next
  BY <1>6, MaxReadIs DEF x
<1>8. x = m + n /\ m \in Nat /\ m + n <= size
  BY <1>1, <1>2, <1>3, <1>6, <1>7
<1>9. ASSUME NEW i \in 0 .. n - 1 PROVE Place(w, i, size) = Place(r, m + i, size)
  <2> DEFINE j == m + i
             a == Place(w, i, size)
             b == Place(r, j, size)
  <2>1. i \in 0 .. size /\ j \in 0 .. size /\ j = m + i
    BY <1>8
  <2> HIDE DEF j
  <2>2. a = IF w + i < size THEN w + i ELSE w + i - size
    BY <2>1, PlaceIs
  <2>3. b = IF r + j < size THEN r + j ELSE r + j - size
    BY <2>1, PlaceIs
  <2> HIDE DEF a, b
  <2>4. a = b
    BY <1>1, <1>8, <2>1, <2>2, <2>3
  <2> QED
    BY <2>4 DEF a, b, j
<1> QED
  BY <1>6, <1>8, <1>9 DEF m, x

\* The k bytes of a block, and no others.
LEMMA BlockBytes ==
    ASSUME NEW b, NEW size \in Nat \ {0}, Ring(b, size), NEW from \in 0 .. size - 1, NEW k \in 0 .. size,
           NEW id, NEW mem, BlockCopied(b, mem, id, k, from)
    PROVE  /\ \A i \in 0 .. k - 1 : mem[Place(from, i, size)] = id
           /\ \A p \in 0 .. size - 1 :
                 (\A i \in 0 .. k - 1 : p # Place(from, i, size)) => mem[p] = b.mem[p]
<1> DEFINE data == [i \in 1 .. k |-> id]
           views == Views(from, k, size)
<1>1. mem = [i \in 0 .. size - 1 |->
              IF \E v \in views : v[2] = i
                THEN data[(CHOOSE v \in views : v[2] = i)[1] + 1] ELSE b.mem[i]]
  BY DEF Copied, BlockCopied, Ring
<1>2. views = {<<i, Place(from, i, size)>> : i \in 0 .. k - 1}
  BY DEF Views, Place
<1>3. \A i \in 0 .. k - 1 : data[i + 1] = id
  <2>1. \A i \in 0 .. k - 1 : i + 1 \in 1 .. k
    OBVIOUS
  <2> QED
    BY <2>1
<1> HIDE DEF data, views
<1>4. ASSUME NEW i \in 0 .. k - 1 PROVE mem[Place(from, i, size)] = id
  <2> DEFINE p == Place(from, i, size)
  <2>1. p \in 0 .. size - 1
    <3>1. i \in 0 .. size
      OBVIOUS
    <3> QED
      BY <3>1, PlaceIs
  <2>2. \E v \in views : v[2] = p
    <3>1. <<i, p>> \in views /\ <<i, p>>[2] = p
      BY <1>2
    <3> QED
      BY <3>1
  <2> HIDE DEF p
  <2> DEFINE v == CHOOSE v \in views : v[2] = p
  <2>3. v \in views
    BY <2>2
  <2>4. mem[p] = data[v[1] + 1]
    BY <1>1, <2>1, <2>2
  <2> HIDE DEF v
  <2>5. v[1] \in 0 .. k - 1
    BY <1>2, <2>3
  <2>6. mem[p] = id
    BY <1>3, <2>4, <2>5
  <2> QED
    BY <2>6 DEF p
<1>5. ASSUME NEW p \in 0 .. size - 1, \A i \in 0 .. k - 1 : p # Place(from, i, size)
      PROVE  mem[p] = b.mem[p]
  <2>1. ~ \E v \in views : v[2] = p
    BY <1>2, <1>5
  <2> QED
    BY <1>1, <2>1
<1> QED
  BY <1>4, <1>5

\* The blocks with one more behind them.
InFront(ends, n, more, to) == to = [i \in 0 .. n + 1 |-> IF i <= n THEN ends[i] ELSE ends[n] + more]

LEMMA CutsAppend ==
    ASSUME NEW s, NEW ends, Cuts(s, ends), NEW x \in BlockSet, NEW t, Appended(s, x, t),
           NEW to, InFront(ends, Len(s), x.size, to)
    PROVE  Cuts(t, to)
<1> DEFINE n == Len(s)
           k == x.size
           last == ends[n]
<1>1. n \in Nat /\ k \in Nat \ {0} /\ s \in Seq(BlockSet)
  BY DEF Cuts, BlockSet
<1>2. t \in Seq(BlockSet) /\ Len(t) = n + 1 /\ t[n + 1] = x /\ \A i \in 1 .. n : t[i] = s[i]
  BY <1>1, AppendIs
<1>3. /\ ends[0] = 0 /\ \A i \in 0 .. n : ends[i] \in Nat
      /\ \A i \in 1 .. n : ends[i] = ends[i - 1] + s[i].size
      /\ \A i, j \in 0 .. n : i <= j => ends[i] <= ends[j]
  BY DEF Cuts
<1>4. last \in Nat /\ \A i \in 0 .. n : ends[i] <= last
  <2>1. n \in 0 .. n
    BY <1>1
  <2> QED
    BY <1>3, <2>1
<1> HIDE DEF n, last
<1>5. /\ DOMAIN to = 0 .. n + 1 /\ to[n + 1] = last + k
      /\ \A i \in 0 .. n : to[i] = ends[i]
  BY <1>1 DEF InFront, n, last
<1>6. to \in [0 .. n + 1 -> Nat]
  <2>1. to = [i \in 0 .. n + 1 |-> to[i]]
    BY DEF InFront, n
  <2>2. ASSUME NEW i \in 0 .. n + 1 PROVE to[i] \in Nat
    <3>1. CASE i = n + 1
      BY <1>1, <1>4, <1>5, <3>1
    <3>2. CASE i # n + 1
      <4>1. i \in 0 .. n
        BY <1>1, <3>2
      <4> QED
        BY <1>3, <1>5, <4>1
    <3> QED
      BY <3>1, <3>2
  <2> QED
    BY <2>1, <2>2
<1>7. to[0] = 0
  <2>1. 0 \in 0 .. n
    BY <1>1
  <2> QED
    BY <1>3, <1>5, <2>1
<1>8. ASSUME NEW i \in 1 .. n + 1 PROVE to[i] = to[i - 1] + t[i].size
  <2>1. CASE i = n + 1
    <3>1. i - 1 = n /\ n \in 0 .. n
      BY <1>1, <2>1
    <3>2. to[i - 1] = last /\ to[i] = last + k
      BY <1>5, <2>1, <3>1 DEF last
    <3> QED
      BY <1>2, <2>1, <3>2
  <2>2. CASE i # n + 1
    <3>1. i \in 1 .. n /\ i \in 0 .. n /\ i - 1 \in 0 .. n
      BY <1>1, <2>2
    <3>2. to[i] = ends[i] /\ to[i - 1] = ends[i - 1] /\ t[i] = s[i]
      BY <1>2, <1>5, <3>1
    <3> QED
      BY <1>3, <3>1, <3>2
  <2> QED
    BY <2>1, <2>2
<1>9. ASSUME NEW i \in 0 .. n + 1, NEW j \in 0 .. n + 1, i <= j PROVE to[i] <= to[j]
  <2>1. CASE j = n + 1 /\ i = n + 1
    BY <1>1, <1>4, <1>5, <2>1
  <2>2. CASE j = n + 1 /\ i # n + 1
    <3>1. i \in 0 .. n
      BY <1>1, <2>2
    <3>2. to[i] <= last /\ to[i] \in Nat
      BY <1>3, <1>4, <1>5, <3>1
    <3> QED
      BY <1>1, <1>4, <1>5, <2>2, <3>2
  <2>3. CASE j # n + 1
    <3>1. i \in 0 .. n /\ j \in 0 .. n
      BY <1>1, <1>9, <2>3
    <3> QED
      BY <1>3, <1>5, <1>9, <3>1
  <2> QED
    BY <2>1, <2>2, <2>3
<1> QED
  BY <1>2, <1>6, <1>7, <1>8, <1>9 DEF Cuts

LEMMA BytesAppend ==
    ASSUME NEW b, NEW size \in Nat \ {0}, Ring(b, size),
           NEW rd \in 0 .. size - 1, NEW wr \in 0 .. size - 1,
           NEW s, NEW ends, Cuts(s, ends), BytesLie(rd, wr, size, b.mem, s, ends),
           NEW x \in BlockSet, x.size <= GetMaxWrite(rd, wr, size),
           NEW next, next = AdvancePtr(wr, x.size, size), GetMaxRead(rd, next, size) # 0,
           NEW mem, BlockCopied(b, mem, x.id, x.size, wr),
           NEW t, Appended(s, x, t), NEW to, InFront(ends, Len(s), x.size, to)
    PROVE  BytesLie(rd, next, size, mem, t, to)
<1> DEFINE n == Len(s)
           k == x.size
           m == GetMaxRead(rd, wr, size)
           id == x.id
<1>1. n \in Nat /\ k \in Nat \ {0} /\ s \in Seq(BlockSet)
  BY DEF Cuts, BlockSet
<1>2. Len(t) = n + 1 /\ t[n + 1] = x /\ \A i \in 1 .. n : t[i] = s[i]
  BY <1>1, AppendIs
<1>3. /\ \A i \in 0 .. n : ends[i] \in Nat
      /\ \A i, j \in 0 .. n : i <= j => ends[i] <= ends[j]
  BY DEF Cuts
<1>4. m = ends[n] /\ \A i \in 1 .. n : \A p \in ends[i - 1] .. ends[i] - 1 : b.mem[Place(rd, p, size)] = s[i].id
  BY DEF BytesLie
<1>5. k <= GetMaxWrite(rd, wr, size) /\ next = AdvancePtr(wr, k, size)
  OBVIOUS
<1>6. BlockCopied(b, mem, id, k, wr)
  OBVIOUS
<1>7. /\ DOMAIN to = 0 .. n + 1 /\ to[n + 1] = ends[n] + k
      /\ \A i \in 0 .. n : to[i] = ends[i]
  <2>1. n \in Nat
    BY <1>1
  <2> HIDE DEF n, k
  <2> QED
    BY <2>1 DEF InFront, n, k
<1> HIDE DEF n, k, id
<1>8. /\ m \in Nat /\ m + k <= size
      /\ GetMaxRead(rd, next, size) = m + k
      /\ \A i \in 0 .. k - 1 : Place(wr, i, size) = Place(rd, m + i, size)
  BY <1>1, <1>5, MoreToRead
<1> HIDE DEF m
<1>9. /\ \A i \in 0 .. k - 1 : mem[Place(wr, i, size)] = id
      /\ \A p \in 0 .. size - 1 :
            (\A i \in 0 .. k - 1 : p # Place(wr, i, size)) => mem[p] = b.mem[p]
  <2>1. k \in 0 .. size
    BY <1>1, <1>8
  <2> QED
    BY <1>6, <2>1, BlockBytes
<1>10. GetMaxRead(rd, next, size) = to[Len(t)]
  BY <1>2, <1>4, <1>7, <1>8
<1>11. ASSUME NEW i \in 1 .. n, NEW p \in ends[i - 1] .. ends[i] - 1
       PROVE  mem[Place(rd, p, size)] = s[i].id
  <2> DEFINE q == Place(rd, p, size)
             top == ends[i]
             low == ends[i - 1]
  <2>1. top \in Nat /\ low \in Nat /\ top <= m
    <3>1. i \in 0 .. n /\ i - 1 \in 0 .. n /\ n \in 0 .. n /\ i <= n
      BY <1>1
    <3> QED
      BY <1>3, <1>4, <3>1
  <2>2. p \in low .. top - 1
    OBVIOUS
  <2> HIDE DEF top, low
  <2>3. p \in 0 .. size - 1 /\ p \in 0 .. size /\ p < m
    BY <1>1, <1>8, <2>1, <2>2
  <2>4. q \in 0 .. size - 1
    BY <2>3, PlaceIs
  <2>5. ASSUME NEW j \in 0 .. k - 1 PROVE q # Place(wr, j, size)
    <3> DEFINE h == m + j
    <3>1. h \in 0 .. size - 1 /\ p # h
      BY <1>1, <1>8, <2>3
    <3>2. Place(wr, j, size) = Place(rd, h, size)
      BY <1>8
    <3> HIDE DEF h
    <3> QED
      BY <2>3, <3>1, <3>2, PlacesDiffer
  <2>6. b.mem[q] = s[i].id
    BY <1>4, <2>2 DEF top, low
  <2> HIDE DEF q
  <2>7. mem[q] = b.mem[q]
    BY <1>9, <2>4, <2>5
  <2> QED
    BY <2>6, <2>7 DEF q
<1>12. ASSUME NEW p \in m .. (m + k) - 1 PROVE mem[Place(rd, p, size)] = id
  <2> DEFINE i == p - m
  <2>1. i \in 0 .. k - 1 /\ m + i = p
    BY <1>1, <1>8
  <2> HIDE DEF i
  <2>2. Place(wr, i, size) = Place(rd, p, size)
    BY <1>8, <2>1
  <2> QED
    BY <1>9, <2>1, <2>2
<1>13. ASSUME NEW i \in 1 .. n + 1, NEW p \in to[i - 1] .. to[i] - 1
       PROVE  mem[Place(rd, p, size)] = t[i].id
  <2>1. CASE i = n + 1
    <3>1. i - 1 = n /\ n \in 0 .. n
      BY <1>1, <2>1
    <3>2. to[i - 1] = m /\ to[i] = m + k
      BY <1>4, <1>7, <2>1, <3>1
    <3>3. p \in m .. (m + k) - 1
      BY <3>2
    <3>4. t[i] = x
      BY <1>2, <2>1
    <3> QED
      BY <1>12, <3>3, <3>4 DEF id
  <2>2. CASE i # n + 1
    <3>1. i \in 1 .. n /\ i \in 0 .. n /\ i - 1 \in 0 .. n
      BY <1>1, <2>2
    <3>2. to[i] = ends[i] /\ to[i - 1] = ends[i - 1] /\ t[i] = s[i]
      BY <1>2, <1>7, <3>1
    <3> QED
      BY <1>11, <3>1, <3>2
  <2> QED
    BY <2>1, <2>2
<1> QED
  BY <1>2, <1>10, <1>13 DEF BytesLie

\* Growing moves the bytes to the front, and there is the more room.
LEMMA BytesMoved ==
    ASSUME NEW size \in Nat \ {0}, NEW rd \in 0 .. size - 1, NEW wr \in 0 .. size, NEW old,
           NEW s, NEW ends, Cuts(s, ends), BytesLie(rd, wr, size, old, s, ends),
           NEW k \in Nat \ {0}, k <= GetMaxWrite(rd, wr, size),
           NEW max \in Nat, max >= size, NEW to, to = GetMaxRead(rd, wr, size), NEW mem,
           \A p \in 0 .. to - 1 : mem[p] = old[Place(rd, p, size)]
    PROVE  to \in 0 .. max - 1 /\ k <= GetMaxWrite(0, to, max) /\ BytesLie(0, to, max, mem, s, ends)
<1>1. to = (IF rd = wr THEN 0 ELSE IF wr > rd THEN wr - rd ELSE size - rd + wr) /\ to \in 0 .. size
  BY MaxReadIs, MaxReadBounded
<1> DEFINE room == GetMaxWrite(rd, wr, size)
<1>2. room = IF wr = size THEN IF rd <= 1 THEN 0 ELSE rd
             ELSE IF rd = wr THEN size
             ELSE IF wr > rd THEN size - (wr - rd)
             ELSE IF wr + 1 = rd THEN 0 ELSE rd - wr
  BY MaxWriteIs
<1>3. k <= room
  OBVIOUS
<1> HIDE DEF room
<1>4. to + k <= size /\ to \in 0 .. max - 1 /\ to \in 0 .. max /\ max \in Nat \ {0} /\ 0 \in 0 .. max - 1
  BY <1>1, <1>2, <1>3
<1>5. k <= GetMaxWrite(0, to, max)
  <2> DEFINE x == GetMaxWrite(0, to, max)
  <2>1. x = IF to = max THEN IF 0 <= 1 THEN 0 ELSE 0
            ELSE IF 0 = to THEN max
            ELSE IF to > 0 THEN max - (to - 0)
            ELSE IF to + 1 = 0 THEN 0 ELSE 0 - to
    BY <1>4, MaxWriteIs
  <2> HIDE DEF x
  <2>2. k <= x
    BY <1>4, <2>1
  <2> QED
    BY <2>2 DEF x
<1>6. GetMaxRead(0, to, max) = to
  <2> DEFINE x == GetMaxRead(0, to, max)
  <2>1. x = IF 0 = to THEN 0 ELSE IF to > 0 THEN to - 0 ELSE max - 0 + to
    BY <1>4, MaxReadIs
  <2> HIDE DEF x
  <2>2. x = to
    BY <1>4, <2>1
  <2> QED
    BY <2>2 DEF x
<1> DEFINE n == Len(s)
<1>7. n \in Nat /\ \A i \in 0 .. n : ends[i] \in Nat
  BY DEF Cuts
<1>8. \A i, j \in 0 .. n : i <= j => ends[i] <= ends[j]
  BY DEF Cuts
<1>9. to = ends[n] /\ \A i \in 1 .. n : \A p \in ends[i - 1] .. ends[i] - 1 : old[Place(rd, p, size)] = s[i].id
  BY DEF BytesLie
<1> HIDE DEF n
<1>10. ASSUME NEW i \in 1 .. n, NEW p \in ends[i - 1] .. ends[i] - 1
       PROVE  mem[Place(0, p, max)] = s[i].id
  <2> DEFINE top == ends[i]
             low == ends[i - 1]
  <2>1. top \in Nat /\ low \in Nat /\ top <= to
    <3>1. i \in 0 .. n /\ i - 1 \in 0 .. n /\ n \in 0 .. n /\ i <= n
      BY <1>7
    <3> QED
      BY <1>7, <1>8, <1>9, <3>1
  <2>2. p \in low .. top - 1
    OBVIOUS
  <2> HIDE DEF top, low
  <2>3. p \in 0 .. to - 1 /\ p \in 0 .. max /\ p < max
    BY <1>4, <2>1, <2>2
  <2>4. Place(0, p, max) = p
    <3> DEFINE x == Place(0, p, max)
    <3>1. x = IF 0 + p < max THEN 0 + p ELSE 0 + p - max
      BY <1>4, <2>3, PlaceIs
    <3> HIDE DEF x
    <3>2. x = p
      BY <2>3, <3>1
    <3> QED
      BY <3>2 DEF x
  <2>5. old[Place(rd, p, size)] = s[i].id
    BY <1>9
  <2>6. mem[p] = old[Place(rd, p, size)]
    BY <2>3
  <2> QED
    BY <2>4, <2>5, <2>6
<1> QED
  BY <1>4, <1>5, <1>6, <1>9, <1>10 DEF BytesLie, n

\* The ring of a fifo with room for n bytes, in which the blocks s lie.
HasBlocks(b, n, s, ends) ==
    /\ BytesLie(b.rd, b.wr, b.size, b.mem, s, ends)
    /\ b.wr # b.size /\ n <= GetMaxWrite(b.rd, b.wr, b.size)

LEMMA EnsuredHasBlocks ==
    ASSUME NEW g, Ready(g), NEW n \in Blocks, MayGrow(g.b, n), NEW s, NEW ends, Cuts(s, ends),
           HasBlocks(g.b, n, s, ends), NEW c, c = Ensured(g, n)
    PROVE  HasBlocks(c, n, s, ends)
<1> DEFINE b == g.b
           size == b.size
           rd == b.rd
           wr == b.wr
           old == b.mem
           max == c.size
           to == c.wr
           mem == c.mem
<1>1. FifoRing(c) /\ max >= size /\ (c = b \/ Moved(b, c))
  BY EnsuredIs
<1>2. size \in Nat \ {0} /\ rd \in 0 .. size - 1 /\ wr \in 0 .. size /\ max \in Nat
  <2>1. Fifo(g)
    BY DEF Ready
  <2>2. max \in Nat
    BY <1>1, FifoSizeIsNat DEF FifoRing
  <2> QED
    BY <2>1, <2>2, FifoParts
<1>3. BytesLie(rd, wr, size, old, s, ends) /\ n <= GetMaxWrite(rd, wr, size) /\ n \in Nat \ {0}
  BY FifoConstants DEF HasBlocks
<1>4. CASE c = b
  BY <1>4
<1>5. CASE Moved(b, c)
  <2>1. /\ to = GetMaxRead(rd, wr, size) /\ c.rd = 0
        /\ \A p \in 0 .. to - 1 : mem[p] = old[Place(rd, p, size)]
    BY <1>5 DEF Moved, Front, Place
  <2>2. max >= size
    BY <1>1
  <2> HIDE DEF size, rd, wr, old, max, to, mem
  <2>3. to \in 0 .. max - 1 /\ n <= GetMaxWrite(0, to, max) /\ BytesLie(0, to, max, mem, s, ends)
    BY <1>2, <1>3, <2>1, <2>2, BytesMoved
  <2>4. to # max
    BY <1>2, <2>3
  <2> QED
    BY <2>1, <2>3, <2>4 DEF HasBlocks, to, max, mem
<1> QED
  BY <1>1, <1>4, <1>5

\* Where there is room no more is made, and no byte is clipped.
LEMMA RoomIsKept ==
    ASSUME NEW b, FifoRing(b), NEW n \in Nat, n <= GetMaxWrite(b.rd, b.wr, b.size)
    PROVE  MakeRoom(b, n, b.wr) = b /\ Clipped(b, n, b.wr) = n
<1>1. b.size \in Nat \ {0} /\ b.rd \in 0 .. b.size - 1 /\ b.wr \in 0 .. b.size
  <2>1. b.size \in Nat \ {0}
    BY FifoSizeIsNat DEF FifoRing
  <2> QED
    BY <2>1 DEF FifoRing, Formed, Pointers
<1>2. MakeRoom(b, n, b.wr) = b
  BY DEF MakeRoom
<1>3. Clipped(b, n, b.wr) = n
  BY <1>1, ClippedIs DEF Avail
<1> QED
  BY <1>2, <1>3

\* A block that is written lies behind the others.
LEMMA CommitLays ==
    ASSUME NEW h, Fifo(h), NEW s, Laid(h, s), NEW n \in Blocks, HasRoom(h, n), h.b.wr # h.b.size,
           MayGrow(h.b, n), NEW id \in Nat, NEW c, c = Committed(SlotCleared(h), n, id),
           Readable(c.b) # 0, NEW x, x = [id |-> id, size |-> n], NEW t, Appended(s, x, t)
    PROVE  Laid(c, t)
<1>1. PICK ends : /\ Cuts(s, ends)
                  /\ SlotsLie(h.b.tail, h.b.head, h.slots, h.len, s)
                  /\ BytesLie(h.b.rd, h.b.wr, h.b.size, h.b.mem, s, ends)
  BY DEF Laid
<1> DEFINE e == SlotCleared(h)
           b == Ensured(e, n)
           at == NormalizePtr(h.b.head, h.slots)
<1>2. /\ Ready(e) /\ e.slots = h.slots /\ e.b.head = at /\ e.b.tail = h.b.tail
      /\ e.len = [h.len EXCEPT ![at] = 0]
      /\ e.b.size = h.b.size /\ e.b.rd = h.b.rd /\ e.b.wr = h.b.wr /\ e.b.mem = h.b.mem
  <2>1. /\ Ready(e) /\ e.slots = h.slots /\ e.b.head = at /\ e.b.tail = h.b.tail
        /\ e.len = [h.len EXCEPT ![e.b.head] = 0]
        /\ e.b.size = h.b.size /\ e.b.rd = h.b.rd /\ e.b.wr = h.b.wr /\ e.b.mem = h.b.mem
    BY SlotClearedIs
  <2> HIDE DEF e, at
  <2> QED
    BY <2>1
<1> HIDE DEF e
<1>3. MayGrow(e.b, n) /\ n \in Nat \ {0}
  BY <1>2, FifoConstants DEF MayGrow
<1>4. HasBlocks(e.b, n, s, ends)
  <2>1. GetMaxWrite(h.b.rd, h.b.wr, h.b.size) \in Int
    <3> DEFINE rd == h.b.rd
               wr == h.b.wr
               size == h.b.size
    <3>1. size \in Nat \ {0} /\ rd \in 0 .. size - 1 /\ wr \in 0 .. size
      BY FifoParts
    <3> HIDE DEF rd, wr, size
    <3>2. GetMaxWrite(rd, wr, size) \in Int
      BY <3>1, MaxWriteIs
    <3> QED
      BY <3>2 DEF rd, wr, size
  <2>2. n <= GetMaxWrite(h.b.rd, h.b.wr, h.b.size)
    BY <1>3, <2>1 DEF HasRoom, Writable
  <2> QED
    BY <1>1, <1>2, <2>2 DEF HasBlocks
<1>5. HasBlocks(b, n, s, ends) /\ FifoRing(b) /\ b.head = at /\ b.tail = h.b.tail
  <2>1. HasBlocks(b, n, s, ends)
    BY <1>1, <1>2, <1>3, <1>4, EnsuredHasBlocks
  <2>2. FifoRing(b) /\ b.head = e.b.head /\ b.tail = e.b.tail
    BY <1>2, <1>3, EnsuredIs
  <2> QED
    BY <1>2, <2>1, <2>2
<1>6. MakeRoom(b, n, b.wr) = b /\ Clipped(b, n, b.wr) = n
  BY <1>3, <1>5, RoomIsKept DEF HasBlocks
<1>7. /\ Fifo(c) /\ c.slots = h.slots
      /\ c.b.size = b.size /\ c.b.rd = b.rd /\ c.b.wr = AdvancePtr(b.wr, n, b.size)
      /\ c.b.head = b.head + 1 /\ c.b.tail = b.tail
      /\ BlockCopied(b, c.b.mem, id, n, b.wr)
      /\ c.len = [e.len EXCEPT ![b.head] = @ + n]
  <2>1. c = Committed(e, n, id)
    BY DEF e
  <2> HIDE DEF b
  <2>2. b = Ensured(e, n) /\ b = MakeRoom(b, n, b.wr) /\ n = Clipped(b, n, b.wr)
    BY <1>6 DEF b
  <2>3. /\ Fifo(c) /\ c.slots = e.slots
        /\ c.b.size = b.size /\ c.b.rd = b.rd /\ c.b.wr = AdvancePtr(b.wr, n, b.size)
        /\ c.b.head = b.head + 1 /\ c.b.tail = b.tail
        /\ BlockCopied(b, c.b.mem, id, n, b.wr)
        /\ c.len = [e.len EXCEPT ![b.head] = @ + n]
    BY <1>2, <1>3, <2>1, <2>2, CommittedIs
  <2> QED
    BY <1>2, <2>3
<1> HIDE DEF b
<1>8. x \in BlockSet /\ x.size = n /\ x.id = id
  BY <1>3 DEF BlockSet
<1> DEFINE to == [i \in 0 .. Len(s) + 1 |-> IF i <= Len(s) THEN ends[i] ELSE ends[Len(s)] + x.size]
<1>9. InFront(ends, Len(s), x.size, to)
  BY DEF InFront
<1> HIDE DEF to
<1>10. Cuts(t, to)
  BY <1>1, <1>8, <1>9, CutsAppend
<1>11. BytesLie(c.b.rd, c.b.wr, c.b.size, c.b.mem, t, to)
  <2> DEFINE size == b.size
             rd == b.rd
             wr == b.wr
             next == AdvancePtr(wr, x.size, size)
             mem == c.b.mem
  <2>1. size \in Nat \ {0} /\ Ring(b, size)
    BY <1>5, FifoSizeIsNat DEF FifoRing, Formed, Ring
  <2>2. rd \in 0 .. size - 1 /\ wr \in 0 .. size
    BY <1>5, <2>1 DEF FifoRing, Formed, Pointers
  <2>3. BytesLie(rd, wr, size, b.mem, s, ends) /\ wr # size /\ x.size <= GetMaxWrite(rd, wr, size)
    BY <1>5, <1>8 DEF HasBlocks
  <2>4. c.b.rd = rd /\ c.b.wr = next /\ c.b.size = size /\ BlockCopied(b, mem, x.id, x.size, wr)
    BY <1>7, <1>8
  <2>5. GetMaxRead(rd, next, size) # 0
    BY <2>4 DEF Readable
  <2>6. next = AdvancePtr(wr, x.size, size)
    OBVIOUS
  <2> HIDE DEF size, rd, wr, next, mem
  <2>7. wr \in 0 .. size - 1
    BY <2>1, <2>2, <2>3
  <2>8. BytesLie(rd, next, size, mem, t, to)
    BY <1>1, <1>8, <1>9, <2>1, <2>2, <2>3, <2>4, <2>5, <2>6, <2>7, BytesAppend
  <2> QED
    BY <2>4, <2>8 DEF mem
<1>12. SlotsLie(c.b.tail, c.b.head, c.slots, c.len, t)
  <2> DEFINE slots == h.slots
             tail == h.b.tail
             head == h.b.head
             len == h.len
             put == c.len
  <2>1. /\ slots \in Nat \ {0} /\ tail \in 0 .. slots - 1 /\ head \in 0 .. slots
        /\ 0 .. slots - 1 \subseteq DOMAIN len
    BY FifoParts
  <2>2. SlotsLie(tail, head, slots, len, s) /\ s \in Seq(BlockSet)
    BY <1>1 DEF Cuts
  <2>3. GetMaxWrite(tail, head, slots) > 0
    BY DEF HasRoom, FreeBuffers
  <2>4. at \in 0 .. slots - 1 /\ at = NormalizePtr(head, slots)
    <3> HIDE DEF slots, head
    <3>1. NormalizePtr(head, slots) \in 0 .. slots - 1
      BY <2>1, NormalizeIs
    <3> QED
      BY <3>1 DEF slots, head
  <2>5. put = [[len EXCEPT ![at] = 0] EXCEPT ![at] = @ + n]
    BY <1>2, <1>5, <1>7
  <2>6. c.b.tail = tail /\ c.b.head = at + 1 /\ c.slots = slots
    BY <1>5, <1>7
  <2> HIDE DEF slots, tail, head, len, put, at
  <2>7. DOMAIN put = DOMAIN len /\ put[at] = x.size /\ \A i \in DOMAIN len \ {at} : put[i] = len[i]
    BY <1>3, <1>8, <2>1, <2>4, <2>5
  <2>8. SlotsLie(tail, at + 1, slots, put, Append(s, x))
    BY <1>8, <2>1, <2>2, <2>3, <2>4, <2>7, SlotsAppend
  <2> QED
    BY <2>6, <2>8 DEF Appended, put
<1> QED
  BY <1>10, <1>11, <1>12 DEF Laid

-----------------------------------------------------------------------------
(* FifoSync: the inductive invariant.                                      *)

\* The fifo is formed and, but for the oddities, the blocks due lie in it.
FifoInv ==
    /\ Fifo(f)
    /\ stuck \in BOOLEAN /\ odd \in BOOLEAN /\ count \in 0 .. MaxBlocks
    /\ due \in Seq(BlockSet) /\ Len(due) <= count
    /\ ~odd => Laid(f, due)

LEMMA NothingLies ==
    ASSUME NEW g, Fifo(g), g.b.rd = 0, g.b.wr = 0, g.b.tail = 0, g.b.head = 0
    PROVE  Laid(g, << >>)
<1> DEFINE s == << >>
           ends == [i \in 0 .. 0 |-> 0]
<1>1. s \in Seq(BlockSet) /\ Len(s) = 0
  OBVIOUS
<1>2. ends \in [0 .. 0 -> Nat] /\ ends[0] = 0
  OBVIOUS
<1> HIDE DEF s, ends
<1>3. Cuts(s, ends)
  BY <1>1, <1>2 DEF Cuts
<1>4. SlotsLie(g.b.tail, g.b.head, g.slots, g.len, s)
  <2>1. GetMaxRead(g.b.tail, g.b.head, g.slots) = 0
    BY DEF GetMaxRead
  <2> QED
    BY <1>1, <2>1 DEF SlotsLie
<1>5. BytesLie(g.b.rd, g.b.wr, g.b.size, g.b.mem, s, ends)
  <2>1. GetMaxRead(g.b.rd, g.b.wr, g.b.size) = 0
    BY DEF GetMaxRead
  <2> QED
    BY <1>1, <1>2, <2>1 DEF BytesLie
<1> QED
  BY <1>3, <1>4, <1>5 DEF Laid, s

LEMMA InitFifoInv == FifoInit => FifoInv
<1> SUFFICES ASSUME FifoInit PROVE FifoInv
  OBVIOUS
<1>1. PICK s \in Starts, mode \in WriteModes :
          f = AllocateFifo([b |-> NoBuffer(mode, MaxSize), slots |-> 0, len |-> <<>>], s[1], s[2])
  BY DEF FifoInit
<1> DEFINE b == NoBuffer(mode, MaxSize)
           g == [b |-> b, slots |-> 0, len |-> <<>>]
           n == s[1]
           slots == s[2]
<1>2. n \in Nat \ {0} /\ slots \in Nat \ {0} /\ Overhead + (n + Header) <= Largest /\ slots <= Largest
  BY FifoConstants, FifoPowersSuffice
<1>3. IsBuffer(b) /\ b.mode \in WriteModes /\ b.max = MaxSize
  BY DEF NoBuffer, IsBuffer, Fields
<1>4. Lens(<<>>)
  <2>1. DOMAIN <<>> = 0 .. 0 - 1
    OBVIOUS
  <2> QED
    BY <2>1 DEF Lens
<1> HIDE DEF b, n, slots
<1>5. IsFifo(g) /\ g.b = b /\ g.len = <<>>
  BY DEF IsFifo
<1>6. f = AllocateFifo(g, n, slots)
  BY <1>1 DEF b, n, slots
<1> HIDE DEF g
<1>7. Fifo(f) /\ f.b.rd = 0 /\ f.b.wr = 0 /\ f.b.tail = 0 /\ f.b.head = 0
  BY <1>2, <1>3, <1>4, <1>5, <1>6, AllocateFifoIs
<1>8. Laid(f, << >>)
  BY <1>7, NothingLies
<1>9. due = << >> /\ count = 0 /\ stuck = FALSE /\ odd = FALSE
  BY DEF FifoInit
<1>10. due \in Seq(BlockSet) /\ Len(due) <= count /\ count \in 0 .. MaxBlocks
  BY <1>9, FifoConstants
<1>11. stuck \in BOOLEAN /\ odd \in BOOLEAN
  BY <1>9, Zenon
<1> QED
  BY <1>7, <1>8, <1>9, <1>10, <1>11 DEF FifoInv

LEMMA UsedIsNat == ASSUME NEW g, Fifo(g) PROVE UsedBuffers(g) \in Nat /\ Readable(g.b) \in Nat
<1>1. /\ g.b.size \in Nat \ {0} /\ g.b.rd \in 0 .. g.b.size - 1 /\ g.b.wr \in 0 .. g.b.size
      /\ g.slots \in Nat \ {0} /\ g.b.tail \in 0 .. g.slots - 1 /\ g.b.head \in 0 .. g.slots
  BY FifoParts
<1> DEFINE size == g.b.size
           rd == g.b.rd
           wr == g.b.wr
           slots == g.slots
           tail == g.b.tail
           head == g.b.head
<1>2. /\ size \in Nat \ {0} /\ rd \in 0 .. size - 1 /\ wr \in 0 .. size
      /\ slots \in Nat \ {0} /\ tail \in 0 .. slots - 1 /\ head \in 0 .. slots
  BY <1>1
<1> HIDE DEF size, rd, wr, slots, tail, head
<1>3. GetMaxRead(rd, wr, size) \in 0 .. size /\ GetMaxRead(tail, head, slots) \in 0 .. slots
  BY <1>2, MaxReadBounded
<1>4. GetMaxRead(rd, wr, size) \in Nat /\ GetMaxRead(tail, head, slots) \in Nat
  <2> DEFINE x == GetMaxRead(rd, wr, size)
             y == GetMaxRead(tail, head, slots)
  <2>1. x \in 0 .. size /\ y \in 0 .. slots
    BY <1>3
  <2> HIDE DEF x, y
  <2>2. x \in Nat /\ y \in Nat
    BY <2>1
  <2> QED
    BY <2>2 DEF x, y
<1> QED
  BY <1>4 DEF UsedBuffers, Readable, size, rd, wr, slots, tail, head

\* The write that follows needs no more than the room that was made.
LEMMA MadeMayGrow ==
    ASSUME NEW g, Fifo(g), NEW n \in Blocks, Fits(g.b.size, n), NEW h, Fifo(h), MadeFrom(g, h, n)
    PROVE  MayGrow(h.b, n)
<1>1. CASE h.b.size = g.b.size
  BY <1>1 DEF MayGrow
<1>2. CASE Enlarged(g, h, n)
  <2> DEFINE size == h.b.size
             old == g.b.size
  <2>1. size \in Nat \ {0} /\ old \in Nat \ {0} /\ n \in Nat /\ size >= old + n /\ h.b.rd = 0 /\ h.b.wr = 0
    BY <1>2, FifoParts, FifoConstants DEF Enlarged
  <2> HIDE DEF size, old
  <2> DEFINE r == h.b.rd
  <2>2. r \in 0 .. size - 1 /\ r \in 0 .. size /\ h.b.wr = r /\ h.b.rd = r
    BY <2>1
  <2> HIDE DEF r
  <2>3. GetMaxWrite(r, r, size) = size
    <3>1. GetMaxWrite(r, r, size) = IF r = size THEN IF r <= 1 THEN 0 ELSE r
             ELSE IF r = r THEN size
             ELSE IF r > r THEN size - (r - r)
             ELSE IF r + 1 = r THEN 0 ELSE r - r
      BY <2>1, <2>2, MaxWriteIs
    <3>2. r # size
      BY <2>1, <2>2
    <3> QED
      BY <3>1, <3>2
  <2>4. size > n
    BY <2>1
  <2> QED
    BY <2>2, <2>3, <2>4 DEF MayGrow, size
<1> QED
  BY <1>1, <1>2 DEF MadeFrom, MakesRoom, Emptied, Skipped

\* The fifo that a block was written to: its pointers are any block's.
WrittenTo(e, n, c) ==
    LET b == Ensured(e, n)
    IN /\ Fifo(c) /\ c.b.mode = e.b.mode /\ c.b.size = b.size
       /\ c.b.rd = MakeRoom(b, n, b.wr).rd
       /\ c.b.wr = AdvancePtr(b.wr, Clipped(b, n, b.wr), b.size)

LEMMA CommittedTo ==
    ASSUME NEW e, Ready(e), NEW n \in Blocks, MayGrow(e.b, n), NEW id, NEW c, c = Committed(e, n, id)
    PROVE  WrittenTo(e, n, c)
<1> SUFFICES ASSUME NEW b, b = Ensured(e, n), NEW k, k = Clipped(b, n, b.wr),
                    NEW room, room = MakeRoom(b, n, b.wr)
             PROVE  /\ Fifo(c) /\ c.b.mode = e.b.mode
                    /\ c.b.size = b.size /\ c.b.rd = room.rd /\ c.b.wr = AdvancePtr(b.wr, k, b.size)
  BY DEF WrittenTo
<1>1. /\ Fifo(c) /\ c.slots = e.slots /\ c.b.mode = e.b.mode
      /\ FifoRing(b) /\ Taken(b, room) /\ k \in 0 .. b.size
      /\ c.b.size = b.size /\ c.b.rd = room.rd /\ c.b.wr = AdvancePtr(b.wr, k, b.size)
      /\ c.b.head = room.head + 1 /\ c.b.tail = room.tail
      /\ BlockCopied(room, c.b.mem, id, k, b.wr)
      /\ c.len = [e.len EXCEPT ![room.head] = @ + n]
  BY CommittedIs
<1> QED
  BY <1>1

LEMMA CommitIsFifo ==
    ASSUME NEW h, Fifo(h), NEW n \in Blocks, MayGrow(h.b, n), NEW id, NEW other,
           NEW c, c = Committed(SlotCleared(h), n, id), NEW d, d = Committed(SlotCleared(h), n, other)
    PROVE  Fifo(c) /\ c.b.mode = h.b.mode /\ Readable(c.b) = Readable(d.b)
<1> DEFINE e == SlotCleared(h)
<1>1. Ready(e) /\ e.b.size = h.b.size /\ e.b.rd = h.b.rd /\ e.b.wr = h.b.wr /\ e.b.mode = h.b.mode
  BY SlotClearedIs
<1>2. c = Committed(e, n, id) /\ d = Committed(e, n, other)
  OBVIOUS
<1> HIDE DEF e
<1>3. MayGrow(e.b, n)
  BY <1>1 DEF MayGrow
<1>4. WrittenTo(e, n, c)
  BY <1>1, <1>2, <1>3, CommittedTo
<1>5. WrittenTo(e, n, d)
  BY <1>1, <1>2, <1>3, CommittedTo
<1> QED
  BY <1>1, <1>4, <1>5 DEF WrittenTo, Readable

\* With nothing to read there is room for any block that is not too large.
LEMMA RoomAtEmpty ==
    ASSUME NEW g, Fifo(g), NEW s, Laid(g, s), Readable(g.b) = 0, NEW n \in Nat, n <= g.b.size
    PROVE  HasRoom(g, n)
<1>1. PICK ends : /\ Cuts(s, ends)
                  /\ SlotsLie(g.b.tail, g.b.head, g.slots, g.len, s)
                  /\ BytesLie(g.b.rd, g.b.wr, g.b.size, g.b.mem, s, ends)
  BY DEF Laid
<1>2. Len(s) = 0
  <2>1. s \in Seq(BlockSet) /\ Len(s) \in Nat
    BY <1>1 DEF Cuts
  <2> SUFFICES ASSUME Len(s) > 0 PROVE FALSE
    BY <2>1
  <2>2. ends[1] = s[1].size /\ s[1].size \in Nat \ {0}
    BY <1>1, FirstBlock
  <2>3. ends[1] <= ends[Len(s)] /\ ends[Len(s)] = 0
    <3>1. 1 \in 0 .. Len(s) /\ Len(s) \in 0 .. Len(s) /\ 1 <= Len(s)
      BY <2>1
    <3> QED
      BY <1>1, <3>1 DEF Cuts, BytesLie, Readable
  <2> QED
    BY <2>2, <2>3
<1> DEFINE size == g.b.size
           rd == g.b.rd
           wr == g.b.wr
           slots == g.slots
           tail == g.b.tail
           head == g.b.head
<1>3. /\ size \in Nat \ {0} /\ rd \in 0 .. size - 1 /\ wr \in 0 .. size
      /\ slots \in Nat \ {0} /\ tail \in 0 .. slots - 1 /\ head \in 0 .. slots
  BY FifoParts
<1>4. GetMaxRead(rd, wr, size) = 0 /\ GetMaxRead(tail, head, slots) = 0 /\ n <= size
  BY <1>1, <1>2 DEF SlotsLie, Readable
<1> HIDE DEF size, rd, wr, slots, tail, head
<1>5. rd = wr
  <2>1. GetMaxRead(rd, wr, size) = IF rd = wr THEN 0 ELSE IF wr > rd THEN wr - rd ELSE size - rd + wr
    BY <1>3, MaxReadIs
  <2> QED
    BY <1>3, <1>4, <2>1
<1>6. tail = head
  <2>1. GetMaxRead(tail, head, slots) =
          IF tail = head THEN 0 ELSE IF head > tail THEN head - tail ELSE slots - tail + head
    BY <1>3, MaxReadIs
  <2> QED
    BY <1>3, <1>4, <2>1
<1>7. GetMaxWrite(rd, wr, size) = size
  <2>1. GetMaxWrite(rd, wr, size) = IF wr = size THEN IF rd <= 1 THEN 0 ELSE rd
             ELSE IF rd = wr THEN size ELSE IF wr > rd THEN size - (wr - rd)
             ELSE IF wr + 1 = rd THEN 0 ELSE rd - wr
    BY <1>3, MaxWriteIs
  <2> QED
    BY <1>3, <1>5, <2>1
<1>8. GetMaxWrite(tail, head, slots) = slots
  <2>1. GetMaxWrite(tail, head, slots) = IF head = slots THEN IF tail <= 1 THEN 0 ELSE tail
             ELSE IF tail = head THEN slots ELSE IF head > tail THEN slots - (head - tail)
             ELSE IF head + 1 = tail THEN 0 ELSE tail - head
    BY <1>3, MaxWriteIs
  <2> QED
    BY <1>3, <1>6, <2>1
<1>9. FreeBuffers(g) = slots /\ Writable(g.b) = size
  BY <1>7, <1>8 DEF FreeBuffers, Writable, size, rd, wr, slots, tail, head
<1>10. slots > 0 /\ size >= n
  BY <1>3, <1>4
<1> QED
  BY <1>9, <1>10 DEF HasRoom

\* The blocks behind the k first of s lie in h, which has room for another.
RoomBehind(g, h, s, n, k) ==
    /\ HasRoom(h, n) /\ Laid(h, SubSeq(s, k + 1, Len(s)))
    /\ g.b.mode # "overwrite" => k = 0

LEMMA RoomLays ==
    ASSUME NEW g, Fifo(g), NEW s, Laid(g, s), NEW n \in Nat \ {0}, NEW h, MadeFrom(g, h, n),
           h.b.size = g.b.size, n <= g.b.size, ~(Readable(g.b) > 0 /\ Readable(h.b) = 0)
    PROVE  \E k \in 0 .. Len(s) : RoomBehind(g, h, s, n, k)
<1>1. s \in Seq(BlockSet) /\ Len(s) \in Nat
  <2>1. s \in Seq(BlockSet)
    BY Zenon DEF Laid, Cuts
  <2> QED
    BY <2>1
<1>2. CASE MakesRoom(g, h, n)
  <2>1. SubSeq(s, 0 + 1, Len(s)) = s
    BY <1>1, SubSeqAll
  <2>2. RoomBehind(g, h, s, n, 0)
    BY <1>2, <2>1, Zenon DEF RoomBehind, MakesRoom
  <2>3. 0 \in 0 .. Len(s)
    BY <1>1
  <2> QED
    BY <2>2, <2>3
<1>3. CASE ~HasRoom(g, n)
  <2>1. Readable(g.b) \in Nat /\ Readable(g.b) # 0
    <3>1. Readable(g.b) = 0 => HasRoom(g, n)
      BY RoomAtEmpty
    <3> QED
      BY <1>3, <3>1, UsedIsNat
  <2>2. Readable(h.b) # 0
    BY <2>1
  <2>3. ~Enlarged(g, h, n)
    <3>1. g.b.size \in Nat
      BY FifoParts
    <3> QED
      BY <3>1 DEF Enlarged
  <2>4. ~Emptied(g, h, n)
    BY <2>2 DEF Emptied, Readable, GetMaxRead
  <2>5. Skipped(g, h, n)
    BY <1>3, <2>3, <2>4 DEF MadeFrom, MakesRoom
  <2>6. PICK k \in 0 .. 2 * g.slots : HasRoom(h, n) /\ h = Skips(g)[k]
    BY <2>5 DEF Skipped
  <2>7. Left(g, s, k)
    BY SkipsLay
  <2>8. k <= Len(s) /\ Laid(h, SubSeq(s, k + 1, Len(s)))
    BY <2>2, <2>6, <2>7 DEF Left
  <2>9. RoomBehind(g, h, s, n, k)
    BY <2>5, <2>6, <2>8 DEF RoomBehind, Skipped
  <2>10. k \in 0 .. Len(s)
    <3>1. k \in Nat
      OBVIOUS
    <3> QED
      BY <1>1, <2>8, <3>1
  <2> QED
    BY <2>9, <2>10
<1> QED
  BY <1>2, <1>3 DEF MadeFrom

\* What is due after a block has been written to a fifo that is now c.
DueAfter(g, c, s, x) ==
    LET all == Append(s, x)
    IN IF g.b.mode = "overwrite" /\ UsedBuffers(c) <= Len(all) THEN Last(all, UsedBuffers(c)) ELSE all

LEMMA DueStays ==
    ASSUME NEW g, NEW c, Fifo(c), NEW s \in Seq(BlockSet), NEW x \in BlockSet
    PROVE  DueAfter(g, c, s, x) \in Seq(BlockSet) /\ Len(DueAfter(g, c, s, x)) <= Len(s) + 1
<1> DEFINE all == Append(s, x)
           k == UsedBuffers(c)
           n == Len(all)
           m == n - k + 1
<1>1. all \in Seq(BlockSet) /\ n = Len(s) + 1 /\ Len(s) \in Nat /\ k \in Nat /\ n \in Nat
  BY UsedIsNat
<1>2. CASE g.b.mode = "overwrite" /\ k <= n
  <2>1. DueAfter(g, c, s, x) = SubSeq(all, m, n)
    BY <1>2 DEF DueAfter, Last
  <2> HIDE DEF k
  <2>2. m \in 1 .. n + 1
    BY <1>1, <1>2
  <2> HIDE DEF all
  <2>3. SubSeq(all, m, n) \in Seq(BlockSet) /\ Len(SubSeq(all, m, n)) = n - m + 1
    <3> HIDE DEF m
    <3> QED
      BY <1>1, <2>2, SubSeqIs
  <2>4. n - m + 1 <= n
    <3> HIDE DEF n
    <3>1. m \in 1 .. n + 1
      BY <2>2
    <3> HIDE DEF m
    <3> QED
      BY <1>1, <3>1
  <2> QED
    BY <1>1, <2>1, <2>3, <2>4
<1>3. CASE ~(g.b.mode = "overwrite" /\ k <= n)
  <2>1. DueAfter(g, c, s, x) = all
    BY <1>3 DEF DueAfter
  <2> QED
    BY <1>1, <2>1
<1> QED
  BY <1>2, <1>3

\* A block written without an oddity: it lies behind those still due.
LEMMA WriteLays ==
    ASSUME NEW g, Fifo(g), NEW s, Laid(g, s), NEW n \in Blocks, Fits(g.b.size, n), Begins(g, n),
           NEW h, h = MadeRoom(g, n), NEW id \in Nat, NEW c, c = Committed(SlotCleared(h), n, id),
           NEW x, x = [id |-> id, size |-> n], ~Oddities(g, n)
    PROVE  Laid(c, DueAfter(g, c, s, x))
<1>1. Fifo(h) /\ h.b.mode = g.b.mode /\ MadeFrom(g, h, n)
  BY MadeRoomIs
<1>2. MayGrow(h.b, n)
  BY <1>1, MadeMayGrow
<1>3. n \in Nat \ {0} /\ g.b.size \in Nat
  BY FifoConstants, FifoParts
<1>4. /\ h.b.size = g.b.size /\ n <= g.b.size /\ h.b.wr # h.b.size
      /\ Readable(Committed(SlotCleared(h), n, 1).b) # 0
      /\ ~(Readable(g.b) > 0 /\ Readable(h.b) = 0)
  BY <1>3 DEF Oddities
<1>5. Fifo(c) /\ Readable(c.b) # 0
  <2> DEFINE d == Committed(SlotCleared(h), n, 1)
  <2>1. d = Committed(SlotCleared(h), n, 1) /\ Readable(d.b) # 0
    BY <1>4
  <2> HIDE DEF d
  <2>2. Fifo(c) /\ c.b.mode = h.b.mode /\ Readable(c.b) = Readable(d.b)
    BY <1>1, <1>2, <2>1, CommitIsFifo
  <2> QED
    BY <2>1, <2>2
<1>6. PICK k \in 0 .. Len(s) : RoomBehind(g, h, s, n, k)
  BY <1>1, <1>3, <1>4, RoomLays
<1> DEFINE a == SubSeq(s, k + 1, Len(s))
           t == Append(a, x)
<1>7. s \in Seq(BlockSet) /\ Len(s) \in Nat
  <2>1. s \in Seq(BlockSet)
    BY Zenon DEF Laid, Cuts
  <2> QED
    BY <2>1
<1>8. a \in Seq(BlockSet) /\ Len(a) = Len(s) - k
  <2> DEFINE m == k + 1
  <2>1. m \in 1 .. Len(s) + 1
    BY <1>7
  <2>2. Len(s) - m + 1 = Len(s) - k
    BY <1>7
  <2> HIDE DEF m
  <2>3. SubSeq(s, m, Len(s)) \in Seq(BlockSet) /\ Len(SubSeq(s, m, Len(s))) = Len(s) - m + 1
    BY <1>7, <2>1, SubSeqIs
  <2> QED
    BY <2>2, <2>3 DEF m
<1>9. Appended(a, x, t)
  BY DEF Appended
<1>10. x \in BlockSet
  BY <1>3 DEF BlockSet
<1> HIDE DEF a, t
<1>11. Laid(c, t)
  <2>1. Laid(h, a) /\ HasRoom(h, n)
    BY <1>6 DEF RoomBehind, a
  <2> QED
    BY <1>1, <1>2, <1>4, <1>5, <1>9, <2>1, CommitLays, ZenonT(30)
<1>12. Len(t) = Len(s) - k + 1
  <2>1. Len(t) = Len(a) + 1
    BY <1>8, <1>9, <1>10, AppendIs
  <2> QED
    BY <1>8, <2>1
<1>13. UsedBuffers(c) = Len(s) - k + 1
  BY <1>11, <1>12 DEF Laid, SlotsLie, UsedBuffers
<1> DEFINE all == Append(s, x)
<1>14. Appended(s, x, all) /\ Len(all) = Len(s) + 1
  BY <1>7 DEF Appended
<1> HIDE DEF all
<1>15. Last(all, Len(s) - k + 1) = t
  BY <1>7, <1>10, <1>14, LastAppend DEF t, a
<1>16. CASE g.b.mode = "overwrite"
  <2>1. UsedBuffers(c) <= Len(all)
    BY <1>7, <1>13, <1>14
  <2>2. DueAfter(g, c, s, x) = Last(all, UsedBuffers(c))
    BY <1>16, <2>1 DEF DueAfter, all
  <2> QED
    BY <1>11, <1>13, <1>15, <2>2
<1>17. CASE g.b.mode # "overwrite"
  <2>1. DueAfter(g, c, s, x) = all
    BY <1>17 DEF DueAfter, all
  <2>2. k = 0
    BY <1>6, <1>17 DEF RoomBehind
  <2>3. a = s
    <3>1. k + 1 = 1
      BY <2>2
    <3> QED
      BY <1>7, <3>1, SubSeqAll DEF a
  <2>4. t = all
    BY <1>9, <1>14, <2>3 DEF Appended
  <2> QED
    BY <1>11, <2>1, <2>4
<1> QED
  BY <1>16, <1>17

LEMMA WriteBlockKeeps == ASSUME FifoInv, NEW n \in Blocks, WriteBlock(n) PROVE FifoInv'
<1> DEFINE h == MadeRoom(f, n)
           c == Committed(SlotCleared(h), n, count + 1)
           x == [id |-> count + 1, size |-> n]
<1>1. Fifo(f) /\ Fits(f.b.size, n) /\ Begins(f, n)
  BY DEF FifoInv, WriteBlock, Begins
<1>2. /\ f' = c /\ count' = count + 1 /\ count < MaxBlocks
      /\ odd' = (odd \/ Oddities(f, n)) /\ stuck' = stuck
      /\ due' = DueAfter(f, c, due, x)
  BY DEF WriteBlock, DueAfter
<1>3. /\ due \in Seq(BlockSet) /\ Len(due) <= count /\ count \in 0 .. MaxBlocks
      /\ MaxBlocks \in Nat /\ stuck \in BOOLEAN /\ odd \in BOOLEAN /\ (~odd => Laid(f, due))
  BY FifoConstants DEF FifoInv
<1>4. h = MadeRoom(f, n) /\ c = Committed(SlotCleared(h), n, count + 1)
  OBVIOUS
<1>5. count + 1 \in Nat /\ x \in BlockSet
  BY <1>3, FifoConstants DEF BlockSet
<1> HIDE DEF h
<1>6. Fifo(h) /\ MadeFrom(f, h, n)
  BY <1>1, <1>4, MadeRoomIs
<1>7. MayGrow(h.b, n)
  BY <1>1, <1>6, MadeMayGrow
<1>8. Fifo(c)
  BY <1>6, <1>7, CommitIsFifo
<1>9. DueAfter(f, c, due, x) \in Seq(BlockSet) /\ Len(DueAfter(f, c, due, x)) <= Len(due) + 1
  <2> HIDE DEF c, x
  <2> QED
    BY <1>3, <1>5, <1>8, DueStays
<1>10. ASSUME ~odd, ~Oddities(f, n) PROVE Laid(c, DueAfter(f, c, due, x))
  <2>1. Laid(f, due)
    BY <1>3, <1>10
  <2> DEFINE id == count + 1
  <2>2. id \in Nat /\ c = Committed(SlotCleared(h), n, id) /\ x = [id |-> id, size |-> n]
    BY <1>5
  <2> HIDE DEF c, x, id
  <2> QED
    BY <1>1, <1>4, <1>10, <2>1, <2>2, WriteLays
<1> HIDE DEF c, x
<1>11. Fifo(f') /\ due' \in Seq(BlockSet) /\ Len(due') <= count' /\ count' \in 0 .. MaxBlocks
  <2>1. Len(due') <= Len(due) + 1 /\ Len(due') \in Nat /\ Len(due) \in Nat
    BY <1>2, <1>3, <1>9
  <2> QED
    BY <1>2, <1>3, <1>8, <1>9, <2>1
<1>12. stuck' \in BOOLEAN /\ odd' \in BOOLEAN
  BY <1>2, <1>3, Zenon
<1>13. ~odd' => Laid(f', due')
  BY <1>2, <1>10
<1> QED
  BY <1>11, <1>12, <1>13 DEF FifoInv

LEMMA ReadBlockKeeps == ASSUME FifoInv, ReadBlock PROVE FifoInv'
<1> DEFINE h == SkipBlock(f)
<1>1. /\ Fifo(f) /\ due \in Seq(BlockSet) /\ Len(due) <= count /\ count \in 0 .. MaxBlocks
      /\ stuck \in BOOLEAN /\ odd \in BOOLEAN /\ (~odd => Laid(f, due))
  BY DEF FifoInv
<1>2. /\ f' = h /\ due' = (IF due = <<>> THEN due ELSE Tail(due))
      /\ odd' = (odd \/ Readable(h.b) = 0) /\ stuck' = stuck /\ count' = count
  BY DEF ReadBlock, Drains
<1>3. Fifo(h)
  <2>1. h = SkipBlock(f)
    OBVIOUS
  <2> HIDE DEF h
  <2> QED
    BY <1>1, <2>1, SkipBlockIs
<1>4. due' \in Seq(BlockSet) /\ Len(due') <= Len(due)
  BY <1>1, <1>2
<1>5. ASSUME ~odd' PROVE Laid(h, due')
  <2>1. Laid(f, due) /\ Readable(h.b) # 0
    BY <1>1, <1>2, <1>5
  <2>2. h = SkipBlock(f)
    OBVIOUS
  <2> HIDE DEF h
  <2>3. Len(due) > 1 /\ Laid(h, Tail(due))
    BY <1>1, <2>1, <2>2, SkipLays
  <2>4. due # <<>>
    BY <2>3
  <2> QED
    BY <1>2, <2>3, <2>4
<1> HIDE DEF h
<1>6. stuck' \in BOOLEAN /\ odd' \in BOOLEAN
  BY <1>1, <1>2, Zenon
<1>7. Len(due') <= count' /\ count' \in 0 .. MaxBlocks
  <2>1. Len(due') \in Nat /\ Len(due) \in Nat /\ MaxBlocks \in Nat
    BY <1>1, <1>4, FifoConstants
  <2> QED
    BY <1>1, <1>2, <1>4, <2>1
<1> QED
  BY <1>2, <1>3, <1>4, <1>5, <1>6, <1>7 DEF FifoInv

LEMMA StepFifoInv == FifoInv /\ [FifoNext]_fifoVars => FifoInv'
<1> SUFFICES ASSUME FifoInv, [FifoNext]_fifoVars PROVE FifoInv'
  OBVIOUS
<1>1. CASE ReadBlock
  BY <1>1, ReadBlockKeeps
<1>2. ASSUME NEW n \in Blocks, WriteBlock(n) PROVE FifoInv'
  BY <1>2, WriteBlockKeeps
<1>3. ASSUME NEW n \in Blocks, WriteBlockFails(n) PROVE FifoInv'
  BY <1>3 DEF WriteBlockFails, fifoVars, FifoInv
<1>4. ASSUME NEW n \in Blocks, WriteBlockHangs(n) PROVE FifoInv'
  BY <1>4 DEF WriteBlockHangs, FifoInv
<1>5. CASE UNCHANGED fifoVars
  BY <1>5 DEF fifoVars, FifoInv
<1> QED
  BY <1>1, <1>2, <1>3, <1>4, <1>5 DEF FifoNext

LEMMA FifoSoundness == FifoSpec => []FifoInv
<1>1. FifoInit => FifoInv
  BY InitFifoInv
<1>2. FifoInv /\ [FifoNext]_fifoVars => FifoInv'
  BY StepFifoInv
<1> QED
  BY <1>1, <1>2, PTL DEF FifoSpec

\* Whatever is written and read, in whatever mode, with whatever sizes and
\* through every oddity: the read pointer, head and tail stay where
\* CFifoSync's next call can use them, and the slots in their array.
THEOREM FifoTypeIsRight == FifoSpec => []FifoTypeOK
<1>1. FifoInv => FifoTypeOK
  <2> SUFFICES ASSUME FifoInv PROVE FifoTypeOK
    OBVIOUS
  <2>1. Fifo(f)
    BY DEF FifoInv
  <2> QED
    BY <2>1, FifoParts DEF FifoInv, FifoTypeOK
<1> QED
  BY <1>1, FifoSoundness, PTL

-----------------------------------------------------------------------------
(* FifoSync: what Peek finds.                                              *)

\* The function that Offset( i ) defines.
Sums(i, h) == h = [k \in 0 .. i |-> IF k = 0 THEN 0 ELSE h[k - 1] + f.len[Slot(k - 1)]]

LEMMA OffsetIs ==
    ASSUME Fifo(f), NEW s, NEW ends, Cuts(s, ends),
           SlotsLie(f.b.tail, f.b.head, f.slots, f.len, s), NEW i \in 0 .. Len(s)
    PROVE  Offset(i) = ends[i]
<1>1. Len(s) \in Nat /\ i \in Nat
  BY DEF Cuts
<1>2. \A k \in 1 .. Len(s) : f.len[Slot(k - 1)] = s[k].size
  <2> SUFFICES ASSUME NEW k \in 1 .. Len(s) PROVE f.len[Slot(k - 1)] = s[k].size
    OBVIOUS
  <2> DEFINE j == k - 1
  <2>1. j \in 0 .. Len(s) - 1 /\ j + 1 = k
    BY <1>1
  <2> HIDE DEF j
  <2>2. f.len[Place(f.b.tail, j, f.slots)] = s[j + 1].size
    BY <2>1 DEF SlotsLie
  <2>3. Slot(j) = Place(f.b.tail, j, f.slots)
    BY DEF Slot, Place
  <2> QED
    BY <2>1, <2>2, <2>3 DEF j
<1>3. ends[0] = 0 /\ \A k \in 1 .. Len(s) : ends[k] = ends[k - 1] + f.len[Slot(k - 1)]
  BY <1>2 DEF Cuts
<1> DEFINE h == [k \in 0 .. i |-> ends[k]]
<1>4. Sums(i, h)
  <2>1. ASSUME NEW k \in 0 .. i PROVE h[k] = IF k = 0 THEN 0 ELSE h[k - 1] + f.len[Slot(k - 1)]
    <3>1. k # 0 => k \in 1 .. Len(s) /\ k - 1 \in 0 .. i
      BY <1>1
    <3>2. h[k] = ends[k] /\ (k # 0 => h[k - 1] = ends[k - 1])
      BY <3>1
    <3> HIDE DEF h
    <3> QED
      BY <1>3, <3>1, <3>2
  <2>2. h = [k \in 0 .. i |-> h[k]]
    OBVIOUS
  <2> HIDE DEF h
  <2> QED
    BY <2>1, <2>2 DEF Sums
<1> DEFINE sum == CHOOSE g : g = [k \in 0 .. i |-> IF k = 0 THEN 0 ELSE g[k - 1] + f.len[Slot(k - 1)]]
<1>5. Offset(i) = sum[i]
  BY DEF Offset
<1>6. sum = [k \in 0 .. i |-> IF k = 0 THEN 0 ELSE sum[k - 1] + f.len[Slot(k - 1)]]
  <2> HIDE DEF h
  <2> QED
    BY <1>4, Zenon DEF Sums
<1> HIDE DEF sum, h
<1>7. sum[0] = 0 /\ \A k \in 1 .. i : sum[k] = sum[k - 1] + f.len[Slot(k - 1)]
  BY <1>1, <1>6
<1> DEFINE S == {k \in Nat : k <= i /\ sum[k] # ends[k]}
           m == LeastOf(S)
<1> SUFFICES ASSUME S # {} PROVE FALSE
  BY <1>1, <1>5
<1>8. m \in S /\ \A k \in S : m <= k
  <2>1. S \subseteq Nat /\ S # {}
    OBVIOUS
  <2> HIDE DEF S
  <2> QED
    BY <2>1, LeastOfNat
<1> HIDE DEF m
<1>9. m \in Nat /\ m <= i /\ sum[m] # ends[m]
  BY <1>8
<1>10. m # 0
  BY <1>3, <1>7, <1>9
<1>11. m - 1 \in Nat /\ ~(m <= m - 1) /\ m - 1 <= i /\ m \in 1 .. i /\ m \in 1 .. Len(s)
  BY <1>1, <1>9, <1>10
<1>12. sum[m - 1] = ends[m - 1]
  BY <1>8, <1>11
<1>13. sum[m] = ends[m]
  BY <1>3, <1>7, <1>11, <1>12
<1> QED
  BY <1>9, <1>13

LEMMA PeekIs ==
    ASSUME Fifo(f), NEW s, NEW ends, Cuts(s, ends),
           SlotsLie(f.b.tail, f.b.head, f.slots, f.len, s),
           BytesLie(f.b.rd, f.b.wr, f.b.size, f.b.mem, s, ends), NEW i \in 1 .. Len(s)
    PROVE  Peek(i - 1) = [j \in 1 .. s[i].size |-> s[i].id]
<1> DEFINE low == ends[i - 1]
           top == ends[i]
           n == s[i].size
           h == i - 1
<1>1. Len(s) \in Nat /\ s \in Seq(BlockSet)
  BY DEF Cuts
<1>2. i \in 0 .. Len(s) /\ h \in 0 .. Len(s) - 1 /\ h \in 0 .. Len(s) /\ h + 1 = i /\ Len(s) \in 0 .. Len(s) /\ i <= Len(s)
  BY <1>1
<1>3. n \in Nat
  <2>1. s[i] \in BlockSet
    BY <1>1
  <2> QED
    BY <2>1 DEF BlockSet
<1>4. low \in Nat /\ top \in Nat /\ top = low + n /\ top <= Readable(f.b)
  <2>1. low \in Nat /\ top \in Nat /\ top = low + n /\ top <= ends[Len(s)]
    BY <1>1, <1>2 DEF Cuts
  <2> QED
    BY <2>1 DEF BytesLie, Readable
<1>5. Readable(f.b) \in Nat
  BY UsedIsNat
<1>6. Offset(h) = low
  BY <1>2, OffsetIs
<1>7. f.len[Slot(h)] = n
  <2>1. f.len[Place(f.b.tail, h, f.slots)] = s[h + 1].size
    BY <1>2 DEF SlotsLie
  <2> HIDE DEF h
  <2>2. Slot(h) = Place(f.b.tail, h, f.slots)
    BY DEF Slot, Place
  <2> QED
    BY <1>2, <2>1, <2>2
<1>8. ASSUME NEW j \in 1 .. n PROVE low + j <= Readable(f.b) /\ Content(f.b)[low + j] = s[i].id
  <2> DEFINE q == low + j
             p == q - 1
             all == Readable(f.b)
  <2>1. p \in low .. top - 1 /\ q \in 1 .. all /\ q <= all
    <3>1. p = low + j - 1 /\ q = low + j /\ all \in Nat /\ top <= all
      BY <1>4, <1>5
    <3> HIDE DEF p, q, low, top, n, all
    <3> QED
      BY <1>3, <1>4, <3>1
  <2>2. f.b.mem[Place(f.b.rd, p, f.b.size)] = s[i].id
    BY <2>1 DEF BytesLie
  <2> HIDE DEF q, all
  <2>3. Content(f.b)[q] = f.b.mem[(f.b.rd + q - 1) % f.b.size]
    BY <2>1 DEF Content, all
  <2>4. f.b.mem[(f.b.rd + q - 1) % f.b.size] = f.b.mem[Place(f.b.rd, p, f.b.size)]
    BY DEF Place
  <2> QED
    BY <2>1, <2>2, <2>3, <2>4 DEF q, all
<1>9. Peek(h) = [j \in 1 .. f.len[Slot(h)] |->
                    IF Offset(h) + j <= Readable(f.b) THEN Content(f.b)[Offset(h) + j] ELSE Junk]
  BY DEF Peek
<1> HIDE DEF low, n
<1> QED
  BY <1>6, <1>7, <1>8, <1>9 DEF n

\* Until an oddity happens CFifoSync returns the blocks that were written, in
\* order and whole: the slots count the blocks and account for every byte, and
\* Peek finds the bytes of each.
THEOREM BlocksStayDue == FifoSpec => []BlocksAreDue
<1>1. FifoInv => BlocksAreDue
  <2> SUFFICES ASSUME FifoInv, ~odd
               PROVE  /\ UsedBuffers(f) = Len(due)
                      /\ Offset(UsedBuffers(f)) = Readable(f.b)
                      /\ \A i \in 1 .. Len(due) :
                            Peek(i - 1) = [j \in 1 .. due[i].size |-> due[i].id]
    BY DEF BlocksAreDue
  <2>1. Fifo(f) /\ Laid(f, due)
    BY DEF FifoInv
  <2>2. PICK ends : /\ Cuts(due, ends)
                    /\ SlotsLie(f.b.tail, f.b.head, f.slots, f.len, due)
                    /\ BytesLie(f.b.rd, f.b.wr, f.b.size, f.b.mem, due, ends)
    BY <2>1 DEF Laid
  <2>3. UsedBuffers(f) = Len(due) /\ Readable(f.b) = ends[Len(due)]
    BY <2>2 DEF SlotsLie, BytesLie, UsedBuffers, Readable
  <2>4. Len(due) \in 0 .. Len(due)
    BY <2>2 DEF Cuts
  <2>5. Offset(Len(due)) = ends[Len(due)]
    BY <2>1, <2>2, <2>4, OffsetIs
  <2>6. ASSUME NEW i \in 1 .. Len(due) PROVE Peek(i - 1) = [j \in 1 .. due[i].size |-> due[i].id]
    BY <2>1, <2>2, PeekIs
  <2> QED
    BY <2>3, <2>5, <2>6
<1> QED
  BY <1>1, FifoSoundness, PTL
=============================================================================
