------------------------ MODULE ShmAllocator_proofs ------------------------
(***************************************************************************)
(* Proofs about the payload allocator, for every size of the region and of *)
(* the header and for all sizes the application asks for: the blocks tile  *)
(* the used part of the region, what is unused reads as zero, and a live   *)
(* block is left alone.                                                    *)
(***************************************************************************)
EXTENDS ShmAllocator, TLAPS

Header == [size : Nat \ {0}, free : BOOLEAN, prev : Int]

\* Every header is well formed.
BlockType == blocks \in [Offsets -> Header]

\* The blocks tile the bytes below t.
Tile(t) ==
  /\ t \in 0..Region
  /\ Offsets \subseteq Nat
  /\ Offsets = {} => t = 0
  /\ Offsets # {} => 0 \in Offsets /\ \E l \in Offsets : After(l) = t
  /\ \A o \in Offsets : After(o) <= t /\ (After(o) \in Offsets \/ After(o) = t)
  /\ \A o, p \in Offsets : o < p => After(o) <= p

\* Although a merge may leave prev_block_offset behind (PrevNamesPreviousBlock
\* does not hold), it never leaves the block before: what it names is the header
\* of that block or lies in its payload.
PrevNear ==
  \A q \in Offsets :
    IF q = 0 THEN blocks[q].prev = -1
             ELSE \E p \in Offsets : After(p) = q /\ p <= blocks[q].prev /\ blocks[q].prev < q

\* Bytes from t on, and the payloads of free blocks, are zero.
Zero(t) ==
  /\ written \subseteq 0..(t - 1)
  /\ \A o \in Offsets : blocks[o].free => \A x \in Payload(o) : x \notin written

\* Every live block but one stays what and where it is.
Stays(gone) ==
  \A o \in Live \ {gone} : o \in Offsets' /\ ~blocks'[o].free /\ blocks'[o].size = blocks[o].size

\* The inductive invariant.
IInv ==
  /\ BlockType /\ PrevNear /\ followed \in BOOLEAN
  /\ \E t \in 0..Region : Tile(t) /\ Zero(t)
-----------------------------------------------------------------------------
\* What the assumption says about the constants.
LEMMA ConstantFacts ==
  Region \in Nat /\ Hdr \in Nat /\ Hdr >= 1 /\ \A n \in Sizes : n \in Nat /\ n >= 1
BY AllocAssumption

\* A block ends behind its header, and blocks do not overlap.
LEMMA BlockFacts ==
  ASSUME BlockType, NEW t, Tile(t), NEW o \in Offsets
  PROVE  /\ o \in Nat /\ blocks[o].size \in Nat /\ blocks[o].size >= 1
         /\ After(o) = o + Hdr + blocks[o].size /\ After(o) \in Nat
         /\ o + Hdr < After(o) /\ After(o) <= t
         /\ blocks[o].prev \in Int /\ blocks[o].free \in BOOLEAN
<1>1. blocks[o] \in Header
  BY DEF BlockType
<1>2. blocks[o].size \in Nat /\ blocks[o].size >= 1 /\ blocks[o].prev \in Int /\ blocks[o].free \in BOOLEAN
  BY <1>1 DEF Header
<1>3. o \in Nat /\ After(o) <= t
  BY DEF Tile
<1> QED
  BY <1>2, <1>3, ConstantFacts DEF After

\* The end of the chain as the walk finds it is where the tiling ends, and the
\* last block is the one that ends there.
LEMMA TopIs ==
  ASSUME BlockType, NEW t, Tile(t)
  PROVE  Top = t /\ (Offsets # {} => Last \in Offsets /\ After(Last) = t)
<1>1. CASE Offsets = {}
  BY <1>1 DEF Tile, Top
<1>2. CASE Offsets # {}
  <2> DEFINE Ends == {After(o) : o \in Offsets}
             IsTop(u) == u \in Ends /\ \A o \in Offsets : After(o) <= u
  <2>1. IsTop(t) /\ t \in Int
    BY <1>2 DEF Tile
  <2>2. Top = CHOOSE u \in Ends : \A o \in Offsets : After(o) <= u
    BY <1>2 DEF Top
  <2>3. IsTop(Top)
    BY <2>1, <2>2
  <2>4. Top <= t /\ t <= Top /\ Top \in Int
    BY <2>1, <2>3, BlockFacts DEF Tile
  <2>5. Top = t
    BY <2>1, <2>4
  <2>6. \E l \in Offsets : After(l) = Top
    BY <1>2, <2>5 DEF Tile
  <2> QED
    BY <2>5, <2>6 DEF Last
<1> QED
  BY <1>1, <1>2

\* The block in front of another one is the only one that ends there.
LEMMA OnePredecessor ==
  ASSUME BlockType, NEW t, Tile(t), NEW o \in Offsets, NEW p \in Offsets, After(o) = After(p)
  PROVE  o = p
<1>1. o < p => After(o) <= p
  BY DEF Tile
<1>2. p < o => After(p) <= o
  BY DEF Tile
<1>3. o \in Nat /\ p \in Nat /\ o + Hdr < After(o) /\ p + Hdr < After(p) /\ After(o) \in Nat
  BY BlockFacts
<1> QED
  BY <1>1, <1>2, <1>3, ConstantFacts
-----------------------------------------------------------------------------
(***************************************************************************)
(* How a tiling may change.                                                *)
(***************************************************************************)

\* The block at m takes over everything up to the end of the block at x.
LEMMA SwallowTile ==
  ASSUME BlockType, NEW t, Tile(t), NEW m \in Offsets, NEW x \in Offsets, m <= x,
         Offsets' = Offsets \ Bytes(m + Hdr, After(x)),
         \A p \in Offsets' : After(p)' = IF p = m THEN After(x) ELSE After(p)
  PROVE  Tile(t)'
<1> USE ConstantFacts
<1>0. /\ m \in Nat /\ x \in Nat /\ After(x) \in Nat /\ After(m) \in Nat
      /\ m + Hdr < After(m) /\ x + Hdr < After(x) /\ After(x) <= t /\ t \in 0..Region
  BY BlockFacts DEF Tile
<1>1. m \in Offsets'
  BY <1>0 DEF Bytes
<1>2. ASSUME NEW o \in Offsets', o # m
      PROVE  o \in Offsets /\ o \in Nat /\ After(o) \in Nat /\ o + Hdr < After(o) /\ (o < m \/ o >= After(x))
  <2>1. o \in Offsets /\ ~(m + Hdr <= o /\ o < After(x))
    BY <1>0, <1>2 DEF Bytes, Tile
  <2>2. o > m => o >= After(m)
    BY <2>1 DEF Tile
  <2> QED
    BY <1>0, <1>2, <2>1, <2>2, BlockFacts
<1>3. 0 \in Offsets'
  BY <1>0 DEF Bytes, Tile
<1>4. \E l \in Offsets' : After(l)' = t
  <2>1. PICK l \in Offsets : After(l) = t
    BY DEF Tile
  <2>2. l \in Nat /\ l + Hdr < t
    BY <2>1, BlockFacts
  <2>3. l < x => After(l) <= x
    BY DEF Tile
  <2>4. l > x => After(x) <= l
    BY DEF Tile
  <2>5. CASE l = x
    BY <1>1, <2>1, <2>5
  <2>6. CASE l > x
    <3>1. l # m /\ l \in Offsets'
      BY <1>0, <2>2, <2>4, <2>6 DEF Bytes
    <3> QED
      BY <2>1, <3>1
  <2>7. ~(l < x)
    BY <1>0, <2>1, <2>3
  <2> QED
    BY <1>0, <2>2, <2>5, <2>6, <2>7
<1>5. ASSUME NEW o \in Offsets'
      PROVE  After(o)' <= t /\ (After(o)' \in Offsets' \/ After(o)' = t)
  <2>1. CASE o = m
    <3>1. After(x) \in Offsets \/ After(x) = t
      BY DEF Tile
    <3> QED
      BY <1>0, <1>1, <2>1, <3>1 DEF Bytes
  <2>2. CASE o # m
    <3>1. After(o)' = After(o) /\ After(o) <= t /\ (After(o) \in Offsets \/ After(o) = t)
      BY <1>2, <2>2 DEF Tile
    <3>2. o < m => After(o) <= m
      BY <1>2, <2>2 DEF Tile
    <3> QED
      BY <1>0, <1>2, <2>2, <3>1, <3>2 DEF Bytes
  <2> QED
    BY <2>1, <2>2
<1>6. ASSUME NEW o \in Offsets', NEW p \in Offsets', o < p
      PROVE  After(o)' <= p
  <2>1. CASE o = m
    BY <1>0, <1>1, <1>2, <1>6, <2>1
  <2>2. CASE o # m
    BY <1>2, <1>6, <2>2 DEF Tile
  <2> QED
    BY <2>1, <2>2
<1>7. Offsets' \subseteq Nat
  BY DEF Tile
<1> QED
  BY <1>0, <1>1, <1>3, <1>4, <1>5, <1>6, <1>7 DEF Tile

\* Then what follows still has its prev_block_offset near, relinked or not.
LEMMA SwallowPrev ==
  ASSUME BlockType, NEW t, Tile(t), PrevNear, NEW m \in Offsets, NEW x \in Offsets, m <= x,
         Offsets' = Offsets \ Bytes(m + Hdr, After(x)),
         \A p \in Offsets' : After(p)' = IF p = m THEN After(x) ELSE After(p),
         \A q \in Offsets' : \/ blocks'[q].prev = blocks[q].prev
                             \/ q = After(x) /\ blocks'[q].prev = m
  PROVE  PrevNear'
<1> USE ConstantFacts
<1>0. /\ m \in Nat /\ x \in Nat /\ After(x) \in Nat /\ After(m) \in Nat
      /\ m + Hdr < After(m) /\ x + Hdr < After(x)
  BY BlockFacts DEF Tile
<1> SUFFICES ASSUME NEW q \in Offsets'
             PROVE  IF q = 0 THEN blocks'[q].prev = -1
                    ELSE \E p \in Offsets' : After(p)' = q /\ p <= blocks'[q].prev /\ blocks'[q].prev < q
  BY DEF PrevNear
<1>1. CASE q = 0
  BY <1>0, <1>1 DEF PrevNear
<1>2. CASE q # 0
  <2>1. q \in Offsets /\ q \in Nat /\ ~(m + Hdr <= q /\ q < After(x)) /\ m \in Offsets'
    <3>1. q \in Offsets /\ q \notin m + Hdr .. After(x) - 1
      BY DEF Bytes
    <3>2. q \in Nat
      BY <3>1, BlockFacts
    <3> QED
      BY <1>0, <3>1, <3>2 DEF Bytes
  <2>2. PICK p \in Offsets : After(p) = q /\ p <= blocks[q].prev /\ blocks[q].prev < q
    BY <1>2, <2>1 DEF PrevNear
  <2>3. p \in Nat /\ p + Hdr < q /\ blocks[q].prev \in Int
    BY <2>1, <2>2, BlockFacts
  <2>4. CASE p < m \/ x < p
    <3>1. p # x /\ p # m
      BY <1>0, <2>3, <2>4
    <3>2. x < p => After(x) <= p
      BY DEF Tile
    <3>3. p \in Offsets'
      BY <1>0, <2>3, <2>4, <3>2 DEF Bytes
    <3>4. q # After(x)
      BY <2>2, <3>1, OnePredecessor
    <3> QED
      BY <1>2, <2>2, <3>1, <3>3, <3>4
  <2>5. CASE m <= p /\ p <= x
    <3>1. p < x => After(p) <= x
      BY DEF Tile
    <3>2. p = x
      BY <1>0, <2>1, <2>2, <2>3, <2>5, <3>1
    <3> QED
      BY <1>0, <1>2, <2>1, <2>2, <2>3, <2>5, <3>2
  <2> QED
    BY <1>0, <2>3, <2>4, <2>5
<1> QED
  BY <1>1, <1>2

\* A free block that has taken over others, all free but b, in one step.
LEMMA SwallowStep ==
  ASSUME BlockType, PrevNear, followed \in BOOLEAN, NEW t \in 0..Region, Tile(t), Zero(t),
         NEW m \in Offsets, NEW x \in Offsets, m <= x, NEW b \in Offsets,
         \A p \in Offsets : m <= p /\ p <= x => p = b \/ blocks[p].free,
         BlockType', followed' = followed,
         Offsets' = Offsets \ Bytes(m + Hdr, After(x)),
         blocks'[m].size = After(x) - m - Hdr,
         \A p \in Offsets' \ {m} :
           blocks'[p].size = blocks[p].size /\ blocks'[p].free = blocks[p].free,
         \A q \in Offsets' : \/ blocks'[q].prev = blocks[q].prev
                             \/ q = After(x) /\ blocks'[q].prev = m,
         written' = written \ Bytes(m + Hdr, After(x))
  PROVE  IInv' /\ Stays(b)
<1> USE ConstantFacts
<1>0. /\ m \in Nat /\ x \in Nat /\ After(x) \in Nat /\ m + Hdr < After(m) /\ x + Hdr < After(x)
      /\ After(x) <= t
  BY BlockFacts
<1>1. ASSUME NEW p \in Offsets' PROVE After(p)' = IF p = m THEN After(x) ELSE After(p)
  <2>1. CASE p = m
    BY <1>0, <2>1 DEF After
  <2>2. CASE p # m
    BY <2>2 DEF After
  <2> QED
    BY <2>1, <2>2
<1>2. Tile(t)'
  BY <1>1, SwallowTile
<1>3. PrevNear'
  BY <1>1, SwallowPrev
<1>4. Zero(t)'
  <2>1. written' \subseteq 0..(t - 1)
    BY DEF Zero
  <2>2. ASSUME NEW o \in Offsets', blocks'[o].free, NEW y \in Payload(o)' PROVE y \notin written'
    <3>1. CASE o = m
      BY <1>1, <2>2, <3>1 DEF Payload
    <3>2. CASE o # m
      <4>1. blocks[o].free /\ y \in Payload(o)
        BY <1>1, <2>2, <3>2 DEF Payload
      <4> QED
        BY <4>1 DEF Zero
    <3> QED
      BY <3>1, <3>2
  <2> QED
    BY <2>1, <2>2 DEF Zero
<1>5. ASSUME NEW o \in Live \ {b}
      PROVE  o \in Offsets' /\ ~blocks'[o].free /\ blocks'[o].size = blocks[o].size
  <2>1. o \in Offsets /\ ~blocks[o].free /\ o \in Nat /\ (o < m \/ x < o)
    <3>1. o \in Offsets /\ ~blocks[o].free /\ o # b
      BY <1>5 DEF Live
    <3>2. o \in Nat
      BY <3>1, BlockFacts
    <3>3. ~(m <= o /\ o <= x)
      BY <3>1
    <3> QED
      BY <1>0, <3>1, <3>2, <3>3
  <2>2. x < o => After(x) <= o
    BY <2>1 DEF Tile
  <2>3. o \in Offsets' /\ o # m
    BY <1>0, <2>1, <2>2 DEF Bytes
  <2> QED
    BY <2>1, <2>3
<1> QED
  BY <1>2, <1>3, <1>4, <1>5 DEF IInv, Stays

\* The block of an unallocated tail: x is b or the free block behind it.
LEMMA NextGainIs ==
  ASSUME BlockType, NEW t, Tile(t), NEW b \in Offsets
  PROVE  \E x \in Offsets :
           /\ b <= x /\ After(x) = After(b) + NextGain(b)
           /\ x = b \/ (x = After(b) /\ blocks[x].free)
           /\ \A p \in Offsets : b <= p /\ p <= x => p = b \/ p = x
<1>0. b \in Nat /\ After(b) \in Nat /\ b < After(b)
  BY BlockFacts, ConstantFacts
<1>1. CASE HasNext(b) /\ blocks[After(b)].free
  <2>1. After(b) \in Offsets /\ NextGain(b) = Hdr + blocks[After(b)].size
    BY <1>1 DEF HasNext, NextGain
  <2>2. After(After(b)) = After(b) + NextGain(b)
    BY <1>0, <2>1, BlockFacts, ConstantFacts DEF After
  <2>3. ASSUME NEW p \in Offsets, b <= p, p <= After(b) PROVE p = b \/ p = After(b)
    <3>1. b < p => After(b) <= p
      BY DEF Tile
    <3> QED
      <4>1. p \in Nat
        BY BlockFacts
      <4> QED
        BY <1>0, <2>3, <3>1, <4>1
  <2> QED
    BY <1>0, <1>1, <2>1, <2>2, <2>3
<1>2. CASE ~(HasNext(b) /\ blocks[After(b)].free)
  <2>1. NextGain(b) = 0
    BY <1>2 DEF NextGain
  <2>2. \A p \in Offsets : b <= p /\ p <= b => p = b
    BY <1>0, BlockFacts
  <2> QED
    BY <1>0, <2>1, <2>2
<1> QED
  BY <1>1, <1>2

\* A block freed where it is, with the free block behind it.
LEMMA FreeAloneStep ==
  ASSUME IInv, NEW b \in Offsets, FreeAlone(b)
  PROVE  IInv' /\ Stays(b)
<1> USE ConstantFacts
<1>1. PICK t \in 0..Region : Tile(t) /\ Zero(t)
  BY DEF IInv
<1>2. BlockType /\ PrevNear /\ followed \in BOOLEAN
  BY DEF IInv
<1>3. PICK x \in Offsets :
        /\ b <= x /\ After(x) = After(b) + NextGain(b)
        /\ x = b \/ (x = After(b) /\ blocks[x].free)
        /\ \A p \in Offsets : b <= p /\ p <= x => p = b \/ p = x
  BY <1>1, <1>2, NextGainIs
<1>4. /\ b \in Nat /\ After(b) = b + Hdr + blocks[b].size /\ blocks[b].size \in Nat
      /\ After(x) \in Nat /\ x \in Nat /\ x + Hdr < After(x)
  BY <1>1, <1>2, BlockFacts
<1> DEFINE n == After(x) - b - Hdr
<1>5. n = blocks[b].size + NextGain(b) /\ n \in Nat \ {0} /\ b + Hdr + n = After(x)
  <2>1. NextGain(b) = After(x) - After(b)
    <3>1. NextGain(b) \in Int
      <4>1. HasNext(b) => blocks[After(b)].size \in Nat
        BY <1>1, <1>2, BlockFacts DEF HasNext
      <4> QED
        BY <4>1 DEF NextGain
    <3> QED
      BY <1>3, <1>4, <3>1
  <2> QED
    BY <1>3, <1>4, <2>1
<1> HIDE DEF n
<1>6. /\ blocks' = [p \in Offsets \ Bytes(b + Hdr, After(x)) |->
                      IF p = b THEN [blocks[b] EXCEPT !.size = n, !.free = TRUE] ELSE blocks[p]]
      /\ written' = written \ Bytes(b + Hdr, After(x)) /\ followed' = followed
  BY <1>5 DEF FreeAlone, Merge
<1>7. Offsets' = Offsets \ Bytes(b + Hdr, After(x))
  BY <1>6 DEF Offsets
<1>8. b \in Offsets' /\ blocks[b] \in Header
  BY <1>2, <1>4, <1>7 DEF Bytes, BlockType
<1>9. /\ blocks'[b] = [size |-> n, free |-> TRUE, prev |-> blocks[b].prev]
      /\ \A p \in Offsets' \ {b} : blocks'[p] = blocks[p]
  BY <1>6, <1>7, <1>8 DEF Header
<1>10. BlockType'
  <2>1. \A p \in Offsets' : blocks'[p] \in Header
    <3>1. blocks'[b] \in Header
      BY <1>5, <1>8, <1>9 DEF Header
    <3>2. \A p \in Offsets' \ {b} : blocks'[p] \in Header
      BY <1>2, <1>7, <1>9 DEF BlockType
    <3> QED
      BY <3>1, <3>2
  <2>2. blocks' = [p \in Offsets' |-> blocks'[p]]
    BY <1>6, <1>7
  <2> QED
    BY <2>1, <2>2 DEF BlockType
<1>11. blocks'[b].size = After(x) - b - Hdr
  BY <1>9 DEF n
<1>12. \A p \in Offsets : b <= p /\ p <= x => p = b \/ blocks[p].free
  BY <1>3
<1>13. \A q \in Offsets' : \/ blocks'[q].prev = blocks[q].prev
                           \/ q = After(x) /\ blocks'[q].prev = b
  BY <1>9
<1>14. \A p \in Offsets' \ {b} : blocks'[p].size = blocks[p].size /\ blocks'[p].free = blocks[p].free
  BY <1>9
<1>15. /\ Offsets' = Offsets \ Bytes(b + Hdr, After(x)) /\ b <= x /\ followed' = followed
       /\ written' = written \ Bytes(b + Hdr, After(x))
  BY <1>3, <1>6, <1>7
<1> QED
  BY <1>1, <1>2, <1>10, <1>11, <1>12, <1>13, <1>14, <1>15, SwallowStep

\* A block freed into the free block that its prev_block_offset names: that is
\* the header of the block before, since nothing else near is a header.
LEMMA FreeIntoPrevStep ==
  ASSUME IInv, NEW b \in Offsets, FreeIntoPrev(b)
  PROVE  IInv' /\ Stays(b)
<1> USE ConstantFacts
<1> DEFINE m == blocks[b].prev
<1>1. PICK t \in 0..Region : Tile(t) /\ Zero(t)
  BY DEF IInv
<1>2. BlockType /\ PrevNear /\ followed \in BOOLEAN
  BY DEF IInv
<1>3. m \in Offsets /\ blocks[m].free /\ m >= 0
  BY DEF FreeIntoPrev, HasPrev
<1>4. After(m) = b
  <2>1. m \in Nat /\ b \in Nat /\ b # 0
    BY <1>1, <1>2, <1>3, BlockFacts DEF PrevNear
  <2>2. PICK p \in Offsets : After(p) = b /\ p <= m /\ m < b
    BY <1>2, <2>1 DEF PrevNear
  <2>3. p < m => After(p) <= m
    BY <1>1, <1>3 DEF Tile
  <2>4. p \in Nat
    BY <1>1, <1>2, BlockFacts
  <2>5. p = m
    BY <2>1, <2>2, <2>3, <2>4
  <2> QED
    BY <2>2, <2>5
<1>5. PICK x \in Offsets :
        /\ b <= x /\ After(x) = After(b) + NextGain(b)
        /\ x = b \/ (x = After(b) /\ blocks[x].free)
        /\ \A p \in Offsets : b <= p /\ p <= x => p = b \/ p = x
  BY <1>1, <1>2, NextGainIs
<1>6. /\ m \in Nat /\ b \in Nat /\ x \in Nat /\ m + Hdr < b /\ x + Hdr < After(x)
      /\ After(b) = b + Hdr + blocks[b].size /\ blocks[b].size \in Nat
      /\ b = m + Hdr + blocks[m].size /\ blocks[m].size \in Nat
      /\ After(x) \in Nat /\ After(b) \in Nat /\ b < After(b)
  BY <1>1, <1>2, <1>3, <1>4, BlockFacts
<1> DEFINE n == After(x) - m - Hdr
<1>7. /\ n = blocks[m].size + Hdr + blocks[b].size + NextGain(b)
      /\ n \in Nat \ {0} /\ m + Hdr + n = After(x)
  <2>1. NextGain(b) \in Int
    <3>1. HasNext(b) => blocks[After(b)].size \in Nat
      BY <1>1, <1>2, BlockFacts DEF HasNext
    <3> QED
      BY <3>1 DEF NextGain
  <2> QED
    BY <1>5, <1>6, <2>1
<1> HIDE DEF n
<1> DEFINE linked == [q \in Offsets |-> IF q = After(b) THEN [blocks[q] EXCEPT !.prev = m] ELSE blocks[q]]
<1>8. /\ blocks' = [q \in Offsets \ Bytes(m + Hdr, After(x)) |->
                      IF q = m THEN [linked[m] EXCEPT !.size = n] ELSE linked[q]]
      /\ written' = written \ Bytes(m + Hdr, After(x)) /\ followed' = followed
  BY <1>7 DEF FreeIntoPrev
<1>9. linked[m] = blocks[m]
  BY <1>3, <1>6
<1>10. \A q \in Offsets : /\ q = After(b) => linked[q] = [blocks[q] EXCEPT !.prev = m]
                          /\ q # After(b) => linked[q] = blocks[q]
  OBVIOUS
<1> HIDE DEF linked
<1>11. Offsets' = Offsets \ Bytes(m + Hdr, After(x)) /\ blocks' = [q \in Offsets' |-> blocks'[q]]
  BY <1>8 DEF Offsets
<1>12. m \in Offsets' /\ blocks[m] \in Header
  BY <1>2, <1>3, <1>6, <1>11 DEF Bytes, BlockType
<1>13. blocks'[m] = [size |-> n, free |-> blocks[m].free, prev |-> blocks[m].prev]
  BY <1>8, <1>9, <1>11, <1>12 DEF Header
<1>14. ASSUME NEW q \in Offsets', q # m
       PROVE  /\ blocks'[q].size = blocks[q].size /\ blocks'[q].free = blocks[q].free
              /\ blocks'[q] \in Header
              /\ blocks'[q].prev = blocks[q].prev \/ (q = After(x) /\ blocks'[q].prev = m)
  <2>1. blocks'[q] = linked[q] /\ q \in Offsets /\ blocks[q] \in Header
    BY <1>2, <1>8, <1>11, <1>14 DEF BlockType
  <2>2. CASE q # After(b)
    <3>1. blocks'[q] = blocks[q]
      BY <1>10, <2>1, <2>2
    <3> QED
      BY <2>1, <3>1
  <2>3. CASE q = After(b)
    <3>1. q = After(x)
      <4>1. q # x
        BY <1>6, <1>11, <2>3, <1>5 DEF Bytes
      <4> QED
        BY <1>5, <2>3, <4>1
    <3>2. blocks'[q] = [size |-> blocks[q].size, free |-> blocks[q].free, prev |-> m]
      <4>1. blocks'[q] = [blocks[q] EXCEPT !.prev = m]
        BY <1>10, <2>1, <2>3
      <4> QED
        BY <2>1, <4>1 DEF Header
    <3> QED
      BY <1>6, <2>1, <3>1, <3>2 DEF Header
  <2> QED
    BY <2>2, <2>3
<1>15. BlockType'
  <2>1. blocks'[m] \in Header
    BY <1>7, <1>12, <1>13 DEF Header
  <2> QED
    BY <1>11, <1>14, <2>1 DEF BlockType
<1>16. ASSUME NEW p \in Offsets, m <= p, p <= x PROVE p = b \/ blocks[p].free
  <2>1. p \in Nat
    BY <1>1, <1>2, BlockFacts
  <2>2. m < p => b <= p
    BY <1>1, <1>3, <1>4 DEF Tile
  <2> QED
    BY <1>3, <1>5, <1>6, <1>16, <2>1, <2>2
<1>17. m <= x /\ blocks'[m].size = After(x) - m - Hdr /\ blocks'[m].prev = blocks[m].prev
  BY <1>5, <1>6, <1>13 DEF n
<1>18. \A p \in Offsets' \ {m} :
         blocks'[p].size = blocks[p].size /\ blocks'[p].free = blocks[p].free
  BY <1>14
<1>19. \A q \in Offsets' : \/ blocks'[q].prev = blocks[q].prev
                           \/ q = After(x) /\ blocks'[q].prev = m
  BY <1>14, <1>17
<1>20. written' = written \ Bytes(m + Hdr, After(x)) /\ followed' = followed
  BY <1>8
<1> HIDE DEF m
<1> QED
  BY <1>1, <1>2, <1>3, <1>20, <1>11, <1>15, <1>16, <1>17, <1>18, <1>19, SwallowStep

\* The only block is deleted: the region is as it was at the beginning.
LEMMA FreeOnlyStep ==
  ASSUME IInv, NEW b \in Offsets, FreeOnly(b)
  PROVE  IInv' /\ Stays(b)
<1> USE ConstantFacts
<1>1. PICK t \in 0..Region : Tile(t) /\ Zero(t)
  BY DEF IInv
<1>2. BlockType /\ PrevNear /\ followed \in BOOLEAN
  BY DEF IInv
<1>3. /\ blocks[b].prev < 0 /\ After(b) \notin Offsets
      /\ blocks' = [p \in Offsets \ {b} |-> blocks[p]]
      /\ written' = written \ Bytes(b, After(b)) /\ followed' = followed
  <2>1. blocks[b].prev \in Int
    BY <1>1, <1>2, BlockFacts
  <2> QED
    BY <2>1 DEF FreeOnly, HasPrev, HasNext, Deleted
<1>4. b = 0
  <2>1. SUFFICES ASSUME b # 0 PROVE FALSE
    OBVIOUS
  <2>2. PICK p \in Offsets : After(p) = b /\ p <= blocks[b].prev /\ blocks[b].prev < b
    BY <1>2, <2>1 DEF PrevNear
  <2>3. p \in Nat /\ blocks[b].prev \in Int
    BY <1>1, <1>2, BlockFacts
  <2> QED
    BY <1>3, <2>2, <2>3
<1>5. After(b) = t
  BY <1>1, <1>3 DEF Tile
<1>6. Offsets = {b}
  <2>1. SUFFICES ASSUME NEW o \in Offsets, o # b PROVE FALSE
    OBVIOUS
  <2>2. o \in Nat /\ o < After(o) /\ After(o) <= t /\ After(o) \in Nat
    BY <1>1, <1>2, BlockFacts
  <2>3. After(b) <= o
    BY <1>1, <1>4, <2>1, <2>2 DEF Tile
  <2> QED
    BY <1>1, <1>5, <2>2, <2>3
<1>7. Offsets' = {}
  BY <1>3, <1>6 DEF Offsets
<1>8. BlockType' /\ PrevNear'
  <2>1. blocks' = [p \in Offsets' |-> blocks'[p]]
    BY <1>3 DEF Offsets
  <2> QED
    BY <1>7, <2>1 DEF BlockType, PrevNear
<1>9. Tile(0)'
  BY <1>7 DEF Tile
<1>10. Zero(0)'
  <2>1. written' = {}
    BY <1>1, <1>3, <1>4, <1>5 DEF Zero, Bytes
  <2> QED
    BY <1>7, <2>1 DEF Zero
<1>11. 0 \in 0..Region /\ followed' \in BOOLEAN
  BY <1>2, <1>3
<1> QED
  BY <1>6, <1>8, <1>9, <1>10, <1>11 DEF IInv, Stays, Live

\* A free block of the size that was asked for is taken.
LEMMA AllocExactStep ==
  ASSUME IInv, NEW n \in Sizes, NEW o \in Offsets, AllocExact(o, n)
  PROVE  IInv' /\ Stays(-1)
<1> USE ConstantFacts
<1>1. PICK t \in 0..Region : Tile(t) /\ Zero(t)
  BY DEF IInv
<1>2. BlockType /\ PrevNear /\ followed \in BOOLEAN
  BY DEF IInv
<1>3. blocks[o].free /\ written' = written \union Payload(o) /\ followed' = followed
  BY DEF AllocExact, Exact
<1>4. /\ Offsets' = Offsets /\ BlockType'
      /\ \A p \in Offsets : /\ blocks'[p].size = blocks[p].size /\ blocks'[p].prev = blocks[p].prev
                            /\ p # o => blocks'[p].free = blocks[p].free
      /\ ~blocks'[o].free
  BY <1>2 DEF AllocExact, BlockType, Header, Offsets
<1>5. \A p \in Offsets : After(p)' = After(p)
  BY <1>4 DEF After
<1>6. Tile(t)'
  BY <1>1, <1>4, <1>5 DEF Tile
<1>7. PrevNear'
  BY <1>2, <1>4, <1>5 DEF PrevNear
<1>8. o \in Nat /\ After(o) \in Nat /\ After(o) <= t /\ t \in Nat /\ o + Hdr < After(o)
  BY <1>1, <1>2, BlockFacts
<1>9. Zero(t)'
  <2>1. written' \subseteq 0..(t - 1)
    <3>1. Payload(o) \subseteq 0..(t - 1)
      BY <1>8 DEF Payload, Bytes
    <3> QED
      BY <1>1, <1>3, <3>1 DEF Zero
  <2>2. ASSUME NEW p \in Offsets, blocks'[p].free, NEW y \in Payload(p) PROVE y \notin written'
    <3>1. p # o /\ blocks[p].free
      BY <1>4, <2>2
    <3>2. p \in Nat /\ After(p) \in Nat /\ p + Hdr < After(p)
      BY <1>1, <1>2, BlockFacts
    <3>3. (p < o => After(p) <= o) /\ (o < p => After(o) <= p)
      BY <1>1 DEF Tile
    <3>4. y \notin Payload(o)
      BY <1>8, <2>2, <3>1, <3>2, <3>3 DEF Payload, Bytes
    <3>5. y \notin written
      BY <1>1, <2>2, <3>1 DEF Zero
    <3> QED
      BY <1>3, <3>4, <3>5
  <2>3. \A p \in Offsets : Payload(p)' = Payload(p)
    BY <1>5 DEF Payload
  <2> QED
    BY <1>4, <2>1, <2>2, <2>3 DEF Zero
<1>10. Stays(-1)
  BY <1>3, <1>4 DEF Stays, Live
<1>11. followed' \in BOOLEAN
  BY <1>2, <1>3
<1> QED
  BY <1>4, <1>6, <1>7, <1>9, <1>10, <1>11 DEF IInv

\* A free block that is too large is split in two.
LEMMA AllocSplitStep ==
  ASSUME IInv, NEW n \in Sizes, NEW o \in Offsets, AllocSplit(o, n)
  PROVE  IInv' /\ Stays(-1)
<1> USE ConstantFacts
<1>1. PICK t \in 0..Region : Tile(t) /\ Zero(t)
  BY DEF IInv
<1>2. BlockType /\ PrevNear /\ followed \in BOOLEAN
  BY DEF IInv
<1> DEFINE r == o + Hdr + n
<1>3. /\ o \in Nat /\ n \in Nat /\ n >= 1 /\ blocks[o].size \in Nat
      /\ After(o) = o + Hdr + blocks[o].size /\ After(o) \in Nat /\ After(o) <= t /\ t \in 0..Region
  BY <1>1, <1>2, BlockFacts
<1>4. blocks[o].free /\ blocks[o].size - n > Hdr
  BY DEF AllocSplit, FirstFit, Large
<1>5. r \in Nat /\ o + Hdr < r /\ r + Hdr < After(o)
  BY <1>3, <1>4
<1>6. ASSUME NEW p \in Offsets, p # o
      PROVE  /\ p \in Nat /\ After(p) \in Nat /\ p + Hdr < After(p) /\ After(p) <= t
             /\ p < o => After(p) <= o
             /\ p > o => p >= After(o)
             /\ p # r /\ After(p) # r /\ After(p) # After(o)
  <2>1. p \in Nat /\ After(p) \in Nat /\ p + Hdr < After(p) /\ After(p) <= t
    BY <1>1, <1>2, BlockFacts
  <2>2. (p < o => After(p) <= o) /\ (p > o => p >= After(o))
    BY <1>1 DEF Tile
  <2> QED
    BY <1>3, <1>5, <1>6, <2>1, <2>2
<1>7. /\ blocks' = [p \in Offsets \union {r} |->
            CASE p = o    -> [blocks[o] EXCEPT !.size = n, !.free = FALSE]
              [] p = r    -> [size |-> Rest(o, n), free |-> TRUE, prev |-> o]
              [] p = After(o) -> [blocks[p] EXCEPT !.prev = r]
              [] OTHER    -> blocks[p]]
      /\ written' = written \union Bytes(o + Hdr, r + Hdr) /\ followed' = followed
  BY DEF AllocSplit
<1>8. Rest(o, n) = After(o) - r - Hdr /\ Rest(o, n) \in Nat \ {0}
  BY <1>3, <1>4 DEF Rest
<1> HIDE DEF r
<1>9. Offsets' = Offsets \union {r} /\ blocks' = [p \in Offsets' |-> blocks'[p]]
  BY <1>7 DEF Offsets
<1>10. \A p \in Offsets : blocks[p] \in Header
  BY <1>2 DEF BlockType
<1>11. blocks'[o] = [size |-> n, free |-> FALSE, prev |-> blocks[o].prev]
  <2>1. blocks'[o] = [blocks[o] EXCEPT !.size = n, !.free = FALSE]
    BY <1>3, <1>5, <1>7
  <2> QED
    BY <1>10, <2>1 DEF Header
<1>12. blocks'[r] = [size |-> After(o) - r - Hdr, free |-> TRUE, prev |-> o]
  BY <1>5, <1>7, <1>8, <1>3
<1>13. ASSUME NEW p \in Offsets, p # o
       PROVE  /\ blocks'[p].size = blocks[p].size /\ blocks'[p].free = blocks[p].free
              /\ blocks'[p].prev = (IF p = After(o) THEN r ELSE blocks[p].prev)
              /\ blocks'[p] \in Header
  <2>1. p # r /\ blocks[p] \in Header
    BY <1>6, <1>10, <1>13
  <2>2. CASE p = After(o)
    <3>1. blocks'[p] = [blocks[p] EXCEPT !.prev = r]
      BY <1>7, <1>13, <2>1, <2>2
    <3>2. blocks'[p] = [size |-> blocks[p].size, free |-> blocks[p].free, prev |-> r]
      BY <2>1, <3>1 DEF Header
    <3> QED
      BY <1>5, <2>1, <2>2, <3>2 DEF Header
  <2>3. CASE p # After(o)
    <3>1. blocks'[p] = blocks[p]
      BY <1>7, <1>13, <2>1, <2>3
    <3> QED
      BY <2>1, <2>3, <3>1
  <2> QED
    BY <2>2, <2>3
<1>14. BlockType'
  <2>1. blocks'[o] \in Header
    BY <1>3, <1>10, <1>11 DEF Header
  <2>2. blocks'[r] \in Header
    BY <1>3, <1>5, <1>12 DEF Header
  <2>3. \A p \in Offsets : p # o => blocks'[p] \in Header
    BY <1>13
  <2> QED
    BY <1>9, <2>1, <2>2, <2>3 DEF BlockType
<1>15. /\ After(o)' = r /\ After(r)' = After(o)
       /\ \A p \in Offsets : p # o => After(p)' = After(p)
  <2>1. After(o)' = r
    BY <1>11 DEF After, r
  <2>2. After(r)' = After(o)
    <3>1. blocks'[r].size = After(o) - r - Hdr
      BY <1>12
    <3>2. After(r)' = r + Hdr + blocks'[r].size
      BY DEF After
    <3> QED
      BY <1>3, <1>5, <3>1, <3>2
  <2>3. \A p \in Offsets : p # o => After(p)' = After(p)
    BY <1>13 DEF After
  <2> QED
    BY <2>1, <2>2, <2>3
<1>16. Tile(t)'
  <2>1. 0 \in Offsets' /\ Offsets' \subseteq Nat /\ t \in 0..Region
    BY <1>1, <1>3, <1>5, <1>9 DEF Tile
  <2>2. \E l \in Offsets' : After(l)' = t
    <3>1. PICK l \in Offsets : After(l) = t
      BY <1>1 DEF Tile
    <3>2. CASE l = o
      BY <1>9, <1>15, <3>1, <3>2
    <3>3. CASE l # o
      BY <1>9, <1>15, <3>1, <3>3
    <3> QED
      BY <3>2, <3>3
  <2>3. ASSUME NEW p \in Offsets'
        PROVE  After(p)' <= t /\ (After(p)' \in Offsets' \/ After(p)' = t)
    <3>1. CASE p = o
      BY <1>3, <1>5, <1>9, <1>15, <3>1
    <3>2. CASE p = r
      <4>1. After(o) \in Offsets \/ After(o) = t
        BY <1>1 DEF Tile
      <4> QED
        BY <1>3, <1>9, <1>15, <3>2, <4>1
    <3>3. CASE p \in Offsets /\ p # o
      <4>1. After(p) <= t /\ (After(p) \in Offsets \/ After(p) = t)
        BY <1>1, <3>3 DEF Tile
      <4> QED
        BY <1>9, <1>15, <3>3, <4>1
    <3> QED
      BY <1>9, <3>1, <3>2, <3>3
  <2>4. ASSUME NEW p \in Offsets', NEW q \in Offsets', p < q PROVE After(p)' <= q
    <3>1. CASE p = o
      BY <1>3, <1>5, <1>6, <1>9, <1>15, <2>4, <3>1
    <3>2. CASE p = r
      BY <1>3, <1>5, <1>6, <1>9, <1>15, <2>4, <3>2
    <3>3. CASE p \in Offsets /\ p # o
      <4>1. CASE q = r
        BY <1>3, <1>5, <1>6, <1>15, <2>4, <3>3, <4>1
      <4>2. CASE q \in Offsets
        BY <1>1, <1>15, <2>4, <3>3, <4>2 DEF Tile
      <4> QED
        BY <1>9, <4>1, <4>2
    <3> QED
      BY <1>9, <3>1, <3>2, <3>3
  <2> QED
    BY <2>1, <2>2, <2>3, <2>4 DEF Tile
<1>17. PrevNear'
  <2> SUFFICES ASSUME NEW q \in Offsets'
               PROVE  IF q = 0 THEN blocks'[q].prev = -1
                      ELSE \E p \in Offsets' : After(p)' = q /\ p <= blocks'[q].prev /\ blocks'[q].prev < q
    BY DEF PrevNear
  <2>1. CASE q = r
    BY <1>3, <1>5, <1>9, <1>12, <1>15, <2>1
  <2>2. CASE q \in Offsets /\ q = After(o)
    <3>1. q # o /\ q # 0 /\ blocks'[q].prev = r
      BY <1>3, <1>5, <1>13, <2>2
    <3> QED
      BY <1>3, <1>5, <1>9, <1>15, <2>2, <3>1
  <2>3. CASE q \in Offsets /\ q # After(o) /\ q # 0
    <3>1. blocks'[q].prev = blocks[q].prev
      BY <1>11, <1>13, <2>3
    <3>2. PICK p \in Offsets : After(p) = q /\ p <= blocks[q].prev /\ blocks[q].prev < q
      BY <1>2, <2>3 DEF PrevNear
    <3>3. p # o
      BY <2>3, <3>2
    <3> QED
      BY <1>9, <1>15, <2>3, <3>1, <3>2, <3>3
  <2>4. CASE q = 0
    <3>1. q \in Offsets /\ q # After(o)
      BY <1>3, <1>5, <1>9, <2>4
    <3>2. blocks'[q].prev = blocks[q].prev
      BY <1>11, <1>13, <3>1
    <3> QED
      BY <1>2, <2>4, <3>1, <3>2 DEF PrevNear
  <2> QED
    BY <1>9, <2>1, <2>2, <2>3, <2>4
<1>18. Zero(t)'
  <2>1. written' \subseteq 0..(t - 1)
    <3>1. Bytes(o + Hdr, r + Hdr) \subseteq 0..(t - 1)
      BY <1>3, <1>5 DEF Bytes
    <3> QED
      BY <1>1, <1>7, <3>1 DEF Zero
  <2>2. ASSUME NEW p \in Offsets', blocks'[p].free, NEW y \in Payload(p)' PROVE y \notin written'
    <3>1. p # o
      BY <1>11, <2>2
    <3>2. CASE p = r
      <4>1. y \in Int /\ r + Hdr <= y /\ y < After(o)
        BY <1>3, <1>5, <1>15, <2>2, <3>2 DEF Payload, Bytes
      <4>2. y \in Payload(o)
        BY <1>3, <1>5, <4>1 DEF Payload, Bytes
      <4>3. y \notin written
        BY <1>1, <1>4, <4>2 DEF Zero
      <4> QED
        BY <1>3, <1>5, <1>7, <4>1, <4>3 DEF Bytes
    <3>3. CASE p \in Offsets
      <4>1. blocks[p].free /\ y \in Payload(p)
        BY <1>13, <1>15, <2>2, <3>1, <3>3 DEF Payload
      <4>2. y \notin written
        BY <1>1, <3>3, <4>1 DEF Zero
      <4>3. y \in Int /\ p + Hdr <= y /\ y < After(p)
        BY <1>6, <3>1, <3>3, <4>1 DEF Payload, Bytes
      <4> QED
        BY <1>3, <1>5, <1>6, <1>7, <3>1, <3>3, <4>2, <4>3 DEF Bytes
    <3> QED
      BY <1>9, <3>2, <3>3
  <2> QED
    BY <2>1, <2>2 DEF Zero
<1>19. Stays(-1)
  <2>1. ASSUME NEW p \in Live PROVE p \in Offsets' /\ ~blocks'[p].free /\ blocks'[p].size = blocks[p].size
    <3>1. p \in Offsets /\ ~blocks[p].free
      BY DEF Live
    <3>2. p # o
      BY <1>4, <3>1
    <3> QED
      BY <1>9, <1>13, <3>1, <3>2
  <2> QED
    BY <2>1 DEF Stays
<1>20. followed' \in BOOLEAN
  BY <1>2, <1>7
<1> QED
  BY <1>14, <1>16, <1>17, <1>18, <1>19, <1>20 DEF IInv

\* No block fits: a new one begins where the tiling ends.
LEMMA AllocAppendStep ==
  ASSUME IInv, NEW n \in Sizes, AllocAppend(n)
  PROVE  IInv' /\ Stays(-1)
<1> USE ConstantFacts
<1>1. PICK t \in 0..Region : Tile(t) /\ Zero(t)
  BY DEF IInv
<1>2. BlockType /\ PrevNear /\ followed \in BOOLEAN
  BY DEF IInv
<1>3. Top = t /\ (Offsets # {} => Last \in Offsets /\ After(Last) = t)
  BY <1>1, <1>2, TopIs
<1> DEFINE u == t + Hdr + n
<1>4. u \in 0..Region /\ t \in Nat /\ n \in Nat /\ n >= 1 /\ u \in Nat /\ t + Hdr < u
  BY <1>3 DEF AllocAppend, Fits
<1>5. ASSUME NEW p \in Offsets
      PROVE  p \in Nat /\ After(p) \in Nat /\ p + Hdr < After(p) /\ After(p) <= t /\ p < t /\ blocks[p] \in Header
  BY <1>1, <1>2, BlockFacts DEF BlockType
<1>6. /\ blocks' = [p \in Offsets \union {t} |->
                      IF p = t THEN [size |-> n, free |-> FALSE, prev |-> IF Offsets = {} THEN -1 ELSE Last]
                               ELSE blocks[p]]
      /\ written' = written \union Bytes(t, u) /\ followed' = followed
  BY <1>3 DEF AllocAppend
<1> HIDE DEF u
<1>7. Offsets' = Offsets \union {t} /\ blocks' = [p \in Offsets' |-> blocks'[p]]
  BY <1>6 DEF Offsets
<1>8. blocks'[t] = [size |-> n, free |-> FALSE, prev |-> IF Offsets = {} THEN -1 ELSE Last]
  BY <1>6
<1>9. \A p \in Offsets : p # t /\ blocks'[p] = blocks[p]
  BY <1>5, <1>6
<1>10. blocks'[t].prev = (IF Offsets = {} THEN -1 ELSE Last) /\ blocks'[t].size = n /\ ~blocks'[t].free
  BY <1>8
<1>11. BlockType'
  <2>1. (IF Offsets = {} THEN -1 ELSE Last) \in Int
    BY <1>3, <1>5
  <2>2. blocks'[t] \in Header
    BY <1>4, <1>8, <2>1 DEF Header
  <2> QED
    BY <1>5, <1>7, <1>9, <2>2 DEF BlockType
<1>12. After(t)' = u /\ \A p \in Offsets : After(p)' = After(p)
  BY <1>9, <1>10 DEF After, u
<1>13. Tile(u)'
  <2>1. Offsets' # {} /\ Offsets' \subseteq Nat /\ \E l \in Offsets' : After(l)' = u
    BY <1>4, <1>5, <1>7, <1>12
  <2>2. 0 \in Offsets'
    BY <1>1, <1>7 DEF Tile
  <2>3. ASSUME NEW p \in Offsets'
        PROVE  After(p)' <= u /\ (After(p)' \in Offsets' \/ After(p)' = u)
    <3>1. CASE p = t
      BY <1>4, <1>12, <3>1
    <3>2. CASE p \in Offsets
      <4>1. After(p) \in Offsets \/ After(p) = t
        BY <1>1, <3>2 DEF Tile
      <4> QED
        BY <1>4, <1>5, <1>7, <1>12, <3>2, <4>1
    <3> QED
      BY <1>7, <3>1, <3>2
  <2>4. ASSUME NEW p \in Offsets', NEW q \in Offsets', p < q PROVE After(p)' <= q
    <3>1. CASE q = t
      <4>1. p \in Offsets
        BY <1>4, <1>7, <2>4, <3>1
      <4> QED
        BY <1>5, <1>12, <3>1, <4>1
    <3>2. CASE q \in Offsets
      <4>1. p \in Offsets
        BY <1>4, <1>5, <1>7, <2>4, <3>2
      <4> QED
        BY <1>1, <1>12, <2>4, <3>2, <4>1 DEF Tile
    <3> QED
      BY <1>7, <3>1, <3>2
  <2> QED
    BY <1>4, <2>1, <2>2, <2>3, <2>4 DEF Tile
<1>14. PrevNear'
  <2> SUFFICES ASSUME NEW q \in Offsets'
               PROVE  IF q = 0 THEN blocks'[q].prev = -1
                      ELSE \E p \in Offsets' : After(p)' = q /\ p <= blocks'[q].prev /\ blocks'[q].prev < q
    BY DEF PrevNear
  <2>1. CASE q = t
    <3>1. CASE Offsets = {}
      BY <1>1, <1>10, <2>1, <3>1 DEF Tile
    <3>2. CASE Offsets # {}
      <4>1. PICK l \in Offsets : l = Last /\ After(l) = t
        BY <1>3, <3>2
      <4>2. l \in Offsets' /\ After(l)' = t /\ l \in Nat /\ l < t /\ t # 0
        BY <1>4, <1>5, <1>7, <1>12, <4>1
      <4>3. blocks'[t].prev = l
        BY <1>10, <3>2, <4>1
      <4> QED
        BY <2>1, <4>2, <4>3
    <3> QED
      BY <3>1, <3>2
  <2>2. CASE q \in Offsets
    <3>1. blocks'[q] = blocks[q]
      BY <1>9, <2>2
    <3>2. CASE q = 0
      BY <1>2, <2>2, <3>1, <3>2 DEF PrevNear
    <3>3. CASE q # 0
      <4>1. PICK p \in Offsets : After(p) = q /\ p <= blocks[q].prev /\ blocks[q].prev < q
        BY <1>2, <2>2, <3>3 DEF PrevNear
      <4> QED
        BY <1>7, <1>12, <3>1, <3>3, <4>1
    <3> QED
      BY <3>2, <3>3
  <2> QED
    BY <1>7, <2>1, <2>2
<1>15. Zero(u)'
  <2>1. written' \subseteq 0..(u - 1)
    <3>1. Bytes(t, u) \subseteq 0..(u - 1) /\ 0..(t - 1) \subseteq 0..(u - 1)
      BY <1>4 DEF Bytes
    <3> QED
      BY <1>1, <1>6, <3>1 DEF Zero
  <2>2. ASSUME NEW p \in Offsets', blocks'[p].free, NEW y \in Payload(p)' PROVE y \notin written'
    <3>1. p \in Offsets
      BY <1>7, <1>10, <2>2
    <3>2. blocks[p].free /\ y \in Payload(p)
      BY <1>9, <1>12, <2>2, <3>1 DEF Payload
    <3>3. y \notin written
      BY <1>1, <3>1, <3>2 DEF Zero
    <3>4. y \in Int /\ y < t
      BY <1>4, <1>5, <3>1, <3>2 DEF Payload, Bytes
    <3> QED
      BY <1>4, <1>6, <3>3, <3>4 DEF Bytes
  <2> QED
    BY <2>1, <2>2 DEF Zero
<1>16. Stays(-1)
  BY <1>7, <1>9 DEF Stays, Live
<1>17. followed' \in BOOLEAN
  BY <1>2, <1>6
<1> QED
  BY <1>4, <1>11, <1>13, <1>14, <1>15, <1>16, <1>17 DEF IInv
-----------------------------------------------------------------------------
\* The empty region.
LEMMA InitIInv == Init => IInv
<1> SUFFICES ASSUME Init PROVE IInv
  OBVIOUS
<1>1. Offsets = {} /\ BlockType
  BY DEF Init, Offsets, BlockType
<1>2. Tile(0) /\ Zero(0) /\ 0 \in 0..Region
  BY <1>1, ConstantFacts DEF Tile, Zero, Init
<1> QED
  BY <1>1, <1>2 DEF IInv, PrevNear, Init

\* Every operation of the allocator keeps the invariant and all live blocks but
\* the one it frees.
LEMMA NextStep ==
  ASSUME IInv, Next
  PROVE  IInv' /\ \E gone \in Offsets \union {-1} : Stays(gone)
<1>1. ASSUME NEW n \in Sizes, AllocAppend(n) PROVE IInv' /\ Stays(-1)
  BY <1>1, AllocAppendStep
<1>2. ASSUME NEW n \in Sizes, NEW o \in Offsets, AllocExact(o, n) \/ AllocSplit(o, n)
      PROVE  IInv' /\ Stays(-1)
  BY <1>2, AllocExactStep, AllocSplitStep
<1>3. ASSUME NEW b \in Offsets, FreeOnly(b) \/ FreeAlone(b) \/ FreeIntoPrev(b)
      PROVE  IInv' /\ Stays(b)
  BY <1>3, FreeOnlyStep, FreeAloneStep, FreeIntoPrevStep
<1>4. ASSUME NEW b \in Offsets, FreeCorrupts(b) PROVE IInv' /\ Stays(-1)
  <2>1. UNCHANGED <<blocks, written>> /\ followed' \in BOOLEAN
    BY <1>4 DEF FreeCorrupts
  <2>2. Offsets' = Offsets /\ \A o : After(o)' = After(o) /\ Payload(o)' = Payload(o)
    BY <2>1 DEF Offsets, After, Payload
  <2>3. BlockType' /\ PrevNear'
    BY <2>1, <2>2 DEF IInv, BlockType, PrevNear
  <2>4. ASSUME NEW t \in 0..Region, Tile(t), Zero(t) PROVE Tile(t)' /\ Zero(t)'
    BY <2>1, <2>2, <2>4 DEF Tile, Zero
  <2>5. Stays(-1)
    BY <2>1, <2>2 DEF Stays, Live
  <2> QED
    BY <2>1, <2>3, <2>4, <2>5 DEF IInv
<1> QED
  BY <1>1, <1>2, <1>3, <1>4 DEF Next

\* A step that changes nothing.
LEMMA StutterStep == IInv /\ UNCHANGED vars => IInv'
<1> SUFFICES ASSUME IInv, UNCHANGED vars PROVE IInv'
  OBVIOUS
<1>1. UNCHANGED <<blocks, written, followed>>
  BY DEF vars
<1>2. Offsets' = Offsets /\ \A o : After(o)' = After(o) /\ Payload(o)' = Payload(o)
  BY <1>1 DEF Offsets, After, Payload
<1>3. BlockType' /\ PrevNear' /\ followed' \in BOOLEAN
  BY <1>1, <1>2 DEF IInv, BlockType, PrevNear
<1>4. ASSUME NEW t \in 0..Region, Tile(t), Zero(t) PROVE Tile(t)' /\ Zero(t)'
  BY <1>1, <1>2, <1>4 DEF Tile, Zero
<1> QED
  BY <1>3, <1>4 DEF IInv

\* The invariant is inductive, up to the free that follows a stale
\* prev_block_offset into a payload (followed), behind which the model stops.
THEOREM Invariance == Spec => []IInv
<1>1. IInv /\ [Next]_vars => IInv'
  BY NextStep, StutterStep
<1> QED
  BY InitIInv, <1>1, PTL DEF Spec

\* What the invariant says of the properties.
LEMMA IInvImplies == IInv => Tiling /\ UnusedIsZero
<1> SUFFICES ASSUME IInv PROVE Tiling /\ UnusedIsZero
  OBVIOUS
<1> USE ConstantFacts
<1>1. PICK t \in 0..Region : Tile(t) /\ Zero(t)
  BY DEF IInv
<1>2. BlockType /\ PrevNear /\ followed \in BOOLEAN
  BY DEF IInv
<1>3. Top = t
  BY <1>1, <1>2, TopIs
<1>4. ASSUME NEW o \in Offsets
      PROVE  /\ o \in 0..(Region - Hdr)
             /\ blocks[o].size \in Nat \ {0} /\ blocks[o].free \in BOOLEAN
             /\ blocks[o].prev \in -1..Region
             /\ After(o) <= Region
  <2>1. /\ o \in Nat /\ blocks[o].size \in Nat \ {0} /\ blocks[o].free \in BOOLEAN
        /\ After(o) \in Nat /\ o + Hdr < After(o) /\ After(o) <= t /\ blocks[o].prev \in Int
    BY <1>1, <1>2, BlockFacts
  <2>2. CASE o = 0
    BY <1>1, <1>2, <2>1, <2>2 DEF PrevNear
  <2>3. CASE o # 0
    <3>1. PICK p \in Offsets : p <= blocks[o].prev /\ blocks[o].prev < o
      BY <1>2, <2>3 DEF PrevNear
    <3>2. p \in Nat
      BY <1>1, <1>2, BlockFacts
    <3> QED
      BY <1>1, <2>1, <3>1, <3>2
  <2> QED
    BY <2>2, <2>3
<1>5. written \subseteq 0..(Region - 1)
  BY <1>1 DEF Zero
<1>6. TypeOK
  BY <1>2, <1>4, <1>5 DEF TypeOK
<1>7. Tiling
  BY <1>1, <1>3, <1>6 DEF Tiling, Tile
<1>8. UnusedIsZero
  <2>1. \A x \in Bytes(Top, Region) : x \notin written
    BY <1>1, <1>3 DEF Zero, Bytes
  <2>2. \A o \in Offsets \ Live : Payload(o) \intersect written = {}
    BY <1>1, <1>2 DEF Zero, Live
  <2> QED
    BY <2>1, <2>2 DEF UnusedIsZero
<1> QED
  BY <1>7, <1>8

\* Whatever is split and merged, the walk of shm_data_next_suitable_block meets
\* every header and nothing else, and payloads neither overlap nor leave the
\* region.
THEOREM BlocksTile == Spec => []Tiling
BY Invariance, IInvImplies, PTL

\* Where the walk expects the end of the chain, and in every free payload, memory
\* reads as zero: shm_data_delete_block and shm_data_free zero enough.
THEOREM UnusedZero == Spec => []UnusedIsZero
BY Invariance, IInvImplies, PTL

\* Allocating and freeing leave every other live block alone, so the stack may
\* read block->size without taking alloc_free_mutex.
THEOREM LiveStays == Spec => LiveBlocksStay
<1>1. ASSUME IInv, [Next]_vars
      PROVE  [\E gone \in Offsets \union {-1} : \A o \in Live \ {gone} :
                o \in DOMAIN blocks' /\ ~blocks'[o].free /\ blocks'[o].size = blocks[o].size]_vars
  BY <1>1, NextStep DEF Stays, Offsets
<1> QED
  BY Invariance, <1>1, PTL DEF Spec, LiveBlocksStay
=============================================================================
