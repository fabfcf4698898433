---------------------------- MODULE ShmAllocator ----------------------------
(***************************************************************************)
(* The block allocator of the app region, api/src/pifus_shmem.c: every     *)
(* write and recv operation takes its payload from it (p_alloc) and gives  *)
(* it back when its result has been dequeued (p_free).                     *)
(*                                                                         *)
(* Offsets count from the first byte behind struct pifus_app.  blocks maps *)
(* the offset of every header that the chain of blocks reaches to that     *)
(* header; written is the set of bytes that need not be zero.  A payload   *)
(* is written by its owner at will, so what is read from one is arbitrary. *)
(***************************************************************************)
EXTENDS Integers, FiniteSets

CONSTANTS
  Region,  \* SHM_APP_SIZE - sizeof(struct pifus_app)
  Hdr,     \* sizeof(struct pifus_memory_block)
  Sizes    \* sizes the application asks for

ASSUME AllocAssumption ==
  /\ Region \in Nat /\ Hdr \in Nat \ {0}
  /\ Sizes \subseteq Nat \ {0}

VARIABLES
  blocks,   \* offset -> [size, free, prev]
  written,  \* bytes that may be nonzero
  followed  \* a free has taken a payload for the header of a free block

vars == <<blocks, written, followed>>

Init == blocks = <<>> /\ written = {} /\ followed = FALSE

Offsets    == DOMAIN blocks
After(o)   == o + Hdr + blocks[o].size        \* shm_data_get_next_block_ptr
Bytes(lo, hi) == lo..(hi - 1)
Live       == {o \in Offsets : ~blocks[o].free}
Payload(o) == Bytes(o + Hdr, After(o))

\* The end of the chain: the first header the walk finds with size 0.
Top == IF Offsets = {} THEN 0 ELSE CHOOSE t \in {After(o) : o \in Offsets} :
                                     \A o \in Offsets : After(o) <= t
Last == CHOOSE o \in Offsets : After(o) = Top

(***************************************************************************)
(* shm_data_allocate                                                       *)
(***************************************************************************)

Exact(o, n) == blocks[o].free /\ blocks[o].size = n
Large(o, n) == blocks[o].free /\ blocks[o].size > n /\ blocks[o].size - n > Hdr

\* shm_data_next_suitable_block returns the first block that fits.
FirstFit(o, n) ==
  /\ o \in Offsets /\ (Exact(o, n) \/ Large(o, n))
  /\ \A p \in Offsets : p < o => ~Exact(p, n) /\ ~Large(p, n)
NoFit(n) == \A o \in Offsets : ~Exact(o, n) /\ ~Large(o, n)

AllocExact(o, n) ==
  /\ ~followed
  /\ FirstFit(o, n) /\ Exact(o, n)
  /\ blocks' = [blocks EXCEPT ![o].free = FALSE]
  /\ written' = written \union Payload(o)
  /\ UNCHANGED followed

\* Mutant: the remainder keeps the size of the header it needs.
MutRest(o, n) == blocks[o].size - n

\* Size of the free block a split leaves behind.
Rest(o, n) == blocks[o].size - n - Hdr

\* The block is split; the following block's prev_block_offset is updated.
AllocSplit(o, n) ==
  /\ ~followed
  /\ FirstFit(o, n) /\ ~Exact(o, n)
  /\ LET rest == o + Hdr + n IN
       /\ blocks' = [p \in Offsets \union {rest} |->
            CASE p = o    -> [blocks[o] EXCEPT !.size = n, !.free = FALSE]
              [] p = rest -> [size |-> Rest(o, n), free |-> TRUE, prev |-> o]
              [] p = After(o) -> [blocks[p] EXCEPT !.prev = rest]
              [] OTHER    -> blocks[p]]
       /\ written' = written \union Bytes(o + Hdr, rest + Hdr)
  /\ UNCHANGED followed

\* shm_data_is_ptr_out_of_range for the end of the new payload.
Fits(n) == Top + Hdr + n <= Region

\* No block fits: a new one is appended, if the region has room for it.
AllocAppend(n) ==
  /\ ~followed
  /\ NoFit(n) /\ Fits(n)
  /\ blocks' = [p \in Offsets \union {Top} |->
       IF p = Top
         THEN [size |-> n, free |-> FALSE, prev |-> IF Offsets = {} THEN -1 ELSE Last]
         ELSE blocks[p]]
  /\ written' = written \union Bytes(Top, Top + Hdr + n)
  /\ UNCHANGED followed

(***************************************************************************)
(* shm_data_free                                                           *)
(***************************************************************************)

\* The values previous_block->free may have: the header's, 0 in memory that
\* was zeroed, anything in a payload or across a header.
ReadFree(p) ==
  IF p \in Offsets THEN {blocks[p].free}
  ELSE IF Bytes(p, p + Hdr) \intersect written = {} THEN {FALSE} ELSE BOOLEAN

HasNext(b) == After(b) \in Offsets
HasPrev(b) == blocks[b].prev >= 0

\* Mutant: the bytes of the header are left over.
MutDeleted(b) == Payload(b)

\* shm_data_delete_block zeroes the header and the payload.
Deleted(b) == Bytes(b, After(b))

\* The only block is deleted.
FreeOnly(b) ==
  /\ ~followed
  /\ b \in Live /\ ~HasPrev(b) /\ ~HasNext(b)
  /\ blocks' = [p \in Offsets \ {b} |-> blocks[p]]
  /\ written' = written \ Deleted(b)
  /\ UNCHANGED followed

\* Mutant: the next block is taken whether it is free or not.
MutNextGainLive(b) == IF HasNext(b) THEN Hdr + blocks[After(b)].size ELSE 0

\* What merging with a free next block adds to the size.
NextGain(b) ==
  IF HasNext(b) /\ blocks[After(b)].free THEN Hdr + blocks[After(b)].size ELSE 0

\* The block grown to size n at offset m becomes free and its payload is
\* zeroed, the headers of the blocks it swallowed included.
Merge(m, n, header) ==
  /\ blocks' = [p \in Offsets \ Bytes(m + Hdr, m + Hdr + n) |->
                  IF p = m THEN [header EXCEPT !.size = n, !.free = TRUE] ELSE blocks[p]]
  /\ written' = written \ Bytes(m + Hdr, m + Hdr + n)
  /\ UNCHANGED followed

\* No previous block, or one that is not free.
FreeAlone(b) ==
  /\ ~followed
  /\ b \in Live /\ (HasPrev(b) \/ HasNext(b))
  /\ HasPrev(b) => FALSE \in ReadFree(blocks[b].prev)
  /\ Merge(b, blocks[b].size + NextGain(b), blocks[b])

\* The previous block is free: the next block is re-linked, and the block
\* becomes part of the previous one.
FreeIntoPrev(b) ==
  /\ ~followed
  /\ b \in Live /\ HasPrev(b) /\ blocks[b].prev \in Offsets
  /\ blocks[blocks[b].prev].free
  /\ LET p == blocks[b].prev
         n == blocks[p].size + Hdr + blocks[b].size + NextGain(b)
         linked == [q \in Offsets |-> IF q = After(b) THEN [blocks[q] EXCEPT !.prev = p]
                                                      ELSE blocks[q]]
     IN /\ blocks' = [q \in Offsets \ Bytes(p + Hdr, p + Hdr + n) |->
                        IF q = p THEN [linked[p] EXCEPT !.size = n] ELSE linked[q]]
        /\ written' = written \ Bytes(p + Hdr, p + Hdr + n)
  /\ UNCHANGED followed

\* prev_block_offset points into a payload that reads as a free block: its
\* "size" is changed and as many bytes as it says are zeroed.  The memory is
\* corrupted from here on, and nothing more is modelled.
FreeCorrupts(b) ==
  /\ ~followed
  /\ b \in Live /\ HasPrev(b) /\ blocks[b].prev \notin Offsets
  /\ TRUE \in ReadFree(blocks[b].prev)
  /\ followed' = TRUE
  /\ UNCHANGED <<blocks, written>>

Next ==
  \/ \E n \in Sizes : AllocAppend(n)
  \/ \E n \in Sizes, o \in Offsets : AllocExact(o, n) \/ AllocSplit(o, n)
  \/ \E b \in Offsets : FreeOnly(b) \/ FreeAlone(b) \/ FreeIntoPrev(b) \/ FreeCorrupts(b)

Spec == Init /\ [][Next]_vars
-----------------------------------------------------------------------------
\* Shape of the variables; every block lies inside the region.
TypeOK ==
  /\ Offsets \subseteq 0..(Region - Hdr)
  /\ \A o \in Offsets :
       /\ blocks[o].size \in Nat \ {0} /\ blocks[o].free \in BOOLEAN
       /\ blocks[o].prev \in -1..Region
       /\ After(o) <= Region
  /\ written \subseteq 0..(Region - 1)
  /\ followed \in BOOLEAN

\* The blocks tile the used part of the region: the walk of
\* shm_data_next_suitable_block from offset 0 meets every header, nothing in
\* between, and payloads never overlap nor leave the region (TypeOK), whatever
\* was split and merged, up to the first free that follows a dangling
\* prev_block_offset (FreeCorrupts), where the model ends.
Tiling ==
  /\ TypeOK
  /\ Offsets # {} => 0 \in Offsets
  /\ \A o \in Offsets : After(o) \in Offsets \/ After(o) = Top
  /\ \A o, p \in Offsets : o < p => After(o) <= p

\* Behind the last block memory reads as zero, which is how the walk finds
\* the end of the chain, and so does the payload of every free block.
UnusedIsZero ==
  /\ \A x \in Bytes(Top, Region) : x \notin written
  /\ \A o \in Offsets \ Live : Payload(o) \intersect written = {}

\* Allocating or freeing one block never changes the place or the size of
\* another live block; the stack reads block->size without taking
\* alloc_free_mutex.  At most one live block goes away in a step.
LiveBlocksStay ==
  [][\E gone \in Offsets \union {-1} : \A o \in Live \ {gone} :
        o \in DOMAIN blocks' /\ ~blocks'[o].free /\ blocks'[o].size = blocks[o].size]_vars

\* prev_block_offset is the "Block offset (absolute) of the previous block.
\* -1 if there is no previous block." (struct pifus_memory_block).
PrevNamesPreviousBlock ==
  \A o \in Offsets :
    IF o = 0 THEN blocks[o].prev = -1
             ELSE blocks[o].prev \in Offsets /\ After(blocks[o].prev) = o
=============================================================================
