------------------------------ MODULE SpscRing ------------------------------
(***************************************************************************)
(* The lock-free ring buffer of api/src/pifus_ring_buffer.c, which every   *)
(* queue of pifus instantiates (squeue, cqueue, the three tx queues, the   *)
(* write and recv queues, the new-socket queues), shared by one producer   *)
(* and one consumer thread or process.                                     *)
(*                                                                         *)
(* Each action performs at most one access to memory the OTHER side        *)
(* writes: the producer alone stores head and the consumer alone stores    *)
(* tail, so a read of one's own index is not a step.  Slots are read and   *)
(* written in steps of their own, so a slot reused too early, or published *)
(* too early, shows.  A local variable is back at its initial value once   *)
(* its call has returned.                                                  *)
(***************************************************************************)
EXTENDS Naturals, Sequences

CONSTANTS
  RingSize,  \* buffer_length given to _create; the array has that many slots
  Element,   \* values of ELEMENT_TYPE
  Wanted,    \* elements the predicate given to _find (is_recv_op) accepts
  ZeroEl,    \* the element zero-filled memory reads as
  NopEl      \* the element handle_operation writes through find's pointer

ASSUME RingAssumption ==
  /\ RingSize \in 1..65535     \* uint16_t end, and end = 0 is never created
  /\ Wanted \subseteq Element
  /\ ZeroEl \in Element
  /\ NopEl \in Element

VARIABLES
  head, tail,          \* uint16_t indices of struct NAME
  buf,                 \* the slots
  ppc, pel,            \* producer: control point, element being put
  cpc, cval, cur,      \* consumer: control point, get's copy, find's cursor
  putResult, getResult \* results of the last completed calls

ringVars == <<head, tail, buf>>
prodVars == <<ppc, pel, putResult>>
consVars == <<cpc, cval, cur, getResult>>
vars     == <<ringVars, prodVars, consVars>>

Slots == 0..(RingSize - 1)

\* Index arithmetic in uint16_t, then the wrap at end.
Succ(i) == LET n == (i + 1) % 65536 IN IF n = RingSize THEN 0 ELSE n

\* A call and what it returned; ok = FALSE carries no element.
Returned(op, el) == [op |-> op, ok |-> TRUE, val |-> el]
Failed(op)       == [op |-> op, ok |-> FALSE]
NoCall           == Failed("create")

\* _create on zero-filled shared memory.
Init ==
  /\ head = 0 /\ tail = 0
  /\ buf = [i \in Slots |-> ZeroEl]
  /\ ppc = "idle" /\ pel = ZeroEl
  /\ cpc = "idle" /\ cval = ZeroEl /\ cur = 0
  /\ putResult = NoCall /\ getResult = NoCall

(***************************************************************************)
(* Producer: is_full and put.                                              *)
(***************************************************************************)

\* Mutant: is_full forgets the wrap.
MutIsFull ==
  /\ ppc = "idle"
  /\ IF head + 1 = tail
       THEN ppc' = ppc /\ putResult' = Failed("is_full")
       ELSE ppc' = "checked" /\ putResult' = Returned("is_full", NopEl)
  /\ UNCHANGED <<ringVars, pel, consVars>>

\* pifus_socket_* and tx_tcp_write ask is_full and only then put.
IsFull ==
  /\ ppc = "idle"
  /\ IF Succ(head) = tail
       THEN ppc' = ppc /\ putResult' = Failed("is_full")
       ELSE ppc' = "checked" /\ putResult' = Returned("is_full", NopEl)
  /\ UNCHANGED <<ringVars, pel, consVars>>

\* Mutant: put never refuses.
MutPutCheck(el) ==
  /\ ppc \in {"idle", "checked"}
  /\ pel' = el
  /\ ppc' = "write"
  /\ UNCHANGED <<ringVars, putResult, consVars>>

\* put reads tail: the buffer is full, or there is a free slot at head.
PutCheck(el) ==
  /\ ppc \in {"idle", "checked"}
  /\ IF Succ(head) # tail
       THEN ppc' = "write" /\ pel' = el /\ UNCHANGED putResult
       ELSE ppc' = "idle" /\ putResult' = Failed("put") /\ UNCHANGED pel
  /\ UNCHANGED <<ringVars, consVars>>

\* Mutant: put stores into the slot after head.
MutPutWrite ==
  /\ ppc = "write"
  /\ buf' = [buf EXCEPT ![Succ(head)] = pel]
  /\ ppc' = "publish"
  /\ UNCHANGED <<head, tail, pel, putResult, consVars>>

\* put stores the element in the slot at head ...
PutWrite ==
  /\ ppc = "write"
  /\ buf' = [buf EXCEPT ![head] = pel]
  /\ ppc' = "publish"
  /\ UNCHANGED <<head, tail, pel, putResult, consVars>>

\* ... and publishes it by storing the new head.
PutPublish ==
  /\ ppc = "publish"
  /\ head' = Succ(head)
  /\ ppc' = "idle"
  /\ pel' = ZeroEl
  /\ putResult' = Returned("put", pel)
  /\ UNCHANGED <<tail, buf, consVars>>

(***************************************************************************)
(* Consumer: get.                                                          *)
(***************************************************************************)

GetCheck ==
  /\ cpc = "idle"
  /\ IF head # tail
       THEN cpc' = "read" /\ UNCHANGED getResult
       ELSE cpc' = "idle" /\ getResult' = Failed("get")
  /\ UNCHANGED <<ringVars, prodVars, cval, cur>>

GetRead ==
  /\ cpc = "read"
  /\ cval' = buf[tail]
  /\ cpc' = "advance"
  /\ UNCHANGED <<ringVars, prodVars, cur, getResult>>

GetAdvance ==
  /\ cpc = "advance"
  /\ tail' = Succ(tail)
  /\ cpc' = "idle"
  /\ cval' = ZeroEl
  /\ getResult' = Returned("get", cval)
  /\ UNCHANGED <<head, buf, prodVars, cur>>

(***************************************************************************)
(* Consumer: peek hands out a pointer to the slot at tail; the caller      *)
(* reads through it, and later calls erase_first or drops the pointer      *)
(* (handle_squeue_change and handle_operation when they have to retry).    *)
(***************************************************************************)

\* Mutant: peek does not look whether the buffer is empty.
MutPeekCheck ==
  /\ cpc = "idle"
  /\ cpc' = "peeked"
  /\ UNCHANGED <<ringVars, prodVars, cval, cur, getResult>>

PeekCheck ==
  /\ cpc = "idle"
  /\ IF head # tail
       THEN cpc' = "peeked" /\ UNCHANGED getResult
       ELSE cpc' = "idle" /\ getResult' = Failed("peek")
  /\ UNCHANGED <<ringVars, prodVars, cval, cur>>

PeekDeref ==
  /\ cpc = "peeked"
  /\ getResult' = Returned("peek", buf[tail])
  /\ UNCHANGED <<ringVars, prodVars, cpc, cval, cur>>

PeekDrop ==
  /\ cpc = "peeked"
  /\ cpc' = "idle"
  /\ UNCHANGED <<ringVars, prodVars, cval, cur, getResult>>

EraseFirst ==
  /\ cpc = "peeked"
  /\ cpc' = "idle"
  /\ tail' = IF head # tail THEN Succ(tail) ELSE tail
  /\ UNCHANGED <<head, buf, prodVars, cval, cur, getResult>>

(***************************************************************************)
(* Consumer: find walks from tail to head, reading head afresh at every    *)
(* slot; the caller writes through the pointer it returns.                 *)
(***************************************************************************)

FindStart ==
  /\ cpc = "idle"
  /\ cpc' = "walk"
  /\ cur' = tail
  /\ UNCHANGED <<ringVars, prodVars, cval, getResult>>

\* Mutant: find's loop test is not aware of the wrap.
MutFindCheck ==
  /\ cpc = "walk"
  /\ \/ /\ cur < head
        /\ cpc' = "test"
        /\ UNCHANGED <<cur, getResult>>
     \/ /\ cur >= head
        /\ cpc' = "idle" /\ cur' = 0
        /\ getResult' = Failed("find")
  /\ UNCHANGED <<ringVars, prodVars, cval>>

FindCheck ==
  /\ cpc = "walk"
  /\ \/ /\ head # cur
        /\ cpc' = "test"
        /\ UNCHANGED <<cur, getResult>>
     \/ /\ head = cur
        /\ cpc' = "idle" /\ cur' = 0
        /\ getResult' = Failed("find")
  /\ UNCHANGED <<ringVars, prodVars, cval>>

FindTest ==
  /\ cpc = "test"
  /\ \/ /\ buf[cur] \in Wanted
        /\ cpc' = "found"
        /\ getResult' = Returned("find", buf[cur])
        /\ UNCHANGED cur
     \/ /\ buf[cur] \notin Wanted
        /\ cpc' = "walk"
        /\ cur' = Succ(cur)
        /\ UNCHANGED getResult
  /\ UNCHANGED <<ringVars, prodVars, cval>>

\* handle_operation turns the operation it took out of order into a NOP.
FindMark ==
  /\ cpc = "found"
  /\ buf' = [buf EXCEPT ![cur] = NopEl]
  /\ cpc' = "idle" /\ cur' = 0
  /\ UNCHANGED <<head, tail, prodVars, cval, getResult>>

\* handle_operation leaves it alone when it has to be tried again.
FindDrop ==
  /\ cpc = "found"
  /\ cpc' = "idle" /\ cur' = 0
  /\ UNCHANGED <<ringVars, prodVars, cval, getResult>>

Producer ==
  IsFull \/ (\E el \in Element : PutCheck(el)) \/ PutWrite \/ PutPublish

Consumer ==
  \/ GetCheck \/ GetRead \/ GetAdvance
  \/ PeekCheck \/ PeekDeref \/ PeekDrop \/ EraseFirst
  \/ FindStart \/ FindCheck \/ FindTest \/ FindMark \/ FindDrop

Next == Producer \/ Consumer

Spec == Init /\ [][Next]_vars
-----------------------------------------------------------------------------
\* The elements between tail and head, oldest first.
Count     == IF tail <= head THEN head - tail ELSE head + RingSize - tail
Slot(k)   == IF tail + k < RingSize THEN tail + k ELSE tail + k - RingSize
Offset(i) == IF tail <= i THEN i - tail ELSE i + RingSize - tail
Contents  == [k \in 1..Count |-> buf[Slot(k - 1)]]

\* Shape of the variables; both indices stay valid array subscripts.  (The
\* results are records of past calls: FifoSpec says what they hold.)
TypeOK ==
  /\ head \in Slots /\ tail \in Slots /\ cur \in Slots
  /\ buf \in [Slots -> Element]
  /\ ppc \in {"idle", "checked", "write", "publish"}
  /\ cpc \in {"idle", "read", "advance", "peeked", "walk", "test", "found"}
  /\ pel \in Element /\ cval \in Element

\* While the producer stores into a slot the consumer holds no pointer to it
\* and is not about to read it: put never writes the slot that get, peek's
\* pointer, find's cursor or find's pointer refers to.
NoSlotRace ==
  ppc = "write" =>
    /\ cpc \in {"read", "advance", "peeked"} => head # tail
    /\ cpc \in {"test", "found"} => head # cur

\* What pifus_socket_write and tx_tcp_write rely on: once is_full has said
\* "not full", the put that follows cannot fail, whatever the consumer does
\* in between.
CheckedPutSucceeds == ppc = "checked" => Succ(head) # tail

\* A slot the consumer is entitled to (between its check and its release)
\* stays inside the published part of the ring, and find's cursor never
\* overtakes head although head moves while find walks.
HeldSlotPublished ==
  /\ cpc \in {"read", "advance", "peeked"} => Count > 0
  /\ cpc \in {"test", "found"} => Offset(cur) < Count
  /\ cpc = "walk" => Offset(cur) <= Count

\* The inductive invariant behind the three properties and the refinement.
ProducerInv ==
  /\ ppc \in {"checked", "write", "publish"} => Succ(head) # tail
  /\ ppc = "publish" => buf[head] = pel

ConsumerInv ==
  /\ HeldSlotPublished
  /\ cpc = "advance" => cval = buf[tail]
  /\ cpc \in {"walk", "test"} =>
       \A k \in Slots : k < Offset(cur) => buf[Slot(k)] \notin Wanted

\* The type invariant, a free slot at head from is_full's or put's check to
\* the publication, and what get has copied and find has passed over.
IInv == TypeOK /\ ProducerInv /\ ConsumerInv

Fifo == INSTANCE BoundedFifo WITH
          Capacity <- RingSize - 1, queue <- Contents

\* The ring implements a bounded FIFO of RingSize - 1 elements: put, get,
\* peek, erase_first and find each take effect at one instant between their
\* call and their return, although neither side holds a lock.
FifoSpec == Fifo!Spec
=============================================================================
