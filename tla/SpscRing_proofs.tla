--------------------------- MODULE SpscRing_proofs ---------------------------
(***************************************************************************)
(* Proofs about the ring buffer, for every ring size and element type: the *)
(* inductive invariant IInv, the safety properties it implies, and that    *)
(* the ring implements the bounded FIFO of BoundedFifo.                    *)
(***************************************************************************)
EXTENDS SpscRing, SequenceTheorems, TLAPS

\* The uint16_t arithmetic of Succ never overflows on a valid index, and the
\* wrapped index is valid again.
LEMMA SuccValue ==
  ASSUME NEW i \in Slots
  PROVE  /\ Succ(i) = IF i + 1 = RingSize THEN 0 ELSE i + 1
         /\ Succ(i) \in Slots
<1>1. RingSize \in Nat /\ RingSize >= 1 /\ RingSize <= 65535
  BY RingAssumption
<1>2. i \in Nat /\ i + 1 <= RingSize
  BY <1>1 DEF Slots
<1>3. (i + 1) % 65536 = i + 1
  BY <1>1, <1>2
<1>4. Succ(i) = IF i + 1 = RingSize THEN 0 ELSE i + 1
  BY <1>3 DEF Succ
<1> QED
  BY <1>1, <1>2, <1>4 DEF Slots

\* The facts about the constants the arithmetic below needs.
LEMMA SizeFacts == RingSize \in Nat /\ RingSize >= 1
BY RingAssumption

\* The indices are natural numbers below the size of the ring.
LEMMA IndexFacts ==
  TypeOK => /\ head \in Nat /\ head < RingSize
            /\ tail \in Nat /\ tail < RingSize
            /\ cur \in Nat /\ cur < RingSize
BY SizeFacts DEF TypeOK, Slots

\* Two indices with the same successor are the same index.
LEMMA SuccInjective ==
  ASSUME NEW i \in Slots, NEW j \in Slots, Succ(i) = Succ(j)
  PROVE  i = j
BY SuccValue, SizeFacts DEF Slots

\* Slot and Offset translate between distances from tail and indices.
LEMMA Geometry ==
  ASSUME TypeOK
  PROVE  /\ \A k \in Slots : Slot(k) \in Slots /\ Offset(Slot(k)) = k
         /\ \A i \in Slots : Offset(i) \in Slots /\ Slot(Offset(i)) = i
BY SizeFacts, IndexFacts DEF Slot, Offset, Slots

\* The ring holds Count elements; head is the slot behind the last of them.
LEMMA Occupancy ==
  ASSUME TypeOK
  PROVE  /\ Count \in Slots
         /\ Slot(Count) = head /\ Offset(head) = Count
         /\ Count = 0 <=> head = tail
         /\ Count = RingSize - 1 <=> Succ(head) = tail
<1> USE SizeFacts, IndexFacts
<1>1. Count \in Slots /\ Slot(Count) = head /\ Offset(head) = Count
  BY DEF Count, Slot, Offset, Slots
<1>2. Count = 0 <=> head = tail
  BY DEF Count
<1>3. Count = RingSize - 1 <=> Succ(head) = tail
  <2>1. Succ(head) = IF head + 1 = RingSize THEN 0 ELSE head + 1
    BY SuccValue DEF TypeOK
  <2> QED
    BY <2>1 DEF Count
<1> QED
  BY <1>1, <1>2, <1>3

\* Publishing an element lengthens the published part and moves nothing.
LEMMA HeadMoves ==
  ASSUME TypeOK, head' = Succ(head), tail' = tail, Succ(head) # tail
  PROVE  /\ Count' = Count + 1
         /\ \A k : Slot(k)' = Slot(k)
         /\ \A i : Offset(i)' = Offset(i)
<1>1. Succ(head) = IF head + 1 = RingSize THEN 0 ELSE head + 1
  BY SuccValue DEF TypeOK
<1>2. Count' = Count + 1
  BY <1>1, SizeFacts, IndexFacts DEF Count
<1> QED
  BY <1>2 DEF Slot, Offset

\* Releasing the oldest element shortens it by one at the front.
LEMMA TailMoves ==
  ASSUME TypeOK, tail' = Succ(tail), head' = head, head # tail
  PROVE  /\ Count' = Count - 1
         /\ \A k \in Slots : k + 1 \in Slots => Slot(k)' = Slot(k + 1)
<1>1. Succ(tail) = IF tail + 1 = RingSize THEN 0 ELSE tail + 1
  BY SuccValue DEF TypeOK
<1>2. Count' = Count - 1
  BY <1>1, SizeFacts, IndexFacts DEF Count
<1>3. ASSUME NEW k \in Slots, k + 1 \in Slots
      PROVE  Slot(k)' = Slot(k + 1)
  BY <1>1, <1>3, SizeFacts, IndexFacts DEF Slot, Slots
<1> QED
  BY <1>2, <1>3

\* Every ring starts in a state of the inductive invariant.
LEMMA InitIInv == Init => IInv
<1> SUFFICES ASSUME Init PROVE IInv
  OBVIOUS
<1>1. 0 \in Slots
  BY RingAssumption DEF Slots
<1>2. TypeOK
  BY <1>1, RingAssumption DEF Init, TypeOK
<1>3. ProducerInv
  BY DEF Init, ProducerInv
<1>4. ConsumerInv
  BY DEF Init, ConsumerInv, HeldSlotPublished
<1> QED
  BY <1>2, <1>3, <1>4 DEF IInv

\* Every step of the producer or the consumer keeps variables in their types.
LEMMA TypeStep == TypeOK /\ [Next]_vars => TypeOK'
<1> SUFFICES ASSUME TypeOK, [Next]_vars PROVE TypeOK'
  OBVIOUS
<1> USE DEF TypeOK, ringVars, prodVars, consVars
<1>a. /\ 0 \in Slots
      /\ ZeroEl \in Element
      /\ NopEl \in Element
  BY RingAssumption DEF Slots
<1>b. /\ Succ(head) \in Slots
      /\ Succ(tail) \in Slots
      /\ Succ(cur) \in Slots
  BY SuccValue
<1>1. CASE IsFull
  BY <1>1 DEF IsFull
<1>2. ASSUME NEW el \in Element, PutCheck(el) PROVE TypeOK'
  BY <1>2 DEF PutCheck
<1>3. CASE PutWrite
  BY <1>3 DEF PutWrite
<1>4. CASE PutPublish
  BY <1>4, <1>a, <1>b DEF PutPublish
<1>5. CASE GetCheck
  BY <1>5 DEF GetCheck
<1>6. CASE GetRead
  BY <1>6 DEF GetRead
<1>7. CASE GetAdvance
  BY <1>7, <1>a, <1>b DEF GetAdvance
<1>8. CASE PeekCheck
  BY <1>8 DEF PeekCheck
<1>9. CASE PeekDeref
  BY <1>9 DEF PeekDeref
<1>10. CASE PeekDrop
  BY <1>10 DEF PeekDrop
<1>11. CASE EraseFirst
  BY <1>11, <1>a, <1>b DEF EraseFirst
<1>12. CASE FindStart
  BY <1>12 DEF FindStart
<1>13. CASE FindCheck
  BY <1>13, <1>a, <1>b DEF FindCheck
<1>14. CASE FindTest
  BY <1>14, <1>a, <1>b DEF FindTest
<1>15. CASE FindMark
  BY <1>15, <1>a, <1>b DEF FindMark
<1>16. CASE FindDrop
  BY <1>16, <1>a, <1>b DEF FindDrop
<1>17. CASE UNCHANGED vars
  BY <1>17 DEF vars
<1> QED
  BY <1>1, <1>2, <1>3, <1>4, <1>5, <1>6, <1>7, <1>8, <1>9, <1>10, <1>11, <1>12,
     <1>13, <1>14, <1>15, <1>16, <1>17 DEF Next, Producer, Consumer

\* From its check of tail to its publication the producer owns the slot at
\* head: the consumer only moves tail away from it, and writes through
\* find's pointer only to published slots.
LEMMA ProducerStep == IInv /\ [Next]_vars => ProducerInv'
<1> SUFFICES ASSUME TypeOK, ProducerInv, ConsumerInv, [Next]_vars
             PROVE  ProducerInv'
  BY DEF IInv
<1> USE DEF ProducerInv, ringVars, prodVars, consVars
<1>1. CASE IsFull
  BY <1>1 DEF IsFull
<1>2. ASSUME NEW el \in Element, PutCheck(el) PROVE ProducerInv'
  BY <1>2 DEF PutCheck
<1>3. CASE PutWrite
  BY <1>3 DEF PutWrite, TypeOK
<1>4. CASE PutPublish
  BY <1>4 DEF PutPublish
<1>5. ASSUME tail' = Succ(tail), head # tail, UNCHANGED <<head, buf, ppc, pel>>
      PROVE  ProducerInv'
  <2>1. Succ(head) # Succ(tail)
    BY <1>5, SuccInjective DEF TypeOK
  <2> QED
    BY <1>5, <2>1
<1>6. CASE GetAdvance
  <2>1. head # tail
    BY <1>6, Occupancy, SizeFacts DEF GetAdvance, ConsumerInv, HeldSlotPublished, Slots
  <2> QED
    BY <1>5, <1>6, <2>1 DEF GetAdvance
<1>7. CASE EraseFirst
  <2>1. head # tail
    BY <1>7, Occupancy, SizeFacts DEF EraseFirst, ConsumerInv, HeldSlotPublished, Slots
  <2> QED
    BY <1>5, <1>7, <2>1 DEF EraseFirst
<1>8. CASE FindMark
  <2>1. cur # head
    BY <1>8, Occupancy, SizeFacts DEF FindMark, ConsumerInv, HeldSlotPublished, Slots
  <2> QED
    BY <1>8, <2>1 DEF FindMark, TypeOK
<1>9. CASE GetCheck \/ GetRead \/ PeekCheck \/ PeekDeref \/ PeekDrop
           \/ FindStart \/ FindCheck \/ FindTest \/ FindDrop
  BY <1>9 DEF GetCheck, GetRead, PeekCheck, PeekDeref, PeekDrop,
              FindStart, FindCheck, FindTest, FindDrop
<1>10. CASE UNCHANGED vars
  BY <1>10 DEF vars
<1> QED
  BY <1>1, <1>2, <1>3, <1>4, <1>6, <1>7, <1>8, <1>9, <1>10
     DEF Next, Producer, Consumer

\* What the consumer holds stays published, and unwritten, while the producer
\* works: the producer only writes the slot at head and only appends.
LEMMA ConsumerStep == IInv /\ [Next]_vars => ConsumerInv'
<1> SUFFICES ASSUME TypeOK, ProducerInv, ConsumerInv, [Next]_vars
             PROVE  ConsumerInv'
  BY DEF IInv
<1> USE DEF ConsumerInv, HeldSlotPublished, ringVars, prodVars, consVars
<1>a. /\ Count \in Nat /\ Count < RingSize
      /\ Offset(cur) \in Nat /\ Offset(cur) < RingSize
      /\ RingSize \in Nat
  <2>1. Count \in Slots /\ Offset(cur) \in Slots
    BY Occupancy, Geometry DEF TypeOK
  <2> QED
    BY <2>1, SizeFacts DEF Slots
<1>b. Count = 0 <=> head = tail
  BY Occupancy
<1>c. ASSUME UNCHANGED <<head, tail>>
      PROVE  /\ Count' = Count
             /\ \A k : Slot(k)' = Slot(k)
             /\ \A i : Offset(i)' = Offset(i)
  BY <1>c DEF Count, Slot, Offset
<1>d. Offset(tail) = 0 /\ Slot(0) = tail
  BY IndexFacts, SizeFacts DEF Offset, Slot
<1>1. CASE UNCHANGED <<ringVars, consVars>>
  BY <1>1, <1>c
<1>2. CASE PutWrite
  <2>1. UNCHANGED <<head, tail, cpc, cval, cur>> /\ buf' = [buf EXCEPT ![head] = pel]
    BY <1>2 DEF PutWrite
  <2>2. cpc = "advance" => cval = buf'[tail]
    BY <2>1, <1>a, <1>b DEF TypeOK
  <2>3. ASSUME cpc \in {"walk", "test"}, NEW k \in Slots, k < Offset(cur)
        PROVE  buf'[Slot(k)] \notin Wanted
    <3>1. Offset(cur) <= Count
      BY <2>3, <1>a
    <3>2. Slot(k) # head
      BY <2>3, <3>1, <1>a, Geometry, Occupancy DEF Slots
    <3>3. Slot(k) \in Slots
      BY <2>3, Geometry
    <3> QED
      BY <2>1, <2>3, <3>2, <3>3 DEF TypeOK
  <2> QED
    BY <2>1, <2>2, <2>3, <1>c
<1>3. CASE PutPublish
  <2>1. /\ Count' = Count + 1
        /\ \A k : Slot(k)' = Slot(k)
        /\ \A i : Offset(i)' = Offset(i)
    BY <1>3, HeadMoves DEF PutPublish, ProducerInv
  <2> QED
    BY <1>3, <2>1, <1>a DEF PutPublish
<1>4. CASE GetCheck
  BY <1>4, <1>a, <1>b, <1>c DEF GetCheck
<1>5. CASE GetRead
  BY <1>5, <1>c DEF GetRead
<1>6. CASE GetAdvance
  BY <1>6 DEF GetAdvance
<1>7. CASE PeekCheck
  BY <1>7, <1>a, <1>b, <1>c DEF PeekCheck
<1>8. CASE PeekDeref
  BY <1>8, <1>c DEF PeekDeref
<1>9. CASE PeekDrop
  BY <1>9 DEF PeekDrop
<1>10. CASE EraseFirst
  BY <1>10 DEF EraseFirst
<1>11. CASE FindStart
  BY <1>11, <1>a, <1>c, <1>d DEF FindStart, Slots
<1>12. CASE FindCheck
  <2>1. head # cur /\ cpc = "walk" => Offset(cur) < Count
    <3>1. Offset(cur) = Count => cur = head
      BY Geometry, Occupancy DEF TypeOK
    <3> QED
      BY <3>1, <1>a
  <2> QED
    BY <1>12, <2>1, <1>c DEF FindCheck
<1>13. CASE FindTest
  <2>1. CASE buf[cur] \in Wanted
    BY <1>13, <2>1, <1>c DEF FindTest
  <2>2. CASE buf[cur] \notin Wanted
    <3>1. /\ cpc = "test" /\ cpc' = "walk" /\ cur' = Succ(cur)
          /\ UNCHANGED <<head, tail, buf, cval>>
      BY <1>13, <2>2 DEF FindTest
    <3>2. Offset(cur) < Count
      BY <3>1
    <3>3. Offset(Succ(cur)) = Offset(cur) + 1
      <4>1. Succ(cur) = IF cur + 1 = RingSize THEN 0 ELSE cur + 1
        BY SuccValue DEF TypeOK
      <4> QED
        BY <3>2, <4>1, IndexFacts, SizeFacts DEF Offset, Count
    <3>4. ASSUME NEW k \in Slots, k < Offset(cur) + 1
          PROVE  buf[Slot(k)] \notin Wanted
      <4>1. CASE k < Offset(cur)
        BY <3>1, <4>1
      <4>2. CASE k = Offset(cur)
        BY <2>2, <4>2, Geometry DEF TypeOK
      <4> QED
        BY <3>4, <4>1, <4>2, <1>a DEF Slots
    <3>5. Offset(cur)' = Offset(cur) + 1
      BY <3>1, <3>3 DEF Offset
    <3> QED
      BY <3>1, <3>2, <3>4, <3>5, <1>a, <1>c
  <2> QED
    BY <2>1, <2>2
<1>14. CASE FindMark \/ FindDrop
  BY <1>14 DEF FindMark, FindDrop
<1>15. CASE IsFull \/ (\E el \in Element : PutCheck(el)) \/ UNCHANGED vars
  BY <1>1, <1>15 DEF IsFull, PutCheck, vars
<1> QED
  BY <1>2, <1>3, <1>4, <1>5, <1>6, <1>7, <1>8, <1>9, <1>10, <1>11, <1>12, <1>13,
     <1>14, <1>15 DEF Next, Producer, Consumer

\* The inductive invariant holds for every ring size and element type: the
\* indices stay valid, the producer owns the slot it writes and the consumer
\* the slots it holds, without any lock.
THEOREM Invariance == Spec => []IInv
<1>1. IInv /\ [Next]_vars => IInv'
  BY TypeStep, ProducerStep, ConsumerStep DEF IInv
<1> QED
  BY <1>1, InitIInv, PTL DEF Spec

\* put, get, peek and erase_first keep both indices valid subscripts.
THEOREM TypeCorrect == Spec => []TypeOK
BY Invariance, PTL DEF IInv

\* The producer never writes a slot the consumer is reading.
THEOREM RaceFree == Spec => []NoSlotRace
<1>1. IInv => NoSlotRace
  <2> SUFFICES ASSUME TypeOK, HeldSlotPublished PROVE NoSlotRace
    BY DEF IInv, ConsumerInv
  <2>1. Count = 0 <=> head = tail
    BY Occupancy
  <2>2. cur = head => Offset(cur) = Count
    BY Occupancy
  <2>3. Count \in Nat
    BY Occupancy, SizeFacts DEF Slots
  <2> QED
    BY <2>1, <2>2, <2>3 DEF NoSlotRace, HeldSlotPublished
<1> QED
  BY <1>1, Invariance, PTL

\* A put that follows an is_full answering "no" succeeds.
THEOREM CheckedPut == Spec => []CheckedPutSucceeds
<1>1. IInv => CheckedPutSucceeds
  BY DEF IInv, ProducerInv, CheckedPutSucceeds
<1> QED
  BY <1>1, Invariance, PTL

\* Every slot handed to the consumer is published until it is released.
THEOREM HeldSlots == Spec => []HeldSlotPublished
<1>1. IInv => HeldSlotPublished
  BY DEF IInv, ConsumerInv
<1> QED
  BY <1>1, Invariance, PTL
-----------------------------------------------------------------------------
(* The ring implements the bounded FIFO.                                   *)

\* The published part of the ring, read from tail, is a sequence.
LEMMA ContentsSeq ==
  ASSUME TypeOK
  PROVE  /\ Contents \in Seq(Element)
         /\ Len(Contents) = Count
         /\ \A k \in 1..Count : Contents[k] = buf[Slot(k - 1)]
         /\ Contents = <<>> <=> head = tail
<1>1. Count \in Nat /\ Count < RingSize
  BY Occupancy, SizeFacts DEF Slots
<1>2. ASSUME NEW k \in 1..Count PROVE buf[Slot(k - 1)] \in Element
  <2>1. k - 1 \in Slots
    BY <1>1, SizeFacts DEF Slots
  <2> QED
    BY <2>1, Geometry DEF TypeOK
<1>3. Contents \in [1..Count -> Element]
  BY <1>2 DEF Contents
<1>4. Contents \in Seq(Element)
  BY <1>1, <1>3, SeqDef
<1>5. Len(Contents) = Count
  BY <1>1, <1>3, <1>4, LenProperties
<1>6. \A k \in 1..Count : Contents[k] = buf[Slot(k - 1)]
  BY DEF Contents
<1>7. Contents = <<>> <=> Count = 0
  BY <1>1, <1>4, <1>5, EmptySeq
<1> QED
  BY <1>4, <1>5, <1>6, <1>7, Occupancy

\* The same, in the form a primed instance is taken from.
LEMMA ContentsType ==
  TypeOK => Contents \in Seq(Element) /\ Len(Contents) = Count
BY ContentsSeq

\* Contents depends only on the indices and the slots.
LEMMA ContentsSame == UNCHANGED ringVars => UNCHANGED Contents
BY DEF ringVars, Contents, Count, Slot

\* Storing into the slot at head does not change what is published.
LEMMA WriteInvisible ==
  ASSUME IInv, PutWrite
  PROVE  UNCHANGED Contents
<1>1. TypeOK /\ Count \in Nat /\ Count < RingSize
  BY Occupancy, SizeFacts DEF Slots, IInv
<1>2. UNCHANGED <<head, tail>> /\ buf' = [buf EXCEPT ![head] = pel]
  BY DEF PutWrite
<1>3. Count' = Count /\ \A k : Slot(k)' = Slot(k)
  BY <1>2 DEF Count, Slot
<1>4. ASSUME NEW k \in 1..Count PROVE buf'[Slot(k - 1)] = buf[Slot(k - 1)]
  <2>1. k - 1 \in Slots /\ k - 1 # Count
    BY <1>1, SizeFacts DEF Slots
  <2>2. Slot(k - 1) # head /\ Slot(k - 1) \in Slots
    BY <1>1, <2>1, Geometry, Occupancy
  <2> QED
    BY <1>1, <1>2, <2>2 DEF TypeOK
<1> QED
  BY <1>3, <1>4 DEF Contents

\* Storing the new head appends the element to what is published.
LEMMA PublishAppends ==
  ASSUME IInv, TypeOK', PutPublish
  PROVE  Len(Contents) < RingSize - 1 /\ Contents' = Append(Contents, pel)
<1>1. TypeOK /\ Count \in Nat /\ Count < RingSize
  BY Occupancy, SizeFacts DEF Slots, IInv
<1>2. /\ head' = Succ(head) /\ tail' = tail /\ buf' = buf
      /\ Succ(head) # tail /\ buf[head] = pel /\ pel \in Element
  BY DEF PutPublish, IInv, ProducerInv, TypeOK
<1>3. Count' = Count + 1 /\ \A k : Slot(k)' = Slot(k)
  BY <1>1, <1>2, HeadMoves
<1>4. Count # RingSize - 1 /\ Slot(Count) = head
  BY <1>1, <1>2, Occupancy
<1>5. /\ Contents \in Seq(Element) /\ Len(Contents) = Count
      /\ \A k \in 1..Count : Contents[k] = buf[Slot(k - 1)]
  BY <1>1, ContentsSeq
<1>6. Contents' = [k \in 1..(Count + 1) |-> buf[Slot(k - 1)]]
  BY <1>2, <1>3 DEF Contents
<1>7. Append(Contents, pel) = [k \in 1..(Count + 1) |-> buf[Slot(k - 1)]]
  <2>1. /\ Append(Contents, pel) \in [1..(Count + 1) -> Element]
        /\ \A k \in 1..Count : Append(Contents, pel)[k] = Contents[k]
        /\ Append(Contents, pel)[Count + 1] = pel
    <3>1. /\ Append(Contents, pel) \in Seq(Element)
          /\ Len(Append(Contents, pel)) = Len(Contents) + 1
          /\ \A k \in 1..Len(Contents) : Append(Contents, pel)[k] = Contents[k]
          /\ Append(Contents, pel)[Len(Contents) + 1] = pel
      BY <1>2, <1>5, AppendProperties
    <3>2. Append(Contents, pel) \in [1..Len(Append(Contents, pel)) -> Element]
      BY <3>1, LenProperties
    <3> QED
      BY <1>5, <3>1, <3>2
  <2>2. ASSUME NEW k \in 1..(Count + 1)
        PROVE  Append(Contents, pel)[k] = buf[Slot(k - 1)]
    <3>1. CASE k = Count + 1
      BY <1>1, <1>2, <1>4, <2>1, <3>1
    <3>2. CASE k # Count + 1
      <4>1. k \in 1..Count
        BY <1>1, <3>2
      <4> QED
        BY <1>5, <2>1, <4>1
    <3> QED
      BY <3>1, <3>2
  <2> QED
    BY <2>1, <2>2
<1> QED
  BY <1>1, <1>4, <1>5, <1>6, <1>7, SizeFacts

\* Storing the new tail removes the oldest element.
LEMMA ReleasePops ==
  ASSUME TypeOK, TypeOK', head # tail, tail' = Succ(tail), UNCHANGED <<head, buf>>
  PROVE  /\ Contents # <<>> /\ Head(Contents) = buf[tail]
         /\ Contents' = Tail(Contents)
<1>1. Count \in Nat /\ Count < RingSize /\ Count # 0
  BY Occupancy, SizeFacts DEF Slots
<1>2. /\ Contents \in Seq(Element) /\ Len(Contents) = Count
      /\ \A k \in 1..Count : Contents[k] = buf[Slot(k - 1)]
      /\ Contents # <<>>
  BY ContentsSeq
<1>3. /\ Count' = Count - 1
      /\ \A k \in Slots : k + 1 \in Slots => Slot(k)' = Slot(k + 1)
  BY TailMoves
<1>4. Head(Contents) = buf[tail]
  <2>1. Slot(0) = tail
    BY IndexFacts, SizeFacts DEF Slot
  <2> QED
    BY <1>1, <1>2, <2>1
<1>5. /\ Contents' \in Seq(Element) /\ Len(Contents') = Count - 1
      /\ \A k \in 1..(Count - 1) : Contents'[k] = buf[Slot(k)]
  <2>1. (Contents \in Seq(Element) /\ Len(Contents) = Count)'
    BY ContentsType, PTL
  <2>2. ASSUME NEW k \in 1..(Count - 1) PROVE Contents'[k] = buf[Slot(k)]
    <3>1. k - 1 \in Slots /\ (k - 1) + 1 \in Slots /\ (k - 1) + 1 = k
      BY <1>1, SizeFacts DEF Slots
    <3>2. Contents'[k] = buf'[Slot(k - 1)']
      BY <1>3 DEF Contents
    <3> QED
      BY <1>3, <3>1, <3>2
  <2> QED
    BY <1>3, <2>1, <2>2
<1>6. /\ Tail(Contents) \in Seq(Element) /\ Len(Tail(Contents)) = Count - 1
      /\ \A k \in 1..(Count - 1) : Tail(Contents)[k] = buf[Slot(k)]
  <2>1. /\ Tail(Contents) \in Seq(Element) /\ Len(Tail(Contents)) = Count - 1
        /\ \A k \in 1..(Count - 1) : Tail(Contents)[k] = Contents[k + 1]
    BY <1>2, HeadTailProperties
  <2>2. ASSUME NEW k \in 1..(Count - 1) PROVE Contents[k + 1] = buf[Slot(k)]
    BY <1>1, <1>2
  <2> QED
    BY <2>1, <2>2
<1>7. Contents' = Tail(Contents)
  BY <1>5, <1>6, SeqEqual
<1> QED
  BY <1>2, <1>4, <1>7

\* A published slot is one position of the sequence.
LEMMA SlotPosition ==
  ASSUME TypeOK, Offset(cur) < Count
  PROVE  /\ Offset(cur) \in Nat /\ Offset(cur) + 1 \in 1..Count
         /\ Contents[Offset(cur) + 1] = buf[cur]
<1>1. /\ Offset(cur) \in Slots /\ Slot(Offset(cur)) = cur /\ Count \in Slots
  BY Geometry, Occupancy DEF TypeOK
<1>2. Offset(cur) \in Nat /\ Offset(cur) + 1 \in 1..Count
  BY <1>1, SizeFacts DEF Slots
<1>3. (Offset(cur) + 1) - 1 = Offset(cur)
  BY <1>2
<1> QED
  BY <1>1, <1>2, <1>3, ContentsSeq

\* Writing through find's pointer replaces one queued element.
LEMMA MarkReplaces ==
  ASSUME IInv, FindMark
  PROVE  \E i \in 1..Len(Contents) : Contents' = [Contents EXCEPT ![i] = NopEl]
<1>1. TypeOK /\ Count \in Nat /\ Count < RingSize
  BY Occupancy, SizeFacts DEF Slots, IInv
<1>2. /\ UNCHANGED <<head, tail>> /\ buf' = [buf EXCEPT ![cur] = NopEl]
      /\ Offset(cur) < Count
  BY DEF FindMark, IInv, ConsumerInv, HeldSlotPublished
<1>3. Count' = Count /\ \A k : Slot(k)' = Slot(k)
  BY <1>2 DEF Count, Slot
<1>4. Offset(cur) \in Nat /\ Offset(cur) + 1 \in 1..Count
  BY <1>1, <1>2, SlotPosition
<1>5. ASSUME NEW k \in 1..Count
      PROVE  buf'[Slot(k - 1)]
               = IF k = Offset(cur) + 1 THEN NopEl ELSE buf[Slot(k - 1)]
  <2>1. k - 1 \in Slots
    BY <1>1, SizeFacts DEF Slots
  <2>2. Slot(k - 1) \in Slots /\ Offset(Slot(k - 1)) = k - 1
    BY <1>1, <2>1, Geometry
  <2>3. Slot(Offset(cur)) = cur
    BY <1>1, Geometry DEF TypeOK
  <2>4. k = Offset(cur) + 1 <=> Slot(k - 1) = cur
    BY <1>4, <2>2, <2>3
  <2> QED
    BY <1>1, <1>2, <2>2, <2>4 DEF TypeOK
<1>6. Contents' = [Contents EXCEPT ![Offset(cur) + 1] = NopEl]
  BY <1>3, <1>5 DEF Contents
<1> QED
  BY <1>1, <1>4, <1>6, ContentsSeq

\* A step of the ring is a step of the FIFO or leaves it unchanged.
LEMMA StepSimulation ==
  ASSUME IInv, TypeOK', [Next]_vars
  PROVE  [Fifo!Next]_(Fifo!vars)
<1> USE DEF Fifo!Next, Fifo!vars, Fifo!Returned, Fifo!Failed, Returned, Failed
<1>a. /\ TypeOK /\ ProducerInv /\ ConsumerInv /\ HeldSlotPublished
  BY DEF IInv, ConsumerInv
<1>b. /\ Contents \in Seq(Element) /\ Len(Contents) = Count
      /\ \A k \in 1..Count : Contents[k] = buf[Slot(k - 1)]
      /\ Contents = <<>> <=> head = tail
      /\ Count \in Nat /\ Count < RingSize
  BY <1>a, ContentsSeq, Occupancy, SizeFacts DEF Slots
<1>c. Count = RingSize - 1 <=> Succ(head) = tail
  BY <1>a, Occupancy
<1>d. UNCHANGED ringVars => UNCHANGED Contents
  BY ContentsSame
<1>e. Count > 0 => head # tail
  BY <1>a, Occupancy
<1>1. CASE IsFull
  <2>1. Fifo!IsFull
    BY <1>1, <1>b, <1>c, <1>d DEF IsFull, Fifo!IsFull, consVars
  <2> QED
    BY <2>1
<1>2. ASSUME NEW el \in Element, PutCheck(el) PROVE [Fifo!Next]_(Fifo!vars)
  <2>1. CASE Succ(head) # tail
    BY <1>2, <2>1, <1>d DEF PutCheck, consVars
  <2>2. CASE Succ(head) = tail
    <3>1. Fifo!PutFull
      BY <1>2, <2>2, <1>b, <1>c, <1>d DEF PutCheck, Fifo!PutFull, consVars
    <3> QED
      BY <3>1
  <2> QED
    BY <2>1, <2>2
<1>3. CASE PutWrite
  BY <1>3, WriteInvisible DEF PutWrite, consVars
<1>4. CASE PutPublish
  <2>1. pel \in Element
    BY <1>a DEF TypeOK
  <2>2. Fifo!Put(pel)
    BY <1>4, PublishAppends DEF PutPublish, Fifo!Put, consVars
  <2> QED
    BY <2>1, <2>2
<1>5. CASE GetCheck
  <2>1. CASE head # tail
    BY <1>5, <2>1, <1>d DEF GetCheck, prodVars
  <2>2. CASE head = tail
    <3>1. Fifo!Nothing("get")
      BY <1>5, <2>2, <1>b, <1>d DEF GetCheck, Fifo!Nothing, prodVars
    <3> QED
      BY <3>1
  <2> QED
    BY <2>1, <2>2
<1>6. CASE GetRead
  BY <1>6, <1>d DEF GetRead, prodVars
<1>7. CASE GetAdvance
  <2>1. head # tail /\ cval = buf[tail] /\ UNCHANGED <<head, buf>> /\ tail' = Succ(tail)
    BY <1>7, <1>a, <1>e DEF GetAdvance, HeldSlotPublished, ConsumerInv
  <2>2. Contents # <<>> /\ Head(Contents) = cval /\ Contents' = Tail(Contents)
    BY <1>a, <2>1, ReleasePops
  <2>3. Fifo!Get
    BY <1>7, <2>2 DEF GetAdvance, Fifo!Get, prodVars
  <2> QED
    BY <2>3
<1>8. CASE PeekCheck
  <2>1. CASE head # tail
    BY <1>8, <2>1, <1>d DEF PeekCheck, prodVars
  <2>2. CASE head = tail
    <3>1. Fifo!Nothing("peek")
      BY <1>8, <2>2, <1>b, <1>d DEF PeekCheck, Fifo!Nothing, prodVars
    <3> QED
      BY <3>1
  <2> QED
    BY <2>1, <2>2
<1>9. CASE PeekDeref
  <2>1. Contents # <<>> /\ Head(Contents) = buf[tail]
    <3>1. Count > 0 /\ Slot(0) = tail
      BY <1>9, <1>a, IndexFacts, SizeFacts DEF PeekDeref, HeldSlotPublished, Slot
    <3> QED
      BY <1>b, <1>e, <3>1
  <2>2. Fifo!Peek
    BY <1>9, <2>1, <1>d DEF PeekDeref, Fifo!Peek, prodVars
  <2> QED
    BY <2>2
<1>10. CASE PeekDrop
  BY <1>10, <1>d DEF PeekDrop, prodVars
<1>11. CASE EraseFirst
  <2>1. head # tail /\ UNCHANGED <<head, buf>> /\ tail' = Succ(tail)
    BY <1>11, <1>a, <1>e DEF EraseFirst, HeldSlotPublished
  <2>2. Contents # <<>> /\ Contents' = Tail(Contents)
    BY <1>a, <2>1, ReleasePops
  <2>3. Fifo!EraseFirst
    BY <1>11, <2>2 DEF EraseFirst, Fifo!EraseFirst, prodVars
  <2> QED
    BY <2>3
<1>12. CASE FindStart \/ FindDrop
  BY <1>12, <1>d DEF FindStart, FindDrop, prodVars
<1>13. CASE FindCheck
  <2>1. CASE head # cur
    BY <1>13, <2>1, <1>d DEF FindCheck, prodVars
  <2>2. CASE head = cur
    <3>1. Offset(cur) = Count
      BY <1>a, <2>2, Occupancy
    <3>2. ASSUME NEW i \in 1..Count PROVE Contents[i] \notin Wanted
      <4>1. i - 1 \in Slots /\ i - 1 < Count
        BY <1>b, SizeFacts DEF Slots
      <4>2. buf[Slot(i - 1)] \notin Wanted
        BY <1>13, <1>a, <3>1, <4>1 DEF FindCheck, ConsumerInv
      <4> QED
        BY <1>b, <4>2
    <3>3. Fifo!FindNone
      BY <1>13, <2>2, <3>2, <1>b, <1>d DEF FindCheck, Fifo!FindNone, prodVars
    <3> QED
      BY <3>3
  <2> QED
    BY <2>1, <2>2
<1>14. CASE FindTest
  <2>1. CASE buf[cur] \notin Wanted
    BY <1>14, <2>1, <1>d DEF FindTest, prodVars
  <2>2. CASE buf[cur] \in Wanted
    <3>1. /\ Offset(cur) \in Nat /\ Offset(cur) + 1 \in 1..Count
          /\ Contents[Offset(cur) + 1] = buf[cur]
      BY <1>14, <1>a, SlotPosition DEF FindTest, HeldSlotPublished
    <3>2. ASSUME NEW j \in 1..((Offset(cur) + 1) - 1)
          PROVE  Contents[j] \notin Wanted
      <4>1. j \in 1..Count /\ j - 1 \in Slots /\ j - 1 < Offset(cur)
        BY <1>b, <3>1, SizeFacts DEF Slots
      <4>2. buf[Slot(j - 1)] \notin Wanted
        BY <1>14, <1>a, <4>1 DEF FindTest, ConsumerInv
      <4> QED
        BY <1>b, <4>1, <4>2
    <3>3. Fifo!Find
      BY <1>14, <2>2, <3>1, <3>2, <1>b, <1>d DEF FindTest, Fifo!Find, prodVars
    <3> QED
      BY <3>3
  <2> QED
    BY <2>1, <2>2
<1>15. CASE FindMark
  <2>1. Fifo!Mark
    BY <1>15, MarkReplaces DEF FindMark, Fifo!Mark, prodVars
  <2> QED
    BY <2>1
<1>16. CASE UNCHANGED vars
  BY <1>16, <1>d DEF vars, prodVars, consVars
<1> QED
  BY <1>1, <1>2, <1>3, <1>4, <1>5, <1>6, <1>7, <1>8, <1>9, <1>10, <1>11, <1>12,
     <1>13, <1>14, <1>15, <1>16 DEF Next, Producer, Consumer

\* The lock-free ring implements the bounded FIFO, for every ring size and
\* element type: no element is lost, duplicated, reordered or torn, put
\* refuses exactly when RingSize - 1 elements are queued, and find returns
\* the oldest match.
THEOREM Refinement == Spec => FifoSpec
<1>1. Init => Fifo!Init
  <2> SUFFICES ASSUME Init PROVE Fifo!Init
    OBVIOUS
  <2>1. Contents = <<>>
    BY InitIInv, ContentsSeq DEF Init, IInv
  <2> QED
    BY <2>1 DEF Init, Fifo!Init, NoCall, Fifo!NoCall, Failed, Fifo!Failed
<1>2. IInv /\ IInv' /\ [Next]_vars => [Fifo!Next]_(Fifo!vars)
  BY StepSimulation DEF IInv
<1> QED
  BY <1>1, <1>2, Invariance, PTL DEF Spec, FifoSpec, Fifo!Spec
=============================================================================
