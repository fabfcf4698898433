------------------------- MODULE ByteBuffer_proofs --------------------------
(***************************************************************************)
(* Proofs about the receive buffer of a socket, for every length of the    *)
(* array and of the calls: the loops of add and pop compute what their     *)
(* closed forms say, the copies stay inside the array, and the buffer      *)
(* implements a FIFO of one byte less than its length.                     *)
(***************************************************************************)
EXTENDS ByteBuffer, SequenceTheorems, WellFoundedInduction, TLAPS

\* The array position of an index that may have passed the end once.
Slot(x) == IF x < End THEN x ELSE x - End

\* Bytes the buffer still takes.
Free == End - 1 - Count

Least(x, y) == IF x <= y THEN x ELSE y
-----------------------------------------------------------------------------
\* Every nonempty set of natural numbers has a least element.  Induction over
\* the rounds of a loop is done with this fact.
LEMMA LeastNat ==
  ASSUME NEW T, T \subseteq Nat, T # {}
  PROVE  \E x \in T : \A y \in T : x <= y
<1> DEFINE R == {ss \in Nat \X Nat : ss[1] < ss[2]}
<1>1. IsWellFoundedOn(R, Nat)
  BY NatLessThanWellFounded DEF OpToRel
<1> HIDE DEF R
<1>2. PICK x \in T : \A y \in T : ~(<<y, x>> \in R)
  BY <1>1, WFMin
<1>3. ASSUME NEW y \in T PROVE x <= y
  <2>1. y \in Nat /\ x \in Nat /\ <<y, x>> \in Nat \X Nat
    OBVIOUS
  <2>2. ~(y < x)
    BY <1>2, <2>1 DEF R
  <2> QED
    BY <2>1, <2>2
<1> QED
  BY <1>3

\* The indices and what is between them.
LEMMA IndexFacts ==
  ASSUME TypeOK
  PROVE  /\ End \in Nat /\ End >= 1 /\ head \in Nat /\ tail \in Nat /\ head < End /\ tail < End
         /\ Count \in Nat /\ Free \in Nat /\ Count + Free = End - 1
         /\ Slot(tail + Count) = head /\ Slot(head + Free + 1) = tail
BY BufferAssumption DEF TypeOK, Index, Count, Free, Slot

\* The state of add's loop after k rounds: k bytes have found a place, or the
\* buffer is full and head has come to tail.
AddForm(k) ==
  IF k <= Free
    THEN [head |-> Slot(head + k) + 1, len |-> k, over |-> head + k >= End]
    ELSE [head |-> tail, len |-> Free, over |-> head + Free + 1 >= End]

\* One round, written out.
LEMMA AddRoundIs ==
  ASSUME NEW h, NEW len, NEW over \in BOOLEAN, NEW next, NEW all \in BOOLEAN,
         next = IF h = End THEN 0 ELSE h, all <=> over \/ h = End
  PROVE  AddRound([head |-> h, len |-> len, over |-> over]) =
           IF next = tail THEN [head |-> next, len |-> len, over |-> all]
                          ELSE [head |-> next + 1, len |-> len + 1, over |-> all]
<1>1. all = (over \/ h = End)
  OBVIOUS
<1> QED
  BY <1>1 DEF AddRound

\* A round takes one closed form to the next.
LEMMA AddFormStep ==
  ASSUME TypeOK, NEW k \in Nat
  PROVE  AddRound(AddForm(k)) = AddForm(k + 1)
<1>1. CASE k <= Free
  <2>0. head \in Nat /\ End \in Nat /\ head < End /\ k < End /\ tail \in Nat /\ tail < End
    BY <1>1, IndexFacts
  <2>1. PICK h \in Nat : h = Slot(head + k) + 1
    BY <1>1, IndexFacts DEF Slot
  <2>2. PICK o \in BOOLEAN : o = (head + k >= End)
    <3>1. (head + k >= End) \in BOOLEAN
      OBVIOUS
    <3> QED
      BY <3>1
  <2>3. PICK a \in BOOLEAN : a = (head + k + 1 >= End)
    <3>1. (head + k + 1 >= End) \in BOOLEAN
      OBVIOUS
    <3> QED
      BY <3>1
  <2>4. PICK x \in Nat : x = Slot(head + k + 1)
    BY <1>1, IndexFacts DEF Slot
  <2>5. AddForm(k) = [head |-> h, len |-> k, over |-> o]
    BY <1>1, <2>1, <2>2 DEF AddForm
  <2>6. x = IF h = End THEN 0 ELSE h
    BY <2>0, <2>1, <2>4 DEF Slot
  <2>7. a <=> o \/ h = End
    <3>1. (head + k + 1 >= End) <=> (head + k >= End) \/ h = End
      BY <2>0, <2>1 DEF Slot
    <3> QED
      BY <2>2, <2>3, <3>1
  <2>8. AddRound(AddForm(k)) = IF x = tail THEN [head |-> x, len |-> k, over |-> a]
                                           ELSE [head |-> x + 1, len |-> k + 1, over |-> a]
    BY <2>5, <2>6, <2>7, AddRoundIs
  <2>9. CASE k = Free
    <3>1. x = tail /\ ~(k + 1 <= Free)
      BY <2>4, <2>9, IndexFacts
    <3>2. AddForm(k + 1) = [head |-> tail, len |-> k, over |-> a]
      BY <2>3, <2>9, <3>1 DEF AddForm
    <3> QED
      BY <2>8, <3>1, <3>2
  <2>10. CASE k # Free
    <3>1. x # tail /\ k + 1 <= Free
      <4>1. k + 1 <= Free /\ Free = End - 1 - Count
        BY <1>1, <2>10, IndexFacts DEF Free
      <4> QED
        BY <2>0, <2>4, <4>1 DEF Slot, Count
    <3>2. head + (k + 1) = head + k + 1
      BY IndexFacts
    <3>3. AddForm(k + 1) = [head |-> x + 1, len |-> k + 1, over |-> a]
      BY <2>3, <2>4, <3>1, <3>2 DEF AddForm
    <3> QED
      BY <2>8, <3>1, <3>3
  <2> QED
    BY <2>9, <2>10
<1>2. CASE k > Free
  <2>1. PICK a \in BOOLEAN : a = (head + Free + 1 >= End)
    <3>1. (head + Free + 1 >= End) \in BOOLEAN
      OBVIOUS
    <3> QED
      BY <3>1
  <2>2. ~(k <= Free) /\ ~(k + 1 <= Free) /\ tail # End
    BY <1>2, IndexFacts
  <2>3. /\ AddForm(k) = [head |-> tail, len |-> Free, over |-> a]
        /\ AddForm(k + 1) = [head |-> tail, len |-> Free, over |-> a]
    BY <2>1, <2>2 DEF AddForm
  <2> QED
    BY <2>2, <2>3 DEF AddRound
<1> QED
  BY <1>1, <1>2, IndexFacts

\* What the loop of add computes.
LEMMA AddWalkIs ==
  ASSUME TypeOK, NEW n \in Nat
  PROVE  AddWalk(n) = AddForm(n)
<1> DEFINE Start == [head |-> head + 1, len |-> 0, over |-> FALSE]
           f[k \in 0..n] == IF k = 0 THEN Start ELSE AddRound(f[k - 1])
           g == [k \in 0..n |-> AddForm(k)]
<1>1. AddForm(0) = Start
  <2>1. 0 <= Free /\ Slot(head + 0) = head /\ (head + 0 >= End) = FALSE
    BY IndexFacts DEF Slot
  <2> QED
    BY <2>1 DEF AddForm
<1>2. g = [k \in 0..n |-> IF k = 0 THEN Start ELSE AddRound(g[k - 1])]
  <2>1. ASSUME NEW k \in 0..n, k # 0 PROVE AddForm(k) = AddRound(g[k - 1])
    <3>1. k - 1 \in Nat /\ k - 1 \in 0..n /\ (k - 1) + 1 = k
      BY <2>1
    <3>2. AddRound(AddForm(k - 1)) = AddForm((k - 1) + 1)
      BY <3>1, AddFormStep
    <3> QED
      BY <3>1, <3>2
  <2> QED
    BY <1>1, <2>1
<1> HIDE DEF g, Start
<1>3. f = [k \in 0..n |-> IF k = 0 THEN Start ELSE AddRound(f[k - 1])]
  BY <1>2
<1>4. AddWalk(n) = f[n]
  BY DEF AddWalk, Start
<1> HIDE DEF f
<1>5. \A k \in 0..n : f[k] = g[k]
  <2> DEFINE T == {k \in 0..n : f[k] # g[k]}
  <2>1. SUFFICES ASSUME T # {} PROVE FALSE
    OBVIOUS
  <2>2. PICK k \in T : \A y \in T : k <= y
    <3>1. T \subseteq Nat
      OBVIOUS
    <3> HIDE DEF T
    <3> QED
      BY <2>1, <3>1, LeastNat
  <2>3. k \in 0..n /\ f[k] # g[k]
    OBVIOUS
  <2>4. k # 0
    BY <1>2, <1>3, <2>3
  <2>5. k - 1 \in 0..n /\ k - 1 \notin T
    BY <2>2, <2>3, <2>4
  <2>6. f[k - 1] = g[k - 1]
    BY <2>5
  <2> QED
    BY <1>2, <1>3, <2>3, <2>4, <2>6
<1> QED
  BY <1>4, <1>5 DEF g

\* What add stores and where it leaves head.
LEMMA AddResult ==
  ASSUME TypeOK, NEW n \in Nat
  PROVE  AddEnd(AddWalk(n)) = [head |-> Slot(head + Least(n, Free)), len |-> Least(n, Free),
                               over |-> head + Least(n, Free) >= End]
<1>1. AddWalk(n) = AddForm(n)
  BY AddWalkIs
<1>2. CASE n <= Free
  <2>1. PICK h \in Nat : h = Slot(head + n)
    BY <1>2, IndexFacts DEF Slot
  <2>2. PICK o \in BOOLEAN : o = (head + n >= End)
    <3>1. (head + n >= End) \in BOOLEAN
      OBVIOUS
    <3> QED
      BY <3>1
  <2>3. AddForm(n) = [head |-> h + 1, len |-> n, over |-> o] /\ Least(n, Free) = n
    BY <1>2, <2>1, <2>2 DEF AddForm, Least
  <2>4. h + 1 # 0 /\ (h + 1) - 1 = h
    BY <2>1
  <2>5. AddEnd([head |-> h + 1, len |-> n, over |-> o]) = [head |-> h, len |-> n, over |-> o]
    BY <2>4 DEF AddEnd
  <2> QED
    BY <1>1, <2>1, <2>2, <2>3, <2>5
<1>3. CASE n > Free
  <2>1. PICK o \in BOOLEAN : o = (head + Free + 1 >= End)
    <3>1. (head + Free + 1 >= End) \in BOOLEAN
      OBVIOUS
    <3> QED
      BY <3>1
  <2>2. AddForm(n) = [head |-> tail, len |-> Free, over |-> o] /\ Least(n, Free) = Free
    BY <1>3, <2>1, IndexFacts DEF AddForm, Least
  <2>3. CASE tail = 0
    <3>1. AddEnd([head |-> tail, len |-> Free, over |-> o]) = [head |-> End - 1, len |-> Free, over |-> FALSE]
      BY <2>3 DEF AddEnd
    <3>2. Slot(head + Free) = End - 1 /\ (head + Free >= End) = FALSE
      <4>1. head \in Nat /\ End \in Nat /\ head < End /\ Free = End - 1 - head
        BY <2>3, IndexFacts DEF Free, Count
      <4> QED
        BY <4>1 DEF Slot
    <3> QED
      BY <1>1, <2>2, <3>1, <3>2
  <2>4. CASE tail # 0
    <3>1. AddEnd([head |-> tail, len |-> Free, over |-> o]) = [head |-> tail - 1, len |-> Free, over |-> o]
      BY <2>4 DEF AddEnd
    <3>2. Slot(head + Free) = tail - 1 /\ (head + Free >= End <=> head + Free + 1 >= End)
      BY <2>4, IndexFacts DEF Slot, Free, Count
    <3>3. (head + Free >= End) = o
      BY <2>1, <3>2
    <3> QED
      BY <1>1, <2>2, <3>1, <3>2, <3>3
  <2> QED
    BY <2>3, <2>4
<1> QED
  BY <1>2, <1>3, IndexFacts

\* The state of pop's loop after k rounds: k bytes have been passed, or the
\* buffer is empty and tail has come to head.
PopForm(k) ==
  IF k <= Count
    THEN [tail |-> IF tail + k <= End THEN tail + k ELSE tail + k - End, len |-> k,
          over |-> tail + k > End]
    ELSE [tail |-> head, len |-> Count, over |-> tail + Count > End]

\* One round, written out.
LEMMA PopRoundIs ==
  ASSUME NEW t, NEW len, NEW over \in BOOLEAN, NEW from, NEW all \in BOOLEAN,
         from = IF t = End THEN 0 ELSE t, all <=> over \/ t = End
  PROVE  PopRound([tail |-> t, len |-> len, over |-> over]) =
           IF head = t THEN [tail |-> t, len |-> len, over |-> over]
           ELSE IF head = from THEN [tail |-> from, len |-> len, over |-> over]
           ELSE [tail |-> from + 1, len |-> len + 1, over |-> all]
<1>1. all = (over \/ t = End)
  OBVIOUS
<1>2. PICK w : w = [tail |-> t, len |-> len, over |-> over]
  OBVIOUS
<1>3. w.tail = t /\ w.len = len /\ w.over = over /\ \A x : [w EXCEPT !.tail = x] = [tail |-> x, len |-> len, over |-> over]
  BY <1>2
<1>4. CASE head = t
  BY <1>2, <1>3, <1>4 DEF PopRound
<1>5. CASE head # t /\ head = from
  <2>1. PopRound(w) = [w EXCEPT !.tail = from]
    BY <1>3, <1>5 DEF PopRound
  <2> QED
    BY <1>2, <1>3, <1>5, <2>1
<1>6. CASE head # t /\ head # from
  <2>1. PopRound(w) = [tail |-> from + 1, len |-> len + 1, over |-> all]
    BY <1>1, <1>3, <1>6 DEF PopRound
  <2> QED
    BY <1>2, <1>6, <2>1
<1> QED
  BY <1>4, <1>5, <1>6

\* A round takes one closed form to the next.
LEMMA PopFormStep ==
  ASSUME TypeOK, NEW k \in Nat
  PROVE  PopRound(PopForm(k)) = PopForm(k + 1)
<1>1. CASE k <= Count
  <2>1. /\ head \in Nat /\ End \in Nat /\ head < End /\ k < End /\ tail \in Nat /\ tail < End /\ Count \in Nat
        /\ Count = IF tail <= head THEN head - tail ELSE head + End - tail
    BY <1>1, IndexFacts DEF Count
  <2>2. PICK t \in Nat : t = IF tail + k <= End THEN tail + k ELSE tail + k - End
    <3>1. (IF tail + k <= End THEN tail + k ELSE tail + k - End) \in Nat
      BY <2>1
    <3> QED
      BY <3>1
  <2>3. PICK o \in BOOLEAN : o = (tail + k > End)
    <3>1. (tail + k > End) \in BOOLEAN
      OBVIOUS
    <3> QED
      BY <3>1
  <2>4. PICK a \in BOOLEAN : a = (tail + k + 1 > End)
    <3>1. (tail + k + 1 > End) \in BOOLEAN
      OBVIOUS
    <3> QED
      BY <3>1
  <2>5. PICK x \in Nat : x = IF t = End THEN 0 ELSE t
    BY <2>2
  <2>6. a <=> o \/ t = End
    <3>1. tail + k + 1 > End <=> tail + k > End \/ t = End
      BY <2>1, <2>2
    <3> QED
      BY <2>3, <2>4, <3>1
  <2>7. PopForm(k) = [tail |-> t, len |-> k, over |-> o]
    BY <1>1, <2>2, <2>3 DEF PopForm
  <2>0. PopRound([tail |-> t, len |-> k, over |-> o]) =
          IF head = t THEN [tail |-> t, len |-> k, over |-> o]
          ELSE IF head = x THEN [tail |-> x, len |-> k, over |-> o]
          ELSE [tail |-> x + 1, len |-> k + 1, over |-> a]
    BY <2>5, <2>6, PopRoundIs
  <2>8. CASE k = Count
    <3>1. ~(k + 1 <= Count) /\ x = head
      BY <1>1, <2>1, <2>2, <2>5, <2>8
    <3>2. PopForm(k + 1) = [tail |-> head, len |-> k, over |-> o]
      BY <2>3, <2>8, <3>1 DEF PopForm
    <3>3. PopRound(PopForm(k)) = [tail |-> head, len |-> k, over |-> o]
      <4>1. PopRound([tail |-> t, len |-> k, over |-> o]) = [tail |-> head, len |-> k, over |-> o]
        BY <2>0, <3>1
      <4> QED
        BY <2>7, <4>1
    <3> QED
      BY <3>2, <3>3
  <2>9. CASE k # Count
    <3>1. k + 1 <= Count /\ x # head /\ t # head
      BY <1>1, <2>1, <2>2, <2>5, <2>9
    <3>2. x + 1 = (IF tail + (k + 1) <= End THEN tail + (k + 1) ELSE tail + (k + 1) - End)
          /\ tail + (k + 1) = tail + k + 1
      BY <2>1, <2>2, <2>5, <3>1
    <3>3. PopForm(k + 1) = [tail |-> x + 1, len |-> k + 1, over |-> a]
      BY <2>4, <3>1, <3>2 DEF PopForm
    <3>4. PopRound(PopForm(k)) = [tail |-> x + 1, len |-> k + 1, over |-> a]
      <4>1. PopRound([tail |-> t, len |-> k, over |-> o]) = [tail |-> x + 1, len |-> k + 1, over |-> a]
        BY <2>0, <3>1
      <4> QED
        BY <2>7, <4>1
    <3> QED
      BY <3>3, <3>4
  <2> QED
    BY <2>8, <2>9
<1>2. CASE k > Count
  <2>1. PICK o \in BOOLEAN : o = (tail + Count > End)
    <3>1. (tail + Count > End) \in BOOLEAN
      OBVIOUS
    <3> QED
      BY <3>1
  <2>2. ~(k <= Count) /\ ~(k + 1 <= Count)
    BY <1>2, IndexFacts
  <2>3. /\ PopForm(k) = [tail |-> head, len |-> Count, over |-> o]
        /\ PopForm(k + 1) = [tail |-> head, len |-> Count, over |-> o]
    BY <2>1, <2>2 DEF PopForm
  <2> QED
    BY <2>3 DEF PopRound
<1> QED
  BY <1>1, <1>2, IndexFacts

\* What the loop of pop computes.
LEMMA PopWalkIs ==
  ASSUME TypeOK, NEW n \in Nat
  PROVE  PopWalk(n) = PopForm(n)
<1> DEFINE Start == [tail |-> tail, len |-> 0, over |-> FALSE]
           f[k \in 0..n] == IF k = 0 THEN Start ELSE PopRound(f[k - 1])
           g == [k \in 0..n |-> PopForm(k)]
<1>1. PopForm(0) = Start
  <2>1. 0 <= Count /\ tail + 0 <= End /\ tail + 0 = tail /\ (tail + 0 > End) = FALSE
    BY IndexFacts
  <2> QED
    BY <2>1 DEF PopForm
<1>2. g = [k \in 0..n |-> IF k = 0 THEN Start ELSE PopRound(g[k - 1])]
  <2>1. ASSUME NEW k \in 0..n, k # 0 PROVE PopForm(k) = PopRound(g[k - 1])
    <3>1. k - 1 \in Nat /\ k - 1 \in 0..n /\ (k - 1) + 1 = k
      BY <2>1
    <3>2. PopRound(PopForm(k - 1)) = PopForm((k - 1) + 1)
      BY <3>1, PopFormStep
    <3> QED
      BY <3>1, <3>2
  <2> QED
    BY <1>1, <2>1
<1> HIDE DEF g, Start
<1>3. f = [k \in 0..n |-> IF k = 0 THEN Start ELSE PopRound(f[k - 1])]
  BY <1>2
<1>4. PopWalk(n) = f[n]
  BY DEF PopWalk, Start
<1> HIDE DEF f
<1>5. \A k \in 0..n : f[k] = g[k]
  <2> DEFINE T == {k \in 0..n : f[k] # g[k]}
  <2>1. SUFFICES ASSUME T # {} PROVE FALSE
    OBVIOUS
  <2>2. PICK k \in T : \A y \in T : k <= y
    <3>1. T \subseteq Nat
      OBVIOUS
    <3> HIDE DEF T
    <3> QED
      BY <2>1, <3>1, LeastNat
  <2>3. k \in 0..n /\ f[k] # g[k]
    OBVIOUS
  <2>4. k # 0
    BY <1>2, <1>3, <2>3
  <2>5. k - 1 \in 0..n /\ k - 1 \notin T
    BY <2>2, <2>3, <2>4
  <2>6. f[k - 1] = g[k - 1]
    BY <2>5
  <2> QED
    BY <1>2, <1>3, <2>3, <2>4, <2>6
<1> QED
  BY <1>4, <1>5 DEF g

\* What pop takes and where it leaves tail.
LEMMA PopResult ==
  ASSUME TypeOK, NEW n \in Nat
  PROVE  /\ PopWalk(n).len = Least(n, Count)
         /\ PopWalk(n).over = (tail + Least(n, Count) > End)
         /\ PopEnd(PopWalk(n)) = Slot(tail + Least(n, Count))
<1>1. PopWalk(n) = PopForm(n)
  BY PopWalkIs
<1>2. /\ head \in Nat /\ End \in Nat /\ head < End /\ tail \in Nat /\ tail < End /\ Count \in Nat
      /\ Slot(tail + Count) = head /\ Count < End
  BY IndexFacts
<1>3. CASE n <= Count
  <2>1. Least(n, Count) = n
    BY <1>3 DEF Least
  <2>2. PopForm(n).tail = IF tail + n <= End THEN tail + n ELSE tail + n - End
    BY <1>3 DEF PopForm
  <2>3. PopForm(n).len = n /\ PopForm(n).over = (tail + n > End)
    BY <1>3 DEF PopForm
  <2>4. PopEnd(PopForm(n)) = Slot(tail + n)
    BY <1>2, <1>3, <2>2 DEF PopEnd, Slot
  <2> QED
    BY <1>1, <2>1, <2>3, <2>4
<1>4. CASE n > Count
  <2>1. Least(n, Count) = Count /\ ~(n <= Count)
    BY <1>2, <1>4 DEF Least
  <2>2. PopForm(n).tail = head /\ PopForm(n).len = Count /\ PopForm(n).over = (tail + Count > End)
    BY <2>1 DEF PopForm
  <2>3. PopEnd(PopForm(n)) = Slot(tail + Count)
    BY <1>2, <2>2 DEF PopEnd
  <2> QED
    BY <1>1, <2>1, <2>2, <2>3
<1> QED
  BY <1>2, <1>3, <1>4

\* m bytes from array position from on, in one piece or cut at the end.
Span(from, m, w) ==
  /\ from \in Index /\ m \in Nat /\ 0 < m /\ m < End
  /\ w.len = m
  /\ IF w.over THEN from + m >= End ELSE from + m <= End

\* The copies of a call stay inside the array and inside its m bytes, and take
\* each byte to its place, or from there.
LEMMA CopiesFacts ==
  ASSUME NEW from, NEW m, NEW w, Span(from, m, w), NEW c \in Copies(from, w)
  PROVE  /\ c.at \in Nat /\ c.off \in Nat /\ c.len \in Nat
         /\ c.at + c.len <= End /\ c.off + c.len <= m
         /\ \A i \in c.off..(c.off + c.len - 1) : c.at + i - c.off = Slot(from + i)
         /\ \A p \in c.at..(c.at + c.len - 1) : Slot(from + (c.off + p - c.at)) = p
<1>1. from \in Nat /\ from < End /\ End \in Nat /\ m \in Nat /\ 0 < m /\ m < End
  BY BufferAssumption DEF Span, Index
<1>2. CASE w.over
  <2>1. from + m >= End /\ w.len = m
    BY <1>2 DEF Span
  <2>2. \/ c = [at |-> from, off |-> 0, len |-> End - from]
        \/ c = [at |-> 0, off |-> End - from, len |-> m - (End - from)]
    BY <1>2, <2>1 DEF Copies
  <2>3. CASE c = [at |-> from, off |-> 0, len |-> End - from]
    <3>1. c.at = from /\ c.off = 0 /\ c.len = End - from
      BY <2>3
    <3> QED
      BY <1>1, <2>1, <3>1 DEF Slot
  <2>4. CASE c = [at |-> 0, off |-> End - from, len |-> m - (End - from)]
    <3>1. c.at = 0 /\ c.off = End - from /\ c.len = m - (End - from)
      BY <2>4
    <3> QED
      BY <1>1, <2>1, <3>1 DEF Slot
  <2> QED
    BY <2>2, <2>3, <2>4
<1>3. CASE ~w.over
  <2>1. from + m <= End /\ w.len = m
    BY <1>3 DEF Span
  <2>2. c = [at |-> from, off |-> 0, len |-> m]
    BY <1>3, <2>1 DEF Copies
  <2>3. c.at = from /\ c.off = 0 /\ c.len = m
    BY <2>2
  <2> QED
    BY <1>1, <2>1, <2>3 DEF Slot
<1> QED
  BY <1>2, <1>3

\* Every one of the m bytes is copied.
LEMMA CopiesCover ==
  ASSUME NEW from, NEW m, NEW w, Span(from, m, w), NEW i \in 0..(m - 1)
  PROVE  \E c \in Copies(from, w) : /\ i \in c.off..(c.off + c.len - 1)
                                    /\ Slot(from + i) \in c.at..(c.at + c.len - 1)
<1>1. from \in Nat /\ from < End /\ End \in Nat /\ m \in Nat /\ 0 < m /\ m < End /\ i \in Nat /\ i < m
  BY BufferAssumption DEF Span, Index
<1>2. CASE w.over
  <2>1. from + m >= End /\ w.len = m
    BY <1>2 DEF Span
  <2>2. PICK c1 : c1 = [at |-> from, off |-> 0, len |-> End - from]
    OBVIOUS
  <2>3. PICK c2 : c2 = [at |-> 0, off |-> End - from, len |-> m - (End - from)]
    OBVIOUS
  <2>4. c1 \in Copies(from, w) /\ c2 \in Copies(from, w)
    BY <1>2, <2>1, <2>2, <2>3 DEF Copies
  <2>5. c1.at = from /\ c1.off = 0 /\ c1.len = End - from
    BY <2>2
  <2>6. c2.at = 0 /\ c2.off = End - from /\ c2.len = m - (End - from)
    BY <2>3
  <2>7. CASE from + i < End
    BY <1>1, <2>4, <2>5, <2>7 DEF Slot
  <2>8. CASE from + i >= End
    BY <1>1, <2>1, <2>4, <2>6, <2>8 DEF Slot
  <2> QED
    BY <1>1, <2>7, <2>8
<1>3. CASE ~w.over
  <2>1. from + m <= End /\ w.len = m
    BY <1>3 DEF Span
  <2>2. PICK c : c = [at |-> from, off |-> 0, len |-> m]
    OBVIOUS
  <2>3. c \in Copies(from, w)
    BY <1>3, <2>1, <2>2 DEF Copies
  <2>4. c.at = from /\ c.off = 0 /\ c.len = m
    BY <2>2
  <2> QED
    BY <1>1, <2>1, <2>3, <2>4 DEF Slot
<1> QED
  BY <1>2, <1>3

\* Bytes go to different places.
LEMMA SlotInjective ==
  ASSUME NEW from \in Index, NEW i \in 0..(End - 1), NEW j \in 0..(End - 1), Slot(from + i) = Slot(from + j)
  PROVE  i = j
BY BufferAssumption DEF Slot, Index

\* An index in the array.
LEMMA SlotIndex ==
  ASSUME NEW from \in Index, NEW i \in 0..(End - 1)
  PROVE  Slot(from + i) \in Index
BY BufferAssumption DEF Slot, Index

\* What the copies of add leave in the array.
LEMMA CopyInIs ==
  ASSUME NEW from, NEW m, NEW w, Span(from, m, w), NEW data, array \in [Index -> Byte]
  PROVE  /\ CopyIn(Copies(from, w), data) \in [Index -> Byte \union {At(data, i) : i \in 1..m}]
         /\ \A i \in 0..(m - 1) : CopyIn(Copies(from, w), data)[Slot(from + i)] = At(data, i + 1)
         /\ \A p \in Index : (\A i \in 0..(m - 1) : p # Slot(from + i))
                               => CopyIn(Copies(from, w), data)[p] = array[p]
<1> DEFINE cs == Copies(from, w)
           In(c, p) == p \in c.at..(c.at + c.len - 1)
           new == CopyIn(cs, data)
<1>1. from \in Index /\ m \in Nat /\ m < End /\ End \in Nat
  BY BufferAssumption DEF Span
<1>2. ASSUME NEW p \in Index, NEW c \in cs, In(c, p)
      PROVE  /\ c.off + p - c.at \in 0..(m - 1) /\ p = Slot(from + (c.off + p - c.at))
  <2>1. /\ c.at \in Nat /\ c.off \in Nat /\ c.len \in Nat
        /\ c.at + c.len <= End /\ c.off + c.len <= m
        /\ Slot(from + (c.off + p - c.at)) = p
    BY <1>2, CopiesFacts
  <2> QED
    BY <1>1, <1>2, <2>1
<1>3. ASSUME NEW p \in Index, NEW c \in cs, In(c, p)
      PROVE  \E d \in cs : In(d, p) /\ new[p] = At(data, d.off + p - d.at + 1)
  <2>1. PICK d : d = CHOOSE e \in cs : In(e, p)
    OBVIOUS
  <2>2. d \in cs /\ In(d, p)
    BY <1>3, <2>1
  <2>3. new[p] = At(data, d.off + p - d.at + 1)
    BY <1>3, <2>1 DEF CopyIn
  <2> QED
    BY <2>2, <2>3
<1>4. ASSUME NEW p \in Index, \A c \in cs : ~In(c, p) PROVE new[p] = array[p]
  BY <1>4 DEF CopyIn
<1> HIDE DEF cs, new, In
<1>5. ASSUME NEW i \in 0..(m - 1) PROVE new[Slot(from + i)] = At(data, i + 1)
  <2>1. PICK p \in Index : p = Slot(from + i)
    BY <1>1, SlotIndex
  <2>2. \E c \in cs : In(c, p)
    BY <2>1, CopiesCover DEF cs, In
  <2>3. PICK d \in cs : In(d, p) /\ new[p] = At(data, d.off + p - d.at + 1)
    BY <1>3, <2>2
  <2>4. PICK j \in 0..(m - 1) : j = d.off + p - d.at /\ p = Slot(from + j)
    BY <1>2, <2>3
  <2>5. j = i
    BY <1>1, <2>1, <2>4, SlotInjective
  <2> QED
    BY <2>1, <2>3, <2>4, <2>5
<1>6. ASSUME NEW p \in Index, \A i \in 0..(m - 1) : p # Slot(from + i) PROVE new[p] = array[p]
  BY <1>2, <1>4, <1>6
<1>7. new \in [Index -> Byte \union {At(data, i) : i \in 1..m}]
  <2>1. ASSUME NEW p \in Index PROVE new[p] \in Byte \union {At(data, i) : i \in 1..m}
    <3>1. CASE \E i \in 0..(m - 1) : p = Slot(from + i)
      <4>1. PICK i \in 0..(m - 1) : p = Slot(from + i)
        BY <3>1
      <4>2. i + 1 \in 1..m
        BY <1>1
      <4> QED
        BY <1>5, <4>1, <4>2
    <3>2. CASE \A i \in 0..(m - 1) : p # Slot(from + i)
      BY <1>6, <3>2
    <3> QED
      BY <3>1, <3>2
  <2>2. new = [p \in Index |-> new[p]]
    BY DEF new, CopyIn
  <2> QED
    BY <2>1, <2>2
<1> QED
  BY <1>5, <1>6, <1>7 DEF new, cs

\* What the copies of pop hand out.
LEMMA CopyOutIs ==
  ASSUME NEW from, NEW m, NEW w, Span(from, m, w), NEW i \in 1..m
  PROVE  CopyOut(Copies(from, w), m)[i] = array[Slot(from + i - 1)]
<1> DEFINE cs == Copies(from, w)
           In(c) == i - 1 \in c.off..(c.off + c.len - 1)
<1>1. from \in Nat /\ m \in Nat /\ i - 1 \in 0..(m - 1) /\ from + (i - 1) = from + i - 1
  BY BufferAssumption DEF Span, Index
<1>2. \E c \in cs : In(c)
  BY <1>1, CopiesCover
<1>3. PICK d : d = CHOOSE c \in cs : In(c)
  OBVIOUS
<1>4. d \in cs /\ In(d)
  BY <1>2, <1>3
<1>5. CopyOut(cs, m)[i] = array[d.at + i - 1 - d.off]
  BY <1>3 DEF CopyOut
<1>6. d.at \in Nat /\ d.off \in Nat /\ d.at + (i - 1) - d.off = Slot(from + (i - 1))
  BY <1>4, CopiesFacts
<1>7. d.at + (i - 1) - d.off = d.at + i - 1 - d.off
  BY <1>1, <1>6
<1> QED
  BY <1>1, <1>5, <1>6, <1>7

\* The copies of a call of m bytes.
CopiesOK(cs, m) == \A c \in cs : c.len >= 0 /\ c.at + c.len <= End /\ c.off + c.len <= m

\* What a call of add does.
LEMMA AddEffect ==
  ASSUME TypeOK, NEW n \in Nat, NEW data \in [1..n -> Byte], Add(data),
         NEW m, m = Least(n, Free)
  PROVE  /\ m \in Nat /\ m <= n /\ m <= Free
         /\ added' = SubSeq(data, 1, m) /\ popped' = <<>> /\ tail' = tail
         /\ head' = Slot(head + m) /\ array' \in [Index -> Byte]
         /\ \A i \in 0..(m - 1) : array'[Slot(head + i)] = data[i + 1]
         /\ \A p \in Index : (\A i \in 0..(m - 1) : p # Slot(head + i)) => array'[p] = array[p]
         /\ CopiesOK(copies', m)
<1>1. Free \in Nat /\ m \in Nat /\ m <= n /\ m <= Free /\ m < End /\ head \in Nat /\ head < End /\ End \in Nat
  BY IndexFacts DEF Least
<1>2. PICK w : w = AddEnd(AddWalk(Len(data)))
  OBVIOUS
<1>3. Len(data) = n
  OBVIOUS
<1>4. w = [head |-> Slot(head + m), len |-> m, over |-> head + m >= End]
  BY <1>2, <1>3, AddResult
<1>5. w.head = Slot(head + m) /\ w.len = m /\ (w.over <=> head + m >= End)
  BY <1>4
<1>6. /\ added' = SubSeq(data, 1, m) /\ popped' = <<>> /\ tail' = tail
      /\ m > 0 => head' = w.head /\ array' = CopyIn(Copies(head, w), data) /\ copies' = Copies(head, w)
      /\ ~(m > 0) => copies' = {} /\ head' = head /\ array' = array
  BY <1>2, <1>5 DEF Add
<1>7. head \in Index /\ array \in [Index -> Byte]
  BY DEF TypeOK
<1>8. CASE m > 0
  <2>1. Span(head, m, w)
    BY <1>1, <1>5, <1>7, <1>8 DEF Span
  <2>2. \A i \in 1..m : i \in DOMAIN data /\ At(data, i) = data[i] /\ data[i] \in Byte
    BY <1>1 DEF At
  <2>3. /\ array' \in [Index -> Byte \union {At(data, i) : i \in 1..m}]
        /\ \A i \in 0..(m - 1) : array'[Slot(head + i)] = At(data, i + 1)
        /\ \A p \in Index : (\A i \in 0..(m - 1) : p # Slot(head + i)) => array'[p] = array[p]
    BY <1>6, <1>7, <1>8, <2>1, CopyInIs
  <2>4. array' \in [Index -> Byte]
    BY <2>2, <2>3
  <2>5. \A i \in 0..(m - 1) : array'[Slot(head + i)] = data[i + 1]
    <3>1. \A i \in 0..(m - 1) : i + 1 \in 1..m
      BY <1>1
    <3> QED
      BY <2>2, <2>3, <3>1
  <2>6. CopiesOK(copies', m)
    <3>1. ASSUME NEW c \in Copies(head, w) PROVE c.len >= 0 /\ c.at + c.len <= End /\ c.off + c.len <= m
      <4>1. c.len \in Nat /\ c.at + c.len <= End /\ c.off + c.len <= m
        BY <2>1, CopiesFacts
      <4> QED
        BY <4>1
    <3> QED
      BY <1>6, <1>8, <3>1 DEF CopiesOK
  <2> QED
    BY <1>1, <1>5, <1>6, <1>8, <2>3, <2>4, <2>5, <2>6
<1>9. CASE m = 0
  <2>1. copies' = {} /\ head' = head /\ array' = array
    BY <1>6, <1>9
  <2>2. Slot(head + m) = head /\ 0..(m - 1) = {}
    BY <1>1, <1>9 DEF Slot
  <2>3. CopiesOK(copies', m)
    BY <2>1 DEF CopiesOK
  <2> QED
    BY <1>1, <1>6, <1>7, <2>1, <2>2, <2>3
<1> QED
  BY <1>1, <1>8, <1>9

\* What a call of pop does.
LEMMA PopEffect ==
  ASSUME TypeOK, NEW n \in Nat, Pop(n), NEW m, m = Least(n, Count)
  PROVE  /\ m \in Nat /\ m <= n /\ m <= Count
         /\ popped' = [i \in 1..m |-> array[Slot(tail + i - 1)]] /\ added' = <<>>
         /\ tail' = Slot(tail + m) /\ head' = head /\ array' = array
         /\ CopiesOK(copies', m)
<1>1. Count \in Nat /\ m \in Nat /\ m <= n /\ m <= Count /\ m < End /\ tail \in Nat /\ tail < End /\ End \in Nat
  BY IndexFacts DEF Least
<1>2. PICK w : w = PopWalk(n)
  OBVIOUS
<1>3. w.len = m /\ w.over = (tail + m > End) /\ PopEnd(w) = Slot(tail + m)
  BY <1>2, PopResult
<1>4. /\ popped' = CopyOut(Copies(tail, w), m) /\ added' = <<>> /\ head' = head /\ array' = array
      /\ m > 0 => tail' = Slot(tail + m) /\ copies' = Copies(tail, w)
      /\ ~(m > 0) => copies' = {} /\ tail' = tail
  BY <1>2, <1>3 DEF Pop
<1>5. popped' = [i \in 1..m |-> popped'[i]]
  BY <1>4 DEF CopyOut
<1>6. CASE m > 0
  <2>1. Span(tail, m, w)
    <3>1. tail \in Index
      BY DEF TypeOK
    <3>2. IF w.over THEN tail + m >= End ELSE tail + m <= End
      <4>1. w.over <=> tail + m > End
        BY <1>3
      <4>2. (tail + m > End => tail + m >= End) /\ (~(tail + m > End) => tail + m <= End)
        BY <1>1
      <4> QED
        BY <4>1, <4>2
    <3> QED
      BY <1>1, <1>3, <1>6, <3>1, <3>2 DEF Span
  <2>2. ASSUME NEW i \in 1..m PROVE popped'[i] = array[Slot(tail + i - 1)]
    BY <1>4, <2>1, CopyOutIs
  <2>3. popped' = [i \in 1..m |-> array[Slot(tail + i - 1)]]
    BY <1>5, <2>2
  <2>4. CopiesOK(copies', m)
    <3>1. ASSUME NEW c \in Copies(tail, w) PROVE c.len >= 0 /\ c.at + c.len <= End /\ c.off + c.len <= m
      <4>1. c.len \in Nat /\ c.at + c.len <= End /\ c.off + c.len <= m
        BY <2>1, CopiesFacts
      <4> QED
        BY <4>1
    <3> QED
      BY <1>4, <1>6, <3>1 DEF CopiesOK
  <2> QED
    BY <1>1, <1>4, <1>6, <2>3, <2>4
<1>7. CASE m = 0
  <2>1. copies' = {} /\ tail' = tail
    BY <1>4, <1>7
  <2>2. Slot(tail + m) = tail /\ 1..m = {}
    BY <1>1, <1>7 DEF Slot
  <2>3. popped' = [i \in 1..m |-> array[Slot(tail + i - 1)]]
    BY <1>5, <2>2
  <2>4. CopiesOK(copies', m)
    BY <2>1 DEF CopiesOK
  <2> QED
    BY <1>1, <1>4, <2>1, <2>2, <2>3, <2>4
<1> QED
  BY <1>1, <1>6, <1>7

\* CopiesInBounds is kept by every call.
LEMMA StepBounds ==
  CopiesInBounds /\ [Next]_vars => CopiesInBounds'
<1>1. SUFFICES ASSUME CopiesInBounds, [Next]_vars PROVE CopiesInBounds'
  OBVIOUS
<1>2. TypeOK
  BY <1>1 DEF CopiesInBounds
<1>3. MaxLen \in Nat
  BY BufferAssumption
<1>4. ASSUME NEW n \in 0..MaxLen, NEW data \in [1..n -> Byte], Add(data) PROVE CopiesInBounds'
  <2>1. PICK m : m = Least(n, Free)
    OBVIOUS
  <2>2. n \in Nat
    BY <1>3
  <2>3. /\ m \in Nat /\ m <= n /\ m <= Free
        /\ added' = SubSeq(data, 1, m) /\ popped' = <<>> /\ tail' = tail
        /\ head' = Slot(head + m) /\ array' \in [Index -> Byte]
        /\ CopiesOK(copies', m)
    BY <1>2, <1>4, <2>1, <2>2, AddEffect
  <2>4. SubSeq(data, 1, m) \in Seq(Byte) /\ Len(SubSeq(data, 1, m)) = m
    <3>1. data \in Seq(Byte) /\ Len(data) = n
      BY <2>2
    <3> QED
      BY <2>2, <2>3, <3>1, SubSeqProperties
  <2>5. head' \in Index /\ tail' \in Index
    <3>1. Free < End /\ Free \in Nat /\ End \in Nat
      BY <1>2, IndexFacts
    <3>2. m \in 0..(End - 1)
      BY <2>3, <3>1
    <3> QED
      BY <1>2, <2>3, <3>2, SlotIndex DEF TypeOK
  <2>6. added' \in Seq(Byte) /\ popped' \in Seq(Byte) /\ Len(added') + Len(popped') = m
    BY <2>3, <2>4, EmptySeq
  <2> QED
    BY <2>3, <2>5, <2>6 DEF CopiesInBounds, TypeOK, CopiesOK
<1>5. ASSUME NEW n \in 0..MaxLen, Pop(n) PROVE CopiesInBounds'
  <2>1. PICK m : m = Least(n, Count)
    OBVIOUS
  <2>2. n \in Nat
    BY <1>3
  <2>3. /\ m \in Nat /\ m <= n /\ m <= Count
        /\ popped' = [i \in 1..m |-> array[Slot(tail + i - 1)]] /\ added' = <<>>
        /\ tail' = Slot(tail + m) /\ head' = head /\ array' = array
        /\ CopiesOK(copies', m)
    BY <1>2, <1>5, <2>1, <2>2, PopEffect
  <2>4. Count < End /\ Count \in Nat /\ End \in Nat /\ tail \in Index /\ array \in [Index -> Byte] /\ head \in Index
    BY <1>2, IndexFacts DEF TypeOK
  <2>5. head' \in Index /\ tail' \in Index
    <3>1. m \in 0..(End - 1)
      BY <2>3, <2>4
    <3> QED
      BY <2>3, <2>4, <3>1, SlotIndex
  <2>6. popped' \in Seq(Byte) /\ Len(popped') = m
    <3>1. ASSUME NEW i \in 1..m PROVE array[Slot(tail + i - 1)] \in Byte
      <4>1. i - 1 \in 0..(End - 1) /\ tail + (i - 1) = tail + i - 1
        BY <2>3, <2>4 DEF Index
      <4>2. Slot(tail + (i - 1)) \in Index
        BY <2>4, <4>1, SlotIndex
      <4> QED
        BY <2>4, <4>1, <4>2
    <3>2. [i \in 1..m |-> array[Slot(tail + i - 1)]] \in [1..m -> Byte]
      BY <3>1
    <3> QED
      BY <2>3, <3>2
  <2>7. added' \in Seq(Byte) /\ Len(added') + Len(popped') = m
    BY <2>3, <2>6, EmptySeq
  <2> QED
    BY <2>3, <2>4, <2>5, <2>6, <2>7 DEF CopiesInBounds, TypeOK, CopiesOK
<1>6. CASE UNCHANGED vars
  BY <1>1, <1>6 DEF vars, CopiesInBounds, TypeOK
<1> QED
  BY <1>1, <1>4, <1>5, <1>6 DEF Next

\* No memcpy of add or pop leaves the array or the caller's bytes, and both
\* indices stay inside the array, for every length of the array and of a call.
THEOREM InBounds == Spec => []CopiesInBounds
<1>1. Init => CopiesInBounds
  BY BufferAssumption, EmptySeq DEF Init, CopiesInBounds, TypeOK, Index
<1> QED
  BY <1>1, StepBounds, PTL DEF Spec

-----------------------------------------------------------------------------
(***************************************************************************)
(* The buffer implements ByteFifo.                                         *)
(***************************************************************************)

\* The abstract queue is a sequence of Count bytes.
LEMMA ContentsFacts ==
  TypeOK => /\ Contents \in Seq(Byte) /\ Len(Contents) = Count
            /\ \A i \in 1..Count : Contents[i] = array[Slot(tail + i - 1)] /\ Slot(tail + i - 1) \in Index
<1> SUFFICES ASSUME TypeOK
             PROVE  /\ Contents \in Seq(Byte) /\ Len(Contents) = Count
                    /\ \A i \in 1..Count : Contents[i] = array[Slot(tail + i - 1)] /\ Slot(tail + i - 1) \in Index
  OBVIOUS
<1>1. Count \in Nat /\ Count < End /\ End \in Nat /\ tail \in Nat /\ tail \in Index /\ array \in [Index -> Byte]
  BY IndexFacts DEF TypeOK
<1>2. /\ Contents = [i \in 1..Count |-> Contents[i]]
      /\ \A i \in 1..Count : Contents[i] = array[Slot(tail + i - 1)]
  <2>1. Contents = [i \in 1..Count |-> Contents[i]]
    BY DEF Contents
  <2>2. ASSUME NEW i \in 1..Count PROVE Contents[i] = array[Slot(tail + i - 1)]
    <3>1. PICK x : x = IF tail + i - 1 < End THEN tail + i - 1 ELSE tail + i - 1 - End
      OBVIOUS
    <3>2. Slot(tail + i - 1) = x
      BY <1>1, <3>1 DEF Slot
    <3>3. Contents[i] = array[x]
      BY <3>1 DEF Contents
    <3> QED
      BY <3>2, <3>3
  <2> QED
    BY <2>1, <2>2
<1>3. ASSUME NEW i \in 1..Count PROVE Slot(tail + i - 1) \in Index
  <2>1. i - 1 \in 0..(End - 1) /\ tail + (i - 1) = tail + i - 1
    BY <1>1
  <2> QED
    BY <1>1, <2>1, SlotIndex
<1>4. Contents \in [1..Count -> Byte]
  <2>1. \A i \in 1..Count : Contents[i] \in Byte
    BY <1>1, <1>2, <1>3
  <2> QED
    BY <1>2, <2>1
<1>5. Contents \in Seq(Byte) /\ Len(Contents) = Count
  BY <1>1, <1>4
<1> QED
  BY <1>2, <1>3, <1>5

\* The same of the next state.
LEMMA ContentsNext ==
  ASSUME TypeOK'
  PROVE  /\ Contents' \in Seq(Byte) /\ Len(Contents') = Count'
         /\ \A i \in 1..Count' : Contents'[i] = array'[Slot(tail' + i - 1)]
<1>1. TypeOK' => (/\ Contents \in Seq(Byte) /\ Len(Contents) = Count
                  /\ \A i \in 1..Count : Contents[i] = array[Slot(tail + i - 1)] /\ Slot(tail + i - 1) \in Index)'
  BY ContentsFacts, PTL
<1> QED
  BY <1>1

\* A byte after the wrap, counted from tail or from head.
LEMMA SlotBehind ==
  ASSUME TypeOK, NEW i \in Nat, i < End
  PROVE  i < Free => Slot(tail + Count + i) = Slot(head + i)
BY IndexFacts DEF Slot, Count, Free

\* add stores the bytes that fit behind those that are there.
LEMMA AddRefines ==
  ASSUME TypeOK, TypeOK', NEW n \in Nat, NEW data \in [1..n -> Byte], Add(data)
  PROVE  Fifo!Add(data)
<1>1. PICK m : m = Least(n, Free)
  OBVIOUS
<1>2. /\ m \in Nat /\ m <= n /\ m <= Free
      /\ added' = SubSeq(data, 1, m) /\ popped' = <<>> /\ tail' = tail
      /\ head' = Slot(head + m)
      /\ \A i \in 0..(m - 1) : array'[Slot(head + i)] = data[i + 1]
      /\ \A p \in Index : (\A i \in 0..(m - 1) : p # Slot(head + i)) => array'[p] = array[p]
  BY <1>1, AddEffect
<1>3. /\ Count \in Nat /\ Free \in Nat /\ Count + Free = End - 1 /\ End \in Nat
      /\ head \in Nat /\ tail \in Nat /\ head < End /\ tail < End /\ tail \in Index
  BY IndexFacts DEF TypeOK
<1>4. data \in Seq(Byte) /\ Len(data) = n
  OBVIOUS
<1>5. SubSeq(data, 1, m) \in Seq(Byte) /\ Len(SubSeq(data, 1, m)) = m
      /\ \A i \in 1..m : SubSeq(data, 1, m)[i] = data[i]
  BY <1>2, <1>4, SubSeqProperties
<1>6. Count' = Count + m
  BY <1>2, <1>3 DEF Count, Free, Slot
<1>7. /\ Contents \in Seq(Byte) /\ Len(Contents) = Count
      /\ \A i \in 1..Count : Contents[i] = array[Slot(tail + i - 1)] /\ Slot(tail + i - 1) \in Index
  BY ContentsFacts
<1>8. /\ Contents' \in Seq(Byte) /\ Len(Contents') = Count'
      /\ \A i \in 1..Count' : Contents'[i] = array'[Slot(tail' + i - 1)]
  BY ContentsNext
<1>9. \A i \in 1..Count : Contents'[i] = Contents[i]
  <2>1. ASSUME NEW i \in 1..Count PROVE array'[Slot(tail + i - 1)] = array[Slot(tail + i - 1)]
    <3>1. ASSUME NEW j \in 0..(m - 1) PROVE Slot(tail + i - 1) # Slot(head + j)
      <4>1. j < Free /\ j \in Nat /\ j < End
        BY <1>2, <1>3
      <4>2. Slot(head + j) = Slot(tail + Count + j)
        BY <4>1, SlotBehind
      <4>3. PICK x \in 0..(End - 1) : x = Count + j /\ tail + x = tail + Count + j
        BY <1>3, <4>1
      <4>4. PICK y \in 0..(End - 1) : y = i - 1 /\ tail + y = tail + i - 1
        BY <1>3
      <4>5. x # y
        BY <1>3, <4>1, <4>3, <4>4
      <4> QED
        BY <1>3, <4>2, <4>3, <4>4, <4>5, SlotInjective
    <3> QED
      BY <1>2, <1>7, <3>1
  <2>2. \A i \in 1..Count : i \in 1..Count'
    BY <1>2, <1>3, <1>6
  <2> QED
    BY <1>2, <1>7, <1>8, <2>1, <2>2
<1>10. \A i \in 1..m : Contents'[Count + i] = data[i]
  <2>1. ASSUME NEW i \in 1..m PROVE Contents'[Count + i] = data[i]
    <3>1. Count + i \in 1..Count' /\ i - 1 \in 0..(m - 1) /\ i - 1 \in Nat /\ i - 1 < Free /\ i - 1 < End
          /\ (i - 1) + 1 = i /\ tail + (Count + i) - 1 = tail + Count + (i - 1)
      BY <1>2, <1>3, <1>6
    <3>2. Contents'[Count + i] = array'[Slot(tail + Count + (i - 1))]
      BY <1>2, <1>8, <3>1
    <3>3. Slot(tail + Count + (i - 1)) = Slot(head + (i - 1))
      BY <3>1, SlotBehind
    <3>4. array'[Slot(head + (i - 1))] = data[(i - 1) + 1]
      BY <1>2, <3>1
    <3> QED
      BY <3>1, <3>2, <3>3, <3>4
  <2> QED
    BY <2>1
<1>11. Contents' = Contents \o SubSeq(data, 1, m)
  <2>1. PICK d \in Seq(Byte) : d = SubSeq(data, 1, m)
    BY <1>5
  <2>2. /\ Contents \o d \in Seq(Byte) /\ Len(Contents \o d) = Count + m
        /\ \A i \in 1..(Count + m) : (Contents \o d)[i] = IF i <= Count THEN Contents[i] ELSE d[i - Count]
    <3>1. d \in Seq(Byte) /\ Len(d) = m /\ Contents \in Seq(Byte) /\ Len(Contents) = Count
      BY <1>5, <1>7, <2>1
    <3>2. Contents \o d \in Seq(Byte) /\ Len(Contents \o d) = Len(Contents) + Len(d)
      BY <3>1, ConcatProperties
    <3>3. \A i \in 1..(Len(Contents) + Len(d)) :
            (Contents \o d)[i] = IF i <= Len(Contents) THEN Contents[i] ELSE d[i - Len(Contents)]
      BY <3>1, ConcatProperties
    <3> QED
      BY <3>1, <3>2, <3>3
  <2>3. ASSUME NEW i \in 1..(Count + m) PROVE Contents'[i] = (Contents \o d)[i]
    <3>1. CASE i <= Count
      <4>1. i \in 1..Count
        BY <1>3, <3>1
      <4> QED
        BY <1>9, <2>2, <3>1, <4>1
    <3>2. CASE i > Count
      <4>1. PICK j \in 1..m : j = i - Count /\ Count + j = i
        BY <1>2, <1>3, <3>2
      <4>2. ~(i <= Count)
        BY <1>3, <3>2
      <4> QED
        BY <1>5, <1>10, <2>1, <2>2, <4>1, <4>2
    <3>3. i <= Count \/ i > Count
      BY <1>2, <1>3
    <3> QED
      BY <3>1, <3>2, <3>3
  <2>4. Len(Contents') = Len(Contents \o d)
    BY <1>6, <1>8, <2>2
  <2> QED
    BY <1>6, <1>8, <2>1, <2>2, <2>3, <2>4, SeqEqual
<1>12. PICK r : r = End - 1 - Len(Contents)
  OBVIOUS
<1>13. Fifo!Prefix(data, r) = SubSeq(data, 1, m)
  <2>1. r = Free
    BY <1>7, <1>12 DEF Free
  <2>2. (IF r < Len(data) THEN r ELSE Len(data)) = m
    BY <1>1, <1>3, <1>4, <2>1 DEF Least
  <2> QED
    BY <2>2 DEF Fifo!Prefix
<1> QED
  BY <1>2, <1>11, <1>12, <1>13 DEF Fifo!Add

\* pop hands out the oldest bytes.
LEMMA PopRefines ==
  ASSUME TypeOK, TypeOK', NEW n \in Nat, Pop(n)
  PROVE  Fifo!Pop(n)
<1>1. PICK m : m = Least(n, Count)
  OBVIOUS
<1>2. /\ m \in Nat /\ m <= n /\ m <= Count
      /\ popped' = [i \in 1..m |-> array[Slot(tail + i - 1)]] /\ added' = <<>>
      /\ tail' = Slot(tail + m) /\ head' = head /\ array' = array
  BY <1>1, PopEffect
<1>3. /\ Count \in Nat /\ Count < End /\ End \in Nat
      /\ head \in Nat /\ tail \in Nat /\ head < End /\ tail < End
  BY IndexFacts
<1>4. /\ Contents \in Seq(Byte) /\ Len(Contents) = Count
      /\ \A i \in 1..Count : Contents[i] = array[Slot(tail + i - 1)]
  BY ContentsFacts
<1>5. /\ Contents' \in Seq(Byte) /\ Len(Contents') = Count'
      /\ \A i \in 1..Count' : Contents'[i] = array'[Slot(tail' + i - 1)]
  BY ContentsNext
<1>6. Count' = Count - m
  BY <1>2, <1>3 DEF Count, Slot
<1>7. popped' = Fifo!Prefix(Contents, n)
  <2>1. (IF n < Len(Contents) THEN n ELSE Len(Contents)) = m
    BY <1>1, <1>3, <1>4 DEF Least
  <2>2. Fifo!Prefix(Contents, n) = SubSeq(Contents, 1, m)
    BY <2>1 DEF Fifo!Prefix
  <2>3. SubSeq(Contents, 1, m) = [i \in 1..m |-> Contents[i]]
    BY <1>2, <1>3, <1>4
  <2>4. \A i \in 1..m : Contents[i] = array[Slot(tail + i - 1)]
    BY <1>2, <1>3, <1>4
  <2> QED
    BY <1>2, <2>2, <2>3, <2>4
<1>8. Contents' = Fifo!Suffix(Contents, n)
  <2>1. Fifo!Suffix(Contents, n) = SubSeq(Contents, n + 1, Count)
    BY <1>4 DEF Fifo!Suffix
  <2>2. CASE n <= Count
    <3>1. m = n
      BY <1>1, <2>2 DEF Least
    <3>2. PICK d : d = SubSeq(Contents, n + 1, Count)
      OBVIOUS
    <3>3. d \in Seq(Byte) /\ Len(d) = Count - n /\ \A i \in 1..(Count - n) : d[i] = Contents[n + i]
      <4>1. n + 1 \in 1..(Len(Contents) + 1) /\ Count \in 0..Len(Contents)
        BY <1>3, <1>4, <2>2
      <4>2. d = [i \in 1..(Count - n) |-> Contents[n + i]]
        BY <1>3, <1>4, <2>2, <3>2
      <4>3. ASSUME NEW i \in 1..(Count - n) PROVE Contents[n + i] \in Byte
        <5>1. n + i \in 1..Len(Contents)
          BY <1>3, <1>4, <2>2
        <5> QED
          BY <1>4, <5>1
      <4>4. Count - n \in Nat
        BY <1>3, <2>2
      <4> QED
        BY <4>2, <4>3, <4>4
    <3>4. ASSUME NEW i \in 1..(Count - n) PROVE Contents'[i] = d[i]
      <4>1. n + i \in 1..Count /\ i \in 1..Count'
        BY <1>3, <1>6, <2>2, <3>1
      <4>2. Contents'[i] = array[Slot(Slot(tail + n) + i - 1)]
        BY <1>2, <1>5, <3>1, <4>1
      <4>3. Slot(Slot(tail + n) + i - 1) = Slot(tail + (n + i) - 1)
        BY <1>3, <2>2, <4>1 DEF Slot
      <4> QED
        BY <1>4, <3>3, <4>1, <4>2, <4>3
    <3>5. Len(Contents') = Len(d) /\ Len(d) = Count - n
      BY <1>5, <1>6, <3>1, <3>3
    <3> QED
      BY <1>5, <2>1, <3>2, <3>3, <3>4, <3>5, SeqEqual
  <2>3. CASE n > Count
    <3>1. m = Count /\ Count' = 0
      BY <1>1, <1>3, <1>6, <2>3 DEF Least
    <3>2. Contents' = <<>>
      BY <1>5, <3>1, EmptySeq
    <3>3. SubSeq(Contents, n + 1, Count) = <<>>
      BY <1>3, <1>4, <2>3
    <3> QED
      BY <2>1, <3>2, <3>3
  <2> QED
    BY <1>3, <2>2, <2>3
<1> QED
  BY <1>2, <1>7, <1>8 DEF Fifo!Pop

\* Whatever add accepted comes out of pop in the same order and once: the buffer
\* implements a FIFO of End - 1 bytes, across every wrap of head and tail.
THEOREM Refinement == Spec => FifoSpec
<1>1. Init => Fifo!Init
  <2>1. SUFFICES ASSUME Init PROVE Fifo!Init
    OBVIOUS
  <2>2. CopiesInBounds
    BY <2>1, BufferAssumption, EmptySeq DEF Init, CopiesInBounds, TypeOK, Index
  <2>3. Contents \in Seq(Byte) /\ Len(Contents) = Count /\ Count = 0
    BY <2>1, <2>2, ContentsFacts DEF Init, Count, CopiesInBounds
  <2>4. Contents = <<>>
    BY <2>3, EmptySeq
  <2> QED
    BY <2>1, <2>4 DEF Init, Fifo!Init
<1>2. ASSUME CopiesInBounds, CopiesInBounds', [Next]_vars PROVE [Fifo!Next]_Fifo!vars
  <2>1. TypeOK /\ TypeOK' /\ MaxLen \in Nat
    <3>1. TypeOK
      BY <1>2 DEF CopiesInBounds
    <3>2. TypeOK'
      BY <1>2 DEF CopiesInBounds
    <3> QED
      BY <3>1, <3>2, BufferAssumption
  <2>2. ASSUME NEW n \in 0..MaxLen, NEW data \in [1..n -> Byte], Add(data) PROVE Fifo!Next
    <3>1. Fifo!Add(data)
      BY <2>1, <2>2, AddRefines
    <3> QED
      BY <3>1 DEF Fifo!Next
  <2>3. ASSUME NEW n \in 0..MaxLen, Pop(n) PROVE Fifo!Next
    <3>1. Fifo!Pop(n)
      BY <2>1, <2>3, PopRefines
    <3> QED
      BY <3>1 DEF Fifo!Next
  <2>4. CASE UNCHANGED vars
    BY <2>4 DEF vars, Fifo!vars, Contents, Count
  <2> QED
    BY <1>2, <2>2, <2>3, <2>4 DEF Next
<1> QED
  BY <1>1, <1>2, InBounds, PTL DEF Spec, FifoSpec, Fifo!Spec
=============================================================================
