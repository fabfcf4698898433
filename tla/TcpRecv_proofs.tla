--------------------------- MODULE TcpRecv_proofs ---------------------------
(***************************************************************************)
(* Proofs about receiving on a socket, for all sizes of operations that a  *)
(* uint16_t holds, all shapes of pbuf chains and all capacities: the byte  *)
(* stream reaches the blocks complete and in order, the receive window is  *)
(* balanced, operations wait only while recv_buffer is empty, and what is  *)
(* reported is filled.                                                     *)
(***************************************************************************)
EXTENDS TcpRecv, SequenceTheorems, FiniteSetTheorems, WellFoundedInduction, TLAPS

\* Lengths of recv operations that recv.c does not cut.
SizesFit == Sizes \subseteq 1..(LenMod - 1)

\* The bytes of the pieces ss are consecutive and follow byte number base.
Consecutive(ss, base) ==
  \A i \in 1..Len(ss) : \A k \in 1..Len(ss[i]) : ss[i][k] = base + Lengths(ss)[i - 1] + k

\* Shape of the variables.
Entry  == [op : Nat \ {0}, size : Nat, off : Nat]
Result == [op : Nat \ {0}, ok : BOOLEAN]
Local  == [avail : 0..(LenMod - 1), ack : Nat, empty : BOOLEAN, pbuf : Nat \ {0}, off : Nat,
           need : 0..(LenMod - 1), full : BOOLEAN]
LwipShape ==
  /\ sent \in 0..MaxBytes /\ lost \in 0..sent /\ acked \in Nat
  /\ registered \in BOOLEAN /\ arg \in BOOLEAN
  /\ chain \in Seq(Seq(Nat) \ {<<>>}) /\ TotLen(chain) < LenMod /\ unread \in Nat
SockShape ==
  /\ buffer \in Seq(Nat) /\ Len(buffer) <= BufCap
  /\ recvQueue \in Seq(Entry) /\ Len(recvQueue) <= RecvQueueCap
  /\ size \in Seq(Sizes) /\ Len(size) <= MaxOps
  /\ block \in Seq(Seq(Nat)) /\ Len(block) = Len(size)
  /\ reported \in Seq(Result)
CbShape ==
  /\ pc \in {"idle", "enter", "match", "copy", "store", "leave"}
  /\ cb \in Local

\* Waiting operations are in order, know how much of their block is filled,
\* and nothing is in the blocks of the operations behind the oldest of them.
QueueInv ==
  /\ \A i \in 1..Len(recvQueue) :
       LET e == recvQueue[i] IN e.op <= Len(size) /\ e.off = Len(block[e.op]) /\ e.off + e.size = size[e.op]
  /\ \A i, j \in 1..Len(recvQueue) : i < j => recvQueue[i].op < recvQueue[j].op
  /\ recvQueue # <<>> => \A k \in 1..Len(block) : k > recvQueue[1].op => block[k] = <<>>
  /\ recvQueue # <<>> => buffer = <<>>

\* Reported operations are filled, in order, and older than those that wait.
ReportInv ==
  \A i \in 1..Len(reported) :
    /\ reported[i].op <= Len(size)
    /\ reported[i].ok =>
         /\ Len(block[reported[i].op]) = size[reported[i].op]
         /\ \A j \in 1..(i - 1) : reported[j].ok => reported[j].op < reported[i].op
         /\ \A q \in 1..Len(recvQueue) : reported[i].op < recvQueue[q].op

\* Bytes of the chain that are still to be taken out of it.
Remaining == IF pc \in {"idle", "enter"} THEN TotLen(chain) - unread ELSE cb.avail

\* Blocks, recv_buffer and the chain hold consecutive bytes of the stream.
BytesInv ==
  /\ Consecutive(block, lost)
  /\ \A k \in 1..Len(buffer) : buffer[k] = lost + TotLen(block) + k
  /\ Consecutive(chain, sent - TotLen(chain))

\* Together with what remains of the chain they are all of it, and what has been
\* taken out of the chain is or will be acknowledged.
CountInv ==
  /\ lost + TotLen(block) + Len(buffer) + Remaining = sent
  /\ acked + cb.ack + Remaining = sent

\* What is known of the chain between two calls and of a socket without callback.
ChainInv ==
  /\ pc \in {"idle", "enter"} => cb = NoCall
  /\ chain = <<>> => pc = "idle" /\ unread = 0
  /\ chain # <<>> => unread < TotLen(chain)
  /\ ~registered => /\ lost = sent /\ chain = <<>> /\ size = <<>>
                    /\ buffer = <<>> /\ recvQueue = <<>>

\* At offset o of pbuf p, a bytes of the chain lie ahead.
At(p, o, a) ==
  /\ p \in 1..(Len(chain) + 1) /\ o \in Nat
  /\ IF p <= Len(chain) THEN o < Len(chain[p]) ELSE o = 0
  /\ Lengths(chain)[p - 1] + o + a = TotLen(chain)

\* Where tcp_recv_callback is in the chain, and what it works for.
PosInv ==
  /\ pc \in {"match", "copy", "store"} => At(cb.pbuf, cb.off, cb.avail)
  /\ pc = "leave" => cb.avail <= TotLen(chain)
  /\ pc = "copy" => /\ recvQueue # <<>> /\ cb.need = recvQueue[1].size
                    /\ cb.full <=> cb.need <= cb.avail
  /\ pc = "store" /\ recvQueue # <<>> => cb.avail = 0

\* The inductive invariant.
Shape == LwipShape /\ SockShape /\ CbShape
IInv  == Shape /\ QueueInv /\ ReportInv /\ BytesInv /\ CountInv /\ ChainInv /\ PosInv
-----------------------------------------------------------------------------

(***************************************************************************)
(* Sums of lengths, and pieces put together.                               *)
(***************************************************************************)

\* What the assumption says about the constants.
LEMMA ConstantFacts ==
  /\ BufCap \in Nat /\ RecvQueueCap \in Nat /\ LenMod \in Nat /\ LenMod >= 1
  /\ MaxOps \in Nat /\ MaxBytes \in Nat
  /\ \A n \in Sizes : n \in Nat /\ n >= 1
  /\ \A c \in Chains : c \in Seq(Nat \ {0}) /\ c # <<>> /\ Ends(c)[Len(c)] < LenMod
BY RecvAssumption

\* Every nonempty set of natural numbers has a least element.  Induction over
\* the pieces of a sequence is done with this fact.
LEMMA LeastNat ==
  ASSUME NEW T, T \subseteq Nat, T # {}
  PROVE  \E x \in T : \A y \in T : x <= y
<1> DEFINE R == {ss \in Nat \X Nat : ss[1] < ss[2]}
<1>1. IsWellFoundedOn(R, Nat)
  BY NatLessThanWellFounded DEF OpToRel
<1> HIDE DEF R
<1>2. PICK x \in T : \A y \in T : ~(<<y, x>> \in R)
  BY <1>1, WFMin
<1>3. ASSUME NEW y \in T PROVE x <= y
  <2>1. y \in Nat /\ x \in Nat /\ <<y, x>> \in Nat \X Nat
    OBVIOUS
  <2>2. ~(y < x)
    BY <1>2, <2>1 DEF R
  <2> QED
    BY <2>1, <2>2
<1> QED
  BY <1>3

\* g holds the sums of the first lengths, up to m of them.
SumsTo(g, lens, m) ==
  g \in [0..m -> Nat] /\ g[0] = 0 /\ \A i \in 1..m : g[i] = g[i - 1] + lens[i]

\* There are such sums.
LEMMA SumsExist ==
  ASSUME NEW lens \in Seq(Nat)
  PROVE  \E g : SumsTo(g, lens, Len(lens))
<1>1. Len(lens) \in Nat /\ \A i \in 1..Len(lens) : lens[i] \in Nat
  BY ElementOfSeq, LenProperties
<1> DEFINE T == {m \in 0..Len(lens) : ~\E g : SumsTo(g, lens, m)}
<1>2. SUFFICES T = {}
  BY <1>1
<1>3. SUFFICES ASSUME T # {} PROVE FALSE
  OBVIOUS
<1>4. PICK m \in T : \A y \in T : m <= y
  <2>1. T \subseteq Nat
    OBVIOUS
  <2> HIDE DEF T
  <2> QED
    BY <1>3, <2>1, LeastNat
<1>5. m \in 0..Len(lens) /\ m \in Nat /\ ~\E g : SumsTo(g, lens, m)
  BY <1>1
<1>6. m # 0
  <2>1. SumsTo([i \in 0..0 |-> 0], lens, 0)
    BY DEF SumsTo
  <2> QED
    BY <1>5, <2>1
<1>7. m - 1 \in 0..Len(lens) /\ m - 1 \notin T
  BY <1>1, <1>4, <1>5, <1>6
<1>8. PICK g : SumsTo(g, lens, m - 1)
  BY <1>7
<1>9. PICK h : h = [i \in 0..m |-> IF i = m THEN g[m - 1] + lens[m] ELSE g[i]]
  OBVIOUS
<1>10. SumsTo(h, lens, m)
  <2>1. g \in [0..(m - 1) -> Nat] /\ g[0] = 0 /\ \A i \in 1..(m - 1) : g[i] = g[i - 1] + lens[i]
    BY <1>8 DEF SumsTo
  <2>2. m \in 1..Len(lens) /\ lens[m] \in Nat /\ m - 1 \in 0..(m - 1)
    BY <1>1, <1>5, <1>6
  <2>3. h \in [0..m -> Nat] /\ h[0] = 0
    BY <1>5, <1>6, <1>9, <2>1, <2>2
  <2>4. ASSUME NEW i \in 1..m PROVE h[i] = h[i - 1] + lens[i]
    <3>1. i - 1 \in 0..m /\ i - 1 # m /\ h[i - 1] = g[i - 1]
      BY <1>5, <1>9
    <3>2. CASE i = m
      BY <1>5, <1>9, <3>1, <3>2
    <3>3. CASE i # m
      BY <1>5, <1>9, <2>1, <3>1, <3>3
    <3> QED
      BY <3>2, <3>3
  <2> QED
    BY <2>3, <2>4 DEF SumsTo
<1> QED
  BY <1>5, <1>10

\* There is only one.
LEMMA SumsUnique ==
  ASSUME NEW lens, NEW m \in Nat, NEW f, NEW g, SumsTo(f, lens, m), SumsTo(g, lens, m)
  PROVE  f = g
<1> DEFINE T == {i \in 0..m : f[i] # g[i]}
<1>1. /\ f \in [0..m -> Nat] /\ f[0] = 0 /\ \A i \in 1..m : f[i] = f[i - 1] + lens[i]
      /\ g \in [0..m -> Nat] /\ g[0] = 0 /\ \A i \in 1..m : g[i] = g[i - 1] + lens[i]
  BY DEF SumsTo
<1>6. SUFFICES \A i \in 0..m : f[i] = g[i]
  <2>1. f = [i \in 0..m |-> f[i]] /\ g = [i \in 0..m |-> g[i]]
    BY <1>1
  <2> QED
    BY <2>1
<1>2. SUFFICES ASSUME T # {} PROVE FALSE
  OBVIOUS
<1>3. PICK i \in T : \A y \in T : i <= y
  <2>1. T \subseteq Nat
    OBVIOUS
  <2> HIDE DEF T
  <2> QED
    BY <1>2, <2>1, LeastNat
<1>4. i \in 0..m /\ f[i] # g[i] /\ i # 0
  BY <1>1
<1>5. i \in 1..m /\ i - 1 \in 0..m /\ i - 1 \notin T
  BY <1>3, <1>4
<1> QED
  BY <1>1, <1>4, <1>5

\* Ends(lens) is that one.
LEMMA EndsIs ==
  ASSUME NEW lens \in Seq(Nat)
  PROVE  SumsTo(Ends(lens), lens, Len(lens))
<1> DEFINE f[i \in 0..Len(lens)] == IF i = 0 THEN 0 ELSE f[i - 1] + lens[i]
<1>1. Len(lens) \in Nat
  BY LenProperties
<1>2. PICK g : SumsTo(g, lens, Len(lens))
  BY SumsExist
<1>3. g = [i \in 0..Len(lens) |-> IF i = 0 THEN 0 ELSE g[i - 1] + lens[i]]
  BY <1>1, <1>2 DEF SumsTo
<1>4. f = [i \in 0..Len(lens) |-> IF i = 0 THEN 0 ELSE f[i - 1] + lens[i]]
  BY <1>3
<1>5. Ends(lens) = f
  BY DEF Ends
<1> HIDE DEF f
<1>6. \A i \in 0..Len(lens) : f[i] = g[i]
  <2> DEFINE T == {i \in 0..Len(lens) : f[i] # g[i]}
  <2>1. SUFFICES ASSUME T # {} PROVE FALSE
    OBVIOUS
  <2>2. PICK i \in T : \A y \in T : i <= y
    <3>1. T \subseteq Nat
      BY <1>1
    <3> HIDE DEF T
    <3> QED
      BY <2>1, <3>1, LeastNat
  <2>3. i \in 0..Len(lens) /\ f[i] # g[i] /\ i # 0
    BY <1>3, <1>4
  <2>4. i - 1 \in 0..Len(lens) /\ i - 1 \notin T
    BY <1>1, <2>2, <2>3
  <2>5. f[i - 1] = g[i - 1]
    BY <2>4
  <2> QED
    BY <1>3, <1>4, <2>3, <2>5
<1>7. f = g
  BY <1>3, <1>4, <1>6
<1> QED
  BY <1>2, <1>5, <1>7

\* The sums grow.
LEMMA SumsGrow ==
  ASSUME NEW lens, NEW m \in Nat, NEW g, SumsTo(g, lens, m),
         \A i \in 1..m : lens[i] \in Nat, NEW i \in 0..m, NEW j \in 0..m, i <= j
  PROVE  g[i] <= g[j]
<1> DEFINE T == {k \in 0..m : i <= k /\ ~(g[i] <= g[k])}
<1>1. g \in [0..m -> Nat] /\ \A k \in 1..m : g[k] = g[k - 1] + lens[k]
  BY DEF SumsTo
<1>2. SUFFICES ASSUME T # {} PROVE FALSE
  OBVIOUS
<1>3. PICK k \in T : \A y \in T : k <= y
  <2>1. T \subseteq Nat
    OBVIOUS
  <2> HIDE DEF T
  <2> QED
    BY <1>2, <2>1, LeastNat
<1>4. k \in 0..m /\ i <= k /\ ~(g[i] <= g[k])
  OBVIOUS
<1>5. k # i
  BY <1>1, <1>4
<1>6. k \in 1..m /\ k - 1 \in 0..m /\ i <= k - 1 /\ k - 1 \notin T
  BY <1>3, <1>4, <1>5
<1>7. g[i] <= g[k - 1]
  BY <1>6
<1>8. g[i] \in Nat /\ g[k - 1] \in Nat /\ lens[k] \in Nat /\ g[k] = g[k - 1] + lens[k]
  BY <1>1, <1>6
<1> QED
  BY <1>4, <1>7, <1>8

\* Lengths of the pieces of ss.
LensOf(ss) == [i \in 1..Len(ss) |-> Len(ss[i])]

\* The sums of the lengths of pieces.
LEMMA LengthsIs ==
  ASSUME NEW S, NEW ss \in Seq(Seq(S))
  PROVE  /\ LensOf(ss) \in Seq(Nat) /\ Len(LensOf(ss)) = Len(ss) /\ Len(ss) \in Nat
         /\ \A i \in 1..Len(ss) : ss[i] \in Seq(S) /\ Len(ss[i]) \in Nat /\ LensOf(ss)[i] = Len(ss[i])
         /\ SumsTo(Lengths(ss), LensOf(ss), Len(ss))
         /\ \A i \in 0..Len(ss) : Lengths(ss)[i] \in Nat
         /\ Lengths(ss)[0] = 0 /\ TotLen(ss) = Lengths(ss)[Len(ss)] /\ TotLen(ss) \in Nat
         /\ \A i \in 1..Len(ss) : Lengths(ss)[i] = Lengths(ss)[i - 1] + Len(ss[i])
<1>1. Len(ss) \in Nat /\ \A i \in 1..Len(ss) : ss[i] \in Seq(S)
  BY ElementOfSeq, LenProperties
<1>2. \A i \in 1..Len(ss) : Len(ss[i]) \in Nat
  BY <1>1, LenProperties
<1>3. LensOf(ss) \in [1..Len(ss) -> Nat] /\ \A i \in 1..Len(ss) : LensOf(ss)[i] = Len(ss[i])
  BY <1>2 DEF LensOf
<1>4. LensOf(ss) \in Seq(Nat) /\ Len(LensOf(ss)) = Len(ss)
  <2>1. PICK n \in Nat : n = Len(ss)
    BY <1>1
  <2>2. PICK f : f = LensOf(ss)
    OBVIOUS
  <2>3. f \in [1..n -> Nat]
    BY <1>3, <2>1, <2>2
  <2>4. f \in Seq(Nat) /\ Len(f) = n
    BY <2>3
  <2> QED
    BY <2>1, <2>2, <2>4
<1>5. Lengths(ss) = Ends(LensOf(ss))
  BY DEF Lengths, LensOf
<1>6. SumsTo(Lengths(ss), LensOf(ss), Len(ss))
  BY <1>4, <1>5, EndsIs
<1>7. /\ Lengths(ss) \in [0..Len(ss) -> Nat] /\ Lengths(ss)[0] = 0
      /\ \A i \in 1..Len(ss) : Lengths(ss)[i] = Lengths(ss)[i - 1] + LensOf(ss)[i]
  BY <1>6 DEF SumsTo
<1>8. TotLen(ss) = Lengths(ss)[Len(ss)] /\ TotLen(ss) \in Nat
  BY <1>1, <1>7 DEF TotLen
<1> QED
  BY <1>1, <1>2, <1>3, <1>4, <1>6, <1>7, <1>8

\* Sums with the right steps are the sums.
LEMMA LengthsUnique ==
  ASSUME NEW S, NEW ss \in Seq(Seq(S)), NEW g \in [0..Len(ss) -> Nat], g[0] = 0,
         \A i \in 1..Len(ss) : g[i] = g[i - 1] + Len(ss[i])
  PROVE  Lengths(ss) = g
<1>1. /\ Len(ss) \in Nat /\ SumsTo(Lengths(ss), LensOf(ss), Len(ss))
      /\ \A i \in 1..Len(ss) : LensOf(ss)[i] = Len(ss[i])
  BY LengthsIs
<1>2. SumsTo(g, LensOf(ss), Len(ss))
  BY <1>1 DEF SumsTo
<1> QED
  BY <1>1, <1>2, SumsUnique

\* An empty chain.
LEMMA LengthsEmpty == TotLen(<<>>) = 0
<1>1. <<>> \in Seq(Seq(Nat)) /\ Len(<<>>) = 0
  BY EmptySeq
<1>2. Lengths(<<>>)[0] = 0 /\ TotLen(<<>>) = Lengths(<<>>)[Len(<<>>)]
  BY <1>1, LengthsIs
<1> QED
  BY <1>1, <1>2

\* The sums do not fall.
LEMMA LengthsGrow ==
  ASSUME NEW S, NEW ss \in Seq(Seq(S)), NEW i \in 0..Len(ss), NEW j \in 0..Len(ss), i <= j
  PROVE  Lengths(ss)[i] <= Lengths(ss)[j]
<1>1. /\ Len(ss) \in Nat /\ SumsTo(Lengths(ss), LensOf(ss), Len(ss))
      /\ \A k \in 1..Len(ss) : LensOf(ss)[k] = Len(ss[k]) /\ Len(ss[k]) \in Nat
  BY LengthsIs
<1>2. \A k \in 1..Len(ss) : LensOf(ss)[k] \in Nat
  BY <1>1
<1> QED
  BY <1>1, <1>2, SumsGrow

\* One more piece.
LEMMA LengthsAppend ==
  ASSUME NEW S, NEW ss \in Seq(Seq(S)), NEW x \in Seq(S)
  PROVE  /\ Append(ss, x) \in Seq(Seq(S)) /\ Len(Append(ss, x)) = Len(ss) + 1
         /\ \A i \in 1..Len(ss) : Append(ss, x)[i] = ss[i]
         /\ Append(ss, x)[Len(ss) + 1] = x
         /\ \A i \in 0..Len(ss) : Lengths(Append(ss, x))[i] = Lengths(ss)[i]
         /\ TotLen(Append(ss, x)) = TotLen(ss) + Len(x)
<1>1. PICK tt : tt = Append(ss, x)
  OBVIOUS
<1>2. /\ tt \in Seq(Seq(S)) /\ Len(tt) = Len(ss) + 1 /\ Len(ss) \in Nat
      /\ \A i \in 1..Len(ss) : tt[i] = ss[i]
      /\ tt[Len(ss) + 1] = x
  BY <1>1, AppendProperties, LenProperties
<1>3. /\ \A i \in 0..Len(ss) : Lengths(ss)[i] \in Nat
      /\ Lengths(ss)[0] = 0 /\ TotLen(ss) = Lengths(ss)[Len(ss)]
      /\ \A i \in 1..Len(ss) : Lengths(ss)[i] = Lengths(ss)[i - 1] + Len(ss[i])
  BY LengthsIs
<1>4. Len(x) \in Nat
  BY LenProperties
<1>5. PICK n \in Nat : n = Len(ss)
  BY <1>2
<1>6. PICK L : L = Lengths(ss)
  OBVIOUS
<1>7. PICK g : g = [i \in 0..(n + 1) |-> IF i <= n THEN L[i] ELSE L[n] + Len(x)]
  OBVIOUS
<1>8. \A i \in 0..n : L[i] \in Nat
  BY <1>3, <1>5, <1>6
<1>9. g \in [0..(n + 1) -> Nat] /\ g[0] = 0 /\ g[n + 1] = L[n] + Len(x) /\ \A i \in 0..n : g[i] = L[i]
  <2>1. n \in 0..n /\ 0 <= n /\ ~(n + 1 <= n) /\ n + 1 \in 0..(n + 1)
    OBVIOUS
  <2>2. ASSUME NEW i \in 0..(n + 1) PROVE (IF i <= n THEN L[i] ELSE L[n] + Len(x)) \in Nat
    BY <1>4, <1>8, <2>1
  <2>3. L[0] = 0
    BY <1>3, <1>6
  <2> QED
    BY <1>7, <2>1, <2>2, <2>3
<1>10. ASSUME NEW i \in 1..(n + 1) PROVE g[i] = g[i - 1] + Len(tt[i])
  <2>1. CASE i = n + 1
    <3>1. i - 1 = n /\ n \in 0..n
      BY <2>1
    <3> QED
      BY <1>2, <1>5, <1>9, <2>1, <3>1
  <2>2. CASE i # n + 1
    <3>1. i \in 1..n /\ i \in 0..n /\ i - 1 \in 0..n
      BY <2>2
    <3> QED
      BY <1>2, <1>3, <1>5, <1>6, <1>9, <3>1
  <2> QED
    BY <2>1, <2>2
<1>11. Lengths(tt) = g
  BY <1>2, <1>5, <1>9, <1>10, LengthsUnique
<1>12. TotLen(tt) = Lengths(tt)[Len(tt)]
  BY <1>2, LengthsIs
<1> QED
  BY <1>1, <1>2, <1>3, <1>5, <1>6, <1>9, <1>11, <1>12

\* tt is ss with x added to its piece p.
Longer(tt, ss, p, x) ==
  /\ p \in 1..Len(ss) /\ Len(tt) = Len(ss) /\ tt[p] = ss[p] \o x
  /\ \A i \in 1..Len(ss) : i # p => tt[i] = ss[i]

\* More in one piece.
LEMMA LengthsMore ==
  ASSUME NEW S, NEW ss \in Seq(Seq(S)), NEW tt \in Seq(Seq(S)), NEW p, NEW x \in Seq(S),
         Longer(tt, ss, p, x)
  PROVE  /\ \A i \in 0..(p - 1) : Lengths(tt)[i] = Lengths(ss)[i]
         /\ TotLen(tt) = TotLen(ss) + Len(x)
<1>2. PICK n \in Nat : n = Len(ss)
  BY LenProperties
<1>3. /\ tt \in Seq(Seq(S)) /\ Len(tt) = n /\ p \in 1..n /\ p \in Nat
      /\ tt[p] = ss[p] \o x /\ \A i \in 1..n : i # p => tt[i] = ss[i]
  BY <1>2 DEF Longer
<1>4. PICK L : L = Lengths(ss)
  OBVIOUS
<1>5. /\ \A i \in 0..n : L[i] \in Nat
      /\ L[0] = 0 /\ TotLen(ss) = L[n]
      /\ \A i \in 1..n : L[i] = L[i - 1] + Len(ss[i]) /\ Len(ss[i]) \in Nat /\ ss[i] \in Seq(S)
  BY <1>2, <1>4, LengthsIs
<1>6. Len(x) \in Nat /\ Len(tt[p]) = Len(ss[p]) + Len(x)
  BY <1>3, <1>5, ConcatProperties, LenProperties
<1>7. PICK g : g = [i \in 0..n |-> IF i < p THEN L[i] ELSE L[i] + Len(x)]
  OBVIOUS
<1>8. /\ g \in [0..n -> Nat] /\ g[0] = 0
      /\ \A i \in 0..n : g[i] = IF i < p THEN L[i] ELSE L[i] + Len(x)
  <2>1. ASSUME NEW i \in 0..n PROVE (IF i < p THEN L[i] ELSE L[i] + Len(x)) \in Nat
    <3>1. L[i] \in Nat
      BY <1>5
    <3>2. Len(x) \in Nat
      BY <1>6
    <3> QED
      BY <3>1, <3>2
  <2>2. \A i \in 0..n : g[i] = IF i < p THEN L[i] ELSE L[i] + Len(x)
    BY <1>7
  <2>3. 0 \in 0..n /\ 0 < p
    BY <1>3
  <2> QED
    BY <1>5, <1>7, <2>1, <2>2, <2>3
<1>9. ASSUME NEW i \in 1..n PROVE g[i] = g[i - 1] + Len(tt[i])
  <2>1. i \in 0..n /\ i - 1 \in 0..n /\ L[i] = L[i - 1] + Len(ss[i]) /\ L[i - 1] \in Nat /\ Len(ss[i]) \in Nat
    BY <1>5
  <2>2. CASE i < p
    <3>1. i - 1 < p /\ tt[i] = ss[i]
      BY <1>3, <2>2
    <3> QED
      BY <1>8, <2>1, <2>2, <3>1
  <2>3. CASE i = p
    <3>1. i - 1 < p /\ ~(i < p) /\ Len(tt[i]) = Len(ss[i]) + Len(x)
      BY <1>3, <1>6, <2>3
    <3>2. g[i] = L[i] + Len(x) /\ g[i - 1] = L[i - 1]
      BY <1>8, <2>1, <3>1
    <3> QED
      BY <1>6, <2>1, <3>1, <3>2
  <2>4. CASE i > p
    <3>1. ~(i - 1 < p) /\ ~(i < p) /\ tt[i] = ss[i]
      BY <1>3, <2>4
    <3>2. g[i] = L[i] + Len(x) /\ g[i - 1] = L[i - 1] + Len(x)
      BY <1>8, <2>1, <3>1
    <3> QED
      BY <1>6, <2>1, <3>1, <3>2
  <2> QED
    BY <1>3, <2>2, <2>3, <2>4
<1>10. Lengths(tt) = g /\ TotLen(tt) = Lengths(tt)[n]
  <2>1. Lengths(tt) = g
    BY <1>3, <1>8, <1>9, LengthsUnique
  <2>2. TotLen(tt) = Lengths(tt)[n]
    BY <1>3, LengthsIs
  <2> QED
    BY <2>1, <2>2
<1>11. \A i \in 0..(p - 1) : Lengths(tt)[i] = L[i]
  BY <1>3, <1>8, <1>10
<1>12. TotLen(tt) = TotLen(ss) + Len(x)
  BY <1>3, <1>5, <1>8, <1>10
<1> QED
  BY <1>2, <1>3, <1>4, <1>11, <1>12

\* Two pieces that follow one another.
LEMMA ConcatTwo ==
  ASSUME NEW a \in Nat, NEW x \in Seq(Nat), NEW base,
         \A k \in 1..Len(x) : x[k] = base + a + k,
         base \in Int
  PROVE  [k \in 1..a |-> base + k] \o x = [k \in 1..(a + Len(x)) |-> base + k]
<1>1. PICK f : f = [k \in 1..a |-> base + k]
  OBVIOUS
<1>2. f \in Seq(Int) /\ Len(f) = a /\ \A k \in 1..a : f[k] = base + k
  BY <1>1
<1>3. x \in Seq(Int) /\ Len(x) \in Nat
  BY LenProperties, SeqDef
<1>4. /\ f \o x \in Seq(Int) /\ Len(f \o x) = a + Len(x)
      /\ \A i \in 1..(a + Len(x)) : (f \o x)[i] = IF i <= a THEN f[i] ELSE x[i - a]
  <2>1. f \o x \in Seq(Int) /\ Len(f \o x) = Len(f) + Len(x)
    BY <1>2, <1>3, ConcatProperties
  <2>2. \A i \in 1..(Len(f) + Len(x)) : (f \o x)[i] = IF i <= Len(f) THEN f[i] ELSE x[i - Len(f)]
    BY <1>2, <1>3, ConcatProperties
  <2> QED
    BY <1>2, <2>1, <2>2
<1>5. PICK h : h = [k \in 1..(a + Len(x)) |-> base + k]
  OBVIOUS
<1>6. h \in Seq(Int) /\ Len(h) = a + Len(x) /\ \A k \in 1..(a + Len(x)) : h[k] = base + k
  <2>1. PICK m \in Nat : m = a + Len(x)
    BY <1>3
  <2> QED
    BY <1>5, <2>1
<1>7. ASSUME NEW i \in 1..(a + Len(x)) PROVE (f \o x)[i] = h[i]
  <2>1. CASE i <= a
    <3>1. i \in 1..a
      BY <2>1
    <3> QED
      BY <1>2, <1>4, <1>6, <2>1, <3>1
  <2>2. CASE i > a
    <3>1. PICK j \in 1..Len(x) : j = i - a /\ base + a + j = base + i
      BY <1>3, <2>2
    <3>2. ~(i <= a)
      BY <2>2
    <3> QED
      BY <1>4, <1>6, <3>1, <3>2
  <2>3. i <= a \/ i > a
    BY <1>3
  <2> QED
    BY <2>1, <2>2, <2>3
<1>8. f \o x = h
  BY <1>4, <1>6, <1>7, SeqEqual
<1> QED
  BY <1>1, <1>5, <1>8

\* Consecutive pieces make one consecutive whole.
LEMMA ConcatIs ==
  ASSUME NEW ss \in Seq(Seq(Nat)), NEW base \in Int, Consecutive(ss, base)
  PROVE  Concat(ss) = [k \in 1..TotLen(ss) |-> base + k]
<1> DEFINE f[i \in 0..Len(ss)] == IF i = 0 THEN <<>> ELSE f[i - 1] \o ss[i]
           g == [i \in 0..Len(ss) |-> [k \in 1..Lengths(ss)[i] |-> base + k]]
<1>1. /\ Len(ss) \in Nat /\ \A i \in 1..Len(ss) : ss[i] \in Seq(Nat)
      /\ \A i \in 0..Len(ss) : Lengths(ss)[i] \in Nat
      /\ Lengths(ss)[0] = 0 /\ TotLen(ss) = Lengths(ss)[Len(ss)]
      /\ \A i \in 1..Len(ss) : Lengths(ss)[i] = Lengths(ss)[i - 1] + Len(ss[i])
  BY LengthsIs
<1>2. g[0] = <<>>
  <2>1. g[0] = [k \in 1..0 |-> base + k]
    BY <1>1
  <2>2. [k \in 1..0 |-> base + k] = <<>>
    OBVIOUS
  <2> QED
    BY <2>1, <2>2
<1>3. ASSUME NEW i \in 1..Len(ss) PROVE g[i] = g[i - 1] \o ss[i]
  <2>1. i - 1 \in 0..Len(ss) /\ i \in 0..Len(ss)
    BY <1>1
  <2>2. PICK a \in Nat : a = Lengths(ss)[i - 1]
    BY <1>1, <2>1
  <2>3. \A k \in 1..Len(ss[i]) : ss[i][k] = base + a + k
    BY <2>2 DEF Consecutive
  <2>4. [k \in 1..a |-> base + k] \o ss[i] = [k \in 1..(a + Len(ss[i])) |-> base + k]
    <3>1. PICK x \in Seq(Nat) : x = ss[i]
      BY <1>1
    <3>2. \A k \in 1..Len(x) : x[k] = base + a + k
      BY <2>3, <3>1
    <3> HIDE DEF f, g
    <3>3. [k \in 1..a |-> base + k] \o x = [k \in 1..(a + Len(x)) |-> base + k]
      BY <3>2, ConcatTwo
    <3> QED
      BY <3>1, <3>3
  <2>5. Lengths(ss)[i] = a + Len(ss[i])
    BY <1>1, <2>2
  <2> QED
    BY <2>1, <2>2, <2>4, <2>5
<1>4. g = [i \in 0..Len(ss) |-> IF i = 0 THEN <<>> ELSE g[i - 1] \o ss[i]]
  <2>1. ASSUME NEW i \in 0..Len(ss) PROVE g[i] = IF i = 0 THEN <<>> ELSE g[i - 1] \o ss[i]
    <3>1. i # 0 => i \in 1..Len(ss)
      BY <1>1
    <3> QED
      BY <1>2, <1>3, <3>1
  <2>2. g = [i \in 0..Len(ss) |-> g[i]]
    OBVIOUS
  <2> HIDE DEF g
  <2> QED
    BY <2>1, <2>2
<1> HIDE DEF g
<1>5. f = [i \in 0..Len(ss) |-> IF i = 0 THEN <<>> ELSE f[i - 1] \o ss[i]]
  BY <1>4
<1>6. Concat(ss) = f[Len(ss)]
  BY DEF Concat
<1> HIDE DEF f
<1>7. \A i \in 0..Len(ss) : f[i] = g[i]
  <2> DEFINE T == {i \in 0..Len(ss) : f[i] # g[i]}
  <2>1. SUFFICES ASSUME T # {} PROVE FALSE
    OBVIOUS
  <2>2. PICK i \in T : \A y \in T : i <= y
    <3>1. T \subseteq Nat
      BY <1>1
    <3> HIDE DEF T
    <3> QED
      BY <2>1, <3>1, LeastNat
  <2>3. i \in 0..Len(ss) /\ f[i] # g[i]
    OBVIOUS
  <2>4. i # 0
    BY <1>4, <1>5, <2>3
  <2>5. i - 1 \in 0..Len(ss) /\ i - 1 \notin T
    BY <1>1, <2>2, <2>3, <2>4
  <2>6. f[i - 1] = g[i - 1]
    BY <2>5
  <2>7. f[i] = f[i - 1] \o ss[i] /\ g[i] = g[i - 1] \o ss[i]
    BY <1>4, <1>5, <2>3, <2>4
  <2> QED
    BY <2>3, <2>6, <2>7
<1>8. Len(ss) \in 0..Len(ss)
  BY <1>1
<1> QED
  BY <1>1, <1>6, <1>7, <1>8 DEF g

\* Empty pieces at the end do not count.
LEMMA LengthsFlat ==
  ASSUME NEW S, NEW ss \in Seq(Seq(S)), NEW p \in 0..Len(ss),
         \A i \in 1..Len(ss) : i > p => ss[i] = <<>>
  PROVE  Lengths(ss)[p] = TotLen(ss)
<1>1. /\ Len(ss) \in Nat /\ \A i \in 0..Len(ss) : Lengths(ss)[i] \in Nat
      /\ TotLen(ss) = Lengths(ss)[Len(ss)]
      /\ \A i \in 1..Len(ss) : Lengths(ss)[i] = Lengths(ss)[i - 1] + Len(ss[i])
  BY LengthsIs
<1> DEFINE T == {i \in 0..Len(ss) : i >= p /\ Lengths(ss)[i] # Lengths(ss)[p]}
<1>2. SUFFICES ASSUME T # {} PROVE FALSE
  BY <1>1
<1>3. PICK i \in T : \A y \in T : i <= y
  <2>1. T \subseteq Nat
    BY <1>1
  <2> HIDE DEF T
  <2> QED
    BY <1>2, <2>1, LeastNat
<1>4. i \in 0..Len(ss) /\ i >= p /\ Lengths(ss)[i] # Lengths(ss)[p]
  OBVIOUS
<1>5. i # p
  BY <1>4
<1>6. i \in 1..Len(ss) /\ i > p /\ i - 1 \in 0..Len(ss) /\ i - 1 >= p /\ i - 1 \notin T
  BY <1>1, <1>3, <1>4, <1>5
<1>7. Lengths(ss)[i - 1] = Lengths(ss)[p]
  BY <1>6
<1>8. ss[i] = <<>> /\ Len(<<>>) = 0
  BY <1>6
<1> QED
  BY <1>1, <1>4, <1>6, <1>7, <1>8

\* The next bytes as a new piece.
LEMMA ConsecutiveAppend ==
  ASSUME NEW ss \in Seq(Seq(Nat)), NEW base, Consecutive(ss, base), NEW x \in Seq(Nat),
         \A k \in 1..Len(x) : x[k] = base + TotLen(ss) + k
  PROVE  Consecutive(Append(ss, x), base)
<1>1. PICK tt : tt = Append(ss, x)
  OBVIOUS
<1>2. /\ Len(tt) = Len(ss) + 1
      /\ \A i \in 1..Len(ss) : tt[i] = ss[i]
      /\ tt[Len(ss) + 1] = x
      /\ \A i \in 0..Len(ss) : Lengths(tt)[i] = Lengths(ss)[i]
  BY <1>1, LengthsAppend
<1>3. Len(ss) \in Nat /\ TotLen(ss) = Lengths(ss)[Len(ss)]
  BY LengthsIs
<1>4. ASSUME NEW i \in 1..Len(tt) PROVE \A k \in 1..Len(tt[i]) : tt[i][k] = base + Lengths(tt)[i - 1] + k
  <2>1. CASE i = Len(ss) + 1
    <3>1. i - 1 = Len(ss) /\ Len(ss) \in 0..Len(ss)
      BY <1>3, <2>1
    <3>2. tt[i] = x /\ Lengths(tt)[i - 1] = TotLen(ss)
      BY <1>2, <1>3, <2>1, <3>1
    <3> QED
      BY <3>2
  <2>2. CASE i # Len(ss) + 1
    <3>1. i \in 1..Len(ss) /\ i - 1 \in 0..Len(ss)
      BY <1>2, <1>3, <2>2
    <3>2. tt[i] = ss[i] /\ Lengths(tt)[i - 1] = Lengths(ss)[i - 1]
      BY <1>2, <3>1
    <3> QED
      BY <3>1, <3>2 DEF Consecutive
  <2> QED
    BY <2>1, <2>2
<1> QED
  BY <1>1, <1>4 DEF Consecutive

\* The next bytes in the last piece that is not empty, or in one behind it.
LEMMA ConsecutiveMore ==
  ASSUME NEW ss \in Seq(Seq(Nat)), NEW tt \in Seq(Seq(Nat)), NEW base \in Int, Consecutive(ss, base),
         NEW p, NEW x \in Seq(Nat), Longer(tt, ss, p, x),
         \A i \in 1..Len(ss) : i > p => ss[i] = <<>>,
         \A k \in 1..Len(x) : x[k] = base + TotLen(ss) + k
  PROVE  Consecutive(tt, base)
<1>1. PICK y : y = tt[p]
  OBVIOUS
<1>2. /\ Len(tt) = Len(ss) /\ p \in 1..Len(ss)
      /\ tt[p] = y /\ y = ss[p] \o x /\ \A i \in 1..Len(ss) : i # p => tt[i] = ss[i]
      /\ \A i \in 0..(p - 1) : Lengths(tt)[i] = Lengths(ss)[i]
  <2>1. \A i \in 0..(p - 1) : Lengths(tt)[i] = Lengths(ss)[i]
    BY LengthsMore
  <2> QED
    BY <1>1, <2>1 DEF Longer
<1>3. /\ Len(ss) \in Nat /\ p \in Nat /\ p \in 0..Len(ss) /\ p - 1 \in 0..Len(ss) /\ p - 1 \in 0..(p - 1)
      /\ ss[p] \in Seq(Nat) /\ Len(ss[p]) \in Nat
      /\ Lengths(ss)[p] = Lengths(ss)[p - 1] + Len(ss[p]) /\ Lengths(ss)[p - 1] \in Nat
  <2>1. Len(ss) \in Nat
    BY LengthsIs
  <2>2. p \in Nat /\ p \in 0..Len(ss) /\ p - 1 \in 0..Len(ss) /\ p - 1 \in 0..(p - 1)
    BY <1>2, <2>1
  <2> QED
    BY <1>2, <2>1, <2>2, LengthsIs
<1>4. TotLen(ss) = Lengths(ss)[p - 1] + Len(ss[p])
  BY <1>3, LengthsFlat
<1>5. ASSUME NEW i \in 1..Len(tt) PROVE \A k \in 1..Len(tt[i]) : tt[i][k] = base + Lengths(tt)[i - 1] + k
  <2>1. CASE i = p
    <3>1. PICK a \in Nat : a = Lengths(ss)[p - 1]
      BY <1>3
    <3>2. PICK b \in Nat : b = Len(ss[p])
      BY <1>3
    <3>3. PICK z \in Seq(Nat) : z = ss[p]
      BY <1>3
    <3>4. Len(y) = b + Len(x) /\ Len(x) \in Nat
          /\ \A k \in 1..(b + Len(x)) : y[k] = IF k <= b THEN z[k] ELSE x[k - b]
      BY <1>2, <3>2, <3>3, ConcatProperties, LenProperties
    <3>5. \A k \in 1..b : z[k] = base + a + k
      BY <1>2, <1>3, <3>1, <3>2, <3>3 DEF Consecutive
    <3>6. TotLen(ss) = a + b
      BY <1>4, <3>1, <3>2
    <3>7. ASSUME NEW k \in 1..Len(y) PROVE y[k] = base + a + k
      <4>1. CASE k <= b
        <5>1. k \in 1..b /\ k \in 1..(b + Len(x))
          BY <3>4, <4>1
        <5> QED
          BY <3>4, <3>5, <4>1, <5>1
      <4>2. CASE k > b
        <5>0. PICK u \in Nat : u = Len(x) /\ k \in 1..(b + u)
          BY <3>4
        <5>1. PICK j \in 1..Len(x) : j = k - b /\ base + (a + b) + j = base + a + k
          <6>1. k - b \in 1..u
            BY <4>2, <5>0
          <6>2. PICK j \in 1..u : j = k - b
            BY <6>1
          <6>3. base + (a + b) + j = base + a + k
            BY <6>2, <5>0
          <6> QED
            BY <5>0, <6>2, <6>3
        <5>2. ~(k <= b) /\ k \in 1..(b + Len(x))
          BY <3>4, <4>2
        <5> QED
          BY <3>4, <3>6, <5>1, <5>2
      <4>3. k <= b \/ k > b
        BY <3>4
      <4> QED
        BY <4>1, <4>2, <4>3
    <3>8. tt[i] = y /\ Lengths(tt)[i - 1] = a
      BY <1>2, <1>3, <2>1, <3>1
    <3> QED
      BY <3>7, <3>8
  <2>2. CASE i < p
    <3>1. i \in 1..Len(ss) /\ i # p /\ i - 1 \in 0..(p - 1)
      BY <1>2, <1>3, <2>2
    <3>2. tt[i] = ss[i] /\ Lengths(tt)[i - 1] = Lengths(ss)[i - 1]
      BY <1>2, <3>1
    <3> QED
      BY <3>1, <3>2 DEF Consecutive
  <2>3. CASE i > p
    <3>1. i \in 1..Len(ss) /\ i # p
      BY <1>2, <1>3, <2>3
    <3>2. tt[i] = ss[i]
      BY <1>2, <3>1
    <3>3. ss[i] = <<>>
      BY <2>3, <3>1
    <3>4. Len(tt[i]) = 0 /\ 1..0 = {}
      BY <3>2, <3>3
    <3> QED
      BY <3>4
  <2>4. i = p \/ i < p \/ i > p
    BY <1>2, <1>3
  <2> QED
    BY <2>1, <2>2, <2>3, <2>4
<1> QED
  BY <1>5 DEF Consecutive

(***************************************************************************)
(* The first bytes of a sequence, the others, and chains of pbufs.         *)
(***************************************************************************)

\* The first n elements.
LEMMA TakeIs ==
  ASSUME NEW S, NEW s \in Seq(S), NEW n \in 0..Len(s)
  PROVE  /\ Take(s, n) \in Seq(S) /\ Len(Take(s, n)) = n
         /\ \A k \in 1..n : Take(s, n)[k] = s[k]
<1>1. Len(s) \in Nat /\ \A i \in 1..Len(s) : s[i] \in S
  BY ElementOfSeq, LenProperties
<1>2. n \in Nat /\ \A i \in 1..n : s[i] \in S
  BY <1>1
<1>3. /\ SubSeq(s, 1, n) \in Seq(S)
      /\ Len(SubSeq(s, 1, n)) = IF 1 <= n THEN n - 1 + 1 ELSE 0
      /\ \A i \in 1..(n - 1 + 1) : SubSeq(s, 1, n)[i] = s[1 + i - 1]
  BY <1>2, SubSeqProperties
<1> QED
  BY <1>2, <1>3 DEF Take

\* The others.
LEMMA DropIs ==
  ASSUME NEW S, NEW s \in Seq(S), NEW n \in 0..Len(s)
  PROVE  /\ Drop(s, n) \in Seq(S) /\ Len(Drop(s, n)) = Len(s) - n
         /\ \A k \in 1..(Len(s) - n) : Drop(s, n)[k] = s[n + k]
<1>1. PICK m \in Nat : m = Len(s)
  BY LenProperties
<1>2. \A i \in 1..m : s[i] \in S
  BY <1>1, ElementOfSeq
<1>3. n \in Nat /\ n <= m /\ n + 1 \in Int /\ m \in Int
  BY <1>1
<1>4. \A i \in (n + 1)..m : s[i] \in S
  BY <1>2, <1>3
<1>5. /\ SubSeq(s, n + 1, m) \in Seq(S)
      /\ Len(SubSeq(s, n + 1, m)) = IF n + 1 <= m THEN m - (n + 1) + 1 ELSE 0
      /\ \A i \in 1..(m - (n + 1) + 1) : SubSeq(s, n + 1, m)[i] = s[n + 1 + i - 1]
  <2>1. PICK l \in Int : l = n + 1
    BY <1>3
  <2>2. \A i \in l..m : s[i] \in S
    BY <1>4, <2>1
  <2>3. /\ SubSeq(s, l, m) \in Seq(S) /\ Len(SubSeq(s, l, m)) = IF l <= m THEN m - l + 1 ELSE 0
        /\ \A i \in 1..(m - l + 1) : SubSeq(s, l, m)[i] = s[l + i - 1]
    BY <1>3, <2>2, SubSeqProperties
  <2> QED
    BY <2>1, <2>3
<1>6. PICK t : t = SubSeq(s, n + 1, m)
  OBVIOUS
<1>7. Len(t) = m - n
  BY <1>3, <1>5, <1>6
<1>8. ASSUME NEW k \in 1..(m - n) PROVE t[k] = s[n + k]
  <2>1. k \in 1..(m - (n + 1) + 1) /\ n + 1 + k - 1 = n + k
    BY <1>3
  <2> QED
    BY <1>5, <1>6, <2>1
<1>9. Drop(s, n) = t
  BY <1>1, <1>6 DEF Drop
<1> QED
  BY <1>1, <1>5, <1>6, <1>7, <1>8, <1>9

\* Nothing taken, nothing dropped, and all of both.
LEMMA TakeNone ==
  ASSUME NEW S, NEW s \in Seq(S)
  PROVE  Take(s, 0) = <<>> /\ Drop(s, 0) = s /\ Take(s, Len(s)) = s /\ Drop(s, Len(s)) = <<>>
<1>1. Len(s) \in Nat /\ 0 \in 0..Len(s) /\ Len(s) \in 0..Len(s)
  BY LenProperties
<1>2. Take(s, 0) = <<>>
  <2>1. Take(s, 0) \in Seq(S) /\ Len(Take(s, 0)) = 0
    BY <1>1, TakeIs
  <2> QED
    BY <2>1, EmptySeq
<1>3. Drop(s, Len(s)) = <<>>
  <2>1. Drop(s, Len(s)) \in Seq(S) /\ Len(Drop(s, Len(s))) = 0
    BY <1>1, DropIs
  <2> QED
    BY <2>1, EmptySeq
<1>4. Drop(s, 0) = s
  <2>1. Drop(s, 0) \in Seq(S) /\ Len(Drop(s, 0)) = Len(s) /\ \A k \in 1..Len(s) : Drop(s, 0)[k] = s[k]
    BY <1>1, DropIs
  <2> QED
    BY <2>1, SeqEqual
<1>5. Take(s, Len(s)) = s
  <2>1. Take(s, Len(s)) \in Seq(S) /\ Len(Take(s, Len(s))) = Len(s)
        /\ \A k \in 1..Len(s) : Take(s, Len(s))[k] = s[k]
    BY <1>1, TakeIs
  <2> QED
    BY <2>1, SeqEqual
<1> QED
  BY <1>2, <1>3, <1>4, <1>5

\* Chains are pieces, none of them empty.
LEMMA ChainIs ==
  ASSUME NEW c \in Seq(Seq(Nat) \ {<<>>})
  PROVE  /\ c \in Seq(Seq(Nat))
         /\ \A i \in 1..Len(c) : c[i] \in Seq(Nat) /\ Len(c[i]) \in Nat \ {0}
         /\ c # <<>> => TotLen(c) >= 1
<1>1. c \in Seq(Seq(Nat))
  BY SeqDef
<1>2. \A i \in 1..Len(c) : c[i] \in Seq(Nat) /\ c[i] # <<>>
  BY ElementOfSeq
<1>3. \A i \in 1..Len(c) : Len(c[i]) \in Nat \ {0}
  BY <1>2, EmptySeq
<1>4. ASSUME c # <<>> PROVE TotLen(c) >= 1
  <2>1. Len(c) \in Nat \ {0}
    BY <1>1, <1>4, EmptySeq
  <2>2. Len(c) \in 1..Len(c) /\ Len(c) - 1 \in 0..Len(c)
    BY <2>1
  <2>3. TotLen(c) = Lengths(c)[Len(c)] /\ Lengths(c)[Len(c)] = Lengths(c)[Len(c) - 1] + Len(c[Len(c)])
        /\ Lengths(c)[Len(c) - 1] \in Nat
    BY <1>1, <2>2, LengthsIs
  <2> QED
    BY <1>3, <2>2, <2>3
<1> QED
  BY <1>1, <1>2, <1>3, <1>4

\* What tcp_recv_callback gets for new data: the next bytes of the stream.
LEMMA FreshIs ==
  ASSUME NEW c \in Seq(Nat \ {0}), c # <<>>, sent \in Nat
  PROVE  /\ Fresh(c) \in Seq(Seq(Nat) \ {<<>>}) /\ Fresh(c) # <<>>
         /\ TotLen(Fresh(c)) = Ends(c)[Len(c)] /\ TotLen(Fresh(c)) \in Nat
         /\ Consecutive(Fresh(c), sent)
<1>1. PICK n \in Nat \ {0} : n = Len(c)
  BY EmptySeq
<1>2. c \in Seq(Nat) /\ \A i \in 1..n : c[i] \in Nat \ {0}
  BY <1>1, ElementOfSeq, SeqDef
<1>3. PICK g : g = Ends(c)
  OBVIOUS
<1>4. g \in [0..n -> Nat] /\ g[0] = 0 /\ \A i \in 1..n : g[i] = g[i - 1] + c[i]
  BY <1>1, <1>2, <1>3, EndsIs DEF SumsTo
<1>5. PICK F : F = Fresh(c)
  OBVIOUS
<1>6. F = [i \in 1..n |-> [j \in 1..c[i] |-> sent + g[i - 1] + j]]
  BY <1>1, <1>3, <1>5 DEF Fresh
<1>7. ASSUME NEW i \in 1..n
      PROVE  /\ F[i] \in Seq(Nat) /\ F[i] # <<>> /\ Len(F[i]) = c[i]
             /\ \A k \in 1..c[i] : F[i][k] = sent + g[i - 1] + k
  <2>1. PICK m \in Nat \ {0} : m = c[i]
    BY <1>2
  <2>2. PICK a \in Nat : a = g[i - 1]
    <3>1. i - 1 \in 0..n
      OBVIOUS
    <3> QED
      BY <1>4, <3>1
  <2>3. PICK y : y = F[i]
    OBVIOUS
  <2>4. y = [j \in 1..m |-> sent + a + j]
    BY <1>6, <2>1, <2>2, <2>3
  <2>5. y \in Seq(Nat) /\ Len(y) = m /\ \A k \in 1..m : y[k] = sent + a + k
    <3>1. \A j \in 1..m : sent + a + j \in Nat
      OBVIOUS
    <3> QED
      BY <2>4, <3>1
  <2>6. y # <<>>
    BY <2>5
  <2> QED
    BY <2>1, <2>2, <2>3, <2>5, <2>6
<1>8. F \in Seq(Seq(Nat) \ {<<>>}) /\ Len(F) = n
  <2>1. F \in [1..n -> Seq(Nat) \ {<<>>}]
    BY <1>6, <1>7
  <2> QED
    BY <2>1
<1>9. F # <<>>
  BY <1>8
<1>10. Lengths(F) = g
  <2>1. F \in Seq(Seq(Nat))
    BY <1>8, ChainIs
  <2>2. \A i \in 1..n : g[i] = g[i - 1] + Len(F[i])
    BY <1>4, <1>7
  <2> QED
    BY <1>4, <1>8, <2>1, <2>2, LengthsUnique
<1>11. TotLen(F) = g[n] /\ g[n] \in Nat
  BY <1>4, <1>8, <1>10 DEF TotLen
<1>12. Consecutive(F, sent)
  BY <1>7, <1>8, <1>10 DEF Consecutive
<1> QED
  BY <1>1, <1>3, <1>5, <1>8, <1>9, <1>11, <1>12

\* pbuf_skip finds the first unread byte.
LEMMA SkipFinds ==
  ASSUME chain \in Seq(Seq(Nat)), unread \in Nat, unread < TotLen(chain)
  PROVE  /\ Skip.pbuf \in 1..Len(chain) /\ Skip.off \in Nat
         /\ Skip.off < Len(chain[Skip.pbuf])
         /\ Lengths(chain)[Skip.pbuf - 1] + Skip.off = unread
<1>1. PICK n \in Nat : n = Len(chain)
  BY LenProperties
<1>2. PICK L : L = Lengths(chain)
  OBVIOUS
<1>3. /\ \A i \in 0..n : L[i] \in Nat
      /\ L[0] = 0 /\ TotLen(chain) = L[n]
      /\ \A i \in 1..n : L[i] = L[i - 1] + Len(chain[i]) /\ Len(chain[i]) \in Nat
  BY <1>1, <1>2, LengthsIs
<1>4. \A i, j \in 0..n : i <= j => L[i] <= L[j]
  BY <1>1, <1>2, LengthsGrow
<1> DEFINE T == {i \in 0..n : L[i] > unread}
<1>5. n \in T
  BY <1>3
<1>6. PICK q \in T : \A y \in T : q <= y
  <2>1. T \subseteq Nat
    OBVIOUS
  <2> HIDE DEF T
  <2> QED
    BY <1>5, <2>1, LeastNat
<1>7. q \in 1..n /\ q \in Nat /\ L[q] > unread
  BY <1>3
<1>8. PICK before : before = {i \in 1..n : L[i] <= unread}
  OBVIOUS
<1>9. ASSUME NEW i \in 1..n PROVE L[i] <= unread <=> i <= q - 1
  <2>1. L[i] \in Nat /\ i \in 0..n /\ q \in 0..n /\ L[q] \in Nat
    BY <1>3, <1>7
  <2>2. CASE i <= q - 1
    <3>1. i \notin T
      BY <1>6, <1>7, <2>2
    <3>2. ~(L[i] > unread)
      BY <2>1, <3>1
    <3> QED
      BY <2>1, <2>2, <3>2
  <2>3. CASE ~(i <= q - 1)
    <3>1. q <= i
      BY <1>7, <2>3
    <3>2. L[q] <= L[i]
      BY <1>4, <2>1, <3>1
    <3> QED
      BY <1>7, <2>1, <2>3, <3>2
  <2> QED
    BY <2>2, <2>3
<1>10. before = 1..(q - 1)
  BY <1>7, <1>8, <1>9
<1>11. Cardinality(before) = q - 1
  <2>1. Cardinality(1..(q - 1)) = IF 1 > q - 1 THEN 0 ELSE q - 1 - 1 + 1
    BY <1>7, FS_Interval
  <2> QED
    BY <1>7, <1>10, <2>1
<1>12. Skip.pbuf = q /\ Skip.off = unread - L[q - 1]
  <2>1. Skip = [pbuf |-> Cardinality(before) + 1, off |-> unread - L[Cardinality(before)]]
    BY <1>1, <1>2, <1>8 DEF Skip
  <2> QED
    BY <1>7, <1>11, <2>1
<1>13. L[q - 1] <= unread /\ L[q - 1] \in Nat
  <2>1. q - 1 \in 0..n
    BY <1>7
  <2>2. CASE q - 1 = 0
    BY <1>3, <2>2
  <2>3. CASE q - 1 # 0
    <3>1. q - 1 \in 1..n
      BY <1>7, <2>3
    <3> QED
      BY <1>3, <1>9, <3>1
  <2> QED
    BY <2>2, <2>3
<1>14. L[q] = L[q - 1] + Len(chain[q]) /\ Len(chain[q]) \in Nat
  BY <1>3, <1>7
<1> QED
  BY <1>1, <1>2, <1>7, <1>12, <1>13, <1>14

(***************************************************************************)
(* The steps.                                                              *)
(***************************************************************************)

\* What is needed of the chain in all of them.
LEMMA ChainFacts ==
  ASSUME LwipShape
  PROVE  /\ chain \in Seq(Seq(Nat)) /\ Len(chain) \in Nat /\ TotLen(chain) \in Nat /\ TotLen(chain) < LenMod
         /\ sent \in Nat /\ lost \in Nat /\ lost <= sent /\ acked \in Nat /\ unread \in Nat
         /\ chain # <<>> => TotLen(chain) >= 1
         /\ chain = <<>> => TotLen(chain) = 0
<1>1. chain \in Seq(Seq(Nat) \ {<<>>}) /\ TotLen(chain) < LenMod
  BY DEF LwipShape
<1>2. chain \in Seq(Seq(Nat)) /\ (chain # <<>> => TotLen(chain) >= 1)
  BY <1>1, ChainIs
<1>3. Len(chain) \in Nat /\ TotLen(chain) \in Nat
  BY <1>2, LengthsIs
<1>4. sent \in Nat /\ lost \in Nat /\ lost <= sent /\ acked \in Nat /\ unread \in Nat
  BY ConstantFacts DEF LwipShape
<1>5. chain = <<>> => TotLen(chain) = 0
  BY LengthsEmpty
<1> QED
  BY <1>1, <1>2, <1>3, <1>4, <1>5

\* The local variables.
LEMMA LocalFacts ==
  ASSUME NEW c \in Local
  PROVE  /\ c.avail \in Nat /\ c.avail < LenMod /\ c.ack \in Nat /\ c.empty \in BOOLEAN
         /\ c.pbuf \in Nat \ {0} /\ c.off \in Nat
         /\ c.need \in Nat /\ c.need < LenMod /\ c.full \in BOOLEAN
BY ConstantFacts DEF Local

\* Local variables at a call.
LEMMA NoCallIs ==
  /\ NoCall \in Local /\ NoCall.avail = 0 /\ NoCall.ack = 0 /\ NoCall.empty = TRUE
  /\ NoCall.pbuf = 1 /\ NoCall.off = 0 /\ NoCall.need = 0 /\ NoCall.full = FALSE
BY ConstantFacts DEF NoCall, Local

\* What the callback reads next: the bytes that follow those taken already.
LEMMA RestIs ==
  ASSUME LwipShape, cb \in Local, BytesInv, At(cb.pbuf, cb.off, cb.avail)
  PROVE  /\ cb.avail <= TotLen(chain)
         /\ ~AtPbuf => cb.avail = 0
         /\ AtPbuf => /\ Rest \in Seq(Nat) /\ Len(Rest) \in Nat \ {0} /\ Len(Rest) <= cb.avail
                      /\ \A k \in 1..Len(Rest) : Rest[k] = sent - cb.avail + k
                      /\ cb.pbuf \in 1..Len(chain) /\ Len(Rest) = Len(chain[cb.pbuf]) - cb.off
                      /\ Lengths(chain)[cb.pbuf] + (cb.avail - Len(Rest)) = TotLen(chain)
<1>1. PICK n \in Nat : n = Len(chain)
  BY ChainFacts
<1>2. PICK L : L = Lengths(chain)
  OBVIOUS
<1>3. PICK t \in Nat : t = TotLen(chain)
  BY ChainFacts
<1>4. /\ \A i \in 0..n : L[i] \in Nat
      /\ L[n] = t
      /\ \A i \in 1..n : L[i] = L[i - 1] + Len(chain[i]) /\ Len(chain[i]) \in Nat /\ chain[i] \in Seq(Nat)
  BY <1>1, <1>2, <1>3, ChainFacts, LengthsIs
<1>5. PICK p \in Nat, o \in Nat, a \in Nat : p = cb.pbuf /\ o = cb.off /\ a = cb.avail
  BY LocalFacts
<1>6. p \in 1..(n + 1) /\ (IF p <= n THEN o < Len(chain[p]) ELSE o = 0) /\ L[p - 1] + o + a = t
  BY <1>1, <1>2, <1>3, <1>5 DEF At
<1>7. a <= t
  <2>1. L[p - 1] \in Nat
    BY <1>4, <1>6
  <2> QED
    BY <1>6, <2>1
<1>8. ASSUME ~(p <= n) PROVE a = 0
  <2>1. p - 1 = n /\ o = 0
    BY <1>6, <1>8
  <2> QED
    BY <1>4, <1>6, <2>1
<1>9. ASSUME p <= n
      PROVE  /\ Rest \in Seq(Nat) /\ Len(Rest) \in Nat \ {0} /\ Len(Rest) <= a
             /\ \A k \in 1..Len(Rest) : Rest[k] = sent - a + k
             /\ p \in 1..n /\ Len(Rest) = Len(chain[p]) - o
             /\ L[p] + (a - Len(Rest)) = t
  <2>1. p \in 1..n /\ p - 1 \in 0..n /\ p \in 0..n
    BY <1>6, <1>9
  <2>2. PICK x \in Seq(Nat) : x = chain[p]
    BY <1>4, <2>1
  <2>3. PICK m \in Nat : m = Len(x)
    BY LenProperties
  <2>4. o < m /\ o \in 0..Len(x)
    BY <1>6, <1>9, <2>2, <2>3
  <2>5. PICK r : r = Rest
    OBVIOUS
  <2>6. r = Drop(x, o)
    BY <1>5, <2>2, <2>5 DEF Rest
  <2>7. r \in Seq(Nat) /\ Len(r) = m - o /\ \A k \in 1..(m - o) : r[k] = x[o + k]
    BY <2>3, <2>4, <2>6, DropIs
  <2>8. PICK b \in Nat : b = L[p - 1]
    BY <1>4, <2>1
  <2>9. L[p] = b + m /\ b + o + a = t
    BY <1>4, <1>6, <2>1, <2>2, <2>3, <2>8
  <2>10. L[p] <= t
    <3>1. chain \in Seq(Seq(Nat)) /\ n \in 0..Len(chain) /\ p \in 0..Len(chain) /\ p <= n
      BY <1>1, <1>9, <2>1, ChainFacts
    <3>2. Lengths(chain)[p] <= Lengths(chain)[n]
      BY <3>1, LengthsGrow
    <3> QED
      BY <1>2, <1>4, <3>2
  <2>11. m - o \in Nat \ {0} /\ m - o <= a /\ L[p] + (a - (m - o)) = t
    BY <2>4, <2>9, <2>10
  <2>12. ASSUME NEW k \in 1..(m - o) PROVE r[k] = sent - a + k
    <3>1. o + k \in 1..m
      BY <2>4
    <3>2. \A j \in 1..m : x[j] = (sent - t) + b + j
      BY <1>1, <1>2, <1>3, <2>1, <2>2, <2>3, <2>8 DEF BytesInv, Consecutive
    <3>3. x[o + k] = (sent - t) + b + (o + k)
      BY <3>1, <3>2
    <3>4. sent \in Nat /\ k \in Nat
      BY <2>11, ChainFacts
    <3>5. (sent - t) + b + (o + k) = sent - a + k
      BY <2>9, <3>4
    <3> QED
      BY <2>7, <3>3, <3>5
  <2> QED
    BY <2>1, <2>2, <2>3, <2>5, <2>7, <2>11, <2>12
<1>10. AtPbuf <=> p <= n
  BY <1>1, <1>5 DEF AtPbuf
<1> QED
  BY <1>1, <1>2, <1>3, <1>5, <1>7, <1>8, <1>9, <1>10

\* After n more bytes the callback is further by n.
LEMMA Advance ==
  ASSUME LwipShape, cb \in Local, BytesInv, At(cb.pbuf, cb.off, cb.avail), AtPbuf,
         NEW n \in 0..Len(Rest)
  PROVE  /\ n = Len(Rest) => At(cb.pbuf + 1, 0, cb.avail - n)
         /\ n < Len(Rest) => At(cb.pbuf, cb.off + n, cb.avail - n)
<1>1. PICK m \in Nat, p \in Nat, o \in Nat, a \in Nat, r \in Nat :
        m = Len(chain) /\ p = cb.pbuf /\ o = cb.off /\ a = cb.avail /\ r = Len(Rest)
  BY ChainFacts, LocalFacts, RestIs
<1>2. r <= a /\ p \in 1..m /\ r = Len(chain[p]) - o /\ Lengths(chain)[p] + (a - r) = TotLen(chain)
  BY <1>1, RestIs
<1>3. Lengths(chain)[p - 1] + o + a = TotLen(chain) /\ o < Len(chain[p])
  BY <1>1, <1>2 DEF At
<1>4. /\ Lengths(chain)[p] \in Nat /\ Lengths(chain)[p - 1] \in Nat /\ TotLen(chain) \in Nat
      /\ \A i \in 1..m : Len(chain[i]) \in Nat \ {0}
  <2>1. chain \in Seq(Seq(Nat)) /\ TotLen(chain) \in Nat /\ p \in 0..m /\ p - 1 \in 0..m
    BY <1>2, ChainFacts
  <2>2. \A i \in 1..m : Len(chain[i]) \in Nat \ {0}
    BY <1>1, ChainIs DEF LwipShape
  <2> QED
    BY <1>1, <2>1, <2>2, LengthsIs
<1>5. ASSUME n = r PROVE At(p + 1, 0, a - n)
  <2>1. p + 1 \in 1..(m + 1) /\ p + 1 - 1 = p
    BY <1>2
  <2>2. p + 1 <= m => 0 < Len(chain[p + 1])
    BY <1>2, <1>4
  <2>3. Lengths(chain)[p] + 0 + (a - n) = TotLen(chain)
    BY <1>1, <1>2, <1>4, <1>5
  <2> QED
    BY <1>1, <2>1, <2>2, <2>3 DEF At
<1>6. ASSUME n < r PROVE At(p, o + n, a - n)
  <2>1. p \in 1..(m + 1) /\ p <= m /\ o + n \in Nat /\ n \in Nat
    <3>1. PICK i \in Nat : i = n
      BY <1>1
    <3>2. p \in 1..(m + 1) /\ p <= m /\ o + i \in Nat
      BY <1>2
    <3> QED
      BY <3>1, <3>2
  <2>2. o + n < Len(chain[p])
    <3>1. PICK w \in Nat : w = Len(chain[p])
      BY <1>2, <1>4
    <3>2. r = w - o
      BY <1>2, <3>1
    <3> QED
      BY <1>6, <2>1, <3>1, <3>2
  <2>3. Lengths(chain)[p - 1] + (o + n) + (a - n) = TotLen(chain)
    <3>1. PICK b \in Nat, t \in Nat : b = Lengths(chain)[p - 1] /\ t = TotLen(chain)
      BY <1>4
    <3>2. b + o + a = t
      BY <1>3, <3>1
    <3>3. b + (o + n) + (a - n) = t
      BY <2>1, <3>2
    <3> QED
      BY <3>1, <3>3
  <2> QED
    BY <1>1, <2>1, <2>2, <2>3 DEF At
<1> QED
  BY <1>1, <1>5, <1>6

\* Parts of the invariant that follow from what a step leaves alone: the socket.
LEMMA SockFrame ==
  ASSUME SockShape, UNCHANGED <<buffer, recvQueue, opVars>>
  PROVE  SockShape'
BY DEF SockShape, opVars

\* Waiting operations.
LEMMA QueueFrame ==
  ASSUME QueueInv, UNCHANGED <<buffer, recvQueue, size, block>>
  PROVE  QueueInv'
BY DEF QueueInv

\* Reported operations.
LEMMA ReportFrame ==
  ASSUME ReportInv, UNCHANGED <<recvQueue, opVars>>
  PROVE  ReportInv'
BY DEF ReportInv, opVars

\* Bytes of the stream.
LEMMA BytesFrame ==
  ASSUME BytesInv, UNCHANGED <<sent, lost, chain, buffer, block>>
  PROVE  BytesInv'
<1>1. Consecutive(block, lost)' = Consecutive(block, lost)
  BY DEF Consecutive, Lengths, Ends
<1>2. TotLen(block)' = TotLen(block) /\ TotLen(chain)' = TotLen(chain)
  BY DEF TotLen, Lengths, Ends
<1>3. Consecutive(chain, sent - TotLen(chain))' = Consecutive(chain, sent - TotLen(chain))
  BY <1>2 DEF Consecutive, Lengths, Ends
<1> QED
  BY <1>1, <1>2, <1>3 DEF BytesInv

\* lwIP's side, when only the acknowledged bytes may change.
LEMMA LwipFrame ==
  ASSUME LwipShape, UNCHANGED <<sent, lost, chain, registered, arg, unread>>, acked' \in Nat
  PROVE  LwipShape'
<1>1. TotLen(chain)' = TotLen(chain)
  BY DEF TotLen, Lengths, Ends
<1> QED
  BY <1>1 DEF LwipShape

\* The callback's place in the chain.
LEMMA AtFrame ==
  ASSUME NEW p, NEW o, NEW a, At(p, o, a), UNCHANGED chain,
         cb'.pbuf = p, cb'.off = o, cb'.avail = a
  PROVE  At(cb.pbuf, cb.off, cb.avail)'
<1>1. Lengths(chain)' = Lengths(chain) /\ TotLen(chain)' = TotLen(chain)
  BY DEF TotLen, Lengths, Ends
<1> QED
  BY <1>1 DEF At

\* Nothing has happened yet.
LEMMA InitInv == Init => IInv
<1> SUFFICES ASSUME Init PROVE IInv
  OBVIOUS
<1>1. /\ sent = 0 /\ lost = 0 /\ acked = 0 /\ chain = <<>> /\ registered \in BOOLEAN /\ arg \in BOOLEAN
      /\ buffer = <<>> /\ recvQueue = <<>> /\ unread = 0
      /\ size = <<>> /\ block = <<>> /\ reported = <<>> /\ pc = "idle" /\ cb = NoCall
  BY DEF Init
<1>2. TotLen(<<>>) = 0 /\ Len(<<>>) = 0 /\ 1..0 = {}
  BY LengthsEmpty
<1>3. LwipShape
  <2>1. <<>> \in Seq(Seq(Nat) \ {<<>>})
    BY EmptySeq
  <2> QED
    BY <1>1, <1>2, <2>1, ConstantFacts DEF LwipShape
<1>4. SockShape
  BY <1>1, <1>2, ConstantFacts, EmptySeq DEF SockShape
<1>5. CbShape
  BY <1>1, NoCallIs DEF CbShape
<1>6. QueueInv /\ ReportInv
  BY <1>1, <1>2 DEF QueueInv, ReportInv
<1>7. BytesInv
  BY <1>1, <1>2 DEF BytesInv, Consecutive
<1>8. Remaining = 0
  BY <1>1, <1>2 DEF Remaining
<1>9. CountInv
  BY <1>1, <1>2, <1>8, NoCallIs DEF CountInv
<1>10. ChainInv /\ PosInv
  BY <1>1, <1>2 DEF ChainInv, PosInv
<1> QED
  BY <1>3, <1>4, <1>5, <1>6, <1>7, <1>9, <1>10 DEF IInv, Shape

\* Steps in which only the control moves.
LEMMA IdleStep ==
  ASSUME IInv, OfferAgain \/ SetArg \/ CbRefuse
  PROVE  IInv'
<1>1. /\ UNCHANGED <<sent, lost, acked, chain, registered, buffer, recvQueue, unread, cb>>
      /\ UNCHANGED <<size, block, reported>>
  BY DEF OfferAgain, SetArg, CbRefuse, opVars
<1>2. /\ LwipShape /\ SockShape /\ CbShape /\ QueueInv /\ ReportInv /\ BytesInv /\ CountInv
      /\ ChainInv /\ PosInv
  BY DEF IInv, Shape
<1>3. TotLen(chain)' = TotLen(chain)
  BY <1>1 DEF TotLen, Lengths, Ends
<1>4. LwipShape'
  <2>1. arg' \in BOOLEAN
    BY <1>2 DEF OfferAgain, SetArg, CbRefuse, LwipShape
  <2> QED
    BY <1>1, <1>2, <1>3, <2>1 DEF LwipShape
<1>5. SockShape' /\ QueueInv' /\ ReportInv' /\ BytesInv'
  <2>1. SockShape'
    BY <1>1, <1>2, SockFrame DEF opVars
  <2>2. QueueInv'
    BY <1>1, <1>2, QueueFrame
  <2>3. ReportInv'
    BY <1>1, <1>2, ReportFrame DEF opVars
  <2>4. BytesInv'
    BY <1>1, <1>2, BytesFrame
  <2> QED
    BY <2>1, <2>2, <2>3, <2>4
<1>6. pc' = pc \/ (pc = "idle" /\ pc' = "enter" /\ chain # <<>>) \/ (pc = "enter" /\ pc' = "idle")
  BY DEF OfferAgain, SetArg, CbRefuse
<1>7. CbShape'
  BY <1>1, <1>2, <1>6 DEF CbShape
<1>8. Remaining' = Remaining
  BY <1>1, <1>3, <1>6 DEF Remaining
<1>9. CountInv'
  <2>1. TotLen(block)' = TotLen(block)
    BY <1>1 DEF TotLen, Lengths, Ends
  <2> QED
    BY <1>1, <1>2, <1>8, <2>1 DEF CountInv
<1>10. ChainInv'
  BY <1>1, <1>2, <1>3, <1>6 DEF ChainInv
<1>11. PosInv'
  <2>1. CASE pc' = pc
    <3>1. At(cb.pbuf, cb.off, cb.avail) => At(cb.pbuf, cb.off, cb.avail)'
      BY <1>1, AtFrame
    <3> QED
      BY <1>1, <1>2, <1>3, <2>1, <3>1 DEF PosInv
  <2>2. CASE pc' \in {"idle", "enter"}
    BY <2>2 DEF PosInv
  <2> QED
    BY <1>6, <2>1, <2>2
<1> QED
  BY <1>4, <1>5, <1>7, <1>9, <1>10, <1>11 DEF IInv, Shape

\* The callback starts behind what it read of the chain before.
LEMMA EnterStep ==
  ASSUME IInv, CbEnter
  PROVE  IInv'
<1>1. /\ UNCHANGED <<sent, lost, acked, chain, registered, arg, buffer, recvQueue, unread>>
      /\ UNCHANGED <<size, block, reported>> /\ pc = "enter" /\ pc' = "match"
      /\ cb' = [NoCall EXCEPT !.avail = (TotLen(chain) - unread) % LenMod, !.empty = buffer = <<>>,
                              !.pbuf = Skip.pbuf, !.off = Skip.off]
  BY DEF CbEnter, opVars
<1>2. /\ LwipShape /\ SockShape /\ QueueInv /\ ReportInv /\ BytesInv /\ CountInv
      /\ ChainInv /\ PosInv
  BY DEF IInv, Shape
<1>3. chain # <<>> /\ unread < TotLen(chain) /\ cb = NoCall
  BY <1>1, <1>2 DEF ChainInv
<1>4. PICK t \in Nat, u \in Nat : t = TotLen(chain) /\ u = unread /\ t < LenMod /\ u < t
  BY <1>2, <1>3, ChainFacts
<1>5. PICK a \in Nat : a = t - u /\ a < LenMod /\ a = (t - u) % LenMod
  BY <1>4, ConstantFacts
<1>6. PICK q \in Nat \ {0}, o \in Nat : q = Skip.pbuf /\ o = Skip.off /\ q \in 1..Len(chain)
        /\ o < Len(chain[q]) /\ Lengths(chain)[q - 1] + o = u
  <2>1. chain \in Seq(Seq(Nat)) /\ unread \in Nat /\ unread < TotLen(chain) /\ Len(chain) \in Nat
    BY <1>2, <1>3, ChainFacts
  <2>2. /\ Skip.pbuf \in 1..Len(chain) /\ Skip.off \in Nat
        /\ Skip.off < Len(chain[Skip.pbuf])
        /\ Lengths(chain)[Skip.pbuf - 1] + Skip.off = unread
    BY <2>1, SkipFinds
  <2> QED
    BY <1>4, <2>1, <2>2
<1>7. PICK e \in BOOLEAN : e = (buffer = <<>>)
  <2>1. (buffer = <<>>) \in BOOLEAN
    OBVIOUS
  <2> QED
    BY <2>1
<1>8. cb' = [NoCall EXCEPT !.avail = a, !.empty = e, !.pbuf = q, !.off = o]
  BY <1>1, <1>4, <1>5, <1>6, <1>7
<1>9. cb' = [avail |-> a, ack |-> 0, empty |-> e, pbuf |-> q, off |-> o, need |-> 0, full |-> FALSE]
  BY <1>8 DEF NoCall
<1>10. cb' \in Local
  BY <1>5, <1>9, ConstantFacts DEF Local
<1>11. CbShape'
  BY <1>1, <1>10 DEF CbShape
<1>12. LwipShape' /\ SockShape' /\ QueueInv' /\ ReportInv' /\ BytesInv'
  <2>1. SockShape'
    BY <1>1, <1>2, SockFrame DEF opVars
  <2>2. QueueInv'
    BY <1>1, <1>2, QueueFrame
  <2>3. ReportInv'
    BY <1>1, <1>2, ReportFrame DEF opVars
  <2>4. BytesInv'
    BY <1>1, <1>2, BytesFrame
  <2>5. LwipShape'
    BY <1>1, <1>2, ChainFacts, LwipFrame
  <2> QED
    BY <2>1, <2>2, <2>3, <2>4, <2>5
<1>13. Remaining' = a /\ Remaining = a
  BY <1>1, <1>4, <1>5, <1>9 DEF Remaining
<1>14. CountInv'
  <2>1. TotLen(block)' = TotLen(block)
    BY <1>1 DEF TotLen, Lengths, Ends
  <2>2. cb'.ack = cb.ack
    BY <1>3, <1>9, NoCallIs
  <2> QED
    BY <1>1, <1>2, <1>13, <2>1, <2>2 DEF CountInv
<1>15. ChainInv'
  <2>1. TotLen(chain)' = TotLen(chain)
    BY <1>1 DEF TotLen, Lengths, Ends
  <2> QED
    BY <1>1, <1>2, <1>3, <2>1 DEF ChainInv
<1>16. PosInv'
  <2>1. At(q, o, a)
    <3>1. Lengths(chain)[q - 1] + o + a = TotLen(chain)
      BY <1>4, <1>5, <1>6
    <3>2. Len(chain) \in Nat
      BY <1>2, ChainFacts
    <3> QED
      BY <1>6, <3>1, <3>2 DEF At
  <2>2. At(cb.pbuf, cb.off, cb.avail)'
    <3>1. cb'.pbuf = q /\ cb'.off = o /\ cb'.avail = a
      BY <1>9
    <3> QED
      BY <1>1, <2>1, <3>1, AtFrame
  <2> QED
    BY <1>1, <2>2 DEF PosInv
<1> QED
  BY <1>11, <1>12, <1>14, <1>15, <1>16 DEF IInv, Shape

\* The oldest waiting operation.
LEMMA FirstIs ==
  ASSUME SizesFit, SockShape, QueueInv, recvQueue # <<>>
  PROVE  /\ Len(recvQueue) \in Nat \ {0} /\ 1 \in 1..Len(recvQueue) /\ recvQueue[1] \in Entry
         /\ recvQueue[1].op \in 1..Len(block) /\ Len(block) = Len(size) /\ Len(size) \in Nat
         /\ block[recvQueue[1].op] \in Seq(Nat) /\ Len(block[recvQueue[1].op]) = recvQueue[1].off
         /\ recvQueue[1].off \in Nat /\ recvQueue[1].size \in Nat /\ recvQueue[1].size < LenMod
         /\ recvQueue[1].off + recvQueue[1].size = size[recvQueue[1].op]
         /\ buffer = <<>>
<1>1. /\ recvQueue \in Seq(Entry) /\ size \in Seq(Sizes) /\ block \in Seq(Seq(Nat)) /\ Len(block) = Len(size)
  BY DEF SockShape
<1>2. Len(recvQueue) \in Nat \ {0}
  BY <1>1, EmptySeq
<1>3. 1 \in 1..Len(recvQueue)
  BY <1>2
<1>4. PICK e \in Entry : e = recvQueue[1]
  BY <1>1, <1>3, ElementOfSeq
<1>5. e.op \in Nat \ {0} /\ e.size \in Nat /\ e.off \in Nat
  BY DEF Entry
<1>6. e.op <= Len(size) /\ e.off = Len(block[e.op]) /\ e.off + e.size = size[e.op] /\ buffer = <<>>
  BY <1>3, <1>4 DEF QueueInv
<1>7. Len(size) \in Nat
  BY <1>1, LenProperties
<1>8. e.op \in 1..Len(size)
  BY <1>5, <1>6, <1>7
<1>9. block[e.op] \in Seq(Nat) /\ size[e.op] \in Sizes
  BY <1>1, <1>8, ElementOfSeq
<1>10. size[e.op] \in Nat /\ size[e.op] < LenMod
  <2>1. size[e.op] \in 1..(LenMod - 1)
    BY <1>9 DEF SizesFit
  <2>2. LenMod \in Nat
    BY ConstantFacts
  <2> QED
    BY <2>1, <2>2
<1>11. e.size < LenMod
  BY <1>5, <1>6, <1>10, ConstantFacts
<1> QED
  BY <1>1, <1>2, <1>3, <1>4, <1>5, <1>6, <1>7, <1>8, <1>9, <1>11

\* recv_buffer is empty when an operation waits, so nothing comes out of it for
\* that operation.
LEMMA MatchIs ==
  ASSUME SizesFit, SockShape, cb \in Local, QueueInv, CbMatch, recvQueue # <<>>,
         cb.avail > 0 \/ ~cb.empty
  PROVE  /\ UNCHANGED <<buffer, block, recvQueue>> /\ pc' = "copy"
         /\ \E f \in BOOLEAN : /\ f <=> recvQueue[1].size <= cb.avail
                               /\ cb' = [cb EXCEPT !.need = recvQueue[1].size, !.full = f, !.empty = TRUE]
<1>1. PICK e \in Entry : e = recvQueue[1]
  BY FirstIs
<1>2. /\ e.size \in Nat /\ e.off \in Nat /\ e.size < LenMod /\ e.op \in 1..Len(block)
      /\ Len(block[e.op]) = e.off /\ block[e.op] \in Seq(Nat) /\ buffer = <<>>
      /\ 1 \in 1..Len(recvQueue)
  BY <1>1, FirstIs
<1>0. e.size % LenMod = e.size
  <2>1. PICK m \in Nat : m = e.size /\ m < LenMod
    BY <1>2
  <2>2. LenMod \in Nat /\ LenMod >= 1
    BY ConstantFacts
  <2>3. m % LenMod = m
    BY <2>1, <2>2
  <2> QED
    BY <2>1, <2>3
<1>3. PICK popped : popped = IF cb.empty THEN 0 ELSE Popped(e.size)
  OBVIOUS
<1>4. popped = 0
  <2>1. e.size % LenMod = e.size
    BY <1>0
  <2>2. Len(buffer) = 0
    BY <1>2
  <2>3. Popped(e.size) = 0
    BY <1>2, <2>1, <2>2 DEF Popped, Min2
  <2> QED
    BY <1>3, <2>3
<1>5. PICK need \in Nat : need = (e.size % LenMod) - popped /\ need = e.size
  BY <1>0, <1>2, <1>4
<1>6. /\ buffer' = Drop(buffer, popped)
      /\ block' = Written(e.op, e.off, Take(buffer, popped))
      /\ recvQueue' = [recvQueue EXCEPT ![1].size = @ - popped, ![1].off = @ + popped]
      /\ cb' = [cb EXCEPT !.need = need, !.full = Fulfilled(need), !.empty = (popped = 0)]
      /\ pc' = "copy"
  BY <1>1, <1>3, <1>5 DEF CbMatch
<1>7. buffer' = buffer /\ Take(buffer, popped) = <<>>
  BY <1>2, <1>4, <1>6, TakeNone, EmptySeq
<1>8. block' = block
  <2>1. Take(block[e.op], e.off) = block[e.op]
    BY <1>2, TakeNone
  <2>2. block[e.op] \o <<>> = block[e.op]
    BY <1>2, ConcatEmptySeq
  <2>3. block' = [block EXCEPT ![e.op] = Take(@, e.off) \o <<>>]
    BY <1>6, <1>7 DEF Written
  <2>4. block' = [block EXCEPT ![e.op] = block[e.op]]
    BY <2>1, <2>2, <2>3
  <2>5. block \in Seq(Seq(Nat))
    BY DEF SockShape
  <2>6. block \in [1..Len(block) -> Seq(Nat)]
    BY <2>5, LenProperties
  <2> QED
    BY <2>4, <2>6
<1>9. recvQueue' = recvQueue
  <2>1. recvQueue \in Seq(Entry)
    BY DEF SockShape
  <2>2. recvQueue \in [1..Len(recvQueue) -> Entry]
    BY <2>1, LenProperties
  <2>3. recvQueue' = [recvQueue EXCEPT ![1] = [[e EXCEPT !.size = e.size - 0] EXCEPT !.off = e.off + 0]]
    BY <1>1, <1>2, <1>4, <1>6, <2>2
  <2>4. [[e EXCEPT !.size = e.size - 0] EXCEPT !.off = e.off + 0] = e
    <3>1. e.size - 0 = e.size /\ e.off + 0 = e.off
      BY <1>2
    <3>2. [[e EXCEPT !.size = e.size] EXCEPT !.off = e.off] = e
      BY DEF Entry
    <3> QED
      BY <3>1, <3>2
  <2>5. recvQueue' = [recvQueue EXCEPT ![1] = e]
    BY <2>3, <2>4
  <2> QED
    BY <1>1, <2>2, <2>5
<1>10. PICK f \in BOOLEAN : f = Fulfilled(need)
  <2>1. Fulfilled(need) \in BOOLEAN
    BY DEF Fulfilled
  <2> QED
    BY <2>1
<1>11. cb' = [cb EXCEPT !.need = e.size, !.full = f, !.empty = TRUE]
  BY <1>4, <1>5, <1>6, <1>10
<1>12. f <=> e.size <= cb.avail
  BY <1>5, <1>10 DEF Fulfilled
<1> QED
  BY <1>1, <1>6, <1>7, <1>8, <1>9, <1>11, <1>12

\* Data goes to the oldest waiting operation, or what is left to recv_buffer.
LEMMA MatchStep ==
  ASSUME SizesFit, IInv, CbMatch
  PROVE  IInv'
<1>1. /\ LwipShape /\ SockShape /\ CbShape /\ QueueInv /\ ReportInv /\ BytesInv /\ CountInv
      /\ ChainInv /\ PosInv
  BY DEF IInv, Shape
<1>2. cb \in Local
  BY <1>1 DEF CbShape
<1>3. /\ UNCHANGED <<sent, lost, acked, chain, registered, arg, unread, size, reported>>
      /\ pc = "match"
  BY DEF CbMatch
<1>4. /\ UNCHANGED <<buffer, block, recvQueue>> /\ cb' \in Local
      /\ cb'.avail = cb.avail /\ cb'.ack = cb.ack /\ cb'.pbuf = cb.pbuf /\ cb'.off = cb.off
      /\ \/ pc' = "copy" /\ recvQueue # <<>> /\ cb'.need = recvQueue[1].size
            /\ (cb'.full <=> recvQueue[1].size <= cb.avail)
         \/ pc' = "store" /\ (recvQueue # <<>> => cb.avail = 0)
  <2>1. CASE recvQueue # <<>> /\ (cb.avail > 0 \/ ~cb.empty)
    <3>1. UNCHANGED <<buffer, block, recvQueue>> /\ pc' = "copy"
      BY <1>1, <1>2, <2>1, MatchIs
    <3>2. PICK f \in BOOLEAN : /\ f <=> recvQueue[1].size <= cb.avail
                               /\ cb' = [cb EXCEPT !.need = recvQueue[1].size, !.full = f, !.empty = TRUE]
      BY <1>1, <1>2, <2>1, MatchIs
    <3>3. PICK m \in Nat : m = recvQueue[1].size /\ m < LenMod
      BY <1>1, <2>1, FirstIs
    <3>4. cb' = [cb EXCEPT !.need = m, !.full = f, !.empty = TRUE]
      BY <3>2, <3>3
    <3>5. cb' \in Local
      <4>1. m \in 0..(LenMod - 1)
        BY <3>3, ConstantFacts
      <4> QED
        BY <1>2, <3>4, <4>1 DEF Local
    <3>6. cb'.avail = cb.avail /\ cb'.ack = cb.ack /\ cb'.pbuf = cb.pbuf /\ cb'.off = cb.off
          /\ cb'.need = m /\ cb'.full = f
      BY <1>2, <3>4 DEF Local
    <3> QED
      BY <2>1, <3>1, <3>2, <3>3, <3>5, <3>6
  <2>2. CASE ~(recvQueue # <<>> /\ (cb.avail > 0 \/ ~cb.empty))
    <3>1. UNCHANGED <<buffer, block, recvQueue, cb>> /\ pc' = "store"
      BY <2>2 DEF CbMatch
    <3>2. recvQueue # <<>> => cb.avail = 0
      BY <1>2, <2>2, LocalFacts
    <3> QED
      BY <1>2, <3>1, <3>2
  <2> QED
    BY <2>1, <2>2
<1>5. LwipShape' /\ SockShape' /\ QueueInv' /\ ReportInv' /\ BytesInv' /\ CbShape'
  <2>1. SockShape'
    BY <1>1, <1>3, <1>4, SockFrame DEF opVars
  <2>2. QueueInv'
    BY <1>1, <1>3, <1>4, QueueFrame
  <2>3. ReportInv'
    BY <1>1, <1>3, <1>4, ReportFrame DEF opVars
  <2>4. BytesInv'
    BY <1>1, <1>3, <1>4, BytesFrame
  <2>5. LwipShape'
    BY <1>1, <1>3, ChainFacts, LwipFrame
  <2>6. CbShape'
    BY <1>4 DEF CbShape
  <2> QED
    BY <2>1, <2>2, <2>3, <2>4, <2>5, <2>6
<1>6. CountInv'
  <2>1. TotLen(block)' = TotLen(block)
    BY <1>4 DEF TotLen, Lengths, Ends
  <2>2. Remaining' = Remaining
    BY <1>3, <1>4 DEF Remaining
  <2> QED
    BY <1>1, <1>3, <1>4, <2>1, <2>2 DEF CountInv
<1>7. ChainInv'
  <2>1. TotLen(chain)' = TotLen(chain)
    BY <1>3 DEF TotLen, Lengths, Ends
  <2>2. chain # <<>> /\ pc' \notin {"idle", "enter"}
    BY <1>1, <1>3, <1>4 DEF ChainInv
  <2> QED
    BY <1>1, <1>3, <1>4, <2>1, <2>2 DEF ChainInv
<1>8. PosInv'
  <2>1. At(cb.pbuf, cb.off, cb.avail)
    BY <1>1, <1>3 DEF PosInv
  <2>2. At(cb.pbuf, cb.off, cb.avail)'
    BY <1>3, <1>4, <2>1, AtFrame
  <2>3. CASE pc' = "copy"
    BY <1>4, <2>2, <2>3 DEF PosInv
  <2>4. CASE pc' = "store"
    BY <1>4, <2>2, <2>4 DEF PosInv
  <2> QED
    BY <1>4, <2>3, <2>4
<1> QED
  BY <1>5, <1>6, <1>7, <1>8 DEF IInv, Shape

\* Bytes that move from one place to the next leave their number alone.
LEMMA MovedSum ==
  ASSUME NEW l \in Nat, NEW t \in Nat, NEW n \in Nat, NEW a \in Nat, NEW s \in Nat, l + t + a = s
  PROVE  l + (t + n) + 0 + (a - n) = s /\ \A k \in Nat : s - a + k = l + t + k
OBVIOUS

\* The same for an operation's own share.
LEMMA MovedPart ==
  ASSUME NEW o \in Nat, NEW z \in Nat, NEW n \in Nat
  PROVE  o + n + (z - n) = o + z
OBVIOUS

\* w is q with n bytes more for the oldest waiting operation.
Served(w, q, n) == w = [q EXCEPT ![1].size = @ - n, ![1].off = @ + n]

\* What that changes.
LEMMA FirstServed ==
  ASSUME NEW q \in Seq(Entry), q # <<>>, NEW n \in Nat, n <= q[1].size, NEW w,
         Served(w, q, n)
  PROVE  /\ w \in Seq(Entry) /\ Len(w) = Len(q) /\ w # <<>>
         /\ w[1].op = q[1].op /\ w[1].size = q[1].size - n /\ w[1].off = q[1].off + n
         /\ \A i \in 1..Len(q) : i # 1 => w[i] = q[i]
         /\ \A i \in 1..Len(q) : w[i].op = q[i].op
<1>1. PICK m \in Nat \ {0} : m = Len(q)
  BY EmptySeq
<1>2. q \in [1..m -> Entry] /\ 1 \in 1..m
  BY <1>1, LenProperties
<1>3. PICK e \in Entry : e = q[1]
  BY <1>2
<1>4. e.op \in Nat \ {0} /\ e.size \in Nat /\ e.off \in Nat
  BY DEF Entry
<1>5. PICK d : d = [[e EXCEPT !.size = e.size - n] EXCEPT !.off = e.off + n]
  OBVIOUS
<1>6. d \in Entry /\ d.op = e.op /\ d.size = e.size - n /\ d.off = e.off + n
  <2>1. e.size - n \in Nat /\ e.off + n \in Nat
    BY <1>3, <1>4
  <2> QED
    BY <1>5, <2>1 DEF Entry
<1>7. w = [q EXCEPT ![1] = d]
  BY <1>2, <1>3, <1>5 DEF Served
<1>8. w \in [1..m -> Entry] /\ w[1] = d /\ \A i \in 1..m : i # 1 => w[i] = q[i]
  BY <1>2, <1>6, <1>7
<1>9. w \in Seq(Entry) /\ Len(w) = m
  <2>0. w \in [1..m -> Entry]
    BY <1>8
  <2>1. w \in Seq(Entry)
    BY <2>0, SeqDef
  <2>2. DOMAIN w = 1..m /\ DOMAIN w = 1..Len(w) /\ Len(w) \in Nat
    BY <1>8, <2>1, LenProperties
  <2> QED
    BY <2>1, <2>2
<1>10. w # <<>>
  BY <1>9
<1>11. \A i \in 1..m : w[i].op = q[i].op
  BY <1>3, <1>6, <1>8
<1> QED
  BY <1>1, <1>3, <1>6, <1>8, <1>9, <1>10, <1>11

\* memcpy behind what a block holds.
LEMMA WrittenIs ==
  ASSUME NEW ss \in Seq(Seq(Nat)), NEW p \in 1..Len(ss), NEW x \in Seq(Nat), NEW tt,
         tt = [ss EXCEPT ![p] = Take(@, Len(ss[p])) \o x]
  PROVE  tt \in Seq(Seq(Nat)) /\ Longer(tt, ss, p, x)
<1>1. PICK m \in Nat : m = Len(ss)
  BY LenProperties
<1>2. ss \in [1..m -> Seq(Nat)]
  BY <1>1, LenProperties
<1>3. Take(ss[p], Len(ss[p])) = ss[p]
  BY <1>1, <1>2, TakeNone
<1>4. PICK y : y = ss[p] \o x
  OBVIOUS
<1>5. y \in Seq(Nat)
  BY <1>1, <1>2, <1>4, ConcatProperties
<1>6. tt = [ss EXCEPT ![p] = y]
  BY <1>3, <1>4
<1>7. tt \in [1..m -> Seq(Nat)] /\ tt[p] = y /\ \A i \in 1..m : i # p => tt[i] = ss[i]
  BY <1>1, <1>2, <1>5, <1>6
<1>8. tt \in Seq(Seq(Nat)) /\ Len(tt) = m
  <2>1. tt \in [1..m -> Seq(Nat)]
    BY <1>7
  <2>2. tt \in Seq(Seq(Nat))
    BY <2>1, SeqDef
  <2>3. DOMAIN tt = 1..m /\ DOMAIN tt = 1..Len(tt) /\ Len(tt) \in Nat
    BY <2>1, <2>2, LenProperties
  <2> QED
    BY <2>2, <2>3
<1> QED
  BY <1>1, <1>4, <1>7, <1>8 DEF Longer

\* What tcp_recv_callback copies from a pbuf to a block.
LEMMA CopyIs ==
  ASSUME SizesFit, IInv, CbCopy
  PROVE  \E n \in 1..Len(Rest), x \in Seq(Nat) :
           /\ x = Take(Rest, n) /\ n <= recvQueue[1].size /\ n <= cb.avail /\ n <= cb.need
           /\ block' \in Seq(Seq(Nat)) /\ Longer(block', block, recvQueue[1].op, x)
           /\ recvQueue' = [recvQueue EXCEPT ![1].size = @ - n, ![1].off = @ + n]
           /\ cb' \in Local /\ cb'.avail = cb.avail - n /\ cb'.need = cb.need - n /\ cb'.ack = cb.ack + n
           /\ cb'.full = cb.full
           /\ cb'.pbuf = IF n = Len(Rest) THEN cb.pbuf + 1 ELSE cb.pbuf
           /\ cb'.off = IF n = Len(Rest) THEN 0 ELSE cb.off + n
<1>1. /\ LwipShape /\ SockShape /\ CbShape /\ QueueInv /\ BytesInv /\ PosInv
      /\ pc = "copy" /\ AtPbuf /\ cb.need > 0 /\ cb \in Local
  BY DEF IInv, Shape, CbCopy, CbShape
<1>2. At(cb.pbuf, cb.off, cb.avail) /\ recvQueue # <<>> /\ cb.need = recvQueue[1].size
  BY <1>1 DEF PosInv
<1>3. PICK r \in Nat \ {0} : r = Len(Rest) /\ Rest \in Seq(Nat) /\ r <= cb.avail
  BY <1>1, <1>2, RestIs
<1>4. /\ cb.avail \in Nat /\ cb.avail < LenMod /\ cb.ack \in Nat /\ cb.pbuf \in Nat \ {0}
      /\ cb.off \in Nat /\ cb.need \in Nat /\ cb.need < LenMod
  BY <1>1, LocalFacts
<1>5. PICK n \in Nat : n = Min2(cb.need, Len(Rest)) /\ n \in 1..r /\ n <= cb.need /\ n <= cb.avail
                       /\ (Len(Rest) <= cb.need <=> n = r)
  BY <1>1, <1>3, <1>4 DEF Min2
<1>6. PICK x \in Seq(Nat) : x = Take(Rest, n)
  BY <1>3, <1>5, TakeIs
<1>7. /\ block' = Written(recvQueue[1].op, recvQueue[1].off, x)
      /\ recvQueue' = [recvQueue EXCEPT ![1].size = @ - n, ![1].off = @ + n]
      /\ cb' = [cb EXCEPT !.avail = @ - n, !.need = @ - n, !.ack = @ + n,
                          !.pbuf = IF Len(Rest) <= cb.need THEN @ + 1 ELSE @,
                          !.off = IF Len(Rest) <= cb.need THEN 0 ELSE @ + n]
  BY <1>5, <1>6 DEF CbCopy
<1>8. block' \in Seq(Seq(Nat)) /\ Longer(block', block, recvQueue[1].op, x)
  <2>1. PICK p \in 1..Len(block) : p = recvQueue[1].op /\ recvQueue[1].off = Len(block[p])
    BY <1>1, <1>2, FirstIs
  <2>2. block \in Seq(Seq(Nat))
    BY <1>1 DEF SockShape
  <2>3. block' = [block EXCEPT ![p] = Take(@, Len(block[p])) \o x]
    BY <1>7, <2>1 DEF Written
  <2> QED
    BY <2>1, <2>2, <2>3, WrittenIs
<1>9. PICK p2 \in Nat \ {0}, o2 \in Nat :
        /\ p2 = IF n = Len(Rest) THEN cb.pbuf + 1 ELSE cb.pbuf
        /\ o2 = IF n = Len(Rest) THEN 0 ELSE cb.off + n
  BY <1>4, <1>5
<1>10. PICK a2 \in 0..(LenMod - 1), d2 \in 0..(LenMod - 1), k2 \in Nat :
         a2 = cb.avail - n /\ d2 = cb.need - n /\ k2 = cb.ack + n
  <2>1. cb.avail - n \in 0..(LenMod - 1)
    BY <1>4, <1>5, ConstantFacts
  <2>2. cb.need - n \in 0..(LenMod - 1)
    BY <1>4, <1>5, ConstantFacts
  <2>3. cb.ack + n \in Nat
    BY <1>4
  <2> QED
    BY <2>1, <2>2, <2>3
<1>11. cb' = [cb EXCEPT !.avail = a2, !.need = d2, !.ack = k2, !.pbuf = p2, !.off = o2]
  BY <1>3, <1>5, <1>7, <1>9, <1>10
<1>12. /\ cb' \in Local /\ cb'.avail = a2 /\ cb'.need = d2 /\ cb'.ack = k2 /\ cb'.pbuf = p2
       /\ cb'.off = o2 /\ cb'.full = cb.full
  BY <1>1, <1>11 DEF Local
<1> QED
  BY <1>2, <1>3, <1>5, <1>6, <1>7, <1>8, <1>9, <1>10, <1>12

\* A pbuf, or part of it, is copied to the block of the oldest waiting operation.
LEMMA CopyStep ==
  ASSUME SizesFit, IInv, CbCopy
  PROVE  IInv'
<1>1. /\ LwipShape /\ SockShape /\ CbShape /\ QueueInv /\ ReportInv /\ BytesInv /\ CountInv
      /\ ChainInv /\ PosInv
  BY DEF IInv, Shape
<1>2. /\ UNCHANGED <<sent, lost, acked, chain, registered, arg, buffer, unread, size, reported, pc>>
      /\ pc = "copy" /\ AtPbuf
  BY DEF CbCopy
<1>3. cb \in Local
  BY <1>1 DEF CbShape
<1>4. At(cb.pbuf, cb.off, cb.avail) /\ recvQueue # <<>> /\ cb.need = recvQueue[1].size
      /\ (cb.full <=> cb.need <= cb.avail)
  BY <1>1, <1>2 DEF PosInv
<1>5. PICK r \in Nat \ {0} : r = Len(Rest) /\ Rest \in Seq(Nat) /\ r <= cb.avail
                             /\ \A k \in 1..r : Rest[k] = sent - cb.avail + k
  BY <1>1, <1>2, <1>3, <1>4, RestIs
<1>6. PICK n \in 1..Len(Rest), x \in Seq(Nat) :
           /\ x = Take(Rest, n) /\ n <= recvQueue[1].size /\ n <= cb.avail /\ n <= cb.need
           /\ block' \in Seq(Seq(Nat)) /\ Longer(block', block, recvQueue[1].op, x)
           /\ recvQueue' = [recvQueue EXCEPT ![1].size = @ - n, ![1].off = @ + n]
           /\ cb' \in Local /\ cb'.avail = cb.avail - n /\ cb'.need = cb.need - n /\ cb'.ack = cb.ack + n
           /\ cb'.full = cb.full
           /\ cb'.pbuf = IF n = Len(Rest) THEN cb.pbuf + 1 ELSE cb.pbuf
           /\ cb'.off = IF n = Len(Rest) THEN 0 ELSE cb.off + n
  BY CopyIs
<1>7. n \in Nat /\ n \in 0..Len(Rest) /\ n \in 1..r
  BY <1>5
<1>8. Len(x) = n /\ \A k \in 1..n : x[k] = sent - cb.avail + k
  BY <1>5, <1>6, <1>7, TakeIs
<1>9. PICK p \in 1..Len(block) : /\ p = recvQueue[1].op /\ recvQueue[1].off = Len(block[p])
                                 /\ recvQueue[1].off \in Nat /\ recvQueue[1].size \in Nat
                                 /\ recvQueue[1].off + recvQueue[1].size = size[p] /\ block[p] \in Seq(Nat)
  BY <1>1, <1>4, FirstIs
<1>10. block \in Seq(Seq(Nat)) /\ Len(block) \in Nat /\ recvQueue \in Seq(Entry) /\ Len(block) = Len(size)
       /\ buffer = <<>> /\ Len(recvQueue) \in Nat /\ 1 \in 1..Len(recvQueue)
  BY <1>1, <1>4, FirstIs DEF SockShape
<1>11. /\ recvQueue' \in Seq(Entry) /\ Len(recvQueue') = Len(recvQueue) /\ recvQueue' # <<>>
       /\ recvQueue'[1].op = p /\ recvQueue'[1].size = recvQueue[1].size - n
       /\ recvQueue'[1].off = recvQueue[1].off + n
       /\ \A i \in 1..Len(recvQueue) : i # 1 => recvQueue'[i] = recvQueue[i]
       /\ \A i \in 1..Len(recvQueue) : recvQueue'[i].op = recvQueue[i].op
  <2>1. PICK q : q = recvQueue
    OBVIOUS
  <2>2. PICK w : w = recvQueue'
    OBVIOUS
  <2>3. Served(w, q, n)
    BY <1>6, <2>1, <2>2 DEF Served
  <2>4. q \in Seq(Entry) /\ q # <<>> /\ n \in Nat /\ n <= q[1].size
    BY <1>4, <1>6, <1>7, <1>10, <2>1
  <2>5. /\ w \in Seq(Entry) /\ Len(w) = Len(q) /\ w # <<>>
        /\ w[1].op = q[1].op /\ w[1].size = q[1].size - n /\ w[1].off = q[1].off + n
        /\ \A i \in 1..Len(q) : i # 1 => w[i] = q[i]
        /\ \A i \in 1..Len(q) : w[i].op = q[i].op
    BY <2>3, <2>4, FirstServed
  <2> QED
    BY <1>9, <2>1, <2>2, <2>5
<1>12. /\ Len(block') = Len(block) /\ block'[p] = block[p] \o x
       /\ \A i \in 1..Len(block) : i # p => block'[i] = block[i]
  BY <1>6, <1>9 DEF Longer
<1>13. Len(block'[p]) = Len(block[p]) + n /\ Len(block[p]) \in Nat
  <2>1. block[p] \in Seq(Nat)
    BY <1>9
  <2>2. Len(block[p]) \in Nat /\ Len(block[p] \o x) = Len(block[p]) + Len(x)
    BY <2>1, ConcatProperties, LenProperties
  <2> QED
    BY <1>8, <1>12, <2>2
<1>14. LwipShape' /\ SockShape' /\ CbShape'
  <2>1. SockShape'
    BY <1>1, <1>2, <1>6, <1>10, <1>11, <1>12 DEF SockShape
  <2>2. LwipShape'
    BY <1>1, <1>2, ChainFacts, LwipFrame
  <2>3. CbShape'
    BY <1>1, <1>2, <1>6 DEF CbShape
  <2> QED
    BY <2>1, <2>2, <2>3
<1>15. QueueInv'
  <2>1. ASSUME NEW i \in 1..Len(recvQueue')
        PROVE  /\ recvQueue'[i].op <= Len(size') /\ recvQueue'[i].off = Len(block'[recvQueue'[i].op])
               /\ recvQueue'[i].off + recvQueue'[i].size = size'[recvQueue'[i].op]
    <3>1. i \in 1..Len(recvQueue)
      BY <1>11
    <3>2. CASE i = 1
      <4>1. recvQueue[1].off + n + (recvQueue[1].size - n) = size[p]
        <5>1. PICK o \in Nat, z \in Nat : o = recvQueue[1].off /\ z = recvQueue[1].size
          BY <1>9
        <5>2. o + n + (z - n) = o + z
          BY <1>7, MovedPart
        <5> QED
          BY <1>9, <5>1, <5>2
      <4>2. p <= Len(size)
        BY <1>9, <1>10
      <4> QED
        BY <1>2, <1>9, <1>11, <1>13, <3>2, <4>1, <4>2
    <3>3. CASE i # 1
      <4>1. /\ recvQueue[i].op <= Len(size) /\ recvQueue[i].off = Len(block[recvQueue[i].op])
            /\ recvQueue[i].off + recvQueue[i].size = size[recvQueue[i].op] /\ recvQueue[i].op \in Nat \ {0}
        <5>1. recvQueue[i] \in Entry
          BY <1>10, <3>1, ElementOfSeq
        <5>2. recvQueue[i].op \in Nat \ {0}
          BY <5>1 DEF Entry
        <5> QED
          BY <1>1, <3>1, <5>2 DEF QueueInv
      <4>2. p < recvQueue[i].op
        <5>1. 1 < i
          BY <1>10, <3>1, <3>3
        <5> QED
          BY <1>1, <1>9, <1>10, <3>1, <5>1 DEF QueueInv
      <4>3. recvQueue[i].op \in 1..Len(block) /\ recvQueue[i].op # p
        BY <1>9, <1>10, <4>1, <4>2
      <4>4. block'[recvQueue[i].op] = block[recvQueue[i].op] /\ recvQueue'[i] = recvQueue[i]
        BY <1>11, <1>12, <3>1, <3>3, <4>3
      <4> QED
        BY <1>2, <4>1, <4>4
    <3> QED
      BY <3>2, <3>3
  <2>2. ASSUME NEW i \in 1..Len(recvQueue'), NEW j \in 1..Len(recvQueue'), i < j
        PROVE  recvQueue'[i].op < recvQueue'[j].op
    BY <1>1, <1>11, <2>2 DEF QueueInv
  <2>3. ASSUME NEW k \in 1..Len(block'), k > recvQueue'[1].op PROVE block'[k] = <<>>
    <3>1. k \in 1..Len(block) /\ k > p /\ k # p
      BY <1>9, <1>10, <1>11, <1>12, <2>3
    <3>2. block[k] = <<>>
      BY <1>1, <1>4, <1>9, <3>1 DEF QueueInv
    <3> QED
      BY <1>12, <3>1, <3>2
  <2>4. buffer' = <<>>
    BY <1>2, <1>10
  <2> QED
    BY <2>1, <2>2, <2>3, <2>4 DEF QueueInv
<1>16. ReportInv'
  <2>1. ASSUME NEW i \in 1..Len(reported)
        PROVE  /\ reported[i].op <= Len(size)
               /\ reported[i].ok =>
                    /\ Len(block'[reported[i].op]) = size[reported[i].op]
                    /\ \A j \in 1..(i - 1) : reported[j].ok => reported[j].op < reported[i].op
                    /\ \A q \in 1..Len(recvQueue') : reported[i].op < recvQueue'[q].op
    <3>1. reported[i].op <= Len(size) /\ reported[i].op \in Nat \ {0}
      <4>1. reported[i] \in Result
        BY <1>1, ElementOfSeq DEF SockShape
      <4>2. reported[i].op \in Nat \ {0}
        BY <4>1 DEF Result
      <4> QED
        BY <1>1, <4>2 DEF ReportInv
    <3>2. ASSUME reported[i].ok
          PROVE  /\ Len(block[reported[i].op]) = size[reported[i].op]
                 /\ \A j \in 1..(i - 1) : reported[j].ok => reported[j].op < reported[i].op
                 /\ \A q \in 1..Len(recvQueue) : reported[i].op < recvQueue[q].op
      BY <1>1, <3>2 DEF ReportInv
    <3>3. ASSUME reported[i].ok PROVE block'[reported[i].op] = block[reported[i].op]
      <4>1. reported[i].op < p
        <5>1. reported[i].op < recvQueue[1].op
          BY <1>10, <3>2, <3>3
        <5> QED
          BY <1>9, <5>1
      <4>2. reported[i].op \in 1..Len(block) /\ reported[i].op # p
        <5>1. PICK o \in Nat \ {0} : o = reported[i].op
          BY <3>1
        <5>2. p \in Nat /\ o < p /\ p <= Len(block) /\ Len(block) \in Nat
          BY <1>10, <4>1, <5>1
        <5>3. o \in 1..Len(block) /\ o # p
          BY <5>2
        <5> QED
          BY <5>1, <5>3
      <4> QED
        BY <1>12, <4>2
    <3>4. ASSUME reported[i].ok, NEW q \in 1..Len(recvQueue') PROVE reported[i].op < recvQueue'[q].op
      BY <1>11, <3>2, <3>4
    <3> QED
      BY <3>1, <3>2, <3>3, <3>4
  <2> QED
    BY <1>2, <2>1 DEF ReportInv
<1>17. Remaining = cb.avail /\ Remaining' = cb.avail - n
  BY <1>2, <1>6 DEF Remaining
<1>18. PICK a \in Nat, tb \in Nat : a = cb.avail /\ tb = TotLen(block) /\ lost + tb + a = sent
  <2>1. TotLen(block) \in Nat /\ cb.avail \in Nat
    BY <1>3, <1>10, LengthsIs, LocalFacts
  <2>2. lost + TotLen(block) + Len(buffer) + cb.avail = sent
    BY <1>1, <1>17 DEF CountInv
  <2>3. Len(buffer) = 0
    BY <1>10
  <2>4. lost \in Nat
    BY <1>1, ChainFacts
  <2> QED
    BY <2>1, <2>2, <2>3, <2>4
<1>19. TotLen(block') = tb + n
  BY <1>6, <1>8, <1>10, <1>18, LengthsMore
<1>20. sent \in Nat /\ lost \in Nat /\ acked \in Nat
  BY <1>1, ChainFacts
<1>21. BytesInv'
  <2>1. Consecutive(block', lost)
    <3>1. \A k \in 1..Len(x) : x[k] = lost + TotLen(block) + k
      <4>1. ASSUME NEW k \in 1..n PROVE sent - a + k = lost + tb + k
        <5>1. PICK l \in Nat, s \in Nat, i \in Nat : l = lost /\ s = sent /\ i = k
          BY <1>7, <1>20
        <5>2. l + tb + a = s
          BY <1>18, <5>1
        <5>3. s - a + i = l + tb + i
          BY <5>2, MovedSum
        <5> QED
          BY <5>1, <5>3
      <4> QED
        BY <1>8, <1>18, <4>1
    <3>2. Consecutive(block, lost) /\ lost \in Int
      BY <1>1, <1>20 DEF BytesInv
    <3>3. \A i \in 1..Len(block) : i > p => block[i] = <<>>
      BY <1>1, <1>4, <1>9 DEF QueueInv
    <3>4. Longer(block', block, p, x) /\ block' \in Seq(Seq(Nat))
      BY <1>6, <1>9
    <3> QED
      BY <1>10, <3>1, <3>2, <3>3, <3>4, ConsecutiveMore
  <2>2. Consecutive(block, lost)'
    BY <1>2, <2>1 DEF Consecutive
  <2>3. \A k \in 1..Len(buffer') : buffer'[k] = lost' + TotLen(block)' + k
    <3>1. Len(buffer') = 0
      BY <1>2, <1>10
    <3> QED
      BY <3>1
  <2>4. TotLen(chain)' = TotLen(chain)
    BY <1>2 DEF TotLen, Lengths, Ends
  <2>5. Consecutive(chain, sent - TotLen(chain))'
    <3>1. Consecutive(chain, sent - TotLen(chain))' = Consecutive(chain, sent - TotLen(chain))
      BY <1>2, <2>4 DEF Consecutive, Lengths, Ends
    <3> QED
      BY <1>1, <3>1 DEF BytesInv
  <2> QED
    BY <2>2, <2>3, <2>5 DEF BytesInv
<1>22. CountInv'
  <2>1. acked + cb.ack + a = sent /\ cb.ack \in Nat
    BY <1>1, <1>3, <1>17, <1>18, LocalFacts DEF CountInv
  <2>2. Len(buffer') = 0
    BY <1>2, <1>10
  <2>3. lost' + TotLen(block') + Len(buffer') + Remaining' = sent'
    <3>1. lost + (tb + n) + 0 + (a - n) = sent
      <4>1. PICK l \in Nat, s \in Nat, i \in Nat : l = lost /\ s = sent /\ i = n
        BY <1>7, <1>20
      <4>2. l + tb + a = s
        BY <1>18, <4>1
      <4>3. l + (tb + i) + 0 + (a - i) = s
        BY <4>2, MovedSum
      <4> QED
        BY <4>1, <4>3
    <3> QED
      BY <1>2, <1>17, <1>18, <1>19, <2>2, <3>1
  <2>4. acked' + cb'.ack + Remaining' = sent'
    <3>1. PICK c \in Nat : c = cb.ack
      BY <2>1
    <3>2. acked + c + a = sent
      BY <2>1, <3>1
    <3>3. acked + (c + n) + (a - n) = sent
      BY <1>7, <1>20, <3>2
    <3>4. cb'.ack = c + n /\ Remaining' = a - n /\ acked' = acked /\ sent' = sent
      BY <1>2, <1>6, <1>17, <1>18, <3>1
    <3> QED
      BY <3>3, <3>4
  <2> QED
    BY <2>3, <2>4 DEF CountInv
<1>23. ChainInv'
  <2>1. TotLen(chain)' = TotLen(chain)
    BY <1>2 DEF TotLen, Lengths, Ends
  <2>2. chain # <<>> /\ pc' \notin {"idle", "enter"} /\ registered = TRUE
    BY <1>1, <1>2 DEF ChainInv, LwipShape
  <2> QED
    BY <1>1, <1>2, <2>1, <2>2 DEF ChainInv
<1>24. PosInv'
  <2>1. At(cb.pbuf, cb.off, cb.avail)'
    <3>1. CASE n = Len(Rest)
      <4>1. At(cb.pbuf + 1, 0, cb.avail - n)
        BY <1>1, <1>2, <1>3, <1>4, <1>7, <3>1, Advance
      <4> QED
        BY <1>2, <1>6, <3>1, <4>1, AtFrame
    <3>2. CASE n # Len(Rest)
      <4>1. n < Len(Rest)
        BY <1>5, <1>7, <3>2
      <4>2. At(cb.pbuf, cb.off + n, cb.avail - n)
        BY <1>1, <1>2, <1>3, <1>4, <1>7, <4>1, Advance
      <4> QED
        BY <1>2, <1>6, <3>2, <4>2, AtFrame
    <3> QED
      BY <3>1, <3>2
  <2>2. cb'.need = recvQueue'[1].size
    BY <1>4, <1>6, <1>11
  <2>3. cb'.full <=> cb'.need <= cb'.avail
    <3>1. cb.need \in Nat /\ cb.avail \in Nat
      BY <1>3, LocalFacts
    <3>2. cb.need <= cb.avail <=> cb.need - n <= cb.avail - n
      BY <1>7, <3>1
    <3> QED
      BY <1>4, <1>6, <3>2
  <2> QED
    BY <1>2, <1>11, <2>1, <2>2, <2>3 DEF PosInv
<1> QED
  BY <1>14, <1>15, <1>16, <1>21, <1>22, <1>23, <1>24 DEF IInv, Shape

\* The oldest waiting operation is reported if it was announced to be served.
LEMMA NextStep ==
  ASSUME SizesFit, IInv, CbNext
  PROVE  IInv'
<1>1. /\ LwipShape /\ SockShape /\ CbShape /\ QueueInv /\ ReportInv /\ BytesInv /\ CountInv
      /\ ChainInv /\ PosInv
  BY DEF IInv, Shape
<1>2. /\ UNCHANGED <<sent, lost, acked, chain, registered, arg, buffer, unread, size, block, cb>>
      /\ pc = "copy" /\ pc' = "match" /\ ~(AtPbuf /\ cb.need > 0)
  BY DEF CbNext
<1>3. cb \in Local
  BY <1>1 DEF CbShape
<1>4. At(cb.pbuf, cb.off, cb.avail) /\ recvQueue # <<>> /\ cb.need = recvQueue[1].size
      /\ (cb.full <=> cb.need <= cb.avail)
  BY <1>1, <1>2 DEF PosInv
<1>5. LwipShape' /\ CbShape' /\ BytesInv'
  <2>1. BytesInv'
    BY <1>1, <1>2, BytesFrame
  <2>2. LwipShape'
    BY <1>1, <1>2, ChainFacts, LwipFrame
  <2>3. CbShape'
    BY <1>2, <1>3 DEF CbShape
  <2> QED
    BY <2>1, <2>2, <2>3
<1>6. CountInv'
  <2>1. TotLen(block)' = TotLen(block)
    BY <1>2 DEF TotLen, Lengths, Ends
  <2>2. Remaining' = Remaining
    BY <1>2 DEF Remaining
  <2> QED
    BY <1>1, <1>2, <2>1, <2>2 DEF CountInv
<1>7. ChainInv'
  <2>1. TotLen(chain)' = TotLen(chain)
    BY <1>2 DEF TotLen, Lengths, Ends
  <2>2. chain # <<>> /\ pc' \notin {"idle", "enter"} /\ registered' = TRUE
    BY <1>1, <1>2 DEF ChainInv, LwipShape
  <2> QED
    BY <1>1, <1>2, <2>1, <2>2 DEF ChainInv
<1>8. PosInv'
  <2>1. At(cb.pbuf, cb.off, cb.avail)'
    BY <1>2, <1>4, AtFrame
  <2> QED
    BY <1>2, <2>1 DEF PosInv
<1>9. CASE ~cb.full
  <2>1. UNCHANGED <<recvQueue, reported>>
    BY <1>9 DEF CbNext
  <2>2. SockShape'
    BY <1>1, <1>2, <2>1, SockFrame DEF opVars
  <2>3. QueueInv'
    BY <1>1, <1>2, <2>1, QueueFrame
  <2>4. ReportInv'
    BY <1>1, <1>2, <2>1, ReportFrame DEF opVars
  <2> QED
    BY <1>5, <1>6, <1>7, <1>8, <2>2, <2>3, <2>4 DEF IInv, Shape
<1>10. CASE cb.full
  <2>1. recvQueue' = Tail(recvQueue) /\ reported' = Append(reported, [op |-> recvQueue[1].op, ok |-> TRUE])
    BY <1>10 DEF CbNext
  <2>2. cb.need = 0
    <3>1. cb.need \in Nat /\ cb.avail \in Nat /\ cb.need <= cb.avail
      BY <1>3, <1>4, <1>10, LocalFacts
    <3>2. CASE ~AtPbuf
      BY <1>1, <1>3, <1>4, <3>1, <3>2, RestIs
    <3>3. CASE AtPbuf
      BY <1>2, <3>1, <3>3
    <3> QED
      BY <3>2, <3>3
  <2>3. PICK p \in 1..Len(block) : /\ p = recvQueue[1].op /\ Len(block[p]) = size[p]
    <3>1. /\ recvQueue[1].op \in 1..Len(block) /\ Len(block[recvQueue[1].op]) = recvQueue[1].off
          /\ recvQueue[1].off \in Nat /\ recvQueue[1].off + recvQueue[1].size = size[recvQueue[1].op]
      BY <1>1, <1>4, FirstIs
    <3> QED
      BY <1>4, <2>2, <3>1
  <2>4. PICK m \in Nat \ {0} : m = Len(recvQueue) /\ 1 \in 1..m /\ recvQueue \in Seq(Entry)
    BY <1>1, <1>4, FirstIs DEF SockShape
  <2>5. /\ recvQueue' \in Seq(Entry) /\ Len(recvQueue') = m - 1
        /\ \A i \in 1..(m - 1) : recvQueue'[i] = recvQueue[i + 1]
    BY <1>4, <2>1, <2>4, HeadTailProperties
  <2>6. Len(block) = Len(size) /\ Len(size) \in Nat /\ buffer = <<>>
    BY <1>1, <1>4, FirstIs
  <2>7. PICK res : res = [op |-> p, ok |-> TRUE]
    OBVIOUS
  <2>8. res \in Result /\ res.op = p /\ res.ok = TRUE
    BY <2>6, <2>7 DEF Result
  <2>9. reported \in Seq(Result)
    BY <1>1 DEF SockShape
  <2>10. PICK w \in Nat : w = Len(reported)
    BY <2>9, LenProperties
  <2>11. /\ reported' \in Seq(Result) /\ Len(reported') = w + 1
         /\ \A i \in 1..w : reported'[i] = reported[i]
         /\ reported'[w + 1] = res
    BY <2>1, <2>3, <2>7, <2>8, <2>9, <2>10, AppendProperties
  <2>12. SockShape'
    <3>1. Len(recvQueue') <= RecvQueueCap
      BY <1>1, <2>4, <2>5, ConstantFacts DEF SockShape
    <3> QED
      BY <1>1, <1>2, <2>5, <2>11, <3>1 DEF SockShape
  <2>13. \A i \in 1..(m - 1) : p < recvQueue'[i].op
    <3>1. ASSUME NEW i \in 1..(m - 1) PROVE p < recvQueue'[i].op
      <4>1. i + 1 \in 1..m /\ 1 < i + 1
        OBVIOUS
      <4>2. recvQueue[1].op < recvQueue[i + 1].op
        BY <1>1, <2>4, <4>1 DEF QueueInv
      <4> QED
        BY <2>3, <2>5, <4>2
    <3> QED
      BY <3>1
  <2>14. QueueInv'
    <3>1. ASSUME NEW i \in 1..(m - 1)
          PROVE  /\ recvQueue'[i].op <= Len(size') /\ recvQueue'[i].off = Len(block'[recvQueue'[i].op])
                 /\ recvQueue'[i].off + recvQueue'[i].size = size'[recvQueue'[i].op]
      <4>1. i + 1 \in 1..Len(recvQueue)
        BY <2>4
      <4>2. /\ recvQueue[i + 1].op <= Len(size) /\ recvQueue[i + 1].off = Len(block[recvQueue[i + 1].op])
            /\ recvQueue[i + 1].off + recvQueue[i + 1].size = size[recvQueue[i + 1].op]
        BY <1>1, <4>1 DEF QueueInv
      <4> QED
        BY <1>2, <2>5, <4>2
    <3>2. ASSUME NEW i \in 1..(m - 1), NEW j \in 1..(m - 1), i < j
          PROVE  recvQueue'[i].op < recvQueue'[j].op
      <4>1. i + 1 \in 1..Len(recvQueue) /\ j + 1 \in 1..Len(recvQueue) /\ i + 1 < j + 1
        BY <2>4, <3>2
      <4>2. recvQueue[i + 1].op < recvQueue[j + 1].op
        BY <1>1, <4>1 DEF QueueInv
      <4> QED
        BY <2>5, <4>2
    <3>3. ASSUME recvQueue' # <<>>, NEW k \in 1..Len(block'), k > recvQueue'[1].op PROVE block'[k] = <<>>
      <4>1. 1 \in 1..(m - 1)
        BY <2>4, <2>5, <3>3, EmptySeq
      <4>2. p < recvQueue'[1].op /\ recvQueue'[1].op \in Nat
        <5>1. recvQueue'[1] \in Entry
          BY <2>5, <4>1, ElementOfSeq
        <5> QED
          BY <2>13, <4>1, <5>1 DEF Entry
      <4>3. k \in 1..Len(block) /\ k > p
        BY <1>2, <2>6, <3>3, <4>2
      <4>4. block[k] = <<>>
        BY <1>1, <1>4, <2>3, <4>3 DEF QueueInv
      <4> QED
        BY <1>2, <4>4
    <3>4. buffer' = <<>>
      BY <1>2, <2>6
    <3> QED
      BY <2>5, <3>1, <3>2, <3>3, <3>4 DEF QueueInv
  <2>15. ASSUME NEW i \in 1..w, reported[i].ok PROVE reported[i].op < p
    BY <1>1, <2>3, <2>4, <2>10, <2>15 DEF ReportInv
  <2>16. ReportInv'
    <3>1. ASSUME NEW i \in 1..(w + 1)
          PROVE  /\ reported'[i].op <= Len(size)
                 /\ reported'[i].ok =>
                      /\ Len(block[reported'[i].op]) = size[reported'[i].op]
                      /\ \A j \in 1..(i - 1) : reported'[j].ok => reported'[j].op < reported'[i].op
                      /\ \A q \in 1..(m - 1) : reported'[i].op < recvQueue'[q].op
      <4>1. CASE i = w + 1
        <5>1. reported'[i].op = p /\ p <= Len(size)
          BY <2>6, <2>8, <2>11, <4>1
        <5>2. ASSUME NEW j \in 1..(i - 1), reported'[j].ok PROVE reported'[j].op < p
          <6>1. j \in 1..w
            BY <4>1
          <6>2. reported'[j] = reported[j]
            BY <2>11, <6>1
          <6> QED
            BY <2>15, <5>2, <6>1, <6>2
        <5> QED
          BY <2>3, <2>13, <5>1, <5>2
      <4>2. CASE i # w + 1
        <5>1. i \in 1..w
          BY <4>2
        <5>2. reported'[i] = reported[i]
          BY <2>11, <5>1
        <5>3. /\ reported[i].op <= Len(size)
              /\ reported[i].ok =>
                   /\ Len(block[reported[i].op]) = size[reported[i].op]
                   /\ \A j \in 1..(i - 1) : reported[j].ok => reported[j].op < reported[i].op
                   /\ \A q \in 1..m : reported[i].op < recvQueue[q].op
          BY <1>1, <2>4, <2>10, <5>1 DEF ReportInv
        <5>4. \A j \in 1..(i - 1) : reported'[j] = reported[j]
          BY <2>11, <5>1
        <5>5. \A q \in 1..(m - 1) : q + 1 \in 1..m /\ recvQueue'[q] = recvQueue[q + 1]
          BY <2>4, <2>5
        <5> QED
          BY <5>2, <5>3, <5>4, <5>5
      <4> QED
        BY <4>1, <4>2
    <3> QED
      BY <1>2, <2>5, <2>11, <3>1 DEF ReportInv
  <2> QED
    BY <1>5, <1>6, <1>7, <1>8, <2>12, <2>14, <2>16 DEF IInv, Shape
<1> QED
  BY <1>9, <1>10

\* The callback ends: what is left of the chain is refused, or the chain is freed.
LEMMA LeaveStep ==
  ASSUME IInv, CbLeave
  PROVE  IInv'
<1>1. /\ LwipShape /\ SockShape /\ CbShape /\ QueueInv /\ ReportInv /\ BytesInv /\ CountInv
      /\ ChainInv /\ PosInv
  BY DEF IInv, Shape
<1>2. /\ UNCHANGED <<sent, lost, registered, arg, buffer, recvQueue>> /\ UNCHANGED <<size, block, reported>>
      /\ acked' = acked + cb.ack /\ pc \in {"leave", "store"} /\ pc' = "idle" /\ cb' = NoCall
  BY DEF CbLeave, opVars, Ackable
<1>3. cb \in Local
  BY <1>1 DEF CbShape
<1>4. PICK a \in Nat, t \in Nat, c \in Nat :
        a = cb.avail /\ t = TotLen(chain) /\ a <= t /\ t < LenMod /\ c = cb.ack
  <2>1. cb.avail \in Nat /\ cb.ack \in Nat /\ TotLen(chain) \in Nat /\ TotLen(chain) < LenMod
    BY <1>1, <1>3, ChainFacts, LocalFacts
  <2>2. cb.avail <= TotLen(chain)
    <3>1. CASE pc = "leave"
      BY <1>1, <3>1 DEF PosInv
    <3>2. CASE pc = "store"
      <4>1. At(cb.pbuf, cb.off, cb.avail)
        BY <1>1, <3>2 DEF PosInv
      <4> QED
        BY <1>1, <1>3, <4>1, RestIs
    <3> QED
      BY <1>2, <3>1, <3>2
  <2> QED
    BY <2>1, <2>2
<1>5. Remaining = a
  BY <1>2, <1>4 DEF Remaining
<1>6. SockShape' /\ QueueInv' /\ ReportInv' /\ CbShape' /\ PosInv'
  <2>1. SockShape'
    BY <1>1, <1>2, SockFrame DEF opVars
  <2>2. QueueInv'
    BY <1>1, <1>2, QueueFrame
  <2>3. ReportInv'
    BY <1>1, <1>2, ReportFrame DEF opVars
  <2>4. CbShape'
    BY <1>2, NoCallIs DEF CbShape
  <2>5. PosInv'
    BY <1>2 DEF PosInv
  <2> QED
    BY <2>1, <2>2, <2>3, <2>4, <2>5
<1>7. registered = TRUE /\ chain # <<>>
  BY <1>1, <1>2 DEF ChainInv, LwipShape
<1>8. sent \in Nat /\ lost \in Nat /\ acked \in Nat /\ acked' \in Nat
  BY <1>1, <1>2, <1>4, ChainFacts
<1>9. lost + TotLen(block) + Len(buffer) + a = sent /\ acked + c + a = sent
  BY <1>1, <1>4, <1>5 DEF CountInv
<1>10. TotLen(block)' = TotLen(block)
  BY <1>2 DEF TotLen, Lengths, Ends
<1>11. CASE a > 0
  <2>1. unread' = t - a /\ UNCHANGED chain
    BY <1>4, <1>11 DEF CbLeave
  <2>2. TotLen(chain)' = TotLen(chain)
    BY <2>1 DEF TotLen, Lengths, Ends
  <2>3. unread' \in Nat /\ unread' < t /\ t - unread' = a
    BY <1>4, <1>11, <2>1
  <2>4. LwipShape'
    BY <1>1, <1>2, <1>8, <2>1, <2>2, <2>3 DEF LwipShape
  <2>5. BytesInv'
    BY <1>1, <1>2, <2>1, BytesFrame
  <2>6. Remaining' = a
    BY <1>2, <1>4, <2>2, <2>3 DEF Remaining
  <2>7. CountInv'
    <3>1. acked' + 0 + a = sent
      BY <1>2, <1>4, <1>8, <1>9
    <3> QED
      BY <1>2, <1>9, <1>10, <2>6, <3>1, NoCallIs DEF CountInv
  <2>8. ChainInv'
    BY <1>2, <1>4, <1>7, <2>1, <2>2, <2>3 DEF ChainInv
  <2> QED
    BY <1>6, <2>4, <2>5, <2>7, <2>8 DEF IInv, Shape
<1>12. CASE ~(a > 0)
  <2>1. unread' = 0 /\ chain' = <<>> /\ a = 0
    BY <1>4, <1>12 DEF CbLeave
  <2>2. TotLen(chain') = 0 /\ Len(chain') = 0 /\ chain' \in Seq(Seq(Nat) \ {<<>>})
    BY <2>1, LengthsEmpty, EmptySeq
  <2>3. TotLen(chain)' = 0
    BY <2>2
  <2>4. LwipShape'
    BY <1>1, <1>2, <1>8, <2>1, <2>2, <2>3, ConstantFacts DEF LwipShape
  <2>5. BytesInv'
    <3>1. Consecutive(block, lost)' = Consecutive(block, lost)
      BY <1>2 DEF Consecutive, Lengths, Ends
    <3>2. Consecutive(chain, sent - TotLen(chain))'
      BY <2>2 DEF Consecutive
    <3> QED
      BY <1>1, <1>2, <1>10, <3>1, <3>2 DEF BytesInv
  <2>6. Remaining' = 0
    BY <1>2, <2>1, <2>3 DEF Remaining
  <2>7. CountInv'
    <3>1. acked' + 0 + 0 = sent
      BY <1>2, <1>4, <1>8, <1>9, <2>1
    <3> QED
      BY <1>2, <1>9, <1>10, <2>1, <2>6, <3>1, NoCallIs DEF CountInv
  <2>8. ChainInv'
    BY <1>2, <1>7, <2>1 DEF ChainInv
  <2> QED
    BY <1>6, <2>4, <2>5, <2>7, <2>8 DEF IInv, Shape
<1> QED
  BY <1>11, <1>12

\* What no operation waits for goes to recv_buffer.
LEMMA StoreStep ==
  ASSUME IInv, CbStore
  PROVE  IInv'
<1>1. /\ LwipShape /\ SockShape /\ CbShape /\ QueueInv /\ ReportInv /\ BytesInv /\ CountInv
      /\ ChainInv /\ PosInv
  BY DEF IInv, Shape
<1>2. /\ UNCHANGED <<sent, lost, acked, chain, registered, arg, recvQueue, unread>>
      /\ UNCHANGED <<size, block, reported>> /\ pc = "store" /\ AtPbuf /\ cb.avail > 0
  BY DEF CbStore, opVars
<1>3. cb \in Local
  BY <1>1 DEF CbShape
<1>4. At(cb.pbuf, cb.off, cb.avail) /\ recvQueue = <<>>
  BY <1>1, <1>2, <1>3, LocalFacts DEF PosInv
<1>5. PICK r \in Nat \ {0}, a \in Nat, c \in Nat :
        /\ r = Len(Rest) /\ a = cb.avail /\ c = cb.ack /\ Rest \in Seq(Nat) /\ r <= a /\ a < LenMod
        /\ a <= TotLen(chain)
        /\ \A k \in 1..r : Rest[k] = sent - a + k
  BY <1>1, <1>2, <1>3, <1>4, LocalFacts, RestIs
<1>6. PICK b \in Nat : b = Len(buffer) /\ b <= BufCap /\ buffer \in Seq(Nat)
  BY <1>1, LenProperties DEF SockShape
<1>7. PICK n \in 0..r : n = Min2(Len(Rest), Room) /\ b + n <= BufCap
  <2>1. Room \in Nat /\ Room = BufCap - b
    BY <1>6, ConstantFacts DEF Room
  <2>2. Min2(Len(Rest), Room) \in 0..r /\ b + Min2(Len(Rest), Room) <= BufCap
    BY <1>5, <1>6, <2>1, ConstantFacts DEF Min2
  <2> QED
    BY <2>2
<1>8. n \in Nat /\ n \in 0..Len(Rest)
  BY <1>5
<1>9. PICK x \in Seq(Nat) : x = Take(Rest, n) /\ Len(x) = n /\ \A k \in 1..n : x[k] = Rest[k]
  BY <1>5, <1>8, TakeIs
<1>10. buffer' = buffer \o x /\ cb' = Stored(n) /\ pc' = IF n < r THEN "leave" ELSE "store"
  BY <1>5, <1>7, <1>9 DEF CbStore
<1>11. /\ buffer' \in Seq(Nat) /\ Len(buffer') = b + n
       /\ \A k \in 1..(b + n) : buffer'[k] = IF k <= b THEN buffer[k] ELSE x[k - b]
  <2>1. /\ buffer \o x \in Seq(Nat) /\ Len(buffer \o x) = Len(buffer) + Len(x)
        /\ \A k \in 1..(Len(buffer) + Len(x)) :
             (buffer \o x)[k] = IF k <= Len(buffer) THEN buffer[k] ELSE x[k - Len(buffer)]
    BY <1>6, ConcatProperties
  <2> QED
    BY <1>6, <1>9, <1>10, <2>1
<1>12. /\ cb' \in Local /\ cb'.avail = a - n /\ cb'.ack = c + n
       /\ n = r => cb'.pbuf = cb.pbuf + 1 /\ cb'.off = 0
  <2>1. PICK a2 \in 0..(LenMod - 1), c2 \in Nat : a2 = a - n /\ c2 = c + n
    <3>1. a - n \in 0..(LenMod - 1)
      BY <1>5, <1>8, ConstantFacts
    <3> QED
      BY <1>8, <3>1
  <2>2. PICK p2 \in Nat \ {0} : p2 = cb.pbuf + 1
    BY <1>3, LocalFacts
  <2>3. CASE n < r
    <3>1. cb' = [cb EXCEPT !.avail = a2, !.ack = c2]
      BY <1>5, <1>10, <2>1, <2>3 DEF Stored
    <3>2. cb' \in Local /\ cb'.avail = a2 /\ cb'.ack = c2
      BY <1>3, <3>1 DEF Local
    <3> QED
      BY <2>1, <2>3, <3>2
  <2>4. CASE ~(n < r)
    <3>1. cb' = [cb EXCEPT !.avail = a2, !.ack = c2, !.pbuf = p2, !.off = 0]
      BY <1>5, <1>10, <2>1, <2>2, <2>4 DEF Stored
    <3>2. cb' \in Local /\ cb'.avail = a2 /\ cb'.ack = c2 /\ cb'.pbuf = p2 /\ cb'.off = 0
      BY <1>3, <3>1 DEF Local
    <3> QED
      BY <2>1, <2>2, <3>2
  <2> QED
    BY <2>3, <2>4
<1>13. LwipShape' /\ SockShape' /\ CbShape'
  <2>1. SockShape'
    BY <1>1, <1>2, <1>7, <1>11 DEF SockShape
  <2>2. LwipShape'
    BY <1>1, <1>2, ChainFacts, LwipFrame
  <2>3. CbShape'
    BY <1>10, <1>12 DEF CbShape
  <2> QED
    BY <2>1, <2>2, <2>3
<1>14. QueueInv'
  <2>1. recvQueue' = <<>> /\ Len(recvQueue') = 0
    BY <1>2, <1>4
  <2> QED
    BY <2>1 DEF QueueInv
<1>15. ReportInv'
  BY <1>1, <1>2, ReportFrame DEF opVars
<1>16. sent \in Nat /\ lost \in Nat /\ acked \in Nat
  BY <1>1, ChainFacts
<1>17. PICK tb \in Nat : tb = TotLen(block) /\ lost + tb + b + a = sent /\ acked + c + a = sent
  <2>1. TotLen(block) \in Nat
    BY <1>1, LengthsIs DEF SockShape
  <2>2. Remaining = a
    BY <1>2, <1>5 DEF Remaining
  <2> QED
    BY <1>1, <1>5, <1>6, <2>1, <2>2 DEF CountInv
<1>18. TotLen(block)' = tb
  BY <1>2, <1>17 DEF TotLen, Lengths, Ends
<1>19. BytesInv'
  <2>1. ASSUME NEW k \in 1..(b + n) PROVE buffer'[k] = lost + tb + k
    <3>1. CASE k <= b
      <4>1. k \in 1..b
        BY <3>1
      <4>2. buffer[k] = lost + tb + k
        BY <1>1, <1>6, <1>17, <4>1 DEF BytesInv
      <4> QED
        BY <1>11, <3>1, <4>2
    <3>2. CASE k > b
      <4>1. k - b \in 1..n /\ k - b \in 1..r /\ ~(k <= b) /\ k \in Nat
        BY <1>8, <3>2
      <4>2. x[k - b] = sent - a + (k - b)
        BY <1>5, <1>9, <4>1
      <4>3. sent - a + (k - b) = lost + tb + k
        <5>1. lost + tb + b + a = sent
          BY <1>17
        <5>2. PICK l \in Nat, s \in Nat : l = lost /\ s = sent
          BY <1>16
        <5>3. l + tb + b + a = s
          BY <5>1, <5>2
        <5>4. s - a + (k - b) = l + tb + k
          BY <4>1, <5>3
        <5> QED
          BY <5>2, <5>4
      <4> QED
        BY <1>11, <4>1, <4>2, <4>3
    <3>3. k <= b \/ k > b
      BY <1>8
    <3> QED
      BY <3>1, <3>2, <3>3
  <2>2. Consecutive(block, lost)' = Consecutive(block, lost)
    BY <1>2 DEF Consecutive, Lengths, Ends
  <2>3. TotLen(chain)' = TotLen(chain)
    BY <1>2 DEF TotLen, Lengths, Ends
  <2>4. Consecutive(chain, sent - TotLen(chain))' = Consecutive(chain, sent - TotLen(chain))
    BY <1>2, <2>3 DEF Consecutive, Lengths, Ends
  <2>5. \A k \in 1..Len(buffer') : buffer'[k] = lost' + TotLen(block)' + k
    BY <1>2, <1>11, <1>18, <2>1
  <2> QED
    BY <1>1, <2>2, <2>4, <2>5 DEF BytesInv
<1>20. CountInv'
  <2>1. Remaining' = a - n
    BY <1>10, <1>12 DEF Remaining
  <2>2. lost + tb + (b + n) + (a - n) = sent /\ acked + (c + n) + (a - n) = sent
    BY <1>8, <1>16, <1>17
  <2> QED
    BY <1>2, <1>11, <1>12, <1>18, <2>1, <2>2 DEF CountInv
<1>21. ChainInv'
  <2>1. TotLen(chain)' = TotLen(chain)
    BY <1>2 DEF TotLen, Lengths, Ends
  <2>2. chain # <<>> /\ pc' \notin {"idle", "enter"} /\ registered' = TRUE
    BY <1>1, <1>2, <1>10 DEF ChainInv, LwipShape
  <2> QED
    BY <1>1, <1>2, <2>1, <2>2 DEF ChainInv
<1>22. PosInv'
  <2>1. CASE n < r
    <3>1. TotLen(chain)' = TotLen(chain) /\ TotLen(chain) \in Nat
      BY <1>1, <1>2, ChainFacts DEF TotLen, Lengths, Ends
    <3>2. a - n <= TotLen(chain)
      BY <1>5, <1>8, <3>1
    <3>3. pc' = "leave"
      BY <1>10, <2>1
    <3> QED
      BY <1>12, <3>1, <3>2, <3>3 DEF PosInv
  <2>2. CASE n = r
    <3>1. At(cb.pbuf + 1, 0, cb.avail - n)
      BY <1>1, <1>2, <1>3, <1>4, <1>5, <1>8, <2>2, Advance
    <3>2. At(cb.pbuf, cb.off, cb.avail)'
      BY <1>2, <1>5, <1>12, <2>2, <3>1, AtFrame
    <3>3. pc' = "store" /\ recvQueue' = <<>>
      BY <1>2, <1>4, <1>10, <2>2
    <3> QED
      BY <3>2, <3>3 DEF PosInv
  <2>3. n < r \/ n = r
    OBVIOUS
  <2> QED
    BY <2>1, <2>2, <2>3
<1> QED
  BY <1>13, <1>14, <1>15, <1>19, <1>20, <1>21, <1>22 DEF IInv, Shape

\* New data.
LEMMA ArriveStep ==
  ASSUME IInv, NEW c \in Chains, Arrive(c)
  PROVE  IInv'
<1>1. /\ LwipShape /\ SockShape /\ CbShape /\ QueueInv /\ ReportInv /\ BytesInv /\ CountInv
      /\ ChainInv /\ PosInv
  BY DEF IInv, Shape
<1>2. /\ UNCHANGED <<registered, arg, buffer, recvQueue, unread, cb>> /\ UNCHANGED <<size, block, reported>>
      /\ pc = "idle" /\ chain = <<>> /\ sent + TotLen(Fresh(c)) <= MaxBytes
      /\ sent' = sent + TotLen(Fresh(c))
  BY DEF Arrive, opVars
<1>3. sent \in Nat /\ lost \in Nat /\ acked \in Nat /\ lost <= sent
  BY <1>1, ChainFacts
<1>4. /\ Fresh(c) \in Seq(Seq(Nat) \ {<<>>}) /\ Fresh(c) # <<>>
      /\ TotLen(Fresh(c)) = Ends(c)[Len(c)] /\ TotLen(Fresh(c)) \in Nat
      /\ Consecutive(Fresh(c), sent)
  <2>1. c \in Seq(Nat \ {0}) /\ c # <<>>
    BY ConstantFacts
  <2> QED
    BY <1>3, <2>1, FreshIs
<1>5. PICK t \in Nat : t = TotLen(Fresh(c)) /\ t < LenMod /\ t >= 1
  BY <1>4, ConstantFacts, ChainIs
<1>6. sent' = sent + t /\ sent' \in 0..MaxBytes
  BY <1>2, <1>3, <1>5, ConstantFacts
<1>7. unread = 0 /\ cb = NoCall
  BY <1>1, <1>2 DEF ChainInv
<1>8. SockShape' /\ QueueInv' /\ ReportInv'
  <2>1. SockShape'
    BY <1>1, <1>2, SockFrame DEF opVars
  <2>2. QueueInv'
    BY <1>1, <1>2, QueueFrame
  <2>3. ReportInv'
    BY <1>1, <1>2, ReportFrame DEF opVars
  <2> QED
    BY <2>1, <2>2, <2>3
<1>9. PICK tb \in Nat, b \in Nat : /\ tb = TotLen(block) /\ b = Len(buffer)
                                   /\ lost + tb + b = sent /\ acked = sent
  <2>1. TotLen(block) \in Nat /\ Len(buffer) \in Nat
    BY <1>1, LengthsIs, LenProperties DEF SockShape
  <2>2. Remaining = 0
    BY <1>1, <1>2, <1>7, ChainFacts DEF Remaining
  <2>3. cb.ack = 0
    BY <1>7, NoCallIs
  <2>4. lost + TotLen(block) + Len(buffer) + 0 = sent /\ acked + 0 + 0 = sent
    BY <1>1, <2>2, <2>3 DEF CountInv
  <2> QED
    BY <1>3, <2>1, <2>4
<1>10. TotLen(block)' = TotLen(block)
  BY <1>2 DEF TotLen, Lengths, Ends
<1>11. CASE registered
  <2>1. chain' = Fresh(c) /\ pc' = "enter" /\ UNCHANGED <<acked, lost>>
    BY <1>11 DEF Arrive
  <2>2. TotLen(chain') = t /\ chain' \in Seq(Seq(Nat) \ {<<>>}) /\ chain' # <<>>
        /\ Consecutive(chain', sent)
    BY <1>4, <1>5, <2>1
  <2>3. TotLen(chain)' = t
    BY <2>2
  <2>4. LwipShape'
    <3>1. lost' \in 0..sent'
      BY <1>3, <1>6, <2>1
    <3> QED
      BY <1>1, <1>2, <1>5, <1>6, <2>1, <2>2, <2>3, <3>1 DEF LwipShape
  <2>5. CbShape'
    BY <1>1, <1>2, <2>1 DEF CbShape
  <2>6. BytesInv'
    <3>1. Consecutive(block, lost)' = Consecutive(block, lost)
      BY <1>2, <2>1 DEF Consecutive, Lengths, Ends
    <3>2. sent' - TotLen(chain)' = sent
      BY <1>3, <1>6, <2>3
    <3>3. Consecutive(chain, sent - TotLen(chain))'
      BY <2>2, <3>2 DEF Consecutive
    <3> QED
      BY <1>1, <1>2, <1>10, <2>1, <3>1, <3>3 DEF BytesInv
  <2>7. Remaining' = t
    BY <1>2, <1>7, <2>1, <2>3 DEF Remaining
  <2>8. CountInv'
    <3>1. cb'.ack = 0
      BY <1>2, <1>7, NoCallIs
    <3>2. lost + tb + b + t = sent + t /\ acked + 0 + t = sent + t
      BY <1>3, <1>9
    <3> QED
      BY <1>2, <1>6, <1>9, <1>10, <2>1, <2>7, <3>1, <3>2 DEF CountInv
  <2>9. ChainInv'
    BY <1>2, <1>5, <1>7, <1>11, <2>1, <2>2, <2>3 DEF ChainInv
  <2>10. PosInv'
    BY <2>1 DEF PosInv
  <2> QED
    BY <1>8, <2>4, <2>5, <2>6, <2>8, <2>9, <2>10 DEF IInv, Shape
<1>12. CASE ~registered
  <2>1. acked' = acked + t /\ lost' = sent' /\ UNCHANGED <<chain, pc>>
    BY <1>5, <1>12 DEF Arrive
  <2>2. lost = sent /\ size = <<>> /\ buffer = <<>> /\ recvQueue = <<>>
    BY <1>1, <1>12 DEF ChainInv
  <2>3. tb = 0 /\ b = 0
    BY <1>3, <1>9, <2>2
  <2>4. block = <<>>
    <3>1. Len(block) = 0 /\ block \in Seq(Seq(Nat))
      BY <1>1, <2>2 DEF SockShape
    <3> QED
      BY <3>1, EmptySeq
  <2>5. TotLen(chain)' = 0
    BY <1>2, <2>1, LengthsEmpty
  <2>6. LwipShape'
    <3>1. lost' \in 0..sent' /\ acked' \in Nat
      BY <1>3, <1>6, <2>1
    <3> QED
      BY <1>1, <1>2, <1>6, <2>1, <2>5, <3>1, ConstantFacts DEF LwipShape
  <2>7. CbShape'
    BY <1>1, <1>2, <2>1 DEF CbShape
  <2>8. BytesInv'
    <3>1. Len(block') = 0 /\ Len(buffer') = 0 /\ Len(chain') = 0
      BY <1>2, <2>1, <2>2, <2>4
    <3> QED
      BY <3>1 DEF BytesInv, Consecutive
  <2>9. Remaining' = 0
    BY <1>2, <1>7, <2>1, <2>5 DEF Remaining
  <2>10. CountInv'
    <3>1. cb'.ack = 0
      BY <1>2, <1>7, NoCallIs
    <3>2. (sent + t) + 0 + 0 + 0 = sent + t /\ (acked + t) + 0 + 0 = sent + t
      BY <1>3, <1>9
    <3> QED
      BY <1>2, <1>6, <1>9, <1>10, <2>1, <2>3, <2>9, <3>1, <3>2 DEF CountInv
  <2>11. ChainInv'
    BY <1>2, <1>7, <1>12, <2>1, <2>2 DEF ChainInv
  <2>12. PosInv'
    BY <1>2, <2>1 DEF PosInv
  <2> QED
    BY <1>8, <2>6, <2>7, <2>8, <2>10, <2>11, <2>12 DEF IInv, Shape
<1>13. registered \in BOOLEAN
  BY <1>1 DEF LwipShape
<1> QED
  BY <1>11, <1>12, <1>13

\* What recv_buffer gives to a new operation.
LEMMA PoppedIs ==
  ASSUME SizesFit, SockShape, NEW n \in Sizes
  PROVE  /\ n \in Nat \ {0} /\ n < LenMod /\ Len(buffer) \in Nat
         /\ Popped(n) \in 0..Len(buffer) /\ Popped(n) \in Nat /\ Popped(n) <= n
         /\ Popped(n) < n => Popped(n) = Len(buffer)
<1>1. LenMod \in Nat /\ LenMod >= 1 /\ n \in 1..(LenMod - 1)
  BY ConstantFacts DEF SizesFit
<1>2. n \in Nat \ {0} /\ n < LenMod
  BY <1>1
<1>3. n % LenMod = n
  BY <1>1, <1>2
<1>4. Len(buffer) \in Nat
  BY LenProperties DEF SockShape
<1> QED
  BY <1>2, <1>3, <1>4 DEF Popped, Min2

\* What tx_tcp_recv does with the new operation.
LEMMA RecvIs ==
  ASSUME SizesFit, IInv, NEW n \in Sizes, RecvOp(n)
  PROVE  \E popped \in 0..Len(buffer) :
           /\ popped <= n /\ (popped < n => popped = Len(buffer))
           /\ size' = Append(size, n) /\ block' = Append(block, Take(buffer, popped))
           /\ buffer' = Drop(buffer, popped)
           /\ \/ /\ popped = n /\ recvQueue = <<>> /\ recvQueue' = recvQueue
                 /\ reported' = Append(reported, [op |-> Len(size) + 1, ok |-> TRUE])
              \/ /\ popped < n /\ Len(recvQueue) < RecvQueueCap /\ reported' = reported
                 /\ recvQueue' = Append(recvQueue, [op |-> Len(size) + 1, size |-> n - popped, off |-> popped])
              \/ /\ popped < n /\ Len(recvQueue) = RecvQueueCap /\ recvQueue' = recvQueue
                 /\ reported' = Append(reported, [op |-> Len(size) + 1, ok |-> FALSE])
<1>1. SockShape /\ QueueInv
  BY DEF IInv, Shape
<1>2. PICK popped \in 0..Len(buffer) : popped = Popped(n)
  BY <1>1, PoppedIs
<1>3. n \in Nat \ {0} /\ popped \in Nat /\ popped <= n /\ (popped < n => popped = Len(buffer))
  BY <1>1, <1>2, PoppedIs
<1>4. /\ size' = Append(size, n) /\ block' = Append(block, Take(buffer, popped))
      /\ buffer' = Drop(buffer, popped)
      /\ \/ /\ popped > 0 /\ popped = n /\ recvQueue' = recvQueue
            /\ reported' = Append(reported, [op |-> Len(size) + 1, ok |-> TRUE])
         \/ /\ ~(popped > 0 /\ popped = n) /\ Len(recvQueue) < RecvQueueCap /\ reported' = reported
            /\ recvQueue' = Append(recvQueue, [op |-> Len(size) + 1, size |-> n - popped, off |-> popped])
         \/ /\ ~(popped > 0 /\ popped = n) /\ Len(recvQueue) = RecvQueueCap /\ recvQueue' = recvQueue
            /\ reported' = Append(reported, [op |-> Len(size) + 1, ok |-> FALSE])
  BY <1>2 DEF RecvOp
<1>5. popped > 0 /\ popped = n => recvQueue = <<>>
  <2>1. ASSUME popped > 0, recvQueue # <<>> PROVE FALSE
    <3>1. buffer = <<>>
      BY <1>1, <2>1 DEF QueueInv
    <3>2. Len(buffer) = 0
      BY <3>1
    <3> QED
      BY <2>1, <3>2
  <2> QED
    BY <2>1
<1>6. ~(popped > 0 /\ popped = n) => popped < n
  BY <1>3
<1> QED
  BY <1>3, <1>4, <1>5, <1>6

\* A new recv operation.
LEMMA RecvStep ==
  ASSUME SizesFit, IInv, NEW n \in Sizes, RecvOp(n)
  PROVE  IInv'
<1>1. /\ LwipShape /\ SockShape /\ CbShape /\ QueueInv /\ ReportInv /\ BytesInv /\ CountInv
      /\ ChainInv /\ PosInv
  BY DEF IInv, Shape
<1>2. /\ UNCHANGED <<sent, lost, acked, chain, arg, unread, pc, cb>>
      /\ pc = "idle" /\ Len(size) < MaxOps /\ registered' = TRUE
  BY DEF RecvOp
<1>3. PICK popped \in 0..Len(buffer) :
           /\ popped <= n /\ (popped < n => popped = Len(buffer))
           /\ size' = Append(size, n) /\ block' = Append(block, Take(buffer, popped))
           /\ buffer' = Drop(buffer, popped)
           /\ \/ /\ popped = n /\ recvQueue = <<>> /\ recvQueue' = recvQueue
                 /\ reported' = Append(reported, [op |-> Len(size) + 1, ok |-> TRUE])
              \/ /\ popped < n /\ Len(recvQueue) < RecvQueueCap /\ reported' = reported
                 /\ recvQueue' = Append(recvQueue, [op |-> Len(size) + 1, size |-> n - popped, off |-> popped])
              \/ /\ popped < n /\ Len(recvQueue) = RecvQueueCap /\ recvQueue' = recvQueue
                 /\ reported' = Append(reported, [op |-> Len(size) + 1, ok |-> FALSE])
  BY RecvIs
<1>4. /\ buffer \in Seq(Nat) /\ Len(buffer) <= BufCap /\ recvQueue \in Seq(Entry) /\ size \in Seq(Sizes)
      /\ block \in Seq(Seq(Nat)) /\ Len(block) = Len(size) /\ reported \in Seq(Result)
      /\ Len(recvQueue) <= RecvQueueCap
  BY <1>1 DEF SockShape
<1>5. PICK m \in Nat, b \in Nat, q \in Nat, w \in Nat :
        m = Len(size) /\ b = Len(buffer) /\ q = Len(recvQueue) /\ w = Len(reported)
  BY <1>4, LenProperties
<1>6. n \in Nat \ {0} /\ popped \in Nat /\ popped <= b
  BY <1>1, <1>5, PoppedIs
<1>7. PICK x \in Seq(Nat) : x = Take(buffer, popped) /\ Len(x) = popped /\ \A k \in 1..popped : x[k] = buffer[k]
  BY <1>4, TakeIs
<1>8. /\ buffer' \in Seq(Nat) /\ Len(buffer') = b - popped
      /\ \A k \in 1..(b - popped) : buffer'[k] = buffer[popped + k]
  BY <1>3, <1>4, <1>5, DropIs
<1>9. size' \in Seq(Sizes) /\ Len(size') = m + 1 /\ (\A i \in 1..m : size'[i] = size[i]) /\ size'[m + 1] = n
  BY <1>3, <1>4, <1>5, AppendProperties
<1>10. /\ block' \in Seq(Seq(Nat)) /\ Len(block') = m + 1 /\ (\A i \in 1..m : block'[i] = block[i])
       /\ block'[m + 1] = x
  BY <1>3, <1>4, <1>5, <1>7, AppendProperties
<1>11. recvQueue # <<>> => b = 0 /\ popped = 0 /\ x = <<>> /\ buffer' = <<>>
  <2>1. ASSUME recvQueue # <<>> PROVE b = 0 /\ popped = 0 /\ x = <<>> /\ buffer' = <<>>
    <3>1. buffer = <<>>
      BY <1>1, <2>1 DEF QueueInv
    <3>2. b = 0
      BY <1>5, <3>1
    <3>3. popped = 0
      BY <1>6, <3>2
    <3>4. x = <<>> /\ buffer' = <<>>
      BY <1>7, <1>8, <3>2, <3>3, EmptySeq
    <3> QED
      BY <3>2, <3>3, <3>4
  <2> QED
    BY <2>1
<1>12. popped < n => buffer' = <<>>
  BY <1>3, <1>5, <1>8, EmptySeq
<1>13. \A i \in 1..q : recvQueue[i].op \in 1..m
  <2>1. ASSUME NEW i \in 1..q PROVE recvQueue[i].op \in 1..m
    <3>1. recvQueue[i] \in Entry
      BY <1>4, <1>5, ElementOfSeq
    <3>2. recvQueue[i].op \in Nat \ {0}
      BY <3>1 DEF Entry
    <3>3. recvQueue[i].op <= m
      BY <1>1, <1>5 DEF QueueInv
    <3> QED
      BY <3>2, <3>3
  <2> QED
    BY <2>1
<1>14. \A i \in 1..w : reported[i].op \in 1..m
  <2>1. ASSUME NEW i \in 1..w PROVE reported[i].op \in 1..m
    <3>1. reported[i] \in Result
      BY <1>4, <1>5, ElementOfSeq
    <3>2. reported[i].op \in Nat \ {0}
      BY <3>1 DEF Result
    <3>3. reported[i].op <= m
      BY <1>1, <1>5 DEF ReportInv
    <3> QED
      BY <3>2, <3>3
  <2> QED
    BY <2>1
<1>15. LwipShape'
  <2>1. TotLen(chain)' = TotLen(chain)
    BY <1>2 DEF TotLen, Lengths, Ends
  <2> QED
    BY <1>1, <1>2, <2>1 DEF LwipShape
<1>16. CbShape' /\ PosInv'
  BY <1>1, <1>2 DEF CbShape, PosInv
<1>17. ChainInv'
  <2>1. TotLen(chain)' = TotLen(chain)
    BY <1>2 DEF TotLen, Lengths, Ends
  <2> QED
    BY <1>1, <1>2, <2>1 DEF ChainInv
<1>18. sent \in Nat /\ lost \in Nat /\ acked \in Nat
  BY <1>1, ChainFacts
<1>19. PICK tb \in Nat : tb = TotLen(block) /\ TotLen(block') = tb + popped
  <2>1. TotLen(block) \in Nat
    BY <1>4, LengthsIs
  <2>2. TotLen(Append(block, x)) = TotLen(block) + Len(x)
    BY <1>4, LengthsAppend
  <2> QED
    BY <1>3, <1>7, <2>1, <2>2
<1>20. \A k \in 1..b : buffer[k] = lost + tb + k
  BY <1>1, <1>5, <1>19 DEF BytesInv
<1>21. BytesInv'
  <2>1. Consecutive(block', lost)
    <3>1. Consecutive(block, lost)
      BY <1>1 DEF BytesInv
    <3>2. \A k \in 1..popped : k \in 1..b
      BY <1>6
    <3>3. \A k \in 1..Len(x) : x[k] = lost + TotLen(block) + k
      BY <1>7, <1>19, <1>20, <3>2
    <3>4. Consecutive(Append(block, x), lost)
      BY <1>4, <3>1, <3>3, ConsecutiveAppend
    <3> QED
      BY <1>3, <1>7, <3>4
  <2>2. Consecutive(block, lost)'
    BY <1>2, <2>1 DEF Consecutive
  <2>3. TotLen(block)' = tb + popped
    BY <1>19
  <2>4. ASSUME NEW k \in 1..(b - popped) PROVE buffer'[k] = lost + (tb + popped) + k
    <3>1. popped + k \in 1..b /\ k \in Nat
      BY <1>6
    <3>2. buffer'[k] = lost + tb + (popped + k)
      BY <1>8, <1>20, <3>1
    <3> QED
      BY <1>6, <1>18, <3>1, <3>2
  <2>5. TotLen(chain)' = TotLen(chain)
    BY <1>2 DEF TotLen, Lengths, Ends
  <2>6. Consecutive(chain, sent - TotLen(chain))' = Consecutive(chain, sent - TotLen(chain))
    BY <1>2, <2>5 DEF Consecutive, Lengths, Ends
  <2>7. \A k \in 1..Len(buffer') : buffer'[k] = lost' + TotLen(block)' + k
    BY <1>2, <1>8, <2>3, <2>4
  <2> QED
    BY <1>1, <2>2, <2>6, <2>7 DEF BytesInv
<1>22. CountInv'
  <2>1. TotLen(chain)' = TotLen(chain)
    BY <1>2 DEF TotLen, Lengths, Ends
  <2>2. Remaining' = Remaining
    BY <1>2, <2>1 DEF Remaining
  <2>3. PICK z \in Int : z = Remaining
    <3>1. TotLen(chain) \in Nat /\ unread \in Nat
      BY <1>1, ChainFacts
    <3> QED
      BY <1>2, <3>1 DEF Remaining
  <2>4. lost + tb + b + z = sent /\ acked + cb.ack + z = sent
    BY <1>1, <1>5, <1>19, <2>3 DEF CountInv
  <2>5. lost + (tb + popped) + (b - popped) + z = sent
    BY <1>6, <1>18, <2>4
  <2>6. TotLen(block)' = tb + popped
    BY <1>19
  <2> QED
    BY <1>2, <1>8, <2>2, <2>3, <2>4, <2>5, <2>6 DEF CountInv
<1>23. ASSUME NEW i \in 1..q
       PROVE  /\ recvQueue[i].op <= m + 1 /\ recvQueue[i].off = Len(block'[recvQueue[i].op])
              /\ recvQueue[i].off + recvQueue[i].size = size'[recvQueue[i].op]
  <2>1. /\ recvQueue[i].op <= m /\ recvQueue[i].off = Len(block[recvQueue[i].op])
        /\ recvQueue[i].off + recvQueue[i].size = size[recvQueue[i].op]
    BY <1>1, <1>5 DEF QueueInv
  <2>2. recvQueue[i].op \in 1..m
    BY <1>13
  <2>3. block'[recvQueue[i].op] = block[recvQueue[i].op] /\ size'[recvQueue[i].op] = size[recvQueue[i].op]
    BY <1>9, <1>10, <2>2
  <2>4. recvQueue[i].op <= m + 1
    BY <2>2
  <2> QED
    BY <2>1, <2>3, <2>4
<1>24. ASSUME recvQueue # <<>>, NEW k \in 1..(m + 1), k > recvQueue[1].op PROVE block'[k] = <<>>
  <2>1. CASE k = m + 1
    BY <1>10, <1>11, <1>24, <2>1
  <2>2. CASE k # m + 1
    <3>1. k \in 1..m
      BY <2>2
    <3>2. block[k] = <<>>
      BY <1>1, <1>4, <1>5, <1>24, <3>1 DEF QueueInv
    <3> QED
      BY <1>10, <3>1, <3>2
  <2> QED
    BY <2>1, <2>2
<1>25. ASSUME NEW i \in 1..w
       PROVE  /\ reported[i].op <= m + 1
              /\ reported[i].ok =>
                   /\ Len(block'[reported[i].op]) = size'[reported[i].op]
                   /\ \A j \in 1..(i - 1) : reported[j].ok => reported[j].op < reported[i].op
                   /\ \A z \in 1..q : reported[i].op < recvQueue[z].op
  <2>1. reported[i].op \in 1..m
    BY <1>14
  <2>2. block'[reported[i].op] = block[reported[i].op] /\ size'[reported[i].op] = size[reported[i].op]
    BY <1>9, <1>10, <2>1
  <2>3. reported[i].ok =>
                   /\ Len(block[reported[i].op]) = size[reported[i].op]
                   /\ \A j \in 1..(i - 1) : reported[j].ok => reported[j].op < reported[i].op
                   /\ \A z \in 1..q : reported[i].op < recvQueue[z].op
    BY <1>1, <1>5 DEF ReportInv
  <2>4. reported[i].op <= m + 1
    BY <2>1
  <2> QED
    BY <2>2, <2>3, <2>4
<1>26. QueueInv /\ UNCHANGED recvQueue => QueueInv'
  <2>1. SUFFICES ASSUME UNCHANGED recvQueue PROVE QueueInv'
    BY <1>1
  <2>2. ASSUME NEW i \in 1..q, NEW j \in 1..q, i < j PROVE recvQueue[i].op < recvQueue[j].op
    BY <1>1, <1>5, <2>2 DEF QueueInv
  <2> QED
    BY <1>5, <1>9, <1>10, <1>11, <1>23, <1>24, <2>1, <2>2 DEF QueueInv
<1>27. CASE popped = n /\ recvQueue = <<>> /\ recvQueue' = recvQueue
            /\ reported' = Append(reported, [op |-> Len(size) + 1, ok |-> TRUE])
  <2>1. PICK res : res = [op |-> m + 1, ok |-> TRUE]
    OBVIOUS
  <2>2. res \in Result /\ res.op = m + 1 /\ res.ok = TRUE
    BY <2>1 DEF Result
  <2>3. /\ reported' \in Seq(Result) /\ Len(reported') = w + 1
        /\ (\A i \in 1..w : reported'[i] = reported[i]) /\ reported'[w + 1] = res
    BY <1>4, <1>5, <1>27, <2>1, <2>2, AppendProperties
  <2>4. SockShape'
    <3>1. m + 1 <= MaxOps /\ b - popped <= BufCap
      BY <1>2, <1>4, <1>5, <1>6, ConstantFacts
    <3> QED
      BY <1>4, <1>8, <1>9, <1>10, <1>27, <2>3, <3>1 DEF SockShape
  <2>5. ReportInv'
    <3>1. q = 0 /\ Len(recvQueue') = 0
      BY <1>5, <1>27
    <3>2. ASSUME NEW i \in 1..(w + 1)
          PROVE  /\ reported'[i].op <= m + 1
                 /\ reported'[i].ok =>
                      /\ Len(block'[reported'[i].op]) = size'[reported'[i].op]
                      /\ \A j \in 1..(i - 1) : reported'[j].ok => reported'[j].op < reported'[i].op
      <4>1. CASE i = w + 1
        <5>1. \A j \in 1..(i - 1) : reported'[j].op < m + 1
          <6>1. ASSUME NEW j \in 1..(i - 1) PROVE reported'[j].op < m + 1
            <7>1. j \in 1..w
              BY <4>1
            <7>2. reported'[j] = reported[j] /\ reported[j].op \in 1..m
              BY <1>14, <2>3, <7>1
            <7> QED
              BY <7>2
          <6> QED
            BY <6>1
        <5>2. reported'[i].op = m + 1
          BY <2>2, <2>3, <4>1
        <5>3. Len(block'[m + 1]) = size'[m + 1]
          BY <1>7, <1>9, <1>10, <1>27
        <5> QED
          BY <5>1, <5>2, <5>3
      <4>2. CASE i # w + 1
        <5>1. i \in 1..w
          BY <4>2
        <5>2. reported'[i] = reported[i] /\ \A j \in 1..(i - 1) : reported'[j] = reported[j]
          BY <2>3, <5>1
        <5> QED
          BY <1>25, <5>1, <5>2
      <4> QED
        BY <4>1, <4>2
    <3> QED
      BY <1>9, <2>3, <3>1, <3>2 DEF ReportInv
  <2> QED
    BY <1>15, <1>16, <1>17, <1>21, <1>22, <1>26, <1>27, <1>1, <2>4, <2>5 DEF IInv, Shape
<1>28. CASE popped < n /\ Len(recvQueue) = RecvQueueCap /\ recvQueue' = recvQueue
            /\ reported' = Append(reported, [op |-> Len(size) + 1, ok |-> FALSE])
  <2>1. PICK res : res = [op |-> m + 1, ok |-> FALSE]
    OBVIOUS
  <2>2. res \in Result /\ res.op = m + 1 /\ res.ok = FALSE
    BY <2>1 DEF Result
  <2>3. /\ reported' \in Seq(Result) /\ Len(reported') = w + 1
        /\ (\A i \in 1..w : reported'[i] = reported[i]) /\ reported'[w + 1] = res
    BY <1>4, <1>5, <1>28, <2>1, <2>2, AppendProperties
  <2>4. SockShape'
    <3>1. m + 1 <= MaxOps /\ b - popped <= BufCap
      BY <1>2, <1>4, <1>5, <1>6, ConstantFacts
    <3> QED
      BY <1>4, <1>8, <1>9, <1>10, <1>28, <2>3, <3>1 DEF SockShape
  <2>5. ReportInv'
    <3>2. ASSUME NEW i \in 1..(w + 1)
          PROVE  /\ reported'[i].op <= m + 1
                 /\ reported'[i].ok =>
                      /\ Len(block'[reported'[i].op]) = size'[reported'[i].op]
                      /\ \A j \in 1..(i - 1) : reported'[j].ok => reported'[j].op < reported'[i].op
                      /\ \A z \in 1..q : reported'[i].op < recvQueue[z].op
      <4>1. CASE i = w + 1
        BY <2>2, <2>3, <4>1
      <4>2. CASE i # w + 1
        <5>1. i \in 1..w
          BY <4>2
        <5>2. reported'[i] = reported[i] /\ \A j \in 1..(i - 1) : reported'[j] = reported[j]
          BY <2>3, <5>1
        <5> QED
          BY <1>25, <5>1, <5>2
      <4> QED
        BY <4>1, <4>2
    <3> QED
      BY <1>5, <1>9, <1>28, <2>3, <3>2 DEF ReportInv
  <2> QED
    BY <1>15, <1>16, <1>17, <1>21, <1>22, <1>26, <1>28, <1>1, <2>4, <2>5 DEF IInv, Shape
<1>29. CASE popped < n /\ Len(recvQueue) < RecvQueueCap /\ reported' = reported
            /\ recvQueue' = Append(recvQueue, [op |-> Len(size) + 1, size |-> n - popped, off |-> popped])
  <2>1. PICK e : e = [op |-> m + 1, size |-> n - popped, off |-> popped]
    OBVIOUS
  <2>2. e \in Entry /\ e.op = m + 1 /\ e.size = n - popped /\ e.off = popped
    <3>1. n - popped \in Nat
      BY <1>6, <1>29
    <3> QED
      BY <1>6, <2>1, <3>1 DEF Entry
  <2>3. /\ recvQueue' \in Seq(Entry) /\ Len(recvQueue') = q + 1
        /\ (\A i \in 1..q : recvQueue'[i] = recvQueue[i]) /\ recvQueue'[q + 1] = e
    BY <1>4, <1>5, <1>29, <2>1, <2>2, AppendProperties
  <2>4. SockShape'
    <3>1. q + 1 <= RecvQueueCap /\ m + 1 <= MaxOps /\ b - popped <= BufCap
      <4>1. RecvQueueCap \in Nat /\ MaxOps \in Nat /\ BufCap \in Nat
        BY ConstantFacts
      <4>2. q < RecvQueueCap /\ m < MaxOps /\ b <= BufCap
        BY <1>2, <1>4, <1>5, <1>29
      <4>3. q + 1 <= RecvQueueCap /\ m + 1 <= MaxOps
        BY <4>1, <4>2
      <4>4. b - popped <= BufCap
        BY <1>6, <4>1, <4>2
      <4> QED
        BY <4>3, <4>4
    <3> QED
      BY <1>4, <1>8, <1>9, <1>10, <1>29, <2>3, <3>1 DEF SockShape
  <2>5. ReportInv'
    <3>1. ASSUME NEW i \in 1..w, reported[i].ok, NEW z \in 1..(q + 1) PROVE reported[i].op < recvQueue'[z].op
      <4>1. CASE z = q + 1
        <5>1. reported[i].op \in 1..m
          BY <1>14
        <5> QED
          BY <2>2, <2>3, <4>1, <5>1
      <4>2. CASE z # q + 1
        <5>1. z \in 1..q
          BY <4>2
        <5> QED
          BY <1>25, <2>3, <3>1, <5>1
      <4> QED
        BY <4>1, <4>2
    <3> QED
      <4>1. Len(reported') = w /\ reported' = reported /\ Len(size') = m + 1 /\ Len(recvQueue') = q + 1
        BY <1>5, <1>9, <1>29, <2>3
      <4> QED
        BY <1>25, <3>1, <4>1 DEF ReportInv
  <2>6. QueueInv'
    <3>1. ASSUME NEW i \in 1..(q + 1)
          PROVE  /\ recvQueue'[i].op <= m + 1 /\ recvQueue'[i].off = Len(block'[recvQueue'[i].op])
                 /\ recvQueue'[i].off + recvQueue'[i].size = size'[recvQueue'[i].op]
      <4>1. CASE i = q + 1
        <5>1. recvQueue'[i] = e /\ Len(block'[m + 1]) = popped /\ size'[m + 1] = n
          BY <1>7, <1>9, <1>10, <2>3, <4>1
        <5>2. popped + (n - popped) = n
          BY <1>6
        <5> QED
          BY <2>2, <5>1, <5>2
      <4>2. CASE i # q + 1
        <5>1. i \in 1..q
          BY <4>2
        <5> QED
          BY <1>23, <2>3, <5>1
      <4> QED
        BY <4>1, <4>2
    <3>2. ASSUME NEW i \in 1..(q + 1), NEW j \in 1..(q + 1), i < j PROVE recvQueue'[i].op < recvQueue'[j].op
      <4>1. i \in 1..q /\ recvQueue'[i] = recvQueue[i]
        BY <2>3, <3>2
      <4>2. CASE j = q + 1
        <5>1. recvQueue[i].op \in 1..m
          BY <1>13, <4>1
        <5> QED
          BY <2>2, <2>3, <4>1, <4>2, <5>1
      <4>3. CASE j # q + 1
        <5>1. j \in 1..q /\ recvQueue'[j] = recvQueue[j]
          BY <2>3, <4>3
        <5> QED
          BY <1>1, <1>5, <3>2, <4>1, <5>1 DEF QueueInv
      <4> QED
        BY <4>2, <4>3
    <3>3. ASSUME NEW k \in 1..(m + 1), k > recvQueue'[1].op PROVE block'[k] = <<>>
      <4>1. CASE recvQueue = <<>>
        <5>1. q = 0 /\ recvQueue'[1] = e
          BY <1>5, <2>3, <4>1
        <5> QED
          BY <2>2, <3>3, <5>1
      <4>2. CASE recvQueue # <<>>
        <5>1. 1 \in 1..q
          BY <1>4, <1>5, <4>2, EmptySeq
        <5>2. recvQueue'[1] = recvQueue[1]
          BY <2>3, <5>1
        <5> QED
          BY <1>24, <3>3, <4>2, <5>2
      <4> QED
        BY <4>1, <4>2
    <3>4. buffer' = <<>>
      BY <1>12, <1>29
    <3> QED
      BY <1>9, <1>10, <2>3, <3>1, <3>2, <3>3, <3>4 DEF QueueInv
  <2> QED
    BY <1>15, <1>16, <1>17, <1>21, <1>22, <2>4, <2>5, <2>6 DEF IInv, Shape
<1> QED
  BY <1>3, <1>27, <1>28, <1>29

-----------------------------------------------------------------------------

\* The invariant holds in every state, for operations of any size that recv.c
\* does not cut (uint16_t), any chains and any capacities.
THEOREM Invariance ==
  ASSUME SizesFit
  PROVE  Spec => []IInv
<1>1. Init => IInv
  BY InitInv
<1>2. IInv /\ [Next]_vars => IInv'
  <2> SUFFICES ASSUME IInv, [Next]_vars PROVE IInv'
    OBVIOUS
  <2>1. ASSUME NEW n \in Sizes, RecvOp(n) PROVE IInv'
    BY <2>1, RecvStep
  <2>2. ASSUME NEW c \in Chains, Arrive(c) PROVE IInv'
    BY <2>2, ArriveStep
  <2>3. CASE OfferAgain \/ SetArg \/ CbRefuse
    BY <2>3, IdleStep
  <2>4. CASE CbEnter
    BY <2>4, EnterStep
  <2>5. CASE CbMatch
    BY <2>5, MatchStep
  <2>6. CASE CbCopy
    BY <2>6, CopyStep
  <2>7. CASE CbNext
    BY <2>7, NextStep
  <2>8. CASE CbStore
    BY <2>8, StoreStep
  <2>9. CASE CbLeave
    BY <2>9, LeaveStep
  <2>10. CASE UNCHANGED vars
    <3>1. /\ UNCHANGED <<sent, lost, acked, chain, registered, arg, buffer, recvQueue, unread, pc, cb>>
          /\ UNCHANGED <<size, block, reported>>
      BY <2>10 DEF vars, opVars
    <3>2. TotLen(chain)' = TotLen(chain) /\ TotLen(block)' = TotLen(block)
      BY <3>1 DEF TotLen, Lengths, Ends
    <3>3. /\ LwipShape /\ SockShape /\ CbShape /\ QueueInv /\ ReportInv /\ BytesInv /\ CountInv
          /\ ChainInv /\ PosInv
      BY DEF IInv, Shape
    <3>4. LwipShape'
      BY <3>1, <3>3, ChainFacts, LwipFrame
    <3>5. SockShape'
      BY <3>1, <3>3, SockFrame DEF opVars
    <3>6. QueueInv'
      BY <3>1, <3>3, QueueFrame
    <3>7. ReportInv'
      BY <3>1, <3>3, ReportFrame DEF opVars
    <3>8. BytesInv'
      BY <3>1, <3>3, BytesFrame
    <3>9. CbShape' /\ ChainInv'
      BY <3>1, <3>2, <3>3 DEF CbShape, ChainInv
    <3>10. Remaining' = Remaining
      BY <3>1, <3>2 DEF Remaining
    <3>11. CountInv'
      BY <3>1, <3>2, <3>3, <3>10 DEF CountInv
    <3>12. At(cb.pbuf, cb.off, cb.avail) => At(cb.pbuf, cb.off, cb.avail)'
      BY <3>1, AtFrame
    <3>13. PosInv'
      BY <3>1, <3>2, <3>3, <3>12 DEF PosInv
    <3> QED
      BY <3>4, <3>5, <3>6, <3>7, <3>8, <3>9, <3>11, <3>13 DEF IInv, Shape
  <2> QED
    BY <2>1, <2>2, <2>3, <2>4, <2>5, <2>6, <2>7, <2>8, <2>9, <2>10 DEF Next, Callback
<1> QED
  BY <1>1, <1>2, PTL DEF Spec

\* A recv operation waits only while recv_buffer is empty, so that tx_tcp_recv
\* loses nothing when recv_queue is full.
THEOREM Drained ==
  ASSUME SizesFit
  PROVE  Spec => []WaitingMeansDrained
<1>1. IInv => WaitingMeansDrained
  BY DEF IInv, QueueInv, WaitingMeansDrained
<1> QED
  BY <1>1, Invariance, PTL

\* Operations are reported OK when their blocks are filled, in order of submission.
THEOREM Reports ==
  ASSUME SizesFit
  PROVE  Spec => []ReportedFull
<1>1. IInv => ReportedFull
  <2> SUFFICES ASSUME IInv PROVE ReportedFull
    OBVIOUS
  <2>1. reported \in Seq(Result) /\ ReportInv
    BY DEF IInv, Shape, SockShape
  <2>2. DOMAIN reported = 1..Len(reported)
    BY <2>1, LenProperties
  <2> QED
    BY <2>1, <2>2 DEF ReportInv, ReportedFull
<1> QED
  BY <1>1, Invariance, PTL

\* What is left of a refused chain: the bytes behind those in the blocks and in
\* recv_buffer.
LEMMA UnreadIs ==
  ASSUME IInv, pc = "idle"
  PROVE  /\ TotLen(block) \in Nat /\ Len(buffer) \in Nat /\ TotLen(chain) - unread \in Nat
         /\ Unread \in Seq(Nat) /\ Len(Unread) = TotLen(chain) - unread
         /\ \A k \in 1..Len(Unread) : Unread[k] = lost + (TotLen(block) + Len(buffer)) + k
         /\ lost + TotLen(block) + Len(buffer) + (TotLen(chain) - unread) = sent
         /\ acked + (TotLen(chain) - unread) = sent
<1>1. LwipShape /\ SockShape /\ BytesInv /\ CountInv /\ ChainInv
  BY DEF IInv, Shape
<1>2. PICK t \in Nat, u \in Nat : t = TotLen(chain) /\ u = unread /\ u <= t
  <2>1. TotLen(chain) \in Nat /\ unread \in Nat
    BY <1>1, ChainFacts
  <2>2. unread <= TotLen(chain)
    BY <1>1, <2>1, ChainFacts DEF ChainInv
  <2> QED
    BY <2>1, <2>2
<1>3. PICK tb \in Nat, b \in Nat : tb = TotLen(block) /\ b = Len(buffer)
  BY <1>1, LengthsIs, LenProperties DEF SockShape
<1>4. PICK l \in Nat, s \in Nat : l = lost /\ s = sent /\ acked \in Nat
  BY <1>1, ChainFacts
<1>5. l + tb + b + (t - u) = s /\ acked + (t - u) = s
  <2>1. Remaining = t - u
    BY <1>2 DEF Remaining
  <2>2. cb.ack = 0
    BY <1>1, NoCallIs DEF ChainInv
  <2>3. l + tb + b + (t - u) = s /\ acked + 0 + (t - u) = s
    BY <1>1, <1>3, <1>4, <2>1, <2>2 DEF CountInv
  <2> QED
    BY <1>2, <1>4, <2>3
<1>6. PICK f : f = Concat(chain)
  OBVIOUS
<1>7. f = [k \in 1..t |-> (s - t) + k]
  <2>1. chain \in Seq(Seq(Nat)) /\ sent - TotLen(chain) \in Int
    BY <1>1, ChainFacts
  <2>2. Consecutive(chain, sent - TotLen(chain))
    BY <1>1 DEF BytesInv
  <2>3. Concat(chain) = [k \in 1..TotLen(chain) |-> (sent - TotLen(chain)) + k]
    BY <2>1, <2>2, ConcatIs
  <2> QED
    BY <1>2, <1>4, <1>6, <2>3
<1>8. f \in Seq(Int) /\ Len(f) = t /\ \A k \in 1..t : f[k] = (s - t) + k
  BY <1>7
<1>9. PICK g : g = Unread /\ g = Drop(f, u)
  BY <1>2, <1>6 DEF Unread
<1>10. g \in Seq(Int) /\ Len(g) = t - u /\ \A k \in 1..(t - u) : g[k] = f[u + k]
  <2>1. f \in Seq(Int) /\ u \in 0..Len(f)
    BY <1>2, <1>8
  <2>2. /\ Drop(f, u) \in Seq(Int) /\ Len(Drop(f, u)) = Len(f) - u
        /\ \A k \in 1..(Len(f) - u) : Drop(f, u)[k] = f[u + k]
    BY <2>1, DropIs
  <2>3. Len(f) = t /\ g = Drop(f, u)
    BY <1>8, <1>9
  <2> QED
    BY <2>2, <2>3
<1>11. ASSUME NEW k \in 1..(t - u) PROVE g[k] = l + (tb + b) + k /\ g[k] \in Nat
  <2>1. u + k \in 1..t /\ k \in Nat
    BY <1>2
  <2>2. g[k] = (s - t) + (u + k)
    BY <1>8, <1>10, <2>1
  <2>3. (s - t) + (u + k) = l + (tb + b) + k
    BY <1>5, <2>1
  <2> QED
    BY <2>1, <2>2, <2>3
<1>12. g \in Seq(Nat)
  <2>1. g \in [1..(t - u) -> Int] /\ t - u \in Nat
    BY <1>2, <1>10, LenProperties
  <2>2. g \in [1..(t - u) -> Nat]
    BY <1>11, <2>1
  <2> QED
    BY <2>1, <2>2, SeqDef
<1> QED
  BY <1>2, <1>3, <1>4, <1>5, <1>9, <1>10, <1>11, <1>12

\* Each byte is given back to the receive window once, and recv_buffer, recv_queue
\* and the lengths recv.c computes keep to their bounds.
THEOREM WindowKept ==
  ASSUME SizesFit
  PROVE  Spec => []WindowBalanced
<1>1. IInv => WindowBalanced
  <2> SUFFICES ASSUME IInv PROVE WindowBalanced
    OBVIOUS
  <2>1. /\ LwipShape /\ SockShape /\ CbShape /\ QueueInv /\ CountInv /\ PosInv /\ ChainInv /\ BytesInv
        /\ cb \in Local
    BY DEF IInv, Shape, CbShape
  <2>2. acked \in 0..MaxBytes
    <3>1. Remaining \in Nat
      <4>1. CASE pc \in {"idle", "enter"}
        <5>1. TotLen(chain) \in Nat /\ unread \in Nat /\ unread <= TotLen(chain)
          BY <2>1, ChainFacts DEF ChainInv
        <5> QED
          BY <4>1, <5>1 DEF Remaining
      <4>2. CASE pc \notin {"idle", "enter"}
        BY <2>1, <4>2, LocalFacts DEF Remaining
      <4> QED
        BY <4>1, <4>2
    <3>2. acked \in Nat /\ cb.ack \in Nat /\ sent \in Nat /\ sent <= MaxBytes
      BY <2>1, ChainFacts, LocalFacts, ConstantFacts DEF LwipShape
    <3>3. acked + cb.ack + Remaining = sent
      BY <2>1 DEF CountInv
    <3> QED
      BY <3>1, <3>2, <3>3, ConstantFacts
  <2>3. \A i \in DOMAIN recvQueue :
          recvQueue[i].op \in 1..Len(size) /\ recvQueue[i].size \in Nat /\ recvQueue[i].off \in Nat
    <3>1. recvQueue \in Seq(Entry) /\ DOMAIN recvQueue = 1..Len(recvQueue) /\ Len(size) \in Nat
      BY <2>1, LenProperties DEF SockShape
    <3>2. ASSUME NEW i \in 1..Len(recvQueue)
          PROVE  recvQueue[i].op \in 1..Len(size) /\ recvQueue[i].size \in Nat /\ recvQueue[i].off \in Nat
      <4>1. recvQueue[i] \in Entry
        BY <3>1, ElementOfSeq
      <4>2. recvQueue[i].op \in Nat \ {0} /\ recvQueue[i].size \in Nat /\ recvQueue[i].off \in Nat
        BY <4>1 DEF Entry
      <4>3. recvQueue[i].op <= Len(size)
        BY <2>1 DEF QueueInv
      <4> QED
        BY <3>1, <4>2, <4>3
    <3> QED
      BY <3>1, <3>2
  <2>4. TypeOK
    <3>1. sent \in 0..MaxBytes /\ lost \in 0..sent
      BY <2>1 DEF LwipShape
    <3>2. /\ Len(buffer) <= BufCap /\ Len(recvQueue) <= RecvQueueCap
          /\ Len(block) = Len(size) /\ Len(size) <= MaxOps
      BY <2>1 DEF SockShape
    <3>3. cb.avail \in 0..(LenMod - 1) /\ cb.need \in 0..(LenMod - 1)
      BY <2>1 DEF Local
    <3>4. pc \in {"idle", "enter", "match", "copy", "store", "leave"}
      BY <2>1 DEF CbShape
    <3> QED
      BY <2>2, <2>3, <3>1, <3>2, <3>3, <3>4 DEF TypeOK
  <2>5. ASSUME pc = "idle" PROVE acked = sent - Len(Unread)
    <3>1. TotLen(chain) - unread \in Nat /\ Len(Unread) = TotLen(chain) - unread
          /\ acked + (TotLen(chain) - unread) = sent
      BY <2>5, UnreadIs
    <3>2. acked \in Nat /\ sent \in Nat
      BY <2>1, ChainFacts
    <3>3. PICK z \in Nat : z = TotLen(chain) - unread
      BY <3>1
    <3>4. acked + z = sent /\ Len(Unread) = z
      BY <3>1, <3>3
    <3> QED
      BY <3>2, <3>4
  <2> QED
    BY <2>4, <2>5 DEF WindowBalanced
<1> QED
  BY <1>1, Invariance, PTL

\* The stream reaches the blocks of the recv operations complete and in order,
\* however it was cut into pbufs and operations and however often a chain was
\* refused half way.
THEOREM StreamArrives ==
  ASSUME SizesFit
  PROVE  Spec => []StreamIntact
<1>1. IInv => StreamIntact
  <2> SUFFICES ASSUME IInv, pc = "idle" PROVE Concat(block) \o buffer \o Unread = Stream
    BY DEF StreamIntact
  <2>1. LwipShape /\ SockShape /\ BytesInv
    BY DEF IInv, Shape
  <2>2. PICK tb \in Nat, b \in Nat, z \in Nat, l \in Nat, s \in Nat :
          /\ tb = TotLen(block) /\ b = Len(buffer) /\ z = TotLen(chain) - unread /\ l = lost /\ s = sent
    BY <2>1, UnreadIs, ChainFacts
  <2>3. l + tb + b + z = s
    BY <2>2, UnreadIs
  <2>4. buffer \in Seq(Nat) /\ \A k \in 1..Len(buffer) : buffer[k] = l + tb + k
    BY <2>1, <2>2 DEF BytesInv, SockShape
  <2>5. Concat(block) = [k \in 1..tb |-> l + k]
    <3>1. block \in Seq(Seq(Nat)) /\ lost \in Int /\ Consecutive(block, lost)
      BY <2>1, <2>2 DEF BytesInv, SockShape
    <3>2. Concat(block) = [k \in 1..TotLen(block) |-> lost + k]
      BY <3>1, ConcatIs
    <3> QED
      BY <2>2, <3>2
  <2>6. Concat(block) \o buffer = [k \in 1..(tb + b) |-> l + k]
    <3>1. [k \in 1..tb |-> l + k] \o buffer = [k \in 1..(tb + Len(buffer)) |-> l + k]
      BY <2>4, ConcatTwo
    <3> QED
      BY <2>2, <2>5, <3>1
  <2>7. PICK x \in Seq(Nat) : x = Unread /\ Len(x) = z /\ \A k \in 1..Len(x) : x[k] = l + (tb + b) + k
    BY <2>2, UnreadIs
  <2>8. PICK a \in Nat : a = tb + b
    OBVIOUS
  <2>9. [k \in 1..a |-> l + k] \o x = [k \in 1..(a + Len(x)) |-> l + k]
    BY <2>7, <2>8, ConcatTwo
  <2>10. a + Len(x) = s - l
    BY <2>3, <2>7, <2>8
  <2>11. Stream = [k \in 1..(s - l) |-> l + k]
    BY <2>2 DEF Stream
  <2> QED
    BY <2>6, <2>7, <2>8, <2>9, <2>10, <2>11
<1> QED
  BY <1>1, Invariance, PTL
=============================================================================
