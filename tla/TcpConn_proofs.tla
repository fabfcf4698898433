---------------------------- MODULE TcpConn_proofs ----------------------------
(***************************************************************************)
(* Proofs about the life of TCP sockets, for every number of sockets and   *)
(* pcbs and every bound: who holds a pcb, what becomes of the operations   *)
(* of a socket, and how the bytes of its writes leave lwIP.                *)
(*                                                                         *)
(* The inductive invariant comes in layers, and each is proved with the    *)
(* ones before it:                                                         *)
(*   Shape       what the variables hold;                                  *)
(*   Holding     a pcb that is in use has exactly one holder, and lwIP's   *)
(*               callback argument names it;                               *)
(*   Losing      a pointer goes stale only by a close or a lost connection;*)
(*   GenBound    how often a pcb can have been allocated;                  *)
(*   Buffers     what lwIP holds fits the send buffer, and the write_queue *)
(*               its capacity;                                             *)
(*   Retried     a refused write is still the next operation;              *)
(*   OpsInv      operations, their results and the write_queue;            *)
(*   Dequeued    what the application frees was reported;                  *)
(*   Aligned     the bytes of the write_queue cover what lwIP holds.       *)
(***************************************************************************)
EXTENDS TcpConn, FiniteSetTheorems, SequenceTheorems, WellFoundedInduction, TLAPS

AllKinds == {"bind", "connect", "listen", "accept", "write", "close"}
OpRec  == [kind : AllKinds, id : Nat, size : Nat]
ResRec == [kind : AllKinds, id : Nat, ok : BOOLEAN, pcb : Pcb \union {None}, gen : Nat]
Segm   == [block : Socket \X Nat, len : Nat \ {0}]
WEntry == [block : Socket \X Nat, size : Nat]

\* A connection, as opposed to a pcb that is not one yet or a listening one.
Conn == {"connecting", "open", "closing"}

\* What the variables hold.
Shape ==
  /\ state \in [AnyPcb -> {"free", "new", "connecting", "open", "closing", "listen"}]
  /\ \A p \in Pcb : state[p] # "listen"
  /\ \A l \in ListenPcb : state[l] \in {"free", "listen"}
  /\ arg \in [AnyPcb -> Socket \union {None}]
  /\ accepting \in [ListenPcb -> BOOLEAN]
  /\ unacked \in [Pcb -> Seq(Segm)]
  /\ gen \in [AnyPcb -> Nat]
  /\ phase \in [Socket -> {"unused", "made", "gone"}]
  /\ pcb \in [Socket -> AnyPcb \union {None}]
  /\ own \in [Socket -> Nat]
  /\ mapped \in [Socket -> BOOLEAN]
  /\ ops \in [Socket -> Seq(OpRec)]
  /\ issued \in [Socket -> Seq(OpRec)]
  /\ writeQueue \in [Socket -> Seq(WEntry)]
  /\ cqueue \in [Socket -> Seq(ResRec)]
  /\ answers \in [Socket -> Seq(ResRec)]
  /\ making = Nobody \/ making \in [who : Socket, pcb : Pcb \union {None}, gen : Nat]
  /\ main.at \in {"idle", "op", "sent"}
  /\ main.at = "sent" => main \in [at : {"sent"}, who : Pcb, len : Nat \ {0}]

Live(p) == state[p] # "free"

\* Who holds pcb p: a socket, the accepted connection that is about to become
\* one, or a result that waits in a cqueue.
SockHolds(s, p)   == pcb[s] = p /\ own[s] = gen[p]
MakeHolds(p)      == making.pcb = p /\ making.gen = gen[p]
ResHolds(s, i, p) == i \in 1..Len(cqueue[s]) /\ cqueue[s][i].pcb = p /\ cqueue[s][i].gen = gen[p]

Held1(p) == \/ \E s \in Socket : SockHolds(s, p)
            \/ MakeHolds(p)
            \/ \E s \in Socket : \E i \in 1..Len(cqueue[s]) : ResHolds(s, i, p)

OneSock(p) == /\ \A s, t \in Socket : SockHolds(s, p) /\ SockHolds(t, p) => s = t
              /\ \A s \in Socket : SockHolds(s, p) => ~MakeHolds(p)
              /\ \A s, t \in Socket : \A i \in 1..Len(cqueue[t]) : SockHolds(s, p) => ~ResHolds(t, i, p)
OneRes(p) == /\ \A t \in Socket : \A i \in 1..Len(cqueue[t]) : MakeHolds(p) => ~ResHolds(t, i, p)
             /\ \A s, t \in Socket : \A i \in 1..Len(cqueue[s]), j \in 1..Len(cqueue[t]) :
                  ResHolds(s, i, p) /\ ResHolds(t, j, p) => s = t /\ i = j

Past ==
  /\ \A s \in Socket : pcb[s] # None => own[s] <= gen[pcb[s]]
  /\ making.pcb # None => making.gen <= gen[making.pcb]
  /\ \A s \in Socket : \A i \in 1..Len(cqueue[s]) :
       cqueue[s][i].pcb # None => cqueue[s][i].kind = "accept" /\ cqueue[s][i].gen <= gen[cqueue[s][i].pcb]

\* A socket that nobody uses yet.
IsNew(s) == phase[s] = "unused" \/ making.who = s

Fresh ==
  /\ making # Nobody => phase[making.who] # "unused"
  /\ \A s \in Socket : IsNew(s) =>
       pcb[s] = None /\ ops[s] = <<>> /\ issued[s] = <<>> /\ writeQueue[s] = <<>>

ArgRight ==
  /\ \A p \in AnyPcb : Live(p) /\ arg[p] # None => SockHolds(arg[p], p)
  /\ \A p \in AnyPcb : state[p] \in {"new", "connecting", "listen"} => arg[p] # None
  /\ \A s \in Socket : mapped[s] /\ pcb[s] # None /\ Owned(s) /\ arg[pcb[s]] = None => s \in early

OneHolder == \A p \in AnyPcb : Live(p) => Held1(p) /\ OneSock(p) /\ OneRes(p)

Holding ==
  /\ OneHolder
  /\ Past /\ Fresh /\ ArgRight

LiveRef(p, g) == Live(p) /\ gen[p] = g

Losing ==
  /\ \A s \in Socket : pcb[s] # None => LiveRef(pcb[s], own[s]) \/ Closed(s) \/ LostConn(s)
  /\ making.pcb # None => LiveRef(making.pcb, making.gen) \/ <<making.pcb, making.gen>> \in ended
  /\ \A s \in Socket : \A i \in 1..Len(cqueue[s]) : cqueue[s][i].pcb # None =>
       LiveRef(cqueue[s][i].pcb, cqueue[s][i].gen) \/ <<cqueue[s][i].pcb, cqueue[s][i].gen>> \in ended
  /\ \A p \in AnyPcb : state[p] = "closing" => \E s \in Socket : SockHolds(s, p) /\ Closed(s)

GenBound ==
  /\ \A p \in Pcb : gen[p] <= MaxConns + Cardinality({s \in Socket : pcb[s] # None})
  /\ \A l \in ListenPcb : gen[l] <= Cardinality({s \in Socket : pcb[s] \in ListenPcb})

-----------------------------------------------------------------------------
\* What is assumed of the constants.
LEMMA ConstantFacts ==
  /\ SndBuf \in Nat /\ LenMod \in Nat \ {0} /\ WriteQueueCap \in Nat /\ SqueueCap \in Nat /\ MaxConns \in Nat
  /\ Socket \subseteq Nat /\ IsFiniteSet(Socket)
  /\ None \notin Pcb /\ None \notin ListenPcb /\ None \notin Socket /\ None \notin AnyPcb
  /\ \A p \in Pcb : p \notin ListenPcb
  /\ Sizes \subseteq Nat /\ Kinds \subseteq AllKinds
<1>1. {SndBuf, LenMod, WriteQueueCap, SqueueCap, MaxWrites, MaxOps, MaxConns} \subseteq Nat \ {0}
  BY ConnAssumption
<1> QED
  BY <1>1, ConnAssumption DEF AnyPcb, AllKinds

\* Every nonempty set of natural numbers has a least element.
LEMMA LeastNat ==
  ASSUME NEW T, T \subseteq Nat, T # {}
  PROVE  \E x \in T : \A y \in T : x <= y
<1> DEFINE R == {ss \in Nat \X Nat : ss[1] < ss[2]}
<1>1. IsWellFoundedOn(R, Nat)
  BY NatLessThanWellFounded DEF OpToRel
<1> HIDE DEF R
<1>2. PICK x \in T : \A y \in T : ~(<<y, x>> \in R)
  BY <1>1, WFMin
<1>3. ASSUME NEW y \in T PROVE x <= y
  <2>1. y \in Nat /\ x \in Nat /\ <<y, x>> \in Nat \X Nat
    OBVIOUS
  <2>2. ~(y < x)
    BY <1>2, <2>1 DEF R
  <2> QED
    BY <2>1, <2>2
<1> QED
  BY <1>3

\* g gives the bytes of the first i segments, for i up to m.
IsUpTo(g, q, m) ==
  /\ g \in [0..m -> Nat] /\ g[0] = 0
  /\ \A i \in 1..m : g[i] = g[i - 1] + q[i].len

\* There is a function that sums the segments, for every length.
LEMMA UpToExists ==
  ASSUME NEW q, NEW n \in Nat, \A i \in 1..n : q[i].len \in Nat
  PROVE  \E g : IsUpTo(g, q, n)
<1> DEFINE T == {m \in 0..n : ~\E g : IsUpTo(g, q, m)}
<1>1. SUFFICES T = {}
  OBVIOUS
<1>2. SUFFICES ASSUME T # {} PROVE FALSE
  OBVIOUS
<1>3. PICK m \in T : \A y \in T : m <= y
  <2>1. T \subseteq Nat
    OBVIOUS
  <2> HIDE DEF T
  <2> QED
    BY <1>2, <2>1, LeastNat
<1>4. m \in 0..n /\ m \in Nat /\ ~\E g : IsUpTo(g, q, m)
  OBVIOUS
<1>5. m # 0
  <2>1. IsUpTo([i \in 0..0 |-> 0], q, 0)
    BY DEF IsUpTo
  <2> QED
    BY <1>4, <2>1
<1>6. m - 1 \in 0..n /\ m - 1 \notin T
  BY <1>3, <1>4, <1>5
<1>7. PICK g : IsUpTo(g, q, m - 1)
  BY <1>6
<1>8. PICK e : e = g[m - 1] + q[m].len
  OBVIOUS
<1>9. PICK h : h = [i \in 0..m |-> IF i = m THEN e ELSE g[i]]
  OBVIOUS
<1>10. IsUpTo(h, q, m)
  <2>1. g \in [0..(m - 1) -> Nat] /\ g[0] = 0 /\ \A i \in 1..(m - 1) : g[i] = g[i - 1] + q[i].len
    BY <1>7 DEF IsUpTo
  <2>2. m \in 1..n /\ m - 1 \in 0..(m - 1) /\ q[m].len \in Nat
    BY <1>4, <1>5
  <2>3. e \in Nat
    BY <1>8, <2>1, <2>2
  <2>4. h \in [0..m -> Nat] /\ h[0] = 0
    BY <1>4, <1>5, <1>9, <2>1, <2>3
  <2>5. ASSUME NEW i \in 1..m PROVE h[i] = h[i - 1] + q[i].len
    <3>1. i - 1 \in 0..m /\ i - 1 # m /\ h[i - 1] = g[i - 1]
      BY <1>4, <1>9
    <3>2. CASE i = m
      BY <1>4, <1>8, <1>9, <3>1, <3>2
    <3>3. CASE i # m
      <4>1. i \in 1..(m - 1) /\ i \in 0..m
        BY <1>4, <3>3
      <4> QED
        BY <1>9, <2>1, <3>1, <3>3, <4>1
    <3> QED
      BY <3>2, <3>3
  <2> QED
    BY <2>4, <2>5 DEF IsUpTo
<1> QED
  BY <1>4, <1>10

\* f sums the segments of r as g does those of q behind the first k.
AlikeFrom(f, g, r, q, k, m) ==
  /\ \A i \in 1..m : f[i] \in Int /\ g[k + i] \in Int
  /\ \A i \in 2..m : /\ f[i] = f[i - 1] + r[i].len /\ g[k + i] = g[k + i - 1] + q[k + i].len
                     /\ r[i].len = q[k + i].len /\ r[i].len \in Int

\* Two queues whose segments have the same lengths, the first ones apart, have
\* the same sums, but for a constant.
LEMMA SumsShift ==
  ASSUME NEW f, NEW g, NEW q, NEW r, NEW k \in Nat, NEW m \in Nat, m >= 1,
         AlikeFrom(f, g, r, q, k, m)
  PROVE  \A i \in 1..m : f[i] - f[1] = g[k + i] - g[k + 1]
<1>0. PICK c \in Int : c = g[k + 1] - f[1] /\ f[1] + c = g[k + 1]
  <2>1. f[1] \in Int /\ g[k + 1] \in Int
    BY DEF AlikeFrom
  <2> QED
    BY <2>1
<1> DEFINE T == {i \in 1..m : f[i] + c # g[k + i]}
<1>1. SUFFICES ASSUME T # {} PROVE FALSE
  <2>1. ASSUME NEW i \in 1..m, f[i] + c = g[k + i] PROVE f[i] - f[1] = g[k + i] - g[k + 1]
    <3>1. f[i] \in Int /\ g[k + i] \in Int /\ f[1] \in Int /\ g[k + 1] \in Int
      BY DEF AlikeFrom
    <3> QED
      BY <1>0, <2>1, <3>1
  <2> QED
    BY <1>1, <2>1
<1>2. PICK i \in T : \A y \in T : i <= y
  <2>1. T \subseteq Nat
    OBVIOUS
  <2> HIDE DEF T
  <2> QED
    BY <1>1, <2>1, LeastNat
<1>3. i \in 1..m /\ f[i] + c # g[k + i]
  OBVIOUS
<1>4. i # 1
  BY <1>0, <1>3
<1>5. i \in 2..m /\ i - 1 \in 1..m /\ i - 1 \notin T
  BY <1>2, <1>3, <1>4
<1>6. f[i - 1] + c = g[k + (i - 1)]
  BY <1>5
<1>7. k + (i - 1) = k + i - 1
  BY <1>5
<1>8. f[i] = f[i - 1] + r[i].len /\ g[k + i] = g[k + i - 1] + q[k + i].len /\ r[i].len = q[k + i].len /\ r[i].len \in Int
  BY <1>5 DEF AlikeFrom
<1>9. PICK x, y, z, a, b : x = f[i - 1] /\ y = g[k + (i - 1)] /\ z = r[i].len /\ a = f[i] /\ b = g[k + i]
  OBVIOUS
<1>10. x + c = y /\ a = x + z /\ b = y + z /\ x \in Int /\ y \in Int /\ a \in Int /\ b \in Int /\ z \in Int
  BY <1>5, <1>6, <1>7, <1>8, <1>9 DEF AlikeFrom
<1> QED
  BY <1>3, <1>9, <1>10

\* The sums of a queue.
LEMMA UpToIs ==
  ASSUME NEW q, Len(q) \in Nat, \A i \in 1..Len(q) : q[i].len \in Nat
  PROVE  /\ UpTo(q) \in [0..Len(q) -> Nat] /\ UpTo(q)[0] = 0
         /\ \A i \in 1..Len(q) : UpTo(q)[i] = UpTo(q)[i - 1] + q[i].len
<1> DEFINE f[i \in 0..Len(q)] == IF i = 0 THEN 0 ELSE f[i - 1] + q[i].len
<1>1. PICK g : IsUpTo(g, q, Len(q))
  BY UpToExists
<1>2. g = [i \in 0..Len(q) |-> IF i = 0 THEN 0 ELSE g[i - 1] + q[i].len]
  <2>1. ASSUME NEW i \in 0..Len(q)
        PROVE  g[i] = IF i = 0 THEN 0 ELSE g[i - 1] + q[i].len
    <3>1. i # 0 => i \in 1..Len(q)
      OBVIOUS
    <3> QED
      BY <1>1, <3>1 DEF IsUpTo
  <2>2. g = [i \in 0..Len(q) |-> g[i]]
    BY <1>1 DEF IsUpTo
  <2> QED
    BY <2>1, <2>2
<1>3. f = [i \in 0..Len(q) |-> IF i = 0 THEN 0 ELSE f[i - 1] + q[i].len]
  BY <1>2
<1>4. UpTo(q) = f
  BY DEF UpTo
<1> HIDE DEF f
<1>5. PICK h : h = f
  OBVIOUS
<1>6. h = [i \in 0..Len(q) |-> IF i = 0 THEN 0 ELSE h[i - 1] + q[i].len]
  BY <1>3, <1>5
<1>7. h[0] = 0 /\ \A i \in 1..Len(q) : h[i] = h[i - 1] + q[i].len
  <2>1. 0 \in 0..Len(q)
    OBVIOUS
  <2>2. h[0] = 0
    BY <1>6, <2>1
  <2>3. ASSUME NEW i \in 1..Len(q) PROVE h[i] = h[i - 1] + q[i].len
    <3>1. i \in 0..Len(q) /\ i # 0
      OBVIOUS
    <3> QED
      BY <1>6, <3>1
  <2> QED
    BY <2>2, <2>3
<1> DEFINE T == {i \in 0..Len(q) : h[i] \notin Nat}
<1>8. T = {}
  <2>1. SUFFICES ASSUME T # {} PROVE FALSE
    OBVIOUS
  <2>2. PICK i \in T : \A y \in T : i <= y
    <3>1. T \subseteq Nat
      OBVIOUS
    <3> HIDE DEF T
    <3> QED
      BY <2>1, <3>1, LeastNat
  <2>3. i \in 0..Len(q) /\ h[i] \notin Nat
    OBVIOUS
  <2>4. i # 0
    BY <1>7, <2>3
  <2>5. i \in 1..Len(q) /\ i - 1 \in 0..Len(q) /\ i - 1 \notin T
    BY <2>2, <2>3, <2>4
  <2>6. h[i - 1] \in Nat /\ q[i].len \in Nat
    BY <2>5
  <2> QED
    BY <1>7, <2>3, <2>5, <2>6
<1>9. h \in [0..Len(q) -> Nat]
  BY <1>6, <1>8
<1> QED
  BY <1>4, <1>5, <1>7, <1>9

\* They do not decrease.
LEMMA UpToGrows ==
  ASSUME NEW q, Len(q) \in Nat, \A i \in 1..Len(q) : q[i].len \in Nat
  PROVE  \A i, j \in 0..Len(q) : i <= j => UpTo(q)[i] <= UpTo(q)[j]
<1>1. PICK h : h = UpTo(q)
  OBVIOUS
<1>2. h \in [0..Len(q) -> Nat] /\ \A i \in 1..Len(q) : h[i] = h[i - 1] + q[i].len
  BY <1>1, UpToIs
<1>3. SUFFICES ASSUME NEW i \in 0..Len(q) PROVE \A j \in 0..Len(q) : i <= j => h[i] <= h[j]
  BY <1>1
<1> DEFINE T == {j \in 0..Len(q) : i <= j /\ ~(h[i] <= h[j])}
<1>4. SUFFICES ASSUME T # {} PROVE FALSE
  OBVIOUS
<1>5. PICK j \in T : \A y \in T : j <= y
  <2>1. T \subseteq Nat
    OBVIOUS
  <2> HIDE DEF T
  <2> QED
    BY <1>4, <2>1, LeastNat
<1>6. j \in 0..Len(q) /\ i <= j /\ ~(h[i] <= h[j])
  OBVIOUS
<1>7. j # i /\ h[i] \in Nat /\ h[j] \in Nat
  <2>1. h[i] \in Nat /\ h[j] \in Nat
    BY <1>2, <1>6
  <2>2. h[i] <= h[i]
    BY <2>1
  <2> QED
    BY <1>6, <2>1, <2>2
<1>8. j \in 1..Len(q) /\ j - 1 \in 0..Len(q) /\ i <= j - 1 /\ j - 1 \notin T
  BY <1>5, <1>6, <1>7
<1>9. h[i] <= h[j - 1] /\ h[j - 1] \in Nat
  BY <1>2, <1>8
<1>10. h[j] = h[j - 1] + q[j].len /\ q[j].len \in Nat
  BY <1>2, <1>8
<1> QED
  BY <1>6, <1>7, <1>9, <1>10

\* An operation's result.
LEMMA ResultIs ==
  ASSUME NEW kind \in AllKinds, NEW id \in Nat, NEW ok \in BOOLEAN
  PROVE  /\ Result(kind, id, ok) \in ResRec
         /\ Result(kind, id, ok).kind = kind /\ Result(kind, id, ok).id = id
         /\ Result(kind, id, ok).pcb = None
         /\ kind = "write" => Result(kind, id, ok).ok = ok
<1>1. PICK o \in BOOLEAN : o = (kind = "write" => ok)
  OBVIOUS
<1>2. Result(kind, id, ok) = [kind |-> kind, id |-> id, ok |-> o, pcb |-> None, gen |-> 0]
  BY <1>1 DEF Result
<1>3. kind = "write" => o = ok
  BY <1>1
<1> QED
  BY <1>2, <1>3 DEF ResRec

\* What is at the places of a queue after a step at one of its ends.
LEMMA Appended ==
  ASSUME NEW S, NEW q \in Seq(S), NEW x \in S
  PROVE  /\ Append(q, x) \in Seq(S) /\ Len(Append(q, x)) = Len(q) + 1 /\ Len(q) \in Nat
         /\ \A i \in 1..Len(q) : Append(q, x)[i] = q[i]
         /\ Append(q, x)[Len(q) + 1] = x
BY AppendProperties, LenProperties

\* A queue that loses its first entry.
LEMMA TailIs ==
  ASSUME NEW S, NEW q \in Seq(S), q # <<>>
  PROVE  /\ Tail(q) \in Seq(S) /\ Len(q) \in Nat /\ Len(q) >= 1 /\ Len(Tail(q)) = Len(q) - 1
         /\ \A i \in 1..Len(Tail(q)) : Tail(q)[i] = q[i + 1]
         /\ Head(q) = q[1] /\ Head(q) \in S
<1>1. Len(q) \in Nat \ {0}
  BY EmptySeq
<1>2. Head(q) = q[1]
  BY <1>1, LenProperties
<1> QED
  BY <1>1, <1>2, HeadTailProperties

\* A function on 1..n is a sequence.
LEMMA FunctionSeq ==
  ASSUME NEW S, NEW n \in Nat, NEW f \in [1..n -> S]
  PROVE  f \in Seq(S) /\ Len(f) = n
OBVIOUS

\* Segments lwIP holds.
LEMMA Segments ==
  ASSUME NEW u \in Seq(Segm)
  PROVE  /\ Len(u) \in Nat /\ DOMAIN u = 1..Len(u)
         /\ \A i \in 1..Len(u) : u[i] \in Segm /\ u[i].len \in Nat /\ u[i].len >= 1 /\ u[i].block \in Socket \X Nat
                                 /\ u[i] = [block |-> u[i].block, len |-> u[i].len]
         /\ UpTo(u) \in [0..Len(u) -> Nat] /\ UpTo(u)[0] = 0
         /\ \A i \in 1..Len(u) : UpTo(u)[i] = UpTo(u)[i - 1] + u[i].len
         /\ \A i, j \in 0..Len(u) : i <= j => UpTo(u)[i] <= UpTo(u)[j]
<1>1. Len(u) \in Nat /\ DOMAIN u = 1..Len(u) /\ \A i \in 1..Len(u) : u[i] \in Segm
  BY LenProperties, ElementOfSeq
<1>2. \A i \in 1..Len(u) : /\ u[i] \in Segm /\ u[i].len \in Nat /\ u[i].len >= 1
                           /\ u[i].block \in Socket \X Nat /\ u[i] = [block |-> u[i].block, len |-> u[i].len]
  BY <1>1 DEF Segm
<1> QED
  BY <1>1, <1>2, UpToIs, UpToGrows

\* The segments whose end is acknowledged are the first ones.
LEMMA FirstAcked ==
  ASSUME NEW u \in Seq(Segm), NEW n \in Nat, NEW f, f = UpTo(u), NEW m, m = Len(u)
  PROVE  \E k \in 0..m : /\ \A i \in 1..m : f[i] <= n <=> i <= k
                         /\ k < m => f[k + 1] > n
                         /\ k >= 1 => f[k] <= n
<1>2. m \in Nat /\ DOMAIN u = 1..m /\ f \in [0..m -> Nat] /\ \A i, j \in 0..m : i <= j => f[i] <= f[j]
  BY Segments
<1>3. CASE \A i \in 1..m : f[i] <= n
  <2>1. \A i \in 1..m : f[i] <= n <=> i <= m
    BY <1>2, <1>3
  <2>2. m \in 0..m /\ ~(m < m) /\ (m >= 1 => f[m] <= n)
    BY <1>2, <1>3
  <2> QED
    BY <2>1, <2>2
<1>4. CASE \E i \in 1..m : ~(f[i] <= n)
  <2> DEFINE T == {i \in 1..m : ~(f[i] <= n)}
  <2>1. PICK i \in T : \A y \in T : i <= y
    <3>1. T \subseteq Nat /\ T # {}
      BY <1>2, <1>4
    <3> HIDE DEF T
    <3> QED
      BY <3>1, LeastNat
  <2>2. i \in 1..m /\ ~(f[i] <= n)
    OBVIOUS
  <2>3. \A j \in 1..m : f[j] <= n <=> j <= i - 1
    <3>1. ASSUME NEW j \in 1..m, j <= i - 1 PROVE f[j] <= n
      <4>1. ~(i <= j)
        BY <1>2, <2>2, <3>1
      <4>2. j \notin T
        BY <2>1, <4>1
      <4> QED
        BY <4>2
    <3>2. ASSUME NEW j \in 1..m, ~(j <= i - 1) PROVE ~(f[j] <= n)
      <4>1. i <= j /\ i \in 0..m /\ j \in 0..m
        BY <1>2, <2>2, <3>2
      <4>2. f[i] <= f[j] /\ f[i] \in Nat /\ f[j] \in Nat
        BY <1>2, <4>1
      <4> QED
        BY <2>2, <4>2
    <3> QED
      BY <3>1, <3>2
  <2>5. i - 1 \in 0..m /\ i - 1 + 1 = i /\ f[i] \in Nat
    BY <1>2, <2>2
  <2>6. f[i - 1 + 1] > n
    BY <2>2, <2>5
  <2>7. i - 1 >= 1 => f[i - 1] <= n
    BY <1>2, <2>2, <2>3
  <2> QED
    BY <2>3, <2>5, <2>6, <2>7
<1> QED
  BY <1>3, <1>4

\* What an acknowledgement of n bytes leaves of the segments u.
Leaves(v, u, n, k) ==
  /\ v \in Seq(Segm) /\ k \in 0..Len(u) /\ Len(v) = Len(u) - k
  /\ \A i \in 1..Len(v) : v[i].block = u[k + i].block /\ UpTo(v)[i] + n = UpTo(u)[k + i]
  /\ UpTo(v)[Len(v)] + n = UpTo(u)[Len(u)]

\* tcp_free_acked_segments: the blocks that stay, and where they end.
LEMMA AckedIs ==
  ASSUME unacked \in [Pcb -> Seq(Segm)], NEW p \in Pcb, NEW n \in 1..Held(p)
  PROVE  \E k : Leaves(Acked(p, n), unacked[p], n, k)
<1>1. PICK u : u = unacked[p]
  OBVIOUS
<1>2. PICK f, m : f = UpTo(u) /\ m = Len(u)
  OBVIOUS
<1>3. u \in Seq(Segm)
  BY <1>1
<1>4. /\ m \in Nat /\ f \in [0..m -> Nat]
      /\ \A i \in 1..m : u[i] \in Segm /\ u[i].len \in Nat /\ u[i].block \in Socket \X Nat
      /\ \A i \in 1..m : f[i] = f[i - 1] + u[i].len
      /\ \A i \in 1..m : u[i] = [block |-> u[i].block, len |-> u[i].len]
  BY <1>2, <1>3, Segments
<1>5. n \in Nat /\ n >= 1 /\ n <= f[m] /\ f[m] \in Nat
  <2>1. f[m] \in Nat /\ Held(p) = f[m]
    BY <1>1, <1>2, <1>4 DEF Held
  <2> QED
    BY <2>1
<1>6. PICK k \in 0..m : /\ \A i \in 1..m : f[i] <= n <=> i <= k
                        /\ k < m => f[k + 1] > n
                        /\ k >= 1 => f[k] <= n
  BY <1>2, <1>3, <1>5, FirstAcked
<1>7. {i \in DOMAIN u : f[i] <= n} = 1..k /\ Cardinality(1..k) = k
  <2>1. DOMAIN u = 1..m /\ k \in Nat /\ k <= m
    BY <1>2, <1>3, <1>4, Segments
  <2>2. {i \in DOMAIN u : f[i] <= n} = 1..k
    <3>1. ASSUME NEW x PROVE x \in {i \in 1..m : f[i] <= n} <=> x \in 1..k
      <4>1. ASSUME x \in 1..m, f[x] <= n PROVE x \in 1..k
        <5>1. x <= k
          BY <1>6, <4>1
        <5> QED
          BY <2>1, <4>1, <5>1
      <4>2. ASSUME x \in 1..k PROVE x \in 1..m /\ f[x] <= n
        <5>1. x \in 1..m /\ x <= k
          BY <1>4, <2>1, <4>2
        <5> QED
          BY <1>6, <5>1
      <4> QED
        BY <4>1, <4>2
    <3> QED
      BY <2>1, <3>1
  <2> QED
    BY <2>1, <2>2, FS_Interval
<1>8. Acked(p, n) = [i \in 1..(m - k) |-> IF i = 1 THEN [u[k + 1] EXCEPT !.len = f[k + 1] - n] ELSE u[k + i]]
  BY <1>1, <1>2, <1>6, <1>7 DEF Acked
<1>9. PICK v : v = Acked(p, n)
  OBVIOUS
<1>10. ASSUME NEW i \in 1..(m - k), i # 1 PROVE v[i] = u[k + i] /\ k + i \in 2..m
  BY <1>4, <1>8, <1>9, <1>10
<1>11. ASSUME m - k >= 1
       PROVE  /\ v[1] = [block |-> u[k + 1].block, len |-> f[k + 1] - n]
              /\ f[k + 1] - n \in Nat \ {0} /\ k + 1 \in 1..m
  <2>1. k + 1 \in 1..m /\ 1 \in 1..(m - k) /\ k < m
    BY <1>4, <1>11
  <2>2. f[k + 1] \in Nat /\ f[k + 1] > n
    BY <1>4, <1>6, <2>1
  <2>3. v[1] = [u[k + 1] EXCEPT !.len = f[k + 1] - n]
    BY <1>8, <1>9, <2>1
  <2>4. u[k + 1] = [block |-> u[k + 1].block, len |-> u[k + 1].len]
    BY <1>4, <2>1
  <2>5. [u[k + 1] EXCEPT !.len = f[k + 1] - n] = [block |-> u[k + 1].block, len |-> f[k + 1] - n]
    <3>1. PICK b, l : u[k + 1] = [block |-> b, len |-> l]
      BY <2>4
    <3>2. [u[k + 1] EXCEPT !.len = f[k + 1] - n] = [block |-> b, len |-> f[k + 1] - n]
      BY <3>1
    <3> QED
      BY <3>1, <3>2
  <2> QED
    BY <1>5, <2>1, <2>2, <2>3, <2>5
<1>13. m \in Nat /\ k \in Nat /\ k <= m /\ m - k \in Nat
  BY <1>4
<1>12. v \in [1..(m - k) -> Segm]
  <2>1. ASSUME NEW i \in 1..(m - k) PROVE v[i] \in Segm
    <3>1. CASE i = 1
      <4>1. m - k >= 1
        BY <1>4, <3>1
      <4>2. u[k + 1].block \in Socket \X Nat
        BY <1>4, <1>11, <4>1
      <4> QED
        BY <1>11, <3>1, <4>1, <4>2 DEF Segm
    <3>2. CASE i # 1
      <4>1. k + i \in 1..m
        BY <1>13
      <4> QED
        BY <1>4, <1>10, <3>2, <4>1
    <3> QED
      BY <3>1, <3>2
  <2>2. v = [i \in 1..(m - k) |-> v[i]]
    BY <1>8, <1>9
  <2> QED
    BY <2>1, <2>2
<1>14. v \in Seq(Segm) /\ Len(v) = m - k
  BY <1>12, <1>13, FunctionSeq
<1>15. PICK g : g = UpTo(v)
  OBVIOUS
<1>16. /\ g \in [0..(m - k) -> Nat] /\ g[0] = 0
       /\ \A i \in 1..(m - k) : g[i] = g[i - 1] + v[i].len /\ v[i].len \in Nat
  BY <1>14, <1>15, Segments
<1>17. ASSUME m - k >= 1 PROVE \A i \in 1..(m - k) : g[i] + n = f[k + i]
  <2>1. g[1] + n = f[k + 1]
    <3>1. v[1].len = f[k + 1] - n
      BY <1>11, <1>17
    <3>2. 1 \in 1..(m - k) /\ 1 - 1 = 0
      BY <1>4, <1>17
    <3>3. g[1] = g[0] + v[1].len
      BY <1>16, <3>2
    <3>4. f[k + 1] \in Nat
      BY <1>4, <1>11, <1>17
    <3> QED
      BY <1>5, <1>16, <3>1, <3>3, <3>4
  <2>2. \A i \in 1..(m - k) : g[i] \in Int /\ f[k + i] \in Int
    <3>1. \A i \in 1..(m - k) : i \in 0..(m - k) /\ k + i \in 0..m
      BY <1>13
    <3>2. (\A i \in 0..(m - k) : g[i] \in Nat) /\ (\A i \in 0..m : f[i] \in Nat)
      BY <1>4, <1>16
    <3> QED
      BY <3>1, <3>2
  <2>3. ASSUME NEW i \in 2..(m - k)
        PROVE  /\ g[i] = g[i - 1] + v[i].len /\ f[k + i] = f[k + i - 1] + u[k + i].len
               /\ v[i].len = u[k + i].len /\ v[i].len \in Int
    <3>1. i \in 1..(m - k) /\ i # 1 /\ k + i \in 1..m /\ i - 1 \in 0..(m - k) /\ k + i - 1 \in 0..m
      BY <1>13
    <3>2. v[i] = u[k + i]
      BY <1>10, <3>1
    <3> QED
      <4>1. g[i] = g[i - 1] + v[i].len /\ v[i].len \in Nat
        BY <1>16, <3>1
      <4>2. f[k + i] = f[k + i - 1] + u[k + i].len
        BY <1>4, <3>1
      <4> QED
        BY <3>2, <4>1, <4>2
  <2>4. k \in Nat /\ n \in Int /\ m - k \in Nat /\ m - k >= 1
    BY <1>5, <1>13, <1>17
  <2>5. PICK d : d = m - k
    OBVIOUS
  <2>6. k \in Nat /\ n \in Int /\ d \in Nat /\ d >= 1 /\ AlikeFrom(g, f, v, u, k, d)
    BY <2>2, <2>3, <2>4, <2>5 DEF AlikeFrom
  <2>7. \A i \in 1..d : g[i] + n = f[k + i]
    <3>1. \A i \in 1..d : g[i] - g[1] = f[k + i] - f[k + 1]
      BY <2>6, SumsShift
    <3>2. g[1] \in Int /\ f[k + 1] \in Int /\ \A i \in 1..d : g[i] \in Int /\ f[k + i] \in Int
      BY <2>6 DEF AlikeFrom
    <3> QED
      <4>1. ASSUME NEW i \in 1..d PROVE g[i] + n = f[k + i]
        <5>1. PICK a, b, x, y \in Int : a = g[i] /\ b = g[1] /\ x = f[k + i] /\ y = f[k + 1]
          BY <3>2
        <5>2. a - b = x - y /\ b + n = y /\ n \in Int
          BY <2>1, <2>6, <3>1, <5>1
        <5>3. a + n = x
          BY <5>2
        <5> QED
          BY <5>1, <5>3
      <4> QED
        BY <4>1
  <2> QED
    BY <2>5, <2>7
<1>18. \A i \in 1..(m - k) : v[i].block = u[k + i].block
  <2>1. ASSUME NEW i \in 1..(m - k) PROVE v[i].block = u[k + i].block
    <3>1. CASE i = 1
      <4>1. m - k >= 1
        BY <1>4, <3>1
      <4> QED
        BY <1>11, <3>1, <4>1
    <3>2. CASE i # 1
      BY <1>10, <3>2
    <3> QED
      BY <3>1, <3>2
  <2> QED
    BY <2>1
<1>19. g[m - k] + n = f[m]
  <2>1. CASE m - k >= 1
    <3>1. m - k \in 1..(m - k) /\ k + (m - k) = m
      BY <1>4, <2>1
    <3> QED
      BY <1>17, <2>1, <3>1
  <2>2. CASE m = k
    <3>1. m >= 1
      <4>1. m = 0 => f[m] = 0
        BY <1>2, <1>3, Segments
      <4> QED
        BY <1>4, <1>5, <4>1
    <3>2. f[m] <= n
      BY <1>6, <2>2, <3>1
    <3>3. g[m - k] = 0
      BY <1>4, <1>16, <2>2
    <3> QED
      BY <1>5, <3>2, <3>3
  <2> QED
    BY <1>4, <2>1, <2>2
<1>20. \A i \in 1..(m - k) : g[i] + n = f[k + i]
  <2>1. ASSUME NEW i \in 1..(m - k) PROVE m - k >= 1
    BY <1>4
  <2> QED
    BY <1>17, <2>1
<1>21. Leaves(v, u, n, k)
  BY <1>2, <1>14, <1>15, <1>18, <1>19, <1>20 DEF Leaves
<1> QED
  BY <1>1, <1>9, <1>21

(***************************************************************************)
(* What the operators of the steps do to the variables.                    *)
(***************************************************************************)

\* The queues f become g: that of s gains r, the others stay.
Gains(g, f, s, r) ==
  /\ \A t \in Socket : t # s => g[t] = f[t]
  /\ g[s] = Append(f[s], r) /\ Len(f[s]) \in Nat /\ Len(g[s]) = Len(f[s]) + 1
  /\ \A i \in 1..Len(f[s]) : g[s][i] = f[s][i]
  /\ g[s][Len(f[s]) + 1] = r

\* ... and that of s loses its first.
Loses(g, f, s) ==
  /\ \A t \in Socket : t # s => g[t] = f[t]
  /\ Len(f[s]) \in Nat /\ Len(f[s]) >= 1 /\ Len(g[s]) = Len(f[s]) - 1
  /\ \A i \in 1..Len(g[s]) : g[s][i] = f[s][i + 1]

\* The queue of s is appended to, or loses its first.
Append1(g, f, s, r) == g = [f EXCEPT ![s] = Append(@, r)]
Tail1(g, f, s) == g = [f EXCEPT ![s] = Tail(@)]

\* A queue that is appended to.
LEMMA GainsIs ==
  ASSUME NEW S, NEW f, f \in [Socket -> Seq(S)], NEW s \in Socket, NEW r, r \in S,
         NEW g, Append1(g, f, s, r)
  PROVE  g \in [Socket -> Seq(S)] /\ Gains(g, f, s, r)
<1>1. PICK q : q = f[s]
  OBVIOUS
<1>2. q \in Seq(S)
  BY <1>1
<1>3. PICK a : a = Append(q, r)
  OBVIOUS
<1>4. /\ a \in Seq(S) /\ Len(a) = Len(q) + 1 /\ Len(q) \in Nat
      /\ \A i \in 1..Len(q) : a[i] = q[i]
      /\ a[Len(q) + 1] = r
  BY <1>2, <1>3, Appended
<1>5. g = [f EXCEPT ![s] = a]
  BY <1>1, <1>3 DEF Append1
<1>6. g \in [Socket -> Seq(S)] /\ g[s] = a /\ \A t \in Socket : t # s => g[t] = f[t]
  BY <1>4, <1>5
<1> QED
  BY <1>1, <1>3, <1>4, <1>6 DEF Gains

\* A queue whose first entry is taken.
LEMMA LosesIs ==
  ASSUME NEW S, NEW f \in [Socket -> Seq(S)], NEW s \in Socket, f[s] # <<>>,
         NEW g, Tail1(g, f, s)
  PROVE  g \in [Socket -> Seq(S)] /\ Loses(g, f, s) /\ Head(f[s]) = f[s][1] /\ Head(f[s]) \in S
<1>1. PICK q : q = f[s]
  OBVIOUS
<1>2. q \in Seq(S) /\ q # <<>>
  BY <1>1
<1>3. PICK a : a = Tail(q)
  OBVIOUS
<1>4. /\ a \in Seq(S) /\ Len(q) \in Nat /\ Len(q) >= 1 /\ Len(a) = Len(q) - 1
      /\ \A i \in 1..Len(a) : a[i] = q[i + 1]
      /\ Head(q) = q[1] /\ Head(q) \in S
  BY <1>2, <1>3, TailIs
<1>5. g = [f EXCEPT ![s] = a]
  BY <1>1, <1>3 DEF Tail1
<1>6. g \in [Socket -> Seq(S)] /\ g[s] = a /\ \A t \in Socket : t # s => g[t] = f[t]
  BY <1>4, <1>5
<1> QED
  BY <1>1, <1>4, <1>6 DEF Loses

\* enqueue_in_cqueue
LEMMA ReportIs ==
  ASSUME Shape, NEW s \in Socket, NEW r, r \in ResRec, Report(s, r)
  PROVE  /\ cqueue' \in [Socket -> Seq(ResRec)] /\ Gains(cqueue', cqueue, s, r)
         /\ answers' \in [Socket -> Seq(ResRec)] /\ Gains(answers', answers, s, r)
<1>1. cqueue \in [Socket -> Seq(ResRec)] /\ answers \in [Socket -> Seq(ResRec)]
  BY DEF Shape
<1>2. Append1(cqueue', cqueue, s, r) /\ Append1(answers', answers, s, r)
  BY DEF Report, Append1
<1> QED
  BY <1>1, <1>2, GainsIs

\* The operation that is next.
LEMMA OpIs ==
  ASSUME Shape, NEW s \in Socket, ops[s] # <<>>
  PROVE  Op(s) \in OpRec /\ Op(s) = ops[s][1] /\ Op(s).kind \in AllKinds /\ Op(s).id \in Nat /\ Op(s).size \in Nat
         /\ Len(ops[s]) \in Nat /\ Len(ops[s]) >= 1
<1>1. ops[s] \in Seq(OpRec)
  BY DEF Shape
<1>2. Op(s) \in OpRec /\ Op(s) = ops[s][1] /\ Len(ops[s]) \in Nat /\ Len(ops[s]) >= 1
  BY <1>1, TailIs DEF Op
<1> QED
  BY <1>2 DEF OpRec

\* The operation that is performed leaves the squeue.
LEMMA DoneIs ==
  ASSUME Shape, NEW s \in Socket, ops[s] # <<>>, Done(s)
  PROVE  ops' \in [Socket -> Seq(OpRec)] /\ Loses(ops', ops, s)
<1>1. ops \in [Socket -> Seq(OpRec)]
  BY DEF Shape
<1>2. Tail1(ops', ops, s)
  BY DEF Done, Tail1
<1> QED
  BY <1>1, <1>2, LosesIs

\* The operation is done, and r is its result.
FinishedWith(s, r, ok) ==
  /\ main' = Idle
  /\ ops' \in [Socket -> Seq(OpRec)] /\ Loses(ops', ops, s)
  /\ r \in ResRec /\ r.kind = Op(s).kind /\ r.id = Op(s).id /\ r.pcb = None
  /\ r.kind = "write" => r.ok = ok
  /\ cqueue' \in [Socket -> Seq(ResRec)] /\ Gains(cqueue', cqueue, s, r)
  /\ answers' \in [Socket -> Seq(ResRec)] /\ Gains(answers', answers, s, r)

\* An operation that is done with a result.
LEMMA FinishIs ==
  ASSUME Shape, NEW s \in Socket, ops[s] # <<>>, NEW ok \in BOOLEAN, Finish(s, ok)
  PROVE  \E r : FinishedWith(s, r, ok)
<1>1. PICK r : r = Result(Op(s).kind, Op(s).id, ok)
  OBVIOUS
<1>2. Op(s).kind \in AllKinds /\ Op(s).id \in Nat
  BY OpIs
<1>3. /\ r \in ResRec /\ r.kind = Op(s).kind /\ r.id = Op(s).id /\ r.pcb = None
      /\ r.kind = "write" => r.ok = ok
  BY <1>1, <1>2, ResultIs
<1>4. main' = Idle /\ Done(s) /\ Report(s, r)
  BY <1>1 DEF Finish
<1>5. ops' \in [Socket -> Seq(OpRec)] /\ Loses(ops', ops, s)
  BY <1>4, DoneIs
<1>6. /\ cqueue' \in [Socket -> Seq(ResRec)] /\ Gains(cqueue', cqueue, s, r)
      /\ answers' \in [Socket -> Seq(ResRec)] /\ Gains(answers', answers, s, r)
  BY <1>3, <1>4, ReportIs
<1>7. FinishedWith(s, r, ok)
  BY <1>3, <1>4, <1>5, <1>6 DEF FinishedWith
<1> QED
  BY <1>7

\* The operation goes on without a result.
AsyncWith(s) ==
  /\ main' = Idle /\ ops' \in [Socket -> Seq(OpRec)] /\ Loses(ops', ops, s)
  /\ cqueue' = cqueue /\ answers' = answers

\* An operation that goes on.
LEMMA AsyncIs ==
  ASSUME Shape, NEW s \in Socket, ops[s] # <<>>, Async(s)
  PROVE  AsyncWith(s)
<1>1. main' = Idle /\ Done(s) /\ cqueue' = cqueue /\ answers' = answers
  BY DEF Async, resVars
<1>2. ops' \in [Socket -> Seq(OpRec)] /\ Loses(ops', ops, s)
  BY <1>1, DoneIs
<1> QED
  BY <1>1, <1>2 DEF AsyncWith

\* The socket that is made next is unused.
LEMMA NextSocketIs ==
  ASSUME \E s \in Socket : phase[s] = "unused"
  PROVE  NextSocket \in Socket /\ phase[NextSocket] = "unused"
<1> DEFINE T == {s \in Socket : phase[s] = "unused"}
<1>1. PICK s \in T : \A t \in T : s <= t
  <2>1. T \subseteq Nat /\ T # {}
    BY ConstantFacts
  <2> HIDE DEF T
  <2> QED
    BY <2>1, LeastNat
<1>2. s \in Socket /\ phase[s] = "unused" /\ \A t \in Socket : phase[t] = "unused" => s <= t
  BY <1>1
<1> QED
  BY <1>2 DEF NextSocket


\* tcp_sent_callback leaves n bytes less in the first entry.
Shrink1(g, f, s, n) == g = [f EXCEPT ![s][1].size = @ - n]

\* The queue of s keeps its places; the first one becomes d.
Replaces(g, f, s, d) ==
  /\ \A t \in Socket : t # s => g[t] = f[t]
  /\ Len(f[s]) \in Nat /\ Len(f[s]) >= 1 /\ Len(g[s]) = Len(f[s]) /\ g[s][1] = d
  /\ \A i \in 2..Len(f[s]) : g[s][i] = f[s][i]

\* An entry of the write_queue of which n bytes are acknowledged.
LEMMA ShrinkIs ==
  ASSUME NEW f \in [Socket -> Seq(WEntry)], NEW s \in Socket, f[s] # <<>>, NEW n \in Nat, f[s][1].size >= n,
         NEW g, Shrink1(g, f, s, n)
  PROVE  /\ g \in [Socket -> Seq(WEntry)]
         /\ \E d \in WEntry : d.block = f[s][1].block /\ d.size = f[s][1].size - n /\ Replaces(g, f, s, d)
<1>1. PICK q : q = f[s]
  OBVIOUS
<1>2. q \in Seq(WEntry) /\ Len(q) \in Nat /\ Len(q) >= 1 /\ q[1] \in WEntry
  BY <1>1, TailIs
<1>3. PICK b \in Socket \X Nat, m \in Nat : q[1] = [block |-> b, size |-> m]
  BY <1>2 DEF WEntry
<1>4. PICK d : d = [block |-> b, size |-> m - n]
  OBVIOUS
<1>5. m >= n /\ m - n \in Nat
  BY <1>1, <1>3
<1>6. d \in WEntry /\ d.block = q[1].block /\ d.size = q[1].size - n
  BY <1>3, <1>4, <1>5 DEF WEntry
<1>7. [q[1] EXCEPT !.size = @ - n] = d
  BY <1>3, <1>4
<1>8. PICK a : a = [q EXCEPT ![1] = d]
  OBVIOUS
<1>9. g = [f EXCEPT ![s] = a]
  <2>1. g = [f EXCEPT ![s] = [q EXCEPT ![1] = [q[1] EXCEPT !.size = @ - n]]]
    BY <1>1 DEF Shrink1
  <2> QED
    BY <1>7, <1>8, <2>1
<1>10. a \in Seq(WEntry) /\ Len(a) = Len(q) /\ \A j \in 1..Len(q) : a[j] = IF j = 1 THEN d ELSE q[j]
  <2>1. 1 \in 1..Len(q)
    BY <1>2
  <2> QED
    BY <1>2, <1>6, <1>8, <2>1, ExceptSeq
<1>11. g \in [Socket -> Seq(WEntry)] /\ g[s] = a /\ \A t \in Socket : t # s => g[t] = f[t]
  BY <1>9, <1>10
<1>12. a[1] = d /\ \A j \in 2..Len(q) : a[j] = q[j]
  BY <1>2, <1>10
<1>13. Replaces(g, f, s, d)
  BY <1>1, <1>2, <1>10, <1>11, <1>12 DEF Replaces
<1> QED
  BY <1>1, <1>6, <1>11, <1>13

\* A write to a place a function does not have is without effect.
LEMMA ExceptOutside ==
  ASSUME NEW D, NEW R, NEW f \in [D -> R], NEW x, x \notin D, NEW v
  PROVE  [f EXCEPT ![x] = v] = f
OBVIOUS

(***************************************************************************)
(* Shape                                                                   *)
(***************************************************************************)

\* An operation is performed on the pcb of its socket.
LEMMA PerformingIs ==
  ASSUME Shape, NEW s \in Socket, NEW kind, Performing(s, kind)
  PROVE  /\ ops[s] # <<>> /\ pcb[s] \in AnyPcb /\ pcb[s] # None /\ Live(pcb[s]) /\ own[s] = gen[pcb[s]]
         /\ Op(s).kind = kind /\ mapped[s] /\ halt = Running /\ main.at \in {"idle", "op"} /\ main.at # "sent"
<1>1. pcb[s] # None /\ Live(pcb[s]) /\ own[s] = gen[pcb[s]]
  BY DEF Performing, Owned, Live
<1>2. pcb[s] \in AnyPcb \union {None}
  BY DEF Shape
<1>3. main.at \in {"idle", "op"} /\ main.at # "sent"
  BY DEF Performing, Idle
<1> QED
  BY <1>1, <1>2, <1>3 DEF Performing

\* Between operations tcp_sent_callback is not at work.
LEMMA IdleIs == Idle.at = "idle" /\ Idle.at # "sent"
BY DEF Idle

\* tcp_pcb_remove
LEMMA RemoveIs ==
  ASSUME Shape, NEW p \in AnyPcb, TcpPcbRemove(p)
  PROVE  /\ state' = [state EXCEPT ![p] = "free"] /\ unacked' \in [Pcb -> Seq(Segm)]
         /\ \A q \in Pcb : unacked'[q] = IF q = p THEN <<>> ELSE unacked[q]
<1>1. unacked' = [q \in Pcb |-> IF q = p THEN <<>> ELSE unacked[q]] /\ state' = [state EXCEPT ![p] = "free"]
  BY DEF TcpPcbRemove
<1>2. unacked \in [Pcb -> Seq(Segm)] /\ <<>> \in Seq(Segm)
  BY EmptySeq DEF Shape
<1> QED
  BY <1>1, <1>2

\* The write_queue_entry and the segment of a write.
LEMMA EntryIs ==
  ASSUME Shape, NEW s \in Socket, ops[s] # <<>>
  PROVE  /\ Entry(s) \in WEntry /\ Entry(s).block = <<s, Op(s).id>> /\ Entry(s).size = Op(s).size
         /\ <<s, Op(s).id>> \in Socket \X Nat
         /\ Length(Op(s).size) \in Nat /\ Length(Op(s).size) <= Op(s).size
         /\ Length(Op(s).size) # 0 => [block |-> Entry(s).block, len |-> Length(Op(s).size)] \in Segm
<1>1. Op(s).id \in Nat /\ Op(s).size \in Nat
  BY OpIs
<1>2. Entry(s) = [block |-> <<s, Op(s).id>>, size |-> Op(s).size]
  BY DEF Entry
<1>3. Entry(s) \in WEntry /\ Entry(s).block = <<s, Op(s).id>> /\ Entry(s).size = Op(s).size
      /\ <<s, Op(s).id>> \in Socket \X Nat
  BY <1>1, <1>2 DEF WEntry
<1>4. Length(Op(s).size) \in Nat /\ Length(Op(s).size) <= Op(s).size
  <2>1. PICK x \in Nat : x = Op(s).size
    BY <1>1
  <2>2. LenMod \in Nat /\ LenMod > 0
    BY ConstantFacts
  <2>3. x % LenMod \in Nat /\ x % LenMod <= x
    <3>1. x = LenMod * (x \div LenMod) + (x % LenMod) /\ x % LenMod \in Nat /\ x \div LenMod \in Nat
      BY <2>2
    <3>2. PICK m, d \in Nat : m = x % LenMod /\ d = x \div LenMod
      BY <3>1
    <3>3. LenMod * d \in Nat
      BY <2>2
    <3> QED
      BY <3>1, <3>2, <3>3
  <2> QED
    BY <2>1, <2>3 DEF Length
<1>5. ASSUME Length(Op(s).size) # 0
      PROVE  [block |-> Entry(s).block, len |-> Length(Op(s).size)] \in Segm
  <2>1. PICK b \in Socket \X Nat, n \in Nat \ {0} : b = Entry(s).block /\ n = Length(Op(s).size)
    BY <1>3, <1>4, <1>5
  <2>2. [block |-> b, len |-> n] \in Segm
    BY DEF Segm
  <2> QED
    BY <2>1, <2>2
<1> QED
  BY <1>3, <1>4, <1>5

\* Shape holds at first.
LEMMA InitShape == Init => Shape
<1> SUFFICES ASSUME Init PROVE Shape
  OBVIOUS
<1>1. \A S : <<>> \in Seq(S)
  BY EmptySeq
<1>2. \A p \in Pcb : p \in AnyPcb
  BY DEF AnyPcb
<1>3. \A l \in ListenPcb : l \in AnyPcb
  BY DEF AnyPcb
<1> QED
  BY <1>1, <1>2, <1>3 DEF Init, Shape, Idle

\* The part of Shape a step of an application can touch, that of the pcbs, of
\* the socket regions, and of the results.
ShapeApp ==
  /\ phase \in [Socket -> {"unused", "made", "gone"}]
  /\ ops \in [Socket -> Seq(OpRec)]
  /\ issued \in [Socket -> Seq(OpRec)]
  /\ making = Nobody \/ making \in [who : Socket, pcb : Pcb \union {None}, gen : Nat]
ShapePcb ==
  /\ state \in [AnyPcb -> {"free", "new", "connecting", "open", "closing", "listen"}]
  /\ \A p \in Pcb : state[p] # "listen"
  /\ \A l \in ListenPcb : state[l] \in {"free", "listen"}
  /\ arg \in [AnyPcb -> Socket \union {None}]
  /\ accepting \in [ListenPcb -> BOOLEAN]
  /\ gen \in [AnyPcb -> Nat]
ShapeSock ==
  /\ pcb \in [Socket -> AnyPcb \union {None}]
  /\ own \in [Socket -> Nat]
  /\ mapped \in [Socket -> BOOLEAN]
ShapeData ==
  /\ unacked \in [Pcb -> Seq(Segm)]
  /\ writeQueue \in [Socket -> Seq(WEntry)]
  /\ main.at \in {"idle", "op", "sent"}
  /\ main.at = "sent" => main \in [at : {"sent"}, who : Pcb, len : Nat \ {0}]
ShapeRes ==
  /\ cqueue \in [Socket -> Seq(ResRec)]
  /\ answers \in [Socket -> Seq(ResRec)]

\* Shape is the parts together.
LEMMA ShapeParts == Shape <=> ShapeApp /\ ShapePcb /\ ShapeSock /\ ShapeData /\ ShapeRes
BY DEF Shape, ShapeApp, ShapePcb, ShapeSock, ShapeData, ShapeRes

\* A submission and a dequeue keep the shape of what they touch.
LEMMA AppShapeStep ==
  ASSUME Shape, NEW s \in Socket
  PROVE  /\ \A k \in AllKinds, n \in Nat : Submit(s, k, n) => ShapeApp'
         /\ Dequeue(s) => ShapeApp' /\ ShapeRes'
<1>1. ASSUME NEW k \in AllKinds, NEW n \in Nat, Submit(s, k, n) PROVE ShapeApp'
  <2>1. PICK op : op = [kind |-> k, id |-> Len(issued[s]) + 1, size |-> n]
    OBVIOUS
  <2>2. issued \in [Socket -> Seq(OpRec)] /\ ops \in [Socket -> Seq(OpRec)] /\ Len(issued[s]) \in Nat
    BY LenProperties DEF Shape
  <2>3. op \in OpRec
    BY <2>1, <2>2 DEF OpRec
  <2>4. Append1(issued', issued, s, op) /\ Append1(ops', ops, s, op)
    BY <1>1, <2>1 DEF Submit, Append1
  <2>5. issued' \in [Socket -> Seq(OpRec)]
    BY <2>2, <2>3, <2>4, GainsIs
  <2>6. ops' \in [Socket -> Seq(OpRec)]
    BY <2>2, <2>3, <2>4, GainsIs
  <2>7. phase' = phase /\ making' = making
    BY <1>1 DEF Submit, sockVars
  <2> QED
    BY <2>5, <2>6, <2>7 DEF Shape, ShapeApp
<1>2. ASSUME Dequeue(s) PROVE ShapeApp' /\ ShapeRes'
  <2>1. cqueue[s] # <<>> /\ Tail1(cqueue', cqueue, s) /\ answers' = answers /\ ops' = ops /\ issued' = issued
    BY <1>2 DEF Dequeue, Tail1
  <2>2. cqueue' \in [Socket -> Seq(ResRec)] /\ Head(cqueue[s]) \in ResRec
    <3>1. cqueue \in [Socket -> Seq(ResRec)]
      BY DEF Shape
    <3> QED
      BY <2>1, <3>1, LosesIs
  <2>3. PICK r \in ResRec : r = Head(cqueue[s])
    BY <2>2
  <2>4. \/ /\ \E t \in Socket : phase[t] = "unused"
           /\ Publish(NextSocket)
           /\ making' = [who |-> NextSocket, pcb |-> r.pcb, gen |-> r.gen]
        \/ phase' = [phase EXCEPT ![s] = "gone"] /\ making' = making
        \/ phase' = phase /\ making' = making
    BY <1>2, <2>3 DEF Dequeue
  <2>5. r.pcb \in Pcb \union {None} /\ r.gen \in Nat
    BY DEF ResRec
  <2>6. phase' \in [Socket -> {"unused", "made", "gone"}]
    BY <2>4, NextSocketIs DEF Shape, Publish
  <2>7. making' = Nobody \/ making' \in [who : Socket, pcb : Pcb \union {None}, gen : Nat]
    <3>1. PICK a, g, t : a = r.pcb /\ g = r.gen /\ t = NextSocket
      OBVIOUS
    <3>2. CASE \E x \in Socket : phase[x] = "unused"
      <4>1. t \in Socket /\ a \in Pcb \union {None} /\ g \in Nat
        BY <2>5, <3>1, <3>2, NextSocketIs
      <4>2. [who |-> t, pcb |-> a, gen |-> g] \in [who : Socket, pcb : Pcb \union {None}, gen : Nat]
        BY <4>1
      <4> QED
        BY <2>4, <3>1, <4>2 DEF Shape
    <3>3. CASE ~\E x \in Socket : phase[x] = "unused"
      BY <2>4, <3>3 DEF Shape
    <3> QED
      BY <3>2, <3>3
  <2> QED
    BY <2>1, <2>2, <2>6, <2>7 DEF Shape, ShapeApp, ShapeRes
<1> QED
  BY <1>1, <1>2

\* A performed operation.
LEMMA PerformShape ==
  ASSUME Shape, NEW s \in Socket, ops[s] # <<>>, issued' = issued, phase' = phase, making' = making,
         (\E ok \in BOOLEAN : Finish(s, ok)) \/ Async(s)
  PROVE  ShapeApp' /\ ShapeRes' /\ main' = Idle
<1>1. CASE \E ok \in BOOLEAN : Finish(s, ok)
  <2>1. PICK r, ok : FinishedWith(s, r, ok)
    BY <1>1, FinishIs
  <2> QED
    BY <2>1 DEF FinishedWith, Shape, ShapeApp, ShapeRes
<1>2. CASE Async(s)
  <2>1. AsyncWith(s)
    BY <1>2, AsyncIs
  <2> QED
    BY <2>1 DEF AsyncWith, Shape, ShapeApp, ShapeRes
<1> QED
  BY <1>1, <1>2

\* A step that leaves main as it is, or makes the main thread idle.
LEMMA MainShape ==
  ASSUME Shape, main' = main \/ main' = Idle, unacked' \in [Pcb -> Seq(Segm)],
         writeQueue' \in [Socket -> Seq(WEntry)]
  PROVE  ShapeData'
BY IdleIs DEF Shape, ShapeData

\* Four of the operations keep Shape.
LEMMA PerformsShape ==
  ASSUME Shape, NEW s \in Socket
  PROVE  /\ Bind(s) => Shape'
         /\ Connect(s) => Shape'
         /\ Accept(s) => Shape'
         /\ Close(s) => Shape'
<1>0. \A p \in Pcb : p \notin ListenPcb
  BY ConstantFacts
<1>1. ASSUME Bind(s) PROVE Shape'
  <2>1. ops[s] # <<>> /\ Finish(s, TRUE)
    BY <1>1, PerformingIs DEF Bind
  <2>2. UNCHANGED <<issued, phase, making, state, arg, accepting, gen, pcb, own, mapped, unacked, writeQueue>>
    BY <1>1 DEF Bind, lwipVars, sockVars
  <2>3. ShapeApp' /\ ShapeRes' /\ main' = Idle
    BY <2>1, <2>2, PerformShape
  <2>4. ShapeData'
    BY <2>2, <2>3, MainShape DEF Shape
  <2>5. ShapePcb' /\ ShapeSock'
    BY <2>2 DEF Shape, ShapePcb, ShapeSock
  <2> QED
    BY <2>3, <2>4, <2>5, ShapeParts DEF Shape, ShapeApp, ShapePcb, ShapeSock, ShapeData, ShapeRes
<1>2. ASSUME Connect(s) PROVE Shape'
  <2>1. ops[s] # <<>> /\ pcb[s] \in AnyPcb /\ (Finish(s, FALSE) \/ Async(s))
    BY <1>2, PerformingIs DEF Connect
  <2>2. UNCHANGED <<issued, phase, making, arg, accepting, gen, pcb, own, mapped, unacked, writeQueue>>
    BY <1>2 DEF Connect, sockVars
  <2>3. ShapeApp' /\ ShapeRes' /\ main' = Idle
    BY <2>1, <2>2, PerformShape
  <2>4. ShapeData'
    BY <2>2, <2>3, MainShape DEF Shape
  <2>5. state' = state \/ (state[pcb[s]] = "new" /\ state' = [state EXCEPT ![pcb[s]] = "connecting"])
    BY <1>2 DEF Connect, TcpConnect
  <2>6. ShapePcb' /\ ShapeSock'
    <3>1. pcb[s] \in ListenPcb => state[pcb[s]] # "new"
      BY DEF Shape
    <3> QED
      <4>1. state' \in [AnyPcb -> {"free", "new", "connecting", "open", "closing", "listen"}]
        <5>1. PICK p \in AnyPcb : p = pcb[s]
          BY <2>1
        <5>2. state \in [AnyPcb -> {"free", "new", "connecting", "open", "closing", "listen"}]
          BY DEF Shape
        <5>3. CASE state' = state
          BY <5>2, <5>3
        <5>4. CASE state' = [state EXCEPT ![p] = "connecting"]
          BY <5>2, <5>4
        <5> QED
          BY <2>5, <5>1, <5>3, <5>4
      <4>2. \A p \in Pcb : state'[p] # "listen"
        BY <2>1, <2>5 DEF Shape, AnyPcb
      <4>3. \A l \in ListenPcb : state'[l] \in {"free", "listen"}
        BY <2>1, <2>5, <3>1 DEF Shape, AnyPcb
      <4> QED
        BY <2>2, <4>1, <4>2, <4>3 DEF Shape, ShapePcb, ShapeSock
  <2> QED
    BY <2>3, <2>4, <2>6 DEF Shape, ShapeApp, ShapePcb, ShapeSock, ShapeData, ShapeRes
<1>3. ASSUME Accept(s) PROVE Shape'
  <2>1. ops[s] # <<>> /\ Async(s)
    BY <1>3, PerformingIs DEF Accept
  <2>2. UNCHANGED <<issued, phase, making, state, arg, gen, pcb, own, mapped, unacked, writeQueue>>
    BY <1>3 DEF Accept, sockVars
  <2>3. ShapeApp' /\ ShapeRes' /\ main' = Idle
    BY <2>1, <2>2, PerformShape
  <2>4. ShapeData'
    BY <2>2, <2>3, MainShape DEF Shape
  <2>5. accepting' \in [ListenPcb -> BOOLEAN]
    <3>1. accepting' = [l \in ListenPcb |-> accepting[l] \/ (l = pcb[s] /\ state[l] = "listen")]
      BY <1>3 DEF Accept, TcpAccept
    <3>2. accepting \in [ListenPcb -> BOOLEAN]
      BY DEF Shape
    <3>3. ASSUME NEW l \in ListenPcb PROVE accepting'[l] \in BOOLEAN
      BY <3>1, <3>2
    <3>4. accepting' = [l \in ListenPcb |-> accepting'[l]]
      BY <3>1
    <3> QED
      BY <3>3, <3>4
  <2>6. ShapePcb' /\ ShapeSock'
    BY <2>2, <2>5 DEF Shape, ShapePcb, ShapeSock
  <2> QED
    BY <2>3, <2>4, <2>6 DEF Shape, ShapeApp, ShapePcb, ShapeSock, ShapeData, ShapeRes
<1>4. ASSUME Close(s) PROVE Shape'
  <2>1. ops[s] # <<>> /\ pcb[s] \in AnyPcb /\ Finish(s, TRUE)
    BY <1>4, PerformingIs DEF Close
  <2>2. UNCHANGED <<issued, phase, making, arg, accepting, gen, pcb, own, mapped, writeQueue>>
    BY <1>4 DEF Close, sockVars
  <2>3. ShapeApp' /\ ShapeRes' /\ main' = Idle
    BY <2>1, <2>2, PerformShape
  <2>4. \/ /\ state[pcb[s]] \in {"open", "closing"} /\ unacked' = unacked
           /\ state' = [state EXCEPT ![pcb[s]] = "closing"]
        \/ TcpPcbRemove(pcb[s])
    BY <1>4 DEF Close, TcpClose
  <2>5. unacked' \in [Pcb -> Seq(Segm)]
    BY <2>1, <2>4, RemoveIs DEF Shape
  <2>6. ShapeData'
    BY <2>2, <2>3, <2>5, MainShape DEF Shape
  <2>7. ShapePcb' /\ ShapeSock'
    <3>1. CASE TcpPcbRemove(pcb[s])
      <4>1. state' = [state EXCEPT ![pcb[s]] = "free"]
        BY <2>1, <3>1, RemoveIs
      <4> QED
        BY <2>1, <2>2, <4>1 DEF Shape, ShapePcb, ShapeSock
    <3>2. CASE state[pcb[s]] \in {"open", "closing"} /\ state' = [state EXCEPT ![pcb[s]] = "closing"]
      <4>1. pcb[s] \notin ListenPcb
        BY <3>2 DEF Shape
      <4> QED
        BY <2>1, <2>2, <3>2, <4>1 DEF Shape, ShapePcb, ShapeSock
    <3> QED
      BY <2>4, <3>1, <3>2
  <2> QED
    BY <2>3, <2>6, <2>7 DEF Shape, ShapeApp, ShapePcb, ShapeSock, ShapeData, ShapeRes
<1> QED
  BY <1>1, <1>2, <1>3, <1>4

\* tcp_alloc
LEMMA AllocIs ==
  ASSUME Shape, NEW p \in AnyPcb, NEW st, NEW a, Alloc(p, st, a)
  PROVE  /\ state' = [state EXCEPT ![p] = st] /\ gen' = [gen EXCEPT ![p] = gen[p] + 1]
         /\ arg' = [arg EXCEPT ![p] = a]
         /\ gen' \in [AnyPcb -> Nat] /\ gen'[p] = gen[p] + 1 /\ gen[p] \in Nat
         /\ \A q \in AnyPcb : q # p => gen'[q] = gen[q] /\ state'[q] = state[q] /\ arg'[q] = arg[q]
         /\ state'[p] = st /\ arg'[p] = a
<1>1. state' = [state EXCEPT ![p] = st] /\ gen' = [gen EXCEPT ![p] = gen[p] + 1]
      /\ arg' = [arg EXCEPT ![p] = a]
  BY DEF Alloc
<1>2. gen[p] \in Nat
  BY DEF Shape
<1>3. gen' \in [AnyPcb -> Nat] /\ gen'[p] = gen[p] + 1
  BY <1>1, <1>2 DEF Shape
<1>4. \A q \in AnyPcb : q # p => gen'[q] = gen[q] /\ state'[q] = state[q] /\ arg'[q] = arg[q]
  BY <1>1 DEF Shape
<1>5. state'[p] = st /\ arg'[p] = a
  BY <1>1 DEF Shape
<1> QED
  BY <1>1, <1>2, <1>3, <1>4, <1>5

\* The two ways an operation makes a new pcb the socket's.
LEMMA NewPcbIs ==
  ASSUME Shape, NEW s \in Socket, NewPcb(s)
  PROVE  /\ ops[s] # <<>> /\ pcb[s] = None /\ mapped[s] /\ halt = Running /\ main = Idle
         /\ UNCHANGED <<accepting, unacked, ended, phase, writeQueue, mapped, appVars, resVars>>
         /\ \/ \E p \in Pcb : /\ state[p] = "free" /\ Alloc(p, "new", s)
                              /\ pcb' = [pcb EXCEPT ![s] = p] /\ own' = [own EXCEPT ![s] = gen[p] + 1]
                              /\ main'.at = "op" /\ halt' = halt
            \/ halt' = Stopped("no pcb", s) /\ UNCHANGED <<state, gen, arg, pcb, own, main>>
<1>1. [Idle EXCEPT !.at = "op", !.who = s].at = "op"
  BY DEF Idle
<1>2. \A p \in Free(Pcb) : p \in Pcb /\ state[p] = "free"
  BY DEF Free
<1> QED
  BY <1>1, <1>2 DEF NewPcb

\* tx_tcp_listen: a new listening pcb, or nothing but a result.
LEMMA ListenIs ==
  ASSUME Shape, NEW s \in Socket, Listen(s)
  PROVE  /\ \E ok \in BOOLEAN : Finish(s, ok)
         /\ UNCHANGED <<unacked, ended, phase, writeQueue, mapped, issued, freed, making, early, halt>>
         /\ \/ \E l \in ListenPcb :
                 /\ state[pcb[s]] = "new" /\ state[l] = "free" /\ pcb[s] \in Pcb
                 /\ state' = [state EXCEPT ![pcb[s]] = "free", ![l] = "listen"]
                 /\ gen' = [gen EXCEPT ![l] = gen[l] + 1]
                 /\ arg' = [arg EXCEPT ![l] = arg[pcb[s]]]
                 /\ accepting' = [accepting EXCEPT ![l] = FALSE]
                 /\ pcb' = [pcb EXCEPT ![s] = l] /\ own' = [own EXCEPT ![s] = gen[l] + 1]
            \/ UNCHANGED <<state, gen, arg, accepting, pcb, own>>
<1>1. pcb[s] \in AnyPcb /\ Performing(s, "listen")
  BY PerformingIs DEF Listen
<1>2. state[pcb[s]] = "new" => pcb[s] \in Pcb
  BY <1>1 DEF Shape, AnyPcb
<1>3. \E ok \in BOOLEAN : Finish(s, ok)
  <2>1. Finish(s, TRUE) \/ Finish(s, FALSE)
    BY DEF Listen
  <2> QED
    BY <2>1
<1> QED
  BY <1>2, <1>3 DEF Listen, TcpListen, ListenTakes

\* What a write does: it is queued, tried again, or fails.
LEMMA WriteIs ==
  ASSUME Shape, NEW s \in Socket, Write(s)
  PROVE  /\ UNCHANGED <<state, arg, accepting, gen, ended, phase, pcb, mapped, own, issued, freed, making, early, halt>>
         /\ \/ /\ Len(writeQueue[s]) # WriteQueueCap /\ CanSend(pcb[s])
               /\ Room(pcb[s], Length(Op(s).size))
               /\ TcpWrite(pcb[s], Entry(s).block, Length(Op(s).size))
               /\ Append1(writeQueue', writeQueue, s, Entry(s)) /\ AsyncWith(s)
            \/ main' = Idle /\ UNCHANGED <<unacked, writeQueue, ops, cqueue, answers>>
            \/ Finish(s, FALSE) /\ UNCHANGED <<unacked, writeQueue>>
<1>1. Async(s) => AsyncWith(s)
  BY AsyncIs, PerformingIs DEF Write
<1> QED
  BY <1>1 DEF Write, Append1, resVars

\* tcp_write: one segment more, if the length is not 0.
LEMMA TcpWriteIs ==
  ASSUME Shape, NEW s \in Socket, ops[s] # <<>>, NEW p \in Pcb,
         TcpWrite(p, Entry(s).block, Length(Op(s).size))
  PROVE  /\ unacked' \in [Pcb -> Seq(Segm)] /\ \A q \in Pcb : q # p => unacked'[q] = unacked[q]
         /\ \/ Length(Op(s).size) = 0 /\ unacked' = unacked
            \/ \E x \in Segm : /\ x.block = Entry(s).block /\ x.len = Length(Op(s).size)
                               /\ unacked'[p] = Append(unacked[p], x)
<1>1. unacked \in [Pcb -> Seq(Segm)]
  BY DEF Shape
<1>2. CASE Length(Op(s).size) = 0
  <2>1. unacked' = unacked
    BY <1>2 DEF TcpWrite
  <2> QED
    BY <1>1, <1>2, <2>1
<1>3. CASE Length(Op(s).size) # 0
  <2>1. PICK x : x = [block |-> Entry(s).block, len |-> Length(Op(s).size)]
    OBVIOUS
  <2>2. x \in Segm /\ x.block = Entry(s).block /\ x.len = Length(Op(s).size)
    BY <1>3, <2>1, EntryIs
  <2>3. unacked' = [unacked EXCEPT ![p] = Append(@, x)]
    BY <1>3, <2>1 DEF TcpWrite
  <2>4. PICK a : a = Append(unacked[p], x)
    OBVIOUS
  <2>5. a \in Seq(Segm)
    <3>1. unacked[p] \in Seq(Segm)
      BY <1>1
    <3> QED
      BY <2>2, <2>4, <3>1, Appended
  <2>6. unacked' \in [Pcb -> Seq(Segm)] /\ unacked'[p] = a /\ \A q \in Pcb : q # p => unacked'[q] = unacked[q]
    BY <1>1, <2>3, <2>4, <2>5
  <2> QED
    BY <2>2, <2>4, <2>6
<1> QED
  BY <1>2, <1>3

\* One call of tcp_sent_callback.
LEMMA SentIs ==
  ASSUME Shape, Sent
  PROVE  /\ halt = Running /\ main.at = "sent" /\ main.who \in Pcb /\ main.len \in Nat \ {0}
         /\ UNCHANGED <<lwipVars, phase, pcb, mapped, own, appVars>>
         /\ \/ /\ arg[main.who] = None /\ halt' = Stopped("null", main.who)
               /\ UNCHANGED <<writeQueue, cqueue, answers, main>>
            \/ \E s \in Socket :
                 /\ s = arg[main.who] /\ writeQueue[s] = <<>> /\ halt' = Stopped("exit", s)
                 /\ UNCHANGED <<writeQueue, cqueue, answers, main>>
            \/ \E s \in Socket : \E e \in WEntry :
                 /\ s = arg[main.who] /\ writeQueue[s] # <<>> /\ e = writeQueue[s][1] /\ halt' = halt
                 /\ e.size <= main.len
                 /\ Tail1(writeQueue', writeQueue, s)
                 /\ Report(s, Result("write", e.block[2], TRUE))
                 /\ main' = IF main.len - e.size > 0 THEN [main EXCEPT !.len = main.len - e.size] ELSE Idle
            \/ \E s \in Socket : \E e \in WEntry :
                 /\ s = arg[main.who] /\ writeQueue[s] # <<>> /\ e = writeQueue[s][1] /\ halt' = halt
                 /\ ~(e.size <= main.len)
                 /\ Shrink1(writeQueue', writeQueue, s, main.len)
                 /\ main' = Idle /\ UNCHANGED <<cqueue, answers>>
<1>1. halt = Running /\ main.at = "sent" /\ main.who \in Pcb /\ main.len \in Nat \ {0}
  BY DEF Sent, Shape
<1>2. arg[main.who] \in Socket \union {None} /\ main.who \in AnyPcb
  BY <1>1 DEF Shape, AnyPcb
<1>3. PICK s : s = arg[main.who]
  OBVIOUS
<1>4. UNCHANGED <<lwipVars, phase, pcb, mapped, own, appVars>>
  BY DEF Sent
<1>5. CASE s = None
  BY <1>1, <1>3, <1>4, <1>5 DEF Sent, resVars
<1>6. CASE s # None /\ writeQueue[s] = <<>>
  <2>1. s \in Socket
    BY <1>2, <1>3, <1>6
  <2> QED
    BY <1>1, <1>3, <1>4, <1>6, <2>1 DEF Sent, resVars
<1>7. CASE s # None /\ writeQueue[s] # <<>>
  <2>1. s \in Socket /\ writeQueue[s] \in Seq(WEntry)
    BY <1>2, <1>3, <1>7 DEF Shape
  <2>2. PICK e : e = Head(writeQueue[s])
    OBVIOUS
  <2>3. e \in WEntry /\ e = writeQueue[s][1]
    BY <1>7, <2>1, <2>2, TailIs
  <2>4. /\ halt' = halt
        /\ IF Covered(e, main.len)
             THEN /\ writeQueue' = [writeQueue EXCEPT ![s] = Tail(@)]
                  /\ Report(s, Result("write", e.block[2], TRUE))
                  /\ main' = IF Rest(e, main.len) > 0
                               THEN [main EXCEPT !.len = Rest(e, @)] ELSE Idle
             ELSE /\ writeQueue' = [writeQueue EXCEPT ![s][1].size = @ - main.len]
                  /\ main' = Idle /\ UNCHANGED resVars
    BY <1>3, <1>7, <2>2 DEF Sent
  <2>5. CASE e.size <= main.len
    <3>1. Covered(e, main.len)
      BY <2>5 DEF Covered
    <3>2. /\ Tail1(writeQueue', writeQueue, s)
          /\ Report(s, Result("write", e.block[2], TRUE))
          /\ main' = IF main.len - e.size > 0 THEN [main EXCEPT !.len = main.len - e.size] ELSE Idle
      BY <2>4, <3>1 DEF Tail1, Rest
    <3> QED
      BY <1>1, <1>3, <1>4, <1>7, <2>1, <2>3, <2>4, <2>5, <3>2
  <2>6. CASE ~(e.size <= main.len)
    <3>1. ~Covered(e, main.len)
      BY <2>6 DEF Covered
    <3>2. Shrink1(writeQueue', writeQueue, s, main.len) /\ main' = Idle /\ UNCHANGED resVars
      BY <2>4, <3>1 DEF Shrink1
    <3> QED
      BY <1>1, <1>3, <1>4, <1>7, <2>1, <2>3, <2>4, <2>6, <3>2 DEF resVars
  <2> QED
    BY <2>5, <2>6
<1> QED
  BY <1>5, <1>6, <1>7

\* So do the other steps that are not events of lwIP.
LEMMA RestShape ==
  ASSUME Shape
  PROVE  /\ Create => Shape'
         /\ SetPcb => Shape'
         /\ \A s \in Socket : Map(s) => Shape'
         /\ \A s \in Socket : NewPcb(s) => Shape'
         /\ \A s \in Socket : Stale(s) => Shape'
         /\ \A s \in Socket : Listen(s) => Shape'
         /\ \A s \in Socket : Write(s) => Shape'
<1>0. /\ \A p \in Pcb : p \notin ListenPcb /\ p \in AnyPcb
      /\ \A l \in ListenPcb : l \in AnyPcb
  BY ConstantFacts DEF AnyPcb
<1>1. ASSUME Create PROVE Shape'
  <2>1. NextSocket \in Socket
    BY <1>1, NextSocketIs DEF Create
  <2>2. phase' \in [Socket -> {"unused", "made", "gone"}]
    BY <1>1, <2>1 DEF Create, Publish, Shape
  <2> QED
    BY <1>1, <2>2 DEF Create, Shape, lwipVars, appVars, resVars
<1>2. ASSUME SetPcb PROVE Shape'
  <2>1. making.who \in Socket /\ making.pcb \in Pcb \union {None} /\ making.gen \in Nat
    BY <1>2 DEF SetPcb, Shape
  <2>2. pcb' \in [Socket -> AnyPcb \union {None}] /\ own' \in [Socket -> Nat]
    BY <1>0, <1>2, <2>1 DEF SetPcb, TakePcb, Shape
  <2>3. making' = Nobody
    BY <1>2 DEF SetPcb
  <2> QED
    BY <1>2, <2>2, <2>3 DEF SetPcb, Shape, lwipVars, resVars
<1>3. ASSUME NEW s \in Socket, Map(s) PROVE Shape'
  <2>1. mapped' \in [Socket -> BOOLEAN]
    BY <1>3 DEF Map, Shape
  <2>2. arg' = arg \/ (pcb[s] # None /\ arg' = [arg EXCEPT ![pcb[s]] = s])
    BY <1>3 DEF Map
  <2>3. arg' \in [AnyPcb -> Socket \union {None}]
    <3>1. pcb[s] # None => pcb[s] \in AnyPcb
      BY DEF Shape
    <3> QED
      <4>1. arg \in [AnyPcb -> Socket \union {None}]
        BY DEF Shape
      <4>2. PICK p : p = pcb[s]
        OBVIOUS
      <4>3. CASE arg' = arg
        BY <4>1, <4>3
      <4>4. CASE p \in AnyPcb /\ arg' = [arg EXCEPT ![p] = s]
        BY <4>1, <4>4
      <4> QED
        BY <2>2, <3>1, <4>2, <4>3, <4>4
  <2> QED
    BY <1>3, <2>1, <2>3 DEF Map, Shape, appVars, resVars
<1>4. ASSUME NEW s \in Socket, NewPcb(s) PROVE Shape'
  <2>1. UNCHANGED <<accepting, unacked, phase, writeQueue, mapped, ops, issued, making, cqueue, answers>>
    BY <1>4, NewPcbIs DEF appVars, resVars
  <2>2. CASE UNCHANGED <<state, gen, arg, pcb, own, main>>
    BY <2>1, <2>2 DEF Shape
  <2>3. CASE \E p \in Pcb : /\ state[p] = "free" /\ Alloc(p, "new", s)
                            /\ pcb' = [pcb EXCEPT ![s] = p] /\ own' = [own EXCEPT ![s] = gen[p] + 1]
                            /\ main'.at = "op" /\ halt' = halt
    <3>1. PICK p \in Pcb : /\ state[p] = "free" /\ Alloc(p, "new", s)
                           /\ pcb' = [pcb EXCEPT ![s] = p] /\ own' = [own EXCEPT ![s] = gen[p] + 1]
                           /\ main'.at = "op" /\ halt' = halt
      BY <2>3
    <3>2. p \in AnyPcb /\ p \notin ListenPcb
      BY <1>0
    <3>3. /\ state' = [state EXCEPT ![p] = "new"] /\ arg' = [arg EXCEPT ![p] = s]
          /\ gen' \in [AnyPcb -> Nat] /\ gen[p] \in Nat
      BY <3>1, <3>2, AllocIs
    <3>4. ShapePcb'
      BY <1>0, <2>1, <3>2, <3>3 DEF Shape, ShapePcb
    <3>5. ShapeSock'
      BY <2>1, <3>1, <3>2, <3>3 DEF Shape, ShapeSock
    <3>6. ShapeApp' /\ ShapeData' /\ ShapeRes'
      BY <2>1, <3>1 DEF Shape, ShapeApp, ShapeData, ShapeRes
    <3> QED
      BY <3>4, <3>5, <3>6 DEF Shape, ShapeApp, ShapePcb, ShapeSock, ShapeData, ShapeRes
  <2> QED
    BY <1>4, <2>2, <2>3, NewPcbIs
<1>5. ASSUME NEW s \in Socket, Stale(s) PROVE Shape'
  BY <1>5 DEF Stale, Shape, lwipVars, sockVars, appVars, resVars
<1>6. ASSUME NEW s \in Socket, Listen(s) PROVE Shape'
  <2>1. ops[s] # <<>> /\ pcb[s] \in AnyPcb /\ \E ok \in BOOLEAN : Finish(s, ok)
    BY <1>6, PerformingIs, ListenIs DEF Listen
  <2>2. UNCHANGED <<unacked, phase, writeQueue, mapped, issued, making>>
    BY <1>6, ListenIs
  <2>3. ShapeApp' /\ ShapeRes' /\ main' = Idle
    BY <2>1, <2>2, PerformShape
  <2>4. ShapeData'
    BY <2>2, <2>3, MainShape DEF Shape
  <2>5. CASE UNCHANGED <<state, gen, arg, accepting, pcb, own>>
    <3>1. ShapePcb' /\ ShapeSock'
      BY <2>2, <2>5 DEF Shape, ShapePcb, ShapeSock
    <3> QED
      BY <2>3, <2>4, <3>1 DEF Shape, ShapeApp, ShapePcb, ShapeSock, ShapeData, ShapeRes
  <2>6. CASE ~UNCHANGED <<state, gen, arg, accepting, pcb, own>>
    <3>1. PICK l \in ListenPcb :
                 /\ state[pcb[s]] = "new" /\ state[l] = "free" /\ pcb[s] \in Pcb
                 /\ state' = [state EXCEPT ![pcb[s]] = "free", ![l] = "listen"]
                 /\ gen' = [gen EXCEPT ![l] = gen[l] + 1]
                 /\ arg' = [arg EXCEPT ![l] = arg[pcb[s]]]
                 /\ accepting' = [accepting EXCEPT ![l] = FALSE]
                 /\ pcb' = [pcb EXCEPT ![s] = l] /\ own' = [own EXCEPT ![s] = gen[l] + 1]
      BY <1>6, <2>6, ListenIs
    <3>2. l \in AnyPcb /\ l \notin Pcb /\ gen[l] \in Nat
      BY <1>0 DEF Shape
    <3>3. ShapePcb'
      <4>1. PICK p : p = pcb[s] /\ p \in Pcb /\ p \in AnyPcb /\ p \notin ListenPcb
        BY <1>0, <3>1
      <4>2. state' \in [AnyPcb -> {"free", "new", "connecting", "open", "closing", "listen"}]
        BY <3>1, <3>2, <4>1 DEF Shape
      <4>3. (\A q \in Pcb : state'[q] # "listen") /\ \A q \in ListenPcb : state'[q] \in {"free", "listen"}
        <5>1. state' = [state EXCEPT ![p] = "free", ![l] = "listen"]
          BY <3>1, <4>1
        <5>2. \A q \in AnyPcb : state'[q] = IF q = l THEN "listen" ELSE IF q = p THEN "free" ELSE state[q]
          BY <3>2, <4>1, <5>1 DEF Shape
        <5>3. /\ \A q \in Pcb : state[q] # "listen" /\ q # l
              /\ \A q \in ListenPcb : state[q] \in {"free", "listen"} /\ q # p
          BY <1>0, <3>2, <4>1 DEF Shape
        <5> QED
          BY <1>0, <5>2, <5>3
      <4>4. arg' \in [AnyPcb -> Socket \union {None}] /\ accepting' \in [ListenPcb -> BOOLEAN]
        BY <3>1, <3>2, <4>1 DEF Shape
      <4>5. gen' \in [AnyPcb -> Nat]
        BY <3>1, <3>2 DEF Shape
      <4> QED
        BY <4>2, <4>3, <4>4, <4>5 DEF ShapePcb
    <3>4. ShapeSock'
      BY <2>2, <3>1, <3>2 DEF Shape, ShapeSock
    <3> QED
      BY <2>3, <2>4, <3>3, <3>4 DEF Shape, ShapeApp, ShapePcb, ShapeSock, ShapeData, ShapeRes
  <2> QED
    BY <2>5, <2>6
<1>7. ASSUME NEW s \in Socket, Write(s) PROVE Shape'
  <2>1. ops[s] # <<>> /\ pcb[s] \in AnyPcb /\ Len(ops[s]) \in Nat
    BY <1>7, PerformingIs, OpIs DEF Write
  <2>2. UNCHANGED <<state, arg, accepting, gen, phase, pcb, mapped, own, issued, making>>
    BY <1>7, WriteIs
  <2>3. ShapePcb' /\ ShapeSock'
    BY <2>2 DEF Shape, ShapePcb, ShapeSock
  <2>4. CASE /\ CanSend(pcb[s]) /\ TcpWrite(pcb[s], Entry(s).block, Length(Op(s).size))
             /\ Append1(writeQueue', writeQueue, s, Entry(s)) /\ AsyncWith(s)
    <3>1. pcb[s] \in Pcb
      BY <2>1, <2>4 DEF CanSend, Shape, AnyPcb
    <3>2. unacked' \in [Pcb -> Seq(Segm)]
      BY <2>1, <2>4, <3>1, TcpWriteIs
    <3>3. writeQueue' \in [Socket -> Seq(WEntry)]
      <4>1. writeQueue \in [Socket -> Seq(WEntry)] /\ Entry(s) \in WEntry
        BY <2>1, EntryIs DEF Shape
      <4> QED
        BY <2>4, <4>1, GainsIs
    <3>4. ShapeData'
      BY <2>4, <3>2, <3>3, MainShape DEF AsyncWith
    <3>5. ShapeApp' /\ ShapeRes'
      BY <2>2, <2>4 DEF AsyncWith, Shape, ShapeApp, ShapeRes
    <3> QED
      BY <2>3, <3>4, <3>5 DEF Shape, ShapeApp, ShapePcb, ShapeSock, ShapeData, ShapeRes
  <2>5. CASE main' = Idle /\ UNCHANGED <<unacked, writeQueue, ops, cqueue, answers>>
    <3>1. ShapeData'
      BY <2>5, MainShape DEF Shape
    <3>2. ShapeApp' /\ ShapeRes'
      BY <2>2, <2>5 DEF Shape, ShapeApp, ShapeRes
    <3> QED
      BY <2>3, <3>1, <3>2 DEF Shape, ShapeApp, ShapePcb, ShapeSock, ShapeData, ShapeRes
  <2>6. CASE Finish(s, FALSE) /\ UNCHANGED <<unacked, writeQueue>>
    <3>1. ShapeApp' /\ ShapeRes' /\ main' = Idle
      BY <2>1, <2>2, <2>6, PerformShape
    <3>2. ShapeData'
      BY <2>6, <3>1, MainShape DEF Shape
    <3> QED
      BY <2>3, <3>1, <3>2 DEF Shape, ShapeApp, ShapePcb, ShapeSock, ShapeData, ShapeRes
  <2> QED
    BY <1>7, <2>4, <2>5, <2>6, WriteIs
<1> QED
  BY <1>1, <1>2, <1>3, <1>4, <1>5, <1>6, <1>7

\* The steps, one by one.
Steps ==
  \/ Create \/ SetPcb
  \/ \E s \in Socket : \E k \in AllKinds, n \in Nat : Submit(s, k, n)
  \/ \E s \in Socket : Dequeue(s)
  \/ \E s \in Socket : Map(s)
  \/ \E s \in Socket : NewPcb(s)
  \/ \E s \in Socket : Stale(s)
  \/ \E s \in Socket : Bind(s)
  \/ \E s \in Socket : Connect(s)
  \/ \E s \in Socket : Listen(s)
  \/ \E s \in Socket : Accept(s)
  \/ \E s \in Socket : Write(s)
  \/ \E s \in Socket : Close(s)
  \/ \E p \in Pcb : SynAck(p)
  \/ \E p \in Pcb : \E n \in 1..Held(p) : Ack(p, n)
  \/ \E p \in Pcb : Reset(p)
  \/ \E p \in Pcb : Gone(p)
  \/ \E l \in ListenPcb : Incoming(l)
  \/ \E l \in ListenPcb : IncomingNoMem(l)
  \/ Sent

\* Next is one of the steps.
LEMMA NextSteps == Next => Steps
<1>1. Kinds \ {"write"} \subseteq AllKinds /\ 0 \in Nat /\ "write" \in AllKinds /\ Sizes \subseteq Nat
  BY ConstantFacts DEF AllKinds
<1>2. ASSUME NEW s \in Socket, NEW k \in Kinds \ {"write"}, Submit(s, k, 0) PROVE Steps
  BY <1>1, <1>2 DEF Steps
<1>3. ASSUME NEW s \in Socket, NEW n \in Sizes, Submit(s, "write", n) PROVE Steps
  BY <1>1, <1>3 DEF Steps
<1>4. ASSUME NEW s \in Socket,
             \/ Dequeue(s) \/ Map(s) \/ NewPcb(s) \/ Stale(s)
             \/ Bind(s) \/ Connect(s) \/ Listen(s) \/ Accept(s) \/ Write(s) \/ Close(s)
      PROVE  Steps
  BY <1>4 DEF Steps
<1>5. ASSUME NEW p \in Pcb, SynAck(p) \/ Acks(p) \/ Reset(p) \/ Gone(p) PROVE Steps
  BY <1>5 DEF Steps, Acks
<1>6. ASSUME NEW l \in ListenPcb, Incoming(l) \/ IncomingNoMem(l) PROVE Steps
  BY <1>6 DEF Steps
<1>7. Create \/ SetPcb \/ Sent => Steps
  BY DEF Steps
<1> QED
  BY <1>2, <1>3, <1>4, <1>5, <1>6, <1>7 DEF Next

\* The results of events.
LEMMA ConnectedIs ==
  ASSUME Shape, NEW p \in Pcb, SynAck(p)
  PROVE  /\ halt = Running /\ main = Idle /\ state[p] = "connecting" /\ state' = [state EXCEPT ![p] = "open"]
         /\ UNCHANGED <<arg, accepting, unacked, gen, ended, sockVars, appVars, main, halt>>
         /\ \/ arg[p] = None /\ cqueue' = cqueue /\ answers' = answers
            \/ \E s \in Socket : \E r \in ResRec :
                 /\ s = arg[p] /\ r.kind = "connect" /\ r.pcb = None
                 /\ cqueue' \in [Socket -> Seq(ResRec)] /\ Gains(cqueue', cqueue, s, r)
                 /\ answers' \in [Socket -> Seq(ResRec)] /\ Gains(answers', answers, s, r)
<1>1. /\ halt = Running /\ main = Idle /\ state[p] = "connecting" /\ state' = [state EXCEPT ![p] = "open"]
      /\ UNCHANGED <<arg, accepting, unacked, gen, ended, sockVars, appVars, main, halt>>
      /\ Report(arg[p], Result("connect", 0, TRUE))
  BY DEF SynAck, Event, Connected
<1>2. arg[p] \in Socket \union {None}
  BY DEF Shape, AnyPcb
<1>3. CASE arg[p] = None
  <2>1. arg[p] \notin Socket
    BY <1>3, ConstantFacts
  <2>2. cqueue' = cqueue /\ answers' = answers
    <3>1. PICK x, c, a : /\ x = arg[p] /\ cqueue' = [cqueue EXCEPT ![x] = c] /\ answers' = [answers EXCEPT ![x] = a]
      BY <1>1 DEF Report
    <3> QED
      BY <2>1, <3>1, ExceptOutside DEF Shape
  <2> QED
    BY <1>1, <1>3, <2>2
<1>4. CASE arg[p] # None
  <2>1. PICK r : r = Result("connect", 0, TRUE)
    OBVIOUS
  <2>2. r \in ResRec /\ r.kind = "connect" /\ r.pcb = None
    <3>1. "connect" \in AllKinds /\ 0 \in Nat /\ TRUE \in BOOLEAN
      BY DEF AllKinds
    <3> QED
      BY <2>1, <3>1, ResultIs
  <2>3. PICK s \in Socket : s = arg[p]
    BY <1>2, <1>4
  <2>4. Report(s, r)
    BY <1>1, <2>1, <2>3
  <2>5. /\ cqueue' \in [Socket -> Seq(ResRec)] /\ Gains(cqueue', cqueue, s, r)
        /\ answers' \in [Socket -> Seq(ResRec)] /\ Gains(answers', answers, s, r)
    BY <2>2, <2>4, ReportIs
  <2> QED
    BY <1>1, <2>2, <2>3, <2>5
<1> QED
  BY <1>3, <1>4

\* The result of an accepted connection.
LEMMA AcceptedIs ==
  ASSUME Shape, NEW l \in ListenPcb, NEW p \in Pcb \union {None}, NEW g \in Nat, Accepted(arg[l], p, g)
  PROVE  \/ arg[l] = None /\ cqueue' = cqueue /\ answers' = answers
         \/ \E s \in Socket : \E r \in ResRec :
              /\ s = arg[l] /\ r.kind = "accept" /\ r.pcb = p /\ r.gen = g
              /\ cqueue' \in [Socket -> Seq(ResRec)] /\ Gains(cqueue', cqueue, s, r)
              /\ answers' \in [Socket -> Seq(ResRec)] /\ Gains(answers', answers, s, r)
<1>1. PICK r : r = [kind |-> "accept", id |-> 0, ok |-> TRUE, pcb |-> p, gen |-> g]
  OBVIOUS
<1>2. r \in ResRec /\ r.kind = "accept" /\ r.pcb = p /\ r.gen = g
  BY <1>1 DEF ResRec, AllKinds
<1>3. Report(arg[l], r)
  BY <1>1 DEF Accepted
<1>4. arg[l] \in Socket \union {None}
  BY DEF Shape, AnyPcb
<1>5. CASE arg[l] = None
  <2>1. arg[l] \notin Socket
    BY <1>5, ConstantFacts
  <2>2. cqueue' = cqueue /\ answers' = answers
    <3>1. PICK x, c, a : /\ x = arg[l] /\ cqueue' = [cqueue EXCEPT ![x] = c] /\ answers' = [answers EXCEPT ![x] = a]
      BY <1>3 DEF Report
    <3> QED
      BY <2>1, <3>1, ExceptOutside DEF Shape
  <2> QED
    BY <1>5, <2>2
<1>6. CASE arg[l] # None
  <2>1. PICK s \in Socket : s = arg[l]
    BY <1>4, <1>6
  <2>2. Report(s, r)
    BY <1>3, <2>1
  <2>3. /\ cqueue' \in [Socket -> Seq(ResRec)] /\ Gains(cqueue', cqueue, s, r)
        /\ answers' \in [Socket -> Seq(ResRec)] /\ Gains(answers', answers, s, r)
    BY <1>2, <2>2, ReportIs
  <2> QED
    BY <1>2, <2>1, <2>3
<1> QED
  BY <1>5, <1>6

\* A peer connects: a free pcb becomes an accept result.
LEMMA IncomingIs ==
  ASSUME Shape, NEW l \in ListenPcb, Incoming(l)
  PROVE  /\ halt = Running /\ main = Idle /\ state[l] = "listen"
         /\ UNCHANGED <<accepting, unacked, ended, sockVars, appVars, main, halt>>
         /\ \E p \in Pcb : /\ state[p] = "free" /\ gen[p] < MaxConns /\ Alloc(p, "open", None)
                           /\ gen[p] \in Nat /\ Accepted(arg[l], p, gen[p] + 1)
<1>1. PICK p \in Pcb : state[p] = "free" /\ gen[p] < MaxConns /\ Alloc(p, "open", None)
                       /\ Accepted(arg[l], p, gen[p] + 1)
  BY DEF Incoming, Free, AcceptedArg
<1>2. gen[p] \in Nat
  BY DEF Shape, AnyPcb
<1> QED
  BY <1>1, <1>2 DEF Incoming, Event

\* The events of lwIP keep Shape.
LEMMA EventsShape ==
  ASSUME Shape
  PROVE  /\ \A p \in Pcb : SynAck(p) => Shape'
         /\ \A p \in Pcb : \A n \in 1..Held(p) : Ack(p, n) => Shape'
         /\ \A p \in Pcb : Reset(p) => Shape'
         /\ \A p \in Pcb : Gone(p) => Shape'
         /\ \A l \in ListenPcb : Incoming(l) => Shape'
         /\ \A l \in ListenPcb : IncomingNoMem(l) => Shape'
         /\ Sent => Shape'
<1>0. /\ \A p \in Pcb : p \notin ListenPcb /\ p \in AnyPcb
      /\ \A l \in ListenPcb : l \in AnyPcb
  BY ConstantFacts DEF AnyPcb
<1>1. ASSUME NEW p \in Pcb, SynAck(p) PROVE Shape'
  <2>1. /\ state' = [state EXCEPT ![p] = "open"]
        /\ UNCHANGED <<arg, accepting, unacked, gen, sockVars, appVars, main>>
    BY <1>1, ConnectedIs
  <2>2. ShapeRes'
    <3>1. cqueue \in [Socket -> Seq(ResRec)] /\ answers \in [Socket -> Seq(ResRec)]
      BY DEF Shape
    <3>2. \/ cqueue' = cqueue /\ answers' = answers
          \/ cqueue' \in [Socket -> Seq(ResRec)] /\ answers' \in [Socket -> Seq(ResRec)]
      BY <1>1, ConnectedIs
    <3> QED
      BY <3>1, <3>2 DEF ShapeRes
  <2>3. ShapePcb'
    BY <1>0, <2>1 DEF Shape, ShapePcb
  <2> QED
    BY <2>1, <2>2, <2>3 DEF Shape, ShapePcb, ShapeRes, sockVars, appVars
<1>2. ASSUME NEW p \in Pcb, NEW n \in 1..Held(p), Ack(p, n) PROVE Shape'
  <2>1. /\ unacked' = [unacked EXCEPT ![p] = Acked(p, n)]
        /\ main' = [at |-> "sent", who |-> p, len |-> n]
        /\ UNCHANGED <<state, arg, accepting, gen, sockVars, appVars, resVars>>
    BY <1>2 DEF Ack
  <2>2. unacked \in [Pcb -> Seq(Segm)]
    BY DEF Shape
  <2>3. PICK k : Leaves(Acked(p, n), unacked[p], n, k)
    BY <2>2, AckedIs
  <2>4. Acked(p, n) \in Seq(Segm)
    BY <2>3 DEF Leaves
  <2>5. unacked' \in [Pcb -> Seq(Segm)]
    BY <2>1, <2>2, <2>4
  <2>6. n \in Nat \ {0}
    <3>1. Held(p) \in Nat
      <4>1. unacked[p] \in Seq(Segm)
        BY <2>2
      <4>2. PICK u : u = unacked[p]
        OBVIOUS
      <4>3. Len(u) \in Nat /\ UpTo(u) \in [0..Len(u) -> Nat]
        BY <4>1, <4>2, Segments
      <4> QED
        BY <4>2, <4>3 DEF Held
    <3> QED
      BY <3>1
  <2>7. main'.at = "sent" /\ main'.who = p /\ main'.len = n
    BY <2>1
  <2>8. ShapeData'
    BY <2>1, <2>5, <2>6, <2>7 DEF ShapeData, Shape, sockVars
  <2> QED
    BY <2>1, <2>8 DEF Shape, ShapeData, sockVars, appVars, resVars
<1>3. ASSUME NEW p \in Pcb, TcpPcbRemove(p),
             UNCHANGED <<arg, accepting, gen, sockVars, appVars, resVars, main>>
      PROVE  Shape'
  <2>1. state' = [state EXCEPT ![p] = "free"] /\ unacked' \in [Pcb -> Seq(Segm)]
    BY <1>0, <1>3, RemoveIs
  <2>2. ShapePcb'
    BY <1>0, <1>3, <2>1 DEF Shape, ShapePcb
  <2> QED
    BY <1>3, <2>1, <2>2 DEF Shape, ShapePcb, sockVars, appVars, resVars
<1>4. ASSUME NEW p \in Pcb, Reset(p) PROVE Shape'
  BY <1>3, <1>4 DEF Reset
<1>5. ASSUME NEW p \in Pcb, Gone(p) PROVE Shape'
  BY <1>3, <1>5 DEF Gone
<1>6. ASSUME NEW l \in ListenPcb, Incoming(l) PROVE Shape'
  <2>1. PICK p \in Pcb : /\ state[p] = "free" /\ gen[p] < MaxConns /\ Alloc(p, "open", None)
                         /\ gen[p] \in Nat /\ Accepted(arg[l], p, gen[p] + 1)
    BY <1>6, IncomingIs
  <2>2. UNCHANGED <<accepting, unacked, sockVars, appVars, main>>
    BY <1>6, IncomingIs
  <2>3. /\ state' = [state EXCEPT ![p] = "open"] /\ arg' = [arg EXCEPT ![p] = None]
        /\ gen' \in [AnyPcb -> Nat]
    BY <1>0, <2>1, AllocIs
  <2>4. ShapePcb'
    BY <1>0, <2>2, <2>3 DEF Shape, ShapePcb
  <2>5. ShapeRes'
    <3>1. gen[p] + 1 \in Nat /\ p \in Pcb \union {None}
      BY <2>1
    <3>2. cqueue \in [Socket -> Seq(ResRec)] /\ answers \in [Socket -> Seq(ResRec)]
      BY DEF Shape
    <3>3. \/ cqueue' = cqueue /\ answers' = answers
          \/ cqueue' \in [Socket -> Seq(ResRec)] /\ answers' \in [Socket -> Seq(ResRec)]
      BY <2>1, <3>1, AcceptedIs
    <3> QED
      BY <3>2, <3>3 DEF ShapeRes
  <2> QED
    BY <2>2, <2>4, <2>5 DEF Shape, ShapePcb, ShapeRes, sockVars, appVars
<1>7. ASSUME NEW l \in ListenPcb, IncomingNoMem(l) PROVE Shape'
  <2>1. Accepted(arg[l], None, 0) /\ UNCHANGED <<lwipVars, sockVars, appVars, main>>
    BY <1>7 DEF IncomingNoMem
  <2>2. ShapeRes'
    <3>1. None \in Pcb \union {None} /\ 0 \in Nat
      OBVIOUS
    <3>2. cqueue \in [Socket -> Seq(ResRec)] /\ answers \in [Socket -> Seq(ResRec)]
      BY DEF Shape
    <3>3. \/ cqueue' = cqueue /\ answers' = answers
          \/ cqueue' \in [Socket -> Seq(ResRec)] /\ answers' \in [Socket -> Seq(ResRec)]
      BY <2>1, <3>1, AcceptedIs
    <3> QED
      BY <3>2, <3>3 DEF ShapeRes
  <2> QED
    BY <2>1, <2>2 DEF Shape, ShapeRes, lwipVars, sockVars, appVars
<1>8. ASSUME Sent PROVE Shape'
  <2>1. UNCHANGED <<state, arg, accepting, unacked, gen, phase, pcb, mapped, own, ops, issued, making>>
    BY <1>8, SentIs DEF lwipVars, appVars
  <2>2. CASE UNCHANGED <<writeQueue, cqueue, answers, main>>
    BY <2>1, <2>2 DEF Shape
  <2>3. ASSUME NEW s \in Socket, NEW e \in WEntry, writeQueue[s] # <<>>,
               Tail1(writeQueue', writeQueue, s),
               Report(s, Result("write", e.block[2], TRUE)), e.size <= main.len,
               main' = IF main.len - e.size > 0 THEN [main EXCEPT !.len = main.len - e.size] ELSE Idle
        PROVE  Shape'
    <3>1. writeQueue' \in [Socket -> Seq(WEntry)]
      BY <2>3, LosesIs DEF Shape
    <3>2. ShapeRes'
      <4>1. e.block[2] \in Nat /\ "write" \in AllKinds
        BY DEF WEntry, AllKinds
      <4>2. Result("write", e.block[2], TRUE) \in ResRec
        BY <4>1, ResultIs
      <4> QED
        BY <2>3, <4>2, ReportIs DEF ShapeRes
    <3>3. main' = Idle \/ (main' \in [at : {"sent"}, who : Pcb, len : Nat \ {0}])
      <4>1. main.len \in Nat /\ e.size \in Nat
        BY <1>8, SentIs DEF WEntry
      <4>2. CASE main.len - e.size > 0
        <5>1. main' = [main EXCEPT !.len = main.len - e.size]
          BY <2>3, <4>2
        <5>2. PICK w, n : main = [at |-> "sent", who |-> w, len |-> n] /\ w \in Pcb
          BY <1>8, SentIs DEF Shape
        <5>3. main' = [at |-> "sent", who |-> w, len |-> main.len - e.size]
          BY <5>1, <5>2
        <5> QED
          BY <4>1, <4>2, <5>2, <5>3
      <4>3. CASE ~(main.len - e.size > 0)
        BY <2>3, <4>3
      <4> QED
        BY <4>2, <4>3
    <3>4. ShapeData'
      BY <2>1, <3>1, <3>3, IdleIs DEF Shape, ShapeData
    <3> QED
      BY <2>1, <3>2, <3>4 DEF Shape, ShapeData, ShapeRes
  <2>4. ASSUME NEW s \in Socket, NEW e \in WEntry, writeQueue[s] # <<>>, e = writeQueue[s][1],
               Shrink1(writeQueue', writeQueue, s, main.len),
               ~(e.size <= main.len), main' = Idle, UNCHANGED <<cqueue, answers>>
        PROVE  Shape'
    <3>1. main.len \in Nat /\ e.size \in Nat /\ writeQueue[s][1].size >= main.len
      BY <1>8, <2>4, SentIs DEF WEntry
    <3>2. writeQueue' \in [Socket -> Seq(WEntry)]
      BY <2>4, <3>1, ShrinkIs DEF Shape
    <3>3. ShapeData'
      BY <2>1, <2>4, <3>2, IdleIs DEF Shape, ShapeData
    <3> QED
      BY <2>1, <2>4, <3>3 DEF Shape, ShapeData
  <2> QED
    BY <1>8, <2>2, <2>3, <2>4, SentIs
<1> QED
  BY <1>1, <1>2, <1>4, <1>5, <1>6, <1>7, <1>8


\* Every step keeps Shape.
LEMMA ShapeStep == Shape /\ [Next]_vars => Shape'
<1> SUFFICES ASSUME Shape, [Next]_vars PROVE Shape'
  OBVIOUS
<1>1. CASE Next
  <2>1. Steps
    BY <1>1, NextSteps
  <2>2. ASSUME NEW s \in Socket, NEW k \in AllKinds, NEW n \in Nat, Submit(s, k, n) PROVE Shape'
    <3>1. ShapeApp'
      BY <2>2, AppShapeStep
    <3> QED
      BY <2>2, <3>1 DEF Submit, Shape, ShapeApp, lwipVars, sockVars, resVars
  <2>3. ASSUME NEW s \in Socket, Dequeue(s) PROVE Shape'
    <3>1. ShapeApp' /\ ShapeRes'
      BY <2>3, AppShapeStep
    <3> QED
      BY <2>3, <3>1 DEF Dequeue, Shape, ShapeApp, ShapeRes, lwipVars
  <2> QED
    BY <2>1, <2>2, <2>3, PerformsShape, RestShape, EventsShape DEF Steps
<1>2. CASE UNCHANGED vars
  BY <1>2 DEF vars, lwipVars, sockVars, appVars, resVars, Shape
<1> QED
  BY <1>1, <1>2

\* The variables hold what Shape says.
THEOREM Shapes == Spec => []Shape
BY InitShape, ShapeStep, PTL DEF Spec

(***************************************************************************)
(* Holding: who holds a pcb.                                               *)
(***************************************************************************)

\* The results that wait stay where they are; those that come name no pcb.
ResKept ==
  \A s \in Socket :
    /\ Len(cqueue[s]) <= Len(cqueue'[s])
    /\ \A i \in 1..Len(cqueue'[s]) :
         IF i <= Len(cqueue[s]) THEN cqueue'[s][i] = cqueue[s][i] ELSE cqueue'[s][i].pcb = None

\* A result without a pcb changes nothing for the results that wait.
LEMMA KeptBy ==
  ASSUME Shape
  PROVE  /\ cqueue' = cqueue => ResKept
         /\ \A s \in Socket, r \in ResRec : Gains(cqueue', cqueue, s, r) /\ r.pcb = None => ResKept
<1>1. \A t \in Socket : Len(cqueue[t]) \in Nat
  BY LenProperties DEF Shape
<1>2. ASSUME cqueue' = cqueue PROVE ResKept
  BY <1>1, <1>2 DEF ResKept
<1>3. ASSUME NEW s \in Socket, NEW r \in ResRec, Gains(cqueue', cqueue, s, r), r.pcb = None PROVE ResKept
  <2>1. ASSUME NEW t \in Socket
        PROVE  /\ Len(cqueue[t]) <= Len(cqueue'[t])
               /\ \A i \in 1..Len(cqueue'[t]) :
                    IF i <= Len(cqueue[t]) THEN cqueue'[t][i] = cqueue[t][i] ELSE cqueue'[t][i].pcb = None
    <3>1. CASE t # s
      BY <1>1, <1>3, <3>1 DEF Gains
    <3>2. CASE t = s
      <4>1. PICK n, c, d : n = Len(cqueue[s]) /\ c = cqueue[s] /\ d = cqueue'[s]
        OBVIOUS
      <4>2. n \in Nat /\ Len(d) = n + 1 /\ (\A i \in 1..n : d[i] = c[i]) /\ d[n + 1].pcb = None
        BY <1>3, <4>1 DEF Gains
      <4>3. ASSUME NEW i \in 1..(n + 1) PROVE IF i <= n THEN d[i] = c[i] ELSE d[i].pcb = None
        <5>1. i <= n \/ i = n + 1
          BY <4>2
        <5> QED
          BY <4>2, <5>1
      <4> QED
        BY <3>2, <4>1, <4>2, <4>3
    <3> QED
      BY <3>1, <3>2
  <2> QED
    BY <2>1 DEF ResKept
<1> QED
  BY <1>2, <1>3

\* Nobody gets or loses a pcb, but pcbs may be freed.
Quiet ==
  /\ pcb' = pcb /\ own' = own /\ gen' = gen /\ making' = making /\ ResKept
  /\ \A p \in AnyPcb : state'[p] # "free" => state[p] # "free"

\* In terms of p alone: its holders stay.
SameHolders(p) ==
  /\ \A s \in Socket : SockHolds(s, p)' <=> SockHolds(s, p)
  /\ MakeHolds(p)' <=> MakeHolds(p)
  /\ \A s \in Socket : \A i \in 1..Len(cqueue'[s]) : ResHolds(s, i, p)' => i \in 1..Len(cqueue[s]) /\ ResHolds(s, i, p)
  /\ \A s \in Socket : \A i \in 1..Len(cqueue[s]) : ResHolds(s, i, p) => i \in 1..Len(cqueue'[s]) /\ ResHolds(s, i, p)'

\* A pcb with the same holders has one holder still.
LEMMA SameKeeps ==
  ASSUME NEW p, SameHolders(p), Held1(p), OneSock(p), OneRes(p)
  PROVE  (Held1(p) /\ OneSock(p) /\ OneRes(p))'
<1>1. Held1(p)'
  BY DEF Held1, SameHolders
<1>2. OneSock(p)'
  BY DEF OneSock, SameHolders
<1>3. OneRes(p)'
  BY DEF OneRes, SameHolders
<1> QED
  BY <1>1, <1>2, <1>3

\* Quiet steps keep the holders.
LEMMA QuietKeeps ==
  ASSUME Shape, Shape', OneHolder, Past, Quiet
  PROVE  OneHolder' /\ Past'
<1>1. \A p \in AnyPcb : p # None
  BY ConstantFacts DEF AnyPcb
<1>0. \A t \in Socket : Len(cqueue[t]) \in Nat
  BY LenProperties DEF Shape
<1>2. ASSUME NEW p \in AnyPcb, Live(p)' PROVE (Held1(p) /\ OneSock(p) /\ OneRes(p))'
  <2>1. Held1(p) /\ OneSock(p) /\ OneRes(p)
    BY <1>2 DEF Live, Quiet, OneHolder
  <2>2. SameHolders(p)
    <3>1. \A s \in Socket : SockHolds(s, p)' <=> SockHolds(s, p)
      BY DEF Quiet, SockHolds
    <3>2. MakeHolds(p)' <=> MakeHolds(p)
      BY DEF Quiet, MakeHolds
    <3>3. ASSUME NEW s \in Socket, NEW i \in 1..Len(cqueue'[s]), ResHolds(s, i, p)'
          PROVE  i \in 1..Len(cqueue[s]) /\ ResHolds(s, i, p)
      <4>1. cqueue'[s][i].pcb = p /\ cqueue'[s][i].gen = gen[p]
        BY <3>3 DEF ResHolds, Quiet
      <4>2. i <= Len(cqueue[s]) /\ cqueue'[s][i] = cqueue[s][i]
        BY <1>1, <4>1 DEF Quiet, ResKept
      <4> QED
        BY <1>0, <4>1, <4>2 DEF ResHolds
    <3>4. ASSUME NEW s \in Socket, NEW i \in 1..Len(cqueue[s]), ResHolds(s, i, p)
          PROVE  i \in 1..Len(cqueue'[s]) /\ ResHolds(s, i, p)'
      <4>1. Len(cqueue[s]) <= Len(cqueue'[s]) /\ Len(cqueue'[s]) \in Nat
        BY LenProperties DEF Shape, Quiet, ResKept
      <4>2. i \in 1..Len(cqueue'[s]) /\ cqueue'[s][i] = cqueue[s][i]
        BY <1>0, <4>1 DEF Quiet, ResKept
      <4> QED
        BY <3>4, <4>2 DEF ResHolds, Quiet
    <3> QED
      BY <3>1, <3>2, <3>3, <3>4 DEF SameHolders
  <2> QED
    BY <2>1, <2>2, SameKeeps
<1>3. Past'
  <2>1. ASSUME NEW s \in Socket, NEW i \in 1..Len(cqueue'[s]), cqueue'[s][i].pcb # None
        PROVE  cqueue'[s][i].kind = "accept" /\ cqueue'[s][i].gen <= gen'[cqueue'[s][i].pcb]
    <3>1. i \in 1..Len(cqueue[s]) /\ cqueue'[s][i] = cqueue[s][i]
      BY <1>0, <2>1 DEF Quiet, ResKept
    <3> QED
      BY <2>1, <3>1 DEF Past, Quiet
  <2> QED
    BY <2>1 DEF Past, Quiet
<1> QED
  BY <1>2, <1>3 DEF OneHolder

\* A step that neither gives nor takes a pcb.
LEMMA FinishKeeps ==
  ASSUME Shape, NEW s \in Socket, ops[s] # <<>>, NEW ok \in BOOLEAN, Finish(s, ok)
  PROVE  ResKept
<1>1. PICK r : FinishedWith(s, r, ok)
  BY FinishIs
<1> QED
  BY <1>1, KeptBy DEF FinishedWith

\* An operation that goes on keeps the results that wait.
LEMMA AsyncKeeps ==
  ASSUME Shape, NEW s \in Socket, Async(s)
  PROVE  ResKept
BY KeptBy DEF Async, resVars

\* The quiet steps.
LEMMA QuietSteps ==
  ASSUME Shape
  PROVE  /\ Create => Quiet
         /\ \A s \in Socket, k \in AllKinds, n \in Nat : Submit(s, k, n) => Quiet
         /\ \A s \in Socket : Map(s) => Quiet
         /\ \A s \in Socket : Stale(s) => Quiet
         /\ \A s \in Socket : Bind(s) => Quiet
         /\ \A s \in Socket : Connect(s) => Quiet
         /\ \A s \in Socket : Accept(s) => Quiet
         /\ \A s \in Socket : Write(s) => Quiet
         /\ \A s \in Socket : Close(s) => Quiet
         /\ \A p \in Pcb : SynAck(p) => Quiet
         /\ \A p \in Pcb : \A n \in 1..Held(p) : Ack(p, n) => Quiet
         /\ \A p \in Pcb : Reset(p) => Quiet
         /\ \A p \in Pcb : Gone(p) => Quiet
         /\ \A l \in ListenPcb : IncomingNoMem(l) => Quiet
         /\ Sent => Quiet
<1>0. /\ \A p \in Pcb : p \in AnyPcb
      /\ TRUE \in BOOLEAN /\ FALSE \in BOOLEAN
  BY DEF AnyPcb
<1>1. Create => Quiet
  BY KeptBy DEF Create, Quiet, lwipVars, appVars, resVars
<1>2. ASSUME NEW s \in Socket, NEW k \in AllKinds, NEW n \in Nat, Submit(s, k, n) PROVE Quiet
  BY <1>2, KeptBy DEF Submit, Quiet, lwipVars, sockVars, resVars
<1>3. ASSUME NEW s \in Socket, Map(s) PROVE Quiet
  BY <1>3, KeptBy DEF Map, Quiet, appVars, resVars
<1>4. ASSUME NEW s \in Socket, Stale(s) PROVE Quiet
  BY <1>4, KeptBy DEF Stale, Quiet, lwipVars, sockVars, appVars, resVars
<1>5. ASSUME NEW s \in Socket, Bind(s) PROVE Quiet
  <2>1. ResKept
    BY <1>0, <1>5, FinishKeeps, PerformingIs DEF Bind
  <2> QED
    BY <1>5, <2>1 DEF Bind, Quiet, lwipVars, sockVars
<1>6. ASSUME NEW s \in Socket, Connect(s) PROVE Quiet
  <2>1. ops[s] # <<>> /\ Live(pcb[s]) /\ pcb[s] \in AnyPcb
    BY <1>6, PerformingIs DEF Connect
  <2>2. ResKept
    BY <1>0, <1>6, <2>1, FinishKeeps, AsyncKeeps DEF Connect
  <2>3. \A p \in AnyPcb : state'[p] # "free" => state[p] # "free"
    <3>1. PICK q \in AnyPcb : q = pcb[s] /\ state[q] # "free"
      BY <2>1 DEF Live
    <3>2. DOMAIN state = AnyPcb
      BY DEF Shape
    <3>3. state' = state \/ state' = [state EXCEPT ![q] = "connecting"]
      BY <1>6, <3>1 DEF Connect, TcpConnect
    <3>4. \A p \in AnyPcb : state'[p] = state[p] \/ p = q
      BY <3>2, <3>3
    <3> QED
      BY <3>1, <3>4
  <2> QED
    BY <1>6, <2>2, <2>3 DEF Connect, Quiet, sockVars
<1>7. ASSUME NEW s \in Socket, Accept(s) PROVE Quiet
  BY <1>7, AsyncKeeps DEF Accept, Quiet, sockVars
<1>8. ASSUME NEW s \in Socket, Write(s) PROVE Quiet
  <2>1. ops[s] # <<>>
    BY <1>8, PerformingIs DEF Write
  <2>2. ResKept
    <3>1. CASE AsyncWith(s)
      BY <3>1, KeptBy DEF AsyncWith
    <3>2. CASE UNCHANGED cqueue
      BY <3>2, KeptBy
    <3>3. CASE Finish(s, FALSE)
      BY <1>0, <2>1, <3>3, FinishKeeps
    <3> QED
      BY <1>8, <3>1, <3>2, <3>3, WriteIs
  <2> QED
    BY <1>8, <2>2, WriteIs DEF Quiet
<1>9. ASSUME NEW p \in AnyPcb, TcpPcbRemove(p) PROVE \A q \in AnyPcb : state'[q] # "free" => state[q] # "free"
  BY <1>9, RemoveIs DEF Shape
<1>10. ASSUME NEW s \in Socket, Close(s) PROVE Quiet
  <2>1. ops[s] # <<>> /\ Live(pcb[s]) /\ pcb[s] \in AnyPcb
    BY <1>10, PerformingIs DEF Close
  <2>2. ResKept
    BY <1>0, <1>10, <2>1, FinishKeeps DEF Close
  <2>3. \A p \in AnyPcb : state'[p] # "free" => state[p] # "free"
    <3>1. CASE TcpPcbRemove(pcb[s])
      BY <1>9, <2>1, <3>1
    <3>2. CASE state' = [state EXCEPT ![pcb[s]] = "closing"]
      BY <2>1, <3>2 DEF Shape, Live
    <3> QED
      BY <1>10, <3>1, <3>2 DEF Close, TcpClose
  <2> QED
    BY <1>10, <2>2, <2>3 DEF Close, Quiet, sockVars
<1>11. ASSUME NEW p \in Pcb, SynAck(p) PROVE Quiet
  <2>1. ResKept
    BY <1>11, ConnectedIs, KeptBy
  <2>2. state[p] = "connecting" /\ state' = [state EXCEPT ![p] = "open"] /\ UNCHANGED <<gen, sockVars, appVars>>
    BY <1>11, ConnectedIs
  <2>3. \A q \in AnyPcb : state'[q] # "free" => state[q] # "free"
    BY <1>0, <2>2 DEF Shape
  <2> QED
    BY <2>1, <2>2, <2>3 DEF Quiet, sockVars, appVars
<1>12. ASSUME NEW p \in Pcb, NEW n \in 1..Held(p), Ack(p, n) PROVE Quiet
  BY <1>12, KeptBy DEF Ack, Quiet, sockVars, appVars, resVars
<1>13. ASSUME NEW p \in Pcb, Reset(p) PROVE Quiet
  BY <1>0, <1>9, <1>13, KeptBy DEF Reset, Quiet, sockVars, appVars, resVars
<1>14. ASSUME NEW p \in Pcb, Gone(p) PROVE Quiet
  BY <1>0, <1>9, <1>14, KeptBy DEF Gone, Quiet, sockVars, appVars, resVars
<1>15. ASSUME NEW l \in ListenPcb, IncomingNoMem(l) PROVE Quiet
  <2>1. Accepted(arg[l], None, 0) /\ UNCHANGED <<lwipVars, sockVars, appVars>>
    BY <1>15 DEF IncomingNoMem
  <2>2. ResKept
    <3>1. None \in Pcb \union {None} /\ 0 \in Nat
      OBVIOUS
    <3> QED
      BY <2>1, <3>1, AcceptedIs, KeptBy
  <2> QED
    BY <2>1, <2>2 DEF Quiet, lwipVars, sockVars, appVars
<1>16. ASSUME Sent PROVE Quiet
  <2>1. UNCHANGED <<lwipVars, pcb, own, appVars>>
    BY <1>16, SentIs
  <2>2. ResKept
    <3>1. ASSUME NEW s \in Socket, NEW e \in WEntry, Report(s, Result("write", e.block[2], TRUE)) PROVE ResKept
      <4>1. e.block[2] \in Nat /\ "write" \in AllKinds
        BY DEF WEntry, AllKinds
      <4>2. PICK r : r = Result("write", e.block[2], TRUE)
        OBVIOUS
      <4>3. r \in ResRec /\ r.pcb = None
        BY <1>0, <4>1, <4>2, ResultIs
      <4>4. Gains(cqueue', cqueue, s, r)
        BY <3>1, <4>2, <4>3, ReportIs
      <4> QED
        BY <4>3, <4>4, KeptBy
    <3>2. cqueue' = cqueue => ResKept
      BY KeptBy
    <3> QED
      BY <1>16, <3>1, <3>2, SentIs
  <2> QED
    BY <2>1, <2>2 DEF Quiet, lwipVars, appVars
<1> QED
  BY <1>1, <1>2, <1>3, <1>4, <1>5, <1>6, <1>7, <1>8, <1>10, <1>11, <1>12, <1>13, <1>14, <1>15, <1>16

\* A free pcb p is allocated; nobody gets or loses another one.
Allocates(p) ==
  /\ ~Live(p) /\ gen'[p] = gen[p] + 1 /\ gen[p] \in Nat
  /\ \A q \in AnyPcb : q # p => gen'[q] = gen[q]
  /\ making' = making

\* Nothing that is there before p is allocated holds it afterwards.
LEMMA NobodyYet ==
  ASSUME Shape, Past, NEW p \in AnyPcb, Allocates(p)
  PROVE  /\ \A s \in Socket : pcb'[s] = pcb[s] /\ own'[s] = own[s] => ~SockHolds(s, p)'
         /\ ~MakeHolds(p)'
         /\ \A s \in Socket : \A i \in 1..Len(cqueue[s]) : cqueue'[s][i] = cqueue[s][i] => ~ResHolds(s, i, p)'
<1>1. p # None
  BY ConstantFacts
<1>2. PICK g \in Nat : g = gen[p] /\ gen'[p] = g + 1
  BY DEF Allocates
<1>3. ASSUME NEW s \in Socket, pcb'[s] = pcb[s], own'[s] = own[s], SockHolds(s, p)' PROVE FALSE
  <2>1. own[s] = g + 1 /\ own[s] <= g
    BY <1>1, <1>2, <1>3 DEF SockHolds, Past
  <2> QED
    BY <2>1
<1>4. ASSUME MakeHolds(p)' PROVE FALSE
  <2>1. making.gen = g + 1 /\ making.gen <= g
    BY <1>1, <1>2, <1>4 DEF MakeHolds, Past, Allocates
  <2> QED
    BY <2>1
<1>5. ASSUME NEW s \in Socket, NEW i \in 1..Len(cqueue[s]), cqueue'[s][i] = cqueue[s][i], ResHolds(s, i, p)' PROVE FALSE
  <2>1. cqueue[s][i].gen = g + 1 /\ cqueue[s][i].gen <= g
    BY <1>1, <1>2, <1>5 DEF ResHolds, Past
  <2> QED
    BY <2>1
<1> QED
  BY <1>3, <1>4, <1>5

\* Generations only grow, so what was past stays past.
LEMMA PastKept ==
  ASSUME Shape, Past, NEW p \in AnyPcb, Allocates(p)
  PROVE  /\ \A q \in AnyPcb : gen[q] <= gen'[q]
         /\ \A s \in Socket : pcb[s] # None => own[s] <= gen'[pcb[s]]
         /\ making.pcb # None => making.gen <= gen'[making.pcb]
         /\ \A s \in Socket : \A i \in 1..Len(cqueue[s]) :
              cqueue[s][i].pcb # None => cqueue[s][i].gen <= gen'[cqueue[s][i].pcb]
<1>1. ASSUME NEW q \in AnyPcb PROVE gen[q] \in Nat /\ gen'[q] \in Nat /\ gen[q] <= gen'[q]
  <2>1. gen[q] \in Nat
    BY DEF Shape
  <2>2. CASE q = p
    <3>1. PICK g \in Nat : g = gen[p] /\ gen'[p] = g + 1
      BY DEF Allocates
    <3> QED
      BY <2>2, <3>1
  <2>3. CASE q # p
    BY <2>1, <2>3 DEF Allocates
  <2> QED
    BY <2>2, <2>3
<1>2. ASSUME NEW n \in Nat, NEW q \in AnyPcb, n <= gen[q] PROVE n <= gen'[q]
  <2>1. PICK g, h \in Nat : g = gen[q] /\ h = gen'[q] /\ g <= h
    BY <1>1
  <2> QED
    BY <1>2, <2>1
<1>3. ASSUME NEW s \in Socket, pcb[s] # None PROVE own[s] <= gen'[pcb[s]]
  <2>1. own[s] \in Nat /\ pcb[s] \in AnyPcb /\ own[s] <= gen[pcb[s]]
    BY <1>3 DEF Shape, Past
  <2> QED
    BY <1>2, <2>1
<1>4. ASSUME making.pcb # None PROVE making.gen <= gen'[making.pcb]
  <2>1. Nobody.pcb = None
    BY DEF Nobody
  <2>2. making.gen \in Nat /\ making.pcb \in AnyPcb /\ making.gen <= gen[making.pcb]
    BY <1>4, <2>1 DEF Shape, Past, AnyPcb
  <2> QED
    BY <1>2, <2>2
<1>5. ASSUME NEW s \in Socket, NEW i \in 1..Len(cqueue[s]), cqueue[s][i].pcb # None
      PROVE  cqueue[s][i].gen <= gen'[cqueue[s][i].pcb]
  <2>1. cqueue[s][i] \in ResRec
    BY ElementOfSeq DEF Shape
  <2>2. cqueue[s][i].gen \in Nat /\ cqueue[s][i].pcb \in AnyPcb /\ cqueue[s][i].gen <= gen[cqueue[s][i].pcb]
    BY <1>5, <2>1 DEF ResRec, Past, AnyPcb
  <2> QED
    BY <1>2, <2>2
<1> QED
  BY <1>1, <1>3, <1>4, <1>5

\* A socket gets a pcb that was free; the one it may have had is freed.
Takes(s, p) ==
  /\ Allocates(p) /\ ResKept
  /\ pcb'[s] = p /\ own'[s] = gen[p] + 1
  /\ \A t \in Socket : t # s => pcb'[t] = pcb[t] /\ own'[t] = own[t]
  /\ \A q \in AnyPcb : state'[q] # "free" => q = p \/ (state[q] # "free" /\ pcb[s] # q)

\* The results that wait stay, so they hold what they held.
LEMMA KeptRes ==
  ASSUME Shape, Shape', ResKept, NEW p \in AnyPcb, gen'[p] = gen[p]
  PROVE  /\ \A s \in Socket : \A i \in 1..Len(cqueue'[s]) : ResHolds(s, i, p)' => i \in 1..Len(cqueue[s]) /\ ResHolds(s, i, p)
         /\ \A s \in Socket : \A i \in 1..Len(cqueue[s]) : ResHolds(s, i, p) => i \in 1..Len(cqueue'[s]) /\ ResHolds(s, i, p)'
<1>0. \A t \in Socket : Len(cqueue[t]) \in Nat /\ Len(cqueue'[t]) \in Nat
  BY LenProperties DEF Shape
<1>1. p # None
  BY ConstantFacts
<1>3. ASSUME NEW s \in Socket, NEW i \in 1..Len(cqueue'[s]), ResHolds(s, i, p)'
      PROVE  i \in 1..Len(cqueue[s]) /\ ResHolds(s, i, p)
  <2>1. cqueue'[s][i].pcb = p /\ cqueue'[s][i].gen = gen[p]
    BY <1>3 DEF ResHolds
  <2>2. i <= Len(cqueue[s]) /\ cqueue'[s][i] = cqueue[s][i]
    BY <1>1, <2>1 DEF ResKept
  <2> QED
    BY <1>0, <2>1, <2>2 DEF ResHolds
<1>4. ASSUME NEW s \in Socket, NEW i \in 1..Len(cqueue[s]), ResHolds(s, i, p)
      PROVE  i \in 1..Len(cqueue'[s]) /\ ResHolds(s, i, p)'
  <2>1. Len(cqueue[s]) <= Len(cqueue'[s])
    BY DEF ResKept
  <2>2. i \in 1..Len(cqueue'[s]) /\ cqueue'[s][i] = cqueue[s][i]
    BY <1>0, <2>1 DEF ResKept
  <2> QED
    BY <1>4, <2>2 DEF ResHolds
<1> QED
  BY <1>3, <1>4

\* A socket that takes a free pcb becomes its one holder.
LEMMA TakesKeeps ==
  ASSUME Shape, Shape', OneHolder, Past, NEW s \in Socket, NEW p \in AnyPcb, Takes(s, p)
  PROVE  OneHolder' /\ Past'
<1>0. \A t \in Socket : Len(cqueue[t]) \in Nat
  BY LenProperties DEF Shape
<1>1. \A q \in AnyPcb : q # None
  BY ConstantFacts
<1>2. Allocates(p)
  BY DEF Takes
<1>3. ASSUME NEW q \in AnyPcb, q # p, Live(q)' PROVE (Held1(q) /\ OneSock(q) /\ OneRes(q))'
  <2>1. Live(q) /\ pcb[s] # q /\ pcb'[s] # q /\ gen'[q] = gen[q]
    BY <1>3 DEF Takes, Allocates, Live
  <2>2. \A t \in Socket : SockHolds(t, q)' <=> SockHolds(t, q)
    BY <2>1 DEF SockHolds, Takes
  <2>3. MakeHolds(q)' <=> MakeHolds(q)
    BY <2>1 DEF MakeHolds, Takes, Allocates
  <2>4. SameHolders(q)
    BY <2>1, <2>2, <2>3, KeptRes DEF Takes, SameHolders
  <2> QED
    BY <2>1, <2>4, SameKeeps DEF OneHolder
<1>4. (Held1(p) /\ OneSock(p) /\ OneRes(p))'
  <2>1. SockHolds(s, p)'
    BY DEF SockHolds, Takes, Allocates
  <2>2. \A t \in Socket : t # s => ~SockHolds(t, p)'
    BY <1>2, NobodyYet DEF Takes
  <2>3. ~MakeHolds(p)'
    BY <1>2, NobodyYet
  <2>4. ASSUME NEW t \in Socket, NEW i \in 1..Len(cqueue'[t]) PROVE ~ResHolds(t, i, p)'
    <3>1. IF i <= Len(cqueue[t]) THEN cqueue'[t][i] = cqueue[t][i] ELSE cqueue'[t][i].pcb = None
      BY DEF Takes, ResKept
    <3>2. CASE i <= Len(cqueue[t])
      <4>1. i \in 1..Len(cqueue[t]) /\ cqueue'[t][i] = cqueue[t][i]
        BY <1>0, <3>1, <3>2
      <4> QED
        BY <1>2, <4>1, NobodyYet
    <3>3. CASE ~(i <= Len(cqueue[t]))
      BY <1>1, <3>1, <3>3 DEF ResHolds
    <3> QED
      BY <3>2, <3>3
  <2>5. Held1(p)'
    BY <2>1 DEF Held1
  <2>6. OneSock(p)'
    BY <2>2, <2>3, <2>4 DEF OneSock
  <2>7. OneRes(p)'
    BY <2>4 DEF OneRes
  <2> QED
    BY <2>5, <2>6, <2>7
<1>5. Past'
  <2>1. ASSUME NEW t \in Socket, NEW i \in 1..Len(cqueue'[t]), cqueue'[t][i].pcb # None
        PROVE  cqueue'[t][i].kind = "accept" /\ cqueue'[t][i].gen <= gen'[cqueue'[t][i].pcb]
    <3>1. i \in 1..Len(cqueue[t]) /\ cqueue'[t][i] = cqueue[t][i]
      BY <1>0, <2>1 DEF Takes, ResKept
    <3> QED
      BY <1>2, <2>1, <3>1, PastKept DEF Past
  <2>2. ASSUME NEW t \in Socket, pcb'[t] # None PROVE own'[t] <= gen'[pcb'[t]]
    <3>1. CASE t = s
      <4>1. PICK g \in Nat : g = gen[p] + 1
        BY DEF Takes, Allocates
      <4> QED
        BY <3>1, <4>1 DEF Takes, Allocates
    <3>2. CASE t # s
      BY <1>2, <2>2, <3>2, PastKept DEF Takes
    <3> QED
      BY <3>1, <3>2
  <2>3. making'.pcb # None => making'.gen <= gen'[making'.pcb]
    BY <1>2, PastKept DEF Allocates
  <2> QED
    BY <2>1, <2>2, <2>3 DEF Past
<1> QED
  BY <1>3, <1>4, <1>5 DEF OneHolder

\* The first operation of a socket takes a free pcb.
LEMMA NewPcbTakes ==
  ASSUME Shape, NEW s \in Socket, NewPcb(s)
  PROVE  Quiet \/ \E p \in AnyPcb : Takes(s, p)
<1>1. /\ pcb[s] = None /\ making' = making /\ cqueue' = cqueue
      /\ \/ \E p \in Pcb : /\ state[p] = "free" /\ Alloc(p, "new", s)
                           /\ pcb' = [pcb EXCEPT ![s] = p] /\ own' = [own EXCEPT ![s] = gen[p] + 1]
         \/ UNCHANGED <<state, gen, pcb, own>>
  BY NewPcbIs DEF appVars, resVars
<1>2. ResKept
  BY <1>1, KeptBy
<1>3. CASE UNCHANGED <<state, gen, pcb, own>>
  BY <1>1, <1>2, <1>3 DEF Quiet
<1>4. ASSUME NEW p \in Pcb, state[p] = "free", Alloc(p, "new", s),
             pcb' = [pcb EXCEPT ![s] = p], own' = [own EXCEPT ![s] = gen[p] + 1]
      PROVE  \E q \in AnyPcb : Takes(s, q)
  <2>1. p \in AnyPcb /\ \A q \in AnyPcb : q # None
    BY ConstantFacts DEF AnyPcb
  <2>2. /\ gen'[p] = gen[p] + 1 /\ gen[p] \in Nat
        /\ \A q \in AnyPcb : q # p => gen'[q] = gen[q] /\ state'[q] = state[q]
    BY <1>4, <2>1, AllocIs
  <2>3. Allocates(p)
    BY <1>1, <1>4, <2>2 DEF Allocates, Live
  <2>4. /\ pcb'[s] = p /\ own'[s] = gen[p] + 1
        /\ \A t \in Socket : t # s => pcb'[t] = pcb[t] /\ own'[t] = own[t]
    BY <1>4 DEF Shape
  <2>5. Takes(s, p)
    BY <1>1, <1>2, <2>1, <2>2, <2>3, <2>4 DEF Takes
  <2> QED
    BY <2>1, <2>5
<1> QED
  BY <1>1, <1>3, <1>4

\* A listen takes a free listening pcb.
LEMMA ListenTakesPcb ==
  ASSUME Shape, NEW s \in Socket, Listen(s)
  PROVE  Quiet \/ \E p \in AnyPcb : Takes(s, p)
<1>1. ops[s] # <<>> /\ pcb[s] \in AnyPcb
  BY PerformingIs DEF Listen
<1>2. ResKept
  BY <1>1, ListenIs, FinishKeeps
<1>3. making' = making
  BY ListenIs
<1>4. CASE UNCHANGED <<state, gen, arg, accepting, pcb, own>>
  BY <1>2, <1>3, <1>4 DEF Quiet
<1>5. ASSUME NEW l \in ListenPcb, state[pcb[s]] = "new", state[l] = "free", pcb[s] \in Pcb,
             state' = [state EXCEPT ![pcb[s]] = "free", ![l] = "listen"],
             gen' = [gen EXCEPT ![l] = gen[l] + 1],
             pcb' = [pcb EXCEPT ![s] = l], own' = [own EXCEPT ![s] = gen[l] + 1]
      PROVE  \E q \in AnyPcb : Takes(s, q)
  <2>1. l \in AnyPcb
    BY DEF AnyPcb
  <2>2. /\ gen'[l] = gen[l] + 1 /\ gen[l] \in Nat
        /\ \A q \in AnyPcb : q # l => gen'[q] = gen[q]
    BY <1>5, <2>1 DEF Shape
  <2>3. Allocates(l)
    BY <1>3, <1>5, <2>2 DEF Allocates, Live
  <2>4. /\ pcb'[s] = l /\ own'[s] = gen[l] + 1
        /\ \A t \in Socket : t # s => pcb'[t] = pcb[t] /\ own'[t] = own[t]
    BY <1>5 DEF Shape
  <2>5. \A q \in AnyPcb : state'[q] # "free" => q = l \/ (state[q] # "free" /\ pcb[s] # q)
    BY <1>1, <1>5, <2>1 DEF Shape
  <2>6. Takes(s, l)
    BY <1>2, <2>3, <2>4, <2>5 DEF Takes
  <2> QED
    BY <2>1, <2>6
<1> QED
  BY <1>4, <1>5, ListenIs

\* An accepted connection waits in the cqueue of the listening socket.
LEMMA IncomingKeeps ==
  ASSUME Shape, Shape', Holding, NEW l \in ListenPcb, Incoming(l)
  PROVE  OneHolder' /\ Past'
<1>0. \A t \in Socket : Len(cqueue[t]) \in Nat /\ Len(cqueue'[t]) \in Nat
  BY LenProperties DEF Shape
<1>1. \A q \in AnyPcb : q # None
  BY ConstantFacts
<1>2. PICK p \in Pcb : /\ state[p] = "free" /\ Alloc(p, "open", None)
                       /\ gen[p] \in Nat /\ Accepted(arg[l], p, gen[p] + 1)
  BY IncomingIs
<1>3. /\ state[l] = "listen" /\ l \in AnyPcb /\ p \in AnyPcb
      /\ pcb' = pcb /\ own' = own /\ making' = making
  BY IncomingIs DEF sockVars, appVars, AnyPcb
<1>4. arg[l] # None
  BY <1>3 DEF Holding, ArgRight
<1>5. /\ gen'[p] = gen[p] + 1 /\ gen[p] \in Nat
      /\ \A q \in AnyPcb : q # p => gen'[q] = gen[q] /\ state'[q] = state[q]
  BY <1>2, <1>3, AllocIs
<1>6. Allocates(p)
  BY <1>2, <1>3, <1>5 DEF Allocates, Live
<1>7. PICK s \in Socket, r \in ResRec : r.kind = "accept" /\ r.pcb = p /\ r.gen = gen[p] + 1 /\ Gains(cqueue', cqueue, s, r)
  <2>1. gen[p] + 1 \in Nat /\ p \in Pcb \union {None}
    BY <1>5
  <2> QED
    BY <1>2, <1>4, <2>1, AcceptedIs
<1>8. PICK n \in Nat : n = Len(cqueue[s])
  BY <1>0
<1>9. /\ \A t \in Socket : t # s => cqueue'[t] = cqueue[t]
      /\ Len(cqueue'[s]) = n + 1 /\ n + 1 \in 1..Len(cqueue'[s])
      /\ \A i \in 1..n : cqueue'[s][i] = cqueue[s][i]
      /\ cqueue'[s][n + 1] = r
  BY <1>7, <1>8 DEF Gains
<1>10. ASSUME NEW t \in Socket, NEW i \in 1..Len(cqueue'[t])
       PROVE  (i \in 1..Len(cqueue[t]) /\ cqueue'[t][i] = cqueue[t][i]) \/ (t = s /\ i = n + 1)
  BY <1>8, <1>9
<1>11. ASSUME NEW t \in Socket, NEW i \in 1..Len(cqueue[t])
       PROVE  i \in 1..Len(cqueue'[t]) /\ cqueue'[t][i] = cqueue[t][i]
  BY <1>8, <1>9
<1>12. ASSUME NEW q \in AnyPcb, q # p, Live(q)' PROVE (Held1(q) /\ OneSock(q) /\ OneRes(q))'
  <2>1. Live(q) /\ gen'[q] = gen[q]
    BY <1>5, <1>12 DEF Live
  <2>2. \A t \in Socket : SockHolds(t, q)' <=> SockHolds(t, q)
    BY <1>3, <2>1 DEF SockHolds
  <2>3. MakeHolds(q)' <=> MakeHolds(q)
    BY <1>3, <2>1 DEF MakeHolds
  <2>4. ASSUME NEW t \in Socket, NEW i \in 1..Len(cqueue'[t]), ResHolds(t, i, q)'
        PROVE  i \in 1..Len(cqueue[t]) /\ ResHolds(t, i, q)
    <3>1. ~(t = s /\ i = n + 1)
      BY <1>7, <1>9, <1>12, <2>4 DEF ResHolds
    <3> QED
      BY <1>10, <2>1, <2>4, <3>1 DEF ResHolds
  <2>5. ASSUME NEW t \in Socket, NEW i \in 1..Len(cqueue[t]), ResHolds(t, i, q)
        PROVE  i \in 1..Len(cqueue'[t]) /\ ResHolds(t, i, q)'
    BY <1>11, <2>1, <2>5 DEF ResHolds
  <2>6. SameHolders(q)
    BY <2>2, <2>3, <2>4, <2>5 DEF SameHolders
  <2> QED
    BY <2>1, <2>6, SameKeeps DEF Holding, OneHolder
<1>13. (Held1(p) /\ OneSock(p) /\ OneRes(p))'
  <2>1. ResHolds(s, n + 1, p)'
    BY <1>5, <1>7, <1>9 DEF ResHolds
  <2>2. \A t \in Socket : ~SockHolds(t, p)'
    BY <1>3, <1>6, NobodyYet DEF Holding
  <2>3. ~MakeHolds(p)'
    BY <1>3, <1>6, NobodyYet DEF Holding
  <2>4. ASSUME NEW t \in Socket, NEW i \in 1..Len(cqueue'[t]), ResHolds(t, i, p)' PROVE t = s /\ i = n + 1
    BY <1>3, <1>6, <1>10, <2>4, NobodyYet DEF Holding
  <2>5. Held1(p)'
    BY <1>9, <2>1 DEF Held1
  <2>6. OneSock(p)'
    BY <2>2, <2>3 DEF OneSock
  <2>7. OneRes(p)'
    BY <2>3, <2>4 DEF OneRes
  <2> QED
    BY <2>5, <2>6, <2>7
<1>14. Past'
  <2>1. ASSUME NEW t \in Socket, NEW i \in 1..Len(cqueue'[t]), cqueue'[t][i].pcb # None
        PROVE  cqueue'[t][i].kind = "accept" /\ cqueue'[t][i].gen <= gen'[cqueue'[t][i].pcb]
    <3>1. CASE i \in 1..Len(cqueue[t]) /\ cqueue'[t][i] = cqueue[t][i]
      BY <1>3, <1>6, <2>1, <3>1, PastKept DEF Holding, Past
    <3>2. CASE t = s /\ i = n + 1
      <4>1. PICK g \in Nat : g = gen[p] + 1
        BY <1>5
      <4> QED
        BY <1>5, <1>7, <1>9, <3>2, <4>1
    <3> QED
      BY <1>10, <3>1, <3>2
  <2>2. ASSUME NEW t \in Socket, pcb'[t] # None PROVE own'[t] <= gen'[pcb'[t]]
    BY <1>3, <1>6, <2>2, PastKept DEF Holding
  <2>3. making'.pcb # None => making'.gen <= gen'[making'.pcb]
    BY <1>3, <1>6, PastKept DEF Holding
  <2> QED
    BY <2>1, <2>2, <2>3 DEF Past
<1> QED
  BY <1>12, <1>13, <1>14 DEF OneHolder

\* The pcb that was announced becomes the socket's.
LEMMA SetPcbKeeps ==
  ASSUME Shape, Shape', Holding, SetPcb
  PROVE  OneHolder' /\ Past'
<1>1. \A q \in AnyPcb : q # None
  BY ConstantFacts
<1>2. PICK w \in Socket : w = making.who
  BY DEF SetPcb, Shape
<1>3. /\ pcb'[w] = making.pcb /\ own'[w] = making.gen
      /\ \A t \in Socket : t # w => pcb'[t] = pcb[t] /\ own'[t] = own[t]
      /\ gen' = gen /\ state' = state /\ cqueue' = cqueue /\ making' = Nobody
  BY <1>2 DEF SetPcb, TakePcb, Shape, lwipVars, resVars
<1>4. pcb[w] = None
  BY <1>2 DEF Holding, Fresh, IsNew
<1>5. making'.pcb = None
  BY <1>3 DEF Nobody
<1>6. ASSUME NEW q \in AnyPcb, Live(q)' PROVE (Held1(q) /\ OneSock(q) /\ OneRes(q))'
  <2>1. Held1(q) /\ OneSock(q) /\ OneRes(q)
    BY <1>3, <1>6 DEF Live, Holding, OneHolder
  <2>2. \A t \in Socket : t # w => (SockHolds(t, q)' <=> SockHolds(t, q))
    BY <1>3 DEF SockHolds
  <2>3. (SockHolds(w, q)' <=> MakeHolds(q)) /\ ~SockHolds(w, q)
    BY <1>1, <1>3, <1>4 DEF SockHolds, MakeHolds
  <2>4. ~MakeHolds(q)'
    BY <1>1, <1>5 DEF MakeHolds
  <2>5. \A t \in Socket : \A i \in 1..Len(cqueue[t]) : i \in 1..Len(cqueue'[t]) /\ (ResHolds(t, i, q)' <=> ResHolds(t, i, q))
    BY <1>3 DEF ResHolds
  <2>6. \A t \in Socket : \A i \in 1..Len(cqueue'[t]) : i \in 1..Len(cqueue[t]) /\ (ResHolds(t, i, q)' <=> ResHolds(t, i, q))
    BY <1>3 DEF ResHolds
  <2>7. Held1(q)'
    <3>1. CASE MakeHolds(q)
      BY <2>3, <3>1 DEF Held1
    <3>2. CASE \E t \in Socket : SockHolds(t, q)
      BY <2>2, <2>3, <3>2 DEF Held1
    <3>3. CASE \E t \in Socket : \E i \in 1..Len(cqueue[t]) : ResHolds(t, i, q)
      BY <2>5, <3>3 DEF Held1
    <3> QED
      BY <2>1, <3>1, <3>2, <3>3 DEF Held1
  <2>8. OneSock(q)'
    <3>1. ASSUME NEW t \in Socket, SockHolds(t, q)' PROVE (t = w /\ MakeHolds(q)) \/ (t # w /\ SockHolds(t, q))
      BY <2>2, <2>3, <3>1
    <3>2. \A t, u \in Socket : SockHolds(t, q)' /\ SockHolds(u, q)' => t = u
      BY <2>1, <3>1 DEF OneSock
    <3>3. ASSUME NEW t \in Socket, NEW u \in Socket, NEW i \in 1..Len(cqueue'[u]), SockHolds(t, q)' PROVE ~ResHolds(u, i, q)'
      BY <2>1, <2>6, <3>1, <3>3 DEF OneSock, OneRes
    <3> QED
      BY <2>4, <3>2, <3>3 DEF OneSock
  <2>9. OneRes(q)'
    BY <2>1, <2>4, <2>6 DEF OneRes
  <2> QED
    BY <2>7, <2>8, <2>9
<1>7. Past'
  <2>1. ASSUME NEW t \in Socket, pcb'[t] # None PROVE own'[t] <= gen'[pcb'[t]]
    <3>1. CASE t = w
      BY <1>3, <2>1, <3>1 DEF Holding, Past
    <3>2. CASE t # w
      BY <1>3, <2>1, <3>2 DEF Holding, Past
    <3> QED
      BY <3>1, <3>2
  <2>2. \A t \in Socket : \A i \in 1..Len(cqueue'[t]) :
          cqueue'[t][i].pcb # None => cqueue'[t][i].kind = "accept" /\ cqueue'[t][i].gen <= gen'[cqueue'[t][i].pcb]
    BY <1>3 DEF Holding, Past
  <2> QED
    BY <1>5, <2>1, <2>2 DEF Past
<1> QED
  BY <1>6, <1>7 DEF OneHolder

\* What a dequeued result does.
LEMMA DequeueIs ==
  ASSUME Shape, NEW s \in Socket, Dequeue(s)
  PROVE  /\ halt = Running /\ making = Nobody /\ phase[s] = "made" /\ cqueue[s] # <<>>
         /\ Tail1(cqueue', cqueue, s) /\ Loses(cqueue', cqueue, s)
         /\ UNCHANGED <<lwipVars, pcb, own, writeQueue, mapped, ops, issued, early, answers, main, halt>>
         /\ freed' = IF cqueue[s][1].kind = "write" THEN freed \union {<<s, cqueue[s][1].id>>} ELSE freed
         /\ \/ /\ cqueue[s][1].kind = "accept" /\ NextSocket \in Socket /\ phase[NextSocket] = "unused"
               /\ phase' = [phase EXCEPT ![NextSocket] = "made"]
               /\ making' = [who |-> NextSocket, pcb |-> cqueue[s][1].pcb, gen |-> cqueue[s][1].gen]
            \/ /\ cqueue[s][1].kind # "accept" /\ making' = making
               /\ phase' = phase \/ phase' = [phase EXCEPT ![s] = "gone"]
<1>1. cqueue \in [Socket -> Seq(ResRec)]
  BY DEF Shape
<1>2. cqueue[s] # <<>> /\ Tail1(cqueue', cqueue, s)
  BY DEF Dequeue, Tail1
<1>3. Loses(cqueue', cqueue, s) /\ Head(cqueue[s]) = cqueue[s][1]
  BY <1>1, <1>2, LosesIs
<1>4. PICK r : r = Head(cqueue[s])
  OBVIOUS
<1>5. /\ freed' = IF r.kind = "write" THEN freed \union {<<s, r.id>>} ELSE freed
      /\ \/ /\ r.kind = "accept"
            /\ \E t \in Socket : phase[t] = "unused"
            /\ Publish(NextSocket)
            /\ making' = [who |-> NextSocket, pcb |-> r.pcb, gen |-> r.gen]
         \/ /\ r.kind = "close"
            /\ phase' = [phase EXCEPT ![s] = "gone"]
            /\ UNCHANGED making
         \/ r.kind \notin {"accept", "close"} /\ UNCHANGED <<phase, making>>
  BY <1>4 DEF Dequeue
<1>6. \/ /\ r.kind = "accept" /\ NextSocket \in Socket /\ phase[NextSocket] = "unused"
         /\ phase' = [phase EXCEPT ![NextSocket] = "made"]
         /\ making' = [who |-> NextSocket, pcb |-> r.pcb, gen |-> r.gen]
      \/ /\ r.kind # "accept" /\ making' = making
         /\ phase' = phase \/ phase' = [phase EXCEPT ![s] = "gone"]
  BY <1>5, NextSocketIs DEF Publish
<1>7. r = cqueue[s][1]
  BY <1>3, <1>4
<1>8. /\ halt = Running /\ making = Nobody /\ phase[s] = "made"
      /\ UNCHANGED <<lwipVars, pcb, own, writeQueue, mapped, ops, issued, early, answers, main, halt>>
  BY DEF Dequeue, AppIdle
<1> QED
  BY <1>2, <1>3, <1>5, <1>6, <1>7, <1>8

\* Where a result that waits was before the first of s was dequeued.
Before(s, t, i) == IF t = s THEN i + 1 ELSE i

\* Where the results were before the first was dequeued.
LEMMA BeforeIs ==
  ASSUME Shape, Shape', NEW s \in Socket, Loses(cqueue', cqueue, s), gen' = gen, NEW q
  PROVE  /\ \A t \in Socket : \A i \in 1..Len(cqueue'[t]) :
              /\ Before(s, t, i) \in 1..Len(cqueue[t]) /\ cqueue'[t][i] = cqueue[t][Before(s, t, i)]
              /\ ResHolds(t, i, q)' <=> ResHolds(t, Before(s, t, i), q)
              /\ ~(t = s /\ Before(s, t, i) = 1)
         /\ \A t \in Socket : \A i, j \in Nat : Before(s, t, i) = Before(s, t, j) => i = j
         /\ \A t \in Socket : \A i \in 1..Len(cqueue[t]) : (t = s /\ i = 1) \/
              \E j \in 1..Len(cqueue'[t]) : i = Before(s, t, j)
<1>1. PICK n \in Nat : n = Len(cqueue[s]) /\ n >= 1 /\ Len(cqueue'[s]) = n - 1
  BY DEF Loses
<1>2. ASSUME NEW t \in Socket, NEW i \in 1..Len(cqueue'[t])
      PROVE  /\ Before(s, t, i) \in 1..Len(cqueue[t]) /\ cqueue'[t][i] = cqueue[t][Before(s, t, i)]
             /\ ResHolds(t, i, q)' <=> ResHolds(t, Before(s, t, i), q)
             /\ ~(t = s /\ Before(s, t, i) = 1)
  <2>1. CASE t = s
    <3>1. Before(s, t, i) = i + 1 /\ i + 1 \in 1..n /\ i + 1 # 1
      BY <1>1, <2>1 DEF Before
    <3>2. cqueue'[s][i] = cqueue[s][i + 1]
      BY <2>1 DEF Loses
    <3> QED
      BY <1>1, <2>1, <3>1, <3>2 DEF ResHolds
  <2>2. CASE t # s
    BY <2>2 DEF Before, Loses, ResHolds
  <2> QED
    BY <2>1, <2>2
<1>3. \A t \in Socket : \A i, j \in Nat : Before(s, t, i) = Before(s, t, j) => i = j
  BY DEF Before
<1>4. ASSUME NEW t \in Socket, NEW i \in 1..Len(cqueue[t]), ~(t = s /\ i = 1)
      PROVE  \E j \in 1..Len(cqueue'[t]) : i = Before(s, t, j)
  <2>1. CASE t = s
    <3>1. i - 1 \in 1..(n - 1) /\ i = (i - 1) + 1
      BY <1>1, <1>4, <2>1
    <3>2. PICK j \in 1..Len(cqueue'[t]) : i = j + 1
      BY <1>1, <2>1, <3>1
    <3> QED
      BY <2>1, <3>2 DEF Before
  <2>2. CASE t # s
    <3>1. i \in 1..Len(cqueue'[t])
      BY <2>2 DEF Loses
    <3>2. i = Before(s, t, i)
      BY <2>2 DEF Before
    <3> QED
      BY <3>1, <3>2
  <2> QED
    BY <2>1, <2>2
<1> QED
  BY <1>2, <1>3, <1>4

\* The pcb of a dequeued result is announced to the socket made for it.
LEMMA DequeueKeeps ==
  ASSUME Shape, Shape', Holding, NEW s \in Socket, Dequeue(s)
  PROVE  OneHolder' /\ Past'
<1>0. \A t \in Socket : \A i \in 1..Len(cqueue'[t]) : i \in Nat
  BY LenProperties DEF Shape
<1>1. \A q \in AnyPcb : q # None
  BY ConstantFacts
<1>2. /\ making = Nobody /\ Loses(cqueue', cqueue, s)
      /\ pcb' = pcb /\ own' = own /\ state' = state /\ gen' = gen
      /\ \/ making'.pcb = cqueue[s][1].pcb /\ making'.gen = cqueue[s][1].gen
         \/ making' = making /\ cqueue[s][1].kind # "accept"
  BY DequeueIs DEF lwipVars
<1>3. making.pcb = None /\ 1 \in 1..Len(cqueue[s])
  BY <1>2 DEF Nobody, Loses
<1>4. ASSUME NEW q \in AnyPcb
      PROVE  /\ ~MakeHolds(q)
             /\ MakeHolds(q)' <=> ResHolds(s, 1, q)
             /\ \A t \in Socket : SockHolds(t, q)' <=> SockHolds(t, q)
  <2>1. ~MakeHolds(q)
    BY <1>1, <1>3 DEF MakeHolds
  <2>2. MakeHolds(q)' <=> ResHolds(s, 1, q)
    <3>1. CASE making'.pcb = cqueue[s][1].pcb /\ making'.gen = cqueue[s][1].gen
      BY <1>2, <1>3, <3>1 DEF MakeHolds, ResHolds
    <3>2. CASE making' = making /\ cqueue[s][1].kind # "accept"
      <4>1. cqueue[s][1].pcb = None
        BY <1>3, <3>2 DEF Holding, Past
      <4> QED
        BY <1>1, <1>3, <3>2, <4>1 DEF MakeHolds, ResHolds
    <3> QED
      BY <1>2, <3>1, <3>2
  <2>3. \A t \in Socket : SockHolds(t, q)' <=> SockHolds(t, q)
    BY <1>2 DEF SockHolds
  <2> QED
    BY <2>1, <2>2, <2>3
<1>5. ASSUME NEW q \in AnyPcb, Live(q)' PROVE (Held1(q) /\ OneSock(q) /\ OneRes(q))'
  <2>1. Held1(q) /\ OneSock(q) /\ OneRes(q)
    BY <1>2, <1>5 DEF Live, Holding, OneHolder
  <2>2. /\ \A t \in Socket : \A i \in 1..Len(cqueue'[t]) :
              /\ Before(s, t, i) \in 1..Len(cqueue[t])
              /\ ResHolds(t, i, q)' <=> ResHolds(t, Before(s, t, i), q)
              /\ ~(t = s /\ Before(s, t, i) = 1)
        /\ \A t \in Socket : \A i, j \in Nat : Before(s, t, i) = Before(s, t, j) => i = j
        /\ \A t \in Socket : \A i \in 1..Len(cqueue[t]) : (t = s /\ i = 1) \/
              \E j \in 1..Len(cqueue'[t]) : i = Before(s, t, j)
    BY <1>2, BeforeIs
  <2>3. Held1(q)'
    <3>1. CASE \E t \in Socket : SockHolds(t, q)
      BY <1>4, <3>1 DEF Held1
    <3>2. ASSUME NEW t \in Socket, NEW i \in 1..Len(cqueue[t]), ResHolds(t, i, q) PROVE Held1(q)'
      <4>1. CASE t = s /\ i = 1
        BY <1>4, <3>2, <4>1 DEF Held1
      <4>2. CASE ~(t = s /\ i = 1)
        <5>1. PICK j \in 1..Len(cqueue'[t]) : i = Before(s, t, j)
          BY <2>2, <4>2
        <5>2. ResHolds(t, j, q)'
          BY <2>2, <3>2, <5>1
        <5> QED
          BY <5>2 DEF Held1
      <4> QED
        BY <4>1, <4>2
    <3> QED
      BY <1>4, <2>1, <3>1, <3>2 DEF Held1
  <2>4. OneSock(q)'
    <3>1. \A t, u \in Socket : SockHolds(t, q)' /\ SockHolds(u, q)' => t = u
      BY <1>4, <2>1 DEF OneSock
    <3>2. \A t \in Socket : SockHolds(t, q)' => ~MakeHolds(q)'
      BY <1>3, <1>4, <2>1 DEF OneSock
    <3>3. ASSUME NEW t \in Socket, NEW u \in Socket, NEW i \in 1..Len(cqueue'[u]), SockHolds(t, q)' PROVE ~ResHolds(u, i, q)'
      <4>1. Before(s, u, i) \in 1..Len(cqueue[u]) /\ SockHolds(t, q)
        BY <1>4, <2>2, <3>3
      <4>2. ~ResHolds(u, Before(s, u, i), q)
        BY <2>1, <4>1 DEF OneSock
      <4> QED
        BY <2>2, <4>2
    <3> QED
      BY <3>1, <3>2, <3>3 DEF OneSock
  <2>5. OneRes(q)'
    <3>1. ASSUME NEW t \in Socket, NEW i \in 1..Len(cqueue'[t]), MakeHolds(q)', ResHolds(t, i, q)' PROVE FALSE
      <4>1. ResHolds(s, 1, q) /\ ResHolds(t, Before(s, t, i), q) /\ Before(s, t, i) \in 1..Len(cqueue[t])
        BY <1>4, <2>2, <3>1
      <4>2. s = t /\ 1 = Before(s, t, i)
        BY <1>3, <2>1, <4>1 DEF OneRes
      <4> QED
        BY <2>2, <4>2
    <3>2. ASSUME NEW t \in Socket, NEW u \in Socket, NEW i \in 1..Len(cqueue'[t]), NEW j \in 1..Len(cqueue'[u]),
                 ResHolds(t, i, q)', ResHolds(u, j, q)'
          PROVE  t = u /\ i = j
      <4>1. /\ ResHolds(t, Before(s, t, i), q) /\ Before(s, t, i) \in 1..Len(cqueue[t])
            /\ ResHolds(u, Before(s, u, j), q) /\ Before(s, u, j) \in 1..Len(cqueue[u])
        BY <2>2, <3>2
      <4>2. t = u /\ Before(s, t, i) = Before(s, u, j)
        BY <2>1, <4>1 DEF OneRes
      <4> QED
        BY <1>0, <2>2, <4>2
    <3> QED
      BY <3>1, <3>2 DEF OneRes
  <2> QED
    BY <2>3, <2>4, <2>5
<1>6. Past'
  <2>1. \A t \in Socket : pcb'[t] # None => own'[t] <= gen'[pcb'[t]]
    BY <1>2 DEF Holding, Past
  <2>2. ASSUME NEW t \in Socket, NEW i \in 1..Len(cqueue'[t]), cqueue'[t][i].pcb # None
        PROVE  cqueue'[t][i].kind = "accept" /\ cqueue'[t][i].gen <= gen'[cqueue'[t][i].pcb]
    <3>1. Before(s, t, i) \in 1..Len(cqueue[t]) /\ cqueue'[t][i] = cqueue[t][Before(s, t, i)]
      BY <1>2, BeforeIs
    <3> QED
      BY <1>2, <2>2, <3>1 DEF Holding, Past
  <2>3. making'.pcb # None => making'.gen <= gen'[making'.pcb]
    BY <1>2, <1>3 DEF Holding, Past
  <2> QED
    BY <2>1, <2>2, <2>3 DEF Past
<1> QED
  BY <1>5, <1>6 DEF OneHolder

\* Sockets that nobody uses stay as they are.
LEMMA FreshBy ==
  ASSUME Fresh, making' # Nobody => phase'[making'.who] # "unused",
         \A s \in Socket : IsNew(s)' =>
           IsNew(s) /\ pcb'[s] = pcb[s] /\ ops'[s] = ops[s] /\ issued'[s] = issued[s] /\ writeQueue'[s] = writeQueue[s]
  PROVE  Fresh'
BY DEF Fresh

\* An operation is performed: its socket is in use.
LEMMA FreshPerform ==
  ASSUME Shape, Fresh, NEW s \in Socket, ops[s] # <<>>,
         phase' = phase, making' = making, issued' = issued,
         \A t \in Socket : t # s => pcb'[t] = pcb[t] /\ ops'[t] = ops[t] /\ writeQueue'[t] = writeQueue[t]
  PROVE  Fresh'
<1>1. ~IsNew(s)
  BY DEF Fresh
<1>2. \A t \in Socket : IsNew(t)' <=> IsNew(t)
  BY DEF IsNew
<1>3. making' # Nobody => phase'[making'.who] # "unused"
  BY DEF Fresh
<1> QED
  BY <1>1, <1>2, <1>3, FreshBy

\* Nothing of a socket changes, as far as it matters here.
LEMMA FreshSame ==
  ASSUME Fresh, UNCHANGED <<phase, making, pcb, ops, issued, writeQueue>>
  PROVE  Fresh'
BY DEF Fresh, IsNew

\* Only the squeue of the socket changes.
LEMMA FreshOps ==
  ASSUME Shape, NEW s \in Socket, ops[s] # <<>>, (\E ok \in BOOLEAN : Finish(s, ok)) \/ Async(s)
  PROVE  \A t \in Socket : t # s => ops'[t] = ops[t]
<1>1. CASE Async(s)
  BY <1>1, AsyncIs DEF AsyncWith, Loses
<1>2. ASSUME NEW ok \in BOOLEAN, Finish(s, ok) PROVE \A t \in Socket : t # s => ops'[t] = ops[t]
  <2>1. PICK r : FinishedWith(s, r, ok)
    BY <1>2, FinishIs
  <2> QED
    BY <2>1 DEF FinishedWith, Loses
<1> QED
  BY <1>1, <1>2

\* Every step keeps Fresh.
LEMMA FreshStep ==
  ASSUME Shape, Fresh, Steps
  PROVE  Fresh'
<1>0. TRUE \in BOOLEAN /\ FALSE \in BOOLEAN
  OBVIOUS
<1>1. ASSUME Create PROVE Fresh'
  <2>1. NextSocket \in Socket /\ phase[NextSocket] = "unused" /\ phase' = [phase EXCEPT ![NextSocket] = "made"]
        /\ UNCHANGED <<pcb, ops, issued, writeQueue, making>> /\ making = Nobody
    BY <1>1, NextSocketIs DEF Create, Publish, AppIdle, appVars
  <2>2. \A s \in Socket : IsNew(s)' => IsNew(s)
    BY <2>1 DEF IsNew, Shape
  <2> QED
    BY <2>1, <2>2, FreshBy
<1>2. ASSUME SetPcb PROVE Fresh'
  <2>1. PICK w \in Socket : w = making.who
    BY <1>2 DEF SetPcb, Shape
  <2>2. /\ \A t \in Socket : t # w => pcb'[t] = pcb[t]
        /\ phase' = phase /\ making' = Nobody /\ UNCHANGED <<ops, issued, writeQueue>>
        /\ phase[w] # "unused"
    BY <1>2, <2>1 DEF SetPcb, TakePcb, Shape, Fresh
  <2>3. Nobody.who = None /\ None \notin Socket
    BY ConstantFacts DEF Nobody
  <2>4. \A t \in Socket : IsNew(t)' => IsNew(t) /\ t # w
    BY <2>2, <2>3 DEF IsNew
  <2> QED
    BY <2>2, <2>4, FreshBy
<1>3. ASSUME NEW s \in Socket, NEW k \in AllKinds, NEW n \in Nat, Submit(s, k, n) PROVE Fresh'
  <2>1. /\ phase[s] = "made" /\ making = Nobody
        /\ \A t \in Socket : t # s => ops'[t] = ops[t] /\ issued'[t] = issued[t]
        /\ UNCHANGED <<phase, making, pcb, writeQueue>>
    BY <1>3 DEF Submit, AppIdle, Shape, sockVars
  <2>2. Nobody.who = None /\ None \notin Socket
    BY ConstantFacts DEF Nobody
  <2>3. ~IsNew(s)
    BY <2>1, <2>2 DEF IsNew
  <2>4. \A t \in Socket : IsNew(t)' <=> IsNew(t)
    BY <2>1 DEF IsNew
  <2> QED
    BY <2>1, <2>3, <2>4, FreshBy
<1>4. ASSUME NEW s \in Socket, Dequeue(s) PROVE Fresh'
  <2>1. making = Nobody /\ phase[s] = "made" /\ UNCHANGED <<pcb, ops, issued, writeQueue>>
    BY <1>4, DequeueIs
  <2>2. Nobody.who = None /\ None \notin Socket
    BY ConstantFacts DEF Nobody
  <2>3. CASE /\ NextSocket \in Socket /\ phase[NextSocket] = "unused"
             /\ phase' = [phase EXCEPT ![NextSocket] = "made"] /\ making'.who = NextSocket
    <3>1. \A t \in Socket : IsNew(t)' => IsNew(t)
      BY <2>3 DEF IsNew, Shape
    <3>2. phase'[making'.who] # "unused"
      BY <2>3 DEF Shape
    <3> QED
      BY <2>1, <3>1, <3>2, FreshBy
  <2>4. CASE making' = making /\ (phase' = phase \/ phase' = [phase EXCEPT ![s] = "gone"])
    <3>1. \A t \in Socket : IsNew(t)' => IsNew(t)
      BY <2>4 DEF IsNew, Shape
    <3> QED
      BY <2>1, <2>4, <3>1, FreshBy
  <2> QED
    BY <1>4, <2>3, <2>4, DequeueIs
<1>5. ASSUME NEW s \in Socket, Map(s) \/ Stale(s) PROVE Fresh'
  BY <1>5, FreshSame DEF Map, Stale, sockVars, appVars
<1>6. ASSUME NEW s \in Socket, NewPcb(s) PROVE Fresh'
  <2>1. ops[s] # <<>> /\ UNCHANGED <<phase, writeQueue, making, ops, issued>>
    BY <1>6, NewPcbIs DEF appVars
  <2>2. \A t \in Socket : t # s => pcb'[t] = pcb[t]
    <3>1. pcb' = pcb \/ \E p \in Pcb : pcb' = [pcb EXCEPT ![s] = p]
      BY <1>6, NewPcbIs
    <3> QED
      BY <3>1 DEF Shape
  <2> QED
    BY <2>1, <2>2, FreshPerform
<1>7. ASSUME NEW s \in Socket, Bind(s) PROVE Fresh'
  <2>1. ops[s] # <<>>
    BY <1>7, PerformingIs DEF Bind
  <2>2. \A t \in Socket : t # s => ops'[t] = ops[t]
    BY <1>0, <1>7, <2>1, FreshOps DEF Bind
  <2> QED
    BY <1>7, <2>1, <2>2, FreshPerform DEF Bind, sockVars
<1>8. ASSUME NEW s \in Socket, Connect(s) PROVE Fresh'
  <2>1. ops[s] # <<>>
    BY <1>8, PerformingIs DEF Connect
  <2>2. \A t \in Socket : t # s => ops'[t] = ops[t]
    BY <1>0, <1>8, <2>1, FreshOps DEF Connect
  <2> QED
    BY <1>8, <2>1, <2>2, FreshPerform DEF Connect, sockVars
<1>9. ASSUME NEW s \in Socket, Listen(s) PROVE Fresh'
  <2>1. ops[s] # <<>>
    BY <1>9, PerformingIs DEF Listen
  <2>2. \A t \in Socket : t # s => ops'[t] = ops[t]
    BY <1>9, <2>1, FreshOps, ListenIs
  <2>3. \A t \in Socket : t # s => pcb'[t] = pcb[t]
    <3>1. pcb' = pcb \/ \E p \in ListenPcb : pcb' = [pcb EXCEPT ![s] = p]
      BY <1>9, ListenIs
    <3> QED
      BY <3>1 DEF Shape
  <2>4. UNCHANGED <<phase, writeQueue, making, issued>>
    BY <1>9, ListenIs
  <2> QED
    BY <2>1, <2>2, <2>3, <2>4, FreshPerform
<1>10. ASSUME NEW s \in Socket, Accept(s) PROVE Fresh'
  <2>1. ops[s] # <<>>
    BY <1>10, PerformingIs DEF Accept
  <2>2. \A t \in Socket : t # s => ops'[t] = ops[t]
    BY <1>10, <2>1, FreshOps DEF Accept
  <2> QED
    BY <1>10, <2>1, <2>2, FreshPerform DEF Accept, sockVars
<1>11. ASSUME NEW s \in Socket, Write(s) PROVE Fresh'
  <2>1. ops[s] # <<>>
    BY <1>11, PerformingIs DEF Write
  <2>2. UNCHANGED <<phase, pcb, making, issued>>
    BY <1>11, WriteIs
  <2>3. \A t \in Socket : t # s => ops'[t] = ops[t] /\ writeQueue'[t] = writeQueue[t]
    <3>1. CASE Append1(writeQueue', writeQueue, s, Entry(s)) /\ AsyncWith(s)
      BY <3>1 DEF Append1, AsyncWith, Loses, Shape
    <3>2. CASE UNCHANGED <<writeQueue, ops>>
      BY <3>2
    <3>3. CASE Finish(s, FALSE) /\ UNCHANGED writeQueue
      BY <1>0, <2>1, <3>3, FreshOps
    <3> QED
      BY <1>11, <3>1, <3>2, <3>3, WriteIs
  <2> QED
    BY <2>1, <2>2, <2>3, FreshPerform
<1>12. ASSUME NEW s \in Socket, Close(s) PROVE Fresh'
  <2>1. ops[s] # <<>>
    BY <1>12, PerformingIs DEF Close
  <2>2. \A t \in Socket : t # s => ops'[t] = ops[t]
    BY <1>0, <1>12, <2>1, FreshOps DEF Close
  <2> QED
    BY <1>12, <2>1, <2>2, FreshPerform DEF Close, sockVars
<1>13. ASSUME NEW p \in Pcb, SynAck(p) \/ Reset(p) \/ Gone(p) \/ \E n \in 1..Held(p) : Ack(p, n) PROVE Fresh'
  BY <1>13, FreshSame DEF SynAck, Reset, Gone, Ack, sockVars, appVars
<1>14. ASSUME NEW l \in ListenPcb, Incoming(l) \/ IncomingNoMem(l) PROVE Fresh'
  BY <1>14, FreshSame DEF Incoming, IncomingNoMem, sockVars, appVars
<1>15. ASSUME Sent PROVE Fresh'
  <2>1. UNCHANGED <<phase, making, pcb, ops, issued>>
    BY <1>15, SentIs DEF appVars
  <2>2. CASE writeQueue' = writeQueue
    BY <2>1, <2>2, FreshSame
  <2>3. ASSUME NEW s \in Socket, writeQueue[s] # <<>>,
               Tail1(writeQueue', writeQueue, s) \/ Shrink1(writeQueue', writeQueue, s, main.len)
        PROVE  Fresh'
    <3>1. ~IsNew(s)
      BY <2>3 DEF Fresh
    <3>2. \A t \in Socket : t # s => writeQueue'[t] = writeQueue[t]
      BY <2>3 DEF Tail1, Shrink1, Shape
    <3>3. \A t \in Socket : IsNew(t)' <=> IsNew(t)
      BY <2>1 DEF IsNew
    <3>4. making' # Nobody => phase'[making'.who] # "unused"
      BY <2>1 DEF Fresh
    <3> QED
      BY <2>1, <3>1, <3>2, <3>3, <3>4, FreshBy
  <2> QED
    BY <1>15, <2>2, <2>3, SentIs
<1> QED
  BY <1>1, <1>2, <1>3, <1>4, <1>5, <1>6, <1>7, <1>8, <1>9, <1>10, <1>11, <1>12, <1>13, <1>14, <1>15 DEF Steps

\* A pcb in one of these states has a socket as its callback argument.
Named(st) == st \in {"new", "connecting", "listen"}

\* Nobody gets or loses a pcb, and the arguments stay.
LEMMA ArgKept ==
  ASSUME Shape, ArgRight, Quiet, arg' = arg, mapped' = mapped, early \subseteq early',
         \A p \in AnyPcb : Named(state'[p]) => Named(state[p])
  PROVE  ArgRight'
<1>1. \A s \in Socket, p \in AnyPcb : SockHolds(s, p)' <=> SockHolds(s, p)
  BY DEF Quiet, SockHolds
<1>2. \A p \in AnyPcb : Live(p)' => Live(p)
  BY DEF Quiet, Live
<1>3. ASSUME NEW p \in AnyPcb, Live(p)', arg'[p] # None PROVE SockHolds(arg[p], p)'
  <2>1. PICK s \in Socket : s = arg[p]
    BY <1>3 DEF Shape
  <2>2. SockHolds(s, p)
    BY <1>2, <1>3, <2>1 DEF ArgRight
  <2>3. pcb'[arg'[p]] = p /\ own'[arg'[p]] = gen'[p]
    BY <2>1, <2>2 DEF SockHolds, Quiet
  <2> QED
    BY <2>3 DEF SockHolds
<1>4. ASSUME NEW p \in AnyPcb, state'[p] \in {"new", "connecting", "listen"} PROVE arg'[p] # None
  BY <1>4 DEF ArgRight, Named
<1>5. ASSUME NEW s \in Socket, mapped'[s] /\ pcb'[s] # None /\ Owned(s)' /\ arg'[pcb'[s]] = None
      PROVE  s \in early'
  <2>1. pcb[s] \in AnyPcb
    BY <1>5 DEF Shape, Quiet
  <2>2. Owned(s)
    BY <1>5, <2>1 DEF Owned, Quiet
  <2> QED
    BY <1>5, <2>2 DEF ArgRight, Quiet
<1> QED
  BY <1>3, <1>4, <1>5 DEF ArgRight

\* tcp_arg for a socket that comes with a pcb.
LEMMA ArgMap ==
  ASSUME Shape, Shape', ArgRight, NEW s \in Socket, Map(s)
  PROVE  ArgRight'
<1>1. Quiet /\ state' = state /\ early' = early /\ mapped' = [mapped EXCEPT ![s] = TRUE]
  BY QuietSteps DEF Map, appVars
<1>2. \A t \in Socket, p \in AnyPcb : SockHolds(t, p)' <=> SockHolds(t, p)
  BY <1>1 DEF Quiet, SockHolds
<1>3. \A t \in Socket : Owned(t)' <=> Owned(t)
  BY <1>1 DEF Quiet, Owned
<1>4. \A t \in Socket : t # s => mapped'[t] = mapped[t]
  BY <1>1 DEF Shape
<1>5. CASE arg' = arg /\ (pcb[s] = None \/ ~Owned(s))
  <2>1. ASSUME NEW p \in AnyPcb, Live(p)', arg'[p] # None PROVE pcb'[arg'[p]] = p /\ own'[arg'[p]] = gen'[p]
    BY <1>1, <1>5, <2>1 DEF ArgRight, SockHolds, Quiet, Live
  <2>2. \A p \in AnyPcb : state'[p] \in {"new", "connecting", "listen"} => arg'[p] # None
    BY <1>1, <1>5 DEF ArgRight
  <2>3. ASSUME NEW t \in Socket, mapped'[t] /\ pcb'[t] # None /\ Owned(t)' /\ arg'[pcb'[t]] = None PROVE t \in early'
    BY <1>1, <1>3, <1>4, <1>5, <2>3 DEF ArgRight, Quiet
  <2> QED
    BY <2>1, <2>2, <2>3 DEF ArgRight, SockHolds
<1>6. ASSUME pcb[s] # None, Owned(s), arg' = [arg EXCEPT ![pcb[s]] = s] PROVE ArgRight'
  <2>1. PICK q \in AnyPcb : q = pcb[s]
    BY <1>6 DEF Shape
  <2>2. arg'[q] = s /\ s # None /\ \A p \in AnyPcb : p # q => arg'[p] = arg[p]
    BY <1>6, <2>1, ConstantFacts DEF Shape
  <2>3. own[s] = gen[q]
    BY <1>6, <2>1 DEF Owned
  <2>4. ASSUME NEW p \in AnyPcb, Live(p)', arg'[p] # None PROVE pcb'[arg'[p]] = p /\ own'[arg'[p]] = gen'[p]
    <3>1. CASE p = q
      BY <1>1, <2>1, <2>2, <2>3, <3>1 DEF Quiet
    <3>2. CASE p # q
      BY <1>1, <2>2, <2>4, <3>2 DEF ArgRight, SockHolds, Quiet, Live
    <3> QED
      BY <3>1, <3>2
  <2>5. \A p \in AnyPcb : state'[p] \in {"new", "connecting", "listen"} => arg'[p] # None
    BY <1>1, <2>2 DEF ArgRight
  <2>6. ASSUME NEW t \in Socket, mapped'[t] /\ pcb'[t] # None /\ Owned(t)' /\ arg'[pcb'[t]] = None PROVE t \in early'
    <3>1. pcb[t] \in AnyPcb /\ pcb[t] # q
      BY <1>1, <2>2, <2>6 DEF Quiet, Shape
    <3> QED
      BY <1>1, <1>3, <1>4, <2>1, <2>2, <2>6, <3>1 DEF ArgRight, Quiet
  <2> QED
    BY <2>4, <2>5, <2>6 DEF ArgRight, SockHolds
<1> QED
  BY <1>5, <1>6 DEF Map

\* A new pcb gets its socket as argument.
LEMMA ArgTakes ==
  ASSUME Shape, Shape', Past, ArgRight, NEW s \in Socket, NEW p \in AnyPcb, Takes(s, p),
         arg'[p] = s, \A q \in AnyPcb : q # p => arg'[q] = arg[q] /\ (Named(state'[q]) => Named(state[q])),
         mapped' = mapped, early' = early
  PROVE  ArgRight'
<1>1. s # None /\ Allocates(p)
  BY ConstantFacts DEF Takes
<1>2. ASSUME NEW q \in AnyPcb, Live(q)', arg'[q] # None PROVE pcb'[arg'[q]] = q /\ own'[arg'[q]] = gen'[q]
  <2>1. CASE q = p
    BY <2>1 DEF Takes, Allocates
  <2>2. CASE q # p
    <3>1. Live(q) /\ pcb[s] # q
      BY <1>2, <2>2 DEF Takes, Live
    <3>2. PICK t \in Socket : t = arg[q]
      BY <1>2, <2>2 DEF Shape
    <3>3. pcb[t] = q /\ own[t] = gen[q] /\ t # s
      BY <1>2, <2>2, <3>1, <3>2 DEF ArgRight, SockHolds
    <3> QED
      BY <2>2, <3>2, <3>3 DEF Takes, Allocates
  <2> QED
    BY <2>1, <2>2
<1>3. ASSUME NEW q \in AnyPcb, state'[q] \in {"new", "connecting", "listen"} PROVE arg'[q] # None
  BY <1>1, <1>3 DEF ArgRight, Named
<1>4. ASSUME NEW t \in Socket, mapped'[t] /\ pcb'[t] # None /\ Owned(t)' /\ arg'[pcb'[t]] = None PROVE t \in early'
  <2>1. t # s
    BY <1>1, <1>4 DEF Takes
  <2>2. pcb'[t] = pcb[t] /\ own'[t] = own[t] /\ pcb[t] \in AnyPcb
    BY <1>4, <2>1 DEF Takes, Shape
  <2>3. pcb[t] # p
    <3>1. ~SockHolds(t, p)'
      BY <1>1, <2>2, NobodyYet
    <3> QED
      BY <1>4, <2>2, <3>1 DEF SockHolds, Owned
  <2>4. Owned(t)
    BY <1>4, <2>2, <2>3 DEF Owned, Takes, Allocates
  <2> QED
    BY <1>4, <2>2, <2>3, <2>4 DEF ArgRight
<1> QED
  BY <1>2, <1>3, <1>4 DEF ArgRight, SockHolds

\* A new pcb gets its socket as callback argument.
LEMMA ArgNewPcb ==
  ASSUME Shape, Shape', Past, ArgRight, NEW s \in Socket, NewPcb(s)
  PROVE  ArgRight'
<1>1. mapped' = mapped /\ early' = early /\ making' = making /\ cqueue' = cqueue
  BY NewPcbIs DEF appVars, resVars
<1>2. ResKept
  BY <1>1, KeptBy
<1>3. CASE UNCHANGED <<state, gen, arg, pcb, own>>
  <2>1. Quiet
    BY <1>1, <1>2, <1>3 DEF Quiet
  <2> QED
    BY <1>1, <1>3, <2>1, ArgKept
<1>4. ASSUME NEW p \in Pcb, state[p] = "free", Alloc(p, "new", s),
             pcb' = [pcb EXCEPT ![s] = p], own' = [own EXCEPT ![s] = gen[p] + 1]
      PROVE  ArgRight'
  <2>1. p \in AnyPcb
    BY DEF AnyPcb
  <2>2. /\ gen'[p] = gen[p] + 1 /\ gen[p] \in Nat
        /\ \A q \in AnyPcb : q # p => gen'[q] = gen[q] /\ state'[q] = state[q] /\ arg'[q] = arg[q]
        /\ arg'[p] = s
    BY <1>4, <2>1, AllocIs
  <2>3. pcb[s] = None /\ \A q \in AnyPcb : q # None
    BY NewPcbIs, ConstantFacts
  <2>4. Allocates(p)
    BY <1>1, <1>4, <2>2 DEF Allocates, Live
  <2>5. /\ pcb'[s] = p /\ own'[s] = gen[p] + 1
        /\ \A t \in Socket : t # s => pcb'[t] = pcb[t] /\ own'[t] = own[t]
    BY <1>4 DEF Shape
  <2>6. Takes(s, p)
    BY <1>2, <2>2, <2>3, <2>4, <2>5 DEF Takes
  <2> QED
    BY <1>1, <2>1, <2>2, <2>6, ArgTakes
<1> QED
  BY <1>3, <1>4, NewPcbIs

\* The listening pcb inherits the argument of the one it replaces.
LEMMA ArgListen ==
  ASSUME Shape, Shape', Holding, NEW s \in Socket, Listen(s)
  PROVE  ArgRight'
<1>1. ops[s] # <<>> /\ pcb[s] \in AnyPcb /\ pcb[s] # None /\ Live(pcb[s]) /\ own[s] = gen[pcb[s]]
  BY PerformingIs DEF Listen
<1>2. ResKept
  BY <1>1, ListenIs, FinishKeeps
<1>3. making' = making /\ mapped' = mapped /\ early' = early
  BY ListenIs
<1>4. CASE UNCHANGED <<state, gen, arg, accepting, pcb, own>>
  <2>1. Quiet
    BY <1>2, <1>3, <1>4 DEF Quiet
  <2> QED
    BY <1>3, <1>4, <2>1, ArgKept DEF Holding
<1>5. ASSUME NEW l \in ListenPcb, state[pcb[s]] = "new", state[l] = "free", pcb[s] \in Pcb,
             state' = [state EXCEPT ![pcb[s]] = "free", ![l] = "listen"],
             gen' = [gen EXCEPT ![l] = gen[l] + 1],
             arg' = [arg EXCEPT ![l] = arg[pcb[s]]],
             pcb' = [pcb EXCEPT ![s] = l], own' = [own EXCEPT ![s] = gen[l] + 1]
      PROVE  ArgRight'
  <2>1. l \in AnyPcb
    BY DEF AnyPcb
  <2>2. /\ gen'[l] = gen[l] + 1 /\ gen[l] \in Nat
        /\ \A q \in AnyPcb : q # l => gen'[q] = gen[q]
    BY <1>5, <2>1 DEF Shape
  <2>3. Allocates(l)
    BY <1>3, <1>5, <2>2 DEF Allocates, Live
  <2>4. /\ pcb'[s] = l /\ own'[s] = gen[l] + 1
        /\ \A t \in Socket : t # s => pcb'[t] = pcb[t] /\ own'[t] = own[t]
    BY <1>5 DEF Shape
  <2>5. \A q \in AnyPcb : state'[q] # "free" => q = l \/ (state[q] # "free" /\ pcb[s] # q)
    <3>1. PICK r \in AnyPcb : r = pcb[s]
      BY <1>1
    <3>2. state' = [state EXCEPT ![r] = "free", ![l] = "listen"]
      BY <1>5, <3>1
    <3>3. \A q \in AnyPcb : state'[q] = IF q = l THEN "listen" ELSE IF q = r THEN "free" ELSE state[q]
      <4>1. DOMAIN state = AnyPcb
        BY DEF Shape
      <4>2. PICK f : f = [state EXCEPT ![r] = "free"]
        OBVIOUS
      <4>3. DOMAIN f = AnyPcb /\ \A q \in AnyPcb : f[q] = IF q = r THEN "free" ELSE state[q]
        BY <4>1, <4>2
      <4>4. state' = [f EXCEPT ![l] = "listen"]
        BY <3>2, <4>2
      <4>5. \A q \in AnyPcb : state'[q] = IF q = l THEN "listen" ELSE f[q]
        BY <4>3, <4>4
      <4> QED
        BY <4>3, <4>5
    <3> QED
      BY <3>1, <3>3
  <2>6. Takes(s, l)
    BY <1>2, <2>3, <2>4, <2>5 DEF Takes
  <2>7. arg'[l] = s
    <3>1. PICK q \in AnyPcb : q = pcb[s]
      BY <1>1
    <3>2. PICK t : t = arg[q]
      OBVIOUS
    <3>3. t # None /\ t \in Socket
      BY <1>5, <3>1, <3>2 DEF Holding, ArgRight, Shape
    <3>4. SockHolds(t, q)
      BY <1>1, <3>1, <3>2, <3>3 DEF Holding, ArgRight
    <3>5. SockHolds(s, q)
      BY <1>1, <3>1 DEF SockHolds
    <3>6. OneSock(q)
      BY <1>1, <3>1 DEF Holding, OneHolder
    <3>7. s = t
      BY <3>3, <3>4, <3>5, <3>6 DEF OneSock
    <3> QED
      <4>1. DOMAIN arg = AnyPcb
        BY DEF Shape
      <4>2. arg' = [arg EXCEPT ![l] = t]
        BY <1>5, <3>1, <3>2
      <4> QED
        BY <2>1, <3>7, <4>1, <4>2
  <2>8. \A q \in AnyPcb : q # l => arg'[q] = arg[q] /\ (Named(state'[q]) => Named(state[q]))
    <3>1. \A q \in AnyPcb : q # l => arg'[q] = arg[q] /\ (state'[q] = "free" \/ state'[q] = state[q])
      BY <1>5, <2>1 DEF Shape
    <3> QED
      BY <3>1 DEF Named
  <2> QED
    BY <1>3, <2>1, <2>6, <2>7, <2>8, ArgTakes DEF Holding
<1> QED
  BY <1>4, <1>5, ListenIs

\* An accepted connection has no argument yet.
LEMMA ArgIncoming ==
  ASSUME Shape, Shape', Past, ArgRight, NEW l \in ListenPcb, Incoming(l)
  PROVE  ArgRight'
<1>1. /\ pcb' = pcb /\ own' = own /\ making' = making /\ mapped' = mapped /\ early' = early
  BY IncomingIs DEF sockVars, appVars
<1>2. PICK p \in Pcb : state[p] = "free" /\ Alloc(p, "open", None)
  BY IncomingIs
<1>3. p \in AnyPcb
  BY DEF AnyPcb
<1>4. /\ gen'[p] = gen[p] + 1 /\ gen[p] \in Nat /\ arg'[p] = None /\ state'[p] = "open"
      /\ \A q \in AnyPcb : q # p => gen'[q] = gen[q] /\ state'[q] = state[q] /\ arg'[q] = arg[q]
  BY <1>2, <1>3, AllocIs
<1>5. Allocates(p)
  BY <1>1, <1>2, <1>4 DEF Allocates, Live
<1>6. ASSUME NEW q \in AnyPcb, Live(q)', arg'[q] # None PROVE pcb'[arg'[q]] = q /\ own'[arg'[q]] = gen'[q]
  BY <1>1, <1>4, <1>6 DEF ArgRight, SockHolds, Live
<1>7. ASSUME NEW q \in AnyPcb, state'[q] \in {"new", "connecting", "listen"} PROVE arg'[q] # None
  BY <1>4, <1>7 DEF ArgRight
<1>8. ASSUME NEW t \in Socket, mapped'[t] /\ pcb'[t] # None /\ Owned(t)' /\ arg'[pcb'[t]] = None PROVE t \in early'
  <2>1. pcb[t] \in AnyPcb
    BY <1>1, <1>8 DEF Shape
  <2>2. pcb[t] # p
    <3>1. ~SockHolds(t, p)'
      BY <1>1, <1>3, <1>5, NobodyYet
    <3> QED
      BY <1>1, <1>8, <3>1 DEF SockHolds, Owned
  <2>3. Owned(t)
    BY <1>1, <1>4, <1>8, <2>1, <2>2 DEF Owned
  <2> QED
    BY <1>1, <1>4, <1>8, <2>1, <2>2, <2>3 DEF ArgRight
<1> QED
  BY <1>6, <1>7, <1>8 DEF ArgRight, SockHolds

\* The socket of an accepted connection has its argument set by the discovery
\* thread, unless that thread was early.
LEMMA ArgSetPcb ==
  ASSUME Shape, Shape', Fresh, ArgRight, SetPcb
  PROVE  ArgRight'
<1>1. PICK w \in Socket : w = making.who
  BY DEF SetPcb, Shape
<1>2. /\ \A t \in Socket : t # w => pcb'[t] = pcb[t] /\ own'[t] = own[t]
      /\ gen' = gen /\ state' = state /\ arg' = arg /\ mapped' = mapped
      /\ early \subseteq early' /\ (mapped[w] => w \in early')
  BY <1>1 DEF SetPcb, TakePcb, Shape, lwipVars
<1>3. pcb[w] = None /\ \A q \in AnyPcb : q # None
  BY <1>1, ConstantFacts DEF Fresh, IsNew
<1>4. ASSUME NEW q \in AnyPcb, Live(q)', arg'[q] # None PROVE pcb'[arg'[q]] = q /\ own'[arg'[q]] = gen'[q]
  <2>1. PICK t \in Socket : t = arg[q]
    BY <1>2, <1>4 DEF Shape
  <2>2. pcb[t] = q /\ own[t] = gen[q]
    BY <1>2, <1>4, <2>1 DEF ArgRight, SockHolds, Live
  <2> QED
    BY <1>2, <1>3, <2>1, <2>2
<1>5. ASSUME NEW q \in AnyPcb, state'[q] \in {"new", "connecting", "listen"} PROVE arg'[q] # None
  BY <1>2, <1>5 DEF ArgRight
<1>6. ASSUME NEW t \in Socket, mapped'[t] /\ pcb'[t] # None /\ Owned(t)' /\ arg'[pcb'[t]] = None PROVE t \in early'
  <2>1. CASE t = w
    BY <1>2, <1>6, <2>1
  <2>2. CASE t # w
    <3>1. Owned(t)
      BY <1>2, <1>6, <2>2 DEF Owned
    <3> QED
      BY <1>2, <1>6, <2>2, <3>1 DEF ArgRight
  <2> QED
    BY <2>1, <2>2
<1> QED
  BY <1>4, <1>5, <1>6 DEF ArgRight, SockHolds

\* Steps that touch nothing ArgRight is about.
LEMMA ArgSame ==
  ASSUME ArgRight, UNCHANGED <<state, arg, gen, pcb, own, mapped, early>>
  PROVE  ArgRight'
BY DEF ArgRight, SockHolds, Live, Owned

\* Every step keeps ArgRight.
LEMMA ArgStep ==
  ASSUME Shape, Shape', Holding, Steps
  PROVE  ArgRight'
<1>0. Past /\ ArgRight /\ Fresh
  BY DEF Holding
<1>1. ASSUME NEW s \in Socket, Dequeue(s) PROVE ArgRight'
  BY <1>0, <1>1, ArgSame, DequeueIs DEF lwipVars
<1>2. ASSUME Create PROVE ArgRight'
  BY <1>0, <1>2, ArgSame DEF Create, lwipVars, appVars
<1>3. ASSUME NEW s \in Socket, NEW k \in AllKinds, NEW n \in Nat, Submit(s, k, n) PROVE ArgRight'
  BY <1>0, <1>3, ArgSame DEF Submit, lwipVars, sockVars
<1>4. ASSUME NEW s \in Socket, Stale(s) \/ Bind(s) PROVE ArgRight'
  BY <1>0, <1>4, ArgSame DEF Stale, Bind, lwipVars, sockVars, appVars
<1>5. ASSUME NEW s \in Socket, Connect(s) PROVE ArgRight'
  <2>1. Quiet /\ arg' = arg /\ mapped' = mapped /\ early' = early
    BY <1>5, QuietSteps DEF Connect, sockVars
  <2>2. \A p \in AnyPcb : Named(state'[p]) => Named(state[p])
    <3>1. state' = state \/ (state[pcb[s]] = "new" /\ state' = [state EXCEPT ![pcb[s]] = "connecting"])
      BY <1>5 DEF Connect, TcpConnect
    <3>2. pcb[s] \in AnyPcb
      BY <1>5, PerformingIs DEF Connect
    <3> QED
      <4>1. PICK q \in AnyPcb : q = pcb[s]
        BY <3>2
      <4>2. DOMAIN state = AnyPcb
        BY DEF Shape
      <4>3. state' = state \/ (state[q] = "new" /\ state' = [state EXCEPT ![q] = "connecting"])
        BY <3>1, <4>1
      <4>4. \A p \in AnyPcb : state'[p] = state[p] \/ (p = q /\ state[q] = "new")
        BY <4>2, <4>3
      <4> QED
        BY <4>4 DEF Named
  <2> QED
    BY <1>0, <2>1, <2>2, ArgKept
<1>6. ASSUME NEW s \in Socket, Accept(s) PROVE ArgRight'
  BY <1>0, <1>6, ArgSame DEF Accept, sockVars
<1>7. ASSUME NEW s \in Socket, Write(s) PROVE ArgRight'
  BY <1>0, <1>7, ArgSame, WriteIs
<1>8. ASSUME NEW p \in AnyPcb, TcpPcbRemove(p), Quiet, arg' = arg, mapped' = mapped, early' = early PROVE ArgRight'
  <2>1. \A q \in AnyPcb : Named(state'[q]) => Named(state[q])
    BY <1>8, RemoveIs DEF Shape, Named
  <2> QED
    BY <1>0, <1>8, <2>1, ArgKept
<1>9. ASSUME NEW s \in Socket, Close(s) PROVE ArgRight'
  <2>1. Quiet /\ arg' = arg /\ mapped' = mapped /\ early' = early
    BY <1>9, QuietSteps DEF Close, sockVars
  <2>2. pcb[s] \in AnyPcb
    BY <1>9, PerformingIs DEF Close
  <2>3. CASE state' = [state EXCEPT ![pcb[s]] = "closing"]
    <3>1. \A q \in AnyPcb : Named(state'[q]) => Named(state[q])
      BY <2>2, <2>3 DEF Shape, Named
    <3> QED
      BY <1>0, <2>1, <3>1, ArgKept
  <2> QED
    BY <1>8, <1>9, <2>1, <2>2, <2>3 DEF Close, TcpClose
<1>10. ASSUME NEW p \in Pcb, SynAck(p) PROVE ArgRight'
  <2>1. Quiet /\ arg' = arg /\ mapped' = mapped /\ early' = early
    BY <1>10, QuietSteps DEF SynAck, sockVars, appVars
  <2>2. \A q \in AnyPcb : Named(state'[q]) => Named(state[q])
    <3>1. state' = [state EXCEPT ![p] = "open"] /\ p \in AnyPcb
      BY <1>10 DEF SynAck, AnyPcb
    <3> QED
      BY <3>1 DEF Shape, Named
  <2> QED
    BY <1>0, <2>1, <2>2, ArgKept
<1>11. ASSUME NEW p \in Pcb, NEW n \in 1..Held(p), Ack(p, n) PROVE ArgRight'
  BY <1>0, <1>11, ArgSame DEF Ack, sockVars, appVars
<1>12. ASSUME NEW p \in Pcb, Reset(p) \/ Gone(p) PROVE ArgRight'
  <2>1. Quiet
    BY <1>12, QuietSteps
  <2>2. TcpPcbRemove(p) /\ arg' = arg /\ mapped' = mapped /\ early' = early /\ p \in AnyPcb
    BY <1>12 DEF Reset, Gone, sockVars, appVars, AnyPcb
  <2> QED
    BY <1>8, <2>1, <2>2
<1>13. ASSUME NEW l \in ListenPcb, IncomingNoMem(l) PROVE ArgRight'
  BY <1>0, <1>13, ArgSame DEF IncomingNoMem, lwipVars, sockVars, appVars
<1>14. ASSUME Sent PROVE ArgRight'
  BY <1>0, <1>14, ArgSame, SentIs DEF lwipVars, appVars
<1> QED
  BY <1>0, <1>1, <1>2, <1>3, <1>4, <1>5, <1>6, <1>7, <1>9, <1>10, <1>11, <1>12, <1>13, <1>14,
     ArgMap, ArgNewPcb, ArgListen, ArgIncoming, ArgSetPcb DEF Steps

\* Every step keeps one holder of each pcb.
LEMMA HolderStep ==
  ASSUME Shape, Shape', Holding, Steps
  PROVE  OneHolder' /\ Past'
<1>0. OneHolder /\ Past
  BY DEF Holding
<1>1. ASSUME Quiet PROVE OneHolder' /\ Past'
  BY <1>0, <1>1, QuietKeeps
<1>2. ASSUME NEW s \in Socket, NewPcb(s) \/ Listen(s) PROVE OneHolder' /\ Past'
  BY <1>0, <1>1, <1>2, NewPcbTakes, ListenTakesPcb, TakesKeeps
<1> QED
  BY <1>1, <1>2, QuietSteps, IncomingKeeps, SetPcbKeeps, DequeueKeeps DEF Steps

\* Holding holds at first.
LEMMA InitHolding == Init => Holding
<1> SUFFICES ASSUME Init PROVE Holding
  OBVIOUS
<1>1. Nobody.who = None /\ Nobody.pcb = None /\ None \notin Socket /\ \A p \in AnyPcb : state[p] = "free"
  BY ConstantFacts DEF Init, Nobody
<1>2. OneHolder
  BY <1>1 DEF OneHolder, Live
<1>3. Past
  BY <1>1 DEF Past, Init
<1>4. Fresh
  BY <1>1 DEF Fresh, Init
<1>5. ArgRight
  BY <1>1 DEF ArgRight, Init, Live, Owned
<1> QED
  BY <1>2, <1>3, <1>4, <1>5 DEF Holding

\* Every step keeps Holding.
LEMMA HoldingStep == Shape /\ Shape' /\ Holding /\ [Next]_vars => Holding'
<1> SUFFICES ASSUME Shape, Shape', Holding, [Next]_vars PROVE Holding'
  OBVIOUS
<1>1. CASE Next
  <2>1. Steps
    BY <1>1, NextSteps
  <2>2. OneHolder' /\ Past'
    BY <2>1, HolderStep
  <2>3. Fresh'
    BY <2>1, FreshStep DEF Holding
  <2>4. ArgRight'
    BY <2>1, ArgStep
  <2> QED
    BY <2>2, <2>3, <2>4 DEF Holding
<1>2. CASE UNCHANGED vars
  <2>1. UNCHANGED <<state, arg, gen, pcb, own, mapped, early, making, cqueue, phase, ops, issued, writeQueue>>
    BY <1>2 DEF vars, lwipVars, sockVars, appVars, resVars
  <2>2. ArgRight'
    BY <2>1, ArgSame DEF Holding
  <2>3. Fresh'
    BY <2>1, FreshSame DEF Holding
  <2>4. Past'
    BY <2>1 DEF Holding, Past
  <2>5. Quiet
    BY <2>1, KeptBy DEF Quiet
  <2>6. OneHolder'
    BY <2>5, QuietKeeps DEF Holding
  <2> QED
    BY <2>2, <2>3, <2>4, <2>6 DEF Holding
<1> QED
  BY <1>1, <1>2

\* A pcb that is in use has exactly one holder, and its callback argument names
\* the socket that holds it.
THEOREM HoldersInv == Spec => []Holding
<1>1. Shape /\ Holding /\ [Next]_vars => Holding'
  BY ShapeStep, HoldingStep
<1> QED
  BY <1>1, InitHolding, Shapes, PTL DEF Spec

\* The callbacks of a connection go to the socket that holds it: results and
\* data of one socket never reach another.
THEOREM CallbackOwner == Spec => []CallbacksReachOwner
<1>1. Holding => CallbacksReachOwner
  BY DEF Holding, ArgRight, CallbacksReachOwner, Live, SockHolds
<1> QED
  BY <1>1, HoldersInv, PTL

(***************************************************************************)
(* Losing: how the connection a pointer was made for can go away.          *)
(***************************************************************************)

\* Results that were given stay.
Grow ==
  \A s \in Socket : /\ Len(answers[s]) <= Len(answers'[s])
                    /\ \A i \in 1..Len(answers[s]) : answers'[s][i] = answers[s][i]

\* The results of some kinds, by their places.
LEMMA EntriesIs ==
  ASSUME Shape, NEW s \in Socket, NEW K
  PROVE  /\ Len(answers[s]) \in Nat
         /\ \A i : i \in Entries(s, K) <=> i \in 1..Len(answers[s]) /\ answers[s][i].kind \in K
<1>1. answers[s] \in Seq(ResRec)
  BY DEF Shape
<1>2. Len(answers[s]) \in Nat /\ DOMAIN answers[s] = 1..Len(answers[s])
  BY <1>1, LenProperties
<1> QED
  BY <1>2 DEF Entries

\* Results are added, never taken back.
LEMMA GrowBy ==
  ASSUME Shape
  PROVE  /\ answers' = answers => Grow
         /\ \A s \in Socket : \A r : Gains(answers', answers, s, r) => Grow
<1>1. \A t \in Socket : Len(answers[t]) \in Nat
  BY LenProperties DEF Shape
<1>2. ASSUME answers' = answers PROVE Grow
  BY <1>1, <1>2 DEF Grow
<1>3. ASSUME NEW s \in Socket, NEW r, Gains(answers', answers, s, r) PROVE Grow
  <2>1. ASSUME NEW t \in Socket
        PROVE  /\ Len(answers[t]) <= Len(answers'[t])
               /\ \A i \in 1..Len(answers[t]) : answers'[t][i] = answers[t][i]
    <3>1. CASE t # s
      BY <1>1, <1>3, <3>1 DEF Gains
    <3>2. CASE t = s
      BY <1>1, <1>3, <3>2 DEF Gains
    <3> QED
      BY <3>1, <3>2
  <2> QED
    BY <2>1 DEF Grow
<1> QED
  BY <1>2, <1>3

\* A socket that was closed stays so.
LEMMA ClosedStays ==
  ASSUME Shape, Shape', Grow, NEW s \in Socket, Closed(s)
  PROVE  Closed(s)'
<1>1. PICK i : i \in Entries(s, {"close"})
  BY DEF Closed
<1>2. i \in 1..Len(answers[s]) /\ answers[s][i].kind = "close"
  BY <1>1, EntriesIs
<1>3. i \in 1..Len(answers'[s]) /\ answers'[s][i].kind = "close"
  <2>1. Len(answers[s]) \in Nat /\ Len(answers'[s]) \in Nat
    BY LenProperties DEF Shape
  <2> QED
    BY <1>2, <2>1 DEF Grow
<1>4. DOMAIN (answers'[s]) = 1..Len(answers'[s])
  BY LenProperties DEF Shape
<1>5. i \in Entries(s, {"close"})'
  BY <1>3, <1>4 DEF Entries
<1> QED
  BY <1>5 DEF Closed

\* What a step answers: at most one result.
LEMMA GrowSteps ==
  ASSUME Shape, Steps
  PROVE  Grow /\ ended \subseteq ended'
<1>0. TRUE \in BOOLEAN /\ FALSE \in BOOLEAN
  OBVIOUS
<1>1. ASSUME answers' = answers, ended' = ended \/ \E p \in Pcb : Reset(p) PROVE Grow /\ ended \subseteq ended'
  BY <1>1, GrowBy DEF Reset
<1>2. ASSUME NEW s \in Socket, NEW ok \in BOOLEAN, ops[s] # <<>>, Finish(s, ok), ended' = ended PROVE Grow /\ ended \subseteq ended'
  <2>1. PICK r : FinishedWith(s, r, ok)
    BY <1>2, FinishIs
  <2> QED
    BY <1>2, <2>1, GrowBy DEF FinishedWith
<1>3. ASSUME NEW s \in Socket, Async(s), ended' = ended PROVE Grow /\ ended \subseteq ended'
  BY <1>1, <1>3 DEF Async, resVars
<1>4. ASSUME Create \/ SetPcb PROVE Grow /\ ended \subseteq ended'
  BY <1>1, <1>4 DEF Create, SetPcb, lwipVars, resVars
<1>5. ASSUME NEW s \in Socket, NEW k \in AllKinds, NEW n \in Nat, Submit(s, k, n) PROVE Grow /\ ended \subseteq ended'
  BY <1>1, <1>5 DEF Submit, lwipVars, resVars
<1>6. ASSUME NEW s \in Socket, Dequeue(s) \/ Map(s) \/ Stale(s) PROVE Grow /\ ended \subseteq ended'
  BY <1>1, <1>6 DEF Dequeue, Map, Stale, lwipVars, resVars
<1>7. ASSUME NEW s \in Socket, NewPcb(s) PROVE Grow /\ ended \subseteq ended'
  BY <1>1, <1>7, NewPcbIs DEF resVars
<1>8. ASSUME NEW s \in Socket, Bind(s) PROVE Grow /\ ended \subseteq ended'
  <2>1. ops[s] # <<>> /\ Finish(s, TRUE) /\ ended' = ended
    BY <1>8, PerformingIs DEF Bind, lwipVars
  <2> QED
    BY <1>0, <1>2, <2>1
<1>9. ASSUME NEW s \in Socket, Connect(s) PROVE Grow /\ ended \subseteq ended'
  <2>1. ops[s] # <<>> /\ (Finish(s, FALSE) \/ Async(s)) /\ ended' = ended
    BY <1>9, PerformingIs DEF Connect
  <2> QED
    BY <1>0, <1>2, <1>3, <2>1
<1>10. ASSUME NEW s \in Socket, Listen(s) PROVE Grow /\ ended \subseteq ended'
  <2>1. ops[s] # <<>> /\ (\E ok \in BOOLEAN : Finish(s, ok)) /\ ended' = ended
    BY <1>10, PerformingIs, ListenIs DEF Listen
  <2> QED
    BY <1>2, <2>1
<1>11. ASSUME NEW s \in Socket, Accept(s) PROVE Grow /\ ended \subseteq ended'
  BY <1>3, <1>11 DEF Accept
<1>12. ASSUME NEW s \in Socket, Write(s) PROVE Grow /\ ended \subseteq ended'
  <2>1. ops[s] # <<>> /\ ended' = ended
    BY <1>12, PerformingIs DEF Write
  <2>2. AsyncWith(s) \/ answers' = answers \/ Finish(s, FALSE)
    BY <1>12, WriteIs
  <2> QED
    BY <1>0, <1>1, <1>2, <2>1, <2>2 DEF AsyncWith
<1>13. ASSUME NEW s \in Socket, Close(s) PROVE Grow /\ ended \subseteq ended'
  <2>1. ops[s] # <<>> /\ Finish(s, TRUE) /\ ended' = ended
    BY <1>13, PerformingIs DEF Close
  <2> QED
    BY <1>0, <1>2, <2>1
<1>14. ASSUME NEW p \in Pcb, SynAck(p) PROVE Grow /\ ended \subseteq ended'
  BY <1>14, ConnectedIs, GrowBy
<1>15. ASSUME NEW p \in Pcb, (\E n \in 1..Held(p) : Ack(p, n)) \/ Reset(p) \/ Gone(p) PROVE Grow /\ ended \subseteq ended'
  BY <1>1, <1>15 DEF Ack, Reset, Gone, resVars
<1>16. ASSUME NEW l \in ListenPcb, Incoming(l) PROVE Grow /\ ended \subseteq ended'
  <2>1. ended' = ended /\ \E p \in Pcb : gen[p] \in Nat /\ Accepted(arg[l], p, gen[p] + 1)
    BY <1>16, IncomingIs
  <2>2. PICK p \in Pcb \union {None}, g \in Nat : Accepted(arg[l], p, g)
    BY <2>1
  <2>3. answers' = answers \/ \E s \in Socket : \E r \in ResRec : Gains(answers', answers, s, r)
    BY <2>2, AcceptedIs
  <2> QED
    BY <2>1, <2>3, GrowBy
<1>17. ASSUME NEW l \in ListenPcb, IncomingNoMem(l) PROVE Grow /\ ended \subseteq ended'
  <2>1. ended' = ended /\ Accepted(arg[l], None, 0) /\ None \in Pcb \union {None} /\ 0 \in Nat
    BY <1>17 DEF IncomingNoMem, lwipVars
  <2>2. answers' = answers \/ \E s \in Socket : \E r \in ResRec : Gains(answers', answers, s, r)
    BY <2>1, AcceptedIs
  <2> QED
    BY <2>1, <2>2, GrowBy
<1>18. ASSUME Sent PROVE Grow /\ ended \subseteq ended'
  <2>1. ended' = ended
    BY <1>18 DEF Sent, lwipVars
  <2>2. ASSUME NEW s \in Socket, NEW e \in WEntry, Report(s, Result("write", e.block[2], TRUE)) PROVE Grow
    <3>1. e.block[2] \in Nat /\ "write" \in AllKinds
      BY DEF WEntry, AllKinds
    <3>2. PICK r : r = Result("write", e.block[2], TRUE)
      OBVIOUS
    <3>3. r \in ResRec
      BY <1>0, <3>1, <3>2, ResultIs
    <3>4. Gains(answers', answers, s, r)
      BY <2>2, <3>2, <3>3, ReportIs
    <3> QED
      BY <3>4, GrowBy
  <2> QED
    BY <1>1, <1>18, <2>1, <2>2, SentIs
<1> QED
  BY <1>4, <1>5, <1>6, <1>7, <1>8, <1>9, <1>10, <1>11, <1>12, <1>13, <1>14, <1>15, <1>16, <1>17, <1>18 DEF Steps

\* A pointer to the connection it was made for, or to one that was lost.
RefOK(p, g) == LiveRef(p, g) \/ <<p, g>> \in ended

\* Results name no pcb that is not there.
ResFine ==
  \A s \in Socket : \A i \in 1..Len(cqueue'[s]) : cqueue'[s][i].pcb # None =>
    \/ \E j \in 1..Len(cqueue[s]) : cqueue'[s][i] = cqueue[s][j]
    \/ RefOK(cqueue[s][i].pcb, cqueue[s][i].gen)'

\* Results that wait stay fine.
LEMMA KeptFine ==
  ASSUME Shape, ResKept
  PROVE  ResFine
<1>1. ASSUME NEW s \in Socket, NEW i \in 1..Len(cqueue'[s]), cqueue'[s][i].pcb # None
      PROVE  i \in 1..Len(cqueue[s]) /\ cqueue'[s][i] = cqueue[s][i]
  <2>1. Len(cqueue[s]) \in Nat
    BY LenProperties DEF Shape
  <2> QED
    BY <1>1, <2>1 DEF ResKept
<1> QED
  BY <1>1 DEF ResFine

\* Pointers stay what they are, but those of the sockets of Odd and the pointers
\* to the pcbs these hold.
LEMMA LosingBy ==
  ASSUME Shape, Shape', Holding, Losing, Grow, ResFine,
         making' = making \/ (making'.pcb # None => RefOK(making.pcb, making.gen)'),
         NEW Odd, Odd \subseteq Socket,
         \A s \in Socket : s \notin Odd => pcb'[s] = pcb[s] /\ own'[s] = own[s],
         \A s \in Odd : pcb'[s] # None => RefOK(pcb[s], own[s])' \/ Closed(s)',
         \A p \in AnyPcb, g \in Nat : RefOK(p, g) =>
            RefOK(p, g)' \/ (Live(p) /\ g = gen[p] /\ \E s \in Odd : SockHolds(s, p)),
         \A p \in AnyPcb : state'[p] = "closing" => \E s \in Socket : SockHolds(s, p)' /\ Closed(s)'
  PROVE  Losing'
<1>1. ASSUME NEW s \in Socket, pcb'[s] # None PROVE RefOK(pcb[s], own[s])' \/ Closed(s)'
  <2>1. CASE s \in Odd
    BY <1>1, <2>1
  <2>2. CASE s \notin Odd
    <3>1. PICK p \in AnyPcb, g \in Nat : p = pcb[s] /\ g = own[s] /\ p = pcb'[s] /\ g = own'[s]
      BY <1>1, <2>2 DEF Shape
    <3>2. CASE Closed(s)
      BY <3>2, ClosedStays
    <3>3. CASE RefOK(p, g)
      <4>1. CASE RefOK(p, g)'
        <5>1. RefOK(pcb[s], own[s])'
          BY <3>1, <4>1 DEF RefOK, LiveRef, Live
        <5> QED
          BY <5>1
      <4>2. CASE Live(p) /\ g = gen[p] /\ \E t \in Odd : SockHolds(t, p)
        <5>1. PICK t \in Socket : t \in Odd /\ SockHolds(t, p)
          BY <4>2
        <5>2. SockHolds(s, p)
          BY <3>1, <4>2 DEF SockHolds
        <5>3. s = t
          BY <4>2, <5>1, <5>2 DEF Holding, OneHolder, OneSock
        <5> QED
          BY <2>2, <5>1, <5>3
      <4> QED
        BY <3>3, <4>1, <4>2
    <3> QED
      BY <1>1, <2>2, <3>1, <3>2, <3>3 DEF Losing, RefOK, LostConn
  <2> QED
    BY <2>1, <2>2
<1>2. ASSUME making'.pcb # None, making' = making PROVE RefOK(making.pcb, making.gen)'
  <2>1. Nobody.pcb = None
    BY DEF Nobody
  <2>2. PICK p \in AnyPcb, g \in Nat : p = making.pcb /\ g = making.gen
    BY <1>2, <2>1 DEF Shape, AnyPcb
  <2>3. RefOK(p, g)
    BY <1>2, <2>2 DEF Losing, RefOK
  <2>4. ASSUME NEW t \in Socket, Live(p), g = gen[p], SockHolds(t, p) PROVE FALSE
    <3>1. MakeHolds(p)
      BY <2>2, <2>4 DEF MakeHolds
    <3> QED
      BY <2>4, <3>1 DEF Holding, OneHolder, OneSock
  <2>5. RefOK(p, g)'
    BY <2>3, <2>4
  <2> QED
    BY <1>2, <2>2, <2>5 DEF RefOK, LiveRef, Live
<1>3. ASSUME NEW s \in Socket, NEW i \in 1..Len(cqueue'[s]), cqueue'[s][i].pcb # None
      PROVE  RefOK(cqueue[s][i].pcb, cqueue[s][i].gen)'
  <2>1. SUFFICES ASSUME NEW j \in 1..Len(cqueue[s]), cqueue'[s][i] = cqueue[s][j]
                 PROVE  RefOK(cqueue[s][i].pcb, cqueue[s][i].gen)'
    BY <1>3 DEF ResFine
  <2>2. cqueue[s][j] \in ResRec
    BY ElementOfSeq DEF Shape
  <2>3. PICK p \in AnyPcb, g \in Nat : p = cqueue[s][j].pcb /\ g = cqueue[s][j].gen
    BY <1>3, <2>1, <2>2 DEF ResRec, AnyPcb
  <2>4. RefOK(p, g)
    BY <1>3, <2>1, <2>3 DEF Losing, RefOK
  <2>5. ASSUME NEW t \in Socket, Live(p), g = gen[p], SockHolds(t, p) PROVE FALSE
    <3>1. ResHolds(s, j, p)
      BY <2>3, <2>5 DEF ResHolds
    <3> QED
      BY <2>5, <3>1 DEF Holding, OneHolder, OneSock
  <2>6. RefOK(p, g)'
    BY <2>4, <2>5
  <2> QED
    BY <2>1, <2>3, <2>6 DEF RefOK, LiveRef, Live
<1>4. making'.pcb # None => RefOK(making.pcb, making.gen)'
  BY <1>2
<1> QED
  BY <1>1, <1>3, <1>4 DEF Losing, RefOK, LostConn

\* A connection that is closing stays with its socket.
LEMMA ClosingKept ==
  ASSUME Shape, Shape', Losing, Grow,
         \A p \in AnyPcb : state'[p] = "closing" => state[p] = "closing" /\ gen'[p] = gen[p],
         \A s \in Socket, p \in AnyPcb : state[p] = "closing" /\ SockHolds(s, p) => pcb'[s] = pcb[s] /\ own'[s] = own[s]
  PROVE  \A p \in AnyPcb : state'[p] = "closing" => \E s \in Socket : SockHolds(s, p)' /\ Closed(s)'
<1> SUFFICES ASSUME NEW p \in AnyPcb, state'[p] = "closing" PROVE \E s \in Socket : SockHolds(s, p)' /\ Closed(s)'
  OBVIOUS
<1>1. state[p] = "closing" /\ gen'[p] = gen[p]
  OBVIOUS
<1>2. PICK s \in Socket : SockHolds(s, p) /\ Closed(s)
  BY <1>1 DEF Losing
<1>3. SockHolds(s, p)'
  BY <1>1, <1>2 DEF SockHolds
<1>4. Closed(s)'
  BY <1>2, ClosedStays
<1> QED
  BY <1>3, <1>4

\* Neither a pcb nor a pointer goes away.
LEMMA LosingQuiet ==
  ASSUME Shape, Shape', Holding, Losing, Grow, Quiet, ended \subseteq ended',
         \A p \in AnyPcb : (state'[p] = "free" => state[p] = "free") /\ (state'[p] = "closing" => state[p] = "closing")
  PROVE  Losing'
<1>1. \A p \in AnyPcb : state'[p] = "closing" => \E s \in Socket : SockHolds(s, p)' /\ Closed(s)'
  BY ClosingKept DEF Quiet
<1>2. \A p \in AnyPcb, g \in Nat : RefOK(p, g) => RefOK(p, g)'
  BY DEF RefOK, LiveRef, Live, Quiet
<1>3. PICK Odd : Odd = {}
  OBVIOUS
<1>4. Odd \subseteq Socket
  BY <1>3
<1>5. \A s \in Socket : s \notin Odd => pcb'[s] = pcb[s] /\ own'[s] = own[s]
  BY DEF Quiet
<1>6. \A s \in Odd : pcb'[s] # None => RefOK(pcb[s], own[s])' \/ Closed(s)'
  BY <1>3
<1>7. \A p \in AnyPcb, g \in Nat : RefOK(p, g) =>
            RefOK(p, g)' \/ (Live(p) /\ g = gen[p] /\ \E s \in Odd : SockHolds(s, p))
  BY <1>2
<1>8. ResFine /\ making' = making
  BY KeptFine DEF Quiet
<1> HIDE <1>3
<1> QED
  BY <1>1, <1>4, <1>5, <1>6, <1>7, <1>8, LosingBy

\* A socket gets a pcb; the one it may have had is freed.
LEMMA LosingTakes ==
  ASSUME Shape, Shape', Holding, Losing, Grow, ended \subseteq ended',
         NEW s \in Socket, NEW p \in AnyPcb, Takes(s, p), state'[p] \notin {"free", "closing"},
         \A q \in AnyPcb : q # p => (state'[q] # state[q] => state'[q] = "free" /\ SockHolds(s, q)),
         pcb[s] # None => state[pcb[s]] # "closing"
  PROVE  Losing'
<1>0. Allocates(p) /\ gen'[p] = own'[s] /\ pcb'[s] = p
  BY DEF Takes, Allocates
<1>1. \A q \in AnyPcb : state'[q] = "closing" => state[q] = "closing" /\ gen'[q] = gen[q]
  BY <1>0 DEF Allocates
<1>2. ASSUME NEW t \in Socket, NEW q \in AnyPcb, state[q] = "closing", SockHolds(t, q)
      PROVE  pcb'[t] = pcb[t] /\ own'[t] = own[t]
  <2>1. t # s
    BY <1>2, ConstantFacts DEF SockHolds
  <2> QED
    BY <2>1 DEF Takes
<1>3. \A q \in AnyPcb : state'[q] = "closing" => \E t \in Socket : SockHolds(t, q)' /\ Closed(t)'
  BY <1>1, <1>2, ClosingKept
<1>4. ASSUME NEW q \in AnyPcb, NEW g \in Nat, RefOK(q, g)
      PROVE  RefOK(q, g)' \/ (Live(q) /\ g = gen[q] /\ SockHolds(s, q))
  <2>1. CASE <<q, g>> \in ended
    BY <2>1 DEF RefOK
  <2>2. CASE LiveRef(q, g)
    <3>1. q # p /\ gen'[q] = gen[q]
      BY <1>0, <2>2 DEF LiveRef, Allocates
    <3>2. CASE state'[q] = state[q]
      BY <2>2, <3>1, <3>2 DEF RefOK, LiveRef, Live
    <3>3. CASE state'[q] # state[q]
      BY <2>2, <3>1, <3>3 DEF LiveRef
    <3> QED
      BY <3>2, <3>3
  <2> QED
    BY <1>4, <2>1, <2>2 DEF RefOK
<1>5. RefOK(pcb[s], own[s])'
  BY <1>0 DEF RefOK, LiveRef, Live
<1>6. PICK Odd : Odd = {s}
  OBVIOUS
<1>7. Odd \subseteq Socket /\ s \in Odd
  BY <1>6
<1>8. \A t \in Socket : t \notin Odd => pcb'[t] = pcb[t] /\ own'[t] = own[t]
  BY <1>6 DEF Takes
<1>9. \A t \in Odd : pcb'[t] # None => RefOK(pcb[t], own[t])' \/ Closed(t)'
  BY <1>5, <1>6
<1>10. \A q \in AnyPcb, g \in Nat : RefOK(q, g) =>
            RefOK(q, g)' \/ (Live(q) /\ g = gen[q] /\ \E t \in Odd : SockHolds(t, q))
  BY <1>4, <1>7
<1>11. ResFine /\ making' = making
  BY KeptFine DEF Takes, Allocates
<1> HIDE <1>6
<1> QED
  BY <1>3, <1>7, <1>8, <1>9, <1>10, <1>11, LosingBy

\* The first operation of a socket: its pcb is live.
LEMMA LosingNewPcb ==
  ASSUME Shape, Shape', Holding, Losing, Grow, NEW s \in Socket, NewPcb(s)
  PROVE  Losing'
<1>1. /\ pcb[s] = None /\ making' = making /\ cqueue' = cqueue /\ ended' = ended
      /\ \/ \E p \in Pcb : /\ state[p] = "free" /\ Alloc(p, "new", s)
                           /\ pcb' = [pcb EXCEPT ![s] = p] /\ own' = [own EXCEPT ![s] = gen[p] + 1]
         \/ UNCHANGED <<state, gen, pcb, own>>
  BY NewPcbIs DEF appVars, resVars
<1>2. ResKept
  BY <1>1, KeptBy
<1>3. CASE UNCHANGED <<state, gen, pcb, own>>
  <2>1. Quiet
    BY <1>1, <1>2, <1>3 DEF Quiet
  <2> QED
    BY <1>1, <1>3, <2>1, LosingQuiet
<1>4. ASSUME NEW p \in Pcb, state[p] = "free", Alloc(p, "new", s),
             pcb' = [pcb EXCEPT ![s] = p], own' = [own EXCEPT ![s] = gen[p] + 1]
      PROVE  Losing'
  <2>1. p \in AnyPcb /\ \A q \in AnyPcb : q # None
    BY ConstantFacts DEF AnyPcb
  <2>2. /\ gen'[p] = gen[p] + 1 /\ gen[p] \in Nat /\ state'[p] = "new"
        /\ \A q \in AnyPcb : q # p => gen'[q] = gen[q] /\ state'[q] = state[q]
    BY <1>4, <2>1, AllocIs
  <2>3. Allocates(p)
    BY <1>1, <1>4, <2>2 DEF Allocates, Live
  <2>4. /\ pcb'[s] = p /\ own'[s] = gen[p] + 1
        /\ \A t \in Socket : t # s => pcb'[t] = pcb[t] /\ own'[t] = own[t]
    BY <1>4 DEF Shape
  <2>5. Takes(s, p)
    BY <1>1, <1>2, <2>1, <2>2, <2>3, <2>4 DEF Takes
  <2> QED
    BY <1>1, <2>1, <2>2, <2>5, LosingTakes
<1> QED
  BY <1>1, <1>3, <1>4

\* A listen: the socket has the listening pcb, the old one has no holder.
LEMMA LosingListen ==
  ASSUME Shape, Shape', Holding, Losing, Grow, NEW s \in Socket, Listen(s)
  PROVE  Losing'
<1>1. ops[s] # <<>> /\ pcb[s] \in AnyPcb /\ own[s] = gen[pcb[s]]
  BY PerformingIs DEF Listen
<1>2. ResKept
  BY <1>1, ListenIs, FinishKeeps
<1>3. making' = making /\ ended' = ended
  BY ListenIs
<1>4. CASE UNCHANGED <<state, gen, arg, accepting, pcb, own>>
  <2>1. Quiet
    BY <1>2, <1>3, <1>4 DEF Quiet
  <2> QED
    BY <1>3, <1>4, <2>1, LosingQuiet
<1>5. ASSUME NEW l \in ListenPcb, state[pcb[s]] = "new", state[l] = "free", pcb[s] \in Pcb,
             state' = [state EXCEPT ![pcb[s]] = "free", ![l] = "listen"],
             gen' = [gen EXCEPT ![l] = gen[l] + 1],
             pcb' = [pcb EXCEPT ![s] = l], own' = [own EXCEPT ![s] = gen[l] + 1]
      PROVE  Losing'
  <2>1. l \in AnyPcb
    BY DEF AnyPcb
  <2>2. /\ gen'[l] = gen[l] + 1 /\ gen[l] \in Nat
        /\ \A q \in AnyPcb : q # l => gen'[q] = gen[q]
    BY <1>5, <2>1 DEF Shape
  <2>3. Allocates(l)
    BY <1>3, <1>5, <2>2 DEF Allocates, Live
  <2>4. /\ pcb'[s] = l /\ own'[s] = gen[l] + 1
        /\ \A t \in Socket : t # s => pcb'[t] = pcb[t] /\ own'[t] = own[t]
    BY <1>5 DEF Shape
  <2>5. PICK r \in AnyPcb : r = pcb[s] /\ SockHolds(s, r)
    BY <1>1 DEF SockHolds
  <2>6. state' = [state EXCEPT ![r] = "free", ![l] = "listen"]
    BY <1>5, <2>5
  <2>7. \A q \in AnyPcb : state'[q] = IF q = l THEN "listen" ELSE IF q = r THEN "free" ELSE state[q]
    <3>1. DOMAIN state = AnyPcb
      BY DEF Shape
    <3> QED
      BY <2>1, <2>5, <2>6, <3>1
  <2>8. Takes(s, l)
    BY <1>2, <2>3, <2>4, <2>5, <2>7 DEF Takes
  <2>9. state'[l] \notin {"free", "closing"}
    BY <2>1, <2>7
  <2>10. \A q \in AnyPcb : q # l => (state'[q] # state[q] => state'[q] = "free" /\ SockHolds(s, q))
    BY <2>5, <2>7
  <2> QED
    BY <1>3, <1>5, <2>1, <2>8, <2>9, <2>10, LosingTakes
<1> QED
  BY <1>4, <1>5, ListenIs

\* A peer connects: the accept result refers to a live pcb.
LEMMA LosingIncoming ==
  ASSUME Shape, Shape', Holding, Losing, Grow, NEW l \in ListenPcb, Incoming(l)
  PROVE  Losing'
<1>0. \A t \in Socket : Len(cqueue[t]) \in Nat /\ Len(cqueue'[t]) \in Nat
  BY LenProperties DEF Shape
<1>1. /\ pcb' = pcb /\ own' = own /\ making' = making /\ ended' = ended /\ l \in AnyPcb /\ state[l] = "listen"
  BY IncomingIs DEF sockVars, appVars, AnyPcb
<1>2. PICK p \in Pcb : /\ state[p] = "free" /\ Alloc(p, "open", None)
                       /\ gen[p] \in Nat /\ Accepted(arg[l], p, gen[p] + 1)
  BY IncomingIs
<1>3. p \in AnyPcb
  BY DEF AnyPcb
<1>4. /\ gen'[p] = gen[p] + 1 /\ gen[p] \in Nat /\ state'[p] = "open"
      /\ \A q \in AnyPcb : q # p => gen'[q] = gen[q] /\ state'[q] = state[q]
  BY <1>2, <1>3, AllocIs
<1>5. arg[l] # None
  BY <1>1 DEF Holding, ArgRight
<1>6. PICK s \in Socket, r \in ResRec : r.pcb = p /\ r.gen = gen[p] + 1 /\ Gains(cqueue', cqueue, s, r)
  <2>1. gen[p] + 1 \in Nat /\ p \in Pcb \union {None}
    BY <1>4
  <2> QED
    BY <1>2, <1>5, <2>1, AcceptedIs
<1>7. \A q \in AnyPcb, g \in Nat : RefOK(q, g) => RefOK(q, g)'
  BY <1>1, <1>2, <1>4 DEF RefOK, LiveRef, Live
<1>8. ResFine
  <2>1. ASSUME NEW t \in Socket, NEW i \in 1..Len(cqueue'[t]), cqueue'[t][i].pcb # None
        PROVE  \/ \E j \in 1..Len(cqueue[t]) : cqueue'[t][i] = cqueue[t][j]
               \/ RefOK(cqueue[t][i].pcb, cqueue[t][i].gen)'
    <3>1. CASE t # s
      BY <1>6, <3>1 DEF Gains
    <3>2. CASE t = s
      <4>1. PICK n \in Nat : n = Len(cqueue[s])
        BY <1>0
      <4>2. CASE i \in 1..n
        BY <1>6, <3>2, <4>1, <4>2 DEF Gains
      <4>3. CASE i = n + 1
        <5>1. cqueue'[t][i] = r
          BY <1>6, <3>2, <4>1, <4>3 DEF Gains
        <5> QED
          BY <1>4, <1>6, <5>1 DEF RefOK, LiveRef, Live
      <4>4. i \in 1..n \/ i = n + 1
        BY <1>6, <3>2, <4>1 DEF Gains
      <4> QED
        BY <4>2, <4>3, <4>4
    <3> QED
      BY <3>1, <3>2
  <2> QED
    BY <2>1 DEF ResFine
<1>9. \A q \in AnyPcb : state'[q] = "closing" => state[q] = "closing" /\ gen'[q] = gen[q]
  BY <1>4
<1>10. \A q \in AnyPcb : state'[q] = "closing" => \E t \in Socket : SockHolds(t, q)' /\ Closed(t)'
  BY <1>1, <1>9, ClosingKept
<1>11. PICK Odd : Odd = {}
  OBVIOUS
<1>12. Odd \subseteq Socket /\ \A t \in Odd : pcb'[t] # None => RefOK(pcb[t], own[t])' \/ Closed(t)'
  BY <1>11
<1>13. \A t \in Socket : t \notin Odd => pcb'[t] = pcb[t] /\ own'[t] = own[t]
  BY <1>1
<1>14. \A q \in AnyPcb, g \in Nat : RefOK(q, g) =>
            RefOK(q, g)' \/ (Live(q) /\ g = gen[q] /\ \E t \in Odd : SockHolds(t, q))
  BY <1>7
<1> HIDE <1>11
<1> QED
  BY <1>1, <1>8, <1>10, <1>12, <1>13, <1>14, LosingBy

\* An accepted connection gets its socket: lost before, lost now.
LEMMA LosingSetPcb ==
  ASSUME Shape, Shape', Holding, Losing, Grow, SetPcb
  PROVE  Losing'
<1>1. PICK w \in Socket : w = making.who
  BY DEF SetPcb, Shape
<1>2. /\ pcb'[w] = making.pcb /\ own'[w] = making.gen
      /\ \A t \in Socket : t # w => pcb'[t] = pcb[t] /\ own'[t] = own[t]
      /\ gen' = gen /\ state' = state /\ cqueue' = cqueue /\ making' = Nobody /\ ended' = ended
  BY <1>1 DEF SetPcb, TakePcb, Shape, lwipVars, resVars
<1>3. pcb[w] = None /\ making'.pcb = None
  BY <1>1, <1>2 DEF Holding, Fresh, IsNew, Nobody
<1>4. \A q \in AnyPcb, g \in Nat : RefOK(q, g) => RefOK(q, g)'
  BY <1>2 DEF RefOK, LiveRef, Live
<1>5. ResFine
  BY <1>2, KeptBy, KeptFine
<1>6. \A q \in AnyPcb : state'[q] = "closing" => state[q] = "closing" /\ gen'[q] = gen[q]
  BY <1>2
<1>7. \A q \in AnyPcb : state'[q] = "closing" => \E t \in Socket : SockHolds(t, q)' /\ Closed(t)'
  <2>1. \A t \in Socket, q \in AnyPcb : state[q] = "closing" /\ SockHolds(t, q) => pcb'[t] = pcb[t] /\ own'[t] = own[t]
    BY <1>2, <1>3, ConstantFacts DEF SockHolds
  <2> QED
    BY <1>6, <2>1, ClosingKept
<1>8. pcb'[w] # None => RefOK(pcb[w], own[w])'
  BY <1>2 DEF Losing, RefOK, LiveRef, Live
<1>11. PICK Odd : Odd = {w}
  OBVIOUS
<1>12. Odd \subseteq Socket /\ \A t \in Odd : pcb'[t] # None => RefOK(pcb[t], own[t])' \/ Closed(t)'
  BY <1>8, <1>11
<1>13. \A t \in Socket : t \notin Odd => pcb'[t] = pcb[t] /\ own'[t] = own[t]
  BY <1>2, <1>11
<1>14. \A q \in AnyPcb, g \in Nat : RefOK(q, g) =>
            RefOK(q, g)' \/ (Live(q) /\ g = gen[q] /\ \E t \in Odd : SockHolds(t, q))
  BY <1>4
<1>15. making'.pcb # None => RefOK(making.pcb, making.gen)'
  BY <1>3
<1> HIDE <1>11
<1> QED
  BY <1>5, <1>7, <1>12, <1>13, <1>14, <1>15, LosingBy

\* An accept result becomes the socket that is being made.
LEMMA LosingDequeue ==
  ASSUME Shape, Shape', Holding, Losing, Grow, NEW s \in Socket, Dequeue(s)
  PROVE  Losing'
<1>1. /\ making = Nobody /\ Loses(cqueue', cqueue, s)
      /\ pcb' = pcb /\ own' = own /\ state' = state /\ gen' = gen /\ ended' = ended
      /\ \/ making'.pcb = cqueue[s][1].pcb /\ making'.gen = cqueue[s][1].gen
         \/ making' = making
  BY DequeueIs DEF lwipVars
<1>2. \A q \in AnyPcb, g \in Nat : RefOK(q, g) => RefOK(q, g)'
  BY <1>1 DEF RefOK, LiveRef, Live
<1>3. ResFine
  <2>1. ASSUME NEW t \in Socket, NEW i \in 1..Len(cqueue'[t])
        PROVE  \E j \in 1..Len(cqueue[t]) : cqueue'[t][i] = cqueue[t][j]
    BY <1>1, BeforeIs
  <2> QED
    BY <2>1 DEF ResFine
<1>4. making' = making \/ (making'.pcb # None => RefOK(making.pcb, making.gen)')
  <2>1. 1 \in 1..Len(cqueue[s])
    BY <1>1 DEF Loses
  <2> QED
    BY <1>1, <2>1 DEF Losing, RefOK, LiveRef, Live
<1>5. \A q \in AnyPcb : state'[q] = "closing" => \E t \in Socket : SockHolds(t, q)' /\ Closed(t)'
  BY <1>1, ClosingKept
<1>11. PICK Odd : Odd = {}
  OBVIOUS
<1>12. Odd \subseteq Socket /\ \A t \in Odd : pcb'[t] # None => RefOK(pcb[t], own[t])' \/ Closed(t)'
  BY <1>11
<1>13. \A t \in Socket : t \notin Odd => pcb'[t] = pcb[t] /\ own'[t] = own[t]
  BY <1>1
<1>14. \A q \in AnyPcb, g \in Nat : RefOK(q, g) =>
            RefOK(q, g)' \/ (Live(q) /\ g = gen[q] /\ \E t \in Odd : SockHolds(t, q))
  BY <1>2
<1> HIDE <1>11
<1> QED
  BY <1>3, <1>4, <1>5, <1>12, <1>13, <1>14, LosingBy

\* A pcb is closed or removed that a closed socket holds.
LEMMA LosingClosed ==
  ASSUME Shape, Shape', Holding, Losing, Grow, Quiet, ended' = ended,
         NEW s \in Socket, NEW p \in AnyPcb, SockHolds(s, p), Live(p), Closed(s)',
         NEW st \in {"free", "closing"}, state' = [state EXCEPT ![p] = st]
  PROVE  Losing'
<1>1. pcb' = pcb /\ own' = own /\ gen' = gen /\ making' = making /\ ResFine
  BY KeptFine DEF Quiet
<1>2. state'[p] = st /\ \A q \in AnyPcb : q # p => state'[q] = state[q]
  BY DEF Shape
<1>3. ASSUME NEW q \in AnyPcb, state'[q] = "closing" PROVE \E t \in Socket : SockHolds(t, q)' /\ Closed(t)'
  <2>1. CASE q = p
    <3>1. SockHolds(s, p)'
      BY <1>1 DEF SockHolds
    <3> QED
      BY <2>1, <3>1
  <2>2. CASE q # p
    <3>1. PICK t \in Socket : SockHolds(t, q) /\ Closed(t)
      BY <1>2, <1>3, <2>2 DEF Losing
    <3>2. SockHolds(t, q)'
      BY <1>1, <3>1 DEF SockHolds
    <3>3. Closed(t)'
      BY <3>1, ClosedStays
    <3> QED
      BY <3>2, <3>3
  <2> QED
    BY <2>1, <2>2
<1>4. ASSUME NEW q \in AnyPcb, NEW g \in Nat, RefOK(q, g)
      PROVE  RefOK(q, g)' \/ (Live(q) /\ g = gen[q] /\ SockHolds(s, q))
  BY <1>1, <1>2, <1>4 DEF RefOK, LiveRef, Live
<1>11. PICK Odd : Odd = {s}
  OBVIOUS
<1>12. Odd \subseteq Socket /\ s \in Odd /\ \A t \in Odd : pcb'[t] # None => RefOK(pcb[t], own[t])' \/ Closed(t)'
  BY <1>11
<1>13. \A t \in Socket : t \notin Odd => pcb'[t] = pcb[t] /\ own'[t] = own[t]
  BY <1>1
<1>14. \A q \in AnyPcb, g \in Nat : RefOK(q, g) =>
            RefOK(q, g)' \/ (Live(q) /\ g = gen[q] /\ \E t \in Odd : SockHolds(t, q))
  BY <1>4, <1>12
<1> HIDE <1>11
<1> QED
  BY <1>1, <1>3, <1>12, <1>13, <1>14, LosingBy

\* A close leaves a result that tells of it.
LEMMA LosingClose ==
  ASSUME Shape, Shape', Holding, Losing, Grow, NEW s \in Socket, Close(s)
  PROVE  Losing'
<1>1. /\ ops[s] # <<>> /\ pcb[s] \in AnyPcb /\ pcb[s] # None /\ Live(pcb[s]) /\ own[s] = gen[pcb[s]]
      /\ Op(s).kind = "close"
  BY PerformingIs DEF Close
<1>2. PICK p \in AnyPcb : p = pcb[s] /\ SockHolds(s, p) /\ Live(p)
  BY <1>1 DEF SockHolds
<1>3. Quiet /\ ended' = ended
  BY QuietSteps DEF Close
<1>4. PICK r : FinishedWith(s, r, TRUE)
  <2>1. Finish(s, TRUE) /\ TRUE \in BOOLEAN
    BY DEF Close
  <2> QED
    BY <1>1, <2>1, FinishIs
<1>5. Closed(s)'
  <2>1. PICK n \in Nat : n = Len(answers[s])
    BY LenProperties DEF Shape
  <2>2. Len(answers'[s]) = n + 1 /\ answers'[s][n + 1] = r /\ r.kind = "close"
    BY <1>1, <1>4, <2>1 DEF FinishedWith, Gains
  <2>3. DOMAIN (answers'[s]) = 1..Len(answers'[s])
    BY LenProperties DEF Shape
  <2>4. n + 1 \in Entries(s, {"close"})'
    BY <2>2, <2>3 DEF Entries
  <2> QED
    BY <2>4 DEF Closed
<1>6. state' = [state EXCEPT ![p] = "free"] \/ state' = [state EXCEPT ![p] = "closing"]
  BY <1>2 DEF Close, TcpClose, TcpPcbRemove
<1>7. ASSUME NEW st \in {"free", "closing"}, state' = [state EXCEPT ![p] = st] PROVE Losing'
  BY <1>2, <1>3, <1>5, <1>7, LosingClosed
<1> QED
  BY <1>6, <1>7

\* A closed connection ends: its socket was closed.
LEMMA LosingGone ==
  ASSUME Shape, Shape', Holding, Losing, Grow, NEW p \in Pcb, Gone(p)
  PROVE  Losing'
<1>1. Quiet /\ ended' = ended /\ p \in AnyPcb /\ state[p] = "closing" /\ state' = [state EXCEPT ![p] = "free"]
  BY QuietSteps DEF Gone, TcpPcbRemove, AnyPcb
<1>2. PICK s \in Socket : SockHolds(s, p) /\ Closed(s)
  BY <1>1 DEF Losing
<1>3. Closed(s)' /\ Live(p) /\ "free" \in {"free", "closing"}
  BY <1>1, <1>2, ClosedStays DEF Live
<1> QED
  BY <1>1, <1>2, <1>3, LosingClosed

\* A connection is lost, and counts as lost.
LEMMA LosingReset ==
  ASSUME Shape, Shape', Holding, Losing, Grow, NEW p \in Pcb, Reset(p)
  PROVE  Losing'
<1>1. /\ pcb' = pcb /\ own' = own /\ gen' = gen /\ making' = making /\ ResFine /\ p \in AnyPcb
      /\ state' = [state EXCEPT ![p] = "free"] /\ ended' = ended \union {<<p, gen[p]>>}
  BY QuietSteps, KeptFine DEF Reset, TcpPcbRemove, AnyPcb, Quiet
<1>2. state'[p] = "free" /\ \A q \in AnyPcb : q # p => state'[q] = state[q]
  BY <1>1 DEF Shape
<1>3. \A q \in AnyPcb : state'[q] = "closing" => state[q] = "closing" /\ gen'[q] = gen[q]
  BY <1>1, <1>2
<1>4. \A q \in AnyPcb : state'[q] = "closing" => \E t \in Socket : SockHolds(t, q)' /\ Closed(t)'
  BY <1>1, <1>3, ClosingKept
<1>5. \A q \in AnyPcb, g \in Nat : RefOK(q, g) => RefOK(q, g)'
  BY <1>1, <1>2 DEF RefOK, LiveRef, Live
<1>11. PICK Odd : Odd = {}
  OBVIOUS
<1>12. Odd \subseteq Socket /\ \A t \in Odd : pcb'[t] # None => RefOK(pcb[t], own[t])' \/ Closed(t)'
  BY <1>11
<1>13. \A t \in Socket : t \notin Odd => pcb'[t] = pcb[t] /\ own'[t] = own[t]
  BY <1>1
<1>14. \A q \in AnyPcb, g \in Nat : RefOK(q, g) =>
            RefOK(q, g)' \/ (Live(q) /\ g = gen[q] /\ \E t \in Odd : SockHolds(t, q))
  BY <1>5
<1> HIDE <1>11
<1> QED
  BY <1>1, <1>4, <1>12, <1>13, <1>14, LosingBy

\* Steps that leave the pcbs alone, or open them.
LEMMA LosingStep ==
  ASSUME Shape, Shape', Holding, Losing, Steps
  PROVE  Losing'
<1>0. Grow /\ ended \subseteq ended'
  BY GrowSteps
<1>1. ASSUME Quiet, state' = state PROVE Losing'
  BY <1>0, <1>1, LosingQuiet
<1>2. ASSUME Create \/ Sent PROVE Losing'
  <2>1. Quiet /\ state' = state
    BY <1>2, QuietSteps DEF Create, Sent, lwipVars
  <2> QED
    BY <1>1, <2>1
<1>3. ASSUME NEW s \in Socket, NEW k \in AllKinds, NEW n \in Nat, Submit(s, k, n) PROVE Losing'
  <2>1. Quiet /\ state' = state
    BY <1>3, QuietSteps DEF Submit, lwipVars
  <2> QED
    BY <1>1, <2>1
<1>4. ASSUME NEW s \in Socket, Map(s) \/ Stale(s) \/ Bind(s) \/ Accept(s) \/ Write(s) PROVE Losing'
  <2>1. Quiet /\ state' = state
    BY <1>4, QuietSteps DEF Map, Stale, Bind, Accept, Write, lwipVars
  <2> QED
    BY <1>1, <2>1
<1>5. ASSUME NEW p \in Pcb, NEW n \in 1..Held(p), Ack(p, n) PROVE Losing'
  <2>1. Quiet /\ state' = state
    BY <1>5, QuietSteps DEF Ack
  <2> QED
    BY <1>1, <2>1
<1>6. ASSUME NEW l \in ListenPcb, IncomingNoMem(l) PROVE Losing'
  <2>1. Quiet /\ state' = state
    BY <1>6, QuietSteps DEF IncomingNoMem, lwipVars
  <2> QED
    BY <1>1, <2>1
<1>7. ASSUME NEW s \in Socket, Connect(s) PROVE Losing'
  <2>1. Quiet /\ pcb[s] \in AnyPcb
    BY <1>7, QuietSteps, PerformingIs DEF Connect
  <2>2. \A p \in AnyPcb : (state'[p] = "free" => state[p] = "free") /\ (state'[p] = "closing" => state[p] = "closing")
    <3>1. state' = state \/ state' = [state EXCEPT ![pcb[s]] = "connecting"]
      BY <1>7 DEF Connect, TcpConnect
    <3> QED
      <4>1. PICK q \in AnyPcb : q = pcb[s]
        BY <2>1
      <4>2. DOMAIN state = AnyPcb
        BY DEF Shape
      <4>3. state' = state \/ state' = [state EXCEPT ![q] = "connecting"]
        BY <3>1, <4>1
      <4>4. \A p \in AnyPcb : state'[p] = state[p] \/ state'[p] = "connecting"
        BY <4>2, <4>3
      <4> QED
        BY <4>4
  <2> QED
    BY <1>0, <2>1, <2>2, LosingQuiet
<1>8. ASSUME NEW p \in Pcb, SynAck(p) PROVE Losing'
  <2>1. Quiet /\ state' = [state EXCEPT ![p] = "open"]
    BY <1>8, QuietSteps DEF SynAck
  <2>2. \A q \in AnyPcb : (state'[q] = "free" => state[q] = "free") /\ (state'[q] = "closing" => state[q] = "closing")
    BY <2>1 DEF Shape
  <2> QED
    BY <1>0, <2>1, <2>2, LosingQuiet
<1> QED
  BY <1>0, <1>2, <1>3, <1>4, <1>5, <1>6, <1>7, <1>8,
     LosingNewPcb, LosingListen, LosingIncoming, LosingSetPcb, LosingDequeue, LosingClose, LosingGone, LosingReset DEF Steps

\* Losing holds at first.
LEMMA InitLosing == Init => Losing
<1> SUFFICES ASSUME Init PROVE Losing
  OBVIOUS
<1>1. Nobody.pcb = None
  BY DEF Nobody
<1> QED
  BY <1>1 DEF Init, Losing

\* Every step keeps Losing.
LEMMA LosingNext == Shape /\ Shape' /\ Holding /\ Losing /\ [Next]_vars => Losing'
<1> SUFFICES ASSUME Shape, Shape', Holding, Losing, [Next]_vars PROVE Losing'
  OBVIOUS
<1>1. CASE Next
  BY <1>1, NextSteps, LosingStep
<1>2. CASE UNCHANGED vars
  <2>1. UNCHANGED <<state, gen, ended, pcb, own, making, cqueue, answers>>
    BY <1>2 DEF vars, lwipVars, sockVars, appVars, resVars
  <2>2. Quiet /\ Grow
    BY <2>1, KeptBy, GrowBy DEF Quiet
  <2> QED
    BY <2>1, <2>2, LosingQuiet
<1> QED
  BY <1>1, <1>2

\* A pointer goes stale only by a close or a lost connection.
THEOREM LosingInv == Spec => []Losing
BY InitLosing, LosingNext, Shapes, HoldersInv, ShapeStep, PTL DEF Spec

\* How the model stops.
Stops ==
  \/ halt' = halt
  \/ \E x : halt' = Stopped("no pcb", x)
  \/ \E s \in Socket : /\ halt' = Stopped("stale", s) /\ pcb[s] # None /\ ~Owned(s)
                       /\ UNCHANGED <<pcb, own, ended, answers>>
  \/ /\ main.at = "sent" /\ arg[main.who] = None /\ halt' = Stopped("null", main.who)
     /\ UNCHANGED <<pcb, early>>
  \/ \E s \in Socket : /\ main.at = "sent" /\ s = arg[main.who] /\ writeQueue[s] = <<>>
                       /\ halt' = Stopped("exit", s)

\* Only a running stack takes a step, and it stops in one of these ways.
LEMMA StopSteps ==
  ASSUME Shape, Steps
  PROVE  halt = Running /\ Stops
<1>1. ASSUME Create \/ SetPcb PROVE halt = Running /\ Stops
  BY <1>1 DEF Create, SetPcb, AppIdle, Stops
<1>2. ASSUME NEW s \in Socket, NEW k \in AllKinds, NEW n \in Nat, Submit(s, k, n) PROVE halt = Running /\ Stops
  BY <1>2 DEF Submit, AppIdle, Stops
<1>3. ASSUME NEW s \in Socket, Dequeue(s) PROVE halt = Running /\ Stops
  BY <1>3 DEF Dequeue, AppIdle, Stops
<1>4. ASSUME NEW s \in Socket, Map(s) PROVE halt = Running /\ Stops
  BY <1>4 DEF Map, Stops, resVars
<1>5. ASSUME NEW s \in Socket, Stale(s) PROVE halt = Running /\ Stops
  BY <1>5 DEF Stale, Stops, resVars, lwipVars, sockVars
<1>6. ASSUME NEW s \in Socket, NewPcb(s) PROVE halt = Running /\ Stops
  BY <1>6, NewPcbIs DEF Stops
<1>7. ASSUME NEW s \in Socket, Bind(s) \/ Connect(s) \/ Listen(s) \/ Accept(s) \/ Write(s) \/ Close(s)
      PROVE  halt = Running /\ Stops
  BY <1>7 DEF Bind, Connect, Listen, Accept, Write, Close, Performing, Stops
<1>8. ASSUME NEW p \in Pcb, SynAck(p) \/ (\E n \in 1..Held(p) : Ack(p, n)) \/ Reset(p) \/ Gone(p)
      PROVE  halt = Running /\ Stops
  BY <1>8 DEF SynAck, Ack, Reset, Gone, Event, Stops
<1>9. ASSUME NEW l \in ListenPcb, Incoming(l) \/ IncomingNoMem(l) PROVE halt = Running /\ Stops
  BY <1>9 DEF Incoming, IncomingNoMem, Event, Stops
<1>10. ASSUME Sent PROVE halt = Running /\ Stops
  <2>1. UNCHANGED <<pcb, early>>
    BY <1>10, SentIs DEF appVars
  <2> QED
    BY <1>10, <2>1, SentIs DEF Stops
<1> QED
  BY <1>1, <1>2, <1>3, <1>4, <1>5, <1>6, <1>7, <1>8, <1>9, <1>10 DEF Steps

\* Every step keeps StaleOnlyAfterLoss.
LEMMA StaleStep ==
  ASSUME Shape, Losing, StaleOnlyAfterLoss, [Next]_vars
  PROVE  StaleOnlyAfterLoss'
<1>0. /\ \A why, who : Stopped(why, who).why = why /\ Stopped(why, who).who = who
      /\ Running.why # "stale"
  BY DEF Stopped, Running
<1>1. CASE Next
  <2>1. halt = Running /\ Stops
    BY <1>1, NextSteps, StopSteps
  <2>2. SUFFICES ASSUME halt'.why = "stale" PROVE (Closed(halt.who) \/ LostConn(halt.who))'
    BY DEF StaleOnlyAfterLoss
  <2>3. PICK s \in Socket : /\ halt' = Stopped("stale", s) /\ pcb[s] # None /\ ~Owned(s)
                            /\ UNCHANGED <<pcb, own, ended, answers>>
    <3>1. /\ halt' # halt
          /\ \A x : halt' # Stopped("no pcb", x) /\ halt' # Stopped("null", x) /\ halt' # Stopped("exit", x)
      <4>1. halt' # halt
        BY <1>0, <2>1, <2>2
      <4>2. ASSUME NEW h, h.why = "stale", NEW x
            PROVE  h # Stopped("no pcb", x) /\ h # Stopped("null", x) /\ h # Stopped("exit", x)
        <5>1. ASSUME h = Stopped("no pcb", x) PROVE FALSE
          <6>1. h.why = "no pcb"
            BY <5>1 DEF Stopped
          <6> QED
            BY <4>2, <6>1
        <5>2. h # Stopped("null", x)
          BY <4>2 DEF Stopped
        <5>3. h # Stopped("exit", x)
          BY <4>2 DEF Stopped
        <5> QED
          BY <5>1, <5>2, <5>3
      <4> QED
        BY <2>2, <4>1, <4>2
    <3> QED
      BY <2>1, <3>1 DEF Stops
  <2>4. Closed(s) \/ LostConn(s)
    BY <2>3 DEF Losing, LiveRef, Live, Owned
  <2>5. halt'.who = s
    BY <1>0, <2>3
  <2> QED
    BY <2>3, <2>4, <2>5 DEF Closed, LostConn, Entries
<1>2. CASE UNCHANGED vars
  BY <1>2 DEF vars, lwipVars, sockVars, resVars, StaleOnlyAfterLoss, Closed, LostConn, Entries
<1> QED
  BY <1>1, <1>2

\* A socket uses a pcb that is not its own only after its connection was closed
\* by an operation before, or was lost: both leave pcb.tcp as it is.
THEOREM StaleAfterLoss == Spec => []StaleOnlyAfterLoss
<1>1. Init => StaleOnlyAfterLoss
  BY DEF Init, StaleOnlyAfterLoss, Running, Stopped
<1> QED
  BY <1>1, StaleStep, Shapes, LosingInv, PTL DEF Spec

(***************************************************************************)
(* How often a pcb can have been allocated.                                *)
(***************************************************************************)

\* Sets of sockets are finite.
LEMMA SocketSets ==
  ASSUME NEW A, NEW B, A \subseteq B, B \subseteq Socket
  PROVE  /\ Cardinality(A) \in Nat /\ Cardinality(B) \in Nat /\ Cardinality(A) <= Cardinality(B)
         /\ \A s \in B : s \notin A => Cardinality(A) + 1 <= Cardinality(B)
<1>1. IsFiniteSet(A) /\ IsFiniteSet(B)
  BY ConstantFacts, FS_Subset
<1>2. Cardinality(A) \in Nat /\ Cardinality(B) \in Nat /\ Cardinality(A) <= Cardinality(B)
  BY <1>1, FS_CardinalityType, FS_Subset
<1>3. ASSUME NEW s \in B, s \notin A PROVE Cardinality(A) + 1 <= Cardinality(B)
  <2>1. PICK C : C = A \union {s}
    OBVIOUS
  <2>2. IsFiniteSet(C) /\ Cardinality(C) = Cardinality(A) + 1
    BY <1>1, <1>3, <2>1, FS_AddElement
  <2>3. C \subseteq B
    BY <1>3, <2>1
  <2>4. Cardinality(C) <= Cardinality(B)
    BY <1>1, <2>2, <2>3, FS_Subset
  <2> QED
    BY <2>2, <2>4
<1> QED
  BY <1>2, <1>3

\* Sockets that have, or had, a pcb, and those that have a listening one.
WithPcb == {s \in Socket : pcb[s] # None}
WithListen == {s \in Socket : pcb[s] \in ListenPcb}

\* GenBound, by the sets of sockets that have a pcb.
LEMMA GenBoundIs ==
  GenBound <=> /\ \A p \in Pcb : gen[p] <= MaxConns + Cardinality(WithPcb)
               /\ \A l \in ListenPcb : gen[l] <= Cardinality(WithListen)
BY DEF GenBound, WithPcb, WithListen

\* Pcbs are allocated for sockets that had none, or to accept.
LEMMA GenBy ==
  ASSUME Shape, Shape', GenBound,
         WithPcb \subseteq WithPcb', WithListen \subseteq WithListen',
         \A p \in Pcb : \/ gen'[p] = gen[p] \/ gen'[p] <= MaxConns
                        \/ gen'[p] = gen[p] + 1 /\ \E s \in WithPcb' : s \notin WithPcb,
         \A l \in ListenPcb : \/ gen'[l] = gen[l]
                              \/ gen'[l] = gen[l] + 1 /\ \E s \in WithListen' : s \notin WithListen
  PROVE  GenBound'
<1>1. PICK A, B, C, D : A = WithPcb /\ B = WithPcb' /\ C = WithListen /\ D = WithListen'
  OBVIOUS
<1>2. A \subseteq B /\ B \subseteq Socket /\ C \subseteq D /\ D \subseteq Socket
  BY <1>1 DEF WithPcb, WithListen
<1>3. PICK a, b, c, d, x \in Nat : a = Cardinality(A) /\ b = Cardinality(B) /\ c = Cardinality(C) /\ d = Cardinality(D)
                                 /\ x = MaxConns
  BY <1>2, SocketSets, ConstantFacts
<1>4. a <= b /\ c <= d
  BY <1>2, <1>3, SocketSets
<1>5. ASSUME NEW p \in Pcb PROVE gen'[p] <= x + b
  <2>1. PICK g, h \in Nat : g = gen[p] /\ h = gen'[p]
    BY DEF Shape, AnyPcb
  <2>2. g <= x + a
    BY <1>1, <1>3, <2>1, GenBoundIs
  <2>3. CASE h = g \/ h <= x
    BY <1>4, <2>1, <2>2, <2>3
  <2>4. CASE h = g + 1 /\ \E s \in B : s \notin A
    <3>1. a + 1 <= b
      BY <1>2, <1>3, <2>4, SocketSets
    <3> QED
      BY <2>1, <2>2, <2>4, <3>1
  <2> QED
    BY <1>1, <1>3, <2>1, <2>3, <2>4
<1>6. ASSUME NEW p \in ListenPcb PROVE gen'[p] <= d
  <2>1. PICK g, h \in Nat : g = gen[p] /\ h = gen'[p]
    BY DEF Shape, AnyPcb
  <2>2. g <= c
    BY <1>1, <1>3, <2>1, GenBoundIs
  <2>3. CASE h = g
    BY <1>4, <2>1, <2>2, <2>3
  <2>4. CASE h = g + 1 /\ \E s \in D : s \notin C
    <3>1. c + 1 <= d
      BY <1>2, <1>3, <2>4, SocketSets
    <3> QED
      BY <2>1, <2>2, <2>4, <3>1
  <2> QED
    BY <1>1, <2>1, <2>3, <2>4
<1>7. Cardinality(B) = Cardinality(WithPcb') /\ Cardinality(D) = Cardinality(WithListen')
  BY <1>1
<1> QED
  BY <1>3, <1>5, <1>6, <1>7 DEF GenBound, WithPcb, WithListen

\* Steps that allocate no pcb.
LEMMA GenSame ==
  ASSUME GenBound, gen' = gen, pcb' = pcb
  PROVE  GenBound'
BY DEF GenBound

\* Every step keeps GenBound.
LEMMA GenStep ==
  ASSUME Shape, Shape', Holding, GenBound, Steps
  PROVE  GenBound'
<1>0. /\ \A p \in Pcb : p \in AnyPcb /\ p \notin ListenPcb
      /\ \A l \in ListenPcb : l \in AnyPcb
      /\ None \notin AnyPcb /\ None \notin ListenPcb
  BY ConstantFacts DEF AnyPcb
<1>1. ASSUME Quiet PROVE GenBound'
  BY <1>1, GenSame DEF Quiet
<1>2. ASSUME NEW s \in Socket, Dequeue(s) PROVE GenBound'
  BY <1>2, GenSame, DequeueIs DEF lwipVars
<1>3. ASSUME SetPcb PROVE GenBound'
  <2>1. PICK w \in Socket : w = making.who
    BY <1>3 DEF SetPcb, Shape
  <2>2. /\ pcb'[w] = making.pcb /\ making.pcb \in Pcb \union {None} /\ pcb[w] = None
        /\ \A t \in Socket : t # w => pcb'[t] = pcb[t]
        /\ gen' = gen
    BY <1>3, <2>1 DEF SetPcb, TakePcb, Shape, lwipVars, Holding, Fresh, IsNew
  <2>3. WithPcb \subseteq WithPcb' /\ WithListen \subseteq WithListen'
    BY <1>0, <2>2 DEF WithPcb, WithListen
  <2> QED
    BY <2>2, <2>3, GenBy
<1>4. ASSUME NEW s \in Socket, NewPcb(s) PROVE GenBound'
  <2>1. CASE gen' = gen /\ pcb' = pcb
    BY <2>1, GenSame
  <2>2. ASSUME NEW p \in Pcb, Alloc(p, "new", s), pcb' = [pcb EXCEPT ![s] = p] PROVE GenBound'
    <3>1. gen'[p] = gen[p] + 1 /\ \A q \in AnyPcb : q # p => gen'[q] = gen[q]
      BY <1>0, <2>2, AllocIs
    <3>2. pcb[s] = None /\ pcb'[s] = p /\ \A t \in Socket : t # s => pcb'[t] = pcb[t]
      <4>1. pcb[s] = None
        BY <1>4, NewPcbIs
      <4>2. pcb'[s] = p /\ \A t \in Socket : t # s => pcb'[t] = pcb[t]
        BY <2>2 DEF Shape
      <4> QED
        BY <4>1, <4>2
    <3>3. WithPcb \subseteq WithPcb' /\ WithListen \subseteq WithListen' /\ s \in WithPcb' /\ s \notin WithPcb
      BY <1>0, <3>2 DEF WithPcb, WithListen
    <3>4. /\ \A q \in Pcb : gen'[q] = gen[q] \/ (gen'[q] = gen[q] + 1 /\ \E t \in WithPcb' : t \notin WithPcb)
          /\ \A l \in ListenPcb : gen'[l] = gen[l]
      BY <1>0, <3>1, <3>3
    <3> QED
      BY <3>3, <3>4, GenBy
  <2> QED
    BY <1>4, <2>1, <2>2, NewPcbIs
<1>5. ASSUME NEW s \in Socket, Listen(s) PROVE GenBound'
  <2>1. CASE gen' = gen /\ pcb' = pcb
    BY <2>1, GenSame
  <2>2. ASSUME NEW l \in ListenPcb, pcb[s] \in Pcb, gen' = [gen EXCEPT ![l] = gen[l] + 1], pcb' = [pcb EXCEPT ![s] = l]
        PROVE  GenBound'
    <3>1. gen'[l] = gen[l] + 1 /\ \A q \in AnyPcb : q # l => gen'[q] = gen[q]
      BY <1>0, <2>2 DEF Shape
    <3>2. pcb'[s] = l /\ \A t \in Socket : t # s => pcb'[t] = pcb[t]
      BY <2>2 DEF Shape
    <3>3. WithPcb \subseteq WithPcb' /\ WithListen \subseteq WithListen' /\ s \in WithListen' /\ s \notin WithListen
      BY <1>0, <2>2, <3>2 DEF WithPcb, WithListen
    <3>4. /\ \A q \in Pcb : gen'[q] = gen[q]
          /\ \A q \in ListenPcb : gen'[q] = gen[q] \/ (gen'[q] = gen[q] + 1 /\ \E t \in WithListen' : t \notin WithListen)
      BY <1>0, <3>1, <3>3
    <3> QED
      BY <3>3, <3>4, GenBy
  <2> QED
    BY <1>5, <2>1, <2>2, ListenIs
<1>6. ASSUME NEW l \in ListenPcb, Incoming(l) PROVE GenBound'
  <2>1. PICK p \in Pcb : gen[p] < MaxConns /\ Alloc(p, "open", None)
    BY <1>6, IncomingIs
  <2>2. gen'[p] = gen[p] + 1 /\ gen[p] \in Nat /\ \A q \in AnyPcb : q # p => gen'[q] = gen[q]
    BY <1>0, <2>1, AllocIs
  <2>3. gen'[p] <= MaxConns
    <3>1. PICK g, x \in Nat : g = gen[p] /\ x = MaxConns
      BY <2>2, ConstantFacts
    <3> QED
      BY <2>1, <2>2, <3>1
  <2>4. WithPcb' = WithPcb /\ WithListen' = WithListen
    BY <1>6, IncomingIs DEF WithPcb, WithListen, sockVars
  <2>5. (\A q \in Pcb : gen'[q] = gen[q] \/ gen'[q] <= MaxConns) /\ \A q \in ListenPcb : gen'[q] = gen[q]
    BY <1>0, <2>2, <2>3
  <2> QED
    BY <2>4, <2>5, GenBy
<1> QED
  BY <1>1, <1>2, <1>3, <1>4, <1>5, <1>6, QuietSteps DEF Steps

\* GenBound holds at first.
LEMMA InitGenBound == Init => GenBound
<1> SUFFICES ASSUME Init PROVE GenBound
  OBVIOUS
<1>1. Cardinality(WithPcb) \in Nat /\ Cardinality(WithListen) \in Nat
  <2>1. WithPcb \subseteq Socket /\ WithListen \subseteq Socket
    BY DEF WithPcb, WithListen
  <2> QED
    BY <2>1, SocketSets
<1>2. \A p \in AnyPcb : gen[p] = 0
  BY DEF Init
<1>3. PICK a, c, x \in Nat : a = Cardinality(WithPcb) /\ c = Cardinality(WithListen) /\ x = MaxConns
  BY <1>1, ConstantFacts
<1>4. /\ \A p \in Pcb : gen[p] <= x + a
      /\ \A l \in ListenPcb : gen[l] <= c
  BY <1>2 DEF AnyPcb
<1> QED
  BY <1>3, <1>4, GenBoundIs

\* How often a pcb was allocated is bounded by the sockets and the connections
\* that came in.
THEOREM GenInv == Spec => []GenBound
<1>1. Shape /\ Shape' /\ Holding /\ GenBound /\ [Next]_vars => GenBound'
  <2> SUFFICES ASSUME Shape, Shape', Holding, GenBound, [Next]_vars PROVE GenBound'
    OBVIOUS
  <2>1. CASE Next
    BY <2>1, NextSteps, GenStep
  <2>2. CASE UNCHANGED vars
    BY <2>2, GenSame DEF vars, lwipVars, sockVars
  <2> QED
    BY <2>1, <2>2
<1> QED
  BY <1>1, InitGenBound, Shapes, HoldersInv, ShapeStep, PTL DEF Spec

(***************************************************************************)
(* Sums of lengths                                                         *)
(***************************************************************************)

\* Queue r is q with one more segment.
Longer(r, q, n) ==
  /\ n \in Nat /\ Len(q) = n /\ Len(r) = n + 1
  /\ \A i \in 1..n : q[i].len \in Nat /\ r[i].len = q[i].len
  /\ r[n + 1].len \in Nat

\* A queue that is longer by one has the same sums, and one more.
LEMMA SumsAppend ==
  ASSUME NEW q, NEW r, NEW n, Longer(r, q, n)
  PROVE  /\ \A i \in 0..n : UpTo(r)[i] = UpTo(q)[i]
         /\ UpTo(r)[n + 1] = UpTo(q)[n] + r[n + 1].len
<1>0. /\ n \in Nat /\ Len(q) = n /\ Len(r) = n + 1
      /\ \A i \in 1..n : q[i].len \in Nat /\ r[i].len = q[i].len
      /\ r[n + 1].len \in Nat
  BY DEF Longer
<1> USE <1>0
<1>1. PICK f, g : f = UpTo(r) /\ g = UpTo(q)
  OBVIOUS
<1>2. g \in [0..n -> Nat] /\ g[0] = 0 /\ \A i \in 1..n : g[i] = g[i - 1] + q[i].len
  BY <1>1, UpToIs
<1>3. \A i \in 1..(n + 1) : r[i].len \in Nat
  <2>1. \A i \in 1..(n + 1) : i \in 1..n \/ i = n + 1
    OBVIOUS
  <2> QED
    BY <2>1
<1>4. f \in [0..(n + 1) -> Nat] /\ f[0] = 0 /\ \A i \in 1..(n + 1) : f[i] = f[i - 1] + r[i].len
  <2>1. Len(r) \in Nat /\ \A i \in 1..Len(r) : r[i].len \in Nat
    BY <1>3
  <2> QED
    BY <1>1, <2>1, UpToIs
<1>5. ASSUME n >= 1 PROVE \A i \in 1..n : f[i] = g[i]
  <2>1. PICK k \in Nat : k = 0
    OBVIOUS
  <2>2. AlikeFrom(f, g, r, q, k, n)
    <3>1. \A i \in 1..n : f[i] \in Int /\ g[k + i] \in Int
      BY <1>2, <1>4, <2>1
    <3>2. ASSUME NEW i \in 2..n
          PROVE  /\ f[i] = f[i - 1] + r[i].len /\ g[k + i] = g[k + i - 1] + q[k + i].len
                 /\ r[i].len = q[k + i].len /\ r[i].len \in Int
      <4>1. k + i = i /\ k + i - 1 = i - 1 /\ i \in 1..n /\ i \in 1..(n + 1)
        BY <2>1
      <4>2. g[i] = g[i - 1] + q[i].len /\ f[i] = f[i - 1] + r[i].len
        BY <1>2, <1>4, <4>1
      <4>3. r[i].len = q[i].len /\ r[i].len \in Int
        BY <4>1
      <4> QED
        BY <4>1, <4>2, <4>3
    <3> QED
      BY <3>1, <3>2 DEF AlikeFrom
  <2>3. \A i \in 1..n : f[i] - f[1] = g[k + i] - g[k + 1]
    <3>1. PICK e : e = n
      OBVIOUS
    <3>2. k \in Nat /\ e \in Nat /\ e >= 1 /\ AlikeFrom(f, g, r, q, k, e)
      BY <1>5, <2>1, <2>2, <3>1
    <3>3. \A i \in 1..e : f[i] - f[1] = g[k + i] - g[k + 1]
      BY <3>2, SumsShift
    <3> QED
      BY <3>1, <3>3
  <2>4. f[1] = g[1]
    <3>1. 1 \in 1..n /\ 1 \in 1..(n + 1) /\ 1 - 1 = 0
      BY <1>5
    <3> QED
      BY <1>2, <1>4, <3>1
  <2>5. ASSUME NEW i \in 1..n PROVE f[i] = g[i]
    <3>1. k + i = i /\ k + 1 = 1
      BY <2>1
    <3>2. f[i] - f[1] = g[i] - g[1]
      BY <2>3, <3>1
    <3>3. f[i] \in Nat /\ g[i] \in Nat /\ f[1] \in Nat
      BY <1>2, <1>4, <1>5
    <3> QED
      BY <2>4, <3>2, <3>3
  <2> QED
    BY <2>5
<1>6. \A i \in 0..n : f[i] = g[i]
  <2>1. \A i \in 0..n : i = 0 \/ (n >= 1 /\ i \in 1..n)
    OBVIOUS
  <2> QED
    BY <1>2, <1>4, <1>5, <2>1
<1>7. f[n + 1] = g[n] + r[n + 1].len
  <2>1. n + 1 \in 1..(n + 1) /\ n + 1 - 1 = n /\ n \in 0..n
    OBVIOUS
  <2> QED
    BY <1>4, <1>6, <2>1
<1> QED
  BY <1>1, <1>6, <1>7

\* Integers.
LEMMA Shifted == \A a, b, x, y, d \in Nat : a - b = x - y /\ b + d = y => a + d = x
OBVIOUS

\* The first segment is gone or is d bytes shorter.
\* Queue r is q without its first k segments, or with its first segment cut
\* by d.
CutBy(r, q, k, m, d) ==
  /\ k \in {0, 1} /\ m \in Nat /\ d \in Nat /\ Len(r) = m /\ Len(q) = m + k /\ m + k >= 1
  /\ \A i \in 1..(m + k) : q[i].len \in Nat
  /\ \A i \in 1..m : r[i].len \in Nat
  /\ \A i \in 2..m : r[i].len = q[k + i].len
  /\ k = 1 => d = q[1].len /\ (m >= 1 => r[1].len = q[2].len)
  /\ k = 0 => r[1].len + d = q[1].len

\* A queue that is cut at its front has the same sums, but for what is cut.
LEMMA SumsFrom ==
  ASSUME NEW q, NEW r, NEW k, NEW m, NEW d, CutBy(r, q, k, m, d)
  PROVE  /\ \A i \in 1..m : UpTo(r)[i] + d = UpTo(q)[k + i]
         /\ UpTo(r)[m] + d = UpTo(q)[k + m]
<1>0. /\ k \in {0, 1} /\ m \in Nat /\ d \in Nat /\ Len(r) = m /\ Len(q) = m + k /\ m + k >= 1
      /\ \A i \in 1..(m + k) : q[i].len \in Nat
      /\ \A i \in 1..m : r[i].len \in Nat
      /\ \A i \in 2..m : r[i].len = q[k + i].len
      /\ k = 1 => d = q[1].len /\ (m >= 1 => r[1].len = q[2].len)
      /\ k = 0 => r[1].len + d = q[1].len
  BY DEF CutBy
<1> USE <1>0
<1>1. PICK f, g : f = UpTo(r) /\ g = UpTo(q)
  OBVIOUS
<1>2. g \in [0..(m + k) -> Nat] /\ g[0] = 0 /\ \A i \in 1..(m + k) : g[i] = g[i - 1] + q[i].len
  <2>1. m + k \in Nat
    OBVIOUS
  <2> QED
    BY <1>1, <2>1, UpToIs
<1>3. f \in [0..m -> Nat] /\ f[0] = 0 /\ \A i \in 1..m : f[i] = f[i - 1] + r[i].len
  BY <1>1, UpToIs
<1>4. k = 1 => g[1] = d
  <2>1. k = 1 => 1 \in 1..(m + k) /\ 1 - 1 = 0
    OBVIOUS
  <2> QED
    BY <1>2, <2>1
<1>5. ASSUME m >= 1 PROVE f[1] + d = g[k + 1]
  <2>1. f[1] = r[1].len /\ r[1].len \in Nat
    <3>1. 1 \in 1..m /\ 1 - 1 = 0
      BY <1>5
    <3> QED
      BY <1>3, <3>1
  <2>2. CASE k = 1
    <3>1. 2 \in 1..(m + k) /\ 2 - 1 = 1 /\ k + 1 = 2
      BY <1>5, <2>2
    <3>2. g[2] = g[1] + q[2].len
      BY <1>2, <3>1
    <3> QED
      BY <1>4, <1>5, <2>1, <2>2, <3>1, <3>2
  <2>3. CASE k = 0
    <3>1. 1 \in 1..(m + k) /\ 1 - 1 = 0 /\ k + 1 = 1
      BY <1>5, <2>3
    <3>2. g[1] = q[1].len
      BY <1>2, <3>1
    <3> QED
      BY <2>1, <2>3, <3>1, <3>2
  <2> QED
    BY <2>2, <2>3
<1>6. ASSUME m >= 1, NEW i \in 1..m PROVE f[i] + d = g[k + i]
  <2>1. AlikeFrom(f, g, r, q, k, m)
    <3>1. \A j \in 1..m : f[j] \in Int /\ g[k + j] \in Int
      <4> SUFFICES ASSUME NEW j \in 1..m PROVE f[j] \in Int /\ g[k + j] \in Int
        OBVIOUS
      <4>1. PICK h \in 0..(m + k) : h = k + j
        <5>1. k + j \in 0..(m + k)
          OBVIOUS
        <5> QED
          BY <5>1
      <4>2. j \in 0..m
        OBVIOUS
      <4> HIDE <1>0
      <4>3. f[j] \in Nat
        BY <1>3, <4>2
      <4>4. g[h] \in Nat
        BY <1>2
      <4> QED
        BY <4>1, <4>3, <4>4
    <3>2. ASSUME NEW j \in 2..m
          PROVE  /\ f[j] = f[j - 1] + r[j].len /\ g[k + j] = g[k + j - 1] + q[k + j].len
                 /\ r[j].len = q[k + j].len /\ r[j].len \in Int
      <4>1. j \in 1..m /\ k + j \in 1..(m + k)
        OBVIOUS
      <4>2. f[j] = f[j - 1] + r[j].len /\ r[j].len \in Int
        <5>1. \A h \in 1..m : r[h].len \in Nat
          BY <1>0
        <5> HIDE <1>0
        <5> QED
          BY <1>3, <4>1, <5>1
      <4>3. g[k + j] = g[k + j - 1] + q[k + j].len
        <5>1. PICK h \in 1..(m + k) : h = k + j /\ h - 1 = k + j - 1
          BY <4>1
        <5> HIDE <1>0
        <5>2. g[h] = g[h - 1] + q[h].len
          BY <1>2
        <5> QED
          BY <5>1, <5>2
      <4> QED
        BY <4>2, <4>3
    <3> QED
      BY <3>1, <3>2 DEF AlikeFrom
  <2>2. f[i] - f[1] = g[k + i] - g[k + 1]
    <3>1. PICK e, z : e = m /\ z = k
      OBVIOUS
    <3>2. z \in Nat /\ e \in Nat /\ e >= 1 /\ AlikeFrom(f, g, r, q, z, e)
      BY <1>6, <2>1, <3>1
    <3>3. \A j \in 1..e : f[j] - f[1] = g[z + j] - g[z + 1]
      BY <3>2, SumsShift
    <3> QED
      BY <1>6, <3>1, <3>3
  <2>3. f[i] \in Nat /\ f[1] \in Nat /\ g[k + i] \in Nat /\ g[k + 1] \in Nat
    <3>1. i \in 0..m /\ 1 \in 0..m /\ k + i \in 0..(m + k) /\ k + 1 \in 0..(m + k)
      BY <1>6
    <3> QED
      BY <1>2, <1>3, <3>1
  <2>4. PICK a, b, x, y \in Nat : a = f[i] /\ b = f[1] /\ x = g[k + i] /\ y = g[k + 1]
    BY <2>3
  <2>5. a - b = x - y /\ b + d = y
    BY <1>5, <1>6, <2>2, <2>4
  <2>6. a + d = x
    <3>1. a \in Nat /\ b \in Nat /\ x \in Nat /\ y \in Nat /\ d \in Nat
      BY <2>4
    <3> QED
      BY <2>5, <3>1, Shifted
  <2> QED
    BY <2>4, <2>6
<1>7. f[m] + d = g[k + m]
  <2>1. CASE m = 0
    <3>1. k = 1 /\ k + m = 1
      BY <2>1
    <3> QED
      BY <1>3, <1>4, <2>1, <3>1
  <2>2. CASE m # 0
    <3>1. m >= 1 /\ m \in 1..m
      BY <2>2
    <3> QED
      BY <1>6, <3>1
  <2> QED
    BY <2>1, <2>2
<1>8. \A i \in 1..m : f[i] + d = g[k + i]
  <2>1. \A i \in 1..m : m >= 1
    OBVIOUS
  <2> QED
    BY <1>6, <2>1
<1> QED
  BY <1>1, <1>7, <1>8

\* Segment x is appended to queue u.
Extends(v, u, x) == u \in Seq(Segm) /\ x \in Segm /\ v = Append(u, x)

\* A queue with a segment more.
LEMMA SegmentAppended ==
  ASSUME NEW u, NEW x, NEW v, Extends(v, u, x)
  PROVE  /\ v \in Seq(Segm) /\ Len(u) \in Nat /\ Len(v) = Len(u) + 1
         /\ \A i \in 1..Len(u) : v[i] = u[i]
         /\ v[Len(u) + 1] = x
         /\ \A i \in 0..Len(u) : UpTo(v)[i] = UpTo(u)[i]
         /\ UpTo(v)[Len(v)] = UpTo(u)[Len(u)] + x.len
<1>1. /\ v \in Seq(Segm) /\ Len(u) \in Nat /\ Len(v) = Len(u) + 1
      /\ \A i \in 1..Len(u) : v[i] = u[i]
      /\ v[Len(u) + 1] = x
  <2>1. u \in Seq(Segm) /\ x \in Segm /\ v = Append(u, x)
    BY DEF Extends
  <2> QED
    BY <2>1, Appended
<1>2. PICK n \in Nat : n = Len(u)
  BY <1>1
<1>3. \A i \in 1..n : u[i].len \in Nat /\ v[i].len = u[i].len
  <2>1. u \in Seq(Segm)
    BY DEF Extends
  <2> QED
    BY <1>1, <1>2, <2>1, Segments
<1>4. v[n + 1].len \in Nat
  BY <1>1, <1>2 DEF Segm, Extends
<1>5. /\ \A i \in 0..n : UpTo(v)[i] = UpTo(u)[i]
      /\ UpTo(v)[n + 1] = UpTo(u)[n] + v[n + 1].len
  <2>1. Longer(v, u, n)
    BY <1>1, <1>2, <1>3, <1>4 DEF Longer
  <2> QED
    BY <2>1, SumsAppend
<1> QED
  BY <1>1, <1>2, <1>5

\* The bytes lwIP holds fit the send buffer, and the write_queue its capacity.
Buffers ==
  /\ \A p \in Pcb : UpTo(unacked[p])[Len(unacked[p])] <= SndBuf
  /\ \A s \in Socket : Len(writeQueue[s]) <= WriteQueueCap

\* The bytes lwIP holds for a connection.
LEMMA HeldNat ==
  ASSUME Shape, NEW p \in Pcb
  PROVE  /\ UpTo(unacked[p])[Len(unacked[p])] \in Nat
         /\ unacked[p] = <<>> => UpTo(unacked[p])[Len(unacked[p])] = 0
<1>1. PICK u \in Seq(Segm) : u = unacked[p]
  BY DEF Shape
<1>2. UpTo(u)[Len(u)] \in Nat
  <2>1. Len(u) \in Nat /\ UpTo(u) \in [0..Len(u) -> Nat]
    BY Segments
  <2> QED
    BY <2>1
<1>3. u = <<>> => UpTo(u)[Len(u)] = 0
  BY Segments
<1> QED
  BY <1>1, <1>2, <1>3

\* Buffers stays where no queue grows.
LEMMA BuffersSame ==
  ASSUME Shape, Buffers, \A p \in Pcb : unacked'[p] = unacked[p] \/ UpTo(unacked'[p])[Len(unacked'[p])] <= SndBuf,
         \A s \in Socket : writeQueue'[s] = writeQueue[s] \/ Len(writeQueue'[s]) <= WriteQueueCap
  PROVE  Buffers'
<1>1. ASSUME NEW p \in Pcb PROVE UpTo(unacked'[p])[Len(unacked'[p])] <= SndBuf
  BY DEF Buffers
<1>2. ASSUME NEW s \in Socket PROVE Len(writeQueue'[s]) <= WriteQueueCap
  BY DEF Buffers
<1> QED
  BY <1>1, <1>2 DEF Buffers

\* A write finds room in the send buffer and in the write_queue.
LEMMA BuffersWrite ==
  ASSUME Shape, Buffers, NEW s \in Socket, Write(s)
  PROVE  Buffers'
<1>1. ops[s] # <<>>
  BY PerformingIs DEF Write
<1>2. CASE UNCHANGED <<unacked, writeQueue>>
  BY <1>2, BuffersSame
<1>3. CASE /\ Len(writeQueue[s]) # WriteQueueCap /\ CanSend(pcb[s])
           /\ Room(pcb[s], Length(Op(s).size))
           /\ TcpWrite(pcb[s], Entry(s).block, Length(Op(s).size))
           /\ Append1(writeQueue', writeQueue, s, Entry(s)) /\ AsyncWith(s)
  <2>1. PICK p \in Pcb : p = pcb[s]
    <3>1. pcb[s] \in AnyPcb /\ state[pcb[s]] \in {"connecting", "open"}
      BY <1>3, PerformingIs DEF Write, CanSend
    <3> QED
      BY <3>1 DEF Shape, AnyPcb
  <2>2. /\ unacked' \in [Pcb -> Seq(Segm)] /\ \A q \in Pcb : q # p => unacked'[q] = unacked[q]
        /\ \/ Length(Op(s).size) = 0 /\ unacked' = unacked
           \/ \E x \in Segm : /\ x.block = Entry(s).block /\ x.len = Length(Op(s).size)
                              /\ unacked'[p] = Append(unacked[p], x)
    BY <1>1, <1>3, <2>1, TcpWriteIs
  <2>3. ASSUME NEW x \in Segm, x.len = Length(Op(s).size), unacked'[p] = Append(unacked[p], x)
        PROVE  UpTo(unacked'[p])[Len(unacked'[p])] <= SndBuf
    <3>1. PICK u, v : u = unacked[p] /\ v = unacked'[p]
      OBVIOUS
    <3>2. UpTo(v)[Len(v)] = UpTo(u)[Len(u)] + x.len
      <4>1. Extends(v, u, x)
        BY <2>3, <3>1 DEF Shape, Extends
      <4> QED
        BY <4>1, SegmentAppended
    <3>3. x.len <= SndBuf - UpTo(u)[Len(u)]
      BY <1>3, <2>1, <2>3, <3>1 DEF Room, Held
    <3>4. PICK a, b, c \in Nat : a = UpTo(u)[Len(u)] /\ b = x.len /\ c = SndBuf
      BY <3>1, HeldNat, ConstantFacts DEF Segm
    <3>5. a + b <= c
      BY <3>3, <3>4
    <3> QED
      BY <3>1, <3>2, <3>4, <3>5
  <2>4. Len(writeQueue'[s]) <= WriteQueueCap /\ \A t \in Socket : t # s => writeQueue'[t] = writeQueue[t]
    <3>1. writeQueue \in [Socket -> Seq(WEntry)] /\ Entry(s) \in WEntry
      BY <1>1, EntryIs DEF Shape
    <3>2. Gains(writeQueue', writeQueue, s, Entry(s))
      BY <1>3, <3>1, GainsIs
    <3>3. PICK n, c \in Nat : n = Len(writeQueue[s]) /\ c = WriteQueueCap
      BY <3>2, ConstantFacts DEF Gains
    <3>4. n <= c /\ n # c /\ Len(writeQueue'[s]) = n + 1
      BY <1>3, <3>2, <3>3 DEF Buffers, Gains
    <3> QED
      BY <3>2, <3>3, <3>4 DEF Gains
  <2>5. \A q \in Pcb : unacked'[q] = unacked[q] \/ UpTo(unacked'[q])[Len(unacked'[q])] <= SndBuf
    BY <2>2, <2>3
  <2>6. \A t \in Socket : writeQueue'[t] = writeQueue[t] \/ Len(writeQueue'[t]) <= WriteQueueCap
    BY <2>4
  <2> QED
    BY <2>5, <2>6, BuffersSame
<1> QED
  BY <1>2, <1>3, WriteIs

\* tcp_sent_callback does not lengthen the write_queue.
LEMMA BuffersSent ==
  ASSUME Shape, Buffers, Sent
  PROVE  Buffers'
<1>1. unacked' = unacked
  BY SentIs DEF lwipVars
<1>2. ASSUME NEW s \in Socket, writeQueue[s] # <<>>, Tail1(writeQueue', writeQueue, s) PROVE Buffers'
  <2>1. Loses(writeQueue', writeQueue, s)
    BY <1>2, LosesIs DEF Shape
  <2>2. PICK n, c \in Nat : n = Len(writeQueue[s]) /\ c = WriteQueueCap
    BY <2>1, ConstantFacts DEF Loses
  <2>3. n <= c /\ Len(writeQueue'[s]) = n - 1
    BY <2>1, <2>2 DEF Buffers, Loses
  <2>4. \A t \in Socket : writeQueue'[t] = writeQueue[t] \/ Len(writeQueue'[t]) <= WriteQueueCap
    BY <2>1, <2>2, <2>3 DEF Loses
  <2> QED
    BY <1>1, <2>4, BuffersSame
<1>3. ASSUME NEW s \in Socket, NEW e \in WEntry, writeQueue[s] # <<>>, e = writeQueue[s][1], ~(e.size <= main.len),
             Shrink1(writeQueue', writeQueue, s, main.len) PROVE Buffers'
  <2>1. main.len \in Nat /\ e.size \in Nat /\ writeQueue[s][1].size >= main.len
    BY <1>3, SentIs DEF WEntry
  <2>2. PICK d \in WEntry : Replaces(writeQueue', writeQueue, s, d)
    BY <1>3, <2>1, ShrinkIs DEF Shape
  <2>3. \A t \in Socket : writeQueue'[t] = writeQueue[t] \/ Len(writeQueue'[t]) <= WriteQueueCap
    BY <2>2 DEF Replaces, Buffers
  <2> QED
    BY <1>1, <2>3, BuffersSame
<1>4. CASE writeQueue' = writeQueue
  BY <1>1, <1>4, BuffersSame
<1> QED
  BY <1>2, <1>3, <1>4, SentIs

\* Steps that leave the segments and the write_queues alone.
DataSame == unacked' = unacked /\ writeQueue' = writeQueue

\* Most steps are such.
LEMMA DataSameSteps ==
  ASSUME Shape
  PROVE  /\ Create => DataSame
         /\ SetPcb => DataSame
         /\ \A s \in Socket, k \in AllKinds, n \in Nat : Submit(s, k, n) => DataSame
         /\ \A s \in Socket : Dequeue(s) => DataSame
         /\ \A s \in Socket : Map(s) => DataSame
         /\ \A s \in Socket : NewPcb(s) => DataSame
         /\ \A s \in Socket : Stale(s) => DataSame
         /\ \A s \in Socket : Bind(s) => DataSame
         /\ \A s \in Socket : Connect(s) => DataSame
         /\ \A s \in Socket : Listen(s) => DataSame
         /\ \A s \in Socket : Accept(s) => DataSame
         /\ \A p \in Pcb : SynAck(p) => DataSame
         /\ \A l \in ListenPcb : Incoming(l) => DataSame
         /\ \A l \in ListenPcb : IncomingNoMem(l) => DataSame
<1>1. Create \/ SetPcb => DataSame
  BY DEF Create, SetPcb, lwipVars, DataSame
<1>2. \A s \in Socket, k \in AllKinds, n \in Nat : Submit(s, k, n) => DataSame
  BY DEF Submit, lwipVars, sockVars, DataSame
<1>3. \A s \in Socket : Dequeue(s) => DataSame
  BY DEF Dequeue, lwipVars, DataSame
<1>4. \A s \in Socket : Map(s) \/ NewPcb(s) \/ Stale(s) => DataSame
  BY DEF Map, NewPcb, Stale, lwipVars, sockVars, DataSame
<1>5. \A s \in Socket : Bind(s) \/ Connect(s) \/ Listen(s) \/ Accept(s) => DataSame
  BY DEF Bind, Connect, Listen, Accept, lwipVars, sockVars, DataSame
<1>6. \A p \in Pcb : SynAck(p) => DataSame
  BY DEF SynAck, sockVars, DataSame
<1>7. \A l \in ListenPcb : Incoming(l) \/ IncomingNoMem(l) => DataSame
  BY DEF Incoming, IncomingNoMem, lwipVars, sockVars, DataSame
<1> QED
  BY <1>1, <1>2, <1>3, <1>4, <1>5, <1>6, <1>7

\* What an acknowledgement of n bytes leaves.
LEMMA AckIs ==
  ASSUME Shape, NEW p \in Pcb, NEW n \in 1..Held(p), Ack(p, n)
  PROVE  /\ halt = Running /\ main = Idle /\ state[p] \in {"open", "closing"}
         /\ main' = [at |-> "sent", who |-> p, len |-> n]
         /\ UNCHANGED <<state, arg, accepting, gen, ended, sockVars, appVars, resVars, halt>>
         /\ \A q \in Pcb : q # p => unacked'[q] = unacked[q]
         /\ \E k : Leaves(unacked'[p], unacked[p], n, k)
<1>1. unacked \in [Pcb -> Seq(Segm)]
  BY DEF Shape
<1>2. \E k : Leaves(Acked(p, n), unacked[p], n, k)
  BY <1>1, AckedIs
<1>3. PICK a : a = Acked(p, n)
  OBVIOUS
<1>4. unacked' = [unacked EXCEPT ![p] = a]
  BY <1>3 DEF Ack
<1>5. unacked'[p] = a /\ \A q \in Pcb : q # p => unacked'[q] = unacked[q]
  BY <1>1, <1>4
<1> QED
  BY <1>2, <1>3, <1>5 DEF Ack, Event

\* The pcb that a close, a reset or the end of a connection removes.
Removes(p) ==
  /\ state' = [state EXCEPT ![p] = "free"] /\ unacked' \in [Pcb -> Seq(Segm)]
  /\ \A q \in Pcb : unacked'[q] = IF q = p THEN <<>> ELSE unacked[q]

\* The three steps that remove a pcb.
LEMMA Removed ==
  ASSUME Shape
  PROVE  /\ \A s \in Socket : Close(s) =>
              \/ /\ state[pcb[s]] \in {"open", "closing"} /\ unacked' = unacked
                 /\ state' = [state EXCEPT ![pcb[s]] = "closing"]
              \/ state[pcb[s]] # "closing" /\ Removes(pcb[s])
         /\ \A p \in Pcb : Reset(p) => Removes(p) /\ state[p] \in {"connecting", "open", "closing"}
         /\ \A p \in Pcb : Gone(p) => Removes(p) /\ state[p] = "closing" /\ unacked[p] = <<>>
<1>1. \A p \in AnyPcb : TcpPcbRemove(p) => Removes(p)
  BY RemoveIs DEF Removes
<1>2. ASSUME NEW s \in Socket, Close(s)
      PROVE  \/ /\ state[pcb[s]] \in {"open", "closing"} /\ unacked' = unacked
                /\ state' = [state EXCEPT ![pcb[s]] = "closing"]
             \/ state[pcb[s]] # "closing" /\ Removes(pcb[s])
  <2>1. pcb[s] \in AnyPcb
    BY <1>2, PerformingIs DEF Close
  <2> QED
    BY <1>1, <1>2, <2>1 DEF Close, TcpClose
<1>3. \A p \in Pcb : p \in AnyPcb
  BY DEF AnyPcb
<1> QED
  BY <1>1, <1>2, <1>3 DEF Reset, Gone

\* Every step keeps Buffers.
LEMMA BuffersStep ==
  ASSUME Shape, Shape', Buffers, Steps
  PROVE  Buffers'
<1>1. ASSUME DataSame PROVE Buffers'
  BY <1>1, BuffersSame DEF DataSame
<1>2. ASSUME NEW p, Removes(p), writeQueue' = writeQueue PROVE Buffers'
  <2>1. ASSUME NEW q \in Pcb PROVE unacked'[q] = unacked[q] \/ UpTo(unacked'[q])[Len(unacked'[q])] <= SndBuf
    <3>1. CASE unacked'[q] = <<>>
      <4>1. PICK u : u = unacked'[q]
        OBVIOUS
      <4>2. u \in Seq(Segm) /\ u = <<>> /\ Len(u) = 0
        BY <1>2, <3>1, <4>1 DEF Removes
      <4>3. UpTo(u)[Len(u)] = 0
        BY <4>2, Segments
      <4> QED
        BY <4>1, <4>3, ConstantFacts
    <3> QED
      BY <1>2, <3>1 DEF Removes
  <2> QED
    BY <1>2, <2>1, BuffersSame
<1>3. ASSUME NEW s \in Socket, Close(s) PROVE Buffers'
  <2>1. writeQueue' = writeQueue
    BY <1>3 DEF Close, sockVars
  <2> QED
    BY <1>1, <1>2, <1>3, <2>1, Removed DEF DataSame
<1>4. ASSUME NEW p \in Pcb, Reset(p) \/ Gone(p) PROVE Buffers'
  <2>1. writeQueue' = writeQueue
    BY <1>4 DEF Reset, Gone, sockVars
  <2> QED
    BY <1>2, <1>4, <2>1, Removed
<1>5. ASSUME NEW p \in Pcb, NEW n \in 1..Held(p), Ack(p, n) PROVE Buffers'
  <2>1. writeQueue' = writeQueue /\ \A q \in Pcb : q # p => unacked'[q] = unacked[q]
    BY <1>5, AckIs DEF sockVars
  <2>2. UpTo(unacked'[p])[Len(unacked'[p])] <= SndBuf
    <3>1. PICK a, b : a = UpTo(unacked'[p])[Len(unacked'[p])] /\ b = UpTo(unacked[p])[Len(unacked[p])]
      OBVIOUS
    <3>2. a + n = b
      BY <1>5, <3>1, AckIs DEF Leaves
    <3>3. b <= SndBuf /\ b \in Nat /\ SndBuf \in Nat
      BY <3>1, HeldNat, ConstantFacts DEF Buffers
    <3>4. a \in Nat
      <4>1. PICK v \in Seq(Segm) : v = unacked'[p]
        BY DEF Shape
      <4>2. Len(v) \in Nat /\ UpTo(v) \in [0..Len(v) -> Nat]
        BY Segments
      <4> QED
        BY <3>1, <4>1, <4>2
    <3>5. n \in Int /\ n >= 1
      BY <3>1, <3>3 DEF Held
    <3>6. PICK x, y, z \in Nat : x = a /\ y = b /\ z = SndBuf
      BY <3>3, <3>4
    <3>7. x <= z
      BY <3>2, <3>3, <3>5, <3>6
    <3> QED
      BY <3>1, <3>6, <3>7
  <2> QED
    BY <2>1, <2>2, BuffersSame
<1>6. ASSUME NEW s \in Socket, Write(s) PROVE Buffers'
  BY <1>6, BuffersWrite
<1> QED
  BY <1>1, <1>3, <1>4, <1>5, <1>6, BuffersSent, DataSameSteps DEF Steps

\* Buffers holds at first.
LEMMA InitBuffers == Init => Buffers
<1> SUFFICES ASSUME Init PROVE Buffers
  OBVIOUS
<1>1. ASSUME NEW p \in Pcb PROVE UpTo(unacked[p])[Len(unacked[p])] <= SndBuf
  <2>1. Shape /\ unacked[p] = <<>>
    BY InitShape DEF Init
  <2> QED
    BY <2>1, HeldNat, ConstantFacts
<1>2. \A s \in Socket : Len(writeQueue[s]) <= WriteQueueCap
  BY ConstantFacts DEF Init
<1> QED
  BY <1>1, <1>2 DEF Buffers

\* The bytes lwIP holds for a connection fit TCP_SND_BUF, and no write_queue is
\* longer than its capacity.
THEOREM BuffersInv == Spec => []Buffers
<1>1. Shape /\ Shape' /\ Buffers /\ [Next]_vars => Buffers'
  <2> SUFFICES ASSUME Shape, Shape', Buffers, [Next]_vars PROVE Buffers'
    OBVIOUS
  <2>1. CASE Next
    BY <2>1, NextSteps, BuffersStep
  <2>2. CASE UNCHANGED vars
    BY <2>2, BuffersSame DEF vars, lwipVars, sockVars
  <2> QED
    BY <2>1, <2>2
<1> QED
  BY <1>1, InitBuffers, Shapes, ShapeStep, PTL DEF Spec

(***************************************************************************)
(* One claim                                                               *)
(***************************************************************************)

\* The claims to a pcb are its holders.
LEMMA ClaimsAre ==
  ASSUME Shape, NEW p, NEW x
  PROVE  x \in Claims(p) <=>
           \/ \E s \in Socket : x = s /\ SockHolds(s, p)
           \/ x = making /\ MakeHolds(p)
           \/ \E s \in Socket : \E i \in 1..Len(cqueue[s]) : x = <<s, i>> /\ ResHolds(s, i, p)
<1> DEFINE A == {s \in Socket : pcb[s] = p /\ own[s] = gen[p]}
           B == {t \in {making} : t.pcb = p /\ t.gen = gen[p]}
           J(s) == {j \in DOMAIN cqueue[s] : cqueue[s][j].pcb = p /\ cqueue[s][j].gen = gen[p]}
           C(s) == {<<s, i>> : i \in J(s)}
           D == UNION {C(s) : s \in Socket}
<1>1. Claims(p) = A \union B \union D
  BY DEF Claims
<1>2. x \in A <=> \E s \in Socket : x = s /\ SockHolds(s, p)
  BY DEF SockHolds
<1>3. x \in B <=> x = making /\ MakeHolds(p)
  BY DEF MakeHolds
<1>4. x \in D <=> \E s \in Socket : x \in C(s)
  OBVIOUS
<1>5. \A s \in Socket : x \in C(s) <=> \E i \in J(s) : x = <<s, i>>
  OBVIOUS
<1>6. ASSUME NEW s \in Socket PROVE \A i : i \in J(s) <=> i \in 1..Len(cqueue[s]) /\ ResHolds(s, i, p)
  <2>1. DOMAIN cqueue[s] = 1..Len(cqueue[s])
    <3>1. cqueue[s] \in Seq(ResRec)
      BY DEF Shape
    <3> QED
      BY <3>1, LenProperties
  <2> QED
    BY <2>1 DEF ResHolds
<1> HIDE DEF A, B, C, D, J
<1> QED
  BY <1>1, <1>2, <1>3, <1>4, <1>5, <1>6

\* One holder is one claim.
LEMMA ClaimedOnce ==
  ASSUME Shape, NEW p, Held1(p), OneSock(p), OneRes(p)
  PROVE  Cardinality(Claims(p)) = 1
<1>1. ASSUME NEW c, c \in Claims(p), \A x \in Claims(p) : x = c PROVE Cardinality(Claims(p)) = 1
  <2>1. Claims(p) = {c}
    BY <1>1
  <2> QED
    BY <2>1, FS_Singleton
<1>2. ASSUME NEW s \in Socket, SockHolds(s, p) PROVE Cardinality(Claims(p)) = 1
  <2>1. s \in Claims(p)
    BY <1>2, ClaimsAre
  <2>2. ASSUME NEW x \in Claims(p) PROVE x = s
    <3>1. ~MakeHolds(p) /\ \A t \in Socket : \A i \in 1..Len(cqueue[t]) : ~ResHolds(t, i, p)
      BY <1>2 DEF OneSock
    <3>2. \A t \in Socket : SockHolds(t, p) => t = s
      BY <1>2 DEF OneSock
    <3> QED
      BY <3>1, <3>2, ClaimsAre
  <2> QED
    BY <1>1, <2>1, <2>2
<1>3. ASSUME MakeHolds(p) PROVE Cardinality(Claims(p)) = 1
  <2>1. making \in Claims(p)
    BY <1>3, ClaimsAre
  <2>2. ASSUME NEW x \in Claims(p) PROVE x = making
    <3>1. /\ \A s \in Socket : ~SockHolds(s, p)
          /\ \A t \in Socket : \A i \in 1..Len(cqueue[t]) : ~ResHolds(t, i, p)
      BY <1>3 DEF OneSock, OneRes
    <3> QED
      BY <3>1, ClaimsAre
  <2> QED
    BY <1>1, <2>1, <2>2
<1>4. ASSUME NEW s \in Socket, NEW i \in 1..Len(cqueue[s]), ResHolds(s, i, p) PROVE Cardinality(Claims(p)) = 1
  <2>1. <<s, i>> \in Claims(p)
    BY <1>4, ClaimsAre
  <2>2. ASSUME NEW x \in Claims(p) PROVE x = <<s, i>>
    <3>1. ~MakeHolds(p) /\ \A t \in Socket : ~SockHolds(t, p)
      BY <1>4 DEF OneSock, OneRes
    <3>2. \A t \in Socket : \A j \in 1..Len(cqueue[t]) : ResHolds(t, j, p) => s = t /\ i = j
      BY <1>4 DEF OneRes
    <3> QED
      BY <3>1, <3>2, ClaimsAre
  <2> QED
    BY <1>1, <2>1, <2>2
<1> QED
  BY <1>2, <1>3, <1>4 DEF Held1

\* A socket that had a write refused still has it at the front.
Retried == \A s \in refused : s \in Socket /\ ops[s] # <<>> /\ Op(s).kind = "write"

\* A step that refuses no write, and leaves those that were refused in place.
LEMMA RetriedKept ==
  ASSUME Retried, refused' \subseteq refused, \A t \in refused' : ops'[t] = ops[t]
  PROVE  Retried'
BY DEF Retried, Op

\* An operation of another kind is not performed while a write is refused.
LEMMA RetriedPerformed ==
  ASSUME Shape, Retried, NEW s \in Socket, NEW kind, kind # "write", Performing(s, kind),
         refused' = refused, (\E ok \in BOOLEAN : Finish(s, ok)) \/ Async(s)
  PROVE  Retried'
<1>1. ops[s] # <<>> /\ s \notin refused
  BY PerformingIs DEF Retried
<1>2. Done(s)
  BY DEF Finish, Async
<1>3. Loses(ops', ops, s)
  BY <1>1, <1>2, DoneIs
<1>4. \A t \in refused : ops'[t] = ops[t]
  BY <1>1, <1>3 DEF Loses, Retried
<1> QED
  BY <1>4, RetriedKept

\* Every step keeps the refused writes at the front.
LEMMA RetriedStep ==
  ASSUME Shape, Retried, Steps
  PROVE  Retried'
<1>0. TRUE \in BOOLEAN /\ FALSE \in BOOLEAN
  OBVIOUS
<1>1. ASSUME ops' = ops, refused' = refused PROVE Retried'
  BY <1>1, RetriedKept
<1>2. ASSUME Create \/ SetPcb PROVE Retried'
  BY <1>1, <1>2 DEF Create, SetPcb, appVars
<1>3. ASSUME NEW s \in Socket, NEW k \in AllKinds, NEW n \in Nat, Submit(s, k, n) PROVE Retried'
  <2>1. PICK op : op = [kind |-> k, id |-> Len(issued[s]) + 1, size |-> n]
    OBVIOUS
  <2>2. Append1(ops', ops, s, op) /\ refused' = refused
    BY <1>3, <2>1 DEF Submit, Append1, sockVars
  <2>3. PICK q : q = ops[s]
    OBVIOUS
  <2>4. q \in Seq(OpRec) /\ ops' = [ops EXCEPT ![s] = Append(q, op)] /\ ops \in [Socket -> Seq(OpRec)]
    BY <2>2, <2>3 DEF Append1, Shape
  <2>5. PICK l \in OpRec : l = op
    <3>1. Len(issued[s]) \in Nat
      BY LenProperties DEF Shape
    <3> QED
      BY <2>1, <3>1 DEF OpRec
  <2>6. q # <<>> => Append(q, l) # <<>> /\ Head(Append(q, l)) = Head(q)
    BY <2>4, <2>5
  <2>7. \A t \in Socket : t # s => ops'[t] = ops[t]
    BY <2>4
  <2>8. ops'[s] = Append(q, l)
    BY <2>4, <2>5
  <2> QED
    BY <2>2, <2>3, <2>6, <2>7, <2>8 DEF Retried, Op
<1>4. ASSUME NEW s \in Socket, Dequeue(s) \/ Map(s) \/ Stale(s) \/ NewPcb(s) PROVE Retried'
  BY <1>1, <1>4 DEF Dequeue, Map, Stale, NewPcb, appVars, sockVars
<1>5. ASSUME NEW s \in Socket, Bind(s) PROVE Retried'
  BY <1>0, <1>5, RetriedPerformed DEF Bind, sockVars
<1>6. ASSUME NEW s \in Socket, Connect(s) PROVE Retried'
  BY <1>0, <1>6, RetriedPerformed DEF Connect, sockVars
<1>7. ASSUME NEW s \in Socket, Listen(s) PROVE Retried'
  <2>1. Performing(s, "listen") /\ refused' = refused /\ (Finish(s, TRUE) \/ Finish(s, FALSE))
    BY <1>7 DEF Listen
  <2> QED
    BY <1>0, <2>1, RetriedPerformed
<1>8. ASSUME NEW s \in Socket, Accept(s) PROVE Retried'
  BY <1>0, <1>8, RetriedPerformed DEF Accept, sockVars
<1>9. ASSUME NEW s \in Socket, Write(s) PROVE Retried'
  <2>1. ops[s] # <<>> /\ Op(s).kind = "write"
    BY <1>9, PerformingIs DEF Write
  <2>2. CASE refused' = refused \union {s} /\ ops' = ops
    BY <2>1, <2>2 DEF Retried, Op
  <2>3. CASE refused' = refused \ {s} /\ Done(s)
    <3>1. Loses(ops', ops, s)
      BY <2>1, <2>3, DoneIs
    <3>2. \A t \in refused' : ops'[t] = ops[t]
      BY <2>3, <3>1 DEF Loses, Retried
    <3> QED
      BY <2>3, <3>2, RetriedKept
  <2> QED
    BY <1>9, <2>2, <2>3 DEF Write, Async, Finish
<1>10. ASSUME NEW s \in Socket, Close(s) PROVE Retried'
  BY <1>0, <1>10, RetriedPerformed DEF Close, sockVars
<1>11. ASSUME NEW p \in Pcb, SynAck(p) \/ (\E n \in 1..Held(p) : Ack(p, n)) \/ Reset(p) \/ Gone(p) PROVE Retried'
  BY <1>1, <1>11 DEF SynAck, Ack, Reset, Gone, sockVars, appVars
<1>12. ASSUME NEW l \in ListenPcb, Incoming(l) \/ IncomingNoMem(l) PROVE Retried'
  BY <1>1, <1>12 DEF Incoming, IncomingNoMem, sockVars, appVars
<1>13. ASSUME Sent PROVE Retried'
  BY <1>1, <1>13 DEF Sent, appVars
<1> QED
  BY <1>2, <1>3, <1>4, <1>5, <1>6, <1>7, <1>8, <1>9, <1>10, <1>11, <1>12, <1>13 DEF Steps

\* A refused write is the next operation of its socket until it is performed: no
\* later operation of that socket overtakes it.
THEOREM RetriedInv == Spec => []Retried
<1>1. Init => Retried
  BY DEF Init, Retried
<1>2. Shape /\ Retried /\ [Next]_vars => Retried'
  <2> SUFFICES ASSUME Shape, Retried, [Next]_vars PROVE Retried'
    OBVIOUS
  <2>1. CASE Next
    BY <2>1, NextSteps, RetriedStep
  <2>2. CASE UNCHANGED vars
    BY <2>2, RetriedKept DEF vars, sockVars, appVars
  <2> QED
    BY <2>1, <2>2
<1> QED
  BY <1>1, <1>2, Shapes, PTL DEF Spec

\* The layers together give TypeOK.
LEMMA TypesAre ==
  ASSUME Shape, GenBound, Buffers, Retried
  PROVE  TypeOK
<1>1. ASSUME NEW p \in AnyPcb PROVE gen[p] \in 0..(MaxConns + Cardinality(Socket))
  <2>1. /\ WithPcb \subseteq Socket /\ WithListen \subseteq Socket
        /\ gen[p] \in Nat
    BY DEF WithPcb, WithListen, Shape
  <2>2. PICK a, b, c, x, g \in Nat : /\ a = Cardinality(WithPcb) /\ b = Cardinality(WithListen)
                                     /\ c = Cardinality(Socket) /\ x = MaxConns /\ g = gen[p]
                                     /\ a <= c /\ b <= c
    <3>1. /\ Cardinality(WithPcb) \in Nat /\ Cardinality(WithListen) \in Nat /\ Cardinality(Socket) \in Nat
          /\ Cardinality(WithPcb) <= Cardinality(Socket) /\ Cardinality(WithListen) <= Cardinality(Socket)
      BY <2>1, SocketSets
    <3> QED
      BY <2>1, <3>1, ConstantFacts
  <2>3. g <= x + a \/ g <= b
    BY <2>2, GenBoundIs DEF AnyPcb
  <2>4. g \in 0..(x + c)
    BY <2>2, <2>3
  <2> QED
    BY <2>2, <2>4
<1>2. gen \in [AnyPcb -> 0..(MaxConns + Cardinality(Socket))]
  <2>1. gen \in [AnyPcb -> Nat]
    BY DEF Shape
  <2>2. PICK X : X = 0..(MaxConns + Cardinality(Socket))
    OBVIOUS
  <2>3. \A p \in AnyPcb : gen[p] \in X
    BY <1>1, <2>2
  <2> QED
    BY <2>1, <2>2, <2>3
<1>3. (\A p \in Pcb : Held(p) <= SndBuf) /\ \A s \in Socket : Len(writeQueue[s]) <= WriteQueueCap
  BY DEF Buffers, Held
<1> QED
  BY <1>2, <1>3 DEF Shape, Retried, TypeOK

\* A connection belongs to one socket, or to one accept result that will make
\* one; no pcb is used by two sockets, or by none.
THEOREM OneOwner == Spec => []OneClaim
<1>1. Shape /\ Holding /\ GenBound /\ Buffers /\ Retried => OneClaim
  <2> SUFFICES ASSUME Shape, Holding, GenBound, Buffers, Retried PROVE OneClaim
    OBVIOUS
  <2>1. ASSUME NEW p \in AnyPcb, state[p] # "free" PROVE Cardinality(Claims(p)) = 1
    BY <2>1, ClaimedOnce DEF Holding, OneHolder, Live
  <2> QED
    BY <2>1, TypesAre DEF OneClaim
<1> QED
  BY <1>1, Shapes, HoldersInv, GenInv, BuffersInv, RetriedInv, PTL

(***************************************************************************)
(* Operations and their results.  For one socket: I what was submitted, O  *)
(* what is not yet performed, A its results, W its write_queue, n how many *)
(* operations were performed.                                              *)
(***************************************************************************)

\* Entries of a kind among the first n.
OfKind(q, n, k)  == {i \in 1..n : q[i].kind = k}
CountOf(q, n, k) == Cardinality(OfKind(q, n, k))

\* Queue v is u with r at its end; queue v is u without its first entry.
More(v, u, r) ==
  /\ Len(u) \in Nat /\ Len(v) = Len(u) + 1 /\ \A i \in 1..Len(u) : v[i] = u[i]
  /\ v[Len(u) + 1] = r
Less(v, u) ==
  /\ Len(u) \in Nat /\ Len(u) >= 1 /\ Len(v) = Len(u) - 1
  /\ \A i \in 1..Len(v) : v[i] = u[i + 1]

\* They are finite.
LEMMA KindSets ==
  ASSUME NEW q, NEW n \in Nat, NEW k
  PROVE  /\ IsFiniteSet(OfKind(q, n, k))
         /\ CountOf(q, n, k) \in Nat
<1>1. IsFiniteSet(1..n)
  BY FS_Interval
<1>2. OfKind(q, n, k) \subseteq 1..n
  BY DEF OfKind
<1>3. IsFiniteSet(OfKind(q, n, k))
  BY <1>1, <1>2, FS_Subset
<1> QED
  BY <1>3, FS_CardinalityType DEF CountOf

\* One entry more.
LEMMA CountNext ==
  ASSUME NEW q, NEW n \in Nat, NEW k
  PROVE  CountOf(q, n + 1, k) = IF q[n + 1].kind = k THEN CountOf(q, n, k) + 1 ELSE CountOf(q, n, k)
<1>1. PICK S, T : S = OfKind(q, n, k) /\ T = OfKind(q, n + 1, k)
  OBVIOUS
<1>2. IsFiniteSet(S)
  BY <1>1, KindSets
<1>3. \A i : i \in 1..(n + 1) <=> i \in 1..n \/ i = n + 1
  OBVIOUS
<1>4. n + 1 \notin S
  BY <1>1 DEF OfKind
<1>5. CASE q[n + 1].kind = k
  <2>1. T = S \union {n + 1}
    BY <1>1, <1>3, <1>5 DEF OfKind
  <2>2. Cardinality(T) = Cardinality(S) + 1
    BY <1>2, <1>4, <2>1, FS_AddElement
  <2> QED
    BY <1>1, <1>5, <2>2 DEF CountOf
<1>6. CASE q[n + 1].kind # k
  <2>1. T = S
    BY <1>1, <1>3, <1>6 DEF OfKind
  <2> QED
    BY <1>1, <1>6, <2>1 DEF CountOf
<1> QED
  BY <1>5, <1>6

SameTo(r, q, n) == \A i \in 1..n : r[i] = q[i]

\* Queues that start alike have as many entries of a kind.
LEMMA CountSame ==
  ASSUME NEW q, NEW r, NEW n, NEW k, SameTo(r, q, n)
  PROVE  CountOf(r, n, k) = CountOf(q, n, k)
<1>0. \A i \in 1..n : r[i] = q[i]
  BY DEF SameTo
<1>1. OfKind(r, n, k) = OfKind(q, n, k)
  BY <1>0 DEF OfKind
<1> QED
  BY <1>1 DEF CountOf

\* There are no more among fewer.
LEMMA CountUpTo ==
  ASSUME NEW q, NEW n \in Nat, NEW m \in Nat, n <= m, NEW k
  PROVE  CountOf(q, n, k) <= CountOf(q, m, k)
<1>1. OfKind(q, n, k) \subseteq OfKind(q, m, k)
  BY DEF OfKind
<1>2. IsFiniteSet(OfKind(q, m, k))
  BY KindSets
<1> QED
  BY <1>1, <1>2, FS_Subset DEF CountOf

\* One entry more counts for its kind.
LEMMA CountMore ==
  ASSUME NEW v, NEW u, NEW r, More(v, u, r), NEW k
  PROVE  /\ CountOf(u, Len(u), k) \in Nat
         /\ CountOf(v, Len(v), k) = IF r.kind = k THEN CountOf(u, Len(u), k) + 1 ELSE CountOf(u, Len(u), k)
<1>1. PICK n \in Nat : n = Len(u)
  BY DEF More
<1>2. Len(v) = n + 1 /\ (\A i \in 1..n : v[i] = u[i]) /\ v[n + 1] = r
  BY <1>1 DEF More
<1>3. CountOf(v, n, k) = CountOf(u, n, k) /\ CountOf(u, n, k) \in Nat
  <2>1. SameTo(v, u, n)
    BY <1>2 DEF SameTo
  <2> QED
    BY <1>1, <2>1, CountSame, KindSets
<1>4. CountOf(v, n + 1, k) = IF v[n + 1].kind = k THEN CountOf(v, n, k) + 1 ELSE CountOf(v, n, k)
  BY CountNext
<1> QED
  BY <1>1, <1>2, <1>3, <1>4

\* What is not performed is the end of what was submitted, and the operations
\* are numbered in that order.
OpsPending(I, O) ==
  /\ Len(O) <= Len(I)
  /\ \A j \in 1..Len(O) : O[j] = I[Len(I) - Len(O) + j]
  /\ \A i \in 1..Len(I) : I[i].id = i

\* The writes in the write_queue and the results of writes, in order.
WritesInOrder(s, A, W, n) ==
  /\ \A j \in 1..Len(W) : W[j].block = <<s, W[j].block[2]>> /\ W[j].block[2] <= n
  /\ \A j, k \in 1..Len(W) : j < k => W[j].block[2] < W[k].block[2]
  /\ \A i \in 1..Len(A) : A[i].kind = "write" => A[i].id <= n
  /\ \A i \in 1..Len(A), j \in 1..Len(W) : A[i].kind = "write" =>
       A[i].id # W[j].block[2] /\ (A[i].ok => A[i].id < W[j].block[2])
  /\ \A i, j \in 1..Len(A) : i < j /\ A[i].kind = "write" /\ A[j].kind = "write" /\ A[i].ok /\ A[j].ok =>
       A[i].id < A[j].id

\* There are no more results of a kind than operations performed; c tells that
\* a connect goes on.
Counted(I, A, W, n, c) ==
  /\ \A k \in {"bind", "listen", "close"} : CountOf(A, Len(A), k) <= CountOf(I, n, k)
  /\ CountOf(A, Len(A), "write") + Len(W) <= CountOf(I, n, "write")
  /\ CountOf(A, Len(A), "connect") + (IF c THEN 1 ELSE 0) <= CountOf(I, n, "connect")

OpsOf(s, I, O, A, W, c) ==
  /\ OpsPending(I, O) /\ WritesInOrder(s, A, W, Len(I) - Len(O)) /\ Counted(I, A, W, Len(I) - Len(O), c)

\* How many operations were performed.
LEMMA OpsLengths ==
  ASSUME NEW I, NEW O, Len(I) \in Nat, Len(O) \in Nat, OpsPending(I, O)
  PROVE  Len(I) - Len(O) \in Nat
BY DEF OpsPending

\* Nothing is new, or a connect has ended.
LEMMA OpsSame ==
  ASSUME NEW s, NEW I, NEW O, NEW A, NEW W, NEW c \in BOOLEAN, NEW d \in BOOLEAN,
         OpsOf(s, I, O, A, W, c), d => c,
         Len(I) \in Nat, Len(O) \in Nat, Len(A) \in Nat
  PROVE  OpsOf(s, I, O, A, W, d)
<1>1. PICK n \in Nat : n = Len(I) - Len(O)
  BY OpsLengths DEF OpsOf
<1>2. PICK a, b \in Nat : a = CountOf(A, Len(A), "connect") /\ b = CountOf(I, n, "connect")
  BY KindSets
<1>3. a + (IF c THEN 1 ELSE 0) <= b
  BY <1>1, <1>2 DEF OpsOf, Counted
<1>4. a + (IF d THEN 1 ELSE 0) <= b
  BY <1>3
<1> QED
  BY <1>1, <1>2, <1>4 DEF OpsOf, Counted

\* What one socket has.
Typed(I, O, A, W) == I \in Seq(OpRec) /\ O \in Seq(OpRec) /\ A \in Seq(ResRec) /\ W \in Seq(WEntry)

\* What its queues hold.
LEMMA TypedIs ==
  ASSUME NEW I, NEW O, NEW A, NEW W, Typed(I, O, A, W)
  PROVE  /\ Len(I) \in Nat /\ Len(O) \in Nat /\ Len(A) \in Nat /\ Len(W) \in Nat
         /\ \A i \in 1..Len(I) : I[i] \in OpRec /\ I[i].id \in Nat
         /\ \A i \in 1..Len(O) : O[i] \in OpRec /\ O[i].id \in Nat
         /\ \A i \in 1..Len(A) : A[i] \in ResRec /\ A[i].id \in Nat
         /\ \A i \in 1..Len(W) : W[i] \in WEntry /\ W[i].block[2] \in Nat
<1>1. Len(I) \in Nat /\ \A i \in 1..Len(I) : I[i] \in OpRec
  BY LenProperties, ElementOfSeq DEF Typed
<1>2. Len(O) \in Nat /\ \A i \in 1..Len(O) : O[i] \in OpRec
  BY LenProperties, ElementOfSeq DEF Typed
<1>3. Len(A) \in Nat /\ \A i \in 1..Len(A) : A[i] \in ResRec
  BY LenProperties, ElementOfSeq DEF Typed
<1>4. Len(W) \in Nat /\ \A i \in 1..Len(W) : W[i] \in WEntry
  BY LenProperties, ElementOfSeq DEF Typed
<1>5. \A x \in OpRec : x.id \in Nat
  BY DEF OpRec
<1>6. \A x \in ResRec : x.id \in Nat
  BY DEF ResRec
<1>7. \A x \in WEntry : x.block[2] \in Nat
  BY DEF WEntry
<1> QED
  BY <1>1, <1>2, <1>3, <1>4, <1>5, <1>6, <1>7

\* An operation is submitted.
LEMMA OpsSubmit ==
  ASSUME NEW s, NEW I, NEW O, NEW A, NEW W, NEW c, Typed(I, O, A, W), OpsOf(s, I, O, A, W, c),
         NEW op, op.id = Len(I) + 1, NEW J, NEW Q, More(J, I, op), More(Q, O, op)
  PROVE  OpsOf(s, J, Q, A, W, c)
<1>1. PICK m, l, n \in Nat : m = Len(I) /\ l = Len(O) /\ n = m - l
  BY TypedIs, OpsLengths DEF OpsOf
<1>2. /\ Len(J) = m + 1 /\ J[m + 1] = op /\ \A i \in 1..m : J[i] = I[i]
      /\ Len(Q) = l + 1 /\ Q[l + 1] = op /\ \A i \in 1..l : Q[i] = O[i]
  BY <1>1 DEF More
<1>3. Len(J) - Len(Q) = n
  BY <1>1, <1>2
<1>4. OpsPending(J, Q)
  <2>1. Len(Q) <= Len(J)
    BY <1>1, <1>2
  <2>2. ASSUME NEW j \in 1..(l + 1) PROVE Q[j] = J[n + j]
    <3>1. CASE j \in 1..l
      <4>1. n + j \in 1..m
        BY <1>1, <3>1
      <4>2. O[j] = I[n + j]
        BY <1>1, <3>1 DEF OpsOf, OpsPending
      <4> QED
        BY <1>2, <3>1, <4>1, <4>2
    <3>2. CASE j = l + 1
      <4>1. n + j = m + 1
        BY <1>1, <3>2
      <4> QED
        BY <1>2, <3>2, <4>1
    <3> QED
      BY <1>1, <3>1, <3>2
  <2>3. ASSUME NEW i \in 1..(m + 1) PROVE J[i].id = i
    <3>1. CASE i \in 1..m
      BY <1>1, <1>2, <3>1 DEF OpsOf, OpsPending
    <3>2. CASE i = m + 1
      BY <1>1, <1>2, <3>2
    <3> QED
      BY <1>1, <3>1, <3>2
  <2> QED
    BY <1>2, <1>3, <2>1, <2>2, <2>3 DEF OpsPending
<1>5. Counted(J, A, W, n, c)
  <2>1. SameTo(J, I, n)
    <3>1. \A i \in 1..n : i \in 1..m
      BY <1>1
    <3> QED
      BY <1>2, <3>1 DEF SameTo
  <2>2. \A k : CountOf(J, n, k) = CountOf(I, n, k)
    BY <2>1, CountSame
  <2>3. Counted(I, A, W, n, c)
    BY <1>1 DEF OpsOf
  <2> QED
    BY <2>2, <2>3 DEF Counted
<1> QED
  BY <1>1, <1>3, <1>4, <1>5 DEF OpsOf

\* The next operation is taken.
LEMMA OpsNext ==
  ASSUME NEW I, NEW O, NEW P, NEW n, Len(I) \in Nat, Len(O) \in Nat, OpsPending(I, O), n = Len(I) - Len(O), Less(P, O)
  PROVE  /\ n \in Nat /\ Len(I) - Len(P) = n + 1 /\ OpsPending(I, P)
         /\ O[1] = I[n + 1] /\ O[1].id = n + 1
         /\ \A k : CountOf(I, n + 1, k) = IF O[1].kind = k THEN CountOf(I, n, k) + 1 ELSE CountOf(I, n, k)
<1>1. PICK m, l \in Nat : m = Len(I) /\ l = Len(O)
  OBVIOUS
<1>2. /\ l >= 1 /\ Len(P) = l - 1 /\ \A i \in 1..(l - 1) : P[i] = O[i + 1]
      /\ l <= m /\ n = m - l
  BY <1>1 DEF Less, OpsPending
<1>3. n \in Nat /\ m - (l - 1) = n + 1 /\ 1 \in 1..l /\ n + 1 \in 1..m
  BY <1>1, <1>2
<1>4. O[1] = I[n + 1]
  BY <1>1, <1>2, <1>3 DEF OpsPending
<1>5. I[n + 1].id = n + 1
  BY <1>1, <1>3 DEF OpsPending
<1>6. ASSUME NEW j \in 1..(l - 1) PROVE P[j] = I[n + 1 + j]
  <2>1. j + 1 \in 1..l /\ n + (j + 1) = n + 1 + j
    BY <1>1, <1>2, <1>3
  <2>2. O[j + 1] = I[n + (j + 1)]
    BY <1>1, <1>2, <2>1 DEF OpsPending
  <2> QED
    BY <1>2, <2>1, <2>2
<1>7. OpsPending(I, P)
  <2>1. Len(P) <= Len(I)
    BY <1>1, <1>2
  <2> QED
    BY <1>1, <1>2, <1>3, <1>6, <2>1 DEF OpsPending
<1>8. \A k : CountOf(I, n + 1, k) = IF O[1].kind = k THEN CountOf(I, n, k) + 1 ELSE CountOf(I, n, k)
  <2>1. PICK e : e = n
    OBVIOUS
  <2>2. e \in Nat /\ O[1] = I[e + 1]
    BY <1>3, <1>4, <2>1
  <2>3. \A k : CountOf(I, e + 1, k) = IF I[e + 1].kind = k THEN CountOf(I, e, k) + 1 ELSE CountOf(I, e, k)
    BY <2>2, CountNext
  <2> QED
    BY <2>1, <2>2, <2>3
<1> QED
  BY <1>1, <1>2, <1>3, <1>4, <1>5, <1>7, <1>8

\* The order of the writes, as one operation more is performed and as results
\* and entries come and go.
LEMMA OrderLater ==
  ASSUME NEW s, NEW I, NEW O, NEW A, NEW W, NEW n \in Nat, Typed(I, O, A, W), WritesInOrder(s, A, W, n)
  PROVE  WritesInOrder(s, A, W, n + 1)
<1>1. \A i \in 1..Len(A) : A[i].kind = "write" => A[i].id <= n + 1
  <2>1. \A i \in 1..Len(A) : A[i].id \in Nat /\ (A[i].kind = "write" => A[i].id <= n)
    BY TypedIs DEF WritesInOrder
  <2>2. \A x \in Nat : x <= n => x <= n + 1
    OBVIOUS
  <2> QED
    BY <2>1, <2>2
<1>2. \A j \in 1..Len(W) : W[j].block[2] <= n + 1
  <2>1. \A j \in 1..Len(W) : W[j].block[2] \in Nat /\ W[j].block[2] <= n
    BY TypedIs DEF WritesInOrder
  <2>2. \A x \in Nat : x <= n => x <= n + 1
    OBVIOUS
  <2> QED
    BY <2>1, <2>2
<1> QED
  BY <1>1, <1>2 DEF WritesInOrder

\* A result of another kind.
LEMMA OrderResult ==
  ASSUME NEW s, NEW A, NEW W, NEW n, WritesInOrder(s, A, W, n), NEW B, NEW r, More(B, A, r), r.kind # "write"
  PROVE  WritesInOrder(s, B, W, n)
<1>1. \A i \in 1..Len(B) : B[i].kind = "write" => i \in 1..Len(A) /\ B[i] = A[i]
  BY DEF More
<1> QED
  BY <1>1 DEF WritesInOrder

\* A write that fails: it is the last one performed.
LEMMA OrderFailed ==
  ASSUME NEW s, NEW I, NEW O, NEW A, NEW W, NEW n \in Nat, Typed(I, O, A, W), WritesInOrder(s, A, W, n),
         NEW B, NEW r, More(B, A, r), r.kind = "write", ~r.ok, r.id = n + 1
  PROVE  WritesInOrder(s, B, W, n + 1)
<1>1. WritesInOrder(s, A, W, n + 1)
  BY OrderLater
<1>2. \A i \in 1..Len(B) : (i \in 1..Len(A) /\ B[i] = A[i]) \/ B[i] = r
  BY DEF More
<1>3. \A j \in 1..Len(W) : r.id # W[j].block[2]
  <2>1. \A j \in 1..Len(W) : W[j].block[2] \in Nat /\ W[j].block[2] <= n
    BY TypedIs DEF WritesInOrder
  <2> QED
    BY <2>1
<1>4. r.id <= n + 1
  OBVIOUS
<1> QED
  BY <1>1, <1>2, <1>3, <1>4 DEF WritesInOrder

\* A write that is queued: it is the last one performed.
LEMMA OrderWrite ==
  ASSUME NEW s, NEW I, NEW O, NEW A, NEW W, NEW n \in Nat, Typed(I, O, A, W), WritesInOrder(s, A, W, n),
         NEW V, NEW e, More(V, W, e), e.block = <<s, n + 1>>
  PROVE  WritesInOrder(s, A, V, n + 1)
<1>1. WritesInOrder(s, A, W, n + 1)
  BY OrderLater
<1>2. PICK l \in Nat : l = Len(W) /\ Len(V) = l + 1
  BY DEF More
<1>3. (\A j \in 1..l : V[j] = W[j]) /\ V[l + 1] = e
  BY <1>2 DEF More
<1>4. \A j \in 1..(l + 1) : j \in 1..l \/ j = l + 1
  BY <1>2
<1>5. e.block[2] = n + 1 /\ e.block = <<s, e.block[2]>>
  OBVIOUS
<1>6. \A j \in 1..(l + 1) : V[j].block = <<s, V[j].block[2]>> /\ V[j].block[2] <= n + 1
  <2>1. n + 1 <= n + 1
    OBVIOUS
  <2>2. \A j \in 1..l : V[j].block = <<s, V[j].block[2]>> /\ V[j].block[2] <= n + 1
    BY <1>1, <1>2, <1>3 DEF WritesInOrder
  <2>3. V[l + 1].block = <<s, V[l + 1].block[2]>> /\ V[l + 1].block[2] <= n + 1
    BY <1>3, <1>5, <2>1
  <2> QED
    BY <1>4, <2>2, <2>3
<1>7. ASSUME NEW j \in 1..(l + 1), NEW k \in 1..(l + 1), j < k PROVE V[j].block[2] < V[k].block[2]
  <2>1. j \in 1..l
    BY <1>2, <1>7
  <2>2. CASE k \in 1..l
    BY <1>2, <1>3, <1>7, <2>1, <2>2 DEF WritesInOrder
  <2>3. CASE k = l + 1
    <3>1. W[j].block[2] \in Nat /\ W[j].block[2] <= n
      BY <1>2, <2>1, TypedIs DEF WritesInOrder
    <3>2. W[j].block[2] < n + 1
      BY <3>1
    <3> QED
      BY <1>3, <1>5, <2>1, <2>3, <3>2
  <2> QED
    BY <1>4, <2>2, <2>3
<1>8. ASSUME NEW i \in 1..Len(A), NEW j \in 1..(l + 1), A[i].kind = "write"
      PROVE  A[i].id # V[j].block[2] /\ (A[i].ok => A[i].id < V[j].block[2])
  <2>1. CASE j \in 1..l
    BY <1>2, <1>3, <1>8, <2>1 DEF WritesInOrder
  <2>2. CASE j = l + 1
    <3>1. A[i].id \in Nat /\ A[i].id <= n
      BY <1>8, TypedIs DEF WritesInOrder
    <3>2. A[i].id # n + 1 /\ A[i].id < n + 1
      BY <3>1
    <3> QED
      BY <1>3, <1>5, <2>2, <3>2
  <2> QED
    BY <1>4, <2>1, <2>2
<1> QED
  BY <1>1, <1>2, <1>6, <1>7, <1>8 DEF WritesInOrder

\* The first write of the write_queue is reported.
LEMMA OrderSent ==
  ASSUME NEW s, NEW I, NEW O, NEW A, NEW W, NEW n \in Nat, Typed(I, O, A, W), WritesInOrder(s, A, W, n),
         NEW V, Less(V, W), NEW B, NEW r, More(B, A, r), r.kind = "write", r.id = W[1].block[2]
  PROVE  WritesInOrder(s, B, V, n)
<1>1. PICK l \in Nat : l = Len(W) /\ l >= 1 /\ Len(V) = l - 1
  BY DEF Less
<1>2. \A j \in 1..(l - 1) : V[j] = W[j + 1] /\ j + 1 \in 1..l /\ 1 < j + 1
  BY <1>1 DEF Less
<1>3. \A j, k \in 1..(l - 1) : j < k => j + 1 < k + 1
  BY <1>1
<1>4. PICK m \in Nat : m = Len(A) /\ Len(B) = m + 1
  BY DEF More
<1>5. (\A i \in 1..m : B[i] = A[i]) /\ B[m + 1] = r /\ \A i \in 1..(m + 1) : i \in 1..m \/ i = m + 1
  BY <1>4 DEF More
<1>6. 1 \in 1..l
  BY <1>1
<1>7. /\ \A j \in 1..(l - 1) : V[j].block = <<s, V[j].block[2]>> /\ V[j].block[2] <= n
      /\ \A j, k \in 1..(l - 1) : j < k => V[j].block[2] < V[k].block[2]
  BY <1>1, <1>2, <1>3 DEF WritesInOrder
<1>8. \A i \in 1..(m + 1) : B[i].kind = "write" => B[i].id <= n
  BY <1>1, <1>4, <1>5, <1>6 DEF WritesInOrder
<1>9. ASSUME NEW i \in 1..(m + 1), NEW j \in 1..(l - 1), B[i].kind = "write"
      PROVE  B[i].id # V[j].block[2] /\ (B[i].ok => B[i].id < V[j].block[2])
  <2>1. CASE i \in 1..m
    BY <1>1, <1>2, <1>4, <1>5, <1>9, <2>1 DEF WritesInOrder
  <2>2. CASE i = m + 1
    <3>1. W[1].block[2] < W[j + 1].block[2]
      BY <1>1, <1>2, <1>6 DEF WritesInOrder
    <3>2. W[1].block[2] \in Nat /\ W[j + 1].block[2] \in Nat
      BY <1>1, <1>2, <1>6, TypedIs
    <3>3. W[1].block[2] # W[j + 1].block[2]
      BY <3>1, <3>2
    <3> QED
      BY <1>2, <1>5, <2>2, <3>1, <3>3
  <2> QED
    BY <1>5, <2>1, <2>2
<1>10. ASSUME NEW i \in 1..(m + 1), NEW j \in 1..(m + 1), i < j, B[i].kind = "write", B[j].kind = "write",
              B[i].ok, B[j].ok
       PROVE  B[i].id < B[j].id
  <2>1. i \in 1..m
    BY <1>4, <1>10
  <2>2. CASE j \in 1..m
    BY <1>4, <1>5, <1>10, <2>1, <2>2 DEF WritesInOrder
  <2>3. CASE j = m + 1
    BY <1>1, <1>4, <1>5, <1>6, <1>10, <2>1, <2>3 DEF WritesInOrder
  <2> QED
    BY <1>5, <2>2, <2>3
<1> QED
  BY <1>1, <1>4, <1>7, <1>8, <1>9, <1>10 DEF WritesInOrder

\* The blocks of the write_queue stay.
LEMMA OrderCut ==
  ASSUME NEW s, NEW A, NEW W, NEW n, WritesInOrder(s, A, W, n),
         NEW V, Len(V) = Len(W), \A j \in 1..Len(W) : V[j].block = W[j].block
  PROVE  WritesInOrder(s, A, V, n)
BY DEF WritesInOrder

\* How the counts change: by y operations performed and x results of a kind,
\* as numbers.
LEMMA CountsMove ==
  \A a, b, w, v, x, y \in Nat : a + w <= b /\ v + x <= w + y => (a + x) + v <= b + y
OBVIOUS

\* Results and entries of one kind for the operations of that kind, i where
\* they are to be.
Within(I, A, n, k, w) == CountOf(A, Len(A), k) + w <= CountOf(I, n, k)
Going(c) == IF c THEN 1 ELSE 0

\* Counted, kind by kind.
LEMMA CountedIs ==
  ASSUME NEW I, NEW A, NEW W, NEW n \in Nat, NEW c, Len(A) \in Nat
  PROVE  Counted(I, A, W, n, c) <=> /\ \A k \in {"bind", "listen", "close"} : Within(I, A, n, k, 0)
                                    /\ Within(I, A, n, "write", Len(W)) /\ Within(I, A, n, "connect", Going(c))
<1>1. \A k : CountOf(A, Len(A), k) \in Nat
  BY KindSets
<1>2. \A k : CountOf(A, Len(A), k) + 0 = CountOf(A, Len(A), k)
  BY <1>1
<1> QED
  BY <1>2 DEF Counted, Within, Going

\* One kind in a step: y operations of it performed, x results of it, and from
\* w to v entries.
LEMMA WithinMoves ==
  ASSUME NEW I, NEW A, NEW B, NEW n, NEW m, NEW k, NEW w, NEW v, NEW x, NEW y, Within(I, A, n, k, w),
         n \in Nat /\ Len(A) \in Nat /\ w \in Nat /\ v \in Nat /\ x \in Nat /\ y \in Nat,
         CountOf(I, m, k) = CountOf(I, n, k) + y, CountOf(B, Len(B), k) = CountOf(A, Len(A), k) + x,
         v + x <= w + y
  PROVE  Within(I, B, m, k, v)
<1>1. PICK a, b \in Nat : a = CountOf(A, Len(A), k) /\ b = CountOf(I, n, k)
  BY KindSets
<1>2. a + w <= b
  BY <1>1 DEF Within
<1>3. (a + x) + v <= b + y
  BY <1>2, CountsMove
<1> QED
  BY <1>1, <1>3 DEF Within

Moves(I, A, B, n, m, k, w, v) ==
  \E x, y \in Nat : /\ CountOf(I, m, k) = CountOf(I, n, k) + y
                    /\ CountOf(B, Len(B), k) = CountOf(A, Len(A), k) + x
                    /\ v + x <= w + y

\* Counted stays where no kind gains more results than operations.
LEMMA CountedMoves ==
  ASSUME NEW I, NEW A, NEW B, NEW W, NEW V, NEW n \in Nat, NEW m \in Nat, NEW c, NEW d,
         Len(A) \in Nat, Len(B) \in Nat, Len(W) \in Nat, Len(V) \in Nat, Counted(I, A, W, n, c),
         \A k \in {"bind", "listen", "close"} : Moves(I, A, B, n, m, k, 0, 0),
         Moves(I, A, B, n, m, "write", Len(W), Len(V)), Moves(I, A, B, n, m, "connect", Going(c), Going(d))
  PROVE  Counted(I, B, V, m, d)
<1>1. \A k, w, v : w \in Nat /\ v \in Nat /\ Within(I, A, n, k, w) /\ Moves(I, A, B, n, m, k, w, v) => Within(I, B, m, k, v)
  <2> SUFFICES ASSUME NEW k, NEW w \in Nat, NEW v \in Nat, Within(I, A, n, k, w), Moves(I, A, B, n, m, k, w, v)
               PROVE  Within(I, B, m, k, v)
    OBVIOUS
  <2>1. PICK x, y \in Nat : /\ CountOf(I, m, k) = CountOf(I, n, k) + y
                            /\ CountOf(B, Len(B), k) = CountOf(A, Len(A), k) + x
                            /\ v + x <= w + y
    BY DEF Moves
  <2>2. n \in Nat /\ Len(A) \in Nat /\ w \in Nat /\ v \in Nat /\ x \in Nat /\ y \in Nat
    BY <2>1
  <2> QED
    BY <2>1, <2>2, WithinMoves
<1>2. Going(c) \in Nat /\ Going(d) \in Nat /\ 0 \in Nat
  BY DEF Going
<1>3. /\ \A k \in {"bind", "listen", "close"} : Within(I, A, n, k, 0)
      /\ Within(I, A, n, "write", Len(W)) /\ Within(I, A, n, "connect", Going(c))
  BY CountedIs
<1>4. /\ \A k \in {"bind", "listen", "close"} : Within(I, B, m, k, 0)
      /\ Within(I, B, m, "write", Len(V)) /\ Within(I, B, m, "connect", Going(d))
  BY <1>1, <1>2, <1>3
<1> QED
  BY <1>4, CountedIs

\* With or without an operation performed, with or without a result.
LEMMA MovesBy ==
  ASSUME NEW I, NEW A, NEW B, NEW n, NEW m, NEW k, n \in Nat, Len(A) \in Nat
  PROVE  /\ CountOf(I, m, k) = CountOf(I, n, k) /\ CountOf(B, Len(B), k) = CountOf(A, Len(A), k) =>
              \A w, v \in Nat : v <= w => Moves(I, A, B, n, m, k, w, v)
         /\ CountOf(I, m, k) = CountOf(I, n, k) + 1 /\ CountOf(B, Len(B), k) = CountOf(A, Len(A), k) + 1 =>
              \A w, v \in Nat : v <= w => Moves(I, A, B, n, m, k, w, v)
         /\ CountOf(I, m, k) = CountOf(I, n, k) + 1 /\ CountOf(B, Len(B), k) = CountOf(A, Len(A), k) =>
              \A w, v \in Nat : v <= w + 1 => Moves(I, A, B, n, m, k, w, v)
         /\ CountOf(I, m, k) = CountOf(I, n, k) /\ CountOf(B, Len(B), k) = CountOf(A, Len(A), k) + 1 =>
              \A w, v \in Nat : v + 1 <= w => Moves(I, A, B, n, m, k, w, v)
<1>1. /\ CountOf(I, n, k) \in Nat /\ CountOf(I, n, k) + 0 = CountOf(I, n, k)
      /\ CountOf(A, Len(A), k) \in Nat /\ CountOf(A, Len(A), k) + 0 = CountOf(A, Len(A), k)
  BY KindSets
<1>2. \A w, v, x, y \in Nat :
        CountOf(I, m, k) = CountOf(I, n, k) + y /\ CountOf(B, Len(B), k) = CountOf(A, Len(A), k) + x
        /\ v + x <= w + y => Moves(I, A, B, n, m, k, w, v)
  BY DEF Moves
<1>3. ASSUME NEW w \in Nat, NEW v \in Nat
      PROVE  /\ v <= w => v + 0 <= w + 0 /\ v + 1 <= w + 1
             /\ v <= w + 1 => v + 0 <= w + 1
             /\ v + 1 <= w => v + 1 <= w + 0
  OBVIOUS
<1>4. 0 \in Nat /\ 1 \in Nat
  OBVIOUS
<1> QED
  BY <1>1, <1>2, <1>3, <1>4

\* An operation is done, with a result.
LEMMA OpsFinish ==
  ASSUME NEW s, NEW I, NEW O, NEW A, NEW W, NEW c \in BOOLEAN, NEW d \in BOOLEAN, Typed(I, O, A, W),
         OpsOf(s, I, O, A, W, c), d => c,
         NEW P, Less(P, O), NEW B, NEW r, More(B, A, r), r.kind = O[1].kind, r.id = O[1].id,
         r.kind = "write" => ~r.ok
  PROVE  OpsOf(s, I, P, B, W, d)
<1>1. /\ Len(I) \in Nat /\ Len(O) \in Nat /\ Len(A) \in Nat /\ Len(W) \in Nat /\ Len(B) \in Nat
      /\ OpsPending(I, O)
  BY TypedIs DEF OpsOf, More
<1>2. PICK n : n = Len(I) - Len(O)
  OBVIOUS
<1>3. /\ n \in Nat /\ Len(I) - Len(P) = n + 1 /\ OpsPending(I, P) /\ O[1].id = n + 1
      /\ \A k : CountOf(I, n + 1, k) = IF O[1].kind = k THEN CountOf(I, n, k) + 1 ELSE CountOf(I, n, k)
  <2>1. Len(I) \in Nat /\ Len(O) \in Nat /\ OpsPending(I, O) /\ n = Len(I) - Len(O) /\ Less(P, O)
    BY <1>1, <1>2
  <2> QED
    BY <2>1, OpsNext
<1>4. WritesInOrder(s, A, W, n) /\ Counted(I, A, W, n, c)
  BY <1>2 DEF OpsOf
<1>5. PICK m : m = n + 1
  OBVIOUS
<1>6. n \in Nat /\ m \in Nat /\ r.id = m
  BY <1>3, <1>5
<1>7. WritesInOrder(s, B, W, m)
  <2>1. CASE r.kind = "write"
    BY <1>3, <1>4, <1>5, <2>1, OrderFailed
  <2>2. CASE r.kind # "write"
    <3>1. WritesInOrder(s, A, W, m)
      BY <1>3, <1>4, <1>5, OrderLater
    <3> QED
      BY <2>2, <3>1, OrderResult
  <2> QED
    BY <2>1, <2>2
<1>8. \A k : CountOf(B, Len(B), k) = IF r.kind = k THEN CountOf(A, Len(A), k) + 1 ELSE CountOf(A, Len(A), k)
  BY CountMore
<1>9. ASSUME NEW k, NEW w \in Nat, NEW v \in Nat, v <= w PROVE Moves(I, A, B, n, m, k, w, v)
  <2>1. CASE r.kind = k
    <3>1. CountOf(I, m, k) = CountOf(I, n, k) + 1 /\ CountOf(B, Len(B), k) = CountOf(A, Len(A), k) + 1
      BY <1>3, <1>5, <1>8, <2>1
    <3> QED
      BY <1>1, <1>6, <1>9, <3>1, MovesBy
  <2>2. CASE r.kind # k
    <3>1. CountOf(I, m, k) = CountOf(I, n, k) /\ CountOf(B, Len(B), k) = CountOf(A, Len(A), k)
      BY <1>3, <1>5, <1>8, <2>2
    <3> QED
      BY <1>1, <1>6, <1>9, <3>1, MovesBy
  <2> QED
    BY <2>1, <2>2
<1>10. Going(c) \in Nat /\ Going(d) \in Nat /\ Going(d) <= Going(c) /\ 0 \in Nat /\ 0 <= 0 /\ Len(W) <= Len(W)
  BY <1>1 DEF Going
<1>11. Counted(I, B, W, m, d)
  <2>1. Moves(I, A, B, n, m, "write", Len(W), Len(W))
    BY <1>1, <1>9, <1>10
  <2>2. Moves(I, A, B, n, m, "connect", Going(c), Going(d))
    BY <1>9, <1>10
  <2>3. \A k \in {"bind", "listen", "close"} : Moves(I, A, B, n, m, k, 0, 0)
    BY <1>9, <1>10
  <2> QED
    BY <1>1, <1>4, <1>6, <2>1, <2>2, <2>3, CountedMoves
<1> QED
  BY <1>3, <1>5, <1>7, <1>11 DEF OpsOf

\* An operation is done without a result of its own: a connect or an accept.
LEMMA OpsAsync ==
  ASSUME NEW s, NEW I, NEW O, NEW A, NEW W, NEW c \in BOOLEAN, NEW d \in BOOLEAN, Typed(I, O, A, W),
         OpsOf(s, I, O, A, W, c), d => c \/ O[1].kind = "connect",
         NEW P, Less(P, O)
  PROVE  OpsOf(s, I, P, A, W, d)
<1>1. /\ Len(I) \in Nat /\ Len(O) \in Nat /\ Len(A) \in Nat /\ Len(W) \in Nat
      /\ OpsPending(I, O)
  BY TypedIs DEF OpsOf
<1>2. PICK n : n = Len(I) - Len(O)
  OBVIOUS
<1>3. /\ n \in Nat /\ Len(I) - Len(P) = n + 1 /\ OpsPending(I, P) /\ O[1].id = n + 1
      /\ \A k : CountOf(I, n + 1, k) = IF O[1].kind = k THEN CountOf(I, n, k) + 1 ELSE CountOf(I, n, k)
  <2>1. Len(I) \in Nat /\ Len(O) \in Nat /\ OpsPending(I, O) /\ n = Len(I) - Len(O) /\ Less(P, O)
    BY <1>1, <1>2
  <2> QED
    BY <2>1, OpsNext
<1>4. WritesInOrder(s, A, W, n) /\ Counted(I, A, W, n, c)
  BY <1>2 DEF OpsOf
<1>5. PICK m : m = n + 1
  OBVIOUS
<1>6. n \in Nat /\ m \in Nat
  BY <1>3, <1>5
<1>7. WritesInOrder(s, A, W, m)
  BY <1>3, <1>4, <1>5, OrderLater
<1>8. ASSUME NEW k, NEW w \in Nat, NEW v \in Nat, v <= w \/ (O[1].kind = k /\ v <= w + 1)
      PROVE  Moves(I, A, A, n, m, k, w, v)
  <2>1. CASE O[1].kind = k
    <3>1. CountOf(I, m, k) = CountOf(I, n, k) + 1
      BY <1>3, <1>5, <2>1
    <3>2. v <= w + 1
      BY <1>8
    <3> QED
      BY <1>1, <1>6, <3>1, <3>2, MovesBy
  <2>2. CASE O[1].kind # k
    <3>1. CountOf(I, m, k) = CountOf(I, n, k) /\ v <= w
      BY <1>3, <1>5, <1>8, <2>2
    <3> QED
      BY <1>1, <1>6, <3>1, MovesBy
  <2> QED
    BY <2>1, <2>2
<1>9. /\ Going(c) \in Nat /\ Going(d) \in Nat /\ 0 \in Nat /\ 0 <= 0 /\ Len(W) <= Len(W)
      /\ Going(d) <= Going(c) \/ (O[1].kind = "connect" /\ Going(d) <= Going(c) + 1)
  BY <1>1 DEF Going
<1>10. Counted(I, A, W, m, d)
  <2>1. Moves(I, A, A, n, m, "write", Len(W), Len(W))
    BY <1>1, <1>8, <1>9
  <2>2. Moves(I, A, A, n, m, "connect", Going(c), Going(d))
    BY <1>8, <1>9
  <2>3. \A k \in {"bind", "listen", "close"} : Moves(I, A, A, n, m, k, 0, 0)
    BY <1>8, <1>9
  <2> QED
    BY <1>1, <1>4, <1>6, <2>1, <2>2, <2>3, CountedMoves
<1> QED
  BY <1>3, <1>5, <1>7, <1>10 DEF OpsOf

\* A write goes on.
LEMMA OpsWrite ==
  ASSUME NEW s, NEW I, NEW O, NEW A, NEW W, NEW c \in BOOLEAN, NEW d \in BOOLEAN, Typed(I, O, A, W),
         OpsOf(s, I, O, A, W, c), d => c, O[1].kind = "write",
         NEW P, Less(P, O), NEW V, NEW e, More(V, W, e), e.block = <<s, O[1].id>>
  PROVE  OpsOf(s, I, P, A, V, d)
<1>1. /\ Len(I) \in Nat /\ Len(O) \in Nat /\ Len(A) \in Nat /\ Len(W) \in Nat
      /\ OpsPending(I, O)
  BY TypedIs DEF OpsOf
<1>2. PICK n : n = Len(I) - Len(O)
  OBVIOUS
<1>3. /\ n \in Nat /\ Len(I) - Len(P) = n + 1 /\ OpsPending(I, P) /\ O[1].id = n + 1
      /\ \A k : CountOf(I, n + 1, k) = IF O[1].kind = k THEN CountOf(I, n, k) + 1 ELSE CountOf(I, n, k)
  <2>1. Len(I) \in Nat /\ Len(O) \in Nat /\ OpsPending(I, O) /\ n = Len(I) - Len(O) /\ Less(P, O)
    BY <1>1, <1>2
  <2> QED
    BY <2>1, OpsNext
<1>4. WritesInOrder(s, A, W, n) /\ Counted(I, A, W, n, c)
  BY <1>2 DEF OpsOf
<1>5. PICK m : m = n + 1
  OBVIOUS
<1>6. n \in Nat /\ m \in Nat
  BY <1>3, <1>5
<1>7. WritesInOrder(s, A, V, m)
  BY <1>3, <1>4, <1>5, OrderWrite
<1>8. ASSUME NEW k, NEW w \in Nat, NEW v \in Nat, (k # "write" /\ v <= w) \/ (k = "write" /\ v <= w + 1)
      PROVE  Moves(I, A, A, n, m, k, w, v)
  <2>1. CASE k = "write"
    <3>1. CountOf(I, m, k) = CountOf(I, n, k) + 1
      BY <1>3, <1>5, <2>1
    <3>2. v <= w + 1
      BY <1>8, <2>1
    <3> QED
      BY <1>1, <1>6, <3>1, <3>2, MovesBy
  <2>2. CASE k # "write"
    <3>1. CountOf(I, m, k) = CountOf(I, n, k) /\ v <= w
      BY <1>3, <1>5, <1>8, <2>2
    <3> QED
      BY <1>1, <1>6, <3>1, MovesBy
  <2> QED
    BY <2>1, <2>2
<1>9. /\ Going(c) \in Nat /\ Going(d) \in Nat /\ Going(d) <= Going(c) /\ 0 \in Nat /\ 0 <= 0
      /\ Len(V) \in Nat /\ Len(V) <= Len(W) + 1
  BY <1>1 DEF Going, More
<1>10. Counted(I, A, V, m, d)
  <2>1. Moves(I, A, A, n, m, "write", Len(W), Len(V))
    BY <1>1, <1>8, <1>9
  <2>2. Moves(I, A, A, n, m, "connect", Going(c), Going(d))
    BY <1>8, <1>9
  <2>3. \A k \in {"bind", "listen", "close"} : Moves(I, A, A, n, m, k, 0, 0)
    BY <1>8, <1>9
  <2> QED
    BY <1>1, <1>4, <1>6, <1>9, <2>1, <2>2, <2>3, CountedMoves
<1> QED
  BY <1>3, <1>5, <1>7, <1>10 DEF OpsOf

\* lwIP's callback reports a connection: a connect is over, or one came in.
LEMMA OpsAnswer ==
  ASSUME NEW s, NEW I, NEW O, NEW A, NEW W, NEW c \in BOOLEAN, NEW d \in BOOLEAN, Typed(I, O, A, W),
         OpsOf(s, I, O, A, W, c), d => c,
         NEW B, NEW r, More(B, A, r), r.kind = "accept" \/ (r.kind = "connect" /\ c /\ ~d)
  PROVE  OpsOf(s, I, O, B, W, d)
<1>1. /\ Len(I) \in Nat /\ Len(O) \in Nat /\ Len(A) \in Nat /\ Len(W) \in Nat /\ Len(B) \in Nat
      /\ OpsPending(I, O)
  BY TypedIs DEF OpsOf, More
<1>2. PICK n \in Nat : n = Len(I) - Len(O)
  BY <1>1, OpsLengths
<1>3. n \in Nat /\ WritesInOrder(s, A, W, n) /\ Counted(I, A, W, n, c)
  BY <1>2 DEF OpsOf
<1>4. WritesInOrder(s, B, W, n)
  BY <1>3, OrderResult
<1>5. \A k : CountOf(B, Len(B), k) = IF r.kind = k THEN CountOf(A, Len(A), k) + 1 ELSE CountOf(A, Len(A), k)
  BY CountMore
<1>6. ASSUME NEW k, NEW w \in Nat, NEW v \in Nat, (r.kind # k /\ v <= w) \/ v + 1 <= w
      PROVE  Moves(I, A, B, n, n, k, w, v)
  <2>1. CASE r.kind = k
    <3>1. CountOf(B, Len(B), k) = CountOf(A, Len(A), k) + 1 /\ v + 1 <= w
      BY <1>5, <1>6, <2>1
    <3> QED
      BY <1>1, <1>3, <3>1, MovesBy
  <2>2. CASE r.kind # k
    <3>1. CountOf(B, Len(B), k) = CountOf(A, Len(A), k) /\ v <= w
      BY <1>5, <1>6, <2>2
    <3> QED
      BY <1>1, <1>3, <3>1, MovesBy
  <2> QED
    BY <2>1, <2>2
<1>7. /\ Going(c) \in Nat /\ Going(d) \in Nat /\ 0 \in Nat /\ 0 <= 0 /\ Len(W) <= Len(W)
      /\ (r.kind # "connect" /\ Going(d) <= Going(c)) \/ Going(d) + 1 <= Going(c)
  BY <1>1 DEF Going
<1>8. r.kind # "write" /\ \A k \in {"bind", "listen", "close"} : r.kind # k
  OBVIOUS
<1>9. Counted(I, B, W, n, d)
  <2>1. Moves(I, A, B, n, n, "write", Len(W), Len(W))
    BY <1>1, <1>6, <1>7, <1>8
  <2>2. Moves(I, A, B, n, n, "connect", Going(c), Going(d))
    BY <1>6, <1>7
  <2>3. \A k \in {"bind", "listen", "close"} : Moves(I, A, B, n, n, k, 0, 0)
    BY <1>6, <1>7, <1>8
  <2> QED
    BY <1>1, <1>3, <2>1, <2>2, <2>3, CountedMoves
<1> QED
  BY <1>1, <1>2, <1>4, <1>9 DEF OpsOf

\* tcp_sent_callback reports the oldest write.
LEMMA OpsSent ==
  ASSUME NEW s, NEW I, NEW O, NEW A, NEW W, NEW c \in BOOLEAN, Typed(I, O, A, W), OpsOf(s, I, O, A, W, c),
         NEW V, Less(V, W), NEW B, NEW r, More(B, A, r), r.kind = "write", r.id = W[1].block[2]
  PROVE  OpsOf(s, I, O, B, V, c)
<1>1. /\ Len(I) \in Nat /\ Len(O) \in Nat /\ Len(A) \in Nat /\ Len(W) \in Nat /\ Len(B) \in Nat
      /\ OpsPending(I, O)
  BY TypedIs DEF OpsOf, More
<1>2. PICK n \in Nat : n = Len(I) - Len(O)
  BY <1>1, OpsLengths
<1>3. n \in Nat /\ WritesInOrder(s, A, W, n) /\ Counted(I, A, W, n, c)
  BY <1>2 DEF OpsOf
<1>4. WritesInOrder(s, B, V, n)
  BY <1>3, OrderSent
<1>5. \A k : CountOf(B, Len(B), k) = IF r.kind = k THEN CountOf(A, Len(A), k) + 1 ELSE CountOf(A, Len(A), k)
  BY CountMore
<1>6. Len(V) \in Nat /\ Len(V) + 1 <= Len(W)
  BY DEF Less
<1>7. Going(c) \in Nat /\ Going(c) <= Going(c) /\ 0 \in Nat /\ 0 <= 0
  BY DEF Going
<1>8. Counted(I, B, V, n, c)
  <2>1. Moves(I, A, B, n, n, "write", Len(W), Len(V))
    <3>1. CountOf(B, Len(B), "write") = CountOf(A, Len(A), "write") + 1
      BY <1>5
    <3> QED
      BY <1>1, <1>3, <1>6, <3>1, MovesBy
  <2>2. \A k : k # "write" => CountOf(B, Len(B), k) = CountOf(A, Len(A), k)
    BY <1>5
  <2>3. Moves(I, A, B, n, n, "connect", Going(c), Going(c))
    <3>1. CountOf(B, Len(B), "connect") = CountOf(A, Len(A), "connect")
      BY <2>2
    <3> QED
      BY <1>1, <1>3, <1>7, <3>1, MovesBy
  <2>4. ASSUME NEW k \in {"bind", "listen", "close"} PROVE Moves(I, A, B, n, n, k, 0, 0)
    <3>1. CountOf(B, Len(B), k) = CountOf(A, Len(A), k)
      BY <2>2
    <3> QED
      BY <1>1, <1>3, <1>7, <3>1, MovesBy
  <2> QED
    BY <1>1, <1>3, <1>6, <2>1, <2>3, <2>4, CountedMoves
<1> QED
  BY <1>1, <1>2, <1>4, <1>8 DEF OpsOf

\* The oldest write is acknowledged in part.
LEMMA OpsCut ==
  ASSUME NEW s, NEW I, NEW O, NEW A, NEW W, NEW c, OpsOf(s, I, O, A, W, c),
         NEW V, Len(V) = Len(W), \A j \in 1..Len(W) : V[j].block = W[j].block
  PROVE  OpsOf(s, I, O, A, V, c)
<1>1. PICK n : n = Len(I) - Len(O)
  OBVIOUS
<1>2. WritesInOrder(s, A, W, n)
  BY <1>1 DEF OpsOf
<1>3. WritesInOrder(s, A, V, n)
  BY <1>2, OrderCut
<1> QED
  BY <1>1, <1>3 DEF OpsOf, Counted

\* What it is for: no kind of operation has more results than operations that
\* were submitted, and the writes are reported in order.
LEMMA OpsEnough ==
  ASSUME NEW s, NEW I, NEW O, NEW A, NEW W, NEW c, Typed(I, O, A, W), OpsOf(s, I, O, A, W, c)
  PROVE  /\ \A k \in Answerable : CountOf(A, Len(A), k) <= CountOf(I, Len(I), k)
         /\ \A i, j \in 1..Len(A) : i < j /\ A[i].kind = "write" /\ A[j].kind = "write" /\ A[i].ok /\ A[j].ok =>
              A[i].id < A[j].id
<1>1. /\ Len(I) \in Nat /\ Len(O) \in Nat /\ Len(A) \in Nat /\ Len(W) \in Nat
      /\ OpsPending(I, O)
  BY TypedIs DEF OpsOf
<1>2. PICK n \in Nat : n = Len(I) - Len(O) /\ n <= Len(I)
  <2>1. Len(I) - Len(O) <= Len(I) /\ Len(I) - Len(O) \in Nat
    BY <1>1 DEF OpsPending
  <2> QED
    BY <2>1
<1>3. n \in Nat /\ Counted(I, A, W, n, c)
  BY <1>2 DEF OpsOf
<1>4. ASSUME NEW k, NEW w \in Nat, Within(I, A, n, k, w) PROVE CountOf(A, Len(A), k) <= CountOf(I, Len(I), k)
  <2>1. CountOf(I, n, k) <= CountOf(I, Len(I), k)
    BY <1>1, <1>2, CountUpTo
  <2>2. PICK x, y, z \in Nat : x = CountOf(A, Len(A), k) /\ y = CountOf(I, n, k) /\ z = CountOf(I, Len(I), k)
    BY <1>1, <1>3, KindSets
  <2>3. x + w <= y /\ y <= z
    BY <1>4, <2>1, <2>2 DEF Within
  <2> QED
    BY <2>2, <2>3
<1>5. /\ \A k \in {"bind", "listen", "close"} : Within(I, A, n, k, 0)
      /\ Within(I, A, n, "write", Len(W)) /\ Within(I, A, n, "connect", Going(c))
  BY <1>1, <1>3, CountedIs
<1>6. 0 \in Nat /\ Going(c) \in Nat
  BY DEF Going
<1>7. \A k \in Answerable : CountOf(A, Len(A), k) <= CountOf(I, Len(I), k)
  BY <1>1, <1>4, <1>5, <1>6 DEF Answerable
<1> QED
  BY <1>1, <1>7 DEF OpsOf, WritesInOrder

\* A connect of the socket goes on.
Connecting(s) == pcb[s] # None /\ gen[pcb[s]] = own[s] /\ state[pcb[s]] = "connecting"

OpsInv == \A s \in Socket : OpsOf(s, issued[s], ops[s], answers[s], writeQueue[s], Connecting(s))

\* What one step may do to the operations of socket t.
OpsStays(t) ==
  /\ issued'[t] = issued[t] /\ ops'[t] = ops[t] /\ answers'[t] = answers[t] /\ writeQueue'[t] = writeQueue[t]
  /\ Connecting(t)' => Connecting(t)
OpsGrows(t) ==
  /\ \E op : op.id = Len(issued[t]) + 1 /\ More(issued'[t], issued[t], op) /\ More(ops'[t], ops[t], op)
  /\ answers'[t] = answers[t] /\ writeQueue'[t] = writeQueue[t] /\ Connecting(t)' = Connecting(t)
OpsEnds(t) ==
  /\ issued'[t] = issued[t] /\ Less(ops'[t], ops[t]) /\ writeQueue'[t] = writeQueue[t]
  /\ \E r : /\ More(answers'[t], answers[t], r) /\ r.kind = ops[t][1].kind /\ r.id = ops[t][1].id
            /\ r.kind = "write" => ~r.ok
  /\ Connecting(t)' => Connecting(t)
OpsGoesOn(t) ==
  /\ issued'[t] = issued[t] /\ Less(ops'[t], ops[t]) /\ answers'[t] = answers[t] /\ writeQueue'[t] = writeQueue[t]
  /\ Connecting(t)' => Connecting(t) \/ ops[t][1].kind = "connect"
OpsWrites(t) ==
  /\ issued'[t] = issued[t] /\ Less(ops'[t], ops[t]) /\ answers'[t] = answers[t] /\ ops[t][1].kind = "write"
  /\ \E e : More(writeQueue'[t], writeQueue[t], e) /\ e.block = <<t, ops[t][1].id>>
  /\ Connecting(t)' => Connecting(t)
OpsAnswered(t) ==
  /\ issued'[t] = issued[t] /\ ops'[t] = ops[t] /\ writeQueue'[t] = writeQueue[t]
  /\ \E r : /\ More(answers'[t], answers[t], r)
            /\ r.kind = "accept" \/ (r.kind = "connect" /\ Connecting(t) /\ ~Connecting(t)')
  /\ Connecting(t)' => Connecting(t)
OpsReports(t) ==
  /\ issued'[t] = issued[t] /\ ops'[t] = ops[t] /\ Connecting(t)' = Connecting(t)
  /\ Less(writeQueue'[t], writeQueue[t])
  /\ \E r : More(answers'[t], answers[t], r) /\ r.kind = "write" /\ r.id = writeQueue[t][1].block[2]
OpsCuts(t) ==
  /\ issued'[t] = issued[t] /\ ops'[t] = ops[t] /\ answers'[t] = answers[t] /\ Connecting(t)' = Connecting(t)
  /\ Len(writeQueue'[t]) = Len(writeQueue[t])
  /\ \A j \in 1..Len(writeQueue[t]) : writeQueue'[t][j].block = writeQueue[t][j].block
OpsMove(t) ==
  \/ OpsStays(t) \/ OpsGrows(t) \/ OpsEnds(t) \/ OpsGoesOn(t)
  \/ OpsWrites(t) \/ OpsAnswered(t) \/ OpsReports(t) \/ OpsCuts(t)

\* If every socket makes one of these moves, OpsInv stays.
LEMMA OpsMoved ==
  ASSUME Shape, Shape', OpsInv, \A t \in Socket : OpsMove(t)
  PROVE  OpsInv'
<1> SUFFICES ASSUME NEW t \in Socket
             PROVE  OpsOf(t, issued'[t], ops'[t], answers'[t], writeQueue'[t], Connecting(t)')
  BY DEF OpsInv
<1>1. PICK I, O, A, W : I = issued[t] /\ O = ops[t] /\ A = answers[t] /\ W = writeQueue[t]
  OBVIOUS
<1>2. PICK J, P, B, V : J = issued'[t] /\ P = ops'[t] /\ B = answers'[t] /\ V = writeQueue'[t]
  OBVIOUS
<1>3. PICK c, d \in BOOLEAN : c = Connecting(t) /\ d = Connecting(t)'
  <2>1. Connecting(t) \in BOOLEAN /\ Connecting(t)' \in BOOLEAN
    BY DEF Connecting
  <2> QED
    BY <2>1
<1>4. OpsOf(t, I, O, A, W, c) /\ Typed(I, O, A, W)
  BY <1>1, <1>3 DEF OpsInv, Typed, Shape
<1>5. Len(I) \in Nat /\ Len(O) \in Nat /\ Len(A) \in Nat /\ c \in BOOLEAN /\ d \in BOOLEAN
  BY <1>3, <1>4, TypedIs
<1>6. OpsMove(t)
  OBVIOUS
<1> SUFFICES OpsOf(t, J, P, B, V, d)
  BY <1>2, <1>3
<1>7. CASE OpsStays(t)
  <2>1. J = I /\ P = O /\ B = A /\ V = W /\ (d => c)
    BY <1>1, <1>2, <1>3, <1>7 DEF OpsStays
  <2> QED
    BY <1>4, <1>5, <2>1, OpsSame
<1>8. CASE OpsGrows(t)
  <2>1. PICK op : op.id = Len(I) + 1 /\ More(J, I, op) /\ More(P, O, op)
    BY <1>1, <1>2, <1>8 DEF OpsGrows
  <2>2. B = A /\ V = W /\ d = c
    BY <1>1, <1>2, <1>3, <1>8 DEF OpsGrows
  <2> QED
    BY <1>4, <2>1, <2>2, OpsSubmit
<1>9. CASE OpsEnds(t)
  <2>1. PICK r : More(B, A, r) /\ r.kind = O[1].kind /\ r.id = O[1].id /\ (r.kind = "write" => ~r.ok)
    BY <1>1, <1>2, <1>9 DEF OpsEnds
  <2>2. J = I /\ V = W /\ Less(P, O) /\ (d => c)
    BY <1>1, <1>2, <1>3, <1>9 DEF OpsEnds
  <2> QED
    BY <1>4, <1>5, <2>1, <2>2, OpsFinish
<1>10. CASE OpsGoesOn(t)
  <2>1. J = I /\ B = A /\ V = W /\ Less(P, O) /\ (d => c \/ O[1].kind = "connect")
    BY <1>1, <1>2, <1>3, <1>10 DEF OpsGoesOn
  <2> QED
    BY <1>4, <1>5, <2>1, OpsAsync
<1>11. CASE OpsWrites(t)
  <2>1. PICK e : More(V, W, e) /\ e.block = <<t, O[1].id>>
    BY <1>1, <1>2, <1>11 DEF OpsWrites
  <2>2. J = I /\ B = A /\ Less(P, O) /\ O[1].kind = "write" /\ (d => c)
    BY <1>1, <1>2, <1>3, <1>11 DEF OpsWrites
  <2> QED
    BY <1>4, <1>5, <2>1, <2>2, OpsWrite
<1>12. CASE OpsAnswered(t)
  <2>1. PICK r : More(B, A, r) /\ (r.kind = "accept" \/ (r.kind = "connect" /\ c /\ ~d))
    BY <1>1, <1>2, <1>3, <1>12 DEF OpsAnswered
  <2>2. J = I /\ P = O /\ V = W /\ (d => c)
    BY <1>1, <1>2, <1>3, <1>12 DEF OpsAnswered
  <2> QED
    BY <1>4, <1>5, <2>1, <2>2, OpsAnswer
<1>13. CASE OpsReports(t)
  <2>1. PICK r : More(B, A, r) /\ r.kind = "write" /\ r.id = W[1].block[2]
    BY <1>1, <1>2, <1>13 DEF OpsReports
  <2>2. J = I /\ P = O /\ Less(V, W) /\ d = c
    BY <1>1, <1>2, <1>3, <1>13 DEF OpsReports
  <2> QED
    BY <1>4, <1>5, <2>1, <2>2, OpsSent
<1>14. CASE OpsCuts(t)
  <2>1. J = I /\ P = O /\ B = A /\ d = c /\ Len(V) = Len(W) /\ \A j \in 1..Len(W) : V[j].block = W[j].block
    BY <1>1, <1>2, <1>3, <1>14 DEF OpsCuts
  <2> QED
    BY <1>4, <2>1, OpsCut
<1> QED
  BY <1>6, <1>7, <1>8, <1>9, <1>10, <1>11, <1>12, <1>13, <1>14 DEF OpsMove

\* No connect starts; connects are as they were.
ConnFall == \A t \in Socket : Connecting(t)' => Connecting(t)

\* Gains and Loses, as More and Less.
LEMMA MoreLess ==
  ASSUME NEW g, NEW f, NEW s \in Socket
  PROVE  /\ \A r : Gains(g, f, s, r) => More(g[s], f[s], r) /\ \A t \in Socket : t # s => g[t] = f[t]
         /\ Loses(g, f, s) => Less(g[s], f[s]) /\ \A t \in Socket : t # s => g[t] = f[t]
BY DEF Gains, Loses, More, Less

\* No pcb starts to connect.
LEMMA FallBy ==
  ASSUME Shape, Shape', pcb' = pcb, own' = own,
         \A p \in AnyPcb : state'[p] = "connecting" => state[p] = "connecting" /\ gen'[p] = gen[p]
  PROVE  ConnFall
<1>1. ASSUME NEW t \in Socket, Connecting(t)' PROVE Connecting(t)
  <2>1. pcb[t] \in AnyPcb /\ gen'[pcb[t]] = own[t] /\ state'[pcb[t]] = "connecting" /\ pcb[t] # None
    BY <1>1 DEF Connecting, Shape
  <2> QED
    BY <2>1 DEF Connecting
<1> QED
  BY <1>1 DEF ConnFall

\* Nothing happens to any socket.
LEMMA OpsAllStay ==
  ASSUME ConnFall, UNCHANGED <<issued, ops, answers, writeQueue>>
  PROVE  \A t \in Socket : OpsMove(t)
BY DEF OpsMove, OpsStays, ConnFall

\* An operation that ends at once, and is no write that succeeds.
LEMMA OpsFinished ==
  ASSUME Shape, NEW s \in Socket, ops[s] # <<>>, NEW ok \in BOOLEAN, Finish(s, ok), Op(s).kind = "write" => ~ok,
         ConnFall, UNCHANGED <<issued, writeQueue>>
  PROVE  \A t \in Socket : OpsMove(t)
<1>1. PICK r : FinishedWith(s, r, ok)
  BY FinishIs
<1>2. /\ Less(ops'[s], ops[s]) /\ More(answers'[s], answers[s], r)
      /\ \A t \in Socket : t # s => ops'[t] = ops[t] /\ answers'[t] = answers[t]
  <2>1. Loses(ops', ops, s) /\ Gains(answers', answers, s, r)
    BY <1>1 DEF FinishedWith
  <2>2. Less(ops'[s], ops[s]) /\ \A t \in Socket : t # s => ops'[t] = ops[t]
    BY <2>1, MoreLess
  <2>3. More(answers'[s], answers[s], r) /\ \A t \in Socket : t # s => answers'[t] = answers[t]
    BY <2>1, MoreLess
  <2> QED
    BY <2>2, <2>3
<1>3. r.kind = ops[s][1].kind /\ r.id = ops[s][1].id /\ (r.kind = "write" => ~r.ok)
  BY <1>1, OpIs DEF FinishedWith
<1>4. OpsEnds(s)
  BY <1>2, <1>3 DEF OpsEnds, ConnFall
<1>5. \A t \in Socket : t # s => OpsStays(t)
  BY <1>2 DEF OpsStays, ConnFall
<1> QED
  BY <1>4, <1>5 DEF OpsMove

\* An operation that goes on.
LEMMA OpsGoneOn ==
  ASSUME Shape, NEW s \in Socket, ops[s] # <<>>, Async(s), UNCHANGED <<issued, writeQueue>>,
         \A t \in Socket : Connecting(t)' => Connecting(t) \/ (t = s /\ Op(s).kind = "connect")
  PROVE  \A t \in Socket : OpsMove(t)
<1>1. AsyncWith(s)
  BY AsyncIs
<1>2. Less(ops'[s], ops[s]) /\ answers' = answers /\ \A t \in Socket : t # s => ops'[t] = ops[t]
  <2>1. Loses(ops', ops, s) /\ answers' = answers
    BY <1>1 DEF AsyncWith
  <2> QED
    BY <2>1, MoreLess
<1>3. OpsGoesOn(s)
  BY <1>2, OpIs DEF OpsGoesOn
<1>4. \A t \in Socket : t # s => OpsStays(t)
  BY <1>2 DEF OpsStays
<1> QED
  BY <1>3, <1>4 DEF OpsMove

\* An operation is submitted.
LEMMA OpsSubmitted ==
  ASSUME Shape, NEW s \in Socket, NEW k \in AllKinds, NEW n \in Nat, Submit(s, k, n)
  PROVE  \A t \in Socket : OpsMove(t)
<1>1. PICK op : op = [kind |-> k, id |-> Len(issued[s]) + 1, size |-> n]
  OBVIOUS
<1>2. op \in OpRec /\ op.id = Len(issued[s]) + 1
  <2>1. Len(issued[s]) \in Nat
    <3>1. issued[s] \in Seq(OpRec)
      BY DEF Shape
    <3> QED
      BY <3>1, LenProperties
  <2> QED
    BY <1>1, <2>1 DEF OpRec
<1>3. Append1(issued', issued, s, op) /\ Append1(ops', ops, s, op)
  BY <1>1 DEF Submit, Append1
<1>4. Gains(issued', issued, s, op) /\ Gains(ops', ops, s, op)
  <2>1. issued \in [Socket -> Seq(OpRec)] /\ ops \in [Socket -> Seq(OpRec)]
    BY DEF Shape
  <2> QED
    BY <1>2, <1>3, <2>1, GainsIs
<1>5. UNCHANGED <<answers, writeQueue, pcb, own, gen, state>>
  BY DEF Submit, lwipVars, sockVars, resVars
<1>6. OpsGrows(s)
  <2>1. More(issued'[s], issued[s], op)
    BY <1>4, MoreLess
  <2>2. More(ops'[s], ops[s], op)
    BY <1>4, MoreLess
  <2>3. \A t \in Socket : Connecting(t)' = Connecting(t)
    BY <1>5 DEF Connecting
  <2> QED
    BY <1>2, <1>5, <2>1, <2>2, <2>3 DEF OpsGrows
<1>7. \A t \in Socket : t # s => OpsStays(t)
  <2>1. \A t \in Socket : t # s => issued'[t] = issued[t]
    BY <1>4, MoreLess
  <2>2. \A t \in Socket : t # s => ops'[t] = ops[t]
    BY <1>4, MoreLess
  <2>3. \A t \in Socket : Connecting(t)' = Connecting(t)
    BY <1>5 DEF Connecting
  <2> QED
    BY <1>5, <2>1, <2>2, <2>3 DEF OpsStays
<1> QED
  BY <1>6, <1>7 DEF OpsMove

\* A write is queued.
LEMMA OpsWritten ==
  ASSUME Shape, NEW s \in Socket, Write(s)
  PROVE  \A t \in Socket : OpsMove(t)
<1>1. ops[s] # <<>> /\ Op(s).kind = "write"
  BY PerformingIs DEF Write
<1>2. UNCHANGED <<issued, pcb, own, gen, state>> /\ ConnFall
  BY WriteIs DEF ConnFall, Connecting
<1>3. CASE main' = Idle /\ UNCHANGED <<unacked, writeQueue, ops, cqueue, answers>>
  BY <1>2, <1>3, OpsAllStay
<1>4. CASE Finish(s, FALSE) /\ UNCHANGED <<unacked, writeQueue>>
  BY <1>1, <1>2, <1>4, OpsFinished
<1>5. CASE Append1(writeQueue', writeQueue, s, Entry(s)) /\ AsyncWith(s)
  <2>1. writeQueue \in [Socket -> Seq(WEntry)] /\ Entry(s) \in WEntry /\ Entry(s).block = <<s, Op(s).id>>
    BY <1>1, EntryIs DEF Shape
  <2>2. PICK e : e = Entry(s)
    OBVIOUS
  <2>3. Gains(writeQueue', writeQueue, s, e)
    BY <1>5, <2>1, <2>2, GainsIs
  <2>4. /\ Less(ops'[s], ops[s]) /\ More(writeQueue'[s], writeQueue[s], e) /\ answers' = answers
        /\ \A t \in Socket : t # s => ops'[t] = ops[t] /\ writeQueue'[t] = writeQueue[t]
    <3>1. Loses(ops', ops, s) /\ answers' = answers
      BY <1>5 DEF AsyncWith
    <3>2. Less(ops'[s], ops[s]) /\ \A t \in Socket : t # s => ops'[t] = ops[t]
      BY <3>1, MoreLess
    <3>3. More(writeQueue'[s], writeQueue[s], e) /\ \A t \in Socket : t # s => writeQueue'[t] = writeQueue[t]
      BY <2>3, MoreLess
    <3> QED
      BY <3>1, <3>2, <3>3
  <2>5. e.block = <<s, ops[s][1].id>> /\ ops[s][1].kind = "write"
    BY <1>1, <2>1, <2>2, OpIs
  <2>6. OpsWrites(s)
    BY <1>2, <2>4, <2>5 DEF OpsWrites, ConnFall
  <2>7. \A t \in Socket : t # s => OpsStays(t)
    BY <1>2, <2>4 DEF OpsStays, ConnFall
  <2> QED
    BY <2>6, <2>7 DEF OpsMove
<1> QED
  BY <1>3, <1>4, <1>5, WriteIs

\* tcp_sent_callback reports the first write, or leaves its entry shorter.
LEMMA OpsDelivered ==
  ASSUME Shape, Sent
  PROVE  \A t \in Socket : OpsMove(t)
<1>1. /\ UNCHANGED <<issued, ops, pcb, own, gen, state>> /\ ConnFall
      /\ \A t \in Socket : Connecting(t)' = Connecting(t)
  BY SentIs DEF ConnFall, Connecting, lwipVars, appVars
<1>2. CASE UNCHANGED <<writeQueue, cqueue, answers, main>>
  BY <1>1, <1>2, OpsAllStay
<1>3. ASSUME NEW s \in Socket, NEW e \in WEntry, writeQueue[s] # <<>>, e = writeQueue[s][1],
             Tail1(writeQueue', writeQueue, s), Report(s, Result("write", e.block[2], TRUE))
      PROVE  \A t \in Socket : OpsMove(t)
  <2>1. PICK r : r = Result("write", e.block[2], TRUE)
    OBVIOUS
  <2>2. r \in ResRec /\ r.kind = "write" /\ r.id = writeQueue[s][1].block[2]
    <3>1. e.block[2] \in Nat
      BY DEF WEntry
    <3>2. "write" \in AllKinds
      BY DEF AllKinds
    <3> QED
      <4>1. e.block[2] = writeQueue[s][1].block[2]
        BY <1>3
      <4>2. PICK b \in Nat : b = e.block[2]
        BY <3>1
      <4>3. /\ Result("write", b, TRUE) \in ResRec
            /\ Result("write", b, TRUE).kind = "write" /\ Result("write", b, TRUE).id = b
        BY <3>2, ResultIs
      <4>4. r = Result("write", b, TRUE)
        BY <2>1, <4>2
      <4> QED
        BY <4>1, <4>2, <4>3, <4>4
  <2>3. Gains(answers', answers, s, r)
    BY <1>3, <2>1, <2>2, ReportIs
  <2>4. Loses(writeQueue', writeQueue, s)
    BY <1>3, LosesIs DEF Shape
  <2>5. OpsReports(s)
    <3>1. More(answers'[s], answers[s], r) /\ \A t \in Socket : t # s => answers'[t] = answers[t]
      BY <2>3, MoreLess
    <3>2. Less(writeQueue'[s], writeQueue[s]) /\ \A t \in Socket : t # s => writeQueue'[t] = writeQueue[t]
      BY <2>4, MoreLess
    <3> QED
      BY <1>1, <2>2, <3>1, <3>2 DEF OpsReports
  <2>6. \A t \in Socket : t # s => OpsStays(t)
    <3>1. More(answers'[s], answers[s], r) /\ \A t \in Socket : t # s => answers'[t] = answers[t]
      BY <2>3, MoreLess
    <3>2. Less(writeQueue'[s], writeQueue[s]) /\ \A t \in Socket : t # s => writeQueue'[t] = writeQueue[t]
      BY <2>4, MoreLess
    <3> QED
      BY <1>1, <3>1, <3>2 DEF OpsStays
  <2> QED
    BY <2>5, <2>6 DEF OpsMove
<1>4. ASSUME NEW s \in Socket, NEW e \in WEntry, writeQueue[s] # <<>>, e = writeQueue[s][1], ~(e.size <= main.len),
             Shrink1(writeQueue', writeQueue, s, main.len), answers' = answers
      PROVE  \A t \in Socket : OpsMove(t)
  <2>1. main.len \in Nat /\ e.size \in Nat /\ writeQueue[s][1].size >= main.len
    BY <1>4, SentIs DEF WEntry
  <2>2. PICK d \in WEntry : d.block = writeQueue[s][1].block /\ Replaces(writeQueue', writeQueue, s, d)
    BY <1>4, <2>1, ShrinkIs DEF Shape
  <2>3. /\ Len(writeQueue'[s]) = Len(writeQueue[s])
        /\ \A j \in 1..Len(writeQueue[s]) : writeQueue'[s][j].block = writeQueue[s][j].block
        /\ \A t \in Socket : t # s => writeQueue'[t] = writeQueue[t]
    <3>1. PICK l \in Nat : l = Len(writeQueue[s])
      BY <2>2 DEF Replaces
    <3>2. \A j \in 1..l : j = 1 \/ j \in 2..l
      BY <3>1
    <3> QED
      BY <2>2, <3>1, <3>2 DEF Replaces
  <2>4. OpsCuts(s)
    BY <1>1, <1>4, <2>3 DEF OpsCuts
  <2>5. \A t \in Socket : t # s => OpsStays(t)
    BY <1>1, <1>4, <2>3 DEF OpsStays
  <2> QED
    BY <2>4, <2>5 DEF OpsMove
<1> QED
  BY <1>2, <1>3, <1>4, SentIs

\* A SYN is answered: the connect has its result.
LEMMA OpsConnected ==
  ASSUME Shape, Shape', Holding, NEW p \in Pcb, SynAck(p)
  PROVE  \A t \in Socket : OpsMove(t)
<1>1. /\ state[p] = "connecting" /\ state' = [state EXCEPT ![p] = "open"] /\ p \in AnyPcb
      /\ UNCHANGED <<issued, ops, writeQueue, pcb, own, gen>>
  BY ConnectedIs DEF sockVars, appVars, AnyPcb
<1>2. state'[p] = "open" /\ \A q \in AnyPcb : q # p => state'[q] = state[q]
  BY <1>1 DEF Shape
<1>3. ConnFall
  BY <1>1, <1>2, FallBy
<1>4. ASSUME NEW s \in Socket, s = arg[p] PROVE Connecting(s) /\ ~Connecting(s)'
  <2>1. SockHolds(s, p)
    BY <1>1, <1>4, ConstantFacts DEF Holding, ArgRight, Live
  <2>2. pcb[s] = p /\ own[s] = gen[p] /\ p # None
    BY <2>1, ConstantFacts DEF SockHolds
  <2>3. Connecting(s)
    BY <1>1, <2>2 DEF Connecting
  <2>4. ~Connecting(s)'
    BY <1>1, <1>2, <2>2 DEF Connecting
  <2> QED
    BY <2>3, <2>4
<1>5. CASE answers' = answers
  BY <1>1, <1>3, <1>5, OpsAllStay
<1>6. ASSUME NEW s \in Socket, NEW r \in ResRec, s = arg[p], r.kind = "connect", Gains(answers', answers, s, r)
      PROVE  \A t \in Socket : OpsMove(t)
  <2>1. More(answers'[s], answers[s], r) /\ \A t \in Socket : t # s => answers'[t] = answers[t]
    <3>1. Gains(answers', answers, s, r)
      BY <1>6
    <3> QED
      BY <3>1, MoreLess
  <2>2. OpsAnswered(s)
    BY <1>1, <1>3, <1>4, <1>6, <2>1 DEF OpsAnswered, ConnFall
  <2>3. \A t \in Socket : t # s => OpsStays(t)
    BY <1>1, <1>3, <2>1 DEF OpsStays, ConnFall
  <2> QED
    BY <2>2, <2>3 DEF OpsMove
<1> QED
  BY <1>5, <1>6, ConnectedIs

\* A connection is accepted.
LEMMA OpsAccepted ==
  ASSUME Shape, Shape', NEW l \in ListenPcb, Incoming(l) \/ IncomingNoMem(l)
  PROVE  \A t \in Socket : OpsMove(t)
<1>1. UNCHANGED <<issued, ops, writeQueue, pcb, own>>
  BY DEF Incoming, IncomingNoMem, sockVars, appVars
<1>2. ConnFall
  <2>1. CASE IncomingNoMem(l)
    BY <1>1, <2>1, FallBy DEF IncomingNoMem, lwipVars
  <2>2. CASE Incoming(l)
    <3>1. PICK p \in Pcb : Alloc(p, "open", None)
      BY <2>2, IncomingIs
    <3>2. p \in AnyPcb
      BY DEF AnyPcb
    <3>3. state'[p] = "open" /\ \A q \in AnyPcb : q # p => gen'[q] = gen[q] /\ state'[q] = state[q]
      BY <3>1, <3>2, AllocIs
    <3> QED
      BY <1>1, <3>3, FallBy
  <2> QED
    BY <2>1, <2>2
<1>3. CASE answers' = answers
  BY <1>1, <1>2, <1>3, OpsAllStay
<1>4. ASSUME NEW s \in Socket, NEW r \in ResRec, r.kind = "accept", Gains(answers', answers, s, r)
      PROVE  \A t \in Socket : OpsMove(t)
  <2>1. More(answers'[s], answers[s], r) /\ \A t \in Socket : t # s => answers'[t] = answers[t]
    <3>1. Gains(answers', answers, s, r)
      BY <1>4
    <3> QED
      BY <3>1, MoreLess
  <2>2. OpsAnswered(s)
    BY <1>1, <1>2, <2>1, <1>4 DEF OpsAnswered, ConnFall
  <2>3. \A t \in Socket : t # s => OpsStays(t)
    BY <1>1, <1>2, <2>1 DEF OpsStays, ConnFall
  <2> QED
    BY <2>2, <2>3 DEF OpsMove
<1>5. \E p \in Pcb \union {None}, g \in Nat : Accepted(arg[l], p, g)
  <2>1. CASE Incoming(l)
    <3>1. PICK p \in Pcb : gen[p] \in Nat /\ Accepted(arg[l], p, gen[p] + 1)
      BY <2>1, IncomingIs
    <3>2. p \in Pcb \union {None} /\ gen[p] + 1 \in Nat
      BY <3>1
    <3> QED
      BY <3>1, <3>2
  <2>2. CASE IncomingNoMem(l)
    <3>1. Accepted(arg[l], None, 0) /\ None \in Pcb \union {None} /\ 0 \in Nat
      BY <2>2 DEF IncomingNoMem
    <3> QED
      BY <3>1
  <2> QED
    BY <2>1, <2>2
<1>6. PICK p \in Pcb \union {None}, g \in Nat : Accepted(arg[l], p, g)
  BY <1>5
<1> QED
  BY <1>3, <1>4, <1>6, AcceptedIs

\* A socket that gets a pcb, or another one, is not connecting with it.
LEMMA TakesFalls ==
  ASSUME Shape, Shape'
  PROVE  /\ \A s \in Socket : NewPcb(s) => ConnFall /\ UNCHANGED <<issued, ops, answers, writeQueue>>
         /\ \A s \in Socket : Listen(s) => ConnFall /\ UNCHANGED <<issued, writeQueue>>
<1>1. ASSUME NEW s \in Socket, NewPcb(s) PROVE ConnFall /\ UNCHANGED <<issued, ops, answers, writeQueue>>
  <2>1. UNCHANGED <<issued, ops, answers, writeQueue>>
    BY <1>1, NewPcbIs DEF appVars, resVars
  <2>2. CASE UNCHANGED <<state, gen, arg, pcb, own, main>>
    BY <2>1, <2>2 DEF ConnFall, Connecting
  <2>3. ASSUME NEW p \in Pcb, Alloc(p, "new", s), pcb' = [pcb EXCEPT ![s] = p], own' = [own EXCEPT ![s] = gen[p] + 1]
        PROVE  ConnFall
    <3>1. state'[p] = "new" /\ \A q \in AnyPcb : q # p => gen'[q] = gen[q] /\ state'[q] = state[q]
      BY <2>3, AllocIs DEF AnyPcb
    <3>2. pcb'[s] = p /\ \A t \in Socket : t # s => pcb'[t] = pcb[t] /\ own'[t] = own[t]
      BY <2>3 DEF Shape
    <3>3. ASSUME NEW t \in Socket, Connecting(t)' PROVE Connecting(t)
      <4>1. state'[pcb'[t]] = "connecting" /\ pcb'[t] # None /\ gen'[pcb'[t]] = own'[t]
        BY <3>3 DEF Connecting
      <4>2. pcb'[t] # p /\ t # s
        BY <3>1, <3>2, <4>1
      <4>3. pcb[t] \in AnyPcb /\ pcb[t] # p /\ pcb'[t] = pcb[t] /\ own'[t] = own[t]
        BY <3>2, <4>1, <4>2 DEF Shape
      <4> QED
        BY <3>1, <4>1, <4>3 DEF Connecting
    <3> QED
      BY <3>3 DEF ConnFall
  <2> QED
    BY <1>1, <2>1, <2>2, <2>3, NewPcbIs
<1>2. ASSUME NEW s \in Socket, Listen(s) PROVE ConnFall /\ UNCHANGED <<issued, writeQueue>>
  <2>1. UNCHANGED <<issued, writeQueue>>
    BY <1>2, ListenIs
  <2>2. CASE UNCHANGED <<state, gen, arg, accepting, pcb, own>>
    BY <2>1, <2>2 DEF ConnFall, Connecting
  <2>3. ASSUME NEW l \in ListenPcb, NEW p \in Pcb, p = pcb[s],
               state' = [state EXCEPT ![p] = "free", ![l] = "listen"],
               gen' = [gen EXCEPT ![l] = gen[l] + 1],
               pcb' = [pcb EXCEPT ![s] = l], own' = [own EXCEPT ![s] = gen[l] + 1]
        PROVE  ConnFall
    <3>1. /\ DOMAIN state = AnyPcb /\ DOMAIN gen = AnyPcb /\ l \in AnyPcb /\ p \in AnyPcb /\ p # l
      BY ConstantFacts DEF Shape, AnyPcb
    <3>2. \A q \in AnyPcb : state'[q] = IF q = l THEN "listen" ELSE IF q = p THEN "free" ELSE state[q]
      BY <2>3, <3>1
    <3>3. \A q \in AnyPcb : q # l => gen'[q] = gen[q]
      BY <2>3, <3>1
    <3>4. pcb'[s] = l /\ \A t \in Socket : t # s => pcb'[t] = pcb[t] /\ own'[t] = own[t]
      BY <2>3 DEF Shape
    <3>5. ASSUME NEW t \in Socket, Connecting(t)' PROVE Connecting(t)
      <4>1. state'[pcb'[t]] = "connecting" /\ pcb'[t] # None /\ gen'[pcb'[t]] = own'[t] /\ pcb'[t] \in AnyPcb
        BY <3>5 DEF Connecting, Shape
      <4>2. pcb'[t] # l /\ pcb'[t] # p /\ state[pcb'[t]] = "connecting"
        BY <3>2, <4>1
      <4>3. pcb'[t] = pcb[t] /\ own'[t] = own[t]
        BY <3>4, <4>2
      <4> QED
        BY <3>3, <4>1, <4>2, <4>3 DEF Connecting
    <3> QED
      BY <3>5 DEF ConnFall
  <2> QED
    BY <1>2, <2>1, <2>2, <2>3, ListenIs
<1> QED
  BY <1>1, <1>2

\* SetPcb gives a socket a connection, which is open or was lost.
LEMMA OpsSetPcb ==
  ASSUME Shape, Shape', Holding, SetPcb
  PROVE  \A t \in Socket : OpsMove(t)
<1>1. /\ UNCHANGED <<issued, ops, answers, writeQueue, state, arg, gen>> /\ making # Nobody
      /\ pcb' = [pcb EXCEPT ![making.who] = making.pcb] /\ own' = [own EXCEPT ![making.who] = making.gen]
  BY DEF SetPcb, TakePcb, lwipVars, resVars
<1>2. PICK w \in Socket : w = making.who
  BY <1>1 DEF Shape
<1>3. pcb'[w] = making.pcb /\ own'[w] = making.gen /\ \A t \in Socket : t # w => pcb'[t] = pcb[t] /\ own'[t] = own[t]
  BY <1>1, <1>2 DEF Shape
<1>4. ASSUME NEW p \in AnyPcb, MakeHolds(p), state[p] = "connecting" PROVE FALSE
  <2>1. Live(p) /\ OneSock(p)
    BY <1>4 DEF Holding, OneHolder, Live
  <2>2. arg[p] # None /\ arg[p] \in Socket /\ SockHolds(arg[p], p)
    BY <1>4, <2>1 DEF Holding, ArgRight, Shape
  <2> QED
    BY <1>4, <2>1, <2>2 DEF OneSock
<1>5. ASSUME NEW t \in Socket, Connecting(t)' PROVE Connecting(t)
  <2>1. pcb'[t] # None /\ gen[pcb'[t]] = own'[t] /\ state[pcb'[t]] = "connecting" /\ pcb'[t] \in AnyPcb
    <3>1. pcb'[t] # None /\ gen'[pcb'[t]] = own'[t] /\ state'[pcb'[t]] = "connecting"
      BY <1>5 DEF Connecting
    <3>2. pcb' \in [Socket -> AnyPcb \union {None}]
      BY DEF Shape
    <3>3. gen' = gen /\ state' = state
      BY <1>1
    <3> QED
      BY <3>1, <3>2, <3>3
  <2>2. CASE t = w
    BY <1>3, <1>4, <2>1, <2>2 DEF MakeHolds
  <2>3. CASE t # w
    BY <1>3, <2>1, <2>3 DEF Connecting
  <2> QED
    BY <2>2, <2>3
<1> QED
  BY <1>1, <1>5, OpsAllStay DEF ConnFall

\* A connect starts or fails.
LEMMA OpsConnect ==
  ASSUME Shape, Shape', Holding, NEW s \in Socket, Connect(s)
  PROVE  \A t \in Socket : OpsMove(t)
<1>1. /\ ops[s] # <<>> /\ Op(s).kind = "connect" /\ pcb[s] \in AnyPcb /\ Live(pcb[s]) /\ own[s] = gen[pcb[s]]
      /\ UNCHANGED <<issued, writeQueue, pcb, own, gen>>
  BY PerformingIs DEF Connect, sockVars
<1>2. CASE Finish(s, FALSE) /\ UNCHANGED state
  <2>1. ConnFall
    BY <1>1, <1>2, FallBy
  <2> QED
    BY <1>1, <1>2, <2>1, OpsFinished
<1>3. CASE TcpConnect(pcb[s]) /\ Async(s)
  <2>1. \A q \in AnyPcb : q # pcb[s] => state'[q] = state[q]
    BY <1>1, <1>3 DEF TcpConnect, Shape
  <2>2. \A t \in Socket : pcb[t] = pcb[s] /\ own[t] = own[s] => t = s
    BY <1>1 DEF Holding, OneHolder, OneSock, SockHolds
  <2>3. ASSUME NEW t \in Socket, Connecting(t)', t # s PROVE Connecting(t)
    <3>1. pcb[t] # None /\ gen[pcb[t]] = own[t] /\ state'[pcb[t]] = "connecting" /\ pcb[t] \in AnyPcb
      BY <1>1, <2>3 DEF Connecting, Shape
    <3>2. pcb[t] # pcb[s]
      BY <1>1, <2>2, <2>3, <3>1
    <3> QED
      BY <2>1, <3>1, <3>2 DEF Connecting
  <2>4. \A t \in Socket : Connecting(t)' => Connecting(t) \/ (t = s /\ Op(s).kind = "connect")
    BY <1>1, <2>3
  <2> QED
    BY <1>1, <1>3, <2>4, OpsGoneOn
<1> QED
  BY <1>2, <1>3 DEF Connect

\* The operations that start no connect.
LEMMA OpsPerformed ==
  ASSUME Shape, Shape', NEW s \in Socket
  PROVE  /\ Bind(s) => \A t \in Socket : OpsMove(t)
         /\ Accept(s) => \A t \in Socket : OpsMove(t)
         /\ Close(s) => \A t \in Socket : OpsMove(t)
         /\ Listen(s) => \A t \in Socket : OpsMove(t)
<1>1. ASSUME Bind(s) PROVE \A t \in Socket : OpsMove(t)
  <2>1. ops[s] # <<>> /\ Op(s).kind = "bind" /\ Finish(s, TRUE) /\ UNCHANGED <<issued, writeQueue>>
    BY <1>1, PerformingIs DEF Bind, sockVars
  <2>2. ConnFall
    BY <1>1 DEF Bind, lwipVars, sockVars, ConnFall, Connecting
  <2> QED
    BY <2>1, <2>2, OpsFinished
<1>2. ASSUME Accept(s) PROVE \A t \in Socket : OpsMove(t)
  <2>1. ops[s] # <<>> /\ Async(s) /\ UNCHANGED <<issued, writeQueue>>
    BY <1>2, PerformingIs DEF Accept, sockVars
  <2>2. \A t \in Socket : Connecting(t)' => Connecting(t)
    BY <1>2 DEF Accept, sockVars, Connecting
  <2> QED
    BY <2>1, <2>2, OpsGoneOn
<1>3. ASSUME Close(s) PROVE \A t \in Socket : OpsMove(t)
  <2>1. ops[s] # <<>> /\ Op(s).kind = "close" /\ Finish(s, TRUE) /\ UNCHANGED <<issued, writeQueue, pcb, own, gen>>
        /\ pcb[s] \in AnyPcb
    BY <1>3, PerformingIs DEF Close, sockVars
  <2>2. PICK st \in {"closing", "free"} : state' = [state EXCEPT ![pcb[s]] = st]
    BY <1>3, Removed DEF Removes
  <2>3. \A q \in AnyPcb : state'[q] = "connecting" => state[q] = "connecting"
    <3>1. \A q \in AnyPcb : state'[q] = state[q] \/ state'[q] = st
      BY <2>1, <2>2 DEF Shape
    <3> QED
      BY <3>1, <2>2
  <2>4. ConnFall
    BY <2>1, <2>3, FallBy
  <2> QED
    BY <2>1, <2>4, OpsFinished
<1>4. ASSUME Listen(s) PROVE \A t \in Socket : OpsMove(t)
  <2>1. ops[s] # <<>> /\ Op(s).kind = "listen"
    BY <1>4, PerformingIs DEF Listen
  <2>2. PICK ok \in BOOLEAN : Finish(s, ok)
    BY <1>4, ListenIs
  <2> QED
    BY <1>4, <2>1, <2>2, TakesFalls, OpsFinished
<1> QED
  BY <1>1, <1>2, <1>3, <1>4

\* Events that leave the operations alone.
LEMMA OpsEvents ==
  ASSUME Shape, Shape', NEW p \in Pcb
  PROVE  /\ \A n \in 1..Held(p) : Ack(p, n) => \A t \in Socket : OpsMove(t)
         /\ Reset(p) => \A t \in Socket : OpsMove(t)
         /\ Gone(p) => \A t \in Socket : OpsMove(t)
<1>1. ASSUME NEW n \in 1..Held(p), Ack(p, n) PROVE \A t \in Socket : OpsMove(t)
  <2>1. UNCHANGED <<state, gen, pcb, own, issued, ops, answers, writeQueue>>
    BY <1>1, AckIs DEF sockVars, appVars, resVars
  <2>2. ConnFall
    BY <2>1 DEF ConnFall, Connecting
  <2> QED
    BY <2>1, <2>2, OpsAllStay
<1>2. ASSUME Reset(p) \/ Gone(p) PROVE \A t \in Socket : OpsMove(t)
  <2>1. UNCHANGED <<gen, pcb, own, issued, ops, answers, writeQueue>> /\ p \in AnyPcb
    BY <1>2 DEF Reset, Gone, sockVars, appVars, resVars, AnyPcb
  <2>2. state' = [state EXCEPT ![p] = "free"]
    BY <1>2, Removed DEF Removes
  <2>3. \A q \in AnyPcb : state'[q] = "connecting" => state[q] = "connecting"
    BY <2>1, <2>2 DEF Shape
  <2>4. ConnFall
    BY <2>1, <2>3, FallBy
  <2> QED
    BY <2>1, <2>4, OpsAllStay
<1> QED
  BY <1>1, <1>2

\* Every step is such a move for every socket.
LEMMA OpsStep ==
  ASSUME Shape, Shape', Holding, OpsInv, Steps
  PROVE  OpsInv'
<1>1. ASSUME UNCHANGED <<state, gen, pcb, own, issued, ops, answers, writeQueue>> PROVE \A t \in Socket : OpsMove(t)
  <2>1. ConnFall
    BY <1>1 DEF ConnFall, Connecting
  <2> QED
    BY <1>1, <2>1, OpsAllStay
<1>2. Create \/ (\E s \in Socket : Dequeue(s) \/ Map(s) \/ Stale(s)) => \A t \in Socket : OpsMove(t)
  <2>1. Create => UNCHANGED <<state, gen, pcb, own, issued, ops, answers, writeQueue>>
    BY DEF Create, lwipVars, appVars, resVars
  <2>2. \A s \in Socket : Dequeue(s) => UNCHANGED <<state, gen, pcb, own, issued, ops, answers, writeQueue>>
    BY DEF Dequeue, lwipVars
  <2>3. \A s \in Socket : Map(s) => UNCHANGED <<state, gen, pcb, own, issued, ops, answers, writeQueue>>
    BY DEF Map, appVars, resVars
  <2>4. \A s \in Socket : Stale(s) => UNCHANGED <<state, gen, pcb, own, issued, ops, answers, writeQueue>>
    BY DEF Stale, lwipVars, sockVars, appVars, resVars
  <2> QED
    BY <1>1, <2>1, <2>2, <2>3, <2>4
<1>3. \A s \in Socket : NewPcb(s) => \A t \in Socket : OpsMove(t)
  BY TakesFalls, OpsAllStay
<1>4. \A s \in Socket : Bind(s) \/ Listen(s) \/ Accept(s) \/ Close(s) => \A t \in Socket : OpsMove(t)
  BY OpsPerformed
<1>5. \A s \in Socket : Connect(s) \/ Write(s) => \A t \in Socket : OpsMove(t)
  BY OpsConnect, OpsWritten
<1>6. \A s \in Socket, k \in AllKinds, n \in Nat : Submit(s, k, n) => \A t \in Socket : OpsMove(t)
  BY OpsSubmitted
<1>7. \A p \in Pcb : SynAck(p) \/ Reset(p) \/ Gone(p) \/ (\E n \in 1..Held(p) : Ack(p, n)) =>
        \A t \in Socket : OpsMove(t)
  BY OpsConnected, OpsEvents
<1>8. \A l \in ListenPcb : Incoming(l) \/ IncomingNoMem(l) => \A t \in Socket : OpsMove(t)
  BY OpsAccepted
<1>9. Sent \/ SetPcb => \A t \in Socket : OpsMove(t)
  BY OpsDelivered, OpsSetPcb
<1>10. \A t \in Socket : OpsMove(t)
  BY <1>2, <1>3, <1>4, <1>5, <1>6, <1>7, <1>8, <1>9 DEF Steps
<1> QED
  BY <1>10, OpsMoved

\* OpsInv holds at first.
LEMMA InitOps == Init => OpsInv
<1> SUFFICES ASSUME Init, NEW s \in Socket
             PROVE  OpsOf(s, issued[s], ops[s], answers[s], writeQueue[s], Connecting(s))
  BY DEF OpsInv
<1>1. PICK e : e = <<>>
  OBVIOUS
<1>2. issued[s] = e /\ ops[s] = e /\ answers[s] = e /\ writeQueue[s] = e /\ pcb[s] = None
  BY <1>1 DEF Init
<1>3. Len(e) = 0
  BY <1>1
<1>4. ~Connecting(s)
  BY <1>2 DEF Connecting
<1>5. OpsPending(e, e) /\ WritesInOrder(s, e, e, 0)
  BY <1>3 DEF OpsPending, WritesInOrder
<1>6. \A k : CountOf(e, 0, k) \in Nat /\ CountOf(e, 0, k) + 0 = CountOf(e, 0, k)
  BY KindSets
<1>7. Counted(e, e, e, 0, Connecting(s))
  BY <1>3, <1>4, <1>6 DEF Counted
<1> QED
  BY <1>2, <1>3, <1>5, <1>7 DEF OpsOf

\* What is submitted is performed in order; every operation has at most one
\* result, and a write stands in the write_queue until it has its own.
THEOREM OperationsInv == Spec => []OpsInv
<1>1. Shape /\ Shape' /\ Holding /\ OpsInv /\ [Next]_vars => OpsInv'
  <2> SUFFICES ASSUME Shape, Shape', Holding, OpsInv, [Next]_vars PROVE OpsInv'
    OBVIOUS
  <2>1. CASE Next
    BY <2>1, NextSteps, OpsStep
  <2>2. CASE UNCHANGED vars
    <3>1. UNCHANGED <<state, gen, pcb, own, issued, ops, answers, writeQueue>>
      BY <2>2 DEF vars, lwipVars, sockVars, appVars, resVars
    <3>2. ConnFall
      BY <3>1 DEF ConnFall, Connecting
    <3> QED
      BY <3>1, <3>2, OpsAllStay, OpsMoved
  <2> QED
    BY <2>1, <2>2
<1> QED
  BY <1>1, InitOps, Shapes, HoldersInv, ShapeStep, PTL DEF Spec

\* The kinds of operations that are answered, counted as the property does.
LEMMA EntriesCount ==
  ASSUME Shape, NEW s \in Socket, NEW k
  PROVE  /\ Cardinality(Entries(s, {k})) = CountOf(answers[s], Len(answers[s]), k)
         /\ Cardinality({i \in DOMAIN issued[s] : issued[s][i].kind = k}) = CountOf(issued[s], Len(issued[s]), k)
<1>1. DOMAIN answers[s] = 1..Len(answers[s]) /\ DOMAIN issued[s] = 1..Len(issued[s])
  <2>1. answers[s] \in Seq(ResRec) /\ issued[s] \in Seq(OpRec)
    BY DEF Shape
  <2> QED
    BY <2>1, LenProperties
<1>2. Entries(s, {k}) = OfKind(answers[s], Len(answers[s]), k)
  BY <1>1 DEF Entries, OfKind
<1>3. {i \in DOMAIN issued[s] : issued[s][i].kind = k} = OfKind(issued[s], Len(issued[s]), k)
  BY <1>1 DEF OfKind
<1> QED
  BY <1>2, <1>3 DEF CountOf

\* Every operation has at most one result, and the writes that succeed are
\* reported in the order in which they were submitted.
THEOREM AnsweredAtMostOnce == Spec => []AnsweredOnce
<1>1. Shape /\ OpsInv => AnsweredOnce
  <2> SUFFICES ASSUME Shape, OpsInv, NEW s \in Socket
               PROVE  /\ \A k \in Answerable : Cardinality(Entries(s, {k}))
                           <= Cardinality({i \in DOMAIN issued[s] : issued[s][i].kind = k})
                      /\ \A i, j \in Entries(s, {"write"}) :
                           i < j /\ answers[s][i].ok /\ answers[s][j].ok => answers[s][i].id < answers[s][j].id
    BY DEF AnsweredOnce
  <2>1. PICK I, O, A, W, c : I = issued[s] /\ O = ops[s] /\ A = answers[s] /\ W = writeQueue[s] /\ c = Connecting(s)
    OBVIOUS
  <2>2. OpsOf(s, I, O, A, W, c) /\ Typed(I, O, A, W)
    BY <2>1 DEF OpsInv, Typed, Shape
  <2>3. /\ \A k \in Answerable : CountOf(A, Len(A), k) <= CountOf(I, Len(I), k)
        /\ \A i, j \in 1..Len(A) : i < j /\ A[i].kind = "write" /\ A[j].kind = "write" /\ A[i].ok /\ A[j].ok =>
             A[i].id < A[j].id
    BY <2>2, OpsEnough
  <2>4. \A k \in Answerable : Cardinality(Entries(s, {k}))
                           <= Cardinality({i \in DOMAIN issued[s] : issued[s][i].kind = k})
    BY <2>1, <2>3, EntriesCount
  <2>5. \A i \in Entries(s, {"write"}) : i \in 1..Len(A) /\ A[i].kind = "write"
    BY <2>1, EntriesIs
  <2> QED
    BY <2>1, <2>3, <2>4, <2>5
<1> QED
  BY <1>1, Shapes, OperationsInv, PTL

(***************************************************************************)
(* Blocks: what the application frees was reported.                        *)
(***************************************************************************)

Reported(s, n) == \E k \in 1..Len(answers[s]) : answers[s][k].kind = "write" /\ answers[s][k].id = n

Answer(s, r)   == \E k \in 1..Len(answers[s]) : r = answers[s][k]

Dequeued ==
  /\ \A s \in Socket : \A i \in 1..Len(cqueue[s]) : Answer(s, cqueue[s][i])
  /\ \A s \in Socket, n \in Nat : <<s, n>> \in freed => Reported(s, n)

\* What a step does to the results.
ResultsSame == cqueue' = cqueue /\ answers' = answers /\ freed' = freed
ResultsGain ==
  \E s \in Socket : \E r : Gains(cqueue', cqueue, s, r) /\ Gains(answers', answers, s, r) /\ freed' = freed

\* An operation is performed.
LEMMA PerformResults ==
  ASSUME Shape, NEW s \in Socket, ops[s] # <<>>, freed' = freed, (\E ok \in BOOLEAN : Finish(s, ok)) \/ Async(s)
  PROVE  ResultsSame \/ ResultsGain
<1>1. ASSUME NEW ok \in BOOLEAN, Finish(s, ok) PROVE ResultsGain
  <2>1. PICK r : FinishedWith(s, r, ok)
    BY <1>1, FinishIs
  <2> QED
    BY <2>1 DEF FinishedWith, ResultsGain
<1>2. ASSUME Async(s) PROVE ResultsSame
  BY <1>2, AsyncIs DEF AsyncWith, ResultsSame
<1> QED
  BY <1>1, <1>2

\* Every step but a Dequeue adds at most one result.
LEMMA ResultSteps ==
  ASSUME Shape, Steps
  PROVE  ResultsSame \/ ResultsGain \/ \E s \in Socket : Dequeue(s)
<1>1. Create \/ SetPcb => ResultsSame
  BY DEF Create, SetPcb, appVars, resVars, ResultsSame
<1>2. \A s \in Socket : Map(s) \/ NewPcb(s) \/ Stale(s) => ResultsSame
  BY DEF Map, NewPcb, Stale, appVars, resVars, ResultsSame
<1>3. \A s \in Socket, k \in AllKinds, n \in Nat : Submit(s, k, n) => ResultsSame
  BY DEF Submit, resVars, ResultsSame
<1>4. \A p \in Pcb : Reset(p) \/ Gone(p) \/ (\E n \in 1..Held(p) : Ack(p, n)) => ResultsSame
  BY DEF Reset, Gone, Ack, appVars, resVars, ResultsSame
<1>5. ASSUME NEW s \in Socket, Bind(s) \/ Connect(s) \/ Listen(s) \/ Accept(s) \/ Close(s)
      PROVE  ResultsSame \/ ResultsGain
  <2>1. ops[s] # <<>> /\ freed' = freed
    BY <1>5, PerformingIs DEF Bind, Connect, Listen, Accept, Close
  <2>2. (\E ok \in BOOLEAN : Finish(s, ok)) \/ Async(s)
    BY <1>5 DEF Bind, Connect, Listen, Accept, Close
  <2> QED
    BY <2>1, <2>2, PerformResults
<1>6. ASSUME NEW s \in Socket, Write(s) PROVE ResultsSame \/ ResultsGain
  <2>1. ops[s] # <<>> /\ freed' = freed
    BY <1>6, PerformingIs DEF Write
  <2>2. CASE Finish(s, FALSE)
    BY <2>1, <2>2, PerformResults
  <2>3. CASE cqueue' = cqueue /\ answers' = answers
    BY <2>1, <2>3 DEF ResultsSame
  <2> QED
    BY <1>6, <2>2, <2>3, WriteIs DEF AsyncWith
<1>7. ASSUME NEW p \in Pcb, SynAck(p) PROVE ResultsSame \/ ResultsGain
  <2>1. freed' = freed
    BY <1>7, ConnectedIs DEF appVars
  <2> QED
    BY <1>7, <2>1, ConnectedIs DEF ResultsSame, ResultsGain
<1>8. ASSUME NEW l \in ListenPcb, Incoming(l) \/ IncomingNoMem(l) PROVE ResultsSame \/ ResultsGain
  <2>1. freed' = freed
    BY <1>8 DEF Incoming, IncomingNoMem, appVars
  <2>2. ASSUME NEW p \in Pcb \union {None}, NEW g \in Nat, Accepted(arg[l], p, g) PROVE ResultsSame \/ ResultsGain
    BY <2>1, <2>2, AcceptedIs DEF ResultsSame, ResultsGain
  <2>3. CASE Incoming(l)
    <3>1. PICK p \in Pcb : gen[p] \in Nat /\ Accepted(arg[l], p, gen[p] + 1)
      BY <2>3, IncomingIs
    <3>2. p \in Pcb \union {None} /\ gen[p] + 1 \in Nat
      BY <3>1
    <3> QED
      BY <2>2, <3>1, <3>2
  <2>4. CASE IncomingNoMem(l)
    <3>1. Accepted(arg[l], None, 0) /\ None \in Pcb \union {None} /\ 0 \in Nat
      BY <2>4 DEF IncomingNoMem
    <3> QED
      BY <2>2, <3>1
  <2> QED
    BY <1>8, <2>3, <2>4
<1>9. ASSUME Sent PROVE ResultsSame \/ ResultsGain
  <2>1. freed' = freed
    BY <1>9, SentIs DEF appVars
  <2>2. CASE cqueue' = cqueue /\ answers' = answers
    BY <2>1, <2>2 DEF ResultsSame
  <2>3. ASSUME NEW s \in Socket, NEW e \in WEntry, Report(s, Result("write", e.block[2], TRUE))
        PROVE  ResultsGain
    <3>1. PICK r : r = Result("write", e.block[2], TRUE)
      OBVIOUS
    <3>2. r \in ResRec
      <4>1. e.block[2] \in Nat /\ "write" \in AllKinds
        BY DEF WEntry, AllKinds
      <4> QED
        BY <3>1, <4>1, ResultIs
    <3>3. Gains(cqueue', cqueue, s, r) /\ Gains(answers', answers, s, r)
      BY <2>3, <3>1, <3>2, ReportIs
    <3> QED
      BY <2>1, <3>3 DEF ResultsGain
  <2> QED
    BY <1>9, <2>2, <2>3, SentIs
<1> QED
  BY <1>1, <1>2, <1>3, <1>4, <1>5, <1>6, <1>7, <1>8, <1>9 DEF Steps

\* What was reported stays so.
LEMMA ReportedStays ==
  ASSUME Shape, Grow, NEW s \in Socket, NEW n, Reported(s, n)
  PROVE  Reported(s, n)'
<1>1. PICK k \in 1..Len(answers[s]) : answers[s][k].kind = "write" /\ answers[s][k].id = n
  BY DEF Reported
<1>2. PICK l, m \in Nat : l = Len(answers[s]) /\ m = Len(answers'[s]) /\ l <= m
  BY EntriesIs DEF Grow
<1> QED
  BY <1>1, <1>2 DEF Grow, Reported

\* A result stays among the results.
LEMMA AnswerStays ==
  ASSUME Shape, Grow, NEW s \in Socket, NEW r, Answer(s, r)
  PROVE  Answer(s, r)'
<1>1. PICK k \in 1..Len(answers[s]) : r = answers[s][k]
  BY DEF Answer
<1>2. PICK l, m \in Nat : l = Len(answers[s]) /\ m = Len(answers'[s]) /\ l <= m
  BY EntriesIs DEF Grow
<1> QED
  BY <1>1, <1>2 DEF Grow, Answer

\* r is among the results after the step.
AnswerNext(s, r) == \E k \in 1..Len(answers'[s]) : r = answers'[s][k]

\* Every step keeps Dequeued.
LEMMA DequeuedStep ==
  ASSUME Shape, Shape', Dequeued, Steps
  PROVE  Dequeued'
<1>1. Grow
  BY GrowSteps
<1>2. \A s \in Socket, n \in Nat : Reported(s, n) => Reported(s, n)'
  BY <1>1, ReportedStays
<1>3. \A s \in Socket : \A r : Answer(s, r) => AnswerNext(s, r)
  BY <1>1, AnswerStays DEF Answer, AnswerNext
<1>4. CASE ResultsSame
  BY <1>2, <1>4 DEF ResultsSame, Dequeued, Answer
<1>5. CASE ResultsGain
  <2>1. PICK s \in Socket : \E r : Gains(cqueue', cqueue, s, r) /\ Gains(answers', answers, s, r) /\ freed' = freed
    BY <1>5 DEF ResultsGain
  <2>9. PICK r : Gains(cqueue', cqueue, s, r) /\ Gains(answers', answers, s, r) /\ freed' = freed
    BY <2>1
  <2>2. ASSUME NEW t \in Socket, NEW i \in 1..Len(cqueue'[t])
        PROVE  AnswerNext(t, cqueue'[t][i])
    <3>1. CASE i \in 1..Len(cqueue[t]) /\ cqueue'[t][i] = cqueue[t][i]
      BY <1>3, <3>1 DEF Dequeued
    <3>2. CASE t = s /\ cqueue'[t][i] = r
      <4>1. PICK l \in Nat : l = Len(answers[s]) /\ Len(answers'[s]) = l + 1 /\ answers'[s][l + 1] = r
        BY <2>9 DEF Gains
      <4>2. l + 1 \in 1..(l + 1)
        BY <4>1
      <4> QED
        BY <3>2, <4>1, <4>2 DEF AnswerNext
    <3>3. (i \in 1..Len(cqueue[t]) /\ cqueue'[t][i] = cqueue[t][i]) \/ (t = s /\ cqueue'[t][i] = r)
      <4>1. CASE t # s
        BY <2>9, <4>1 DEF Gains
      <4>2. CASE t = s
        <5>1. PICK l \in Nat : /\ l = Len(cqueue[s]) /\ Len(cqueue'[s]) = l + 1 /\ cqueue'[s][l + 1] = r
                               /\ \A j \in 1..l : cqueue'[s][j] = cqueue[s][j]
          BY <2>9 DEF Gains
        <5>2. i \in 1..l \/ i = l + 1
          BY <4>2, <5>1
        <5> QED
          BY <4>2, <5>1, <5>2
      <4> QED
        BY <4>1, <4>2
    <3> QED
      BY <3>1, <3>2, <3>3
  <2> QED
    BY <1>2, <2>9, <2>2 DEF Dequeued, Answer, AnswerNext
<1>6. ASSUME NEW s \in Socket, Dequeue(s) PROVE Dequeued'
  <2>1. /\ Loses(cqueue', cqueue, s) /\ answers' = answers
        /\ freed' = IF cqueue[s][1].kind = "write" THEN freed \union {<<s, cqueue[s][1].id>>} ELSE freed
    BY <1>6, DequeueIs
  <2>2. PICK l \in Nat : /\ l = Len(cqueue[s]) /\ l >= 1 /\ Len(cqueue'[s]) = l - 1
                         /\ \A j \in 1..(l - 1) : cqueue'[s][j] = cqueue[s][j + 1]
    BY <2>1 DEF Loses
  <2>5. \A j \in 1..(l - 1) : j + 1 \in 1..l
    BY <2>2
  <2>3. ASSUME NEW t \in Socket, NEW i \in 1..Len(cqueue'[t])
        PROVE  Answer(t, cqueue'[t][i])
    <3>1. CASE t = s
      <4>1. PICK j : j = i + 1
        OBVIOUS
      <4>2. j \in 1..Len(cqueue[s]) /\ cqueue'[t][i] = cqueue[s][j]
        BY <2>2, <2>5, <3>1, <4>1
      <4> QED
        BY <3>1, <4>2 DEF Dequeued
    <3>2. CASE t # s
      BY <2>1, <3>2 DEF Loses, Dequeued
    <3> QED
      BY <3>1, <3>2
  <2>4. ASSUME NEW t \in Socket, NEW n \in Nat, <<t, n>> \in freed' PROVE Reported(t, n)
    <3>1. CASE <<t, n>> \in freed
      BY <3>1 DEF Dequeued
    <3>2. CASE <<t, n>> \notin freed
      <4>1. cqueue[s][1].kind = "write" /\ t = s /\ n = cqueue[s][1].id
        BY <2>1, <2>4, <3>2
      <4>2. 1 \in 1..l
        BY <2>2
      <4>3. PICK k \in 1..Len(answers[s]) : cqueue[s][1] = answers[s][k]
        BY <2>2, <4>2 DEF Dequeued, Answer
      <4> QED
        BY <4>1, <4>3 DEF Reported
    <3> QED
      BY <3>1, <3>2
  <2> QED
    BY <2>1, <2>3, <2>4 DEF Dequeued, Reported, Answer
<1> QED
  BY <1>4, <1>5, <1>6, ResultSteps

\* Dequeued holds at first.
LEMMA InitDequeued == Init => Dequeued
<1> SUFFICES ASSUME Init PROVE Dequeued
  OBVIOUS
<1>1. \A s \in Socket : Len(cqueue[s]) = 0
  BY DEF Init
<1>2. freed = {}
  BY DEF Init
<1> QED
  BY <1>1, <1>2 DEF Dequeued

\* What the application frees is the block of a write that was reported.
THEOREM DequeuedInv == Spec => []Dequeued
<1>1. Shape /\ Shape' /\ Dequeued /\ [Next]_vars => Dequeued'
  <2> SUFFICES ASSUME Shape, Shape', Dequeued, [Next]_vars PROVE Dequeued'
    OBVIOUS
  <2>1. CASE Next
    BY <2>1, NextSteps, DequeuedStep
  <2>2. CASE UNCHANGED vars
    BY <2>2 DEF vars, appVars, resVars, Dequeued, Reported, Answer
  <2> QED
    BY <2>1, <2>2
<1> QED
  BY <1>1, InitDequeued, Shapes, ShapeStep, PTL DEF Spec

(***************************************************************************)
(* Bytes: what the write_queue covers                                      *)
(***************************************************************************)

\* Bytes of the first i entries of a write_queue, for every i.
BytesOf(w) == [i \in 1..Len(w) |-> [len |-> w[i].size]]
Owes(w) == UpTo(BytesOf(w))

\* A write_queue as a queue of lengths.
LEMMA BytesAre ==
  ASSUME NEW w \in Seq(WEntry)
  PROVE  /\ Len(w) \in Nat /\ Len(BytesOf(w)) = Len(w)
         /\ \A i \in 1..Len(w) : w[i] \in WEntry /\ w[i].size \in Nat /\ BytesOf(w)[i].len = w[i].size
<1>1. Len(w) \in Nat /\ \A i \in 1..Len(w) : w[i] \in WEntry
  BY LenProperties, ElementOfSeq
<1>2. \A i \in 1..Len(w) : w[i].size \in Nat
  BY <1>1 DEF WEntry
<1>3. BytesOf(w) \in [1..Len(w) -> [len : Nat]]
  BY <1>2 DEF BytesOf
<1>4. PICK n \in Nat : n = Len(w)
  BY <1>1
<1>5. Len(BytesOf(w)) = n
  <2>1. PICK f : f = BytesOf(w)
    OBVIOUS
  <2>2. f \in [1..n -> [len : Nat]] /\ n \in Nat
    BY <1>3, <1>4, <2>1
  <2> QED
    BY <2>1, <2>2, FunctionSeq
<1>6. \A i \in 1..Len(w) : BytesOf(w)[i].len = w[i].size
  BY DEF BytesOf
<1> QED
  BY <1>1, <1>2, <1>4, <1>5, <1>6

\* The sums of a write_queue.
LEMMA OwesIs ==
  ASSUME NEW w \in Seq(WEntry)
  PROVE  /\ Owes(w) \in [0..Len(w) -> Nat] /\ Owes(w)[0] = 0
         /\ \A i, j \in 0..Len(w) : i <= j => Owes(w)[i] <= Owes(w)[j]
         /\ w # <<>> => Owes(w)[1] = w[1].size
<1>1. PICK q : q = BytesOf(w)
  OBVIOUS
<1>2. Len(q) \in Nat /\ Len(q) = Len(w) /\ \A i \in 1..Len(q) : q[i].len \in Nat /\ q[i].len = w[i].size
  BY <1>1, BytesAre
<1>3. /\ UpTo(q) \in [0..Len(q) -> Nat] /\ UpTo(q)[0] = 0
      /\ \A i \in 1..Len(q) : UpTo(q)[i] = UpTo(q)[i - 1] + q[i].len
  BY <1>2, UpToIs
<1>4. \A i, j \in 0..Len(q) : i <= j => UpTo(q)[i] <= UpTo(q)[j]
  BY <1>2, UpToGrows
<1>5. ASSUME w # <<>> PROVE UpTo(q)[1] = w[1].size
  <2>1. 1 \in 1..Len(q)
    <3>1. Len(w) # 0
      BY <1>5, EmptySeq
    <3> QED
      BY <1>2, <3>1
  <2>2. UpTo(q)[1] = UpTo(q)[1 - 1] + q[1].len /\ 1 - 1 = 0
    BY <1>3, <2>1
  <2> QED
    BY <1>2, <1>3, <2>1, <2>2
<1> QED
  BY <1>1, <1>2, <1>3, <1>4, <1>5 DEF Owes

\* An entry more.
Entered(v, w, e) == w \in Seq(WEntry) /\ e \in WEntry /\ v = Append(w, e)

\* The sums with an entry more.
LEMMA OwesEntered ==
  ASSUME NEW v, NEW w, NEW e, Entered(v, w, e)
  PROVE  /\ v \in Seq(WEntry) /\ w \in Seq(WEntry) /\ Len(w) \in Nat /\ Len(v) = Len(w) + 1
         /\ \A i \in 1..Len(w) : v[i] = w[i]
         /\ v[Len(w) + 1] = e
         /\ \A i \in 0..Len(w) : Owes(v)[i] = Owes(w)[i]
         /\ Owes(v)[Len(w) + 1] = Owes(w)[Len(w)] + e.size
<1>1. /\ v \in Seq(WEntry) /\ w \in Seq(WEntry) /\ Len(w) \in Nat /\ Len(v) = Len(w) + 1
      /\ \A i \in 1..Len(w) : v[i] = w[i]
      /\ v[Len(w) + 1] = e
  <2>1. w \in Seq(WEntry) /\ e \in WEntry /\ v = Append(w, e)
    BY DEF Entered
  <2> QED
    BY <2>1, Appended
<1>2. PICK q, r, n : q = BytesOf(w) /\ r = BytesOf(v) /\ n = Len(w)
  OBVIOUS
<1>3. n \in Nat /\ Len(q) = n /\ \A i \in 1..n : q[i].len \in Nat /\ q[i].len = w[i].size
  BY <1>1, <1>2, BytesAre
<1>4. Len(r) = n + 1 /\ \A i \in 1..(n + 1) : r[i].len \in Nat /\ r[i].len = v[i].size
  BY <1>1, <1>2, BytesAre
<1>5. n + 1 \in 1..(n + 1) /\ \A i \in 1..n : i \in 1..(n + 1)
  BY <1>3
<1>6. Longer(r, q, n)
  BY <1>1, <1>2, <1>3, <1>4, <1>5 DEF Longer
<1>7. /\ \A i \in 0..n : UpTo(r)[i] = UpTo(q)[i]
      /\ UpTo(r)[n + 1] = UpTo(q)[n] + r[n + 1].len
  BY <1>6, SumsAppend
<1>8. r[n + 1].len = e.size
  BY <1>1, <1>2, <1>4, <1>5
<1> QED
  BY <1>1, <1>2, <1>7, <1>8 DEF Owes

\* Entry 1 is gone.
LEMMA OwesPopped ==
  ASSUME NEW v \in Seq(WEntry), NEW w \in Seq(WEntry), Less(v, w)
  PROVE  /\ \A i \in 1..Len(v) : Owes(v)[i] + w[1].size = Owes(w)[1 + i]
         /\ Owes(v)[Len(v)] + w[1].size = Owes(w)[Len(w)]
<1>1. PICK m \in Nat : Len(v) = m /\ Len(w) = m + 1 /\ \A i \in 1..m : v[i] = w[i + 1]
  <2>1. Len(w) \in Nat /\ Len(w) >= 1 /\ Len(v) = Len(w) - 1 /\ \A i \in 1..Len(v) : v[i] = w[i + 1]
    BY DEF Less
  <2> QED
    BY <2>1
<1>2. PICK q, r, d, k : q = BytesOf(w) /\ r = BytesOf(v) /\ d = w[1].size /\ k = 1
  OBVIOUS
<1>3. Len(q) = m + 1 /\ \A i \in 1..(m + 1) : q[i].len \in Nat /\ q[i].len = w[i].size
  BY <1>1, <1>2, BytesAre
<1>4. Len(r) = m /\ \A i \in 1..m : r[i].len \in Nat /\ r[i].len = v[i].size
  BY <1>1, <1>2, BytesAre
<1>5. \A i \in 1..m : i + 1 \in 1..(m + 1) /\ 1 + i = i + 1
  BY <1>1
<1>6. \A i \in 1..m : r[i].len = q[1 + i].len
  BY <1>1, <1>3, <1>4, <1>5
<1>7. 1 \in 1..(m + 1) /\ d = q[1].len /\ d \in Nat
  BY <1>1, <1>2, <1>3
<1>8. m >= 1 => r[1].len = q[2].len
  <2>1. m >= 1 => 1 \in 1..m /\ 1 + 1 = 2
    OBVIOUS
  <2> QED
    BY <1>6, <2>1
<1>9. CutBy(r, q, k, m, d)
  <2>1. k \in {0, 1} /\ m \in Nat /\ m + k >= 1 /\ m + k = m + 1 /\ \A i \in 2..m : i \in 1..m
    BY <1>1, <1>2
  <2> QED
    BY <1>2, <1>3, <1>4, <1>6, <1>7, <1>8, <2>1 DEF CutBy
<1>10. /\ \A i \in 1..m : UpTo(r)[i] + d = UpTo(q)[k + i]
       /\ UpTo(r)[m] + d = UpTo(q)[k + m]
  BY <1>9, SumsFrom
<1>11. k + m = m + 1
  BY <1>2
<1> QED
  BY <1>1, <1>2, <1>10, <1>11 DEF Owes

\* n bytes of entry 1 are acknowledged.
LEMMA OwesCut ==
  ASSUME NEW v \in Seq(WEntry), NEW w \in Seq(WEntry), NEW n \in Nat, Len(w) >= 1, Len(v) = Len(w),
         v[1].size + n = w[1].size, \A i \in 2..Len(w) : v[i] = w[i]
  PROVE  \A i \in 1..Len(v) : Owes(v)[i] + n = Owes(w)[i]
<1>1. PICK m \in Nat : Len(v) = m /\ Len(w) = m /\ m >= 1
  BY BytesAre
<1>2. PICK q, r, k : q = BytesOf(w) /\ r = BytesOf(v) /\ k = 0
  OBVIOUS
<1>3. Len(q) = m /\ \A i \in 1..m : q[i].len \in Nat /\ q[i].len = w[i].size
  BY <1>1, <1>2, BytesAre
<1>4. Len(r) = m /\ \A i \in 1..m : r[i].len \in Nat /\ r[i].len = v[i].size
  BY <1>1, <1>2, BytesAre
<1>5. \A i \in 2..m : i \in 1..m /\ 0 + i = i
  BY <1>1
<1>6. \A i \in 2..m : r[i].len = q[0 + i].len
  BY <1>1, <1>3, <1>4, <1>5
<1>7. 1 \in 1..m /\ r[1].len + n = q[1].len
  BY <1>1, <1>2, <1>3, <1>4
<1>8. CutBy(r, q, k, m, n)
  <2>1. k \in {0, 1} /\ m \in Nat /\ m + k >= 1 /\ m + k = m /\ k # 1
    BY <1>1, <1>2
  <2> QED
    BY <1>2, <1>3, <1>4, <1>6, <1>7, <2>1 DEF CutBy
<1>9. \A i \in 1..m : UpTo(r)[i] + n = UpTo(q)[k + i]
  BY <1>8, SumsFrom
<1>10. \A i \in 1..m : k + i = i
  BY <1>2
<1> QED
  BY <1>1, <1>2, <1>9, <1>10 DEF Owes

\* Natural numbers.
LEMMA Sums ==
  /\ \A a, b, c, d \in Nat : a <= b /\ d <= c => a + d <= b + c
  /\ \A a, b, d, f, n \in Nat : f + d = n /\ a + n <= b + d => a + f <= b
  /\ \A a, d, f, n \in Nat : f + d = n /\ a + n <= d => ~(a >= 1)
OBVIOUS

\* Each segment of u ends, n bytes from now, within the entry of its block, and
\* w owes all there is.
Covers(w, u, n) ==
  /\ \A i \in 1..Len(u) : \E j \in 1..Len(w) : w[j].block = u[i].block /\ UpTo(u)[i] + n <= Owes(w)[j]
  /\ UpTo(u)[Len(u)] + n <= Owes(w)[Len(w)]

\* The numbers Covers is about.
LEMMA Naturals ==
  ASSUME NEW w \in Seq(WEntry), NEW u \in Seq(Segm)
  PROVE  /\ Len(w) \in Nat /\ Len(u) \in Nat
         /\ \A j \in 0..Len(w) : Owes(w)[j] \in Nat
         /\ \A i \in 0..Len(u) : UpTo(u)[i] \in Nat
         /\ Owes(w)[Len(w)] \in Nat /\ UpTo(u)[Len(u)] \in Nat
         /\ \A i \in 1..Len(u) : UpTo(u)[i] \in Nat /\ UpTo(u)[i] >= 1
<1>1. Len(w) \in Nat /\ Owes(w) \in [0..Len(w) -> Nat]
  BY BytesAre, OwesIs
<1>2. Len(u) \in Nat /\ UpTo(u) \in [0..Len(u) -> Nat]
  BY Segments
<1>3. Len(w) \in 0..Len(w) /\ Len(u) \in 0..Len(u)
  BY <1>1, <1>2
<1>4. ASSUME NEW i \in 1..Len(u) PROVE UpTo(u)[i] \in Nat /\ UpTo(u)[i] >= 1
  <2>1. i \in 0..Len(u) /\ i - 1 \in 0..Len(u)
    BY <1>2
  <2>2. UpTo(u)[i] = UpTo(u)[i - 1] + u[i].len /\ u[i].len \in Nat /\ u[i].len >= 1
    BY Segments
  <2>3. PICK a, b, c \in Nat : a = UpTo(u)[i] /\ b = UpTo(u)[i - 1] /\ c = u[i].len
    BY <1>2, <2>1, <2>2
  <2> QED
    BY <2>2, <2>3
<1> QED
  BY <1>1, <1>2, <1>3, <1>4

\* Where lwIP holds nothing, any write_queue covers it.
LEMMA CoversNothing ==
  ASSUME NEW w \in Seq(WEntry), NEW u, u = <<>>
  PROVE  Covers(w, u, 0)
<1>1. u \in Seq(Segm) /\ Len(u) = 0
  OBVIOUS
<1>2. UpTo(u)[0] = 0
  BY <1>1, Segments
<1>3. Owes(w)[Len(w)] \in Nat
  BY <1>1, Naturals
<1> QED
  BY <1>1, <1>2, <1>3 DEF Covers

\* Where bytes are pending, there is a write.
LEMMA CoversSome ==
  ASSUME NEW w \in Seq(WEntry), NEW u \in Seq(Segm), NEW n \in Nat, n >= 1, Covers(w, u, n)
  PROVE  w # <<>>
<1>1. SUFFICES ASSUME w = <<>> PROVE FALSE
  OBVIOUS
<1>2. Len(w) = 0 /\ Owes(w)[0] = 0
  BY <1>1, OwesIs
<1>3. UpTo(u)[Len(u)] \in Nat
  BY Naturals
<1> QED
  BY <1>2, <1>3 DEF Covers

\* A write whose entry is at least as long as its segment.
LEMMA CoversWritten ==
  ASSUME NEW v, NEW w, NEW e, Entered(v, w, e), NEW u \in Seq(Segm), Covers(w, u, 0)
  PROVE  /\ Covers(v, u, 0)
         /\ \A z, x : Extends(z, u, x) /\ x.block = e.block /\ x.len <= e.size => Covers(v, z, 0)
<1>1. /\ v \in Seq(WEntry) /\ w \in Seq(WEntry) /\ Len(w) \in Nat /\ Len(v) = Len(w) + 1
      /\ \A i \in 1..Len(w) : v[i] = w[i]
      /\ v[Len(w) + 1] = e
      /\ \A i \in 0..Len(w) : Owes(v)[i] = Owes(w)[i]
      /\ Owes(v)[Len(w) + 1] = Owes(w)[Len(w)] + e.size
  BY OwesEntered
<1>2. PICK l, m \in Nat : l = Len(w) /\ m = Len(u)
  BY <1>1, Naturals
<1>3. /\ \A i \in 1..l : i \in 0..l /\ i \in 1..(l + 1)
      /\ \A i \in 1..m : i \in 0..m
      /\ l + 1 \in 1..(l + 1)
  BY <1>2
<1>4. ASSUME NEW i \in 1..m PROVE \E j \in 1..(l + 1) : v[j].block = u[i].block /\ UpTo(u)[i] + 0 <= Owes(v)[j]
  <2>1. PICK j \in 1..l : w[j].block = u[i].block /\ UpTo(u)[i] + 0 <= Owes(w)[j]
    BY <1>2 DEF Covers
  <2>2. j \in 1..(l + 1) /\ v[j] = w[j] /\ Owes(v)[j] = Owes(w)[j]
    BY <1>1, <1>2, <1>3, <2>1
  <2> QED
    BY <2>1, <2>2
<1>5. PICK a, b, c \in Nat : a = UpTo(u)[m] /\ b = Owes(w)[l] /\ c = e.size
  <2>1. e.size \in Nat
    BY DEF Entered, WEntry
  <2> QED
    BY <1>1, <1>2, <2>1, Naturals
<1>6. a <= b
  BY <1>2, <1>5 DEF Covers
<1>7. Covers(v, u, 0)
  <2>1. UpTo(u)[m] + 0 <= Owes(v)[l + 1]
    BY <1>1, <1>2, <1>5, <1>6
  <2> QED
    BY <1>1, <1>2, <1>4, <2>1 DEF Covers
<1>8. ASSUME NEW z, NEW x, Extends(z, u, x), x.block = e.block, x.len <= e.size PROVE Covers(v, z, 0)
  <2>1. /\ z \in Seq(Segm) /\ Len(z) = m + 1
        /\ \A i \in 1..m : z[i] = u[i]
        /\ z[m + 1] = x
        /\ \A i \in 0..m : UpTo(z)[i] = UpTo(u)[i]
        /\ UpTo(z)[Len(z)] = UpTo(u)[m] + x.len
    BY <1>2, <1>8, SegmentAppended
  <2>2. PICK d \in Nat : d = x.len
    BY <1>8 DEF Extends, Segm
  <2>6. d <= c /\ a \in Nat /\ b \in Nat /\ c \in Nat /\ d \in Nat
    BY <1>5, <1>8, <2>2
  <2>3. a + d <= b + c
    BY <1>6, <2>6, Sums
  <2>4. UpTo(z)[m + 1] + 0 <= Owes(v)[l + 1]
    BY <1>1, <1>2, <1>5, <2>1, <2>2, <2>3
  <2>5. ASSUME NEW i \in 1..(m + 1)
        PROVE  \E j \in 1..(l + 1) : v[j].block = z[i].block /\ UpTo(z)[i] + 0 <= Owes(v)[j]
    <3>1. CASE i \in 1..m
      <4>1. z[i] = u[i] /\ UpTo(z)[i] = UpTo(u)[i]
        BY <1>3, <2>1, <3>1
      <4> QED
        BY <1>4, <3>1, <4>1
    <3>2. CASE i = m + 1
      <4>1. v[l + 1].block = z[m + 1].block
        BY <1>1, <1>2, <1>8, <2>1
      <4> QED
        BY <1>3, <2>4, <3>2, <4>1
    <3> QED
      BY <1>2, <3>1, <3>2
  <2> QED
    BY <1>1, <1>2, <2>1, <2>4, <2>5 DEF Covers
<1> QED
  BY <1>7, <1>8

\* n bytes leave lwIP and become pending.
LEMMA CoversAcked ==
  ASSUME NEW w \in Seq(WEntry), NEW u \in Seq(Segm), Covers(w, u, 0),
         NEW z, NEW n, NEW k, Leaves(z, u, n, k)
  PROVE  Covers(w, z, n)
<1>1. /\ z \in Seq(Segm) /\ k \in 0..Len(u) /\ Len(z) = Len(u) - k
      /\ \A i \in 1..Len(z) : z[i].block = u[k + i].block /\ UpTo(z)[i] + n = UpTo(u)[k + i]
      /\ UpTo(z)[Len(z)] + n = UpTo(u)[Len(u)]
  BY DEF Leaves
<1>2. PICK m, l, h \in Nat : m = Len(u) /\ l = Len(z) /\ h = k /\ l = m - h
  <2>1. Len(u) \in Nat /\ Len(z) \in Nat
    BY <1>1, Naturals
  <2> QED
    BY <1>1, <2>1
<1>3. ASSUME NEW i \in 1..l PROVE \E j \in 1..Len(w) : w[j].block = z[i].block /\ UpTo(z)[i] + n <= Owes(w)[j]
  <2>1. PICK g \in 1..m : g = h + i
    BY <1>2
  <2>2. z[i].block = u[g].block /\ UpTo(z)[i] + n = UpTo(u)[g]
    BY <1>1, <1>2, <2>1
  <2>3. PICK j \in 1..Len(w) : w[j].block = u[g].block /\ UpTo(u)[g] + 0 <= Owes(w)[j]
    BY <1>2, <2>1 DEF Covers
  <2>4. UpTo(u)[g] \in Nat
    BY <1>2, <2>1, Naturals
  <2> QED
    BY <2>2, <2>3, <2>4
<1>4. UpTo(z)[l] + n <= Owes(w)[Len(w)]
  <2>1. UpTo(u)[m] + 0 <= Owes(w)[Len(w)] /\ UpTo(u)[m] \in Nat
    BY <1>2, Naturals DEF Covers
  <2> QED
    BY <1>1, <1>2, <2>1
<1> QED
  BY <1>2, <1>3, <1>4 DEF Covers

\* The first write is credited with its d bytes.
LEMMA CoversPopped ==
  ASSUME NEW v \in Seq(WEntry), NEW w \in Seq(WEntry), Less(v, w), NEW u \in Seq(Segm),
         NEW n \in Nat, Covers(w, u, n), NEW d \in Nat, d = w[1].size, NEW f \in Nat, f + d = n
  PROVE  Covers(v, u, f)
<1>1. PICK l \in Nat : Len(v) = l /\ Len(w) = l + 1 /\ \A i \in 1..l : v[i] = w[i + 1]
  <2>1. Len(w) \in Nat /\ Len(w) >= 1 /\ Len(v) = Len(w) - 1 /\ \A i \in 1..Len(v) : v[i] = w[i + 1]
    BY DEF Less
  <2> QED
    BY <2>1
<1>2. /\ \A i \in 1..l : Owes(v)[i] + d = Owes(w)[1 + i]
      /\ Owes(v)[l] + d = Owes(w)[l + 1]
  BY <1>1, OwesPopped
<1>3. Owes(w)[1] = d
  <2>1. w # <<>>
    <3>1. ASSUME w = <<>> PROVE FALSE
      <4>1. Len(w) = 0
        BY <3>1
      <4> QED
        BY <1>1, <4>1
    <3> QED
      BY <3>1
  <2> QED
    BY <2>1, OwesIs
<1>4. /\ \A j \in 0..l : Owes(v)[j] \in Nat
      /\ \A i \in 1..Len(u) : UpTo(u)[i] \in Nat /\ UpTo(u)[i] >= 1
      /\ UpTo(u)[Len(u)] \in Nat
  BY <1>1, Naturals
<1>5. ASSUME NEW i \in 1..Len(u) PROVE \E j \in 1..l : v[j].block = u[i].block /\ UpTo(u)[i] + f <= Owes(v)[j]
  <2>1. PICK j \in 1..(l + 1) : w[j].block = u[i].block /\ UpTo(u)[i] + n <= Owes(w)[j]
    BY <1>1 DEF Covers
  <2>2. PICK a \in Nat : a = UpTo(u)[i] /\ a >= 1
    BY <1>4
  <2>3. ASSUME j = 1 PROVE FALSE
    <3>1. a + n <= d
      BY <1>3, <2>1, <2>2, <2>3
    <3>2. a \in Nat /\ a >= 1
      BY <2>2
    <3> QED
      BY <3>1, <3>2, Sums
  <2>4. PICK h \in 1..l : j = h + 1 /\ j = 1 + h
    <3>1. j - 1 \in 1..l /\ j = (j - 1) + 1 /\ j = 1 + (j - 1)
      BY <1>1, <2>1, <2>3
    <3> QED
      BY <3>1
  <2>5. v[h].block = u[i].block
    BY <1>1, <2>1, <2>4
  <2>6. PICK b \in Nat : b = Owes(v)[h]
    <3>1. h \in 0..l
      BY <2>4
    <3> QED
      BY <1>4, <3>1
  <2>7. a + n <= b + d
    BY <1>2, <2>1, <2>2, <2>4, <2>6
  <2>8. a + f <= b
    <3>1. a \in Nat /\ b \in Nat /\ d \in Nat /\ f \in Nat /\ n \in Nat /\ f + d = n
      BY <2>2, <2>6
    <3>2. \A x, y, d1, f1, n1 \in Nat : f1 + d1 = n1 /\ x + n1 <= y + d1 => x + f1 <= y
      BY Sums
    <3> QED
      BY <2>7, <3>1, <3>2
  <2> QED
    BY <2>2, <2>4, <2>5, <2>6, <2>8
<1>6. UpTo(u)[Len(u)] + f <= Owes(v)[l]
  <2>1. l \in 0..l
    BY <1>1
  <2>2. PICK a, b \in Nat : a = UpTo(u)[Len(u)] /\ b = Owes(v)[l]
    BY <1>4, <2>1
  <2>3. a + n <= b + d
    BY <1>1, <1>2, <2>2 DEF Covers
  <2>4. a + f <= b
    <3>1. a \in Nat /\ b \in Nat
      BY <2>2
    <3> QED
      <4>1. d \in Nat /\ f \in Nat /\ n \in Nat /\ f + d = n
        OBVIOUS
      <4>2. \A x, y, d1, f1, n1 \in Nat : f1 + d1 = n1 /\ x + n1 <= y + d1 => x + f1 <= y
        BY Sums
      <4> QED
        BY <2>3, <3>1, <4>1, <4>2
  <2> QED
    BY <2>2, <2>4
<1> QED
  BY <1>1, <1>5, <1>6 DEF Covers

\* The first write is credited with all that is pending.
LEMMA CoversCut ==
  ASSUME NEW v \in Seq(WEntry), NEW w \in Seq(WEntry), NEW n \in Nat, Len(w) >= 1, Len(v) = Len(w),
         v[1].size + n = w[1].size, v[1].block = w[1].block, \A i \in 2..Len(w) : v[i] = w[i],
         NEW u \in Seq(Segm), Covers(w, u, n)
  PROVE  Covers(v, u, 0)
<1>1. PICK l \in Nat : Len(v) = l /\ Len(w) = l /\ l >= 1
  BY BytesAre
<1>2. \A i \in 1..l : Owes(v)[i] + n = Owes(w)[i]
  BY <1>1, OwesCut
<1>3. \A i \in 1..l : v[i].block = w[i].block
  <2>1. \A i \in 1..l : i = 1 \/ i \in 2..l
    BY <1>1
  <2> QED
    BY <1>1, <2>1
<1>4. /\ \A j \in 0..l : Owes(v)[j] \in Nat
      /\ \A i \in 1..Len(u) : UpTo(u)[i] \in Nat
      /\ UpTo(u)[Len(u)] \in Nat
  BY <1>1, Naturals
<1>5. ASSUME NEW a \in Nat, NEW j \in 1..l, a + n <= Owes(w)[j] PROVE a + 0 <= Owes(v)[j]
  <2>1. j \in 0..l
    OBVIOUS
  <2>2. PICK b \in Nat : b = Owes(v)[j]
    BY <1>4, <2>1
  <2>3. a + n <= b + n
    BY <1>2, <1>5, <2>2
  <2>4. a + 0 <= b
    BY <2>2, <2>3
  <2> QED
    BY <2>2, <2>4
<1>6. ASSUME NEW i \in 1..Len(u) PROVE \E j \in 1..l : v[j].block = u[i].block /\ UpTo(u)[i] + 0 <= Owes(v)[j]
  <2>1. PICK j \in 1..l : w[j].block = u[i].block /\ UpTo(u)[i] + n <= Owes(w)[j]
    BY <1>1 DEF Covers
  <2> QED
    BY <1>3, <1>4, <1>5, <2>1
<1>7. UpTo(u)[Len(u)] + 0 <= Owes(v)[l]
  <2>1. UpTo(u)[Len(u)] + n <= Owes(w)[l] /\ l \in 1..l
    BY <1>1 DEF Covers
  <2> QED
    BY <1>4, <1>5, <2>1
<1> QED
  BY <1>1, <1>6, <1>7 DEF Covers

\* tcp_sent_callback is at work for pcb p.
Sending(p) == main.at = "sent" /\ main.who = p

\* Bytes acknowledged to p that no write has been credited with yet.
Pending(p) == IF Sending(p) THEN main.len ELSE 0

\* A pcb has data only as a connection that a mapped socket holds, and the
\* socket's write_queue covers that data.
Carried(p) ==
  /\ state[p] \notin Conn => unacked[p] = <<>>
  /\ unacked[p] # <<>> => \E s \in Socket : SockHolds(s, p) /\ mapped[s]
  /\ Sending(p) => state[p] \in {"open", "closing"} /\ \E s \in Socket : SockHolds(s, p) /\ mapped[s]
  /\ \A s \in Socket : Live(p) /\ SockHolds(s, p) => Covers(writeQueue[s], unacked[p], Pending(p))

Aligned == \A p \in Pcb : Carried(p)

\* A step that leaves a pcb without data.
LEMMA CarriesNothing ==
  ASSUME Shape', NEW p \in Pcb, unacked'[p] = <<>>, ~Sending(p)'
  PROVE  Carried(p)'
<1>1. Pending(p)' = 0
  BY DEF Pending
<1>2. ASSUME NEW s \in Socket PROVE Covers(writeQueue'[s], unacked'[p], Pending(p)')
  <2>1. writeQueue'[s] \in Seq(WEntry)
    BY DEF Shape
  <2>2. PICK w, u, n : w \in Seq(WEntry) /\ w = writeQueue'[s] /\ u = unacked'[p] /\ n = Pending(p)'
    BY <2>1
  <2>3. u = <<>> /\ n = 0
    BY <1>1, <2>2
  <2> QED
    BY <2>2, <2>3, CoversNothing
<1> QED
  BY <1>2 DEF Carried

\* A step that leaves a pcb, its data and its socket alone.
SameData(p) ==
  /\ unacked'[p] = unacked[p]
  /\ state[p] \in Conn => state'[p] \in Conn
  /\ state[p] \in {"open", "closing"} => state'[p] \in {"open", "closing"}
  /\ Live(p)' => Live(p)
  /\ \A s \in Socket : /\ SockHolds(s, p)' <=> SockHolds(s, p)
                       /\ mapped[s] => mapped'[s]
                       /\ SockHolds(s, p) => writeQueue'[s] = writeQueue[s]
  /\ Sending(p)' <=> Sending(p)
  /\ Sending(p) => main' = main

\* A pcb in such a step carries what it carried.
LEMMA CarriesSame ==
  ASSUME NEW p \in Pcb, Carried(p), SameData(p)
  PROVE  Carried(p)'
<1>1. Pending(p)' = Pending(p)
  BY DEF SameData, Pending
<1>2. unacked'[p] # <<>> => \E s \in Socket : SockHolds(s, p)' /\ mapped'[s]
  BY DEF SameData, Carried
<1>3. Sending(p)' => state'[p] \in {"open", "closing"} /\ \E s \in Socket : SockHolds(s, p)' /\ mapped'[s]
  BY DEF SameData, Carried
<1>4. state'[p] \notin Conn => unacked'[p] = <<>>
  BY DEF SameData, Carried
<1>5. ASSUME NEW s \in Socket, Live(p)', SockHolds(s, p)'
      PROVE  Covers(writeQueue'[s], unacked'[p], Pending(p)')
  <2>1. Live(p) /\ SockHolds(s, p) /\ writeQueue'[s] = writeQueue[s] /\ unacked'[p] = unacked[p]
    BY <1>5 DEF SameData
  <2>2. Covers(writeQueue[s], unacked[p], Pending(p))
    BY <2>1 DEF Carried
  <2> QED
    BY <1>1, <2>1, <2>2
<1> QED
  BY <1>2, <1>3, <1>4, <1>5 DEF Carried

\* The main thread is not in the middle of tcp_sent_callback, before and after.
NotSending == \A p \in Pcb : ~Sending(p) /\ ~Sending(p)'

\* Steps of the main thread outside tcp_sent_callback.
LEMMA NotSendingBy ==
  ASSUME main.at # "sent", main'.at # "sent"
  PROVE  NotSending
BY DEF NotSending, Sending

\* Steps that touch no pcb, no pointer to one and no write_queue.
LEMMA CarriesQuiet ==
  ASSUME Aligned, UNCHANGED <<state, gen, pcb, own, unacked, writeQueue>>,
         \A s \in Socket : mapped[s] => mapped'[s], main' = main \/ NotSending
  PROVE  Aligned'
<1>1. ASSUME NEW p \in Pcb PROVE SameData(p)
  <2>1. \A s \in Socket : SockHolds(s, p)' <=> SockHolds(s, p)
    BY DEF SockHolds
  <2>2. (Sending(p)' <=> Sending(p)) /\ (Sending(p) => main' = main)
    BY DEF NotSending, Sending
  <2> QED
    BY <2>1, <2>2 DEF SameData, Live
<1> QED
  BY <1>1, CarriesSame DEF Aligned

\* Of a pcb that nothing is sent for, in a step that keeps its holders.
LEMMA SameDataBy ==
  ASSUME Shape, NEW p \in Pcb, NotSending, unacked'[p] = unacked[p], gen'[p] = gen[p], mapped' = mapped,
         \/ state'[p] = state[p]
         \/ state[p] = "connecting" /\ state'[p] = "open"
         \/ state[p] = "new" /\ state'[p] = "connecting"
         \/ state[p] \in {"open", "closing"} /\ state'[p] = "closing",
         \A s \in Socket : (pcb'[s] = p /\ own'[s] = gen[p]) <=> (pcb[s] = p /\ own[s] = gen[p]),
         \A s \in Socket : pcb[s] = p => writeQueue'[s] = writeQueue[s]
  PROVE  SameData(p)
<1>1. /\ state[p] \in Conn => state'[p] \in Conn
      /\ state[p] \in {"open", "closing"} => state'[p] \in {"open", "closing"}
      /\ Live(p)' => Live(p)
  BY DEF Conn, Live
<1>2. \A s \in Socket : /\ SockHolds(s, p)' <=> SockHolds(s, p)
                        /\ mapped[s] => mapped'[s]
                        /\ SockHolds(s, p) => writeQueue'[s] = writeQueue[s]
  BY DEF SockHolds
<1>3. ~Sending(p) /\ ~Sending(p)'
  BY DEF NotSending
<1> QED
  BY <1>1, <1>2, <1>3 DEF SameData

\* A pcb that is not in use carries nothing.
LEMMA UnusedIsEmpty ==
  ASSUME NEW p \in Pcb, Carried(p), state[p] \in {"free", "new"}
  PROVE  unacked[p] = <<>> /\ ~Sending(p)
<1>1. state[p] \notin Conn /\ state[p] \notin {"open", "closing"}
  BY DEF Conn
<1> QED
  BY <1>1 DEF Carried

\* The steps that touch no pcb, no pointer to one and no write_queue.
LEMMA CarriedQuietSteps ==
  ASSUME Shape, Aligned
  PROVE  /\ Create => Aligned'
         /\ \A s \in Socket, k \in AllKinds, n \in Nat : Submit(s, k, n) => Aligned'
         /\ \A s \in Socket : Dequeue(s) => Aligned'
         /\ \A s \in Socket : Map(s) => Aligned'
         /\ \A s \in Socket : Stale(s) => Aligned'
         /\ \A s \in Socket : Bind(s) => Aligned'
         /\ \A s \in Socket : Accept(s) => Aligned'
         /\ \A l \in ListenPcb : IncomingNoMem(l) => Aligned'
         /\ UNCHANGED vars => Aligned'
<1>1. ASSUME UNCHANGED <<state, gen, pcb, own, unacked, writeQueue, mapped>>, main' = main \/ NotSending
      PROVE  Aligned'
  BY <1>1, CarriesQuiet
<1>2. ASSUME Create PROVE Aligned'
  BY <1>1, <1>2 DEF Create, lwipVars
<1>3. ASSUME NEW s \in Socket, NEW k \in AllKinds, NEW n \in Nat, Submit(s, k, n) PROVE Aligned'
  BY <1>1, <1>3 DEF Submit, lwipVars, sockVars
<1>4. ASSUME NEW s \in Socket, Dequeue(s) PROVE Aligned'
  BY <1>1, <1>4 DEF Dequeue, lwipVars
<1>5. ASSUME NEW s \in Socket, Map(s) PROVE Aligned'
  <2>1. \A t \in Socket : mapped[t] => mapped'[t]
    BY <1>5 DEF Map, Shape
  <2>2. UNCHANGED <<state, gen, pcb, own, unacked, writeQueue>> /\ main' = main
    BY <1>5 DEF Map
  <2> QED
    BY <2>1, <2>2, CarriesQuiet
<1>6. ASSUME NEW s \in Socket, Stale(s) PROVE Aligned'
  BY <1>1, <1>6 DEF Stale, lwipVars, sockVars
<1>7. ASSUME NEW s \in Socket, Bind(s) PROVE Aligned'
  <2>1. main.at # "sent" /\ main'.at # "sent"
    BY <1>7, PerformingIs, IdleIs DEF Bind, Finish
  <2> QED
    BY <1>1, <1>7, <2>1, NotSendingBy DEF Bind, lwipVars, sockVars
<1>8. ASSUME NEW s \in Socket, Accept(s) PROVE Aligned'
  <2>1. main.at # "sent" /\ main'.at # "sent"
    BY <1>8, PerformingIs, IdleIs DEF Accept, Async
  <2> QED
    BY <1>1, <1>8, <2>1, NotSendingBy DEF Accept, sockVars
<1>9. ASSUME NEW l \in ListenPcb, IncomingNoMem(l) PROVE Aligned'
  BY <1>1, <1>9 DEF IncomingNoMem, lwipVars, sockVars
<1>10. ASSUME UNCHANGED vars PROVE Aligned'
  BY <1>1, <1>10 DEF vars, lwipVars, sockVars
<1> QED
  BY <1>2, <1>3, <1>4, <1>5, <1>6, <1>7, <1>8, <1>9, <1>10

\* An accepted connection gets its socket: it had no data before.
LEMMA CarriedSetPcb ==
  ASSUME Shape, Shape', Holding, Aligned, SetPcb
  PROVE  Aligned'
<1>1. PICK w \in Socket : w = making.who
  BY DEF SetPcb, Shape
<1>2. pcb[w] = None
  BY <1>1 DEF SetPcb, Holding, Fresh, IsNew
<1>3. UNCHANGED <<state, gen, unacked, writeQueue, mapped, main>>
  BY DEF SetPcb, lwipVars
<1>4. /\ pcb'[w] = making.pcb /\ own'[w] = making.gen
      /\ \A t \in Socket : t # w => pcb'[t] = pcb[t] /\ own'[t] = own[t]
  BY <1>1 DEF SetPcb, TakePcb, Shape
<1>5. ASSUME NEW p \in Pcb PROVE Carried(p)'
  <2>1. p # None /\ p \in AnyPcb /\ Carried(p)
    BY ConstantFacts DEF AnyPcb, Aligned
  <2>2. (Sending(p)' <=> Sending(p)) /\ Pending(p)' = Pending(p)
    BY <1>3 DEF Sending, Pending
  <2>3. CASE MakeHolds(p) /\ Live(p)
    <3>1. \A s \in Socket : ~SockHolds(s, p)
      BY <2>1, <2>3 DEF Holding, OneHolder, OneSock
    <3>2. unacked[p] = <<>> /\ ~Sending(p)
      BY <2>1, <3>1 DEF Carried
    <3> QED
      BY <1>3, <2>2, <3>2, CarriesNothing
  <2>4. CASE ~Live(p)
    <3>1. unacked[p] = <<>> /\ ~Sending(p)
      BY <2>1, <2>4, UnusedIsEmpty DEF Live
    <3> QED
      BY <1>3, <2>2, <3>1, CarriesNothing
  <2>5. CASE ~MakeHolds(p)
    <3>1. ASSUME NEW s \in Socket PROVE SockHolds(s, p)' <=> SockHolds(s, p)
      <4>1. CASE s = w
        BY <1>2, <1>3, <1>4, <2>1, <2>5, <4>1 DEF SockHolds, MakeHolds
      <4>2. CASE s # w
        BY <1>3, <1>4, <4>2 DEF SockHolds
      <4> QED
        BY <4>1, <4>2
    <3>2. SameData(p)
      BY <1>3, <2>2, <3>1 DEF SameData, Live
    <3> QED
      BY <2>1, <3>2, CarriesSame
  <2> QED
    BY <2>3, <2>4, <2>5
<1> QED
  BY <1>5 DEF Aligned

\* A new pcb, and an accepted connection, come without data.
LEMMA CarriedNewPcb ==
  ASSUME Shape, Shape', Aligned, NEW s \in Socket, NewPcb(s)
  PROVE  Aligned'
<1>1. pcb[s] = None /\ UNCHANGED <<unacked, writeQueue, mapped>> /\ main.at # "sent"
  BY NewPcbIs, IdleIs
<1>2. ASSUME NEW p \in Pcb, state[p] = "free", Alloc(p, "new", s), main'.at = "op",
             pcb' = [pcb EXCEPT ![s] = p], own' = [own EXCEPT ![s] = gen[p] + 1]
      PROVE  Aligned'
  <2>1. p \in AnyPcb
    BY DEF AnyPcb
  <2>2. NotSending
    BY <1>1, <1>2, NotSendingBy
  <2>3. pcb'[s] = p /\ \A t \in Socket : t # s => pcb'[t] = pcb[t] /\ own'[t] = own[t]
    BY <1>2 DEF Shape
  <2>4. ASSUME NEW q \in Pcb, q # p PROVE Carried(q)'
    <3>1. q \in AnyPcb /\ q # None
      BY ConstantFacts DEF AnyPcb
    <3>2. state'[q] = state[q] /\ gen'[q] = gen[q]
      BY <1>2, <2>1, <2>4, <3>1, AllocIs
    <3>3. \A t \in Socket : (pcb'[t] = q /\ own'[t] = gen[q]) <=> (pcb[t] = q /\ own[t] = gen[q])
      BY <1>1, <2>3, <2>4, <3>1
    <3>4. SameData(q)
      BY <1>1, <2>2, <3>2, <3>3, SameDataBy
    <3> QED
      BY <3>4, CarriesSame DEF Aligned
  <2>5. Carried(p)'
    <3>1. unacked[p] = <<>>
      BY <1>2, UnusedIsEmpty DEF Aligned
    <3> QED
      BY <1>1, <2>2, <3>1, CarriesNothing DEF NotSending
  <2> QED
    BY <2>4, <2>5 DEF Aligned
<1>3. CASE UNCHANGED <<state, gen, arg, pcb, own, main>>
  BY <1>1, <1>3, CarriesQuiet
<1> QED
  BY <1>2, <1>3, NewPcbIs

\* A peer connects: the new connection has no data.
LEMMA CarriedIncoming ==
  ASSUME Shape, Shape', Aligned, NEW l \in ListenPcb, Incoming(l)
  PROVE  Aligned'
<1>1. UNCHANGED <<unacked, writeQueue, mapped, pcb, own, main>> /\ main.at # "sent"
  BY IdleIs DEF Incoming, Event, sockVars
<1>2. PICK p \in Pcb : state[p] = "free" /\ Alloc(p, "open", AcceptedArg(l))
  BY DEF Incoming, Free
<1>3. NotSending /\ p \in AnyPcb
  BY <1>1, NotSendingBy DEF AnyPcb
<1>4. ASSUME NEW q \in Pcb, q # p PROVE Carried(q)'
  <2>1. q \in AnyPcb
    BY DEF AnyPcb
  <2>2. state'[q] = state[q] /\ gen'[q] = gen[q]
    BY <1>2, <1>3, <1>4, <2>1, AllocIs
  <2>3. SameData(q)
    BY <1>1, <1>3, <2>2, SameDataBy
  <2> QED
    BY <2>3, CarriesSame DEF Aligned
<1>5. Carried(p)'
  <2>1. unacked[p] = <<>>
    BY <1>2, UnusedIsEmpty DEF Aligned
  <2> QED
    BY <1>1, <1>3, <2>1, CarriesNothing DEF NotSending
<1> QED
  BY <1>4, <1>5 DEF Aligned

\* A pcb changes its state within a connection's life, and nothing else changes.
LEMMA CarriedState ==
  ASSUME Shape, Aligned, NotSending, UNCHANGED <<gen, pcb, own, unacked, writeQueue, mapped>>,
         \A q \in Pcb : \/ state'[q] = state[q]
                        \/ state[q] = "connecting" /\ state'[q] = "open"
                        \/ state[q] = "new" /\ state'[q] = "connecting"
                        \/ state[q] \in {"open", "closing"} /\ state'[q] = "closing"
  PROVE  Aligned'
<1>1. ASSUME NEW q \in Pcb PROVE Carried(q)'
  <2>1. SameData(q)
    BY SameDataBy
  <2> QED
    BY <2>1, CarriesSame DEF Aligned
<1> QED
  BY <1>1 DEF Aligned

\* A connect starts, or its SYN is answered.
LEMMA CarriedConnect ==
  ASSUME Shape, Aligned
  PROVE  /\ \A s \in Socket : Connect(s) => Aligned'
         /\ \A p \in Pcb : SynAck(p) => Aligned'
<1>1. ASSUME NEW s \in Socket, Connect(s) PROVE Aligned'
  <2>1. /\ UNCHANGED <<gen, pcb, own, unacked, writeQueue, mapped>> /\ pcb[s] \in AnyPcb
        /\ main.at # "sent" /\ main'.at # "sent"
    BY <1>1, PerformingIs, IdleIs DEF Connect, sockVars, Finish, Async
  <2>2. state' = state \/ (state[pcb[s]] = "new" /\ state' = [state EXCEPT ![pcb[s]] = "connecting"])
    BY <1>1 DEF Connect, TcpConnect
  <2>3. \A q \in Pcb : state'[q] = state[q] \/ (state[q] = "new" /\ state'[q] = "connecting")
    BY <2>1, <2>2 DEF Shape, AnyPcb
  <2> QED
    BY <2>1, <2>3, NotSendingBy, CarriedState
<1>2. ASSUME NEW p \in Pcb, SynAck(p) PROVE Aligned'
  <2>1. /\ UNCHANGED <<gen, pcb, own, unacked, writeQueue, mapped, main>> /\ main.at # "sent"
        /\ state[p] = "connecting" /\ state' = [state EXCEPT ![p] = "open"]
    BY <1>2, ConnectedIs, IdleIs DEF sockVars
  <2>2. \A q \in Pcb : state'[q] = state[q] \/ (state[q] = "connecting" /\ state'[q] = "open")
    BY <2>1 DEF Shape, AnyPcb
  <2> QED
    BY <2>1, <2>2, NotSendingBy, CarriedState
<1> QED
  BY <1>1, <1>2

\* A pcb is removed, and its data with it.
LEMMA CarriedRemoved ==
  ASSUME Shape, Shape', Aligned, NotSending, UNCHANGED <<gen, pcb, own, writeQueue, mapped>>,
         NEW p \in AnyPcb, Removes(p)
  PROVE  Aligned'
<1>1. ASSUME NEW q \in Pcb, q = p PROVE Carried(q)'
  <2>1. unacked'[q] = <<>>
    BY <1>1 DEF Removes
  <2> QED
    BY <2>1, CarriesNothing DEF NotSending
<1>2. ASSUME NEW q \in Pcb, q # p PROVE Carried(q)'
  <2>1. unacked'[q] = unacked[q] /\ state'[q] = state[q]
    BY <1>2 DEF Removes, Shape, AnyPcb
  <2>2. SameData(q)
    BY <2>1, SameDataBy
  <2> QED
    BY <2>2, CarriesSame DEF Aligned
<1> QED
  BY <1>1, <1>2 DEF Aligned

\* A close, a lost connection, the end of a closed one.
LEMMA CarriedEnds ==
  ASSUME Shape, Shape', Aligned
  PROVE  /\ \A s \in Socket : Close(s) => Aligned'
         /\ \A p \in Pcb : Reset(p) => Aligned'
         /\ \A p \in Pcb : Gone(p) => Aligned'
<1>1. ASSUME NEW s \in Socket, Close(s) PROVE Aligned'
  <2>1. /\ UNCHANGED <<gen, pcb, own, writeQueue, mapped>> /\ pcb[s] \in AnyPcb
        /\ main.at # "sent" /\ main'.at # "sent"
    BY <1>1, PerformingIs, IdleIs DEF Close, sockVars, Finish
  <2>2. NotSending
    BY <2>1, NotSendingBy
  <2>3. CASE Removes(pcb[s])
    BY <2>1, <2>2, <2>3, CarriedRemoved
  <2>4. CASE /\ state[pcb[s]] \in {"open", "closing"} /\ unacked' = unacked
             /\ state' = [state EXCEPT ![pcb[s]] = "closing"]
    <3>1. \A q \in Pcb : state'[q] = state[q] \/ (state[q] \in {"open", "closing"} /\ state'[q] = "closing")
      BY <2>1, <2>4 DEF Shape, AnyPcb
    <3> QED
      BY <2>1, <2>2, <2>4, <3>1, CarriedState
  <2> QED
    BY <1>1, <2>3, <2>4, Removed
<1>2. ASSUME NEW p \in Pcb, Reset(p) \/ Gone(p) PROVE Aligned'
  <2>1. UNCHANGED <<gen, pcb, own, writeQueue, mapped, main>> /\ main.at # "sent" /\ p \in AnyPcb
    BY <1>2, IdleIs DEF Reset, Gone, Event, sockVars, AnyPcb
  <2> QED
    BY <1>2, <2>1, Removed, NotSendingBy, CarriedRemoved
<1> QED
  BY <1>1, <1>2

\* The listening pcb takes the place of one that has had no data.
LEMMA CarriedListen ==
  ASSUME Shape, Shape', Aligned, NEW s \in Socket, Listen(s)
  PROVE  Aligned'
<1>1. UNCHANGED <<unacked, writeQueue, mapped>> /\ main.at # "sent"
  BY ListenIs, PerformingIs DEF Listen
<1>2. NotSending
  <2>1. main' = Idle
    BY ListenIs DEF Finish
  <2> QED
    BY <1>1, <2>1, IdleIs, NotSendingBy
<1>3. CASE UNCHANGED <<state, gen, arg, accepting, pcb, own>>
  BY <1>1, <1>2, <1>3, CarriesQuiet
<1>4. ASSUME NEW l \in ListenPcb, state[pcb[s]] = "new", pcb[s] \in Pcb,
             state' = [state EXCEPT ![pcb[s]] = "free", ![l] = "listen"],
             gen' = [gen EXCEPT ![l] = gen[l] + 1],
             pcb' = [pcb EXCEPT ![s] = l], own' = [own EXCEPT ![s] = gen[l] + 1]
      PROVE  Aligned'
  <2>1. pcb'[s] = l /\ \A t \in Socket : t # s => pcb'[t] = pcb[t] /\ own'[t] = own[t]
    BY <1>4 DEF Shape
  <2>2. DOMAIN state = AnyPcb /\ DOMAIN gen = AnyPcb
    BY DEF Shape
  <2>3. ASSUME NEW q \in Pcb PROVE q # l /\ q \in AnyPcb /\ gen'[q] = gen[q] /\ (q # pcb[s] => state'[q] = state[q])
    <3>1. q # l /\ q \in AnyPcb
      BY ConstantFacts DEF AnyPcb
    <3> QED
      BY <1>4, <2>2, <3>1
  <2>4. ASSUME NEW q \in Pcb, q = pcb[s] PROVE Carried(q)'
    <3>1. unacked[q] = <<>>
      BY <1>4, <2>4, UnusedIsEmpty DEF Aligned
    <3> QED
      BY <1>1, <1>2, <3>1, CarriesNothing DEF NotSending
  <2>5. ASSUME NEW q \in Pcb, q # pcb[s] PROVE Carried(q)'
    <3>1. \A t \in Socket : (pcb'[t] = q /\ own'[t] = gen[q]) <=> (pcb[t] = q /\ own[t] = gen[q])
      BY <2>1, <2>3, <2>5
    <3>2. SameData(q)
      BY <1>1, <1>2, <2>3, <2>5, <3>1, SameDataBy
    <3> QED
      BY <3>2, CarriesSame DEF Aligned
  <2> QED
    BY <2>4, <2>5 DEF Aligned
<1> QED
  BY <1>3, <1>4, ListenIs

\* A write: its entry covers its segment.
LEMMA CarriedWrite ==
  ASSUME Shape, Shape', Holding, Aligned, NEW s \in Socket, Write(s)
  PROVE  Aligned'
<1>1. /\ ops[s] # <<>> /\ pcb[s] \in AnyPcb /\ Live(pcb[s]) /\ own[s] = gen[pcb[s]] /\ mapped[s] /\ main.at # "sent"
      /\ UNCHANGED <<state, gen, pcb, own, mapped>>
  BY PerformingIs, WriteIs DEF Write
<1>2. NotSending
  <2>1. main' = Idle
    BY WriteIs DEF AsyncWith, Finish
  <2> QED
    BY <1>1, <2>1, IdleIs, NotSendingBy
<1>3. CASE UNCHANGED <<unacked, writeQueue>>
  BY <1>1, <1>2, <1>3, CarriesQuiet
<1>4. CASE /\ CanSend(pcb[s]) /\ TcpWrite(pcb[s], Entry(s).block, Length(Op(s).size))
           /\ Append1(writeQueue', writeQueue, s, Entry(s))
  <2>1. PICK p \in Pcb : p = pcb[s]
    BY <1>1, <1>4 DEF CanSend, Shape, AnyPcb
  <2>2. /\ \A q \in Pcb : q # p => unacked'[q] = unacked[q]
        /\ \/ unacked' = unacked
           \/ \E x \in Segm : /\ x.block = Entry(s).block /\ x.len = Length(Op(s).size)
                              /\ unacked'[p] = Append(unacked[p], x)
    BY <1>1, <1>4, <2>1, TcpWriteIs
  <2>3. Gains(writeQueue', writeQueue, s, Entry(s))
    BY <1>1, <1>4, EntryIs, GainsIs DEF Shape
  <2>4. ASSUME NEW q \in Pcb, q # p PROVE Carried(q)'
    <3>1. \A t \in Socket : pcb[t] = q => writeQueue'[t] = writeQueue[t]
      BY <2>1, <2>3, <2>4 DEF Gains
    <3>2. SameData(q)
      BY <1>1, <1>2, <2>2, <2>4, <3>1, SameDataBy
    <3> QED
      BY <3>2, CarriesSame DEF Aligned
  <2>5. SockHolds(s, p) /\ SockHolds(s, p)' /\ \A t \in Socket : SockHolds(t, p)' => t = s
    <3>1. SockHolds(s, p) /\ \A t \in Socket : SockHolds(t, p) => t = s
      BY <1>1, <2>1 DEF SockHolds, Holding, OneHolder, OneSock
    <3> QED
      BY <1>1, <3>1 DEF SockHolds
  <2>6. PICK v, w, e, u, z : /\ v = writeQueue'[s] /\ w = writeQueue[s] /\ e = Entry(s)
                             /\ u = unacked[p] /\ z = unacked'[p]
    OBVIOUS
  <2>7. u \in Seq(Segm) /\ Entered(v, w, e)
    BY <1>1, <2>3, <2>6, EntryIs DEF Shape, Entered, Gains
  <2>8. Covers(w, u, 0)
    <3>1. Pending(p) = 0
      BY <1>2 DEF NotSending, Pending
    <3> QED
      BY <1>1, <2>1, <2>5, <2>6, <3>1 DEF Aligned, Carried
  <2>9. Covers(v, z, 0)
    <3>1. CASE z = u
      BY <2>7, <2>8, <3>1, CoversWritten
    <3>2. ASSUME NEW x \in Segm, x.block = Entry(s).block, x.len = Length(Op(s).size), unacked'[p] = Append(unacked[p], x)
          PROVE  Covers(v, z, 0)
      <4>1. Extends(z, u, x)
        BY <2>6, <2>7, <3>2 DEF Extends
      <4>2. x.block = e.block /\ x.len <= e.size
        BY <1>1, <2>6, <3>2, EntryIs
      <4> QED
        BY <2>7, <2>8, <4>1, <4>2, CoversWritten
    <3> QED
      BY <2>2, <2>6, <3>1, <3>2
  <2>10. Carried(p)'
    <3>1. Pending(p)' = 0 /\ ~Sending(p)'
      BY <1>2 DEF NotSending, Pending
    <3>2. state'[p] \in Conn
      BY <1>1, <1>4, <2>1 DEF CanSend, Conn
    <3>3. mapped'[s]
      BY <1>1
    <3> QED
      BY <2>5, <2>6, <2>9, <3>1, <3>2, <3>3 DEF Carried
  <2> QED
    BY <2>4, <2>10 DEF Aligned
<1> QED
  BY <1>3, <1>4, WriteIs

\* An acknowledgement: its bytes are pending.
LEMMA CarriedAck ==
  ASSUME Shape, Shape', Aligned, NEW p \in Pcb, NEW n \in 1..Held(p), Ack(p, n)
  PROVE  Aligned'
<1>1. /\ main.at # "sent" /\ state[p] \in {"open", "closing"}
      /\ main' = [at |-> "sent", who |-> p, len |-> n]
      /\ UNCHANGED <<state, gen, pcb, own, mapped, writeQueue>>
      /\ \A q \in Pcb : q # p => unacked'[q] = unacked[q]
  BY AckIs, IdleIs DEF sockVars
<1>2. PICK k : Leaves(unacked'[p], unacked[p], n, k)
  BY AckIs
<1>3. (\A q \in Pcb : ~Sending(q)) /\ Sending(p)' /\ Pending(p)' = n /\ \A q \in Pcb : q # p => ~Sending(q)'
  <2>1. main'.at = "sent" /\ main'.who = p /\ main'.len = n
    BY <1>1
  <2> QED
    BY <1>1, <2>1 DEF Sending, Pending
<1>4. ASSUME NEW q \in Pcb, q # p PROVE Carried(q)'
  <2>1. SameData(q)
    BY <1>1, <1>3, <1>4 DEF SameData, SockHolds, Live
  <2> QED
    BY <2>1, CarriesSame DEF Aligned
<1>5. PICK s \in Socket : SockHolds(s, p) /\ mapped[s]
  <2>1. unacked[p] # <<>>
    <3>1. Held(p) = UpTo(unacked[p])[Len(unacked[p])] /\ Held(p) \in Nat
      BY HeldNat DEF Held
    <3>2. Held(p) # 0
      BY <3>1
    <3> QED
      BY <3>1, <3>2, HeldNat
  <2> QED
    BY <2>1 DEF Aligned, Carried
<1>6. ASSUME NEW t \in Socket, SockHolds(t, p)' PROVE Covers(writeQueue'[t], unacked'[p], Pending(p)')
  <2>1. SockHolds(t, p) /\ Live(p) /\ Pending(p) = 0
    BY <1>1, <1>3, <1>6 DEF SockHolds, Live, Pending
  <2>2. PICK w, u, z : w = writeQueue[t] /\ u = unacked[p] /\ z = unacked'[p]
    OBVIOUS
  <2>3. Covers(w, u, 0) /\ w \in Seq(WEntry) /\ u \in Seq(Segm)
    BY <2>1, <2>2 DEF Aligned, Carried, Shape
  <2>4. Covers(w, z, n)
    BY <1>2, <2>2, <2>3, CoversAcked
  <2> QED
    BY <1>1, <1>3, <2>2, <2>4
<1>7. Carried(p)'
  <2>1. SockHolds(s, p)' /\ mapped'[s] /\ state'[p] \in {"open", "closing"} /\ state'[p] \in Conn
    BY <1>1, <1>5 DEF SockHolds, Conn
  <2> QED
    BY <1>6, <2>1 DEF Carried
<1> QED
  BY <1>4, <1>7 DEF Aligned

\* One call of tcp_sent_callback: what is left pending fits what is left of the
\* write_queue.
LEMMA CarriedSent ==
  ASSUME Shape, Shape', Holding, Aligned, Sent
  PROVE  Aligned'
<1>1. PICK p \in Pcb : p = main.who
  BY SentIs
<1>2. /\ main.at = "sent" /\ main.len \in Nat /\ main.len # 0
      /\ UNCHANGED <<state, arg, gen, pcb, own, mapped, unacked>>
  BY SentIs DEF lwipVars
<1>3. CASE UNCHANGED <<writeQueue, main>>
  BY <1>2, <1>3, CarriesQuiet
<1>4. Sending(p) /\ Pending(p) = main.len /\ \A q \in Pcb : q # p => ~Sending(q)
  BY <1>1, <1>2 DEF Sending, Pending
<1>5. state[p] \in {"open", "closing"} /\ state[p] \in Conn /\ Live(p) /\ \E s \in Socket : SockHolds(s, p) /\ mapped[s]
  BY <1>4 DEF Aligned, Carried, Conn, Live
<1>6. ASSUME NEW s \in Socket, s = arg[p]
      PROVE  SockHolds(s, p) /\ \A t \in Socket : SockHolds(t, p) => t = s
  <2>1. p \in AnyPcb /\ arg[p] # None
    BY <1>6, ConstantFacts DEF AnyPcb
  <2> QED
    BY <1>5, <1>6, <2>1 DEF Holding, ArgRight, OneHolder, OneSock
<1>7. ASSUME NEW s \in Socket, s = arg[p], \A t \in Socket : t # s => writeQueue'[t] = writeQueue[t],
             main'.at = "sent" => main'.who = p,
             NEW f \in Nat, Pending(p)' = f, Covers(writeQueue'[s], unacked[p], f)
      PROVE  Aligned'
  <2>1. ASSUME NEW q \in Pcb, q # p PROVE Carried(q)'
    <3>1. ~Sending(q) /\ ~Sending(q)'
      BY <1>4, <1>7, <2>1 DEF Sending
    <3>2. \A t \in Socket : SockHolds(t, q) => t # s
      BY <1>6, <1>7, <2>1 DEF SockHolds
    <3>3. SameData(q)
      BY <1>2, <1>7, <3>1, <3>2 DEF SameData, SockHolds, Live
    <3> QED
      BY <3>3, CarriesSame DEF Aligned
  <2>2. ASSUME NEW t \in Socket, SockHolds(t, p)' PROVE Covers(writeQueue'[t], unacked'[p], Pending(p)')
    <3>1. SockHolds(t, p)
      BY <1>2, <2>2 DEF SockHolds
    <3>2. t = s
      BY <1>6, <1>7, <3>1
    <3> QED
      BY <1>2, <1>7, <3>2
  <2>3. state'[p] \in {"open", "closing"} /\ state'[p] \in Conn /\ \E t \in Socket : SockHolds(t, p)' /\ mapped'[t]
    BY <1>2, <1>5 DEF SockHolds
  <2>4. Carried(p)'
    BY <2>2, <2>3 DEF Carried
  <2> QED
    BY <2>1, <2>4 DEF Aligned
<1>8. ASSUME NEW s \in Socket, s = arg[p], NEW e \in WEntry, writeQueue[s] # <<>>, e = writeQueue[s][1]
      PROVE  /\ Covers(writeQueue[s], unacked[p], main.len) /\ e.size \in Nat
             /\ unacked[p] \in Seq(Segm) /\ writeQueue[s] \in Seq(WEntry) /\ writeQueue'[s] \in Seq(WEntry)
  <2>1. Covers(writeQueue[s], unacked[p], Pending(p))
    BY <1>5, <1>6, <1>8 DEF Aligned, Carried
  <2>2. unacked[p] \in Seq(Segm) /\ writeQueue[s] \in Seq(WEntry)
    BY DEF Shape
  <2>3. writeQueue'[s] \in Seq(WEntry)
    BY DEF Shape
  <2>4. e.size \in Nat
    BY DEF WEntry
  <2> QED
    BY <1>4, <2>1, <2>2, <2>3, <2>4
<1>9. ASSUME NEW s \in Socket, s = arg[p], NEW e \in WEntry, writeQueue[s] # <<>>, e = writeQueue[s][1],
             e.size <= main.len, Tail1(writeQueue', writeQueue, s),
             main' = IF main.len - e.size > 0 THEN [main EXCEPT !.len = main.len - e.size] ELSE Idle
      PROVE  Aligned'
  <2>1. Loses(writeQueue', writeQueue, s)
    BY <1>9, LosesIs DEF Shape
  <2>2. PICK n, d, f \in Nat : n = main.len /\ d = e.size /\ f + d = n /\ f = main.len - e.size
    <3>1. main.len \in Nat /\ e.size \in Nat
      BY <1>2, <1>8, <1>9
    <3>2. main.len - e.size \in Nat /\ (main.len - e.size) + e.size = main.len
      BY <1>9, <3>1
    <3> QED
      BY <3>1, <3>2
  <2>3. (main'.at = "sent" => main'.who = p) /\ Pending(p)' = f
    <3>1. main \in [at : {"sent"}, who : Pcb, len : Nat \ {0}]
      BY <1>2 DEF Shape
    <3>2. main' = IF f > 0 THEN [main EXCEPT !.len = f] ELSE Idle
      BY <1>9, <2>2
    <3>3. CASE f > 0
      <4>1. main'.at = "sent" /\ main'.who = p /\ main'.len = f
        BY <1>1, <3>1, <3>2, <3>3
      <4> QED
        BY <4>1 DEF Pending, Sending
    <3>4. CASE ~(f > 0)
      <4>1. f = 0 /\ main'.at # "sent"
        BY <2>2, <3>2, <3>4, IdleIs
      <4> QED
        BY <4>1 DEF Pending, Sending
    <3> QED
      BY <3>3, <3>4
  <2>4. Covers(writeQueue'[s], unacked[p], f)
    <3>1. PICK v, w, u : v = writeQueue'[s] /\ w = writeQueue[s] /\ u = unacked[p]
      OBVIOUS
    <3>2. v \in Seq(WEntry) /\ w \in Seq(WEntry) /\ u \in Seq(Segm) /\ Covers(w, u, n) /\ d = w[1].size
      BY <1>8, <1>9, <2>2, <3>1
    <3>3. Less(v, w)
      BY <2>1, <3>1, MoreLess
    <3>4. n \in Nat /\ d \in Nat /\ f \in Nat /\ f + d = n
      BY <2>2
    <3> QED
      BY <3>1, <3>2, <3>3, <3>4, CoversPopped
  <2> QED
    BY <1>7, <1>9, <2>1, <2>2, <2>3, <2>4 DEF Loses
<1>10. ASSUME NEW s \in Socket, s = arg[p], NEW e \in WEntry, writeQueue[s] # <<>>, e = writeQueue[s][1],
              ~(e.size <= main.len), Shrink1(writeQueue', writeQueue, s, main.len), main' = Idle
       PROVE  Aligned'
  <2>1. PICK n, m \in Nat : n = main.len /\ m = e.size /\ ~(m <= n)
    BY <1>2, <1>8, <1>10
  <2>2. m >= n
    BY <2>1
  <2>3. PICK d \in WEntry : d.block = e.block /\ d.size = m - n /\ Replaces(writeQueue', writeQueue, s, d)
    <3>1. /\ writeQueue \in [Socket -> Seq(WEntry)] /\ writeQueue[s] # <<>> /\ writeQueue[s][1].size >= n
          /\ Shrink1(writeQueue', writeQueue, s, n)
      BY <1>10, <2>1, <2>2 DEF Shape
    <3>2. PICK d \in WEntry : /\ d.block = writeQueue[s][1].block /\ d.size = writeQueue[s][1].size - n
                              /\ Replaces(writeQueue', writeQueue, s, d)
      BY <3>1, ShrinkIs
    <3> QED
      BY <1>10, <2>1, <3>2
  <2>4. d.size + n = m
    BY <2>1, <2>2, <2>3
  <2>5. Covers(writeQueue'[s], unacked[p], 0)
    <3>1. PICK v, w, u : v = writeQueue'[s] /\ w = writeQueue[s] /\ u = unacked[p]
      OBVIOUS
    <3>2. v \in Seq(WEntry) /\ w \in Seq(WEntry) /\ u \in Seq(Segm) /\ Covers(w, u, n) /\ w[1] = e
      BY <1>8, <1>10, <2>1, <3>1
    <3>3. Len(w) >= 1 /\ Len(v) = Len(w) /\ v[1] = d /\ \A i \in 2..Len(w) : v[i] = w[i]
      BY <2>3, <3>1 DEF Replaces
    <3>4. v[1].size + n = w[1].size /\ v[1].block = w[1].block /\ n \in Nat
      BY <2>1, <2>3, <2>4, <3>2, <3>3
    <3> QED
      BY <3>1, <3>2, <3>3, <3>4, CoversCut
  <2>6. main'.at # "sent" /\ Pending(p)' = 0
    BY <1>10, IdleIs DEF Pending, Sending
  <2> QED
    BY <1>7, <1>10, <2>3, <2>5, <2>6 DEF Replaces
<1> QED
  BY <1>1, <1>3, <1>9, <1>10, SentIs

\* Every step keeps Aligned.
LEMMA CarriedStep ==
  ASSUME Shape, Shape', Holding, Aligned, Steps
  PROVE  Aligned'
BY CarriedQuietSteps, CarriedSetPcb, CarriedNewPcb, CarriedIncoming, CarriedConnect, CarriedEnds, CarriedListen,
   CarriedWrite, CarriedAck, CarriedSent DEF Steps

\* Aligned holds at first.
LEMMA InitAligned == Init => Aligned
<1> SUFFICES ASSUME Init, NEW p \in Pcb PROVE Carried(p)
  BY DEF Aligned
<1>1. state[p] = "free" /\ unacked[p] = <<>> /\ main.at # "sent"
  BY IdleIs DEF Init, AnyPcb
<1> QED
  BY <1>1 DEF Carried, Live, Sending

\* The bytes that the writes of a socket wait for cover the bytes that lwIP
\* holds for its connection, segment by segment and together.
THEOREM AlignedInv == Spec => []Aligned
<1>1. Shape /\ Shape' /\ Holding /\ Aligned /\ [Next]_vars => Aligned'
  BY NextSteps, CarriedStep, CarriedQuietSteps
<1> QED
  BY <1>1, InitAligned, Shapes, HoldersInv, ShapeStep, PTL DEF Spec

\* The block of a segment belongs to a write that is not reported yet.
LEMMA BlockWaits ==
  ASSUME Shape, OpsInv, Dequeued, Aligned, NEW p \in Pcb, NEW i \in DOMAIN unacked[p]
  PROVE  unacked[p][i].block \notin freed
<1>1. PICK u \in Seq(Segm) : u = unacked[p]
  BY DEF Shape
<1>2. Carried(p) /\ i \in 1..Len(u) /\ u # <<>>
  <2>1. i \in 1..Len(u)
    BY <1>1, Segments
  <2>2. u # <<>>
    <3>1. ASSUME u = <<>> PROVE FALSE
      <4>1. Len(u) = 0
        BY <3>1
      <4> QED
        BY <2>1, <4>1
    <3> QED
      BY <3>1
  <2> QED
    BY <2>1, <2>2 DEF Aligned
<1>3. PICK s \in Socket : SockHolds(s, p)
  BY <1>1, <1>2 DEF Carried
<1>4. Live(p)
  BY <1>1, <1>2 DEF Carried, Conn, Live
<1>5. PICK w \in Seq(WEntry) : w = writeQueue[s]
  BY DEF Shape
<1>6. PICK j \in 1..Len(w) : w[j].block = u[i].block
  BY <1>1, <1>2, <1>3, <1>4, <1>5 DEF Carried, Covers
<1>7. PICK A \in Seq(ResRec) : A = answers[s]
  BY DEF Shape
<1>8. PICK n : WritesInOrder(s, A, w, n)
  BY <1>5, <1>7 DEF OpsInv, OpsOf
<1>9. PICK b \in Nat : w[j].block = <<s, b>> /\ \A k \in 1..Len(A) : A[k].kind = "write" => A[k].id # b
  <2>2. w[j] \in WEntry
    BY <1>6, ElementOfSeq
  <2>1. w[j].block[2] \in Nat
    BY <2>2 DEF WEntry
  <2> QED
    BY <1>8, <2>1, ElementOfSeq DEF WritesInOrder
<1>10. ~Reported(s, b)
  BY <1>7, <1>9 DEF Reported
<1> QED
  BY <1>1, <1>6, <1>9, <1>10 DEF Dequeued

\* The application never frees a block that lwIP may have to send again.
THEOREM BlocksStay == Spec => []BlocksKept
<1>1. Shape /\ OpsInv /\ Dequeued /\ Aligned => BlocksKept
  BY BlockWaits DEF BlocksKept
<1> QED
  BY <1>1, Shapes, OperationsInv, DequeuedInv, AlignedInv, PTL

\* tcp_sent_callback finds the socket, if it was not mapped too early, and a write.
LEMMA SentStops ==
  ASSUME Shape, Holding, Aligned, main.at = "sent"
  PROVE  /\ arg[main.who] = None => \E s \in early : pcb[s] = main.who
         /\ \A s \in Socket : s = arg[main.who] => writeQueue[s] # <<>>
<1>1. PICK p \in Pcb : p = main.who
  BY DEF Shape
<1>2. p # None /\ p \in AnyPcb /\ Sending(p) /\ Carried(p) /\ Pending(p) = main.len /\ main.len \in Nat /\ main.len >= 1
  <2>1. p # None /\ p \in AnyPcb /\ Sending(p) /\ Carried(p) /\ Pending(p) = main.len
    BY <1>1, ConstantFacts DEF AnyPcb, Sending, Aligned, Pending
  <2>2. main.len \in Nat /\ main.len # 0
    BY DEF Shape
  <2>3. main.len >= 1
    BY <2>2
  <2> QED
    BY <2>1, <2>2, <2>3
<1>3. state[p] \in {"open", "closing"} /\ Live(p)
  BY <1>2 DEF Carried, Live
<1>4. PICK s \in Socket : SockHolds(s, p) /\ mapped[s]
  BY <1>2 DEF Carried
<1>5. ASSUME arg[p] = None PROVE s \in early /\ pcb[s] = p
  <2>1. pcb[s] = p /\ Owned(s)
    BY <1>2, <1>3, <1>4 DEF SockHolds, Owned, Live
  <2> QED
    BY <1>2, <1>4, <1>5, <2>1 DEF Holding, ArgRight
<1>6. ASSUME NEW t \in Socket, t = arg[p] PROVE writeQueue[t] # <<>>
  <2>1. t # None
    BY ConstantFacts
  <2>2. SockHolds(t, p)
    BY <1>2, <1>3, <1>6, <2>1 DEF Holding, ArgRight
  <2>3. PICK w, u, n : w = writeQueue[t] /\ u = unacked[p] /\ n = main.len
    OBVIOUS
  <2>4. w \in Seq(WEntry) /\ u \in Seq(Segm) /\ n \in Nat /\ n >= 1
    BY <1>2, <2>3 DEF Shape
  <2>5. Covers(w, u, n)
    BY <1>2, <1>3, <2>2, <2>3 DEF Carried
  <2> QED
    BY <2>3, <2>4, <2>5, CoversSome
<1> QED
  BY <1>1, <1>5, <1>6

\* Every step keeps SentFindsWrite.
LEMMA SentFindsStep ==
  ASSUME Shape, Holding, Aligned, SentFindsWrite, [Next]_vars
  PROVE  SentFindsWrite'
<1>0. /\ \A why, who : Stopped(why, who).why = why /\ Stopped(why, who).who = who
      /\ Running.why = "no"
  BY DEF Stopped, Running
<1>1. CASE Next
  <2>1. halt = Running /\ Stops
    BY <1>1, NextSteps, StopSteps
  <2>2. ASSUME halt'.why \notin {"exit", "null"} PROVE SentFindsWrite'
    BY <2>2 DEF SentFindsWrite
  <2>3. CASE halt' = halt
    BY <1>0, <2>1, <2>2, <2>3
  <2>4. CASE \E x : halt' = Stopped("no pcb", x)
    <3>1. halt'.why = "no pcb"
      BY <1>0, <2>4
    <3> QED
      BY <2>2, <3>1
  <2>5. CASE \E s \in Socket : halt' = Stopped("stale", s)
    <3>1. halt'.why = "stale"
      BY <1>0, <2>5
    <3> QED
      BY <2>2, <3>1
  <2>6. CASE main.at = "sent" /\ arg[main.who] = None /\ halt' = Stopped("null", main.who) /\ UNCHANGED <<pcb, early>>
    <3>1. halt'.why = "null" /\ halt'.who = main.who
      BY <1>0, <2>6
    <3>2. \E s \in early : pcb[s] = main.who
      BY <2>6, SentStops
    <3> QED
      BY <2>6, <3>1, <3>2 DEF SentFindsWrite
  <2>7. ASSUME NEW s \in Socket, main.at = "sent", s = arg[main.who], writeQueue[s] = <<>>
        PROVE  FALSE
    BY <2>7, SentStops
  <2> QED
    BY <2>1, <2>3, <2>4, <2>5, <2>6, <2>7 DEF Stops
<1>2. CASE UNCHANGED vars
  <2>1. UNCHANGED <<halt, early, pcb>>
    BY <1>2 DEF vars, sockVars, appVars
  <2> QED
    BY <2>1 DEF SentFindsWrite
<1> QED
  BY <1>1, <1>2

\* tcp_sent_callback always finds a write for the bytes, so it never ends the
\* stack, and it finds its socket unless that was mapped before it had its pcb.
THEOREM SentFinds == Spec => []SentFindsWrite
<1>1. Init => SentFindsWrite
  BY DEF Init, SentFindsWrite, Running, Stopped
<1> QED
  BY <1>1, SentFindsStep, Shapes, HoldersInv, AlignedInv, PTL DEF Spec
=============================================================================
