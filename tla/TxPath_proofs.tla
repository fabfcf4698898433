---------------------------- MODULE TxPath_proofs ----------------------------
(***************************************************************************)
(* Proofs about the way of an operation through pifus, for all numbers of  *)
(* sockets and priorities, all layouts of the priority threads' lists, all *)
(* capacities and all widths of the counters: no operation is lost,        *)
(* duplicated or overtaken, no wake-up and no eventfd signal is lost, the  *)
(* rate limit holds and priority inversion is bounded.                     *)
(***************************************************************************)
EXTENDS TxPath, SequenceTheorems, FiniteSetTheorems, TLAPS

Busy == {"diff", "limit", "put", "commit", "signal"}

\* Types of what the applications and the priority threads use.
AppShape ==
  /\ squeue \in [Socket -> Seq(OpType)]
  /\ squeueFutex \in [Socket -> 0..(FutexMod - 1)] /\ shadow \in [Socket -> 0..(FutexMod - 1)]
  /\ apc \in [Socket -> {"idle", "bump", "wake"}]
  /\ submitted \in [Socket -> Nat]
  /\ \A s \in Socket : submitted[s] <= MaxOps[s]

PrioShape ==
  /\ socketList \in Layouts
  /\ ppc \in [Level -> {"fill", "diff", "limit", "put", "commit", "signal", "wait", "asleep"}]
  /\ pidx \in [Level -> Nat \ {0}] /\ pdiff \in [Level -> Nat]
  /\ pret \in [Level -> {"fill", "loop"}]

CounterShape ==
  enqueued \in [Socket -> 0..(CounterMod - 1)] /\ dequeued \in [Socket -> 0..(CounterMod - 1)]

\* Types of the main loop.
MainShape ==
  /\ tx \in [Level -> Seq(OpType)] /\ \A l \in Level : Len(tx[l]) <= TxCap
  /\ txFd \in BOOLEAN /\ leftEmpty \in BOOLEAN
  /\ mpc \in {"select", "peek", "handle", "scan", "count", "erase"} /\ mlev \in Level
  /\ mdeq \in 0..MaxDequeues /\ fullIter \in 0..MaxFullIter

LwipShape ==
  /\ inFlight \in [Socket -> Seq(Nat)] /\ recvQueue \in [Socket -> Seq(Nat)]
  /\ \A s \in Socket : Len(inFlight[s]) <= WriteQueueCap /\ Len(recvQueue[s]) <= RecvQueueCap
  /\ recvBuf \in [Socket -> 0..RecvBuf] /\ peer \in [Socket -> 0..PeerBuf]

\* Steps of a futex word from one value to another, and the same for a counter.
Behind(new, old) == IF new >= old THEN new - old ELSE new - old + FutexMod
Apart(new, old)  == IF new >= old THEN new - old ELSE new - old + CounterMod

\* Operations the futex of s announces, and one that is put and not announced.
Announced(s) == Behind(squeueFutex[s], shadow[s])
Bumping(s)   == IF apc[s] = "bump" THEN 1 ELSE 0

\* The squeue holds what is announced, with consecutive numbers.
QueueOK(s) ==
  /\ Len(squeue[s]) <= SqueueCap /\ Len(squeue[s]) <= submitted[s]
  /\ Len(squeue[s]) = Announced(s) + Bumping(s)
  /\ \A i \in 1..Len(squeue[s]) : /\ squeue[s][i].sock = s /\ squeue[s][i].kind # "nop"
                                  /\ squeue[s][i].id = submitted[s] - Len(squeue[s]) + i

\* A thread works on a socket of its list, and shadow_actual_difference is
\* covered by what is announced there.
ThreadOK(l) ==
  /\ pidx[l] <= Len(socketList[l]) + 1
  /\ ppc[l] \in Busy => pidx[l] <= Len(socketList[l])
  /\ pdiff[l] <= SqueueCap
  /\ ppc[l] \in {"limit", "put", "commit", "signal"} => pdiff[l] <= Announced(Current(l))
  /\ ppc[l] \in {"put", "commit"} => pdiff[l] > 0

\* The invariant of applications and priority threads.
ThreadInv ==
  /\ AppShape /\ PrioShape
  /\ \A s \in Socket : QueueOK(s)
  /\ \A l \in Level : ThreadOK(l)
  /\ SleepSafe

\* Levels the main loop has found empty have nothing that will not be signalled,
\* nor anything that was waiting already.
Found(l) == tx[l] = <<>> \/ ppc[l] \in {"commit", "signal"}
PeekInv ==
  /\ mpc = "peek" /\ ~txFd => \A l \in Level : l < mlev => Found(l)
  /\ mpc = "peek" => \A l \in Level : l < mlev => \A i \in DOMAIN tx[l] : tx[l][i] \notin waiting

\* Operations of s that have left the squeue, the one in transit included.
Transit(s) == IF InTransit(s) THEN 1 ELSE 0
Moved(s)   == submitted[s] - Len(squeue[s]) + Transit(s)

\* The operation at hand is where mop says: at the head of its queue, or the
\* first recv found by the scan.
AtHand == mpc \in {"handle", "count", "erase"}
HandOK ==
  /\ mop \in [lev : Level, pos : Nat \ {0}, scan : BOOLEAN]
  /\ mop.pos <= Len(tx[mop.lev])
  /\ ~mop.scan => mop.pos = 1
  /\ mop.scan /\ mpc = "handle" =>
       /\ tx[mop.lev][mop.pos].kind = "recv"
       /\ \A j \in 1..(mop.pos - 1) : tx[mop.lev][j].kind # "recv"
MopInv ==
  /\ AtHand => HandOK
  /\ ~AtHand => mop = NoOp
  /\ AtHand /\ ~mop.scan => mdeq < MaxDequeues
  /\ mpc = "peek" /\ mlev > 1 => mdeq < MaxDequeues

\* The tx queues hold operations of their level, per socket in order, and only
\* such as have left the squeue; what was waiting has left it too.
TxInv ==
  /\ \A s \in Socket : \A l \in Level : \A i \in 1..Len(tx[l]) :
       tx[l][i].sock = s => LevelOf(s) = l /\ tx[l][i].id <= Moved(s)
  /\ \A l \in Level : \A i, j \in 1..Len(tx[l]) :
       i < j /\ tx[l][i].sock = tx[l][j].sock => tx[l][i].id < tx[l][j].id
  /\ waiting \subseteq OpType
  /\ \A s \in Socket : \A op \in waiting : op.sock = s => op.id <= Moved(s)

\* The operations of s in its tx queue that are still to be performed.
PendingOps(s) == {tx[LevelOf(s)][i] : i \in Pending(s, LevelOf(s))}

\* What has left the squeue of s is performed or pending, once.
OnceOK(s) ==
  /\ Ids(handled[s]) \union PendingIds(s) = 1..Moved(s)
  /\ Len(handled[s]) + Cardinality(PendingIds(s)) = Moved(s)

\* Nothing pending of s is overtaken but by a recv.
OrderOK(s) ==
  /\ \A j \in DOMAIN handled[s] : \A i \in 1..(j - 1) :
       handled[s][i].id < handled[s][j].id
         \/ (handled[s][i].kind = "recv" /\ handled[s][j].kind # "recv")
  /\ \A j \in DOMAIN handled[s] : \A op \in PendingOps(s) :
       handled[s][j].id < op.id
         \/ (handled[s][j].kind = "recv" /\ op.kind # "recv")

\* Operations are performed once and in order.
DoneType == [id : Nat \ {0}, kind : {"sync", "write", "recv"}]
DoneInv ==
  /\ handled \in [Socket -> Seq(DoneType)]
  /\ \A s \in Socket : OnceOK(s) /\ OrderOK(s)

\* The two counters of s differ by what is pending and what is performed and not
\* counted, less the operation in transit, by -1 at the least.
Uncounted(s) == IF mpc = "count" /\ Op.sock = s THEN 1 ELSE 0
Load(s)      == Cardinality(PendingIds(s)) + Uncounted(s)
RateOK(s) ==
  /\ Load(s) <= MaxParallel
  /\ Apart(enqueued[s], dequeued[s]) = IF Load(s) < Transit(s) THEN CounterMod - 1
                                                              ELSE Load(s) - Transit(s)
RateInv ==
  /\ \A s \in Socket : RateOK(s)
  /\ \A l \in Level : \A s \in Socket :
       ppc[l] = "put" /\ Current(l) = s => Load(s) < MaxParallel

\* What the main loop sees of the tx queues.
PeekAll == PeekInv /\ SignalNotLost /\ BoundedInversion

\* The inductive invariant.
Base == ThreadInv /\ MainShape /\ MopInv /\ TxInv
IInv == Base /\ PeekAll /\ CounterShape /\ LwipShape /\ DoneInv /\ RateInv
-----------------------------------------------------------------------------
(***************************************************************************)
(* Facts about constants, layouts and counters.                            *)
(***************************************************************************)

\* What the assumption says about the constants.
LEMMA ConstantFacts ==
  /\ Levels \in Nat /\ Levels >= 1 /\ SqueueCap \in Nat /\ SqueueCap >= 1 /\ TxCap \in Nat
  /\ MaxParallel \in Nat /\ MaxParallel >= 1 /\ MaxDequeues \in Nat /\ MaxDequeues >= 1
  /\ WriteQueueCap \in Nat /\ RecvQueueCap \in Nat /\ MaxFullIter \in Nat
  /\ RecvBuf \in Nat /\ PeerBuf \in Nat /\ Past \in Nat
  /\ FutexMod \in Nat /\ FutexMod > SqueueCap + 1
  /\ CounterMod \in Nat /\ CounterMod > MaxParallel + 1
  /\ MaxOps \in [Socket -> Nat]
  /\ Level \subseteq Nat /\ 1 \in Level /\ Levels \in Level
<1>1. /\ Levels \in Nat \ {0} /\ SqueueCap \in Nat \ {0} /\ TxCap \in Nat \ {0}
      /\ MaxParallel \in Nat \ {0} /\ MaxDequeues \in Nat \ {0} /\ WriteQueueCap \in Nat \ {0}
  BY TxAssumption
<1>2. RecvQueueCap \in Nat /\ MaxFullIter \in Nat /\ RecvBuf \in Nat /\ PeerBuf \in Nat /\ Past \in Nat
  BY TxAssumption
<1>3. /\ FutexMod \in Nat /\ FutexMod > SqueueCap + 1 /\ CounterMod \in Nat /\ CounterMod > MaxParallel + 1
      /\ MaxOps \in [Socket -> Nat]
  BY TxAssumption
<1>4. Level \subseteq Nat /\ 1 \in Level /\ Levels \in Level
  BY <1>1 DEF Level
<1> QED
  BY <1>1, <1>2, <1>3, <1>4

\* The kinds of operations an application submits.
LEMMA KindFacts ==
  ASSUME NEW s \in Socket, NEW k \in Kinds[s]
  PROVE  k \in {"sync", "write", "recv"}
BY TxAssumption

\* What the assumption says about the layout in use.
LEMMA LayoutFacts ==
  ASSUME socketList \in Layouts
  PROVE  /\ socketList \in [Level -> Seq(Socket)]
         /\ \A s \in Socket : \E l \in Level : \E i \in DOMAIN socketList[l] :
              /\ socketList[l][i] = s
              /\ \A m \in Level : \A j \in DOMAIN socketList[m] :
                   socketList[m][j] = s => m = l /\ j = i
BY TxAssumption

\* Every socket is at one place of one list, which is where LevelOf and IndexOf
\* find it.
LEMMA PlaceOf ==
  ASSUME socketList \in Layouts, NEW s \in Socket
  PROVE  /\ LevelOf(s) \in Level /\ IndexOf(s) \in DOMAIN socketList[LevelOf(s)]
         /\ socketList[LevelOf(s)][IndexOf(s)] = s
         /\ \A m \in Level : \A j \in DOMAIN socketList[m] :
              socketList[m][j] = s => m = LevelOf(s) /\ j = IndexOf(s)
<1>1. PICK l \in Level : \E i \in DOMAIN socketList[l] :
              /\ socketList[l][i] = s
              /\ \A m \in Level : \A j \in DOMAIN socketList[m] :
                   socketList[m][j] = s => m = l /\ j = i
  BY LayoutFacts
<1>2. PICK i \in DOMAIN socketList[l] :
              /\ socketList[l][i] = s
              /\ \A m \in Level : \A j \in DOMAIN socketList[m] :
                   socketList[m][j] = s => m = l /\ j = i
  BY <1>1
<1>3. LevelOf(s) \in Level /\ \E j \in DOMAIN socketList[LevelOf(s)] : socketList[LevelOf(s)][j] = s
  BY <1>2 DEF LevelOf
<1>4. LevelOf(s) = l
  BY <1>2, <1>3
<1>5. IndexOf(s) \in DOMAIN socketList[l] /\ socketList[l][IndexOf(s)] = s
  BY <1>2, <1>4 DEF IndexOf
<1> QED
  BY <1>2, <1>4, <1>5

\* The socket a busy thread works on is one of its own.
LEMMA CurrentFacts ==
  ASSUME PrioShape, NEW l \in Level, pidx[l] <= Len(socketList[l])
  PROVE  /\ Current(l) \in Socket /\ LevelOf(Current(l)) = l /\ IndexOf(Current(l)) = pidx[l]
         /\ pidx[l] \in DOMAIN socketList[l]
<1>1. socketList \in Layouts /\ pidx[l] \in Nat \ {0}
  BY DEF PrioShape
<1>2. socketList[l] \in Seq(Socket)
  BY <1>1, LayoutFacts
<1>3. pidx[l] \in 1..Len(socketList[l]) /\ DOMAIN socketList[l] = 1..Len(socketList[l])
  BY <1>1, <1>2, LenProperties
<1>4. Current(l) \in Socket
  BY <1>2, <1>3, ElementOfSeq DEF Current
<1> QED
  BY <1>1, <1>3, <1>4, PlaceOf DEF Current

\* The unsigned arithmetic of the futex word.
LEMMA BehindFacts ==
  ASSUME NEW f \in 0..(FutexMod - 1), NEW g \in 0..(FutexMod - 1)
  PROVE  /\ Behind(f, g) \in 0..(FutexMod - 1)
         /\ Behind(f, g) = 0 <=> f = g
         /\ (f - g) % FutexMod = Behind(f, g)
         /\ (f + 1) % FutexMod \in 0..(FutexMod - 1)
         /\ Behind(f, g) < FutexMod - 1 => Behind((f + 1) % FutexMod, g) = Behind(f, g) + 1
         /\ Behind(f, g) > 0 => Behind(f, (g + 1) % FutexMod) = Behind(f, g) - 1
<1> USE ConstantFacts
<1>1. \A x \in 0..(FutexMod - 1) :
        (x + 1) % FutexMod = IF x + 1 = FutexMod THEN 0 ELSE x + 1
  <2>1. ASSUME NEW x \in 0..(FutexMod - 1)
        PROVE  (x + 1) % FutexMod = IF x + 1 = FutexMod THEN 0 ELSE x + 1
    <3>1. CASE x + 1 = FutexMod
      BY <3>1
    <3>2. CASE x + 1 # FutexMod
      BY <3>2
    <3> QED
      BY <3>1, <3>2
  <2> QED
    BY <2>1
<1>2. (f - g) % FutexMod = Behind(f, g)
  <2>1. CASE f >= g
    BY <2>1 DEF Behind
  <2>2. CASE f < g
    BY <2>2 DEF Behind
  <2> QED
    BY <2>1, <2>2
<1>3. Behind(f, g) \in 0..(FutexMod - 1) /\ (Behind(f, g) = 0 <=> f = g)
  BY DEF Behind
<1>4. (f + 1) % FutexMod \in 0..(FutexMod - 1)
  BY <1>1
<1>5. Behind(f, g) < FutexMod - 1 => Behind((f + 1) % FutexMod, g) = Behind(f, g) + 1
  BY <1>1 DEF Behind
<1>6. Behind(f, g) > 0 => Behind(f, (g + 1) % FutexMod) = Behind(f, g) - 1
  BY <1>1 DEF Behind
<1> QED
  BY <1>2, <1>3, <1>4, <1>5, <1>6

\* The same for enqueued_ops and dequeued_ops.
LEMMA ApartFacts ==
  ASSUME NEW e \in 0..(CounterMod - 1), NEW d \in 0..(CounterMod - 1)
  PROVE  /\ Apart(e, d) \in 0..(CounterMod - 1)
         /\ (e - d) % CounterMod = Apart(e, d)
         /\ (e + 1) % CounterMod \in 0..(CounterMod - 1)
         /\ Apart((e + 1) % CounterMod, d) =
              IF Apart(e, d) = CounterMod - 1 THEN 0 ELSE Apart(e, d) + 1
         /\ Apart(e, (d + 1) % CounterMod) =
              IF Apart(e, d) = 0 THEN CounterMod - 1 ELSE Apart(e, d) - 1
<1> USE ConstantFacts
<1>1. ASSUME NEW x \in 0..(CounterMod - 1)
      PROVE  (x + 1) % CounterMod = IF x + 1 = CounterMod THEN 0 ELSE x + 1
  <2>1. CASE x + 1 = CounterMod
    BY <2>1
  <2>2. CASE x + 1 # CounterMod
    BY <2>2
  <2> QED
    BY <2>1, <2>2
<1>2. (e - d) % CounterMod = Apart(e, d)
  <2>1. CASE e >= d
    BY <2>1 DEF Apart
  <2>2. CASE e < d
    BY <2>2 DEF Apart
  <2> QED
    BY <2>1, <2>2
<1>3. /\ (e + 1) % CounterMod = IF e + 1 = CounterMod THEN 0 ELSE e + 1
      /\ (d + 1) % CounterMod = IF d + 1 = CounterMod THEN 0 ELSE d + 1
  BY <1>1
<1>4. Apart(e, d) \in 0..(CounterMod - 1) /\ (e + 1) % CounterMod \in 0..(CounterMod - 1)
  BY <1>3 DEF Apart
<1>5. Apart((e + 1) % CounterMod, d) =
        IF Apart(e, d) = CounterMod - 1 THEN 0 ELSE Apart(e, d) + 1
  BY <1>3 DEF Apart
<1>6. Apart(e, (d + 1) % CounterMod) =
        IF Apart(e, d) = 0 THEN CounterMod - 1 ELSE Apart(e, d) - 1
  BY <1>3 DEF Apart
<1> QED
  BY <1>2, <1>4, <1>5, <1>6

\* What Append and Tail do to a sequence of operations.
LEMMA AppendOp ==
  ASSUME NEW S, NEW q \in Seq(S), NEW e \in S
  PROVE  /\ Append(q, e) \in Seq(S) /\ Len(Append(q, e)) = Len(q) + 1 /\ Len(q) \in Nat
         /\ \A i \in 1..Len(q) : Append(q, e)[i] = q[i]
         /\ Append(q, e)[Len(q) + 1] = e
BY AppendProperties, LenProperties

\* What is left of a queue when its head has been taken: pifus_tx_queue_pop and
\* the pop of a write or recv queue.
LEMMA TailOp ==
  ASSUME NEW S, NEW q \in Seq(S), q # <<>>
  PROVE  /\ Tail(q) \in Seq(S) /\ Len(Tail(q)) = Len(q) - 1 /\ Len(q) \in Nat /\ Len(q) >= 1
         /\ \A i \in 1..(Len(q) - 1) : Tail(q)[i] = q[i + 1]
         /\ Head(q) = q[1] /\ Head(q) \in S
<1>1. Len(q) \in Nat /\ Len(q) # 0
  BY EmptySeq, LenProperties
<1>2. Tail(q) \in Seq(S) /\ Len(Tail(q)) = Len(q) - 1 /\ Head(q) \in S
      /\ \A i \in 1..(Len(q) - 1) : Tail(q)[i] = q[i + 1]
  BY HeadTailProperties
<1>3. Head(q) = q[1]
  BY HeadTailProperties
<1> QED
  BY <1>1, <1>2, <1>3
-----------------------------------------------------------------------------
(***************************************************************************)
(* Applications and priority threads.                                      *)
(***************************************************************************)

\* What the invariant says of one socket.
LEMMA SocketFacts ==
  ASSUME ThreadInv, NEW s \in Socket
  PROVE  /\ squeue[s] \in Seq(OpType) /\ Len(squeue[s]) \in 0..SqueueCap
         /\ squeueFutex[s] \in 0..(FutexMod - 1) /\ shadow[s] \in 0..(FutexMod - 1)
         /\ submitted[s] \in Nat /\ Announced(s) \in 0..SqueueCap /\ Announced(s) < FutexMod - 1
         /\ Bumping(s) \in 0..1 /\ QueueOK(s)
<1>1. /\ squeue[s] \in Seq(OpType) /\ submitted[s] \in Nat
      /\ squeueFutex[s] \in 0..(FutexMod - 1) /\ shadow[s] \in 0..(FutexMod - 1)
  BY DEF ThreadInv, AppShape
<1>2. QueueOK(s)
  BY DEF ThreadInv
<1>3. Announced(s) \in 0..(FutexMod - 1)
  BY <1>1, BehindFacts DEF Announced
<1>4. Bumping(s) \in 0..1
  BY DEF Bumping
<1>5. Len(squeue[s]) \in Nat
  BY <1>1, LenProperties
<1>6. Len(squeue[s]) = Announced(s) + Bumping(s) /\ Len(squeue[s]) <= SqueueCap
  BY <1>2 DEF QueueOK
<1>7. Announced(s) \in 0..SqueueCap /\ Announced(s) < FutexMod - 1 /\ Len(squeue[s]) \in 0..SqueueCap
  BY <1>3, <1>4, <1>5, <1>6, ConstantFacts
<1> QED
  BY <1>1, <1>2, <1>4, <1>7

\* What the invariant says of one thread.
LEMMA ThreadFacts ==
  ASSUME ThreadInv, NEW l \in Level
  PROVE  /\ PrioShape /\ ThreadOK(l) /\ pidx[l] \in Nat \ {0} /\ pdiff[l] \in Nat
         /\ socketList[l] \in Seq(Socket) /\ Len(socketList[l]) \in Nat
         /\ DOMAIN socketList[l] = 1..Len(socketList[l])
         /\ ppc[l] \in Busy => /\ Current(l) \in Socket /\ LevelOf(Current(l)) = l
                               /\ IndexOf(Current(l)) = pidx[l]
                               /\ pidx[l] \in DOMAIN socketList[l]
<1>1. PrioShape /\ ThreadOK(l)
  BY DEF ThreadInv
<1>2. pidx[l] \in Nat \ {0} /\ pdiff[l] \in Nat /\ socketList \in Layouts
  BY <1>1 DEF PrioShape
<1>3. socketList[l] \in Seq(Socket)
  BY <1>2, LayoutFacts
<1>4. Len(socketList[l]) \in Nat /\ DOMAIN socketList[l] = 1..Len(socketList[l])
  BY <1>3, LenProperties
<1>5. ppc[l] \in Busy => pidx[l] <= Len(socketList[l])
  BY <1>1 DEF ThreadOK
<1> QED
  BY <1>1, <1>2, <1>3, <1>4, <1>5, CurrentFacts

\* Every entry of a thread's list is a socket of that thread.
LEMMA ListedFacts ==
  ASSUME ThreadInv
  PROVE  \A l \in Level : \A i \in DOMAIN socketList[l] :
           socketList[l][i] \in Socket /\ LevelOf(socketList[l][i]) = l
<1>1. ASSUME NEW l \in Level, NEW i \in DOMAIN socketList[l]
      PROVE  socketList[l][i] \in Socket
  BY ThreadFacts, ElementOfSeq
<1>2. socketList \in Layouts
  BY DEF ThreadInv, PrioShape
<1> QED
  BY <1>1, <1>2, PlaceOf

\* Two busy threads work on different sockets.
LEMMA DistinctCurrent ==
  ASSUME ThreadInv, NEW l \in Level, NEW m \in Level, l # m,
         ppc[l] \in Busy, ppc[m] \in Busy
  PROVE  Current(l) # Current(m)
BY ThreadFacts

\* A step that leaves the part of one socket or of one thread alone.
LEMMA QueueFrame ==
  ASSUME NEW s \in Socket, QueueOK(s),
         squeue'[s] = squeue[s], squeueFutex'[s] = squeueFutex[s], shadow'[s] = shadow[s],
         submitted'[s] = submitted[s], Bumping(s)' = Bumping(s)
  PROVE  QueueOK(s)'
BY DEF QueueOK, Announced, Behind

\* A thread's own invariant survives a step of somebody else that announces
\* nothing the thread's current socket has not put in its squeue.
LEMMA ThreadFrame ==
  ASSUME ThreadInv, AppShape', NEW l \in Level, socketList' = socketList,
         ppc'[l] = ppc[l], pidx'[l] = pidx[l], pdiff'[l] = pdiff[l],
         ppc[l] \in Busy => Announced(Current(l)) <= Behind(squeueFutex'[Current(l)], shadow'[Current(l)])
  PROVE  ThreadOK(l)'
<1>1. ThreadOK(l) /\ pdiff[l] \in Nat
  BY ThreadFacts
<1>2. Current(l)' = Current(l)
  BY DEF Current
<1>3. CASE ppc[l] \in Busy
  <2>1. Current(l) \in Socket
    BY <1>3, ThreadFacts
  <2>2. Announced(Current(l)) \in Nat
    BY <2>1, SocketFacts
  <2>3. Behind(squeueFutex'[Current(l)], shadow'[Current(l)]) \in Nat
    <3>1. squeueFutex'[Current(l)] \in 0..(FutexMod - 1) /\ shadow'[Current(l)] \in 0..(FutexMod - 1)
      BY <2>1 DEF AppShape
    <3>2. \A f, g \in 0..(FutexMod - 1) : Behind(f, g) \in Nat
      BY BehindFacts, ConstantFacts
    <3> QED
      BY <3>1, <3>2
  <2>4. Announced(Current(l))' = Behind(squeueFutex'[Current(l)], shadow'[Current(l)])
    BY <1>2 DEF Announced
  <2> QED
    BY <1>1, <1>2, <1>3, <2>2, <2>3, <2>4 DEF ThreadOK
<1>4. CASE ppc[l] \notin Busy
  BY <1>1, <1>4 DEF ThreadOK, Busy
<1> QED
  BY <1>3, <1>4

\* The thread side of a step that only the main loop or lwIP takes.
LEMMA ThreadInvFrame ==
  ASSUME ThreadInv, UNCHANGED <<squeue, squeueFutex, appVars, prioVars>>
  PROVE  ThreadInv'
<1> USE DEF appVars, prioVars
<1>1. AppShape' /\ PrioShape'
  BY DEF ThreadInv, AppShape, PrioShape
<1>2. ASSUME NEW s \in Socket PROVE QueueOK(s)'
  BY QueueFrame DEF ThreadInv, Bumping
<1>3. ASSUME NEW l \in Level PROVE ThreadOK(l)'
  <2>1. ppc[l] \in Busy => Announced(Current(l)) <= Behind(squeueFutex'[Current(l)], shadow'[Current(l)])
    <3>1. SUFFICES ASSUME ppc[l] \in Busy
                   PROVE  Announced(Current(l)) <= Behind(squeueFutex'[Current(l)], shadow'[Current(l)])
      OBVIOUS
    <3>2. Announced(Current(l)) \in Nat
      BY <3>1, ThreadFacts, SocketFacts
    <3> QED
      BY <3>2 DEF Announced
  <2> QED
    BY <1>1, <2>1, ThreadFrame
<1>4. SleepSafe'
  BY DEF ThreadInv, SleepSafe
<1> QED
  BY <1>1, <1>2, <1>3, <1>4 DEF ThreadInv

\* An operation is put in the squeue.
LEMMA AppPutThread ==
  ASSUME ThreadInv, NEW s \in Socket, NEW k \in Kinds[s], AppPut(s, k)
  PROVE  ThreadInv'
<1> USE DEF prioVars
<1> DEFINE op == [sock |-> s, id |-> submitted[s] + 1, kind |-> k]
<1>1. /\ apc[s] = "idle" /\ submitted[s] < MaxOps[s] /\ Len(squeue[s]) < SqueueCap
      /\ submitted' = [submitted EXCEPT ![s] = submitted[s] + 1]
      /\ squeue' = [squeue EXCEPT ![s] = Append(squeue[s], op)]
      /\ apc' = [apc EXCEPT ![s] = "bump"]
      /\ UNCHANGED <<squeueFutex, shadow, socketList, ppc, pidx, pdiff, pret>>
  BY DEF AppPut, Submit
<1>2. /\ squeue \in [Socket -> Seq(OpType)]
      /\ apc \in [Socket -> {"idle", "bump", "wake"}] /\ submitted \in [Socket -> Nat]
      /\ \A x \in Socket : submitted[x] <= MaxOps[x]
  BY DEF ThreadInv, AppShape
<1>3. op \in OpType
  BY <1>2, KindFacts DEF OpType
<1> HIDE DEF op
<1>4. /\ Append(squeue[s], op) \in Seq(OpType) /\ Len(Append(squeue[s], op)) = Len(squeue[s]) + 1
      /\ \A i \in 1..Len(squeue[s]) : Append(squeue[s], op)[i] = squeue[s][i]
      /\ Append(squeue[s], op)[Len(squeue[s]) + 1] = op
  BY <1>2, <1>3, AppendOp
<1>5. AppShape'
  <2>1. squeue' \in [Socket -> Seq(OpType)] /\ apc' \in [Socket -> {"idle", "bump", "wake"}]
    BY <1>1, <1>2, <1>4
  <2>2. submitted' \in [Socket -> Nat]
    BY <1>1, <1>2
  <2>3. \A x \in Socket : submitted'[x] <= MaxOps[x]
    BY <1>1, <1>2, ConstantFacts
  <2> QED
    BY <1>1, <2>1, <2>2, <2>3 DEF AppShape, ThreadInv
<1>6. PrioShape'
  BY <1>1 DEF PrioShape, ThreadInv
<1>7. ASSUME NEW x \in Socket PROVE QueueOK(x)'
  <2>1. CASE x # s
    <3>1. squeue'[x] = squeue[x] /\ submitted'[x] = submitted[x] /\ apc'[x] = apc[x]
      BY <1>1, <1>2, <2>1
    <3> QED
      BY <1>1, <3>1, QueueFrame DEF ThreadInv, Bumping
  <2>2. CASE x = s
    <3>1. /\ squeue'[s] = Append(squeue[s], op) /\ submitted'[s] = submitted[s] + 1
          /\ Bumping(s) = 0 /\ Bumping(s)' = 1
      BY <1>1, <1>2 DEF Bumping
    <3>2. Announced(s)' = Announced(s)
      BY <1>1 DEF Announced
    <3>3. op.sock = s /\ op.kind # "nop" /\ op.id = submitted[s] + 1
      BY KindFacts DEF op
    <3>4. /\ Len(squeue[s]) \in Nat /\ submitted[s] \in Nat /\ Announced(s) \in Nat
          /\ QueueOK(s)
      BY SocketFacts
    <3>5. \A i \in 1..Len(squeue'[s]) :
             /\ squeue'[s][i].sock = s /\ squeue'[s][i].kind # "nop"
             /\ squeue'[s][i].id = submitted'[s] - Len(squeue'[s]) + i
      <4>1. ASSUME NEW i \in 1..(Len(squeue[s]) + 1)
            PROVE  /\ squeue'[s][i].sock = s /\ squeue'[s][i].kind # "nop"
                   /\ squeue'[s][i].id = submitted[s] - Len(squeue[s]) + i
        <5>1. CASE i = Len(squeue[s]) + 1
          BY <1>4, <3>1, <3>3, <3>4, <5>1
        <5>2. CASE i \in 1..Len(squeue[s])
          BY <1>4, <3>1, <3>4, <5>2 DEF QueueOK
        <5> QED
          BY <3>4, <5>1, <5>2
      <4>2. /\ 1..Len(squeue'[s]) = 1..(Len(squeue[s]) + 1)
            /\ submitted'[s] - Len(squeue'[s]) = submitted[s] - Len(squeue[s])
        BY <1>4, <3>1, <3>4
      <4> QED
        BY <4>1, <4>2
    <3>6. /\ Len(squeue'[s]) = Len(squeue[s]) + 1
          /\ Len(squeue[s]) = Announced(s) + Bumping(s) /\ Len(squeue[s]) <= submitted[s]
      BY <1>4, <3>1, <3>4 DEF QueueOK
    <3>7. /\ Len(squeue'[s]) <= SqueueCap /\ Len(squeue'[s]) <= submitted'[s]
          /\ Len(squeue'[s]) = Announced(s)' + Bumping(s)'
      BY <1>1, <3>1, <3>2, <3>4, <3>6, ConstantFacts
    <3> QED
      BY <2>2, <3>5, <3>7 DEF QueueOK
  <2> QED
    BY <2>1, <2>2
<1>8. ASSUME NEW l \in Level PROVE ThreadOK(l)'
  <2>1. ppc[l] \in Busy => Announced(Current(l)) <= Behind(squeueFutex'[Current(l)], shadow'[Current(l)])
    <3>1. SUFFICES ASSUME ppc[l] \in Busy
                   PROVE  Announced(Current(l)) <= Behind(squeueFutex'[Current(l)], shadow'[Current(l)])
      OBVIOUS
    <3>2. Announced(Current(l)) \in Nat
      BY <3>1, ThreadFacts, SocketFacts
    <3> QED
      BY <1>1, <3>2 DEF Announced
  <2> QED
    BY <1>1, <1>5, <2>1, ThreadFrame
<1>9. SleepSafe'
  <2>1. \A x \in Socket : apc[x] = "wake" => apc'[x] = "wake"
    BY <1>1, <1>2
  <2> QED
    BY <1>1, <2>1, ListedFacts DEF SleepSafe, ThreadInv
<1> QED
  BY <1>5, <1>6, <1>7, <1>8, <1>9 DEF ThreadInv

\* The futex is counted up.
LEMMA AppBumpThread ==
  ASSUME ThreadInv, NEW s \in Socket, AppBump(s)
  PROVE  ThreadInv'
<1> USE DEF prioVars
<1>1. /\ apc[s] = "bump"
      /\ squeueFutex' = [squeueFutex EXCEPT ![s] = (squeueFutex[s] + 1) % FutexMod]
      /\ apc' = [apc EXCEPT ![s] = "wake"]
      /\ UNCHANGED <<squeue, submitted, shadow, socketList, ppc, pidx, pdiff, pret>>
  BY DEF AppBump
<1>2. /\ squeueFutex \in [Socket -> 0..(FutexMod - 1)]
      /\ apc \in [Socket -> {"idle", "bump", "wake"}]
  BY DEF ThreadInv, AppShape
<1>3. /\ squeueFutex[s] \in 0..(FutexMod - 1) /\ shadow[s] \in 0..(FutexMod - 1)
      /\ Announced(s) \in Nat /\ Announced(s) < FutexMod - 1
  BY SocketFacts
<1>4. /\ (squeueFutex[s] + 1) % FutexMod \in 0..(FutexMod - 1)
      /\ Behind((squeueFutex[s] + 1) % FutexMod, shadow[s]) = Announced(s) + 1
  BY <1>3, BehindFacts DEF Announced
<1>5. AppShape'
  BY <1>1, <1>2, <1>4 DEF AppShape, ThreadInv
<1>6. PrioShape'
  BY <1>1 DEF PrioShape, ThreadInv
<1>7. squeueFutex'[s] = (squeueFutex[s] + 1) % FutexMod /\ apc'[s] = "wake"
      /\ \A x \in Socket : x # s => squeueFutex'[x] = squeueFutex[x] /\ apc'[x] = apc[x]
  BY <1>1, <1>2
<1>8. ASSUME NEW x \in Socket PROVE QueueOK(x)'
  <2>1. CASE x # s
    BY <1>1, <1>7, <2>1, QueueFrame DEF ThreadInv, Bumping
  <2>2. CASE x = s
    <3>1. Announced(s)' = Announced(s) + 1 /\ Bumping(s) = 1 /\ Bumping(s)' = 0
      BY <1>1, <1>4, <1>7 DEF Announced, Bumping
    <3>2. Announced(s)' + Bumping(s)' = Announced(s) + Bumping(s)
      BY <1>3, <3>1
    <3>3. QueueOK(s)
      BY SocketFacts
    <3> QED
      BY <1>1, <2>2, <3>2, <3>3 DEF QueueOK
  <2> QED
    BY <2>1, <2>2
<1>9. ASSUME NEW l \in Level PROVE ThreadOK(l)'
  <2>1. ppc[l] \in Busy => Announced(Current(l)) <= Behind(squeueFutex'[Current(l)], shadow'[Current(l)])
    <3>1. SUFFICES ASSUME ppc[l] \in Busy
                   PROVE  Announced(Current(l)) <= Behind(squeueFutex'[Current(l)], shadow'[Current(l)])
      OBVIOUS
    <3>2. Current(l) \in Socket /\ Announced(Current(l)) \in Nat
      BY <3>1, ThreadFacts, SocketFacts
    <3>3. CASE Current(l) = s
      BY <1>1, <1>3, <1>4, <1>7, <3>3
    <3>4. CASE Current(l) # s
      BY <1>1, <1>7, <3>2, <3>4 DEF Announced
    <3> QED
      BY <3>3, <3>4
  <2> QED
    BY <1>1, <1>5, <2>1, ThreadFrame
<1>10. SleepSafe'
  BY <1>1, <1>7, ListedFacts DEF SleepSafe, ThreadInv
<1> QED
  BY <1>5, <1>6, <1>8, <1>9, <1>10 DEF ThreadInv

\* futex_wake.
LEMMA AppWakeThread ==
  ASSUME ThreadInv, NEW s \in Socket, AppWake(s)
  PROVE  ThreadInv'
<1> USE DEF prioVars
<1>1. /\ apc[s] = "wake" /\ apc' = [apc EXCEPT ![s] = "idle"]
      /\ UNCHANGED <<squeue, squeueFutex, submitted, shadow, socketList, pdiff>>
  BY DEF AppWake
<1>2. /\ apc \in [Socket -> {"idle", "bump", "wake"}]
      /\ ppc \in [Level -> {"fill", "diff", "limit", "put", "commit", "signal", "wait", "asleep"}]
      /\ pidx \in [Level -> Nat \ {0}] /\ pret \in [Level -> {"fill", "loop"}]
      /\ socketList \in Layouts /\ PrioShape
  BY DEF ThreadInv, AppShape, PrioShape
<1>3. PICK l \in Level : /\ l = LevelOf(s) /\ IndexOf(s) \in 1..Len(socketList[l])
                          /\ Len(socketList[l]) \in Nat
  BY <1>2, PlaceOf, ThreadFacts
<1>4. apc'[s] = "idle" /\ \A x \in Socket : x # s => apc'[x] = apc[x]
  BY <1>1, <1>2
<1>5. AppShape'
  BY <1>1, <1>2 DEF AppShape, ThreadInv
<1>6. ASSUME NEW x \in Socket PROVE QueueOK(x)'
  <2>1. Bumping(x)' = Bumping(x)
    BY <1>1, <1>4 DEF Bumping
  <2> QED
    BY <1>1, <2>1, QueueFrame DEF ThreadInv
<1>7. ASSUME NEW m \in Level, ppc'[m] = ppc[m], pidx'[m] = pidx[m] PROVE ThreadOK(m)'
  <2>1. ppc[m] \in Busy => Announced(Current(m)) <= Behind(squeueFutex'[Current(m)], shadow'[Current(m)])
    <3>1. SUFFICES ASSUME ppc[m] \in Busy
                   PROVE  Announced(Current(m)) <= Behind(squeueFutex'[Current(m)], shadow'[Current(m)])
      OBVIOUS
    <3>2. Announced(Current(m)) \in Nat
      BY <3>1, ThreadFacts, SocketFacts
    <3> QED
      BY <1>1, <3>2 DEF Announced
  <2> QED
    BY <1>1, <1>5, <1>7, <2>1, ThreadFrame
<1>8. CASE ppc[l] = "asleep"
  <2>1. /\ ppc' = [ppc EXCEPT ![l] = "diff"] /\ pidx' = [pidx EXCEPT ![l] = IndexOf(s)]
        /\ pret' = [pret EXCEPT ![l] = "loop"]
    BY <1>3, <1>8 DEF AppWake
  <2>2. /\ ppc'[l] = "diff" /\ pidx'[l] = IndexOf(s)
        /\ \A m \in Level : m # l => ppc'[m] = ppc[m] /\ pidx'[m] = pidx[m]
    BY <1>2, <1>3, <2>1
  <2>3. PrioShape'
    BY <1>1, <1>2, <1>3, <2>1 DEF PrioShape
  <2>4. ThreadOK(l)'
    <3>1. pdiff[l] \in Nat /\ pdiff[l] <= SqueueCap
      BY <1>3, ThreadFacts DEF ThreadOK
    <3> QED
      BY <1>1, <1>3, <2>2, <3>1 DEF ThreadOK
  <2>5. SleepSafe'
    <3>1. SUFFICES ASSUME NEW m \in Level, ppc'[m] = "asleep", NEW i \in DOMAIN socketList[m]
                   PROVE  squeueFutex[socketList[m][i]] = shadow[socketList[m][i]] \/ apc'[socketList[m][i]] = "wake"
      BY <1>1 DEF SleepSafe
    <3>2. m # l /\ ppc[m] = "asleep"
      BY <2>2, <3>1
    <3>3. socketList[m][i] \in Socket /\ socketList[m][i] # s
      BY <1>3, <3>2, ListedFacts
    <3> QED
      BY <1>4, <3>2, <3>3 DEF SleepSafe, ThreadInv
  <2> QED
    BY <1>5, <1>6, <1>7, <2>2, <2>3, <2>4, <2>5 DEF ThreadInv
<1>9. CASE ppc[l] # "asleep"
  <2>1. UNCHANGED <<ppc, pidx, pret>>
    BY <1>3, <1>9 DEF AppWake
  <2>2. PrioShape'
    BY <1>1, <1>2, <2>1 DEF PrioShape
  <2>3. SleepSafe'
    <3>1. SUFFICES ASSUME NEW m \in Level, ppc[m] = "asleep", NEW i \in DOMAIN socketList[m]
                   PROVE  squeueFutex[socketList[m][i]] = shadow[socketList[m][i]] \/ apc'[socketList[m][i]] = "wake"
      BY <1>1, <2>1 DEF SleepSafe
    <3>2. socketList[m][i] \in Socket /\ socketList[m][i] # s
      BY <1>3, <1>9, <3>1, ListedFacts
    <3> QED
      BY <1>4, <3>1, <3>2 DEF SleepSafe, ThreadInv
  <2> QED
    BY <1>5, <1>6, <1>7, <2>1, <2>2, <2>3 DEF ThreadInv
<1> QED
  BY <1>8, <1>9

\* A step of the thread of level l that touches nothing but its own state.
LEMMA PrioLocal ==
  ASSUME ThreadInv, NEW l \in Level,
         UNCHANGED <<squeue, squeueFutex, apc, submitted, shadow, socketList>>,
         \A m \in Level : m # l => ppc'[m] = ppc[m] /\ pidx'[m] = pidx[m] /\ pdiff'[m] = pdiff[m],
         PrioShape', ThreadOK(l)',
         ppc'[l] = "asleep" => \A i \in DOMAIN socketList[l] :
                                 squeueFutex[socketList[l][i]] = shadow[socketList[l][i]]
  PROVE  ThreadInv'
<1>1. AppShape'
  BY DEF ThreadInv, AppShape
<1>2. ASSUME NEW x \in Socket PROVE QueueOK(x)'
  BY QueueFrame DEF ThreadInv, Bumping
<1>3. ASSUME NEW m \in Level, m # l PROVE ThreadOK(m)'
  <2>1. ppc[m] \in Busy => Announced(Current(m)) <= Behind(squeueFutex'[Current(m)], shadow'[Current(m)])
    <3>1. SUFFICES ASSUME ppc[m] \in Busy
                   PROVE  Announced(Current(m)) <= Behind(squeueFutex'[Current(m)], shadow'[Current(m)])
      OBVIOUS
    <3>2. Announced(Current(m)) \in Nat
      BY <3>1, ThreadFacts, SocketFacts
    <3> QED
      BY <3>2 DEF Announced
  <2> QED
    BY <1>1, <1>3, <2>1, ThreadFrame
<1>4. SleepSafe'
  <2>1. SUFFICES ASSUME NEW m \in Level, ppc'[m] = "asleep", NEW i \in DOMAIN socketList[m]
                 PROVE  squeueFutex[socketList[m][i]] = shadow[socketList[m][i]] \/ apc[socketList[m][i]] = "wake"
    BY DEF SleepSafe
  <2>2. CASE m = l
    BY <2>1, <2>2
  <2>3. CASE m # l
    BY <2>1, <2>3 DEF SleepSafe, ThreadInv
  <2> QED
    BY <2>2, <2>3
<1> QED
  BY <1>1, <1>2, <1>3, <1>4 DEF ThreadInv

\* handle_squeue_change returns.
LEMMA ReturnThread ==
  ASSUME ThreadInv, NEW l \in Level, ppc[l] \in Busy, Return(l),
         UNCHANGED <<squeue, squeueFutex, apc, submitted, shadow, socketList>>
  PROVE  ThreadInv' /\ ppc'[l] = "fill" /\ \A m \in Level : m # l => ppc'[m] = ppc[m] /\ pidx'[m] = pidx[m]
<1>1. /\ ppc' = [ppc EXCEPT ![l] = "fill"]
      /\ pidx' = [pidx EXCEPT ![l] = IF pret[l] = "fill" THEN pidx[l] + 1 ELSE 1]
      /\ pdiff' = [pdiff EXCEPT ![l] = 0]
      /\ pret' = [pret EXCEPT ![l] = "fill"]
  BY DEF Return
<1>2. /\ ppc \in [Level -> {"fill", "diff", "limit", "put", "commit", "signal", "wait", "asleep"}]
      /\ pidx \in [Level -> Nat \ {0}] /\ pdiff \in [Level -> Nat]
      /\ pret \in [Level -> {"fill", "loop"}] /\ socketList \in Layouts
  BY DEF ThreadInv, PrioShape
<1>3. PrioShape'
  <2>1. pidx' \in [Level -> Nat \ {0}]
    BY <1>1, <1>2
  <2> QED
    BY <1>1, <1>2, <2>1 DEF PrioShape
<1>4. /\ ppc'[l] = "fill" /\ pdiff'[l] = 0 /\ pidx'[l] \in 1..(pidx[l] + 1)
      /\ \A m \in Level : m # l => ppc'[m] = ppc[m] /\ pidx'[m] = pidx[m] /\ pdiff'[m] = pdiff[m]
  BY <1>1, <1>2
<1>5. ThreadOK(l)'
  <2>1. pidx[l] \in Nat /\ Len(socketList[l]) \in Nat /\ pidx[l] <= Len(socketList[l])
    BY ThreadFacts DEF ThreadOK
  <2> QED
    BY <1>4, <2>1, ConstantFacts DEF ThreadOK, Busy
<1>6. ThreadInv'
  BY <1>3, <1>4, <1>5, PrioLocal
<1> QED
  BY <1>4, <1>6

\* fill_prio_waitv.
LEMMA PrioFillThread ==
  ASSUME ThreadInv, NEW l \in Level, PrioFill(l)
  PROVE  ThreadInv'
<1> USE DEF appVars
<1>1. ppc[l] = "fill" /\ UNCHANGED <<squeue, squeueFutex, apc, submitted, shadow, socketList, pdiff>>
  BY DEF PrioFill
<1>2. /\ ppc \in [Level -> {"fill", "diff", "limit", "put", "commit", "signal", "wait", "asleep"}]
      /\ pidx \in [Level -> Nat \ {0}] /\ pdiff \in [Level -> Nat]
      /\ pret \in [Level -> {"fill", "loop"}] /\ socketList \in Layouts
  BY DEF ThreadInv, PrioShape
<1>3. /\ pidx[l] \in Nat \ {0} /\ Len(socketList[l]) \in Nat /\ pidx[l] <= Len(socketList[l]) + 1
      /\ pdiff[l] <= SqueueCap
  BY ThreadFacts DEF ThreadOK
<1>4. CASE pidx[l] > Len(socketList[l])
  <2>1. ppc' = [ppc EXCEPT ![l] = "wait"] /\ UNCHANGED <<pidx, pret>>
    BY <1>4 DEF PrioFill
  <2>2. PrioShape'
    BY <1>1, <1>2, <2>1 DEF PrioShape
  <2>3. ppc'[l] = "wait" /\ \A m \in Level : m # l => ppc'[m] = ppc[m]
    BY <1>2, <2>1
  <2>4. ThreadOK(l)'
    BY <1>1, <1>3, <2>1, <2>3 DEF ThreadOK, Busy
  <2> QED
    BY <1>1, <2>1, <2>2, <2>3, <2>4, PrioLocal
<1>5. CASE ~(pidx[l] > Len(socketList[l])) /\ squeueFutex[Current(l)] # shadow[Current(l)]
  <2>1. ppc' = [ppc EXCEPT ![l] = "diff"] /\ pret' = [pret EXCEPT ![l] = "fill"] /\ UNCHANGED pidx
    BY <1>5 DEF PrioFill
  <2>2. PrioShape'
    BY <1>1, <1>2, <2>1 DEF PrioShape
  <2>3. ppc'[l] = "diff" /\ \A m \in Level : m # l => ppc'[m] = ppc[m]
    BY <1>2, <2>1
  <2>4. ThreadOK(l)'
    BY <1>1, <1>3, <1>5, <2>1, <2>3 DEF ThreadOK, Busy
  <2> QED
    BY <1>1, <2>1, <2>2, <2>3, <2>4, PrioLocal
<1>6. CASE ~(pidx[l] > Len(socketList[l])) /\ squeueFutex[Current(l)] = shadow[Current(l)]
  <2>1. pidx' = [pidx EXCEPT ![l] = pidx[l] + 1] /\ UNCHANGED <<ppc, pret>>
    BY <1>6 DEF PrioFill
  <2>2. PrioShape'
    BY <1>1, <1>2, <2>1 DEF PrioShape
  <2>3. pidx'[l] = pidx[l] + 1 /\ \A m \in Level : m # l => pidx'[m] = pidx[m]
    BY <1>2, <2>1
  <2>4. ThreadOK(l)'
    BY <1>1, <1>3, <1>6, <2>1, <2>3 DEF ThreadOK, Busy
  <2> QED
    BY <1>1, <2>1, <2>2, <2>3, <2>4, PrioLocal
<1> QED
  BY <1>4, <1>5, <1>6

\* handle_squeue_change reads the futex.
LEMMA PrioDiffThread ==
  ASSUME ThreadInv, NEW l \in Level, PrioDiff(l)
  PROVE  ThreadInv'
<1> USE DEF appVars
<1>1. /\ ppc[l] = "diff" /\ ppc' = [ppc EXCEPT ![l] = "limit"]
      /\ pdiff' = [pdiff EXCEPT ![l] = (squeueFutex[Current(l)] - shadow[Current(l)]) % FutexMod]
      /\ UNCHANGED <<squeue, squeueFutex, apc, submitted, shadow, socketList, pidx, pret>>
  BY DEF PrioDiff
<1>2. /\ ppc \in [Level -> {"fill", "diff", "limit", "put", "commit", "signal", "wait", "asleep"}]
      /\ pidx \in [Level -> Nat \ {0}] /\ pdiff \in [Level -> Nat]
      /\ pret \in [Level -> {"fill", "loop"}] /\ socketList \in Layouts
  BY DEF ThreadInv, PrioShape
<1>3. /\ pidx[l] \in Nat \ {0} /\ Len(socketList[l]) \in Nat /\ pidx[l] <= Len(socketList[l])
      /\ Current(l) \in Socket
  BY <1>1, ThreadFacts DEF ThreadOK, Busy
<1>4. /\ (squeueFutex[Current(l)] - shadow[Current(l)]) % FutexMod = Announced(Current(l))
      /\ Announced(Current(l)) \in Nat /\ Announced(Current(l)) <= SqueueCap
  <2>1. /\ squeueFutex[Current(l)] \in 0..(FutexMod - 1) /\ shadow[Current(l)] \in 0..(FutexMod - 1)
        /\ Announced(Current(l)) \in 0..SqueueCap
    BY <1>3, SocketFacts
  <2>2. \A f, g \in 0..(FutexMod - 1) : (f - g) % FutexMod = Behind(f, g)
    BY BehindFacts
  <2>3. (squeueFutex[Current(l)] - shadow[Current(l)]) % FutexMod = Announced(Current(l))
    BY <2>1, <2>2 DEF Announced
  <2> QED
    BY <2>1, <2>3, ConstantFacts
<1>5. /\ ppc'[l] = "limit" /\ pdiff'[l] = Announced(Current(l))
      /\ \A m \in Level : m # l => ppc'[m] = ppc[m] /\ pdiff'[m] = pdiff[m]
  BY <1>1, <1>2, <1>4
<1>6. PrioShape'
  BY <1>1, <1>2, <1>4 DEF PrioShape
<1>7. Announced(Current(l))' = Announced(Current(l))
  BY <1>1 DEF Announced, Current
<1>8. ThreadOK(l)'
  BY <1>1, <1>3, <1>4, <1>5, <1>7 DEF ThreadOK
<1> QED
  BY <1>1, <1>5, <1>6, <1>8, PrioLocal

\* The condition of its loop.
LEMMA PrioLimitThread ==
  ASSUME ThreadInv, NEW l \in Level, PrioLimit(l)
  PROVE  ThreadInv'
<1> USE DEF appVars
<1>1. ppc[l] = "limit" /\ UNCHANGED <<squeue, squeueFutex, apc, submitted, shadow, socketList>>
  BY DEF PrioLimit, MoveUnless
<1>2. CASE Return(l)
  BY <1>1, <1>2, ReturnThread DEF Busy
<1>3. CASE pdiff[l] > 0 /\ ppc' = [ppc EXCEPT ![l] = "put"] /\ UNCHANGED <<pidx, pdiff, pret>>
  <2>1. ppc \in [Level -> {"fill", "diff", "limit", "put", "commit", "signal", "wait", "asleep"}]
        /\ PrioShape
    BY DEF ThreadInv, PrioShape
  <2>2. PrioShape'
    BY <1>1, <1>3, <2>1 DEF PrioShape
  <2>3. ppc'[l] = "put" /\ \A m \in Level : m # l => ppc'[m] = ppc[m]
    BY <1>3, <2>1
  <2>4. Announced(Current(l))' = Announced(Current(l))
    BY <1>1, <1>3 DEF Announced, Current
  <2>5. ThreadOK(l)
    BY ThreadFacts
  <2>6. ThreadOK(l)'
    BY <1>1, <1>3, <2>3, <2>4, <2>5 DEF ThreadOK, Busy
  <2> QED
    BY <1>1, <1>3, <2>2, <2>3, <2>6, PrioLocal
<1> QED
  BY <1>2, <1>3 DEF PrioLimit, MoveUnless

\* The oldest operation is copied to the tx queue.
LEMMA PrioPutThread ==
  ASSUME ThreadInv, NEW l \in Level, PrioPut(l)
  PROVE  ThreadInv'
<1> USE DEF appVars
<1>1. ppc[l] = "put" /\ UNCHANGED <<squeue, squeueFutex, apc, submitted, shadow, socketList>>
  BY DEF PrioPut
<1>2. CASE Return(l)
  BY <1>1, <1>2, ReturnThread DEF Busy
<1>3. CASE ppc' = [ppc EXCEPT ![l] = "commit"] /\ UNCHANGED <<pidx, pdiff, pret>>
  <2>1. ppc \in [Level -> {"fill", "diff", "limit", "put", "commit", "signal", "wait", "asleep"}]
        /\ PrioShape
    BY DEF ThreadInv, PrioShape
  <2>2. PrioShape'
    BY <1>1, <1>3, <2>1 DEF PrioShape
  <2>3. ppc'[l] = "commit" /\ \A m \in Level : m # l => ppc'[m] = ppc[m]
    BY <1>3, <2>1
  <2>4. Announced(Current(l))' = Announced(Current(l))
    BY <1>1, <1>3 DEF Announced, Current
  <2>5. ThreadOK(l)
    BY ThreadFacts
  <2>6. ThreadOK(l)'
    BY <1>1, <1>3, <2>3, <2>4, <2>5 DEF ThreadOK, Busy
  <2> QED
    BY <1>1, <1>3, <2>2, <2>3, <2>6, PrioLocal
<1> QED
  BY <1>2, <1>3 DEF PrioPut

\* signal_tx_interrupt.
LEMMA PrioSignalThread ==
  ASSUME ThreadInv, NEW l \in Level, PrioSignal(l)
  PROVE  ThreadInv'
<1> USE DEF appVars
<1>1. /\ ppc[l] = "signal" /\ ppc' = [ppc EXCEPT ![l] = "limit"]
      /\ UNCHANGED <<squeue, squeueFutex, apc, submitted, shadow, socketList, pidx, pdiff, pret>>
  BY DEF PrioSignal
<1>2. ppc \in [Level -> {"fill", "diff", "limit", "put", "commit", "signal", "wait", "asleep"}]
      /\ PrioShape
  BY DEF ThreadInv, PrioShape
<1>3. PrioShape'
  BY <1>1, <1>2 DEF PrioShape
<1>4. ppc'[l] = "limit" /\ \A m \in Level : m # l => ppc'[m] = ppc[m]
  BY <1>1, <1>2
<1>5. Announced(Current(l))' = Announced(Current(l))
  BY <1>1 DEF Announced, Current
<1>6. ThreadOK(l)
  BY ThreadFacts
<1>7. ThreadOK(l)'
  BY <1>1, <1>4, <1>5, <1>6 DEF ThreadOK, Busy
<1> QED
  BY <1>1, <1>3, <1>4, <1>7, PrioLocal

\* futex_waitv.
LEMMA PrioWaitThread ==
  ASSUME ThreadInv, NEW l \in Level, PrioWait(l)
  PROVE  ThreadInv'
<1> USE DEF appVars
<1> DEFINE changed == \E i \in DOMAIN socketList[l] :
                        squeueFutex[socketList[l][i]] # shadow[socketList[l][i]]
<1>1. /\ ppc[l] = "wait"
      /\ UNCHANGED <<squeue, squeueFutex, apc, submitted, shadow, socketList, pdiff, pret>>
  BY DEF PrioWait, SleepUnless
<1>2. /\ ppc \in [Level -> {"fill", "diff", "limit", "put", "commit", "signal", "wait", "asleep"}]
      /\ pidx \in [Level -> Nat \ {0}] /\ PrioShape
  BY DEF ThreadInv, PrioShape
<1>3. ThreadOK(l) /\ Len(socketList[l]) \in Nat
  BY ThreadFacts
<1>4. CASE changed
  <2>1. ppc' = [ppc EXCEPT ![l] = "fill"] /\ pidx' = [pidx EXCEPT ![l] = 1]
    BY <1>4 DEF PrioWait, SleepUnless
  <2>2. PrioShape'
    BY <1>1, <1>2, <2>1 DEF PrioShape
  <2>3. /\ ppc'[l] = "fill" /\ pidx'[l] = 1
        /\ \A m \in Level : m # l => ppc'[m] = ppc[m] /\ pidx'[m] = pidx[m]
    BY <1>2, <2>1
  <2>4. ThreadOK(l)'
    BY <1>1, <1>3, <2>3 DEF ThreadOK, Busy
  <2> QED
    BY <1>1, <2>2, <2>3, <2>4, PrioLocal
<1>5. CASE ~changed
  <2>1. ppc' = [ppc EXCEPT ![l] = "asleep"] /\ UNCHANGED pidx
    BY <1>5 DEF PrioWait, SleepUnless
  <2>2. PrioShape'
    BY <1>1, <1>2, <2>1 DEF PrioShape
  <2>3. ppc'[l] = "asleep" /\ \A m \in Level : m # l => ppc'[m] = ppc[m]
    BY <1>2, <2>1
  <2>4. ThreadOK(l)'
    BY <1>1, <1>3, <2>1, <2>3 DEF ThreadOK, Busy
  <2> QED
    BY <1>1, <1>5, <2>1, <2>2, <2>3, <2>4, PrioLocal
<1> QED
  BY <1>4, <1>5

\* The operation is erased from the squeue and its announcement is used up.
LEMMA PrioCommitThread ==
  ASSUME ThreadInv, NEW l \in Level, PrioCommit(l)
  PROVE  ThreadInv'
<1> USE DEF appVars
<1>0. ppc[l] = "commit"
  BY DEF PrioCommit, Commit
<1>1. PICK s \in Socket : s = Current(l)
  BY <1>0, ThreadFacts DEF Busy
<1>2. /\ squeue' = [squeue EXCEPT ![s] = Tail(squeue[s])]
      /\ pdiff' = [pdiff EXCEPT ![l] = pdiff[l] - 1]
      /\ shadow' = [shadow EXCEPT ![s] = (shadow[s] + 1) % FutexMod]
      /\ ppc' = [ppc EXCEPT ![l] = "signal"]
      /\ UNCHANGED <<squeueFutex, apc, submitted, pidx, pret, socketList>>
  BY <1>1 DEF PrioCommit, Commit
<1>3. /\ squeue \in [Socket -> Seq(OpType)] /\ shadow \in [Socket -> 0..(FutexMod - 1)]
      /\ ppc \in [Level -> {"fill", "diff", "limit", "put", "commit", "signal", "wait", "asleep"}]
      /\ pdiff \in [Level -> Nat] /\ PrioShape /\ AppShape
  BY DEF ThreadInv, AppShape, PrioShape
<1>4. /\ squeueFutex[s] \in 0..(FutexMod - 1) /\ shadow[s] \in 0..(FutexMod - 1)
      /\ squeue[s] \in Seq(OpType) /\ Len(squeue[s]) \in Nat /\ submitted[s] \in Nat
      /\ Announced(s) \in Nat /\ Bumping(s) \in 0..1 /\ QueueOK(s)
  BY SocketFacts
<1>5. /\ pdiff[l] \in Nat /\ pdiff[l] > 0 /\ pdiff[l] <= Announced(s) /\ pdiff[l] <= SqueueCap
      /\ pidx[l] <= Len(socketList[l]) /\ pidx[l] \in Nat /\ Len(socketList[l]) \in Nat
  BY <1>0, <1>1, ThreadFacts DEF ThreadOK, Busy
<1>6. /\ Len(squeue[s]) = Announced(s) + Bumping(s) /\ Len(squeue[s]) <= SqueueCap
      /\ Len(squeue[s]) <= submitted[s]
  BY <1>4 DEF QueueOK
<1>7. squeue[s] # <<>>
  BY <1>4, <1>5, <1>6, EmptySeq
<1>8. /\ Tail(squeue[s]) \in Seq(OpType) /\ Len(Tail(squeue[s])) = Len(squeue[s]) - 1
      /\ \A i \in 1..(Len(squeue[s]) - 1) : Tail(squeue[s])[i] = squeue[s][i + 1]
  BY <1>4, <1>7, TailOp
<1>9. /\ squeue'[s] = Tail(squeue[s]) /\ shadow'[s] = (shadow[s] + 1) % FutexMod
      /\ \A x \in Socket : x # s => squeue'[x] = squeue[x] /\ shadow'[x] = shadow[x]
      /\ ppc'[l] = "signal" /\ pdiff'[l] = pdiff[l] - 1
      /\ \A m \in Level : m # l => ppc'[m] = ppc[m] /\ pdiff'[m] = pdiff[m]
  BY <1>2, <1>3
<1>10. (shadow[s] + 1) % FutexMod \in 0..(FutexMod - 1)
  BY <1>4, BehindFacts
<1>11. AppShape'
  <2>1. squeue' \in [Socket -> Seq(OpType)] /\ shadow' \in [Socket -> 0..(FutexMod - 1)]
    BY <1>2, <1>3, <1>8, <1>10
  <2> QED
    BY <1>2, <1>3, <2>1 DEF AppShape
<1>12. PrioShape'
  <2>1. pdiff' \in [Level -> Nat]
    BY <1>2, <1>3, <1>5
  <2> QED
    BY <1>2, <1>3, <2>1 DEF PrioShape
<1>13. Announced(s)' = Announced(s) - 1
  <2>1. \A f, g \in 0..(FutexMod - 1) : Behind(f, g) > 0 => Behind(f, (g + 1) % FutexMod) = Behind(f, g) - 1
    BY BehindFacts
  <2>2. Announced(s) > 0
    BY <1>4, <1>5
  <2> QED
    BY <1>2, <1>4, <1>9, <2>1, <2>2 DEF Announced
<1>14. ASSUME NEW x \in Socket PROVE QueueOK(x)'
  <2>1. CASE x # s
    BY <1>2, <1>9, <2>1, QueueFrame DEF ThreadInv, Bumping
  <2>2. CASE x = s
    <3>1. Bumping(s)' = Bumping(s) /\ submitted'[s] = submitted[s]
      BY <1>2 DEF Bumping
    <3>2. Len(squeue'[s]) = Len(squeue[s]) - 1
      BY <1>8, <1>9
    <3>3. /\ Len(squeue'[s]) <= SqueueCap /\ Len(squeue'[s]) <= submitted'[s]
          /\ Len(squeue'[s]) = Announced(s)' + Bumping(s)'
      <4>1. Len(squeue[s]) \in Nat /\ Announced(s) \in Nat /\ Bumping(s) \in Nat /\ SqueueCap \in Nat
            /\ submitted[s] \in Nat
        BY <1>4, ConstantFacts
      <4>2. Len(squeue'[s]) <= SqueueCap /\ Len(squeue'[s]) <= submitted'[s]
        BY <1>6, <3>1, <3>2, <4>1
      <4>3. Len(squeue'[s]) = Announced(s)' + Bumping(s)'
        BY <1>6, <1>13, <3>1, <3>2, <4>1
      <4> QED
        BY <4>2, <4>3
    <3>4. ASSUME NEW i \in 1..(Len(squeue[s]) - 1)
          PROVE  /\ squeue'[s][i].sock = s /\ squeue'[s][i].kind # "nop"
                 /\ squeue'[s][i].id = submitted[s] - (Len(squeue[s]) - 1) + i
      <4>1. squeue'[s][i] = squeue[s][i + 1] /\ i + 1 \in 1..Len(squeue[s])
        BY <1>4, <1>8, <1>9
      <4>2. /\ squeue[s][i + 1].sock = s /\ squeue[s][i + 1].kind # "nop"
            /\ squeue[s][i + 1].id = submitted[s] - Len(squeue[s]) + (i + 1)
        BY <1>4, <4>1 DEF QueueOK
      <4>3. submitted[s] \in Nat /\ Len(squeue[s]) \in Nat /\ i \in Nat
        BY <1>4
      <4>4. submitted[s] - Len(squeue[s]) + (i + 1) = submitted[s] - (Len(squeue[s]) - 1) + i
        BY <4>3
      <4> QED
        BY <4>1, <4>2, <4>4
    <3> QED
      BY <2>2, <3>1, <3>2, <3>3, <3>4 DEF QueueOK
  <2> QED
    BY <2>1, <2>2
<1>15. ASSUME NEW m \in Level PROVE ThreadOK(m)'
  <2>1. CASE m = l
    <3>1. Current(l)' = s
      BY <1>1, <1>2 DEF Current
    <3>2. pdiff'[l] <= Announced(s)' /\ pdiff'[l] <= SqueueCap
      <4>1. /\ pdiff'[l] = pdiff[l] - 1 /\ Announced(s) \in Nat /\ SqueueCap \in Nat
            /\ pdiff[l] \in Nat /\ pdiff[l] <= Announced(s) /\ pdiff[l] <= SqueueCap
        BY <1>4, <1>5, <1>9, ConstantFacts
      <4> QED
        BY <1>13, <4>1
    <3> QED
      BY <1>2, <1>5, <1>9, <2>1, <3>1, <3>2 DEF ThreadOK
  <2>2. CASE m # l
    <3>1. ppc[m] \in Busy => Announced(Current(m)) <= Behind(squeueFutex'[Current(m)], shadow'[Current(m)])
      <4>1. SUFFICES ASSUME ppc[m] \in Busy
                     PROVE  Announced(Current(m)) <= Behind(squeueFutex'[Current(m)], shadow'[Current(m)])
        OBVIOUS
      <4>2. Current(m) \in Socket /\ Current(m) # s
        BY <1>0, <1>1, <2>2, <4>1, ThreadFacts, DistinctCurrent DEF Busy
      <4>3. Announced(Current(m)) \in Nat
        BY <4>2, SocketFacts
      <4> QED
        BY <1>2, <1>9, <4>2, <4>3 DEF Announced
    <3> QED
      BY <1>2, <1>9, <1>11, <2>2, <3>1, ThreadFrame
  <2> QED
    BY <2>1, <2>2
<1>16. SleepSafe'
  <2>1. SUFFICES ASSUME NEW m \in Level, ppc'[m] = "asleep", NEW i \in DOMAIN socketList[m]
                 PROVE  squeueFutex[socketList[m][i]] = shadow'[socketList[m][i]] \/ apc[socketList[m][i]] = "wake"
    BY <1>2 DEF SleepSafe
  <2>2. m # l /\ ppc[m] = "asleep"
    BY <1>9, <2>1
  <2>3. socketList[m][i] \in Socket /\ socketList[m][i] # s
    BY <1>0, <1>1, <2>2, ListedFacts, ThreadFacts DEF Busy
  <2> QED
    BY <1>9, <2>1, <2>2, <2>3 DEF SleepSafe, ThreadInv
<1> QED
  BY <1>11, <1>12, <1>14, <1>15, <1>16 DEF ThreadInv

\* The initial states.
LEMMA InitThread ==
  ASSUME Init
  PROVE  ThreadInv
<1>1. /\ squeue = [s \in Socket |-> <<>>]
      /\ squeueFutex = [s \in Socket |-> Past % FutexMod] /\ shadow = squeueFutex
      /\ apc = [s \in Socket |-> "idle"] /\ submitted = [s \in Socket |-> 0]
      /\ socketList \in Layouts
      /\ ppc = [l \in Level |-> IF socketList[l] = <<>> THEN "asleep" ELSE "fill"]
      /\ pidx = [l \in Level |-> 1] /\ pdiff = [l \in Level |-> 0]
      /\ pret = [l \in Level |-> "fill"]
  BY DEF Init
<1>2. Past % FutexMod \in 0..(FutexMod - 1)
  BY ConstantFacts
<1>3. <<>> \in Seq(OpType) /\ Len(<<>>) = 0
  OBVIOUS
<1>4. AppShape
  BY <1>1, <1>2, <1>3, ConstantFacts DEF AppShape
<1>5. PrioShape
  BY <1>1 DEF PrioShape
<1>6. ASSUME NEW s \in Socket PROVE QueueOK(s)
  <2>1. squeue[s] = <<>> /\ submitted[s] = 0 /\ Bumping(s) = 0
    BY <1>1 DEF Bumping
  <2>2. Announced(s) = 0
    BY <1>1, <1>2, ConstantFacts DEF Announced, Behind
  <2> QED
    BY <1>3, <2>1, <2>2, ConstantFacts DEF QueueOK
<1>7. ASSUME NEW l \in Level PROVE ThreadOK(l)
  <2>1. Len(socketList[l]) \in Nat
    BY <1>1, LayoutFacts, LenProperties
  <2>2. pidx[l] = 1 /\ pdiff[l] = 0 /\ ppc[l] \in {"asleep", "fill"}
    BY <1>1
  <2> QED
    BY <2>1, <2>2, ConstantFacts DEF ThreadOK, Busy
<1>8. SleepSafe
  BY <1>1 DEF SleepSafe
<1> QED
  BY <1>4, <1>5, <1>6, <1>7, <1>8 DEF ThreadInv

\* The main loop and the network leave the applications and threads alone.
LEMMA MainFrame ==
  ASSUME Main \/ \E s \in Socket : Net(s)
  PROVE  UNCHANGED <<squeue, squeueFutex, appVars, prioVars>>
<1>1. CASE Main
  <2>1. CASE SelectIdle
    BY <2>1 DEF SelectIdle, StartIteration
  <2>2. CASE MainPeek
    BY <2>2 DEF MainPeek, Peek
  <2>3. CASE HandleSync \/ HandleWriteError \/ HandleWrite \/ HandleRecv
    BY <2>3 DEF HandleSync, HandleWriteError, HandleWrite, HandleRecv
  <2>4. CASE HandleTryAgain \/ HandleNop
    BY <2>4 DEF HandleTryAgain, Refused, HandleNop
  <2>5. CASE MainScan
    BY <2>5 DEF MainScan
  <2>6. CASE MainCount \/ MainErase
    BY <2>6 DEF MainCount, Count, MainErase, Erase
  <2> QED
    BY <1>1, <2>1, <2>2, <2>3, <2>4, <2>5, <2>6 DEF Main
<1>2. ASSUME NEW s \in Socket, Net(s)
      PROVE  UNCHANGED <<squeue, squeueFutex, appVars, prioVars>>
  BY <1>2 DEF Net, SelectAck, SelectData, StartIteration
<1> QED
  BY <1>1, <1>2

\* Every step keeps the invariant of applications and threads.
LEMMA ThreadStep ==
  ASSUME ThreadInv, [Next]_vars
  PROVE  ThreadInv'
<1>1. CASE UNCHANGED vars
  BY <1>1, ThreadInvFrame DEF vars
<1>2. CASE Main \/ \E s \in Socket : Net(s)
  BY <1>2, MainFrame, ThreadInvFrame
<1>3. ASSUME NEW s \in Socket, App(s) PROVE ThreadInv'
  BY <1>3, AppPutThread, AppBumpThread, AppWakeThread DEF App
<1>4. ASSUME NEW l \in Level, Prio(l) PROVE ThreadInv'
  BY <1>4, PrioFillThread, PrioDiffThread, PrioLimitThread, PrioPutThread,
     PrioCommitThread, PrioSignalThread, PrioWaitThread DEF Prio
<1> QED
  BY <1>1, <1>2, <1>3, <1>4 DEF Next

\* The invariant of applications and threads holds throughout.
THEOREM ThreadInvariance == Spec => []ThreadInv
<1>1. Init => ThreadInv
  BY InitThread
<1>2. ThreadInv /\ [Next]_vars => ThreadInv'
  BY ThreadStep
<1> QED
  BY <1>1, <1>2, PTL DEF Spec

\* No wake-up of a priority thread is lost between enqueue_operation's bump of
\* the futex word and futex_waitv's comparison, whatever the word's width.
THEOREM NoLostWakeup == Spec => []SleepSafe
<1>1. ThreadInv => SleepSafe
  BY DEF ThreadInv
<1> QED
  BY <1>1, ThreadInvariance, PTL

\* handle_squeue_change always finds the operations the futex word announces,
\* also across the word's wrap-around.
THEOREM AnnouncedArePresent == Spec => []AnnouncedOpsPresent
<1>1. ASSUME ThreadInv, NEW l \in Level, ppc[l] \in {"put", "commit"}
      PROVE  squeue[Current(l)] # <<>>
  <2>1. Current(l) \in Socket /\ pdiff[l] \in Nat /\ ThreadOK(l)
    BY <1>1, ThreadFacts DEF Busy
  <2>2. Announced(Current(l)) \in Nat /\ Bumping(Current(l)) \in Nat /\ QueueOK(Current(l))
    BY <1>1, <2>1, SocketFacts
  <2>3. pdiff[l] > 0 /\ pdiff[l] <= Announced(Current(l))
    BY <1>1, <2>1 DEF ThreadOK
  <2>4. Len(squeue[Current(l)]) = Announced(Current(l)) + Bumping(Current(l))
    BY <2>2 DEF QueueOK
  <2>5. Len(squeue[Current(l)]) # 0
    <3>1. \A d, a, b \in Nat : d > 0 /\ d <= a => a + b # 0
      OBVIOUS
    <3> QED
      BY <2>1, <2>2, <2>3, <2>4, <3>1
  <2>6. Len(<<>>) = 0
    OBVIOUS
  <2> QED
    BY <2>5, <2>6
<1>2. ThreadInv => AnnouncedOpsPresent
  BY <1>1 DEF AnnouncedOpsPresent
<1> QED
  BY <1>2, ThreadInvariance, PTL
-----------------------------------------------------------------------------
(***************************************************************************)
(* Types of the main loop.                                                 *)
(***************************************************************************)

\* The queue of one level.
LEMMA TxFacts ==
  ASSUME MainShape, NEW l \in Level
  PROVE  /\ tx \in [Level -> Seq(OpType)] /\ tx[l] \in Seq(OpType)
         /\ Len(tx[l]) \in Nat /\ Len(tx[l]) \in 0..TxCap /\ DOMAIN tx[l] = 1..Len(tx[l])
         /\ \A i \in 1..Len(tx[l]) : tx[l][i] \in OpType
         /\ tx[l] # <<>> <=> Len(tx[l]) # 0
<1>1. tx \in [Level -> Seq(OpType)] /\ tx[l] \in Seq(OpType) /\ Len(tx[l]) <= TxCap
  BY DEF MainShape
<1>2. Len(tx[l]) \in Nat /\ DOMAIN tx[l] = 1..Len(tx[l])
  BY <1>1, LenProperties
<1>3. \A i \in 1..Len(tx[l]) : tx[l][i] \in OpType
  BY <1>1, ElementOfSeq
<1>4. tx[l] # <<>> <=> Len(tx[l]) # 0
  BY <1>1, EmptySeq
<1> QED
  BY <1>1, <1>2, <1>3, <1>4, ConstantFacts

\* The operation at hand.
LEMMA HandFacts ==
  ASSUME MainShape, MopInv, AtHand
  PROVE  /\ mop \in [lev : Level, pos : Nat \ {0}, scan : BOOLEAN]
         /\ mop.lev \in Level /\ mop.scan \in BOOLEAN
         /\ mop.pos \in 1..Len(tx[mop.lev]) /\ Op \in OpType
         /\ HandOK /\ tx[mop.lev] # <<>> /\ Len(tx[mop.lev]) \in Nat
<1>1. HandOK
  BY DEF MopInv
<1>2. mop.lev \in Level /\ mop.pos \in Nat \ {0} /\ mop.scan \in BOOLEAN /\ mop.pos <= Len(tx[mop.lev])
      /\ mop \in [lev : Level, pos : Nat \ {0}, scan : BOOLEAN]
  BY <1>1 DEF HandOK
<1>3. /\ Len(tx[mop.lev]) \in Nat /\ \A i \in 1..Len(tx[mop.lev]) : tx[mop.lev][i] \in OpType
      /\ tx[mop.lev] # <<>> <=> Len(tx[mop.lev]) # 0
  <2>1. \A l \in Level : /\ Len(tx[l]) \in Nat /\ \A i \in 1..Len(tx[l]) : tx[l][i] \in OpType
                         /\ tx[l] # <<>> <=> Len(tx[l]) # 0
    BY TxFacts, ConstantFacts
  <2> QED
    BY <1>2, <2>1
<1>4. mop.pos \in 1..Len(tx[mop.lev])
  BY <1>2, <1>3
<1> QED
  BY <1>1, <1>2, <1>3, <1>4 DEF Op

\* A step that leaves the main loop's variables alone.
LEMMA MainTypeFrame ==
  ASSUME MainShape, MopInv, UNCHANGED <<tx, mpc, mlev, mop, mdeq, fullIter, leftEmpty>>,
         txFd' \in BOOLEAN
  PROVE  MainShape' /\ MopInv'
<1>1. MainShape'
  BY DEF MainShape
<1>2. MopInv'
  BY DEF MopInv, AtHand, HandOK, Op
<1> QED
  BY <1>1, <1>2

\* A step of the main loop that leaves the tx queues alone and has no
\* operation at hand afterwards.
LEMMA IdleType ==
  ASSUME MainShape, UNCHANGED tx,
         txFd' \in BOOLEAN, leftEmpty' \in BOOLEAN, mlev' \in Level,
         mdeq' \in 0..MaxDequeues, fullIter' \in 0..MaxFullIter,
         mpc' \in {"select", "peek", "scan"}, mop' = NoOp,
         mpc' = "peek" /\ mlev' > 1 => mdeq' < MaxDequeues
  PROVE  MainShape' /\ MopInv'
<1>1. MainShape'
  BY DEF MainShape
<1>2. MopInv'
  BY DEF MopInv, AtHand
<1> QED
  BY <1>1, <1>2

\* A successful put keeps the operation at hand where it is.
LEMMA PutType ==
  ASSUME MainShape, MopInv, NEW l \in Level, NEW e \in OpType, Len(tx[l]) < TxCap,
         tx' = [tx EXCEPT ![l] = Append(tx[l], e)],
         UNCHANGED <<txFd, mpc, mlev, mop, mdeq, fullIter, leftEmpty>>
  PROVE  MainShape' /\ MopInv'
<1>1. /\ tx[l] \in Seq(OpType) /\ Len(tx[l]) \in Nat /\ tx \in [Level -> Seq(OpType)]
      /\ \A m \in Level : Len(tx[m]) <= TxCap
  BY TxFacts, ConstantFacts DEF MainShape
<1>2. /\ Append(tx[l], e) \in Seq(OpType) /\ Len(Append(tx[l], e)) = Len(tx[l]) + 1
      /\ \A i \in 1..Len(tx[l]) : Append(tx[l], e)[i] = tx[l][i]
  BY <1>1, AppendOp
<1>3. tx'[l] = Append(tx[l], e) /\ \A m \in Level : m # l => tx'[m] = tx[m]
  BY <1>1
<1>4. MainShape'
  <2>1. tx' \in [Level -> Seq(OpType)]
    BY <1>1, <1>2
  <2>2. \A m \in Level : Len(tx'[m]) <= TxCap
    BY <1>1, <1>2, <1>3, ConstantFacts
  <2> QED
    BY <2>1, <2>2 DEF MainShape
<1>5. ASSUME AtHand PROVE HandOK'
  <2>1. /\ mop.lev \in Level /\ mop.pos \in 1..Len(tx[mop.lev]) /\ Len(tx[mop.lev]) \in Nat
        /\ HandOK
    BY <1>5, HandFacts
  <2>2. \A i \in 1..Len(tx[mop.lev]) : tx'[mop.lev][i] = tx[mop.lev][i]
    BY <1>2, <1>3, <2>1
  <2>3. Len(tx'[mop.lev]) \in Nat /\ Len(tx[mop.lev]) <= Len(tx'[mop.lev])
    BY <1>1, <1>2, <1>3, <2>1
  <2>4. mop.pos <= Len(tx'[mop.lev])
    BY <2>1, <2>3
  <2>5. \A j \in 1..(mop.pos - 1) : j \in 1..Len(tx[mop.lev])
    BY <2>1
  <2>6. \A j \in 1..(mop.pos - 1) : tx'[mop.lev][j] = tx[mop.lev][j]
    BY <2>2, <2>5
  <2> QED
    BY <2>1, <2>2, <2>4, <2>6 DEF HandOK
<1>6. MopInv'
  BY <1>5 DEF MopInv, AtHand
<1> QED
  BY <1>4, <1>6

\* The head of a queue is erased.
LEMMA EraseHeadType ==
  ASSUME MainShape, NEW l \in Level, tx[l] # <<>>,
         tx' = [tx EXCEPT ![l] = Tail(tx[l])],
         UNCHANGED <<txFd, leftEmpty>>, mpc' = "peek", mlev' = 1, mop' = NoOp,
         mdeq' \in 0..MaxDequeues, fullIter' \in 0..MaxFullIter
  PROVE  MainShape' /\ MopInv'
<1>1. /\ tx[l] \in Seq(OpType) /\ Len(tx[l]) \in Nat /\ tx \in [Level -> Seq(OpType)]
      /\ \A m \in Level : Len(tx[m]) <= TxCap
  BY TxFacts, ConstantFacts DEF MainShape
<1>2. Tail(tx[l]) \in Seq(OpType) /\ Len(Tail(tx[l])) = Len(tx[l]) - 1
  BY <1>1, TailOp
<1>3. MainShape'
  <2>1. tx' \in [Level -> Seq(OpType)]
    BY <1>1, <1>2
  <2>2. tx'[l] = Tail(tx[l]) /\ \A m \in Level : m # l => tx'[m] = tx[m]
    BY <1>1
  <2>3. Len(tx[l]) - 1 <= TxCap
    BY <1>1, ConstantFacts
  <2>4. \A m \in Level : Len(tx'[m]) <= TxCap
    BY <1>1, <1>2, <2>2, <2>3
  <2> QED
    BY <2>1, <2>4, ConstantFacts DEF MainShape
<1>4. MopInv'
  BY DEF MopInv, AtHand
<1> QED
  BY <1>3, <1>4

\* What the scan's erase does to the tx queues.
LEMMA MarkFacts ==
  ASSUME MainShape, NEW l \in Level, NEW p \in 1..Len(tx[l]),
         tx' = [tx EXCEPT ![l][p].kind = "nop"]
  PROVE  /\ tx' \in [Level -> Seq(OpType)] /\ \A m \in Level : Len(tx'[m]) = Len(tx[m])
         /\ \A m \in Level : \A i \in 1..Len(tx[m]) :
              /\ m # l \/ i # p => tx'[m][i] = tx[m][i]
              /\ tx'[m][i].sock = tx[m][i].sock /\ tx'[m][i].id = tx[m][i].id
         /\ tx'[l][p].kind = "nop"
<1> DEFINE e == [tx[l][p] EXCEPT !.kind = "nop"]
           q == [tx[l] EXCEPT ![p] = e]
<1>1. /\ tx[l] \in Seq(OpType) /\ Len(tx[l]) \in Nat /\ tx \in [Level -> Seq(OpType)]
      /\ tx[l][p] \in OpType
  <2>1. tx[l] \in Seq(OpType) /\ Len(tx[l]) \in 0..TxCap /\ tx[l][p] \in OpType
    BY TxFacts
  <2> QED
    BY <2>1, ConstantFacts DEF MainShape
<1>2. e \in OpType /\ e.kind = "nop" /\ e.sock = tx[l][p].sock /\ e.id = tx[l][p].id
  BY <1>1 DEF OpType
<1>3. tx' = [tx EXCEPT ![l] = q]
  OBVIOUS
<1> HIDE DEF e
<1>4. /\ q \in Seq(OpType) /\ Len(q) = Len(tx[l])
      /\ \A j \in 1..Len(tx[l]) : q[j] = IF j = p THEN e ELSE tx[l][j]
  BY <1>1, <1>2, ExceptSeq
<1> HIDE DEF q
<1>5. tx' \in [Level -> Seq(OpType)]
  BY <1>1, <1>3, <1>4
<1>6. tx'[l] = q /\ \A m \in Level : m # l => tx'[m] = tx[m]
  BY <1>1, <1>3
<1>7. \A m \in Level : Len(tx'[m]) = Len(tx[m])
  BY <1>4, <1>6
<1>8. \A j \in 1..Len(tx[l]) : /\ j # p => q[j] = tx[l][j]
                              /\ q[j].sock = tx[l][j].sock /\ q[j].id = tx[l][j].id
  BY <1>2, <1>4
<1>9. q[p].kind = "nop"
  BY <1>2, <1>4
<1> QED
  BY <1>5, <1>6, <1>7, <1>8, <1>9

\* Types of the main loop after a step of an application or a thread.
LEMMA OthersType ==
  ASSUME ThreadInv, MainShape, MopInv,
         (\E s \in Socket : App(s)) \/ (\E l \in Level : Prio(l))
  PROVE  MainShape' /\ MopInv'
<1> USE DEF mainVars, histVars, prioVars
<1>0. txFd \in BOOLEAN
  BY DEF MainShape
<1>1. ASSUME NEW s \in Socket, App(s) PROVE MainShape' /\ MopInv'
  <2>1. UNCHANGED <<tx, txFd, mpc, mlev, mop, mdeq, fullIter, leftEmpty>>
    BY <1>1 DEF App, AppPut, Submit, AppBump, AppWake
  <2> QED
    BY <1>0, <2>1, MainTypeFrame
<1>2. ASSUME NEW l \in Level, PrioFill(l) \/ PrioDiff(l) \/ PrioLimit(l) \/ PrioCommit(l) \/ PrioWait(l)
      PROVE  MainShape' /\ MopInv'
  <2>1. UNCHANGED <<tx, txFd, mpc, mlev, mop, mdeq, fullIter, leftEmpty>>
    BY <1>2 DEF PrioFill, PrioDiff, PrioLimit, MoveUnless, PrioCommit, Commit, PrioWait, SleepUnless
  <2> QED
    BY <1>0, <2>1, MainTypeFrame
<1>3. ASSUME NEW l \in Level, PrioSignal(l) PROVE MainShape' /\ MopInv'
  <2>1. UNCHANGED <<tx, mpc, mlev, mop, mdeq, fullIter, leftEmpty>> /\ txFd' = TRUE
    BY <1>3 DEF PrioSignal
  <2> QED
    BY <2>1, MainTypeFrame
<1>4. ASSUME NEW l \in Level, PrioPut(l) PROVE MainShape' /\ MopInv'
  <2>1. UNCHANGED <<txFd, mpc, mlev, mop, mdeq, fullIter, leftEmpty>> /\ ppc[l] = "put"
    BY <1>4 DEF PrioPut
  <2>2. CASE UNCHANGED tx
    BY <1>0, <2>1, <2>2, MainTypeFrame
  <2>3. CASE /\ squeue[Current(l)] # <<>> /\ Len(tx[l]) < TxCap
             /\ tx' = [tx EXCEPT ![l] = Append(tx[l], Head(squeue[Current(l)]))]
    <3>1. squeue[Current(l)] \in Seq(OpType)
      BY <2>1, ThreadFacts, SocketFacts DEF Busy
    <3>2. Head(squeue[Current(l)]) \in OpType
      BY <2>3, <3>1, TailOp
    <3> QED
      BY <2>1, <2>3, <3>2, PutType
  <2> QED
    BY <1>4, <2>2, <2>3 DEF PrioPut
<1> QED
  BY <1>1, <1>2, <1>3, <1>4 DEF Prio

\* process_tx_op performs the operation at hand: what all its cases share.
PerformStep ==
  /\ mpc = "handle" /\ Op.kind \in {"sync", "write", "recv"}
  /\ Performed
  /\ UNCHANGED <<squeue, squeueFutex, appVars, prioVars, txFd, mdeq, dequeued>>

\* Every case of process_tx_op that answers the operation is such a step.
LEMMA Performs ==
  ASSUME HandleSync \/ HandleWriteError \/ HandleWrite \/ HandleRecv
  PROVE  PerformStep
<1>1. CASE HandleSync
  BY <1>1 DEF HandleSync, PerformStep
<1>2. CASE HandleWriteError \/ HandleWrite
  BY <1>2 DEF HandleWriteError, HandleWrite, PerformStep
<1>3. CASE HandleRecv
  BY <1>3 DEF HandleRecv, PerformStep
<1> QED
  BY <1>1, <1>2, <1>3

\* Types after an iteration of the main loop has started.
LEMMA StartType ==
  ASSUME MainShape, MopInv, StartIteration
  PROVE  MainShape' /\ MopInv'
<1>1. /\ mpc = "select" /\ txFd' = FALSE /\ mpc' = "peek" /\ mlev' = 1 /\ mdeq' = 0
      /\ UNCHANGED <<tx, mop, fullIter, leftEmpty>>
  BY DEF StartIteration
<1>2. mop = NoOp /\ leftEmpty \in BOOLEAN /\ fullIter \in 0..MaxFullIter
  BY <1>1 DEF MopInv, AtHand, MainShape
<1>3. leftEmpty' \in BOOLEAN /\ txFd' \in BOOLEAN
  BY <1>1, <1>2
<1>4. /\ mlev' \in Level /\ mdeq' \in 0..MaxDequeues /\ mop' = NoOp
      /\ fullIter' \in 0..MaxFullIter /\ ~(mlev' > 1)
  BY <1>1, <1>2, ConstantFacts
<1> QED
  BY <1>1, <1>3, <1>4, IdleType

\* Types after a peek.
LEMMA PeekType ==
  ASSUME MainShape, MopInv, MainPeek
  PROVE  MainShape' /\ MopInv'
<1>1. /\ mpc = "peek" /\ UNCHANGED <<tx, mdeq, fullIter>>
      /\ mop = NoOp /\ leftEmpty \in BOOLEAN /\ txFd \in BOOLEAN /\ fullIter \in 0..MaxFullIter
      /\ mlev \in Level /\ mdeq \in 0..MaxDequeues
  BY DEF MainPeek, Peek, MopInv, AtHand, MainShape
<1>2. CASE \E b \in BOOLEAN : EndIteration(b) /\ UNCHANGED <<mop, txFd>>
  <2>1. /\ leftEmpty' \in BOOLEAN /\ mpc' = "select" /\ mlev' = 1 /\ mop' = NoOp
        /\ txFd' \in BOOLEAN
    BY <1>1, <1>2 DEF EndIteration
  <2> QED
    BY <1>1, <2>1, ConstantFacts, IdleType
<1>3. CASE /\ ~(mlev = 1 /\ mdeq >= MaxDequeues) /\ tx[mlev] # <<>>
           /\ mop' = [lev |-> mlev, pos |-> 1, scan |-> FALSE]
           /\ mpc' = "handle" /\ UNCHANGED <<mlev, leftEmpty, txFd>>
  <2>1. Len(tx[mlev]) \in Nat /\ Len(tx[mlev]) # 0
    BY <1>1, <1>3, TxFacts, ConstantFacts
  <2>2. MainShape'
    BY <1>1, <1>3 DEF MainShape
  <2>3. mdeq < MaxDequeues
    BY <1>1, <1>3, ConstantFacts DEF MopInv, Level
  <2>4. mop' \in [lev : Level, pos : Nat \ {0}, scan : BOOLEAN]
    BY <1>1, <1>3
  <2>5. mop'.lev = mlev /\ mop'.pos = 1 /\ mop'.scan = FALSE
    BY <1>3
  <2>6. HandOK'
    BY <1>1, <1>3, <2>1, <2>4, <2>5 DEF HandOK
  <2>7. MopInv'
    BY <1>1, <1>3, <2>3, <2>6 DEF MopInv, AtHand
  <2> QED
    BY <2>2, <2>7
<1>4. CASE /\ ~(mlev = 1 /\ mdeq >= MaxDequeues) /\ mlev < Levels
           /\ mlev' = mlev + 1 /\ UNCHANGED <<mpc, mop, leftEmpty, txFd>>
  <2>1. mdeq < MaxDequeues
    BY <1>1, <1>4, ConstantFacts DEF MopInv, Level
  <2>2. mlev' \in Level
    BY <1>1, <1>4, ConstantFacts DEF Level
  <2>3. txFd' \in BOOLEAN /\ leftEmpty' \in BOOLEAN
    BY <1>1, <1>4
  <2> QED
    BY <1>1, <1>4, <2>1, <2>2, <2>3, IdleType
<1> QED
  BY <1>2, <1>3, <1>4 DEF MainPeek, Peek

\* Types after the other cases of process_tx_op and the scan.
LEMMA RefusedType ==
  ASSUME MainShape, MopInv, HandleTryAgain
  PROVE  MainShape' /\ MopInv'
<1>1. /\ UNCHANGED <<tx, mdeq, txFd>> /\ mop' = NoOp
      /\ \/ mpc' = "scan" /\ mlev' = 1 /\ UNCHANGED <<fullIter, leftEmpty>>
         \/ /\ mpc' = "select" /\ mlev' = 1 /\ leftEmpty' = FALSE
            /\ fullIter' = IF fullIter < MaxFullIter THEN fullIter + 1 ELSE fullIter
  BY DEF HandleTryAgain, Refused, EndIteration
<1>2. leftEmpty \in BOOLEAN /\ fullIter \in 0..MaxFullIter /\ txFd \in BOOLEAN /\ mdeq \in 0..MaxDequeues
  BY DEF MainShape
<1>3. fullIter' \in 0..MaxFullIter
  BY <1>1, <1>2, ConstantFacts
<1>4. leftEmpty' \in BOOLEAN /\ txFd' \in BOOLEAN
  BY <1>1, <1>2
<1> QED
  BY <1>1, <1>2, <1>3, <1>4, ConstantFacts, IdleType

\* The scan for a recv keeps the main loop's shape: what it hands over lies in
\* the level it scanned.
LEMMA ScanType ==
  ASSUME MainShape, MopInv, MainScan
  PROVE  MainShape' /\ MopInv'
<1>1. /\ mpc = "scan" /\ UNCHANGED <<tx, txFd, mdeq, fullIter>>
      /\ mop = NoOp /\ leftEmpty \in BOOLEAN /\ txFd \in BOOLEAN /\ fullIter \in 0..MaxFullIter
      /\ mlev \in Level /\ mdeq \in 0..MaxDequeues
  BY DEF MainScan, MopInv, AtHand, MainShape
<1>2. ASSUME NEW i \in RecvAt(mlev), \A j \in RecvAt(mlev) : i <= j,
             mop' = [lev |-> mlev, pos |-> i, scan |-> TRUE],
             mpc' = "handle", UNCHANGED <<mlev, leftEmpty>>
      PROVE  MainShape' /\ MopInv'
  <2>1. Len(tx[mlev]) \in Nat /\ DOMAIN tx[mlev] = 1..Len(tx[mlev])
    BY <1>1, TxFacts, ConstantFacts
  <2>2. i \in 1..Len(tx[mlev]) /\ tx[mlev][i].kind = "recv"
    BY <1>2, <2>1 DEF RecvAt
  <2>3. \A j \in 1..(i - 1) : tx[mlev][j].kind # "recv"
    <3>1. ASSUME NEW j \in 1..(i - 1), tx[mlev][j].kind = "recv" PROVE FALSE
      <4>1. j \in RecvAt(mlev)
        BY <2>1, <2>2, <3>1 DEF RecvAt
      <4> QED
        BY <1>2, <2>2, <4>1
    <3> QED
      BY <3>1
  <2>4. MainShape'
    BY <1>1, <1>2 DEF MainShape
  <2>5. /\ mop' \in [lev : Level, pos : Nat \ {0}, scan : BOOLEAN]
        /\ mop'.lev = mlev /\ mop'.pos = i /\ mop'.scan = TRUE
    BY <1>1, <1>2, <2>1, <2>2
  <2>6. HandOK'
    BY <1>1, <1>2, <2>1, <2>2, <2>3, <2>5 DEF HandOK
  <2>7. MopInv'
    BY <1>1, <1>2, <2>5, <2>6 DEF MopInv, AtHand
  <2> QED
    BY <2>4, <2>7
<1>3. CASE mlev < Levels /\ mlev' = mlev + 1 /\ UNCHANGED <<mpc, mop, leftEmpty>>
  <2>1. mlev' \in Level
    BY <1>1, <1>3, ConstantFacts DEF Level
  <2>2. txFd' \in BOOLEAN /\ leftEmpty' \in BOOLEAN
    BY <1>1, <1>3
  <2> QED
    BY <1>1, <1>3, <2>1, <2>2, IdleType
<1>4. CASE EndIteration(FALSE) /\ UNCHANGED mop
  <2>1. mpc' = "select" /\ mlev' = 1 /\ leftEmpty' = FALSE /\ mop' = NoOp
    BY <1>1, <1>4 DEF EndIteration
  <2>2. txFd' \in BOOLEAN
    BY <1>1
  <2> QED
    BY <1>1, <2>1, <2>2, ConstantFacts, IdleType
<1> QED
  BY <1>2, <1>3, <1>4 DEF MainScan

\* Types after an operation was performed, counted or erased.
LEMMA HandType ==
  ASSUME MainShape, MopInv, PerformStep \/ MainCount
  PROVE  MainShape' /\ MopInv'
<1>1. /\ UNCHANGED <<tx, txFd, mlev, mop, mdeq, fullIter, leftEmpty>>
      /\ AtHand /\ mpc' \in {"count", "erase"}
  BY DEF PerformStep, Performed, MainCount, Count, AtHand, histVars
<1>2. HandOK
  BY <1>1 DEF MopInv
<1>3. MainShape'
  BY <1>1 DEF MainShape
<1>4. HandOK'
  BY <1>1, <1>2 DEF HandOK
<1>5. MopInv'
  BY <1>1, <1>4 DEF MopInv, AtHand
<1> QED
  BY <1>3, <1>5

\* An operation that was a no-op leaves the queue at its head.
LEMMA NopType ==
  ASSUME MainShape, MopInv, HandleNop
  PROVE  MainShape' /\ MopInv'
<1>1. AtHand
  BY DEF HandleNop, AtHand
<1>2. PICK l \in Level : l = mop.lev /\ tx[l] # <<>>
  BY <1>1, HandFacts
<1>3. /\ tx' = [tx EXCEPT ![l] = Tail(tx[l])] /\ UNCHANGED <<txFd, leftEmpty, mdeq, fullIter>>
      /\ mpc' = "peek" /\ mlev' = 1 /\ mop' = NoOp
  BY <1>2 DEF HandleNop, histVars
<1>4. mdeq' \in 0..MaxDequeues /\ fullIter' \in 0..MaxFullIter
  BY <1>3 DEF MainShape
<1> QED
  BY <1>2, <1>3, <1>4, EraseHeadType

\* An operation taken from the middle by the scan leaves the queue at its place.
LEMMA EraseType ==
  ASSUME MainShape, MopInv, MainErase
  PROVE  MainShape' /\ MopInv'
<1>1. AtHand
  BY DEF MainErase, Erase, AtHand
<1>2. PICK l \in Level : l = mop.lev /\ tx[l] # <<>>
  BY <1>1, HandFacts
<1>3. PICK p \in 1..Len(tx[l]) : p = mop.pos
  BY <1>1, <1>2, HandFacts
<1>4. UNCHANGED <<txFd, leftEmpty>> /\ mpc' = "peek" /\ mlev' = 1 /\ mop' = NoOp
  BY DEF MainErase, Erase, histVars
<1>5. mdeq \in 0..MaxDequeues /\ fullIter \in 0..MaxFullIter /\ (~mop.scan => mdeq < MaxDequeues)
  BY <1>1 DEF MainShape, MopInv
<1>6. CASE mop.scan
  <2>1. tx' = [tx EXCEPT ![l][p].kind = "nop"] /\ UNCHANGED <<fullIter, mdeq>>
    BY <1>2, <1>3, <1>6 DEF MainErase, Erase
  <2>2. tx' \in [Level -> Seq(OpType)] /\ \A m \in Level : Len(tx'[m]) = Len(tx[m])
    BY <2>1, MarkFacts
  <2>3. MainShape'
    BY <1>4, <2>1, <2>2, ConstantFacts DEF MainShape
  <2>4. MopInv'
    BY <1>4 DEF MopInv, AtHand
  <2> QED
    BY <2>3, <2>4
<1>7. CASE ~mop.scan
  <2>1. tx' = [tx EXCEPT ![l] = Tail(tx[l])] /\ fullIter' = 0 /\ mdeq' = mdeq + 1
    BY <1>2, <1>7 DEF MainErase, Erase
  <2>2. mdeq' \in 0..MaxDequeues /\ fullIter' \in 0..MaxFullIter
    BY <1>5, <1>7, <2>1, ConstantFacts
  <2> QED
    BY <1>2, <1>4, <2>1, <2>2, EraseHeadType
<1> QED
  BY <1>6, <1>7

\* Every step keeps the types of the main loop.
LEMMA MainTypeStep ==
  ASSUME ThreadInv, MainShape, MopInv, [Next]_vars
  PROVE  MainShape' /\ MopInv'
<1>1. CASE UNCHANGED vars
  <2>1. txFd' \in BOOLEAN
    BY <1>1 DEF vars, mainVars, MainShape
  <2> QED
    BY <1>1, <2>1, MainTypeFrame DEF vars, mainVars, histVars
<1>2. ASSUME NEW s \in Socket, Net(s) PROVE MainShape' /\ MopInv'
  BY <1>2, StartType DEF Net, SelectAck, SelectData
<1>3. CASE Main
  <2>1. CASE SelectIdle
    BY <2>1, StartType DEF SelectIdle
  <2>2. CASE HandleSync \/ HandleWriteError \/ HandleWrite \/ HandleRecv
    BY <2>2, Performs, HandType
  <2> QED
    BY <1>3, <2>1, <2>2, PeekType, RefusedType, NopType, ScanType, HandType, EraseType DEF Main
<1> QED
  BY <1>1, <1>2, <1>3, OthersType DEF Next
-----------------------------------------------------------------------------
(***************************************************************************)
(* The operations that have left the squeues.                              *)
(***************************************************************************)

\* The thread that has an operation of s in transit works on s.
LEMMA TransitIs ==
  ThreadInv => \A s \in Socket : /\ InTransit(s) <=> \E m \in Level : ppc[m] = "commit" /\ Current(m) = s
                                 /\ Transit(s) \in 0..1 /\ (Transit(s) = 1 <=> InTransit(s))
<1>1. SUFFICES ASSUME ThreadInv, NEW s \in Socket
               PROVE  InTransit(s) <=> \E m \in Level : ppc[m] = "commit" /\ Current(m) = s
  BY DEF Transit
<1>2. LevelOf(s) \in Level
  BY <1>1, PlaceOf DEF ThreadInv, PrioShape
<1>3. ASSUME NEW m \in Level, ppc[m] = "commit", Current(m) = s PROVE LevelOf(s) = m
  BY <1>1, <1>3, ThreadFacts DEF Busy
<1> QED
  BY <1>2, <1>3 DEF InTransit

\* The operations that have left a squeue are counted by a number.
LEMMA MovedIs ==
  ThreadInv => \A s \in Socket :
    /\ Moved(s) \in Nat /\ submitted[s] - Len(squeue[s]) \in Nat
    /\ submitted[s] \in Nat /\ Len(squeue[s]) \in Nat
<1>1. SUFFICES ASSUME ThreadInv, NEW s \in Socket
               PROVE  /\ Moved(s) \in Nat /\ submitted[s] - Len(squeue[s]) \in Nat
                      /\ submitted[s] \in Nat /\ Len(squeue[s]) \in Nat
  OBVIOUS
<1>2. Transit(s) \in 0..1
  BY <1>1, TransitIs
<1>3. submitted[s] \in Nat /\ Len(squeue[s]) \in Nat /\ Len(squeue[s]) <= submitted[s]
  BY <1>1, SocketFacts, ConstantFacts DEF QueueOK
<1> QED
  BY <1>2, <1>3 DEF Moved

\* What is in transit depends on the committing threads only.
LEMMA TransitFrame ==
  ASSUME ThreadInv, ThreadInv', socketList' = socketList,
         \A m \in Level : /\ ppc'[m] = "commit" <=> ppc[m] = "commit"
                          /\ ppc[m] = "commit" => pidx'[m] = pidx[m]
  PROVE  \A s \in Socket : Transit(s)' = Transit(s)
<1>1. ThreadInv' => (\A s \in Socket :
         /\ InTransit(s) <=> \E m \in Level : ppc[m] = "commit" /\ Current(m) = s
         /\ Transit(s) \in 0..1 /\ (Transit(s) = 1 <=> InTransit(s)))'
  BY TransitIs, PTL
<1>2. ASSUME NEW s \in Socket PROVE InTransit(s)' <=> InTransit(s)
  <2>1. InTransit(s)' <=> \E m \in Level : ppc'[m] = "commit" /\ Current(m)' = s
    BY <1>1
  <2>2. InTransit(s) <=> \E m \in Level : ppc[m] = "commit" /\ Current(m) = s
    BY TransitIs
  <2>3. \A m \in Level : ppc[m] = "commit" => Current(m)' = Current(m)
    BY DEF Current
  <2> QED
    BY <2>1, <2>2, <2>3
<1> QED
  BY <1>2 DEF Transit

\* A step after which the same operations have left the squeues, which the
\* main loop does not notice.
QuietStep ==
  /\ UNCHANGED <<tx, txFd, mpc, mlev, mop, mdeq, fullIter, dequeued, enqueued,
                 lwipVars, histVars, socketList>>
  /\ \A s \in Socket : submitted'[s] - Len(squeue'[s]) = submitted[s] - Len(squeue[s])
  /\ \A m \in Level : /\ ppc'[m] = "commit" <=> ppc[m] = "commit"
                      /\ ppc'[m] \in {"commit", "signal"} <=> ppc[m] \in {"commit", "signal"}
                      /\ ppc[m] = "commit" => pidx'[m] = pidx[m]

\* A put that finds no room in the tx queue.
PutFails(l) == PrioPut(l) /\ Return(l) /\ UNCHANGED tx

\* Steps of applications and threads that move no operation are such steps.
LEMMA Quiet ==
  ASSUME ThreadInv,
         \/ UNCHANGED vars
         \/ \E s \in Socket : App(s)
         \/ \E l \in Level : PrioFill(l) \/ PrioDiff(l) \/ PrioLimit(l) \/ PutFails(l) \/ PrioWait(l)
  PROVE  QuietStep
<1> USE DEF mainVars
<1>1. ppc \in [Level -> {"fill", "diff", "limit", "put", "commit", "signal", "wait", "asleep"}]
      /\ pidx \in [Level -> Nat \ {0}]
  BY DEF ThreadInv, PrioShape
<1>2. CASE UNCHANGED vars
  BY <1>2 DEF QuietStep, vars, appVars, prioVars
<1>3. ASSUME NEW s \in Socket, App(s) PROVE QuietStep
  <2>1. CASE \E k \in Kinds[s] : AppPut(s, k)
    <3>1. PICK k \in Kinds[s] : AppPut(s, k)
      BY <2>1
    <3>2. PICK e \in OpType : /\ submitted' = [submitted EXCEPT ![s] = submitted[s] + 1]
                              /\ squeue' = [squeue EXCEPT ![s] = Append(squeue[s], e)]
      <4>1. [sock |-> s, id |-> submitted[s] + 1, kind |-> k] \in OpType
        BY KindFacts, SocketFacts DEF OpType
      <4> QED
        BY <3>1, <4>1 DEF AppPut, Submit
    <3>3. squeue \in [Socket -> Seq(OpType)] /\ submitted \in [Socket -> Nat]
      BY DEF ThreadInv, AppShape
    <3>4. Len(squeue[s]) \in Nat /\ Len(Append(squeue[s], e)) = Len(squeue[s]) + 1
      BY <3>2, <3>3, AppendOp
    <3>5. \A x \in Socket : submitted'[x] - Len(squeue'[x]) = submitted[x] - Len(squeue[x])
      <4>1. submitted'[s] = submitted[s] + 1 /\ squeue'[s] = Append(squeue[s], e) /\ submitted[s] \in Nat
        BY <3>2, <3>3
      <4>2. \A x \in Socket : x # s => submitted'[x] = submitted[x] /\ squeue'[x] = squeue[x]
        BY <3>2, <3>3
      <4>3. submitted'[s] - Len(squeue'[s]) = submitted[s] - Len(squeue[s])
        BY <3>4, <4>1
      <4> QED
        BY <4>2, <4>3
    <3>6. /\ UNCHANGED <<tx, txFd, mpc, mlev, mop, mdeq, fullIter, dequeued, enqueued,
                         lwipVars, histVars, socketList>>
          /\ UNCHANGED <<ppc, pidx>>
      BY <3>1 DEF AppPut, Submit, prioVars
    <3> QED
      BY <3>5, <3>6 DEF QuietStep
  <2>2. CASE AppBump(s)
    BY <2>2 DEF AppBump, QuietStep, prioVars
  <2>3. CASE AppWake(s)
    <3>1. \A m \in Level : \/ ppc'[m] = ppc[m] /\ pidx'[m] = pidx[m]
                           \/ ppc[m] = "asleep" /\ ppc'[m] = "diff"
      BY <1>1, <2>3 DEF AppWake
    <3>2. /\ UNCHANGED <<tx, txFd, mpc, mlev, mop, mdeq, fullIter, dequeued, enqueued,
                         lwipVars, histVars, socketList>>
          /\ UNCHANGED <<squeue, submitted>>
      BY <2>3 DEF AppWake
    <3>3. \A m \in Level : /\ ppc'[m] = "commit" <=> ppc[m] = "commit"
                           /\ ppc'[m] \in {"commit", "signal"} <=> ppc[m] \in {"commit", "signal"}
                           /\ ppc[m] = "commit" => pidx'[m] = pidx[m]
      BY <3>1
    <3> QED
      BY <3>2, <3>3 DEF QuietStep
  <2> QED
    BY <1>3, <2>1, <2>2, <2>3 DEF App
<1>4. ASSUME NEW l \in Level,
             PrioFill(l) \/ PrioDiff(l) \/ PrioLimit(l) \/ PutFails(l) \/ PrioWait(l)
      PROVE  QuietStep
  <2>1. /\ UNCHANGED <<tx, txFd, mpc, mlev, mop, mdeq, fullIter, dequeued, enqueued,
                       lwipVars, histVars, socketList>>
        /\ UNCHANGED <<squeue, submitted>>
    BY <1>4 DEF PrioFill, PrioDiff, PrioLimit, MoveUnless, PutFails, PrioPut, PrioWait, SleepUnless, appVars
  <2>2. ppc[l] \in {"fill", "diff", "limit", "put", "wait"}
    BY <1>4 DEF PrioFill, PrioDiff, PrioLimit, MoveUnless, PutFails, PrioPut, PrioWait, SleepUnless
  <2>3. /\ ppc'[l] \in {"fill", "diff", "limit", "put", "wait", "asleep"}
        /\ \A m \in Level : m # l => ppc'[m] = ppc[m] /\ pidx'[m] = pidx[m]
    <3>1. CASE PrioFill(l)
      BY <1>1, <3>1 DEF PrioFill
    <3>2. CASE PrioDiff(l)
      BY <1>1, <3>2 DEF PrioDiff
    <3>3. CASE PrioLimit(l)
      BY <1>1, <3>3 DEF PrioLimit, MoveUnless, Return
    <3>4. CASE PutFails(l)
      BY <1>1, <3>4 DEF PutFails, Return
    <3>5. CASE PrioWait(l)
      BY <1>1, <3>5 DEF PrioWait, SleepUnless
    <3> QED
      BY <1>4, <3>1, <3>2, <3>3, <3>4, <3>5
  <2>4. \A m \in Level : /\ ppc'[m] = "commit" <=> ppc[m] = "commit"
                         /\ ppc'[m] \in {"commit", "signal"} <=> ppc[m] \in {"commit", "signal"}
                         /\ ppc[m] = "commit" => pidx'[m] = pidx[m]
    BY <2>2, <2>3
  <2> QED
    BY <2>1, <2>4 DEF QuietStep
<1> QED
  BY <1>2, <1>3, <1>4

\* In a quiet step no operation leaves a squeue.
LEMMA QuietMoved ==
  ASSUME ThreadInv, ThreadInv', QuietStep
  PROVE  \A s \in Socket : Moved(s)' = Moved(s) /\ Transit(s)' = Transit(s)
<1>1. \A s \in Socket : Transit(s)' = Transit(s)
  BY TransitFrame DEF QuietStep
<1> QED
  BY <1>1 DEF QuietStep, Moved

\* Nor in a step of the main loop or of lwIP.
LEMMA MainMoved ==
  ASSUME UNCHANGED <<squeue, squeueFutex, appVars, prioVars>>
  PROVE  \A s \in Socket : Moved(s)' = Moved(s) /\ Transit(s)' = Transit(s)
BY DEF Moved, Transit, InTransit, Current, LevelOf, appVars, prioVars

\* signal_tx_interrupt moves nothing.
LEMMA SignalMoved ==
  ASSUME ThreadInv, ThreadInv', NEW l \in Level, PrioSignal(l)
  PROVE  \A s \in Socket : Moved(s)' = Moved(s) /\ Transit(s)' = Transit(s)
<1>1. /\ ppc[l] = "signal" /\ ppc' = [ppc EXCEPT ![l] = "limit"]
      /\ UNCHANGED <<squeue, submitted, socketList, pidx>>
  BY DEF PrioSignal, appVars
<1>2. ppc \in [Level -> {"fill", "diff", "limit", "put", "commit", "signal", "wait", "asleep"}]
  BY DEF ThreadInv, PrioShape
<1>3. \A m \in Level : ppc'[m] = "commit" <=> ppc[m] = "commit"
  BY <1>1, <1>2
<1>4. \A s \in Socket : Transit(s)' = Transit(s)
  BY <1>1, <1>3, TransitFrame
<1> QED
  BY <1>1, <1>4 DEF Moved

\* The commit of an operation ends its transit.
LEMMA CommitMoved ==
  ASSUME ThreadInv, ThreadInv', NEW l \in Level, PrioCommit(l)
  PROVE  /\ \A s \in Socket : Moved(s)' = Moved(s)
         /\ \A s \in Socket : s # Current(l) => Transit(s)' = Transit(s)
         /\ Current(l) \in Socket /\ Transit(Current(l)) = 1
         /\ \A s \in Socket : s = Current(l) => Transit(s)' = 0
<1>4. ThreadInv' => (\A s \in Socket :
         /\ InTransit(s) <=> \E m \in Level : ppc[m] = "commit" /\ Current(m) = s
         /\ Transit(s) \in 0..1 /\ (Transit(s) = 1 <=> InTransit(s)))'
  BY TransitIs, PTL
<1>0. ppc[l] = "commit"
  BY DEF PrioCommit, Commit
<1>1. PICK s \in Socket : s = Current(l)
  BY <1>0, ThreadFacts DEF Busy
<1>2. /\ squeue' = [squeue EXCEPT ![s] = Tail(squeue[s])]
      /\ ppc' = [ppc EXCEPT ![l] = "signal"] /\ UNCHANGED <<submitted, pidx, socketList>>
  BY <1>1 DEF PrioCommit, Commit, appVars
<1>3. /\ squeue \in [Socket -> Seq(OpType)]
      /\ ppc \in [Level -> {"fill", "diff", "limit", "put", "commit", "signal", "wait", "asleep"}]
  BY DEF ThreadInv, AppShape, PrioShape
<1>5. ppc'[l] = "signal" /\ \A m \in Level : m # l => ppc'[m] = ppc[m]
  BY <1>2, <1>3
<1>6. \A m \in Level : Current(m)' = Current(m)
  BY <1>2 DEF Current
<1>7. ASSUME NEW x \in Socket PROVE InTransit(x)' <=> InTransit(x) /\ x # s
  <2>1. InTransit(x)' <=> \E m \in Level : ppc'[m] = "commit" /\ Current(m)' = x
    BY <1>4
  <2>2. InTransit(x) <=> \E m \in Level : ppc[m] = "commit" /\ Current(m) = x
    BY TransitIs
  <2>3. \A m \in Level : m # l /\ ppc[m] = "commit" => Current(m) # s
    BY <1>0, <1>1, DistinctCurrent DEF Busy
  <2> QED
    BY <1>0, <1>1, <1>5, <1>6, <2>1, <2>2, <2>3
<1>8. InTransit(s) /\ Transit(s) = 1
  BY <1>0, <1>1, TransitIs
<1>9. \A x \in Socket : x # s => Transit(x)' = Transit(x)
  BY <1>7 DEF Transit
<1>10. Transit(s)' = 0
  BY <1>7 DEF Transit
<1>11. squeue'[s] = Tail(squeue[s]) /\ \A x \in Socket : x # s => squeue'[x] = squeue[x]
  BY <1>2, <1>3
<1>12. squeue[s] # <<>> /\ submitted[s] \in Nat
  <2>1. /\ Announced(s) \in Nat /\ Bumping(s) \in Nat /\ QueueOK(s) /\ submitted[s] \in Nat
    BY SocketFacts
  <2>2. pdiff[l] > 0 /\ pdiff[l] <= Announced(s) /\ pdiff[l] \in Nat
    BY <1>0, <1>1, ThreadFacts DEF ThreadOK
  <2>3. \A d, a, b \in Nat : d > 0 /\ d <= a => a + b # 0
    OBVIOUS
  <2>4. Len(squeue[s]) # 0
    BY <2>1, <2>2, <2>3 DEF QueueOK
  <2> QED
    BY <2>1, <2>4
<1>13. Len(Tail(squeue[s])) = Len(squeue[s]) - 1 /\ Len(squeue[s]) \in Nat
  BY <1>3, <1>12, TailOp
<1>14. Moved(s)' = Moved(s)
  <2>1. /\ Moved(s)' = submitted[s] - (Len(squeue[s]) - 1) + 0
        /\ Moved(s) = submitted[s] - Len(squeue[s]) + 1
    BY <1>2, <1>8, <1>10, <1>11, <1>13 DEF Moved
  <2> QED
    BY <1>12, <1>13, <2>1
<1>15. \A x \in Socket : x # s => Moved(x)' = Moved(x)
  BY <1>2, <1>9, <1>11 DEF Moved
<1> QED
  BY <1>1, <1>8, <1>9, <1>10, <1>14, <1>15

\* A put that succeeds.
PutMoves(l) ==
  /\ PrioPut(l) /\ squeue[Current(l)] # <<>> /\ Len(tx[l]) < TxCap
  /\ tx' = [tx EXCEPT ![l] = Append(tx[l], Head(squeue[Current(l)]))]
  /\ ppc' = [ppc EXCEPT ![l] = "commit"] /\ UNCHANGED pidx

\* It moves the operation with the next number, which is in transit then.
LEMMA PutMoved ==
  ASSUME ThreadInv, ThreadInv', NEW l \in Level, PutMoves(l)
  PROVE  \E s \in Socket : \E e \in OpType :
           /\ s = Current(l) /\ LevelOf(s) = l /\ e = Head(squeue[s])
           /\ e.sock = s /\ e.kind # "nop" /\ e.id = Moved(s) + 1
           /\ Moved(s)' = Moved(s) + 1 /\ Transit(s) = 0 /\ Transit(s)' = 1
           /\ \A x \in Socket : x # s => Moved(x)' = Moved(x) /\ Transit(x)' = Transit(x)
<1>4. ThreadInv' => (\A s \in Socket :
         /\ InTransit(s) <=> \E m \in Level : ppc[m] = "commit" /\ Current(m) = s
         /\ Transit(s) \in 0..1 /\ (Transit(s) = 1 <=> InTransit(s)))'
  BY TransitIs, PTL
<1>0. ppc[l] = "put" /\ UNCHANGED <<squeue, submitted, pidx, socketList>>
  BY DEF PutMoves, PrioPut, appVars
<1>1. PICK s \in Socket : s = Current(l) /\ LevelOf(s) = l
  BY <1>0, ThreadFacts DEF Busy
<1>2. ppc' = [ppc EXCEPT ![l] = "commit"] /\ squeue[s] # <<>>
  BY <1>1 DEF PutMoves
<1>3. ppc \in [Level -> {"fill", "diff", "limit", "put", "commit", "signal", "wait", "asleep"}]
  BY DEF ThreadInv, PrioShape
<1>5. ppc'[l] = "commit" /\ \A m \in Level : m # l => ppc'[m] = ppc[m]
  BY <1>2, <1>3
<1>6. \A m \in Level : Current(m)' = Current(m)
  BY <1>0 DEF Current
<1>7. ASSUME NEW x \in Socket PROVE (InTransit(x)' <=> InTransit(x) \/ x = s) /\ ~InTransit(s)
  <2>1. InTransit(x)' <=> \E m \in Level : ppc'[m] = "commit" /\ Current(m)' = x
    BY <1>4
  <2>2. \A y \in Socket : InTransit(y) <=> \E m \in Level : ppc[m] = "commit" /\ Current(m) = y
    BY TransitIs
  <2>3. \A m \in Level : m # l /\ ppc[m] = "commit" => Current(m) # s
    BY <1>0, <1>1, DistinctCurrent DEF Busy
  <2> QED
    BY <1>0, <1>1, <1>5, <1>6, <2>1, <2>2, <2>3
<1>8. Transit(s) = 0 /\ Transit(s)' = 1 /\ \A x \in Socket : x # s => Transit(x)' = Transit(x)
  BY <1>7 DEF Transit
<1>9. /\ squeue[s] \in Seq(OpType) /\ submitted[s] \in Nat /\ QueueOK(s)
  BY SocketFacts
<1>10. /\ Head(squeue[s]) \in OpType /\ Head(squeue[s]) = squeue[s][1]
       /\ Len(squeue[s]) \in Nat /\ Len(squeue[s]) >= 1
  BY <1>2, <1>9, TailOp
<1>11. /\ Head(squeue[s]).sock = s /\ Head(squeue[s]).kind # "nop"
       /\ Head(squeue[s]).id = submitted[s] - Len(squeue[s]) + 1
  <2>1. 1 \in 1..Len(squeue[s])
    BY <1>10
  <2> QED
    BY <1>9, <1>10, <2>1 DEF QueueOK
<1>12. Moved(s) = submitted[s] - Len(squeue[s]) /\ Moved(s)' = submitted[s] - Len(squeue[s]) + 1
  BY <1>0, <1>8, <1>9, <1>10 DEF Moved
<1>13. \A x \in Socket : x # s => Moved(x)' = Moved(x)
  BY <1>0, <1>8 DEF Moved
<1> QED
  BY <1>1, <1>8, <1>10, <1>11, <1>12, <1>13

\* The steps, by what they do to the operations on their way.
LEMMA StepCases ==
  ASSUME ThreadInv, [Next]_vars
  PROVE  \/ QuietStep
         \/ \E l \in Level : PrioSignal(l) \/ PrioCommit(l) \/ PutMoves(l)
         \/ Main \/ \E s \in Socket : Net(s)
<1>1. ASSUME NEW l \in Level, PrioPut(l) PROVE PutFails(l) \/ PutMoves(l)
  BY <1>1 DEF PrioPut, PutFails, PutMoves
<1>2. ASSUME NEW l \in Level, Prio(l)
      PROVE  \/ PrioFill(l) \/ PrioDiff(l) \/ PrioLimit(l) \/ PutFails(l) \/ PrioWait(l)
             \/ PrioSignal(l) \/ PrioCommit(l) \/ PutMoves(l)
  BY <1>1, <1>2 DEF Prio
<1>3. CASE UNCHANGED vars
  BY <1>3, Quiet
<1>4. ASSUME NEW s \in Socket, App(s) PROVE QuietStep
  BY <1>4, Quiet
<1>5. ASSUME NEW l \in Level, Prio(l)
      PROVE  QuietStep \/ PrioSignal(l) \/ PrioCommit(l) \/ PutMoves(l)
  BY <1>2, <1>5, Quiet
<1> QED
  BY <1>3, <1>4, <1>5 DEF Next

\* A step after which every operation in the tx queues was there before.
LEMMA TxShrinks ==
  ASSUME MainShape, MainShape', TxInv, UNCHANGED <<socketList, waiting>>,
         \A s \in Socket : Moved(s)' = Moved(s),
         \A m \in Level : \E d \in {0, 1} : \A i \in 1..Len(tx'[m]) :
           /\ i + d \in 1..Len(tx[m])
           /\ tx'[m][i].sock = tx[m][i + d].sock /\ tx'[m][i].id = tx[m][i + d].id
  PROVE  TxInv'
<1>1. ASSUME NEW s \in Socket, NEW l \in Level, NEW i \in 1..Len(tx'[l]), tx'[l][i].sock = s
      PROVE  LevelOf(s)' = l /\ tx'[l][i].id <= Moved(s)'
  <2>1. PICK k \in 1..Len(tx[l]) : tx[l][k].sock = s /\ tx[l][k].id = tx'[l][i].id
    BY <1>1
  <2>2. LevelOf(s) = l /\ tx[l][k].id <= Moved(s)
    BY <2>1 DEF TxInv
  <2>3. LevelOf(s)' = LevelOf(s)
    BY DEF LevelOf
  <2> QED
    BY <2>1, <2>2, <2>3
<1>2. ASSUME NEW l \in Level, NEW i \in 1..Len(tx'[l]), NEW j \in 1..Len(tx'[l]),
             i < j, tx'[l][i].sock = tx'[l][j].sock
      PROVE  tx'[l][i].id < tx'[l][j].id
  <2>1. PICK d \in {0, 1} : \A k \in 1..Len(tx'[l]) :
           /\ k + d \in 1..Len(tx[l])
           /\ tx'[l][k].sock = tx[l][k + d].sock /\ tx'[l][k].id = tx[l][k + d].id
    OBVIOUS
  <2>2. i + d \in 1..Len(tx[l]) /\ j + d \in 1..Len(tx[l]) /\ i + d < j + d
    BY <1>2, <2>1
  <2>3. tx[l][i + d].sock = tx[l][j + d].sock
    BY <1>2, <2>1
  <2>4. tx[l][i + d].id < tx[l][j + d].id
    BY <2>2, <2>3 DEF TxInv
  <2> QED
    BY <2>1, <2>4
<1>3. /\ waiting' \subseteq OpType
      /\ \A s \in Socket : \A op \in waiting' : op.sock = s => op.id <= Moved(s)'
  BY DEF TxInv
<1> QED
  BY <1>1, <1>2, <1>3 DEF TxInv

\* The same when the tx queues do not change at all.
LEMMA TxInvFrame ==
  ASSUME MainShape, MainShape', TxInv, UNCHANGED <<tx, socketList, waiting>>,
         \A s \in Socket : Moved(s)' = Moved(s)
  PROVE  TxInv'
<1>1. ASSUME NEW m \in Level, NEW i \in 1..Len(tx'[m]) PROVE i + 0 = i
  BY <1>1
<1> QED
  BY <1>1, TxShrinks

\* An operation is put in the tx queue of its level.
LEMMA TxPut ==
  ASSUME ThreadInv, ThreadInv', MainShape, MainShape', TxInv, NEW l \in Level, PutMoves(l)
  PROVE  TxInv'
<1>0. /\ tx' = [tx EXCEPT ![l] = Append(tx[l], Head(squeue[Current(l)]))]
      /\ UNCHANGED <<socketList, waiting>>
  BY DEF PutMoves, PrioPut, histVars
<1>1. PICK s \in Socket : \E e \in OpType :
           /\ s = Current(l) /\ LevelOf(s) = l /\ e = Head(squeue[s])
           /\ e.sock = s /\ e.kind # "nop" /\ e.id = Moved(s) + 1
           /\ Moved(s)' = Moved(s) + 1 /\ Transit(s) = 0 /\ Transit(s)' = 1
           /\ \A x \in Socket : x # s => Moved(x)' = Moved(x) /\ Transit(x)' = Transit(x)
  BY PutMoved
<1>2. PICK e \in OpType :
           /\ s = Current(l) /\ LevelOf(s) = l /\ e = Head(squeue[s])
           /\ e.sock = s /\ e.kind # "nop" /\ e.id = Moved(s) + 1
           /\ Moved(s)' = Moved(s) + 1 /\ Transit(s) = 0 /\ Transit(s)' = 1
           /\ \A x \in Socket : x # s => Moved(x)' = Moved(x) /\ Transit(x)' = Transit(x)
  BY <1>1
<1>3. tx \in [Level -> Seq(OpType)] /\ tx[l] \in Seq(OpType) /\ Len(tx[l]) \in Nat
  BY TxFacts
<1>4. tx'[l] = Append(tx[l], e) /\ \A m \in Level : m # l => tx'[m] = tx[m]
  BY <1>0, <1>2, <1>3
<1>5. /\ Len(tx'[l]) = Len(tx[l]) + 1 /\ \A i \in 1..Len(tx[l]) : tx'[l][i] = tx[l][i]
      /\ tx'[l][Len(tx[l]) + 1] = e
  BY <1>3, <1>4, AppendOp
<1>6. \A x \in Socket : Moved(x) \in Nat /\ Moved(x)' \in Nat /\ Moved(x) <= Moved(x)'
  <2>1. \A x \in Socket : Moved(x) \in Nat
    BY MovedIs
  <2> QED
    BY <1>2, <2>1
<1>7. \A x \in Socket : LevelOf(x)' = LevelOf(x)
  BY <1>0 DEF LevelOf
<1>8. \A m \in Level : \A i \in 1..Len(tx[m]) : tx[m][i].id \in Nat
  BY TxFacts DEF OpType
<1>9. ASSUME NEW x \in Socket, NEW m \in Level, NEW i \in 1..Len(tx'[m]), tx'[m][i].sock = x
      PROVE  LevelOf(x)' = m /\ tx'[m][i].id <= Moved(x)'
  <2>1. CASE m # l \/ i \in 1..Len(tx[m])
    <3>1. tx'[m][i] = tx[m][i] /\ i \in 1..Len(tx[m])
      BY <1>4, <1>5, <1>9, <2>1
    <3>2. LevelOf(x) = m /\ tx[m][i].id <= Moved(x) /\ tx[m][i].id \in Nat
      BY <1>8, <1>9, <3>1 DEF TxInv
    <3> QED
      BY <1>6, <1>7, <3>1, <3>2
  <2>2. CASE m = l /\ i = Len(tx[l]) + 1
    <3>1. tx'[m][i] = e /\ x = s
      BY <1>2, <1>5, <1>9, <2>2
    <3> QED
      BY <1>2, <1>6, <1>7, <2>2, <3>1
  <2> QED
    BY <1>3, <1>5, <1>9, <2>1, <2>2
<1>10. ASSUME NEW m \in Level, NEW i \in 1..Len(tx'[m]), NEW j \in 1..Len(tx'[m]),
              i < j, tx'[m][i].sock = tx'[m][j].sock
       PROVE  tx'[m][i].id < tx'[m][j].id
  <2>1. CASE m # l \/ j \in 1..Len(tx[m])
    <3>1. /\ tx'[m][i] = tx[m][i] /\ i \in 1..Len(tx[m])
          /\ tx'[m][j] = tx[m][j] /\ j \in 1..Len(tx[m])
      BY <1>3, <1>4, <1>5, <1>10, <2>1
    <3> QED
      BY <1>10, <3>1 DEF TxInv
  <2>2. CASE m = l /\ j = Len(tx[l]) + 1
    <3>1. tx'[m][j] = e /\ i \in 1..Len(tx[l]) /\ tx'[m][i] = tx[l][i]
      BY <1>3, <1>5, <1>10, <2>2
    <3>2. tx[l][i].sock = s /\ tx[l][i].id \in Nat
      BY <1>2, <1>8, <1>10, <3>1
    <3>3. tx[l][i].id <= Moved(s)
      BY <3>1, <3>2 DEF TxInv
    <3> QED
      BY <1>2, <1>6, <3>1, <3>2, <3>3
  <2> QED
    BY <1>3, <1>5, <1>10, <2>1, <2>2
<1>11. ASSUME NEW x \in Socket, NEW op \in waiting', op.sock = x PROVE op.id <= Moved(x)'
  <2>1. op \in waiting /\ op.id \in Nat
    BY <1>0, <1>11 DEF TxInv, OpType
  <2>2. op.id <= Moved(x)
    BY <1>11, <2>1 DEF TxInv
  <2> QED
    BY <1>6, <2>1, <2>2
<1>12. waiting' \subseteq OpType
  BY <1>0 DEF TxInv
<1> QED
  BY <1>9, <1>10, <1>11, <1>12 DEF TxInv

\* The operation at hand is performed, and what is queued now is waiting.
LEMMA TxPerform ==
  ASSUME MainShape, MainShape', TxInv, PerformStep
  PROVE  TxInv'
<1>1. /\ UNCHANGED <<tx, socketList>> /\ waiting' = IF mop.scan THEN waiting ELSE Others
      /\ UNCHANGED <<squeue, squeueFutex, appVars, prioVars>>
  BY DEF PerformStep, Performed, prioVars
<1>2. \A s \in Socket : Moved(s)' = Moved(s)
  BY <1>1, MainMoved
<1>3. ASSUME NEW op \in Others
      PROVE  op \in OpType /\ \A s \in Socket : op.sock = s => op.id <= Moved(s)
  <2>1. PICK l \in 1..(Levels - 1) : \E i \in DOMAIN tx[l] : op = tx[l][i]
    BY <1>3 DEF Others
  <2>2. l \in Level
    BY <2>1, ConstantFacts DEF Level
  <2>3. PICK i \in 1..Len(tx[l]) : op = tx[l][i]
    BY <2>1, <2>2, TxFacts
  <2>4. op \in OpType
    BY <2>2, <2>3, TxFacts
  <2> QED
    BY <2>2, <2>3, <2>4 DEF TxInv
<1>4. ASSUME NEW op \in waiting'
      PROVE  op \in OpType /\ \A s \in Socket : op.sock = s => op.id <= Moved(s)
  BY <1>1, <1>3, <1>4 DEF TxInv
<1>5. \A s \in Socket : LevelOf(s)' = LevelOf(s)
  BY <1>1 DEF LevelOf
<1> QED
  BY <1>1, <1>2, <1>4, <1>5 DEF TxInv

\* The head of a queue is erased, or an operation becomes a NOP.
LEMMA TxErase ==
  ASSUME MainShape, MainShape', MopInv, TxInv, HandleNop \/ MainErase
  PROVE  TxInv'
<1>0. /\ UNCHANGED <<squeue, squeueFutex, appVars, prioVars>> /\ UNCHANGED <<socketList, waiting>>
      /\ AtHand
  BY DEF HandleNop, MainErase, Erase, prioVars, histVars, AtHand
<1>1. \A s \in Socket : Moved(s)' = Moved(s)
  BY <1>0, MainMoved
<1>2. PICK l \in Level : l = mop.lev /\ tx[l] # <<>>
  BY <1>0, HandFacts
<1>3. PICK p \in 1..Len(tx[l]) : p = mop.pos
  BY <1>0, <1>2, HandFacts
<1>4. CASE tx' = [tx EXCEPT ![l] = Tail(tx[l])]
  <2>1. tx \in [Level -> Seq(OpType)] /\ tx[l] \in Seq(OpType) /\ Len(tx[l]) \in Nat
    BY TxFacts
  <2>2. tx'[l] = Tail(tx[l]) /\ \A m \in Level : m # l => tx'[m] = tx[m]
    BY <1>4, <2>1
  <2>3. Len(tx'[l]) = Len(tx[l]) - 1 /\ \A i \in 1..(Len(tx[l]) - 1) : tx'[l][i] = tx[l][i + 1]
    BY <1>2, <2>1, <2>2, TailOp
  <2>4. ASSUME NEW m \in Level
        PROVE  \E d \in {0, 1} : \A i \in 1..Len(tx'[m]) :
                 /\ i + d \in 1..Len(tx[m])
                 /\ tx'[m][i].sock = tx[m][i + d].sock /\ tx'[m][i].id = tx[m][i + d].id
    <3>1. CASE m = l
      <4>1. \A i \in 1..Len(tx'[m]) : i + 1 \in 1..Len(tx[m]) /\ tx'[m][i] = tx[m][i + 1]
        BY <2>1, <2>3, <3>1
      <4> QED
        BY <4>1
    <3>2. CASE m # l
      <4>1. \A i \in 1..Len(tx'[m]) : i + 0 = i
        OBVIOUS
      <4> QED
        BY <2>2, <3>2, <4>1
    <3> QED
      BY <3>1, <3>2
  <2> QED
    BY <1>0, <1>1, <2>4, TxShrinks
<1>5. CASE tx' = [tx EXCEPT ![l][p].kind = "nop"]
  <2>1. \A m \in Level : \A i \in 1..Len(tx[m]) :
          tx'[m][i].sock = tx[m][i].sock /\ tx'[m][i].id = tx[m][i].id
    BY <1>5, MarkFacts
  <2>2. \A m \in Level : Len(tx'[m]) = Len(tx[m])
    BY <1>5, MarkFacts
  <2>3. ASSUME NEW m \in Level
        PROVE  \E d \in {0, 1} : \A i \in 1..Len(tx'[m]) :
                 /\ i + d \in 1..Len(tx[m])
                 /\ tx'[m][i].sock = tx[m][i + d].sock /\ tx'[m][i].id = tx[m][i + d].id
    <3>1. \A i \in 1..Len(tx'[m]) : i + 0 = i
      OBVIOUS
    <3> QED
      BY <2>1, <2>2, <3>1
  <2> QED
    BY <1>0, <1>1, <2>3, TxShrinks
<1> QED
  BY <1>2, <1>3, <1>4, <1>5 DEF HandleNop, MainErase, Erase

\* The remaining steps of the main loop change neither the tx queues nor what
\* was waiting.
LEMMA MainKeeps ==
  ASSUME Main \/ \E s \in Socket : Net(s)
  PROVE  \/ PerformStep \/ HandleNop \/ MainErase
         \/ UNCHANGED <<tx, waiting, handled>>
<1>1. ASSUME NEW s \in Socket, Net(s) PROVE UNCHANGED <<tx, waiting, handled>>
  BY <1>1 DEF Net, SelectAck, SelectData, StartIteration
<1>2. CASE HandleSync \/ HandleWriteError \/ HandleWrite \/ HandleRecv
  BY <1>2, Performs
<1>3. CASE SelectIdle \/ MainPeek
  BY <1>3 DEF SelectIdle, StartIteration, MainPeek, Peek
<1>4. CASE HandleTryAgain
  BY <1>4 DEF HandleTryAgain, Refused
<1>5. CASE MainScan \/ MainCount
  BY <1>5 DEF MainScan, MainCount, Count, histVars
<1> QED
  BY <1>1, <1>2, <1>3, <1>4, <1>5 DEF Main

\* Every step keeps what is said of the tx queues.
LEMMA TxStep ==
  ASSUME ThreadInv, ThreadInv', MainShape, MainShape', MopInv, TxInv, [Next]_vars
  PROVE  TxInv'
<1>1. CASE QuietStep
  <2>1. UNCHANGED <<tx, socketList, waiting>>
    BY <1>1 DEF QuietStep, histVars
  <2> QED
    BY <1>1, <2>1, QuietMoved, TxInvFrame
<1>2. ASSUME NEW l \in Level, PrioSignal(l) \/ PrioCommit(l) PROVE TxInv'
  <2>1. UNCHANGED <<tx, socketList, waiting>>
    BY <1>2 DEF PrioSignal, PrioCommit, Commit, histVars
  <2>2. \A s \in Socket : Moved(s)' = Moved(s)
    BY <1>2, SignalMoved, CommitMoved
  <2> QED
    BY <2>1, <2>2, TxInvFrame
<1>3. CASE Main \/ \E s \in Socket : Net(s)
  <2>1. UNCHANGED <<squeue, squeueFutex, appVars, prioVars>>
    BY <1>3, MainFrame
  <2>2. \A s \in Socket : Moved(s)' = Moved(s)
    BY <2>1, MainMoved
  <2>3. CASE UNCHANGED <<tx, waiting, handled>>
    BY <2>1, <2>2, <2>3, TxInvFrame DEF prioVars
  <2> QED
    BY <1>3, <2>3, MainKeeps, TxPerform, TxErase
<1> QED
  BY <1>1, <1>2, <1>3, TxPut, StepCases
-----------------------------------------------------------------------------
(***************************************************************************)
(* The main loop's view of the tx queues.                                  *)
(***************************************************************************)

\* States in which nothing is said of the queues.
LEMMA PeekVacuous ==
  ASSUME \/ mpc' \in {"scan", "count", "erase"}
         \/ mpc' = "peek" /\ mlev' = 1
         \/ mpc' = "select" /\ leftEmpty' = FALSE
         \/ mpc' = "handle" /\ mop'.scan = TRUE
  PROVE  PeekAll'
<1>1. \A l \in Level : ~(l < 1)
  BY DEF Level
<1> QED
  BY <1>1 DEF PeekAll, PeekInv, SignalNotLost, BoundedInversion

\* A step that keeps the queues and the main loop, and every level as found.
LEMMA PeekFrame ==
  ASSUME PeekAll, UNCHANGED <<tx, mpc, mlev, mop, waiting, leftEmpty>>,
         txFd' = FALSE => txFd = FALSE,
         txFd \in BOOLEAN, txFd' \in BOOLEAN,
         txFd' = FALSE => \A l \in Level : Found(l) => Found(l)'
  PROVE  PeekAll'
<1>1. PeekInv'
  BY DEF PeekAll, PeekInv
<1>2. SignalNotLost'
  BY DEF PeekAll, SignalNotLost, Found
<1>3. BoundedInversion'
  BY DEF PeekAll, BoundedInversion
<1> QED
  BY <1>1, <1>2, <1>3 DEF PeekAll

\* A put is not passed over: it was not waiting, and it will be signalled.
LEMMA PeekPut ==
  ASSUME ThreadInv, ThreadInv', MainShape, MopInv, TxInv, PeekAll, NEW l \in Level, PutMoves(l)
  PROVE  PeekAll'
<1>0. /\ tx' = [tx EXCEPT ![l] = Append(tx[l], Head(squeue[Current(l)]))]
      /\ ppc' = [ppc EXCEPT ![l] = "commit"]
      /\ UNCHANGED <<socketList, waiting, leftEmpty, txFd, mpc, mlev, mop>>
  BY DEF PutMoves, PrioPut, histVars, mainVars
<1>1. PICK s \in Socket : \E e \in OpType :
           /\ s = Current(l) /\ LevelOf(s) = l /\ e = Head(squeue[s])
           /\ e.sock = s /\ e.kind # "nop" /\ e.id = Moved(s) + 1
           /\ Moved(s)' = Moved(s) + 1 /\ Transit(s) = 0 /\ Transit(s)' = 1
           /\ \A x \in Socket : x # s => Moved(x)' = Moved(x) /\ Transit(x)' = Transit(x)
  BY PutMoved
<1>2. PICK e \in OpType : s = Current(l) /\ e = Head(squeue[s]) /\ e.sock = s /\ e.id = Moved(s) + 1
  BY <1>1
<1>3. tx \in [Level -> Seq(OpType)] /\ tx[l] \in Seq(OpType) /\ Len(tx[l]) \in Nat
      /\ ppc \in [Level -> {"fill", "diff", "limit", "put", "commit", "signal", "wait", "asleep"}]
  BY TxFacts DEF ThreadInv, PrioShape
<1>4. /\ tx'[l] = Append(tx[l], e) /\ \A m \in Level : m # l => tx'[m] = tx[m]
      /\ ppc'[l] = "commit" /\ \A m \in Level : m # l => ppc'[m] = ppc[m]
  BY <1>0, <1>2, <1>3
<1>5. /\ Len(tx'[l]) = Len(tx[l]) + 1 /\ \A i \in 1..Len(tx[l]) : tx'[l][i] = tx[l][i]
      /\ tx'[l][Len(tx[l]) + 1] = e /\ tx'[l] \in Seq(OpType)
  BY <1>2, <1>3, <1>4, AppendOp
<1>6. e \notin waiting
  <2>1. Moved(s) \in Nat
    BY MovedIs
  <2>2. e \in waiting => e.id <= Moved(s)
    BY <1>2 DEF TxInv
  <2> QED
    BY <1>2, <2>1, <2>2
<1>7. ASSUME NEW m \in Level, \A i \in DOMAIN tx[m] : tx[m][i] \notin waiting
      PROVE  \A i \in DOMAIN tx'[m] : tx'[m][i] \notin waiting'
  <2>1. CASE m # l
    BY <1>0, <1>4, <1>7, <2>1
  <2>2. CASE m = l
    <3>1. DOMAIN tx'[l] = 1..(Len(tx[l]) + 1) /\ DOMAIN tx[l] = 1..Len(tx[l])
      BY <1>3, <1>5, LenProperties
    <3>2. \A i \in 1..(Len(tx[l]) + 1) : i \in 1..Len(tx[l]) \/ i = Len(tx[l]) + 1
      BY <1>3
    <3> QED
      BY <1>0, <1>5, <1>6, <1>7, <2>2, <3>1, <3>2
  <2> QED
    BY <2>1, <2>2
<1>8. \A m \in Level : Found(m) => Found(m)'
  BY <1>4 DEF Found
<1>9. PeekInv'
  BY <1>0, <1>7, <1>8 DEF PeekAll, PeekInv
<1>10. SignalNotLost'
  <2>1. mpc = "select" /\ ~txFd /\ leftEmpty => \A m \in Level : Found(m)
    BY DEF PeekAll, SignalNotLost, Found
  <2>2. mpc' = "select" /\ ~txFd' /\ leftEmpty' => \A m \in Level : Found(m)'
    BY <1>0, <1>8, <2>1
  <2> QED
    BY <2>2 DEF SignalNotLost, Found
<1>11. BoundedInversion'
  <2>1. SUFFICES ASSUME mpc = "handle", ~mop.scan, NEW m \in 1..(mop.lev - 1)
                 PROVE  \A i \in DOMAIN tx'[m] : tx'[m][i] \notin waiting'
    BY <1>0 DEF BoundedInversion
  <2>2. mop.lev \in Level
    BY <2>1, HandFacts DEF AtHand
  <2>3. m \in Level
    BY <2>1, <2>2, ConstantFacts DEF Level
  <2>4. \A i \in DOMAIN tx[m] : tx[m][i] \notin waiting
    BY <2>1 DEF PeekAll, BoundedInversion
  <2> QED
    BY <1>7, <2>3, <2>4
<1> QED
  BY <1>9, <1>10, <1>11 DEF PeekAll

\* A peek that finds an operation, an empty level or all levels empty.
LEMMA PeekPeek ==
  ASSUME MainShape, PeekAll, MainPeek
  PROVE  PeekAll'
<1>1. mpc = "peek" /\ UNCHANGED <<tx, waiting, ppc>> /\ mlev \in Level /\ txFd \in BOOLEAN
  BY DEF MainPeek, Peek, prioVars, MainShape
<1>2. CASE EndIteration(FALSE)
  BY <1>2, PeekVacuous DEF EndIteration
<1>3. CASE /\ mop' = [lev |-> mlev, pos |-> 1, scan |-> FALSE]
           /\ mpc' = "handle"
  <2>1. mop'.lev = mlev
    BY <1>3
  <2>2. \A l \in 1..(mlev - 1) : l \in Level /\ l < mlev
    BY <1>1, ConstantFacts DEF Level
  <2>3. \A l \in 1..(mlev - 1) : \A i \in DOMAIN tx[l] : tx[l][i] \notin waiting
    BY <1>1, <2>2 DEF PeekAll, PeekInv
  <2>4. BoundedInversion'
    BY <1>1, <2>1, <2>3 DEF BoundedInversion
  <2> QED
    BY <1>3, <2>4 DEF PeekAll, PeekInv, SignalNotLost
<1>4. CASE tx[mlev] = <<>> /\ mlev < Levels /\ mlev' = mlev + 1 /\ UNCHANGED <<mpc, mop, leftEmpty, txFd>>
  <2>1. \A l \in Level : l < mlev' => l < mlev \/ l = mlev
    BY <1>1, <1>4, ConstantFacts DEF Level
  <2>2. Found(mlev) /\ DOMAIN tx[mlev] = {}
    BY <1>4 DEF Found
  <2>3. \A l \in Level : l < mlev' /\ ~txFd => Found(l)
    BY <1>1, <2>1, <2>2 DEF PeekAll, PeekInv
  <2>4. \A l \in Level : Found(l)' <=> Found(l)
    BY <1>1 DEF Found
  <2>5. \A l \in Level : l < mlev' => \A i \in DOMAIN tx[l] : tx[l][i] \notin waiting
    BY <1>1, <2>1, <2>2 DEF PeekAll, PeekInv
  <2>6. PeekInv'
    BY <1>1, <1>4, <2>3, <2>4, <2>5 DEF PeekInv
  <2> QED
    BY <1>1, <1>4, <2>6 DEF PeekAll, SignalNotLost, BoundedInversion
<1>5. CASE tx[mlev] = <<>> /\ mlev = Levels /\ EndIteration(TRUE) /\ UNCHANGED mop /\ txFd' = txFd
  <2>1. mpc' = "select"
    BY <1>5 DEF EndIteration
  <2>2. \A l \in Level : l < mlev \/ l = mlev
    BY <1>1, <1>5, ConstantFacts DEF Level
  <2>3. \A l \in Level : ~txFd => tx[l] = <<>> \/ ppc[l] \in {"commit", "signal"}
    BY <1>1, <1>5, <2>2 DEF PeekAll, PeekInv, Found
  <2>4. SignalNotLost'
    BY <1>1, <1>5, <2>3 DEF SignalNotLost
  <2> QED
    BY <2>1, <2>4 DEF PeekAll, PeekInv, BoundedInversion
<1> QED
  BY <1>2, <1>3, <1>4, <1>5 DEF MainPeek, Peek

\* Every step keeps the main loop's view of the queues right.
LEMMA PeekStep ==
  ASSUME ThreadInv, ThreadInv', MainShape, MainShape', MopInv, TxInv, PeekAll, [Next]_vars
  PROVE  PeekAll'
<1>0. txFd \in BOOLEAN /\ txFd' \in BOOLEAN
  BY DEF MainShape
<1>1. CASE QuietStep
  <2>1. UNCHANGED <<tx, txFd, mpc, mlev, mop, waiting, leftEmpty>>
    BY <1>1 DEF QuietStep, histVars
  <2>2. \A l \in Level : Found(l) => Found(l)'
    BY <1>1, <2>1 DEF QuietStep, Found
  <2> QED
    BY <1>0, <2>1, <2>2, PeekFrame
<1>2. ASSUME NEW l \in Level, PrioCommit(l) PROVE PeekAll'
  <2>1. UNCHANGED <<tx, txFd, mpc, mlev, mop, waiting, leftEmpty>> /\ ppc' = [ppc EXCEPT ![l] = "signal"]
    BY <1>2 DEF PrioCommit, Commit, histVars, mainVars
  <2>2. ppc \in [Level -> {"fill", "diff", "limit", "put", "commit", "signal", "wait", "asleep"}]
    BY DEF ThreadInv, PrioShape
  <2>3. \A m \in Level : Found(m) => Found(m)'
    BY <2>1, <2>2 DEF Found
  <2> QED
    BY <1>0, <2>1, <2>3, PeekFrame
<1>3. ASSUME NEW l \in Level, PrioSignal(l) PROVE PeekAll'
  <2>1. UNCHANGED <<tx, mpc, mlev, mop, waiting, leftEmpty>> /\ txFd' = TRUE
    BY <1>3 DEF PrioSignal, histVars
  <2> QED
    BY <1>0, <2>1, PeekFrame
<1>4. ASSUME NEW s \in Socket, Net(s) PROVE PeekAll'
  BY <1>4, PeekVacuous DEF Net, SelectAck, SelectData, StartIteration
<1>5. CASE SelectIdle
  BY <1>5, PeekVacuous DEF SelectIdle, StartIteration
<1>6. CASE HandleSync \/ HandleWriteError \/ HandleWrite \/ HandleRecv
  BY <1>6, Performs, PeekVacuous DEF PerformStep, Performed
<1>7. CASE HandleTryAgain
  BY <1>7, PeekVacuous DEF HandleTryAgain, Refused, EndIteration
<1>8. CASE HandleNop \/ MainErase \/ MainCount
  BY <1>8, PeekVacuous DEF HandleNop, MainErase, Erase, MainCount, Count
<1>9. CASE MainScan
  <2>1. \/ mpc' = "scan" \/ (mpc' = "select" /\ leftEmpty' = FALSE)
        \/ (mpc' = "handle" /\ \E i \in RecvAt(mlev) : mop' = [lev |-> mlev, pos |-> i, scan |-> TRUE])
    BY <1>9 DEF MainScan, EndIteration
  <2>2. mpc' = "handle" => mop'.scan = TRUE
    BY <2>1
  <2> QED
    BY <2>1, <2>2, PeekVacuous
<1> QED
  BY <1>1, <1>2, <1>3, <1>4, <1>5, <1>6, <1>7, <1>8, <1>9, PeekPut, PeekPeek, StepCases DEF Main
-----------------------------------------------------------------------------
(***************************************************************************)
(* The pending operations of a socket.                                     *)
(***************************************************************************)

\* The operation at place i of level l is still to be performed.
Live(l, i) == /\ tx[l][i].kind # "nop"
              /\ ~(mpc \in {"count", "erase"} /\ mop.lev = l /\ mop.pos = i)

\* The pending operations of s are the live ones of s, wherever they are queued.
LEMMA PendingIs ==
  Base => \A s \in Socket : \A op :
    op \in PendingOps(s) <=> \E l \in Level : \E i \in 1..Len(tx[l]) :
                               Live(l, i) /\ op = tx[l][i] /\ op.sock = s
<1>1. SUFFICES ASSUME Base, NEW s \in Socket, NEW op
               PROVE  op \in PendingOps(s) <=> \E l \in Level : \E i \in 1..Len(tx[l]) :
                               Live(l, i) /\ op = tx[l][i] /\ op.sock = s
  OBVIOUS
<1>2. PICK l \in Level : l = LevelOf(s)
  BY <1>1, PlaceOf DEF Base, ThreadInv, PrioShape
<1>3. DOMAIN tx[l] = 1..Len(tx[l])
  BY <1>1, TxFacts DEF Base
<1>4. op \in PendingOps(s) <=> \E i \in 1..Len(tx[l]) : Live(l, i) /\ op = tx[l][i] /\ op.sock = s
  BY <1>2, <1>3 DEF PendingOps, Pending, Live
<1>5. ASSUME NEW m \in Level, NEW i \in 1..Len(tx[m]), tx[m][i].sock = s PROVE m = l
  BY <1>1, <1>2, <1>5 DEF Base, TxInv
<1> QED
  BY <1>4, <1>5

\* Pending operations of a socket have different numbers, all of operations
\* that have left the squeue.
LEMMA PendingFacts ==
  Base => \A s \in Socket :
    /\ PendingIds(s) = {op.id : op \in PendingOps(s)}
    /\ \A op \in PendingOps(s) : op \in OpType /\ op.sock = s /\ op.kind # "nop" /\ op.id <= Moved(s)
    /\ \A op, oq \in PendingOps(s) : op.id = oq.id => op = oq
    /\ PendingIds(s) \subseteq 1..Moved(s) /\ Moved(s) \in Nat
    /\ IsFiniteSet(PendingIds(s)) /\ Cardinality(PendingIds(s)) \in Nat
<1>1. SUFFICES ASSUME Base, NEW s \in Socket
               PROVE  /\ PendingIds(s) = {op.id : op \in PendingOps(s)}
                      /\ \A op \in PendingOps(s) : op \in OpType /\ op.sock = s /\ op.kind # "nop" /\ op.id <= Moved(s)
                      /\ \A op, oq \in PendingOps(s) : op.id = oq.id => op = oq
                      /\ PendingIds(s) \subseteq 1..Moved(s) /\ Moved(s) \in Nat
                      /\ IsFiniteSet(PendingIds(s)) /\ Cardinality(PendingIds(s)) \in Nat
  OBVIOUS
<1>2. PendingIds(s) = {op.id : op \in PendingOps(s)}
  BY DEF PendingIds, PendingOps
<1>3. ASSUME NEW op \in PendingOps(s)
      PROVE  \E l \in Level : \E i \in 1..Len(tx[l]) : /\ Live(l, i) /\ op = tx[l][i] /\ op.sock = s
                                                     /\ l = LevelOf(s) /\ op \in OpType
                                                     /\ op.id <= Moved(s)
  <2>1. PICK l \in Level : \E i \in 1..Len(tx[l]) : Live(l, i) /\ op = tx[l][i] /\ op.sock = s
    BY <1>1, <1>3, PendingIs
  <2>2. PICK i \in 1..Len(tx[l]) : Live(l, i) /\ op = tx[l][i] /\ op.sock = s
    BY <2>1
  <2>3. op \in OpType
    BY <1>1, <2>2, TxFacts DEF Base
  <2>4. l = LevelOf(s) /\ op.id <= Moved(s)
    BY <1>1, <2>2 DEF Base, TxInv
  <2> QED
    BY <2>2, <2>3, <2>4
<1>4. \A op \in PendingOps(s) : op \in OpType /\ op.sock = s /\ op.kind # "nop" /\ op.id <= Moved(s)
  BY <1>3 DEF Live
<1>5. ASSUME NEW op \in PendingOps(s), NEW oq \in PendingOps(s), op.id = oq.id PROVE op = oq
  <2>1. PICK l \in Level : \E i \in 1..Len(tx[l]) : op = tx[l][i] /\ op.sock = s /\ l = LevelOf(s)
    BY <1>3
  <2>2. PICK i \in 1..Len(tx[l]) : op = tx[l][i] /\ op.sock = s /\ l = LevelOf(s)
    BY <2>1
  <2>3. PICK j \in 1..Len(tx[l]) : oq = tx[l][j] /\ oq.sock = s
    BY <1>3, <2>2
  <2>4. op.id \in Nat /\ oq.id \in Nat /\ Len(tx[l]) \in Nat
    BY <1>1, <1>4, TxFacts DEF OpType, Base
  <2>5. i < j => op.id < oq.id
    BY <1>1, <2>2, <2>3 DEF Base, TxInv
  <2>6. j < i => oq.id < op.id
    BY <1>1, <2>2, <2>3 DEF Base, TxInv
  <2>7. i = j
    BY <1>5, <2>4, <2>5, <2>6
  <2> QED
    BY <2>2, <2>3, <2>7
<1>6. Moved(s) \in Nat
  BY <1>1, MovedIs DEF Base
<1>7. PendingIds(s) \subseteq 1..Moved(s)
  <2>1. \A op \in PendingOps(s) : op.id \in Nat \ {0} /\ op.id <= Moved(s)
    BY <1>4 DEF OpType
  <2> QED
    BY <1>2, <1>6, <2>1
<1>8. IsFiniteSet(PendingIds(s)) /\ Cardinality(PendingIds(s)) \in Nat
  <2>1. IsFiniteSet(1..Moved(s))
    BY <1>6, FS_Interval
  <2>2. IsFiniteSet(PendingIds(s))
    BY <1>7, <2>1, FS_Subset
  <2> QED
    BY <2>2, FS_CardinalityType
<1> QED
  BY <1>2, <1>4, <1>5, <1>6, <1>7, <1>8

\* A step that leaves every live operation live and where it is.
LEMMA PendingFrame ==
  ASSUME Base, Base', UNCHANGED tx,
         \A l \in Level : \A i \in 1..Len(tx[l]) : Live(l, i)' <=> Live(l, i)
  PROVE  \A s \in Socket : PendingOps(s)' = PendingOps(s)
<1>1. Base' => (\A s \in Socket : \A op :
                   op \in PendingOps(s) <=> \E l \in Level : \E i \in 1..Len(tx[l]) :
                               Live(l, i) /\ op = tx[l][i] /\ op.sock = s)'
  BY PendingIs, PTL
<1>2. ASSUME NEW s \in Socket, NEW op PROVE op \in PendingOps(s)' <=> op \in PendingOps(s)
  <2>1. op \in PendingOps(s)' <=> \E l \in Level : \E i \in 1..Len(tx[l]) :
                               Live(l, i)' /\ op = tx[l][i] /\ op.sock = s
    BY <1>1
  <2>2. op \in PendingOps(s) <=> \E l \in Level : \E i \in 1..Len(tx[l]) :
                               Live(l, i) /\ op = tx[l][i] /\ op.sock = s
    BY PendingIs
  <2> QED
    BY <2>1, <2>2
<1> QED
  BY <1>2

\* The operation at hand stops being pending when it is performed.
LEMMA PendingPerform ==
  ASSUME Base, Base', PerformStep
  PROVE  /\ Op \in OpType /\ Op.sock \in Socket /\ Op \in PendingOps(Op.sock)
         /\ \A s \in Socket : PendingOps(s)' = PendingOps(s) \ {Op}
<1>1. Base' => (\A s \in Socket : \A op :
                   op \in PendingOps(s) <=> \E l \in Level : \E i \in 1..Len(tx[l]) :
                               Live(l, i) /\ op = tx[l][i] /\ op.sock = s)'
  BY PendingIs, PTL
<1>2. mpc = "handle" /\ mpc' = "count" /\ UNCHANGED <<tx, mop>> /\ Op.kind # "nop" /\ AtHand
  BY DEF PerformStep, Performed, AtHand
<1>3. PICK l \in Level : l = mop.lev
  BY <1>2, HandFacts DEF Base
<1>4. PICK p \in 1..Len(tx[l]) : p = mop.pos /\ Op = tx[l][p] /\ tx[l][p] \in OpType
  BY <1>2, <1>3, HandFacts DEF Base, Op
<1>5. \A m \in Level : \A i \in 1..Len(tx[m]) : Live(m, i)' <=> Live(m, i) /\ ~(m = l /\ i = p)
  BY <1>2, <1>3, <1>4 DEF Live
<1>6. Live(l, p) /\ Op.sock \in Socket
  BY <1>2, <1>4 DEF Live, OpType
<1>7. ASSUME NEW s \in Socket, NEW op
      PROVE  op \in PendingOps(s)' <=> op \in PendingOps(s) /\ op # Op
  <2>1. op \in PendingOps(s)' <=> \E m \in Level : \E i \in 1..Len(tx[m]) :
                               Live(m, i)' /\ op = tx[m][i] /\ op.sock = s
    BY <1>1, <1>2
  <2>2. op \in PendingOps(s) <=> \E m \in Level : \E i \in 1..Len(tx[m]) :
                               Live(m, i) /\ op = tx[m][i] /\ op.sock = s
    BY PendingIs
  <2>3. ASSUME NEW m \in Level, NEW i \in 1..Len(tx[m]), tx[m][i].sock = s, tx[m][i] = Op
        PROVE  m = l /\ i = p
    <3>1. m = LevelOf(s) /\ l = LevelOf(s)
      BY <1>4, <2>3 DEF Base, TxInv
    <3>2. ~(i < p) /\ ~(p < i)
      <4>1. tx[l][p].id \in Nat
        BY <1>4 DEF OpType
      <4>2. i < p => tx[l][i].id < tx[l][p].id
        BY <1>4, <2>3, <3>1 DEF Base, TxInv
      <4>3. p < i => tx[l][p].id < tx[l][i].id
        BY <1>4, <2>3, <3>1 DEF Base, TxInv
      <4> QED
        BY <1>4, <2>3, <3>1, <4>1, <4>2, <4>3
    <3>3. Len(tx[l]) \in Nat
      BY TxFacts DEF Base
    <3> QED
      BY <3>1, <3>2, <3>3
  <2> QED
    BY <1>4, <1>5, <2>1, <2>2, <2>3
<1>8. Op \in PendingOps(Op.sock)
  BY <1>4, <1>6, PendingIs
<1> QED
  BY <1>4, <1>6, <1>7, <1>8

\* What PendingIs says, of the next state.
LEMMA PendingIsNext ==
  ASSUME Base'
  PROVE  \A s \in Socket : \A op :
           op \in PendingOps(s)' <=> \E l \in Level : \E i \in 1..Len(tx'[l]) :
                               Live(l, i)' /\ op = tx'[l][i] /\ op.sock = s
<1>1. Base' => (\A s \in Socket : \A op :
                   op \in PendingOps(s) <=> \E l \in Level : \E i \in 1..Len(tx[l]) :
                               Live(l, i) /\ op = tx[l][i] /\ op.sock = s)'
  BY PendingIs, PTL
<1> QED
  BY <1>1

\* An operation put in a tx queue is pending.
LEMMA PendingPut ==
  ASSUME Base, Base', NEW l \in Level, NEW s \in Socket, NEW e \in OpType,
         e.sock = s, e.kind # "nop",
         tx' = [tx EXCEPT ![l] = Append(tx[l], e)], UNCHANGED <<mpc, mop>>
  PROVE  /\ PendingOps(s)' = PendingOps(s) \union {e}
         /\ \A x \in Socket : x # s => PendingOps(x)' = PendingOps(x)
<1>1. \A x \in Socket : \A op :
        op \in PendingOps(x)' <=> \E m \in Level : \E i \in 1..Len(tx'[m]) :
                               Live(m, i)' /\ op = tx'[m][i] /\ op.sock = x
  BY PendingIsNext
<1>2. tx \in [Level -> Seq(OpType)] /\ tx[l] \in Seq(OpType) /\ Len(tx[l]) \in Nat
  BY TxFacts DEF Base
<1>3. tx'[l] = Append(tx[l], e) /\ \A m \in Level : m # l => tx'[m] = tx[m]
  BY <1>2
<1>4. /\ Len(tx'[l]) = Len(tx[l]) + 1 /\ \A i \in 1..Len(tx[l]) : tx'[l][i] = tx[l][i]
      /\ tx'[l][Len(tx[l]) + 1] = e
  BY <1>2, <1>3, AppendOp
<1>5. PICK n \in Nat : n = Len(tx[l]) + 1
  BY <1>2
<1>6. \A m \in Level : \A i \in 1..Len(tx[m]) : /\ i \in 1..Len(tx'[m]) /\ tx'[m][i] = tx[m][i]
                                               /\ Live(m, i)' <=> Live(m, i)
  <2>1. \A m \in Level : \A i \in 1..Len(tx[m]) : i \in 1..Len(tx'[m]) /\ tx'[m][i] = tx[m][i]
    BY <1>2, <1>3, <1>4
  <2> QED
    BY <2>1 DEF Live
<1>7. Live(l, n)' /\ n \in 1..Len(tx'[l]) /\ tx'[l][n] = e
  <2>1. mpc \in {"count", "erase"} /\ mop.lev = l => mop.pos # n
    <3>1. AtHand => mop.pos \in 1..Len(tx[mop.lev]) /\ Len(tx[mop.lev]) \in Nat
      BY HandFacts DEF Base
    <3> QED
      BY <1>5, <3>1 DEF AtHand
  <2>2. n \in 1..Len(tx'[l]) /\ tx'[l][n] = e
    BY <1>2, <1>4, <1>5
  <2> QED
    BY <2>1, <2>2 DEF Live
<1>8. \A m \in Level : \A i \in 1..Len(tx'[m]) :
        i \in 1..Len(tx[m]) \/ (m = l /\ i = Len(tx[l]) + 1)
  BY <1>2, <1>3, <1>4
<1>9. ASSUME NEW x \in Socket, NEW op
      PROVE  op \in PendingOps(x)' <=> op \in PendingOps(x) \/ (x = s /\ op = e)
  <2>1. op \in PendingOps(x)' <=> \E m \in Level : \E i \in 1..Len(tx'[m]) :
                               Live(m, i)' /\ op = tx'[m][i] /\ op.sock = x
    BY <1>1
  <2>2. op \in PendingOps(x) <=> \E m \in Level : \E i \in 1..Len(tx[m]) :
                               Live(m, i) /\ op = tx[m][i] /\ op.sock = x
    BY PendingIs
  <2>3. ASSUME op \in PendingOps(x)' PROVE op \in PendingOps(x) \/ (x = s /\ op = e)
    <3>1. PICK m \in Level : \E i \in 1..Len(tx'[m]) : Live(m, i)' /\ op = tx'[m][i] /\ op.sock = x
      BY <2>1, <2>3
    <3>2. PICK i \in 1..Len(tx'[m]) : Live(m, i)' /\ op = tx'[m][i] /\ op.sock = x
      BY <3>1
    <3>3. CASE i \in 1..Len(tx[m])
      BY <1>6, <2>2, <3>2, <3>3
    <3>4. CASE m = l /\ i = Len(tx[l]) + 1
      BY <1>4, <3>2, <3>4
    <3> QED
      BY <1>8, <3>3, <3>4
  <2>4. ASSUME op \in PendingOps(x) PROVE op \in PendingOps(x)'
    BY <1>6, <2>1, <2>2, <2>4
  <2>5. ASSUME x = s, op = e PROVE op \in PendingOps(x)'
    BY <1>7, <2>1, <2>5
  <2> QED
    BY <2>3, <2>4, <2>5
<1> QED
  BY <1>9

\* Erasing takes nothing away that was still pending.
LEMMA PendingErase ==
  ASSUME Base, Base', HandleNop \/ MainErase
  PROVE  \A s \in Socket : PendingOps(s)' = PendingOps(s)
<1>1. Base' => (\A s \in Socket : \A op :
                   op \in PendingOps(s) <=> \E l \in Level : \E i \in 1..Len(tx[l]) :
                               Live(l, i) /\ op = tx[l][i] /\ op.sock = s)'
  BY PendingIs, PTL
<1>2. AtHand /\ mpc' = "peek"
  BY DEF HandleNop, MainErase, Erase, AtHand
<1>3. PICK l \in Level : l = mop.lev /\ tx[l] # <<>>
  BY <1>2, HandFacts DEF Base
<1>4. PICK p \in 1..Len(tx[l]) : p = mop.pos
  BY <1>2, <1>3, HandFacts DEF Base
<1>5. HandOK
  BY <1>2, HandFacts DEF Base
<1>6. /\ ~Live(l, p)
      /\ \A m \in Level : \A i \in 1..Len(tx[m]) : ~(m = l /\ i = p) => (Live(m, i) <=> tx[m][i].kind # "nop")
  <2>1. CASE HandleNop
    BY <1>3, <1>4, <2>1 DEF HandleNop, Live, Op
  <2>2. CASE MainErase
    BY <1>3, <1>4, <2>2 DEF MainErase, Erase, Live
  <2> QED
    BY <2>1, <2>2
<1>7. \A m \in Level : \A i \in 1..Len(tx'[m]) : Live(m, i)' <=> tx'[m][i].kind # "nop"
  BY <1>2 DEF Live
<1>8. CASE tx' = [tx EXCEPT ![l] = Tail(tx[l])] /\ p = 1
  <2>1. tx \in [Level -> Seq(OpType)] /\ tx[l] \in Seq(OpType) /\ Len(tx[l]) \in Nat
    BY TxFacts DEF Base
  <2>2. tx'[l] = Tail(tx[l]) /\ \A m \in Level : m # l => tx'[m] = tx[m]
    BY <1>8, <2>1
  <2>3. Len(tx'[l]) = Len(tx[l]) - 1 /\ \A i \in 1..(Len(tx[l]) - 1) : tx'[l][i] = tx[l][i + 1]
    BY <1>3, <2>1, <2>2, TailOp
  <2>4. ASSUME NEW m \in Level, NEW i \in 1..Len(tx'[m]), Live(m, i)'
        PROVE  \E j \in 1..Len(tx[m]) : Live(m, j) /\ tx[m][j] = tx'[m][i]
    <3>1. CASE m = l
      <4>1. i + 1 \in 1..Len(tx[m]) /\ tx'[m][i] = tx[m][i + 1] /\ i + 1 # p
        BY <1>8, <2>1, <2>3, <2>4, <3>1
      <4> QED
        BY <1>6, <1>7, <2>4, <4>1
    <3>2. CASE m # l
      BY <1>6, <1>7, <2>2, <2>4, <3>2
    <3> QED
      BY <3>1, <3>2
  <2>5. ASSUME NEW m \in Level, NEW i \in 1..Len(tx[m]), Live(m, i)
        PROVE  \E j \in 1..Len(tx'[m]) : Live(m, j)' /\ tx'[m][j] = tx[m][i]
    <3>1. CASE m = l
      <4>1. i # 1
        BY <1>6, <1>8, <2>5, <3>1
      <4>2. i - 1 \in 1..Len(tx'[m]) /\ tx'[m][i - 1] = tx[m][i]
        <5>1. i - 1 \in 1..(Len(tx[l]) - 1) /\ (i - 1) + 1 = i
          BY <2>1, <2>5, <3>1, <4>1
        <5> QED
          BY <2>3, <3>1, <5>1
      <4>3. tx[m][i].kind # "nop"
        BY <1>6, <1>8, <2>5, <4>1
      <4> QED
        BY <1>7, <4>2, <4>3
    <3>2. CASE m # l
      BY <1>6, <1>7, <2>2, <2>5, <3>2
    <3> QED
      BY <3>1, <3>2
  <2>6. ASSUME NEW s \in Socket, NEW op PROVE op \in PendingOps(s)' <=> op \in PendingOps(s)
    <3>1. op \in PendingOps(s)' <=> \E m \in Level : \E i \in 1..Len(tx'[m]) :
                               Live(m, i)' /\ op = tx'[m][i] /\ op.sock = s
      BY <1>1
    <3>2. op \in PendingOps(s) <=> \E m \in Level : \E i \in 1..Len(tx[m]) :
                               Live(m, i) /\ op = tx[m][i] /\ op.sock = s
      BY PendingIs
    <3>3. ASSUME op \in PendingOps(s)' PROVE op \in PendingOps(s)
      <4>1. PICK m \in Level : \E i \in 1..Len(tx'[m]) : Live(m, i)' /\ op = tx'[m][i] /\ op.sock = s
        BY <3>1, <3>3
      <4>2. \E j \in 1..Len(tx[m]) : Live(m, j) /\ op = tx[m][j] /\ op.sock = s
        BY <2>4, <4>1
      <4> QED
        BY <3>2, <4>2
    <3>4. ASSUME op \in PendingOps(s) PROVE op \in PendingOps(s)'
      <4>1. PICK m \in Level : \E i \in 1..Len(tx[m]) : Live(m, i) /\ op = tx[m][i] /\ op.sock = s
        BY <3>2, <3>4
      <4>2. \E j \in 1..Len(tx'[m]) : Live(m, j)' /\ op = tx'[m][j] /\ op.sock = s
        BY <2>5, <4>1
      <4> QED
        BY <3>1, <4>2
    <3> QED
      BY <3>3, <3>4
  <2> QED
    BY <2>6
<1>9. CASE tx' = [tx EXCEPT ![l][p].kind = "nop"]
  <2>1. \A m \in Level : \A i \in 1..Len(tx[m]) : ~(m = l /\ i = p) => tx'[m][i] = tx[m][i]
    BY <1>9, MarkFacts DEF Base
  <2>2. \A m \in Level : Len(tx'[m]) = Len(tx[m])
    BY <1>9, MarkFacts DEF Base
  <2>3. tx'[l][p].kind = "nop"
    BY <1>9, MarkFacts DEF Base
  <2>4. \A m \in Level : \A i \in 1..Len(tx[m]) :
           /\ Live(m, i)' <=> Live(m, i)
           /\ Live(m, i) => tx'[m][i] = tx[m][i]
    BY <1>6, <1>7, <2>1, <2>2, <2>3
  <2>5. ASSUME NEW s \in Socket, NEW op PROVE op \in PendingOps(s)' <=> op \in PendingOps(s)
    <3>1. op \in PendingOps(s)' <=> \E m \in Level : \E i \in 1..Len(tx'[m]) :
                               Live(m, i)' /\ op = tx'[m][i] /\ op.sock = s
      BY <1>1
    <3>2. op \in PendingOps(s) <=> \E m \in Level : \E i \in 1..Len(tx[m]) :
                               Live(m, i) /\ op = tx[m][i] /\ op.sock = s
      BY PendingIs
    <3> QED
      BY <2>2, <2>4, <3>1, <3>2
  <2> QED
    BY <2>5
<1>10. HandleNop => ~mop.scan
  BY <1>5 DEF HandleNop, HandOK, Op
<1>11. ~mop.scan => p = 1
  BY <1>4, <1>5 DEF HandOK
<1> QED
  BY <1>3, <1>4, <1>8, <1>9, <1>10, <1>11 DEF HandleNop, MainErase, Erase

\* Main loop steps that perform nothing change no pending operation.
LEMMA MainPending ==
  ASSUME Base, Base', Main \/ \E s \in Socket : Net(s), ~PerformStep
  PROVE  (\A s \in Socket : PendingOps(s)' = PendingOps(s)) /\ UNCHANGED handled
<1>1. CASE HandleNop \/ MainErase
  BY <1>1, PendingErase DEF HandleNop, MainErase, Erase, histVars
<1>2. CASE UNCHANGED <<tx, handled>> /\ mpc \notin {"count", "erase"} /\ mpc' \notin {"count", "erase"}
  <2>1. \A l \in Level : \A i \in 1..Len(tx[l]) : Live(l, i)' <=> Live(l, i)
    BY <1>2 DEF Live
  <2> QED
    BY <1>2, <2>1, PendingFrame
<1>3. CASE MainCount
  <2>1. UNCHANGED <<tx, handled, mop>> /\ mpc \in {"count", "erase"} /\ mpc' \in {"count", "erase"}
    BY <1>3 DEF MainCount, Count, histVars
  <2>2. \A l \in Level : \A i \in 1..Len(tx[l]) : Live(l, i)' <=> Live(l, i)
    BY <2>1 DEF Live
  <2> QED
    BY <2>1, <2>2, PendingFrame
<1>4. ASSUME NEW s \in Socket, Net(s)
      PROVE  UNCHANGED <<tx, handled>> /\ mpc \notin {"count", "erase"} /\ mpc' \notin {"count", "erase"}
  BY <1>4 DEF Net, SelectAck, SelectData, StartIteration
<1>5. CASE SelectIdle \/ HandleTryAgain
  BY <1>2, <1>5 DEF SelectIdle, StartIteration, HandleTryAgain, Refused, EndIteration
<1>6. CASE MainPeek
  BY <1>2, <1>6 DEF MainPeek, Peek, EndIteration
<1>7. CASE MainScan
  BY <1>2, <1>7 DEF MainScan, EndIteration
<1> QED
  BY <1>1, <1>2, <1>3, <1>4, <1>5, <1>6, <1>7, Performs DEF Main

\* Nor do the steps of applications and threads, a put excepted.
LEMMA ThreadPending ==
  ASSUME Base, Base', QuietStep \/ \E l \in Level : PrioSignal(l) \/ PrioCommit(l)
  PROVE  (\A s \in Socket : PendingOps(s)' = PendingOps(s)) /\ UNCHANGED handled
<1>1. UNCHANGED <<tx, handled, mop, mpc>>
  BY DEF QuietStep, PrioSignal, PrioCommit, Commit, histVars, mainVars
<1>2. \A l \in Level : \A i \in 1..Len(tx[l]) : Live(l, i)' <=> Live(l, i)
  BY <1>1 DEF Live
<1> QED
  BY <1>1, <1>2, PendingFrame

\* The numbers of the pending operations.
LEMMA PendingIdsAre ==
  \A s \in Socket : PendingIds(s) = {op.id : op \in PendingOps(s)}
BY DEF PendingIds, PendingOps
-----------------------------------------------------------------------------
(***************************************************************************)
(* Operations are performed once and in order.                             *)
(***************************************************************************)

\* A step that performs nothing and moves nothing.
LEMMA DoneFrame ==
  ASSUME DoneInv, UNCHANGED handled,
         \A s \in Socket : Moved(s)' = Moved(s) /\ PendingOps(s)' = PendingOps(s)
  PROVE  DoneInv'
<1>1. \A s \in Socket : PendingIds(s)' = PendingIds(s)
  <2>1. \A s \in Socket : PendingIds(s)' = {op.id : op \in PendingOps(s)'}
    BY DEF PendingIds, PendingOps
  <2> QED
    BY <2>1, PendingIdsAre
<1>2. ASSUME NEW s \in Socket PROVE OnceOK(s)'
  BY <1>1 DEF DoneInv, OnceOK
<1>3. ASSUME NEW s \in Socket PROVE OrderOK(s)'
  BY DEF DoneInv, OrderOK
<1> QED
  BY <1>2, <1>3 DEF DoneInv

\* The numbers of what a socket has had performed.
LEMMA DoneFacts ==
  ASSUME DoneInv, NEW s \in Socket
  PROVE  /\ handled[s] \in Seq(DoneType) /\ Len(handled[s]) \in Nat
         /\ DOMAIN handled[s] = 1..Len(handled[s])
         /\ \A j \in 1..Len(handled[s]) : handled[s][j] \in DoneType
         /\ Ids(handled[s]) \subseteq 1..Moved(s)
         /\ \A j \in 1..Len(handled[s]) : handled[s][j].id \in 1..Moved(s)
<1>1. handled[s] \in Seq(DoneType)
  BY DEF DoneInv
<1>2. Len(handled[s]) \in Nat /\ DOMAIN handled[s] = 1..Len(handled[s])
  BY <1>1, LenProperties
<1>3. \A j \in 1..Len(handled[s]) : handled[s][j] \in DoneType
  BY <1>1, ElementOfSeq
<1>4. Ids(handled[s]) \subseteq 1..Moved(s)
  BY DEF DoneInv, OnceOK
<1>5. \A j \in 1..Len(handled[s]) : handled[s][j].id \in Ids(handled[s])
  BY <1>2 DEF Ids
<1> QED
  BY <1>1, <1>2, <1>3, <1>4, <1>5

\* A put: the next number becomes pending.
LEMMA DonePut ==
  ASSUME Base, Base', DoneInv, NEW l \in Level, PutMoves(l)
  PROVE  DoneInv'
<1>0. /\ tx' = [tx EXCEPT ![l] = Append(tx[l], Head(squeue[Current(l)]))]
      /\ UNCHANGED <<mpc, mop, handled>>
  BY DEF PutMoves, PrioPut, histVars, mainVars
<1>1. PICK s \in Socket : \E e \in OpType :
           /\ s = Current(l) /\ LevelOf(s) = l /\ e = Head(squeue[s])
           /\ e.sock = s /\ e.kind # "nop" /\ e.id = Moved(s) + 1
           /\ Moved(s)' = Moved(s) + 1 /\ Transit(s) = 0 /\ Transit(s)' = 1
           /\ \A x \in Socket : x # s => Moved(x)' = Moved(x) /\ Transit(x)' = Transit(x)
  BY PutMoved DEF Base
<1>2. PICK e \in OpType :
           /\ s = Current(l) /\ e = Head(squeue[s])
           /\ e.sock = s /\ e.kind # "nop" /\ e.id = Moved(s) + 1
           /\ Moved(s)' = Moved(s) + 1
           /\ \A x \in Socket : x # s => Moved(x)' = Moved(x)
  BY <1>1
<1>3. tx' = [tx EXCEPT ![l] = Append(tx[l], e)]
  BY <1>0, <1>2
<1>4. /\ PendingOps(s)' = PendingOps(s) \union {e}
      /\ \A x \in Socket : x # s => PendingOps(x)' = PendingOps(x)
  <2>1. UNCHANGED <<mpc, mop>> /\ e.sock = s /\ e.kind # "nop"
    BY <1>0, <1>2
  <2> QED
    BY <1>3, <2>1, PendingPut
<1>5. /\ PendingIds(s)' = PendingIds(s) \union {Moved(s) + 1}
      /\ \A x \in Socket : x # s => PendingIds(x)' = PendingIds(x)
  <2>1. /\ PendingIds(s)' = {op.id : op \in PendingOps(s)'}
        /\ \A x \in Socket : PendingIds(x)' = {op.id : op \in PendingOps(x)'}
    BY DEF PendingIds, PendingOps
  <2>2. \A x \in Socket : PendingIds(x) = {op.id : op \in PendingOps(x)}
    BY PendingIdsAre
  <2>3. PendingIds(s)' = PendingIds(s) \union {e.id}
    BY <1>4, <2>1, <2>2
  <2> QED
    BY <1>2, <1>4, <2>1, <2>2, <2>3
<1>6. /\ PendingIds(s) \subseteq 1..Moved(s) /\ Moved(s) \in Nat
      /\ IsFiniteSet(PendingIds(s)) /\ Cardinality(PendingIds(s)) \in Nat
  BY PendingFacts
<1>7. Moved(s) + 1 \notin PendingIds(s)
  BY <1>6
<1>8. Cardinality(PendingIds(s)') = Cardinality(PendingIds(s)) + 1
  BY <1>5, <1>6, <1>7, FS_AddElement
<1>9. OnceOK(s)'
  <2>1. /\ Ids(handled[s]) \union PendingIds(s) = 1..Moved(s)
        /\ Len(handled[s]) + Cardinality(PendingIds(s)) = Moved(s)
    BY DEF DoneInv, OnceOK
  <2>2. Len(handled[s]) \in Nat
    BY DoneFacts
  <2>3. 1..(Moved(s) + 1) = 1..Moved(s) \union {Moved(s) + 1}
    BY <1>6
  <2>4. Ids(handled[s]) \union PendingIds(s)' = 1..(Moved(s) + 1)
    BY <1>5, <2>1, <2>3
  <2>5. Len(handled[s]) + Cardinality(PendingIds(s)') = Moved(s) + 1
    BY <1>6, <1>8, <2>1, <2>2
  <2> QED
    BY <1>0, <1>2, <2>4, <2>5 DEF OnceOK
<1>10. OrderOK(s)'
  <2>1. \A j \in 1..Len(handled[s]) : handled[s][j].id < e.id
    BY <1>2, <1>6, DoneFacts
  <2>2. DOMAIN handled[s] = 1..Len(handled[s])
    BY DoneFacts
  <2>3. OrderOK(s)
    BY DEF DoneInv
  <2> QED
    BY <1>0, <1>4, <2>1, <2>2, <2>3 DEF OrderOK
<1>11. ASSUME NEW x \in Socket, x # s PROVE OnceOK(x)' /\ OrderOK(x)'
  <2>1. OnceOK(x) /\ OrderOK(x) /\ Moved(x)' = Moved(x) /\ PendingIds(x)' = PendingIds(x)
        /\ PendingOps(x)' = PendingOps(x)
    BY <1>2, <1>4, <1>5, <1>11 DEF DoneInv
  <2>2. OnceOK(x)'
    BY <1>0, <2>1 DEF OnceOK
  <2>3. OrderOK(x)'
    BY <1>0, <2>1 DEF OrderOK
  <2> QED
    BY <2>2, <2>3
<1>12. handled' \in [Socket -> Seq(DoneType)]
  BY <1>0 DEF DoneInv
<1> QED
  BY <1>9, <1>10, <1>11, <1>12 DEF DoneInv

\* Of the pending operations of its socket the one at hand is the oldest, or a
\* recv behind other operations.
LEMMA HandOldest ==
  ASSUME Base, mpc = "handle", Op.kind # "nop", NEW op \in PendingOps(Op.sock), op # Op
  PROVE  Op.id < op.id \/ (Op.kind = "recv" /\ op.kind # "recv")
<1>1. PICK l \in Level : l = mop.lev
  BY HandFacts DEF Base, AtHand
<1>2. PICK p \in 1..Len(tx[l]) : p = mop.pos /\ Op = tx[l][p] /\ Op \in OpType
  BY <1>1, HandFacts DEF Base, AtHand, Op
<1>3. Op.sock \in Socket
  BY <1>2 DEF OpType
<1>4. PICK m \in Level : \E i \in 1..Len(tx[m]) : Live(m, i) /\ op = tx[m][i] /\ op.sock = Op.sock
  BY <1>3, PendingIs
<1>5. PICK i \in 1..Len(tx[m]) : op = tx[m][i] /\ op.sock = Op.sock
  BY <1>4
<1>6. m = l
  BY <1>2, <1>3, <1>5 DEF Base, TxInv
<1>7. i # p /\ Len(tx[l]) \in Nat
  BY <1>2, <1>5, <1>6, TxFacts DEF Base
<1>8. CASE p < i
  BY <1>2, <1>5, <1>6, <1>8 DEF Base, TxInv
<1>9. CASE i < p
  <2>1. HandOK
    BY HandFacts DEF Base, AtHand
  <2>2. mop.scan
    BY <1>2, <1>5, <1>6, <1>7, <1>9, <2>1 DEF HandOK
  <2>3. i \in 1..(p - 1)
    BY <1>5, <1>6, <1>7, <1>9
  <2> QED
    BY <1>1, <1>2, <1>5, <1>6, <2>1, <2>2, <2>3 DEF HandOK
<1> QED
  BY <1>5, <1>6, <1>7, <1>8, <1>9

\* The numbers of a sequence that is appended to.
LEMMA IdsAppend ==
  ASSUME NEW q \in Seq(DoneType), NEW d \in DoneType
  PROVE  Ids(Append(q, d)) = Ids(q) \union {d.id}
<1>1. /\ Append(q, d) \in Seq(DoneType) /\ Len(Append(q, d)) = Len(q) + 1 /\ Len(q) \in Nat
      /\ \A i \in 1..Len(q) : Append(q, d)[i] = q[i]
      /\ Append(q, d)[Len(q) + 1] = d
  BY AppendOp
<1>2. DOMAIN Append(q, d) = 1..(Len(q) + 1) /\ DOMAIN q = 1..Len(q)
  BY <1>1, LenProperties
<1>3. 1..(Len(q) + 1) = 1..Len(q) \union {Len(q) + 1}
  BY <1>1
<1> QED
  BY <1>1, <1>2, <1>3 DEF Ids

\* The operation at hand is performed.
LEMMA DonePerform ==
  ASSUME Base, Base', DoneInv, PerformStep
  PROVE  DoneInv'
<1>1. PICK e \in OpType : /\ e = Op /\ e.sock \in Socket /\ e \in PendingOps(e.sock)
                          /\ \A x \in Socket : PendingOps(x)' = PendingOps(x) \ {e}
  BY PendingPerform
<1>2. PICK s \in Socket : s = e.sock
  BY <1>1
<1>3. PICK d \in DoneType : d = [id |-> e.id, kind |-> e.kind]
  BY <1>1 DEF PerformStep, DoneType, OpType
<1>4. d.id = e.id /\ d.kind = e.kind
  BY <1>3
<1>5. /\ handled' = [handled EXCEPT ![s] = Append(handled[s], d)] /\ mpc = "handle"
      /\ UNCHANGED <<squeue, squeueFutex, appVars, prioVars>> /\ e.kind # "nop"
  BY <1>1, <1>2, <1>3 DEF PerformStep, Performed
<1>6. handled \in [Socket -> Seq(DoneType)] /\ handled[s] \in Seq(DoneType)
  BY DEF DoneInv
<1>7. /\ Append(handled[s], d) \in Seq(DoneType) /\ Len(Append(handled[s], d)) = Len(handled[s]) + 1
      /\ Len(handled[s]) \in Nat
      /\ \A i \in 1..Len(handled[s]) : Append(handled[s], d)[i] = handled[s][i]
      /\ Append(handled[s], d)[Len(handled[s]) + 1] = d
  BY <1>6, AppendOp
<1>8. handled'[s] = Append(handled[s], d) /\ \A x \in Socket : x # s => handled'[x] = handled[x]
  BY <1>5, <1>6
<1>9. handled' \in [Socket -> Seq(DoneType)]
  BY <1>5, <1>6, <1>7
<1>10. \A x \in Socket : Moved(x)' = Moved(x)
  BY <1>5, MainMoved
<1>11. \A x \in Socket : x # s => PendingOps(x)' = PendingOps(x)
  <2>1. \A x \in Socket : \A op \in PendingOps(x) : op.sock = x
    BY PendingFacts
  <2> QED
    BY <1>1, <1>2, <2>1
<1>12. /\ PendingIds(s)' = PendingIds(s) \ {e.id} /\ e.id \in PendingIds(s)
       /\ \A x \in Socket : x # s => PendingIds(x)' = PendingIds(x)
  <2>1. /\ PendingIds(s)' = {op.id : op \in PendingOps(s)'}
        /\ \A x \in Socket : PendingIds(x)' = {op.id : op \in PendingOps(x)'}
    BY DEF PendingIds, PendingOps
  <2>2. \A x \in Socket : PendingIds(x) = {op.id : op \in PendingOps(x)}
    BY PendingIdsAre
  <2>3. \A op \in PendingOps(s) : op.id = e.id => op = e
    BY <1>1, <1>2, PendingFacts
  <2>4. PendingOps(s)' = PendingOps(s) \ {e} /\ e \in PendingOps(s)
    BY <1>1, <1>2
  <2>5. PendingIds(s)' = PendingIds(s) \ {e.id}
    BY <2>1, <2>2, <2>3, <2>4
  <2>6. e.id \in PendingIds(s)
    BY <2>2, <2>4
  <2> QED
    BY <1>11, <2>1, <2>2, <2>5, <2>6
<1>13. OnceOK(s)'
  <2>1. /\ Ids(handled[s]) \union PendingIds(s) = 1..Moved(s)
        /\ Len(handled[s]) + Cardinality(PendingIds(s)) = Moved(s)
    BY DEF DoneInv, OnceOK
  <2>2. /\ IsFiniteSet(PendingIds(s)) /\ Cardinality(PendingIds(s)) \in Nat
    BY PendingFacts
  <2>3. Cardinality(PendingIds(s)') = Cardinality(PendingIds(s)) - 1
    BY <1>12, <2>2, FS_RemoveElement
  <2>4. Ids(handled'[s]) = Ids(handled[s]) \union {e.id}
    BY <1>4, <1>6, <1>8, IdsAppend
  <2>5. Ids(handled'[s]) \union PendingIds(s)' = 1..Moved(s)
    BY <1>12, <2>1, <2>4
  <2>6. Len(handled'[s]) = Len(handled[s]) + 1
    BY <1>7, <1>8
  <2>7. Len(handled'[s]) + Cardinality(PendingIds(s)') = Moved(s)
    BY <1>7, <2>1, <2>2, <2>3, <2>6
  <2>8. Moved(s)' = Moved(s) /\ Ids(handled[s])' = Ids(handled'[s])
    BY <1>10 DEF Ids
  <2> QED
    BY <2>5, <2>7, <2>8 DEF OnceOK
<1>14. OrderOK(s)'
  <2>1. DOMAIN handled'[s] = 1..(Len(handled[s]) + 1) /\ DOMAIN handled[s] = 1..Len(handled[s])
    BY <1>6, <1>7, <1>8, LenProperties
  <2>2. OrderOK(s)
    BY DEF DoneInv
  <2>3. \A j \in 1..(Len(handled[s]) + 1) : j \in 1..Len(handled[s]) \/ j = Len(handled[s]) + 1
    BY <1>7
  <2>4. \A i \in 1..Len(handled[s]) : handled'[s][i] = handled[s][i]
    BY <1>7, <1>8
  <2>5. handled'[s][Len(handled[s]) + 1] = d
    BY <1>7, <1>8
  <2>6. ASSUME NEW j \in 1..(Len(handled[s]) + 1), NEW i \in 1..(j - 1)
        PROVE  handled'[s][i].id < handled'[s][j].id
                 \/ (handled'[s][i].kind = "recv" /\ handled'[s][j].kind # "recv")
    <3>1. i \in 1..Len(handled[s]) /\ handled'[s][i] = handled[s][i]
      BY <1>7, <2>4, <2>6
    <3>2. CASE j \in 1..Len(handled[s])
      BY <2>1, <2>2, <2>4, <2>6, <3>1, <3>2 DEF OrderOK
    <3>3. CASE j = Len(handled[s]) + 1
      <4>1. e \in PendingOps(s)
        BY <1>1, <1>2
      <4>2. handled[s][i].id < e.id \/ (handled[s][i].kind = "recv" /\ e.kind # "recv")
        BY <2>1, <2>2, <3>1, <4>1 DEF OrderOK
      <4> QED
        BY <1>4, <2>5, <3>1, <3>3, <4>2
    <3> QED
      BY <2>3, <3>2, <3>3
  <2>7. ASSUME NEW j \in 1..(Len(handled[s]) + 1), NEW op \in PendingOps(s) \ {e}
        PROVE  handled'[s][j].id < op.id
                 \/ (handled'[s][j].kind = "recv" /\ op.kind # "recv")
    <3>1. CASE j \in 1..Len(handled[s])
      BY <2>1, <2>2, <2>4, <2>7, <3>1 DEF OrderOK
    <3>2. CASE j = Len(handled[s]) + 1
      <4>1. e.id < op.id \/ (e.kind = "recv" /\ op.kind # "recv")
        BY <1>1, <1>2, <1>5, <2>7, HandOldest
      <4> QED
        BY <1>4, <2>5, <3>2, <4>1
    <3> QED
      BY <2>3, <3>1, <3>2
  <2>8. PendingOps(s)' = PendingOps(s) \ {e}
    BY <1>1, <1>2
  <2> QED
    BY <2>1, <2>6, <2>7, <2>8 DEF OrderOK
<1>15. ASSUME NEW x \in Socket, x # s PROVE OnceOK(x)' /\ OrderOK(x)'
  <2>1. OnceOK(x) /\ OrderOK(x) /\ Moved(x)' = Moved(x) /\ PendingIds(x)' = PendingIds(x)
        /\ PendingOps(x)' = PendingOps(x) /\ handled'[x] = handled[x]
    BY <1>8, <1>10, <1>11, <1>12, <1>15 DEF DoneInv
  <2>2. OnceOK(x)'
    BY <2>1 DEF OnceOK, Ids
  <2>3. OrderOK(x)'
    BY <2>1 DEF OrderOK
  <2> QED
    BY <2>2, <2>3
<1> QED
  BY <1>9, <1>13, <1>14, <1>15 DEF DoneInv

\* Every step keeps that.
LEMMA DoneStep ==
  ASSUME Base, Base', DoneInv, [Next]_vars
  PROVE  DoneInv'
<1>1. CASE QuietStep
  BY <1>1, ThreadPending, QuietMoved, DoneFrame DEF Base
<1>2. ASSUME NEW l \in Level, PrioSignal(l) \/ PrioCommit(l) PROVE DoneInv'
  <2>1. \A s \in Socket : Moved(s)' = Moved(s)
    BY <1>2, SignalMoved, CommitMoved DEF Base
  <2> QED
    BY <1>2, <2>1, ThreadPending, DoneFrame
<1>3. CASE Main \/ \E s \in Socket : Net(s)
  <2>1. \A s \in Socket : Moved(s)' = Moved(s)
    BY <1>3, MainFrame, MainMoved
  <2>2. CASE PerformStep
    BY <2>2, DonePerform
  <2>3. CASE ~PerformStep
    BY <1>3, <2>1, <2>3, MainPending, DoneFrame
  <2> QED
    BY <2>2, <2>3
<1> QED
  BY <1>1, <1>2, <1>3, DonePut, StepCases DEF Base
-----------------------------------------------------------------------------
(***************************************************************************)
(* The rate limit.                                                         *)
(***************************************************************************)

\* The load of a socket is a number.
LEMMA LoadFacts ==
  Base => \A s \in Socket : /\ Load(s) \in Nat /\ Uncounted(s) \in 0..1
                            /\ Cardinality(PendingIds(s)) \in Nat
<1>1. SUFFICES ASSUME Base, NEW s \in Socket
               PROVE  Cardinality(PendingIds(s)) \in Nat
  BY DEF Load, Uncounted
<1> QED
  BY <1>1, PendingFacts

\* A thread is about to put only after it has seen room for the socket.
LEMMA EntersPut ==
  ASSUME ThreadInv, [Next]_vars, NEW l \in Level, ppc'[l] = "put"
  PROVE  /\ pidx'[l] = pidx[l] /\ socketList' = socketList
         /\ \/ ppc[l] = "put"
            \/ ppc[l] = "limit" /\ ~HasMaxParallelOps(Current(l))
<1>1. ppc \in [Level -> {"fill", "diff", "limit", "put", "commit", "signal", "wait", "asleep"}]
      /\ pidx \in [Level -> Nat \ {0}]
  BY DEF ThreadInv, PrioShape
<1>2. CASE UNCHANGED vars
  BY <1>2 DEF vars, prioVars
<1>3. CASE Main \/ \E s \in Socket : Net(s)
  BY <1>3, MainFrame DEF prioVars
<1>4. ASSUME NEW s \in Socket, App(s)
      PROVE  ppc[l] = "put" /\ pidx'[l] = pidx[l] /\ socketList' = socketList
  <2>1. CASE \E k \in Kinds[s] : AppPut(s, k)
    BY <2>1 DEF AppPut, Submit, prioVars
  <2>2. CASE AppBump(s)
    BY <2>2 DEF AppBump, prioVars
  <2>3. CASE AppWake(s)
    <3>1. \A m \in Level : \/ ppc'[m] = ppc[m] /\ pidx'[m] = pidx[m]
                           \/ ppc[m] = "asleep" /\ ppc'[m] = "diff"
      BY <1>1, <2>3 DEF AppWake
    <3> QED
      BY <2>3, <3>1 DEF AppWake
  <2> QED
    BY <1>4, <2>1, <2>2, <2>3 DEF App
<1>5. ASSUME NEW m \in Level, Prio(m)
      PROVE  /\ pidx'[l] = pidx[l] /\ socketList' = socketList
             /\ \/ ppc[l] = "put"
                \/ ppc[l] = "limit" /\ ~HasMaxParallelOps(Current(l))
  <2>1. socketList' = socketList
    BY <1>5 DEF Prio, PrioFill, PrioDiff, PrioLimit, MoveUnless, PrioPut, PrioCommit, Commit,
                PrioSignal, PrioWait, SleepUnless
  <2>2. CASE PrioFill(m)
    BY <1>1, <2>1, <2>2 DEF PrioFill
  <2>3. CASE PrioDiff(m) \/ PrioCommit(m) \/ PrioSignal(m)
    BY <1>1, <2>1, <2>3 DEF PrioDiff, PrioCommit, Commit, PrioSignal
  <2>4. CASE PrioLimit(m)
    BY <1>1, <2>1, <2>4 DEF PrioLimit, MoveUnless, Return
  <2>5. CASE PrioPut(m)
    BY <1>1, <2>1, <2>5 DEF PrioPut, Return
  <2>6. CASE PrioWait(m)
    BY <1>1, <2>1, <2>6 DEF PrioWait, SleepUnless
  <2> QED
    BY <1>5, <2>2, <2>3, <2>4, <2>5, <2>6 DEF Prio
<1> QED
  BY <1>2, <1>3, <1>4, <1>5 DEF Next

\* A thread that is about to put has room for the socket.
LEMMA PutRoom ==
  ASSUME Base, CounterShape, RateInv, [Next]_vars, NEW l \in Level, NEW s \in Socket,
         ppc'[l] = "put", Current(l)' = s
  PROVE  Current(l) = s /\ ppc[l] \in Busy /\ Load(s) < MaxParallel
<1>1. /\ pidx'[l] = pidx[l] /\ socketList' = socketList
      /\ \/ ppc[l] = "put"
         \/ ppc[l] = "limit" /\ ~HasMaxParallelOps(Current(l))
  BY EntersPut DEF Base
<1>2. Current(l) = s /\ ppc[l] \in Busy
  BY <1>1 DEF Current, Busy
<1>3. CASE ppc[l] = "put"
  BY <1>2, <1>3 DEF RateInv
<1>4. CASE ppc[l] = "limit" /\ ~HasMaxParallelOps(s)
  <2>1. ~InTransit(s)
    <3>1. ASSUME NEW m \in Level, ppc[m] = "commit", Current(m) = s PROVE FALSE
      <4>1. m # l
        BY <1>4, <3>1
      <4> QED
        BY <1>2, <3>1, <4>1, DistinctCurrent DEF Base, Busy
    <3> QED
      BY <3>1, TransitIs DEF Base
  <2>2. enqueued[s] \in 0..(CounterMod - 1) /\ dequeued[s] \in 0..(CounterMod - 1)
    BY DEF CounterShape
  <2>3. \A x, y \in 0..(CounterMod - 1) :
          (x - y) % CounterMod = Apart(x, y) /\ Apart(x, y) \in 0..(CounterMod - 1)
    BY ApartFacts
  <2>4. Apart(enqueued[s], dequeued[s]) < MaxParallel
    <3>1. /\ (enqueued[s] - dequeued[s]) % CounterMod = Apart(enqueued[s], dequeued[s])
          /\ Apart(enqueued[s], dequeued[s]) \in 0..(CounterMod - 1)
      BY <2>2, <2>3
    <3>2. ~(Apart(enqueued[s], dequeued[s]) >= MaxParallel)
      BY <1>4, <3>1 DEF HasMaxParallelOps
    <3> QED
      BY <3>1, <3>2, ConstantFacts
  <2>5. Load(s) \in Nat /\ RateOK(s) /\ Transit(s) = 0
    BY <2>1, LoadFacts DEF RateInv, Transit
  <2>6. Apart(enqueued[s], dequeued[s]) = Load(s)
    BY <2>5 DEF RateOK
  <2> QED
    BY <1>2, <2>4, <2>6
<1> QED
  BY <1>1, <1>2, <1>3, <1>4

\* A step that changes neither the load nor what is in transit nor a counter.
LEMMA RateFrame ==
  ASSUME NEW s \in Socket, RateOK(s), Load(s)' = Load(s), Transit(s)' = Transit(s),
         enqueued'[s] = enqueued[s], dequeued'[s] = dequeued[s]
  PROVE  RateOK(s)'
BY DEF RateOK, Apart

\* The load depends on the pending operations and on the one being counted.
LEMMA LoadFrame ==
  ASSUME NEW s \in Socket, PendingOps(s)' = PendingOps(s), Uncounted(s)' = Uncounted(s)
  PROVE  Load(s)' = Load(s)
<1>1. PendingIds(s)' = {op.id : op \in PendingOps(s)'}
  BY DEF PendingIds, PendingOps
<1>2. PendingIds(s) = {op.id : op \in PendingOps(s)}
  BY PendingIdsAre
<1> QED
  BY <1>1, <1>2 DEF Load

\* PrioCommit counts the operation as enqueued.
LEMMA RateCommit ==
  ASSUME Base, Base', CounterShape, RateInv, NEW l \in Level, PrioCommit(l)
  PROVE  \A x \in Socket : RateOK(x)' /\ Load(x)' = Load(x)
<1>1. PICK s \in Socket : s = Current(l)
  BY CommitMoved DEF Base
<1>2. /\ Transit(s) = 1 /\ Transit(s)' = 0
      /\ \A x \in Socket : x # s => Transit(x)' = Transit(x)
  BY <1>1, CommitMoved DEF Base
<1>3. /\ enqueued' = [enqueued EXCEPT ![s] = (enqueued[s] + 1) % CounterMod]
      /\ UNCHANGED <<tx, mpc, mop, dequeued>>
  BY <1>1 DEF PrioCommit, Commit, mainVars
<1>4. \A x \in Socket : Load(x)' = Load(x)
  <2>1. \A x \in Socket : Uncounted(x)' = Uncounted(x)
    BY <1>3 DEF Uncounted, Op
  <2> QED
    BY <2>1, ThreadPending, LoadFrame
<1>5. enqueued \in [Socket -> 0..(CounterMod - 1)] /\ dequeued \in [Socket -> 0..(CounterMod - 1)]
  BY DEF CounterShape
<1>6. /\ enqueued'[s] = (enqueued[s] + 1) % CounterMod
      /\ \A x \in Socket : x # s => enqueued'[x] = enqueued[x]
  BY <1>3, <1>5
<1>7. RateOK(s)'
  <2>1. \A x, y \in 0..(CounterMod - 1) : Apart((x + 1) % CounterMod, y) =
              IF Apart(x, y) = CounterMod - 1 THEN 0 ELSE Apart(x, y) + 1
    BY ApartFacts
  <2>2. Apart(enqueued'[s], dequeued'[s]) = IF Apart(enqueued[s], dequeued[s]) = CounterMod - 1 THEN 0
                                         ELSE Apart(enqueued[s], dequeued[s]) + 1
    BY <1>3, <1>5, <1>6, <2>1
  <2>3. RateOK(s) /\ Load(s) \in Nat
    BY LoadFacts DEF RateInv
  <2>4. /\ Load(s) <= MaxParallel
        /\ Apart(enqueued[s], dequeued[s]) = IF Load(s) < 1 THEN CounterMod - 1 ELSE Load(s) - 1
    BY <1>2, <2>3 DEF RateOK
  <2>5. Apart(enqueued'[s], dequeued'[s]) = Load(s)
    BY <2>2, <2>3, <2>4, ConstantFacts
  <2> QED
    BY <1>2, <1>4, <2>3, <2>4, <2>5 DEF RateOK
<1>8. ASSUME NEW x \in Socket, x # s PROVE RateOK(x)'
  BY <1>2, <1>3, <1>4, <1>6, <1>8, RateFrame DEF RateInv
<1> QED
  BY <1>4, <1>7, <1>8

\* MainCount counts it as dequeued, perhaps before that.
LEMMA RateCount ==
  ASSUME Base, Base', CounterShape, RateInv, MainCount
  PROVE  /\ \A x \in Socket : RateOK(x)'
         /\ \A x \in Socket : Load(x)' <= Load(x)
<1>0. /\ mpc = "count" /\ mpc' = "erase" /\ UNCHANGED <<tx, mop, enqueued>> /\ AtHand
      /\ dequeued' = [dequeued EXCEPT ![Op.sock] = (dequeued[Op.sock] + 1) % CounterMod]
      /\ UNCHANGED <<squeue, squeueFutex, appVars, prioVars>>
  BY DEF MainCount, Count, prioVars, AtHand
<1>1. Op \in OpType
  BY <1>0, HandFacts DEF Base
<1>2. PICK s \in Socket : s = Op.sock
  BY <1>1 DEF OpType
<1>3. ~PerformStep /\ Main
  BY <1>0 DEF PerformStep, Main
<1>4. \A x \in Socket : PendingOps(x)' = PendingOps(x)
  BY <1>3, MainPending
<1>5. \A x \in Socket : Transit(x)' = Transit(x)
  BY <1>0, MainMoved
<1>6. /\ Uncounted(s) = 1 /\ Uncounted(s)' = 0
      /\ \A x \in Socket : x # s => Uncounted(x) = 0 /\ Uncounted(x)' = 0
  BY <1>0, <1>2 DEF Uncounted
<1>7. \A x \in Socket : Cardinality(PendingIds(x)') = Cardinality(PendingIds(x))
  <2>1. \A x \in Socket : PendingIds(x)' = {op.id : op \in PendingOps(x)'}
    BY DEF PendingIds, PendingOps
  <2> QED
    BY <1>4, <2>1, PendingIdsAre
<1>8. \A x \in Socket : Load(x) \in Nat /\ Cardinality(PendingIds(x)) \in Nat
  BY LoadFacts
<1>9. Load(s) >= 1 /\ Load(s)' = Load(s) - 1 /\ \A x \in Socket : x # s => Load(x)' = Load(x)
  <2>1. Load(s) = Cardinality(PendingIds(s)) + 1 /\ Load(s)' = Cardinality(PendingIds(s)) + 0
    BY <1>6, <1>7 DEF Load
  <2>2. \A x \in Socket : x # s => Load(x)' = Load(x)
    BY <1>6, <1>7 DEF Load
  <2> QED
    BY <1>8, <2>1, <2>2
<1>10. enqueued \in [Socket -> 0..(CounterMod - 1)] /\ dequeued \in [Socket -> 0..(CounterMod - 1)]
  BY DEF CounterShape
<1>11. /\ dequeued'[s] = (dequeued[s] + 1) % CounterMod
       /\ \A x \in Socket : x # s => dequeued'[x] = dequeued[x]
  BY <1>0, <1>2, <1>10
<1>12. RateOK(s)'
  <2>1. \A x, y \in 0..(CounterMod - 1) : Apart(x, (y + 1) % CounterMod) =
              IF Apart(x, y) = 0 THEN CounterMod - 1 ELSE Apart(x, y) - 1
    BY ApartFacts
  <2>2. Apart(enqueued'[s], dequeued'[s]) = IF Apart(enqueued[s], dequeued[s]) = 0 THEN CounterMod - 1
                                         ELSE Apart(enqueued[s], dequeued[s]) - 1
    BY <1>0, <1>10, <1>11, <2>1
  <2>3. RateOK(s) /\ Load(s) \in Nat /\ Transit(s) \in 0..1
    BY LoadFacts, TransitIs DEF RateInv, Base
  <2>4. /\ Load(s) <= MaxParallel
        /\ Apart(enqueued[s], dequeued[s]) = Load(s) - Transit(s)
    BY <1>9, <2>3 DEF RateOK
  <2>5. Apart(enqueued'[s], dequeued'[s]) =
          IF Load(s) - 1 < Transit(s) THEN CounterMod - 1 ELSE (Load(s) - 1) - Transit(s)
    BY <1>9, <2>2, <2>3, <2>4, ConstantFacts
  <2>6. Load(s) - 1 <= MaxParallel
    BY <2>3, <2>4, ConstantFacts
  <2> QED
    BY <1>5, <1>9, <2>5, <2>6 DEF RateOK
<1>13. ASSUME NEW x \in Socket, x # s PROVE RateOK(x)'
  BY <1>0, <1>5, <1>9, <1>11, <1>13, RateFrame DEF RateInv
<1> QED
  BY <1>8, <1>9, <1>12, <1>13

\* A put takes the room the thread has seen.
LEMMA RatePut ==
  ASSUME Base, Base', CounterShape, RateInv, NEW l \in Level, PutMoves(l)
  PROVE  /\ \A x \in Socket : RateOK(x)'
         /\ \A x \in Socket : x # Current(l) => Load(x)' = Load(x)
<1>0. /\ tx' = [tx EXCEPT ![l] = Append(tx[l], Head(squeue[Current(l)]))] /\ ppc[l] = "put"
      /\ UNCHANGED <<mpc, mop, enqueued, dequeued>>
  BY DEF PutMoves, PrioPut, mainVars
<1>1. PICK s \in Socket : \E e \in OpType :
           /\ s = Current(l) /\ LevelOf(s) = l /\ e = Head(squeue[s])
           /\ e.sock = s /\ e.kind # "nop" /\ e.id = Moved(s) + 1
           /\ Moved(s)' = Moved(s) + 1 /\ Transit(s) = 0 /\ Transit(s)' = 1
           /\ \A x \in Socket : x # s => Moved(x)' = Moved(x) /\ Transit(x)' = Transit(x)
  BY PutMoved DEF Base
<1>2. PICK e \in OpType :
           /\ s = Current(l) /\ e = Head(squeue[s])
           /\ e.sock = s /\ e.kind # "nop" /\ e.id = Moved(s) + 1
           /\ Transit(s) = 0 /\ Transit(s)' = 1
           /\ \A x \in Socket : x # s => Transit(x)' = Transit(x)
  BY <1>1
<1>3. tx' = [tx EXCEPT ![l] = Append(tx[l], e)]
  BY <1>0, <1>2
<1>4. /\ PendingOps(s)' = PendingOps(s) \union {e}
      /\ \A x \in Socket : x # s => PendingOps(x)' = PendingOps(x)
  <2>1. UNCHANGED <<mpc, mop>> /\ e.sock = s /\ e.kind # "nop"
    BY <1>0, <1>2
  <2> QED
    BY <1>3, <2>1, PendingPut
<1>5. \A x \in Socket : Uncounted(x)' = Uncounted(x)
  <2>1. mpc = "count" => Op' = Op
    <3>1. SUFFICES ASSUME mpc = "count" PROVE Op' = Op
      OBVIOUS
    <3>2. mop.lev \in Level /\ mop.pos \in 1..Len(tx[mop.lev])
      BY <3>1, HandFacts DEF Base, AtHand
    <3>3. tx \in [Level -> Seq(OpType)] /\ tx[l] \in Seq(OpType)
      BY TxFacts DEF Base
    <3>4. \A i \in 1..Len(tx[l]) : Append(tx[l], e)[i] = tx[l][i]
      BY <3>3, AppendOp
    <3>5. tx'[mop.lev][mop.pos] = tx[mop.lev][mop.pos]
      BY <1>3, <3>2, <3>3, <3>4
    <3> QED
      BY <1>0, <3>5 DEF Op
  <2> QED
    BY <1>0, <2>1 DEF Uncounted
<1>6. Load(s)' = Load(s) + 1
  <2>1. PendingIds(s)' = {op.id : op \in PendingOps(s)'}
    BY DEF PendingIds, PendingOps
  <2>2. PendingIds(s) = {op.id : op \in PendingOps(s)}
    BY PendingIdsAre
  <2>3. PendingIds(s)' = PendingIds(s) \union {Moved(s) + 1}
    BY <1>2, <1>4, <2>1, <2>2
  <2>4. /\ PendingIds(s) \subseteq 1..Moved(s) /\ Moved(s) \in Nat
        /\ IsFiniteSet(PendingIds(s)) /\ Cardinality(PendingIds(s)) \in Nat
    BY PendingFacts
  <2>5. Moved(s) + 1 \notin PendingIds(s)
    BY <2>4
  <2>6. Cardinality(PendingIds(s)') = Cardinality(PendingIds(s)) + 1
    BY <2>3, <2>4, <2>5, FS_AddElement
  <2>7. Uncounted(s) \in 0..1
    BY LoadFacts
  <2>8. Load(s)' = Cardinality(PendingIds(s)) + 1 + Uncounted(s)
    BY <1>5, <2>6 DEF Load
  <2> QED
    BY <2>4, <2>7, <2>8 DEF Load
<1>7. \A x \in Socket : x # s => Load(x)' = Load(x)
  BY <1>4, <1>5, LoadFrame
<1>8. RateOK(s)'
  <2>1. Load(s) \in Nat /\ RateOK(s)
    BY LoadFacts DEF RateInv
  <2>2. Load(s) < MaxParallel
    BY <1>0, <1>2 DEF RateInv
  <2>3. Apart(enqueued[s], dequeued[s]) = Load(s)
    BY <1>2, <2>1 DEF RateOK
  <2>4. Load(s) + 1 <= MaxParallel /\ ~(Load(s) + 1 < 1) /\ (Load(s) + 1) - 1 = Load(s)
    BY <2>1, <2>2, ConstantFacts
  <2>5. Apart(enqueued'[s], dequeued'[s]) = Load(s)
    BY <1>0, <2>3
  <2> QED
    BY <1>2, <1>6, <2>4, <2>5 DEF RateOK
<1>9. ASSUME NEW x \in Socket, x # s PROVE RateOK(x)'
  BY <1>0, <1>2, <1>7, <1>9, RateFrame DEF RateInv
<1> QED
  BY <1>2, <1>7, <1>8, <1>9

\* Performing an operation keeps the load: it is not counted yet.
LEMMA RatePerform ==
  ASSUME Base, Base', PerformStep
  PROVE  \A x \in Socket : Load(x)' = Load(x)
<1>1. PICK e \in OpType : /\ e = Op /\ e.sock \in Socket /\ e \in PendingOps(e.sock)
                          /\ \A x \in Socket : PendingOps(x)' = PendingOps(x) \ {e}
  BY PendingPerform
<1>2. PICK s \in Socket : s = e.sock
  BY <1>1
<1>3. mpc = "handle" /\ mpc' = "count" /\ Op' = Op
  BY DEF PerformStep, Performed, Op
<1>4. /\ Uncounted(s) = 0 /\ Uncounted(s)' = 1
      /\ \A x \in Socket : x # s => Uncounted(x) = 0 /\ Uncounted(x)' = 0
  BY <1>1, <1>2, <1>3 DEF Uncounted
<1>5. \A x \in Socket : x # s => PendingOps(x)' = PendingOps(x)
  <2>1. \A x \in Socket : \A op \in PendingOps(x) : op.sock = x
    BY PendingFacts
  <2>2. \A x \in Socket : x # s => e \notin PendingOps(x)
    BY <1>2, <2>1
  <2> QED
    BY <1>1, <2>2
<1>6. Load(s)' = Load(s)
  <2>1. PendingIds(s)' = {op.id : op \in PendingOps(s)'}
    BY DEF PendingIds, PendingOps
  <2>2. PendingIds(s) = {op.id : op \in PendingOps(s)}
    BY PendingIdsAre
  <2>3. \A op \in PendingOps(s) : op.id = e.id => op = e
    BY <1>1, <1>2, PendingFacts
  <2>4. PendingOps(s)' = PendingOps(s) \ {e} /\ e \in PendingOps(s)
    BY <1>1, <1>2
  <2>5. PendingIds(s)' = PendingIds(s) \ {e.id} /\ e.id \in PendingIds(s)
    BY <2>1, <2>2, <2>3, <2>4
  <2>6. IsFiniteSet(PendingIds(s)) /\ Cardinality(PendingIds(s)) \in Nat
    BY PendingFacts
  <2>7. Cardinality(PendingIds(s)') = Cardinality(PendingIds(s)) - 1
    BY <2>5, <2>6, FS_RemoveElement
  <2>8. Load(s)' = Cardinality(PendingIds(s)) - 1 + 1 /\ Load(s) = Cardinality(PendingIds(s)) + 0
    BY <1>4, <2>7 DEF Load
  <2> QED
    BY <2>6, <2>8
<1>7. \A x \in Socket : x # s => Load(x)' = Load(x)
  BY <1>4, <1>5, LoadFrame
<1> QED
  BY <1>6, <1>7

\* Every step keeps the rate limit.
LEMMA RateStep ==
  ASSUME Base, Base', CounterShape, RateInv, [Next]_vars
  PROVE  RateInv'
<1>1. ASSUME \A x \in Socket : RateOK(x)', \A x \in Socket : Load(x)' <= Load(x) PROVE RateInv'
  <2>1. \A x \in Socket : Load(x) \in Nat
    BY LoadFacts
  <2>2. Base' => (\A s \in Socket : /\ Load(s) \in Nat /\ Uncounted(s) \in 0..1
                                    /\ Cardinality(PendingIds(s)) \in Nat)'
    BY LoadFacts, PTL
  <2>3. ASSUME NEW l \in Level, NEW s \in Socket, ppc'[l] = "put", Current(l)' = s
        PROVE  Load(s)' < MaxParallel
    BY <1>1, <2>1, <2>2, <2>3, PutRoom, ConstantFacts
  <2> QED
    BY <1>1, <2>3 DEF RateInv
<1>2. ASSUME \A x \in Socket : /\ Load(x)' = Load(x) /\ Transit(x)' = Transit(x)
                               /\ enqueued'[x] = enqueued[x] /\ dequeued'[x] = dequeued[x]
      PROVE  RateInv'
  <2>1. \A x \in Socket : RateOK(x)'
    BY <1>2, RateFrame DEF RateInv
  <2>2. \A x \in Socket : Load(x)' <= Load(x)
    BY <1>2, LoadFacts
  <2> QED
    BY <1>1, <2>1, <2>2
<1>3. CASE QuietStep
  <2>1. UNCHANGED <<tx, mpc, mop, enqueued, dequeued>>
    BY <1>3 DEF QuietStep
  <2>2. \A x \in Socket : Uncounted(x)' = Uncounted(x)
    BY <2>1 DEF Uncounted, Op
  <2>3. \A x \in Socket : Load(x)' = Load(x)
    BY <1>3, <2>2, ThreadPending, LoadFrame
  <2>4. \A x \in Socket : Transit(x)' = Transit(x)
    BY <1>3, QuietMoved DEF Base
  <2> QED
    BY <1>2, <2>1, <2>3, <2>4
<1>4. ASSUME NEW l \in Level, PrioSignal(l) PROVE RateInv'
  <2>1. UNCHANGED <<tx, mpc, mop, enqueued, dequeued>>
    BY <1>4 DEF PrioSignal
  <2>2. \A x \in Socket : Uncounted(x)' = Uncounted(x)
    BY <2>1 DEF Uncounted, Op
  <2>3. \A x \in Socket : Load(x)' = Load(x)
    BY <1>4, <2>2, ThreadPending, LoadFrame
  <2>4. \A x \in Socket : Transit(x)' = Transit(x)
    BY <1>4, SignalMoved DEF Base
  <2> QED
    BY <1>2, <2>1, <2>3, <2>4
<1>5. ASSUME NEW l \in Level, PrioCommit(l) PROVE RateInv'
  <2>1. \A x \in Socket : Load(x) \in Nat
    BY LoadFacts
  <2>2. \A x \in Socket : RateOK(x)' /\ Load(x)' <= Load(x)
    BY <1>5, <2>1, RateCommit
  <2> QED
    BY <1>1, <2>2
<1>6. ASSUME NEW l \in Level, PutMoves(l) PROVE RateInv'
  <2>1. /\ \A x \in Socket : RateOK(x)'
        /\ \A x \in Socket : x # Current(l) => Load(x)' = Load(x)
    BY <1>6, RatePut
  <2>2. ppc[l] = "put" /\ ppc'[l] = "commit"
    BY <1>6 DEF PutMoves, PrioPut, Base, ThreadInv, PrioShape
  <2>3. ASSUME NEW m \in Level, NEW s \in Socket, ppc'[m] = "put", Current(m)' = s
        PROVE  Load(s)' < MaxParallel
    <3>1. Current(m) = s /\ ppc[m] \in Busy /\ Load(s) < MaxParallel
      BY <2>3, PutRoom
    <3>2. m # l
      BY <2>2, <2>3
    <3>3. s # Current(l)
      BY <2>2, <3>1, <3>2, DistinctCurrent DEF Base, Busy
    <3> QED
      BY <2>1, <3>1, <3>3
  <2> QED
    BY <2>1, <2>3 DEF RateInv
<1>7. CASE Main \/ \E s \in Socket : Net(s)
  <2>1. UNCHANGED <<squeue, squeueFutex, appVars, prioVars>>
    BY <1>7, MainFrame
  <2>2. enqueued' = enqueued /\ \A x \in Socket : Transit(x)' = Transit(x)
    BY <2>1, MainMoved DEF prioVars
  <2>3. CASE MainCount
    BY <1>1, <2>3, RateCount
  <2>4. CASE PerformStep
    <3>1. dequeued' = dequeued
      BY <2>4 DEF PerformStep
    <3> QED
      BY <1>2, <2>2, <2>4, <3>1, RatePerform
  <2>5. CASE ~PerformStep /\ ~MainCount
    <3>1. mpc # "count" /\ mpc' # "count" /\ dequeued' = dequeued
      <4>1. ASSUME NEW s \in Socket, Net(s) PROVE mpc # "count" /\ mpc' # "count" /\ dequeued' = dequeued
        BY <4>1 DEF Net, SelectAck, SelectData, StartIteration
      <4>2. CASE SelectIdle \/ HandleTryAgain
        BY <4>2 DEF SelectIdle, StartIteration, HandleTryAgain, Refused, EndIteration
      <4>3. CASE MainPeek
        BY <4>3 DEF MainPeek, Peek, EndIteration
      <4>4. CASE MainScan
        BY <4>4 DEF MainScan, EndIteration
      <4>5. CASE HandleNop \/ MainErase
        BY <4>5 DEF HandleNop, MainErase, Erase
      <4> QED
        BY <1>7, <2>5, <4>1, <4>2, <4>3, <4>4, <4>5, Performs DEF Main
    <3>2. \A x \in Socket : Uncounted(x) = 0 /\ Uncounted(x)' = 0
      BY <3>1 DEF Uncounted
    <3>3. \A x \in Socket : Load(x)' = Load(x)
      BY <1>7, <2>5, <3>2, MainPending, LoadFrame
    <3> QED
      BY <1>2, <2>2, <3>1, <3>3
  <2> QED
    BY <2>3, <2>4, <2>5
<1> QED
  BY <1>3, <1>4, <1>5, <1>6, <1>7, StepCases DEF Base
-----------------------------------------------------------------------------
(***************************************************************************)
(* Counters, lwIP's queues and the initial states.                         *)
(***************************************************************************)

\* The counters keep their width.
LEMMA CounterStep ==
  ASSUME Base, CounterShape, [Next]_vars
  PROVE  CounterShape'
<1>0. enqueued \in [Socket -> 0..(CounterMod - 1)] /\ dequeued \in [Socket -> 0..(CounterMod - 1)]
  BY DEF CounterShape
<1>1. \A x \in 0..(CounterMod - 1) : (x + 1) % CounterMod \in 0..(CounterMod - 1)
  BY ApartFacts
<1>2. CASE UNCHANGED <<enqueued, dequeued>>
  BY <1>2 DEF CounterShape
<1>3. ASSUME NEW l \in Level, PrioCommit(l) PROVE CounterShape'
  <2>1. PICK s \in Socket : s = Current(l)
    BY <1>3, ThreadFacts DEF Base, PrioCommit, Commit, Busy
  <2>2. enqueued' = [enqueued EXCEPT ![s] = (enqueued[s] + 1) % CounterMod] /\ dequeued' = dequeued
    BY <1>3, <2>1 DEF PrioCommit, Commit, mainVars
  <2> QED
    BY <1>0, <1>1, <2>2 DEF CounterShape
<1>4. CASE MainCount
  <2>1. Op \in OpType
    BY <1>4, HandFacts DEF Base, MainCount, Count, AtHand
  <2>2. PICK s \in Socket : s = Op.sock
    BY <2>1 DEF OpType
  <2>3. dequeued' = [dequeued EXCEPT ![s] = (dequeued[s] + 1) % CounterMod] /\ enqueued' = enqueued
    BY <1>4, <2>2 DEF MainCount, Count, prioVars
  <2> QED
    BY <1>0, <1>1, <2>3 DEF CounterShape
<1>5. CASE QuietStep
  BY <1>2, <1>5 DEF QuietStep
<1>6. ASSUME NEW l \in Level, PrioSignal(l) \/ PutMoves(l) PROVE CounterShape'
  BY <1>2, <1>6 DEF PrioSignal, PutMoves, PrioPut, mainVars
<1>7. CASE Main \/ \E s \in Socket : Net(s)
  <2>1. enqueued' = enqueued
    BY <1>7, MainFrame DEF prioVars
  <2>2. ASSUME NEW s \in Socket, Net(s) PROVE dequeued' = dequeued
    BY <2>2 DEF Net, SelectAck, SelectData, StartIteration
  <2>3. CASE SelectIdle \/ HandleTryAgain \/ MainPeek
    BY <1>2, <2>1, <2>3 DEF SelectIdle, StartIteration, HandleTryAgain, Refused, MainPeek, Peek
  <2>4. CASE PerformStep
    BY <1>2, <2>1, <2>4 DEF PerformStep
  <2>5. CASE MainScan \/ HandleNop \/ MainErase
    BY <1>2, <2>1, <2>5 DEF MainScan, HandleNop, MainErase, Erase
  <2> QED
    BY <1>2, <1>4, <1>7, <2>1, <2>2, <2>3, <2>4, <2>5, Performs DEF Main
<1> QED
  BY <1>3, <1>5, <1>6, <1>7, StepCases DEF Base

\* write_queue, recv_queue and the buffers keep to their capacities.
LEMMA LwipStep ==
  ASSUME Base, LwipShape, [Next]_vars
  PROVE  LwipShape'
<1>0. /\ inFlight \in [Socket -> Seq(Nat)] /\ recvQueue \in [Socket -> Seq(Nat)]
      /\ \A s \in Socket : Len(inFlight[s]) <= WriteQueueCap /\ Len(recvQueue[s]) <= RecvQueueCap
      /\ recvBuf \in [Socket -> 0..RecvBuf] /\ peer \in [Socket -> 0..PeerBuf]
  BY DEF LwipShape
<1>1. CASE UNCHANGED lwipVars
  BY <1>1 DEF LwipShape, lwipVars
<1>2. ASSUME NEW S, NEW q \in Seq(Nat), NEW n \in Nat
      PROVE  Append(q, n) \in Seq(Nat) /\ Len(Append(q, n)) = Len(q) + 1 /\ Len(q) \in Nat
  BY AppendOp
<1>3. ASSUME NEW q \in Seq(Nat), q # <<>>
      PROVE  Tail(q) \in Seq(Nat) /\ Len(Tail(q)) = Len(q) - 1 /\ Len(q) \in Nat
  BY <1>3, TailOp
<1>4. ASSUME NEW s \in Socket, SelectAck(s) PROVE LwipShape'
  <2>1. /\ inFlight[s] # <<>> /\ peer[s] < PeerBuf
        /\ inFlight' = [inFlight EXCEPT ![s] = Tail(inFlight[s])]
        /\ peer' = [peer EXCEPT ![s] = peer[s] + 1] /\ UNCHANGED <<recvQueue, recvBuf>>
    BY <1>4 DEF SelectAck
  <2>2. Tail(inFlight[s]) \in Seq(Nat) /\ Len(Tail(inFlight[s])) <= WriteQueueCap
    <3>1. inFlight[s] \in Seq(Nat) /\ Len(inFlight[s]) <= WriteQueueCap
      BY <1>0
    <3>2. Tail(inFlight[s]) \in Seq(Nat) /\ Len(Tail(inFlight[s])) = Len(inFlight[s]) - 1
          /\ Len(inFlight[s]) \in Nat
      BY <1>3, <2>1, <3>1
    <3> QED
      BY <3>1, <3>2, ConstantFacts
  <2>3. peer[s] + 1 \in 0..PeerBuf
    BY <1>0, <2>1, ConstantFacts
  <2>4. inFlight' \in [Socket -> Seq(Nat)] /\ peer' \in [Socket -> 0..PeerBuf]
    BY <1>0, <2>1, <2>2, <2>3
  <2>5. \A x \in Socket : Len(inFlight'[x]) <= WriteQueueCap
    BY <1>0, <2>1, <2>2
  <2> QED
    BY <1>0, <2>1, <2>4, <2>5 DEF LwipShape
<1>5. ASSUME NEW s \in Socket, SelectData(s) PROVE LwipShape'
  <2>1. /\ peer[s] > 0 /\ peer' = [peer EXCEPT ![s] = peer[s] - 1] /\ UNCHANGED inFlight
        /\ \/ /\ recvQueue[s] # <<>>
              /\ recvQueue' = [recvQueue EXCEPT ![s] = Tail(recvQueue[s])]
              /\ UNCHANGED recvBuf
           \/ /\ recvBuf[s] < RecvBuf
              /\ recvBuf' = [recvBuf EXCEPT ![s] = recvBuf[s] + 1]
              /\ UNCHANGED recvQueue
    BY <1>5 DEF SelectData
  <2>2. peer[s] - 1 \in 0..PeerBuf
    <3>1. peer[s] \in 0..PeerBuf /\ PeerBuf \in Nat
      BY <1>0, ConstantFacts
    <3> QED
      BY <2>1, <3>1
  <2>3. peer' \in [Socket -> 0..PeerBuf]
    BY <1>0, <2>1, <2>2
  <2>4. CASE recvQueue[s] # <<>> /\ recvQueue' = [recvQueue EXCEPT ![s] = Tail(recvQueue[s])]
             /\ UNCHANGED recvBuf
    <3>1. recvQueue[s] \in Seq(Nat) /\ Len(recvQueue[s]) <= RecvQueueCap
      BY <1>0
    <3>2. Tail(recvQueue[s]) \in Seq(Nat) /\ Len(Tail(recvQueue[s])) = Len(recvQueue[s]) - 1
          /\ Len(recvQueue[s]) \in Nat
      BY <1>3, <2>4, <3>1
    <3>3. Len(Tail(recvQueue[s])) <= RecvQueueCap
      BY <3>1, <3>2, ConstantFacts
    <3>4. recvQueue' \in [Socket -> Seq(Nat)] /\ \A x \in Socket : Len(recvQueue'[x]) <= RecvQueueCap
      BY <1>0, <2>4, <3>2, <3>3
    <3> QED
      BY <1>0, <2>1, <2>3, <2>4, <3>4 DEF LwipShape
  <2>5. CASE recvBuf[s] < RecvBuf /\ recvBuf' = [recvBuf EXCEPT ![s] = recvBuf[s] + 1]
             /\ UNCHANGED recvQueue
    <3>1. recvBuf[s] + 1 \in 0..RecvBuf
      BY <1>0, <2>5, ConstantFacts
    <3>2. recvBuf' \in [Socket -> 0..RecvBuf]
      BY <1>0, <2>5, <3>1
    <3> QED
      BY <1>0, <2>1, <2>3, <2>5, <3>2 DEF LwipShape
  <2> QED
    BY <2>1, <2>4, <2>5
<1>6. mpc = "handle" => Op \in OpType
  BY HandFacts DEF Base, AtHand
<1>7. CASE HandleWrite
  <2>1. PICK s \in Socket : s = Op.sock
    BY <1>6, <1>7 DEF HandleWrite, OpType
  <2>2. PICK n \in Nat : n = Op.id
    BY <1>6, <1>7 DEF HandleWrite, OpType
  <2>3. /\ Len(inFlight[s]) < WriteQueueCap /\ UNCHANGED <<recvQueue, recvBuf, peer>>
        /\ inFlight' = [inFlight EXCEPT ![s] = Append(inFlight[s], n)]
    BY <1>7, <2>1, <2>2 DEF HandleWrite
  <2>4. inFlight[s] \in Seq(Nat)
    BY <1>0
  <2>5. Append(inFlight[s], n) \in Seq(Nat) /\ Len(Append(inFlight[s], n)) = Len(inFlight[s]) + 1
        /\ Len(inFlight[s]) \in Nat
    BY <1>2, <2>4
  <2>6. Len(Append(inFlight[s], n)) <= WriteQueueCap
    BY <2>3, <2>5, ConstantFacts
  <2>7. inFlight' \in [Socket -> Seq(Nat)] /\ \A x \in Socket : Len(inFlight'[x]) <= WriteQueueCap
    BY <1>0, <2>3, <2>5, <2>6
  <2> QED
    BY <1>0, <2>3, <2>7 DEF LwipShape
<1>8. CASE HandleRecv
  <2>1. PICK s \in Socket : s = Op.sock
    BY <1>6, <1>8 DEF HandleRecv, OpType
  <2>2. PICK n \in Nat : n = Op.id
    BY <1>6, <1>8 DEF HandleRecv, OpType
  <2>3. /\ UNCHANGED <<inFlight, peer>>
        /\ \/ recvBuf[s] > 0 /\ recvBuf' = [recvBuf EXCEPT ![s] = recvBuf[s] - 1] /\ UNCHANGED recvQueue
           \/ /\ Len(recvQueue[s]) < RecvQueueCap
              /\ recvQueue' = [recvQueue EXCEPT ![s] = Append(recvQueue[s], n)] /\ UNCHANGED recvBuf
           \/ UNCHANGED <<recvBuf, recvQueue>>
    BY <1>8, <2>1, <2>2 DEF HandleRecv
  <2>4. CASE recvBuf[s] > 0 /\ recvBuf' = [recvBuf EXCEPT ![s] = recvBuf[s] - 1] /\ UNCHANGED recvQueue
    <3>1. recvBuf[s] - 1 \in 0..RecvBuf
      BY <1>0, <2>4, ConstantFacts
    <3>2. recvBuf' \in [Socket -> 0..RecvBuf]
      BY <1>0, <2>4, <3>1
    <3> QED
      BY <1>0, <2>3, <2>4, <3>2 DEF LwipShape
  <2>5. CASE /\ Len(recvQueue[s]) < RecvQueueCap
             /\ recvQueue' = [recvQueue EXCEPT ![s] = Append(recvQueue[s], n)] /\ UNCHANGED recvBuf
    <3>1. recvQueue[s] \in Seq(Nat)
      BY <1>0
    <3>2. Append(recvQueue[s], n) \in Seq(Nat) /\ Len(Append(recvQueue[s], n)) = Len(recvQueue[s]) + 1
          /\ Len(recvQueue[s]) \in Nat
      BY <1>2, <3>1
    <3>3. Len(Append(recvQueue[s], n)) <= RecvQueueCap
      BY <2>5, <3>2, ConstantFacts
    <3>4. recvQueue' \in [Socket -> Seq(Nat)] /\ \A x \in Socket : Len(recvQueue'[x]) <= RecvQueueCap
      BY <1>0, <2>5, <3>2, <3>3
    <3> QED
      BY <1>0, <2>3, <2>5, <3>4 DEF LwipShape
  <2>6. CASE UNCHANGED <<recvBuf, recvQueue>>
    BY <1>0, <2>3, <2>6 DEF LwipShape
  <2> QED
    BY <2>3, <2>4, <2>5, <2>6
<1>9. CASE QuietStep
  BY <1>1, <1>9 DEF QuietStep
<1>10. ASSUME NEW l \in Level, PrioSignal(l) \/ PrioCommit(l) \/ PutMoves(l) PROVE LwipShape'
  BY <1>1, <1>10 DEF PrioSignal, PrioCommit, Commit, PutMoves, PrioPut
<1>11. CASE Main
  <2>1. CASE SelectIdle \/ HandleTryAgain \/ MainPeek
    BY <1>1, <2>1 DEF SelectIdle, HandleTryAgain, Refused, MainPeek, Peek
  <2>2. CASE HandleSync \/ HandleWriteError \/ HandleNop
    BY <1>1, <2>2 DEF HandleSync, HandleWriteError, HandleNop
  <2>3. CASE MainScan \/ MainCount \/ MainErase
    BY <1>1, <2>3 DEF MainScan, MainCount, Count, MainErase, Erase
  <2> QED
    BY <1>7, <1>8, <1>11, <2>1, <2>2, <2>3 DEF Main
<1> QED
  BY <1>4, <1>5, <1>9, <1>10, <1>11, StepCases DEF Base, Net

\* The initial states satisfy the invariant.
LEMMA InitIInv ==
  ASSUME Init
  PROVE  IInv
<1>1. /\ tx = [l \in Level |-> <<>>] /\ txFd = FALSE /\ mpc = "select" /\ mlev = 1 /\ mop = NoOp
      /\ mdeq = 0 /\ fullIter = 0 /\ leftEmpty = TRUE /\ waiting = {}
      /\ handled = [s \in Socket |-> <<>>] /\ submitted = [s \in Socket |-> 0]
      /\ squeue = [s \in Socket |-> <<>>]
      /\ enqueued = [s \in Socket |-> Past % CounterMod] /\ dequeued = enqueued
      /\ inFlight = [s \in Socket |-> <<>>] /\ recvQueue = [s \in Socket |-> <<>>]
      /\ recvBuf \in [Socket -> 0..RecvBuf] /\ peer \in [Socket -> 0..PeerBuf]
      /\ ppc = [l \in Level |-> IF socketList[l] = <<>> THEN "asleep" ELSE "fill"]
  BY DEF Init
<1>2. ThreadInv
  BY InitThread
<1>3. Len(<<>>) = 0 /\ <<>> \in Seq(OpType) /\ <<>> \in Seq(Nat) /\ <<>> \in Seq(DoneType)
  OBVIOUS
<1>4. MainShape
  <2>1. tx \in [Level -> Seq(OpType)] /\ \A l \in Level : Len(tx[l]) <= TxCap
    BY <1>1, <1>3, ConstantFacts
  <2>2. txFd \in BOOLEAN /\ leftEmpty \in BOOLEAN
    BY <1>1
  <2>3. mdeq \in 0..MaxDequeues /\ fullIter \in 0..MaxFullIter /\ mlev \in Level
    BY <1>1, ConstantFacts
  <2> QED
    BY <1>1, <2>1, <2>2, <2>3 DEF MainShape
<1>5. MopInv
  BY <1>1 DEF MopInv, AtHand
<1>6. \A l \in Level : tx[l] = <<>> /\ 1..Len(tx[l]) = {}
  <2>1. \A l \in Level : tx[l] = <<>>
    BY <1>1
  <2>2. 1..0 = {}
    OBVIOUS
  <2> QED
    BY <1>3, <2>1, <2>2
<1>7. TxInv
  BY <1>1, <1>6 DEF TxInv
<1>8. PeekAll
  BY <1>1, <1>6 DEF PeekAll, PeekInv, SignalNotLost, BoundedInversion
<1>9. Past % CounterMod \in 0..(CounterMod - 1)
  BY ConstantFacts
<1>10. CounterShape
  BY <1>1, <1>9 DEF CounterShape
<1>11. LwipShape
  BY <1>1, <1>3, ConstantFacts DEF LwipShape
<1>12. Base
  BY <1>2, <1>4, <1>5, <1>7 DEF Base
<1>13. ASSUME NEW s \in Socket
       PROVE  PendingOps(s) = {} /\ PendingIds(s) = {} /\ Transit(s) = 0 /\ Moved(s) = 0 /\ Load(s) = 0
  <2>1. PendingOps(s) = {}
    BY <1>6, <1>12, PendingIs
  <2>2. PendingIds(s) = {}
    BY <2>1, PendingIdsAre
  <2>3. \A l \in Level : ppc[l] # "commit"
    BY <1>1
  <2>4. Transit(s) = 0
    BY <1>2, <2>3, TransitIs DEF Transit
  <2>5. Moved(s) = 0
    BY <1>1, <1>3, <2>4 DEF Moved
  <2>6. Load(s) = 0
    BY <1>1, <2>2, FS_EmptySet DEF Load, Uncounted
  <2> QED
    BY <2>1, <2>2, <2>4, <2>5, <2>6
<1>14. DoneInv
  <2>1. handled \in [Socket -> Seq(DoneType)] /\ \A s \in Socket : handled[s] = <<>>
    BY <1>1, <1>3
  <2>2. Ids(<<>>) = {} /\ 1..0 = {}
    BY DEF Ids
  <2>3. ASSUME NEW s \in Socket PROVE OnceOK(s)
    <3>1. handled[s] = <<>> /\ PendingIds(s) = {} /\ Moved(s) = 0
      BY <1>13, <2>1
    <3>2. Cardinality({}) = 0
      BY FS_EmptySet
    <3>3. Ids(handled[s]) \union PendingIds(s) = 1..Moved(s)
      BY <2>2, <3>1
    <3>4. Len(handled[s]) + Cardinality(PendingIds(s)) = Moved(s)
      BY <3>1, <3>2
    <3> QED
      BY <3>3, <3>4 DEF OnceOK
  <2>4. ASSUME NEW s \in Socket PROVE OrderOK(s)
    BY <2>1 DEF OrderOK
  <2> QED
    BY <2>1, <2>3, <2>4 DEF DoneInv
<1>15. RateInv
  <2>1. ASSUME NEW s \in Socket PROVE RateOK(s)
    <3>1. Apart(enqueued[s], dequeued[s]) = 0
      BY <1>1, <1>9, ConstantFacts DEF Apart
    <3> QED
      BY <1>13, <3>1, ConstantFacts DEF RateOK
  <2> QED
    BY <1>1, <2>1 DEF RateInv
<1> QED
  BY <1>8, <1>10, <1>11, <1>12, <1>14, <1>15 DEF IInv

\* The inductive invariant holds in every reachable state: a step of any
\* application, thread, lwIP or the main loop keeps it.
THEOREM Invariance == Spec => []IInv
<1>1. Init => IInv
  BY InitIInv
<1>2. ASSUME IInv, [Next]_vars PROVE IInv'
  <2>1. Base /\ PeekAll /\ CounterShape /\ LwipShape /\ DoneInv /\ RateInv
    BY <1>2 DEF IInv
  <2>2. ThreadInv /\ MainShape /\ MopInv /\ TxInv
    BY <2>1 DEF Base
  <2>3. ThreadInv'
    BY <1>2, <2>2, ThreadStep
  <2>4. MainShape' /\ MopInv'
    BY <1>2, <2>2, MainTypeStep
  <2>5. TxInv'
    BY <1>2, <2>2, <2>3, <2>4, TxStep
  <2>6. Base'
    BY <2>3, <2>4, <2>5 DEF Base
  <2>7. PeekAll'
    BY <1>2, <2>1, <2>2, <2>3, <2>4, PeekStep
  <2>8. CounterShape' /\ LwipShape'
    BY <1>2, <2>1, CounterStep, LwipStep
  <2>9. DoneInv' /\ RateInv'
    BY <1>2, <2>1, <2>6, DoneStep, RateStep
  <2> QED
    BY <2>6, <2>7, <2>8, <2>9 DEF IInv
<1>3. IInv /\ [Next]_vars => IInv'
  BY <1>2
<1> QED
  BY <1>1, <1>3, PTL DEF Spec

\* No eventfd signal is lost: the main loop never waits in select for a tx queue
\* that is filled and will not be signalled.
THEOREM SignalsArrive == Spec => []SignalNotLost
<1>1. IInv => SignalNotLost
  BY DEF IInv, PeekAll
<1> QED
  BY <1>1, Invariance, PTL

\* An operation of a lower priority passes over no operation that was queued
\* when the main loop last performed one.
THEOREM InversionBounded == Spec => []BoundedInversion
<1>1. IInv => BoundedInversion
  BY DEF IInv, PeekAll
<1> QED
  BY <1>1, Invariance, PTL

\* Operations of a socket are performed in the order of their submission, but
\* for a recv the scan takes before its turn.
THEOREM InOrder == Spec => []PerformedInOrder
<1>1. IInv => PerformedInOrder
  BY DEF IInv, DoneInv, OrderOK, PerformedInOrder
<1> QED
  BY <1>1, Invariance, PTL

\* Copy-then-erase loses and duplicates nothing: every submitted operation is
\* performed, pending in a tx queue or in the squeue, once.
THEOREM OpsOnce == Spec => []EachOpOnce
<1>1. ASSUME IInv, NEW s \in Socket, NEW rest,
             rest = IF InTransit(s) THEN Tail(squeue[s]) ELSE squeue[s]
      PROVE  /\ Ids(handled[s]) \union PendingIds(s) \union Ids(rest) = 1..submitted[s]
             /\ Len(handled[s]) + Cardinality(PendingIds(s)) + Len(rest) = submitted[s]
  <2>1. Base /\ ThreadInv /\ DoneInv
    BY <1>1 DEF IInv, Base
  <2>2. /\ squeue[s] \in Seq(OpType) /\ submitted[s] \in Nat /\ QueueOK(s)
    BY <2>1, SocketFacts
  <2>3. /\ Moved(s) \in Nat /\ Len(squeue[s]) \in Nat
    BY <2>1, MovedIs
  <2>4. /\ Ids(handled[s]) \union PendingIds(s) = 1..Moved(s)
        /\ Len(handled[s]) + Cardinality(PendingIds(s)) = Moved(s)
    BY <2>1 DEF DoneInv, OnceOK
  <2>5. Len(handled[s]) \in Nat /\ Cardinality(PendingIds(s)) \in Nat
    BY <2>1, DoneFacts, PendingFacts
  <2>6. /\ rest \in Seq(OpType) /\ Len(rest) \in Nat /\ Len(rest) = submitted[s] - Moved(s)
        /\ \A i \in 1..Len(rest) : rest[i].id = Moved(s) + i
    <3>1. \A i \in 1..Len(squeue[s]) : squeue[s][i].id = submitted[s] - Len(squeue[s]) + i
      BY <2>2 DEF QueueOK
    <3>2. CASE ~InTransit(s)
      <4>1. rest = squeue[s] /\ Moved(s) = submitted[s] - Len(squeue[s])
        BY <1>1, <2>2, <2>3, <3>2 DEF Moved, Transit
      <4> QED
        BY <2>2, <2>3, <3>1, <4>1
    <3>3. CASE InTransit(s)
      <4>1. rest = Tail(squeue[s]) /\ Moved(s) = submitted[s] - Len(squeue[s]) + 1
        BY <1>1, <3>3 DEF Moved, Transit
      <4>2. squeue[s] # <<>>
        <5>1. PICK m \in Level : ppc[m] = "commit" /\ Current(m) = s
          BY <2>1, <3>3, TransitIs
        <5>2. /\ Announced(s) \in Nat /\ Bumping(s) \in Nat
          BY <2>1, SocketFacts
        <5>3. pdiff[m] > 0 /\ pdiff[m] <= Announced(s) /\ pdiff[m] \in Nat
          BY <2>1, <5>1, ThreadFacts DEF ThreadOK
        <5>4. \A d, a, b \in Nat : d > 0 /\ d <= a => a + b # 0
          OBVIOUS
        <5>5. Len(squeue[s]) # 0
          BY <2>2, <5>2, <5>3, <5>4 DEF QueueOK
        <5>6. Len(<<>>) = 0
          OBVIOUS
        <5> QED
          BY <5>5, <5>6
      <4>3. /\ Tail(squeue[s]) \in Seq(OpType) /\ Len(Tail(squeue[s])) = Len(squeue[s]) - 1
            /\ Len(squeue[s]) >= 1
            /\ \A i \in 1..(Len(squeue[s]) - 1) : Tail(squeue[s])[i] = squeue[s][i + 1]
        BY <2>2, <4>2, TailOp
      <4>4. ASSUME NEW i \in 1..(Len(squeue[s]) - 1) PROVE rest[i].id = Moved(s) + i
        <5>1. rest[i] = squeue[s][i + 1] /\ i + 1 \in 1..Len(squeue[s])
          BY <2>3, <4>1, <4>3
        <5>2. rest[i].id = submitted[s] - Len(squeue[s]) + (i + 1)
          BY <3>1, <5>1
        <5>3. i \in Nat
          OBVIOUS
        <5>4. submitted[s] - Len(squeue[s]) + (i + 1) = submitted[s] - Len(squeue[s]) + 1 + i
          BY <2>2, <2>3, <5>3
        <5> QED
          BY <4>1, <5>2, <5>4
      <4>5. Len(rest) = Len(squeue[s]) - 1
        BY <4>1, <4>3
      <4>6. Len(squeue[s]) - 1 = submitted[s] - Moved(s) /\ Len(squeue[s]) - 1 \in Nat
        BY <2>2, <2>3, <4>1, <4>3
      <4> QED
        BY <4>1, <4>3, <4>4, <4>5, <4>6
    <3> QED
      BY <3>2, <3>3
  <2>7. Ids(rest) = (Moved(s) + 1)..submitted[s]
    <3>1. DOMAIN rest = 1..Len(rest)
      BY <2>6, LenProperties
    <3>2. Ids(rest) = {Moved(s) + i : i \in 1..Len(rest)}
      BY <2>6, <3>1 DEF Ids
    <3>3. \A n \in (Moved(s) + 1)..submitted[s] : n - Moved(s) \in 1..Len(rest) /\ n = Moved(s) + (n - Moved(s))
      BY <2>2, <2>3, <2>6
    <3>4. \A i \in 1..Len(rest) : Moved(s) + i \in (Moved(s) + 1)..submitted[s]
      BY <2>2, <2>3, <2>6
    <3> QED
      BY <3>2, <3>3, <3>4
  <2>8. 1..Moved(s) \union (Moved(s) + 1)..submitted[s] = 1..submitted[s]
    BY <2>2, <2>3, <2>6
  <2>9. Len(handled[s]) + Cardinality(PendingIds(s)) + Len(rest) = submitted[s]
    BY <2>2, <2>3, <2>4, <2>5, <2>6
  <2> QED
    BY <2>4, <2>7, <2>8, <2>9
<1>2. IInv => EachOpOnce
  BY <1>1 DEF EachOpOnce
<1> QED
  BY <1>2, Invariance, PTL

\* The rate limit bounds what a socket has in its tx queue, although counting
\* is not atomic, and every ring keeps to its capacity.
THEOREM RateIsLimited == Spec => []RateLimited
<1>1. ASSUME IInv PROVE TypeOK
  <2>1. AppShape /\ PrioShape /\ CounterShape /\ MainShape /\ LwipShape /\ ThreadInv /\ MopInv
    BY <1>1 DEF IInv, Base, ThreadInv
  <2>2. ASSUME NEW s \in Socket
        PROVE  /\ squeue[s] \in Seq(OpType) /\ Len(squeue[s]) <= SqueueCap
               /\ squeueFutex[s] \in 0..(FutexMod - 1) /\ shadow[s] \in 0..(FutexMod - 1)
               /\ enqueued[s] \in 0..(CounterMod - 1) /\ dequeued[s] \in 0..(CounterMod - 1)
               /\ apc[s] \in {"idle", "bump", "wake"} /\ submitted[s] \in 0..MaxOps[s]
               /\ Len(inFlight[s]) <= WriteQueueCap /\ Len(recvQueue[s]) <= RecvQueueCap
               /\ recvBuf[s] \in 0..RecvBuf /\ peer[s] \in 0..PeerBuf
    <3>1. squeue[s] \in Seq(OpType) /\ Len(squeue[s]) <= SqueueCap
      BY <2>1 DEF ThreadInv, AppShape, QueueOK
    <3>2. apc[s] \in {"idle", "bump", "wake"} /\ submitted[s] \in 0..MaxOps[s]
      BY <2>1, ConstantFacts DEF AppShape
    <3>3. squeueFutex[s] \in 0..(FutexMod - 1) /\ shadow[s] \in 0..(FutexMod - 1)
      BY <2>1 DEF AppShape
    <3>4. /\ enqueued[s] \in 0..(CounterMod - 1) /\ dequeued[s] \in 0..(CounterMod - 1)
          /\ Len(inFlight[s]) <= WriteQueueCap /\ Len(recvQueue[s]) <= RecvQueueCap
          /\ recvBuf[s] \in 0..RecvBuf /\ peer[s] \in 0..PeerBuf
      BY <2>1 DEF CounterShape, LwipShape
    <3> QED
      BY <3>1, <3>2, <3>3, <3>4
  <2>3. ASSUME NEW l \in Level
        PROVE  /\ ppc[l] \in {"fill", "diff", "limit", "put", "commit", "signal", "wait", "asleep"}
               /\ pidx[l] \in 1..(Len(socketList[l]) + 1)
               /\ pdiff[l] \in 0..SqueueCap /\ pret[l] \in {"fill", "loop"}
               /\ tx[l] \in Seq(OpType) /\ Len(tx[l]) <= TxCap
    <3>1. /\ ThreadOK(l) /\ pidx[l] \in Nat \ {0} /\ pdiff[l] \in Nat /\ Len(socketList[l]) \in Nat
      BY <2>1, ThreadFacts
    <3>2. pidx[l] \in 1..(Len(socketList[l]) + 1) /\ pdiff[l] \in 0..SqueueCap
      BY <3>1, ConstantFacts DEF ThreadOK
    <3> QED
      BY <2>1, <3>2 DEF PrioShape, MainShape
  <2>4. mop = NoOp \/ (mop.lev \in Level /\ mop.pos \in DOMAIN tx[mop.lev])
    <3>1. CASE AtHand
      <4>1. mop.lev \in Level /\ mop.pos \in 1..Len(tx[mop.lev])
        BY <2>1, <3>1, HandFacts
      <4>2. \A l \in Level : DOMAIN tx[l] = 1..Len(tx[l])
        BY <2>1, TxFacts
      <4> QED
        BY <4>1, <4>2
    <3>2. CASE ~AtHand
      BY <2>1, <3>2 DEF MopInv
    <3> QED
      BY <3>1, <3>2
  <2>5. /\ txFd \in BOOLEAN /\ mlev \in Level /\ fullIter \in 0..MaxFullIter
        /\ mpc \in {"select", "peek", "handle", "scan", "count", "erase"}
        /\ mdeq \in 0..MaxDequeues
    BY <2>1 DEF MainShape
  <2> QED
    BY <2>2, <2>3, <2>4, <2>5 DEF TypeOK
<1>2. ASSUME IInv, NEW s \in Socket PROVE Cardinality(Pending(s, LevelOf(s))) <= MaxParallel
  <2>1. Base /\ RateInv
    BY <1>2 DEF IInv
  <2>2. PICK l \in Level : l = LevelOf(s)
    BY <2>1, PlaceOf DEF Base, ThreadInv, PrioShape
  <2> DEFINE f == [i \in Pending(s, l) |-> tx[l][i].id]
  <2>3. /\ Len(tx[l]) \in Nat /\ DOMAIN tx[l] = 1..Len(tx[l])
        /\ \A i \in 1..Len(tx[l]) : tx[l][i] \in OpType
    BY <2>1, TxFacts DEF Base
  <2>4. \A i \in Pending(s, l) : i \in 1..Len(tx[l]) /\ tx[l][i].sock = s /\ tx[l][i].id \in PendingIds(s)
    BY <2>2, <2>3 DEF Pending, PendingIds
  <2>5. ASSUME NEW i \in Pending(s, l), NEW j \in Pending(s, l), tx[l][i].id = tx[l][j].id PROVE i = j
    <3>1. i < j => tx[l][i].id < tx[l][j].id
      BY <2>1, <2>4, <2>5 DEF Base, TxInv
    <3>2. j < i => tx[l][j].id < tx[l][i].id
      BY <2>1, <2>4, <2>5 DEF Base, TxInv
    <3>3. tx[l][i].id \in Nat
      BY <2>3, <2>4, <2>5 DEF OpType
    <3> QED
      BY <2>3, <2>4, <2>5, <3>1, <3>2, <3>3
  <2>6. f \in Injection(Pending(s, l), PendingIds(s))
    BY <2>4, <2>5 DEF Injection, IsInjective
  <2>7. IsFiniteSet(PendingIds(s))
    BY <2>1, PendingFacts
  <2>8. IsFiniteSet(Pending(s, l)) /\ Cardinality(Pending(s, l)) <= Cardinality(PendingIds(s))
    BY <2>6, <2>7, FS_Injection
  <2>9. Cardinality(Pending(s, l)) \in Nat
    BY <2>8, FS_CardinalityType
  <2>10. /\ Uncounted(s) \in Nat /\ Cardinality(PendingIds(s)) \in Nat
    BY <2>1, LoadFacts
  <2>11. Cardinality(PendingIds(s)) + Uncounted(s) <= MaxParallel
    BY <2>1 DEF RateInv, RateOK, Load
  <2> QED
    BY <2>2, <2>8, <2>9, <2>10, <2>11, ConstantFacts
<1>3. IInv => RateLimited
  BY <1>1, <1>2 DEF RateLimited
<1> QED
  BY <1>3, Invariance, PTL
=============================================================================
