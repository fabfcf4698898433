------------------------------- MODULE TxPath -------------------------------
(***************************************************************************)
(* The way of an operation through pifus: the application submits it to    *)
(* the squeue of its socket (api/src/pifus_socket.c), the priority thread  *)
(* of that socket moves it to the tx queue of its priority                 *)
(* (lwip/custom/stack/src/prio_thread.c), and the main loop of the stack   *)
(* takes it from there, performs it and reports its result                 *)
(* (lwip/custom/stack/src/stack.c).                                        *)
(*                                                                         *)
(* Every ring is a sequence with a capacity: SpscRing implements that.     *)
(* The application of each socket, the priority threads and the main loop  *)
(* run concurrently; each action makes at most one access to what another  *)
(* thread writes.  lwIP appears by what process_tx_op asks of it: it may   *)
(* refuse a write for lack of send buffer while others of the socket are   *)
(* unacknowledged, and a peer answers every write with one chunk of data,  *)
(* reading nothing more while PeerBuf answers are still to be sent.        *)
(***************************************************************************)
EXTENDS Integers, Sequences, FiniteSets

CONSTANTS
  Socket,       \* sockets, all of them discovered and open
  Levels,       \* number of priorities; level 1 is served first
  Layouts,      \* lists of sockets the priority threads may have
  Kinds,        \* socket -> kinds of operations its application submits
  SqueueCap,    \* SQUEUE_SIZE - 1
  TxCap,        \* TX_QUEUE_SIZE - 1
  WriteQueueCap,\* WRITE_QUEUE_SIZE - 1
  RecvQueueCap, \* RECV_QUEUE_SIZE - 1
  MaxParallel,  \* TX_MAX_PARALLEL_OPS_PER_SOCKET
  MaxDequeues,  \* MAX_DEQUEUES_PER_ITERATION
  MaxFullIter,  \* MAX_FULL_SND_BUF_ITERATIONS
  FutexMod,     \* 2^32, squeue_futex and its shadow are futex_t
  CounterMod,   \* 2^64, enqueued_ops and dequeued_ops are uint64_t
  RecvBuf,      \* chunks recv_buffer holds
  PeerBuf,      \* chunks the peer holds
  Past,         \* operations of each socket performed before Init
  MaxOps        \* bound: socket -> operations its application submits

Level == 1..Levels
ASSUME TxAssumption ==
  /\ {Levels, SqueueCap, TxCap, MaxParallel, MaxDequeues, WriteQueueCap}
       \subseteq Nat \ {0}
  /\ {RecvQueueCap, MaxFullIter, RecvBuf, PeerBuf, Past} \subseteq Nat
  /\ FutexMod \in Nat /\ FutexMod > SqueueCap + 1
  /\ CounterMod \in Nat /\ CounterMod > MaxParallel + 1
  /\ Kinds \in [Socket -> SUBSET {"sync", "write", "recv"}]
  /\ MaxOps \in [Socket -> Nat]
  /\ \A list \in Layouts :
       /\ list \in [Level -> Seq(Socket)]
       /\ \A s \in Socket : \E l \in Level : \E i \in DOMAIN list[l] :
            /\ list[l][i] = s
            /\ \A m \in Level : \A j \in DOMAIN list[m] :
                 list[m][j] = s => m = l /\ j = i

VARIABLES
  \* shared memory of each socket
  squeue, squeueFutex, enqueued, dequeued,
  \* the applications
  apc,        \* what is left of enqueue_operation
  submitted,  \* number of operations put in the squeue
  \* the priority threads
  socketList, \* level -> the sockets its thread serves, in list order
  ppc,        \* control point
  pidx,       \* position in the list of sockets
  pdiff,      \* shadow_actual_difference
  pret,       \* where handle_squeue_change returns to
  shadow,     \* socket_futexes
  \* the main loop
  tx,         \* the tx queue of each level
  txFd,       \* the eventfd is readable
  mpc, mlev,  \* control point, level of last_peek or of find
  mop,        \* the operation at hand: level, position, found by the recv scan
  mdeq,       \* dequeued_operations
  fullIter,   \* full_sndbuf_iterations
  \* lwIP and the peer
  inFlight,   \* write_queue: writes lwIP has taken and not yet sent
  recvQueue,  \* recv_queue: recv operations waiting for data
  recvBuf,    \* chunks in recv_buffer
  peer,       \* chunks the peer still has to send
  \* history
  handled,    \* operations performed, in order
  cqueue,     \* results reported, in order
  waiting,    \* operations in the tx queues when one was last performed
  leftEmpty   \* the last iteration of the main loop ended with empty queues

appVars  == <<apc, submitted>>
prioVars == <<ppc, pidx, pdiff, pret, shadow, enqueued, socketList>>
mainVars == <<txFd, mpc, mlev, mop, mdeq, fullIter, dequeued>>
lwipVars == <<inFlight, recvQueue, recvBuf, peer>>
histVars == <<handled, cqueue, waiting, leftEmpty>>
vars == <<squeue, squeueFutex, tx, appVars, prioVars, mainVars, lwipVars, histVars>>

LevelOf(s) == CHOOSE l \in Level :
                \E i \in DOMAIN socketList[l] : socketList[l][i] = s
IndexOf(s) == CHOOSE i \in DOMAIN socketList[LevelOf(s)] :
                socketList[LevelOf(s)][i] = s

NoOp == [lev |-> 0, pos |-> 0, scan |-> FALSE]

\* The sockets are discovered and connected, the first Past operations of each
\* are done; data may have arrived or be on its way.  A thread without sockets
\* sleeps.
Init ==
  /\ squeue = [s \in Socket |-> <<>>]
  /\ squeueFutex = [s \in Socket |-> Past % FutexMod] /\ shadow = squeueFutex
  /\ enqueued = [s \in Socket |-> Past % CounterMod] /\ dequeued = enqueued
  /\ apc = [s \in Socket |-> "idle"]
  /\ submitted = [s \in Socket |-> 0]
  /\ socketList \in Layouts
  /\ ppc = [l \in Level |-> IF socketList[l] = <<>> THEN "asleep" ELSE "fill"]
  /\ pidx = [l \in Level |-> 1]
  /\ pdiff = [l \in Level |-> 0]
  /\ pret = [l \in Level |-> "fill"]
  /\ tx = [l \in Level |-> <<>>]
  /\ txFd = FALSE
  /\ mpc = "select" /\ mlev = 1 /\ mop = NoOp /\ mdeq = 0 /\ fullIter = 0
  /\ inFlight = [s \in Socket |-> <<>>]
  /\ recvQueue = [s \in Socket |-> <<>>]
  /\ recvBuf \in [Socket -> 0..RecvBuf]
  /\ peer \in [Socket -> 0..PeerBuf]
  /\ handled = [s \in Socket |-> <<>>]
  /\ cqueue = [s \in Socket |-> <<>>]
  /\ waiting = {} /\ leftEmpty = TRUE

(***************************************************************************)
(* The application: pifus_socket_<op> and enqueue_operation.               *)
(***************************************************************************)

Submit(s, kind) ==
  /\ apc[s] = "idle"
  /\ submitted[s] < MaxOps[s]
  /\ submitted' = [submitted EXCEPT ![s] = @ + 1]
  /\ squeue' = [squeue EXCEPT
                  ![s] = Append(@, [sock |-> s, id |-> submitted[s] + 1, kind |-> kind])]
  /\ apc' = [apc EXCEPT ![s] = "bump"]
  /\ UNCHANGED <<squeueFutex, tx, prioVars, mainVars, lwipVars, histVars>>

\* The squeue is not full; the operation is put.
AppPut(s, kind) == Len(squeue[s]) < SqueueCap /\ Submit(s, kind)

AppBump(s) ==
  /\ apc[s] = "bump"
  /\ squeueFutex' = [squeueFutex EXCEPT ![s] = (@ + 1) % FutexMod]
  /\ apc' = [apc EXCEPT ![s] = "wake"]
  /\ UNCHANGED <<squeue, tx, submitted, prioVars, mainVars, lwipVars, histVars>>

\* futex_wake: a thread asleep in futex_waitv returns the index of this
\* socket's futex and calls handle_squeue_change for it.
AppWake(s) ==
  /\ apc[s] = "wake"
  /\ apc' = [apc EXCEPT ![s] = "idle"]
  /\ LET l == LevelOf(s) IN
       IF ppc[l] = "asleep"
         THEN /\ ppc' = [ppc EXCEPT ![l] = "diff"]
              /\ pidx' = [pidx EXCEPT ![l] = IndexOf(s)]
              /\ pret' = [pret EXCEPT ![l] = "loop"]
         ELSE UNCHANGED <<ppc, pidx, pret>>
  /\ UNCHANGED <<squeue, squeueFutex, tx, submitted, pdiff, shadow, enqueued, socketList,
                 mainVars, lwipVars, histVars>>

(***************************************************************************)
(* The priority thread of level l.                                         *)
(***************************************************************************)

Current(l) == socketList[l][pidx[l]]

\* fill_prio_waitv compares the futex of the next socket with its shadow;
\* behind the last socket comes futex_waitv.
PrioFill(l) ==
  /\ ppc[l] = "fill"
  /\ IF pidx[l] > Len(socketList[l])
       THEN ppc' = [ppc EXCEPT ![l] = "wait"] /\ UNCHANGED <<pidx, pret>>
       ELSE IF squeueFutex[Current(l)] # shadow[Current(l)]
         THEN /\ ppc' = [ppc EXCEPT ![l] = "diff"]
              /\ pret' = [pret EXCEPT ![l] = "fill"]
              /\ UNCHANGED pidx
         ELSE pidx' = [pidx EXCEPT ![l] = @ + 1] /\ UNCHANGED <<ppc, pret>>
  /\ UNCHANGED <<squeue, squeueFutex, tx, appVars, pdiff, shadow, enqueued, socketList,
                 mainVars, lwipVars, histVars>>

\* handle_squeue_change: how many operations have been announced.
PrioDiff(l) ==
  /\ ppc[l] = "diff"
  /\ pdiff' = [pdiff EXCEPT ![l] =
                 (squeueFutex[Current(l)] - shadow[Current(l)]) % FutexMod]
  /\ ppc' = [ppc EXCEPT ![l] = "limit"]
  /\ UNCHANGED <<squeue, squeueFutex, tx, appVars, pidx, pret, shadow, enqueued, socketList,
                 mainVars, lwipVars, histVars>>

HasMaxParallelOps(s) == (enqueued[s] - dequeued[s]) % CounterMod >= MaxParallel

\* handle_squeue_change returns: to the next socket, or to the loop's start.
Return(l) ==
  /\ ppc' = [ppc EXCEPT ![l] = "fill"]
  /\ pidx' = [pidx EXCEPT ![l] = IF pret[l] = "fill" THEN @ + 1 ELSE 1]
  /\ pdiff' = [pdiff EXCEPT ![l] = 0]
  /\ pret' = [pret EXCEPT ![l] = "fill"]

MoveUnless(l, limited) ==
  /\ ppc[l] = "limit"
  /\ IF pdiff[l] > 0 /\ ~limited
       THEN ppc' = [ppc EXCEPT ![l] = "put"] /\ UNCHANGED <<pidx, pdiff, pret>>
       ELSE Return(l)
  /\ UNCHANGED <<squeue, squeueFutex, tx, appVars, shadow, enqueued, socketList,
                 mainVars, lwipVars, histVars>>

\* Mutant: the rate limit admits one operation too many.
MutPrioLimit(l) ==
  MoveUnless(l, (enqueued[Current(l)] - dequeued[Current(l)]) % CounterMod > MaxParallel)

\* The condition of handle_squeue_change's loop.
PrioLimit(l) == MoveUnless(l, HasMaxParallelOps(Current(l)))

\* The oldest operation is copied to the tx queue, unless that is full or the
\* squeue is empty.
PrioPut(l) ==
  /\ ppc[l] = "put"
  /\ IF squeue[Current(l)] # <<>> /\ Len(tx[l]) < TxCap
       THEN /\ tx' = [tx EXCEPT ![l] = Append(@, Head(squeue[Current(l)]))]
            /\ ppc' = [ppc EXCEPT ![l] = "commit"]
            /\ UNCHANGED <<pidx, pdiff, pret>>
       ELSE Return(l) /\ UNCHANGED tx
  /\ UNCHANGED <<squeue, squeueFutex, appVars, shadow, enqueued, socketList,
                 mainVars, lwipVars, histVars>>

Commit(l, seen) ==
  /\ ppc[l] = "commit"
  /\ squeue' = [squeue EXCEPT ![Current(l)] = Tail(@)]
  /\ pdiff' = [pdiff EXCEPT ![l] = @ - 1]
  /\ shadow' = [shadow EXCEPT ![Current(l)] = (@ + seen) % FutexMod]
  /\ enqueued' = [enqueued EXCEPT ![Current(l)] = (@ + 1) % CounterMod]
  /\ ppc' = [ppc EXCEPT ![l] = "signal"]
  /\ UNCHANGED <<squeueFutex, tx, appVars, pidx, pret, socketList, mainVars, lwipVars, histVars>>

\* Mutant: the shadow is not refreshed.
MutPrioCommit(l) == Commit(l, 0)

\* It is erased from the squeue and accounted for.
PrioCommit(l) == Commit(l, 1)

\* signal_tx_interrupt.
PrioSignal(l) ==
  /\ ppc[l] = "signal"
  /\ txFd' = TRUE
  /\ ppc' = [ppc EXCEPT ![l] = "limit"]
  /\ UNCHANGED <<squeue, squeueFutex, tx, appVars, pidx, pdiff, pret, shadow, enqueued, socketList,
                 mpc, mlev, mop, mdeq, fullIter, dequeued, lwipVars, histVars>>

SleepUnless(l, changed) ==
  /\ ppc[l] = "wait"
  /\ IF changed
       THEN ppc' = [ppc EXCEPT ![l] = "fill"] /\ pidx' = [pidx EXCEPT ![l] = 1]
       ELSE ppc' = [ppc EXCEPT ![l] = "asleep"] /\ UNCHANGED pidx
  /\ UNCHANGED <<squeue, squeueFutex, tx, appVars, pdiff, pret, shadow, enqueued, socketList,
                 mainVars, lwipVars, histVars>>

\* Mutant: the thread goes to sleep without comparing the futex words.
MutPrioWait(l) == SleepUnless(l, FALSE)

\* futex_waitv compares every futex with the shadow it was given and sleeps,
\* or returns EAGAIN and the loop starts over.
PrioWait(l) ==
  SleepUnless(l, \E i \in DOMAIN socketList[l] :
                   squeueFutex[socketList[l][i]] # shadow[socketList[l][i]])

(***************************************************************************)
(* The main loop of the stack.  Input from the network is handled inside   *)
(* default_netif_poll, before the loop callback, by the same thread.       *)
(***************************************************************************)

\* tapif_select returned and has read the eventfd; lwip_loop_iteration starts.
StartIteration ==
  /\ mpc = "select"
  /\ txFd' = FALSE
  /\ mpc' = "peek" /\ mlev' = 1 /\ mdeq' = 0
  /\ UNCHANGED <<squeue, squeueFutex, tx, appVars, prioVars, mop, fullIter, dequeued,
                 handled, waiting, leftEmpty>>

\* enqueue_in_cqueue; the capacity of the cqueue is not reached here.
Report(s, id) == cqueue' = [cqueue EXCEPT ![s] = Append(@, id)]

\* select woke up for the eventfd or for its timeout.
SelectIdle == StartIteration /\ UNCHANGED <<lwipVars, cqueue>>

\* An acknowledgement: tcp_sent_callback completes the oldest write.
SelectAck(s) ==
  /\ StartIteration
  /\ inFlight[s] # <<>> /\ peer[s] < PeerBuf
  /\ Report(s, Head(inFlight[s]))
  /\ inFlight' = [inFlight EXCEPT ![s] = Tail(@)]
  /\ peer' = [peer EXCEPT ![s] = @ + 1]
  /\ UNCHANGED <<recvQueue, recvBuf>>

\* A chunk of data: tcp_recv_callback completes the oldest recv, or keeps the
\* chunk in recv_buffer; refused data stays with the peer.
SelectData(s) ==
  /\ StartIteration
  /\ peer[s] > 0
  /\ \/ /\ recvQueue[s] # <<>>
        /\ Report(s, Head(recvQueue[s]))
        /\ recvQueue' = [recvQueue EXCEPT ![s] = Tail(@)]
        /\ UNCHANGED recvBuf
     \/ /\ recvQueue[s] = <<>> /\ recvBuf[s] < RecvBuf
        /\ recvBuf' = [recvBuf EXCEPT ![s] = @ + 1]
        /\ UNCHANGED <<recvQueue, cqueue>>
  /\ peer' = [peer EXCEPT ![s] = @ - 1]
  /\ UNCHANGED inFlight

\* lwip_loop_iteration returns.
EndIteration(empty) == mpc' = "select" /\ mlev' = 1 /\ leftEmpty' = empty

\* One ring after the other, remembering in last_peek where something was
\* found; fd is the eventfd's state once all were found empty.
Peek(fd) ==
  /\ mpc = "peek"
  /\ \/ /\ mlev = 1 /\ mdeq >= MaxDequeues
        /\ EndIteration(FALSE) /\ UNCHANGED <<mop, txFd>>
     \/ /\ ~(mlev = 1 /\ mdeq >= MaxDequeues)
        /\ \/ /\ tx[mlev] # <<>>
              /\ mop' = [lev |-> mlev, pos |-> 1, scan |-> FALSE]
              /\ mpc' = "handle" /\ UNCHANGED <<mlev, leftEmpty, txFd>>
           \/ /\ tx[mlev] = <<>> /\ mlev < Levels
              /\ mlev' = mlev + 1 /\ UNCHANGED <<mpc, mop, leftEmpty, txFd>>
           \/ /\ tx[mlev] = <<>> /\ mlev = Levels
              /\ EndIteration(TRUE) /\ UNCHANGED mop /\ txFd' = fd
  /\ UNCHANGED <<squeue, squeueFutex, tx, appVars, prioVars, mdeq, fullIter,
                 dequeued, lwipVars, handled, cqueue, waiting>>

\* Mutant: the eventfd is read again when the queues were found empty.
MutMainPeek == Peek(FALSE)

\* The loop's budget, then pifus_priority_aware_ring_buffer_peek.
MainPeek == Peek(txFd)

Op == tx[mop.lev][mop.pos]

\* The operations queued above the lowest level, the one at hand excepted.
Others == UNION {{tx[l][i] : i \in DOMAIN tx[l]} : l \in 1..(Levels - 1)} \ {Op}

\* process_tx_op has performed the operation at hand.
Performed ==
  /\ handled' = [handled EXCEPT ![Op.sock] = Append(@, [id |-> Op.id, kind |-> Op.kind])]
  /\ waiting' = IF mop.scan THEN waiting ELSE Others
  /\ mpc' = "count"
  /\ UNCHANGED <<tx, mlev, mop, fullIter, leftEmpty>>

\* Operations that are done at once, well or badly: bind, listen, close,
\* the application's NOP.
HandleSync ==
  /\ mpc = "handle" /\ Op.kind = "sync"
  /\ Report(Op.sock, Op.id)
  /\ Performed
  /\ UNCHANGED <<squeue, squeueFutex, appVars, prioVars, txFd, mdeq, dequeued, lwipVars>>

\* tx_tcp_write, refused at once: write_queue is full.
HandleWriteError ==
  /\ mpc = "handle" /\ Op.kind = "write"
  /\ Len(inFlight[Op.sock]) = WriteQueueCap
  /\ Report(Op.sock, Op.id)
  /\ Performed
  /\ UNCHANGED <<squeue, squeueFutex, appVars, prioVars, txFd, mdeq, dequeued, lwipVars>>

\* tx_tcp_write, accepted by lwIP.
HandleWrite ==
  /\ mpc = "handle" /\ Op.kind = "write"
  /\ Len(inFlight[Op.sock]) < WriteQueueCap
  /\ inFlight' = [inFlight EXCEPT ![Op.sock] = Append(@, Op.id)]
  /\ Performed
  /\ UNCHANGED <<squeue, squeueFutex, appVars, prioVars, txFd, mdeq, dequeued,
                 recvQueue, recvBuf, peer, cqueue>>

Refused(scan) ==
  /\ mpc = "handle" /\ Op.kind = "write"
  /\ Len(inFlight[Op.sock]) \in 1..(WriteQueueCap - 1)
  /\ IF scan
       THEN mpc' = "scan" /\ mlev' = 1 /\ UNCHANGED <<fullIter, leftEmpty>>
       ELSE /\ EndIteration(FALSE)
            /\ fullIter' = IF fullIter < MaxFullIter THEN fullIter + 1 ELSE fullIter
  /\ mop' = NoOp
  /\ UNCHANGED <<squeue, squeueFutex, tx, appVars, prioVars, txFd, mdeq, dequeued,
                 lwipVars, handled, cqueue, waiting>>

\* Mutant: the scan for recv operations is left out.
MutHandleTryAgain == Refused(FALSE)

\* tx_tcp_write, ERR_MEM from lwIP: the operation stays where it is and the iteration
\* ends; after MaxFullIter refusals in a row the recv operations behind it
\* are looked for.
HandleTryAgain == Refused(fullIter >= MaxFullIter)

\* tx_tcp_recv: served from recv_buffer, queued for data to come, or refused
\* when recv_queue is full.
HandleRecv ==
  /\ mpc = "handle" /\ Op.kind = "recv"
  /\ \/ /\ recvBuf[Op.sock] > 0
        /\ recvBuf' = [recvBuf EXCEPT ![Op.sock] = @ - 1]
        /\ Report(Op.sock, Op.id)
        /\ UNCHANGED recvQueue
     \/ /\ recvBuf[Op.sock] = 0 /\ Len(recvQueue[Op.sock]) < RecvQueueCap
        /\ recvQueue' = [recvQueue EXCEPT ![Op.sock] = Append(@, Op.id)]
        /\ UNCHANGED <<recvBuf, cqueue>>
     \/ /\ recvBuf[Op.sock] = 0 /\ Len(recvQueue[Op.sock]) >= RecvQueueCap
        /\ Report(Op.sock, Op.id)
        /\ UNCHANGED <<recvBuf, recvQueue>>
  /\ Performed
  /\ UNCHANGED <<squeue, squeueFutex, appVars, prioVars, txFd, mdeq, dequeued,
                 inFlight, peer>>

\* A recv operation the scan has taken before its turn.
HandleNop ==
  /\ mpc = "handle" /\ Op.kind = "nop"
  /\ tx' = [tx EXCEPT ![mop.lev] = Tail(@)]
  /\ mpc' = "peek" /\ mlev' = 1 /\ mop' = NoOp
  /\ UNCHANGED <<squeue, squeueFutex, appVars, prioVars, txFd, mdeq, fullIter, dequeued,
                 lwipVars, histVars>>

\* Mutant: the scan accepts whatever is behind the refused operation.
MutRecvAt(l) == {i \in DOMAIN tx[l] : i > 1 /\ tx[l][i].kind # "nop"}

\* pifus_priority_aware_ring_buffer_find, ring after ring.
RecvAt(l) == {i \in DOMAIN tx[l] : tx[l][i].kind = "recv"}

MainScan ==
  /\ mpc = "scan"
  /\ \/ \E i \in RecvAt(mlev) :
          /\ \A j \in RecvAt(mlev) : i <= j
          /\ mop' = [lev |-> mlev, pos |-> i, scan |-> TRUE]
          /\ mpc' = "handle"
          /\ UNCHANGED <<mlev, leftEmpty>>
     \/ /\ RecvAt(mlev) = {} /\ mlev < Levels
        /\ mlev' = mlev + 1
        /\ UNCHANGED <<mpc, mop, leftEmpty>>
     \/ /\ RecvAt(mlev) = {} /\ mlev = Levels
        /\ EndIteration(FALSE)
        /\ UNCHANGED mop
  /\ UNCHANGED <<squeue, squeueFutex, tx, appVars, prioVars, txFd, mdeq, fullIter,
                 dequeued, lwipVars, handled, cqueue, waiting>>

Count(n) ==
  /\ mpc = "count"
  /\ dequeued' = [dequeued EXCEPT ![Op.sock] = (@ + n) % CounterMod]
  /\ mpc' = "erase"
  /\ UNCHANGED <<squeue, squeueFutex, tx, appVars, prioVars, txFd, mlev, mop, mdeq,
                 fullIter, lwipVars, histVars>>

\* Mutant: dequeued_ops is not counted.
MutMainCount == Count(0)

\* dequeued_ops, which the priority thread reads.
MainCount == Count(1)

Erase(left, lev) ==
  /\ mpc = "erase"
  /\ IF mop.scan
       THEN /\ tx' = [tx EXCEPT ![mop.lev][mop.pos].kind = left]
            /\ UNCHANGED <<fullIter, mdeq>>
       ELSE /\ tx' = [tx EXCEPT ![mop.lev] = Tail(@)]
            /\ fullIter' = 0
            /\ mdeq' = mdeq + 1
  /\ mpc' = "peek" /\ mlev' = lev /\ mop' = NoOp
  /\ UNCHANGED <<squeue, squeueFutex, appVars, prioVars, txFd, dequeued, lwipVars, histVars>>

\* Mutant: an operation taken by the scan stays in the tx queue.
MutMainErase == Erase("recv", 1)

\* Mutant: the next peek resumes at the level of the last one.
MutMainEraseLevel == Erase("nop", mop.lev)

\* An operation taken by the scan becomes a NOP where it is, any other one
\* leaves the ring of last_peek.
MainErase == Erase("nop", 1)

App(s)  == (\E k \in Kinds[s] : AppPut(s, k)) \/ AppBump(s) \/ AppWake(s)
Prio(l) == \/ PrioFill(l) \/ PrioDiff(l) \/ PrioLimit(l) \/ PrioPut(l)
           \/ PrioCommit(l) \/ PrioSignal(l) \/ PrioWait(l)
Net(s)  == SelectAck(s) \/ SelectData(s)
Main    == \/ SelectIdle \/ MainPeek \/ HandleSync \/ HandleWriteError \/ HandleWrite
           \/ HandleTryAgain \/ HandleRecv \/ HandleNop \/ MainScan \/ MainCount \/ MainErase

Next == \/ \E s \in Socket : App(s) \/ Net(s)
        \/ \E l \in Level : Prio(l)
        \/ Main

Spec == Init /\ [][Next]_vars

\* Every thread keeps running: an application finishes the submission it has
\* begun, a priority thread and the main loop take their next step, and
\* select always returns (lwIP's cyclic timers bound its timeout).  What the
\* network can deliver is delivered again and again until select sees it.
Fairness ==
  /\ \A s \in Socket : WF_vars(AppBump(s) \/ AppWake(s))
  /\ \A l \in Level : WF_vars(Prio(l))
  /\ WF_vars(Main)
  /\ \A s \in Socket : SF_vars(SelectAck(s)) /\ SF_vars(SelectData(s))

FairSpec == Spec /\ Fairness
-----------------------------------------------------------------------------
Ids(seq) == {seq[i].id : i \in DOMAIN seq}

\* Positions of the operations of s in the tx queue of level l that are still
\* to be performed; the main loop has already performed the one at hand when
\* it is about to count or erase it.
Pending(s, l) ==
  {i \in DOMAIN tx[l] :
     /\ tx[l][i].sock = s /\ tx[l][i].kind # "nop"
     /\ ~(mpc \in {"count", "erase"} /\ mop.lev = l /\ mop.pos = i)}

PendingIds(s) == {tx[LevelOf(s)][i].id : i \in Pending(s, LevelOf(s))}

\* The thread of s has copied the head of the squeue and not erased it yet.
InTransit(s) == ppc[LevelOf(s)] = "commit" /\ Current(LevelOf(s)) = s

OpType == [sock : Socket, id : Nat \ {0}, kind : {"sync", "write", "recv", "nop"}]

\* Shape of the variables; every ring respects its capacity.
TypeOK ==
  /\ \A s \in Socket :
       /\ squeue[s] \in Seq(OpType) /\ Len(squeue[s]) <= SqueueCap
       /\ squeueFutex[s] \in 0..(FutexMod - 1) /\ shadow[s] \in 0..(FutexMod - 1)
       /\ enqueued[s] \in 0..(CounterMod - 1) /\ dequeued[s] \in 0..(CounterMod - 1)
       /\ apc[s] \in {"idle", "bump", "wake"} /\ submitted[s] \in 0..MaxOps[s]
       /\ Len(inFlight[s]) <= WriteQueueCap /\ Len(recvQueue[s]) <= RecvQueueCap
       /\ recvBuf[s] \in 0..RecvBuf /\ peer[s] \in 0..PeerBuf
  /\ \A l \in Level :
       /\ ppc[l] \in {"fill", "diff", "limit", "put", "commit", "signal", "wait", "asleep"}
       /\ pidx[l] \in 1..(Len(socketList[l]) + 1)
       /\ pdiff[l] \in 0..SqueueCap /\ pret[l] \in {"fill", "loop"}
       /\ tx[l] \in Seq(OpType) /\ Len(tx[l]) <= TxCap
  /\ txFd \in BOOLEAN /\ mlev \in Level /\ fullIter \in 0..MaxFullIter
  /\ mpc \in {"select", "peek", "handle", "scan", "count", "erase"}
  /\ mdeq \in 0..MaxDequeues
  /\ mop = NoOp \/ (mop.lev \in Level /\ mop.pos \in DOMAIN tx[mop.lev])

\* Between the application's put and the main loop's erase_first an operation
\* is neither lost nor duplicated, in spite of the copy-then-erase hand-over
\* in handle_squeue_change and the NOPs the recv scan leaves behind.
EachOpOnce ==
  \A s \in Socket :
    LET rest == IF InTransit(s) THEN Tail(squeue[s]) ELSE squeue[s] IN
      /\ Ids(handled[s]) \union PendingIds(s) \union Ids(rest) = 1..submitted[s]
      /\ Len(handled[s]) + Cardinality(PendingIds(s)) + Len(rest) = submitted[s]

\* Operations of a socket are performed in the order of their submission; the
\* only exception is a recv that handle_operation's scan takes before a
\* non-recv operation.
PerformedInOrder ==
  \A s \in Socket : \A j \in DOMAIN handled[s] : \A i \in 1..(j - 1) :
    handled[s][i].id < handled[s][j].id
      \/ (handled[s][i].kind = "recv" /\ handled[s][j].kind # "recv")

\* TX_MAX_PARALLEL_OPS_PER_SOCKET really bounds what one socket has in its tx
\* queue, although the main loop may count an operation as dequeued before
\* the priority thread has counted it as enqueued.  Every ring keeps to its
\* capacity, too (TypeOK).
RateLimited ==
  /\ TypeOK
  /\ \A s \in Socket : Cardinality(Pending(s, LevelOf(s))) <= MaxParallel

\* handle_squeue_change never takes the "Could not get() from squeue" exit:
\* what the futex word announces is in the squeue, across its wrap-around.
AnnouncedOpsPresent ==
  \A l \in Level : ppc[l] \in {"put", "commit"} => squeue[Current(l)] # <<>>

\* No lost wake-up: a priority thread sleeps in futex_waitv only while every
\* futex equals its shadow or the wake call is still to come.
SleepSafe ==
  \A l \in Level : ppc[l] = "asleep" =>
    \A i \in DOMAIN socketList[l] :
      LET s == socketList[l][i] IN squeueFutex[s] = shadow[s] \/ apc[s] = "wake"

\* No lost eventfd signal: when the main loop found all queues empty and is
\* about to wait in select with nothing to wake it, nothing is queued except
\* what a priority thread is about to signal.
SignalNotLost ==
  mpc = "select" /\ ~txFd /\ leftEmpty =>
    \A l \in Level : tx[l] = <<>> \/ ppc[l] \in {"commit", "signal"}

\* Priority inversion is bounded by one operation: an operation already
\* queued when the main loop last performed one is not passed over by an
\* operation of a lower priority (the recv scan apart).
BoundedInversion ==
  mpc = "handle" /\ ~mop.scan =>
    \A l \in 1..(mop.lev - 1) : \A i \in DOMAIN tx[l] : tx[l][i] \notin waiting

\* Every submitted operation is performed: whatever is at its limit, the
\* stack catches up with its applications, which submit finitely many.
EveryOpPerformed == []<>(\A s \in Socket : Len(handled[s]) = submitted[s])

\* A recv that has reached its tx queue is performed even when the write at
\* the head of the queues is refused for ever: what MAX_FULL_SND_BUF_ITERATIONS
\* is for.  (An application submits finitely many, so every recv leaves the
\* queues if they are free of recv operations again and again.)
QueuedRecvPerformed == []<>(\A l \in Level : RecvAt(l) = {})

\* The scan for recv operations "to prevent deadlock, as SNDBUF was full": no
\* submitted recv waits for ever behind writes that lwIP refuses, in the tx
\* queues or in a squeue.
ScanPreventsDeadlock ==
  []<>(/\ \A l \in Level : RecvAt(l) = {}
       /\ \A s \in Socket : \A i \in DOMAIN squeue[s] : squeue[s][i].kind # "recv")
=============================================================================
