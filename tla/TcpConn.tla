------------------------------ MODULE TcpConn -------------------------------
(***************************************************************************)
(* The life of TCP sockets: the operations process_tx_op performs          *)
(* (lwip/custom/stack/src/tcp/{bind,connect,listen,accept,write,close}.c), *)
(* lwIP's callbacks for them, and what dequeue_operation does with their   *)
(* results in the application (api/src/pifus_socket.c).  recv is TcpRecv.  *)
(*                                                                         *)
(* A socket holds a pointer to a control block of lwIP (a pcb).  lwIP      *)
(* frees a pcb when its connection ends and uses the memory again; gen     *)
(* counts the times it was allocated, so that a pointer to the connection  *)
(* a socket was made for can be told from one to whatever lies there now.  *)
(* lwIP calls an error callback when it gives a connection up, but the     *)
(* stack registers none (stack.c has tcp_err_callback; tcp_err is never    *)
(* called).  An operation on a pcb that is no longer the socket's has no   *)
(* defined outcome: the model stops there and says why.                    *)
(*                                                                         *)
(* The operations of a socket come in the order in which they were         *)
(* submitted (TxPath), and the cqueue has room (CompletionPath has the     *)
(* full one).                                                              *)
(***************************************************************************)
EXTENDS Integers, Sequences, FiniteSets, Folds

CONSTANTS
  Socket,        \* sockets, numbered in order of creation
  Pcb,           \* memory for connections: MEMP_NUM_TCP_PCB
  ListenPcb,     \* memory for listening pcbs: MEMP_NUM_TCP_PCB_LISTEN
  None,          \* NULL
  Sizes,         \* sizes the application writes
  SndBuf,        \* TCP_SND_BUF
  LenMod,        \* 2^16: the length tcp_write takes is a u16_t
  WriteQueueCap, \* WRITE_QUEUE_SIZE - 1
  SqueueCap,     \* SQUEUE_SIZE - 1
  Kinds,         \* kinds of operations the application submits
  Priority,      \* socket -> its priority: 0 is PRIORITY_LOW
  MaxWrites,     \* bound: writes submitted
  MaxOps,        \* bound: other operations submitted
  MaxConns       \* bound: incoming connections, of a pcb and of a listening socket

ASSUME ConnAssumption ==
  /\ Socket \subseteq Nat /\ IsFiniteSet(Socket)
  /\ Pcb \intersect ListenPcb = {} /\ None \notin Pcb \union ListenPcb \union Socket
  /\ Sizes \subseteq Nat \ {0}
  /\ {SndBuf, LenMod, WriteQueueCap, SqueueCap, MaxWrites, MaxOps, MaxConns} \subseteq Nat \ {0}
  /\ SndBuf < LenMod
  /\ Priority \in [Socket -> Nat]
  /\ Kinds \subseteq {"bind", "connect", "listen", "accept", "write", "close"}

VARIABLES
  \* lwIP
  state,     \* pcb -> its state
  arg,       \* pcb -> callback_arg
  accepting, \* listening pcb -> tcp_accepted_callback is registered
  unacked,   \* pcb -> [block, len] of what is sent or to be sent, unacknowledged
  gen,       \* history: pcb -> how often it was allocated
  \* shared memory of each socket
  phase,     \* unused, made, gone (unlinked by the application)
  pcb,       \* pcb.tcp
  ops,       \* operations submitted and not yet performed
  writeQueue,\* write_queue
  cqueue,    \* results the application has not dequeued
  making,    \* the socket being made for an accepted connection
  \* the stack
  mapped,    \* the discovery thread has mapped the socket
  main,      \* what the main thread is in the middle of
  refused,   \* sockets whose next operation is a write that was refused
  halt,      \* why the model stops
  \* history
  own,       \* socket -> gen of the pcb it was given
  issued,    \* socket -> operations submitted
  answers,   \* socket -> results put in its cqueue, in order
  freed,     \* blocks the application has freed
  early,     \* sockets that were mapped before their pcb was set
  ended      \* <<pcb, gen>> of connections lwIP has given up

lwipVars == <<state, arg, accepting, unacked, gen, ended>>
sockVars == <<phase, pcb, writeQueue, mapped, own, refused>>
appVars  == <<ops, issued, freed, making, early>>
resVars  == <<cqueue, answers>>
vars == <<lwipVars, sockVars, appVars, resVars, main, halt>>

AnyPcb == Pcb \union ListenPcb
Idle   == [at |-> "idle", who |-> None, len |-> 0]
Stopped(why, who) == [why |-> why, who |-> who]
Running == Stopped("no", None)
Nobody  == [who |-> None, pcb |-> None, gen |-> 0]

Init ==
  /\ state = [p \in AnyPcb |-> "free"] /\ arg = [p \in AnyPcb |-> None]
  /\ accepting = [p \in ListenPcb |-> FALSE] /\ unacked = [p \in Pcb |-> <<>>]
  /\ gen = [p \in AnyPcb |-> 0]
  /\ phase = [s \in Socket |-> "unused"] /\ pcb = [s \in Socket |-> None]
  /\ ops = [s \in Socket |-> <<>>] /\ writeQueue = [s \in Socket |-> <<>>]
  /\ cqueue = [s \in Socket |-> <<>>] /\ mapped = [s \in Socket |-> FALSE]
  /\ main = Idle /\ halt = Running /\ refused = {}
  /\ own = [s \in Socket |-> 0] /\ issued = [s \in Socket |-> <<>>]
  /\ answers = [s \in Socket |-> <<>>] /\ freed = {} /\ ended = {}
  /\ making = Nobody /\ early = {}

\* The pcb a socket points to is the one it was given.
Owned(s) == pcb[s] # None /\ state[pcb[s]] # "free" /\ gen[pcb[s]] = own[s]

Free(pool) == {p \in pool : state[p] = "free"}

\* The bytes of the first i segments of a queue, for every i.
UpTo(q) ==
  LET upTo[i \in 0..Len(q)] == IF i = 0 THEN 0 ELSE upTo[i - 1] + q[i].len
  IN  upTo

\* Bytes lwIP holds for a connection.
Held(p) == UpTo(unacked[p])[Len(unacked[p])]

(***************************************************************************)
(* The application                                                         *)
(***************************************************************************)

NextSocket == CHOOSE s \in Socket : phase[s] = "unused"
                                 /\ \A t \in Socket : phase[t] = "unused" => s <= t

\* The application is single-threaded: it does one thing at a time.
AppIdle == halt = Running /\ making = Nobody

Publish(s) == phase' = [phase EXCEPT ![s] = "made"]

\* pifus_socket
Create ==
  /\ AppIdle
  /\ \E s \in Socket : phase[s] = "unused"
  /\ Publish(NextSocket)
  /\ UNCHANGED <<lwipVars, appVars, resVars, pcb, own, writeQueue, mapped, refused, main, halt>>

\* Mutant: the pcb of an accepted connection is dropped.
MutTakePcb(s, p, g) == UNCHANGED <<pcb, own>>

TakePcb(s, p, g) ==
  /\ pcb' = [pcb EXCEPT ![s] = p]
  /\ own' = [own EXCEPT ![s] = g]

\* pifus_socket_with_tcp_pcb: the socket is published, and found by the
\* discovery thread, before it gets the pcb.
SetPcb ==
  /\ halt = Running /\ making # Nobody
  /\ TakePcb(making.who, making.pcb, making.gen)
  /\ early' = IF mapped[making.who] THEN early \union {making.who} ELSE early
  /\ making' = Nobody
  /\ UNCHANGED <<lwipVars, resVars, phase, writeQueue, mapped, refused, ops, issued, freed,
                 main, halt>>

\* How many operations were submitted, writes or others.
Count(writes) == MapThenFoldSet(+, 0,
  LAMBDA s : Cardinality({i \in DOMAIN issued[s] : (issued[s][i].kind = "write") = writes}),
  LAMBDA S : CHOOSE s \in S : TRUE, Socket)

\* "after this is returned successfully (in cqueue), no further operations can
\* be issued on the socket" (pifus_socket_close): behind a close that has not
\* been dequeued they can.
Submit(s, kind, size) ==
  /\ AppIdle
  /\ phase[s] = "made"
  /\ Count(kind = "write") < (IF kind = "write" THEN MaxWrites ELSE MaxOps)
  /\ Len(ops[s]) < SqueueCap
  /\ LET op == [kind |-> kind, id |-> Len(issued[s]) + 1, size |-> size]
     IN /\ issued' = [issued EXCEPT ![s] = Append(@, op)]
        /\ ops' = [ops EXCEPT ![s] = Append(@, op)]
  /\ UNCHANGED <<lwipVars, sockVars, resVars, freed, making, early, main, halt>>

\* dequeue_operation: a write's block is freed, an accepted connection gets a
\* socket, a closed socket is unlinked.
Dequeue(s) ==
  /\ AppIdle
  /\ phase[s] = "made" /\ cqueue[s] # <<>>
  /\ LET r == Head(cqueue[s]) IN
       /\ cqueue' = [cqueue EXCEPT ![s] = Tail(@)]
       /\ freed' = IF r.kind = "write" THEN freed \union {<<s, r.id>>} ELSE freed
       /\ \/ /\ r.kind = "accept"
             /\ \E t \in Socket : phase[t] = "unused"
             /\ Publish(NextSocket)
             /\ making' = [who |-> NextSocket, pcb |-> r.pcb, gen |-> r.gen]
          \/ /\ r.kind = "close"
             /\ phase' = [phase EXCEPT ![s] = "gone"]
             /\ UNCHANGED making
          \/ r.kind \notin {"accept", "close"} /\ UNCHANGED <<phase, making>>
  /\ UNCHANGED <<lwipVars, pcb, own, writeQueue, mapped, refused, ops, issued, early, answers,
                 main, halt>>

\* The discovery thread: tcp_arg for a socket that comes with a pcb.
Map(s) ==
  /\ halt = Running
  /\ phase[s] # "unused" /\ ~mapped[s]
  /\ mapped' = [mapped EXCEPT ![s] = TRUE]
  /\ IF pcb[s] # None /\ ~Owned(s)
       THEN halt' = Stopped("stale", s) /\ UNCHANGED arg
       ELSE /\ arg' = IF pcb[s] = None THEN arg ELSE [arg EXCEPT ![pcb[s]] = s]
            /\ UNCHANGED halt
  /\ UNCHANGED <<state, accepting, unacked, gen, ended, phase, pcb, writeQueue, own,
                 refused, appVars, resVars, main>>

(***************************************************************************)
(* The main thread: process_tx_op.  main.at is "op" once a new pcb was     *)
(* made for the operation that comes next.                                 *)
(***************************************************************************)

Op(s)   == Head(ops[s])
Done(s) == ops' = [ops EXCEPT ![s] = Tail(@)]


\* A refused write stays at the head of the tx queue of its priority, where
\* lwip_loop_iteration finds it again and gives up: nothing behind it and nothing
\* in a queue that is looked at after it is performed before it.
AtHead(s) == \A t \in refused \ {s} : Priority[t] < Priority[s]

\* An operation's result.  dequeue_operation does not look at the result code,
\* and it is kept only for writes.
Result(kind, id, ok) == [kind |-> kind, id |-> id, ok |-> kind = "write" => ok, pcb |-> None, gen |-> 0]

\* enqueue_in_cqueue
Report(s, r) ==
  /\ cqueue' = [cqueue EXCEPT ![s] = Append(@, r)]
  /\ answers' = [answers EXCEPT ![s] = Append(@, r)]

\* tcp_alloc
Alloc(p, st, a) ==
  /\ state' = [state EXCEPT ![p] = st]
  /\ gen' = [gen EXCEPT ![p] = @ + 1]
  /\ arg' = [arg EXCEPT ![p] = a]

\* The first operation of a socket that came without a pcb gets a new one; that
\* the pool has none is not checked for.
NewPcb(s) ==
  /\ halt = Running /\ main = Idle
  /\ mapped[s] /\ ops[s] # <<>> /\ AtHead(s) /\ pcb[s] = None
  /\ \/ /\ \E p \in Free(Pcb) :
             /\ Alloc(p, "new", s)
             /\ pcb' = [pcb EXCEPT ![s] = p]
             /\ own' = [own EXCEPT ![s] = gen[p] + 1]
        /\ main' = [Idle EXCEPT !.at = "op", !.who = s]
        /\ UNCHANGED halt
     \/ /\ Free(Pcb) = {}
        /\ halt' = Stopped("no pcb", s)
        /\ UNCHANGED <<state, gen, arg, pcb, own, main>>
  /\ UNCHANGED <<accepting, unacked, ended, phase, writeQueue, mapped, refused, appVars, resVars>>

\* The next operation of a socket whose pcb is no longer its own.
Stale(s) ==
  /\ halt = Running /\ main = Idle
  /\ mapped[s] /\ ops[s] # <<>> /\ AtHead(s) /\ pcb[s] # None /\ ~Owned(s)
  /\ halt' = Stopped("stale", s)
  /\ UNCHANGED <<lwipVars, sockVars, appVars, resVars, main>>

Performing(s, kind) ==
  /\ halt = Running
  /\ main = Idle \/ (main.at = "op" /\ main.who = s)
  /\ mapped[s] /\ ops[s] # <<>> /\ AtHead(s) /\ Op(s).kind = kind /\ Owned(s)

\* The operation is done, with a result for the cqueue or, if it goes on
\* (PIFUS_ASYNC), without.
Finish(s, ok) == main' = Idle /\ Done(s) /\ Report(s, Result(Op(s).kind, Op(s).id, ok))

\* Mutant: an operation that goes on is reported at once.
MutAsync(s) == Finish(s, TRUE)

Async(s) == main' = Idle /\ Done(s) /\ UNCHANGED resVars

\* tx_tcp_bind: lwIP binds a new pcb, unless the port is taken; the result
\* comes at once.
Bind(s) ==
  /\ Performing(s, "bind")
  /\ Finish(s, TRUE)
  /\ UNCHANGED <<lwipVars, sockVars, issued, freed, making, early, halt>>

\* tcp_connect: lwIP sends a SYN from a new pcb.
TcpConnect(p) == state[p] = "new" /\ state' = [state EXCEPT ![p] = "connecting"]

\* tx_tcp_connect: it may fail for lack of a route or of memory.
Connect(s) ==
  /\ Performing(s, "connect")
  /\ \/ TcpConnect(pcb[s]) /\ Async(s)
     \/ Finish(s, FALSE) /\ UNCHANGED state
  /\ UNCHANGED <<arg, accepting, unacked, gen, ended, sockVars, issued, freed, making, early, halt>>

\* Mutant: the socket keeps the pcb that tcp_listen has freed.
MutListenTakes(s, p) == UNCHANGED <<pcb, own>>

\* The listening pcb takes the place of the one that was bound.
ListenTakes(s, p) ==
  /\ pcb' = [pcb EXCEPT ![s] = p]
  /\ own' = [own EXCEPT ![s] = gen[p] + 1]

\* tcp_listen: lwIP allocates a listening pcb and frees the other.
TcpListen(p, l) ==
  /\ state[p] = "new" /\ state[l] = "free"
  /\ state' = [state EXCEPT ![p] = "free", ![l] = "listen"]
  /\ gen' = [gen EXCEPT ![l] = @ + 1]
  /\ arg' = [arg EXCEPT ![l] = arg[p]]
  /\ accepting' = [accepting EXCEPT ![l] = FALSE]

\* tx_tcp_listen
Listen(s) ==
  /\ Performing(s, "listen")
  /\ \/ \E l \in ListenPcb : TcpListen(pcb[s], l) /\ ListenTakes(s, l) /\ Finish(s, TRUE)
     \/ /\ state[pcb[s]] # "new" \/ Free(ListenPcb) = {}
        /\ Finish(s, FALSE)
        /\ UNCHANGED <<state, gen, arg, accepting, pcb, own>>
  /\ UNCHANGED <<unacked, ended, phase, writeQueue, mapped, refused, issued, freed, making, early,
                 halt>>

\* tcp_accept: a pcb that is not listening is left alone.
TcpAccept(p) ==
  accepting' = [l \in ListenPcb |-> accepting[l] \/ (l = p /\ state[l] = "listen")]

\* tx_tcp_accept, which has no result of its own
Accept(s) ==
  /\ Performing(s, "accept")
  /\ TcpAccept(pcb[s]) /\ Async(s)
  /\ UNCHANGED <<state, arg, unacked, gen, ended, sockVars, issued, freed, making, early, halt>>

\* Mutant: every write counts for one byte.
MutEntry(s) == [block |-> <<s, Op(s).id>>, size |-> 1]

\* The write_queue_entry: the size of the block, not what tcp_write got of it.
Entry(s) == [block |-> <<s, Op(s).id>>, size |-> Op(s).size]

\* What tcp_write gets of a size_t.
Length(size) == size % LenMod

CanSend(p) == state[p] \in {"connecting", "open"}

\* tcp_write_checks: the send buffer takes the bytes.
Room(p, len) == len <= SndBuf - Held(p)

\* tcp_write: the data is not copied, lwIP refers to the block until it is
\* acknowledged.
TcpWrite(p, block, len) ==
  unacked' = IF len = 0 THEN unacked
             ELSE [unacked EXCEPT ![p] = Append(@, [block |-> block, len |-> len])]

\* tx_tcp_write.  A write that finds no room in the send buffer is tried again
\* (PIFUS_TRY_AGAIN), and holds up what is behind it meanwhile.
Write(s) ==
  /\ Performing(s, "write")
  /\ LET p == pcb[s]
         len == Length(Op(s).size)
         full == Len(writeQueue[s]) = WriteQueueCap
     IN \/ /\ ~full /\ CanSend(p) /\ Room(p, len)
           /\ TcpWrite(p, Entry(s).block, len)
           /\ writeQueue' = [writeQueue EXCEPT ![s] = Append(@, Entry(s))]
           /\ Async(s) /\ refused' = refused \ {s}
        \/ /\ ~full /\ CanSend(p) /\ ~Room(p, len)
           /\ main' = Idle /\ refused' = refused \union {s}
           /\ UNCHANGED <<unacked, writeQueue, ops, resVars>>
        \/ /\ full \/ ~CanSend(p)
           /\ Finish(s, FALSE) /\ refused' = refused \ {s}
           /\ UNCHANGED <<unacked, writeQueue>>
  /\ UNCHANGED <<state, arg, accepting, gen, ended, phase, pcb, mapped, own, issued, freed, making, early, halt>>

\* tcp_pcb_remove and tcp_free: with the pcb go its segments.
TcpPcbRemove(p) ==
  /\ state' = [state EXCEPT ![p] = "free"]
  /\ unacked' = [q \in Pcb |-> IF q = p THEN <<>> ELSE unacked[q]]

\* tcp_close: a connection is closed in order, or reset if there is data the
\* application has not received; any other pcb is freed at once.
TcpClose(p) ==
  \/ /\ state[p] \in {"open", "closing"}
     /\ state' = [state EXCEPT ![p] = "closing"]
     /\ UNCHANGED unacked
  \/ state[p] # "closing" /\ TcpPcbRemove(p)

\* tx_tcp_close: pcb.tcp stays as it is.
Close(s) ==
  /\ Performing(s, "close")
  /\ TcpClose(pcb[s]) /\ Finish(s, TRUE)
  /\ UNCHANGED <<arg, accepting, gen, ended, sockVars, issued, freed, making, early, halt>>

(***************************************************************************)
(* lwIP: events on a connection and the callbacks it makes for them.       *)
(***************************************************************************)

Event == halt = Running /\ main = Idle

\* tcp_connected_callback
Connected(p) == Report(arg[p], Result("connect", 0, TRUE))

\* The peer answers the SYN.
SynAck(p) ==
  /\ Event /\ state[p] = "connecting"
  /\ state' = [state EXCEPT ![p] = "open"]
  /\ Connected(p)
  /\ UNCHANGED <<arg, accepting, unacked, gen, ended, sockVars, appVars, main, halt>>

\* Mutant: the new connection inherits the argument of the listening pcb.
MutAcceptedArg(l) == arg[l]

\* tcp_arg(newpcb, NULL)
AcceptedArg(l) == None

\* tcp_accepted_callback: the new pcb, if there is one, goes to the application.
Accepted(s, p, g) ==
  Report(s, [kind |-> "accept", id |-> 0, ok |-> TRUE, pcb |-> p, gen |-> g])

\* A peer connects to a listening pcb.  (Without a callback tcp_accept_null
\* aborts the connection.)
Incoming(l) ==
  /\ Event /\ state[l] = "listen" /\ accepting[l]
  /\ \E p \in Free(Pcb) :
       /\ gen[p] < MaxConns
       /\ Alloc(p, "open", AcceptedArg(l))
       /\ Accepted(arg[l], p, gen[p] + 1)
  /\ UNCHANGED <<accepting, unacked, ended, sockVars, appVars, main, halt>>

\* Without memory for the connection lwIP makes the same call with NULL and
\* ERR_MEM.  The callback does not look: it reports an accepted connection.
IncomingNoMem(l) ==
  /\ Event /\ state[l] = "listen" /\ accepting[l]
  /\ Free(Pcb) = {}
  /\ Cardinality({i \in DOMAIN answers[arg[l]] : answers[arg[l]][i].kind = "accept"}) < MaxConns
  /\ Accepted(arg[l], None, 0)
  /\ UNCHANGED <<lwipVars, sockVars, appVars, main, halt>>

\* tcp_free_acked_segments: the first n bytes leave lwIP.
Acked(p, n) ==
  LET q == unacked[p]
      k == Cardinality({i \in DOMAIN q : UpTo(q)[i] <= n})
  IN [i \in 1..(Len(q) - k) |-> IF i = 1 THEN [q[k + 1] EXCEPT !.len = UpTo(q)[k + 1] - n]
                                        ELSE q[k + i]]

\* The peer acknowledges n bytes, and tcp_sent_callback is called.
Ack(p, n) ==
  /\ Event /\ state[p] \in {"open", "closing"}
  /\ unacked' = [unacked EXCEPT ![p] = Acked(p, n)]
  /\ main' = [at |-> "sent", who |-> p, len |-> n]
  /\ UNCHANGED <<state, arg, accepting, gen, ended, sockVars, appVars, resVars, halt>>

\* Mutant: a write is reported as soon as some of it is acknowledged.
MutCovered(entry, len) == len > 0

\* The acknowledged bytes reach the end of the oldest write.
Covered(entry, len) == entry.size <= len

\* Bytes that are left for the writes behind it.
Rest(entry, len) == len - entry.size

\* One call of tcp_sent_callback, which calls itself for the bytes left over.
\* It uses its socket without looking, and an empty queue ends the stack.
Sent ==
  /\ halt = Running /\ main.at = "sent"
  /\ LET s == arg[main.who] IN
     \/ /\ s = None
        /\ halt' = Stopped("null", main.who)
        /\ UNCHANGED <<writeQueue, resVars, main>>
     \/ /\ s # None /\ writeQueue[s] = <<>>
        /\ halt' = Stopped("exit", s)
        /\ UNCHANGED <<writeQueue, resVars, main>>
     \/ /\ s # None /\ writeQueue[s] # <<>>
        /\ LET e == Head(writeQueue[s]) IN
             IF Covered(e, main.len)
               THEN /\ writeQueue' = [writeQueue EXCEPT ![s] = Tail(@)]
                    /\ Report(s, Result("write", e.block[2], TRUE))
                    /\ main' = IF Rest(e, main.len) > 0
                                 THEN [main EXCEPT !.len = Rest(e, @)] ELSE Idle
               ELSE /\ writeQueue' = [writeQueue EXCEPT ![s][1].size = @ - main.len]
                    /\ main' = Idle /\ UNCHANGED resVars
        /\ UNCHANGED halt
  /\ UNCHANGED <<lwipVars, phase, pcb, mapped, own, refused, appVars>>

\* lwIP gives a connection up: a reset from the peer, or too many
\* retransmissions.  No error callback is registered.
Reset(p) ==
  /\ Event /\ state[p] \in {"connecting", "open", "closing"}
  /\ TcpPcbRemove(p)
  /\ ended' = ended \union {<<p, gen[p]>>}
  /\ UNCHANGED <<arg, accepting, gen, sockVars, appVars, resVars, main, halt>>

\* A closed connection has sent everything and is gone.
Gone(p) ==
  /\ Event /\ state[p] = "closing" /\ unacked[p] = <<>>
  /\ TcpPcbRemove(p)
  /\ UNCHANGED <<arg, accepting, gen, ended, sockVars, appVars, resVars, main, halt>>

Perform(s) == Bind(s) \/ Connect(s) \/ Listen(s) \/ Accept(s) \/ Write(s) \/ Close(s)
Acks(p)    == \E n \in 1..Held(p) : Ack(p, n)

Next ==
  \/ Create \/ SetPcb
  \/ \E s \in Socket : \/ \E k \in Kinds \ {"write"} : Submit(s, k, 0)
                       \/ \E n \in Sizes : "write" \in Kinds /\ Submit(s, "write", n)
                       \/ Dequeue(s) \/ Map(s) \/ NewPcb(s) \/ Stale(s)
                       \/ Bind(s) \/ Connect(s) \/ Listen(s) \/ Accept(s) \/ Write(s) \/ Close(s)
  \/ \E p \in Pcb : SynAck(p) \/ Acks(p) \/ Reset(p) \/ Gone(p)
  \/ \E l \in ListenPcb : Incoming(l) \/ IncomingNoMem(l)
  \/ Sent

Spec == Init /\ [][Next]_vars

\* The discovery thread maps what is published, the main thread goes on with
\* the operations, and peers answer: a SYN is accepted and data acknowledged,
\* unless the connection is lost.
FairSpec ==
  /\ Spec
  /\ WF_vars(\E s \in Socket : Map(s))
  /\ WF_vars(Sent \/ \E s \in Socket : NewPcb(s) \/ Stale(s) \/ Perform(s))
  /\ SF_vars(\E p \in Pcb : SynAck(p) \/ Acks(p))
-----------------------------------------------------------------------------
Entries(s, kinds) == {i \in DOMAIN answers[s] : answers[s][i].kind \in kinds}
Closed(s)  == Entries(s, {"close"}) # {}
LostConn(s)== <<pcb[s], own[s]>> \in ended
Answerable == {"bind", "connect", "listen", "write", "close"}

\* Shape of the variables.
TypeOK ==
  /\ state \in [AnyPcb -> {"free", "new", "connecting", "open", "closing", "listen"}]
  /\ arg \in [AnyPcb -> Socket \union {None}]
  /\ accepting \in [ListenPcb -> BOOLEAN]
  /\ gen \in [AnyPcb -> 0..(MaxConns + Cardinality(Socket))]
  /\ phase \in [Socket -> {"unused", "made", "gone"}]
  /\ pcb \in [Socket -> AnyPcb \union {None}]
  /\ mapped \in [Socket -> BOOLEAN]
  /\ \A p \in Pcb : Held(p) <= SndBuf
  /\ \A s \in Socket : Len(writeQueue[s]) <= WriteQueueCap
  /\ main.at \in {"idle", "op", "sent"}
  /\ \A s \in refused : s \in Socket /\ ops[s] # <<>> /\ Op(s).kind = "write"

\* tcp_write does not copy, so the block of a write must stay until lwIP has no
\* segment left that refers to it: the application, which frees a block when
\* it dequeues the write's result, never frees one that may have to be
\* retransmitted, however acknowledgements cut the writes.
BlocksKept ==
  \A p \in Pcb : \A i \in DOMAIN unacked[p] : unacked[p][i].block \notin freed

\* tcp_sent_callback always finds a write to attribute the bytes to, and never
\* ends the stack.  It finds the socket of its connection too, unless that
\* socket was mapped before it had its pcb: no tcp_arg is set then.
SentFindsWrite ==
  /\ halt.why # "exit"
  /\ halt.why = "null" => \E s \in early : pcb[s] = halt.who

\* The callbacks of a connection go to the socket that holds it, across
\* accept, listen, close and the reuse of pcbs: results and data of one
\* socket never reach another.
CallbacksReachOwner ==
  halt = Running =>
    \A p \in AnyPcb : state[p] # "free" /\ arg[p] # None =>
      pcb[arg[p]] = p /\ own[arg[p]] = gen[p]

\* A connection belongs to one socket, or to one accept result that will make
\* one.  The state is well-formed (TypeOK) throughout.
Claims(p) ==
  {s \in Socket : pcb[s] = p /\ own[s] = gen[p]}
  \union {t \in {making} : t.pcb = p /\ t.gen = gen[p]}
  \union (UNION {{<<s, i>> : i \in {j \in DOMAIN cqueue[s] :
                     cqueue[s][j].pcb = p /\ cqueue[s][j].gen = gen[p]}} : s \in Socket})
OneClaim == TypeOK /\ \A p \in AnyPcb : state[p] # "free" => Cardinality(Claims(p)) = 1

\* A socket uses a pcb that is not its own only after its connection was
\* closed by an operation before, or was lost: both leave pcb.tcp as it is.
StaleOnlyAfterLoss ==
  halt.why = "stale" => Closed(halt.who) \/ LostConn(halt.who)

\* Every operation has at most one result, and the writes that succeed are
\* reported in the order in which they were submitted.
AnsweredOnce ==
  \A s \in Socket :
    /\ \A k \in Answerable :
         Cardinality(Entries(s, {k})) <= Cardinality({i \in DOMAIN issued[s] : issued[s][i].kind = k})
    /\ \A i, j \in Entries(s, {"write"}) :
         i < j /\ answers[s][i].ok /\ answers[s][j].ok => answers[s][i].id < answers[s][j].id

\* Writes of more than TCP_SND_BUF bytes that are refused are refused for ever:
\* they hold up their own socket and all that AtHead keeps behind them.
HeldUp(s) ==
  \E t \in refused : Length(Op(t).size) > SndBuf /\ Priority[t] >= Priority[s]

\* Of a write of 2^16 bytes or more lwIP gets a part only.
Cut(s) == \E i \in DOMAIN issued[s] : issued[s][i].kind = "write" /\ issued[s][i].size >= LenMod

\* Every operation but accept is answered in the end, whatever happens to other
\* sockets, unless a write that is refused for ever is in front of it; the
\* connection is closed or lost, which no result tells to the writes (or the
\* connect) under way; or a write was cut: its entry in the write_queue waits
\* for bytes that were never sent, and those behind it wait with it.
Unanswered(s, k) ==
  Cardinality(Entries(s, {k})) < Cardinality({i \in DOMAIN issued[s] : issued[s][i].kind = k})
=============================================================================
