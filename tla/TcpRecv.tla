------------------------------ MODULE TcpRecv -------------------------------
(***************************************************************************)
(* Receiving on one TCP socket, lwip/custom/stack/src/tcp/recv.c.  The     *)
(* main loop runs tx_tcp_recv for each recv operation and lwIP calls       *)
(* tcp_recv_callback for each chain of pbufs; both take bytes out of       *)
(* recv_buffer (a ByteFifo, which ByteBuffer implements) and put them in   *)
(* the memory blocks of the operations.  A chain the callback refuses is   *)
(* kept by lwIP and offered again.                                         *)
(*                                                                         *)
(* The bytes of the peer's stream are numbered from 1.  The callback is    *)
(* one step per round of its loops.                                        *)
(***************************************************************************)
EXTENDS Integers, Sequences, FiniteSets

CONSTANTS
  Sizes,        \* sizes the application asks for
  Chains,       \* shapes of pbuf chains: sequences of pbuf lengths
  BufCap,       \* RECV_BUFFER_SIZE - 1
  RecvQueueCap, \* RECV_QUEUE_SIZE - 1
  LenMod,       \* 2^16: the lengths recv.c computes with are uint16_t
  MaxOps,       \* bound: recv operations
  MaxBytes      \* bound: bytes the peer sends

\* Where each piece ends when pieces of these lengths follow one another.
Ends(lens) == LET total[i \in 0..Len(lens)] == IF i = 0 THEN 0 ELSE total[i - 1] + lens[i]
              IN  total

\* tot_len of a chain is a uint16_t, too.
ASSUME RecvAssumption ==
  /\ Sizes \subseteq Nat \ {0}
  /\ \A c \in Chains : c \in Seq(Nat \ {0}) /\ c # <<>> /\ Ends(c)[Len(c)] < LenMod
  /\ {BufCap, RecvQueueCap, LenMod, MaxOps, MaxBytes} \subseteq Nat \ {0}

VARIABLES
  \* lwIP
  sent,        \* bytes of the stream that have reached the stack
  lost,        \* history: those of them tcp_recv_null has freed
  acked,       \* bytes given back to the receive window by tcp_recved
  chain,       \* the pbuf chain being processed or refused
  registered,  \* tcp_recv has been called
  arg,         \* tcp_arg is the socket, not NULL
  \* the socket
  buffer,      \* recv_buffer
  recvQueue,   \* recv_queue
  unread,      \* unread_data_offset
  \* the operations
  size,        \* size of each recv operation, in order of submission
  block,       \* bytes written to its memory block
  reported,    \* results in the cqueue
  \* tcp_recv_callback
  pc, cb       \* control point and local variables

opVars == <<size, block, reported>>
vars == <<sent, lost, acked, chain, registered, arg, buffer, recvQueue, unread, opVars, pc, cb>>

NoCall == [avail |-> 0, ack |-> 0, empty |-> TRUE, pbuf |-> 1, off |-> 0,
           need |-> 0, full |-> FALSE]

\* A socket from accept has its callback registered, but no tcp_arg until the
\* discovery thread has mapped it, if then (SetArg); with a socket from connect
\* it is the other way round.
Init ==
  /\ sent = 0 /\ lost = 0 /\ acked = 0 /\ chain = <<>>
  /\ registered \in BOOLEAN /\ arg = ~registered
  /\ buffer = <<>> /\ recvQueue = <<>> /\ unread = 0
  /\ size = <<>> /\ block = <<>> /\ reported = <<>>
  /\ pc = "idle" /\ cb = NoCall

Min2(x, y) == IF x <= y THEN x ELSE y
Take(s, n) == SubSeq(s, 1, n)
Drop(s, n) == SubSeq(s, n + 1, Len(s))
Lengths(c) == Ends([i \in 1..Len(c) |-> Len(c[i])])
TotLen(c)  == Lengths(c)[Len(c)]

\* memcpy to the block of operation op at offset off.
Written(op, off, bytes) == [block EXCEPT ![op] = Take(@, off) \o bytes]

\* Mutant: recv_buffer serves an operation as a whole or not at all.
MutPopped(n) == IF n % LenMod <= Len(buffer) THEN n % LenMod ELSE 0

\* pop_from_buffer for an operation that needs n bytes.
Popped(n) == Min2(n % LenMod, Len(buffer))

(***************************************************************************)
(* tx_tcp_recv                                                             *)
(***************************************************************************)

\* The whole handler, with the report its caller makes.
RecvOp(n) ==
  /\ pc = "idle"
  /\ Len(size) < MaxOps
  /\ LET op == Len(size) + 1
         popped == Popped(n)
         entry == [op |-> op, size |-> n - popped, off |-> popped]
     IN /\ size' = Append(size, n)
        /\ block' = Append(block, Take(buffer, popped))
        /\ buffer' = Drop(buffer, popped)
        /\ \/ /\ popped > 0 /\ popped = n
              /\ reported' = Append(reported, [op |-> op, ok |-> TRUE])
              /\ UNCHANGED recvQueue
           \/ /\ ~(popped > 0 /\ popped = n) /\ Len(recvQueue) < RecvQueueCap
              /\ recvQueue' = Append(recvQueue, entry)
              /\ UNCHANGED reported
           \/ /\ ~(popped > 0 /\ popped = n) /\ Len(recvQueue) = RecvQueueCap
              /\ reported' = Append(reported, [op |-> op, ok |-> FALSE])
              /\ UNCHANGED recvQueue
  /\ registered' = TRUE
  /\ UNCHANGED <<sent, lost, acked, chain, arg, unread, pc, cb>>

(***************************************************************************)
(* lwIP: a chain of pbufs arrives; without a registered callback           *)
(* tcp_recv_null acknowledges and frees it.  A refused chain is offered    *)
(* again by the fast timer, and no new data is taken before.               *)
(***************************************************************************)

Fresh(c) == [i \in 1..Len(c) |-> [j \in 1..c[i] |-> sent + Ends(c)[i - 1] + j]]

Arrive(c) ==
  /\ pc = "idle" /\ chain = <<>>
  /\ sent + TotLen(Fresh(c)) <= MaxBytes
  /\ sent' = sent + TotLen(Fresh(c))
  /\ IF registered
       THEN chain' = Fresh(c) /\ pc' = "enter" /\ UNCHANGED <<acked, lost>>
       ELSE /\ acked' = acked + TotLen(Fresh(c)) /\ lost' = sent'
            /\ UNCHANGED <<chain, pc>>
  /\ UNCHANGED <<registered, arg, buffer, recvQueue, unread, opVars, cb>>

OfferAgain ==
  /\ pc = "idle" /\ chain # <<>>
  /\ pc' = "enter"
  /\ UNCHANGED <<sent, lost, acked, chain, registered, arg, buffer, recvQueue, unread, opVars, cb>>

\* The discovery thread maps the accepted socket and calls tcp_arg, if it finds
\* the pcb there.  pifus_socket publishes the socket before it sets the pcb: one
\* that was mapped in between is never given its tcp_arg, so nothing forces this
\* step.
SetArg ==
  /\ ~arg
  /\ arg' = TRUE
  /\ UNCHANGED <<sent, lost, acked, chain, registered, buffer, recvQueue, unread, opVars, pc, cb>>

(***************************************************************************)
(* tcp_recv_callback                                                       *)
(***************************************************************************)

\* Mutant: a chain offered again is read from its start.
MutSkip == [pbuf |-> 1, off |-> 0]

\* pbuf_skip: the pbuf that holds the first unread byte, and its offset there.
Skip == LET before == {i \in 1..Len(chain) : Lengths(chain)[i] <= unread}
        IN  [pbuf |-> Cardinality(before) + 1,
             off |-> unread - Lengths(chain)[Cardinality(before)]]

\* No socket yet: the chain is refused.
CbRefuse ==
  /\ pc = "enter" /\ ~arg
  /\ pc' = "idle"
  /\ UNCHANGED <<sent, lost, acked, chain, registered, arg, buffer, recvQueue, unread, opVars, cb>>

CbEnter ==
  /\ pc = "enter" /\ arg
  /\ cb' = [NoCall EXCEPT !.avail = (TotLen(chain) - unread) % LenMod,
                          !.empty = buffer = <<>>,
                          !.pbuf = Skip.pbuf, !.off = Skip.off]
  /\ pc' = "match"
  /\ UNCHANGED <<sent, lost, acked, chain, registered, arg, buffer, recvQueue, unread, opVars>>

\* Mutant: any data will do.
MutFulfilled(need) == cb.avail > 0

\* Mutant: data that is just enough is not enough.
MutFulfilledStrict(need) == need < cb.avail

\* recv_op_fulfilled, decided before the pbufs are copied.
Fulfilled(need) == need <= cb.avail

\* The oldest waiting operation first takes what recv_buffer holds.
CbMatch ==
  /\ pc = "match"
  /\ IF recvQueue # <<>> /\ (cb.avail > 0 \/ ~cb.empty)
       THEN LET e == recvQueue[1]
                popped == IF cb.empty THEN 0 ELSE Popped(e.size)
                need == (e.size % LenMod) - popped
            IN /\ buffer' = Drop(buffer, popped)
               /\ block' = Written(e.op, e.off, Take(buffer, popped))
               /\ recvQueue' = [recvQueue EXCEPT ![1].size = @ - popped, ![1].off = @ + popped]
               /\ cb' = [cb EXCEPT !.need = need, !.full = Fulfilled(need),
                                   !.empty = popped = 0]
               /\ pc' = "copy"
       ELSE pc' = "store" /\ UNCHANGED <<buffer, block, recvQueue, cb>>
  /\ UNCHANGED <<sent, lost, acked, chain, registered, arg, unread, size, reported>>

AtPbuf == cb.pbuf <= Len(chain)
Rest   == Drop(chain[cb.pbuf], cb.off)

\* One pbuf, or as much of it as is needed, is copied to the block.
CbCopy ==
  /\ pc = "copy" /\ AtPbuf /\ cb.need > 0
  /\ LET n == Min2(cb.need, Len(Rest))
         consumed == Len(Rest) <= cb.need
     IN /\ block' = Written(recvQueue[1].op, recvQueue[1].off, Take(Rest, n))
        /\ recvQueue' = [recvQueue EXCEPT ![1].size = @ - n, ![1].off = @ + n]
        /\ cb' = [cb EXCEPT !.avail = @ - n, !.need = @ - n, !.ack = @ + n,
                            !.pbuf = IF consumed THEN @ + 1 ELSE @,
                            !.off = IF consumed THEN 0 ELSE @ + n]
  /\ UNCHANGED <<sent, lost, acked, chain, registered, arg, buffer, unread, size, reported, pc>>

\* The operation is reported when it got all it needs.
CbNext ==
  /\ pc = "copy" /\ ~(AtPbuf /\ cb.need > 0)
  /\ IF cb.full
       THEN /\ recvQueue' = Tail(recvQueue)
            /\ reported' = Append(reported, [op |-> recvQueue[1].op, ok |-> TRUE])
       ELSE UNCHANGED <<recvQueue, reported>>
  /\ pc' = "match"
  /\ UNCHANGED <<sent, lost, acked, chain, registered, arg, buffer, unread, size, block, cb>>

\* The local variables after n bytes of a pbuf went to recv_buffer.
Stored(n) ==
  IF n < Len(Rest) THEN [cb EXCEPT !.avail = @ - n, !.ack = @ + n]
                   ELSE [cb EXCEPT !.avail = @ - n, !.ack = @ + n, !.pbuf = @ + 1, !.off = 0]

\* Bytes recv_buffer still takes.
Room == BufCap - Len(buffer)

\* What no operation waits for goes to recv_buffer, until that is full.
CbStore ==
  /\ pc = "store" /\ AtPbuf /\ cb.avail > 0
  /\ LET n == Min2(Len(Rest), Room) IN
       /\ buffer' = buffer \o Take(Rest, n)
       /\ cb' = Stored(n)
       /\ pc' = IF n < Len(Rest) THEN "leave" ELSE "store"
  /\ UNCHANGED <<sent, lost, acked, chain, registered, arg, recvQueue, unread, opVars>>

\* Mutant: everything the chain holds is acknowledged.
MutAckable == TotLen(chain)

\* total_data_ackable
Ackable == cb.ack

\* tcp_recved; the chain is freed, or refused and remembered how far read.
CbLeave ==
  /\ pc = "leave" \/ (pc = "store" /\ ~(AtPbuf /\ cb.avail > 0))
  /\ acked' = acked + Ackable
  /\ IF cb.avail > 0
       THEN unread' = TotLen(chain) - cb.avail /\ UNCHANGED chain
       ELSE unread' = 0 /\ chain' = <<>>
  /\ pc' = "idle" /\ cb' = NoCall
  /\ UNCHANGED <<sent, lost, registered, arg, buffer, recvQueue, opVars>>

Callback == CbRefuse \/ CbEnter \/ CbMatch \/ CbCopy \/ CbNext \/ CbStore \/ CbLeave

Next ==
  \/ \E n \in Sizes : RecvOp(n)
  \/ \E c \in Chains : Arrive(c)
  \/ OfferAgain \/ SetArg \/ Callback

Spec == Init /\ [][Next]_vars

\* A callback that was entered returns; lwIP's fast timer offers refused data
\* again; the peer sends what it has.
FairSpec ==
  /\ Spec
  /\ WF_vars(Callback) /\ SF_vars(OfferAgain)
  /\ SF_vars(\E c \in Chains : Arrive(c))
-----------------------------------------------------------------------------
Concat(ss) == LET all[i \in 0..Len(ss)] == IF i = 0 THEN <<>> ELSE all[i - 1] \o ss[i]
              IN all[Len(ss)]
Unread   == Drop(Concat(chain), unread)
Stream   == [i \in 1..(sent - lost) |-> lost + i]

\* Shape of the variables.
TypeOK ==
  /\ sent \in 0..MaxBytes /\ lost \in 0..sent /\ acked \in 0..MaxBytes
  /\ Len(buffer) <= BufCap /\ Len(recvQueue) <= RecvQueueCap
  /\ \A i \in DOMAIN recvQueue :
       recvQueue[i].op \in 1..Len(size) /\ recvQueue[i].size \in Nat /\ recvQueue[i].off \in Nat
  /\ Len(block) = Len(size) /\ Len(size) <= MaxOps
  /\ cb.avail \in 0..(LenMod - 1) /\ cb.need \in 0..(LenMod - 1)
  /\ pc \in {"idle", "enter", "match", "copy", "store", "leave"}

\* No byte is lost, duplicated or reordered: the blocks of the operations in
\* order of submission, recv_buffer and the unread part of a refused chain
\* are together what the peer has sent (since tcp_recv_callback is registered),
\* however the stream was cut into pbufs and operations and however often a
\* chain was refused half way.
StreamIntact ==
  pc = "idle" => Concat(block) \o buffer \o Unread = Stream

\* A recv operation waits only while recv_buffer is empty.  This is why the
\* bytes tx_tcp_recv has popped for an operation are never lost when
\* recv_queue turns out to be full.
WaitingMeansDrained == pc = "idle" /\ recvQueue # <<>> => buffer = <<>>

\* Each byte is given back to the receive window once, when it leaves lwIP:
\* otherwise the window would shrink or overflow with every refused chain.
\* recv_buffer and recv_queue keep to their capacities meanwhile (TypeOK).
WindowBalanced == TypeOK /\ (pc = "idle" => acked = sent - Len(Unread))

\* An operation is reported OK once its block is filled with the "Size that
\* should be read" (pifus_socket_recv), and these reports keep the order of
\* submission.
ReportedFull ==
  \A i \in DOMAIN reported : reported[i].ok =>
    /\ Len(block[reported[i].op]) = size[reported[i].op]
    /\ \A j \in 1..(i - 1) : reported[j].ok => reported[j].op < reported[i].op

\* Once the socket has its tcp_arg, a queued recv operation is served in the
\* end, unless all the peer has sent was not enough for it: data refused for a
\* full buffer, or for the missing tcp_arg before, is not forgotten.  A socket
\* that never gets its tcp_arg (SetArg) is never served: tcp_recv_callback
\* refuses its data for ever.
EveryRecvServed ==
  \A op \in 1..MaxOps :
    (arg /\ \E i \in DOMAIN recvQueue : recvQueue[i].op = op)
      ~> (\E i \in DOMAIN reported : reported[i].op = op)
           \/ (sent = MaxBytes /\ chain = <<>> /\ buffer = <<>>
               /\ op \in DOMAIN size /\ Len(block[op]) < size[op])
=============================================================================
