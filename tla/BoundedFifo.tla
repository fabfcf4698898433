---------------------------- MODULE BoundedFifo ----------------------------
(***************************************************************************)
(* What a pifus queue promises its producer and its consumer: a FIFO of at *)
(* most Capacity elements.  Every call takes effect in one step; the       *)
(* result a caller sees is a record of the call and the value it returned. *)
(* This is the specification SpscRing (api/src/pifus_ring_buffer.c) is     *)
(* shown to implement, and the reason the modules built on top of it use a *)
(* sequence with a capacity for every ring.                                *)
(***************************************************************************)
EXTENDS Naturals, Sequences

CONSTANTS
  Element,   \* values the queue carries
  Wanted,    \* elements find looks for
  Capacity,  \* number of elements it holds
  NopEl      \* the element a consumer may write over a queued one

VARIABLES
  queue,     \* the queued elements, oldest first
  putResult, \* result of the producer's last completed call
  getResult  \* result of the consumer's last completed call

vars == <<queue, putResult, getResult>>

\* A call and what it returned; ok = FALSE carries no element.
Returned(op, el) == [op |-> op, ok |-> TRUE, val |-> el]
Failed(op)       == [op |-> op, ok |-> FALSE]

\* The calls that have returned nothing yet.
NoCall == Failed("create")

Init ==
  /\ queue = <<>>
  /\ putResult = NoCall
  /\ getResult = NoCall

Put(el) ==
  /\ Len(queue) < Capacity
  /\ queue' = Append(queue, el)
  /\ putResult' = Returned("put", el)
  /\ UNCHANGED getResult

PutFull ==
  /\ Len(queue) = Capacity
  /\ putResult' = Failed("put")
  /\ UNCHANGED <<queue, getResult>>

\* is_full answers for the instant at which it looks.
IsFull ==
  /\ putResult' = IF Len(queue) = Capacity THEN Failed("is_full")
                                           ELSE Returned("is_full", NopEl)
  /\ UNCHANGED <<queue, getResult>>

Get ==
  /\ queue # <<>>
  /\ queue' = Tail(queue)
  /\ getResult' = Returned("get", Head(queue))
  /\ UNCHANGED putResult

\* The element read through the pointer peek returned.
Peek ==
  /\ queue # <<>>
  /\ getResult' = Returned("peek", Head(queue))
  /\ UNCHANGED <<queue, putResult>>

EraseFirst ==
  /\ queue # <<>>
  /\ queue' = Tail(queue)
  /\ UNCHANGED <<putResult, getResult>>

\* get and peek report "empty" only on an empty queue.
Nothing(op) ==
  /\ queue = <<>>
  /\ getResult' = Failed(op)
  /\ UNCHANGED <<queue, putResult>>

\* find returns the OLDEST element satisfying the predicate ...
Find ==
  /\ \E i \in 1..Len(queue) :
       /\ queue[i] \in Wanted
       /\ \A j \in 1..(i - 1) : queue[j] \notin Wanted
       /\ getResult' = Returned("find", queue[i])
  /\ UNCHANGED <<queue, putResult>>

\* ... and fails only when no queued element satisfies it.
FindNone ==
  /\ \A i \in 1..Len(queue) : queue[i] \notin Wanted
  /\ getResult' = Failed("find")
  /\ UNCHANGED <<queue, putResult>>

\* The consumer overwrites a queued element in place.
Mark ==
  /\ \E i \in 1..Len(queue) : queue' = [queue EXCEPT ![i] = NopEl]
  /\ UNCHANGED <<putResult, getResult>>

Next ==
  \/ \E el \in Element : Put(el)
  \/ PutFull
  \/ IsFull
  \/ Get
  \/ Peek
  \/ EraseFirst
  \/ \E op \in {"get", "peek"} : Nothing(op)
  \/ Find \/ FindNone
  \/ Mark

Spec == Init /\ [][Next]_vars
=============================================================================
