----------------------------- MODULE ByteBuffer -----------------------------
(***************************************************************************)
(* The receive buffer of a socket, api/src/pifus_byte_buffer.c: a circular *)
(* byte array in the socket's region that only the main loop of the stack  *)
(* uses, so that each call is one step.  The loops that move an index and  *)
(* the copies that follow them are kept apart, as in the code: an index    *)
(* loop and a copy that disagree about the wrap would show.                *)
(***************************************************************************)
EXTENDS Integers, Sequences

CONSTANTS
  End,     \* buffer_length: the array has that many bytes
  Byte,    \* values of a byte
  ZeroByte,
  MaxLen   \* bound: lengths given to add and pop

ASSUME BufferAssumption ==
  /\ End \in 1..65535
  /\ ZeroByte \in Byte
  /\ MaxLen \in Nat

VARIABLES
  head, tail, array,
  added, popped,  \* bytes the last call accepted or returned
  copies          \* the memcpy calls it made

vars == <<head, tail, array, added, popped, copies>>

Index == 0..(End - 1)

\* pifus_byte_buffer_create in zero-filled shared memory.
Init ==
  /\ head = 0 /\ tail = 0 /\ array = [i \in Index |-> ZeroByte]
  /\ added = <<>> /\ popped = <<>> /\ copies = {}

(***************************************************************************)
(* pifus_byte_buffer_add                                                   *)
(***************************************************************************)

\* One round of the loop that advances head; a full buffer ends it.
AddRound(w) ==
  LET wrap == w.head = End
      h == IF wrap THEN 0 ELSE w.head
  IN  IF h = tail THEN [head |-> h, len |-> w.len, over |-> w.over \/ wrap]
                  ELSE [head |-> h + 1, len |-> w.len + 1, over |-> w.over \/ wrap]

\* The loop: its state after at most n rounds.
AddWalk(n) ==
  LET walk[k \in 0..n] == IF k = 0 THEN [head |-> head + 1, len |-> 0, over |-> FALSE]
                                   ELSE AddRound(walk[k - 1])
  IN  walk[n]

\* Mutant: a wrap that found the buffer full still counts as one.
MutAddEnd(w) == IF w.head = 0 THEN [w EXCEPT !.head = End - 1] ELSE [w EXCEPT !.head = @ - 1]

\* head is moved back to the last used position.
AddEnd(w) == IF w.head = 0 THEN [w EXCEPT !.head = End - 1, !.over = FALSE]
                           ELSE [w EXCEPT !.head = @ - 1]

\* The memcpy calls for len bytes from position from on: array position, offset
\* in the caller's buffer and length of each.
Copies(from, w) ==
  IF w.over
    THEN {[at |-> from, off |-> 0, len |-> End - from],
          [at |-> 0, off |-> End - from, len |-> w.len - (End - from)]}
    ELSE {[at |-> from, off |-> 0, len |-> w.len]}

\* Byte i of data; what lies behind it is arbitrary memory.
At(data, i) == IF i \in DOMAIN data THEN data[i] ELSE ZeroByte

\* Mutant: the copy behind the wrap starts over in the caller's buffer.
MutCopyIn(cs, data) ==
  [p \in Index |-> IF \E c \in cs : p \in c.at..(c.at + c.len - 1)
                     THEN LET c == CHOOSE c \in cs : p \in c.at..(c.at + c.len - 1)
                          IN  At(data, p - c.at + 1)
                     ELSE array[p]]

\* The array after the copies into it, the bytes of the caller's buffer after
\* the copies out of it.
CopyIn(cs, data) ==
  [p \in Index |-> IF \E c \in cs : p \in c.at..(c.at + c.len - 1)
                     THEN LET c == CHOOSE c \in cs : p \in c.at..(c.at + c.len - 1)
                          IN  At(data, c.off + p - c.at + 1)
                     ELSE array[p]]
CopyOut(cs, n) ==
  [i \in 1..n |-> LET c == CHOOSE c \in cs : i - 1 \in c.off..(c.off + c.len - 1)
                  IN  array[c.at + i - 1 - c.off]]

Add(data) ==
  LET w == AddEnd(AddWalk(Len(data)))
      cs == Copies(head, w)
  IN  /\ added' = SubSeq(data, 1, w.len)
      /\ popped' = <<>>
      /\ IF w.len > 0
           THEN head' = w.head /\ array' = CopyIn(cs, data) /\ copies' = cs
           ELSE copies' = {} /\ UNCHANGED <<head, array>>
      /\ UNCHANGED tail

(***************************************************************************)
(* pifus_byte_buffer_pop                                                   *)
(***************************************************************************)

\* One round of the loop that advances tail, which may come to rest at End.
PopRound(w) ==
  LET t == IF w.tail = End THEN 0 ELSE w.tail
  IN  CASE head = w.tail -> w
        [] head # w.tail /\ head = t -> [w EXCEPT !.tail = t]
        [] OTHER -> [tail |-> t + 1, len |-> w.len + 1, over |-> w.over \/ w.tail = End]

PopWalk(n) ==
  LET walk[k \in 0..n] == IF k = 0 THEN [tail |-> tail, len |-> 0, over |-> FALSE]
                                   ELSE PopRound(walk[k - 1])
  IN  walk[n]

PopEnd(w) == IF w.tail = End THEN 0 ELSE w.tail

Pop(n) ==
  LET w == PopWalk(n)
      cs == Copies(tail, w)
  IN  /\ popped' = CopyOut(cs, w.len)
      /\ added' = <<>>
      /\ IF w.len > 0 THEN tail' = PopEnd(w) /\ copies' = cs
                      ELSE copies' = {} /\ UNCHANGED tail
      /\ UNCHANGED <<head, array>>

Next == \/ \E n \in 0..MaxLen : \E data \in [1..n -> Byte] : Add(data)
        \/ \E n \in 0..MaxLen : Pop(n)

Spec == Init /\ [][Next]_vars
-----------------------------------------------------------------------------
\* Both indices stay inside the array.
TypeOK ==
  /\ head \in Index /\ tail \in Index
  /\ array \in [Index -> Byte]
  /\ added \in Seq(Byte) /\ popped \in Seq(Byte)

\* No memcpy of add or pop leaves the array, and together they move exactly
\* the bytes the call reports: the length of the second one, really_added_length
\* - end_copy_length in size_t, never becomes negative.  Both indices are inside
\* the array again when a call returns (TypeOK).
CopiesInBounds ==
  /\ TypeOK
  /\ \A c \in copies :
       /\ c.len >= 0 /\ c.at + c.len <= End
       /\ c.off + c.len <= Len(added) + Len(popped)

Count    == IF tail <= head THEN head - tail ELSE head + End - tail
Contents == [i \in 1..Count |->
               array[IF tail + i - 1 < End THEN tail + i - 1 ELSE tail + i - 1 - End]]

Fifo == INSTANCE ByteFifo WITH Capacity <- End - 1, queue <- Contents

\* The buffer is a FIFO of End - 1 bytes: whatever add accepted comes out of
\* pop in the same order and once, across every wrap of head and of tail.
FifoSpec == Fifo!Spec
=============================================================================
