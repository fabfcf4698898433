------------------------------ MODULE ByteFifo ------------------------------
(***************************************************************************)
(* What the receive buffer of a socket promises: a FIFO of at most         *)
(* Capacity bytes.  add stores as much of the given data as fits and says  *)
(* how much that was; pop returns as many bytes as asked for, or all.      *)
(***************************************************************************)
EXTENDS Naturals, Sequences

CONSTANTS Byte, Capacity, MaxLen

VARIABLES
  queue,   \* the bytes, oldest first
  added,   \* bytes the last add accepted
  popped   \* bytes the last pop returned

vars == <<queue, added, popped>>

Prefix(s, n) == SubSeq(s, 1, IF n < Len(s) THEN n ELSE Len(s))
Suffix(s, n) == SubSeq(s, n + 1, Len(s))

Init == queue = <<>> /\ added = <<>> /\ popped = <<>>

Add(data) ==
  LET fitting == Prefix(data, Capacity - Len(queue)) IN
    /\ queue' = queue \o fitting
    /\ added' = fitting
    /\ popped' = <<>>

Pop(n) ==
  /\ popped' = Prefix(queue, n)
  /\ queue' = Suffix(queue, n)
  /\ added' = <<>>

Next == \/ \E n \in 0..MaxLen : \E data \in [1..n -> Byte] : Add(data)
        \/ \E n \in 0..MaxLen : Pop(n)

Spec == Init /\ [][Next]_vars
=============================================================================
