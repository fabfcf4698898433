----------------------------- MODULE MCSpscRing -----------------------------
(***************************************************************************)
(* SpscRing for TLC: rings small enough that both indices wrap around many *)
(* times, carrying write, recv and NOP operations.                         *)
(***************************************************************************)
EXTENDS SpscRing

CONSTANTS write, nop, recv

MCElement == {write, nop, recv}
MCWanted  == {recv}
=============================================================================
