---------------------------- MODULE MCDiscovery -----------------------------
(***************************************************************************)
(* Discovery for TLC: two processes, of which the second may take the      *)
(* number of the first.                                                    *)
(***************************************************************************)
EXTENDS Discovery

CONSTANTS high, low

HighCall == {[prio |-> high, pcb |-> TRUE]}
=============================================================================
