----------------------------- MODULE MCTcpConn ------------------------------
(***************************************************************************)
(* TcpConn for TLC: a few sockets that share little pcb memory, so that it *)
(* is used again while old pointers to it are still around.                *)
(***************************************************************************)
EXTENDS TcpConn

CONSTANTS p1, l1

AllKinds == {"bind", "connect", "listen", "accept", "write", "close"}
\* Socket 1 is served before socket 2.
Falling == [s \in Socket |-> 2 - s]
=============================================================================
