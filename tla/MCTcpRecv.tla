----------------------------- MODULE MCTcpRecv ------------------------------
(***************************************************************************)
(* TcpRecv for TLC: chains of one and two pbufs, operations that end       *)
(* inside and at the end of a pbuf, a buffer smaller than a chain.         *)
(***************************************************************************)
EXTENDS TcpRecv

SomeChains == {<<1>>, <<3>>, <<1, 2>>, <<2, 1>>}
=============================================================================
