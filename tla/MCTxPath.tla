------------------------------ MODULE MCTxPath ------------------------------
(***************************************************************************)
(* TxPath for TLC: sockets a and b, on two priorities or sharing one, or a *)
(* alone.  What each application may submit is chosen per run.             *)
(***************************************************************************)
EXTENDS TxPath

CONSTANTS a, b

\* Each on a thread of its own, b in front of a on one thread, a alone
\* on the second.
BothLayouts == {<<<<b>>, <<a>>>>, <<<<b, a>>, <<>>>>}
OneSocket   == {<<<<>>, <<a>>>>}

TwoAndOne == [s \in Socket |-> IF s = a THEN 2 ELSE 1]
Three     == [s \in Socket |-> 3]

SyncOnly  == [s \in Socket |-> {"sync"}]
AllKinds  == [s \in Socket |-> {"sync", "write", "recv"}]
WriteRecv == [s \in Socket |-> {"write", "recv"}]
=============================================================================
