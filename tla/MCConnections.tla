--------------------------- MODULE MCConnections ---------------------------
(* Connections with two client sockets and two worker threads.              *)
EXTENDS Connections

CONSTANTS w1, w2

MCLengths == {-2, -1, 0, 1, 2}
==========================================================================
