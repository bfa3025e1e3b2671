--------------------------- MODULE MCServerLocks ---------------------------
(* ServerLocks on instances small enough for TLC.                           *)
EXTENDS ServerLocks

CONSTANTS w1, w2, w3, sync, t1, t2
==========================================================================
