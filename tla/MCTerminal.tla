----------------------------- MODULE MCTerminal -----------------------------
(* Two ids, four inserts, every queue of the two ids.                        *)
EXTENDS Terminal

MCQueues == SUBSET Ids
=============================================================================
