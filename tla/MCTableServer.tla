---------------------------- MODULE MCTableServer ----------------------------
(* A small table for TLC: two ids, one of them queued for deletion.          *)
EXTENDS TableServer

MCQueue == [id \in Ids |-> IF id = 1 THEN 1 ELSE 0]
==============================================================================
