----------------------------- MODULE MCFlatDb -----------------------------
(* FlatDb on instances small enough for TLC.                                *)
EXTENDS FlatDbStore

\* The delete queues the table may start with, left by earlier requests: id 1
\* twice and every other id once; or also nothing queued.
MCQueue == {[id \in Ids |-> IF id = 1 THEN 2 ELSE 1]}
MCQueues == MCQueue \cup {NoIds}
==========================================================================
