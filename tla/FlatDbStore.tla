---------------------------- MODULE FlatDbStore ----------------------------
(* The engine of FlatDb as a DurableStore: a compaction of many steps, each  *)
(* of which may fail or be the last before a crash, is one Rewrite; opening  *)
(* the table is Reopen; everything else leaves the store as it is.           *)
EXTENDS FlatDb

StoredValues == {v \in 1 .. inserts : LiveOnDisk(data, v)}
OwedValues == {v \in acked : v > since}

Store == INSTANCE DurableStore WITH
    stored <- StoredValues, owed <- OwedValues, used <- inserts

\* Every behaviour of db.c and storage.c is one of a store that keeps what it
\* has accepted: db_insert, db_delete and each step of a compaction, with every
\* failure and every crash, map to one step of DurableStore or to none.
ImplementsStore == Store!Spec
=============================================================================
