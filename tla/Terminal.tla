------------------------------ MODULE Terminal ------------------------------
(* The command line (terminal.c) at work on one table that exists, and the   *)
(* index file beside it: sessions that open the table, insert, delete with   *)
(* the compaction and the removal of the index, execute the delete queue, or *)
(* run the server in the foreground.  What is in the files is FlatDb's and   *)
(* TableServer's; here data.db is the number of times it has been replaced,  *)
(* and ivf_index.bin the data.db that its offsets were taken from.  'origin  *)
(* init' is Gateway's, the result of 'origin search' Search's, and the       *)
(* server's scheduled deletes are TableServer's.                             *)
EXTENDS Integers, Subsequences

CONSTANTS
    Ids,        \* record identifiers in use
    Queues,     \* what pending.bin may hold at the start: sets of ids
    MaxInserts, MaxRewrites

ASSUME TerminalAssumption ==
    /\ Queues \subseteq SUBSET Ids
    /\ MaxInserts \in Nat /\ MaxRewrites \in Nat

VARIABLES
    rewrites,           \* data.db: how often it was replaced
    ivf_index,          \* ivf_index.bin: the data.db it was saved for, or NoIndex
    pending,            \* pending.bin
    open, fp, records,  \* master_db: is there one, its file, its array
    served,             \* records the server has taken, for as long as it runs
    pc,                 \* "prompt", or where in a command the session is
    pending_ids,        \* process-deletes: the queue as it was shown to the owner
    inserts,            \* bound
    mishaps             \* why an index may be left behind, see Mishaps

files == <<rewrites, ivf_index, pending>>
master_db == <<open, fp, records>>
vars == <<files, master_db, served, pc, pending_ids, inserts, mishaps>>

NoIndex == -1
Record == [id : Ids, is_deleted : BOOLEAN, vector : {"heap", "null"}]

\* What has left an index beside a data.db it was not made from: the process
\* ended between a compaction and the removal of the index ("cut"), the compacted
\* file could not be opened ("reopen"), or the index could not be removed
\* ("remove").  The next index that is saved or removed makes up for it.
Mishaps == {"cut", "reopen", "remove"}

Init ==
    /\ rewrites = 0 /\ ivf_index = NoIndex /\ pending \in Queues
    /\ open = FALSE /\ fp = FALSE /\ records = <<>>
    /\ served = 0 /\ pc = "prompt" /\ pending_ids = {}
    /\ inserts = 0 /\ mishaps = {}

\* The array of a table just opened: storage_init has left the file at its end
\* (TableFile), where db_open's loop finds no record.
db_open == <<>>

\* The record db_delete marks: the first one that has the id and is not deleted.
Found(recs, id) ==
    {n \in 1 .. Len(recs) :
        /\ recs[n].id = id /\ ~recs[n].is_deleted
        /\ \A m \in 1 .. n - 1 : recs[m].id # id \/ recs[m].is_deleted}

Marked(n) == [records EXCEPT ![n] = [@ EXCEPT !.is_deleted = TRUE]]

\* The records a compaction keeps.
Unmarked(recs) == Picked(recs, {n \in 1 .. Len(recs) : ~recs[n].is_deleted})

\* A vector that is NULL cannot be copied: the process dies in storage_compact.
CopyFaults(recs) == \E n \in 1 .. Len(recs) : ~recs[n].is_deleted /\ recs[n].vector = "null"

\* The vectors are heap copies, and a compaction drops those.
Repacked(live) == [n \in 1 .. Len(live) |-> [live[n] EXCEPT !.vector = "null"]]

\* db_compact of the array recs: it replaces data.db; or the copy fails, or the
\* rename fails, after which the old file is opened again if that succeeds; or
\* data.db is replaced and cannot be opened again.  Only the first returns 0.
db_compact(recs) ==
    \/ /\ ~CopyFaults(recs)
       /\ rewrites < MaxRewrites /\ rewrites' = rewrites + 1
       /\ records' = Repacked(Unmarked(recs))
       /\ pc' = "unindex"
       /\ UNCHANGED <<fp, mishaps>>
    \/ /\ records' = recs
       /\ UNCHANGED <<rewrites, fp, pc, mishaps>>
    \/ /\ ~CopyFaults(recs)
       /\ records' = recs /\ fp' \in BOOLEAN
       /\ UNCHANGED <<rewrites, pc, mishaps>>
    \/ /\ ~CopyFaults(recs)
       /\ rewrites < MaxRewrites /\ rewrites' = rewrites + 1
       /\ records' = recs /\ fp' = FALSE
       /\ mishaps' = mishaps \cup {"reopen"}
       /\ UNCHANGED pc

\* 'origin exit', the end of the server, or of the process anywhere else.
Exit ==
    /\ open' = FALSE /\ fp' = FALSE /\ records' = <<>>
    /\ served' = 0 /\ pc' = "prompt" /\ pending_ids' = {}
    /\ mishaps' = IF pc = "unindex" THEN mishaps \cup {"cut"} ELSE mishaps
    /\ UNCHANGED <<files, inserts>>

--------------------------------------------------------------------------
(* The commands.                                                            *)

Open ==
    /\ pc = "prompt" /\ ~open
    /\ open' = TRUE /\ fp' = TRUE /\ records' = db_open
    /\ UNCHANGED <<files, served, pc, pending_ids, inserts, mishaps>>

Insert(id) ==
    /\ pc = "prompt" /\ open /\ fp
    /\ inserts < MaxInserts /\ inserts' = inserts + 1
    /\ records' = Append(records, [id |-> id, is_deleted |-> FALSE, vector |-> "heap"])
    /\ UNCHANGED <<files, open, fp, served, pc, pending_ids, mishaps>>

\* 'origin delete': the record is marked, here and in the file, and the table is
\* compacted.
Delete(id) ==
    /\ pc = "prompt" /\ open /\ fp
    /\ \E n \in Found(records, id) : db_compact(Marked(n))
    /\ UNCHANGED <<ivf_index, pending, open, served, pending_ids, inserts>>

\* db_delete gives up at the seek, with the record marked in the array alone.
DeleteUnpatched(id) ==
    /\ pc = "prompt" /\ open /\ fp
    /\ \E n \in Found(records, id) : records' = Marked(n)
    /\ UNCHANGED <<files, open, fp, served, pc, pending_ids, inserts, mishaps>>

\* The same when a survivor of an earlier compaction is in the array.
DeleteFaults(id) ==
    /\ pc = "prompt" /\ open /\ fp
    /\ \E n \in Found(records, id) : CopyFaults(Marked(n))
    /\ Exit

\* Seeded fault: the index stays.
IndexKept ==
    /\ pc = "unindex" /\ pc' = "prompt"
    /\ UNCHANGED <<files, master_db, served, pending_ids, inserts, mishaps>>

\* What the caller does with a compaction that returned 0.  Nobody looks at the
\* result of remove.
RemoveIndex ==
    /\ pc = "unindex" /\ pc' = "prompt"
    /\ \/ ivf_index' = NoIndex /\ mishaps' = {}
       \/ ivf_index # NoIndex /\ mishaps' = mishaps \cup {"remove"} /\ UNCHANGED ivf_index
    /\ UNCHANGED <<rewrites, pending, master_db, served, pending_ids, inserts>>

\* 'origin process-deletes' shows how many requests there are and asks.
ProcessDeletes ==
    /\ pc = "prompt" /\ pending # {}
    /\ pending_ids' = pending /\ pc' = "confirm"
    /\ UNCHANGED <<files, master_db, served, inserts, mishaps>>

\* Yes: the requests are executed on the array of temp_db, which is empty, so
\* none succeeds, nothing is compacted and the index stays.  The queue goes.
Confirmed ==
    /\ pc = "confirm" /\ pc' = "prompt" /\ pending_ids' = {}
    /\ \A id \in pending_ids : Found(db_open, id) = {}
    /\ pending' = {}
    /\ UNCHANGED <<rewrites, ivf_index, master_db, served, inserts, mishaps>>

Aborted ==
    /\ pc = "confirm" /\ pc' = "prompt" /\ pending_ids' = {}
    /\ UNCHANGED <<files, master_db, served, inserts, mishaps>>

\* 'origin server' does not return.  The server opens the table for itself; it
\* trains on what it has taken in since, and saves the index.
Server ==
    /\ pc = "prompt" /\ pc' = "server"
    /\ UNCHANGED <<files, master_db, served, pending_ids, inserts, mishaps>>

ServerInsert ==
    /\ pc = "server"
    /\ inserts < MaxInserts /\ inserts' = inserts + 1
    /\ served' = served + 1
    /\ UNCHANGED <<files, master_db, pc, pending_ids, mishaps>>

\* The index is saved, or the save fails with the file cut short, which is an
\* index no search accepts.
Train ==
    /\ pc = "server" /\ served > 0
    /\ ivf_index' \in {rewrites, NoIndex} /\ mishaps' = {}
    /\ UNCHANGED <<rewrites, pending, master_db, served, pc, pending_ids, inserts>>

Next ==
    \/ Open \/ RemoveIndex \/ ProcessDeletes \/ Confirmed \/ Aborted
    \/ Server \/ ServerInsert \/ Train \/ Exit
    \/ \E id \in Ids : Insert(id) \/ Delete(id) \/ DeleteUnpatched(id) \/ DeleteFaults(id)

Spec == Init /\ [][Next]_vars

--------------------------------------------------------------------------
(* Properties.                                                              *)

TypeOK ==
    /\ rewrites \in 0 .. MaxRewrites /\ ivf_index \in {NoIndex} \cup 0 .. rewrites
    /\ pending \subseteq Ids /\ pending_ids \subseteq Ids
    /\ open \in BOOLEAN /\ fp \in BOOLEAN /\ records \in Seq(Record)
    /\ pc \in {"prompt", "unindex", "confirm", "server"}
    /\ inserts \in 0 .. MaxInserts /\ served \in 0 .. inserts /\ mishaps \subseteq Mishaps

\* No command leaves an index of a data.db that has been replaced, whatever failed
\* in its compaction and whenever the session or the server ended, except through
\* the three mishaps, and then only until an index is next saved or removed.
IndexOfThisFile ==
    /\ TypeOK
    /\ pc # "unindex" /\ mishaps = {} => ivf_index \in {NoIndex, rewrites}
=============================================================================
