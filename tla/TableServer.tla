---------------------------- MODULE TableServer ----------------------------
(* One table of the server with what its handlers move: data.db, the record  *)
(* array, the insert queue between the two, the delete queue and its cached  *)
(* copy, and the trained index in RAM and in ivf_index.bin.                  *)
(*                                                                           *)
(* The table's lock makes each handler, and each of the four things          *)
(* sync_worker does to a table in a round, one step here (SwapExclusive and  *)
(* IndexExclusive of ServerLocks); between those four the handlers run.      *)
(* Compaction is one step too: its system calls, and a crash among them, are *)
(* FlatDb's.  The one pair that does not come apart, an insert that waits    *)
(* for the queue while the drain waits for the table, is the round "jam".    *)
EXTENDS TableFile, FiniteSets, Subsequences

CONSTANTS
    InitialQueue,   \* pending.bin when the server starts (id -> entries)
    MaxInserts,     \* bound on the inserts
    MaxTrains,      \* bound on the trainings
    TornBytes,      \* how many bytes of a failing append may reach the file
    Faults          \* what may fail, see AllFaults

AllFaults == {"crash", "write", "jam", "save", "compact", "reopen"}

ASSUME TableServerAssumption ==
    /\ InitialQueue \in [Ids -> Nat]
    /\ MaxInserts \in Nat /\ MaxTrains \in Nat /\ TornBytes \subseteq Nat
    /\ Faults \subseteq AllFaults

VARIABLES
    data, pending, schedule, index_file,     \* the files
    up, fp, file_size,                       \* the open table and its mapping
    records, insert_queue, pending_deletes, pending_delete_dirty,
    append_held,                             \* pending_append_lock is kept
    ivf_index, index_loaded,                 \* the cached index
    round,                                   \* sync_worker's position
    inserts, trains,                         \* counters
    acked, opened,                           \* history
    mishaps                                  \* what has gone wrong so far, see Mishaps

files == <<data, pending, schedule, index_file>>
queue == <<pending_deletes, pending_delete_dirty, append_held>>
cache == <<ivf_index, index_loaded>>
history == <<inserts, trains, acked, opened, mishaps>>
vars == <<files, up, fp, file_size, records, insert_queue, queue, cache, round, history>>

Record == [id : Ids, val : Nat, len : MetaLens, is_deleted : BOOLEAN,
           byte_offset : Nat, vector : {"heap", "null"}]

NoIds == [id \in Ids |-> 0]

\* What has happened that the code does not provide for: an insert came between
\* the drain of the queue and the compaction of the same round ("slipped"), the
\* process ended between a compaction and the removal of the index ("cut"), or
\* the compacted file could not be opened ("reopen").
Mishaps == {"slipped", "cut", "reopen"}

\* An index lists byte offsets; val names the record an offset was taken from.
NoIndex == [state |-> "none", entries |-> {}]
TornIndex == [state |-> "torn", entries |-> {}]
IndexOf(entries) == [state |-> "whole", entries |-> entries]

load_pending_deletes == {id \in Ids : pending[id] > 0}

Init ==
    /\ data = EmptyImage /\ pending = InitialQueue /\ schedule \in {"none", "due"}
    /\ index_file = NoIndex
    /\ up = FALSE /\ fp = FALSE /\ file_size = 0
    /\ records = <<>> /\ insert_queue = <<>>
    /\ pending_deletes = {} /\ pending_delete_dirty = FALSE /\ append_held = FALSE
    /\ ivf_index = NoIndex /\ index_loaded = FALSE
    /\ round = "merge"
    /\ inserts = 0 /\ trains = 0 /\ acked = {} /\ opened = 0 /\ mishaps = {}

--------------------------------------------------------------------------
(* The slot of the table.                                                   *)

\* get_or_open_table on first use.  db_open reads from where storage_init left
\* the file, its end: what earlier runs wrote is not in the array.
get_or_open_table ==
    /\ ~up
    /\ storage_load_record(data, storage_init_position(data)) = <<>>
    /\ up' = TRUE /\ fp' = TRUE /\ file_size' = data.eof
    /\ pending_deletes' = load_pending_deletes
    /\ opened' = inserts
    /\ UNCHANGED <<files, records, insert_queue, pending_delete_dirty, append_held,
                   cache, round, inserts, trains, acked, mishaps>>

\* Everything in RAM is lost.
ServerGone ==
    /\ up' = FALSE /\ fp' = FALSE /\ file_size' = 0
    /\ records' = <<>> /\ insert_queue' = <<>>
    /\ pending_deletes' = {} /\ pending_delete_dirty' = FALSE /\ append_held' = FALSE
    /\ ivf_index' = NoIndex /\ index_loaded' = FALSE
    /\ round' = "merge"
    /\ mishaps' = IF round = "drop" THEN mishaps \cup {"cut"} ELSE mishaps
    /\ UNCHANGED <<files, inserts, trains, acked, opened>>

Crash ==
    /\ up /\ "crash" \in Faults
    /\ ServerGone

--------------------------------------------------------------------------
(* Request handlers.                                                        *)

\* A handler gets as far as the table: sync_worker is not stuck with
\* open_tables_lock in its hands.
Serving == up /\ round # "jam"

\* The end of the file.
storage_current_offset == data.eof

Written(id, len) == [id |-> id, val |-> inserts + 1, len |-> len, is_deleted |-> FALSE]

Queued(id, len, offset) ==
    [id |-> id, val |-> inserts + 1, len |-> len, is_deleted |-> FALSE,
     byte_offset |-> offset, vector |-> "heap"]

\* POST /insert: write the record, queue it for the array, answer.  Without an
\* open file nothing is written and the client is told so.
Insert(id, len) ==
    /\ Serving /\ fp /\ inserts < MaxInserts
    /\ data' = storage_write_record(data, Written(id, len))
    /\ insert_queue' = Append(insert_queue, Queued(id, len, storage_current_offset))
    /\ inserts' = inserts + 1 /\ acked' = acked \cup {inserts + 1}
    /\ UNCHANGED <<pending, schedule, index_file, up, fp, file_size, records, queue,
                   cache, round, trains, opened, mishaps>>

\* The write fails: the client is told so, nothing is queued, and the file may
\* keep the first bytes of the record.
InsertFails(len) ==
    /\ Serving /\ fp /\ inserts < MaxInserts
    /\ "write" \in Faults
    /\ \E k \in TornBytes : k < record_padded_size(len) /\ data' = TornWrite(data, k)
    /\ inserts' = inserts + 1
    /\ UNCHANGED <<pending, schedule, index_file, up, fp, file_size, records, insert_queue,
                   queue, cache, round, trains, acked, opened, mishaps>>

\* The handler has the table and has written the record; the drain has the queue,
\* which is not empty, and waits for the table (ServerLocks_deadlock).  Neither
\* goes on, and nothing is answered until the server is ended.
InsertJam(id, len) ==
    /\ up /\ fp /\ inserts < MaxInserts
    /\ "jam" \in Faults
    /\ round = "merge" /\ insert_queue # <<>>
    /\ data' = storage_write_record(data, Written(id, len))
    /\ inserts' = inserts + 1
    /\ round' = "jam"
    /\ UNCHANGED <<pending, schedule, index_file, up, fp, file_size, records, insert_queue,
                   queue, cache, trains, acked, opened, mishaps>>

\* POST /delete-request: in this build append_pending_delete writes nothing and
\* keeps its lock, so the first request marks the table and no later one gets
\* that far.
DeleteRequest ==
    /\ Serving /\ ~append_held
    /\ append_held' = TRUE /\ pending_delete_dirty' = TRUE
    /\ UNCHANGED <<files, up, fp, file_size, records, insert_queue, pending_deletes,
                   cache, round, history>>

LiveAt(recs) == {j \in 1 .. Len(recs) : ~recs[j].is_deleted}
Readable(r) == r.vector # "null"

\* Training and exact search read vectors that a compaction has dropped.
VectorFault ==
    /\ Serving /\ \E j \in 1 .. Len(records) : ~Readable(records[j])
    /\ ServerGone

\* Every live record's offset ends up in one cluster (the module Kmeans).
kmeans_build ==
    {[byte_offset |-> records[j].byte_offset, val |-> records[j].val] :
        j \in LiveAt(records)}

\* POST /train.  save_ivf_index writes in place: a failure leaves the file as it
\* was (not opened) or cut short, and the cached index stays.  fclose is not
\* checked, so a file cut short may also pass for a success.
Train ==
    /\ Serving /\ trains < MaxTrains
    /\ Len(records) > 0
    /\ \A j \in LiveAt(records) : Readable(records[j])
    /\ \E j \in 1 .. Len(records) : Readable(records[j])
    /\ trains' = trains + 1
    /\ \/ /\ index_file' = IndexOf(kmeans_build)
          /\ ivf_index' = IndexOf(kmeans_build) /\ index_loaded' = TRUE
       \/ /\ "save" \in Faults
          /\ index_file' = TornIndex
          /\ ivf_index' = IndexOf(kmeans_build) /\ index_loaded' = TRUE
       \/ /\ "save" \in Faults
          /\ index_file' \in {index_file, TornIndex}
          /\ UNCHANGED cache
    /\ UNCHANGED <<data, pending, schedule, up, fp, file_size, records, insert_queue,
                   queue, round, inserts, acked, opened, mishaps>>

\* A file that ends too early is refused.
load_ivf_index == IF index_file = TornIndex THEN NoIndex ELSE index_file

\* The first ANN search after a start or an invalidation reads the file.
LoadIndex ==
    /\ Serving /\ ~index_loaded
    /\ ivf_index' = load_ivf_index /\ index_loaded' = TRUE
    /\ UNCHANGED <<files, up, fp, file_size, records, insert_queue, queue, round, history>>

\* storage_fetch_by_offset refuses an offset whose header is beyond the end
\* and takes any other for the start of a record.
storage_fetch_by_offset(e, size) == e.byte_offset + RECORD_HEADER_BYTES <= size

--------------------------------------------------------------------------
(* sync_worker, one table, one round: merge, refresh, delete, drop.         *)

\* The mapping grows to the end of the file.
storage_remap == IF fp THEN data.eof ELSE file_size

\* Seeded fault: the drained entries stay in the queue.
MergeKeepsQueue ==
    /\ up /\ round = "merge"
    /\ records' = records \o insert_queue
    /\ round' = "refresh"
    /\ UNCHANGED <<files, up, fp, file_size, insert_queue, queue, cache, history>>

\* Seeded fault: the worker leaves the round before the merge.
MergeSkipped ==
    /\ up /\ round = "merge" /\ round' = "refresh"
    /\ UNCHANGED <<files, up, fp, file_size, records, insert_queue, queue, cache, history>>

\* The queue goes to the end of the array.
SyncMerge ==
    /\ up /\ round = "merge"
    /\ records' = records \o insert_queue
    /\ insert_queue' = <<>>
    /\ file_size' = IF insert_queue = <<>> THEN file_size ELSE storage_remap
    /\ round' = "refresh"
    /\ UNCHANGED <<files, up, fp, queue, cache, history>>

SyncRefresh ==
    /\ up /\ round = "refresh"
    /\ pending_deletes' = IF pending_delete_dirty THEN load_pending_deletes
                          ELSE pending_deletes
    /\ pending_delete_dirty' = FALSE
    /\ round' = "delete"
    /\ UNCHANGED <<files, up, fp, file_size, records, insert_queue, append_held,
                   cache, history>>

\* db_delete for each queued id, as often as it is queued: the first live
\* records with that id are marked, in the array and in the file.
Doomed ==
    {j \in LiveAt(records) :
        Cardinality({k \in LiveAt(records) : k < j /\ records[k].id = records[j].id})
            < pending[records[j].id]}

Marked == [j \in 1 .. Len(records) |->
              [records[j] EXCEPT !.is_deleted = @ \/ j \in Doomed]]

Patched == [data EXCEPT !.cells = [o \in DOMAIN data.cells |->
              [data.cells[o] EXCEPT !.is_deleted =
                  @ \/ \E j \in Doomed : records[j].byte_offset = o]]]

\* storage_compact: the live records of the array, one behind the other.  Their
\* vectors are heap copies here, and those pointers are dropped.
Survivors == LET all == Marked IN Picked(all, LiveAt(all))

NewOffsets(recs) == RunningTotal([j \in 1 .. Len(recs) |-> record_padded_size(recs[j].len)])

CompactedRecords(recs) ==
    LET at == NewOffsets(recs)
    IN  [j \in 1 .. Len(recs) |-> [recs[j] EXCEPT !.byte_offset = at[j], !.vector = "null"]]

CompactedData(recs) ==
    LET at == NewOffsets(recs)
        CellAt(o) == LET r == recs[CHOOSE j \in 1 .. Len(recs) : at[j] = o]
                     IN  [id |-> r.id, val |-> r.val, len |-> r.len, is_deleted |-> FALSE]
    IN  [cells |-> [o \in {at[j] : j \in 1 .. Len(recs)} |-> CellAt(o)],
         eof |-> at[Len(recs) + 1]]

\* No schedule is due, or nothing is queued, or no queued id is found: nothing
\* to compact, but a due schedule and its queue are cleared.
AutoDeleteNothing ==
    /\ up /\ round = "delete"
    /\ schedule = "due" => ~fp \/ Doomed = {}
    /\ schedule' = "none"
    /\ pending' = IF schedule = "due" THEN NoIds ELSE pending
    /\ round' = "merge"
    /\ UNCHANGED <<data, index_file, up, fp, file_size, records, insert_queue, queue,
                   cache, history>>

\* Seeded fault: the array keeps the offsets of the old file.
CompactOldOffsets(recs) ==
    /\ data' = CompactedData(recs) /\ records' = recs
    /\ fp' = TRUE /\ file_size' = CompactedData(recs).eof

\* storage_compact as a whole, of the records to keep: it replaces file and array;
\* or it fails with the marks in both; or it replaces the file and cannot open it
\* again.  Every vector it copies is there (CopiesVectors of TableServerProofs): a
\* queue is carried out once, and nothing fills it again in this build.
db_compact(recs) ==
    \/ /\ data' = CompactedData(recs) /\ records' = CompactedRecords(recs)
       /\ fp' = TRUE /\ file_size' = data'.eof
    \/ /\ "compact" \in Faults
       /\ data' = Patched /\ records' = Marked
       /\ UNCHANGED <<fp, file_size>>
    \/ /\ "reopen" \in Faults
       /\ data' = CompactedData(recs) /\ records' = Marked
       /\ fp' = FALSE /\ file_size' = 0

\* Records were deleted.  The cached delete queue is left as it is.
check_and_run_auto_delete ==
    /\ up /\ fp /\ round = "delete" /\ schedule = "due" /\ Doomed # {}
    /\ \E recs \in {Survivors} : db_compact(recs)
    /\ schedule' = "none" /\ pending' = NoIds
    /\ acked' = acked \ {records[j].val : j \in Doomed}
    /\ round' = "drop"
    /\ mishaps' = mishaps \cup (IF insert_queue # <<>> THEN {"slipped"} ELSE {})
                          \cup (IF ~fp' THEN {"reopen"} ELSE {})
    /\ UNCHANGED <<index_file, up, insert_queue, queue, cache, inserts, trains, opened>>

\* Seeded fault: the file is removed, the cached index is not.
DropFileOnly ==
    /\ up /\ round = "drop" /\ round' = "merge"
    /\ index_file' = NoIndex
    /\ UNCHANGED <<data, pending, schedule, up, fp, file_size, records, insert_queue,
                   queue, cache, history>>

\* remove(ivf_index.bin) and clear_cached_index.
SyncDropIndex ==
    /\ up /\ round = "drop" /\ round' = "merge"
    /\ index_file' = NoIndex
    /\ ivf_index' = NoIndex /\ index_loaded' = FALSE
    /\ UNCHANGED <<data, pending, schedule, up, fp, file_size, records, insert_queue,
                   queue, history>>

\* The command line sets a schedule while the server runs and its time comes.
set_auto_delete_schedule ==
    /\ schedule = "none" /\ schedule' = "due"
    /\ UNCHANGED <<data, pending, index_file, up, fp, file_size, records, insert_queue,
                   queue, cache, round, history>>

sync_worker ==
    SyncMerge \/ SyncRefresh \/ AutoDeleteNothing \/ check_and_run_auto_delete
    \/ SyncDropIndex

handel_client ==
    \/ \E id \in Ids, len \in MetaLens : Insert(id, len) \/ InsertJam(id, len)
    \/ \E len \in MetaLens : InsertFails(len)
    \/ DeleteRequest \/ Train \/ LoadIndex

Next ==
    \/ get_or_open_table \/ Crash \/ VectorFault
    \/ handel_client \/ sync_worker
    \/ set_auto_delete_schedule

Spec == Init /\ [][Next]_vars

\* sync_worker's loop goes on while the server is up and not in the jam: sleep(2)
\* returns, and every lock it takes is given back otherwise (RequestsAnswered
\* of ServerLocks).  In the jam no step of sync_worker is enabled, so nothing is
\* assumed of it.
FairSpec == Spec /\ WF_vars(sync_worker)

--------------------------------------------------------------------------
(* Properties.                                                              *)

TypeOK ==
    /\ IsImage(data) /\ pending \in [Ids -> Nat] /\ schedule \in {"none", "due"}
    /\ up \in BOOLEAN /\ fp \in BOOLEAN /\ file_size \in Nat
    /\ \A j \in 1 .. Len(records) : records[j] \in Record
    /\ \A j \in 1 .. Len(insert_queue) : insert_queue[j] \in Record
    /\ pending_deletes \subseteq Ids
    /\ pending_delete_dirty \in BOOLEAN /\ append_held \in BOOLEAN
    /\ index_loaded \in BOOLEAN
    /\ round \in {"merge", "refresh", "delete", "drop", "jam"}
    /\ inserts \in 0 .. MaxInserts /\ trains \in 0 .. MaxTrains
    /\ acked \subseteq 1 .. inserts /\ opened \in 0 .. inserts /\ mishaps \subseteq Mishaps

Places(recs, v) == Cardinality({j \in LiveAt(recs) : recs[j].val = v})

\* What this run of the server acknowledged and no delete has taken is in the
\* array or in the insert queue, and once: no hand-over between the handler,
\* the drain and a compaction (kept or failed) loses or doubles a record.
AckedInMemory ==
    up => \A v \in acked :
              v > opened => Places(records, v) + Places(insert_queue, v) = 1

Stored(v) == v > opened => LiveOnDisk(data, v)

\* What this run of the server acknowledged and did not delete is in the file,
\* also after the server is gone, unless an insert has slipped in between a
\* drain and the compaction of its round.
AckedOnDisk == "slipped" \notin mishaps => \A v \in acked : Stored(v)

Agrees(r) ==
    /\ r.byte_offset \in DOMAIN data.cells
    /\ LET c == data.cells[r.byte_offset] IN
       c.id = r.id /\ c.val = r.val /\ c.len = r.len /\ c.is_deleted = r.is_deleted

\* While the file is open, every record of the array and of the queue stands in
\* the file where its byte_offset says: db_delete and training rely on it.  The
\* mapping an ANN search reads never reaches past the end of the file.
ArrayDescribesFile ==
    /\ TypeOK /\ file_size <= data.eof
    /\ fp /\ "slipped" \notin mishaps =>
          /\ \A j \in 1 .. Len(records) : Agrees(records[j])
          /\ \A j \in 1 .. Len(insert_queue) : Agrees(insert_queue[j])

\* The index the next ANN search uses.
NextIndex == IF index_loaded THEN ivf_index ELSE load_ivf_index

Current(index) ==
    \A e \in index.entries :
        storage_fetch_by_offset(e, data.eof) =>
            /\ e.byte_offset \in DOMAIN data.cells
            /\ data.cells[e.byte_offset].val = e.val

\* Outside the stretch between a compaction and the removal of the index, every
\* offset of the index in use is the start of the record it was taken from,
\* whatever trainings, failed saves and restarts came before.
IndexCurrent == round # "drop" /\ mishaps = {} => Current(NextIndex)

\* An acknowledged insert comes into the array, where searches look, and a due
\* schedule is taken up, unless the server goes first, the insert jam stops it, or
\* a scheduled delete takes the record.  An outdated index is removed, unless the
\* server goes first.  (A record under an id of the cached delete queue is in the
\* array and hidden from searches.)
InsertAppears ==
    /\ \A v \in 1 .. MaxInserts :
        Places(insert_queue, v) = 1 ~>
            \/ \E j \in LiveAt(records) : records[j].val = v
            \/ v \notin acked \/ ~up \/ round = "jam"
    /\ (up /\ schedule = "due") ~> (schedule = "none" \/ ~up \/ round = "jam")
    /\ round = "drop" ~> round # "drop"

--------------------------------------------------------------------------
(* What the documentation says and the code does not keep.                  *)

\* write-up/Deployment-and-Capacity.md: an insert was safely written to disk the
\* moment it returned success.
InsertsDurable == \A v \in acked : Stored(v)
==========================================================================
