----------------------------- MODULE FlatDb ------------------------------
(* One table and the process that has it open: the FlatDb_t of db.c on top  *)
(* of the table file of storage.c and the delete queue and schedule files   *)
(* of pending-delete.c.  The engine is single threaded here (every caller   *)
(* holds the table's write lock, or is the command line session); what      *)
(* interleaves with it is failure.  Compaction and the scheduled delete are *)
(* therefore split at every system call after which a crash leaves a        *)
(* different set of files.                                                  *)
EXTENDS TableFile, FiniteSets

CONSTANTS
    InitialCapacity,  \* slots allocated when a table is opened
    InitialQueues,    \* delete queues the table may start with (id -> entries)
    Faults,           \* which calls may fail, see AllFaults
    TornBytes,        \* how many bytes of a failing append may reach the file
    MaxInserts        \* bound on the calls of db_insert

AllFaults == {"torn", "seek", "patch", "flush", "tmp_open", "tmp_write",
              "rename", "fopen", "clear", "remove"}

ASSUME FlatDbAssumption ==
    /\ InitialCapacity \in Nat \ {0}
    /\ InitialQueues \subseteq [Ids -> Nat]
    /\ Faults \subseteq AllFaults
    /\ TornBytes \subseteq Nat
    /\ MaxInserts \in Nat

VARIABLES
    data,             \* data.db
    tmp,              \* data.db.compact.tmp (empty when absent)
    pending,          \* pending.bin, entries per id
    schedule,         \* auto_delete_schedule.bin against the clock
    up,               \* a FlatDb_t is open
    fp,               \* storage->fp # NULL
    records,          \* db->records[0 .. count-1]
    capacity,         \* db->capacity
    pending_deletes,  \* db->pending_deletes, the cached queue
    pc,               \* where the engine is
    i,                \* loop index of storage_compact
    new_records,      \* storage_compact's new_records and new_offsets
    pending_ids,      \* ids check_and_run_auto_delete has still to delete
    success,          \* ids it has deleted
    inserts,          \* db_insert calls so far; also the value each one writes
    acked,            \* values whose insert returned 0 and that no delete marked
    since             \* inserts when the table was last opened

files == <<data, tmp, pending, schedule>>
handle == <<up, fp, records, capacity, pending_deletes>>
engine == <<pc, i, new_records, pending_ids, success>>
ghosts == <<inserts, acked, since>>
vars == <<data, tmp, pending, schedule, up, fp, records, capacity,
          pending_deletes, pc, i, new_records, pending_ids, success,
          inserts, acked, since>>

Record == [id : Ids, val : Nat, len : MetaLens, is_deleted : BOOLEAN,
           byte_offset : Nat, vector : {"heap", "mmap", "stale", "null"}]

NoIds == [id \in Ids |-> 0]

CellOf(r) == [id |-> r.id, val |-> r.val, len |-> r.len,
              is_deleted |-> r.is_deleted]

Init ==
    /\ data = EmptyImage /\ tmp = EmptyImage
    /\ pending \in InitialQueues
    /\ schedule = "none"
    /\ up = FALSE /\ fp = FALSE /\ records = <<>> /\ capacity = 0
    /\ pending_deletes = {}
    /\ pc = "idle" /\ i = 0 /\ new_records = <<>>
    /\ pending_ids = NoIds /\ success = NoIds
    /\ inserts = 0 /\ acked = {} /\ since = 0

--------------------------------------------------------------------------
(* Opening and closing.                                                     *)

\* load_pending_deletes, as the set of ids is_pending_delete finds.
load_pending_deletes == {id \in Ids : pending[id] > 0}

\* Capacity after doubling until n records fit.
Doubled(cap, n) ==
    IF n <= cap THEN cap
    ELSE CHOOSE c \in {cap * 2^k : k \in 1 .. n} : c >= n /\ c < 2 * n

Loaded(o) ==
    [id |-> data.cells[o].id, val |-> data.cells[o].val,
     len |-> data.cells[o].len, is_deleted |-> data.cells[o].is_deleted,
     byte_offset |-> o, vector |-> "mmap"]

db_init ==
    /\ ~up
    /\ LET offsets == storage_load_record(data, storage_init_position(data))
       IN  /\ records' = [j \in 1 .. Len(offsets) |-> Loaded(offsets[j])]
           /\ capacity' = Doubled(InitialCapacity, Len(offsets))
    /\ up' = TRUE /\ fp' = TRUE
    /\ pending_deletes' = load_pending_deletes
    /\ since' = inserts
    /\ UNCHANGED <<files, engine, inserts, acked>>

\* The process is gone, or db_close returned: only the files remain.
HandleGone ==
    /\ up' = FALSE /\ fp' = FALSE /\ records' = <<>> /\ capacity' = 0
    /\ pending_deletes' = {}
    /\ pc' = "idle" /\ i' = 0 /\ new_records' = <<>>
    /\ pending_ids' = NoIds /\ success' = NoIds

db_close ==
    /\ up /\ pc = "idle"
    /\ HandleGone
    /\ UNCHANGED <<files, ghosts>>

Crash ==
    /\ up
    /\ HandleGone
    /\ UNCHANGED <<files, ghosts>>

--------------------------------------------------------------------------
(* db_insert.                                                               *)

\* The array grows before anything can fail.
GrowOne ==
    capacity' = IF Len(records) = capacity THEN capacity * 2 ELSE capacity

NewCell(id, len) ==
    [id |-> id, val |-> inserts + 1, len |-> len, is_deleted |-> FALSE]

NewRecord(id, len) ==
    [id |-> id, val |-> inserts + 1, len |-> len, is_deleted |-> FALSE,
     byte_offset |-> data.eof, vector |-> "heap"]

\* All bytes written, flushed and synced; the record is counted.
db_insert(id, len) ==
    /\ up /\ pc = "idle" /\ inserts < MaxInserts
    /\ fp
    /\ GrowOne
    /\ data' = storage_write_record(data, NewCell(id, len))
    /\ records' = Append(records, NewRecord(id, len))
    /\ inserts' = inserts + 1 /\ acked' = acked \cup {inserts + 1}
    /\ UNCHANGED <<tmp, pending, schedule, up, fp, pending_deletes, engine, since>>

\* storage_write_record returned -1: fp was NULL, or a write failed after k
\* bytes had reached the file.  The slot is not counted, the bytes stay.
db_insert_failed(id, len) ==
    /\ up /\ pc = "idle" /\ inserts < MaxInserts
    /\ GrowOne
    /\ \/ ~fp /\ data' = data
       \/ /\ fp /\ "torn" \in Faults
          /\ \E k \in TornBytes :
                k < record_padded_size(len) /\ data' = TornWrite(data, k)
    /\ inserts' = inserts + 1
    /\ UNCHANGED <<tmp, pending, schedule, up, fp, records, pending_deletes,
                   engine, acked, since>>

\* The process dies inside storage_write_record, before the caller is told.
CrashInInsert(id, len) ==
    /\ up /\ pc = "idle" /\ inserts < MaxInserts /\ fp
    /\ \/ data' = storage_write_record(data, NewCell(id, len))
       \/ \E k \in TornBytes :
                k < record_padded_size(len) /\ data' = TornWrite(data, k)
    /\ inserts' = inserts + 1
    /\ HandleGone
    /\ UNCHANGED <<tmp, pending, schedule, acked, since>>

--------------------------------------------------------------------------
(* flat_search reads every live record that is not in the cached queue.  A  *)
(* NULL vector among them is dereferenced by the distance function.         *)

Readable(r) == r.vector \in {"heap", "mmap"}

Visited == {j \in 1 .. Len(records) :
                ~records[j].is_deleted /\ records[j].id \notin pending_deletes}

flat_search_fault ==
    /\ up /\ pc = "idle"
    /\ \E j \in Visited : ~Readable(records[j])
    /\ HandleGone
    /\ UNCHANGED <<files, ghosts>>

--------------------------------------------------------------------------
(* db_delete marks the first live record with the id, in RAM and then on    *)
(* disk.                                                                    *)

Matches(id) == {j \in 1 .. Len(records) :
                    records[j].id = id /\ ~records[j].is_deleted}

IsFirst(j, id) == j \in Matches(id) /\ \A k \in Matches(id) : j <= k

MarkInRam(j) == [records EXCEPT ![j].is_deleted = TRUE]

\* Returns 0.  The patch is flushed by an unchecked fclose after the fsync,
\* so it may also never reach the file.
DeleteDone(id) ==
    \E j \in 1 .. Len(records) :
        /\ fp /\ IsFirst(j, id)
        /\ records' = MarkInRam(j)
        /\ acked' = acked \ {records[j].val}
        /\ \/ data' = storage_patch_flag(data, records[j].byte_offset)
           \/ "flush" \in Faults /\ data' = data

\* Returns -1: no handle or no such record; the flag could not be patched and
\* the RAM flag is taken back; or the seek failed and the RAM flag stays.
DeleteRefused(id) ==
    /\ data' = data
    /\ \/ /\ ~fp \/ Matches(id) = {} \/ "patch" \in Faults
          /\ records' = records /\ acked' = acked
       \/ \E j \in 1 .. Len(records) :
            /\ "seek" \in Faults /\ fp /\ IsFirst(j, id)
            /\ records' = MarkInRam(j)
            /\ acked' = acked \ {records[j].val}

\* `origin delete <id>`: on success the session goes on to compact.
db_delete(id) ==
    /\ up /\ pc = "idle"
    /\ \/ DeleteDone(id) /\ pc' = "compact"
       \/ DeleteRefused(id) /\ pc' = "idle"
    /\ UNCHANGED <<tmp, pending, schedule, up, fp, capacity, pending_deletes,
                   i, new_records, pending_ids, success, inserts, since>>

--------------------------------------------------------------------------
(* check_and_run_auto_delete.                                               *)

\* Seeded fault: the schedule outlives a purge with nothing to do.
AutoDeleteForgets ==
    /\ up /\ pc = "idle" /\ schedule = "due"
    /\ load_pending_deletes = {}
    /\ UNCHANGED vars

\* Nothing is queued: the schedule is dropped.
AutoDeleteNothing ==
    /\ up /\ pc = "idle" /\ schedule = "due"
    /\ load_pending_deletes = {}
    /\ schedule' = "none"
    /\ UNCHANGED <<data, tmp, pending, handle, engine, ghosts>>

AutoDeleteBegin ==
    /\ up /\ pc = "idle" /\ schedule = "due"
    /\ load_pending_deletes # {}
    /\ pc' = "purge" /\ pending_ids' = pending /\ success' = NoIds
    /\ UNCHANGED <<files, handle, i, new_records, ghosts>>

\* One turn of the loop over the sorted ids.
AutoDeleteOne ==
    /\ pc = "purge"
    /\ \E id \in Ids :
        /\ pending_ids[id] > 0
        /\ \A other \in Ids : pending_ids[other] > 0 => id <= other
        /\ pending_ids' = [pending_ids EXCEPT ![id] = @ - 1]
        /\ \/ /\ DeleteDone(id)
              /\ success' = [success EXCEPT ![id] = @ + 1]
           \/ DeleteRefused(id) /\ success' = success
    /\ UNCHANGED <<tmp, pending, schedule, up, fp, capacity, pending_deletes,
                   pc, i, new_records, inserts, since>>

clear_pending_deletes ==
    /\ pc = "purge" /\ pending_ids = NoIds
    /\ \/ pending' = NoIds
       \/ "clear" \in Faults /\ pending' = pending
    /\ pc' = "unschedule"
    /\ UNCHANGED <<data, tmp, schedule, handle, i, new_records, pending_ids,
                   success, ghosts>>

\* The cached queue in db->pending_deletes is left as it was.
clear_auto_delete_schedule ==
    /\ pc = "unschedule"
    /\ \/ schedule' = "none"
       \/ "remove" \in Faults /\ schedule' = schedule
    /\ pc' = IF success # NoIds THEN "compact" ELSE "idle"
    /\ UNCHANGED <<data, tmp, pending, handle, i, new_records, pending_ids,
                   success, ghosts>>

--------------------------------------------------------------------------
(* db_compact and storage_compact.                                          *)

\* Seeded faults: the loop starts at the second record, and the file of an
\* earlier compaction is opened for appending.
CompactFromSecond ==
    /\ pc = "compact"
    /\ pc' = "copy" /\ tmp' = EmptyImage
    /\ i' = 2 /\ new_records' = <<>>
    /\ UNCHANGED <<data, pending, schedule, handle, pending_ids, success, ghosts>>
CompactAppends ==
    /\ pc = "compact"
    /\ pc' = "copy" /\ tmp' = tmp
    /\ i' = 1 /\ new_records' = <<>>
    /\ UNCHANGED <<data, pending, schedule, handle, pending_ids, success, ghosts>>

CompactBegin ==
    /\ pc = "compact"
    /\ \/ pc' = "copy" /\ tmp' = EmptyImage
       \/ "tmp_open" \in Faults /\ pc' = "idle" /\ tmp' = tmp
    /\ i' = 1 /\ new_records' = <<>>
    /\ UNCHANGED <<data, pending, schedule, handle, pending_ids, success, ghosts>>

CompactSkip ==
    /\ pc = "copy" /\ i <= Len(records) /\ records[i].is_deleted
    /\ i' = i + 1
    /\ UNCHANGED <<files, handle, pc, new_records, pending_ids, success, ghosts>>

\* Seeded fault: the copy keeps the offset the record had in the old file.
CompactKeepsOffset ==
    /\ pc = "copy" /\ i <= Len(records) /\ ~records[i].is_deleted
    /\ Readable(records[i])
    /\ tmp' = storage_write_record(tmp, CellOf(records[i]))
    /\ new_records' = Append(new_records, records[i])
    /\ i' = i + 1
    /\ UNCHANGED <<data, pending, schedule, handle, pc, pending_ids, success, ghosts>>

CompactCopy ==
    /\ pc = "copy" /\ i <= Len(records) /\ ~records[i].is_deleted
    /\ Readable(records[i])
    /\ tmp' = storage_write_record(tmp, CellOf(records[i]))
    /\ new_records' = Append(new_records, [records[i] EXCEPT !.byte_offset = tmp.eof])
    /\ i' = i + 1
    /\ UNCHANGED <<data, pending, schedule, handle, pc, pending_ids, success, ghosts>>

\* fwrite from a vector pointer that is NULL or no longer mapped.
CompactCopyFault ==
    /\ pc = "copy" /\ i <= Len(records) /\ ~records[i].is_deleted
    /\ ~Readable(records[i])
    /\ HandleGone
    /\ UNCHANGED <<files, ghosts>>

\* A write to the new file, or its last flush, failed: the file is removed.
CompactAbort ==
    /\ pc = "copy" /\ "tmp_write" \in Faults
    /\ tmp' = EmptyImage /\ pc' = "idle"
    /\ new_records' = <<>> /\ i' = 0
    /\ UNCHANGED <<data, pending, schedule, handle, pending_ids, success, ghosts>>

\* A pointer into a mapping that munmap has removed.
Unmapped(r) == IF r.vector = "mmap" THEN [r EXCEPT !.vector = "stale"] ELSE r

\* Sync the new file, drop the mapping and close the old one.
CompactFinish ==
    /\ pc = "copy" /\ i > Len(records)
    /\ fp' = FALSE /\ pc' = "rename"
    /\ UNCHANGED <<files, up, records, capacity, pending_deletes, i, new_records,
                   pending_ids, success, ghosts>>

CompactRename ==
    /\ pc = "rename"
    /\ data' = tmp /\ tmp' = EmptyImage
    /\ pc' = "reopen"
    /\ UNCHANGED <<pending, schedule, handle, i, new_records, pending_ids,
                   success, ghosts>>

\* The old file is opened again, if it can be; the new one stays behind.
CompactRenameFailed ==
    /\ pc = "rename" /\ "rename" \in Faults
    /\ \/ fp' = TRUE
       \/ "fopen" \in Faults /\ fp' = FALSE
    /\ records' = [j \in 1 .. Len(records) |-> Unmapped(records[j])]
    /\ pc' = "idle" /\ i' = 0 /\ new_records' = <<>>
    /\ UNCHANGED <<files, up, capacity, pending_deletes, pending_ids, success,
                   ghosts>>

\* new_records gets its pointers: into the new mapping if the old one was a
\* mapping, else NULL.
Repointed(r) ==
    [r EXCEPT !.vector = IF r.vector = "mmap" THEN "mmap" ELSE "null"]

CompactInstall ==
    /\ pc = "reopen"
    /\ fp' = TRUE
    /\ records' = [j \in 1 .. Len(new_records) |-> Repointed(new_records[j])]
    /\ capacity' = IF Len(new_records) > 0 THEN Len(new_records) ELSE 1
    /\ pc' = "idle" /\ i' = 0 /\ new_records' = <<>>
    /\ UNCHANGED <<files, up, pending_deletes, pending_ids, success, ghosts>>

\* The renamed file cannot be opened: the old array stays, over a new file.
CompactReopenFailed ==
    /\ pc = "reopen" /\ "fopen" \in Faults
    /\ records' = [j \in 1 .. Len(records) |-> Unmapped(records[j])]
    /\ pc' = "idle" /\ i' = 0 /\ new_records' = <<>>
    /\ UNCHANGED <<files, up, fp, capacity, pending_deletes, pending_ids, success,
                   ghosts>>

--------------------------------------------------------------------------
(* The schedule file and the clock.                                         *)

set_auto_delete_schedule ==
    /\ pc = "idle"
    /\ schedule' \in {"later", "due"}
    /\ UNCHANGED <<data, tmp, pending, handle, engine, ghosts>>

cancel_auto_delete ==
    /\ pc = "idle" /\ schedule # "none"
    /\ schedule' = "none"
    /\ UNCHANGED <<data, tmp, pending, handle, engine, ghosts>>

TimePasses ==
    /\ schedule = "later" /\ schedule' = "due"
    /\ UNCHANGED <<data, tmp, pending, handle, engine, ghosts>>

--------------------------------------------------------------------------
CompactWork ==
    \/ CompactBegin \/ CompactSkip \/ CompactCopy \/ CompactCopyFault
    \/ CompactFinish \/ CompactRename \/ CompactInstall

CompactFailure == CompactAbort \/ CompactRenameFailed \/ CompactReopenFailed

AutoDelete ==
    \/ AutoDeleteNothing \/ AutoDeleteBegin \/ AutoDeleteOne
    \/ clear_pending_deletes \/ clear_auto_delete_schedule

Next ==
    \/ db_init \/ db_close \/ Crash \/ flat_search_fault
    \/ \E id \in Ids : \E len \in MetaLens :
            db_insert(id, len) \/ db_insert_failed(id, len) \/ CrashInInsert(id, len)
    \/ \E id \in Ids : db_delete(id)
    \/ AutoDelete \/ CompactWork \/ CompactFailure
    \/ set_auto_delete_schedule \/ cancel_auto_delete \/ TimePasses

Spec == Init /\ [][Next]_vars

\* The thread that entered a delete or a compaction keeps running it, and the
\* sync worker calls check_and_run_auto_delete every two seconds.  No failure
\* is ever owed.
FairSpec == Spec /\ WF_vars(CompactWork) /\ WF_vars(AutoDelete)

--------------------------------------------------------------------------
(* Properties.                                                              *)

TypeOK ==
    /\ IsImage(data) /\ IsImage(tmp)
    /\ pending \in [Ids -> Nat]
    /\ schedule \in {"none", "later", "due"}
    /\ up \in BOOLEAN /\ fp \in BOOLEAN
    /\ records \in Seq(Record) /\ capacity \in Nat
    /\ pending_deletes \subseteq Ids
    /\ pc \in {"idle", "purge", "unschedule", "compact", "copy", "rename", "reopen"}
    /\ i \in Nat /\ new_records \in Seq(Record)
    /\ pending_ids \in [Ids -> Nat] /\ success \in [Ids -> Nat]
    /\ inserts \in Nat /\ acked \subseteq 1 .. inserts
    /\ since \in Nat

\* The array describes the file: every entry's byte_offset is where a whole
\* record with its contents starts, no two entries share one, and a record
\* flagged on disk is flagged in RAM.
Describes(recs, img) ==
    /\ \A j \in 1 .. Len(recs) :
        LET r == recs[j] IN
        /\ r.byte_offset \in DOMAIN img.cells
        /\ LET c == img.cells[r.byte_offset] IN
           /\ c.id = r.id /\ c.val = r.val /\ c.len = r.len
           /\ c.is_deleted => r.is_deleted
    /\ \A j, k \in 1 .. Len(recs) :
        recs[j].byte_offset = recs[k].byte_offset => j = k

\* Whenever storage->fp is open the array describes data.db, through inserts,
\* failed inserts, deletes, compactions and every failure of each.  db_delete
\* patches the byte at byte_offset + 8 through a path of its own, so an entry
\* that is wrong here makes it overwrite another record.
MemoryMatchesDisk == fp => Describes(records, data)

\* A record that was accepted in this session, and that no delete marked, is
\* live in data.db at every moment: also between any two steps of a
\* compaction, where a crash would leave exactly these files behind.
SessionDurable ==
    \A v \in acked : v > since => LiveOnDisk(data, v)

\* No whole record of data.db overlaps another or passes the end of the file,
\* whatever failed appends left between them.
FileWellFormed == CellsDisjoint(data)

\* db->count never exceeds db->capacity and capacity is never 0: db_insert
\* doubles it, so a capacity of 0 after compacting an emptied table would make
\* the next insert write past the allocation.
CountWithinCapacity ==
    up => capacity > 0 /\ Len(records) <= capacity

\* What is not live on disk never becomes live again: no step, including the
\* rename that installs a compacted file, brings back a deleted record or one
\* from a compaction that an earlier crash cut short.
NoResurrection ==
    [][\A v \in 1 .. inserts : LiveOnDisk(data', v) => LiveOnDisk(data, v)]_vars

\* Only the rename of a compaction removes a record from data.db; every other
\* step leaves each record where it is, except for its deleted flag.
OnlyRenameRemoves ==
    [][pc # "rename" =>
         \A o \in DOMAIN data.cells :
            /\ o \in DOMAIN data'.cells
            /\ data'.cells[o] \in {data.cells[o],
                                   [data.cells[o] EXCEPT !.is_deleted = TRUE]}]_vars

\* A schedule that is due is executed to its end (the queue is processed and
\* cleared, whether or not the schedule's file can then be removed), or the
\* table is closed; and a compaction or a scheduled delete that has begun comes
\* to an end.
DueIsExecuted ==
    /\ schedule = "due" ~> (pc = "unschedule" \/ schedule # "due" \/ ~up)
    /\ pc # "idle" ~> pc = "idle"

--------------------------------------------------------------------------
(* The inductive invariant behind the safety properties.                    *)

\* The engine compacts only a table whose file is open: after a compaction
\* that lost storage->fp no delete succeeds any more.
EngineInv ==
    /\ fp \/ pc # "idle" => up
    /\ pc \in {"compact", "copy"} => fp
    /\ pc \in {"rename", "reopen"} => ~fp
    /\ pc \in {"purge", "unschedule"} /\ success # NoIds => fp
    /\ pc = "copy" => i > 0

LayoutInv == CellsDisjoint(data) /\ CellsDisjoint(tmp)

\* Old array and old file, new array and new file, and who is who after the
\* rename.
MirrorInv ==
    /\ fp \/ pc = "rename" => Describes(records, data)
    /\ pc \in {"copy", "rename"} => Describes(new_records, tmp)
    /\ pc = "reopen" => Describes(new_records, data)

HoldsLive(recs, v) ==
    \E j \in 1 .. Len(recs) : recs[j].val = v /\ ~recs[j].is_deleted

\* Where a record accepted in this session is, at every step.
KeptInv ==
    \A v \in acked : v > since =>
        /\ LiveOnDisk(data, v)
        /\ fp \/ pc = "rename" => HoldsLive(records, v)
        /\ pc = "copy" => \/ HoldsLive(new_records, v)
                          \/ \E j \in i .. Len(records) :
                                records[j].val = v /\ ~records[j].is_deleted
        /\ pc \in {"rename", "reopen"} => HoldsLive(new_records, v)

\* Which file each array describes, and where each accepted record is, at every
\* step of db_delete, check_and_run_auto_delete and storage_compact; with the
\* types, the layout of both files and the bound of the array.
IInv ==
    /\ TypeOK /\ EngineInv /\ LayoutInv /\ MirrorInv /\ KeptInv
    /\ CountWithinCapacity

--------------------------------------------------------------------------
(* What the repository's documents say, and the code does not do.           *)

\* The rewrite keeps "only the records that survived" and so all of them: the
\* rename drops no live record of the old file that was accepted and never
\* deleted.
RewriteKeepsSurvivors ==
    [][\A v \in acked \cap acked' : LiveOnDisk(data, v) => LiveOnDisk(data', v)]_vars
==========================================================================
