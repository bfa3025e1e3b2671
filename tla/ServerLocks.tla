---------------------------- MODULE ServerLocks ----------------------------
(* The threads of server.c and the locks they take: the epoll workers, each  *)
(* running one request handler of handel_client at a time, and sync_worker.  *)
(* What the handlers compute is left to other modules; kept here is which    *)
(* locks each of them takes, in which order, and on which condition.         *)
(*                                                                           *)
(* A mutex, and each side of a read/write lock, is the set of threads that   *)
(* hold it.  Readers are admitted whenever no writer holds the lock, which   *)
(* is what the default pthread_rwlock attribute does.  auth_lock,            *)
(* conn_tracker_lock and disk_write_lock have no state: nothing is acquired  *)
(* while they are held, so the sections under them are part of the step      *)
(* around them.                                                              *)
EXTENDS Integers, FiniteSets

CONSTANTS
    Workers,      \* epoll worker threads
    SyncWorker,   \* the background thread
    Tables,       \* table names
    Routes        \* the routes clients call, see AllRoutes

AllRoutes == {"search", "insert", "delete", "train"}

ASSUME ServerLocksAssumption ==
    /\ SyncWorker \notin Workers
    /\ Routes \subseteq AllRoutes

Threads == Workers \cup {SyncWorker}

VARIABLES
    pc,                   \* where each thread is
    route,                \* the request each worker is serving
    table,                \* the table each thread works on
    left,                 \* tables sync_worker has still to visit in this round
    open_tables,          \* tables that have a slot
    open_tables_lock,     \* mutex
    readers, writer,      \* open_table_t.lock of each table
    insert_queue_lock,    \* mutex of each table
    queued,               \* insert_queue_count > 0
    pending_dirty_lock,   \* mutex of each table
    dirty,                \* pending_delete_dirty
    index_readers, index_writer,   \* index_lock, one for all tables
    index_loaded,         \* open_table_t.index_loaded
    pending_delete_lock,  \* mutex
    pending_append_lock   \* mutex of pending-delete.c

vars == <<pc, route, table, left, open_tables, open_tables_lock, readers, writer,
          insert_queue_lock, queued, pending_dirty_lock, dirty, index_readers,
          index_writer, index_loaded, pending_delete_lock, pending_append_lock>>

tableLocks == <<readers, writer>>
indexLock == <<index_readers, index_writer>>
pendingLocks == <<pending_delete_lock, pending_append_lock>>
syncLocks == <<insert_queue_lock, pending_dirty_lock>>
flags == <<queued, dirty, index_loaded>>

Init ==
    /\ pc = [t \in Threads |-> IF t = SyncWorker THEN "sleep" ELSE "idle"]
    /\ route \in [Workers -> Routes]
    /\ table \in [Threads -> Tables]
    /\ left = {}
    /\ open_tables = {} /\ open_tables_lock = {}
    /\ readers = [t \in Tables |-> {}] /\ writer = [t \in Tables |-> {}]
    /\ insert_queue_lock = [t \in Tables |-> {}]
    /\ queued = [t \in Tables |-> FALSE]
    /\ pending_dirty_lock = [t \in Tables |-> {}]
    /\ dirty = [t \in Tables |-> FALSE]
    /\ index_readers = {} /\ index_writer = {}
    /\ index_loaded = [t \in Tables |-> FALSE]
    /\ pending_delete_lock = {} /\ pending_append_lock = {}

--------------------------------------------------------------------------
Goto(t, from, to) == pc[t] = from /\ pc' = [pc EXCEPT ![t] = to]

RdLock(t) ==
    /\ writer[table[t]] = {}
    /\ readers' = [readers EXCEPT ![table[t]] = @ \cup {t}]
    /\ UNCHANGED writer

WrLock(t) ==
    /\ writer[table[t]] = {} /\ readers[table[t]] = {}
    /\ writer' = [writer EXCEPT ![table[t]] = {t}]
    /\ UNCHANGED readers

\* pthread_rwlock_unlock of the table lock, whichever side t holds.
Unlock(t) ==
    /\ readers' = [readers EXCEPT ![table[t]] = @ \ {t}]
    /\ writer' = [writer EXCEPT ![table[t]] = @ \ {t}]

IndexRdLock(t) ==
    /\ index_writer = {}
    /\ index_readers' = index_readers \cup {t}
    /\ UNCHANGED index_writer

IndexWrLock(t) ==
    /\ index_writer = {} /\ index_readers = {}
    /\ index_writer' = {t}
    /\ UNCHANGED index_readers

IndexUnlock(t) ==
    /\ index_readers' = index_readers \ {t}
    /\ index_writer' = index_writer \ {t}

--------------------------------------------------------------------------
(* Request handlers.                                                        *)

\* A well-formed, authenticated request arrives; others touch no lock below.
Request(w) ==
    /\ pc[w] = "idle"
    /\ \E r \in Routes : \E tb \in Tables :
        /\ route' = [route EXCEPT ![w] = r]
        /\ table' = [table EXCEPT ![w] = tb]
        /\ pc' = [pc EXCEPT ![w] = IF r = "delete" THEN "delete_lock" ELSE "tables_lock"]
    /\ UNCHANGED <<left, open_tables, open_tables_lock, tableLocks, syncLocks,
                   flags, indexLock, pendingLocks>>

\* get_or_open_table, first half.
LockTables(w) ==
    /\ Goto(w, "tables_lock", "lookup")
    /\ open_tables_lock = {} /\ open_tables_lock' = {w}
    /\ UNCHANGED <<route, table, left, open_tables, tableLocks, syncLocks,
                   flags, indexLock, pendingLocks>>

\* Second half: find the slot, open the table under the lock, or return NULL.
get_or_open_table(w) ==
    /\ pc[w] = "lookup"
    /\ \/ /\ open_tables' = open_tables \cup {table[w]}
          /\ pc' = [pc EXCEPT ![w] = "table_lock"]
       \/ /\ table[w] \notin open_tables
          /\ open_tables' = open_tables
          /\ pc' = [pc EXCEPT ![w] = "idle"]
    /\ open_tables_lock' = {}
    /\ UNCHANGED <<route, table, left, tableLocks, syncLocks, flags, indexLock,
                   pendingLocks>>

\* Seeded fault: an insert takes the read side.
LockTableToRead(w) ==
    /\ Goto(w, "table_lock", route[w])
    /\ RdLock(w)
    /\ UNCHANGED <<route, table, left, open_tables, open_tables_lock, syncLocks,
                   flags, indexLock, pendingLocks>>

\* Search and train take the read side, insert the write side.
LockTable(w) ==
    /\ Goto(w, "table_lock", route[w])
    /\ IF route[w] = "insert" THEN WrLock(w) ELSE RdLock(w)
    /\ UNCHANGED <<route, table, left, open_tables, open_tables_lock, syncLocks,
                   flags, indexLock, pendingLocks>>

\* The handler's checks passed, and for a search use_ann is set: go on to the
\* next lock.  (For an insert storage_write_record is part of this step.)
Proceed(w) ==
    /\ \/ Goto(w, "search", "index_check")
       \/ Goto(w, "insert", "enqueue")
       \/ Goto(w, "train", "save_lock")
    /\ UNCHANGED <<route, table, left, open_tables, open_tables_lock, tableLocks,
                   syncLocks, flags, indexLock, pendingLocks>>

\* flat_search, or any early error of the three handlers, then the cleanup
\* label: unlock and answer.
Finish(w) ==
    /\ pc[w] \in {"search", "insert", "train"}
    /\ pc' = [pc EXCEPT ![w] = "idle"]
    /\ Unlock(w)
    /\ UNCHANGED <<route, table, left, open_tables, open_tables_lock, syncLocks,
                   flags, indexLock, pendingLocks>>

\* use_ann: look at the index under the read lock; when it has not been read
\* from disk, drop the lock to take the write side.
SearchAnn(w) ==
    /\ pc[w] = "index_check"
    /\ index_writer = {}
    /\ IF index_loaded[table[w]]
         THEN pc' = [pc EXCEPT ![w] = "ann"] /\ IndexRdLock(w)
         ELSE pc' = [pc EXCEPT ![w] = "index_wrlock"] /\ UNCHANGED indexLock
    /\ UNCHANGED <<route, table, left, open_tables, open_tables_lock, tableLocks,
                   syncLocks, flags, pendingLocks>>

\* Seeded fault: the index is loaded under the read side.
LoadUnderReadLock(w) ==
    /\ Goto(w, "index_wrlock", "load_index")
    /\ IndexRdLock(w)
    /\ UNCHANGED <<route, table, left, open_tables, open_tables_lock, tableLocks,
                   syncLocks, flags, pendingLocks>>

LockIndexToLoad(w) ==
    /\ Goto(w, "index_wrlock", "load_index")
    /\ IndexWrLock(w)
    /\ UNCHANGED <<route, table, left, open_tables, open_tables_lock, tableLocks,
                   syncLocks, flags, pendingLocks>>

\* Seeded fault: the write side is not released before the read side is taken.
LoadIndexKeepsLock(w) ==
    /\ Goto(w, "load_index", "index_rdlock")
    /\ index_loaded' = [index_loaded EXCEPT ![table[w]] = TRUE]
    /\ UNCHANGED <<route, table, left, open_tables, open_tables_lock, tableLocks,
                   syncLocks, queued, dirty, indexLock, pendingLocks>>

LoadIndex(w) ==
    /\ Goto(w, "load_index", "index_rdlock")
    /\ index_loaded' = [index_loaded EXCEPT ![table[w]] = TRUE]
    /\ IndexUnlock(w)
    /\ UNCHANGED <<route, table, left, open_tables, open_tables_lock, tableLocks,
                   syncLocks, queued, dirty, pendingLocks>>

LockIndexToSearch(w) ==
    /\ Goto(w, "index_rdlock", "ann")
    /\ IndexRdLock(w)
    /\ UNCHANGED <<route, table, left, open_tables, open_tables_lock, tableLocks,
                   syncLocks, flags, pendingLocks>>

\* db_ann_search, or the error when there is no index; both locks go.
SearchIndex(w) ==
    /\ Goto(w, "ann", "idle")
    /\ IndexUnlock(w) /\ Unlock(w)
    /\ UNCHANGED <<route, table, left, open_tables, open_tables_lock, syncLocks,
                   flags, pendingLocks>>

\* The record is on disk; it goes to the insert queue, still under the table's
\* write lock.
EnqueueInsert(w) ==
    /\ Goto(w, "enqueue", "idle")
    /\ insert_queue_lock[table[w]] = {}
    /\ queued' = [queued EXCEPT ![table[w]] = TRUE]
    /\ Unlock(w)
    /\ UNCHANGED <<route, table, left, open_tables, open_tables_lock, syncLocks,
                   dirty, index_loaded, indexLock, pendingLocks>>

\* kmeans_build has run under the table's read lock.
LockIndexToTrain(w) ==
    /\ Goto(w, "save_lock", "save_index")
    /\ IndexWrLock(w)
    /\ UNCHANGED <<route, table, left, open_tables, open_tables_lock, tableLocks,
                   syncLocks, flags, pendingLocks>>

\* save_ivf_index; only a saved index replaces the cached one.
SaveIndex(w) ==
    /\ Goto(w, "save_index", "idle")
    /\ \E saved \in BOOLEAN :
        index_loaded' = [index_loaded EXCEPT ![table[w]] = @ \/ saved]
    /\ IndexUnlock(w) /\ Unlock(w)
    /\ UNCHANGED <<route, table, left, open_tables, open_tables_lock, syncLocks,
                   queued, dirty, pendingLocks>>

LockPendingDelete(w) ==
    /\ Goto(w, "delete_lock", "append")
    /\ pending_delete_lock = {} /\ pending_delete_lock' = {w}
    /\ UNCHANGED <<route, table, left, open_tables, open_tables_lock, tableLocks,
                   syncLocks, flags, indexLock, pending_append_lock>>

\* The closing brace of the fopen check stands before `return -1`: when fopen
\* succeeds the function returns without unlocking.
append_pending_delete(w) ==
    /\ Goto(w, "append", "mark_dirty")
    /\ pending_append_lock = {}
    /\ \E opened \in BOOLEAN :
        pending_append_lock' = IF opened THEN {w} ELSE {}
    /\ pending_delete_lock' = {}
    /\ UNCHANGED <<route, table, left, open_tables, open_tables_lock, tableLocks,
                   syncLocks, flags, indexLock>>

mark_table_pending_dirty(w) ==
    /\ Goto(w, "mark_dirty", "idle")
    /\ open_tables_lock = {} /\ pending_dirty_lock[table[w]] = {}
    /\ dirty' = [dirty EXCEPT ![table[w]] = @ \/ table[w] \in open_tables]
    /\ UNCHANGED <<route, table, left, open_tables, open_tables_lock, tableLocks,
                   syncLocks, queued, index_loaded, indexLock, pendingLocks>>

--------------------------------------------------------------------------
(* sync_worker.                                                             *)

\* Seeded fault: the list of open tables is copied and its lock released.
SyncWakeReleases ==
    /\ Goto(SyncWorker, "sleep", "next_table")
    /\ open_tables_lock = {}
    /\ left' = open_tables
    /\ UNCHANGED <<route, table, open_tables, open_tables_lock, tableLocks,
                   syncLocks, flags, indexLock, pendingLocks>>

SyncWake ==
    /\ Goto(SyncWorker, "sleep", "next_table")
    /\ open_tables_lock = {} /\ open_tables_lock' = {SyncWorker}
    /\ left' = open_tables
    /\ UNCHANGED <<route, table, open_tables, tableLocks, syncLocks, flags,
                   indexLock, pendingLocks>>

SyncNextTable ==
    /\ Goto(SyncWorker, "next_table", "queue_lock")
    /\ \E tb \in left :
        /\ table' = [table EXCEPT ![SyncWorker] = tb]
        /\ left' = left \ {tb}
    /\ UNCHANGED <<route, open_tables, open_tables_lock, tableLocks, syncLocks,
                   flags, indexLock, pendingLocks>>

SyncRoundEnds ==
    /\ Goto(SyncWorker, "next_table", "sleep")
    /\ left = {}
    /\ open_tables_lock' = {}
    /\ UNCHANGED <<route, table, left, open_tables, tableLocks, syncLocks, flags,
                   indexLock, pendingLocks>>

\* The queue is looked at under its lock, which is kept when there is work.
SyncLockQueue ==
    LET tb == table[SyncWorker] IN
    /\ pc[SyncWorker] = "queue_lock"
    /\ insert_queue_lock[tb] = {}
    /\ IF queued[tb]
         THEN /\ insert_queue_lock' = [insert_queue_lock EXCEPT ![tb] = {SyncWorker}]
              /\ pc' = [pc EXCEPT ![SyncWorker] = "merge_lock"]
         ELSE /\ UNCHANGED insert_queue_lock
              /\ pc' = [pc EXCEPT ![SyncWorker] = "dirty_lock"]
    /\ UNCHANGED <<route, table, left, open_tables, open_tables_lock, tableLocks,
                   pending_dirty_lock, flags, indexLock, pendingLocks>>

\* The three places where sync_worker takes the table's write lock: to merge
\* the queue, to replace pending_deletes, and to run the scheduled delete.
SyncLockTable ==
    /\ \/ Goto(SyncWorker, "merge_lock", "merge")
       \/ Goto(SyncWorker, "refresh_lock", "refresh")
       \/ Goto(SyncWorker, "auto_lock", "auto_delete")
    /\ WrLock(SyncWorker)
    /\ UNCHANGED <<route, table, left, open_tables, open_tables_lock, syncLocks,
                   flags, indexLock, pendingLocks>>

SyncMerge ==
    LET tb == table[SyncWorker] IN
    /\ Goto(SyncWorker, "merge", "dirty_lock")
    /\ queued' = [queued EXCEPT ![tb] = FALSE]
    /\ Unlock(SyncWorker)
    /\ insert_queue_lock' = [insert_queue_lock EXCEPT ![tb] = {}]
    /\ UNCHANGED <<route, table, left, open_tables, open_tables_lock, dirty,
                   pending_dirty_lock, index_loaded, indexLock, pendingLocks>>

SyncLockDirty ==
    LET tb == table[SyncWorker] IN
    /\ pc[SyncWorker] = "dirty_lock"
    /\ pending_dirty_lock[tb] = {}
    /\ IF dirty[tb]
         THEN /\ pending_dirty_lock' = [pending_dirty_lock EXCEPT ![tb] = {SyncWorker}]
              /\ pc' = [pc EXCEPT ![SyncWorker] = "refresh_lock"]
         ELSE /\ UNCHANGED pending_dirty_lock
              /\ pc' = [pc EXCEPT ![SyncWorker] = "auto_lock"]
    /\ UNCHANGED <<route, table, left, open_tables, open_tables_lock, tableLocks,
                   insert_queue_lock, flags, indexLock, pendingLocks>>

SyncRefresh ==
    LET tb == table[SyncWorker] IN
    /\ Goto(SyncWorker, "refresh", "auto_lock")
    /\ dirty' = [dirty EXCEPT ![tb] = FALSE]
    /\ Unlock(SyncWorker)
    /\ pending_dirty_lock' = [pending_dirty_lock EXCEPT ![tb] = {}]
    /\ UNCHANGED <<route, table, left, open_tables, open_tables_lock, queued,
                   insert_queue_lock, index_loaded, indexLock, pendingLocks>>

\* check_and_run_auto_delete has run; it may have compacted the table.
SyncAutoDelete ==
    /\ \/ Goto(SyncWorker, "auto_delete", "index_lock")
       \/ Goto(SyncWorker, "auto_delete", "next_table")
    /\ Unlock(SyncWorker)
    /\ UNCHANGED <<route, table, left, open_tables, open_tables_lock, syncLocks,
                   flags, indexLock, pendingLocks>>

SyncLockIndex ==
    /\ Goto(SyncWorker, "index_lock", "drop_index")
    /\ IndexWrLock(SyncWorker)
    /\ UNCHANGED <<route, table, left, open_tables, open_tables_lock, tableLocks,
                   syncLocks, flags, pendingLocks>>

\* Remove the file and clear_cached_index.
SyncDropIndex ==
    /\ Goto(SyncWorker, "drop_index", "next_table")
    /\ index_loaded' = [index_loaded EXCEPT ![table[SyncWorker]] = FALSE]
    /\ IndexUnlock(SyncWorker)
    /\ UNCHANGED <<route, table, left, open_tables, open_tables_lock, tableLocks,
                   syncLocks, queued, dirty, pendingLocks>>

--------------------------------------------------------------------------
handel_client(w) ==
    \/ LockTables(w) \/ get_or_open_table(w) \/ LockTable(w) \/ Proceed(w) \/ Finish(w)
    \/ SearchAnn(w) \/ LockIndexToLoad(w) \/ LoadIndex(w)
    \/ LockIndexToSearch(w) \/ SearchIndex(w)
    \/ EnqueueInsert(w)
    \/ LockIndexToTrain(w) \/ SaveIndex(w)
    \/ LockPendingDelete(w) \/ append_pending_delete(w)
    \/ mark_table_pending_dirty(w)

sync_worker ==
    \/ SyncWake \/ SyncNextTable \/ SyncRoundEnds
    \/ SyncLockQueue \/ SyncLockTable \/ SyncMerge
    \/ SyncLockDirty \/ SyncRefresh \/ SyncAutoDelete
    \/ SyncLockIndex \/ SyncDropIndex

Next == sync_worker \/ \E w \in Workers : Request(w) \/ handel_client(w)

Spec == Init /\ [][Next]_vars

\* A thread that keeps finding its lock free gets it in the end; sync_worker's
\* sleep ends.  Nothing is assumed of a lock that is never free.
FairSpec ==
    /\ Spec
    /\ \A w \in Workers : SF_vars(handel_client(w))
    /\ SF_vars(SyncWake) /\ WF_vars(sync_worker)

--------------------------------------------------------------------------
(* Properties.                                                              *)

WorkerLabels == {"idle", "tables_lock", "lookup", "table_lock", "search", "insert",
                 "train", "index_check", "index_wrlock", "load_index",
                 "index_rdlock", "ann", "enqueue", "save_lock", "save_index",
                 "delete_lock", "append", "mark_dirty"}
SyncLabels == {"sleep", "next_table", "queue_lock", "merge_lock", "merge",
               "dirty_lock", "refresh_lock", "refresh", "auto_lock",
               "auto_delete", "index_lock", "drop_index"}

TypeOK ==
    /\ pc \in [Threads -> WorkerLabels \cup SyncLabels]
    /\ \A w \in Workers : pc[w] \in WorkerLabels
    /\ pc[SyncWorker] \in SyncLabels
    /\ route \in [Workers -> Routes] /\ table \in [Threads -> Tables]
    /\ left \subseteq Tables /\ open_tables \subseteq Tables
    /\ open_tables_lock \subseteq Threads
    /\ readers \in [Tables -> SUBSET Threads] /\ writer \in [Tables -> SUBSET Threads]
    /\ insert_queue_lock \in [Tables -> SUBSET Threads]
    /\ pending_dirty_lock \in [Tables -> SUBSET Threads]
    /\ queued \in [Tables -> BOOLEAN] /\ dirty \in [Tables -> BOOLEAN]
    /\ index_loaded \in [Tables -> BOOLEAN]
    /\ index_readers \subseteq Threads /\ index_writer \subseteq Threads
    /\ pending_delete_lock \subseteq Threads /\ pending_append_lock \subseteq Threads

\* Labels at which a thread reads, or changes, the table: db->records, the
\* mapping and the file position.
ReadsTable == {"search", "train", "index_check", "index_wrlock", "load_index",
               "index_rdlock", "ann", "save_lock", "save_index"}
WritesTable == {"insert", "enqueue", "merge", "refresh", "auto_delete"}

\* While a thread inserts into a table, merges its queue, replaces its pending
\* ids or compacts it, no other thread is in a search, a training or an insert
\* of that table: "Taking the write lock guarantees no reader is mid-flight
\* when the swap happens".
SwapExclusive ==
    \A t, u \in Threads :
        /\ t # u /\ table[t] = table[u] /\ pc[t] \in WritesTable
        => pc[u] \notin ReadsTable \cup WritesTable

\* Loading, saving and removing an index file exclude each other and every ANN
\* search, across all tables: no search uses an index that is being freed.
IndexExclusive ==
    \A t, u \in Threads :
        /\ t # u /\ pc[t] \in {"load_index", "save_index", "drop_index"}
        => pc[u] \notin {"load_index", "save_index", "drop_index", "ann"}

\* Why both hold: each lock is held by exactly the threads whose label says
\* so, and never by a writer and someone else.
RouteInv ==
    \A w \in Workers :
        pc[w] \in {"tables_lock", "lookup", "table_lock"} => route[w] # "delete"

TableLockInv ==
    \A tb \in Tables :
        /\ \A t \in Threads :
            /\ t \in readers[tb] <=> pc[t] \in ReadsTable /\ table[t] = tb
            /\ t \in writer[tb] <=> pc[t] \in WritesTable /\ table[t] = tb
        /\ \A t \in writer[tb] : readers[tb] = {} /\ writer[tb] = {t}

IndexLockInv ==
    /\ \A t \in Threads :
        /\ t \in index_readers <=> pc[t] = "ann"
        /\ t \in index_writer <=> pc[t] \in {"load_index", "save_index", "drop_index"}
    /\ \A t \in index_writer : index_readers = {} /\ index_writer = {t}

LockInv == TypeOK /\ RouteInv /\ TableLockInv /\ IndexLockInv

\* The threads that hold what t is waiting for.
BlockedBy(t) ==
    CASE pc[t] \in {"tables_lock", "sleep"} -> open_tables_lock
      [] pc[t] = "mark_dirty" -> open_tables_lock \cup pending_dirty_lock[table[t]]
      [] pc[t] = "table_lock" ->
            writer[table[t]] \cup
                (IF route[t] = "insert" THEN readers[table[t]] ELSE {})
      [] pc[t] \in {"merge_lock", "refresh_lock", "auto_lock"} ->
            writer[table[t]] \cup readers[table[t]]
      [] pc[t] \in {"index_check", "index_rdlock"} -> index_writer
      [] pc[t] \in {"index_wrlock", "save_lock", "index_lock"} ->
            index_writer \cup index_readers
      [] pc[t] \in {"enqueue", "queue_lock"} -> insert_queue_lock[table[t]]
      [] pc[t] = "dirty_lock" -> pending_dirty_lock[table[t]]
      [] pc[t] = "delete_lock" -> pending_delete_lock
      [] pc[t] = "append" -> pending_append_lock
      [] OTHER -> {}

\* No set of threads waits on itself.
NoCircularWait ==
    \A S \in SUBSET Threads : S # {} => \E t \in S : BlockedBy(t) \cap S = {}

\* The two waits of this code that never end.  An insert holds its table's
\* write lock and wants the insert queue, sync_worker holds the queue and wants
\* the table; and a delete request has left pending_append_lock held.
InsertJam ==
    \E w \in Workers :
        pc[w] = "enqueue" /\ pc[SyncWorker] = "merge_lock" /\ table[w] = table[SyncWorker]
DeleteJam == pending_append_lock # {}

\* Nothing else deadlocks: a set of threads that wait for each other contains
\* that insert with sync_worker, or a delete request at the lock left held.
NoOtherDeadlock ==
    \A S \in SUBSET Threads :
        S # {} /\ (\A t \in S : BlockedBy(t) \cap S # {}) =>
            \/ InsertJam /\ SyncWorker \in S
            \/ \E t \in S : pc[t] = "append"

\* Every request a worker has begun is answered, unless the insert jam has come
\* up, and the lock that delete requests leave held stops delete requests only.
\* The default read/write lock prefers readers; a training, or the sync worker,
\* still gets its write lock because sync_worker keeps open_tables_lock for its
\* whole round and so holds back new requests.  Its rounds end, too.
RequestsAnswered ==
    /\ \A w \in Workers :
        pc[w] # "idle" ~>
            (pc[w] = "idle" \/ InsertJam \/ (route[w] = "delete" /\ DeleteJam))
    /\ []<>(pc[SyncWorker] = "sleep" \/ InsertJam)
==========================================================================
