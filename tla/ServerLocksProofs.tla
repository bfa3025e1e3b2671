-------------------------- MODULE ServerLocksProofs --------------------------
(* Proofs about ServerLocks, for every set of workers, tables and routes.   *)
EXTENDS ServerLocks, TLAPS

USE DEF Threads

\* Before the first request nobody holds anything.
LEMMA InitLocks == Init => LockInv
<1> SUFFICES ASSUME Init PROVE LockInv
  OBVIOUS
<1>1. TypeOK
  BY ServerLocksAssumption DEF Init, TypeOK, WorkerLabels, SyncLabels
<1>2. RouteInv
  BY ServerLocksAssumption DEF Init, RouteInv
<1>3. TableLockInv /\ IndexLockInv
  BY DEF Init, TableLockInv, IndexLockInv, ReadsTable, WritesTable
<1> QED BY <1>1, <1>2, <1>3 DEF LockInv

\* A step of thread t between labels at which it holds the same locks.
LEMMA SameLocks ==
    ASSUME LockInv, TypeOK', NEW t \in Threads, NEW to,
           pc' = [pc EXCEPT ![t] = to],
           \A u \in Threads : u # t => table'[u] = table[u],
           to \in ReadsTable <=> pc[t] \in ReadsTable,
           to \in WritesTable <=> pc[t] \in WritesTable,
           pc[t] \in ReadsTable \cup WritesTable => table'[t] = table[t],
           UNCHANGED <<readers, writer>>
    PROVE  TableLockInv'
BY DEF LockInv, TypeOK, TableLockInv

\* Taking the read side of a table lock nobody writes under.
LEMMA ReadLocked ==
    ASSUME LockInv, TypeOK', NEW t \in Threads, NEW to,
           pc' = [pc EXCEPT ![t] = to], table' = table, RdLock(t),
           pc[t] \notin ReadsTable \cup WritesTable,
           to \in ReadsTable, to \notin WritesTable
    PROVE  TableLockInv'
BY DEF LockInv, TypeOK, TableLockInv, RdLock

\* Taking the write side of a free table lock.
LEMMA WriteLocked ==
    ASSUME LockInv, TypeOK', NEW t \in Threads, NEW to,
           pc' = [pc EXCEPT ![t] = to], table' = table, WrLock(t),
           pc[t] \notin ReadsTable \cup WritesTable,
           to \notin ReadsTable, to \in WritesTable
    PROVE  TableLockInv'
BY DEF LockInv, TypeOK, TableLockInv, WrLock

\* Letting go of whichever side the thread holds.
LEMMA Unlocked ==
    ASSUME LockInv, TypeOK', NEW t \in Threads, NEW to,
           pc' = [pc EXCEPT ![t] = to], table' = table, Unlock(t),
           to \notin ReadsTable \cup WritesTable
    PROVE  TableLockInv'
BY DEF LockInv, TypeOK, TableLockInv, Unlock

\* The labels at which a thread has the write side of index_lock.
IndexWriting == {"load_index", "save_index", "drop_index"}

\* A step of thread t that leaves index_lock alone.
LEMMA SameIndexLock ==
    ASSUME LockInv, TypeOK', NEW t \in Threads, NEW to,
           pc' = [pc EXCEPT ![t] = to],
           to = "ann" <=> pc[t] = "ann",
           to \in IndexWriting <=> pc[t] \in IndexWriting,
           UNCHANGED <<index_readers, index_writer>>
    PROVE  IndexLockInv'
BY DEF LockInv, TypeOK, IndexLockInv, IndexWriting

\* Taking the read side of index_lock.
LEMMA IndexReadLocked ==
    ASSUME LockInv, TypeOK', NEW t \in Threads,
           pc' = [pc EXCEPT ![t] = "ann"], IndexRdLock(t)
    PROVE  IndexLockInv'
BY DEF LockInv, TypeOK, IndexLockInv, IndexRdLock

\* Taking the write side of a free index_lock.
LEMMA IndexWriteLocked ==
    ASSUME LockInv, TypeOK', NEW t \in Threads, NEW to \in IndexWriting,
           pc' = [pc EXCEPT ![t] = to], IndexWrLock(t)
    PROVE  IndexLockInv'
BY DEF LockInv, TypeOK, IndexLockInv, IndexWrLock, IndexWriting

\* Letting go of index_lock.
LEMMA IndexUnlocked ==
    ASSUME LockInv, TypeOK', NEW t \in Threads, NEW to,
           pc' = [pc EXCEPT ![t] = to], IndexUnlock(t),
           to # "ann", to \notin IndexWriting
    PROVE  IndexLockInv'
BY DEF LockInv, TypeOK, IndexLockInv, IndexUnlock, IndexWriting

\* Every step keeps the types: a worker's label stays a worker's, the sync
\* worker's its own.
LEMMA TypeStep == LockInv /\ [Next]_vars => TypeOK'
<1> DEFINE Goal == TypeOK'
<1> SUFFICES ASSUME LockInv, [Next]_vars PROVE Goal
  OBVIOUS
<1> USE DEF LockInv, TypeOK, RouteInv, AllRoutes, WorkerLabels, SyncLabels,
            tableLocks, indexLock, pendingLocks, syncLocks, flags
<1>1. ASSUME NEW w \in Workers, Request(w) PROVE Goal
  BY <1>1, ServerLocksAssumption DEF Request
<1>2. ASSUME NEW w \in Workers, LockTables(w) PROVE Goal
  BY <1>2, ServerLocksAssumption DEF LockTables, Goto
<1>3. ASSUME NEW w \in Workers, get_or_open_table(w) PROVE Goal
  BY <1>3, ServerLocksAssumption DEF get_or_open_table
<1>4. ASSUME NEW w \in Workers, LockTable(w) PROVE Goal
  <2>1. route[w] \in {"search", "insert", "train"}
    BY <1>4, ServerLocksAssumption DEF LockTable, Goto
  <2>2. readers' \in [Tables -> SUBSET Threads] /\ writer' \in [Tables -> SUBSET Threads]
    BY <1>4 DEF LockTable, RdLock, WrLock
  <2>3. pc' = [pc EXCEPT ![w] = route[w]]
    BY <1>4 DEF LockTable, Goto
  <2> QED BY <1>4, <2>1, <2>2, <2>3, ServerLocksAssumption DEF LockTable
<1>5. ASSUME NEW w \in Workers, Proceed(w) PROVE Goal
  BY <1>5, ServerLocksAssumption DEF Proceed, Goto
<1>6. ASSUME NEW w \in Workers, Finish(w) PROVE Goal
  BY <1>6, ServerLocksAssumption DEF Finish, Unlock
<1>7. ASSUME NEW w \in Workers, SearchAnn(w) PROVE Goal
  BY <1>7, ServerLocksAssumption DEF SearchAnn, IndexRdLock
<1>8. ASSUME NEW w \in Workers, LockIndexToLoad(w) PROVE Goal
  BY <1>8, ServerLocksAssumption DEF LockIndexToLoad, Goto, IndexWrLock
<1>9. ASSUME NEW w \in Workers, LoadIndex(w) PROVE Goal
  BY <1>9, ServerLocksAssumption DEF LoadIndex, Goto, IndexUnlock
<1>10. ASSUME NEW w \in Workers, LockIndexToSearch(w) PROVE Goal
  BY <1>10, ServerLocksAssumption DEF LockIndexToSearch, Goto, IndexRdLock
<1>11. ASSUME NEW w \in Workers, SearchIndex(w) PROVE Goal
  BY <1>11, ServerLocksAssumption DEF SearchIndex, Goto, IndexUnlock, Unlock
<1>12. ASSUME NEW w \in Workers, EnqueueInsert(w) PROVE Goal
  BY <1>12, ServerLocksAssumption DEF EnqueueInsert, Goto, Unlock
<1>13. ASSUME NEW w \in Workers, LockIndexToTrain(w) PROVE Goal
  BY <1>13, ServerLocksAssumption DEF LockIndexToTrain, Goto, IndexWrLock
<1>14. ASSUME NEW w \in Workers, SaveIndex(w) PROVE Goal
  BY <1>14, ServerLocksAssumption DEF SaveIndex, Goto, IndexUnlock, Unlock
<1>15. ASSUME NEW w \in Workers, LockPendingDelete(w) PROVE Goal
  BY <1>15, ServerLocksAssumption DEF LockPendingDelete, Goto
<1>16. ASSUME NEW w \in Workers, append_pending_delete(w) PROVE Goal
  BY <1>16, ServerLocksAssumption DEF append_pending_delete, Goto
<1>17. ASSUME NEW w \in Workers, mark_table_pending_dirty(w) PROVE Goal
  BY <1>17, ServerLocksAssumption DEF mark_table_pending_dirty, Goto
<1>18. CASE SyncWake
  BY <1>18, ServerLocksAssumption DEF SyncWake, Goto
<1>19. CASE SyncNextTable
  BY <1>19, ServerLocksAssumption DEF SyncNextTable, Goto
<1>20. CASE SyncRoundEnds
  BY <1>20, ServerLocksAssumption DEF SyncRoundEnds, Goto
<1>21. CASE SyncLockQueue
  BY <1>21, ServerLocksAssumption DEF SyncLockQueue
<1>22. CASE SyncLockTable
  BY <1>22, ServerLocksAssumption DEF SyncLockTable, Goto, WrLock
<1>23. CASE SyncMerge
  BY <1>23, ServerLocksAssumption DEF SyncMerge, Goto, Unlock
<1>24. CASE SyncLockDirty
  BY <1>24, ServerLocksAssumption DEF SyncLockDirty
<1>25. CASE SyncRefresh
  BY <1>25, ServerLocksAssumption DEF SyncRefresh, Goto, Unlock
<1>26. CASE SyncAutoDelete
  BY <1>26, ServerLocksAssumption DEF SyncAutoDelete, Goto, Unlock
<1>27. CASE SyncLockIndex
  BY <1>27, ServerLocksAssumption DEF SyncLockIndex, Goto, IndexWrLock
<1>28. CASE SyncDropIndex
  BY <1>28, ServerLocksAssumption DEF SyncDropIndex, Goto, IndexUnlock
<1>29. CASE UNCHANGED vars
  BY <1>29 DEF vars
<1> QED
  BY <1>1, <1>2, <1>3, <1>4, <1>5, <1>6, <1>7, <1>8, <1>9, <1>10, <1>11,
     <1>12, <1>13, <1>14, <1>15, <1>16, <1>17, <1>18, <1>19, <1>20, <1>21, <1>22,
     <1>23, <1>24, <1>25, <1>26, <1>27, <1>28, <1>29
  DEF Next, handel_client, sync_worker

\* Only a request that is not a deletion goes through get_or_open_table.
LEMMA RouteStep == LockInv /\ [Next]_vars => RouteInv'
<1> DEFINE Goal == RouteInv'
<1> SUFFICES ASSUME LockInv, [Next]_vars PROVE Goal
  OBVIOUS
<1> USE DEF LockInv, TypeOK, RouteInv
<1>1. ASSUME NEW w \in Workers, Request(w) PROVE Goal
  BY <1>1, ServerLocksAssumption DEF Request
<1>2. ASSUME NEW w \in Workers, LockTables(w) PROVE Goal
  BY <1>2, ServerLocksAssumption DEF LockTables, Goto
<1>3. ASSUME NEW w \in Workers, get_or_open_table(w) PROVE Goal
  BY <1>3, ServerLocksAssumption DEF get_or_open_table
<1>4. ASSUME NEW w \in Workers, LockTable(w) PROVE Goal
  BY <1>4, ServerLocksAssumption DEF LockTable, Goto
<1>5. ASSUME NEW w \in Workers, Proceed(w) PROVE Goal
  BY <1>5, ServerLocksAssumption DEF Proceed, Goto
<1>6. ASSUME NEW w \in Workers, Finish(w) PROVE Goal
  BY <1>6, ServerLocksAssumption DEF Finish
<1>7. ASSUME NEW w \in Workers, SearchAnn(w) PROVE Goal
  BY <1>7, ServerLocksAssumption DEF SearchAnn
<1>8. ASSUME NEW w \in Workers, LockIndexToLoad(w) PROVE Goal
  BY <1>8, ServerLocksAssumption DEF LockIndexToLoad, Goto
<1>9. ASSUME NEW w \in Workers, LoadIndex(w) PROVE Goal
  BY <1>9, ServerLocksAssumption DEF LoadIndex, Goto
<1>10. ASSUME NEW w \in Workers, LockIndexToSearch(w) PROVE Goal
  BY <1>10, ServerLocksAssumption DEF LockIndexToSearch, Goto
<1>11. ASSUME NEW w \in Workers, SearchIndex(w) PROVE Goal
  BY <1>11, ServerLocksAssumption DEF SearchIndex, Goto
<1>12. ASSUME NEW w \in Workers, EnqueueInsert(w) PROVE Goal
  BY <1>12, ServerLocksAssumption DEF EnqueueInsert, Goto
<1>13. ASSUME NEW w \in Workers, LockIndexToTrain(w) PROVE Goal
  BY <1>13, ServerLocksAssumption DEF LockIndexToTrain, Goto
<1>14. ASSUME NEW w \in Workers, SaveIndex(w) PROVE Goal
  BY <1>14, ServerLocksAssumption DEF SaveIndex, Goto
<1>15. ASSUME NEW w \in Workers, LockPendingDelete(w) PROVE Goal
  BY <1>15, ServerLocksAssumption DEF LockPendingDelete, Goto
<1>16. ASSUME NEW w \in Workers, append_pending_delete(w) PROVE Goal
  BY <1>16, ServerLocksAssumption DEF append_pending_delete, Goto
<1>17. ASSUME NEW w \in Workers, mark_table_pending_dirty(w) PROVE Goal
  BY <1>17, ServerLocksAssumption DEF mark_table_pending_dirty, Goto
<1>18. CASE SyncWake
  BY <1>18, ServerLocksAssumption DEF SyncWake, Goto
<1>19. CASE SyncNextTable
  BY <1>19, ServerLocksAssumption DEF SyncNextTable, Goto
<1>20. CASE SyncRoundEnds
  BY <1>20, ServerLocksAssumption DEF SyncRoundEnds, Goto
<1>21. CASE SyncLockQueue
  BY <1>21, ServerLocksAssumption DEF SyncLockQueue
<1>22. CASE SyncLockTable
  BY <1>22, ServerLocksAssumption DEF SyncLockTable, Goto
<1>23. CASE SyncMerge
  BY <1>23, ServerLocksAssumption DEF SyncMerge, Goto
<1>24. CASE SyncLockDirty
  BY <1>24, ServerLocksAssumption DEF SyncLockDirty
<1>25. CASE SyncRefresh
  BY <1>25, ServerLocksAssumption DEF SyncRefresh, Goto
<1>26. CASE SyncAutoDelete
  BY <1>26, ServerLocksAssumption DEF SyncAutoDelete, Goto
<1>27. CASE SyncLockIndex
  BY <1>27, ServerLocksAssumption DEF SyncLockIndex, Goto
<1>28. CASE SyncDropIndex
  BY <1>28, ServerLocksAssumption DEF SyncDropIndex, Goto
<1>29. CASE UNCHANGED vars
  BY <1>29 DEF vars
<1> QED
  BY <1>1, <1>2, <1>3, <1>4, <1>5, <1>6, <1>7, <1>8, <1>9, <1>10, <1>11,
     <1>12, <1>13, <1>14, <1>15, <1>16, <1>17, <1>18, <1>19, <1>20, <1>21, <1>22,
     <1>23, <1>24, <1>25, <1>26, <1>27, <1>28, <1>29
  DEF Next, handel_client, sync_worker

\* The table locks: one step per action, by what it does to the lock.
LEMMA TableLockStep == LockInv /\ TypeOK' /\ [Next]_vars => TableLockInv'
<1> DEFINE Goal == TableLockInv'
<1> SUFFICES ASSUME LockInv, TypeOK', [Next]_vars PROVE Goal
  OBVIOUS
<1> SyncWorker \in Threads /\ Workers \subseteq Threads
  OBVIOUS
<1> HIDE DEF Threads
<1> USE DEF LockInv, TypeOK, ReadsTable, WritesTable, tableLocks
<1>1. ASSUME NEW w \in Workers, Request(w) PROVE Goal
  <2>1. PICK tb \in Tables, to \in {"delete_lock", "tables_lock"} :
            /\ table' = [table EXCEPT ![w] = tb]
            /\ pc' = [pc EXCEPT ![w] = to]
    BY <1>1 DEF Request
  <2>2. UNCHANGED <<readers, writer>> /\ pc[w] \notin ReadsTable \cup WritesTable
    BY <1>1 DEF Request
  <2>3. \A u \in Threads : u # w => table'[u] = table[u]
    BY <2>1
  <2>4. to \notin ReadsTable \cup WritesTable
    OBVIOUS
  <2> QED BY <2>1, <2>2, <2>3, <2>4, SameLocks
<1>2. ASSUME NEW w \in Workers, LockTables(w) PROVE Goal
  BY <1>2, SameLocks DEF LockTables, Goto
<1>3. ASSUME NEW w \in Workers, get_or_open_table(w) PROVE Goal
  BY <1>3, SameLocks DEF get_or_open_table
<1>4. ASSUME NEW w \in Workers, LockTable(w) PROVE Goal
  <2>1. CASE route[w] = "insert"
    BY <1>4, <2>1, WriteLocked DEF LockTable, Goto
  <2>2. CASE route[w] # "insert"
    <3>1. route[w] \in {"search", "train"}
      BY <1>4, <2>2, ServerLocksAssumption DEF LockTable, Goto, AllRoutes, RouteInv
    <3> QED BY <1>4, <2>2, <3>1, ReadLocked DEF LockTable, Goto
  <2> QED BY <2>1, <2>2
<1>5. ASSUME NEW w \in Workers, Proceed(w) PROVE Goal
  BY <1>5, SameLocks DEF Proceed, Goto
<1>6. ASSUME NEW w \in Workers, Finish(w) PROVE Goal
  BY <1>6, Unlocked DEF Finish
<1>7. ASSUME NEW w \in Workers, SearchAnn(w) PROVE Goal
  BY <1>7, SameLocks DEF SearchAnn
<1>8. ASSUME NEW w \in Workers, LockIndexToLoad(w) PROVE Goal
  BY <1>8, SameLocks DEF LockIndexToLoad, Goto
<1>9. ASSUME NEW w \in Workers, LoadIndex(w) PROVE Goal
  BY <1>9, SameLocks DEF LoadIndex, Goto
<1>10. ASSUME NEW w \in Workers, LockIndexToSearch(w) PROVE Goal
  BY <1>10, SameLocks DEF LockIndexToSearch, Goto
<1>11. ASSUME NEW w \in Workers, SearchIndex(w) PROVE Goal
  BY <1>11, Unlocked DEF SearchIndex, Goto
<1>12. ASSUME NEW w \in Workers, EnqueueInsert(w) PROVE Goal
  BY <1>12, Unlocked DEF EnqueueInsert, Goto
<1>13. ASSUME NEW w \in Workers, LockIndexToTrain(w) PROVE Goal
  BY <1>13, SameLocks DEF LockIndexToTrain, Goto
<1>14. ASSUME NEW w \in Workers, SaveIndex(w) PROVE Goal
  BY <1>14, Unlocked DEF SaveIndex, Goto
<1>15. ASSUME NEW w \in Workers, LockPendingDelete(w) PROVE Goal
  BY <1>15, SameLocks DEF LockPendingDelete, Goto
<1>16. ASSUME NEW w \in Workers, append_pending_delete(w) PROVE Goal
  BY <1>16, SameLocks DEF append_pending_delete, Goto
<1>17. ASSUME NEW w \in Workers, mark_table_pending_dirty(w) PROVE Goal
  BY <1>17, SameLocks DEF mark_table_pending_dirty, Goto
<1>18. CASE SyncWake
  BY <1>18, SameLocks DEF SyncWake, Goto
<1>19. CASE SyncNextTable
  BY <1>19, SameLocks DEF SyncNextTable, Goto
<1>20. CASE SyncRoundEnds
  BY <1>20, SameLocks DEF SyncRoundEnds, Goto
<1>21. CASE SyncLockQueue
  BY <1>21, SameLocks DEF SyncLockQueue
<1>22. CASE SyncLockTable
  BY <1>22, WriteLocked DEF SyncLockTable, Goto
<1>23. CASE SyncMerge
  BY <1>23, Unlocked DEF SyncMerge, Goto
<1>24. CASE SyncLockDirty
  BY <1>24, SameLocks DEF SyncLockDirty
<1>25. CASE SyncRefresh
  BY <1>25, Unlocked DEF SyncRefresh, Goto
<1>26. CASE SyncAutoDelete
  BY <1>26, Unlocked DEF SyncAutoDelete, Goto
<1>27. CASE SyncLockIndex
  BY <1>27, SameLocks DEF SyncLockIndex, Goto
<1>28. CASE SyncDropIndex
  BY <1>28, SameLocks DEF SyncDropIndex, Goto
<1>29. CASE UNCHANGED vars
  BY <1>29 DEF vars, LockInv, TableLockInv
<1> QED
  BY <1>1, <1>2, <1>3, <1>4, <1>5, <1>6, <1>7, <1>8, <1>9, <1>10, <1>11,
     <1>12, <1>13, <1>14, <1>15, <1>16, <1>17, <1>18, <1>19, <1>20, <1>21, <1>22,
     <1>23, <1>24, <1>25, <1>26, <1>27, <1>28, <1>29
  DEF Next, handel_client, sync_worker

\* index_lock, in the same way.
LEMMA IndexLockStep == LockInv /\ TypeOK' /\ [Next]_vars => IndexLockInv'
<1> DEFINE Goal == IndexLockInv'
<1> SUFFICES ASSUME LockInv, TypeOK', [Next]_vars PROVE Goal
  OBVIOUS
<1> SyncWorker \in Threads /\ Workers \subseteq Threads
  OBVIOUS
<1> HIDE DEF Threads
<1> USE DEF LockInv, TypeOK, IndexWriting, indexLock
<1>1. ASSUME NEW w \in Workers, Request(w) PROVE Goal
  <2>1. PICK to \in {"delete_lock", "tables_lock"} : pc' = [pc EXCEPT ![w] = to]
    BY <1>1 DEF Request
  <2> QED BY <1>1, <2>1, SameIndexLock DEF Request
<1>2. ASSUME NEW w \in Workers, LockTables(w) PROVE Goal
  BY <1>2, SameIndexLock DEF LockTables, Goto
<1>3. ASSUME NEW w \in Workers, get_or_open_table(w) PROVE Goal
  BY <1>3, SameIndexLock DEF get_or_open_table
<1>4. ASSUME NEW w \in Workers, LockTable(w) PROVE Goal
  <2>1. route[w] \in {"search", "insert", "train"}
    BY <1>4, ServerLocksAssumption DEF LockTable, Goto, AllRoutes, RouteInv
  <2> QED BY <1>4, <2>1, SameIndexLock DEF LockTable, Goto
<1>5. ASSUME NEW w \in Workers, Proceed(w) PROVE Goal
  BY <1>5, SameIndexLock DEF Proceed, Goto
<1>6. ASSUME NEW w \in Workers, Finish(w) PROVE Goal
  BY <1>6, SameIndexLock DEF Finish
<1>7. ASSUME NEW w \in Workers, SearchAnn(w) PROVE Goal
  <2>1. CASE index_loaded[table[w]]
    BY <1>7, <2>1, IndexReadLocked DEF SearchAnn
  <2>2. CASE ~index_loaded[table[w]]
    BY <1>7, <2>2, SameIndexLock DEF SearchAnn
  <2> QED BY <2>1, <2>2
<1>8. ASSUME NEW w \in Workers, LockIndexToLoad(w) PROVE Goal
  BY <1>8, IndexWriteLocked DEF LockIndexToLoad, Goto
<1>9. ASSUME NEW w \in Workers, LoadIndex(w) PROVE Goal
  BY <1>9, IndexUnlocked DEF LoadIndex, Goto
<1>10. ASSUME NEW w \in Workers, LockIndexToSearch(w) PROVE Goal
  BY <1>10, IndexReadLocked DEF LockIndexToSearch, Goto
<1>11. ASSUME NEW w \in Workers, SearchIndex(w) PROVE Goal
  BY <1>11, IndexUnlocked DEF SearchIndex, Goto
<1>12. ASSUME NEW w \in Workers, EnqueueInsert(w) PROVE Goal
  BY <1>12, SameIndexLock DEF EnqueueInsert, Goto
<1>13. ASSUME NEW w \in Workers, LockIndexToTrain(w) PROVE Goal
  BY <1>13, IndexWriteLocked DEF LockIndexToTrain, Goto
<1>14. ASSUME NEW w \in Workers, SaveIndex(w) PROVE Goal
  BY <1>14, IndexUnlocked DEF SaveIndex, Goto
<1>15. ASSUME NEW w \in Workers, LockPendingDelete(w) PROVE Goal
  BY <1>15, SameIndexLock DEF LockPendingDelete, Goto
<1>16. ASSUME NEW w \in Workers, append_pending_delete(w) PROVE Goal
  BY <1>16, SameIndexLock DEF append_pending_delete, Goto
<1>17. ASSUME NEW w \in Workers, mark_table_pending_dirty(w) PROVE Goal
  BY <1>17, SameIndexLock DEF mark_table_pending_dirty, Goto
<1>18. CASE SyncWake
  BY <1>18, SameIndexLock DEF SyncWake, Goto
<1>19. CASE SyncNextTable
  BY <1>19, SameIndexLock DEF SyncNextTable, Goto
<1>20. CASE SyncRoundEnds
  BY <1>20, SameIndexLock DEF SyncRoundEnds, Goto
<1>21. CASE SyncLockQueue
  BY <1>21, SameIndexLock DEF SyncLockQueue
<1>22. CASE SyncLockTable
  BY <1>22, SameIndexLock DEF SyncLockTable, Goto
<1>23. CASE SyncMerge
  BY <1>23, SameIndexLock DEF SyncMerge, Goto
<1>24. CASE SyncLockDirty
  BY <1>24, SameIndexLock DEF SyncLockDirty
<1>25. CASE SyncRefresh
  BY <1>25, SameIndexLock DEF SyncRefresh, Goto
<1>26. CASE SyncAutoDelete
  BY <1>26, SameIndexLock DEF SyncAutoDelete, Goto
<1>27. CASE SyncLockIndex
  BY <1>27, IndexWriteLocked DEF SyncLockIndex, Goto
<1>28. CASE SyncDropIndex
  BY <1>28, IndexUnlocked DEF SyncDropIndex, Goto
<1>29. CASE UNCHANGED vars
  BY <1>29 DEF vars, LockInv, IndexLockInv
<1> QED
  BY <1>1, <1>2, <1>3, <1>4, <1>5, <1>6, <1>7, <1>8, <1>9, <1>10, <1>11,
     <1>12, <1>13, <1>14, <1>15, <1>16, <1>17, <1>18, <1>19, <1>20, <1>21, <1>22,
     <1>23, <1>24, <1>25, <1>26, <1>27, <1>28, <1>29
  DEF Next, handel_client, sync_worker

\* Who holds which lock follows from where each thread is, in every reachable
\* state: LockInv is inductive.
THEOREM AlwaysLockInv == Spec => []LockInv
<1>1. LockInv /\ [Next]_vars => LockInv'
  BY TypeStep, RouteStep, TableLockStep, IndexLockStep DEF LockInv
<1> QED BY InitLocks, <1>1, PTL DEF Spec

\* The type invariant.
THEOREM ServerTypeCorrect == Spec => []TypeOK
<1>1. LockInv => TypeOK
  BY DEF LockInv
<1> QED BY <1>1, AlwaysLockInv, PTL

\* However many workers serve however many tables, no thread is inside a table
\* that another is inserting into, merging, or compacting.
THEOREM SwapIsExclusive == Spec => []SwapExclusive
<1>1. LockInv => SwapExclusive
  <2> SUFFICES ASSUME LockInv, NEW t \in Threads, NEW u \in Threads,
                      t # u, table[t] = table[u], pc[t] \in WritesTable
               PROVE  pc[u] \notin ReadsTable \cup WritesTable
    BY DEF SwapExclusive
  <2>1. table[t] \in Tables /\ t \in writer[table[t]]
    BY DEF LockInv, TypeOK, TableLockInv
  <2>2. u \notin readers[table[t]] /\ u \notin writer[table[t]]
    BY <2>1 DEF LockInv, TableLockInv
  <2> QED BY <2>1, <2>2 DEF LockInv, TableLockInv
<1> QED BY <1>1, AlwaysLockInv, PTL

\* No search uses an index that another thread is loading, replacing or
\* freeing, for any number of threads.
THEOREM IndexUseIsExclusive == Spec => []IndexExclusive
<1>1. LockInv => IndexExclusive
  BY DEF LockInv, IndexLockInv, IndexExclusive
<1> QED BY <1>1, AlwaysLockInv, PTL

--------------------------------------------------------------------------
(* Deadlock.                                                                *)

\* The mutexes are held by threads whose label says so.  pending_append_lock
\* is not: a delete request leaves it held and goes on.
MutexInv ==
    /\ \A t \in open_tables_lock :
          pc[t] = "lookup" \/ (t = SyncWorker /\ pc[t] # "sleep")
    /\ \A tb \in Tables : \A t \in insert_queue_lock[tb] :
          t = SyncWorker /\ pc[t] \in {"merge_lock", "merge"} /\ table[t] = tb
    /\ \A tb \in Tables : \A t \in pending_dirty_lock[tb] :
          t = SyncWorker /\ pc[t] \in {"refresh_lock", "refresh"} /\ table[t] = tb
    /\ \A t \in pending_delete_lock : pc[t] = "append"

mutexes == <<open_tables_lock, insert_queue_lock, pending_dirty_lock, pending_delete_lock>>

\* A worker's step that takes and gives back no mutex.
LEMMA WorkerKeepsMutexes ==
    ASSUME LockInv, MutexInv, NEW w \in Workers, NEW to,
           pc' = [pc EXCEPT ![w] = to], pc[w] \notin {"lookup", "append"},
           table'[SyncWorker] = table[SyncWorker], UNCHANGED mutexes
    PROVE  MutexInv'
<1>1. w # SyncWorker /\ pc' \in [Threads -> WorkerLabels \cup SyncLabels \cup {to}]
  BY ServerLocksAssumption DEF LockInv, TypeOK
<1>2. \A t \in Threads : t # w => pc'[t] = pc[t]
  BY DEF LockInv, TypeOK
<1>3. /\ open_tables_lock' = open_tables_lock /\ insert_queue_lock' = insert_queue_lock
      /\ pending_dirty_lock' = pending_dirty_lock /\ pending_delete_lock' = pending_delete_lock
  BY DEF mutexes
<1>4. /\ \A t \in open_tables_lock : t \in Threads /\ t # w
      /\ \A t \in pending_delete_lock : t \in Threads /\ t # w
  BY <1>1 DEF LockInv, TypeOK, MutexInv
<1> QED BY <1>1, <1>2, <1>3, <1>4 DEF MutexInv

\* A step of sync_worker that takes and gives back no mutex.
LEMMA SyncKeepsMutexes ==
    ASSUME LockInv, MutexInv, NEW to,
           pc' = [pc EXCEPT ![SyncWorker] = to], to # "sleep", pc[SyncWorker] # "sleep",
           \/ pc[SyncWorker] \notin {"merge_lock", "merge", "refresh_lock", "refresh"}
           \/ /\ table' = table
              /\ <<pc[SyncWorker], to>> \in {<<"merge_lock", "merge">>, <<"refresh_lock", "refresh">>},
           UNCHANGED mutexes
    PROVE  MutexInv'
<1>1. pc'[SyncWorker] = to /\ \A t \in Threads : t # SyncWorker => pc'[t] = pc[t]
  BY DEF LockInv, TypeOK
<1>2. /\ open_tables_lock' = open_tables_lock /\ insert_queue_lock' = insert_queue_lock
      /\ pending_dirty_lock' = pending_dirty_lock /\ pending_delete_lock' = pending_delete_lock
  BY DEF mutexes
<1>3. /\ \A t \in open_tables_lock : t \in Threads
      /\ \A t \in pending_delete_lock : t \in Threads /\ t # SyncWorker
  BY DEF LockInv, TypeOK, MutexInv, SyncLabels
<1>4. \A t \in open_tables_lock' : pc'[t] = "lookup" \/ (t = SyncWorker /\ pc'[t] # "sleep")
  BY <1>1, <1>2, <1>3 DEF MutexInv
<1>5. \A t \in pending_delete_lock' : pc'[t] = "append"
  BY <1>1, <1>2, <1>3 DEF MutexInv
<1>6. CASE pc[SyncWorker] \notin {"merge_lock", "merge", "refresh_lock", "refresh"}
  <2>1. \A tb \in Tables : insert_queue_lock[tb] = {} /\ pending_dirty_lock[tb] = {}
    BY <1>6 DEF MutexInv
  <2> QED BY <1>2, <1>4, <1>5, <2>1 DEF MutexInv
<1>7. CASE /\ table' = table
           /\ <<pc[SyncWorker], to>> \in {<<"merge_lock", "merge">>, <<"refresh_lock", "refresh">>}
  BY <1>1, <1>2, <1>4, <1>5, <1>7 DEF MutexInv
<1> QED BY <1>6, <1>7

LEMMA MutexStep == LockInv /\ MutexInv /\ [Next]_vars => MutexInv'
<1> DEFINE Goal == MutexInv'
<1> SUFFICES ASSUME LockInv, MutexInv, [Next]_vars PROVE Goal
  OBVIOUS
<1> USE DEF tableLocks, indexLock, pendingLocks, syncLocks, flags, mutexes
<1>0. /\ SyncWorker \notin Workers /\ pc \in [Threads -> WorkerLabels \cup SyncLabels]
      /\ table \in [Threads -> Tables] /\ pc[SyncWorker] \in SyncLabels
      /\ insert_queue_lock \in [Tables -> SUBSET Threads]
      /\ pending_dirty_lock \in [Tables -> SUBSET Threads]
      /\ open_tables_lock \subseteq Threads /\ pending_delete_lock \subseteq Threads
  BY ServerLocksAssumption DEF LockInv, TypeOK
<1>1. ASSUME NEW w \in Workers, Request(w) PROVE Goal
  <2>1. PICK to \in {"delete_lock", "tables_lock"} : pc' = [pc EXCEPT ![w] = to]
    BY <1>1 DEF Request
  <2>2. table'[SyncWorker] = table[SyncWorker]
    BY <1>0, <1>1 DEF Request
  <2> QED BY <1>1, <2>1, <2>2, WorkerKeepsMutexes DEF Request
<1>2. ASSUME NEW w \in Workers, LockTables(w) PROVE Goal
  BY <1>0, <1>2 DEF LockTables, Goto, MutexInv
<1>3. ASSUME NEW w \in Workers, get_or_open_table(w) PROVE Goal
  BY <1>0, <1>3 DEF get_or_open_table, MutexInv
<1>4. ASSUME NEW w \in Workers, LockTable(w) PROVE Goal
  BY <1>4, WorkerKeepsMutexes DEF LockTable, Goto
<1>5. ASSUME NEW w \in Workers, Proceed(w) PROVE Goal
  BY <1>5, WorkerKeepsMutexes DEF Proceed, Goto
<1>6. ASSUME NEW w \in Workers, Finish(w) PROVE Goal
  BY <1>6, WorkerKeepsMutexes DEF Finish
<1>7. ASSUME NEW w \in Workers, SearchAnn(w) PROVE Goal
  BY <1>7, WorkerKeepsMutexes DEF SearchAnn
<1>8. ASSUME NEW w \in Workers, LockIndexToLoad(w) PROVE Goal
  BY <1>8, WorkerKeepsMutexes DEF LockIndexToLoad, Goto
<1>9. ASSUME NEW w \in Workers, LoadIndex(w) PROVE Goal
  BY <1>9, WorkerKeepsMutexes DEF LoadIndex, Goto
<1>10. ASSUME NEW w \in Workers, LockIndexToSearch(w) PROVE Goal
  BY <1>10, WorkerKeepsMutexes DEF LockIndexToSearch, Goto
<1>11. ASSUME NEW w \in Workers, SearchIndex(w) PROVE Goal
  BY <1>11, WorkerKeepsMutexes DEF SearchIndex, Goto
<1>12. ASSUME NEW w \in Workers, EnqueueInsert(w) PROVE Goal
  BY <1>12, WorkerKeepsMutexes DEF EnqueueInsert, Goto
<1>13. ASSUME NEW w \in Workers, LockIndexToTrain(w) PROVE Goal
  BY <1>13, WorkerKeepsMutexes DEF LockIndexToTrain, Goto
<1>14. ASSUME NEW w \in Workers, SaveIndex(w) PROVE Goal
  BY <1>14, WorkerKeepsMutexes DEF SaveIndex, Goto
<1>15. ASSUME NEW w \in Workers, LockPendingDelete(w) PROVE Goal
  BY <1>0, <1>15 DEF LockPendingDelete, Goto, MutexInv
<1>16. ASSUME NEW w \in Workers, append_pending_delete(w) PROVE Goal
  BY <1>0, <1>16 DEF append_pending_delete, Goto, MutexInv
<1>17. ASSUME NEW w \in Workers, mark_table_pending_dirty(w) PROVE Goal
  BY <1>17, WorkerKeepsMutexes DEF mark_table_pending_dirty, Goto
<1>18. CASE SyncWake
  BY <1>0, <1>18 DEF SyncWake, Goto, MutexInv
<1>19. CASE SyncNextTable
  BY <1>19, SyncKeepsMutexes DEF SyncNextTable, Goto
<1>20. CASE SyncRoundEnds
  BY <1>0, <1>20 DEF SyncRoundEnds, Goto, MutexInv
<1>21. CASE SyncLockQueue
  BY <1>0, <1>21 DEF SyncLockQueue, MutexInv
<1>22. CASE SyncLockTable
  BY <1>22, SyncKeepsMutexes DEF SyncLockTable, Goto
<1>23. CASE SyncMerge
  BY <1>0, <1>23 DEF SyncMerge, Goto, MutexInv
<1>24. CASE SyncLockDirty
  BY <1>0, <1>24 DEF SyncLockDirty, MutexInv
<1>25. CASE SyncRefresh
  BY <1>0, <1>25 DEF SyncRefresh, Goto, MutexInv
<1>26. CASE SyncAutoDelete
  BY <1>26, SyncKeepsMutexes DEF SyncAutoDelete, Goto
<1>27. CASE SyncLockIndex
  BY <1>27, SyncKeepsMutexes DEF SyncLockIndex, Goto
<1>28. CASE SyncDropIndex
  BY <1>28, SyncKeepsMutexes DEF SyncDropIndex, Goto
<1>29. CASE UNCHANGED vars
  BY <1>29 DEF vars, MutexInv
<1> QED
  BY <1>1, <1>2, <1>3, <1>4, <1>5, <1>6, <1>7, <1>8, <1>9, <1>10, <1>11,
     <1>12, <1>13, <1>14, <1>15, <1>16, <1>17, <1>18, <1>19, <1>20, <1>21, <1>22,
     <1>23, <1>24, <1>25, <1>26, <1>27, <1>28, <1>29
  DEF Next, handel_client, sync_worker

\* However many threads wait for each other, over however many tables: where a
\* thread stands bounds what it can wait for.  Whoever holds index_lock, or is
\* looking up a table, waits for nothing; whoever holds a table's lock waits for
\* index_lock or for the insert queue; so a circle of waits goes through an
\* insert at its queue, and only sync_worker holds that.
THEOREM OnlyTwoJams == Spec => []NoOtherDeadlock
<1>1. Init => MutexInv
  BY DEF Init, MutexInv
<1>2. ASSUME LockInv, MutexInv PROVE NoOtherDeadlock
  <2> SUFFICES ASSUME NEW S \in SUBSET Threads, S # {},
                      \A t \in S : BlockedBy(t) \cap S # {}, \A t \in S : pc[t] # "append"
               PROVE  InsertJam /\ SyncWorker \in S
    BY DEF NoOtherDeadlock
  <2> DEFINE Waits == {"tables_lock", "sleep", "mark_dirty", "table_lock", "merge_lock",
                       "refresh_lock", "auto_lock", "index_check", "index_rdlock",
                       "index_wrlock", "save_lock", "index_lock", "enqueue", "queue_lock",
                       "dirty_lock", "delete_lock"}
  <2>1. \A t \in S : t \in Threads /\ pc[t] \in Waits /\ table[t] \in Tables
    BY <1>2 DEF BlockedBy, LockInv, TypeOK
  <2>2. \A t \in S : pc[t] \notin {"index_check", "index_rdlock", "index_wrlock", "save_lock", "index_lock"}
    <3> SUFFICES ASSUME NEW t \in S, pc[t] \in {"index_check", "index_rdlock", "index_wrlock",
                                                "save_lock", "index_lock"}
                 PROVE  FALSE
      OBVIOUS
    <3>1. PICK u \in S : u \in index_writer \cup index_readers
      BY DEF BlockedBy
    <3> QED BY <1>2, <2>1, <3>1 DEF LockInv, IndexLockInv
  <2>3. \A t \in S : pc[t] \notin {"queue_lock", "dirty_lock", "delete_lock"}
    <3> SUFFICES ASSUME NEW t \in S, pc[t] \in {"queue_lock", "dirty_lock", "delete_lock"}
                 PROVE  FALSE
      OBVIOUS
    <3>1. pc[t] \in {"queue_lock", "dirty_lock"} => t = SyncWorker
      BY <1>2, <2>1 DEF LockInv, TypeOK, WorkerLabels
    <3>2. CASE pc[t] = "queue_lock"
      BY <1>2, <2>1, <3>1, <3>2 DEF BlockedBy, MutexInv
    <3>3. CASE pc[t] = "dirty_lock"
      BY <1>2, <2>1, <3>1, <3>3 DEF BlockedBy, MutexInv
    <3>4. CASE pc[t] = "delete_lock"
      BY <1>2, <3>4 DEF BlockedBy, MutexInv
    <3> QED BY <3>2, <3>3, <3>4
  <2>4. ASSUME NEW t \in S, pc[t] = "enqueue"
        PROVE  InsertJam /\ SyncWorker \in S
    <3>1. PICK u \in S : u \in insert_queue_lock[table[t]]
      BY <2>4 DEF BlockedBy
    <3>2. u = SyncWorker /\ pc[u] \in {"merge_lock", "merge"} /\ table[u] = table[t]
      BY <1>2, <2>1, <3>1 DEF MutexInv
    <3>3. pc[u] = "merge_lock" /\ t \in Workers
      BY <1>2, <2>1, <2>4, <3>2 DEF LockInv, TypeOK, SyncLabels
    <3> QED BY <2>4, <3>2, <3>3 DEF InsertJam
  <2>5. ASSUME NEW t \in S, pc[t] \in {"table_lock", "merge_lock", "refresh_lock", "auto_lock"}
        PROVE  \E u \in S : pc[u] = "enqueue"
    <3>1. PICK u \in S : u \in writer[table[t]] \cup readers[table[t]]
      BY <2>5 DEF BlockedBy
    <3>2. pc[u] \in ReadsTable \cup WritesTable
      BY <1>2, <2>1, <3>1 DEF LockInv, TableLockInv
    <3> QED BY <2>1, <2>2, <3>2 DEF ReadsTable, WritesTable
  <2>6. ASSUME NEW t \in S, pc[t] \in {"tables_lock", "sleep", "mark_dirty"}
        PROVE  SyncWorker \in S /\ pc[SyncWorker] # "sleep"
    <3>1. PICK u \in S : u \in open_tables_lock \cup pending_dirty_lock[table[t]]
      BY <2>6 DEF BlockedBy
    <3>2. pc[u] # "lookup"
      BY <2>1
    <3> QED BY <1>2, <2>1, <3>1, <3>2 DEF MutexInv
  <2>7. ASSUME SyncWorker \in S, pc[SyncWorker] # "sleep"
        PROVE  pc[SyncWorker] \in {"merge_lock", "refresh_lock", "auto_lock"}
    BY <1>2, <2>1, <2>2, <2>3, <2>7 DEF LockInv, TypeOK, SyncLabels
  <2>8. PICK t \in S : TRUE
    OBVIOUS
  <2>9. \E u \in S : pc[u] = "enqueue"
    BY <2>1, <2>2, <2>3, <2>5, <2>6, <2>7, <2>8
  <2> QED BY <2>4, <2>9
<1>3. LockInv /\ MutexInv /\ [Next]_vars => MutexInv'
  BY MutexStep
<1> QED BY <1>1, <1>2, <1>3, AlwaysLockInv, PTL DEF Spec
==========================================================================
