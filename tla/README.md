# OriginDB (vecdb): a TLA+ model

OriginDB is a vector database in C. A command line program (`terminal.c`)
administers tables; a server (`server.c`) answers `/search`, `/insert`,
`/delete-request` and `/train` over HTTP. Both use the same engine (`db.c`,
`storage.c`, `pending-delete.c`) over one directory per table. These modules
model the engine with its failures, the server's threads, connections, handlers
and data, the API keys, the search and the training; TLC checks them on small
instances and TLAPS proves every safety property of theirs for every instance.

Source paths below are relative to the repository (`src/` is its code,
`write-up/` its documents).

## 1. Inventory

| Component | State | Operations | Modelled in |
|---|---|---|---|
| Table file, `storage.c` | `data.db`: padded records (id, flags, length, vector, metadata); `FILE *fp`; a read-only mapping | open, append, load next, patch flag, fetch at offset, remap, compact (write a new file, rename it over the old one, reopen), save and load the index | `TableFile`, `FlatDb`, `TableServer` |
| Engine, `db.c` | `FlatDb_t`: `records[]`, `count`, `capacity`, cached `pending_deletes` | `db_init`, `db_open`, `db_insert`, `db_delete`, `check_and_run_auto_delete`, `db_compact`, `db_ann_search`, `db_close` | `FlatDb`, `DurableStore`, `Search` |
| Delete queue and schedule, `pending-delete.c` | `pending.bin`, `auto_delete_schedule.bin`, `pending_append_lock` | append, load (sorted), clear; set, get, clear the schedule | `FlatDb`, `ServerLocks`, `TableServer`, `Terminal` |
| Exact search, `baseline-flat.c` | result slots that own copies of metadata | linear scan with a top-k insertion | `Search` |
| Clustering and ANN search, `kmeans.c` | clusters with centroids, members and byte offsets | build; choose `nprobe` clusters and collect their offsets | `Kmeans`, `Search` |
| Server threads, `server.c` | open tables (at most `MAX_OPEN_TABLES`), an insert queue per table, dirty flags, five kinds of lock | four request handlers, `sync_worker` every two seconds | `ServerLocks`, `TableServer`, `Handlers` |
| Connections, `server.c` | a `conn_state_t` per client, the table of active connections, the epoll set | accept, read headers, read body, dispatch, rearm, close, sweep idle ones | `Connections` |
| API keys | `.auth_keys`, a cache reloaded every two seconds | prune, append; load, verify | `Gateway` |
| Command line, `terminal.c` | the one open table of the session | init, open, insert, search, delete, process-deletes, set/cancel auto-delete, server | `Terminal`, `Gateway`, `FlatDb` |
| Request parser, `parser.c` | none | which fields a route needs; the reply's contents | `Handlers`, `Search` |
| Distance functions | none | `euclidean`, `cosine` | `Kmeans` (`euclidean` on a line) |
| cJSON | none | vendored | no |

How they interact. The engine is passive: in the CLI it runs single threaded;
in the server each entry point is called under the table's read/write lock. An
insert over HTTP appends to `data.db` and puts the record on the table's insert
queue; `sync_worker` later merges the queue into `records[]`, refreshes the
cached delete queue when it is marked dirty, runs the scheduled delete (which
compacts), and removes the index the compaction has made wrong. A delete
request only appends to `pending.bin`. CLI and server share nothing but files,
and `originDb-concurrency.md:58` has the CLI used while the server is stopped.

What is hard here:

* compaction is a sequence of system calls that replaces the file, the array
  and the mapping, any of which may fail or be the last before a crash;
* an append may fail half way, and the next one goes behind what it left;
* RAM and file are changed by separate calls, with separate failures;
* five kinds of lock are taken in different orders by five kinds of code;
* readers are preferred by the locks that the background thread must write under;
* what one thread saw (a queue, an index, a file offset, a clock) is used after
  the lock under which it was seen has been released, or before one was taken;
* a descriptor number is given out again as soon as it is closed, and a
  connection object is freed by one thread while epoll can hand it to another;
* the key file is rewritten by copy and rename while others append and read.

`PROJECT.json` lists the hazards line by line under `hazards`.

## 2. Modules

| Module | What it is |
|---|---|
| `TableFile` | the table file as a value, and `storage.c`'s operations on it |
| `FlatDb`, `MCFlatDb` | the engine over one table, one action per operation or system call |
| `DurableStore`, `FlatDbStore` | what a table promises, and the engine mapped to it |
| `FlatDbProofs` | invariants, action properties and refinement of the engine; the command line on the same files |
| `ServerLocks`, `MCServerLocks`, `ServerLocksProofs` | the server's threads and their locks |
| `TableServer`, `MCTableServer`, `TableServerProofs` | what the handlers and `sync_worker` move, for one table |
| `Handlers`, `MCHandlers`, `HandlersProofs` | one request through its handler, with every early exit |
| `Connections`, `MCConnections`, `ConnectionsProofs` | acceptor, epoll workers and sweep |
| `Gateway`, `MCGateway`, `GatewayProofs` | `origin init`, the key file, the key cache and the table slots |
| `Terminal`, `MCTerminal` | command-line sessions and server runs on one table's files |
| `Search`, `MCSearch`, `SearchProofs` | one search, exact or ANN; the proofs about the training are here too |
| `Kmeans`, `MCKmeans` | one training |
| `Subsequences`, `SubsequencesProofs` | the two loops over arrays that several modules share: keeping some elements, adding up |

They divide the server among them: `ServerLocks` has the locks without data and
shows that what they protect is never touched by two threads; `TableServer`
takes that as the granularity of its steps and has the data; `Handlers` has one
thread alone with what it locks, allocates and answers; `Connections` is the
layer below, with a request as one step. `TableServer` and `Terminal` take a
compaction as one step with its outcomes, whose steps are `FlatDb`'s. `FlatDb` and
`TableServer` share `TableFile`'s layout; `Terminal` has only which `data.db` is
there and which one the index was made from.

Definitions named "Seeded fault" are plausible bugs of the definition that
follows them. Nothing uses them; each shows, when it replaces its neighbour,
that a property can fail (`mutants` in `PROJECT.json`).

Where the code does something that no property can survive, the model keeps it
and a history variable remembers that it has happened (`mishaps`, `mishap`); the
properties say what holds until then. Section 5 lists these places.

### TableFile and FlatDb

A file image maps the byte offset of every whole record to its contents and
keeps the length of the file. The vector and metadata of a record are abstracted to
a number that names the insert they came from and to the metadata's length,
which decides (through `record_padded_size`) where the next record goes. A torn
append is a length that grew without a record.

The variables of `FlatDb` are the four files (`data`, `tmp`, `pending`,
`schedule`), the handle (`up`, `fp`, `records`, `capacity`, `pending_deletes`),
the engine's position in an operation of several steps (`pc`, `i`,
`new_records`, `pending_ids`, `success`), and three history variables: `inserts`
counts the calls of `db_insert`, `acked` holds the values whose insert returned 0
and that no delete marked, and `since` is `inserts` when the table was opened.

* `db_insert`, `db_insert_failed` and `CrashInInsert` are the three ways out of
  one call: all bytes written and counted; an error, with some bytes left in the
  file; the process gone, with a whole record or part of one in the file.
* `db_delete` marks the first live record with the id in RAM and then patches the
  flag through a handle of its own. Its failures are kept apart: a failed seek
  leaves the RAM flag set, a failed patch takes it back, and a patch that was
  written after the `fsync` may not reach the file (fault `"flush"`).
* A delete that returns 0 goes on to compact, as `origin delete` does. Deletes
  that belong to the schedule are `AutoDeleteBegin`, one `AutoDeleteOne` per
  queue entry in sorted order, `clear_pending_deletes`,
  `clear_auto_delete_schedule`, and then the compaction if any delete succeeded.
* Compaction is `CompactBegin`, one `CompactSkip` or `CompactCopy` per record,
  `CompactFinish`, `CompactRename` and `CompactInstall`, with a failure action
  beside each system call that can fail. `Crash` is possible between any two.
* A vector pointer is `"heap"`, `"mmap"`, `"stale"` (into a mapping that is gone)
  or `"null"`. Reading through the last two ends the process
  (`flat_search_fault`, `CompactCopyFault`).
* `schedule` is the schedule file against the clock: none, later, due.

`DurableStore` is what the engine promises without files or arrays: values that
are stored, values that are owed, and five things that may happen to them. A
compaction is one step there (`Rewrite`). `FlatDbStore` maps `stored` to the
values live in `data.db` and `owed` to those accepted since the table was opened.

Abstractions to know of. A crash is the death of the process: what `fflush` gave
to the kernel survives, power loss is not modelled. The delete queue starts with
entries (`InitialQueues`) because `append_pending_delete` writes none in this
build; files of earlier builds may hold them. Bytes left by a torn append are
not interpreted as a record. Failed allocations are left out, except where they
have the effect of a failure that is there. The action names `db_insert` and
`db_delete` stand for the engine call together with the command that makes it.

### ServerLocks

Each worker runs one handler at a time; `pc` says where it is, `route` and
`table` what it serves. A mutex, and each side of a read/write lock, is the set
of threads that hold it. A reader enters whenever there is no writer, as with
the default attribute of `pthread_rwlock`. Each `pthread` call that can block is
the guard of an action; what happens up to the next one is part of that action.
A step that drops one lock and then another without blocking in between drops
both at once. `auth_lock`, `conn_tracker_lock` and `disk_write_lock` have no
variable: nothing is acquired while they are held. The data is reduced to what
decides which lock comes next: whether a table has a slot, whether its queue is
empty, whether it is dirty, whether its index was read. Outcomes that depend on
the rest (a malformed request, a failed save, whether a scheduled delete
compacted) are choices.

`append_pending_delete` is modelled as it is compiled: the brace that closes the
`fopen` check stands before `return -1`, so the call that succeeds in opening
the file returns with `pending_append_lock` held.

### TableServer

One table of the server: its files (`data`, `pending`, `schedule`,
`index_file`), the slot (`up`, `fp`, `file_size` of the mapping), the array, the
insert queue, the cached delete queue with its dirty flag, the cached index, and
`round`, which of the four things `sync_worker` does to a table comes next. A
handler is one step (`Insert`, `DeleteRequest`, `Train`, `LoadIndex`), and so is
each of `SyncMerge`, `SyncRefresh`, `check_and_run_auto_delete` and
`SyncDropIndex`, because each is under one hold of the table's or the index's
lock; between two of them anything else may happen. An index is the set of byte
offsets it lists, each with the record it was taken from. A write may fail and
leave a torn tail, saving may fail and leave part of a file, a compaction may fail
before or after the rename, the server may end anywhere. The one pair of steps
that does not come apart, an insert that waits for the queue while the drain waits
for the table, is the round `"jam"`: nothing but the end of the server leads out
of it.

### Handlers

One request from its parsed body to its reply. The state it meets (is the key
right, is the table there or every slot taken, is the index loaded, how many
records are there, has an earlier delete request kept `pending_append_lock`) and
the calls that fail are part of the request, so every path through
`handel_client` is a behaviour. What is kept is what the shared exits can get
wrong: how often each of four locks is held, allocations owned, replies sent, and
what others can see of it, a torn tail of `data.db` and an emptied `ivf_index.bin`
included. `QueueDelete` returns from `append_pending_delete` as compiled: with the
lock and the open file kept.

### Connections

`conn` are the `conn_state_t` objects, `sock` says which client's socket a
descriptor refers to, `epoll` is the kernel's entry for each socket. A thread's
pointers are `cur` and the rest of the batch `epoll_wait` gave it. Closing a
descriptor takes its socket out of the epoll set and lets the number be given
out again, at once, to the next client. `EPOLL_CTL_MOD` acts on whatever the
descriptor refers to then. Time is the age of each connection (seconds since
`last_active`, capped) and `skew`, how far the clock has moved since
`sync_worker` read it; `Expired` is the code's unsigned subtraction.

`Content-Length` is any integer. The code refuses 0 and what is above the limit
(`server.c:435`); below -1 the allocation fails; -1 passes with a body of no bytes.

Three things end a behaviour of the model (`mishap`), because what the program
does after them depends on freed memory, on a stranger's descriptor or on
overwritten memory: the sweep frees a connection that a thread has in its hands
(`"swept"`), a descriptor closed by the branch for unknown routes is given to a
new client before the worker closes it a second time (`"reused"`), and a copy of
body bytes under the length -1 (`"overrun"`).

### Gateway

`origin init` step by step (the check that there is no folder, the folder and
`data.db`, `meta.bin`, the key, the pruned copy, the rename, the append), in two
sessions; the owner who removes a table's folder by hand, which a comment in
`api-key-generate.c` expects; and the server with its key cache and its slots.
Between the check (`terminal.c:193`) and the `mkdir` that is content with a folder
that exists (`storage.c:35`) another session may create the same table.

A name is a sequence of characters, of which only the colon is told from the
others, and users may give any name. `validate_db_name` lets through what is not
too long and has no colon; `db_init` and `db_open` call it, and a key is generated
and saved only after `db_init` has succeeded (`terminal.c:207-212`). The server
splits a line at its first colon and cuts the name to an entry's size (`Entry`);
`prune_api_key` compares a prefix and a colon (`Matches`). That neither confuses
two tables is therefore a consequence of `validate_db_name`, not of the model: the
mutant of `KeyOpensOwnTable` leaves the check out.

A generated key is a fresh number. A full disk leaves a copy that ends inside a
line, and the next line that is appended to one continues it and may have any
name (`NamesAfter`). `told` is the key that was printed for the table that has the
name now. `mishaps` remembers that two sessions were in `save_api_key` at once or a
write ended inside a line (`"garbled"`), that a write of the key file failed or two
sessions created one table (`"lost"`), or that a folder was removed whose table the
server had open (`"removed"`). `jammed` is the insert jam of `ServerLocks`, after
which keys are not read again.

### Terminal

Sessions that open the table, insert, delete, run `process-deletes`, or run the
server in the foreground, which appends and trains. `data.db` is the number of
times it has been replaced, `ivf_index.bin` the number of the `data.db` it was saved
for, and a record its id, its deleted flag and whether its vector is there. A
delete has every outcome of the code: the seek fails and the record is marked in
the array alone; the compaction replaces the file; it fails in the copy; the
rename fails and the old file is opened again, or not; the rename succeeds and the
new file cannot be opened, which returns -1 like the others (`storage.c:534-538`),
so that the index is kept (`terminal.c:403`); the process dies in the copy because
a vector is NULL. The removal of the index is a step of its own, before which the
process may end, and which may fail. `db_open` reads from where `storage_init` has
left the file position, so a table opened afresh has no records in its array, and
`process-deletes` executes nothing.

### Search and Kmeans

A search is the probe (`ivf_search`: compare each cluster, keep the `nprobe`
nearest by insertion; collect their offsets), the scan (the same insertion over
the candidates, with the metadata copies it makes and frees) and the reply,
which leaves out results with id 0 and is cut to the response buffer, under the
length of the whole (`ReplyRoom`, counted in results). A vector is its distance to the query. An
offset is the place of the record it points to, or one the mapping does not
reach. `FLT_MAX` stands for the distance the slots start with: `FLT_MAX` in the
scan, `1e30` in the probe.

`Kmeans` is `kmeans_build` on a line, with coordinates that are multiples of a
number every cluster size divides, so that means are exact.

## 3. Runs

| Run | Instance | States |
|---|---|---|
| `FlatDb_safety` | 2 ids, 3 inserts, capacity 1, a queue with a repeated id, every fault | 319,000 |
| `ServerLocks_safety` | 2 workers, 1 table, all routes | 84,000 |
| `Connections_safety` | 2 clients, 2 workers, 2 descriptors, header buffer 2, bodies to 1, lengths from -2 to 2 | 593,000 |
| `TableServer_safety` | 2 ids, 3 inserts, 2 trainings, every fault | 666,000 |
| `Handlers_paths` | every route, at most one wrong field and one failing call, all else combined | 46,000, every path |
| `Gateway_safety` | 2 valid names and one too long, 2 sessions, 2 creations, 1 cached key, 1 slot, every fault | 721,000 |
| `Terminal_safety` | 2 ids, 4 inserts, 3 compactions, every queue of the ids | 33,000 |
| `Search_safety` | tables to 3 records, top_k to 3, 2 clusters of which one may be out of reach, nprobe to 3, room for 2 results in a reply | 420,000 |
| `Kmeans_safety` | 4 points of 4 places, none, one or all deleted, k to 3 | 86,000 |
| `FlatDb_survivors`, `ServerLocks_deadlock`, `TableServer_window` | | disagreements, section 5 |

What they check:

* `FlatDb_safety`. `IInv`: the inductive invariant of section 4, with the types,
  the layout of both files and the bound of the array. `MemoryMatchesDisk`:
  while `fp` is open every entry of `records` is at the offset of a whole record
  with its id, value and length, no two share one, and a record flagged in the
  file is flagged in RAM. `SessionDurable`: what was accepted since the table
  was opened and not deleted is live in `data.db` in every state, so also in the
  files a crash would leave. `NoResurrection`: no step makes a record live that
  was not; a temporary file left by an earlier crash must not get into a later
  rename. `ImplementsStore`: the refinement. `DueIsExecuted`: a due schedule is
  executed, and what was begun ends.
* `ServerLocks_safety`. `SwapExclusive`, `IndexExclusive`: no thread uses what
  another is replacing. `NoOtherDeadlock`: every set of threads that wait for
  each other contains one of the two jams of section 5. `RequestsAnswered`:
  outside the jams every request is answered and every round ends, although
  read/write locks prefer readers. The reason is `open_tables_lock`, held for a
  whole round: with `SyncWakeReleases` searches starve a training.
* `Connections_safety`. `NoDanglingConn`: no pointer to a freed connection.
  `OneOwner`: each live connection is armed or with exactly one thread.
  `OwnDescriptor`: what a thread reads, writes or closes is its own client's.
  `WithinBuffers`: over many requests on one connection, for every length but the
  copy under -1. `KeptAlive`: whom the sweep may close. `IdleEnds`: silent clients
  are closed in the end, if `sync_worker` goes on making rounds, and a thread gives
  its connection back unless it stays in `handel_client` for good.
* `TableServer_safety`. `AckedInMemory`: an acknowledged record is in the array
  or in the queue, once. `AckedOnDisk`, `ArrayDescribesFile`: it is in the file
  where its offset says, unless an insert has slipped in between a drain and
  the compaction of the round; the mapping never passes the end of the file.
  `IndexCurrent`: the index that the next ANN search uses has the offsets of
  this file. `InsertAppears`: what is queued comes into the array and what is due is
  taken up, unless the server ends or jams first.
* `Handlers_paths`. `CleanExit`: every exit gives back its locks and frees or
  hands over its memory once, but for the append lock and the file that an answered
  delete request keeps. `RightAnswer`: it answers once, with a status
  `usage_API_Docs.md` gives that reason for (or 404 because every slot is taken),
  and a refusal leaves nothing behind but a loaded index, the torn tail of a failed
  write or the emptied file of a failed save.
* `Gateway_safety`. `KeyOpensOwnTable` until the key file is garbled, whoever
  creates what at once and whatever else fails; `ToldKeyStored` and
  `KeyComesToWork` while the key file is sound; `ServesCurrentTable`.
* `Terminal_safety`. `IndexOfThisFile`: no command leaves an index of a file that
  was replaced, whatever failed in it, but through one of three mishaps: the
  process ended before the removal, the replaced file could not be opened again,
  the index could not be removed.
* `Search_safety`. `ResultsGenuine`, `ResultsNearest`, `ProbesNearest`: at every
  step of the loops. `FullProbeIsExact`: probing all clusters finds what the
  exact search finds, if no cluster is as far as the slots' initial distance.
  `MetadataOwned`: no copy has two owners. `ReplyComplete`: the reply has every
  result but id 0, or is cut to a full buffer of results no farther away; and no record twice unless `nprobe` exceeds the number of
  clusters within reach.
* `Kmeans_safety`. `EveryRecordOnce`: in one cluster, with its offset, within the
  iteration cap. `NearestWhenSettled`, `CostNeverRises`, `SettlesByItself`.

The type invariant of a module is a conjunct of one of these (`IInv`,
`WithinBuffers`, `ArrayDescribesFile`, `CleanExit`, `ServesCurrentTable`,
`IndexOfThisFile`, `EveryRecordOnce`); those of `ServerLocks` and `Search`
are proved.

Bounds. Three inserts are the fewest with which a compaction drops one record,
keeps one, and a duplicate id remains; capacity 1 makes the array grow twice;
metadata that is not a multiple of the padding makes an offset computed with the
wrong size a wrong offset; a queue that holds one id twice and another once
reaches both outcomes of each entry. Files can be reopened, crashed and
compacted any number of times within `MaxInserts`. Two workers and the sync
worker hold every pair of locks against each other. Two clients over two
descriptors reach every reuse of a number, since the lowest free one is given
out; a header buffer of 2 bytes lets body bytes arrive with the headers; an idle
limit of 0 seconds has ages below, at and past it; the lengths are below, at and
above each limit of the code. In `Gateway` names of one character are valid, so that
one of two characters is cut when it is read; one cached key
and one slot put both limits between two tables, and two creations are what it
takes to replace a key or to create two tables at once. Two clusters with up to three
probes have fewer, as many and more probes than clusters. In `Kmeans` the cap of
100 exceeds the 81 assignments of four points to three clusters, so the cap
cannot be what ends the iteration. Deadlock is not checked where a run ends
(`Search`, `Kmeans`, `Handlers`), where the code really deadlocks
(`ServerLocks`), where a mishap ends the model (`Connections`), and in
`Gateway` once the bounds are used up.

Fairness. `FlatDb`: the thread that is inside a delete or a compaction goes on
(weak fairness of `CompactWork` and `AutoDelete`), and the sync worker calls the
scheduled delete every two seconds. The latter holds only outside the insert jam:
a sync worker that waits for ever (section 5, 2) makes no call, and `DueIsExecuted`
says nothing of such a server. No failure, no user command and no clock tick is
owed. `ServerLocks`: a thread whose lock is free again and again gets it in the
end (strong fairness per worker and for the sync worker's wake-up), as a mutex
queue gives; the sync worker runs when it can. `TableServer` and `Gateway`: the
sync worker's rounds go on, which `RequestsAnswered` shows outside the insert jam.
The jam is in both models, disables the rounds, and is what `InsertAppears` and
`KeyComesToWork` except. `Connections`: sockets do not block, so a worker owes its
next step, but no client owes a byte; the acceptor goes on with a connection it
has accepted, a sweep that was begun goes on, and time passes. Nothing is assumed of
`handel_client`, where a second delete request or the jam may keep a worker for
ever, nor of the next sweep, which the jam may prevent; `IdleEnds` has both as
conditions. `Kmeans`: the loop runs.

## 4. Proofs

The proofs hold for every value of the constants that satisfies the named
assumptions of the modules: any ids, metadata lengths, dimension, initial queues,
faults and number of inserts; any sets of workers, tables and routes; any
clients, descriptors, buffer sizes and idle limit; any requests; any tables,
sessions, numbers of cached keys and of slots; any tables, indexes, `top_k` and
`nprobe`; any number of points, any `k` and `max_iterations`. Where a counter of
the model is capped (`MaxInserts`, `MaxTrains`, `MaxInits`, `MaxRewrites`), the
cap is any number. Each inductive invariant was checked with TLC on the module's
run before it was proved.

`FlatDbProofs` proves `Spec => []IInv` and from it `TypeOK`,
`MemoryMatchesDisk`, `SessionDurable`, `FileWellFormed` and
`CountWithinCapacity`. None is inductive alone. `IInv` adds:

* `EngineInv`: a compaction is entered only with `fp` open, and between closing
  the old file and reopening the new one `fp` is closed. This rests on
  `db_delete` refusing when `fp` is `NULL`.
* `LayoutInv`: the temporary file is well formed too.
* `MirrorInv`: while copying, the old array describes the old file and
  `new_records` the new one; after the rename `new_records` describes
  `data.db`, and the old array describes nothing.
* `KeptInv`: an accepted record is in the file, in the array while `fp` is
  open, and during the copy either already in `new_records` or still ahead of
  `i`; at the rename it is in `new_records`.

The lemmas underneath are about the operators: `record_padded_size` is at least
the header (`PaddedSize`), so no record starts at the end of the file
(`EofIsFree`) and an append disturbs none (`WriteRecord`); patching and torn
tails (`PatchFlag`, `TornKeeps`); appending to and marking an array that
describes a file (`DescribesAppend`, `DescribesPatch`); and pointers do not
matter to any of it (`SamePointers`). `NextInv` has one lemma per action.

Its second part proves the action properties. The lemma `DataSteps` shows that a step
does one of five things to `data.db`: nothing, a whole append, a torn append, a
flag patch at the start of a record (this needs `MirrorInv`), or the rename.
`OnlyRenameRemoves` follows case by case. `NoResurrection` needs one more
invariant for the rename, `CopyInv`: what the temporary file holds live was live
in `data.db` when the compaction began, and nothing has changed there since.

Its third part proves `Spec => ImplementsStore`: under `IInv` and `CopyInv`
every step of the engine is a step of `DurableStore` on the mapped values or
leaves them as they are. An insert is `Accept` or `Unanswered`, a delete is
`Delete`, the rename is `Rewrite` (`KeptInv` says that nothing owed is missing
from the new file, `CopyInv` that nothing new is in it), and every other step
of a compaction is none.

`ServerLocksProofs` proves `Spec => []LockInv` and from it `TypeOK`,
`SwapExclusive` and `IndexExclusive`. `LockInv` says that the two sides of each
lock hold exactly the threads whose label is in the section (`TableLockInv`,
`IndexLockInv`), that a writer is alone, and that a delete request never
reaches `get_or_open_table` (`RouteInv`). There is one lemma for each thing a step
may do to a lock, and each action is an instance of one of them.

`NoOtherDeadlock` needs `MutexInv` besides: each mutex is held only by threads
whose label says so (`insert_queue_lock` and `pending_dirty_lock` by
`sync_worker` alone), but for `pending_append_lock`, which is left held. Then a
thread that holds an index lock, or `open_tables_lock` in `get_or_open_table`,
waits for nobody; one that holds a table lock waits only for an index lock or
for the insert queue; and one that holds the insert queue is `sync_worker`.
Following the holders from any thread of a set that waits for itself leads out
of the set or into one of the two jams.

`TableServerProofs` proves `AckedInMemory`, `AckedOnDisk`, `ArrayDescribesFile`
and `IndexCurrent`. The invariant `TInv` adds to them:

* `ValsInv`: no insert is twice in the array or the queue, nor in both.
  `db_delete` marks in RAM by position and `storage_patch_flag` in the file by
  offset; that both hit the same records and no others rests on this.
* `FileInv`: records start before the end of the file, so an append disturbs
  none.
* `FitsInv`: the queue describes the file as the array does, so the merge of
  the queue keeps `ArrayDescribesFile`.
* `IndexInv`: `index_file` and the cached index list starts of records, but
  between a compaction and the removal of the index.
* `VectorInv`: until `pending` is empty no record in memory has lost its vector.
  A compaction clears vectors (`storage.c:561`) but has also emptied the queue,
  and `append_pending_delete` puts nothing into it in this build. So, and only
  so, a compaction in the server never copies from a cleared vector
  (`CompactionReadsVectors`).

A compaction keeps the records that survive, in order, and gives them running
offsets. Both are operators of `Subsequences`, and `SubsequencesProofs` has what
the proofs need of them: the n-th smallest of a finite set is a bijection
between ranks and members (`NthRank`), so `Picked` has each kept element once
(`PickedElements`); the running total exists and is what its equation says
(`TotalsExist`, `Totals`), and increases (`TotalsIncrease`), so no two records
of the new file share an offset. Induction over numbers is replaced by
`LeastNatural`: a set of counterexamples would have a least one.

`HandlersProofs` proves `CleanExit` and `RightAnswer` for every request. `HInv`
says at each position which route can be there (`RouteInv`), which tests have
been passed (`PassedInv`), which locks are held, the table's exactly when the
pointer is set (`LocksInv`), what is owned (`OwnedInv`), and that until the end
nothing was answered or changed but the cached index, while at the end a success
has no reason against it and a refusal has one and left only what `Left` names
(`AnsweredInv`). `RightAnswer`
follows because each test on the way refutes one reason of each status
(`NoReason`), and each refusal is one of them (`ParsedReasons`,
`AcceptableReasons`).

`GatewayProofs` proves `KeyOpensOwnTable`, `ToldKeyStored` and
`ServesCurrentTable`. `LinesInv` follows a line through the file, the copy, the
cache and the sessions: until the file is garbled its key was generated for its
table and its name is valid. A valid name is not cut when it is read and its line
matches no other name, so reading and pruning keep this. `BusyInv` says that
sessions that create tables have valid names and, until one table is created
twice, different ones, whose keys nobody was told. `FileInv` is what the rewrite
needs: while the key file is sound at most one session is in `save_api_key`, the
copy it will rename has a line for every key told and none for its own table, and
before the append the file has none either. `SlotInv` says that a slot is of the
folder that has the name now.

`ConnectionsProofs` proves `Spec => []ConnInv` and from it `NoDanglingConn`,
`OneOwner`, `OwnDescriptor`, `WithinBuffers` and the action property
`KeptAlive`. `WithinBuffers` rests on nothing else, for any set of integers as
lengths; the step that copies a negative length ends the model. The others need each other:
that a freed connection is armed nowhere rests on its descriptor still being its
own when it is closed, and that rests on nobody else having it in hands. So
`ConnInv` adds, until a mishap:

* `HandsInv`: what threads have in hands is live and is one thread's only, and
  a worker has a connection exactly at the positions that serve one.
* `SocketInv`: an open descriptor is a live connection's; a live connection's
  descriptor is open, or closed and with the worker that answered an unknown
  route.
* `ArmedInv`: armed are exactly the live connections that nobody has in hands,
  each under its own pointer.
* `TrackInv`: the table lists live connections under their descriptors, and
  none that a worker is about to free. This is why `close_conn` leaves the
  table first.

There is one lemma per action; the steps that only read or answer share
`KeepLinks`, the failed `EPOLL_CTL_ADD` and the sweep share `GoneKeeps`.
`KeptAlive` also needs that ages below the modulus do not wrap (`NoWrap`).

`SearchProofs` proves `TypeOK`, `ResultsGenuine`, `ResultsNearest`,
`ProbesNearest` and `MetadataOwned` for every search. Its heart is the bounded
insertion sort that the code has twice: the walk ends at a place that keeps the
order (`InsertPosFound`, from `LeastNatural`), and what one
insertion does to the slots (`InsertedSlots`). The invariant `SInv` says what
the slots hold of the candidates looked at so far; when a candidate pushes the
last one out, the one pushed out is no nearer than any that stays.

`FullProbeIsExact` and `ReplyComplete` need `CInv` on top of it. `ProbedInv`:
a slot of the probe is as it was at the start or names a cluster that no other
names. With no more probes than clusters, all within reach, no slot is left
over: else all clusters would be in fewer slots than there are clusters
(`OwnClusters`, by the pigeonhole principle). `CandidatesInv`: the candidates
are the offsets of the slots collected so far, and one comes twice only if two
slots name one cluster or the index lists it twice. With as many probes as
clusters the slots' clusters are an injection between sets of the same size, so
all are probed. The proof attempt showed that "all within reach" is needed: a
cluster whose distance is not below the initial one is never put into a slot
(section 5, 11).

The last part of `SearchProofs` is about the training, the instance `Training`
of `Kmeans` under names that a search does not use. `KInv` says that the clusters
are those which the centroids before the mean make (`ClustersInv`), that another
pass begins only below the cap (`PassInv`), and that the finished offsets follow
the clusters (`OffsetsInv`). A pass fills each cluster with the records whose
best cluster it is, and `PickedElements` gives each of them one place
(`ClusteredOnce`); from this come `EveryRecordOnce` and, since an unmoved
centroid is the one the records were compared with, `NearestWhenSettled`. Both
hold for every input that `/train` lets through.

`CostNeverRises` is the descent argument of k-means and holds for inputs whose
means are exact (`ExactTrainings`, which is `KmeansAssumption`): with the integer
division of the model an inexact mean would be rounded away from the best place,
and what rounding of floats does there is not modelled. Only `Recompute` moves a
centroid. The records of a cluster stay with it first: moving a centroid from
`a` to the mean `b` of its `n` records takes `n(b-a)^2` off what they are charged
(`MeanIsBest`), one cluster after the other (`MoveOne`, `MoveAll`). Then each
record is charged to its nearest centroid, which is no more
(`MeansCostLess`). Sums are running totals (`TotalAtMost`), and the two inductions,
over the records of a cluster and over the clusters, are made by `Reaches`: a set
with 1 in it and with each next number has them all. `SubsequencesProofs` states
the totals for any set of numbers closed under addition (`TotalsIn`); with the
multiples of `n` this says that a sum of `n` coordinates is divided by `n`
without rest (`MeanExact`).

`TrainedSearchIsExact` joins the two. `FullProbeIsExact` supposes an index that
names each live record in one place; `TrainedIsPartitioned` shows that a finished
training leaves such an index, for the records it was given, also when some have
been deleted since (`OnThisTraining`; that no two records share an offset is what
`FlatDb` shows). A record inserted after the training is in no cluster, and no
claim is made for it.

The last part of `FlatDbProofs` is about the command line, the instance `Session`
of `Terminal`. The instance only borrows the names of `FlatDb`'s variables: the
theorem has `Session!Spec` and `SessionConstants` as hypotheses, nothing about the
engine's specification. `IndexOfThisFile` is inductive as it stands. The case that
carries it is the compaction (`SessionDeletes`): one that replaces `data.db` leads
to the removal of the index or is a mishap, one that fails before the rename
leaves `data.db`, and the index with it.

Only model-checked, because the prover does not do liveness: `DueIsExecuted`,
`RequestsAnswered`, `IdleEnds`, `InsertAppears`, `KeyComesToWork` and
`SettlesByItself`; and the three counterexamples of section 5.

## 5. Where the code and its documents disagree

Three runs end in a counterexample:

1. `FlatDb_survivors`: `storage_init` leaves the file position at the end
   (`storage.c:51`), so `db_init` loads nothing, while `test_db.c:109` requires
   that it "must replay the on-disk records back into RAM". A compaction in a
   later session then rewrites the file from an array that lacks the earlier
   records, and drops them; `Delete-architecture.md:441` says the rewrite keeps
   those that survived.
2. `ServerLocks_deadlock`: insert and `sync_worker` take the table lock and the
   insert queue in opposite orders (`server.c:820,852` and `258,261`);
   `usage_API_Docs.md:261` says parallel calls are safe.
3. `TableServer_window`: an insert acknowledged between the drain of its queue
   and the compaction of the same round is missing from the new file
   (`server.c:304`); `Deployment-and-Capacity.md:57` says that inserts are
   durable at once.

The others are in the models, as the exceptions their properties make:

4. After one delete request no other is answered (`pending-delete.c:31`,
   `DeleteJam`); `Delete-architecture.md:126`.
5. `process-deletes` works on a table opened afresh, executes nothing because of
   1, and clears the queue all the same (`terminal.c:461,483`; `Confirmed` in
   `Terminal`); `usage_API_Docs.md:27`. The scheduled delete, too, empties the queue whatever
   happened to its ids (`db.c:431`), and leaves its copy in RAM, so a record
   inserted later under such an id comes into the array and is not found
   (`db.c:432`; no property asks that it is).
6. A survivor that was inserted in this session loses its vector in a compaction
   (`storage.c:561`), and the next search, training or compaction reads it
   (`"null"` in `FlatDb`, `CopyFaults` in `Terminal`).
7. After a failed append the next record is not aligned (`storage.c:101`),
   against the comment at `storage.c:80`.
8. The index is removed after the lock of the compaction has been released
   (`server.c:307`), or not at all if the process ends in between
   (`terminal.c:402`); `Storage-architecture.md:23` and `usage_API_Docs.md:26`
   have it in the same step. (`round = "drop"` and `"cut"` in `IndexCurrent`,
   `"cut"` in `IndexOfThisFile`.) A training that ends in that stretch is removed.
   It is not removed either when `data.db` was replaced and could not be opened
   again: `db_compact` then returns -1, and the message says "Bytes remain on disk"
   (`terminal.c:403-406`, `"reopen"`).
9. The branch for unknown routes closes the descriptor, and the event handler
   closes it again when it may be another client's (`server.c:1030`, `"reused"`);
   `originDb-concurrency.md:13`.
10. The clock is read before the connection table is locked, and a connection
    used in the next second has an age near 2^64 (`server.c:240`, the exception
    in `KeptAlive`, `"swept"`); `Deployment-and-Capacity.md:39`.
11. With `nprobe` larger than `k` the records of cluster 0 are returned several
    times (`kmeans.c:142`, an exception in `ReplyComplete`); `test_kmeans.c:160`.
    So they are when a cluster is at a distance of `1e30` or more, whose own
    records are then not searched although every cluster is probed (`NoneTooFar`
    in `FullProbeIsExact`).
12. A record with id 0 is stored and never returned (`parser.c:61`, the exception
    in `ReplyComplete`); `terminal.c:38` accepts the id.
13. Two sessions that create tables at once can lose a key that was printed
    (`api-key-generate.c:60`, `"garbled"`); two that create the same table both
    succeed, and the key printed first is removed (`terminal.c:193`,
    `storage.c:35`, `"lost"`). Keys past `MAX_AUTH_KEYS` lines are never loaded
    (`server.c:142`, the exception in `KeyComesToWork`), and a table removed and
    created again is served from the deleted file (`server.c:93`, `"removed"`).
14. With every slot taken an initialised table is answered 404 (`server.c:100`,
    `lookup = "full"` in `Handlers`); `usage_API_Docs.md:230` has 404 for a table
    that was not initialised. A crash in `origin init` leaves a folder that
    neither init nor the server accepts (`terminal.c:193`); `Auth-design.md:11`.
15. A `Content-Length` of -1 is accepted (`server.c:435`), and body bytes that come
    with the headers are then copied with a negative length (`server.c:459-460`,
    `"overrun"`).
16. A reply longer than the response buffer of 4096 bytes is cut, under the
    `Content-Length` of the whole (`server.c:763-773`, the exception in
    `ReplyComplete`); `MAX_TOP_K` allows such replies.
17. A training that is answered 500 has emptied `ivf_index.bin` before
    (`storage.c:223`, `Left` in `Handlers`): the index of the training before is
    gone with the next start.
18. An answered delete request keeps `pending_append_lock` and an open file
    (`pending-delete.c:27-31`, the exception in `CleanExit`); this is the cause of 4.

## 6. Not modelled

* Power loss, and two processes on one table at once (the documents exclude it).
* Floating-point arithmetic: `cosine`, and the rounding of means and distances.
  `Search` takes any distances, so what it shows does not depend on it.
* cJSON (vendored), the text of HTTP, JSON and commands, and printing. `Handlers`
  starts from the fields of a request.
* `send_all`, and the bytes of a reply: where it is cut is counted in results.
* What the program does after a mishap that ends a model (`Connections`).
* A descriptor at or above `MAX_CONNECTIONS` is served and never swept
  (`server.c:550`): the model has it (`Track`), the run keeps below it.
* Failed allocations outside `Handlers`.
