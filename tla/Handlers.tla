------------------------------ MODULE Handlers ------------------------------
(* handel_client with the request parser: one request from its body to its   *)
(* reply, with every early exit and its clean-up.  What is kept is what the  *)
(* exits can get wrong: the locks held, the allocations owned, the replies   *)
(* sent and what was changed.  The state of the server the request meets is  *)
(* part of the input; a name or a payload is abstracted to whether it is     *)
(* good.                                                                     *)
EXTENDS Integers, Sequences, FiniteSets

CONSTANTS
    MAX_TOP_K,
    Requests    \* the requests to serve, see IsRequest

Routes == {"search", "insert", "delete-request", "train", "unknown"}

Fields == {"db_name", "top_k", "use_ann", "query_vector", "nprobe", "id", "vector",
           "metadata", "k", "max_iterations"}

\* wrong: the fields that are missing or of another JSON type; numeric: the
\* vector holds numbers only; lookup: the table has or gets a slot, cannot be
\* opened, or finds every slot taken; append_free: no earlier request has kept
\* pending_append_lock; fails: what goes wrong on the way.
IsRequest(r) ==
    /\ r.route \in Routes /\ r.wrong \subseteq Fields
    /\ r.lookup \in {"found", "missing", "full"}
    /\ r.fails \subseteq {"malloc", "serialize", "write", "save", "fopen"}
    /\ {r.json, r.numeric, r.authorised, r.append_free, r.dimension_ok, r.use_ann, r.trained,
        r.index_loaded} \subseteq BOOLEAN
    /\ {r.top_k, r.nprobe, r.k, r.count} \subseteq Nat

ASSUME HandlersAssumption ==
    MAX_TOP_K \in Nat \ {0} /\ \A r \in Requests : IsRequest(r)

VARIABLES
    req,        \* the request
    pc,         \* the place in the handler
    table,      \* the handler's pointer is not NULL
    locks,      \* how often this thread holds each lock, see LockNames
    owned,      \* allocations this handler has to free
    replies,    \* statuses sent
    changed     \* what the request changed for others

vars == <<req, pc, table, locks, owned, replies, changed>>

\* The table's lock, index_lock, pending_delete_lock and pending_append_lock.
LockNames == {"table", "index", "pending", "append"}
NoLocks == [l \in LockNames |-> 0]

Init ==
    /\ req \in Requests
    /\ pc = IF req.route = "unknown" THEN "unknown" ELSE "parse"
    /\ table = FALSE /\ locks = NoLocks /\ owned = {} /\ replies = <<>> /\ changed = {}

Took(l) == [locks EXCEPT ![l] = @ + 1]
Gave(l) == [locks EXCEPT ![l] = @ - 1]

\* send_error and "goto ..._cleanup".
send_error(status) == replies' = Append(replies, status)
Refuse(status) == send_error(status) /\ pc' = "cleanup"

--------------------------------------------------------------------------
(* The parser: a request, or NULL with everything freed again.              *)

parse_search_request(r) ==
    /\ r.json /\ r.wrong \cap {"db_name", "top_k", "use_ann", "query_vector"} = {}
    /\ r.numeric

parse_insert_request(r) ==
    /\ r.json /\ r.wrong \cap {"db_name", "id", "vector"} = {}
    /\ r.numeric

parse_train_request(r) == r.json /\ r.wrong \cap {"db_name", "k", "max_iterations"} = {}

parse_delete_request(r) == r.json /\ r.wrong \cap {"db_name", "id"} = {}

\* An nprobe that is not a number counts as 1.
nprobe == IF "nprobe" \in req.wrong THEN 1 ELSE req.nprobe

Parsed ==
    CASE req.route = "search" -> parse_search_request(req)
      [] req.route = "insert" -> parse_insert_request(req)
      [] req.route = "train" -> parse_train_request(req)
      [] req.route = "delete-request" -> parse_delete_request(req)

--------------------------------------------------------------------------
(* The steps the routes share.                                              *)

Parse ==
    /\ pc = "parse"
    /\ IF Parsed THEN owned' = {"req"} /\ pc' = "auth" /\ UNCHANGED replies
       ELSE Refuse(400) /\ UNCHANGED owned
    /\ UNCHANGED <<req, table, locks, changed>>

\* Seeded fault: /delete-request goes on without a key.
AuthNotForDeletes ==
    /\ pc = "auth"
    /\ IF req.authorised \/ req.route = "delete-request"
       THEN /\ pc' = IF req.route = "delete-request" THEN "queue" ELSE "open"
            /\ UNCHANGED replies
       ELSE Refuse(401)
    /\ UNCHANGED <<req, table, locks, owned, changed>>

authenticate_request ==
    /\ pc = "auth"
    /\ IF req.authorised
       THEN /\ pc' = IF req.route = "delete-request" THEN "queue" ELSE "open"
            /\ UNCHANGED replies
       ELSE Refuse(401)
    /\ UNCHANGED <<req, table, locks, owned, changed>>

\* get_or_open_table; no slot and no table are the same NULL.
OpenTable ==
    /\ pc = "open"
    /\ IF req.lookup = "found"
       THEN /\ table' = TRUE /\ locks' = Took("table") /\ pc' = "validate"
            /\ UNCHANGED replies
       ELSE Refuse(404) /\ UNCHANGED <<table, locks>>
    /\ UNCHANGED <<req, owned, changed>>

Acceptable ==
    CASE req.route = "search" ->
            /\ req.dimension_ok
            /\ req.top_k \in 1 .. MAX_TOP_K
            /\ req.use_ann => nprobe \in 1 .. MAX_TOP_K
      [] req.route = "insert" -> req.dimension_ok
      [] req.route = "train" -> req.k # 0 /\ req.count # 0 /\ req.count >= req.k

\* Seeded fault: a refused request leaves without the clean-up.
ValidateReturns ==
    /\ pc = "validate"
    /\ IF Acceptable THEN pc' = req.route /\ UNCHANGED replies
       ELSE send_error(400) /\ pc' = "done"
    /\ UNCHANGED <<req, table, locks, owned, changed>>

Validate ==
    /\ pc = "validate"
    /\ IF Acceptable THEN pc' = req.route /\ UNCHANGED replies
       ELSE Refuse(400)
    /\ UNCHANGED <<req, table, locks, owned, changed>>

--------------------------------------------------------------------------
(* /search.                                                                 *)

AllocateResults ==
    /\ pc = "search"
    /\ IF "malloc" \in req.fails THEN Refuse(500) /\ UNCHANGED owned
       ELSE /\ owned' = owned \cup {"results"}
            /\ pc' = IF req.use_ann THEN "ann" ELSE "serialize"
            /\ UNCHANGED replies
    /\ UNCHANGED <<req, table, locks, changed>>

\* The index is loaded under the write lock if nobody has; the read lock is
\* then held for the search and given back on both ways out.
AnnSearch ==
    /\ pc = "ann"
    /\ changed' = IF req.index_loaded THEN changed ELSE changed \cup {"index cache"}
    /\ IF req.trained THEN pc' = "serialize" /\ UNCHANGED replies
       ELSE Refuse(400)
    /\ UNCHANGED <<req, table, locks, owned>>

\* The results are turned into JSON under the lock, sent without it.
SerializeAndSend ==
    /\ pc = "serialize"
    /\ owned' = IF "serialize" \in req.fails THEN owned ELSE owned \cup {"json_payload"}
    /\ locks' = Gave("table") /\ table' = FALSE
    /\ send_error(IF "serialize" \in req.fails THEN 500 ELSE 200)
    /\ pc' = "cleanup"
    /\ UNCHANGED <<req, changed>>

--------------------------------------------------------------------------
(* /insert.                                                                 *)

\* Copy, write under disk_write_lock; a failed write frees the copies and leaves
\* what fwrite had written at the end of the file, if anything.
WriteRecord ==
    /\ pc = "insert"
    /\ IF "write" \in req.fails
       THEN /\ Refuse(500) /\ UNCHANGED owned
            /\ changed' \in {changed, changed \cup {"torn tail"}}
       ELSE /\ owned' = owned \cup {"vec_cpy"} \cup
                        (IF "metadata" \in req.wrong THEN {} ELSE {"meta_cpy"})
            /\ pc' = "enqueue" /\ UNCHANGED <<replies, changed>>
    /\ UNCHANGED <<req, table, locks>>

\* The queue takes the copies over; the lock goes back before the reply.
Enqueue ==
    /\ pc = "enqueue"
    /\ owned' = owned \ {"vec_cpy", "meta_cpy"}
    /\ changed' = changed \cup {"records"}
    /\ locks' = Gave("table") /\ table' = FALSE
    /\ send_error(200) /\ pc' = "cleanup"
    /\ UNCHANGED req

--------------------------------------------------------------------------
(* /delete-request and /train.                                              *)

LockPending ==
    /\ pc = "queue" /\ pc' = "append"
    /\ locks' = Took("pending")
    /\ UNCHANGED <<req, table, owned, replies, changed>>

\* append_pending_delete waits for its own lock, which an earlier request may
\* have kept for good.  When fopen fails the lock is given back; otherwise the
\* function returns with the lock taken, the file open and nothing written.  The
\* result is not looked at: pending_delete_lock goes back, the table is marked
\* if it is open, and the reply is the same in every case.
QueueDelete ==
    /\ pc = "append" /\ req.append_free
    /\ IF "fopen" \in req.fails
       THEN locks' = Gave("pending") /\ UNCHANGED owned
       ELSE /\ locks' = [locks EXCEPT !["pending"] = @ - 1, !["append"] = @ + 1]
            /\ owned' = owned \cup {"fp"}
    /\ changed' \in {changed, changed \cup {"pending mark"}}
    /\ send_error(200) /\ pc' = "cleanup"
    /\ UNCHANGED <<req, table>>

BuildClusters ==
    /\ pc = "train"
    /\ owned' = owned \cup {"trained_clusters"}
    /\ locks' = Took("index") /\ pc' = "save"
    /\ UNCHANGED <<req, table, replies, changed>>

\* save_ivf_index empties ivf_index.bin before it writes (unless fopen fails);
\* the cache takes the clusters over only when all was written.
SaveIndex ==
    /\ pc = "save"
    /\ IF "save" \in req.fails
       THEN changed' \in {changed, changed \cup {"index file"}} /\ UNCHANGED owned
       ELSE /\ owned' = owned \ {"trained_clusters"}
            /\ changed' = changed \cup {"index", "index file"}
    /\ locks' = [locks EXCEPT !["index"] = @ - 1, !["table"] = @ - 1] /\ table' = FALSE
    /\ send_error(IF "save" \in req.fails THEN 500 ELSE 200) /\ pc' = "cleanup"
    /\ UNCHANGED req

--------------------------------------------------------------------------

\* Each route's clean-up frees what that route may own.
CleanedUp ==
    CASE req.route = "search" -> {"json_payload", "results", "req"}
      [] req.route = "insert" -> {"req"}
      [] req.route = "train" -> {"trained_clusters", "req"}
      [] req.route = "delete-request" -> {"req"}

Cleanup ==
    /\ pc = "cleanup" /\ pc' = "done"
    /\ locks' = IF table THEN Gave("table") ELSE locks
    /\ owned' = owned \ CleanedUp
    /\ UNCHANGED <<req, table, replies, changed>>

\* The route is unknown: a reply, and the descriptor is closed (Connections).
UnknownRoute ==
    /\ pc = "unknown" /\ pc' = "done"
    /\ send_error(404)
    /\ UNCHANGED <<req, table, locks, owned, changed>>

Next ==
    \/ Parse \/ authenticate_request \/ OpenTable \/ Validate
    \/ AllocateResults \/ AnnSearch \/ SerializeAndSend
    \/ WriteRecord \/ Enqueue
    \/ LockPending \/ QueueDelete \/ BuildClusters \/ SaveIndex
    \/ Cleanup \/ UnknownRoute

Spec == Init /\ [][Next]_vars

--------------------------------------------------------------------------
(* Properties.                                                              *)

\* Types; no lock is given back that is not held.
TypeOK ==
    /\ IsRequest(req)
    /\ pc \in {"parse", "auth", "open", "validate", "search", "ann", "serialize",
               "insert", "enqueue", "queue", "append", "train", "save", "cleanup", "unknown", "done"}
    /\ table \in BOOLEAN
    /\ locks \in [LockNames -> 0 .. 1]
    /\ owned \subseteq {"req", "results", "json_payload", "vec_cpy", "meta_cpy",
                        "trained_clusters", "fp"}
    /\ replies \in Seq({200, 400, 401, 404, 500})
    /\ changed \subseteq {"records", "torn tail", "index", "index file", "index cache",
                          "pending mark"}

\* A delete request that was answered and whose file could be opened.
AppendKept ==
    req.route = "delete-request" /\ "fopen" \notin req.fails /\ replies = <<200>>

\* Whatever way a handler ends, it holds no lock any more, and everything it
\* allocated is freed or handed over; with one exception, the answered delete
\* request, which keeps pending_append_lock and its open file and nothing else.
\* What was handed over, to the insert queue or to the index cache, is no longer
\* the handler's: its clean-up cannot free memory that others now use.
CleanExit ==
    /\ TypeOK
    /\ pc = "done" =>
          /\ locks = [NoLocks EXCEPT !["append"] = IF AppendKept THEN 1 ELSE 0]
          /\ owned = IF AppendKept THEN {"fp"} ELSE {}
    /\ "records" \in changed => owned \cap {"vec_cpy", "meta_cpy"} = {}
    /\ "index" \in changed => "trained_clusters" \notin owned

\* The reasons usage_API_Docs.md (section 3) gives for each status, and for 404
\* the one it does not give: every slot is taken.
Reasons(status) ==
    CASE status = 400 ->
            \/ ~req.json
            \/ req.wrong \cap {"db_name"} # {}
            \/ /\ req.route = "search"
               /\ \/ req.wrong \cap {"top_k", "use_ann", "query_vector"} # {} \/ ~req.numeric
                  \/ ~req.dimension_ok \/ req.top_k = 0 \/ req.top_k > MAX_TOP_K
                  \/ req.use_ann /\ (nprobe = 0 \/ nprobe > MAX_TOP_K \/ ~req.trained)
            \/ /\ req.route = "insert"
               /\ req.wrong \cap {"id", "vector"} # {} \/ ~req.numeric \/ ~req.dimension_ok
            \/ /\ req.route = "train"
               /\ req.wrong \cap {"k", "max_iterations"} # {} \/ req.k = 0 \/ req.k > req.count
            \/ req.route = "delete-request" /\ "id" \in req.wrong
      [] status = 401 -> ~req.authorised
      [] status = 404 ->
            \/ req.route = "unknown"
            \/ req.route # "delete-request" /\ (req.lookup = "missing" \/ req.lookup = "full")
      [] status = 500 -> \/ req.route = "search" /\ req.fails \cap {"malloc", "serialize"} # {}
                         \/ req.route = "insert" /\ "write" \in req.fails
                         \/ req.route = "train" /\ "save" \in req.fails

\* What a refusal may leave behind: the index loaded from disk by a search, the
\* torn tail of a write that failed, the emptied index file of a save that did.
Left(status) ==
    {x \in {"index cache", "torn tail", "index file"} :
        \/ x = "index cache" /\ req.route = "search"
        \/ x = "torn tail" /\ req.route = "insert" /\ status = 500
        \/ x = "index file" /\ req.route = "train" /\ status = 500}

\* Every request is answered exactly once.  A refusal has a reason the
\* documentation gives for its status (or finds every slot taken), and 200 is
\* sent only to a request that no status refuses.  A request that is refused has
\* changed nothing that others see but for what Left names; and none changes
\* anything without a key.
RightAnswer ==
    /\ pc = "done" => Len(replies) = 1
    /\ \A n \in 1 .. Len(replies) :
          IF replies[n] = 200
          THEN req.route # "unknown" /\ \A s \in {400, 401, 404, 500} : ~Reasons(s)
          ELSE Reasons(replies[n]) /\ changed \subseteq Left(replies[n])
    /\ changed # {} => req.authorised
=============================================================================
