------------------------------- MODULE Search -------------------------------
(* One nearest-neighbour search as the server answers it: the probe of the  *)
(* trained clusters (ivf_search, ANN only), the scan of the candidates with *)
(* its bounded insertion sort (flat_search and db_ann_search run the same   *)
(* loop), and the reply.  A vector is abstracted to its distance from the   *)
(* query; a record is known by its place in the array, a stored byte offset *)
(* by the place of the record it points to.                                 *)
EXTENDS Integers, Sequences, FiniteSets, Subsequences

CONSTANTS
    FLT_MAX,    \* the distance no candidate reaches, as is 1e30 in ivf_search
    ReplyRoom,  \* how many results http_response has room for, after the header
    Inputs      \* the searches to run, see IsInput

TableRecord == [id : Nat, dis : 0 .. FLT_MAX, is_deleted : BOOLEAN, metadata : BOOLEAN]
Cluster == [dis : 0 .. FLT_MAX, byte_offsets : Seq(Nat)]

\* A search that handel_client has accepted: top_k and nprobe are positive, and
\* an index, if one is used, has at least one cluster.
IsInput(x) ==
    /\ x = [table |-> x.table, pending_deletes |-> x.pending_deletes,
            top_k |-> x.top_k, use_ann |-> x.use_ann, clusters |-> x.clusters,
            nprobe |-> x.nprobe]
    /\ x.table \in Seq(TableRecord) /\ x.pending_deletes \subseteq Nat
    /\ x.top_k \in Nat \ {0} /\ x.nprobe \in Nat \ {0}
    /\ x.use_ann \in BOOLEAN
    /\ x.clusters \in Seq(Cluster) /\ x.clusters # <<>>

ASSUME SearchAssumption ==
    /\ FLT_MAX \in Nat /\ ReplyRoom \in Nat
    /\ \A x \in Inputs : IsInput(x)

VARIABLES
    input,          \* the table, the request and the index, as locked
    pc,             \* "probe", "collect", "scan", "reply" or "done"
    i,              \* the loop counter
    best_clusters,  \* ivf_search's nprobe slots
    candidates,     \* fetched->ids, or every record of the array
    out_results,    \* the top_k slots
    heap,           \* metadata copies that are allocated
    reply           \* what is sent: the length announced, in results, and the results

vars == <<input, pc, i, best_clusters, candidates, out_results, heap, reply>>

table == input.table
top_k == input.top_k
nprobe == input.nprobe
clusters == input.clusters

\* at is the candidate a slot was filled from, 0 for none; metadata likewise
\* the candidate whose metadata was copied.
EmptyResult == [at |-> 0, id |-> 0, dis |-> FLT_MAX, metadata |-> 0]
EmptyProbe == [cluster_idx |-> 1, dis |-> FLT_MAX]

Init ==
    /\ input \in Inputs
    /\ pc = IF input.use_ann THEN "probe" ELSE "scan"
    /\ i = 1
    /\ best_clusters = [s \in 1 .. input.nprobe |-> EmptyProbe]
    /\ candidates = IF input.use_ann THEN <<>> ELSE [j \in 1 .. Len(input.table) |-> j]
    /\ out_results = [s \in 1 .. input.top_k |-> EmptyResult]
    /\ heap = {} /\ reply = [content_length |-> 0, body |-> <<>>]

--------------------------------------------------------------------------
(* The bounded insertion sort: slots of ascending distance, n of them.      *)

\* Seeded fault: the walk stops before the first slot.
InsertPosEarly(slots, n, dis) ==
    CHOOSE p \in IF n = 1 THEN {1} ELSE 2 .. n :
        /\ \A q \in p .. n - 1 : dis < slots[q].dis
        /\ p > 2 => slots[p - 1].dis <= dis

\* The walk from the last slot towards the front, past every larger distance.
InsertPos(slots, n, dis) ==
    CHOOSE p \in 1 .. n :
        /\ \A q \in p .. n - 1 : dis < slots[q].dis
        /\ p > 1 => slots[p - 1].dis <= dis

\* Seeded fault: the new result replaces the one at its place.
ShiftedOverwrites(slots, n, p, new) == [slots EXCEPT ![p] = new]

Shifted(slots, n, p, new) ==
    [s \in 1 .. n |-> IF s < p THEN slots[s] ELSE IF s = p THEN new ELSE slots[s - 1]]

\* Only a candidate closer than the last slot is inserted.
Inserted(slots, n, new) ==
    IF new.dis < slots[n].dis
    THEN Shifted(slots, n, InsertPos(slots, n, new.dis), new)
    ELSE slots

--------------------------------------------------------------------------
(* ivf_search.                                                              *)

ProbeCluster ==
    /\ pc = "probe" /\ i <= Len(clusters)
    /\ best_clusters' = Inserted(best_clusters, nprobe,
                                 [cluster_idx |-> i, dis |-> clusters[i].dis])
    /\ i' = i + 1
    /\ UNCHANGED <<input, pc, candidates, out_results, heap, reply>>

ProbeEnds ==
    /\ pc = "probe" /\ i > Len(clusters)
    /\ pc' = "collect" /\ i' = 1
    /\ UNCHANGED <<input, best_clusters, candidates, out_results, heap, reply>>

\* The offsets of the chosen clusters, one cluster after the other.
CollectOffsets ==
    /\ pc = "collect" /\ i <= nprobe
    /\ candidates' = candidates \o clusters[best_clusters[i].cluster_idx].byte_offsets
    /\ i' = i + 1
    /\ UNCHANGED <<input, pc, best_clusters, out_results, heap, reply>>

\* Seeded fault: the loop ends one cluster early.
CollectEndsEarly ==
    /\ pc = "collect" /\ i >= nprobe
    /\ pc' = "scan" /\ i' = 1
    /\ UNCHANGED <<input, best_clusters, candidates, out_results, heap, reply>>

CollectEnds ==
    /\ pc = "collect" /\ i > nprobe
    /\ pc' = "scan" /\ i' = 1
    /\ UNCHANGED <<input, best_clusters, candidates, out_results, heap, reply>>

--------------------------------------------------------------------------
(* flat_search; db_ann_search after the probe.                              *)

\* storage_fetch_by_offset: an offset beyond the mapping yields no record.
Fetchable(c) == c \in 1 .. Len(table)

\* Seeded fault: the delete queue is not consulted.
VisibleUnlessDeleted(c) == Fetchable(c) /\ ~table[c].is_deleted

Visible(c) ==
    /\ Fetchable(c)
    /\ ~table[c].is_deleted /\ table[c].id \notin input.pending_deletes

\* Seeded fault: the pointers that moved one slot back are not cleared, so the
\* loop frees every copy it passes.
FreedByMoving(p) == {out_results[s].metadata : s \in p + 1 .. top_k} \ {0}

\* The copy in the last slot is freed when the slots move; when the new result
\* goes into the last slot itself, nothing moves and nothing is freed.
Freed(p) == IF p < top_k THEN {out_results[top_k].metadata} \ {0} ELSE {}

\* Look at candidate i.
ScanCandidate ==
    /\ pc = "scan" /\ i <= Len(candidates)
    /\ i' = i + 1
    /\ LET c == candidates[i] IN
       IF Visible(c)
       THEN LET new == [at |-> i, id |-> table[c].id, dis |-> table[c].dis,
                        metadata |-> IF table[c].metadata THEN i ELSE 0]
            IN  /\ out_results' = Inserted(out_results, top_k, new)
                /\ heap' = IF new.dis < out_results[top_k].dis
                           THEN (heap \ Freed(InsertPos(out_results, top_k, new.dis)))
                                    \cup ({new.metadata} \ {0})
                           ELSE heap
       ELSE UNCHANGED <<out_results, heap>>
    /\ UNCHANGED <<input, pc, best_clusters, candidates, reply>>

ScanEnds ==
    /\ pc = "scan" /\ i > Len(candidates)
    /\ pc' = "reply"
    /\ UNCHANGED <<input, i, best_clusters, candidates, out_results, heap, reply>>

\* Seeded fault: only results with metadata are written.
SerializeWithMetadata ==
    Picked(out_results, {s \in 1 .. top_k : out_results[s].metadata # 0})

\* Slots with id 0 are taken for empty ones.
serialize_search_results == Picked(out_results, {s \in 1 .. top_k : out_results[s].id # 0})

\* The response is printed into a buffer of fixed size: what has no room is cut
\* off, and the length announced is that of the whole.
Sent(json) == SubSeq(json, 1, IF Len(json) < ReplyRoom THEN Len(json) ELSE ReplyRoom)
Response(json) == [content_length |-> Len(json), body |-> Sent(json)]

\* The reply is sent and the copies in the slots are freed.
Reply ==
    /\ pc = "reply" /\ pc' = "done"
    /\ reply' = Response(serialize_search_results)
    /\ heap' = heap \ {out_results[s].metadata : s \in 1 .. top_k}
    /\ UNCHANGED <<input, i, best_clusters, candidates, out_results>>

Next ==
    \/ ProbeCluster \/ ProbeEnds \/ CollectOffsets \/ CollectEnds
    \/ ScanCandidate \/ ScanEnds \/ Reply

Spec == Init /\ [][Next]_vars

--------------------------------------------------------------------------
(* Properties.                                                              *)

TypeOK ==
    /\ IsInput(input) /\ pc \in {"probe", "collect", "scan", "reply", "done"}
    /\ i \in Nat \ {0}
    /\ best_clusters \in [1 .. nprobe -> [cluster_idx : 1 .. Len(clusters),
                                          dis : 0 .. FLT_MAX]]
    /\ candidates \in Seq(Nat)
    /\ out_results \in [1 .. top_k -> [at : Nat, id : Nat, dis : 0 .. FLT_MAX,
                                       metadata : Nat]]
    /\ heap \subseteq Nat \ {0}

Ascending(slots, n) ==
    \A s, t \in 1 .. n : s <= t => slots[s].dis <= slots[t].dis

\* Neither deleted nor queued for deletion.
Searchable(c) ==
    c \in 1 .. Len(table) /\ ~(table[c].is_deleted \/ table[c].id \in input.pending_deletes)

Looked == {c \in 1 .. Len(candidates) : pc \in {"reply", "done"} \/ (pc = "scan" /\ c < i)}
Shown == {out_results[s].at : s \in 1 .. top_k} \ {0}

\* The slots hold, in ascending order and no candidate twice, candidates that
\* were looked at and may be seen, with their own id and distance.
ResultsGenuine ==
    /\ Ascending(out_results, top_k)
    /\ \A s \in 1 .. top_k :
          LET r == out_results[s] IN
          \/ r = EmptyResult
          \/ /\ r.at \in Looked /\ Searchable(candidates[r.at])
             /\ r.id = table[candidates[r.at]].id
             /\ r.dis = table[candidates[r.at]].dis
    /\ \A s, t \in 1 .. top_k :
          s # t /\ out_results[s].at # 0 => out_results[s].at # out_results[t].at

\* No candidate that was looked at and may be seen is left out in favour of a
\* farther one or of an empty slot.
ResultsNearest ==
    \A c \in Looked :
        Searchable(candidates[c]) =>
            \/ c \in Shown
            \/ out_results[top_k].dis <= table[candidates[c]].dis

\* The same for the clusters: a cluster that was compared and not chosen is no
\* closer than any that was.
ProbesNearest ==
    pc # "probe" \/ i > 1 =>
        \A j \in 1 .. Len(clusters) :
            (pc # "probe" \/ j < i) /\ input.use_ann =>
                \/ \E s \in 1 .. nprobe : best_clusters[s].cluster_idx = j
                \/ \A s \in 1 .. nprobe : best_clusters[s].dis <= clusters[j].dis

\* The slots own their metadata: no copy in two slots, none that has been freed
\* (the caller frees every slot's copy).
MetadataOwned ==
    pc # "done" =>
        \A s, t \in 1 .. top_k :
            out_results[s].metadata # 0 =>
                /\ out_results[s].metadata \in heap
                /\ s # t => out_results[s].metadata # out_results[t].metadata

\* The index names every record that is not deleted in one place.
Partitioned ==
    \A c \in 1 .. Len(table) :
        ~table[c].is_deleted =>
            \E j \in 1 .. Len(clusters) : \E q \in 1 .. Len(clusters[j].byte_offsets) :
                /\ clusters[j].byte_offsets[q] = c
                /\ \A k \in 1 .. Len(clusters) : \A r \in 1 .. Len(clusters[k].byte_offsets) :
                      clusters[k].byte_offsets[r] = c => k = j /\ r = q

\* A cluster this far away is never put into a slot, which then still names the
\* first cluster.
NoneTooFar == \A j \in 1 .. Len(clusters) : clusters[j].dis < FLT_MAX

\* test_ivf_search_nprobe_equals_k_returns_everything: with all clusters probed
\* the candidates are those of the exact search, each once.
FullProbeIsExact ==
    (pc \notin {"probe", "collect"} /\ input.use_ann /\ nprobe = Len(clusters)
     /\ NoneTooFar /\ Partitioned) =>
        \A c \in 1 .. Len(table) :
            ~table[c].is_deleted =>
                \E n \in 1 .. Len(candidates) :
                    /\ candidates[n] = c
                    /\ \A m \in 1 .. Len(candidates) : candidates[m] = c => m = n

\* Whatever was found is in the reply, unless its id is 0 or the reply was cut to
\* the buffer, which is then full of results no farther away, and shorter than it
\* announced; nothing else is in it; and no record is there twice, as long as there
\* are no more probes than clusters within reach: ivf_search does not clamp nprobe,
\* and the slots it has no cluster for name the first one.
ReplyComplete ==
    pc = "done" =>
        /\ \A s \in 1 .. top_k :
              out_results[s].at # 0 /\ out_results[s].id # 0 =>
                  \/ \E n \in 1 .. Len(reply.body) : reply.body[n] = out_results[s]
                  \/ /\ Len(reply.body) = ReplyRoom /\ ReplyRoom < reply.content_length
                     /\ \A n \in 1 .. ReplyRoom : reply.body[n].dis <= out_results[s].dis
        /\ \A n \in 1 .. Len(reply.body) : \E s \in 1 .. top_k :
              reply.body[n] = out_results[s] /\ out_results[s].at # 0
        /\ ~input.use_ann \/ (nprobe <= Len(clusters) /\ NoneTooFar /\ Partitioned) =>
              \A m, n \in 1 .. Len(reply.body) :
                  m # n => candidates[reply.body[m].at] # candidates[reply.body[n].at]
=============================================================================
