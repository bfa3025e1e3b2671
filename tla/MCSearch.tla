------------------------------ MODULE MCSearch ------------------------------
(* The searches TLC runs: every table of up to three records, and for ANN    *)
(* every way to spread three records over two clusters, with one offset that *)
(* the mapping does not reach, a cluster out of reach, and up to three       *)
(* probes; and ids that are 0.                                               *)
EXTENDS Search

Records(ids, dists, metas) ==
    [id : ids, dis : dists, is_deleted : BOOLEAN, metadata : metas]

Ascends(s) == \A a, b \in DOMAIN s : a < b => s[a] < s[b]

OffsetLists == {s \in UNION {[1 .. n -> 1 .. 4] : n \in 0 .. 3} : Ascends(s)}

ClusterPairs ==
    {<<a, b>> \in [dis : 1 .. 2, byte_offsets : OffsetLists] \X
                  [dis : {1, 2, FLT_MAX}, byte_offsets : OffsetLists] :
        (a.dis = 2 => b.dis = 1) /\ \A m \in DOMAIN a.byte_offsets, n \in DOMAIN b.byte_offsets :
            a.byte_offsets[m] # b.byte_offsets[n]}

NoClusters == <<[dis |-> 0, byte_offsets |-> <<>>]>>

MCFlat ==
    {[table |-> t, pending_deletes |-> p, top_k |-> k, use_ann |-> FALSE,
      clusters |-> NoClusters, nprobe |-> 1] :
        t \in UNION {[1 .. n -> Records({1, 2}, {1, 2, 4}, {TRUE})] : n \in 0 .. 3},
        p \in {{}, {1}}, k \in 1 .. 3}

MCAnn ==
    {[table |-> t, pending_deletes |-> {2}, top_k |-> k, use_ann |-> TRUE,
      clusters |-> c, nprobe |-> n] :
        t \in {u \in [1 .. 3 -> Records({1, 2}, {1, 2}, {TRUE, FALSE})] :
                  \A j \in 1 .. 3 : (u[j].id = 2) = (j = 3) /\ u[j].metadata = (j # 2)
                                    /\ (u[j].is_deleted => j = 1)},
        k \in 1 .. 2, c \in ClusterPairs, n \in 1 .. 3}

MCZero ==
    {[table |-> t, pending_deletes |-> {}, top_k |-> 2, use_ann |-> FALSE,
      clusters |-> NoClusters, nprobe |-> 1] :
        t \in [1 .. 2 -> Records({0, 1}, {1, 2}, {FALSE})]}

MCInputs == MCFlat \cup MCAnn \cup MCZero
=============================================================================
