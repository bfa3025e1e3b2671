------------------------------- MODULE Kmeans -------------------------------
(* kmeans_build: the training of the IVF index.  Vectors are points on a     *)
(* line and the metric is the Euclidean one; coordinates are multiples of    *)
(* Scale, which every possible cluster size divides, so that the mean of a   *)
(* cluster is exact and epsilon is 0.                                        *)
EXTENDS Integers, Sequences, FiniteSets, Subsequences

CONSTANTS
    Scale,      \* a common multiple of the cluster sizes
    Inputs      \* the trainings to run, see IsInput

\* What handel_client lets through: 0 < k <= count; deleted records count.
IsInput(x) ==
    /\ x = [vector |-> x.vector, is_deleted |-> x.is_deleted,
            byte_offset |-> x.byte_offset, k |-> x.k, max_iterations |-> x.max_iterations]
    /\ x.vector \in Seq(Int)
    /\ x.is_deleted \in [1 .. Len(x.vector) -> BOOLEAN]
    /\ x.byte_offset \in [1 .. Len(x.vector) -> Nat]
    /\ x.k \in 1 .. Len(x.vector) /\ x.max_iterations \in Nat

\* Every mean is exact.
IsExact(x) ==
    \A n \in 1 .. Len(x.vector) : Scale % n = 0 /\ x.vector[n] % Scale = 0

ASSUME KmeansAssumption ==
    /\ Scale \in Nat \ {0}
    /\ \A x \in Inputs : IsInput(x) /\ IsExact(x)

VARIABLES
    input,          \* the records, k and max_iterations
    pc,             \* "assign", "mean", "compare", "map" or "done"
    ittrate,
    centroid_vector, old_centroids,
    record_index,   \* the records of each cluster
    byte_offsets    \* the same as disk offsets

vars == <<input, pc, ittrate, centroid_vector, old_centroids, record_index, byte_offsets>>

count == Len(input.vector)
k == input.k
Live == {r \in 1 .. count : ~input.is_deleted[r]}

\* Each cluster starts at a record picked at random, deleted ones included.
Init ==
    /\ input \in Inputs
    /\ \E pick \in [1 .. input.k -> 1 .. Len(input.vector)] :
          centroid_vector = [j \in 1 .. input.k |-> input.vector[pick[j]]]
    /\ old_centroids = centroid_vector
    /\ pc = "assign" /\ ittrate = 0
    /\ record_index = [j \in 1 .. input.k |-> <<>>]
    /\ byte_offsets = [j \in 1 .. input.k |-> <<>>]

\* The Euclidean distance on a line.
euclidean(a, b) == IF a < b THEN b - a ELSE a - b

\* Seeded fault: the distance is not kept, so the last cluster below 1e30 wins.
LastCompared(r) == k

\* The nearest cluster; of equally near ones the first.
best_cluster(r) ==
    CHOOSE j \in 1 .. k :
        /\ \A m \in 1 .. k : euclidean(centroid_vector[j], input.vector[r])
                                <= euclidean(centroid_vector[m], input.vector[r])
        /\ \A m \in 1 .. j - 1 : euclidean(centroid_vector[j], input.vector[r])
                                < euclidean(centroid_vector[m], input.vector[r])

\* Seeded fault: the counts are not reset before the pass.
AssignOnTop ==
    /\ pc = "assign" /\ pc' = "mean"
    /\ ittrate' = ittrate + 1
    /\ record_index' = [j \in 1 .. k |->
          record_index[j] \o
              Picked([r \in 1 .. count |-> r], {r \in Live : best_cluster(r) = j})]
    /\ UNCHANGED <<input, centroid_vector, old_centroids, byte_offsets>>

\* Every live record goes to one cluster.
Assign ==
    /\ pc = "assign" /\ pc' = "mean"
    /\ ittrate' = ittrate + 1
    /\ record_index' = [j \in 1 .. k |->
          Picked([r \in 1 .. count |-> r], {r \in Live : best_cluster(r) = j})]
    /\ UNCHANGED <<input, centroid_vector, old_centroids, byte_offsets>>

ClusterSum(j) ==
    LET n == Len(record_index[j])
    IN  RunningTotal([m \in 1 .. n |-> input.vector[record_index[j][m]]])[n + 1]

\* Seeded fault: the mean is taken over all records.
MeanOverAll(j) ==
    IF record_index[j] = <<>> THEN centroid_vector[j]
    ELSE ClusterSum(j) \div count

\* The mean of the cluster; an empty cluster stays where it is.
Mean(j) ==
    IF record_index[j] = <<>> THEN centroid_vector[j]
    ELSE ClusterSum(j) \div Len(record_index[j])

Recompute ==
    /\ pc = "mean" /\ pc' = "compare"
    /\ centroid_vector' = [j \in 1 .. k |-> Mean(j)]
    /\ UNCHANGED <<input, ittrate, old_centroids, record_index, byte_offsets>>

\* Seeded fault: the old centroids are not replaced, so they always differ.
AgainFromFirst ==
    /\ pc = "compare" /\ centroid_vector # old_centroids
    /\ ittrate < input.max_iterations
    /\ pc' = "assign"
    /\ UNCHANGED <<input, ittrate, centroid_vector, old_centroids, record_index, byte_offsets>>

\* A centroid has moved and the cap is not reached.
Again ==
    /\ pc = "compare" /\ centroid_vector # old_centroids
    /\ ittrate < input.max_iterations
    /\ old_centroids' = centroid_vector /\ pc' = "assign"
    /\ UNCHANGED <<input, ittrate, centroid_vector, record_index, byte_offsets>>

\* No centroid has moved, or the cap is reached.
Settle ==
    /\ pc = "compare"
    /\ centroid_vector = old_centroids \/ ittrate >= input.max_iterations
    /\ pc' = "map"
    /\ UNCHANGED <<input, ittrate, centroid_vector, old_centroids, record_index, byte_offsets>>

MapOffsets ==
    /\ pc = "map" /\ pc' = "done"
    /\ byte_offsets' = [j \in 1 .. k |->
          [n \in 1 .. Len(record_index[j]) |-> input.byte_offset[record_index[j][n]]]]
    /\ UNCHANGED <<input, ittrate, centroid_vector, old_centroids, record_index>>

Next == Assign \/ Recompute \/ Again \/ Settle \/ MapOffsets

Spec == Init /\ [][Next]_vars

\* A single thread runs the training to its end.
FairSpec == Spec /\ WF_vars(Next)

--------------------------------------------------------------------------
(* Properties.                                                              *)

TypeOK ==
    /\ IsInput(input) /\ pc \in {"assign", "mean", "compare", "map", "done"}
    /\ ittrate \in Nat /\ (ittrate <= input.max_iterations \/ ittrate <= 1)
    /\ centroid_vector \in [1 .. k -> Int] /\ old_centroids \in [1 .. k -> Int]
    /\ record_index \in [1 .. k -> Seq(1 .. count)]
    /\ byte_offsets \in [1 .. k -> Seq(Nat)]

\* test_every_point_gets_assigned_exactly_once: after every pass each live
\* record is in exactly one cluster, at one place, and no deleted record is; at
\* the end the cluster lists the record's disk offset at that place.  There are
\* at most max_iterations passes (TypeOK), "a hard cap" in usage_API_Docs.md,
\* but always a first one.
EveryRecordOnce ==
    /\ TypeOK
    /\ pc # "assign" =>
        /\ \A r \in Live :
              \E j \in 1 .. k, n \in 1 .. count :
                  /\ n <= Len(record_index[j]) /\ record_index[j][n] = r
                  /\ pc = "done" => byte_offsets[j][n] = input.byte_offset[r]
                  /\ \A j2 \in 1 .. k, n2 \in 1 .. count :
                        n2 <= Len(record_index[j2]) /\ record_index[j2][n2] = r
                            => j2 = j /\ n2 = n
        /\ \A j \in 1 .. k : \A n \in 1 .. Len(record_index[j]) : record_index[j][n] \in Live

\* A training that stopped because nothing moved left every record with the
\* centroid nearest to it, which is what makes a small nprobe sensible.
NearestWhenSettled ==
    pc \in {"map", "done"} /\ centroid_vector = old_centroids =>
        \A j \in 1 .. k : \A n \in 1 .. Len(record_index[j]) :
            \A m \in 1 .. k :
                euclidean(centroid_vector[j], input.vector[record_index[j][n]])
                    <= euclidean(centroid_vector[m], input.vector[record_index[j][n]])

\* The sum over the live records of the squared distance to the nearest of the
\* given centroids.
Cost(centroids) ==
    LET square(r, j) == (input.vector[r] - centroids[j]) * (input.vector[r] - centroids[j])
        nearest(r) == CHOOSE j \in 1 .. k : \A m \in 1 .. k : square(r, j) <= square(r, m)
    IN  RunningTotal([r \in 1 .. count |->
            IF r \in Live THEN square(r, nearest(r)) ELSE 0])[count + 1]

\* No pass makes the clustering worse.
CostNeverRises == [][Cost(centroid_vector') <= Cost(centroid_vector)]_vars

\* A training whose cap leaves room for every clustering there is stops because
\* nothing moved, never because of the cap: no clustering comes back.
SettlesByItself ==
    input.max_iterations > k ^ count =>
        <>(pc = "done" /\ centroid_vector = old_centroids)
=============================================================================
