------------------------------ MODULE MCKmeans ------------------------------
(* Trainings over up to four points, none, one or all of them deleted.       *)
EXTENDS Kmeans

Ascends(s) == \A a, b \in DOMAIN s : a < b => s[a] <= s[b]

MCInputs ==
    {[vector |-> v, is_deleted |-> d, byte_offset |-> [r \in 1 .. Len(v) |-> 40 * (Len(v) - r)],
      k |-> kk, max_iterations |-> m] :
        v \in {u \in [1 .. 4 -> {0, 12, 36, 84}] : Ascends(u)},
        d \in {[r \in 1 .. 4 |-> r = x] : x \in 0 .. 4} \cup {[r \in 1 .. 4 |-> TRUE]},
        kk \in 1 .. 3, m \in {0, 2, 100}}
=============================================================================
