----------------------------- MODULE MCHandlers -----------------------------
(* Requests on each route with at most one wrong field and at most one       *)
(* failure, in every combination with the other things that can be refused.  *)
EXTENDS Handlers

Base == [route |-> "unknown", json |-> TRUE, wrong |-> {}, numeric |-> TRUE,
         authorised |-> TRUE, lookup |-> "found", append_free |-> TRUE,
         dimension_ok |-> TRUE, top_k |-> 1,
         use_ann |-> FALSE, nprobe |-> 1, k |-> 1, count |-> 1, trained |-> TRUE,
         index_loaded |-> TRUE, fails |-> {}]

AtMostOne(S) == {{}} \cup {{x} : x \in S}

\* What every route but the unknown one looks at.
Common(x, fields, failures) ==
    {[x EXCEPT !.json = j, !.wrong = w, !.authorised = a, !.lookup = f, !.fails = e] :
        j \in BOOLEAN, w \in AtMostOne(fields), a \in BOOLEAN,
        f \in {"found", "missing", "full"},
        e \in AtMostOne(failures)}

Searches ==
    {[Base EXCEPT !.route = "search", !.top_k = t, !.numeric = n, !.dimension_ok = d] :
        t \in {0, MAX_TOP_K, MAX_TOP_K + 1}, n \in BOOLEAN, d \in BOOLEAN}

AnnSearches ==
    {[x EXCEPT !.use_ann = TRUE, !.nprobe = p, !.trained = tr, !.index_loaded = l] :
        x \in {y \in Searches : y.top_k = MAX_TOP_K}, p \in {0, 1, MAX_TOP_K + 1}, tr \in BOOLEAN, l \in BOOLEAN}

Inserts ==
    {[Base EXCEPT !.route = "insert", !.numeric = n, !.dimension_ok = d] :
        n \in BOOLEAN, d \in BOOLEAN}

Trains == {[Base EXCEPT !.route = "train", !.k = k, !.count = c] : k \in 0 .. 2, c \in 0 .. 2}

MCRequests ==
    {Base}
    \cup UNION {Common(x, {"db_name", "top_k", "use_ann", "query_vector", "nprobe"},
                       {"malloc", "serialize"}) : x \in Searches \cup AnnSearches}
    \cup UNION {Common(x, {"db_name", "id", "vector", "metadata"}, {"write"}) : x \in Inserts}
    \cup UNION {Common(x, {"db_name", "k", "max_iterations"}, {"save"}) : x \in Trains}
    \cup UNION {Common([Base EXCEPT !.route = "delete-request", !.append_free = b],
                       {"db_name", "id"}, {"fopen"}) : b \in BOOLEAN}
=============================================================================
