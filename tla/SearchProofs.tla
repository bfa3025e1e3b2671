---------------------------- MODULE SearchProofs ----------------------------
(* The results of a search, for every table, index, top_k and nprobe.  The   *)
(* heart is the bounded insertion sort: InsertedSlots says what one insertion *)
(* does to the slots, whatever they hold.  The last part is about the         *)
(* training of the index that an ANN search reads, the instance Training of   *)
(* Kmeans.                                                                    *)
EXTENDS Search, SubsequencesProofs

--------------------------------------------------------------------------
(* The sort.                                                                *)

\* Slots that hold records with a distance, in ascending order.
Slots(slots, n) ==
    /\ n \in Nat \ {0}
    /\ \A s \in 1 .. n : slots[s].dis \in Int
    /\ Ascending(slots, n)

\* The walk of the sort ends at a place that keeps the order.
LEMMA InsertPosFound ==
    ASSUME NEW slots, NEW n, NEW dis \in Int, Slots(slots, n), dis < slots[n].dis
    PROVE  LET p == InsertPos(slots, n, dis) IN
           /\ p \in 1 .. n
           /\ \A q \in p .. n : dis < slots[q].dis
           /\ \A q \in 1 .. p - 1 : slots[q].dis <= dis
<1> USE DEF Slots
<1> DEFINE Larger == {q \in 1 .. n : dis < slots[q].dis}
<1>1. PICK m \in Larger : \A q \in Larger : m <= q
  <2>1. Larger \in SUBSET Nat /\ n \in Larger
    OBVIOUS
  <2> HIDE DEF Larger
  <2> QED BY <2>1, LeastNatural
<1>2. m \in 1 .. n /\ \A q \in m .. n : dis < slots[q].dis
  BY <1>1 DEF Ascending
<1>3. m > 1 => slots[m - 1].dis <= dis
  <2> SUFFICES ASSUME m > 1 PROVE slots[m - 1].dis <= dis
    OBVIOUS
  <2>1. m - 1 \in 1 .. n /\ m - 1 \notin Larger
    BY <1>1, <1>2
  <2> QED BY <2>1
<1> DEFINE p == InsertPos(slots, n, dis)
<1>4. /\ p \in 1 .. n /\ \A q \in p .. n - 1 : dis < slots[q].dis
      /\ p > 1 => slots[p - 1].dis <= dis
  <2>1. \A q \in m .. n - 1 : dis < slots[q].dis
    BY <1>2
  <2> QED BY <1>2, <1>3, <2>1 DEF InsertPos
<1> HIDE DEF p
<1>5. \A q \in 1 .. p - 1 : slots[q].dis <= dis
  BY <1>4 DEF Ascending
<1>6. \A q \in p .. n : dis < slots[q].dis
  BY <1>4
<1> QED BY <1>4, <1>5, <1>6 DEF p

\* What one insertion at p does: the new record is in, every other one is a
\* slot's old one, only the last is lost, and the order is kept.
InsertedAt(p, slots, n, new, out) ==
    /\ p \in 1 .. n /\ DOMAIN out = 1 .. n /\ out[p] = new
    /\ \A s \in 1 .. p - 1 : out[s] = slots[s]
    /\ \A s \in p + 1 .. n : out[s] = slots[s - 1]
    /\ Slots(out, n)
    /\ \A s \in 1 .. n : out[s].dis <= slots[n].dis

\* Inserted does that.
LEMMA InsertedSlots ==
    ASSUME NEW slots, NEW n, NEW new, new.dis \in Int, Slots(slots, n),
           new.dis < slots[n].dis
    PROVE  InsertedAt(InsertPos(slots, n, new.dis), slots, n, new, Inserted(slots, n, new))
<1> DEFINE p == InsertPos(slots, n, new.dis)
<1> DEFINE out == Inserted(slots, n, new)
<1>1. /\ p \in 1 .. n
      /\ \A q \in p .. n : new.dis < slots[q].dis
      /\ \A q \in 1 .. p - 1 : slots[q].dis <= new.dis
  BY InsertPosFound
<1>2. out = [s \in 1 .. n |-> IF s < p THEN slots[s] ELSE IF s = p THEN new ELSE slots[s - 1]]
  BY DEF Inserted, Shifted
<1> HIDE DEF p, out
<1>3. /\ n \in Nat \ {0} /\ Ascending(slots, n)
      /\ \A s \in 1 .. n : slots[s].dis \in Int
  BY DEF Slots
<1>4. /\ DOMAIN out = 1 .. n /\ out[p] = new
      /\ \A s \in 1 .. p - 1 : out[s] = slots[s]
      /\ \A s \in p + 1 .. n : out[s] = slots[s - 1]
  BY <1>1, <1>2, <1>3
<1>5. \A s \in 1 .. n : out[s].dis \in Int /\ out[s].dis <= slots[n].dis
  <2> SUFFICES ASSUME NEW s \in 1 .. n
               PROVE  out[s].dis \in Int /\ out[s].dis <= slots[n].dis
    OBVIOUS
  <2>1. CASE s < p
    <3>1. s \in 1 .. p - 1 /\ n \in 1 .. n /\ s <= n
      BY <2>1, <1>1, <1>3
    <3> QED BY <3>1, <1>3, <1>4 DEF Ascending
  <2>2. CASE s = p
    BY <2>2, <1>3, <1>4
  <2>3. CASE s > p
    <3>1. s \in p + 1 .. n /\ s - 1 \in 1 .. n /\ n \in 1 .. n /\ s - 1 <= n
      BY <2>3, <1>1, <1>3
    <3> QED BY <3>1, <1>3, <1>4 DEF Ascending
  <2> QED BY <2>1, <2>2, <2>3, <1>1, <1>3
<1>6. Ascending(out, n)
  <2> SUFFICES ASSUME NEW s \in 1 .. n, NEW t \in 1 .. n, s <= t
               PROVE  out[s].dis <= out[t].dis
    BY DEF Ascending
  <2>1. CASE t < p
    <3>1. s \in 1 .. p - 1 /\ t \in 1 .. p - 1
      BY <2>1, <1>1, <1>3
    <3> QED BY <3>1, <1>3, <1>4 DEF Ascending
  <2>2. CASE t = p
    BY <2>2, <1>1, <1>3, <1>4
  <2>3. CASE t > p
    <3>1. t \in p + 1 .. n /\ t - 1 \in p .. n
      BY <2>3, <1>1, <1>3
    <3>2. out[t].dis = slots[t - 1].dis /\ new.dis < slots[t - 1].dis
      BY <3>1, <1>1, <1>4
    <3>3. CASE s < p
      <4>1. s \in 1 .. p - 1
        BY <3>3, <1>1, <1>3
      <4> QED BY <4>1, <3>1, <3>2, <1>1, <1>3, <1>4
    <3>4. CASE s = p
      BY <3>4, <3>1, <3>2, <1>1, <1>3, <1>4
    <3>5. CASE s > p
      <4>1. s \in p + 1 .. n /\ s - 1 \in 1 .. n /\ t - 1 \in 1 .. n /\ s - 1 <= t - 1
        BY <3>5, <3>1, <1>1, <1>3
      <4> QED BY <4>1, <3>2, <1>3, <1>4 DEF Ascending
    <3> QED BY <3>3, <3>4, <3>5, <1>1, <1>3
  <2> QED BY <2>1, <2>2, <2>3, <1>1, <1>3
<1> QED BY <1>1, <1>3, <1>4, <1>5, <1>6 DEF p, out, Slots, InsertedAt
--------------------------------------------------------------------------
(* The invariant.                                                           *)

\* A cluster that was compared is in a slot with its distance, or no slot is
\* farther than it is.
ProbeInv ==
    /\ Ascending(best_clusters, nprobe)
    /\ input.use_ann =>
        \A j \in 1 .. Len(clusters) :
            pc # "probe" \/ j < i =>
                \/ \E s \in 1 .. nprobe :
                      best_clusters[s] = [cluster_idx |-> j, dis |-> clusters[j].dis]
                \/ best_clusters[nprobe].dis <= clusters[j].dis

\* The copy a slot holds is that of its own candidate, and is allocated.
CopyInv ==
    \A s \in 1 .. top_k :
        /\ out_results[s].metadata \in {0, out_results[s].at}
        /\ pc # "done" /\ out_results[s].metadata # 0 => out_results[s].metadata \in heap

SInv == TypeOK /\ ResultsGenuine /\ ResultsNearest /\ ProbeInv /\ CopyInv

\* The bounds the steps need, and that the slots are what the sort expects.
LEMMA SlotsOK ==
    ASSUME TypeOK, ResultsGenuine, ProbeInv
    PROVE  /\ Slots(out_results, top_k) /\ Slots(best_clusters, nprobe)
           /\ top_k \in Nat \ {0} /\ nprobe \in Nat \ {0} /\ FLT_MAX \in Nat
           /\ table \in Seq(TableRecord) /\ clusters \in Seq(Cluster)
           /\ Len(table) \in Nat /\ Len(clusters) \in Nat
           /\ top_k \in 1 .. top_k /\ nprobe \in 1 .. nprobe
<1>1. FLT_MAX \in Nat /\ 0 .. FLT_MAX \subseteq Int
  BY SearchAssumption
<1>2. /\ top_k \in Nat \ {0} /\ nprobe \in Nat \ {0}
      /\ table \in Seq(TableRecord) /\ clusters \in Seq(Cluster)
  BY DEF TypeOK, IsInput, top_k, nprobe, table, clusters
<1>3. Slots(out_results, top_k)
  BY <1>1, <1>2 DEF TypeOK, ResultsGenuine, Slots
<1>4. Slots(best_clusters, nprobe)
  BY <1>1, <1>2 DEF TypeOK, ProbeInv, Slots
<1> QED BY <1>1, <1>2, <1>3, <1>4

\* A cluster and a record have a distance that no slot's initial one is below.
LEMMA ClusterOK ==
    ASSUME TypeOK
    PROVE  /\ \A j \in 1 .. Len(clusters) :
                 clusters[j] \in Cluster /\ clusters[j].dis \in 0 .. FLT_MAX
                 /\ clusters[j].dis \in Int /\ clusters[j].byte_offsets \in Seq(Nat)
           /\ \A c \in 1 .. Len(table) :
                 /\ table[c].dis \in 0 .. FLT_MAX /\ table[c].dis \in Int
                 /\ table[c].id \in Nat
<1>1. clusters \in Seq(Cluster) /\ table \in Seq(TableRecord)
  BY DEF TypeOK, IsInput, clusters, table
<1>2. \A j \in 1 .. Len(clusters) : clusters[j] \in Cluster
  BY <1>1
<1>3. \A c \in 1 .. Len(table) : table[c] \in TableRecord
  BY <1>1
<1>4. 0 .. FLT_MAX \subseteq Int
  BY SearchAssumption
<1> QED BY <1>2, <1>3, <1>4 DEF Cluster, TableRecord

\* Steps that leave the results and what was looked at alone keep what the
\* results say.
LEMMA ResultsKept ==
    ASSUME ResultsGenuine, ResultsNearest, Looked' = Looked,
           UNCHANGED <<input, candidates, out_results>>
    PROVE  ResultsGenuine' /\ ResultsNearest'
BY DEF ResultsGenuine, ResultsNearest, Searchable, Shown, Ascending, table, top_k, EmptyResult

\* Likewise for the probe, once it is over.
LEMMA ProbeKept ==
    ASSUME ProbeInv, UNCHANGED <<input, best_clusters>>, pc # "probe", pc' # "probe"
    PROVE  ProbeInv'
BY DEF ProbeInv, Ascending, nprobe, clusters

\* The initial states.
LEMMA InitInv == Init => SInv
<1> SUFFICES ASSUME Init PROVE SInv
  OBVIOUS
<1>1. IsInput(input)
  BY SearchAssumption DEF Init
<1>2. /\ FLT_MAX \in Nat /\ top_k \in Nat \ {0} /\ nprobe \in Nat \ {0}
      /\ table \in Seq(TableRecord) /\ clusters \in Seq(Cluster) /\ clusters # <<>>
  BY <1>1, SearchAssumption DEF IsInput, top_k, nprobe, table, clusters
<1>3. candidates \in Seq(Nat)
  BY <1>2 DEF Init, table
<1>4. TypeOK
  <2>1. EmptyProbe \in [cluster_idx : 1 .. Len(clusters), dis : 0 .. FLT_MAX]
    BY <1>2 DEF EmptyProbe
  <2>2. EmptyResult \in [at : Nat, id : Nat, dis : 0 .. FLT_MAX, metadata : Nat]
    BY <1>2 DEF EmptyResult
  <2> QED BY <1>1, <1>2, <1>3, <2>1, <2>2 DEF Init, TypeOK, top_k, nprobe
<1>5. \A s \in 1 .. top_k : out_results[s] = EmptyResult
  BY DEF Init, top_k
<1>6. Looked = {}
  BY <1>3 DEF Init, Looked
<1>7. ResultsGenuine /\ ResultsNearest /\ CopyInv
  <2>1. EmptyResult.at = 0 /\ EmptyResult.metadata = 0 /\ EmptyResult.dis = FLT_MAX
    BY DEF EmptyResult
  <2>2. FLT_MAX <= FLT_MAX
    BY <1>2
  <2> QED BY <1>5, <1>6, <2>1, <2>2 DEF ResultsGenuine, ResultsNearest, CopyInv, Ascending
<1>8. ProbeInv
  <2>1. \A s \in 1 .. nprobe : best_clusters[s].dis = FLT_MAX
    BY DEF Init, nprobe, EmptyProbe
  <2>2. FLT_MAX <= FLT_MAX
    BY <1>2
  <2>3. input.use_ann => pc = "probe" /\ \A j \in 1 .. Len(clusters) : ~(j < i)
    BY <1>2 DEF Init
  <2> QED BY <2>1, <2>2, <2>3 DEF ProbeInv, Ascending
<1> QED BY <1>4, <1>7, <1>8 DEF SInv

\* One cluster compared by ivf_search.
LEMMA ProbeStep == ASSUME SInv, ProbeCluster PROVE SInv'
<1> DEFINE new == [cluster_idx |-> i, dis |-> clusters[i].dis]
<1> DEFINE p == InsertPos(best_clusters, nprobe, new.dis)
<1>1. TypeOK /\ ProbeInv /\ ResultsGenuine /\ ResultsNearest /\ CopyInv
  BY DEF SInv
<1>2. /\ Slots(best_clusters, nprobe) /\ nprobe \in Nat \ {0} /\ FLT_MAX \in Nat
      /\ clusters \in Seq(Cluster) /\ Len(clusters) \in Nat /\ nprobe \in 1 .. nprobe
  BY <1>1, SlotsOK
<1>3. /\ pc = "probe" /\ pc' = "probe" /\ i' = i + 1 /\ i \in 1 .. Len(clusters)
      /\ input' = input /\ candidates' = candidates /\ out_results' = out_results
      /\ heap' = heap /\ best_clusters' = Inserted(best_clusters, nprobe, new)
  BY <1>1, <1>2 DEF ProbeCluster, TypeOK
<1>4. clusters[i] \in Cluster /\ clusters[i].dis \in 0 .. FLT_MAX /\ clusters[i].dis \in Int
  BY <1>1, <1>3, ClusterOK
<1>5. /\ clusters' = clusters /\ nprobe' = nprobe /\ top_k' = top_k /\ table' = table
  BY <1>3 DEF clusters, nprobe, top_k, table
<1>6. \/ /\ ~(new.dis < best_clusters[nprobe].dis) /\ best_clusters' = best_clusters
      \/ /\ new.dis < best_clusters[nprobe].dis
         /\ InsertedAt(p, best_clusters, nprobe, new, best_clusters')
  <2>1. CASE ~(new.dis < best_clusters[nprobe].dis)
    BY <2>1, <1>3 DEF Inserted
  <2>2. CASE new.dis < best_clusters[nprobe].dis
    <3>1. new.dis \in Int
      BY <1>4
    <3>2. InsertedAt(p, best_clusters, nprobe, new, Inserted(best_clusters, nprobe, new))
      <4> HIDE DEF new
      <4> QED BY <2>2, <3>1, <1>2, InsertedSlots
    <3> HIDE DEF new, p
    <3> QED BY <2>2, <3>2, <1>3
  <2> QED BY <2>1, <2>2
<1>7. /\ new.dis = clusters[i].dis
      /\ new \in [cluster_idx : 1 .. Len(clusters), dis : 0 .. FLT_MAX]
  BY <1>3, <1>4
<1>8. /\ best_clusters \in [1 .. nprobe -> [cluster_idx : 1 .. Len(clusters), dis : 0 .. FLT_MAX]]
      /\ \A s \in 1 .. nprobe : best_clusters[s].dis \in Int
  BY <1>1, <1>2 DEF TypeOK, Slots
<1> HIDE DEF new, p
<1> USE DEF InsertedAt
<1>9. best_clusters' \in [1 .. nprobe -> [cluster_idx : 1 .. Len(clusters), dis : 0 .. FLT_MAX]]
  <2>1. CASE best_clusters' = best_clusters
    BY <2>1, <1>8
  <2>2. CASE new.dis < best_clusters[nprobe].dis
    <3>1. \A s \in 1 .. nprobe : best_clusters'[s] \in
                [cluster_idx : 1 .. Len(clusters), dis : 0 .. FLT_MAX]
      <4> SUFFICES ASSUME NEW s \in 1 .. nprobe
                   PROVE  best_clusters'[s] \in [cluster_idx : 1 .. Len(clusters), dis : 0 .. FLT_MAX]
        OBVIOUS
      <4>1. CASE s \in 1 .. p - 1
        BY <4>1, <2>2, <1>6, <1>8
      <4>2. CASE s = p
        BY <4>2, <2>2, <1>6, <1>7
      <4>3. CASE s \in p + 1 .. nprobe
        <5>1. s - 1 \in 1 .. nprobe
          BY <4>3, <2>2, <1>2, <1>6
        <5> QED BY <4>3, <5>1, <2>2, <1>6, <1>8
      <4> QED BY <4>1, <4>2, <4>3, <2>2, <1>2, <1>6
    <3>2. best_clusters' = [s \in 1 .. nprobe |-> best_clusters'[s]]
      BY <2>2, <1>3 DEF Inserted, Shifted
    <3> QED BY <3>1, <3>2
  <2> QED BY <1>6, <2>1, <2>2
<1>10. TypeOK'
  BY <1>1, <1>3, <1>5, <1>9 DEF TypeOK
<1>11. ProbeInv'
  <2>1. Ascending(best_clusters, nprobe)'
    BY <1>1, <1>5, <1>6 DEF ProbeInv, Slots, Ascending
  <2>2. ASSUME input.use_ann, NEW j \in 1 .. Len(clusters), j < i + 1
        PROVE  \/ \E s \in 1 .. nprobe :
                     best_clusters'[s] = [cluster_idx |-> j, dis |-> clusters[j].dis]
               \/ best_clusters'[nprobe].dis <= clusters[j].dis
    <3>1. CASE j = i
      <4>1. CASE new.dis < best_clusters[nprobe].dis
        BY <3>1, <4>1, <1>6 DEF new
      <4>2. CASE ~(new.dis < best_clusters[nprobe].dis)
        BY <3>1, <4>2, <1>2, <1>4, <1>6, <1>7, <1>8
      <4> QED BY <4>1, <4>2
    <3>2. CASE j # i
      <4>1. j < i
        BY <3>2, <2>2, <1>3
      <4> DEFINE mine == [cluster_idx |-> j, dis |-> clusters[j].dis]
      <4>2. \/ \E s \in 1 .. nprobe : best_clusters[s] = mine
            \/ best_clusters[nprobe].dis <= clusters[j].dis
        BY <4>1, <2>2, <1>1, <1>3 DEF ProbeInv
      <4>3. clusters[j].dis \in Int
        BY <1>1, ClusterOK
      <4>4. CASE best_clusters' = best_clusters
        BY <4>2, <4>4
      <4>5. CASE new.dis < best_clusters[nprobe].dis
        <5>1. best_clusters'[nprobe].dis \in Int
          BY <4>5, <1>2, <1>6 DEF Slots
        <5>2. CASE best_clusters[nprobe].dis <= clusters[j].dis
          <6>1. best_clusters'[nprobe].dis <= best_clusters[nprobe].dis
            BY <4>5, <1>2, <1>6
          <6>2. best_clusters[nprobe].dis \in Int
            BY <1>2, <1>8
          <6> QED BY <6>1, <6>2, <5>1, <5>2, <4>3
        <5>3. ASSUME NEW s \in 1 .. nprobe, best_clusters[s] = mine
              PROVE  \/ \E t \in 1 .. nprobe : best_clusters'[t] = mine
                     \/ best_clusters'[nprobe].dis <= clusters[j].dis
          <6>1. CASE s = nprobe
            <7>1. best_clusters[nprobe].dis = clusters[j].dis
              BY <5>3, <6>1
            <7> QED BY <7>1, <4>5, <1>2, <1>6
          <6>2. CASE s \in 1 .. p - 1
            BY <6>2, <5>3, <4>5, <1>6
          <6>3. CASE s >= p /\ s # nprobe
            <7>1. s + 1 \in p + 1 .. nprobe /\ s + 1 \in 1 .. nprobe /\ (s + 1) - 1 = s
              BY <6>3, <4>5, <1>2, <1>6
            <7>2. best_clusters'[s + 1] = mine
              BY <7>1, <5>3, <4>5, <1>6
            <7> QED BY <7>1, <7>2
          <6> QED BY <6>1, <6>2, <6>3, <4>5, <1>2, <1>6
        <5> QED BY <4>2, <5>2, <5>3
      <4> QED BY <4>4, <4>5, <1>6
    <3> QED BY <3>1, <3>2
  <2> QED BY <2>1, <2>2, <1>3, <1>5 DEF ProbeInv
<1>12. ResultsGenuine' /\ ResultsNearest' /\ CopyInv'
  <2>1. Looked' = Looked
    BY <1>3 DEF Looked
  <2> QED BY <2>1, <1>1, <1>3, <1>5, ResultsKept DEF CopyInv
<1> QED BY <1>10, <1>11, <1>12 DEF SInv

\* The end of the probe, and the offsets of the chosen clusters.
LEMMA CollectStep ==
    ASSUME SInv, ProbeEnds \/ CollectOffsets \/ CollectEnds PROVE SInv'
<1>1. TypeOK /\ ProbeInv /\ ResultsGenuine /\ ResultsNearest /\ CopyInv
  BY DEF SInv
<1>2. /\ nprobe \in Nat \ {0} /\ Len(clusters) \in Nat
  BY <1>1, SlotsOK
<1>3. /\ pc \in {"probe", "collect"} /\ pc' \in {"collect", "scan"}
      /\ i' \in Nat \ {0} /\ (pc' = "scan" => i' = 1)
      /\ input' = input /\ out_results' = out_results /\ heap' = heap
      /\ best_clusters' = best_clusters
  BY <1>1 DEF ProbeEnds, CollectOffsets, CollectEnds, TypeOK
<1>4. clusters' = clusters /\ nprobe' = nprobe /\ top_k' = top_k /\ table' = table
  BY <1>3 DEF clusters, nprobe, top_k, table
<1>5. candidates' \in Seq(Nat)
  <2>1. CASE ProbeEnds \/ CollectEnds
    BY <2>1, <1>1 DEF ProbeEnds, CollectEnds, TypeOK
  <2>2. CASE CollectOffsets
    <3>1. i \in 1 .. nprobe /\ candidates \in Seq(Nat)
      BY <2>2, <1>1, <1>2 DEF CollectOffsets, TypeOK
    <3>2. best_clusters[i].cluster_idx \in 1 .. Len(clusters)
      BY <3>1, <1>1 DEF TypeOK
    <3>3. clusters[best_clusters[i].cluster_idx].byte_offsets \in Seq(Nat)
      BY <3>2, <1>1, ClusterOK
    <3> QED BY <2>2, <3>1, <3>3 DEF CollectOffsets
  <2> QED BY <2>1, <2>2
<1>6. TypeOK'
  BY <1>1, <1>3, <1>4, <1>5 DEF TypeOK
<1>7. ProbeInv'
  <2>1. pc = "probe" => \A j \in 1 .. Len(clusters) : j < i
    BY <1>1, <1>2 DEF TypeOK, ProbeEnds, CollectOffsets, CollectEnds
  <2> QED BY <2>1, <1>1, <1>3, <1>4 DEF ProbeInv, Ascending
<1>8. Looked = {} /\ Looked' = {}
  <2>1. \A c \in 1 .. Len(candidates') : ~(c < 1)
    BY <1>5
  <2> QED BY <2>1, <1>3 DEF Looked
<1>9. ResultsGenuine' /\ ResultsNearest'
  <2>1. \A s \in 1 .. top_k : out_results[s] = EmptyResult
    BY <1>1, <1>8 DEF ResultsGenuine
  <2>2. EmptyResult.at = 0
    BY DEF EmptyResult
  <2>3. Ascending(out_results, top_k)'
    BY <1>1, <1>3, <1>4 DEF ResultsGenuine, Ascending
  <2> QED BY <2>1, <2>2, <2>3, <1>3, <1>4, <1>8
          DEF ResultsGenuine, ResultsNearest, EmptyResult
<1>10. CopyInv'
  BY <1>1, <1>3, <1>4 DEF CopyInv
<1> QED BY <1>6, <1>7, <1>9, <1>10 DEF SInv

\* One candidate of flat_search or db_ann_search.
LEMMA ScanStep == ASSUME SInv, ScanCandidate PROVE SInv'
<1> DEFINE c == candidates[i]
<1> DEFINE new == [at |-> i, id |-> table[c].id, dis |-> table[c].dis,
                   metadata |-> IF table[c].metadata THEN i ELSE 0]
<1> DEFINE p == InsertPos(out_results, top_k, new.dis)
<1>1. TypeOK /\ ProbeInv /\ ResultsGenuine /\ ResultsNearest /\ CopyInv
  BY DEF SInv
<1>2. /\ Slots(out_results, top_k) /\ top_k \in Nat \ {0} /\ FLT_MAX \in Nat
      /\ Len(table) \in Nat /\ top_k \in 1 .. top_k
  BY <1>1, SlotsOK
<1>3. /\ pc = "scan" /\ pc' = "scan" /\ i' = i + 1 /\ i \in 1 .. Len(candidates) /\ i \in Nat \ {0}
      /\ input' = input /\ candidates' = candidates /\ best_clusters' = best_clusters
  BY <1>1 DEF ScanCandidate, TypeOK
<1>4. table' = table /\ top_k' = top_k
  BY <1>3 DEF table, top_k
<1>5. Looked' = Looked \cup {i} /\ \A b \in Looked : b < i /\ b \in Nat \ {0}
  <2>1. /\ Looked = {b \in 1 .. Len(candidates) : b < i}
        /\ Looked' = {b \in 1 .. Len(candidates) : b < i + 1}
    BY <1>3 DEF Looked
  <2>2. Len(candidates) \in Nat
    BY <1>1 DEF TypeOK
  <2> QED BY <2>1, <2>2, <1>3
<1>6. /\ Visible(c) <=> Searchable(c)
      /\ \A b : Searchable(b)' <=> Searchable(b)
  BY <1>3, <1>4 DEF Visible, Fetchable, Searchable
<1>7. ProbeInv'
  BY <1>1, <1>3, ProbeKept
<1>8. ASSUME out_results' = out_results, heap' = heap,
             Searchable(c) => out_results[top_k].dis <= table[c].dis
      PROVE  SInv'
  <2>1. TypeOK'
    BY <1>1, <1>3, <1>4, <1>8 DEF TypeOK, nprobe, clusters
  <2>2. ResultsGenuine'
    BY <1>1, <1>3, <1>4, <1>5, <1>6, <1>8 DEF ResultsGenuine, Ascending, EmptyResult
  <2>3. ResultsNearest'
    BY <1>1, <1>3, <1>4, <1>5, <1>6, <1>8 DEF ResultsNearest, Shown
  <2>4. CopyInv'
    BY <1>1, <1>3, <1>4, <1>8 DEF CopyInv
  <2> QED BY <2>1, <2>2, <2>3, <2>4, <1>7 DEF SInv
<1>9. CASE ~Visible(c)
  BY <1>6, <1>8, <1>9 DEF ScanCandidate
<1>10. CASE Visible(c)
  <2>1. /\ out_results' = Inserted(out_results, top_k, new)
        /\ heap' = IF new.dis < out_results[top_k].dis
                   THEN (heap \ Freed(p)) \cup ({new.metadata} \ {0}) ELSE heap
    BY <1>10 DEF ScanCandidate
  <2>2. c \in 1 .. Len(table) /\ Searchable(c)
    BY <1>6, <1>10 DEF Visible, Fetchable
  <2>3. /\ new.dis = table[c].dis /\ new.dis \in 0 .. FLT_MAX /\ new.dis \in Int
        /\ new.at = i /\ new.id = table[c].id /\ new.id \in Nat /\ new.metadata \in {0, i}
    <3>1. /\ table[c].dis \in 0 .. FLT_MAX /\ table[c].dis \in Int /\ table[c].id \in Nat
      BY <2>2, <1>1, ClusterOK
    <3> HIDE DEF c
    <3> QED BY <3>1
  <2>4. new \in [at : Nat, id : Nat, dis : 0 .. FLT_MAX, metadata : Nat]
    BY <2>3, <1>3
  <2>5. CASE ~(new.dis < out_results[top_k].dis)
    <3>1. out_results' = out_results /\ heap' = heap
      BY <2>1, <2>5 DEF Inserted
    <3>2. out_results[top_k].dis \in Int
      BY <1>2 DEF Slots
    <3>3. out_results[top_k].dis <= table[c].dis
      <4> HIDE DEF new
      <4> QED BY <3>2, <2>3, <2>5
    <3> QED BY <3>1, <3>3, <1>8
  <2>6. CASE new.dis < out_results[top_k].dis
    <3>1. InsertedAt(p, out_results, top_k, new, out_results')
      <4>1. InsertedAt(p, out_results, top_k, new, Inserted(out_results, top_k, new))
        <5> HIDE DEF new
        <5> QED BY <2>3, <2>6, <1>2, InsertedSlots
      <4> HIDE DEF new, p
      <4> QED BY <4>1, <2>1
    <3>2. out_results' = [s \in 1 .. top_k |-> out_results'[s]]
      BY <2>1, <2>6 DEF Inserted, Shifted
    <3>3. heap' = (heap \ Freed(p)) \cup ({new.metadata} \ {0})
      BY <2>1, <2>6
    <3> HIDE DEF new, p, c
    <3>4. p \in 1 .. top_k /\ out_results'[p] = new
      BY <3>1 DEF InsertedAt
    <3>5. \A s \in 1 .. top_k : s # p =>
            \E t \in 1 .. top_k : /\ out_results'[s] = out_results[t]
                                  /\ (s < p /\ t = s) \/ (s > p /\ t = s - 1)
      <4> SUFFICES ASSUME NEW s \in 1 .. top_k, s # p
                   PROVE  \E t \in 1 .. top_k :
                             /\ out_results'[s] = out_results[t]
                             /\ (s < p /\ t = s) \/ (s > p /\ t = s - 1)
        OBVIOUS
      <4>1. CASE s < p
        <5>1. s \in 1 .. p - 1
          BY <4>1, <3>4, <1>2
        <5> QED BY <4>1, <5>1, <3>1 DEF InsertedAt
      <4>2. CASE s > p
        <5>1. s \in p + 1 .. top_k /\ s - 1 \in 1 .. top_k
          BY <4>2, <3>4, <1>2
        <5> QED BY <4>2, <5>1, <3>1 DEF InsertedAt
      <4> QED BY <4>1, <4>2, <3>4, <1>2
    <3>6. TypeOK'
      <4>1. \A s \in 1 .. top_k :
               out_results'[s] \in [at : Nat, id : Nat, dis : 0 .. FLT_MAX, metadata : Nat]
        BY <1>1, <2>4, <3>4, <3>5 DEF TypeOK
      <4>2. out_results' \in [1 .. top_k -> [at : Nat, id : Nat, dis : 0 .. FLT_MAX, metadata : Nat]]
        BY <4>1, <3>2
      <4>3. heap' \subseteq Nat \ {0}
        BY <1>1, <1>3, <2>3, <3>3 DEF TypeOK
      <4> QED BY <4>2, <4>3, <1>1, <1>3, <1>4 DEF TypeOK, nprobe, clusters
    <3>7. \A s \in 1 .. top_k : out_results[s].at # i /\ out_results[s].at \in Nat
      BY <1>1, <1>3, <1>5 DEF ResultsGenuine, EmptyResult, TypeOK
    <3>8. ResultsGenuine'
      <4>1. Ascending(out_results', top_k)
        BY <3>1 DEF InsertedAt, Slots
      <4>2. ASSUME NEW s \in 1 .. top_k
            PROVE  \/ out_results'[s] = EmptyResult
                   \/ /\ out_results'[s].at \in Looked'
                      /\ Searchable(candidates[out_results'[s].at])
                      /\ out_results'[s].id = table[candidates[out_results'[s].at]].id
                      /\ out_results'[s].dis = table[candidates[out_results'[s].at]].dis
        <5>1. CASE s = p
          BY <5>1, <1>5, <2>2, <2>3, <3>4 DEF c
        <5>2. CASE s # p
          BY <5>2, <1>1, <1>5, <3>5 DEF ResultsGenuine
        <5> QED BY <5>1, <5>2
      <4>3. ASSUME NEW s \in 1 .. top_k, NEW t \in 1 .. top_k, s # t, out_results'[s].at # 0
            PROVE  out_results'[s].at # out_results'[t].at
        <5>1. CASE s = p \/ t = p
          BY <5>1, <4>3, <2>3, <3>4, <3>5, <3>7
        <5>2. CASE s # p /\ t # p
          <6>1. PICK a \in 1 .. top_k : /\ out_results'[s] = out_results[a]
                                        /\ (s < p /\ a = s) \/ (s > p /\ a = s - 1)
            BY <5>2, <3>5
          <6>2. PICK b \in 1 .. top_k : /\ out_results'[t] = out_results[b]
                                        /\ (t < p /\ b = t) \/ (t > p /\ b = t - 1)
            BY <5>2, <3>5
          <6>3. a # b
            BY <6>1, <6>2, <4>3, <3>4, <1>2
          <6> QED BY <6>1, <6>2, <6>3, <4>3, <1>1 DEF ResultsGenuine
        <5> QED BY <5>1, <5>2
      <4>4. EmptyResult' = EmptyResult
        BY DEF EmptyResult
      <4>5. Ascending(out_results, top_k)'
        BY <4>1, <1>4 DEF Ascending
      <4> QED BY <4>2, <4>3, <4>4, <4>5, <1>3, <1>4, <1>6 DEF ResultsGenuine
    <3>9. ResultsNearest'
      <4>1. out_results[top_k].dis \in Int /\ out_results'[top_k].dis \in Int
            /\ out_results'[top_k].dis <= out_results[top_k].dis
        BY <1>2, <3>1 DEF Slots, InsertedAt
      <4>2. ASSUME NEW b \in Looked', Searchable(candidates[b])
            PROVE  \/ \E s \in 1 .. top_k : out_results'[s].at = b
                   \/ out_results'[top_k].dis <= table[candidates[b]].dis
        <5>1. CASE b = i
          BY <5>1, <2>3, <3>4
        <5>2. CASE b # i
          <6>1. b \in Looked /\ b # 0
            BY <5>2, <1>5
          <6>2. table[candidates[b]].dis \in Int
            BY <4>2, <1>1, ClusterOK DEF Searchable
          <6>3. CASE out_results[top_k].dis <= table[candidates[b]].dis
            BY <6>2, <6>3, <4>1
          <6>4. ASSUME NEW s \in 1 .. top_k, out_results[s].at = b
                PROVE  \/ \E t \in 1 .. top_k : out_results'[t].at = b
                       \/ out_results'[top_k].dis <= table[candidates[b]].dis
            <7>1. CASE s = top_k
              <8>1. out_results[top_k].dis = table[candidates[b]].dis
                BY <6>1, <6>4, <7>1, <1>1 DEF ResultsGenuine, EmptyResult
              <8> QED BY <8>1, <4>1
            <7>2. CASE s \in 1 .. p - 1
              BY <7>2, <6>4, <3>1 DEF InsertedAt
            <7>3. CASE s >= p /\ s # top_k
              <8>1. s + 1 \in p + 1 .. top_k /\ s + 1 \in 1 .. top_k /\ (s + 1) - 1 = s
                BY <7>3, <3>4, <1>2
              <8>2. out_results'[s + 1] = out_results[s]
                BY <8>1, <3>1 DEF InsertedAt
              <8> QED BY <8>1, <8>2, <6>4
            <7> QED BY <7>1, <7>2, <7>3, <3>4, <1>2
          <6> QED BY <6>1, <6>3, <6>4, <4>2, <1>1 DEF ResultsNearest, Shown
        <5> QED BY <5>1, <5>2
      <4>3. \A b \in Looked' : b # 0
        BY <1>3, <1>5
      <4> QED BY <4>2, <4>3, <1>3, <1>4, <1>6 DEF ResultsNearest, Shown
    <3>10. CopyInv'
      <4> SUFFICES ASSUME NEW s \in 1 .. top_k
                   PROVE  /\ out_results'[s].metadata \in {0, out_results'[s].at}
                          /\ out_results'[s].metadata # 0 => out_results'[s].metadata \in heap'
        BY <1>4 DEF CopyInv
      <4>1. CASE s = p
        BY <4>1, <2>3, <3>3, <3>4
      <4>2. CASE s # p
        <5>1. PICK t \in 1 .. top_k : /\ out_results'[s] = out_results[t]
                                      /\ (s < p /\ t = s) \/ (s > p /\ t = s - 1)
          BY <4>2, <3>5
        <5>2. t # top_k
          BY <5>1, <3>4, <1>2
        <5>3. out_results[t].metadata # 0 => out_results[t].metadata \notin Freed(p)
          <6>1. out_results[t].at # 0 => out_results[t].at # out_results[top_k].at
            BY <5>2, <1>1, <1>2 DEF ResultsGenuine
          <6> QED BY <6>1, <1>1, <1>2 DEF CopyInv, Freed
        <5> QED BY <5>1, <5>3, <3>3, <1>1, <1>3 DEF CopyInv
      <4> QED BY <4>1, <4>2
    <3> QED BY <3>6, <3>8, <3>9, <3>10, <1>7 DEF SInv
  <2> QED BY <2>5, <2>6
<1> QED BY <1>9, <1>10

\* The end of the scan, and the reply.
LEMMA ReplyStep == ASSUME SInv, ScanEnds \/ Reply PROVE SInv'
<1>1. TypeOK /\ ProbeInv /\ ResultsGenuine /\ ResultsNearest /\ CopyInv
  BY DEF SInv
<1>2. /\ pc \in {"scan", "reply"} /\ pc' \in {"reply", "done"} /\ i' = i
      /\ input' = input /\ candidates' = candidates /\ out_results' = out_results
      /\ best_clusters' = best_clusters
      /\ heap' \subseteq heap /\ (pc' # "done" => heap' = heap)
  BY DEF ScanEnds, Reply
<1>3. Looked' = Looked
  <2>1. pc = "scan" => \A c \in 1 .. Len(candidates) : c < i
    BY <1>1 DEF ScanEnds, Reply, TypeOK
  <2> QED BY <2>1, <1>2 DEF Looked
<1>4. TypeOK'
  BY <1>1, <1>2 DEF TypeOK, nprobe, clusters, top_k
<1>5. CopyInv'
  BY <1>1, <1>2 DEF CopyInv, top_k
<1>6. ProbeInv'
  BY <1>1, <1>2, ProbeKept
<1> QED BY <1>1, <1>2, <1>3, <1>4, <1>5, <1>6, ResultsKept DEF SInv

\* Every step keeps the invariant.
LEMMA NextInv == SInv /\ [Next]_vars => SInv'
<1> SUFFICES ASSUME SInv, [Next]_vars PROVE SInv'
  OBVIOUS
<1>1. CASE UNCHANGED vars
  <2>1. /\ UNCHANGED <<input, pc, i, best_clusters, candidates, out_results, heap>>
        /\ Looked' = Looked
    BY <1>1 DEF vars, Looked
  <2>2. TypeOK' /\ ProbeInv' /\ CopyInv'
    BY <2>1 DEF SInv, TypeOK, ProbeInv, CopyInv, Ascending, top_k, nprobe, clusters
  <2> QED BY <2>1, <2>2, ResultsKept DEF SInv
<1> QED BY <1>1, ProbeStep, CollectStep, ScanStep, ReplyStep DEF Next

--------------------------------------------------------------------------
(* The candidates and the reply.                                            *)

\* A slot is as it was at the start, or names a cluster that was compared and
\* that no other slot names.
ProbedInv ==
    /\ \A s \in 1 .. nprobe :
          \/ best_clusters[s] = EmptyProbe
          \/ /\ best_clusters[s].dis < FLT_MAX
             /\ pc # "probe" \/ best_clusters[s].cluster_idx < i
    /\ \A s, t \in 1 .. nprobe :
          s # t /\ best_clusters[s].dis < FLT_MAX /\ best_clusters[t].dis < FLT_MAX =>
              best_clusters[s].cluster_idx # best_clusters[t].cluster_idx

Offsets(s) == clusters[best_clusters[s].cluster_idx].byte_offsets

\* The slots whose offsets have been collected.
Collected ==
    {s \in 1 .. nprobe : pc \notin {"probe", "collect"} \/ (pc = "collect" /\ s < i)}

Live(c) == c \in 1 .. Len(table) /\ ~table[c].is_deleted

\* The candidates are what the collected slots hold, and none comes twice when
\* every slot has its own cluster.
CandidatesInv ==
    /\ pc \in {"probe", "collect"} => input.use_ann
    /\ ~input.use_ann => candidates = [j \in 1 .. Len(table) |-> j]
    /\ pc = "probe" => candidates = <<>>
    /\ input.use_ann =>
        /\ \A n \in 1 .. Len(candidates) : \E s \in Collected :
              \E q \in 1 .. Len(Offsets(s)) : candidates[n] = Offsets(s)[q]
        /\ \A s \in Collected : \A q \in 1 .. Len(Offsets(s)) :
              \E n \in 1 .. Len(candidates) : candidates[n] = Offsets(s)[q]
        /\ nprobe <= Len(clusters) /\ NoneTooFar /\ Partitioned =>
              \A m, n \in 1 .. Len(candidates) :
                  Live(candidates[m]) /\ candidates[m] = candidates[n] => m = n

SerializedInv == pc = "done" => reply = Response(serialize_search_results)

CInv == ProbedInv /\ CandidatesInv /\ SerializedInv

\* What is said of the index and the table does not change.
LEMMA SameInput ==
    ASSUME UNCHANGED input
    PROVE  /\ Partitioned' = Partitioned /\ NoneTooFar' = NoneTooFar
           /\ nprobe' = nprobe /\ clusters' = clusters /\ top_k' = top_k /\ table' = table
           /\ \A c : Live(c)' = Live(c)
  BY DEF Partitioned, NoneTooFar, Live, nprobe, clusters, top_k, table

\* A record that is not deleted is in one place of an index that partitions them.
LEMMA OnePlace ==
    ASSUME Partitioned, NEW c, Live(c)
    PROVE  \E a \in 1 .. Len(clusters) : \E b \in 1 .. Len(clusters[a].byte_offsets) :
              /\ clusters[a].byte_offsets[b] = c
              /\ \A j \in 1 .. Len(clusters) : \A q \in 1 .. Len(clusters[j].byte_offsets) :
                    clusters[j].byte_offsets[q] = c => j = a /\ q = b
<1>1. c \in 1 .. Len(table) /\ ~table[c].is_deleted
  BY DEF Live
<1> QED BY <1>1, Zenon DEF Partitioned

\* Where the slots come from after an insertion at p.
LEMMA MovedSlots ==
    ASSUME NEW n \in Nat \ {0}, NEW p, NEW slots, NEW new, NEW out,
           InsertedAt(p, slots, n, new, out)
    PROVE  \E from \in [1 .. n -> 0 .. n] :
              /\ \A s \in 1 .. n : s # p => from[s] \in 1 .. n /\ out[s] = slots[from[s]]
              /\ \A s, t \in 1 .. n : s # t => from[s] # from[t]
<1> DEFINE from == [s \in 1 .. n |-> IF s < p THEN s ELSE IF s = p THEN 0 ELSE s - 1]
<1>1. p \in 1 .. n
  BY DEF InsertedAt
<1>2. from \in [1 .. n -> 0 .. n]
  BY <1>1
<1>3. ASSUME NEW s \in 1 .. n, s # p
      PROVE  from[s] \in 1 .. n /\ out[s] = slots[from[s]]
  <2>1. CASE s < p
    <3>1. s \in 1 .. p - 1
      BY <2>1, <1>1
    <3> QED BY <3>1, <2>1 DEF InsertedAt
  <2>2. CASE s > p
    <3>1. s \in p + 1 .. n /\ s - 1 \in 1 .. n /\ ~(s < p)
      BY <2>2, <1>1
    <3> QED BY <3>1, <1>3 DEF InsertedAt
  <2> QED BY <2>1, <2>2, <1>1, <1>3
<1>4. ASSUME NEW s \in 1 .. n, NEW t \in 1 .. n, s # t
      PROVE  from[s] # from[t]
  BY <1>1, <1>4
<1> QED BY <1>2, <1>3, <1>4

\* What the comparison of a cluster does to the slots.
LEMMA ProbeInserts ==
    ASSUME SInv, ProbeCluster
    PROVE  LET new == [cluster_idx |-> i, dis |-> clusters[i].dis] IN
           \/ best_clusters' = best_clusters
           \/ /\ new.dis < best_clusters[nprobe].dis
              /\ \E p : InsertedAt(p, best_clusters, nprobe, new, best_clusters')
<1> DEFINE new == [cluster_idx |-> i, dis |-> clusters[i].dis]
<1>1. TypeOK /\ ProbeInv /\ ResultsGenuine
  BY DEF SInv
<1>2. /\ Slots(best_clusters, nprobe) /\ Len(clusters) \in Nat
  BY <1>1, SlotsOK
<1>3. i \in 1 .. Len(clusters) /\ best_clusters' = Inserted(best_clusters, nprobe, new)
  BY <1>1, <1>2 DEF ProbeCluster, TypeOK
<1>4. new.dis \in Int
  BY <1>1, <1>3, ClusterOK
<1> HIDE DEF new
<1>5. CASE new.dis < best_clusters[nprobe].dis
  <2>1. InsertedAt(InsertPos(best_clusters, nprobe, new.dis), best_clusters, nprobe, new,
                   Inserted(best_clusters, nprobe, new))
    BY <1>2, <1>4, <1>5, InsertedSlots
  <2>2. \E p : InsertedAt(p, best_clusters, nprobe, new, best_clusters')
    BY <2>1, <1>3
  <2> QED BY <2>2, <1>5 DEF new
<1>6. CASE ~(new.dis < best_clusters[nprobe].dis)
  BY <1>3, <1>6 DEF Inserted
<1> QED BY <1>5, <1>6

\* With no more probes than clusters, and all of them within reach, every slot
\* gets a cluster of its own: if the last one were left over, all clusters would
\* be in fewer slots than there are clusters.
LEMMA OwnClusters ==
    ASSUME SInv, ProbedInv, input.use_ann, pc # "probe", nprobe <= Len(clusters), NoneTooFar
    PROVE  \A s, t \in 1 .. nprobe :
              s # t => best_clusters[s].cluster_idx # best_clusters[t].cluster_idx
<1>1. TypeOK /\ ProbeInv /\ ResultsGenuine
  BY DEF SInv
<1>2. /\ Slots(best_clusters, nprobe) /\ nprobe \in Nat \ {0} /\ Len(clusters) \in Nat
      /\ nprobe \in 1 .. nprobe /\ FLT_MAX \in Nat
  BY <1>1, SlotsOK
<1>3. EmptyProbe.dis = FLT_MAX
  BY DEF EmptyProbe
<1>4. best_clusters[nprobe].dis < FLT_MAX
  <2> SUFFICES ASSUME ~(best_clusters[nprobe].dis < FLT_MAX) PROVE FALSE
    OBVIOUS
  <2>1. best_clusters[nprobe].dis = FLT_MAX
    BY <1>2, <1>3 DEF ProbedInv
  <2> DEFINE In(j) == {s \in 1 .. nprobe :
                          best_clusters[s] = [cluster_idx |-> j, dis |-> clusters[j].dis]}
             f == [j \in 1 .. Len(clusters) |-> CHOOSE s \in 1 .. nprobe : s \in In(j)]
  <2>2. ASSUME NEW j \in 1 .. Len(clusters)
        PROVE  f[j] \in In(j) /\ f[j] \in 1 .. nprobe - 1
    <3>1. clusters[j].dis \in Int /\ clusters[j].dis < FLT_MAX
      BY <1>1, ClusterOK DEF NoneTooFar
    <3>2. \E s \in 1 .. nprobe : s \in In(j)
      BY <3>1, <2>1, <1>1, <1>2 DEF ProbeInv
    <3>3. f[j] \in 1 .. nprobe /\ f[j] \in In(j)
      BY <3>2
    <3>4. best_clusters[f[j]].dis = clusters[j].dis
      <4> HIDE DEF f
      <4> QED BY <3>3
    <3>5. f[j] # nprobe
      <4> HIDE DEF f
      <4> QED BY <3>1, <3>4, <2>1, <1>2
    <3> HIDE DEF f
    <3> QED BY <3>3, <3>5, <1>2
  <2>3. \A j \in 1 .. Len(clusters) : best_clusters[f[j]].cluster_idx = j
    <3> SUFFICES ASSUME NEW j \in 1 .. Len(clusters)
                 PROVE  best_clusters[f[j]].cluster_idx = j
      OBVIOUS
    <3>1. f[j] \in In(j)
      BY <2>2
    <3> HIDE DEF f
    <3> QED BY <3>1
  <2>4. f \in [1 .. Len(clusters) -> 1 .. nprobe - 1]
    BY <2>2
  <2>5. /\ IsFiniteSet(1 .. Len(clusters)) /\ Cardinality(1 .. Len(clusters)) = Len(clusters)
        /\ IsFiniteSet(1 .. nprobe - 1) /\ Cardinality(1 .. nprobe - 1) = nprobe - 1
    <3>1. \A n \in Nat : IsFiniteSet(1 .. n) /\ Cardinality(1 .. n) = n
      <4> TAKE n \in Nat
      <4>1. IsFiniteSet(1 .. n) /\ Cardinality(1 .. n) = IF 1 > n THEN 0 ELSE n - 1 + 1
        BY FS_Interval
      <4> QED BY <4>1
    <3>2. nprobe - 1 \in Nat
      BY <1>2
    <3> QED BY <3>1, <3>2, <1>2
  <2>6. Cardinality(1 .. nprobe - 1) < Cardinality(1 .. Len(clusters))
    BY <2>5, <1>2
  <2> HIDE DEF f
  <2>7. \E j, k \in 1 .. Len(clusters) : j # k /\ f[j] = f[k]
    BY <2>4, <2>5, <2>6, FS_PigeonHole
  <2> QED BY <2>3, <2>7
<1>5. \A s \in 1 .. nprobe : best_clusters[s].dis < FLT_MAX
  BY <1>2, <1>4 DEF Slots, Ascending
<1> QED BY <1>5 DEF ProbedInv

\* The initial states.
LEMMA InitCandidates == Init => CInv
<1> SUFFICES ASSUME Init PROVE CInv
  OBVIOUS
<1>1. \A s \in 1 .. nprobe : best_clusters[s] = EmptyProbe
  BY DEF Init, nprobe
<1>2. EmptyProbe.dis = FLT_MAX /\ ~(FLT_MAX < FLT_MAX)
  BY SearchAssumption DEF EmptyProbe
<1>3. ProbedInv
  BY <1>1, <1>2 DEF ProbedInv
<1>4. CandidatesInv
  <2>1. input.use_ann => pc = "probe" /\ candidates = <<>>
    BY DEF Init
  <2>2. ~input.use_ann => pc = "scan" /\ candidates = [j \in 1 .. Len(table) |-> j]
    BY DEF Init, table
  <2>3. pc = "probe" => Collected = {}
    BY DEF Collected
  <2> QED BY <2>1, <2>2, <2>3 DEF CandidatesInv
<1>5. SerializedInv
  BY DEF Init, SerializedInv
<1> QED BY <1>3, <1>4, <1>5 DEF CInv

\* One cluster compared.
LEMMA ProbeCandidates == ASSUME SInv, CInv, ProbeCluster PROVE CInv'
<1> DEFINE new == [cluster_idx |-> i, dis |-> clusters[i].dis]
<1>1. TypeOK /\ ProbeInv /\ ResultsGenuine /\ ProbedInv /\ CandidatesInv
  BY DEF SInv, CInv
<1>2. /\ pc = "probe" /\ pc' = "probe" /\ i' = i + 1 /\ i \in Nat
      /\ UNCHANGED <<input, candidates, out_results, reply>>
  BY <1>1 DEF ProbeCluster, TypeOK
<1>3. /\ nprobe' = nprobe /\ clusters' = clusters /\ table' = table
      /\ nprobe \in Nat \ {0} /\ nprobe \in 1 .. nprobe /\ FLT_MAX \in Nat
  BY <1>1, <1>2, SameInput, SlotsOK
<1>4. CandidatesInv'
  <2>1. Collected' = {}
    BY <1>2 DEF Collected
  <2> QED BY <2>1, <1>1, <1>2 DEF CandidatesInv
<1>5. EmptyProbe' = EmptyProbe /\ EmptyProbe.dis = FLT_MAX
  BY DEF EmptyProbe
<1>6. \A s \in 1 .. nprobe : /\ best_clusters[s].dis \in Int /\ best_clusters[s].cluster_idx \in Nat
                             /\ best_clusters[s].dis <= FLT_MAX
  BY <1>1, <1>3 DEF TypeOK
<1>7. ProbedInv'
  <2>1. CASE best_clusters' = best_clusters
    BY <2>1, <1>1, <1>2, <1>3, <1>5, <1>6 DEF ProbedInv
  <2>2. ASSUME NEW p, new.dis < best_clusters[nprobe].dis,
               InsertedAt(p, best_clusters, nprobe, new, best_clusters')
        PROVE  ProbedInv'
    <3>1. new.dis < FLT_MAX /\ new.cluster_idx = i
      <4>1. i \in 1 .. Len(clusters)
        BY <1>1, <1>2 DEF ProbeCluster, TypeOK, IsInput, clusters
      <4>2. clusters[i].dis \in Int
        BY <4>1, <1>1, ClusterOK
      <4> QED BY <2>2, <4>2, <1>3, <1>6
    <3> HIDE DEF new
    <3>2. PICK from \in [1 .. nprobe -> 0 .. nprobe] :
             /\ \A s \in 1 .. nprobe :
                   s # p => /\ from[s] \in 1 .. nprobe
                            /\ best_clusters'[s] = best_clusters[from[s]]
             /\ \A s, t \in 1 .. nprobe : s # t => from[s] # from[t]
      BY <2>2, <1>3, MovedSlots
    <3>3. p \in 1 .. nprobe /\ best_clusters'[p] = new
      BY <2>2 DEF InsertedAt
    <3>4. ASSUME NEW s \in 1 .. nprobe
          PROVE  \/ best_clusters'[s] = EmptyProbe
                 \/ best_clusters'[s].dis < FLT_MAX /\ best_clusters'[s].cluster_idx < i + 1
      <4>1. CASE s = p
        BY <4>1, <3>1, <3>3, <1>2
      <4>2. CASE s # p
        <5>1. \/ best_clusters[from[s]] = EmptyProbe
              \/ /\ best_clusters[from[s]].dis < FLT_MAX
                 /\ best_clusters[from[s]].cluster_idx < i
          BY <4>2, <3>2, <1>1, <1>2 DEF ProbedInv
        <5> QED BY <5>1, <4>2, <3>2, <1>2, <1>6
      <4> QED BY <4>1, <4>2
    <3>5. ASSUME NEW s \in 1 .. nprobe, s # p, best_clusters'[s].dis < FLT_MAX
          PROVE  best_clusters'[s].cluster_idx # i
      <4>1. best_clusters[from[s]].cluster_idx < i
        BY <3>2, <3>5, <1>1, <1>2, <1>3, <1>5 DEF ProbedInv
      <4> QED BY <4>1, <3>2, <3>5, <1>2, <1>6
    <3>6. ASSUME NEW s \in 1 .. nprobe, NEW t \in 1 .. nprobe, s # t,
                 best_clusters'[s].dis < FLT_MAX, best_clusters'[t].dis < FLT_MAX
          PROVE  best_clusters'[s].cluster_idx # best_clusters'[t].cluster_idx
      <4>1. CASE s = p
        BY <4>1, <3>1, <3>3, <3>5, <3>6
      <4>2. CASE t = p
        BY <4>2, <3>1, <3>3, <3>5, <3>6
      <4>3. CASE s # p /\ t # p
        BY <4>3, <3>2, <3>6, <1>1 DEF ProbedInv
      <4> QED BY <4>1, <4>2, <4>3
    <3> QED BY <3>4, <3>6, <1>2, <1>3, <1>5 DEF ProbedInv
  <2>3. \/ best_clusters' = best_clusters
        \/ /\ new.dis < best_clusters[nprobe].dis
           /\ \E p : InsertedAt(p, best_clusters, nprobe, new, best_clusters')
    BY ProbeInserts
  <2> QED BY <2>1, <2>2, <2>3
<1>8. SerializedInv'
  BY <1>2 DEF SerializedInv
<1> QED BY <1>4, <1>7, <1>8 DEF CInv

\* Steps after the offsets were collected.
LEMMA CandidatesKept ==
    ASSUME ProbedInv, CandidatesInv, UNCHANGED <<input, best_clusters, candidates>>,
           Collected' = Collected, pc # "probe", pc' \in {pc, "scan", "reply", "done"}
    PROVE  ProbedInv' /\ CandidatesInv'
<1>1. /\ Partitioned' = Partitioned /\ NoneTooFar' = NoneTooFar
      /\ nprobe' = nprobe /\ clusters' = clusters /\ top_k' = top_k /\ table' = table
      /\ \A c : Live(c)' = Live(c)
  BY SameInput
<1>2. EmptyProbe' = EmptyProbe /\ \A s : Offsets(s)' = Offsets(s)
  BY <1>1 DEF EmptyProbe, Offsets
<1>3. ProbedInv'
  BY <1>1, <1>2 DEF ProbedInv
<1>4. CandidatesInv'
  <2>1. pc' \in {"probe", "collect"} => input.use_ann
    BY DEF CandidatesInv
  <2>2. /\ ~input.use_ann => candidates = [j \in 1 .. Len(table) |-> j]
        /\ pc' # "probe"
    BY DEF CandidatesInv
  <2>3. ASSUME input.use_ann
        PROVE  /\ \A n \in 1 .. Len(candidates) : \E s \in Collected :
                     \E q \in 1 .. Len(Offsets(s)) : candidates[n] = Offsets(s)[q]
               /\ \A s \in Collected : \A q \in 1 .. Len(Offsets(s)) :
                     \E n \in 1 .. Len(candidates) : candidates[n] = Offsets(s)[q]
               /\ nprobe <= Len(clusters) /\ NoneTooFar /\ Partitioned =>
                     \A m, n \in 1 .. Len(candidates) :
                         Live(candidates[m]) /\ candidates[m] = candidates[n] => m = n
    BY <2>3 DEF CandidatesInv
  <2>4. /\ Collected' = Collected /\ candidates' = candidates /\ input' = input
        /\ nprobe' = nprobe /\ clusters' = clusters /\ table' = table
    BY <1>1
  <2>5. input'.use_ann =>
          /\ \A n \in 1 .. Len(candidates') : \E s \in Collected' :
                \E q \in 1 .. Len(Offsets(s)') : candidates'[n] = Offsets(s)'[q]
          /\ \A s \in Collected' : \A q \in 1 .. Len(Offsets(s)') :
                \E n \in 1 .. Len(candidates') : candidates'[n] = Offsets(s)'[q]
          /\ nprobe' <= Len(clusters') /\ NoneTooFar' /\ Partitioned' =>
                \A m, n \in 1 .. Len(candidates') :
                    Live(candidates[m])' /\ candidates'[m] = candidates'[n] => m = n
    BY <2>3, <2>4, <1>1 DEF Live, Offsets
  <2> QED BY <2>1, <2>2, <2>4, <2>5 DEF CandidatesInv
<1> QED BY <1>3, <1>4

\* The elements of two sequences one after the other.
LEMMA ConcatElements ==
    ASSUME NEW T, NEW a \in Seq(T), NEW b \in Seq(T), NEW ab, ab = a \o b
    PROVE  /\ Len(a) \in Nat /\ Len(b) \in Nat /\ Len(ab) = Len(a) + Len(b)
           /\ \A n \in 1 .. Len(a) : n \in 1 .. Len(ab) /\ ab[n] = a[n]
           /\ \A n \in 1 .. Len(b) : Len(a) + n \in 1 .. Len(ab) /\ ab[Len(a) + n] = b[n]
           /\ \A n \in 1 .. Len(ab) :
                 \/ n \in 1 .. Len(a) /\ ab[n] = a[n]
                 \/ n - Len(a) \in 1 .. Len(b) /\ ab[n] = b[n - Len(a)]
  OBVIOUS

\* The offsets of one more slot.
LEMMA OffsetsCandidates == ASSUME SInv, CInv, CollectOffsets PROVE CInv'
<1> DEFINE more == Offsets(i)
           a == Len(candidates)
<1>1. TypeOK /\ ProbeInv /\ ResultsGenuine /\ ProbedInv /\ CandidatesInv
  BY DEF SInv, CInv
<1>2. /\ pc = "collect" /\ pc' = "collect" /\ i' = i + 1 /\ i \in Nat \ {0} /\ i <= nprobe
      /\ UNCHANGED <<input, best_clusters, out_results, reply>> /\ input.use_ann
      /\ candidates' = candidates \o more /\ candidates \in Seq(Nat)
  BY <1>1 DEF CollectOffsets, TypeOK, Offsets, CandidatesInv
<1>3. /\ Partitioned' = Partitioned /\ NoneTooFar' = NoneTooFar
      /\ nprobe' = nprobe /\ clusters' = clusters /\ top_k' = top_k /\ table' = table
      /\ \A c : Live(c)' = Live(c)
  BY <1>2, SameInput
<1>4. EmptyProbe' = EmptyProbe /\ \A s : Offsets(s)' = Offsets(s)
  BY <1>2, <1>3 DEF EmptyProbe, Offsets
<1>5. ProbedInv'
  BY <1>1, <1>2, <1>3, <1>4 DEF ProbedInv
<1>6. nprobe \in Nat /\ i \in 1 .. nprobe /\ Len(clusters) \in Nat
  BY <1>1, <1>2, SlotsOK
<1>7. \A s \in 1 .. nprobe : best_clusters[s].cluster_idx \in 1 .. Len(clusters)
  BY <1>1 DEF TypeOK
<1>8. \A s \in 1 .. nprobe : Offsets(s) \in Seq(Nat)
  BY <1>1, <1>7, ClusterOK DEF Offsets
<1>9. Collected' = Collected \cup {i} /\ i \notin Collected /\ Collected \subseteq 1 .. nprobe
  <2>1. /\ Collected = {s \in 1 .. nprobe : s < i}
        /\ Collected' = {s \in 1 .. nprobe : s < i + 1}
    BY <1>2, <1>3 DEF Collected
  <2> QED BY <2>1, <1>6
<1>10. /\ a \in Nat /\ Len(more) \in Nat /\ Len(candidates') = a + Len(more)
       /\ \A n \in 1 .. a : n \in 1 .. Len(candidates') /\ candidates'[n] = candidates[n]
       /\ \A n \in 1 .. Len(more) : /\ a + n \in 1 .. Len(candidates')
                                    /\ candidates'[a + n] = more[n]
       /\ \A n \in 1 .. Len(candidates') :
             \/ n \in 1 .. a /\ candidates'[n] = candidates[n]
             \/ n - a \in 1 .. Len(more) /\ candidates'[n] = more[n - a]
  <2>1. more \in Seq(Nat)
    BY <1>6, <1>8
  <2> HIDE DEF more
  <2> QED BY <2>1, <1>2, ConcatElements
<1>11. /\ \A n \in 1 .. a : \E s \in Collected :
             \E q \in 1 .. Len(Offsets(s)) : candidates[n] = Offsets(s)[q]
       /\ \A s \in Collected : \A q \in 1 .. Len(Offsets(s)) :
             \E n \in 1 .. a : candidates[n] = Offsets(s)[q]
  BY <1>1, <1>2 DEF CandidatesInv
<1>12. ASSUME NEW n \in 1 .. Len(candidates')
       PROVE  \E s \in Collected' :
                 \E q \in 1 .. Len(Offsets(s)) : candidates'[n] = Offsets(s)[q]
  <2>1. CASE n \in 1 .. a /\ candidates'[n] = candidates[n]
    BY <2>1, <1>9, <1>11
  <2>2. CASE n - a \in 1 .. Len(more) /\ candidates'[n] = more[n - a]
    BY <2>2, <1>9
  <2> QED BY <2>1, <2>2, <1>10
<1>13. ASSUME NEW s \in Collected', NEW q \in 1 .. Len(Offsets(s))
       PROVE  \E n \in 1 .. Len(candidates') : candidates'[n] = Offsets(s)[q]
  <2>1. CASE s \in Collected
    <3>1. PICK n \in 1 .. a : candidates[n] = Offsets(s)[q]
      BY <2>1, <1>11
    <3> QED BY <3>1, <1>10
  <2>2. CASE s = i
    <3>1. a + q \in 1 .. Len(candidates') /\ candidates'[a + q] = Offsets(s)[q]
      BY <2>2, <1>10
    <3> QED BY <3>1
  <2> QED BY <2>1, <2>2, <1>9
<1>14. ASSUME nprobe <= Len(clusters), NoneTooFar, Partitioned,
              NEW m \in 1 .. Len(candidates'), NEW n \in 1 .. Len(candidates'),
              Live(candidates'[m]), candidates'[m] = candidates'[n]
       PROVE  m = n
  <2>1. ASSUME NEW s \in 1 .. nprobe, NEW t \in 1 .. nprobe,
               NEW q \in 1 .. Len(Offsets(s)), NEW r \in 1 .. Len(Offsets(t)),
               Offsets(s)[q] = candidates'[m], Offsets(t)[r] = candidates'[m]
        PROVE  s = t /\ q = r
    <3>1. best_clusters[s].cluster_idx = best_clusters[t].cluster_idx /\ q = r
      <4> DEFINE j == best_clusters[s].cluster_idx
                 k == best_clusters[t].cluster_idx
                 c == candidates'[m]
      <4>1. /\ j \in 1 .. Len(clusters) /\ k \in 1 .. Len(clusters)
            /\ q \in 1 .. Len(clusters[j].byte_offsets) /\ r \in 1 .. Len(clusters[k].byte_offsets)
            /\ clusters[j].byte_offsets[q] = c /\ clusters[k].byte_offsets[r] = c
            /\ Live(c)
        BY <2>1, <1>7, <1>14 DEF Offsets
      <4> HIDE DEF j, k, c
      <4>2. \E x \in 1 .. Len(clusters) : \E y \in 1 .. Len(clusters[x].byte_offsets) :
               /\ clusters[x].byte_offsets[y] = c
               /\ \A l \in 1 .. Len(clusters) : \A o \in 1 .. Len(clusters[l].byte_offsets) :
                     clusters[l].byte_offsets[o] = c => l = x /\ o = y
        BY <4>1, <1>14, OnePlace, Zenon
      <4>3. j = k /\ q = r
        BY <4>1, <4>2
      <4> QED BY <4>3 DEF j, k
    <3>2. s # t => best_clusters[s].cluster_idx # best_clusters[t].cluster_idx
      BY <1>1, <1>2, <1>14, OwnClusters
    <3> QED BY <3>1, <3>2
  <2>2. ASSUME NEW x \in 1 .. a, NEW y \in 1 .. Len(candidates'), y - a \in 1 .. Len(more),
               candidates[x] = candidates'[m], more[y - a] = candidates'[m]
        PROVE  FALSE
    <3>1. PICK s \in Collected : \E q \in 1 .. Len(Offsets(s)) : candidates[x] = Offsets(s)[q]
      BY <1>11
    <3>2. s \in 1 .. nprobe /\ s # i
      BY <1>9
    <3> QED BY <3>1, <3>2, <2>1, <2>2, <1>6
  <2>3. CASE m \in 1 .. a /\ candidates'[m] = candidates[m]
    <3>1. CASE n \in 1 .. a /\ candidates'[n] = candidates[n]
      BY <2>3, <3>1, <1>1, <1>2, <1>14 DEF CandidatesInv
    <3>2. CASE n - a \in 1 .. Len(more) /\ candidates'[n] = more[n - a]
      BY <2>2, <2>3, <3>2, <1>14
    <3> QED BY <3>1, <3>2, <1>10
  <2>4. CASE m - a \in 1 .. Len(more) /\ candidates'[m] = more[m - a]
    <3>1. CASE n \in 1 .. a /\ candidates'[n] = candidates[n]
      BY <2>2, <2>4, <3>1, <1>14
    <3>2. CASE n - a \in 1 .. Len(more) /\ candidates'[n] = more[n - a]
      <4>1. m - a = n - a
        BY <2>1, <2>4, <3>2, <1>6, <1>14
      <4> QED BY <4>1, <1>10
    <3> QED BY <3>1, <3>2, <1>10
  <2> QED BY <2>3, <2>4, <1>10
<1>15. CandidatesInv'
  <2>1. /\ \A n \in 1 .. Len(candidates') : \E s \in Collected' :
              \E q \in 1 .. Len(Offsets(s)') : candidates'[n] = Offsets(s)'[q]
        /\ \A s \in Collected' : \A q \in 1 .. Len(Offsets(s)') :
              \E n \in 1 .. Len(candidates') : candidates'[n] = Offsets(s)'[q]
    BY <1>4, <1>12, <1>13
  <2>2. nprobe' <= Len(clusters') /\ NoneTooFar' /\ Partitioned' =>
              \A m, n \in 1 .. Len(candidates') :
                  Live(candidates[m])' /\ candidates'[m] = candidates'[n] => m = n
    BY <1>3, <1>14 DEF Live
  <2> QED BY <2>1, <2>2, <1>2 DEF CandidatesInv
<1>16. SerializedInv'
  BY <1>2 DEF SerializedInv
<1> QED BY <1>5, <1>15, <1>16 DEF CInv

\* The other steps.
LEMMA NextCandidates == SInv /\ CInv /\ [Next]_vars => CInv'
<1> SUFFICES ASSUME SInv, CInv, [Next]_vars PROVE CInv'
  OBVIOUS
<1>1. TypeOK /\ ProbeInv /\ ResultsGenuine /\ ProbedInv /\ CandidatesInv /\ SerializedInv
  BY DEF SInv, CInv
<1>2. CASE UNCHANGED vars
  <2>1. UNCHANGED <<input, pc, i, best_clusters, candidates, out_results, heap, reply>>
    BY <1>2 DEF vars
  <2>2. UNCHANGED <<nprobe, clusters, top_k, table>> /\ Collected' = Collected
        /\ EmptyProbe' = EmptyProbe /\ Partitioned' = Partitioned
        /\ NoneTooFar' = NoneTooFar
        /\ serialize_search_results' = serialize_search_results
    BY <2>1, SameInput DEF nprobe, clusters, top_k, table, Collected, EmptyProbe,
                           serialize_search_results
  <2>3. ProbedInv'
    BY <2>1, <2>2, <1>1 DEF ProbedInv
  <2>4. CandidatesInv'
    <3>1. CASE pc = "probe"
      <4>1. Collected' = {}
        BY <3>1, <2>1 DEF Collected
      <4> QED BY <4>1, <3>1, <2>1, <1>1 DEF CandidatesInv
    <3>2. CASE pc # "probe"
      BY <3>2, <2>1, <2>2, <1>1, CandidatesKept
    <3> QED BY <3>1, <3>2
  <2>5. SerializedInv'
    BY <2>1, <2>2, <1>1 DEF SerializedInv
  <2> QED BY <2>3, <2>4, <2>5 DEF CInv
<1>3. CASE ProbeEnds
  <2>1. /\ pc = "probe" /\ pc' = "collect" /\ i' = 1 /\ candidates = <<>>
        /\ UNCHANGED <<input, best_clusters, candidates>> /\ input.use_ann
    BY <1>1, <1>3 DEF ProbeEnds, CandidatesInv
  <2>2. UNCHANGED <<nprobe, table>> /\ EmptyProbe' = EmptyProbe
    BY <2>1, SameInput DEF EmptyProbe
  <2>3. Collected' = {}
    BY <2>1 DEF Collected
  <2>4. ProbedInv'
    BY <2>1, <2>2, <1>1 DEF ProbedInv
  <2>5. CandidatesInv'
    BY <2>1, <2>3 DEF CandidatesInv
  <2>6. SerializedInv'
    BY <2>1 DEF SerializedInv
  <2> QED BY <2>4, <2>5, <2>6 DEF CInv
<1>4. CASE CollectEnds \/ ScanCandidate \/ ScanEnds \/ Reply
  <2>1. /\ UNCHANGED <<input, best_clusters, candidates>>
        /\ pc # "probe" /\ pc' \in {"scan", "reply", "done"}
        /\ pc = "collect" => i > nprobe
    BY <1>4 DEF CollectEnds, ScanCandidate, ScanEnds, Reply
  <2>2. pc' = "done" => /\ reply' = Response(serialize_search_results)
                        /\ serialize_search_results' = serialize_search_results
    BY <1>4 DEF CollectEnds, ScanCandidate, ScanEnds, Reply, serialize_search_results, top_k
  <2>3. Collected' = Collected
    <3>1. nprobe' = nprobe /\ nprobe \in Nat
      BY <2>1, <1>1, SameInput, SlotsOK
    <3>2. Collected = 1 .. nprobe
      BY <3>1, <2>1, <1>1 DEF Collected, TypeOK
    <3>3. Collected' = 1 .. nprobe
      BY <3>1, <2>1 DEF Collected
    <3> QED BY <3>2, <3>3
  <2>4. ProbedInv' /\ CandidatesInv'
    BY <2>1, <2>3, <1>1, CandidatesKept
  <2>5. SerializedInv'
    BY <2>2 DEF SerializedInv
  <2> QED BY <2>4, <2>5 DEF CInv
<1> QED BY <1>2, <1>3, <1>4, ProbeCandidates, OffsetsCandidates DEF Next

--------------------------------------------------------------------------
(* The theorems.                                                            *)

\* The invariant holds in every reachable state.
THEOREM AlwaysSInv == Spec => []SInv
<1> QED BY InitInv, NextInv, PTL DEF Spec

\* Type correctness: in particular no slot is written past top_k or nprobe.
THEOREM SearchTypeCorrect == Spec => []TypeOK
<1>1. SInv => TypeOK
  BY DEF SInv
<1> QED BY <1>1, AlwaysSInv, PTL

\* flat_search and db_ann_search show only candidates that may be seen, each
\* once, with their own id and distance, nearest first.
THEOREM OnlyGenuineResults == Spec => []ResultsGenuine
<1>1. SInv => ResultsGenuine
  BY DEF SInv
<1> QED BY <1>1, AlwaysSInv, PTL

\* They leave out no nearer candidate, for every top_k and every table.
THEOREM TheNearestResults == Spec => []ResultsNearest
<1>1. SInv => ResultsNearest
  BY DEF SInv
<1> QED BY <1>1, AlwaysSInv, PTL

\* ivf_search probes the nearest clusters, for every nprobe and every index.
THEOREM TheNearestProbes == Spec => []ProbesNearest
<1>1. SInv => ProbesNearest
  <2> SUFFICES ASSUME SInv, input.use_ann, NEW j \in 1 .. Len(clusters),
                      pc # "probe" \/ j < i
               PROVE  \/ \E s \in 1 .. nprobe : best_clusters[s].cluster_idx = j
                      \/ \A s \in 1 .. nprobe : best_clusters[s].dis <= clusters[j].dis
    BY DEF ProbesNearest
  <2>1. /\ Slots(best_clusters, nprobe) /\ nprobe \in 1 .. nprobe /\ clusters[j].dis \in Int
    BY SlotsOK, ClusterOK DEF SInv
  <2>2. CASE \E s \in 1 .. nprobe :
               best_clusters[s] = [cluster_idx |-> j, dis |-> clusters[j].dis]
    BY <2>2
  <2>3. CASE best_clusters[nprobe].dis <= clusters[j].dis
    BY <2>1, <2>3 DEF Slots, Ascending
  <2> QED BY <2>2, <2>3 DEF SInv, ProbeInv
<1> QED BY <1>1, AlwaysSInv, PTL

\* No metadata copy is freed while a slot has it, nor held by two slots: the
\* caller's free of every slot frees each copy once.
THEOREM CopiesFreedOnce == Spec => []MetadataOwned
<1>1. SInv => MetadataOwned
  BY DEF SInv, CopyInv, MetadataOwned, ResultsGenuine, TypeOK
<1> QED BY <1>1, AlwaysSInv, PTL
\* What the candidates are holds in every reachable state.
THEOREM AlwaysCInv == Spec => []CInv
<1>1. Init => SInv /\ CInv
  BY InitInv, InitCandidates
<1>2. (SInv /\ CInv) /\ [Next]_vars => (SInv /\ CInv)'
  BY NextInv, NextCandidates
<1> QED BY <1>1, <1>2, PTL DEF Spec

\* ivf_search with as many probes as clusters gives db_ann_search every record of
\* the table once, for every index that partitions the records.
THEOREM ProbingAllIsExact == Spec => []FullProbeIsExact
<1>1. SInv /\ CInv => FullProbeIsExact
  <2> SUFFICES ASSUME SInv, CInv, pc \notin {"probe", "collect"}, input.use_ann,
                      nprobe = Len(clusters), NoneTooFar, Partitioned,
                      NEW c \in 1 .. Len(table), ~table[c].is_deleted
               PROVE  \E n \in 1 .. Len(candidates) :
                         /\ candidates[n] = c
                         /\ \A m \in 1 .. Len(candidates) : candidates[m] = c => m = n
    BY DEF FullProbeIsExact
  <2>1. TypeOK /\ ProbeInv /\ ResultsGenuine /\ ProbedInv /\ CandidatesInv
    BY DEF SInv, CInv
  <2>2. nprobe \in Nat \ {0} /\ nprobe <= Len(clusters) /\ Live(c) /\ pc # "probe"
    BY <2>1, SlotsOK DEF Live
  <2>3. PICK j \in 1 .. Len(clusters) : \E q \in 1 .. Len(clusters[j].byte_offsets) :
           clusters[j].byte_offsets[q] = c
    BY DEF Partitioned
  <2>4. \E s \in 1 .. nprobe : best_clusters[s].cluster_idx = j
    <3> DEFINE N == 1 .. nprobe
               f == [s \in N |-> best_clusters[s].cluster_idx]
    <3>1. \A s, t \in N : s # t => best_clusters[s].cluster_idx # best_clusters[t].cluster_idx
      BY <2>1, <2>2, OwnClusters
    <3>2. \A s \in N : best_clusters[s].cluster_idx \in N
      BY <2>1 DEF TypeOK
    <3>3. f \in Injection(N, N)
      BY <3>1, <3>2 DEF Injection, IsInjective
    <3>4. IsFiniteSet(N)
      BY <2>2, FS_Interval
    <3> HIDE DEF f, N
    <3>5. f \in Surjection(N, N)
      BY <3>3, <3>4, FS_Injection
    <3>6. \E s \in N : f[s] = j
      BY <3>5 DEF Surjection, N
    <3> QED BY <3>6 DEF f, N
  <2>5. \E n \in 1 .. Len(candidates) : candidates[n] = c
    <3>1. PICK s \in 1 .. nprobe : best_clusters[s].cluster_idx = j
      BY <2>4
    <3>2. s \in Collected
      BY DEF Collected
    <3>3. \E q \in 1 .. Len(Offsets(s)) : Offsets(s)[q] = c
      BY <2>3, <3>1 DEF Offsets
    <3>4. \A q \in 1 .. Len(Offsets(s)) :
             \E n \in 1 .. Len(candidates) : candidates[n] = Offsets(s)[q]
      BY <3>2, <2>1, Zenon DEF CandidatesInv
    <3> QED BY <3>3, <3>4
  <2>6. \A m, n \in 1 .. Len(candidates) :
           Live(candidates[m]) /\ candidates[m] = candidates[n] => m = n
    BY <2>1, <2>2 DEF CandidatesInv
  <2> QED BY <2>2, <2>5, <2>6
<1> QED BY <1>1, AlwaysSInv, AlwaysCInv, PTL

\* What is sent is the beginning of what there is, and all of it if it has room.
LEMMA SentPart ==
    ASSUME NEW T, NEW json \in Seq(T)
    PROVE  /\ Len(Sent(json)) \in Nat
           /\ \A n \in 1 .. Len(Sent(json)) : n \in 1 .. Len(json) /\ Sent(json)[n] = json[n]
           /\ \/ Len(Sent(json)) = Len(json)
              \/ Len(Sent(json)) = ReplyRoom /\ ReplyRoom < Len(json)
<1> DEFINE m == IF Len(json) < ReplyRoom THEN Len(json) ELSE ReplyRoom
<1>1. ReplyRoom \in Nat /\ Len(json) \in Nat
  BY SearchAssumption
<1>2. m \in Nat /\ m <= Len(json) /\ (m = Len(json) \/ (m = ReplyRoom /\ ReplyRoom < Len(json)))
  BY <1>1
<1>3. Sent(json) = SubSeq(json, 1, m)
  BY DEF Sent
<1> HIDE DEF m
<1>4. Len(Sent(json)) = m /\ \A n \in 1 .. m : n \in 1 .. Len(json) /\ Sent(json)[n] = json[n]
  BY <1>1, <1>2, <1>3
<1> QED BY <1>2, <1>4

\* The reply has every result found but those with id 0 and, when they have no room
\* in the buffer, the farthest; nothing else; and no record twice unless there are
\* more probes than clusters in reach (serialize_search_results and the response).
THEOREM RepliesComplete == Spec => []ReplyComplete
<1>1. SInv /\ CInv => ReplyComplete
  <2> SUFFICES ASSUME SInv, CInv, pc = "done" PROVE ReplyComplete
    BY DEF ReplyComplete
  <2> DEFINE S == {s \in 1 .. top_k : out_results[s].id # 0}
             T == [at : Nat, id : Nat, dis : 0 .. FLT_MAX, metadata : Nat]
  <2>1. TypeOK /\ ProbeInv /\ ResultsGenuine /\ ProbedInv /\ CandidatesInv
    BY DEF SInv, CInv
  <2> DEFINE json == Picked(out_results, S)
             body == reply.body
  <2>2. body = Sent(json) /\ reply.content_length = Len(json)
    BY DEF CInv, SerializedInv, serialize_search_results, Response
  <2>3. out_results \in Seq(T) /\ Len(out_results) = top_k /\ top_k \in Nat
    <3>1. out_results \in [1 .. top_k -> T] /\ top_k \in Nat
      BY <2>1, SlotsOK DEF TypeOK
    <3> HIDE DEF T
    <3> QED BY <3>1
  <2>4. S \in SUBSET (1 .. Len(out_results)) /\ S \in SUBSET Nat /\ IsFiniteSet(S)
    <3>1. S \subseteq 1 .. top_k
      OBVIOUS
    <3>2. IsFiniteSet(1 .. top_k)
      BY <2>3, FS_Interval
    <3> HIDE DEF S
    <3>3. IsFiniteSet(S)
      BY <3>1, <3>2, FS_Subset
    <3> QED BY <3>1, <3>3, <2>3
  <2>5. /\ json \in Seq(T) /\ Len(json) = Cardinality(S) /\ Len(json) \in Nat
        /\ \A n \in 1 .. Len(json) : Nth(S, n) \in S /\ json[n] = out_results[Nth(S, n)]
        /\ \A j \in S : \E n \in 1 .. Len(json) : Nth(S, n) = j
        /\ \A m, n \in 1 .. Len(json) : m < n => Nth(S, m) < Nth(S, n)
    <3> HIDE DEF S, T
    <3>1. out_results \in Seq(T) /\ S \in SUBSET (1 .. Len(out_results))
      BY <2>3, <2>4
    <3> QED BY <3>1, PickedElements, Zenon
  <2> HIDE DEF json
  <2>50. /\ Len(body) \in Nat /\ \A n \in 1 .. Len(body) : n \in 1 .. Len(json) /\ body[n] = json[n]
         /\ \/ Len(body) = Len(json)
            \/ Len(body) = ReplyRoom /\ ReplyRoom < Len(json)
    <3> HIDE DEF S, T, body
    <3>1. json \in Seq(T) /\ body = Sent(json)
      BY <2>2, <2>5
    <3> QED BY <3>1, SentPart
  <2>6. \A m, n \in 1 .. Len(json) : Nth(S, m) = Nth(S, n) => m = n
    <3>1. \A n \in 1 .. Cardinality(S) : Rank(S, Nth(S, n)) = n
      <4> HIDE DEF S
      <4> QED BY <2>4, NthRank
    <3> HIDE DEF S
    <3> QED BY <3>1, <2>5
  <2>7. EmptyResult.id = 0 /\ EmptyResult.at = 0
    BY DEF EmptyResult
  <2>8. Looked = 1 .. Len(candidates) /\ 0 \notin Looked
    BY <2>1 DEF Looked
  <2>9. \A s \in S : /\ out_results[s].at \in Looked /\ out_results[s].at # 0
                     /\ Searchable(candidates[out_results[s].at])
    BY <2>1, <2>7, <2>8 DEF ResultsGenuine
  <2>10. \A s, t \in S : s # t => out_results[s].at # out_results[t].at
    BY <2>1, <2>9 DEF ResultsGenuine
  <2>11. ASSUME NEW s \in 1 .. top_k, out_results[s].at # 0, out_results[s].id # 0
         PROVE  \/ \E n \in 1 .. Len(body) : body[n] = out_results[s]
                \/ /\ Len(body) = ReplyRoom /\ ReplyRoom < reply.content_length
                   /\ \A n \in 1 .. ReplyRoom : body[n].dis <= out_results[s].dis
    <3>1. s \in S
      BY <2>11
    <3>2. S \subseteq 1 .. top_k
      OBVIOUS
    <3> HIDE DEF S, T, body
    <3>3. PICK n \in 1 .. Len(json) : Nth(S, n) = s
      BY <3>1, <2>5
    <3>4. CASE n <= Len(body)
      <4>1. n \in 1 .. Len(body)
        BY <3>4, <2>50
      <4> QED BY <4>1, <3>3, <2>5, <2>50
    <3>5. CASE ~(n <= Len(body))
      <4>1. Len(body) = ReplyRoom /\ ReplyRoom < Len(json)
        BY <3>5, <2>5, <2>50
      <4>2. ASSUME NEW m \in 1 .. ReplyRoom PROVE body[m].dis <= out_results[s].dis
        <5>1. m \in 1 .. Len(json) /\ m < n /\ body[m] = json[m]
          BY <4>1, <3>5, <2>5, <2>50
        <5>2. Nth(S, m) \in 1 .. top_k /\ Nth(S, m) <= s /\ body[m] = out_results[Nth(S, m)]
          <6>1. Nth(S, m) \in S /\ json[m] = out_results[Nth(S, m)] /\ Nth(S, m) < Nth(S, n)
            BY <5>1, <2>5
          <6>2. Nth(S, m) \in 1 .. top_k /\ s \in 1 .. top_k
            BY <6>1, <3>2, Zenon
          <6>3. Nth(S, m) < s
            BY <6>1, <3>3, Zenon
          <6>4. Nth(S, m) <= s
            BY <6>2, <6>3, <2>3
          <6>5. body[m] = out_results[Nth(S, m)]
            BY <6>1, <5>1, Zenon
          <6> QED BY <6>2, <6>4, <6>5
        <5> QED BY <5>2, <2>1 DEF ResultsGenuine, Ascending
      <4> QED BY <4>1, <4>2, <2>2
    <3> QED BY <3>4, <3>5
  <2>12. \A n \in 1 .. Len(body) : \E s \in 1 .. top_k :
            body[n] = out_results[s] /\ out_results[s].at # 0
    <3>1. S \subseteq 1 .. top_k
      OBVIOUS
    <3> HIDE DEF S, body
    <3> SUFFICES ASSUME NEW n \in 1 .. Len(body)
                 PROVE  \E s \in 1 .. top_k : body[n] = out_results[s] /\ out_results[s].at # 0
      OBVIOUS
    <3>2. n \in 1 .. Len(json) /\ body[n] = json[n]
      BY <2>50
    <3>3. Nth(S, n) \in S /\ body[n] = out_results[Nth(S, n)]
      BY <3>2, <2>5
    <3> QED BY <3>1, <3>3, <2>9
  <2>13. ASSUME ~input.use_ann \/ (nprobe <= Len(clusters) /\ NoneTooFar /\ Partitioned),
                NEW m \in 1 .. Len(body), NEW n \in 1 .. Len(body), m # n
         PROVE  candidates[body[m].at] # candidates[body[n].at]
    <3> DEFINE x == body[m].at
               y == body[n].at
    <3>1. /\ x \in 1 .. Len(candidates) /\ y \in 1 .. Len(candidates) /\ x # y
          /\ Searchable(candidates[x])
      <4> HIDE DEF S, body
      <4>1. /\ m \in 1 .. Len(json) /\ n \in 1 .. Len(json) /\ m # n
            /\ body[m] = json[m] /\ body[n] = json[n]
        BY <2>13, <2>50
      <4>2. /\ Nth(S, m) \in S /\ body[m] = out_results[Nth(S, m)]
            /\ Nth(S, n) \in S /\ body[n] = out_results[Nth(S, n)]
        BY <4>1, <2>5
      <4>3. Nth(S, m) # Nth(S, n)
        BY <4>1, <2>6
      <4> QED BY <4>2, <4>3, <2>8, <2>9, <2>10
    <3>2. Live(candidates[x])
      BY <3>1 DEF Live, Searchable
    <3> HIDE DEF x, y
    <3>3. candidates[x] # candidates[y]
      <4>1. CASE ~input.use_ann
        <5>1. candidates = [j \in 1 .. Len(table) |-> j] /\ Len(table) \in Nat
          BY <4>1, <2>1, SlotsOK DEF CandidatesInv
        <5> QED BY <5>1, <3>1
      <4>2. CASE input.use_ann
        BY <4>2, <2>1, <2>13, <3>1, <3>2 DEF CandidatesInv
      <4> QED BY <4>1, <4>2
    <3> QED BY <3>3 DEF x, y
  <2> QED BY <2>11, <2>12, <2>13 DEF ReplyComplete
<1> QED BY <1>1, AlwaysSInv, AlwaysCInv, PTL

--------------------------------------------------------------------------
(* The training of the index: Kmeans, under names that a search does not     *)
(* use.                                                                      *)

CONSTANTS Scale, Trainings
VARIABLES training, stage, ittrate, centroid_vector, old_centroids, record_index, byte_offsets

Training == INSTANCE Kmeans WITH Inputs <- Trainings, input <- training, pc <- stage

\* best_cluster, and the records it sends to cluster j, when the centroids are c.
Best(x, c, r) ==
    CHOOSE j \in 1 .. x.k :
        /\ \A m \in 1 .. x.k : Training!euclidean(c[j], x.vector[r]) <= Training!euclidean(c[m], x.vector[r])
        /\ \A m \in 1 .. j - 1 : Training!euclidean(c[j], x.vector[r]) < Training!euclidean(c[m], x.vector[r])
Members(x, c, j) == {r \in 1 .. Len(x.vector) : ~x.is_deleted[r] /\ Best(x, c, r) = j}
Clustered(x, c) ==
    [j \in 1 .. x.k |-> Picked([r \in 1 .. Len(x.vector) |-> r], Members(x, c, j))]

\* A first pass is always made; another one only below the cap.
PassInv == stage = "assign" => ittrate = 0 \/ ittrate < training.max_iterations

\* The clusters are those of the centroids before the mean was taken.
ClustersInv ==
    /\ stage \in {"assign", "mean"} => centroid_vector = old_centroids
    /\ stage # "assign" => record_index = Clustered(training, old_centroids)

\* At the end a cluster's offsets are those of its records.
OffsetsInv ==
    stage = "done" => \A j \in 1 .. training.k :
        /\ Len(byte_offsets[j]) = Len(record_index[j])
        /\ \A n \in 1 .. Len(record_index[j]) :
              byte_offsets[j][n] = training.byte_offset[record_index[j][n]]

\* The inductive invariant of the training.
KInv == Training!TypeOK /\ PassInv /\ ClustersInv /\ OffsetsInv

\* The instance's copies of the operators on sequences are those operators.
LEMMA SameCardinality == ASSUME NEW S PROVE Training!Cardinality(S) = Cardinality(S)
BY DEF Training!Cardinality, Cardinality

LEMMA SameNth == ASSUME NEW S, NEW n PROVE Training!Nth(S, n) = Nth(S, n)
BY SameCardinality DEF Training!Nth, Nth

LEMMA SamePicked == ASSUME NEW s, NEW S PROVE Training!Picked(s, S) = Picked(s, S)
BY SameCardinality, SameNth DEF Training!Picked, Picked

LEMMA SameTotal == ASSUME NEW s PROVE Training!RunningTotal(s) = RunningTotal(s)
BY DEF Training!RunningTotal, RunningTotal

\* What the types of a training say of its parts.
LEMMA Distances ==
    ASSUME NEW a \in Int, NEW b \in Int
    PROVE  Training!euclidean(a, b) \in Nat
BY DEF Training!euclidean

LEMMA InputTypes ==
    ASSUME NEW x, Training!IsInput(x)
    PROVE  /\ x.vector \in Seq(Int) /\ Len(x.vector) \in Nat
           /\ x.k \in 1 .. Len(x.vector) /\ x.k \in Nat /\ x.max_iterations \in Nat
           /\ \A r \in 1 .. Len(x.vector) : x.vector[r] \in Int /\ x.byte_offset[r] \in Nat
                                            /\ x.is_deleted[r] \in BOOLEAN
BY DEF Training!IsInput

\* There is a nearest cluster, and best_cluster finds it.
LEMMA BestIsNearest ==
    ASSUME NEW x, Training!IsInput(x), NEW c \in [1 .. x.k -> Int], NEW r \in 1 .. Len(x.vector)
    PROVE  /\ Best(x, c, r) \in 1 .. x.k
           /\ \A m \in 1 .. x.k : Training!euclidean(c[Best(x, c, r)], x.vector[r])
                                     <= Training!euclidean(c[m], x.vector[r])
<1> DEFINE d(m) == Training!euclidean(c[m], x.vector[r])
           D == {d(m) : m \in 1 .. x.k}
<1>1. x.k \in Nat /\ 1 \in 1 .. x.k /\ \A m \in 1 .. x.k : d(m) \in Nat
  <2>1. x.k \in Nat /\ 1 \in 1 .. x.k /\ x.vector[r] \in Int
    BY InputTypes
  <2>2. ASSUME NEW m \in 1 .. x.k
        PROVE  Training!euclidean(c[m], x.vector[r]) \in Nat
    <3>1. c[m] \in Int
      OBVIOUS
    <3> QED BY <3>1, <2>1, Distances
  <2> QED BY <2>1, <2>2
<1> HIDE DEF d
<1>2. PICK best \in D : \A e \in D : best <= e
  <2>1. D \in SUBSET Nat /\ D # {}
    BY <1>1
  <2> HIDE DEF D
  <2> QED BY <2>1, LeastNatural
<1> DEFINE J == {m \in 1 .. x.k : d(m) = best}
<1>3. PICK j \in J : \A m \in J : j <= m
  <2>1. J \in SUBSET Nat /\ J # {}
    BY <1>1, <1>2
  <2> HIDE DEF J
  <2> QED BY <2>1, LeastNatural
<1>4. j \in 1 .. x.k /\ \A m \in 1 .. x.k : d(j) <= d(m)
  BY <1>2, <1>3
<1>5. \A m \in 1 .. j - 1 : d(j) < d(m)
  <2> SUFFICES ASSUME NEW m \in 1 .. j - 1 PROVE d(j) < d(m)
    OBVIOUS
  <2>1. m \in 1 .. x.k /\ ~(j <= m) /\ j \in Nat
    BY <1>1, <1>4
  <2>2. m \notin J
    <3> HIDE DEF J
    <3> QED BY <2>1, <1>3
  <2>3. d(m) # best /\ d(j) = best /\ d(m) \in Nat /\ d(j) \in Nat /\ d(j) <= d(m)
    BY <1>1, <1>3, <1>4, <2>1, <2>2
  <2> QED BY <2>3
<1>6. Best(x, c, r) = CHOOSE l \in 1 .. x.k :
        (\A m \in 1 .. x.k : d(l) <= d(m)) /\ (\A m \in 1 .. l - 1 : d(l) < d(m))
  BY DEF Best, d
<1>7. Best(x, c, r) \in 1 .. x.k /\ \A m \in 1 .. x.k : d(Best(x, c, r)) <= d(m)
  BY <1>4, <1>5, <1>6
<1> QED BY <1>7 DEF d

\* The clusters cl hold each live record at one place, with its best cluster,
\* and nothing else.
HoldOnce(x, c, cl) ==
    /\ cl \in [1 .. x.k -> Seq(1 .. Len(x.vector))]
    /\ \A j \in 1 .. x.k : Len(cl[j]) \in 0 .. Len(x.vector)
    /\ \A j \in 1 .. x.k : \A n \in 1 .. Len(cl[j]) : cl[j][n] \in Members(x, c, j)
    /\ \A j \in 1 .. x.k : \A r \in Members(x, c, j) : \E n \in 1 .. Len(cl[j]) : cl[j][n] = r
    /\ \A j \in 1 .. x.k : \A m, n \in 1 .. Len(cl[j]) : cl[j][m] = cl[j][n] => m = n

\* A pass of kmeans_build is what HoldOnce says: the counted fill of the arrays
\* neither drops nor repeats a record.
LEMMA ClusteredOnce ==
    ASSUME NEW x, Training!IsInput(x), NEW c \in [1 .. x.k -> Int]
    PROVE  HoldOnce(x, c, Clustered(x, c))
<1> DEFINE cl == Clustered(x, c)
           N == Len(x.vector)
           all == [r \in 1 .. N |-> r]
<1>1. N \in Nat /\ all \in Seq(1 .. N) /\ Len(all) = N /\ \A r \in 1 .. N : all[r] = r
  BY InputTypes
<1>2. ASSUME NEW j \in 1 .. x.k
      PROVE  /\ cl[j] \in Seq(1 .. N) /\ Len(cl[j]) \in 0 .. N
             /\ \A n \in 1 .. Len(cl[j]) : cl[j][n] \in Members(x, c, j)
             /\ \A r \in Members(x, c, j) : \E n \in 1 .. Len(cl[j]) : cl[j][n] = r
             /\ \A m, n \in 1 .. Len(cl[j]) : cl[j][m] = cl[j][n] => m = n
  <2> DEFINE S == Members(x, c, j)
             p == Picked(all, S)
  <2>1. S \in SUBSET (1 .. N)
    BY DEF Members
  <2>2. cl[j] = p
    BY DEF Clustered
  <2> HIDE DEF S, all, N
  <2>3. /\ p \in Seq(1 .. N) /\ Len(p) = Cardinality(S) /\ Len(p) \in Nat
        /\ \A n \in 1 .. Len(p) : Nth(S, n) \in S /\ p[n] = all[Nth(S, n)]
        /\ \A r \in S : \E n \in 1 .. Len(p) : Nth(S, n) = r
        /\ \A m, n \in 1 .. Len(p) : m < n => Nth(S, m) < Nth(S, n)
    BY <1>1, <2>1, PickedElements
  <2> HIDE DEF p
  <2>4. ASSUME NEW n \in 1 .. Len(p)
        PROVE  p[n] = Nth(S, n) /\ p[n] \in S
    <3>1. Nth(S, n) \in S /\ p[n] = all[Nth(S, n)]
      BY <2>3
    <3>2. Nth(S, n) \in 1 .. N
      BY <3>1, <2>1
    <3> QED BY <3>1, <3>2, <1>1
  <2>5. \A m, n \in 1 .. Len(p) : p[m] = p[n] => m = n
    <3>1. ASSUME NEW m \in 1 .. Len(p), NEW n \in 1 .. Len(p), m < n
          PROVE  p[m] # p[n]
      <4>1. p[m] = Nth(S, m) /\ p[n] = Nth(S, n) /\ Nth(S, m) < Nth(S, n)
        BY <2>3, <2>4, <3>1
      <4>2. p[m] \in 1 .. N /\ p[n] \in 1 .. N
        BY <2>1, <2>4
      <4> HIDE DEF p, S
      <4> QED BY <1>1, <4>1, <4>2
    <3>2. \A m, n \in 1 .. Len(p) : m = n \/ m < n \/ n < m
      BY <2>3
    <3> QED BY <3>1, <3>2
  <2>6. Len(p) <= N
    <3>1. IsFiniteSet(1 .. N) /\ Cardinality(1 .. N) = N
      BY <1>1, FS_Interval
    <3> QED BY <3>1, <2>1, <2>3, FS_Subset
  <2>7. \A r \in S : \E n \in 1 .. Len(p) : p[n] = r
    BY <2>3, <2>4
  <2> QED BY <1>1, <2>2, <2>3, <2>4, <2>5, <2>6, <2>7 DEF S
<1>3. cl = [j \in 1 .. x.k |-> cl[j]]
  BY DEF Clustered
<1> HIDE DEF cl
<1>4. cl \in [1 .. x.k -> Seq(1 .. N)]
  BY <1>2, <1>3
<1> QED BY <1>2, <1>4 DEF cl, HoldOnce

\* Where every action starts from.
LEMMA Unfolded ==
    ASSUME KInv
    PROVE  /\ Training!IsInput(training) /\ training.k \in Nat /\ Len(training.vector) \in Nat
           /\ Training!k = training.k /\ Training!count = Len(training.vector)
           /\ ittrate \in Nat /\ training.max_iterations \in Nat
           /\ centroid_vector \in [1 .. training.k -> Int]
           /\ old_centroids \in [1 .. training.k -> Int]
           /\ record_index \in [1 .. training.k -> Seq(1 .. Len(training.vector))]
           /\ byte_offsets \in [1 .. training.k -> Seq(Nat)]
BY InputTypes DEF KInv, Training!TypeOK, Training!k, Training!count

\* KInv holds at the start and is kept by every step, one lemma each.
LEMMA TrainingInit ==
    ASSUME \A x \in Trainings : Training!IsInput(x), Training!Init
    PROVE  KInv
<1> USE DEF Training!Init
<1>1. /\ Training!IsInput(training) /\ training.k \in Nat /\ training.max_iterations \in Nat
      /\ Len(training.vector) \in Nat
      /\ \A r \in 1 .. Len(training.vector) : training.vector[r] \in Int
  BY InputTypes
<1>2. centroid_vector \in [1 .. training.k -> Int]
  <2>1. PICK pick \in [1 .. training.k -> 1 .. Len(training.vector)] :
            centroid_vector = [j \in 1 .. training.k |-> training.vector[pick[j]]]
    OBVIOUS
  <2> QED BY <2>1, <1>1
<1>3. /\ record_index \in [1 .. training.k -> Seq(1 .. Len(training.vector))]
      /\ byte_offsets \in [1 .. training.k -> Seq(Nat)]
  OBVIOUS
<1>4. Training!TypeOK
  BY <1>1, <1>2, <1>3 DEF Training!TypeOK, Training!k, Training!count
<1> QED BY <1>4 DEF KInv, PassInv, ClustersInv, OffsetsInv

LEMMA AssignStep ==
    ASSUME KInv, Training!Assign
    PROVE  KInv'
<1> USE DEF Training!Assign
<1>0. /\ Training!IsInput(training) /\ training.k \in Nat /\ Len(training.vector) \in Nat
      /\ Training!k = training.k /\ Training!count = Len(training.vector)
      /\ ittrate \in Nat /\ training.max_iterations \in Nat
      /\ centroid_vector \in [1 .. training.k -> Int]
      /\ old_centroids \in [1 .. training.k -> Int]
      /\ byte_offsets \in [1 .. training.k -> Seq(Nat)]
  BY Unfolded
<1>1. centroid_vector = old_centroids
  BY DEF KInv, ClustersInv
<1>2. record_index' = Clustered(training, old_centroids)
  <2>1. ASSUME NEW r PROVE Training!best_cluster(r) = Best(training, old_centroids, r)
    BY <1>0, <1>1 DEF Training!best_cluster, Best
  <2>2. ASSUME NEW j
        PROVE  {r \in Training!Live : Training!best_cluster(r) = j} = Members(training, old_centroids, j)
    BY <1>0, <2>1 DEF Training!Live, Members
  <2>3. record_index' = [j \in 1 .. training.k |->
            Picked([r \in 1 .. Len(training.vector) |-> r], Members(training, old_centroids, j))]
    <3>1. record_index' = [j \in 1 .. Training!k |->
              Picked([r \in 1 .. Training!count |-> r],
                     {r \in Training!Live : Training!best_cluster(r) = j})]
      BY SamePicked
    <3> HIDE DEF Training!Assign
    <3> QED BY <3>1, <1>0, <2>2, Zenon
  <2> HIDE DEF Training!Assign
  <2> QED BY <2>3 DEF Clustered
<1>3. record_index' \in [1 .. training.k -> Seq(1 .. Len(training.vector))]
  <2> HIDE DEF Training!Assign
  <2>1. Clustered(training, old_centroids) \in [1 .. training.k -> Seq(1 .. Len(training.vector))]
    BY <1>0, ClusteredOnce DEF HoldOnce
  <2> QED BY <1>2, <2>1
<1>4. ittrate' \in Nat /\ (ittrate' <= training.max_iterations \/ ittrate' <= 1)
  BY <1>0 DEF KInv, PassInv
<1>5. Training!TypeOK'
  BY <1>0, <1>3, <1>4 DEF Training!TypeOK, Training!k, Training!count
<1> QED BY <1>1, <1>2, <1>5 DEF KInv, PassInv, ClustersInv, OffsetsInv

\* A sum of coordinates is a coordinate.
LEMMA MeanType ==
    ASSUME KInv, NEW j \in 1 .. training.k
    PROVE  Training!Mean(j) \in Int
<1> DEFINE n == Len(record_index[j])
           s == [m \in 1 .. n |-> training.vector[record_index[j][m]]]
<1>0. /\ Training!IsInput(training) /\ Len(training.vector) \in Nat
      /\ centroid_vector \in [1 .. training.k -> Int]
      /\ record_index \in [1 .. training.k -> Seq(1 .. Len(training.vector))]
  BY Unfolded
<1>1. n \in Nat /\ \A m \in 1 .. n : record_index[j][m] \in 1 .. Len(training.vector)
  BY <1>0
<1>2. s \in Seq(Int) /\ Len(s) = n
  BY <1>0, <1>1, InputTypes
<1>3. Training!ClusterSum(j) = RunningTotal(s)[n + 1]
  BY SameTotal DEF Training!ClusterSum
<1>4. RunningTotal(s)[n + 1] \in Int
  <2>1. Summable(Int)
    BY DEF Summable
  <2> HIDE DEF s, n
  <2>2. RunningTotal(s) \in [1 .. Len(s) + 1 -> Int]
    BY <2>1, <1>2, TotalsIn
  <2>3. n + 1 \in 1 .. Len(s) + 1
    BY <1>1, <1>2
  <2> QED BY <2>2, <2>3
<1>5. CASE record_index[j] = <<>>
  BY <1>0, <1>5 DEF Training!Mean
<1>6. CASE record_index[j] # <<>>
  <2>1. n # 0
    BY <1>0, <1>6
  <2>2. Training!ClusterSum(j) \in Int
    <3> HIDE DEF s, n
    <3> QED BY <1>3, <1>4
  <2>3. Training!ClusterSum(j) \div n \in Int
    <3> HIDE DEF n
    <3> QED BY <2>1, <2>2, <1>1
  <2> QED BY <2>3, <1>6 DEF Training!Mean
<1> QED BY <1>5, <1>6

LEMMA RecomputeStep ==
    ASSUME KInv, Training!Recompute
    PROVE  KInv'
<1> USE DEF Training!Recompute
<1>0. /\ Training!k = training.k
      /\ centroid_vector' = [j \in 1 .. training.k |-> Training!Mean(j)]
  BY Unfolded
<1>1. centroid_vector' \in [1 .. training.k -> Int]
  BY <1>0, MeanType
<1>2. Training!TypeOK'
  BY <1>1 DEF KInv, Training!TypeOK, Training!k, Training!count
<1> QED BY <1>2 DEF KInv, PassInv, ClustersInv, OffsetsInv

LEMMA AgainStep ==
    ASSUME KInv, Training!Again
    PROVE  KInv'
<1> USE DEF Training!Again
<1>1. Training!TypeOK'
  BY DEF KInv, Training!TypeOK, Training!k, Training!count
<1> QED BY <1>1 DEF KInv, PassInv, ClustersInv, OffsetsInv

LEMMA SettleStep ==
    ASSUME KInv, Training!Settle
    PROVE  KInv'
<1> USE DEF Training!Settle
<1>1. Training!TypeOK'
  BY DEF KInv, Training!TypeOK, Training!k, Training!count
<1> QED BY <1>1 DEF KInv, PassInv, ClustersInv, OffsetsInv

LEMMA MapStep ==
    ASSUME KInv, Training!MapOffsets
    PROVE  KInv'
<1> USE DEF Training!MapOffsets
<1>0. /\ Training!IsInput(training) /\ training.k \in Nat /\ Len(training.vector) \in Nat
      /\ Training!k = training.k
      /\ record_index \in [1 .. training.k -> Seq(1 .. Len(training.vector))]
  BY Unfolded
<1>1. ASSUME NEW j \in 1 .. training.k
      PROVE  /\ byte_offsets'[j] \in Seq(Nat) /\ Len(byte_offsets'[j]) = Len(record_index[j])
             /\ \A n \in 1 .. Len(record_index[j]) :
                   byte_offsets'[j][n] = training.byte_offset[record_index[j][n]]
  <2>1. record_index[j] \in Seq(1 .. Len(training.vector)) /\ Len(record_index[j]) \in Nat
    <3>1. record_index[j] \in Seq(1 .. Len(training.vector))
      BY ONLY <1>0, j \in 1 .. training.k
    <3> QED BY ONLY <3>1
  <2>2. ASSUME NEW n \in 1 .. Len(record_index[j])
        PROVE  training.byte_offset[record_index[j][n]] \in Nat
    <3>1. record_index[j][n] \in 1 .. Len(training.vector)
      BY <2>1
    <3> QED BY <1>0, <3>1, InputTypes
  <2>3. byte_offsets'[j] = [n \in 1 .. Len(record_index[j]) |-> training.byte_offset[record_index[j][n]]]
    BY <1>0
  <2> HIDE DEF Training!MapOffsets
  <2> QED BY <2>1, <2>2, <2>3
<1>2. byte_offsets' \in [1 .. training.k -> Seq(Nat)]
  BY <1>0, <1>1
<1>3. Training!TypeOK'
  BY <1>2 DEF KInv, Training!TypeOK, Training!k, Training!count
<1>4. OffsetsInv'
  <2>1. training' = training /\ record_index' = record_index
    OBVIOUS
  <2> HIDE DEF Training!MapOffsets
  <2> QED BY <1>1, <2>1 DEF OffsetsInv
<1> QED BY <1>3, <1>4 DEF KInv, PassInv, ClustersInv

\* No step of a training breaks KInv.
LEMMA TrainingNext == KInv /\ [Training!Next]_(Training!vars) => KInv'
<1> SUFFICES ASSUME KInv, [Training!Next]_(Training!vars) PROVE KInv'
  OBVIOUS
<1>1. CASE UNCHANGED Training!vars
  BY <1>1 DEF KInv, PassInv, ClustersInv, OffsetsInv, Training!vars, Training!TypeOK,
              Training!k, Training!count
<1> QED
  BY <1>1, AssignStep, RecomputeStep, AgainStep, SettleStep, MapStep DEF Training!Next

\* The inductive invariant, for every number of records, k and max_iterations and
\* whatever records are deleted: the passes are capped, the clusters are those
\* that the centroids before the mean make, and at the end the offsets follow
\* the clusters.
THEOREM TrainingInv ==
    ASSUME \A x \in Trainings : Training!IsInput(x)
    PROVE  Training!Spec => []KInv
BY TrainingInit, TrainingNext, PTL DEF Training!Spec

\* KInv implies the two properties.
LEMMA KInvOnce == KInv => Training!EveryRecordOnce
<1> SUFFICES ASSUME KInv PROVE Training!EveryRecordOnce
  OBVIOUS
<1>0. /\ Training!IsInput(training) /\ training.k \in Nat /\ Len(training.vector) \in Nat
      /\ Training!k = training.k /\ Training!count = Len(training.vector)
      /\ old_centroids \in [1 .. training.k -> Int]
  BY Unfolded
<1>1. CASE stage = "assign"
  BY <1>1 DEF Training!EveryRecordOnce, KInv
<1>2. CASE stage # "assign"
  <2>1. record_index = Clustered(training, old_centroids)
    BY <1>2 DEF KInv, ClustersInv
  <2>2. /\ \A j \in 1 .. training.k : Len(record_index[j]) \in 0 .. Len(training.vector)
        /\ \A j \in 1 .. training.k : \A n \in 1 .. Len(record_index[j]) : record_index[j][n] \in Members(training, old_centroids, j)
        /\ \A j \in 1 .. training.k : \A r \in Members(training, old_centroids, j) :
              \E n \in 1 .. Len(record_index[j]) : record_index[j][n] = r
        /\ \A j \in 1 .. training.k : \A m, n \in 1 .. Len(record_index[j]) :
              record_index[j][m] = record_index[j][n] => m = n
    <3>1. HoldOnce(training, old_centroids, record_index)
      BY <1>0, <2>1, ClusteredOnce
    <3> QED BY <3>1 DEF HoldOnce
  <2>3. \A r \in Training!Live : r \in 1 .. Len(training.vector) /\ ~training.is_deleted[r]
    BY <1>0 DEF Training!Live
  <2>4. ASSUME NEW r \in Training!Live
        PROVE  \E j \in 1 .. Training!k, n \in 1 .. Training!count :
                  /\ n <= Len(record_index[j]) /\ record_index[j][n] = r
                  /\ stage = "done" => byte_offsets[j][n] = training.byte_offset[r]
                  /\ \A j2 \in 1 .. Training!k, n2 \in 1 .. Training!count :
                        n2 <= Len(record_index[j2]) /\ record_index[j2][n2] = r => j2 = j /\ n2 = n
    <3> DEFINE j == Best(training, old_centroids, r)
    <3>1. j \in 1 .. training.k /\ r \in Members(training, old_centroids, j)
      <4>1. j \in 1 .. training.k
        BY <1>0, <2>3, BestIsNearest
      <4> QED BY <4>1, <2>3 DEF Members
    <3>2. PICK n \in 1 .. Len(record_index[j]) : record_index[j][n] = r
      <4> HIDE DEF j
      <4> QED BY <2>2, <3>1
    <3>3. n \in 1 .. Len(training.vector) /\ n <= Len(record_index[j])
      <4> HIDE DEF j
      <4> QED BY <1>0, <2>2, <3>1
    <3>4. stage = "done" => byte_offsets[j][n] = training.byte_offset[r]
      <4> HIDE DEF j
      <4> QED BY <3>1, <3>2 DEF KInv, OffsetsInv
    <3>5. ASSUME NEW j2 \in 1 .. Training!k, NEW n2 \in 1 .. Training!count,
                 n2 <= Len(record_index[j2]), record_index[j2][n2] = r
          PROVE  j2 = j /\ n2 = n
      <4>1. n2 \in 1 .. Len(record_index[j2])
        <5>1. Len(record_index[j2]) \in 0 .. Len(training.vector)
          BY <1>0, <2>2
        <5> QED BY <1>0, <5>1, <3>5
      <4>2. r \in Members(training, old_centroids, j2)
        BY <1>0, <2>2, <4>1, <3>5
      <4>3. j2 = j
        BY <4>2 DEF Members
      <4> HIDE DEF j
      <4>4. n2 = n
        BY <2>2, <3>1, <3>2, <3>5, <4>1, <4>3
      <4> QED BY <4>3, <4>4
    <3> HIDE DEF j
    <3>6. j \in 1 .. Training!k /\ n \in 1 .. Training!count
      BY <1>0, <3>1, <3>3
    <3>7. /\ n <= Len(record_index[j]) /\ record_index[j][n] = r
          /\ stage = "done" => byte_offsets[j][n] = training.byte_offset[r]
      BY <3>2, <3>3, <3>4
    <3>8. \A j2 \in 1 .. Training!k, n2 \in 1 .. Training!count :
            n2 <= Len(record_index[j2]) /\ record_index[j2][n2] = r => j2 = j /\ n2 = n
      BY <3>5, Zenon
    <3> USE <3>6
    <3> WITNESS j \in 1 .. Training!k, n \in 1 .. Training!count
    <3> QED BY ONLY <3>7, <3>8, Zenon
  <2>5. ASSUME NEW j \in 1 .. Training!k, NEW n \in 1 .. Len(record_index[j])
        PROVE  record_index[j][n] \in Training!Live
    <3>1. record_index[j][n] \in Members(training, old_centroids, j)
      BY <1>0, <2>2
    <3> QED BY <3>1, <1>0 DEF Members, Training!Live
  <2>6. Training!TypeOK
    BY DEF KInv
  <2> HIDE DEF KInv
  <2> QED BY <1>2, <2>4, <2>5, <2>6, Zenon DEF Training!EveryRecordOnce
<1> QED BY <1>1, <1>2

LEMMA KInvNearest == KInv => Training!NearestWhenSettled
<1> SUFFICES ASSUME KInv, stage \in {"map", "done"}, centroid_vector = old_centroids,
                    NEW j \in 1 .. training.k, NEW n \in 1 .. Len(record_index[j]),
                    NEW m \in 1 .. training.k
             PROVE  Training!euclidean(centroid_vector[j], training.vector[record_index[j][n]])
                      <= Training!euclidean(centroid_vector[m], training.vector[record_index[j][n]])
  BY Unfolded DEF Training!NearestWhenSettled
<1>1. Training!IsInput(training) /\ centroid_vector \in [1 .. training.k -> Int]
  BY Unfolded
<1>2. record_index = Clustered(training, centroid_vector)
  BY DEF KInv, ClustersInv
<1>3. record_index[j][n] \in Members(training, centroid_vector, j)
  BY <1>1, <1>2, ClusteredOnce DEF HoldOnce
<1>4. record_index[j][n] \in 1 .. Len(training.vector) /\ Best(training, centroid_vector, record_index[j][n]) = j
  BY <1>3 DEF Members
<1> QED BY <1>1, <1>4, BestIsNearest

\* After every pass each live record is in exactly one cluster at one place, no
\* deleted record is in any, and the finished index holds the record's disk
\* offset at that place.
THEOREM RecordsClusteredOnce ==
    ASSUME \A x \in Trainings : Training!IsInput(x)
    PROVE  Training!Spec => []Training!EveryRecordOnce
BY TrainingInv, KInvOnce, PTL

\* A training that ended because no centroid moved left every record in the
\* cluster of the centroid nearest to it.
THEOREM SettledIsNearest ==
    ASSUME \A x \in Trainings : Training!IsInput(x)
    PROVE  Training!Spec => []Training!NearestWhenSettled
BY TrainingInv, KInvNearest, PTL

--------------------------------------------------------------------------
(* No pass makes the clustering worse: a pass charges every record to its    *)
(* nearest centroid, and of all places for a centroid the mean of the records *)
(* charged to it is the cheapest.                                             *)

LEMMA Differences ==
    ASSUME NEW A \in Int, NEW B \in Int, NEW c \in Int, NEW d \in Int
    PROVE  (A + c) - (B + d) = (A - B) + (c - d)
OBVIOUS

\* The algebra of the step and of the end.
LEMMA MoveStep ==
    ASSUME NEW a \in Int, NEW b \in Int, NEW X \in Int, NEW Q \in Int, NEW V \in Int
    PROVE  (b - a) * (2 * X - Q * (a + b)) + ((V - a) * (V - a) - (V - b) * (V - b))
              = (b - a) * (2 * (X + V) - (Q + 1) * (a + b))
OBVIOUS

LEMMA MoveEnd ==
    ASSUME NEW a \in Int, NEW b \in Int, NEW n \in Nat
    PROVE  (b - a) * (2 * (n * b) - n * (a + b)) >= 0
<1>1. (b - a) * (2 * (n * b) - n * (a + b)) = n * ((b - a) * (b - a))
  OBVIOUS
<1>2. (b - a) * (b - a) \in Nat
  OBVIOUS
<1>3. ASSUME NEW z \in Nat PROVE n * z >= 0
  OBVIOUS
<1> QED BY <1>1, <1>2, <1>3

\* The records S are charged, in s, the squares of their distances from a.
Charged(v, S, a, s) == \A r \in S : s[r] = (v[r] - a) * (v[r] - a)

\* b is the exact mean of the records S.
IsMean(v, S, b) == Total(Picked(v, S)) = Cardinality(S) * b

\* Moving a centroid from a to the mean b of the records S that are charged to
\* it does not raise what they are charged.
LEMMA MeanIsBest ==
    ASSUME NEW v \in Seq(Int), NEW S \in SUBSET (1 .. Len(v)), NEW a \in Int, NEW b \in Int,
           IsMean(v, S, b),
           NEW s \in Seq(Int), NEW t \in Seq(Int), Len(s) = Len(v), Len(t) = Len(v),
           Charged(v, S, a, s), Charged(v, S, b, t),
           \A r \in (1 .. Len(v)) \ S : s[r] = t[r]
    PROVE  Total(t) <= Total(s)
<1> DEFINE N == Len(v)
           n == Cardinality(S)
           w == Picked(v, S)
           P == RunningTotal(w)
           A == RunningTotal(s)
           B == RunningTotal(t)
           q(j) == Rank(S, j - 1)
           G == {j \in 1 .. N + 1 :
                   /\ q(j) \in 0 .. n
                   /\ A[j] - B[j] = (b - a) * (2 * P[q(j) + 1] - q(j) * (a + b))}
<1>1. /\ N \in Nat /\ S \in SUBSET Nat /\ IsFiniteSet(S) /\ n \in Nat
      /\ \A r \in 1 .. N : v[r] \in Int /\ s[r] \in Int /\ t[r] \in Int
  <2>1. Len(v) \in Nat /\ IsFiniteSet(1 .. Len(v))
    BY FS_Interval
  <2>2. IsFiniteSet(S)
    BY <2>1, FS_Subset
  <2>3. Cardinality(S) \in Nat
    BY <2>2, FS_CardinalityType
  <2>4. S \in SUBSET Nat
    BY <2>1
  <2>5. \A r \in 1 .. N : v[r] \in Int /\ s[r] \in Int /\ t[r] \in Int
    OBVIOUS
  <2> QED BY <2>1, <2>2, <2>3, <2>4, <2>5, Zenon
<1>2. w \in Seq(Int) /\ Len(w) = n /\ \A m \in 1 .. n : w[m] = v[Nth(S, m)] /\ w[m] \in Int
  <2>1. /\ w \in Seq(Int) /\ Len(w) = n
        /\ \A m \in 1 .. Len(w) : w[m] = v[Nth(S, m)]
    <3>1. LET p == Picked(v, S) IN
          /\ p \in Seq(Int) /\ Len(p) = Cardinality(S)
          /\ \A m \in 1 .. Len(p) : p[m] = v[Nth(S, m)]
      BY PickedElements, Zenon
    <3> QED BY <3>1
  <2> HIDE DEF w, n
  <2> QED BY <2>1
<1>3. /\ A \in [1 .. N + 1 -> Int] /\ A[1] = 0 /\ \A j \in 1 .. N : A[j + 1] = A[j] + s[j]
      /\ B \in [1 .. N + 1 -> Int] /\ B[1] = 0 /\ \A j \in 1 .. N : B[j + 1] = B[j] + t[j]
  BY IntTotals
<1>4. P \in [1 .. n + 1 -> Int] /\ P[1] = 0 /\ \A m \in 1 .. n : P[m + 1] = P[m] + w[m]
  <2> HIDE DEF w, n
  <2> QED BY <1>2, IntTotals
<1>5. Total(w) = P[n + 1] /\ Total(s) = A[N + 1] /\ Total(t) = B[N + 1]
  <2> HIDE DEF w, n
  <2> QED BY <1>2 DEF Total
<1> HIDE DEF w, P, A, B, G
<1>6. 1 \in G
  <2>1. Rank(S, 0) = 0
    <3>0. \A y \in S : ~(y <= 0)
      BY <1>1
    <3>1. {y \in S : y <= 0} = {}
      BY <3>0, Zenon
    <3> QED BY <3>1, FS_EmptySet DEF Rank
  <2>2. q(1) = 0
    BY <2>1
  <2> HIDE DEF q, n
  <2> QED BY <1>1, <1>3, <1>4, <2>2 DEF G
<1>7. ASSUME NEW j \in 1 .. N, j \in G PROVE j + 1 \in G
  <2>0. /\ j \in 1 .. N + 1 /\ j + 1 \in 1 .. N + 1 /\ q(j) \in 0 .. n
        /\ A[j] - B[j] = (b - a) * (2 * P[q(j) + 1] - q(j) * (a + b))
    BY <1>1, <1>7 DEF G
  <2>1. A[j] \in Int /\ B[j] \in Int /\ A[j + 1] \in Int /\ B[j + 1] \in Int
    BY <1>3, <2>0
  <2>2. A[j + 1] = A[j] + s[j] /\ B[j + 1] = B[j] + t[j]
    BY <1>3
  <2>3. v[j] \in Int /\ s[j] \in Int /\ t[j] \in Int
    BY <1>1
  <2>4. q(j + 1) = (IF j \in S THEN q(j) + 1 ELSE q(j))
    <3>1. j - 1 \in Nat /\ (j - 1) + 1 = j /\ (j + 1) - 1 = j
      BY <1>1
    <3>2. Rank(S, (j - 1) + 1) = (IF (j - 1) + 1 \in S THEN Rank(S, j - 1) + 1 ELSE Rank(S, j - 1))
      BY <1>1, <3>1, RankStep
    <3> QED BY <3>1, <3>2
  <2>7. A[j + 1] - B[j + 1] = (A[j] - B[j]) + (s[j] - t[j])
    <3>1. (A[j] + s[j]) - (B[j] + t[j]) = (A[j] - B[j]) + (s[j] - t[j])
      <4> DEFINE Aj == A[j]
                 Bj == B[j]
                 sj == s[j]
                 tj == t[j]
      <4>1. Aj \in Int /\ Bj \in Int /\ sj \in Int /\ tj \in Int
        BY <2>1, <2>3
      <4> HIDE DEF Aj, Bj, sj, tj
      <4>2. (Aj + sj) - (Bj + tj) = (Aj - Bj) + (sj - tj)
        BY <4>1
      <4> QED BY <4>2 DEF Aj, Bj, sj, tj
    <3> QED BY <2>2, <3>1, Zenon
  <2>5. CASE j \in S
    <3>1. q(j + 1) = q(j) + 1
      BY <2>4, <2>5
    <3>2. Rank(S, j) = q(j + 1)
      <4>1. (j + 1) - 1 = j
        BY <1>1
      <4> QED BY <4>1
    <3>3. q(j + 1) \in 1 .. n /\ Nth(S, q(j + 1)) = j
      BY <1>1, <2>5, <3>2, Ranks, NthRank
    <3> HIDE DEF q, n
    <3>4. P[q(j + 1) + 1] = P[q(j) + 1] + v[j] /\ P[q(j) + 1] \in Int
      <4>1. w[q(j + 1)] = v[j]
        BY <1>2, <3>3
      <4>2. P[q(j + 1) + 1] = P[q(j + 1)] + w[q(j + 1)]
        BY <1>4, <3>3
      <4>3. q(j) + 1 \in 1 .. n + 1
        <5>1. n \in Nat /\ q(j) \in 0 .. n
          BY <1>1, <2>0
        <5> DEFINE qj == q(j)
        <5>2. qj \in 0 .. n
          BY <5>1
        <5> HIDE DEF qj
        <5>3. qj + 1 \in 1 .. n + 1
          BY ONLY <5>1, <5>2
        <5> QED BY ONLY <5>3 DEF qj
      <4>4. P[q(j) + 1] \in Int
        BY <1>4, <4>3
      <4> QED BY <3>1, <4>1, <4>2, <4>4
    <3>5. s[j] = (v[j] - a) * (v[j] - a) /\ t[j] = (v[j] - b) * (v[j] - b)
      BY <2>5 DEF Charged
    <3> DEFINE X == P[q(j) + 1]
               Q == q(j)
               V == v[j]
    <3>6. X \in Int /\ Q \in Int /\ V \in Int
      BY <1>1, <2>0, <2>3, <3>4
    <3>7. /\ A[j] - B[j] = (b - a) * (2 * X - Q * (a + b))
          /\ s[j] = (V - a) * (V - a) /\ t[j] = (V - b) * (V - b)
          /\ P[q(j + 1) + 1] = X + V /\ q(j + 1) = Q + 1
      BY <2>0, <3>1, <3>4, <3>5
    <3> HIDE DEF X, Q, V
    <3>9. A[j + 1] - B[j + 1] = (b - a) * (2 * (X + V) - (Q + 1) * (a + b))
      BY <3>6, <3>7, <2>7, MoveStep
    <3>10. q(j + 1) \in 0 .. n
      BY <1>1, <3>3
    <3> QED BY <2>0, <3>7, <3>9, <3>10 DEF G
  <2>6. CASE j \notin S
    <3>1. q(j + 1) = q(j)
      BY <2>4, <2>6
    <3>2. s[j] = t[j]
      BY <2>6
    <3> HIDE DEF q, n
    <3>3. A[j + 1] - B[j + 1] = A[j] - B[j]
      <4> DEFINE Aj == A[j]
                 Bj == B[j]
                 sj == s[j]
      <4>1. A[j + 1] = Aj + sj /\ B[j + 1] = Bj + sj
        BY <2>2, <3>2, Zenon
      <4>2. Aj \in Int /\ Bj \in Int /\ sj \in Int
        BY <2>1, <2>3, Zenon
      <4> HIDE DEF Aj, Bj, sj
      <4>3. (Aj + sj) - (Bj + sj) = Aj - Bj
        BY ONLY <4>2
      <4> QED BY <4>1, <4>3, Zenon DEF Aj, Bj
    <3> QED BY <2>0, <3>1, <3>3 DEF G
  <2> QED BY <2>5, <2>6
<1>8. N + 1 \in G
  <2> HIDE DEF G
  <2>1. N + 1 \in 1 .. N + 1
    BY <1>1
  <2> QED BY <2>1, <1>1, <1>6, <1>7, Reaches
<1>9. q(N + 1) = n
  <2>0. \A y \in S : y <= N
    BY <1>1
  <2>1. {y \in S : y <= N} = S
    BY <2>0, Zenon
  <2>2. (N + 1) - 1 = N
    BY <1>1
  <2> QED BY <2>1, <2>2, Zenon DEF Rank
<1>10. A[N + 1] - B[N + 1] = (b - a) * (2 * (n * b) - n * (a + b))
  <2>1. A[N + 1] - B[N + 1] = (b - a) * (2 * P[q(N + 1) + 1] - q(N + 1) * (a + b))
    BY <1>8 DEF G
  <2>2. P[n + 1] = n * b
    BY <1>5 DEF IsMean, w
  <2> HIDE DEF q, n, N
  <2> QED BY <2>1, <2>2, <1>9
<1>11. A[N + 1] \in Int /\ B[N + 1] \in Int
  <2>1. N + 1 \in 1 .. N + 1
    BY <1>1
  <2> QED BY <2>1, <1>3, Zenon
<1>12. A[N + 1] - B[N + 1] >= 0
  <2> HIDE DEF n, N
  <2> QED BY <1>1, <1>10, MoveEnd
<1> HIDE DEF n, N
<1> QED BY <1>5, <1>11, <1>12

--------------------------------------------------------------------------
(* The cost.                                                                *)

\* Squares of distances.
LEMMA SquareType == ASSUME NEW z \in Int PROVE z * z \in Nat
OBVIOUS

LEMMA SquareRises ==
    ASSUME NEW p \in Nat, NEW q \in Nat, p <= q
    PROVE  p * p <= q * q
<1>1. PICK d \in Nat : q = p + d
  <2>1. q - p \in Nat /\ q = p + (q - p)
    OBVIOUS
  <2> QED BY <2>1
<1>2. q * q = p * p + (2 * (p * d) + d * d)
  BY <1>1
<1>3. p * p \in Nat /\ p * d \in Nat /\ d * d \in Nat
  OBVIOUS
<1> QED BY <1>2, <1>3

Square(x, c, r, j) == (x.vector[r] - c[j]) * (x.vector[r] - c[j])

\* Nearer is nearer in the square.
LEMMA SquareOfDistance ==
    ASSUME NEW a \in Int, NEW b \in Int, NEW v \in Int,
           Training!euclidean(a, v) <= Training!euclidean(b, v)
    PROVE  (v - a) * (v - a) <= (v - b) * (v - b)
<1> DEFINE p == Training!euclidean(a, v)
           q == Training!euclidean(b, v)
<1>1. p \in Nat /\ q \in Nat
  BY Distances
<1>2. p * p <= q * q
  <2> HIDE DEF p, q
  <2>1. p <= q
    BY DEF p, q
  <2> QED BY <1>1, <2>1, SquareRises
<1>3. ASSUME NEW e \in Int
      PROVE  Training!euclidean(e, v) * Training!euclidean(e, v) = (v - e) * (v - e)
  <2>1. CASE e < v
    <3>1. Training!euclidean(e, v) = v - e
      BY <2>1 DEF Training!euclidean
    <3> QED BY <3>1
  <2>2. CASE ~(e < v)
    <3>1. Training!euclidean(e, v) = e - v
      BY <2>2 DEF Training!euclidean
    <3>2. (e - v) * (e - v) = (v - e) * (v - e)
      OBVIOUS
    <3> QED BY <3>1, <3>2
  <2> QED BY <2>1, <2>2
<1>4. p * p = (v - a) * (v - a) /\ q * q = (v - b) * (v - b)
  BY <1>3
<1> QED BY <1>2, <1>4

\* What Cost charges each record.
Costs(x, c) ==
    [r \in 1 .. Len(x.vector) |->
        IF ~x.is_deleted[r]
        THEN Square(x, c, r, CHOOSE j \in 1 .. x.k : \A m \in 1 .. x.k : Square(x, c, r, j) <= Square(x, c, r, m))
        ELSE 0]

\* Cost is the total of the charges.
LEMMA CostIsTotal ==
    ASSUME NEW c, Training!IsInput(training)
    PROVE  Training!Cost(c) = Total(Costs(training, c))
<1>1. Training!k = training.k /\ Training!count = Len(training.vector) /\ Len(training.vector) \in Nat
  BY InputTypes DEF Training!k, Training!count
<1>2. Len(Costs(training, c)) = Len(training.vector)
  BY <1>1 DEF Costs
<1>3. \A r \in 1 .. Len(training.vector) : r \in Training!Live <=> ~training.is_deleted[r]
  BY <1>1 DEF Training!Live
<1> DEFINE nearest(r) == CHOOSE j \in 1 .. training.k :
               \A m \in 1 .. training.k : Square(training, c, r, j) <= Square(training, c, r, m)
           costs == [r \in 1 .. Len(training.vector) |->
                        IF r \in Training!Live THEN Square(training, c, r, nearest(r)) ELSE 0]
<1>4. Training!Cost(c) = RunningTotal(costs)[Len(training.vector) + 1]
  BY <1>1, SameTotal DEF Training!Cost, Square
<1>5. costs = Costs(training, c)
  <2> HIDE DEF nearest
  <2>1. costs = [r \in 1 .. Len(training.vector) |->
                   IF ~training.is_deleted[r] THEN Square(training, c, r, nearest(r)) ELSE 0]
    BY <1>3
  <2> QED BY <2>1 DEF Costs, nearest
<1> HIDE DEF costs
<1> QED BY <1>2, <1>4, <1>5 DEF Total

\* A record is charged the square of its distance to its best cluster.
LEMMA CostsAtBest ==
    ASSUME NEW x, Training!IsInput(x), NEW c \in [1 .. x.k -> Int], NEW r \in 1 .. Len(x.vector),
           ~x.is_deleted[r]
    PROVE  /\ Costs(x, c)[r] \in Nat
           /\ \A m \in 1 .. x.k : Costs(x, c)[r] <= Square(x, c, r, m)
           /\ Square(x, c, r, Best(x, c, r)) <= Costs(x, c)[r]
<1> DEFINE b == Best(x, c, r)
           near == CHOOSE j \in 1 .. x.k : \A m \in 1 .. x.k : Square(x, c, r, j) <= Square(x, c, r, m)
<1>1. x.vector[r] \in Int /\ b \in 1 .. x.k
  BY InputTypes, BestIsNearest
<1>2. \A m \in 1 .. x.k : c[m] \in Int
  OBVIOUS
<1>3. ASSUME NEW m \in 1 .. x.k
      PROVE  Square(x, c, r, m) \in Nat
  <2>1. x.vector[r] - c[m] \in Int
    BY <1>1, <1>2
  <2> QED BY <2>1, SquareType DEF Square
<1>4. ASSUME NEW m \in 1 .. x.k
      PROVE  Square(x, c, r, b) <= Square(x, c, r, m)
  <2>1. Training!euclidean(c[b], x.vector[r]) <= Training!euclidean(c[m], x.vector[r])
    BY BestIsNearest
  <2>2. c[b] \in Int /\ c[m] \in Int
    BY <1>1, <1>2
  <2> HIDE DEF b
  <2> QED BY <1>1, <2>1, <2>2, SquareOfDistance DEF Square
<1>5. near \in 1 .. x.k /\ \A m \in 1 .. x.k : Square(x, c, r, near) <= Square(x, c, r, m)
  <2> HIDE DEF b
  <2> QED BY <1>1, <1>4
<1>6. Costs(x, c)[r] = Square(x, c, r, near)
  BY DEF Costs
<1> HIDE DEF b, near
<1> QED BY <1>1, <1>3, <1>4, <1>5, <1>6 DEF b

\* The sum of n coordinates is a multiple of n.
LEMMA DivExact ==
    ASSUME NEW n \in Nat \ {0}, NEW z \in Int
    PROVE  n * ((n * z) \div n) = n * z
<1> DEFINE q == (n * z) \div n
<1>1. q \in Int /\ n * q <= n * z /\ n * z < n * q + n
  OBVIOUS
<1> HIDE DEF q
<1>2. ~(q < z)
  <2> SUFFICES ASSUME q < z PROVE FALSE
    OBVIOUS
  <2>1. PICK d \in Nat : z = (q + 1) + d
    <3>1. z - (q + 1) \in Nat /\ z = (q + 1) + (z - (q + 1))
      BY <1>1
    <3> QED BY <3>1
  <2>2. n * z = (n * q + n) + n * d /\ n * d \in Nat
    BY <1>1, <2>1
  <2>3. n * q \in Int /\ n * z \in Int
    BY <1>1
  <2> QED BY <1>1, <2>2, <2>3
<1>3. ~(z < q)
  <2> SUFFICES ASSUME z < q PROVE FALSE
    OBVIOUS
  <2>1. PICK d \in Nat : q = (z + 1) + d
    <3>1. q - (z + 1) \in Nat /\ q = (z + 1) + (q - (z + 1))
      BY <1>1
    <3> QED BY <3>1
  <2>2. n * q = (n * z + n) + n * d /\ n * d \in Nat
    BY <1>1, <2>1
  <2>3. n * q \in Int /\ n * z \in Int
    BY <1>1
  <2> QED BY <1>1, <2>2, <2>3
<1>4. q = z
  BY <1>1, <1>2, <1>3
<1> QED BY <1>4 DEF q

Multiples(n) == {n * z : z \in Int}

LEMMA MultiplesSum == ASSUME NEW n \in Nat \ {0} PROVE Summable(Multiples(n))
<1>1. Multiples(n) \in SUBSET Int
  BY DEF Multiples
<1>2. 0 \in Multiples(n)
  <2>1. n * 0 = 0
    OBVIOUS
  <2> QED BY <2>1 DEF Multiples
<1>3. ASSUME NEW a \in Multiples(n), NEW b \in Multiples(n)
      PROVE  a + b \in Multiples(n)
  <2>1. PICK y \in Int : a = n * y
    BY DEF Multiples
  <2>2. PICK z \in Int : b = n * z
    BY DEF Multiples
  <2>3. a + b = n * (y + z) /\ y + z \in Int
    BY <2>1, <2>2
  <2> QED BY <2>3 DEF Multiples
<1> QED BY <1>1, <1>2, <1>3 DEF Summable

LEMMA CoordinatesDivide ==
    ASSUME NEW n \in Nat \ {0}, NEW e \in Nat \ {0}, NEW v \in Int, e % n = 0, v % e = 0
    PROVE  v \in Multiples(n)
<1>1. e = n * (e \div n) /\ e \div n \in Int
  OBVIOUS
<1>2. v = e * (v \div e) /\ v \div e \in Int
  OBVIOUS
<1> DEFINE y == e \div n
           z == v \div e
<1> HIDE DEF y, z
<1>3. e = n * y /\ y \in Int /\ v = e * z /\ z \in Int
  BY <1>1, <1>2 DEF y, z
<1>4. v = n * (y * z) /\ y * z \in Int
  BY <1>3
<1> QED BY <1>4 DEF Multiples

\* The mean that kmeans_build takes is the exact one.
LEMMA MeanExact ==
    ASSUME Scale \in Nat \ {0}, NEW x, Training!IsInput(x), Training!IsExact(x),
           NEW S \in SUBSET (1 .. Len(x.vector)), S # {}
    PROVE  IsMean(x.vector, S, Total(Picked(x.vector, S)) \div Cardinality(S))
<1> DEFINE v == x.vector
           n == Cardinality(S)
           w == Picked(v, S)
<1>1. v \in Seq(Int) /\ Len(v) \in Nat /\ \A r \in 1 .. Len(v) : v[r] \in Int
  BY InputTypes
<1>2. n \in 1 .. Len(v)
  <2>0. S \in SUBSET (1 .. Len(v))
    OBVIOUS
  <2> HIDE DEF v
  <2>1. IsFiniteSet(1 .. Len(v)) /\ Cardinality(1 .. Len(v)) = Len(v)
    BY <1>1, FS_Interval
  <2>2. IsFiniteSet(S) /\ n <= Len(v)
    BY <2>0, <2>1, FS_Subset
  <2>3. n \in Nat /\ n # 0
    BY <2>2, FS_CardinalityType, FS_EmptySet
  <2> HIDE DEF n, v
  <2> QED BY <1>1, <2>2, <2>3
<1>3. n \in Nat \ {0} /\ Scale % n = 0
  <2>1. n \in Nat \ {0}
    <3> HIDE DEF n
    <3> QED BY <1>1, <1>2
  <2> QED BY <2>1, <1>2 DEF Training!IsExact
<1>4. ASSUME NEW r \in 1 .. Len(v) PROVE v[r] \in Multiples(n)
  <2>1. v[r] % Scale = 0
    BY DEF Training!IsExact
  <2> HIDE DEF n, v
  <2> QED BY <1>1, <1>3, <2>1, CoordinatesDivide
<1>5. w \in Seq(Int) /\ Len(w) = n /\ \A m \in 1 .. n : w[m] \in Multiples(n)
  <2>3. S \in SUBSET (1 .. Len(v))
    OBVIOUS
  <2> HIDE DEF v
  <2>1. /\ w \in Seq(Int) /\ Len(w) = n
        /\ \A m \in 1 .. Len(w) : Nth(S, m) \in S /\ w[m] = v[Nth(S, m)]
    BY <1>1, <2>3, PickedElements
  <2> HIDE DEF w, n
  <2> QED BY <2>1, <2>3, <1>4
<1>6. w \in Seq(Multiples(n))
  <2> HIDE DEF w, n
  <2> QED BY <1>3, <1>5
<1>7. Total(w) \in Multiples(n)
  <2> HIDE DEF w, n
  <2>1. RunningTotal(w) \in [1 .. Len(w) + 1 -> Multiples(n)]
    BY <1>3, <1>6, MultiplesSum, TotalsIn
  <2>2. Len(w) + 1 \in 1 .. Len(w) + 1
    BY <1>3, <1>5
  <2> QED BY <2>1, <2>2 DEF Total
<1>8. PICK z \in Int : Total(w) = n * z
  <2> HIDE DEF w, n
  <2> QED BY <1>7 DEF Multiples
<1>9. n * (Total(w) \div n) = Total(w)
  <2> HIDE DEF w, n
  <2>1. n * ((n * z) \div n) = n * z
    BY <1>3, DivExact
  <2> QED BY <1>8, <2>1
<1> QED BY <1>9 DEF IsMean

\* The charges when the clusters 1 .. J have moved from c to m and the records
\* stay with the cluster they are in.
Moved(x, c, m, J) ==
    [r \in 1 .. Len(x.vector) |->
        IF x.is_deleted[r] THEN 0
        ELSE Square(x, IF Best(x, c, r) <= J THEN m ELSE c, r, Best(x, c, r))]

LEMMA MovedType ==
    ASSUME NEW x, Training!IsInput(x), NEW c \in [1 .. x.k -> Int], NEW m \in [1 .. x.k -> Int], NEW J
    PROVE  /\ Moved(x, c, m, J) \in Seq(Int) /\ Len(Moved(x, c, m, J)) = Len(x.vector)
           /\ \A r \in 1 .. Len(x.vector) : Moved(x, c, m, J)[r] =
                 IF x.is_deleted[r] THEN 0
                 ELSE Square(x, IF Best(x, c, r) <= J THEN m ELSE c, r, Best(x, c, r))
<1> DEFINE f(r) == IF x.is_deleted[r] THEN 0
                   ELSE Square(x, IF Best(x, c, r) <= J THEN m ELSE c, r, Best(x, c, r))
<1>1. Len(x.vector) \in Nat
  BY InputTypes
<1>2. ASSUME NEW r \in 1 .. Len(x.vector) PROVE f(r) \in Int
  <2>1. Best(x, c, r) \in 1 .. x.k /\ x.vector[r] \in Int
    BY BestIsNearest, InputTypes
  <2>2. ASSUME NEW e \in [1 .. x.k -> Int] PROVE Square(x, e, r, Best(x, c, r)) \in Int
    BY <2>1 DEF Square
  <2> QED BY <2>2
<1>3. Moved(x, c, m, J) = [r \in 1 .. Len(x.vector) |-> f(r)]
  BY DEF Moved
<1> HIDE DEF f
<1>4. /\ Moved(x, c, m, J) \in Seq(Int) /\ Len(Moved(x, c, m, J)) = Len(x.vector)
      /\ \A r \in 1 .. Len(x.vector) : Moved(x, c, m, J)[r] = f(r)
  BY <1>1, <1>2, <1>3
<1> QED BY <1>4 DEF f

\* One more cluster moves to its mean.
LEMMA MoveOne ==
    ASSUME NEW x, Training!IsInput(x), NEW c \in [1 .. x.k -> Int], NEW m \in [1 .. x.k -> Int],
           NEW J \in 1 .. x.k, IsMean(x.vector, Members(x, c, J), m[J])
    PROVE  Total(Moved(x, c, m, J)) <= Total(Moved(x, c, m, J - 1))
<1> DEFINE v == x.vector
           S == Members(x, c, J)
           s == Moved(x, c, m, J - 1)
           t == Moved(x, c, m, J)
<1>1. v \in Seq(Int) /\ x.k \in Nat
  BY InputTypes
<1>2. S \in SUBSET (1 .. Len(v))
  BY DEF Members
<1>3. /\ s \in Seq(Int) /\ Len(s) = Len(v) /\ t \in Seq(Int) /\ Len(t) = Len(v)
  BY MovedType
<1>4. ASSUME NEW r \in S
      PROVE  s[r] = (v[r] - c[J]) * (v[r] - c[J]) /\ t[r] = (v[r] - m[J]) * (v[r] - m[J])
  <2>1. r \in 1 .. Len(v) /\ ~x.is_deleted[r] /\ Best(x, c, r) = J
    BY DEF Members
  <2>2. J <= J /\ ~(J <= J - 1)
    BY <1>1
  <2>3. s[r] = Square(x, c, r, J) /\ t[r] = Square(x, m, r, J)
    BY <2>1, <2>2, MovedType
  <2> QED BY <2>3 DEF Square
<1>5. ASSUME NEW r \in (1 .. Len(v)) \ S
      PROVE  s[r] = t[r]
  <2>1. x.is_deleted[r] \/ Best(x, c, r) # J
    BY DEF Members
  <2>2. Best(x, c, r) \in 1 .. x.k
    BY BestIsNearest
  <2>3. Best(x, c, r) # J => (Best(x, c, r) <= J <=> Best(x, c, r) <= J - 1)
    BY <1>1, <2>2
  <2>4. /\ t[r] = IF x.is_deleted[r] THEN 0
                ELSE Square(x, IF Best(x, c, r) <= J THEN m ELSE c, r, Best(x, c, r))
        /\ s[r] = IF x.is_deleted[r] THEN 0
                ELSE Square(x, IF Best(x, c, r) <= J - 1 THEN m ELSE c, r, Best(x, c, r))
    BY MovedType
  <2> HIDE DEF s, t
  <2>5. CASE x.is_deleted[r]
    BY <2>4, <2>5, Zenon
  <2>6. CASE ~x.is_deleted[r] /\ Best(x, c, r) # J
    <3>1. CASE Best(x, c, r) <= J
      BY <2>3, <2>4, <2>6, <3>1, Zenon
    <3>2. CASE ~(Best(x, c, r) <= J)
      BY <2>3, <2>4, <2>6, <3>2, Zenon
    <3> QED BY <3>1, <3>2
  <2> QED BY <2>1, <2>5, <2>6, Zenon
<1>6. c[J] \in Int /\ m[J] \in Int /\ IsMean(v, S, m[J])
  OBVIOUS
<1>7. Charged(v, S, c[J], s) /\ Charged(v, S, m[J], t)
  BY <1>4 DEF Charged
<1> HIDE DEF v, S, s, t
<1>8. Total(t) <= Total(s)
  BY <1>1, <1>2, <1>3, <1>5, <1>6, <1>7, MeanIsBest
<1> QED BY <1>8 DEF s, t

\* All clusters move, one after the other.
LEMMA MoveAll ==
    ASSUME NEW x, Training!IsInput(x), NEW c \in [1 .. x.k -> Int], NEW m \in [1 .. x.k -> Int],
           \A j \in 1 .. x.k : IsMean(x.vector, Members(x, c, j), m[j])
    PROVE  Total(Moved(x, c, m, x.k)) <= Total(Moved(x, c, m, 0))
<1> DEFINE T(j) == Total(Moved(x, c, m, j))
           S == {j \in 1 .. x.k + 1 : T(j - 1) <= T(0)}
<1>0. x.k \in Nat
  BY InputTypes
<1>1. ASSUME NEW j PROVE T(j) \in Int
  <2>1. Moved(x, c, m, j) \in Seq(Int)
    BY MovedType
  <2>2. \A r \in 1 .. Len(Moved(x, c, m, j)) : Moved(x, c, m, j)[r] <= Moved(x, c, m, j)[r]
    BY <2>1
  <2> QED BY <2>1, <2>2, TotalAtMost
<1>2. ASSUME NEW j \in 1 .. x.k PROVE T(j) <= T(j - 1)
  BY MoveOne
<1> HIDE DEF T
<1>3. 1 \in S
  <2>1. T(1 - 1) <= T(0)
    BY <1>1
  <2> QED BY <1>0, <2>1
<1>4. ASSUME NEW j \in 1 .. x.k, j \in S PROVE j + 1 \in S
  <2>1. T(j - 1) <= T(0) /\ j + 1 \in 1 .. x.k + 1 /\ (j + 1) - 1 = j
    BY <1>0, <1>4
  <2>2. T(j) <= T(0)
    <3>1. T(j) \in Int /\ T(j - 1) \in Int /\ T(0) \in Int
      BY <1>1
    <3> QED BY <1>2, <2>1, <3>1
  <2> QED BY <2>1, <2>2
<1>5. x.k + 1 \in S
  <2> HIDE DEF S
  <2>1. x.k + 1 \in 1 .. x.k + 1
    BY <1>0
  <2> QED BY <2>1, <1>0, <1>3, <1>4, Reaches
<1>6. T((x.k + 1) - 1) <= T(0) /\ (x.k + 1) - 1 = x.k
  BY <1>0, <1>5
<1> QED BY <1>6 DEF T

LEMMA CostsType ==
    ASSUME NEW x, Training!IsInput(x), NEW e \in [1 .. x.k -> Int]
    PROVE  /\ Costs(x, e) \in Seq(Int) /\ Len(Costs(x, e)) = Len(x.vector)
           /\ Total(Costs(x, e)) \in Int
           /\ \A r \in 1 .. Len(x.vector) : x.is_deleted[r] => Costs(x, e)[r] = 0
<1>0. Len(x.vector) \in Nat
  BY InputTypes
<1>1. ASSUME NEW r \in 1 .. Len(x.vector) PROVE Costs(x, e)[r] \in Int
  <2>1. CASE x.is_deleted[r]
    BY <2>1 DEF Costs
  <2>2. CASE ~x.is_deleted[r]
    BY <2>2, CostsAtBest
  <2> QED BY <2>1, <2>2
<1>2. Costs(x, e) = [r \in 1 .. Len(x.vector) |-> Costs(x, e)[r]]
  BY DEF Costs
<1>3. \A r \in 1 .. Len(x.vector) : x.is_deleted[r] => Costs(x, e)[r] = 0
  BY DEF Costs
<1>4. Costs(x, e) \in Seq(Int) /\ Len(Costs(x, e)) = Len(x.vector)
  <2>1. Costs(x, e) \in [1 .. Len(x.vector) -> Int]
    BY <1>1, <1>2
  <2> DEFINE N == Len(x.vector)
             f == Costs(x, e)
  <2>2. N \in Nat /\ f \in [1 .. N -> Int]
    BY <1>0, <2>1
  <2> HIDE DEF N, f
  <2>3. f \in Seq(Int) /\ Len(f) = N
    BY <2>2
  <2> QED BY <2>3 DEF N, f
<1>5. Total(Costs(x, e)) \in Int
  <2>1. \A r \in 1 .. Len(Costs(x, e)) : Costs(x, e)[r] <= Costs(x, e)[r]
    BY <1>4
  <2> QED BY <1>4, <2>1, TotalAtMost
<1> QED BY <1>3, <1>4, <1>5

\* The means of the clusters cost no more than the centroids they were made by.
LEMMA MeansCostLess ==
    ASSUME NEW x, Training!IsInput(x), NEW c \in [1 .. x.k -> Int], NEW m \in [1 .. x.k -> Int],
           \A j \in 1 .. x.k : IsMean(x.vector, Members(x, c, j), m[j])
    PROVE  Total(Costs(x, m)) <= Total(Costs(x, c))
<1>0. Len(x.vector) \in Nat /\ x.k \in Nat
  BY InputTypes
<1>1. ASSUME NEW e \in [1 .. x.k -> Int]
      PROVE  /\ Costs(x, e) \in Seq(Int) /\ Len(Costs(x, e)) = Len(x.vector)
             /\ \A r \in 1 .. Len(x.vector) : x.is_deleted[r] => Costs(x, e)[r] = 0
  BY CostsType
<1>2. /\ Moved(x, c, m, x.k) \in Seq(Int) /\ Len(Moved(x, c, m, x.k)) = Len(x.vector)
      /\ Moved(x, c, m, 0) \in Seq(Int) /\ Len(Moved(x, c, m, 0)) = Len(x.vector)
  BY MovedType
<1>3. ASSUME NEW r \in 1 .. Len(x.vector)
      PROVE  Costs(x, m)[r] <= Moved(x, c, m, x.k)[r] /\ Moved(x, c, m, 0)[r] <= Costs(x, c)[r]
  <2>1. CASE x.is_deleted[r]
    <3>1. Costs(x, m)[r] = 0 /\ Costs(x, c)[r] = 0
      BY <1>1, <2>1
    <3>2. Moved(x, c, m, x.k)[r] = 0 /\ Moved(x, c, m, 0)[r] = 0
      BY <2>1, MovedType
    <3> QED BY <3>1, <3>2
  <2>2. CASE ~x.is_deleted[r]
    <3> DEFINE b == Best(x, c, r)
    <3>1. b \in 1 .. x.k
      BY BestIsNearest
    <3>2. b <= x.k /\ ~(b <= 0)
      <4> HIDE DEF b
      <4> QED BY <1>0, <3>1
    <3>3. Moved(x, c, m, x.k)[r] = Square(x, m, r, b) /\ Moved(x, c, m, 0)[r] = Square(x, c, r, b)
      BY <2>2, <3>2, MovedType
    <3>4. Costs(x, m)[r] <= Square(x, m, r, b)
      BY <2>2, <3>1, CostsAtBest
    <3>5. Square(x, c, r, b) <= Costs(x, c)[r]
      BY <2>2, CostsAtBest
    <3> QED BY <3>3, <3>4, <3>5
  <2> QED BY <2>1, <2>2
<1>4. Total(Costs(x, m)) <= Total(Moved(x, c, m, x.k)) /\ Total(Costs(x, m)) \in Int
      /\ Total(Moved(x, c, m, x.k)) \in Int
  BY <1>1, <1>2, <1>3, TotalAtMost
<1>5. Total(Moved(x, c, m, 0)) <= Total(Costs(x, c)) /\ Total(Moved(x, c, m, 0)) \in Int
      /\ Total(Costs(x, c)) \in Int
  BY <1>1, <1>2, <1>3, TotalAtMost
<1>6. Total(Moved(x, c, m, x.k)) <= Total(Moved(x, c, m, 0))
  BY MoveAll
<1> QED BY <1>4, <1>5, <1>6

\* Recompute moves every centroid to the mean of its cluster.
LEMMA RecomputeTakesMeans ==
    ASSUME KInv, Scale \in Nat \ {0}, Training!IsExact(training), stage = "mean",
           NEW j \in 1 .. training.k
    PROVE  IsMean(training.vector, Members(training, centroid_vector, j), Training!Mean(j))
<1> DEFINE v == training.vector
           S == Members(training, centroid_vector, j)
           n == Cardinality(S)
           all == [r \in 1 .. Len(v) |-> r]
           p == Picked(all, S)
<1>1. /\ Training!IsInput(training) /\ v \in Seq(Int) /\ Len(v) \in Nat
      /\ \A r \in 1 .. Len(v) : v[r] \in Int
  BY Unfolded, InputTypes
<1>2. record_index[j] = p
  BY DEF KInv, ClustersInv, Clustered
<1>3. S \in SUBSET (1 .. Len(v)) /\ IsFiniteSet(S)
  <2>1. S \in SUBSET (1 .. Len(v))
    BY DEF Members
  <2>2. IsFiniteSet(1 .. Len(v))
    BY <1>1, FS_Interval
  <2> HIDE DEF S, v
  <2> QED BY <2>1, <2>2, FS_Subset
<1>4. all \in Seq(1 .. Len(v)) /\ Len(all) = Len(v) /\ \A r \in 1 .. Len(v) : all[r] = r
  BY <1>1
<1> HIDE DEF v, S, all
<1>5. /\ Len(p) = n /\ n \in Nat
      /\ \A m \in 1 .. n : Nth(S, m) \in S /\ p[m] = all[Nth(S, m)]
  BY <1>3, <1>4, PickedElements
<1>6. ASSUME NEW m \in 1 .. n PROVE p[m] = Nth(S, m)
  <2> HIDE DEF n, p
  <2>1. Nth(S, m) \in 1 .. Len(v)
    BY <1>3, <1>5
  <2> QED BY <1>4, <1>5, <2>1
<1>7. [m \in 1 .. Len(record_index[j]) |-> v[record_index[j][m]]] = Picked(v, S)
  <2>1. [m \in 1 .. n |-> v[p[m]]] = [m \in 1 .. n |-> v[Nth(S, m)]]
    <3> HIDE DEF n, p
    <3> QED BY <1>6
  <2>2. Picked(v, S) = [m \in 1 .. n |-> v[Nth(S, m)]]
    BY DEF Picked
  <2> HIDE DEF n, p
  <2> QED BY <2>1, <2>2, <1>2, <1>5
<1>8. Training!ClusterSum(j) = Total(Picked(v, S))
  <2>1. Len(Picked(v, S)) = n
    BY <1>1, <1>3, PickedElements
  <2>2. Training!ClusterSum(j) = RunningTotal(Picked(v, S))[Len(record_index[j]) + 1]
    BY <1>7, SameTotal DEF Training!ClusterSum, v
  <2> HIDE DEF n, p
  <2> QED BY <1>2, <1>5, <2>1, <2>2 DEF Total
<1>9. CASE S = {}
  <2>1. n = 0
    BY <1>9, FS_EmptySet
  <2>2. record_index[j] = <<>>
    <3>1. record_index[j] \in Seq(1 .. Len(v))
      BY Unfolded DEF v
    <3>2. Len(record_index[j]) = 0
      <4> HIDE DEF n, p
      <4> QED BY <1>2, <1>5, <2>1
    <3> QED BY <3>1, <3>2
  <2>3. Training!Mean(j) \in Int
    BY MeanType
  <2>4. Total(Picked(v, S)) = 0
    <3>1. Picked(v, S) \in Seq(Int) /\ Len(Picked(v, S)) = 0
      BY <1>1, <1>3, <2>1, PickedElements
    <3>2. RunningTotal(Picked(v, S))[1] = 0
      BY <3>1, IntTotals
    <3> QED BY <3>1, <3>2 DEF Total
  <2>5. n * Training!Mean(j) = 0
    <3> HIDE DEF n
    <3> QED BY <2>1, <2>3
  <2>6. IsMean(v, S, Training!Mean(j))
    BY <2>4, <2>5 DEF IsMean
  <2> QED BY <2>6 DEF v, S
<1>10. CASE S # {}
  <2>1. n # 0
    BY <1>3, <1>10, FS_EmptySet
  <2>2. record_index[j] # <<>>
    <3>1. Len(record_index[j]) # 0
      <4> HIDE DEF n, p
      <4> QED BY <1>2, <1>5, <2>1
    <3> QED BY <3>1
  <2>3. Training!Mean(j) = Total(Picked(v, S)) \div n
    <3>1. Len(record_index[j]) = n
      BY <1>2, <1>5
    <3> HIDE DEF n, p
    <3> QED BY <2>2, <3>1, <1>8 DEF Training!Mean
  <2>4. IsMean(v, S, Total(Picked(v, S)) \div n)
    BY <1>1, <1>3, <1>10, MeanExact DEF v
  <2> QED BY <2>3, <2>4 DEF v, S
<1> QED BY <1>9, <1>10

\* The inputs of the model, as KmeansAssumption has them.
ExactTrainings ==
    /\ Scale \in Nat \ {0}
    /\ \A x \in Trainings : Training!IsInput(x) /\ Training!IsExact(x)

\* No step of a training raises Cost: only Recompute moves a centroid.
LEMMA CostStep ==
    ASSUME ExactTrainings, KInv, training \in Trainings, [Training!Next]_(Training!vars)
    PROVE  Training!Cost(centroid_vector') <= Training!Cost(centroid_vector)
<1>0. /\ Training!IsInput(training) /\ Training!k = training.k
      /\ centroid_vector \in [1 .. training.k -> Int]
  BY Unfolded
<1>1. /\ Training!Cost(centroid_vector') = Total(Costs(training, centroid_vector'))
      /\ Training!Cost(centroid_vector) = Total(Costs(training, centroid_vector))
  BY <1>0, CostIsTotal
<1>2. CASE Training!Recompute
  <2>1. centroid_vector' = [j \in 1 .. training.k |-> Training!Mean(j)] /\ stage = "mean"
    BY <1>0, <1>2 DEF Training!Recompute
  <2>2. ASSUME NEW j \in 1 .. training.k
        PROVE  /\ centroid_vector'[j] = Training!Mean(j) /\ Training!Mean(j) \in Int
               /\ IsMean(training.vector, Members(training, centroid_vector, j), centroid_vector'[j])
    <3>1. centroid_vector'[j] = Training!Mean(j)
      BY <2>1
    <3>2. Training!Mean(j) \in Int
      BY MeanType
    <3>3. IsMean(training.vector, Members(training, centroid_vector, j), Training!Mean(j))
      BY <2>1, RecomputeTakesMeans DEF ExactTrainings
    <3> QED BY <3>1, <3>2, <3>3
  <2>3. centroid_vector' \in [1 .. training.k -> Int]
    BY <2>1, <2>2
  <2>4. Total(Costs(training, centroid_vector')) <= Total(Costs(training, centroid_vector))
    BY <1>0, <2>2, <2>3, MeansCostLess
  <2> QED BY <1>1, <2>4
<1>3. CASE ~Training!Recompute
  <2>1. centroid_vector' = centroid_vector
    BY <1>3 DEF Training!Next, Training!vars, Training!Assign, Training!Again, Training!Settle,
                Training!MapOffsets
  <2>2. Total(Costs(training, centroid_vector)) \in Int
    BY <1>0, CostsType
  <2> QED BY <1>1, <2>1, <2>2
<1> QED BY <1>2, <1>3

\* No pass of kmeans_build makes the clustering worse, for every training whose
\* means are exact: the sum of the squared distances of the live records to their
\* nearest centroid never rises.
THEOREM PassesNeverWorsen ==
    ASSUME ExactTrainings
    PROVE  Training!Spec => Training!CostNeverRises
<1>1. Training!Spec => []KInv
  BY TrainingInv DEF ExactTrainings
<1>2. Training!Init => training \in Trainings
  BY DEF Training!Init
<1>3. training \in Trainings /\ [Training!Next]_(Training!vars) => (training \in Trainings)'
  BY DEF Training!Next, Training!vars, Training!Assign, Training!Recompute, Training!Again,
         Training!Settle, Training!MapOffsets
<1>4. KInv /\ training \in Trainings /\ [Training!Next]_(Training!vars)
         => [Training!Cost(centroid_vector') <= Training!Cost(centroid_vector)]_(Training!vars)
  BY CostStep
<1> QED BY <1>1, <1>2, <1>3, <1>4, PTL DEF Training!Spec, Training!CostNeverRises

--------------------------------------------------------------------------
(* A training and a search on the index it made.                            *)

\* The search is on the records that this finished training had, some of them
\* deleted since, and on its index: an entry names the record that starts at the
\* offset which the training stored.
OnThisTraining ==
    /\ stage = "done"
    /\ Len(table) = Len(training.vector) /\ Len(clusters) = training.k
    /\ \A r, s \in 1 .. Len(table) : training.byte_offset[r] = training.byte_offset[s] => r = s
    /\ \A r \in 1 .. Len(table) : training.is_deleted[r] => table[r].is_deleted
    /\ \A j \in 1 .. training.k :
          /\ Len(clusters[j].byte_offsets) = Len(byte_offsets[j])
          /\ \A n \in 1 .. Len(byte_offsets[j]) :
                /\ clusters[j].byte_offsets[n] \in 1 .. Len(table)
                /\ training.byte_offset[clusters[j].byte_offsets[n]] = byte_offsets[j][n]

\* With all clusters probed, every record that is not deleted is a candidate of
\* the search once.
TrainedProbeIsExact ==
    (OnThisTraining /\ pc \notin {"probe", "collect"} /\ input.use_ann
     /\ nprobe = Len(clusters) /\ NoneTooFar) =>
        \A c \in 1 .. Len(table) :
            ~table[c].is_deleted =>
                \E n \in 1 .. Len(candidates) :
                    /\ candidates[n] = c
                    /\ \A m \in 1 .. Len(candidates) : candidates[m] = c => m = n

\* The entries are the places of the records of the clusters.
LEMMA EntriesArePlaces ==
    ASSUME KInv, OnThisTraining, NEW j \in 1 .. training.k
    PROVE  /\ Len(clusters[j].byte_offsets) = Len(record_index[j])
           /\ \A n \in 1 .. Len(record_index[j]) :
                 clusters[j].byte_offsets[n] = record_index[j][n]
<1>1. /\ Len(byte_offsets[j]) = Len(record_index[j])
      /\ \A n \in 1 .. Len(record_index[j]) :
            byte_offsets[j][n] = training.byte_offset[record_index[j][n]]
  BY DEF KInv, OffsetsInv, OnThisTraining
<1>2. record_index[j] \in Seq(1 .. Len(training.vector))
  BY Unfolded
<1>3. ASSUME NEW n \in 1 .. Len(record_index[j])
      PROVE  clusters[j].byte_offsets[n] = record_index[j][n]
  <2>1. record_index[j][n] \in 1 .. Len(table)
    <3>1. Len(table) = Len(training.vector)
      BY DEF OnThisTraining
    <3> QED BY <1>2, <3>1
  <2>2. /\ clusters[j].byte_offsets[n] \in 1 .. Len(table)
        /\ training.byte_offset[clusters[j].byte_offsets[n]] = byte_offsets[j][n]
    BY <1>1 DEF OnThisTraining
  <2>3. \A r, s \in 1 .. Len(table) : training.byte_offset[r] = training.byte_offset[s] => r = s
    BY DEF OnThisTraining
  <2>4. byte_offsets[j][n] = training.byte_offset[record_index[j][n]]
    BY <1>1
  <2> QED BY <2>1, <2>2, <2>3, <2>4, Zenon
<1>4. Len(clusters[j].byte_offsets) = Len(byte_offsets[j])
  BY DEF OnThisTraining
<1> QED BY <1>1, <1>3, <1>4

\* What FullProbeIsExact asks of an index is what a training delivers.
LEMMA TrainedIsPartitioned ==
    ASSUME KInv, OnThisTraining
    PROVE  Partitioned
<1>0. /\ Training!IsInput(training) /\ training.k \in Nat
      /\ old_centroids \in [1 .. training.k -> Int]
      /\ Len(table) = Len(training.vector) /\ Len(clusters) = training.k
  BY Unfolded DEF OnThisTraining
<1>1. HoldOnce(training, old_centroids, record_index)
  <2>1. record_index = Clustered(training, old_centroids)
    BY DEF KInv, ClustersInv, OnThisTraining
  <2> QED BY <1>0, <2>1, ClusteredOnce
<1>2. /\ \A j \in 1 .. training.k : \A n \in 1 .. Len(record_index[j]) :
            record_index[j][n] \in Members(training, old_centroids, j)
      /\ \A j \in 1 .. training.k : \A r \in Members(training, old_centroids, j) :
            \E n \in 1 .. Len(record_index[j]) : record_index[j][n] = r
      /\ \A j \in 1 .. training.k : \A m, n \in 1 .. Len(record_index[j]) :
            record_index[j][m] = record_index[j][n] => m = n
  BY <1>1 DEF HoldOnce
<1>3. ASSUME NEW c \in 1 .. Len(table), ~table[c].is_deleted
      PROVE  \E j \in 1 .. Len(clusters) : \E q \in 1 .. Len(clusters[j].byte_offsets) :
                /\ clusters[j].byte_offsets[q] = c
                /\ \A l \in 1 .. Len(clusters) : \A r \in 1 .. Len(clusters[l].byte_offsets) :
                      clusters[l].byte_offsets[r] = c => l = j /\ r = q
  <2> DEFINE j == Best(training, old_centroids, c)
  <2>1. ~training.is_deleted[c] /\ c \in 1 .. Len(training.vector)
    BY <1>0, <1>3 DEF OnThisTraining
  <2>2. j \in 1 .. training.k
    BY <1>0, <2>1, BestIsNearest
  <2>3. c \in Members(training, old_centroids, j)
    BY <2>1 DEF Members
  <2>4. \A l : c \in Members(training, old_centroids, l) => l = j
    BY DEF Members
  <2> HIDE DEF j
  <2>5. PICK q \in 1 .. Len(record_index[j]) : record_index[j][q] = c
    BY <1>2, <2>2, <2>3
  <2>6. q \in 1 .. Len(clusters[j].byte_offsets) /\ clusters[j].byte_offsets[q] = c
    BY <2>2, <2>5, EntriesArePlaces
  <2>7. ASSUME NEW l \in 1 .. Len(clusters), NEW r \in 1 .. Len(clusters[l].byte_offsets),
               clusters[l].byte_offsets[r] = c
        PROVE  l = j /\ r = q
    <3>1. l \in 1 .. training.k /\ r \in 1 .. Len(record_index[l]) /\ record_index[l][r] = c
      BY <1>0, <2>7, EntriesArePlaces
    <3>2. c \in Members(training, old_centroids, l)
      BY <1>2, <3>1
    <3>3. l = j
      BY <2>4, <3>2
    <3> QED BY <1>2, <2>2, <2>5, <3>1, <3>3
  <2> QED BY <1>0, <2>2, <2>6, <2>7
<1> QED BY <1>3, Zenon DEF Partitioned

\* kmeans_build and ivf_search together: a search that probes every cluster of
\* the index which a training has just made of the table finds what the exact
\* search finds, each record once, whatever the centroids are and whatever has
\* been deleted since, as long as no centroid is as far away as 1e30.
THEOREM TrainedSearchIsExact ==
    ASSUME \A x \in Trainings : Training!IsInput(x)
    PROVE  Spec /\ Training!Spec => []TrainedProbeIsExact
<1>1. Spec => []FullProbeIsExact
  BY ProbingAllIsExact
<1>2. Training!Spec => []KInv
  BY TrainingInv
<1>3. FullProbeIsExact /\ KInv => TrainedProbeIsExact
  BY TrainedIsPartitioned, Zenon DEF FullProbeIsExact, TrainedProbeIsExact
<1> QED BY <1>1, <1>2, <1>3, PTL
=============================================================================
