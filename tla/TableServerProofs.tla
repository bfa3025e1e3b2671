-------------------------- MODULE TableServerProofs --------------------------
(* What an insert acknowledged stays in memory and in the file, the array      *)
(* describes the file, and the index in use points at the records it was made  *)
(* from.                                                                       *)
EXTENDS TableServer, SubsequencesProofs

\* The types that the proofs need, stronger than TypeOK.
TTypes ==
    /\ IsImage(data) /\ pending \in [Ids -> Nat] /\ schedule \in {"none", "due"}
    /\ up \in BOOLEAN /\ fp \in BOOLEAN /\ file_size \in Nat
    /\ records \in Seq(Record) /\ insert_queue \in Seq(Record)
    /\ pending_deletes \subseteq Ids
    /\ pending_delete_dirty \in BOOLEAN /\ append_held \in BOOLEAN
    /\ index_loaded \in BOOLEAN
    /\ round \in {"merge", "refresh", "delete", "drop", "jam"}
    /\ inserts \in 0 .. MaxInserts /\ trains \in 0 .. MaxTrains
    /\ acked \subseteq 1 .. inserts /\ opened \in 0 .. inserts /\ mishaps \subseteq Mishaps

\* The array and the queue live as long as the process; a table stays open
\* unless a compacted file could not be opened.
OpenInv ==
    /\ ~up => records = <<>> /\ insert_queue = <<>>
    /\ up /\ "reopen" \notin mishaps => fp

\* Every record starts inside the file, and the mapping ends inside it.
FileInv ==
    /\ \A o \in DOMAIN data.cells : o < data.eof
    /\ file_size <= data.eof

\* No insert is twice in the array, twice in the queue, or in both.
Distinct(s) == \A i, j \in 1 .. Len(s) : s[i].val = s[j].val => i = j
Known(s) == \A j \in 1 .. Len(s) : s[j].val \in 1 .. inserts
ValsInv ==
    /\ Known(records) /\ Known(insert_queue)
    /\ Distinct(records) /\ Distinct(insert_queue)
    /\ \A i \in 1 .. Len(records), j \in 1 .. Len(insert_queue) :
          records[i].val # insert_queue[j].val

\* The insert is live in the sequence.
In(s, v) == \E j \in 1 .. Len(s) : ~s[j].is_deleted /\ s[j].val = v

HeldInv ==
    up => \A v \in acked : v > opened => In(records, v) \/ In(insert_queue, v)

\* The record stands in the image where its byte_offset says.
Fits(img, r) ==
    /\ r.byte_offset \in DOMAIN img.cells
    /\ img.cells[r.byte_offset].id = r.id /\ img.cells[r.byte_offset].val = r.val
    /\ img.cells[r.byte_offset].len = r.len
    /\ img.cells[r.byte_offset].is_deleted = r.is_deleted
AllFit(img, s) == \A j \in 1 .. Len(s) : Fits(img, s[j])

FitsInv ==
    fp /\ "slipped" \notin mishaps => AllFit(data, records) /\ AllFit(data, insert_queue)

StoredInv ==
    "slipped" \notin mishaps => \A v \in acked : v > opened => LiveOnDisk(data, v)

\* Every entry is the start of the record it was taken from.
Exact(index, img) ==
    \A e \in index.entries :
        e.byte_offset \in DOMAIN img.cells /\ img.cells[e.byte_offset].val = e.val

IndexInv ==
    round # "drop" /\ mishaps = {} => Exact(index_file, data) /\ Exact(ivf_index, data)

\* Vectors are dropped by a compaction only, which leaves nothing queued.
AllHeap(s) == \A j \in 1 .. Len(s) : s[j].vector = "heap"
VectorInv == AllHeap(insert_queue) /\ (pending = NoIds \/ AllHeap(records))

TInv ==
    /\ TTypes /\ OpenInv /\ FileInv /\ ValsInv /\ HeldInv /\ FitsInv /\ StoredInv /\ IndexInv
    /\ VectorInv

--------------------------------------------------------------------------
(* The file.                                                                *)

LEMMA PaddedSizePositive ==
    ASSUME NEW len \in MetaLens
    PROVE  record_padded_size(len) \in Nat \ {0}
<1> DEFINE n == 24 + 4 * Dimension + len
           q == (n + 7) \div 8
<1>1. n \in Nat /\ n >= 24
  BY TableFileAssumption
<1>2. q \in Nat /\ 8 * q >= n
  BY <1>1
<1>3. record_padded_size(len) = 8 * q
  BY DEF record_padded_size, RECORD_ALIGN, RECORD_HEADER_BYTES
<1> HIDE DEF n, q
<1> QED BY <1>1, <1>2, <1>3

\* An insert adds a record at the end of the file and keeps the others.
LEMMA WriteKeeps ==
    ASSUME IsImage(data), FileInv, NEW c \in Cell,
           NEW new, new = storage_write_record(data, c)
    PROVE  /\ IsImage(new) /\ data.eof <= new.eof
           /\ \A o \in DOMAIN new.cells : o < new.eof
           /\ data.eof \in DOMAIN new.cells /\ new.cells[data.eof] = c
           /\ \A o \in DOMAIN data.cells : o \in DOMAIN new.cells /\ new.cells[o] = data.cells[o]
<1> DEFINE size == record_padded_size(c.len)
<1>1. c.len \in MetaLens
  BY DEF Cell
<1>2. size \in Nat /\ size > 0
  BY <1>1, PaddedSizePositive
<1>3. /\ data.eof \in Nat /\ data.eof \notin DOMAIN data.cells
      /\ DOMAIN data.cells \subseteq Nat /\ \A o \in DOMAIN data.cells : data.cells[o] \in Cell
  BY DEF IsImage, FileInv
<1>4. /\ DOMAIN new.cells = DOMAIN data.cells \cup {data.eof}
      /\ new.cells[data.eof] = c
      /\ \A o \in DOMAIN data.cells : new.cells[o] = data.cells[o]
  BY <1>3 DEF storage_write_record
<1>5. new.eof = data.eof + size
  BY DEF storage_write_record
<1>6. /\ new = [cells |-> new.cells, eof |-> new.eof]
      /\ new.cells = [o \in DOMAIN new.cells |-> new.cells[o]]
  BY DEF storage_write_record
<1> HIDE DEF size
<1>7. IsImage(new)
  BY <1>2, <1>3, <1>4, <1>5, <1>6 DEF IsImage
<1>8. \A o \in DOMAIN new.cells : o < new.eof
  BY <1>2, <1>3, <1>4, <1>5 DEF FileInv
<1> QED BY <1>2, <1>3, <1>4, <1>5, <1>7, <1>8

\* What stood in the file still does.
LEMMA KeptFits ==
    ASSUME NEW img, NEW new,
           \A o \in DOMAIN img.cells : o \in DOMAIN new.cells /\ new.cells[o] = img.cells[o]
    PROVE  /\ \A r : Fits(img, r) => Fits(new, r)
           /\ \A s : AllFit(img, s) => AllFit(new, s)
           /\ \A v : LiveOnDisk(img, v) => LiveOnDisk(new, v)
           /\ \A index : Exact(index, img) => Exact(index, new)
<1>1. \A r : Fits(img, r) => Fits(new, r)
  BY DEF Fits
<1>2. \A s : AllFit(img, s) => AllFit(new, s)
  BY <1>1 DEF AllFit
<1>3. \A v : LiveOnDisk(img, v) => LiveOnDisk(new, v)
  BY DEF LiveOnDisk
<1>4. \A index : Exact(index, img) => Exact(index, new)
  BY DEF Exact
<1> QED BY <1>1, <1>2, <1>3, <1>4

--------------------------------------------------------------------------
(* A scheduled delete.                                                      *)

LEMMA RecordFields ==
    ASSUME NEW s \in Seq(Record)
    PROVE  /\ Len(s) \in Nat
           /\ \A j \in 1 .. Len(s) :
                 /\ s[j] \in Record /\ s[j].id \in Ids /\ s[j].val \in Nat
                 /\ s[j].len \in MetaLens /\ s[j].is_deleted \in BOOLEAN
                 /\ s[j].byte_offset \in Nat /\ s[j].vector \in {"heap", "null"}
<1>1. Len(s) \in Nat /\ \A j \in 1 .. Len(s) : s[j] \in Record
  OBVIOUS
<1>2. \A r \in Record :
         /\ r.id \in Ids /\ r.val \in Nat
         /\ r.len \in MetaLens /\ r.is_deleted \in BOOLEAN
         /\ r.byte_offset \in Nat /\ r.vector \in {"heap", "null"}
  BY DEF Record
<1> QED BY <1>1, <1>2

\* db_delete sets the flag of the doomed records and changes nothing else.
LEMMA MarkedFields ==
    ASSUME TTypes
    PROVE  /\ Marked \in Seq(Record) /\ Len(Marked) = Len(records)
           /\ \A j \in 1 .. Len(records) :
                 /\ Marked[j].id = records[j].id /\ Marked[j].val = records[j].val
                 /\ Marked[j].len = records[j].len
                 /\ Marked[j].byte_offset = records[j].byte_offset
                 /\ Marked[j].vector = records[j].vector
                 /\ Marked[j].is_deleted = (records[j].is_deleted \/ j \in Doomed)
<1>1. records \in Seq(Record) /\ Len(records) \in Nat
  BY DEF TTypes
<1> DEFINE m(j) == [records[j] EXCEPT !.is_deleted = @ \/ j \in Doomed]
<1>2. ASSUME NEW j \in 1 .. Len(records)
      PROVE  /\ m(j) \in Record
             /\ m(j).id = records[j].id /\ m(j).val = records[j].val
             /\ m(j).len = records[j].len /\ m(j).byte_offset = records[j].byte_offset
             /\ m(j).vector = records[j].vector
             /\ m(j).is_deleted = (records[j].is_deleted \/ j \in Doomed)
  <2>1. records[j] \in Record
    BY <1>1
  <2> QED BY <2>1 DEF Record
<1>3. Marked = [j \in 1 .. Len(records) |-> m(j)]
  BY DEF Marked
<1> HIDE DEF m
<1>4. Marked \in Seq(Record) /\ Len(Marked) = Len(records)
  BY <1>1, <1>2, <1>3
<1>5. \A j \in 1 .. Len(records) : Marked[j] = m(j)
  BY <1>3
<1> QED BY <1>2, <1>4, <1>5

\* The survivors are the live records that are not doomed, each once.
Surviving(recs) ==
    /\ recs \in Seq(Record) /\ Distinct(recs) /\ Known(recs)
    /\ \A n \in 1 .. Len(recs) : recs[n].is_deleted = FALSE
    /\ \A n \in 1 .. Len(recs) : \E j \in 1 .. Len(records) : recs[n].val = records[j].val
    /\ \A j \in LiveAt(records) : j \notin Doomed => In(recs, records[j].val)

LEMMA SurvivorsFields ==
    ASSUME TTypes, ValsInv, NEW recs, recs = Survivors
    PROVE  Surviving(recs)
<1> DEFINE S == LiveAt(Marked)
<1>1. /\ Marked \in Seq(Record) /\ Len(Marked) = Len(records)
      /\ \A j \in 1 .. Len(records) :
            /\ Marked[j].val = records[j].val
            /\ Marked[j].is_deleted = (records[j].is_deleted \/ j \in Doomed)
  BY MarkedFields
<1>2. S \in SUBSET (1 .. Len(Marked)) /\ \A j \in S : ~Marked[j].is_deleted
  BY DEF LiveAt
<1>3. recs = Picked(Marked, S)
  BY DEF Survivors
<1>4. \A j \in LiveAt(records) : j \notin Doomed => j \in S
  BY <1>1 DEF LiveAt
<1> HIDE DEF S
<1>5. /\ recs \in Seq(Record) /\ Len(recs) \in Nat
      /\ \A n \in 1 .. Len(recs) : Nth(S, n) \in S /\ recs[n] = Marked[Nth(S, n)]
      /\ \A j \in S : \E n \in 1 .. Len(recs) : Nth(S, n) = j
      /\ \A m, n \in 1 .. Len(recs) : m < n => Nth(S, m) < Nth(S, n)
  BY <1>1, <1>2, <1>3, PickedElements
<1>6. ASSUME NEW n \in 1 .. Len(recs)
      PROVE  /\ Nth(S, n) \in 1 .. Len(records) /\ recs[n].val = records[Nth(S, n)].val
             /\ recs[n].is_deleted = FALSE
  <2>1. recs[n] \in Record
    BY <1>5
  <2>2. recs[n].is_deleted \in BOOLEAN
    BY <2>1 DEF Record
  <2> QED BY <2>2, <1>1, <1>2, <1>5
<1>7. Known(recs)
  BY <1>6 DEF Known, ValsInv
<1>8. Distinct(recs)
  <2> SUFFICES ASSUME NEW m \in 1 .. Len(recs), NEW n \in 1 .. Len(recs),
                      recs[m].val = recs[n].val
               PROVE  m = n
    BY DEF Distinct
  <2>0. \A i, j \in 1 .. Len(records) : records[i].val = records[j].val => i = j
    BY DEF ValsInv, Distinct
  <2>1. Nth(S, m) = Nth(S, n) /\ Nth(S, n) \in Int
    <3>1. Nth(S, m) \in 1 .. Len(records) /\ recs[m].val = records[Nth(S, m)].val
      BY <1>6
    <3>2. Nth(S, n) \in 1 .. Len(records) /\ recs[n].val = records[Nth(S, n)].val
      BY <1>6
    <3> DEFINE a == Nth(S, m)
               b == Nth(S, n)
    <3>3. records[a].val = records[b].val
      BY <3>1, <3>2
    <3>4. a \in 1 .. Len(records) /\ b \in 1 .. Len(records) /\ b \in Int
      BY <3>1, <3>2
    <3> HIDE DEF a, b
    <3>5. a = b
      BY <3>3, <3>4, <2>0
    <3> QED BY <3>4, <3>5 DEF a, b
  <2>2. ~(m < n) /\ ~(n < m)
    <3>1. /\ m < n => Nth(S, m) < Nth(S, n)
          /\ n < m => Nth(S, n) < Nth(S, m)
      BY <1>5
    <3> QED BY <3>1, <2>1
  <2> QED BY <2>2
<1>9. ASSUME NEW j \in LiveAt(records), j \notin Doomed
      PROVE  In(recs, records[j].val)
  <2>1. PICK n \in 1 .. Len(recs) : Nth(S, n) = j
    BY <1>4, <1>5, <1>9
  <2> QED BY <2>1, <1>6 DEF In
<1> QED BY <1>5, <1>6, <1>7, <1>8, <1>9 DEF Surviving

\* The new offsets increase from 0 to the length of the new file.
LEMMA OffsetsIncrease ==
    ASSUME NEW recs \in Seq(Record), NEW at, at = NewOffsets(recs)
    PROVE  /\ \A j \in 1 .. Len(recs) + 1 : at[j] \in Nat
           /\ \A i, j \in 1 .. Len(recs) + 1 : i < j => at[i] < at[j]
<1> DEFINE sizes == [j \in 1 .. Len(recs) |-> record_padded_size(recs[j].len)]
<1>1. /\ Len(recs) \in Nat
      /\ \A j \in 1 .. Len(recs) : record_padded_size(recs[j].len) \in Nat \ {0}
  <2>1. Len(recs) \in Nat /\ \A j \in 1 .. Len(recs) : recs[j].len \in MetaLens
    BY RecordFields
  <2> QED BY <2>1, PaddedSizePositive
<1>2. Len(sizes) = Len(recs) /\ sizes \in Seq(Nat \ {0}) /\ sizes \in Seq(Nat)
  BY <1>1
<1>3. at = RunningTotal(sizes)
  BY DEF NewOffsets
<1> HIDE DEF sizes
<1>4. at \in [1 .. Len(sizes) + 1 -> Nat]
  BY <1>2, <1>3, Totals
<1>5. \A i, j \in 1 .. Len(sizes) + 1 : i < j => at[i] < at[j]
  BY <1>2, <1>3, TotalsIncrease
<1> QED BY <1>2, <1>4, <1>5

\* The compacted array describes the compacted file, which holds nothing else.
Compacted(recs, img, new) ==
    /\ IsImage(img) /\ \A o \in DOMAIN img.cells : o < img.eof
    /\ new \in Seq(Record) /\ Len(new) = Len(recs) /\ AllFit(img, new)
    /\ \A n \in 1 .. Len(recs) : new[n].val = recs[n].val /\ new[n].is_deleted = FALSE

LEMMA CompactedFits ==
    ASSUME NEW recs \in Seq(Record), \A n \in 1 .. Len(recs) : recs[n].is_deleted = FALSE,
           NEW img, img = CompactedData(recs), NEW new, new = CompactedRecords(recs)
    PROVE  Compacted(recs, img, new)
<1> DEFINE N == Len(recs)
           at == NewOffsets(recs)
           Cells(n) == [id |-> recs[n].id, val |-> recs[n].val, len |-> recs[n].len,
                        is_deleted |-> FALSE]
           Moved(n) == [recs[n] EXCEPT !.byte_offset = at[n], !.vector = "null"]
           Pos(o) == CHOOSE n \in 1 .. N : at[n] = o
<1>1. /\ N \in Nat
      /\ \A n \in 1 .. N : /\ recs[n] \in Record /\ recs[n].id \in Ids /\ recs[n].val \in Nat
                           /\ recs[n].len \in MetaLens
  BY RecordFields
<1>2. /\ \A n \in 1 .. N + 1 : at[n] \in Nat
      /\ \A i, j \in 1 .. N + 1 : i < j => at[i] < at[j]
  <2> HIDE DEF at
  <2> QED BY OffsetsIncrease DEF at
<1>3. /\ img.cells = [o \in {at[n] : n \in 1 .. N} |-> Cells(Pos(o))]
      /\ img.eof = at[N + 1] /\ img = [cells |-> img.cells, eof |-> img.eof]
  BY DEF CompactedData
<1>4. new = [n \in 1 .. N |-> Moved(n)]
  BY DEF CompactedRecords
<1> HIDE DEF at
<1>5. \A n \in 1 .. N : n \in 1 .. N + 1 /\ n < N + 1 /\ N + 1 \in 1 .. N + 1
  BY <1>1
<1>6. ASSUME NEW n \in 1 .. N
      PROVE  Pos(at[n]) = n
  <2>1. Pos(at[n]) \in 1 .. N /\ at[Pos(at[n])] = at[n]
    OBVIOUS
  <2> HIDE DEF Pos
  <2>2. ~(Pos(at[n]) < n) /\ ~(n < Pos(at[n]))
    BY <2>1, <1>2, <1>5
  <2> QED BY <2>1, <2>2, <1>1
<1>7. \A n \in 1 .. N : Cells(n) \in Cell
  BY <1>1 DEF Cell
<1>8. ASSUME NEW n \in 1 .. N
      PROVE  /\ Moved(n) \in Record /\ Moved(n).id = recs[n].id /\ Moved(n).val = recs[n].val
             /\ Moved(n).len = recs[n].len /\ Moved(n).is_deleted = FALSE
             /\ Moved(n).byte_offset = at[n]
  <2>1. at[n] \in Nat /\ recs[n] \in Record
    BY <1>1, <1>2, <1>5
  <2> QED BY <2>1 DEF Record
<1>9. ASSUME NEW n \in 1 .. N
      PROVE  at[n] \in DOMAIN img.cells /\ img.cells[at[n]] = Cells(n)
  <2> HIDE DEF Pos, Cells
  <2> QED BY <1>3, <1>6
<1>10. \A o \in DOMAIN img.cells : \E n \in 1 .. N : o = at[n]
  <2> HIDE DEF Pos, Cells
  <2> QED BY <1>3
<1>11. img.eof \in Nat /\ \A o \in DOMAIN img.cells : o \in Nat /\ o < img.eof
  <2> HIDE DEF Pos, Cells, N
  <2>1. N + 1 \in 1 .. N + 1
    BY <1>1
  <2>2. img.eof = at[N + 1] /\ img.eof \in Nat
    BY <2>1, <1>2, <1>3
  <2>3. \A n \in 1 .. N : at[n] \in Nat /\ at[n] < at[N + 1]
    BY <2>1, <1>2, <1>5
  <2> QED BY <2>2, <2>3, <1>10
<1>12. IsImage(img)
  <2>1. \A o \in DOMAIN img.cells : img.cells[o] \in Cell
    <3> HIDE DEF Cells
    <3> QED BY <1>7, <1>9, <1>10
  <2>2. img.cells = [o \in DOMAIN img.cells |-> img.cells[o]]
    <3> HIDE DEF Pos, Cells
    <3> QED BY <1>3
  <2> QED BY <1>3, <1>11, <2>1, <2>2 DEF IsImage
<1>13. new \in Seq(Record) /\ Len(new) = N /\ \A n \in 1 .. N : new[n] = Moved(n)
  <2>1. \A n \in 1 .. N : Moved(n) \in Record
    BY <1>8
  <2> HIDE DEF Moved, N
  <2>2. new = [n \in 1 .. N |-> Moved(n)] /\ N \in Nat
    BY <1>1, <1>4
  <2> QED BY <2>1, <2>2
<1>14. AllFit(img, new)
  <2> SUFFICES ASSUME NEW n \in 1 .. N
               PROVE  Fits(img, new[n])
    BY <1>13 DEF AllFit
  <2>1. new[n].byte_offset = at[n] /\ new[n].id = recs[n].id /\ new[n].val = recs[n].val
        /\ new[n].len = recs[n].len /\ new[n].is_deleted = FALSE
    <3> HIDE DEF Moved
    <3> QED BY <1>8, <1>13
  <2>2. /\ at[n] \in DOMAIN img.cells /\ img.cells[at[n]].id = recs[n].id
        /\ img.cells[at[n]].val = recs[n].val /\ img.cells[at[n]].len = recs[n].len
        /\ img.cells[at[n]].is_deleted = FALSE
    <3>1. /\ Cells(n).id = recs[n].id /\ Cells(n).val = recs[n].val
          /\ Cells(n).len = recs[n].len /\ Cells(n).is_deleted = FALSE
      OBVIOUS
    <3> HIDE DEF Cells
    <3> QED BY <3>1, <1>9
  <2> QED BY <2>1, <2>2 DEF Fits
<1> QED BY <1>8, <1>11, <1>12, <1>13, <1>14 DEF Compacted

\* A delete marks in the file what it marks in the array, and nothing else.
LEMMA PatchedFits ==
    ASSUME TTypes, FileInv
    PROVE  /\ IsImage(Patched) /\ Patched.eof = data.eof
           /\ DOMAIN Patched.cells = DOMAIN data.cells
           /\ \A o \in DOMAIN data.cells :
                 /\ Patched.cells[o].id = data.cells[o].id
                 /\ Patched.cells[o].val = data.cells[o].val
                 /\ Patched.cells[o].len = data.cells[o].len
                 /\ Patched.cells[o].is_deleted =
                        (data.cells[o].is_deleted \/ \E j \in Doomed : records[j].byte_offset = o)
<1> DEFINE Hit(o) == \E j \in Doomed : records[j].byte_offset = o
           cell(o) == [data.cells[o] EXCEPT !.is_deleted = @ \/ Hit(o)]
           D == DOMAIN data.cells
<1>1. /\ data = [cells |-> data.cells, eof |-> data.eof] /\ data.eof \in Nat /\ D \subseteq Nat
      /\ \A o \in D : data.cells[o] \in Cell
  BY DEF TTypes, IsImage
<1>2. Patched = [cells |-> [o \in D |-> cell(o)], eof |-> data.eof]
  BY <1>1 DEF Patched
<1>3. ASSUME NEW o \in D
      PROVE  /\ cell(o) \in Cell /\ cell(o).id = data.cells[o].id
             /\ cell(o).val = data.cells[o].val /\ cell(o).len = data.cells[o].len
             /\ cell(o).is_deleted = (data.cells[o].is_deleted \/ Hit(o))
  <2>1. data.cells[o] \in Cell /\ Hit(o) \in BOOLEAN
    BY <1>1
  <2> HIDE DEF Hit
  <2> QED BY <2>1 DEF Cell
<1> HIDE DEF cell
<1>4. /\ Patched.cells = [o \in D |-> cell(o)] /\ Patched.eof = data.eof
      /\ Patched = [cells |-> Patched.cells, eof |-> Patched.eof]
  BY <1>2
<1>5. /\ IsImage(Patched) /\ Patched.eof = data.eof /\ DOMAIN Patched.cells = D
      /\ \A o \in D : Patched.cells[o] = cell(o)
  BY <1>1, <1>3, <1>4 DEF IsImage
<1> QED BY <1>3, <1>5

\* After the marks the array still describes the file: only the doomed record
\* itself stands at its offset.
LEMMA MarkedFits ==
    ASSUME TTypes, FileInv, ValsInv, AllFit(data, records)
    PROVE  /\ AllFit(Patched, Marked)
           /\ \A v : LiveOnDisk(data, v) =>
                 LiveOnDisk(Patched, v) \/ \E j \in Doomed : records[j].val = v
<1>0. Doomed \subseteq LiveAt(records) /\ LiveAt(records) \subseteq 1 .. Len(records)
  BY DEF Doomed, LiveAt
<1>1. /\ DOMAIN Patched.cells = DOMAIN data.cells
      /\ \A o \in DOMAIN data.cells :
            /\ Patched.cells[o].id = data.cells[o].id
            /\ Patched.cells[o].val = data.cells[o].val
            /\ Patched.cells[o].len = data.cells[o].len
            /\ Patched.cells[o].is_deleted =
                   (data.cells[o].is_deleted \/ \E j \in Doomed : records[j].byte_offset = o)
  BY PatchedFits
<1>2. /\ Len(Marked) = Len(records)
      /\ \A j \in 1 .. Len(records) :
            /\ Marked[j].id = records[j].id /\ Marked[j].val = records[j].val
            /\ Marked[j].len = records[j].len /\ Marked[j].byte_offset = records[j].byte_offset
            /\ Marked[j].is_deleted = (records[j].is_deleted \/ j \in Doomed)
  BY MarkedFields
<1>3. ASSUME NEW j \in 1 .. Len(records)
      PROVE  /\ records[j].byte_offset \in DOMAIN data.cells
             /\ data.cells[records[j].byte_offset].id = records[j].id
             /\ data.cells[records[j].byte_offset].val = records[j].val
             /\ data.cells[records[j].byte_offset].len = records[j].len
             /\ data.cells[records[j].byte_offset].is_deleted = records[j].is_deleted
  BY DEF AllFit, Fits
<1>4. ASSUME NEW j \in 1 .. Len(records), NEW k \in Doomed,
             records[k].byte_offset = records[j].byte_offset
      PROVE  k = j
  <2>1. k \in 1 .. Len(records)
    BY <1>0
  <2>2. records[k].val = records[j].val
    BY <2>1, <1>3, <1>4
  <2> QED BY <2>1, <2>2 DEF ValsInv, Distinct
<1>5. ASSUME NEW j \in 1 .. Len(records)
      PROVE  Fits(Patched, Marked[j])
  <2>1. (\E k \in Doomed : records[k].byte_offset = records[j].byte_offset) <=> j \in Doomed
    BY <1>4
  <2> QED BY <2>1, <1>1, <1>2, <1>3 DEF Fits
<1>6. ASSUME NEW v, LiveOnDisk(data, v), ~LiveOnDisk(Patched, v)
      PROVE  \E j \in Doomed : records[j].val = v
  <2>1. PICK o \in DOMAIN data.cells : data.cells[o].val = v /\ ~data.cells[o].is_deleted
    BY <1>6 DEF LiveOnDisk
  <2>2. Patched.cells[o].is_deleted
    BY <2>1, <1>1, <1>6 DEF LiveOnDisk
  <2>3. PICK j \in Doomed : records[j].byte_offset = o
    BY <2>1, <2>2, <1>1
  <2>4. j \in 1 .. Len(records)
    BY <1>0
  <2> QED BY <2>1, <2>3, <2>4, <1>3
<1> QED BY <1>2, <1>5, <1>6 DEF AllFit

--------------------------------------------------------------------------
(* The steps.                                                               *)

LEMMA TableInit == Init => TInv
<1> SUFFICES ASSUME Init PROVE TInv
  OBVIOUS
<1>1. IsImage(data) /\ DOMAIN data.cells = {} /\ data.eof = 0
  BY DEF Init, EmptyImage, IsImage
<1>2. records = <<>> /\ insert_queue = <<>> /\ acked = {} /\ file_size = 0 /\ up = FALSE
      /\ fp = FALSE /\ mishaps = {} /\ opened = 0 /\ inserts = 0
  BY DEF Init
<1>3. index_file.entries = {} /\ ivf_index.entries = {}
  BY DEF Init, NoIndex
<1>4. TTypes
  <2>1. records \in Seq(Record) /\ insert_queue \in Seq(Record)
    BY <1>2
  <2>2. /\ inserts \in 0 .. MaxInserts /\ trains \in 0 .. MaxTrains /\ acked \subseteq 1 .. inserts
        /\ opened \in 0 .. inserts /\ file_size \in Nat
    BY <1>2, TableServerAssumption DEF Init
  <2>3. /\ pending \in [Ids -> Nat] /\ schedule \in {"none", "due"} /\ pending_deletes \subseteq Ids
        /\ round \in {"merge", "refresh", "delete", "drop", "jam"} /\ mishaps \subseteq Mishaps
    BY TableServerAssumption DEF Init
  <2>4. /\ up \in BOOLEAN /\ fp \in BOOLEAN /\ index_loaded \in BOOLEAN
        /\ pending_delete_dirty \in BOOLEAN /\ append_held \in BOOLEAN
    BY DEF Init
  <2> QED BY <1>1, <2>1, <2>2, <2>3, <2>4 DEF TTypes
<1>5. OpenInv /\ HeldInv /\ StoredInv
  BY <1>2 DEF OpenInv, HeldInv, StoredInv
<1>6. FileInv
  BY <1>1, <1>2 DEF FileInv
<1>7. ValsInv /\ FitsInv
  BY <1>2 DEF ValsInv, FitsInv, Known, Distinct
<1>8. IndexInv /\ VectorInv
  BY <1>2, <1>3 DEF IndexInv, Exact, VectorInv, AllHeap
<1> QED BY <1>4, <1>5, <1>6, <1>7, <1>8 DEF TInv

\* A step that leaves the file, the array and the queue alone.
Still == UNCHANGED <<data, records, insert_queue, up, fp, file_size, inserts, acked,
                     opened, mishaps>>

LEMMA StillKeeps ==
    ASSUME TInv, Still
    PROVE  /\ OpenInv' /\ FileInv' /\ ValsInv' /\ HeldInv' /\ FitsInv' /\ StoredInv'
           /\ IsImage(data)' /\ records' \in Seq(Record) /\ insert_queue' \in Seq(Record)
           /\ \A index : Exact(index, data') <=> Exact(index, data)
<1>1. /\ data' = data /\ records' = records /\ insert_queue' = insert_queue /\ up' = up
      /\ fp' = fp /\ file_size' = file_size /\ inserts' = inserts /\ acked' = acked
      /\ opened' = opened /\ mishaps' = mishaps
  BY DEF Still
<1>2. OpenInv' /\ FileInv' /\ ValsInv'
  BY <1>1 DEF TInv, OpenInv, FileInv, ValsInv, Known
<1>3. HeldInv' /\ FitsInv' /\ StoredInv'
  BY <1>1 DEF TInv, HeldInv, FitsInv, StoredInv
<1>4. IsImage(data)' /\ records' \in Seq(Record) /\ insert_queue' \in Seq(Record)
  BY <1>1 DEF TInv, TTypes
<1> QED BY <1>1, <1>2, <1>3, <1>4

\* The queue of deletes and the schedule.
LEMMA QuietStep ==
    ASSUME TInv, DeleteRequest \/ SyncRefresh \/ AutoDeleteNothing \/ set_auto_delete_schedule
    PROVE  TInv'
<1> USE TableServerAssumption
<1>1. Still
  BY DEF Still, DeleteRequest, SyncRefresh, AutoDeleteNothing, set_auto_delete_schedule,
         files, queue, cache, history
<1>2. /\ OpenInv' /\ FileInv' /\ ValsInv' /\ HeldInv' /\ FitsInv' /\ StoredInv'
      /\ IsImage(data)' /\ records' \in Seq(Record) /\ insert_queue' \in Seq(Record)
      /\ \A index : Exact(index, data') <=> Exact(index, data)
  BY <1>1, StillKeeps
<1>3. index_file' = index_file /\ ivf_index' = ivf_index /\ (round' # "drop" => round # "drop")
  BY DEF DeleteRequest, SyncRefresh, AutoDeleteNothing, set_auto_delete_schedule,
         files, queue, cache, history
<1>4. IndexInv'
  BY <1>1, <1>2, <1>3 DEF IndexInv, TInv, Still
<1>5. TTypes'
  <2>1. TTypes
    BY DEF TInv
  <2>2. load_pending_deletes \subseteq Ids /\ NoIds \in [Ids -> Nat]
    BY DEF load_pending_deletes, NoIds
  <2>3. pending' \in [Ids -> Nat] /\ schedule' \in {"none", "due"}
    BY <2>1, <2>2 DEF TTypes, DeleteRequest, SyncRefresh, AutoDeleteNothing,
          set_auto_delete_schedule, files
  <2>4. pending_deletes' \subseteq Ids
    BY <2>1, <2>2 DEF TTypes, DeleteRequest, SyncRefresh, AutoDeleteNothing,
          set_auto_delete_schedule, queue
  <2>5. pending_delete_dirty' \in BOOLEAN /\ append_held' \in BOOLEAN
        /\ index_loaded' \in BOOLEAN
    BY <2>1 DEF TTypes, DeleteRequest, SyncRefresh, AutoDeleteNothing,
          set_auto_delete_schedule, queue, cache
  <2>6. round' \in {"merge", "refresh", "delete", "drop", "jam"} /\ trains' = trains
    BY <2>1 DEF TTypes, DeleteRequest, SyncRefresh, AutoDeleteNothing,
          set_auto_delete_schedule, history
  <2> QED BY <1>1, <1>2, <2>1, <2>3, <2>4, <2>5, <2>6 DEF TTypes, Still
<1>6. VectorInv'
  <2>1. pending' = pending \/ pending' = NoIds
    BY DEF DeleteRequest, SyncRefresh, AutoDeleteNothing, set_auto_delete_schedule, files
  <2> QED BY <2>1, <1>1 DEF TInv, VectorInv, Still, NoIds
<1> QED BY <1>2, <1>4, <1>5, <1>6 DEF TInv

\* What a training lists stands in the file.
LEMMA TrainedExact ==
    ASSUME TInv, up, mishaps = {}
    PROVE  Exact(IndexOf(kmeans_build), data)
<1>1. AllFit(data, records)
  BY DEF TInv, OpenInv, FitsInv
<1>2. IndexOf(kmeans_build).entries = kmeans_build
  BY DEF IndexOf
<1>3. ASSUME NEW e \in kmeans_build
      PROVE  e.byte_offset \in DOMAIN data.cells /\ data.cells[e.byte_offset].val = e.val
  <2>1. PICK j \in LiveAt(records) :
            e = [byte_offset |-> records[j].byte_offset, val |-> records[j].val]
    BY DEF kmeans_build
  <2>2. e.byte_offset = records[j].byte_offset /\ e.val = records[j].val
    BY <2>1
  <2>3. Fits(data, records[j])
    BY <1>1 DEF LiveAt, AllFit
  <2> QED BY <2>2, <2>3 DEF Fits
<1> QED BY <1>2, <1>3 DEF Exact

\* Training, the first search after it, and the removal of the index.
LEMMA IndexStep ==
    ASSUME TInv, Train \/ LoadIndex \/ SyncDropIndex
    PROVE  TInv'
<1>0. TTypes
  BY DEF TInv
<1>1. Still
  BY DEF Still, Train, LoadIndex, SyncDropIndex, files, queue, cache, history
<1>2. /\ OpenInv' /\ FileInv' /\ ValsInv' /\ HeldInv' /\ FitsInv' /\ StoredInv'
      /\ IsImage(data)' /\ records' \in Seq(Record) /\ insert_queue' \in Seq(Record)
      /\ \A index : Exact(index, data') <=> Exact(index, data)
  BY <1>1, StillKeeps
<1>3. \A img : Exact(NoIndex, img) /\ Exact(TornIndex, img)
  BY DEF Exact, NoIndex, TornIndex
<1>4. IndexInv'
  <2> SUFFICES ASSUME round' # "drop", mishaps = {}
               PROVE  Exact(index_file', data) /\ Exact(ivf_index', data)
    BY <1>1, <1>2 DEF IndexInv, Still
  <2>1. CASE Train
    <3>1. round # "drop" /\ up
      BY <2>1 DEF Train, Serving
    <3>2. Exact(index_file, data) /\ Exact(ivf_index, data)
      BY <3>1 DEF TInv, IndexInv
    <3>3. Exact(IndexOf(kmeans_build), data)
      BY <3>1, TrainedExact
    <3>4. /\ index_file' \in {index_file, TornIndex, IndexOf(kmeans_build)}
          /\ ivf_index' \in {ivf_index, IndexOf(kmeans_build)}
      BY <2>1 DEF Train, cache
    <3> QED BY <1>3, <3>2, <3>3, <3>4
  <2>2. CASE LoadIndex
    <3>1. round # "drop" /\ index_file' = index_file /\ ivf_index' = load_ivf_index
      BY <2>2 DEF LoadIndex, files
    <3>2. load_ivf_index \in {index_file, NoIndex}
      BY DEF load_ivf_index
    <3> QED BY <1>3, <3>1, <3>2 DEF TInv, IndexInv
  <2>3. CASE SyncDropIndex
    BY <1>3, <2>3 DEF SyncDropIndex
  <2> QED BY <2>1, <2>2, <2>3
<1>5. TTypes'
  <2>1. /\ pending' = pending /\ schedule' = schedule /\ pending_deletes' = pending_deletes
        /\ pending_delete_dirty' = pending_delete_dirty /\ append_held' = append_held
    BY DEF Train, LoadIndex, SyncDropIndex, files, queue
  <2>2. trains' \in 0 .. MaxTrains
    BY <1>0, TableServerAssumption DEF TTypes, Train, LoadIndex, SyncDropIndex, history
  <2>3. index_loaded' \in BOOLEAN /\ round' \in {"merge", "refresh", "delete", "drop", "jam"}
    BY <1>0 DEF TTypes, Train, LoadIndex, SyncDropIndex, cache
  <2> QED BY <1>0, <1>1, <1>2, <2>1, <2>2, <2>3 DEF TTypes, Still
<1>6. VectorInv'
  <2>1. pending' = pending
    BY DEF Train, LoadIndex, SyncDropIndex, files
  <2> QED BY <2>1, <1>1 DEF TInv, VectorInv, Still, NoIds
<1> QED BY <1>2, <1>4, <1>5, <1>6 DEF TInv

LEMMA OpenStep ==
    ASSUME TInv, get_or_open_table
    PROVE  TInv'
<1>0. TTypes
  BY DEF TInv
<1>1. /\ ~up /\ up' = TRUE /\ fp' = TRUE /\ file_size' = data.eof /\ opened' = inserts
      /\ data' = data /\ records' = records /\ insert_queue' = insert_queue
      /\ index_file' = index_file /\ ivf_index' = ivf_index /\ round' = round
      /\ inserts' = inserts /\ acked' = acked /\ mishaps' = mishaps
  BY DEF get_or_open_table, files, cache
<1>2. records = <<>> /\ insert_queue = <<>>
  BY <1>1 DEF TInv, OpenInv
<1>3. inserts \in Nat /\ opened \in Nat /\ data.eof \in Nat /\ \A v \in acked : v \in Nat /\ v <= inserts
  BY <1>0, TableServerAssumption DEF TTypes, IsImage
<1>4. TTypes'
  <2>1. /\ pending' = pending /\ schedule' = schedule
        /\ pending_delete_dirty' = pending_delete_dirty /\ append_held' = append_held
        /\ index_loaded' = index_loaded /\ trains' = trains
    BY DEF get_or_open_table, files, cache
  <2>2. pending_deletes' \subseteq Ids
    BY DEF get_or_open_table, load_pending_deletes
  <2>3. opened' \in 0 .. inserts' /\ file_size' \in Nat
    BY <1>1, <1>3
  <2>4. up' \in BOOLEAN /\ fp' \in BOOLEAN
    BY <1>1
  <2>5. /\ IsImage(data') /\ pending \in [Ids -> Nat] /\ schedule \in {"none", "due"}
        /\ records' \in Seq(Record) /\ insert_queue' \in Seq(Record)
        /\ round' \in {"merge", "refresh", "delete", "drop", "jam"}
        /\ inserts' \in 0 .. MaxInserts /\ trains \in 0 .. MaxTrains
        /\ acked' \subseteq 1 .. inserts' /\ mishaps' \subseteq Mishaps
    BY <1>0, <1>1 DEF TTypes
  <2>6. /\ pending_delete_dirty \in BOOLEAN /\ append_held \in BOOLEAN /\ index_loaded \in BOOLEAN
    BY <1>0 DEF TTypes
  <2> QED BY <2>1, <2>2, <2>3, <2>4, <2>5, <2>6 DEF TTypes
<1>5. OpenInv' /\ FileInv'
  BY <1>1, <1>3 DEF OpenInv, FileInv, TInv
<1>6. ValsInv' /\ FitsInv'
  BY <1>1, <1>2 DEF ValsInv, FitsInv, Known, Distinct, AllFit
<1>7. HeldInv' /\ StoredInv'
  BY <1>1, <1>3 DEF HeldInv, StoredInv
<1>8. IndexInv'
  BY <1>1 DEF IndexInv, TInv
<1>9. VectorInv'
  BY <1>1, <1>2 DEF VectorInv, AllHeap
<1> QED BY <1>4, <1>5, <1>6, <1>7, <1>8, <1>9 DEF TInv

\* The files stay as they are.
LEMMA GoneStep ==
    ASSUME TInv, ServerGone
    PROVE  TInv'
<1>0. TTypes
  BY DEF TInv
<1>1. /\ up' = FALSE /\ fp' = FALSE /\ file_size' = 0 /\ records' = <<>> /\ insert_queue' = <<>>
      /\ data' = data /\ index_file' = index_file /\ ivf_index' = NoIndex
      /\ inserts' = inserts /\ acked' = acked /\ opened' = opened /\ trains' = trains
      /\ round' = "merge"
  BY DEF ServerGone, files
<1>2. /\ mishaps' \subseteq Mishaps /\ mishaps \subseteq mishaps'
      /\ mishaps' = {} => round # "drop" /\ mishaps = {}
      /\ "slipped" \notin mishaps' => "slipped" \notin mishaps
  BY <1>0 DEF ServerGone, TTypes, Mishaps
<1>3. TTypes'
  <2>1. /\ pending' = pending /\ schedule' = schedule /\ pending_deletes' = {}
        /\ pending_delete_dirty' = FALSE /\ append_held' = FALSE /\ index_loaded' = FALSE
    BY DEF ServerGone, files
  <2>2. records' \in Seq(Record) /\ insert_queue' \in Seq(Record) /\ file_size' \in Nat
    BY <1>1
  <2>3. up' \in BOOLEAN /\ fp' \in BOOLEAN /\ pending_delete_dirty' \in BOOLEAN
        /\ append_held' \in BOOLEAN /\ index_loaded' \in BOOLEAN
    BY <1>1, <2>1
  <2>4. /\ IsImage(data') /\ pending' \in [Ids -> Nat] /\ schedule' \in {"none", "due"}
        /\ pending_deletes' \subseteq Ids
        /\ round' \in {"merge", "refresh", "delete", "drop", "jam"}
        /\ inserts' \in 0 .. MaxInserts /\ trains' \in 0 .. MaxTrains
        /\ acked' \subseteq 1 .. inserts' /\ opened' \in 0 .. inserts'
    BY <1>0, <1>1, <2>1 DEF TTypes
  <2> QED BY <1>2, <2>2, <2>3, <2>4 DEF TTypes
<1>4. OpenInv' /\ HeldInv' /\ FitsInv'
  BY <1>1 DEF OpenInv, HeldInv, FitsInv
<1>5. FileInv'
  BY <1>0, <1>1 DEF TInv, TTypes, FileInv, IsImage
<1>6. ValsInv'
  BY <1>1 DEF ValsInv, Known, Distinct
<1>7. StoredInv'
  BY <1>1, <1>2 DEF TInv, StoredInv
<1>8. IndexInv'
  <2>1. Exact(NoIndex, data)
    BY DEF Exact, NoIndex
  <2> QED BY <1>1, <1>2, <2>1 DEF TInv, IndexInv
<1>9. VectorInv'
  BY <1>1 DEF VectorInv, AllHeap
<1> QED BY <1>3, <1>4, <1>5, <1>6, <1>7, <1>8, <1>9 DEF TInv

LEMMA InsertStep ==
    ASSUME TInv, NEW id \in Ids, NEW len \in MetaLens, Insert(id, len)
    PROVE  TInv'
<1> DEFINE c == [id |-> id, val |-> inserts + 1, len |-> len, is_deleted |-> FALSE]
           q == Queued(id, len, storage_current_offset)
           L == Len(insert_queue)
<1>0. TTypes /\ FileInv
  BY DEF TInv
<1>1. /\ up /\ fp /\ inserts < MaxInserts
      /\ data' = storage_write_record(data, c) /\ insert_queue' = Append(insert_queue, q)
      /\ inserts' = inserts + 1 /\ acked' = acked \cup {inserts + 1}
      /\ index_file' = index_file /\ ivf_index' = ivf_index
      /\ up' = up /\ fp' = fp /\ file_size' = file_size /\ records' = records
      /\ round' = round /\ opened' = opened /\ mishaps' = mishaps
  BY DEF Insert, Serving, Written, cache
<1>2. /\ inserts \in Nat /\ inserts + 1 \in Nat /\ MaxInserts \in Nat /\ opened \in Nat
      /\ IsImage(data) /\ data.eof \in Nat /\ file_size \in Nat
      /\ insert_queue \in Seq(Record) /\ L \in Nat
      /\ records \in Seq(Record)
  BY <1>0, TableServerAssumption DEF TTypes, IsImage
<1>3. /\ q \in Record /\ q.id = id /\ q.val = inserts + 1 /\ q.len = len
      /\ q.is_deleted = FALSE /\ q.byte_offset = data.eof /\ q.vector = "heap"
  BY <1>2 DEF Queued, storage_current_offset, Record
<1>4. c \in Cell /\ c.id = id /\ c.val = inserts + 1 /\ c.len = len /\ c.is_deleted = FALSE
  BY <1>2 DEF Cell
<1> HIDE DEF c, q
<1>5. /\ IsImage(data') /\ data.eof <= data'.eof
      /\ \A o \in DOMAIN data'.cells : o < data'.eof
      /\ data.eof \in DOMAIN data'.cells /\ data'.cells[data.eof] = c
      /\ \A o \in DOMAIN data.cells : o \in DOMAIN data'.cells /\ data'.cells[o] = data.cells[o]
  BY <1>0, <1>1, <1>2, <1>4, WriteKeeps
<1>6. /\ \A s : AllFit(data, s) => AllFit(data', s)
      /\ \A v : LiveOnDisk(data, v) => LiveOnDisk(data', v)
      /\ \A index : Exact(index, data) => Exact(index, data')
  <2> DEFINE new == data'
  <2>1. \A o \in DOMAIN data.cells : o \in DOMAIN new.cells /\ new.cells[o] = data.cells[o]
    BY <1>5
  <2> HIDE DEF new
  <2>2. /\ \A s : AllFit(data, s) => AllFit(new, s)
        /\ \A v : LiveOnDisk(data, v) => LiveOnDisk(new, v)
        /\ \A index : Exact(index, data) => Exact(index, new)
    BY <2>1, KeptFits
  <2> QED BY <2>2 DEF new
<1>7. /\ insert_queue' \in Seq(Record) /\ Len(insert_queue') = L + 1
      /\ insert_queue'[L + 1] = q
      /\ \A j \in 1 .. L : insert_queue'[j] = insert_queue[j]
  BY <1>1, <1>2, <1>3
<1>8. \A j \in 1 .. L + 1 : j = L + 1 \/ j \in 1 .. L
  BY <1>2
<1>9. TTypes'
  <2>1. /\ inserts' \in 0 .. MaxInserts /\ opened' \in 0 .. inserts'
        /\ acked' \subseteq 1 .. inserts'
    BY <1>0, <1>1, <1>2 DEF TTypes
  <2>2. /\ pending' = pending /\ schedule' = schedule /\ pending_deletes' = pending_deletes
        /\ pending_delete_dirty' = pending_delete_dirty /\ append_held' = append_held
        /\ index_loaded' = index_loaded /\ trains' = trains
    BY DEF Insert, queue, cache
  <2> QED BY <1>0, <1>1, <1>5, <1>7, <2>1, <2>2 DEF TTypes
<1>10. OpenInv'
  BY <1>1 DEF OpenInv, TInv
<1>11. FileInv'
  <2>1. data'.eof \in Nat /\ file_size <= data.eof
    BY <1>0, <1>5 DEF IsImage, FileInv
  <2>2. file_size' <= data'.eof
    BY <1>1, <1>2, <1>5, <2>1
  <2> QED BY <1>5, <2>2 DEF FileInv
<1>12. ValsInv'
  <2>1. /\ \A j \in 1 .. Len(records) : records[j].val \in 1 .. inserts
        /\ \A j \in 1 .. L : insert_queue[j].val \in 1 .. inserts
        /\ \A i, j \in 1 .. L : insert_queue[i].val = insert_queue[j].val => i = j
        /\ \A i \in 1 .. Len(records), j \in 1 .. L : records[i].val # insert_queue[j].val
        /\ Distinct(records)
    BY DEF TInv, ValsInv, Known, Distinct
  <2>2. /\ \A n \in 1 .. inserts : n \in 1 .. inserts + 1 /\ n # inserts + 1
        /\ inserts + 1 \in 1 .. inserts + 1
    BY <1>2
  <2>3. Known(records)' /\ Known(insert_queue)'
    <3>1. \A j \in 1 .. Len(records) : records[j].val \in 1 .. inserts + 1
      BY <2>1, <2>2
    <3>2. \A j \in 1 .. L + 1 : insert_queue'[j].val \in 1 .. inserts + 1
      BY <1>3, <1>7, <1>8, <2>1, <2>2
    <3> QED BY <1>1, <1>7, <3>1, <3>2 DEF Known
  <2>4. ASSUME NEW i \in 1 .. L + 1, NEW j \in 1 .. L + 1,
               insert_queue'[i].val = insert_queue'[j].val
        PROVE  i = j
    <3>1. \A k \in 1 .. L : insert_queue'[k].val # inserts + 1
      BY <1>7, <2>1, <2>2
    <3>2. insert_queue'[L + 1].val = inserts + 1
      BY <1>3, <1>7
    <3> QED BY <1>7, <1>8, <2>1, <2>4, <3>1, <3>2
  <2>5. ASSUME NEW i \in 1 .. Len(records), NEW j \in 1 .. L + 1
        PROVE  records[i].val # insert_queue'[j].val
    BY <1>3, <1>7, <1>8, <2>1, <2>2
  <2> QED BY <1>1, <1>7, <2>1, <2>3, <2>4, <2>5 DEF ValsInv, Distinct
<1>13. HeldInv'
  <2> SUFFICES ASSUME NEW v \in acked', v > opened
               PROVE  In(records, v) \/ In(insert_queue', v)
    BY <1>1 DEF HeldInv
  <2>1. CASE v = inserts + 1
    <3>1. L + 1 \in 1 .. Len(insert_queue')
      BY <1>2, <1>7
    <3> QED BY <2>1, <3>1, <1>3, <1>7 DEF In
  <2>2. CASE v \in acked
    <3>1. In(records, v) \/ In(insert_queue, v)
      BY <1>1, <2>2 DEF TInv, HeldInv
    <3>2. In(insert_queue, v) => In(insert_queue', v)
      <4>1. \A j \in 1 .. L : j \in 1 .. Len(insert_queue')
        BY <1>2, <1>7
      <4> QED BY <4>1, <1>7 DEF In
    <3> QED BY <3>1, <3>2
  <2> QED BY <1>1, <2>1, <2>2
<1>14. FitsInv'
  <2> SUFFICES ASSUME "slipped" \notin mishaps
               PROVE  AllFit(data', records) /\ AllFit(data', insert_queue')
    BY <1>1 DEF FitsInv
  <2>1. AllFit(data', records) /\ AllFit(data', insert_queue)
    BY <1>1, <1>6 DEF TInv, FitsInv
  <2>2. Fits(data', q)
    BY <1>3, <1>4, <1>5 DEF Fits
  <2>3. ASSUME NEW j \in 1 .. L + 1
        PROVE  Fits(data', insert_queue'[j])
    <3>1. CASE j = L + 1
      BY <2>2, <3>1, <1>7
    <3>2. CASE j \in 1 .. L
      <4>1. Fits(data', insert_queue[j])
        BY <2>1, <3>2 DEF AllFit
      <4> QED BY <4>1, <3>2, <1>7
    <3> QED BY <3>1, <3>2, <1>8
  <2> QED BY <2>1, <2>3, <1>7 DEF AllFit
<1>15. StoredInv'
  <2> SUFFICES ASSUME "slipped" \notin mishaps, NEW v \in acked', v > opened
               PROVE  LiveOnDisk(data', v)
    BY <1>1 DEF StoredInv
  <2>1. CASE v = inserts + 1
    BY <2>1, <1>4, <1>5 DEF LiveOnDisk
  <2>2. CASE v \in acked
    BY <2>2, <1>6 DEF TInv, StoredInv
  <2> QED BY <1>1, <2>1, <2>2
<1>16. IndexInv'
  BY <1>1, <1>6 DEF IndexInv, TInv
<1>17. VectorInv'
  <2>1. pending' = pending
    BY DEF Insert
  <2>2. AllHeap(insert_queue')
    BY <1>3, <1>7, <1>8 DEF TInv, VectorInv, AllHeap
  <2> QED BY <2>1, <2>2, <1>1 DEF TInv, VectorInv, NoIds
<1> QED BY <1>9, <1>10, <1>11, <1>12, <1>13, <1>14, <1>15, <1>16, <1>17 DEF TInv

\* An insert that fails or gets stuck leaves bytes in the file and nothing in RAM.
LEMMA UnansweredStep ==
    ASSUME TInv, NEW len \in MetaLens,
           InsertFails(len) \/ \E id \in Ids : InsertJam(id, len)
    PROVE  TInv'
<1>0. TTypes /\ FileInv
  BY DEF TInv
<1>1. /\ inserts < MaxInserts /\ inserts' = inserts + 1 /\ acked' = acked
      /\ index_file' = index_file /\ ivf_index' = ivf_index /\ index_loaded' = index_loaded
      /\ up' = up /\ fp' = fp /\ file_size' = file_size /\ records' = records
      /\ insert_queue' = insert_queue /\ opened' = opened /\ mishaps' = mishaps
      /\ pending' = pending /\ schedule' = schedule /\ trains' = trains
  BY DEF InsertFails, InsertJam, cache
<1>2. /\ pending_deletes' = pending_deletes /\ append_held' = append_held
      /\ pending_delete_dirty' = pending_delete_dirty
      /\ round' \in {round, "jam"} /\ (round' # round => round = "merge")
  BY DEF InsertFails, InsertJam, queue
<1>3. /\ inserts \in Nat /\ inserts + 1 \in Nat /\ MaxInserts \in Nat /\ opened \in Nat
      /\ IsImage(data) /\ data.eof \in Nat /\ file_size \in Nat
  BY <1>0, TableServerAssumption DEF TTypes, IsImage
<1>4. /\ IsImage(data') /\ data.eof <= data'.eof
      /\ \A o \in DOMAIN data'.cells : o < data'.eof
      /\ \A o \in DOMAIN data.cells : o \in DOMAIN data'.cells /\ data'.cells[o] = data.cells[o]
  <2>1. CASE InsertFails(len)
    <3>1. PICK k \in TornBytes : data' = TornWrite(data, k)
      BY <2>1 DEF InsertFails
    <3>2. k \in Nat
      BY TableServerAssumption
    <3>3. data = [cells |-> data.cells, eof |-> data.eof]
      BY <1>3 DEF IsImage
    <3>4. /\ data'.cells = data.cells /\ data'.eof = data.eof + k
          /\ data' = [cells |-> data'.cells, eof |-> data'.eof]
      BY <3>1, <3>3 DEF TornWrite
    <3>5. IsImage(data')
      BY <1>3, <3>2, <3>4 DEF IsImage
    <3>6. \A o \in DOMAIN data.cells : o \in Nat /\ o < data.eof
      BY <1>0, <1>3 DEF IsImage, FileInv
    <3>7. data.eof <= data'.eof /\ \A o \in DOMAIN data'.cells : o < data'.eof
      BY <1>3, <3>2, <3>4, <3>6
    <3> QED BY <3>4, <3>5, <3>7
  <2>2. CASE \E id \in Ids : InsertJam(id, len)
    <3>1. PICK id \in Ids : InsertJam(id, len)
      BY <2>2
    <3> DEFINE c == Written(id, len)
    <3>2. c \in Cell
      BY <1>3 DEF Written, Cell
    <3>3. data' = storage_write_record(data, c)
      BY <3>1 DEF InsertJam
    <3> HIDE DEF c
    <3> QED BY <1>0, <1>3, <3>2, <3>3, WriteKeeps
  <2> QED BY <2>1, <2>2
<1>5. /\ \A s : AllFit(data, s) => AllFit(data', s)
      /\ \A v : LiveOnDisk(data, v) => LiveOnDisk(data', v)
      /\ \A index : Exact(index, data) => Exact(index, data')
  <2> DEFINE new == data'
  <2>1. \A o \in DOMAIN data.cells : o \in DOMAIN new.cells /\ new.cells[o] = data.cells[o]
    BY <1>4
  <2> HIDE DEF new
  <2>2. /\ \A s : AllFit(data, s) => AllFit(new, s)
        /\ \A v : LiveOnDisk(data, v) => LiveOnDisk(new, v)
        /\ \A index : Exact(index, data) => Exact(index, new)
    BY <2>1, KeptFits
  <2> QED BY <2>2 DEF new
<1>6. TTypes'
  <2>1. /\ inserts' \in 0 .. MaxInserts /\ opened' \in 0 .. inserts'
        /\ acked' \subseteq 1 .. inserts'
    BY <1>0, <1>1, <1>3 DEF TTypes
  <2>2. round' \in {"merge", "refresh", "delete", "drop", "jam"}
    BY <1>0, <1>2 DEF TTypes
  <2> QED BY <1>0, <1>1, <1>2, <1>4, <2>1, <2>2 DEF TTypes
<1>7. OpenInv' /\ HeldInv'
  BY <1>1 DEF OpenInv, HeldInv, TInv
<1>8. FileInv'
  <2>1. data'.eof \in Nat /\ file_size <= data.eof
    BY <1>0, <1>4 DEF IsImage, FileInv
  <2>2. file_size' <= data'.eof
    BY <1>1, <1>3, <1>4, <2>1
  <2> QED BY <1>4, <2>2 DEF FileInv
<1>9. ValsInv'
  <2>1. \A n \in 1 .. inserts : n \in 1 .. inserts + 1
    BY <1>3
  <2>2. Known(records)' /\ Known(insert_queue)'
    BY <1>1, <2>1 DEF TInv, ValsInv, Known
  <2> QED BY <1>1, <2>2 DEF TInv, ValsInv
<1>10. FitsInv' /\ StoredInv'
  BY <1>1, <1>5 DEF TInv, FitsInv, StoredInv
<1>11. IndexInv'
  BY <1>1, <1>2, <1>5 DEF TInv, IndexInv
<1>12. VectorInv'
  BY <1>1 DEF TInv, VectorInv, NoIds
<1> QED BY <1>6, <1>7, <1>8, <1>9, <1>10, <1>11, <1>12 DEF TInv

\* The drain of the insert queue.
LEMMA MergeStep ==
    ASSUME TInv, SyncMerge
    PROVE  TInv'
<1> DEFINE M == Len(records)
           L == Len(insert_queue)
<1>0. TTypes /\ FileInv /\ ValsInv
  BY DEF TInv
<1>1. /\ up /\ round = "merge" /\ round' = "refresh"
      /\ records' = records \o insert_queue /\ insert_queue' = <<>>
      /\ data' = data /\ index_file' = index_file /\ ivf_index' = ivf_index
      /\ up' = up /\ fp' = fp /\ inserts' = inserts /\ acked' = acked /\ opened' = opened
      /\ mishaps' = mishaps
  BY DEF SyncMerge, files, cache, history
<1>2. /\ records \in Seq(Record) /\ insert_queue \in Seq(Record) /\ M \in Nat /\ L \in Nat
      /\ data.eof \in Nat /\ file_size \in Nat
  BY <1>0 DEF TTypes, IsImage
<1>3. file_size' \in {file_size, data.eof} /\ data.eof <= data.eof /\ file_size <= data.eof
  BY <1>0, <1>2 DEF SyncMerge, storage_remap, FileInv
<1>4. /\ records' \in Seq(Record) /\ Len(records') = M + L
      /\ \A j \in 1 .. M : records'[j] = records[j]
      /\ \A j \in 1 .. L : records'[M + j] = insert_queue[j]
  BY <1>1, <1>2
<1>5. \A j \in 1 .. M + L : j \in 1 .. M \/ (j - M \in 1 .. L /\ M + (j - M) = j)
  BY <1>2
<1>6. ASSUME NEW j \in 1 .. M + L
      PROVE  \/ j \in 1 .. M /\ records'[j] = records[j]
             \/ j - M \in 1 .. L /\ records'[j] = insert_queue[j - M]
  <2>1. CASE j \in 1 .. M
    BY <2>1, <1>4
  <2>2. CASE j - M \in 1 .. L /\ M + (j - M) = j
    <3>1. records'[M + (j - M)] = insert_queue[j - M]
      BY <2>2, <1>4
    <3> QED BY <2>2, <3>1
  <2> QED BY <2>1, <2>2, <1>5
<1>7. TTypes'
  <2>1. insert_queue' \in Seq(Record) /\ file_size' \in Nat
    BY <1>1, <1>2, <1>3
  <2>2. /\ pending' = pending /\ schedule' = schedule /\ pending_deletes' = pending_deletes
        /\ pending_delete_dirty' = pending_delete_dirty /\ append_held' = append_held
        /\ index_loaded' = index_loaded /\ trains' = trains
    BY DEF SyncMerge, files, queue, cache, history
  <2> QED BY <1>0, <1>1, <1>4, <2>1, <2>2 DEF TTypes
<1>8. OpenInv' /\ FileInv'
  BY <1>1, <1>3 DEF OpenInv, FileInv, TInv
<1>9. ValsInv'
  <2>1. /\ \A j \in 1 .. M : records[j].val \in 1 .. inserts
        /\ \A j \in 1 .. L : insert_queue[j].val \in 1 .. inserts
        /\ \A i, j \in 1 .. M : records[i].val = records[j].val => i = j
        /\ \A i, j \in 1 .. L : insert_queue[i].val = insert_queue[j].val => i = j
        /\ \A i \in 1 .. M, j \in 1 .. L : records[i].val # insert_queue[j].val
    BY <1>0 DEF ValsInv, Known, Distinct
  <2>2. \A j \in 1 .. M + L : records'[j].val \in 1 .. inserts
    BY <2>1, <1>6
  <2>3. ASSUME NEW i \in 1 .. M + L, NEW j \in 1 .. M + L, records'[i].val = records'[j].val
        PROVE  i = j
    <3>1. i - M = j - M => i = j
      BY <1>2
    <3>2. \/ i \in 1 .. M /\ records'[i] = records[i]
          \/ i - M \in 1 .. L /\ records'[i] = insert_queue[i - M]
      BY <1>6
    <3>3. \/ j \in 1 .. M /\ records'[j] = records[j]
          \/ j - M \in 1 .. L /\ records'[j] = insert_queue[j - M]
      BY <1>6
    <3>4. CASE i \in 1 .. M /\ records'[i] = records[i] /\ j \in 1 .. M /\ records'[j] = records[j]
      BY <2>1, <2>3, <3>4
    <3>5. CASE /\ i - M \in 1 .. L /\ records'[i] = insert_queue[i - M]
               /\ j - M \in 1 .. L /\ records'[j] = insert_queue[j - M]
      <4>1. i - M = j - M
        BY <2>1, <2>3, <3>5
      <4> QED BY <4>1, <3>1
    <3>6. CASE /\ i \in 1 .. M /\ records'[i] = records[i]
               /\ j - M \in 1 .. L /\ records'[j] = insert_queue[j - M]
      BY <2>1, <2>3, <3>6
    <3>7. CASE /\ j \in 1 .. M /\ records'[j] = records[j]
               /\ i - M \in 1 .. L /\ records'[i] = insert_queue[i - M]
      BY <2>1, <2>3, <3>7
    <3> QED BY <3>2, <3>3, <3>4, <3>5, <3>6, <3>7
  <2>4. Known(records)' /\ Distinct(records)'
    BY <1>1, <1>4, <2>2, <2>3 DEF Known, Distinct
  <2>5. Len(insert_queue') = 0 /\ \A j \in 1 .. Len(insert_queue') : FALSE
    BY <1>1
  <2>6. Known(insert_queue)' /\ Distinct(insert_queue)'
    BY <2>5 DEF Known, Distinct
  <2> QED BY <2>4, <2>5, <2>6 DEF ValsInv
<1>10. HeldInv'
  <2> SUFFICES ASSUME NEW v \in acked, v > opened
               PROVE  In(records', v)
    BY <1>1 DEF HeldInv
  <2>1. In(records, v) \/ In(insert_queue, v)
    BY <1>1 DEF TInv, HeldInv
  <2>2. CASE In(records, v)
    <3>1. PICK j \in 1 .. M : ~records[j].is_deleted /\ records[j].val = v
      BY <2>2 DEF In
    <3>2. j \in 1 .. Len(records')
      BY <1>2, <1>4
    <3> QED BY <3>1, <3>2, <1>4 DEF In
  <2>3. CASE In(insert_queue, v)
    <3>1. PICK j \in 1 .. L : ~insert_queue[j].is_deleted /\ insert_queue[j].val = v
      BY <2>3 DEF In
    <3>2. M + j \in 1 .. Len(records')
      BY <1>2, <1>4
    <3> QED BY <3>1, <3>2, <1>4 DEF In
  <2> QED BY <2>1, <2>2, <2>3
<1>11. FitsInv'
  <2> SUFFICES ASSUME fp, "slipped" \notin mishaps
               PROVE  AllFit(data, records') /\ AllFit(data, <<>>)
    BY <1>1 DEF FitsInv
  <2>1. /\ \A j \in 1 .. M : Fits(data, records[j])
        /\ \A j \in 1 .. L : Fits(data, insert_queue[j])
    BY DEF TInv, FitsInv, AllFit
  <2>2. \A j \in 1 .. M + L : Fits(data, records'[j])
    BY <2>1, <1>6
  <2> QED BY <2>2, <1>4 DEF AllFit
<1>12. StoredInv' /\ IndexInv'
  BY <1>1 DEF StoredInv, IndexInv, TInv
<1>13. VectorInv'
  <2>1. pending' = pending
    BY DEF SyncMerge, files
  <2>2. AllHeap(records) => AllHeap(records')
    <3>1. ASSUME AllHeap(records), NEW j \in 1 .. M + L
          PROVE  records'[j].vector = "heap"
      <4>1. \A n \in 1 .. L : insert_queue[n].vector = "heap"
        BY DEF TInv, VectorInv, AllHeap
      <4>2. \A n \in 1 .. M : records[n].vector = "heap"
        BY <3>1 DEF AllHeap
      <4> QED BY <4>1, <4>2, <1>6
    <3> QED BY <3>1, <1>4 DEF AllHeap
  <2>3. AllHeap(insert_queue')
    BY <1>1 DEF AllHeap
  <2> QED BY <2>1, <2>2, <2>3 DEF TInv, VectorInv, NoIds
<1> QED BY <1>7, <1>8, <1>9, <1>10, <1>11, <1>12, <1>13 DEF TInv

\* An array that takes the place of records loses only what is doomed.
Replaces(new) ==
    /\ new \in Seq(Record) /\ Distinct(new)
    /\ \A n \in 1 .. Len(new) : \E j \in 1 .. Len(records) : new[n].val = records[j].val
    /\ \A j \in LiveAt(records) : j \notin Doomed => In(new, records[j].val)

LEMMA MarkedReplaces ==
    ASSUME TTypes, ValsInv
    PROVE  Replaces(Marked)
<1>1. /\ Marked \in Seq(Record) /\ Len(Marked) = Len(records)
      /\ \A j \in 1 .. Len(records) :
            /\ Marked[j].val = records[j].val
            /\ Marked[j].is_deleted = (records[j].is_deleted \/ j \in Doomed)
  BY MarkedFields
<1>2. Distinct(Marked)
  BY <1>1 DEF ValsInv, Distinct
<1>3. ASSUME NEW j \in LiveAt(records), j \notin Doomed
      PROVE  In(Marked, records[j].val)
  BY <1>1, <1>3 DEF In, LiveAt
<1> QED BY <1>1, <1>2, <1>3 DEF Replaces

LEMMA CompactedReplaces ==
    ASSUME TTypes, ValsInv, NEW recs, recs = Survivors,
           NEW img, img = CompactedData(recs), NEW new, new = CompactedRecords(recs)
    PROVE  /\ Replaces(new) /\ AllFit(img, new)
           /\ IsImage(img) /\ \A o \in DOMAIN img.cells : o < img.eof
           /\ \A v : In(new, v) => LiveOnDisk(img, v)
<1>0. Surviving(recs)
  BY SurvivorsFields
<1>1. /\ recs \in Seq(Record) /\ Distinct(recs)
      /\ \A n \in 1 .. Len(recs) : recs[n].is_deleted = FALSE
      /\ \A n \in 1 .. Len(recs) : \E j \in 1 .. Len(records) : recs[n].val = records[j].val
      /\ \A j \in LiveAt(records) : j \notin Doomed => In(recs, records[j].val)
  BY <1>0 DEF Surviving
<1>2. /\ IsImage(img) /\ \A o \in DOMAIN img.cells : o < img.eof
      /\ new \in Seq(Record) /\ Len(new) = Len(recs) /\ AllFit(img, new)
      /\ \A n \in 1 .. Len(recs) : new[n].val = recs[n].val /\ new[n].is_deleted = FALSE
  <2>1. recs \in Seq(Record) /\ \A n \in 1 .. Len(recs) : recs[n].is_deleted = FALSE
    BY <1>1
  <2>2. Compacted(recs, img, new)
    BY <2>1, CompactedFits
  <2> QED BY <2>2 DEF Compacted
<1>3. Distinct(new)
  BY <1>1, <1>2 DEF Distinct
<1>4. \A v : In(recs, v) => In(new, v)
  BY <1>2 DEF In
<1>5. Replaces(new)
  <2>1. \A n \in 1 .. Len(new) : \E j \in 1 .. Len(records) : new[n].val = records[j].val
    BY <1>1, <1>2
  <2>2. \A j \in LiveAt(records) : j \notin Doomed => In(new, records[j].val)
    BY <1>1, <1>4
  <2>3. new \in Seq(Record)
    BY <1>2
  <2> QED BY <2>1, <2>2, <2>3, <1>3 DEF Replaces
<1>6. ASSUME NEW v, In(new, v)
      PROVE  LiveOnDisk(img, v)
  <2>1. PICK n \in 1 .. Len(new) : ~new[n].is_deleted /\ new[n].val = v
    BY <1>6 DEF In
  <2>2. Fits(img, new[n])
    BY <1>2 DEF AllFit
  <2> QED BY <2>1, <2>2 DEF Fits, LiveOnDisk
<1> QED BY <1>2, <1>5, <1>6

\* The three ends of a scheduled delete: the compaction is done, it failed and
\* left the marks, or it is done and the file could not be opened again.
LEMMA DeleteStep ==
    ASSUME TInv, check_and_run_auto_delete
    PROVE  TInv'
<1> DEFINE recs == Survivors
           doomedVals == {records[j].val : j \in Doomed}
<1>0. TTypes /\ FileInv /\ ValsInv
  BY DEF TInv
<1>1. /\ up /\ fp /\ up' = up /\ round' = "drop" /\ acked' = acked \ doomedVals
      /\ insert_queue' = insert_queue /\ inserts' = inserts /\ opened' = opened
      /\ db_compact(recs)
      /\ mishaps' = mishaps \cup (IF insert_queue # <<>> THEN {"slipped"} ELSE {})
                            \cup (IF ~fp' THEN {"reopen"} ELSE {})
  BY DEF check_and_run_auto_delete
<1>2. /\ mishaps' \subseteq Mishaps
      /\ "slipped" \notin mishaps' => "slipped" \notin mishaps /\ insert_queue = <<>>
      /\ "reopen" \notin mishaps' => fp'
  BY <1>0, <1>1 DEF TTypes, Mishaps
<1>3. /\ Replaces(CompactedRecords(recs)) /\ AllFit(CompactedData(recs), CompactedRecords(recs))
      /\ IsImage(CompactedData(recs))
      /\ \A o \in DOMAIN CompactedData(recs).cells : o < CompactedData(recs).eof
      /\ \A v : In(CompactedRecords(recs), v) => LiveOnDisk(CompactedData(recs), v)
  <2> HIDE DEF recs
  <2> QED BY <1>0, CompactedReplaces DEF recs
<1>4. Replaces(Marked)
  BY <1>0, MarkedReplaces
<1>5. /\ IsImage(Patched) /\ Patched.eof = data.eof /\ DOMAIN Patched.cells = DOMAIN data.cells
  BY <1>0, PatchedFits
<1> DEFINE Done == /\ data' = CompactedData(recs) /\ records' = CompactedRecords(recs)
                   /\ fp' = TRUE /\ file_size' = data'.eof
           Failed == /\ data' = Patched /\ records' = Marked
                     /\ fp' = fp /\ file_size' = file_size
           Closed == /\ data' = CompactedData(recs) /\ records' = Marked
                     /\ fp' = FALSE /\ file_size' = 0
<1>6. Done \/ Failed \/ Closed
  BY <1>1 DEF db_compact
<1>7. Replaces(records')
  BY <1>3, <1>4, <1>6
<1>8. /\ IsImage(data') /\ \A o \in DOMAIN data'.cells : o < data'.eof
  BY <1>0, <1>3, <1>5, <1>6 DEF FileInv
<1>9. data.eof \in Nat /\ file_size \in Nat /\ data'.eof \in Nat /\ file_size <= data.eof
  BY <1>0, <1>8 DEF TTypes, IsImage, FileInv
<1>10. file_size' \in Nat /\ file_size' <= data'.eof /\ fp' \in BOOLEAN
  <2>1. fp \in BOOLEAN
    BY <1>0 DEF TTypes
  <2> HIDE DEF recs
  <2>2. fp' \in BOOLEAN
    BY <1>6, <2>1
  <2>3. file_size' \in Nat /\ file_size' <= data'.eof
    BY <1>5, <1>6, <1>9
  <2> QED BY <2>2, <2>3
<1> HIDE DEF recs
<1>11. TTypes'
  <2>1. /\ schedule' \in {"none", "due"} /\ pending' \in [Ids -> Nat]
    BY DEF check_and_run_auto_delete, NoIds
  <2>2. /\ pending_deletes' = pending_deletes /\ trains' = trains
        /\ pending_delete_dirty' = pending_delete_dirty /\ append_held' = append_held
        /\ index_loaded' = index_loaded
    BY DEF check_and_run_auto_delete, queue, cache
  <2>3. records' \in Seq(Record)
    BY <1>7 DEF Replaces
  <2>4. acked' \subseteq 1 .. inserts'
    BY <1>0, <1>1 DEF TTypes
  <2> HIDE DEF Done, Failed, Closed
  <2> QED BY <1>0, <1>1, <1>2, <1>8, <1>10, <2>1, <2>2, <2>3, <2>4 DEF TTypes
<1>12. OpenInv' /\ FileInv'
  BY <1>1, <1>2, <1>8, <1>10 DEF OpenInv, FileInv
<1>13. ValsInv'
  <2>1. \A n \in 1 .. Len(records') : \E j \in 1 .. Len(records) : records'[n].val = records[j].val
    BY <1>7 DEF Replaces
  <2>2. Known(records)' /\ Distinct(records)'
    BY <2>1, <1>0, <1>1, <1>7 DEF Replaces, ValsInv, Known
  <2>3. Known(insert_queue)' /\ Distinct(insert_queue)'
    BY <1>0, <1>1 DEF ValsInv, Known
  <2>4. \A i \in 1 .. Len(records'), j \in 1 .. Len(insert_queue) :
            records'[i].val # insert_queue[j].val
    BY <2>1, <1>0 DEF ValsInv
  <2> QED BY <2>2, <2>3, <2>4, <1>1 DEF ValsInv
<1>14. ASSUME NEW v \in acked', In(records, v)
       PROVE  In(records', v)
  <2>1. PICK j \in 1 .. Len(records) : ~records[j].is_deleted /\ records[j].val = v
    BY <1>14 DEF In
  <2>2. j \in LiveAt(records) /\ j \notin Doomed
    BY <2>1, <1>1 DEF LiveAt
  <2> QED BY <2>1, <2>2, <1>7 DEF Replaces
<1>15. HeldInv'
  <2> SUFFICES ASSUME NEW v \in acked', v > opened
               PROVE  In(records', v) \/ In(insert_queue, v)
    BY <1>1 DEF HeldInv
  <2>1. In(records, v) \/ In(insert_queue, v)
    BY <1>1 DEF TInv, HeldInv
  <2> QED BY <2>1, <1>14
<1>16. ASSUME "slipped" \notin mishaps'
       PROVE  AllFit(data, records) /\ AllFit(data', insert_queue')
  BY <1>1, <1>2, <1>16 DEF TInv, FitsInv, AllFit
<1>17. FitsInv'
  <2> SUFFICES ASSUME fp', "slipped" \notin mishaps'
               PROVE  AllFit(data', records')
    BY <1>16 DEF FitsInv
  <2>1. AllFit(Patched, Marked)
    BY <1>0, <1>16, MarkedFits
  <2> QED BY <1>3, <1>6, <2>1
<1>18. StoredInv'
  <2> SUFFICES ASSUME "slipped" \notin mishaps', NEW v \in acked', v > opened
               PROVE  LiveOnDisk(data', v)
    BY <1>1 DEF StoredInv
  <2>1. v \in acked /\ insert_queue = <<>> /\ ~\E j \in Doomed : records[j].val = v
    BY <1>1, <1>2
  <2>2. In(records, v)
    <3>1. ~In(insert_queue, v)
      BY <2>1 DEF In
    <3> QED BY <3>1, <2>1, <1>1 DEF TInv, HeldInv
  <2>3. CASE Failed
    <3>1. LiveOnDisk(data, v)
      BY <2>1, <1>2 DEF TInv, StoredInv
    <3>2. LiveOnDisk(Patched, v)
      BY <3>1, <2>1, <1>0, <1>16, MarkedFits
    <3> QED BY <3>2, <2>3
  <2>4. CASE Done \/ Closed
    <3>1. In(CompactedRecords(recs), v)
      <4>1. PICK j \in 1 .. Len(records) : ~records[j].is_deleted /\ records[j].val = v
        BY <2>2 DEF In
      <4>2. j \in LiveAt(records) /\ j \notin Doomed
        BY <4>1, <2>1 DEF LiveAt
      <4> QED BY <4>1, <4>2, <1>3 DEF Replaces
    <3>2. LiveOnDisk(CompactedData(recs), v)
      BY <3>1, <1>3
    <3> QED BY <3>2, <2>4
  <2> QED BY <2>3, <2>4, <1>6
<1>19. IndexInv'
  BY <1>1 DEF IndexInv
<1>20. VectorInv'
  <2>1. pending' = NoIds
    BY DEF check_and_run_auto_delete
  <2> QED BY <2>1, <1>1 DEF TInv, VectorInv, NoIds
<1> QED BY <1>11, <1>12, <1>13, <1>15, <1>17, <1>18, <1>19, <1>20 DEF TInv

--------------------------------------------------------------------------

LEMMA TableNext == TInv /\ [Next]_vars => TInv'
<1> SUFFICES ASSUME TInv, [Next]_vars PROVE TInv'
  OBVIOUS
<1>1. CASE get_or_open_table
  BY <1>1, OpenStep
<1>2. CASE Crash \/ VectorFault
  <2>1. ServerGone
    BY <1>2 DEF Crash, VectorFault
  <2> QED BY <2>1, GoneStep
<1>3. CASE \E id \in Ids, len \in MetaLens : Insert(id, len)
  BY <1>3, InsertStep
<1>9. CASE \E len \in MetaLens : InsertFails(len) \/ \E id \in Ids : InsertJam(id, len)
  BY <1>9, UnansweredStep
<1>4. CASE DeleteRequest \/ SyncRefresh \/ AutoDeleteNothing \/ set_auto_delete_schedule
  BY <1>4, QuietStep
<1>5. CASE Train \/ LoadIndex \/ SyncDropIndex
  BY <1>5, IndexStep
<1>6. CASE SyncMerge
  BY <1>6, MergeStep
<1>7. CASE check_and_run_auto_delete
  BY <1>7, DeleteStep
<1>8. CASE UNCHANGED vars
  <2>1. /\ Still /\ index_file' = index_file /\ ivf_index' = ivf_index /\ round' = round
        /\ pending' = pending /\ schedule' = schedule /\ pending_deletes' = pending_deletes
        /\ pending_delete_dirty' = pending_delete_dirty /\ append_held' = append_held
        /\ index_loaded' = index_loaded /\ trains' = trains
    BY <1>8 DEF vars, files, queue, cache, history, Still
  <2>2. /\ OpenInv' /\ FileInv' /\ ValsInv' /\ HeldInv' /\ FitsInv' /\ StoredInv'
        /\ IsImage(data)' /\ records' \in Seq(Record) /\ insert_queue' \in Seq(Record)
        /\ \A index : Exact(index, data') <=> Exact(index, data)
    BY <2>1, StillKeeps
  <2>3. IndexInv'
    BY <2>1, <2>2 DEF IndexInv, TInv, Still
  <2>4. TTypes'
    BY <2>1, <2>2 DEF TTypes, TInv, Still
  <2>5. VectorInv'
    BY <2>1 DEF TInv, VectorInv, Still, NoIds
  <2> QED BY <2>2, <2>3, <2>4, <2>5 DEF TInv
<1> QED BY <1>1, <1>2, <1>3, <1>4, <1>5, <1>6, <1>7, <1>8, <1>9
         DEF Next, handel_client, sync_worker

\* The inductive invariant of one table of the server: the array and the queue
\* hold each insert once, agree with the file they describe, and an index lists
\* record starts.
THEOREM TableServerInv == Spec => []TInv
<1>1. Init => TInv
  BY TableInit
<1>2. TInv /\ [Next]_vars => TInv'
  BY TableNext
<1> QED BY <1>1, <1>2, PTL DEF Spec

\* In a sequence without doubles an insert has one place or none.
LEMMA OnePlace ==
    ASSUME NEW s \in Seq(Record), Distinct(s), NEW v
    PROVE  /\ In(s, v) => Places(s, v) = 1
           /\ ~In(s, v) => Places(s, v) = 0
<1> DEFINE P == {j \in LiveAt(s) : s[j].val = v}
<1>1. Places(s, v) = Cardinality(P)
  BY DEF Places
<1>2. ASSUME In(s, v)
      PROVE  Cardinality(P) = 1
  <2>1. PICK j \in 1 .. Len(s) : ~s[j].is_deleted /\ s[j].val = v
    BY <1>2 DEF In
  <2>2. P = {j}
    BY <2>1 DEF LiveAt, Distinct
  <2> HIDE DEF P
  <2> QED BY <2>2, FS_Singleton
<1>3. ASSUME ~In(s, v)
      PROVE  Cardinality(P) = 0
  <2>1. P = {}
    BY <1>3 DEF In, LiveAt
  <2> HIDE DEF P
  <2> QED BY <2>1, FS_EmptySet
<1> QED BY <1>1, <1>2, <1>3

\* For every workload and every choice of faults, what this run of the server
\* acknowledged and no delete has taken is in the array or in the insert queue,
\* and once.
THEOREM InsertsHeld == Spec => []AckedInMemory
<1>1. ASSUME TInv PROVE AckedInMemory
  <2> SUFFICES ASSUME up, NEW v \in acked, v > opened
               PROVE  Places(records, v) + Places(insert_queue, v) = 1
    BY DEF AckedInMemory
  <2>1. /\ records \in Seq(Record) /\ insert_queue \in Seq(Record)
        /\ Distinct(records) /\ Distinct(insert_queue)
    BY <1>1 DEF TInv, TTypes, ValsInv
  <2>2. In(records, v) \/ In(insert_queue, v)
    BY <1>1 DEF TInv, HeldInv
  <2>3. ~(In(records, v) /\ In(insert_queue, v))
    BY <1>1 DEF TInv, ValsInv, In
  <2>4. /\ In(records, v) => Places(records, v) = 1
        /\ ~In(records, v) => Places(records, v) = 0
    BY <2>1, OnePlace
  <2>5. /\ In(insert_queue, v) => Places(insert_queue, v) = 1
        /\ ~In(insert_queue, v) => Places(insert_queue, v) = 0
    BY <2>1, OnePlace
  <2>6. \/ Places(records, v) = 1 /\ Places(insert_queue, v) = 0
        \/ Places(records, v) = 0 /\ Places(insert_queue, v) = 1
    BY <2>2, <2>3, <2>4, <2>5
  <2> QED BY <2>6
<1> QED BY <1>1, TableServerInv, PTL

\* What this run acknowledged and did not delete is live in data.db, also after
\* the server is gone, as long as no insert came between a drain and the
\* compaction of its round.
THEOREM InsertsStored == Spec => []AckedOnDisk
<1>1. ASSUME TInv PROVE AckedOnDisk
  BY <1>1 DEF TInv, StoredInv, AckedOnDisk, Stored
<1> QED BY <1>1, TableServerInv, PTL

\* While the file is open every record of the array and of the insert queue
\* stands where its byte_offset says, and the mapping ends inside the file.
THEOREM ArrayMatchesFile == Spec => []ArrayDescribesFile
<1>1. ASSUME TInv PROVE ArrayDescribesFile
  <2>1. TypeOK
    <3>1. /\ \A j \in 1 .. Len(records) : records[j] \in Record
          /\ \A j \in 1 .. Len(insert_queue) : insert_queue[j] \in Record
      BY <1>1 DEF TInv, TTypes
    <3> QED BY <1>1, <3>1 DEF TInv, TTypes, TypeOK
  <2>2. \A r : Fits(data, r) => Agrees(r)
    BY DEF Fits, Agrees
  <2> QED BY <1>1, <2>1, <2>2 DEF TInv, FileInv, FitsInv, AllFit, ArrayDescribesFile
<1> QED BY <1>1, TableServerInv, PTL

\* Outside the stretch between a compaction and the removal of the index, every
\* entry of the index the next search uses is the start of the record it was
\* taken from.
THEOREM IndexStaysCurrent == Spec => []IndexCurrent
<1>1. ASSUME TInv PROVE IndexCurrent
  <2> SUFFICES ASSUME round # "drop", mishaps = {}
               PROVE  Current(NextIndex)
    BY DEF IndexCurrent
  <2>1. Exact(index_file, data) /\ Exact(ivf_index, data)
    BY <1>1 DEF TInv, IndexInv
  <2>2. Exact(NoIndex, data)
    BY DEF Exact, NoIndex
  <2>3. NextIndex \in {ivf_index, index_file, NoIndex}
    BY DEF NextIndex, load_ivf_index
  <2>4. Exact(NextIndex, data)
    BY <2>1, <2>2, <2>3
  <2> QED BY <2>4 DEF Current, Exact
<1> QED BY <1>1, TableServerInv, PTL

\* A compaction copies only vectors that are there: the records it keeps have
\* never been through a compaction.
CopiesVectors == Doomed # {} => \A j \in 1 .. Len(records) : Readable(records[j])

\* In the server storage_compact never writes from the pointer that an earlier
\* compaction has cleared, because that one has emptied the delete queue.
THEOREM CompactionReadsVectors == Spec => []CopiesVectors
<1>1. ASSUME TInv PROVE CopiesVectors
  <2> SUFFICES ASSUME NEW j \in Doomed, NEW i \in 1 .. Len(records)
               PROVE  Readable(records[i])
    BY DEF CopiesVectors
  <2> DEFINE Before == {k \in LiveAt(records) : k < j /\ records[k].id = records[j].id}
  <2>1. j \in 1 .. Len(records) /\ Cardinality(Before) < pending[records[j].id]
    BY DEF Doomed, LiveAt
  <2>2. records \in Seq(Record) /\ Len(records) \in Nat
    BY <1>1 DEF TInv, TTypes
  <2>3. records[j].id \in Ids
    BY <2>1, <2>2, RecordFields
  <2>4. Cardinality(Before) \in Nat
    <3>1. Before \subseteq 1 .. Len(records)
      BY DEF LiveAt
    <3>2. IsFiniteSet(1 .. Len(records))
      BY <2>2, FS_Interval
    <3> HIDE DEF Before
    <3> QED BY <3>1, <3>2, FS_Subset, FS_CardinalityType
  <2> HIDE DEF Before
  <2>5. pending # NoIds
    BY <2>1, <2>3, <2>4 DEF NoIds
  <2> QED BY <1>1, <2>5 DEF TInv, VectorInv, AllHeap, Readable
<1> QED BY <1>1, TableServerInv, PTL
==========================================================================
