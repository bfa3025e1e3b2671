--------------------------- MODULE FlatDbProofs ---------------------------
(* Proofs about FlatDb, for every set of ids, metadata lengths, dimension,  *)
(* queue, fault set and bound: its invariants, what a step may never do to  *)
(* data.db, and that it implements DurableStore.  The last part is about the *)
(* command line and the index file, the instance Session of Terminal.       *)
EXTENDS FlatDbStore, SubsequencesProofs

--------------------------------------------------------------------------
(* Lemmas about the table file.                                             *)

\* record_padded_size covers header, vector and metadata, and is a positive
\* multiple of the alignment.
LEMMA PaddedSize ==
    ASSUME NEW len \in Nat
    PROVE  /\ record_padded_size(len) \in Nat
           /\ record_padded_size(len) >= RECORD_HEADER_BYTES + 4 * Dimension + len
           /\ record_padded_size(len) > 0
           /\ record_padded_size(len) % RECORD_ALIGN = 0
<1> DEFINE n == RECORD_HEADER_BYTES + 4 * Dimension + len
           q == (n + 7) \div 8
<1>1. n \in Nat /\ n >= 24
  BY TableFileAssumption DEF RECORD_HEADER_BYTES
<1>2. q \in Nat /\ 8 * q >= n
  BY <1>1
<1>3. record_padded_size(len) = 8 * q
  BY DEF record_padded_size, RECORD_ALIGN
<1> HIDE DEF n, q
<1>4. (8 * q) % 8 = 0
  BY <1>2
<1> QED BY <1>1, <1>2, <1>3, <1>4 DEF n, RECORD_ALIGN, RECORD_HEADER_BYTES

\* The end of the file is not the start of a record, so an append overwrites
\* nothing.
LEMMA EofIsFree ==
    ASSUME NEW img, IsImage(img), CellsDisjoint(img)
    PROVE  img.eof \notin DOMAIN img.cells
<1>1. \A o \in DOMAIN img.cells : img.cells[o].len \in Nat /\ o \in Nat
  BY TableFileAssumption DEF IsImage, Cell
<1>2. \A o \in DOMAIN img.cells : CellEnd(img, o) \in Nat /\ CellEnd(img, o) > o
  BY <1>1, PaddedSize DEF CellEnd
<1> QED BY <1>1, <1>2 DEF CellsDisjoint, IsImage

\* storage_write_record adds one record at the end and keeps the others.
LEMMA WriteRecord ==
    ASSUME NEW img, IsImage(img), CellsDisjoint(img), NEW c \in Cell,
           NEW new, new = storage_write_record(img, c)
    PROVE  /\ IsImage(new) /\ CellsDisjoint(new)
           /\ DOMAIN new.cells = DOMAIN img.cells \cup {img.eof}
           /\ new.cells[img.eof] = c
           /\ \A o \in DOMAIN img.cells : new.cells[o] = img.cells[o]
<1>1. c.len \in Nat /\ record_padded_size(c.len) \in Nat
  BY PaddedSize, TableFileAssumption DEF Cell
<1>2. img.eof \notin DOMAIN img.cells
  BY EofIsFree
<1>3. /\ DOMAIN new.cells = DOMAIN img.cells \cup {img.eof}
      /\ new.cells[img.eof] = c
      /\ \A o \in DOMAIN img.cells : new.cells[o] = img.cells[o]
  BY <1>2 DEF storage_write_record
<1>4. new.eof = img.eof + record_padded_size(c.len)
  BY DEF storage_write_record
<1>5. IsImage(new)
  BY <1>1, <1>4 DEF IsImage, storage_write_record
<1>6. CellsDisjoint(new)
  <2>1. \A o \in DOMAIN img.cells : /\ CellEnd(new, o) = CellEnd(img, o)
                                    /\ CellEnd(img, o) <= img.eof
                                    /\ CellEnd(img, o) \in Nat /\ o \in Nat
    <3>1. \A o \in DOMAIN img.cells : img.cells[o].len \in Nat /\ o \in Nat
      BY TableFileAssumption DEF IsImage, Cell
    <3> QED BY <1>3, <3>1, PaddedSize DEF CellsDisjoint, CellEnd
  <2>2. CellEnd(new, img.eof) = new.eof
    BY <1>3, <1>4 DEF CellEnd
  <2>3. img.eof <= new.eof /\ img.eof \in Nat /\ new.eof \in Nat
    BY <1>1, <1>4 DEF IsImage
  <2>4. \A o \in DOMAIN new.cells : CellEnd(new, o) <= new.eof
    BY <1>3, <2>1, <2>2, <2>3
  <2>5. \A o \in DOMAIN img.cells : o < img.eof
    <3>1. \A o \in DOMAIN img.cells : CellEnd(img, o) > o
      BY <2>1, PaddedSize, TableFileAssumption DEF CellEnd, IsImage, Cell
    <3> QED BY <3>1, <2>1, <2>3
  <2>6. \A o, p \in DOMAIN new.cells : o < p => CellEnd(new, o) <= p
    <3> SUFFICES ASSUME NEW o \in DOMAIN new.cells, NEW p \in DOMAIN new.cells, o < p
                 PROVE  CellEnd(new, o) <= p
      OBVIOUS
    <3>1. CASE p = img.eof
      BY <3>1, <1>3, <2>1, <2>3
    <3>2. CASE p \in DOMAIN img.cells
      <4>1. o \in DOMAIN img.cells
        BY <3>2, <1>3, <2>5, <2>3, <2>1
      <4> QED BY <4>1, <3>2, <2>1 DEF CellsDisjoint
    <3> QED BY <3>1, <3>2, <1>3
  <2> QED BY <2>4, <2>6 DEF CellsDisjoint
<1> QED BY <1>3, <1>5, <1>6

\* A torn append only moves the end of the file.
LEMMA TornKeeps ==
    ASSUME NEW img, IsImage(img), CellsDisjoint(img), NEW k \in Nat,
           NEW new, new = TornWrite(img, k)
    PROVE  IsImage(new) /\ CellsDisjoint(new) /\ new.cells = img.cells
<1>1. new.cells = img.cells /\ new.eof = img.eof + k /\ img.eof \in Nat
      /\ new = [cells |-> new.cells, eof |-> new.eof]
  BY DEF TornWrite, IsImage
<1>2. \A o \in DOMAIN img.cells : CellEnd(img, o) \in Nat /\ CellEnd(new, o) = CellEnd(img, o)
  <2>1. \A o \in DOMAIN img.cells : img.cells[o].len \in Nat /\ o \in Nat
    BY TableFileAssumption DEF IsImage, Cell
  <2> QED BY <1>1, <2>1, PaddedSize DEF CellEnd
<1> QED BY <1>1, <1>2 DEF IsImage, CellsDisjoint

\* storage_patch_flag changes the deleted flag of one record and nothing else.
LEMMA PatchFlag ==
    ASSUME NEW img, IsImage(img), CellsDisjoint(img), NEW o \in DOMAIN img.cells,
           NEW new, new = storage_patch_flag(img, o)
    PROVE  /\ IsImage(new) /\ CellsDisjoint(new)
           /\ DOMAIN new.cells = DOMAIN img.cells
           /\ new.cells[o] = [img.cells[o] EXCEPT !.is_deleted = TRUE]
           /\ \A p \in DOMAIN img.cells : p # o => new.cells[p] = img.cells[p]
<1>1. /\ new.cells = [img.cells EXCEPT ![o] = [img.cells[o] EXCEPT !.is_deleted = TRUE]]
      /\ new.eof = img.eof /\ new = [cells |-> new.cells, eof |-> new.eof]
  BY DEF storage_patch_flag, IsImage
<1>2. [img.cells[o] EXCEPT !.is_deleted = TRUE] \in Cell
  BY DEF IsImage, Cell
<1>3. /\ DOMAIN new.cells = DOMAIN img.cells
      /\ new.cells[o] = [img.cells[o] EXCEPT !.is_deleted = TRUE]
      /\ \A p \in DOMAIN img.cells : p # o => new.cells[p] = img.cells[p]
  BY <1>1
<1>4. IsImage(new)
  BY <1>1, <1>2, <1>3 DEF IsImage
<1>5. \A p \in DOMAIN img.cells : new.cells[p].len = img.cells[p].len
  BY <1>3 DEF IsImage, Cell
<1>6. CellsDisjoint(new)
  BY <1>1, <1>3, <1>5 DEF CellsDisjoint, CellEnd
<1> QED BY <1>3, <1>4, <1>6

--------------------------------------------------------------------------
(* Lemmas about the array that describes the file.                          *)

\* Appending the same record to the file and, at its offset, to the array.
LEMMA DescribesAppend ==
    ASSUME NEW img, IsImage(img), CellsDisjoint(img),
           NEW recs \in Seq(Record), Describes(recs, img),
           NEW r \in Record, r.byte_offset = img.eof,
           NEW new, new = storage_write_record(img, CellOf(r))
    PROVE  Describes(Append(recs, r), new)
<1>1. CellOf(r) \in Cell
  BY DEF CellOf, Cell, Record
<1>2. /\ DOMAIN new.cells = DOMAIN img.cells \cup {img.eof}
      /\ new.cells[img.eof] = CellOf(r)
      /\ \A o \in DOMAIN img.cells : new.cells[o] = img.cells[o]
  BY <1>1, WriteRecord
<1>3. img.eof \notin DOMAIN img.cells
  BY EofIsFree
<1> DEFINE all == Append(recs, r)
<1>4. /\ Len(all) = Len(recs) + 1 /\ Len(recs) \in Nat
      /\ all[Len(recs) + 1] = r
      /\ \A j \in 1 .. Len(recs) : all[j] = recs[j]
  OBVIOUS
<1> HIDE DEF all
<1>5. \A j \in 1 .. Len(all) : j \in 1 .. Len(recs) \/ j = Len(recs) + 1
  BY <1>4
<1>6. ASSUME NEW j \in 1 .. Len(all)
      PROVE  /\ all[j].byte_offset \in DOMAIN new.cells
             /\ LET c == new.cells[all[j].byte_offset] IN
                /\ c.id = all[j].id /\ c.val = all[j].val /\ c.len = all[j].len
                /\ c.is_deleted => all[j].is_deleted
  <2>1. CASE j \in 1 .. Len(recs)
    BY <2>1, <1>2, <1>4 DEF Describes
  <2>2. CASE j = Len(recs) + 1
    BY <2>2, <1>2, <1>4 DEF CellOf
  <2> QED BY <2>1, <2>2, <1>5
<1>7. ASSUME NEW j \in 1 .. Len(all), NEW k \in 1 .. Len(all),
             all[j].byte_offset = all[k].byte_offset
      PROVE  j = k
  <2>1. \A m \in 1 .. Len(recs) : all[m].byte_offset \in DOMAIN img.cells
    BY <1>4 DEF Describes
  <2>2. CASE j \in 1 .. Len(recs) /\ k \in 1 .. Len(recs)
    BY <2>2, <1>4, <1>7 DEF Describes
  <2> QED BY <2>1, <2>2, <1>3, <1>4, <1>5, <1>7
<1>8. Describes(all, new)
  BY <1>6, <1>7 DEF Describes
<1> QED BY <1>8 DEF all

\* Arrays that differ only in flags set and in vector pointers describe the
\* same file.
LEMMA DescribesSame ==
    ASSUME NEW img, NEW recs, Describes(recs, img), NEW other, Len(other) = Len(recs),
           \A j \in 1 .. Len(recs) :
              /\ other[j].byte_offset = recs[j].byte_offset
              /\ other[j].id = recs[j].id /\ other[j].val = recs[j].val
              /\ other[j].len = recs[j].len
              /\ recs[j].is_deleted => other[j].is_deleted
    PROVE  Describes(other, img)
BY DEF Describes

\* MarkInRam, on any array.
Marked(recs, j) == [recs EXCEPT ![j].is_deleted = TRUE]

\* Marking an entry changes nothing but its is_deleted field.
LEMMA MarkedFields ==
    ASSUME NEW recs \in Seq(Record), NEW j \in 1 .. Len(recs)
    PROVE  /\ Marked(recs, j) \in Seq(Record) /\ Len(Marked(recs, j)) = Len(recs)
           /\ \A k \in 1 .. Len(recs) :
                 /\ k # j => Marked(recs, j)[k] = recs[k]
                 /\ Marked(recs, j)[k].byte_offset = recs[k].byte_offset
                 /\ Marked(recs, j)[k].id = recs[k].id
                 /\ Marked(recs, j)[k].val = recs[k].val
                 /\ Marked(recs, j)[k].len = recs[k].len
                 /\ recs[k].is_deleted => Marked(recs, j)[k].is_deleted
           /\ Marked(recs, j)[j].is_deleted
<1> DEFINE new == [recs[j] EXCEPT !.is_deleted = TRUE]
           m == [recs EXCEPT ![j] = new]
<1>1. recs[j] \in Record /\ recs \in [1 .. Len(recs) -> Record]
  OBVIOUS
<1>2. /\ new \in Record /\ new.is_deleted /\ new.byte_offset = recs[j].byte_offset
      /\ new.id = recs[j].id /\ new.val = recs[j].val /\ new.len = recs[j].len
  BY <1>1 DEF Record
<1>3. Marked(recs, j) = m
  BY DEF Marked
<1> HIDE DEF new
<1>4. m \in Seq(Record) /\ Len(m) = Len(recs)
  BY <1>1, <1>2
<1>5. m[j] = new /\ \A k \in 1 .. Len(recs) : k # j => m[k] = recs[k]
  BY <1>1
<1> QED BY <1>2, <1>3, <1>4, <1>5

\* Flagging a record in RAM and patching it on disk.
LEMMA DescribesPatch ==
    ASSUME NEW img, IsImage(img), CellsDisjoint(img),
           NEW recs \in Seq(Record), Describes(recs, img), NEW j \in 1 .. Len(recs),
           NEW new, new = storage_patch_flag(img, recs[j].byte_offset)
    PROVE  /\ Describes(Marked(recs, j), new)
           /\ \A v : v # recs[j].val /\ LiveOnDisk(img, v) => LiveOnDisk(new, v)
<1> DEFINE o == recs[j].byte_offset
           m == Marked(recs, j)
<1>1. o \in DOMAIN img.cells /\ img.cells[o].val = recs[j].val
  BY DEF Describes
<1>2. /\ DOMAIN new.cells = DOMAIN img.cells
      /\ new.cells[o] = [img.cells[o] EXCEPT !.is_deleted = TRUE]
      /\ \A p \in DOMAIN img.cells : p # o => new.cells[p] = img.cells[p]
  BY <1>1, PatchFlag
<1>3. img.cells[o] \in Cell
  BY <1>1 DEF IsImage
<1>4. /\ new.cells[o].id = img.cells[o].id /\ new.cells[o].val = img.cells[o].val
      /\ new.cells[o].len = img.cells[o].len
  BY <1>2, <1>3 DEF Cell
<1>5. Describes(m, img)
  BY MarkedFields, DescribesSame
<1>6. Len(m) = Len(recs) /\ m[j].byte_offset = o /\ m[j].is_deleted
  BY MarkedFields
<1> HIDE DEF m, o
<1>7. ASSUME NEW k \in 1 .. Len(m)
      PROVE  /\ m[k].byte_offset \in DOMAIN new.cells
             /\ LET c == new.cells[m[k].byte_offset] IN
                /\ c.id = m[k].id /\ c.val = m[k].val /\ c.len = m[k].len
                /\ c.is_deleted => m[k].is_deleted
  <2>1. CASE k = j
    BY <2>1, <1>1, <1>2, <1>4, <1>5, <1>6 DEF Describes
  <2>2. CASE k # j
    <3>1. m[k].byte_offset # o
      BY <2>2, <1>5, <1>6 DEF Describes
    <3> QED BY <3>1, <1>2, <1>5 DEF Describes
  <2> QED BY <2>1, <2>2
<1>8. Describes(m, new)
  BY <1>5, <1>7 DEF Describes
<1>9. \A v : v # recs[j].val /\ LiveOnDisk(img, v) => LiveOnDisk(new, v)
  BY <1>1, <1>2 DEF LiveOnDisk
<1> QED BY <1>8, <1>9 DEF m

\* What is live in an array is live in the file it describes.
LEMMA DescribesLive ==
    ASSUME NEW img, NEW recs, Describes(recs, img), NEW v, HoldsLive(recs, v)
    PROVE  LiveOnDisk(img, v)
BY DEF Describes, HoldsLive, LiveOnDisk

--------------------------------------------------------------------------
(* The inductive invariant.                                                 *)

\* An empty array describes any file.
LEMMA EmptyArray ==
    ASSUME NEW img
    PROVE  Describes(<<>>, img)
BY DEF Describes

\* An empty file is a well-formed image.
LEMMA EmptyFile == IsImage(EmptyImage) /\ CellsDisjoint(EmptyImage)
BY DEF IsImage, EmptyImage, CellsDisjoint, Cell

\* An empty queue is a queue.
LEMMA NoIdsType == NoIds \in [Ids -> Nat]
BY DEF NoIds

\* Init establishes the invariant.
THEOREM InitInv == Init => IInv
<1> SUFFICES ASSUME Init PROVE IInv
  OBVIOUS
<1>1. TypeOK
  <2>1. IsImage(data) /\ IsImage(tmp) /\ records \in Seq(Record) /\ new_records \in Seq(Record)
    BY EmptyFile DEF Init
  <2>2. pending \in [Ids -> Nat] /\ pending_ids \in [Ids -> Nat] /\ success \in [Ids -> Nat]
    BY NoIdsType, FlatDbAssumption DEF Init
  <2> QED BY <2>1, <2>2 DEF Init, TypeOK
<1>2. LayoutInv /\ MirrorInv
  BY EmptyFile DEF Init, LayoutInv, MirrorInv
<1>3. EngineInv /\ KeptInv /\ CountWithinCapacity
  BY DEF Init, EngineInv, KeptInv, CountWithinCapacity
<1> QED BY <1>1, <1>2, <1>3 DEF IInv

\* A table that is gone keeps what its files say.
LEMMA GoneKeeps ==
    ASSUME IInv, HandleGone, UNCHANGED <<tmp, pending, schedule, acked, since>>,
           inserts' \in Nat, acked \subseteq 1 .. inserts',
           IsImage(data'), CellsDisjoint(data'),
           \A v : LiveOnDisk(data, v) => LiveOnDisk(data', v)
    PROVE  IInv'
<1>1. TypeOK'
  <2>1. records' \in Seq(Record) /\ new_records' \in Seq(Record)
    BY DEF HandleGone
  <2>2. pending_ids' \in [Ids -> Nat] /\ success' \in [Ids -> Nat]
    BY NoIdsType DEF HandleGone
  <2> QED BY <2>1, <2>2 DEF IInv, TypeOK, HandleGone
<1>2. LayoutInv' /\ MirrorInv' /\ EngineInv' /\ CountWithinCapacity'
  BY DEF IInv, LayoutInv, MirrorInv, EngineInv, CountWithinCapacity, HandleGone
<1>3. KeptInv'
  BY DEF IInv, KeptInv, HandleGone
<1> QED BY <1>1, <1>2, <1>3 DEF IInv

\* db_init: the position storage_init leaves is the end of the file, so no
\* record is loaded.
LEMMA InitLoadsNothing ==
    ASSUME NEW img, IsImage(img)
    PROVE  storage_load_record(img, storage_init_position(img)) = <<>>
BY DEF storage_load_record, storage_init_position, IsImage

\* db_init.
LEMMA OpenKeeps == ASSUME IInv, db_init PROVE IInv'
<1>1. records' = <<>> /\ capacity' = InitialCapacity
  <2>1. storage_load_record(data, storage_init_position(data)) = <<>>
    BY InitLoadsNothing DEF IInv, TypeOK
  <2>2. Len(<<>>) = 0
    OBVIOUS
  <2>3. Doubled(InitialCapacity, 0) = InitialCapacity
    BY FlatDbAssumption DEF Doubled
  <2> QED BY <2>1, <2>2, <2>3 DEF db_init
<1>2. TypeOK'
  BY <1>1, FlatDbAssumption
  DEF IInv, TypeOK, db_init, files, engine, load_pending_deletes
<1>3. pc = "idle"
  BY DEF IInv, EngineInv, TypeOK, db_init
<1>4. EngineInv' /\ LayoutInv' /\ MirrorInv' /\ CountWithinCapacity'
  BY <1>1, <1>3, EmptyArray, FlatDbAssumption
  DEF IInv, EngineInv, LayoutInv, MirrorInv, CountWithinCapacity, db_init, files, engine
<1>5. KeptInv'
  <2>1. \A v \in acked : ~(v > inserts)
    BY DEF IInv, TypeOK
  <2> QED BY <2>1 DEF KeptInv, db_init
<1> QED BY <1>2, <1>4, <1>5 DEF IInv

--------------------------------------------------------------------------
(* Inserts.                                                                 *)

\* What db_insert writes, and the entry it appends, are well typed.
LEMMA NewCellType ==
    ASSUME IInv, NEW id \in Ids, NEW len \in MetaLens
    PROVE  /\ NewCell(id, len) \in Cell /\ NewRecord(id, len) \in Record
           /\ NewCell(id, len) = CellOf(NewRecord(id, len))
           /\ NewRecord(id, len).byte_offset = data.eof
           /\ NewRecord(id, len).val = inserts + 1
           /\ ~NewRecord(id, len).is_deleted
           /\ NewCell(id, len).val = inserts + 1
           /\ ~NewCell(id, len).is_deleted
BY DEF IInv, TypeOK, IsImage, NewCell, NewRecord, Cell, Record, CellOf

\* An append makes no record of the file less live, and its own one live.
LEMMA WriteLive ==
    ASSUME NEW img, IsImage(img), CellsDisjoint(img), NEW c \in Cell,
           NEW new, new = storage_write_record(img, c)
    PROVE  /\ \A v : LiveOnDisk(img, v) => LiveOnDisk(new, v)
           /\ ~c.is_deleted => LiveOnDisk(new, c.val)
<1>1. /\ DOMAIN new.cells = DOMAIN img.cells \cup {img.eof}
      /\ new.cells[img.eof] = c
      /\ \A o \in DOMAIN img.cells : new.cells[o] = img.cells[o]
  BY WriteRecord
<1> QED BY <1>1 DEF LiveOnDisk

\* The live records of an array survive an append to it.
LEMMA AppendLive ==
    ASSUME NEW recs \in Seq(Record), NEW r \in Record
    PROVE  /\ Append(recs, r) \in Seq(Record)
           /\ Len(Append(recs, r)) = Len(recs) + 1
           /\ \A v : HoldsLive(recs, v) => HoldsLive(Append(recs, r), v)
           /\ ~r.is_deleted => HoldsLive(Append(recs, r), r.val)
<1> DEFINE all == Append(recs, r)
<1>1. /\ Len(all) = Len(recs) + 1 /\ Len(recs) \in Nat /\ all \in Seq(Record)
      /\ all[Len(recs) + 1] = r
      /\ \A j \in 1 .. Len(recs) : all[j] = recs[j]
  OBVIOUS
<1> HIDE DEF all
<1>2. \A v : HoldsLive(recs, v) => HoldsLive(all, v)
  BY <1>1 DEF HoldsLive
<1>3. ~r.is_deleted => HoldsLive(all, r.val)
  BY <1>1 DEF HoldsLive
<1> QED BY <1>1, <1>2, <1>3 DEF all

\* db_insert returned 0: the array and the file grow by the same record.
LEMMA InsertKeeps ==
    ASSUME IInv, NEW id \in Ids, NEW len \in MetaLens, db_insert(id, len)
    PROVE  IInv'
<1> DEFINE c == NewCell(id, len)
           r == NewRecord(id, len)
<1>1. /\ c \in Cell /\ r \in Record /\ c = CellOf(r) /\ r.byte_offset = data.eof
      /\ r.val = inserts + 1 /\ ~r.is_deleted /\ c.val = inserts + 1 /\ ~c.is_deleted
  BY NewCellType
<1>2. /\ data' = storage_write_record(data, c) /\ records' = Append(records, r)
      /\ inserts' = inserts + 1 /\ acked' = acked \cup {inserts + 1}
      /\ fp /\ pc = "idle" /\ up
      /\ capacity' = IF Len(records) = capacity THEN capacity * 2 ELSE capacity
      /\ UNCHANGED <<tmp, pending, schedule, up, fp, pending_deletes, pc, i,
                     new_records, pending_ids, success, since>>
  BY DEF db_insert, engine, GrowOne
<1> HIDE DEF c, r
<1>3. /\ IsImage(data) /\ CellsDisjoint(data) /\ Describes(records, data)
      /\ records \in Seq(Record) /\ Len(records) \in Nat
      /\ capacity \in Nat /\ capacity > 0 /\ Len(records) <= capacity
  BY <1>2 DEF IInv, TypeOK, LayoutInv, MirrorInv, CountWithinCapacity
<1>4. IsImage(data') /\ CellsDisjoint(data')
  BY <1>1, <1>2, <1>3, WriteRecord
<1>5. /\ records' \in Seq(Record) /\ Len(records') = Len(records) + 1
      /\ \A v : HoldsLive(records, v) => HoldsLive(records', v)
      /\ HoldsLive(records', inserts + 1)
  BY <1>1, <1>2, <1>3, AppendLive
<1>6. /\ \A v : LiveOnDisk(data, v) => LiveOnDisk(data', v)
      /\ LiveOnDisk(data', inserts + 1)
  BY <1>1, <1>2, <1>3, WriteLive
<1>7. Describes(records', data')
  BY <1>1, <1>2, <1>3, DescribesAppend
<1>8. capacity' \in Nat /\ capacity' > 0 /\ Len(records) + 1 <= capacity'
  BY <1>2, <1>3
<1>9. TypeOK'
  BY <1>2, <1>4, <1>5, <1>8 DEF IInv, TypeOK
<1>10. EngineInv' /\ LayoutInv' /\ MirrorInv' /\ CountWithinCapacity'
  BY <1>2, <1>4, <1>5, <1>7, <1>8
  DEF IInv, EngineInv, LayoutInv, MirrorInv, CountWithinCapacity
<1>11. KeptInv'
  BY <1>2, <1>5, <1>6 DEF IInv, KeptInv
<1> QED BY <1>9, <1>10, <1>11 DEF IInv

\* db_insert returned -1: the array stays, the file may have a torn tail.
LEMMA InsertFailedKeeps ==
    ASSUME IInv, NEW id \in Ids, NEW len \in MetaLens, db_insert_failed(id, len)
    PROVE  IInv'
<1>1. /\ inserts' = inserts + 1 /\ pc = "idle" /\ up
      /\ capacity' = IF Len(records) = capacity THEN capacity * 2 ELSE capacity
      /\ UNCHANGED <<tmp, pending, schedule, up, fp, records, pending_deletes, pc, i,
                     new_records, pending_ids, success, acked, since>>
  BY DEF db_insert_failed, engine, GrowOne
<1>2. /\ IsImage(data) /\ CellsDisjoint(data) /\ records \in Seq(Record)
      /\ Len(records) \in Nat
      /\ capacity \in Nat /\ capacity > 0 /\ Len(records) <= capacity
  BY <1>1 DEF IInv, TypeOK, LayoutInv, CountWithinCapacity
<1>3. IsImage(data') /\ CellsDisjoint(data') /\ data'.cells = data.cells
  <2>1. CASE data' = data
    BY <2>1, <1>2
  <2>2. CASE \E k \in TornBytes : data' = TornWrite(data, k)
    BY <2>2, <1>2, TornKeeps, FlatDbAssumption
  <2> QED BY <2>1, <2>2 DEF db_insert_failed
<1>4. capacity' \in Nat /\ capacity' > 0 /\ Len(records) <= capacity'
  BY <1>1, <1>2
<1>5. TypeOK'
  BY <1>1, <1>3, <1>4 DEF IInv, TypeOK
<1>6. Describes(records, data) => Describes(records, data')
  BY <1>3 DEF Describes
<1>7. EngineInv' /\ LayoutInv' /\ MirrorInv' /\ CountWithinCapacity'
  BY <1>1, <1>3, <1>4, <1>6
  DEF IInv, EngineInv, LayoutInv, MirrorInv, CountWithinCapacity
<1>8. \A v : LiveOnDisk(data, v) => LiveOnDisk(data', v)
  BY <1>3 DEF LiveOnDisk
<1>9. KeptInv'
  BY <1>1, <1>8 DEF IInv, KeptInv
<1> QED BY <1>5, <1>7, <1>9 DEF IInv

\* A crash inside storage_write_record leaves a whole record or a torn tail.
LEMMA CrashInInsertKeeps ==
    ASSUME IInv, NEW id \in Ids, NEW len \in MetaLens, CrashInInsert(id, len)
    PROVE  IInv'
<1>1. IsImage(data) /\ CellsDisjoint(data) /\ inserts \in Nat /\ acked \subseteq 1 .. inserts
  BY DEF IInv, TypeOK, LayoutInv
<1>2. /\ IsImage(data') /\ CellsDisjoint(data')
      /\ \A v : LiveOnDisk(data, v) => LiveOnDisk(data', v)
  <2>1. CASE data' = storage_write_record(data, NewCell(id, len))
    BY <2>1, <1>1, NewCellType, WriteRecord, WriteLive
  <2>2. CASE \E k \in TornBytes : data' = TornWrite(data, k)
    <3>1. IsImage(data') /\ CellsDisjoint(data') /\ data'.cells = data.cells
      BY <2>2, <1>1, TornKeeps, FlatDbAssumption
    <3> QED BY <3>1 DEF LiveOnDisk
  <2> QED BY <2>1, <2>2 DEF CrashInInsert
<1>3. inserts' \in Nat /\ acked \subseteq 1 .. inserts'
  BY <1>1 DEF CrashInInsert
<1> QED BY <1>2, <1>3, GoneKeeps DEF CrashInInsert

--------------------------------------------------------------------------
(* Deletes.                                                                 *)

\* Marking entry j of an array leaves every value but its own live.
LEMMA MarkedLive ==
    ASSUME NEW recs \in Seq(Record), NEW j \in 1 .. Len(recs), NEW v,
           v # recs[j].val, HoldsLive(recs, v)
    PROVE  HoldsLive(Marked(recs, j), v)
<1>1. PICK k \in 1 .. Len(recs) : recs[k].val = v /\ ~recs[k].is_deleted
  BY DEF HoldsLive
<1>2. k # j
  BY <1>1
<1>3. Marked(recs, j)[k] = recs[k] /\ Len(Marked(recs, j)) = Len(recs)
  BY <1>2, MarkedFields
<1> QED BY <1>1, <1>3 DEF HoldsLive

\* What either outcome of db_delete does to files, array and ghost, wherever
\* it is called from.
LEMMA DeleteEffect ==
    ASSUME IInv, NEW id \in Ids, DeleteDone(id) \/ DeleteRefused(id)
    PROVE  /\ IsImage(data') /\ CellsDisjoint(data')
           /\ records' \in Seq(Record) /\ Len(records') = Len(records)
           /\ acked' \subseteq acked
           /\ fp => Describes(records', data')
           /\ \A v \in acked' : v > since =>
                LiveOnDisk(data', v) /\ (fp => HoldsLive(records', v))
<1>1. /\ IsImage(data) /\ CellsDisjoint(data) /\ records \in Seq(Record)
      /\ fp => Describes(records, data)
  BY DEF IInv, TypeOK, LayoutInv, MirrorInv
<1>2. \A v \in acked : v > since =>
                LiveOnDisk(data, v) /\ (fp => HoldsLive(records, v))
  BY DEF IInv, KeptInv
<1>3. CASE data' = data /\ records' = records /\ acked' = acked
  BY <1>1, <1>2, <1>3
<1>4. ASSUME NEW j \in 1 .. Len(records), fp, records' = MarkInRam(j),
             acked' = acked \ {records[j].val},
             \/ data' = storage_patch_flag(data, records[j].byte_offset)
             \/ data' = data
      PROVE  /\ IsImage(data') /\ CellsDisjoint(data')
             /\ records' \in Seq(Record) /\ Len(records') = Len(records)
             /\ acked' \subseteq acked
             /\ Describes(records', data')
             /\ \A v \in acked' : v > since =>
                  LiveOnDisk(data', v) /\ HoldsLive(records', v)
  <2>1. records' = Marked(records, j)
    BY <1>4 DEF MarkInRam, Marked
  <2>2. records' \in Seq(Record) /\ Len(records') = Len(records)
    BY <2>1, <1>1, MarkedFields
  <2>3. \A v \in acked' : v > since => LiveOnDisk(data, v) /\ HoldsLive(records', v)
    <3> SUFFICES ASSUME NEW v \in acked', v > since
                 PROVE  LiveOnDisk(data, v) /\ HoldsLive(records', v)
      OBVIOUS
    <3>1. v # records[j].val /\ LiveOnDisk(data, v) /\ HoldsLive(records, v)
      BY <1>2, <1>4
    <3> QED BY <3>1, <2>1, <1>1, MarkedLive
  <2>4. CASE data' = data
    BY <2>1, <2>2, <2>3, <2>4, <1>1, <1>4, MarkedFields, DescribesSame
  <2>5. CASE data' = storage_patch_flag(data, records[j].byte_offset)
    <3>1. Describes(records, data) /\ records[j].byte_offset \in DOMAIN data.cells
      BY <1>1, <1>4 DEF Describes
    <3>2. IsImage(data') /\ CellsDisjoint(data')
      BY <3>1, <2>5, <1>1, PatchFlag
    <3>3. /\ Describes(records', data')
          /\ \A v : v # records[j].val /\ LiveOnDisk(data, v) => LiveOnDisk(data', v)
      <4>1. /\ Describes(Marked(records, j), data')
            /\ \A v : v # records[j].val /\ LiveOnDisk(data, v) => LiveOnDisk(data', v)
        BY <3>1, <2>5, <1>1, DescribesPatch
      <4> QED BY <4>1, <2>1
    <3> QED BY <3>2, <3>3, <2>2, <2>3, <1>4
  <2> QED BY <2>4, <2>5, <1>4
<1>5. CASE DeleteDone(id)
  BY <1>4, <1>5 DEF DeleteDone
<1>6. CASE DeleteRefused(id)
  BY <1>3, <1>4, <1>6 DEF DeleteRefused
<1> QED BY <1>5, <1>6

\* db_delete from the command line, whether or not a compaction follows.
LEMMA DeleteKeeps == ASSUME IInv, NEW id \in Ids, db_delete(id) PROVE IInv'
<1>1. /\ pc = "idle" /\ up /\ (DeleteDone(id) \/ DeleteRefused(id))
      /\ (pc' = "compact" /\ fp) \/ pc' = "idle"
      /\ UNCHANGED <<tmp, pending, schedule, up, fp, capacity, pending_deletes,
                     i, new_records, pending_ids, success, inserts, since>>
  BY DEF db_delete, DeleteDone
<1>2. /\ IsImage(data') /\ CellsDisjoint(data')
      /\ records' \in Seq(Record) /\ Len(records') = Len(records)
      /\ acked' \subseteq acked
      /\ fp => Describes(records', data')
      /\ \A v \in acked' : v > since =>
           LiveOnDisk(data', v) /\ (fp => HoldsLive(records', v))
  BY <1>1, DeleteEffect
<1>3. TypeOK'
  BY <1>1, <1>2 DEF IInv, TypeOK
<1>4. EngineInv' /\ LayoutInv' /\ MirrorInv' /\ CountWithinCapacity'
  BY <1>1, <1>2 DEF IInv, EngineInv, LayoutInv, MirrorInv, CountWithinCapacity
<1>5. KeptInv'
  BY <1>1, <1>2 DEF KeptInv
<1> QED BY <1>3, <1>4, <1>5 DEF IInv

\* One turn of the scheduled delete.
LEMMA AutoDeleteOneKeeps == ASSUME IInv, AutoDeleteOne PROVE IInv'
<1>1. PICK id \in Ids :
        /\ pending_ids[id] > 0
        /\ pending_ids' = [pending_ids EXCEPT ![id] = @ - 1]
        /\ \/ DeleteDone(id) /\ success' = [success EXCEPT ![id] = @ + 1]
           \/ DeleteRefused(id) /\ success' = success
  BY DEF AutoDeleteOne
<1>2. /\ pc = "purge" /\ pc' = pc
      /\ UNCHANGED <<tmp, pending, schedule, up, fp, capacity, pending_deletes,
                     i, new_records, inserts, since>>
  BY DEF AutoDeleteOne
<1>3. fp \/ success' = success
  BY <1>1 DEF DeleteDone
<1>4. /\ IsImage(data') /\ CellsDisjoint(data')
      /\ records' \in Seq(Record) /\ Len(records') = Len(records)
      /\ acked' \subseteq acked
      /\ fp => Describes(records', data')
      /\ \A v \in acked' : v > since =>
           LiveOnDisk(data', v) /\ (fp => HoldsLive(records', v))
  BY <1>1, DeleteEffect
<1>5. pending_ids' \in [Ids -> Nat] /\ success' \in [Ids -> Nat]
  <2>1. /\ pending_ids \in [Ids -> Nat] /\ success \in [Ids -> Nat]
        /\ pending_ids[id] - 1 \in Nat /\ success[id] + 1 \in Nat
    BY <1>1 DEF IInv, TypeOK
  <2> QED BY <2>1, <1>1
<1>6. TypeOK'
  BY <1>2, <1>4, <1>5 DEF IInv, TypeOK
<1>7. EngineInv' /\ LayoutInv' /\ MirrorInv' /\ CountWithinCapacity'
  BY <1>2, <1>3, <1>4 DEF IInv, EngineInv, LayoutInv, MirrorInv, CountWithinCapacity
<1>8. KeptInv'
  BY <1>2, <1>4 DEF KeptInv
<1> QED BY <1>6, <1>7, <1>8 DEF IInv

\* The steps that touch neither the table file nor the array.
LEMMA BookkeepingKeeps ==
    ASSUME IInv,
           \/ AutoDeleteNothing \/ AutoDeleteBegin
           \/ clear_pending_deletes \/ clear_auto_delete_schedule
           \/ set_auto_delete_schedule \/ cancel_auto_delete \/ TimePasses
    PROVE  IInv'
<1>1. /\ UNCHANGED <<data, tmp, up, fp, records, capacity, pending_deletes, i,
                     new_records, inserts, acked, since>>
  BY DEF AutoDeleteNothing, AutoDeleteBegin, clear_pending_deletes,
         clear_auto_delete_schedule, set_auto_delete_schedule, cancel_auto_delete,
         TimePasses, files, handle, engine, ghosts
<1>2. /\ pending' \in {pending, NoIds} /\ schedule' \in {"none", "later", "due"}
      /\ pending_ids' \in {pending_ids, pending} /\ success' \in {success, NoIds}
  BY DEF AutoDeleteNothing, AutoDeleteBegin, clear_pending_deletes,
         clear_auto_delete_schedule, set_auto_delete_schedule, cancel_auto_delete,
         TimePasses, files, handle, engine, ghosts, IInv, TypeOK
<1>3. \/ pc' = pc /\ success' = success
      \/ pc = "idle" /\ pc' = "purge" /\ success' = NoIds /\ up
      \/ pc = "purge" /\ pc' = "unschedule" /\ success' = success
      \/ pc = "unschedule" /\ pc' = "compact" /\ success # NoIds
      \/ pc = "unschedule" /\ pc' = "idle"
  BY DEF AutoDeleteNothing, AutoDeleteBegin, clear_pending_deletes,
         clear_auto_delete_schedule, set_auto_delete_schedule, cancel_auto_delete,
         TimePasses, files, handle, engine, ghosts
<1>4. TypeOK'
  <2>1. pending' \in [Ids -> Nat] /\ pending_ids' \in [Ids -> Nat]
        /\ success' \in [Ids -> Nat]
    BY <1>2, NoIdsType DEF IInv, TypeOK
  <2> QED BY <1>1, <1>2, <1>3, <2>1 DEF IInv, TypeOK
<1>5. EngineInv' /\ LayoutInv' /\ MirrorInv' /\ CountWithinCapacity'
  BY <1>1, <1>3 DEF IInv, EngineInv, LayoutInv, MirrorInv, CountWithinCapacity
<1>6. KeptInv'
  BY <1>1, <1>3 DEF IInv, KeptInv
<1> QED BY <1>4, <1>5, <1>6 DEF IInv

--------------------------------------------------------------------------
(* Compaction.                                                              *)

\* storage_compact opens its new file, truncating what a crash left there.
LEMMA CompactBeginKeeps == ASSUME IInv, CompactBegin PROVE IInv'
<1>1. /\ pc = "compact" /\ i' = 1 /\ new_records' = <<>>
      /\ (pc' = "copy" /\ tmp' = EmptyImage) \/ (pc' = "idle" /\ tmp' = tmp)
      /\ UNCHANGED <<data, pending, schedule, up, fp, records, capacity,
                     pending_deletes, pending_ids, success, inserts, acked, since>>
  BY DEF CompactBegin, handle, ghosts
<1>2. IsImage(tmp') /\ CellsDisjoint(tmp') /\ Describes(new_records', tmp')
  BY <1>1, EmptyFile, EmptyArray DEF IInv, TypeOK, LayoutInv
<1>3. TypeOK'
  BY <1>1, <1>2 DEF IInv, TypeOK
<1>4. EngineInv' /\ LayoutInv' /\ MirrorInv' /\ CountWithinCapacity'
  BY <1>1, <1>2 DEF IInv, EngineInv, LayoutInv, MirrorInv, CountWithinCapacity
<1>5. KeptInv'
  BY <1>1 DEF IInv, KeptInv, EngineInv, HoldsLive
<1> QED BY <1>3, <1>4, <1>5 DEF IInv

\* A deleted record is not copied; no accepted record is deleted.
LEMMA CompactSkipKeeps == ASSUME IInv, CompactSkip PROVE IInv'
<1>1. /\ pc = "copy" /\ i <= Len(records) /\ records[i].is_deleted /\ i' = i + 1
      /\ UNCHANGED <<data, tmp, pending, schedule, up, fp, records, capacity,
                     pending_deletes, pc, new_records, pending_ids, success,
                     inserts, acked, since>>
  BY DEF CompactSkip, files, handle, ghosts
<1>2. TypeOK'
  BY <1>1 DEF IInv, TypeOK
<1>3. EngineInv' /\ LayoutInv' /\ MirrorInv' /\ CountWithinCapacity'
  BY <1>1 DEF IInv, TypeOK, EngineInv, LayoutInv, MirrorInv, CountWithinCapacity
<1>4. KeptInv'
  <2>1. i \in Nat /\ Len(records) \in Nat
    BY DEF IInv, TypeOK
  <2>2. \A j \in i .. Len(records) : ~records[j].is_deleted => j \in i + 1 .. Len(records)
    BY <2>1, <1>1
  <2> QED BY <1>1, <2>2 DEF IInv, KeptInv
<1> QED BY <1>2, <1>3, <1>4 DEF IInv

\* Copying record i: it leaves the part still to do and enters the new file
\* and the new array together.
LEMMA CompactCopyKeeps == ASSUME IInv, CompactCopy PROVE IInv'
<1> DEFINE r == [records[i] EXCEPT !.byte_offset = tmp.eof]
<1>1. /\ pc = "copy" /\ i <= Len(records) /\ ~records[i].is_deleted /\ i' = i + 1
      /\ tmp' = storage_write_record(tmp, CellOf(records[i]))
      /\ new_records' = Append(new_records, r)
      /\ UNCHANGED <<data, pending, schedule, up, fp, records, capacity,
                     pending_deletes, pc, pending_ids, success, inserts, acked, since>>
  BY DEF CompactCopy, handle, ghosts
<1>2. /\ i \in Nat /\ i > 0 /\ records \in Seq(Record) /\ Len(records) \in Nat
      /\ IsImage(tmp) /\ CellsDisjoint(tmp) /\ new_records \in Seq(Record)
      /\ Describes(new_records, tmp) /\ tmp.eof \in Nat
  BY <1>1 DEF IInv, TypeOK, EngineInv, LayoutInv, MirrorInv, IsImage
<1>3. records[i] \in Record
  BY <1>1, <1>2
<1>4. /\ r \in Record /\ r.byte_offset = tmp.eof /\ r.val = records[i].val
      /\ ~r.is_deleted /\ CellOf(r) = CellOf(records[i]) /\ CellOf(r) \in Cell
  BY <1>1, <1>2, <1>3 DEF Record, CellOf, Cell
<1> HIDE DEF r
<1>5. IsImage(tmp') /\ CellsDisjoint(tmp')
  BY <1>1, <1>2, <1>4, WriteRecord
<1>6. Describes(new_records', tmp')
  BY <1>1, <1>2, <1>4, DescribesAppend
<1>7. /\ new_records' \in Seq(Record)
      /\ \A v : HoldsLive(new_records, v) => HoldsLive(new_records', v)
      /\ HoldsLive(new_records', records[i].val)
  BY <1>1, <1>2, <1>4, AppendLive
<1>8. TypeOK'
  BY <1>1, <1>2, <1>5, <1>7 DEF IInv, TypeOK
<1>9. EngineInv' /\ LayoutInv' /\ MirrorInv' /\ CountWithinCapacity'
  BY <1>1, <1>2, <1>5, <1>6
  DEF IInv, EngineInv, LayoutInv, MirrorInv, CountWithinCapacity
<1>10. KeptInv'
  <2>1. \A j \in i .. Len(records) : j = i \/ j \in i + 1 .. Len(records)
    BY <1>2
  <2> QED BY <1>1, <1>7, <2>1 DEF IInv, KeptInv
<1> QED BY <1>8, <1>9, <1>10 DEF IInv

\* A failed copy leaves the old array and the old file.
LEMMA CompactAbortKeeps == ASSUME IInv, CompactAbort PROVE IInv'
<1>1. /\ pc = "copy" /\ tmp' = EmptyImage /\ pc' = "idle" /\ new_records' = <<>> /\ i' = 0
      /\ UNCHANGED <<data, pending, schedule, up, fp, records, capacity,
                     pending_deletes, pending_ids, success, inserts, acked, since>>
  BY DEF CompactAbort, handle, ghosts
<1>2. TypeOK'
  BY <1>1, EmptyFile DEF IInv, TypeOK
<1>3. EngineInv' /\ LayoutInv' /\ MirrorInv' /\ CountWithinCapacity'
  BY <1>1, EmptyFile DEF IInv, EngineInv, LayoutInv, MirrorInv, CountWithinCapacity
<1>4. KeptInv'
  BY <1>1 DEF IInv, KeptInv
<1> QED BY <1>2, <1>3, <1>4 DEF IInv

\* When the loop is over, every accepted record is in new_records.
LEMMA CompactFinishKeeps == ASSUME IInv, CompactFinish PROVE IInv'
<1>1. /\ pc = "copy" /\ i > Len(records) /\ fp' = FALSE /\ pc' = "rename"
      /\ UNCHANGED <<data, tmp, pending, schedule, up, records, capacity,
                     pending_deletes, i, new_records, pending_ids, success,
                     inserts, acked, since>>
  BY DEF CompactFinish, files, ghosts
<1>2. TypeOK'
  BY <1>1 DEF IInv, TypeOK
<1>3. EngineInv' /\ LayoutInv' /\ MirrorInv' /\ CountWithinCapacity'
  BY <1>1 DEF IInv, EngineInv, LayoutInv, MirrorInv, CountWithinCapacity
<1>4. KeptInv'
  <2>1. i .. Len(records) = {}
    BY <1>1 DEF IInv, TypeOK
  <2> QED BY <1>1, <2>1 DEF IInv, KeptInv, EngineInv
<1> QED BY <1>2, <1>3, <1>4 DEF IInv

\* The rename: what the new array holds live is live in the file that takes
\* the old one's place.
LEMMA CompactRenameKeeps == ASSUME IInv, CompactRename PROVE IInv'
<1>1. /\ pc = "rename" /\ data' = tmp /\ tmp' = EmptyImage /\ pc' = "reopen"
      /\ UNCHANGED <<pending, schedule, up, fp, records, capacity, pending_deletes,
                     i, new_records, pending_ids, success, inserts, acked, since>>
  BY DEF CompactRename, handle, ghosts
<1>2. TypeOK'
  BY <1>1, EmptyFile DEF IInv, TypeOK
<1>3. ~fp
  BY <1>1 DEF IInv, EngineInv
<1>4. EngineInv' /\ LayoutInv' /\ MirrorInv' /\ CountWithinCapacity'
  BY <1>1, <1>3, EmptyFile DEF IInv, EngineInv, LayoutInv, MirrorInv, CountWithinCapacity
<1>5. KeptInv'
  BY <1>1, <1>3, DescribesLive DEF IInv, KeptInv, MirrorInv
<1> QED BY <1>2, <1>4, <1>5 DEF IInv

SameButVector(r, s) ==
    /\ r.byte_offset = s.byte_offset /\ r.id = s.id /\ r.val = s.val
    /\ r.len = s.len /\ r.is_deleted = s.is_deleted

\* Changing only the vector pointers of an array changes nothing it says.
LEMMA PointerOnly ==
    ASSUME NEW r \in Record
    PROVE  /\ Unmapped(r) \in Record /\ Repointed(r) \in Record
           /\ SameButVector(Unmapped(r), r) /\ SameButVector(Repointed(r), r)
<1>1. \A p \in {"heap", "mmap", "stale", "null"} :
        LET s == [r EXCEPT !.vector = p] IN s \in Record /\ SameButVector(s, r)
  BY DEF Record, SameButVector
<1>2. Unmapped(r) \in Record /\ SameButVector(Unmapped(r), r)
  BY <1>1 DEF Unmapped, SameButVector
<1>3. Repointed(r) \in Record /\ SameButVector(Repointed(r), r)
  BY <1>1 DEF Repointed
<1> QED BY <1>2, <1>3

\* Arrays that differ only in their vector pointers hold the same values live.
LEMMA SamePointers ==
    ASSUME NEW recs \in Seq(Record), NEW other,
           other = [j \in 1 .. Len(recs) |-> Unmapped(recs[j])] \/
           other = [j \in 1 .. Len(recs) |-> Repointed(recs[j])]
    PROVE  /\ other \in Seq(Record) /\ Len(other) = Len(recs)
           /\ \A img : Describes(recs, img) => Describes(other, img)
           /\ \A v : HoldsLive(recs, v) => HoldsLive(other, v)
<1>1. \A j \in 1 .. Len(recs) :
        /\ Unmapped(recs[j]) \in Record /\ Repointed(recs[j]) \in Record
        /\ SameButVector(Unmapped(recs[j]), recs[j])
        /\ SameButVector(Repointed(recs[j]), recs[j])
  BY PointerOnly
<1>2. /\ other \in Seq(Record) /\ Len(other) = Len(recs)
      /\ \A j \in 1 .. Len(recs) : SameButVector(other[j], recs[j])
  BY <1>1
<1>3. \A j \in 1 .. Len(recs) :
        /\ other[j].byte_offset = recs[j].byte_offset /\ other[j].id = recs[j].id
        /\ other[j].val = recs[j].val /\ other[j].len = recs[j].len
        /\ other[j].is_deleted = recs[j].is_deleted
  BY <1>2 DEF SameButVector
<1>4. \A img : Describes(recs, img) => Describes(other, img)
  BY <1>2, <1>3, DescribesSame
<1>5. \A v : HoldsLive(recs, v) => HoldsLive(other, v)
  BY <1>2, <1>3 DEF HoldsLive
<1> QED BY <1>2, <1>4, <1>5

\* A failed rename leaves the old array over the old file.
LEMMA CompactRenameFailedKeeps == ASSUME IInv, CompactRenameFailed PROVE IInv'
<1>1. /\ pc = "rename" /\ fp' \in BOOLEAN /\ pc' = "idle" /\ i' = 0 /\ new_records' = <<>>
      /\ records' = [j \in 1 .. Len(records) |-> Unmapped(records[j])]
      /\ UNCHANGED <<data, tmp, pending, schedule, up, capacity, pending_deletes,
                     pending_ids, success, inserts, acked, since>>
  BY DEF CompactRenameFailed, files, ghosts
<1>2. records \in Seq(Record) /\ Describes(records, data) /\ up
  BY <1>1 DEF IInv, TypeOK, MirrorInv, EngineInv
<1>3. /\ records' \in Seq(Record) /\ Len(records') = Len(records)
      /\ Describes(records', data')
      /\ \A v : HoldsLive(records, v) => HoldsLive(records', v)
  BY <1>1, <1>2, SamePointers
<1>4. TypeOK'
  BY <1>1, <1>3 DEF IInv, TypeOK
<1>5. EngineInv' /\ LayoutInv' /\ MirrorInv' /\ CountWithinCapacity'
  BY <1>1, <1>2, <1>3 DEF IInv, EngineInv, LayoutInv, MirrorInv, CountWithinCapacity
<1>6. KeptInv'
  BY <1>1, <1>3 DEF IInv, KeptInv
<1> QED BY <1>4, <1>5, <1>6 DEF IInv

\* The new array is installed over the renamed file it describes.
LEMMA CompactInstallKeeps == ASSUME IInv, CompactInstall PROVE IInv'
<1>1. /\ pc = "reopen" /\ fp' = TRUE /\ pc' = "idle" /\ i' = 0 /\ new_records' = <<>>
      /\ records' = [j \in 1 .. Len(new_records) |-> Repointed(new_records[j])]
      /\ capacity' = IF Len(new_records) > 0 THEN Len(new_records) ELSE 1
      /\ UNCHANGED <<data, tmp, pending, schedule, up, pending_deletes,
                     pending_ids, success, inserts, acked, since>>
  BY DEF CompactInstall, files, ghosts
<1>2. /\ new_records \in Seq(Record) /\ Len(new_records) \in Nat
      /\ Describes(new_records, data) /\ up
  BY <1>1 DEF IInv, TypeOK, MirrorInv, EngineInv
<1>3. /\ records' \in Seq(Record) /\ Len(records') = Len(new_records)
      /\ Describes(records', data')
      /\ \A v : HoldsLive(new_records, v) => HoldsLive(records', v)
  BY <1>1, <1>2, SamePointers
<1>4. TypeOK'
  BY <1>1, <1>2, <1>3 DEF IInv, TypeOK
<1>5. EngineInv' /\ LayoutInv' /\ MirrorInv' /\ CountWithinCapacity'
  BY <1>1, <1>2, <1>3 DEF IInv, EngineInv, LayoutInv, MirrorInv, CountWithinCapacity
<1>6. KeptInv'
  BY <1>1, <1>3 DEF IInv, KeptInv
<1> QED BY <1>4, <1>5, <1>6 DEF IInv

\* The renamed file cannot be opened: the array no longer describes it, but
\* every accepted record is in it.
LEMMA CompactReopenFailedKeeps == ASSUME IInv, CompactReopenFailed PROVE IInv'
<1>1. /\ pc = "reopen" /\ pc' = "idle" /\ i' = 0 /\ new_records' = <<>>
      /\ records' = [j \in 1 .. Len(records) |-> Unmapped(records[j])]
      /\ UNCHANGED <<data, tmp, pending, schedule, up, fp, capacity, pending_deletes,
                     pending_ids, success, inserts, acked, since>>
  BY DEF CompactReopenFailed, files, ghosts
<1>2. records' \in Seq(Record) /\ Len(records') = Len(records) /\ ~fp
  BY <1>1, SamePointers DEF IInv, TypeOK, EngineInv
<1>3. TypeOK'
  BY <1>1, <1>2 DEF IInv, TypeOK
<1>4. EngineInv' /\ LayoutInv' /\ MirrorInv' /\ CountWithinCapacity'
  BY <1>1, <1>2 DEF IInv, EngineInv, LayoutInv, MirrorInv, CountWithinCapacity
<1>5. KeptInv'
  BY <1>1, <1>2 DEF IInv, KeptInv
<1> QED BY <1>3, <1>4, <1>5 DEF IInv

--------------------------------------------------------------------------
(* The theorems.                                                            *)

\* A handle that disappears without touching a file.
LEMMA VanishKeeps ==
    ASSUME IInv, HandleGone, UNCHANGED <<files, ghosts>>
    PROVE  IInv'
<1>1. /\ UNCHANGED <<tmp, pending, schedule, acked, since>> /\ data' = data
      /\ inserts' = inserts
  BY DEF files, ghosts
<1>2. /\ inserts \in Nat /\ acked \subseteq 1 .. inserts /\ IsImage(data)
      /\ CellsDisjoint(data)
  BY DEF IInv, TypeOK, LayoutInv
<1> QED BY <1>1, <1>2, GoneKeeps

\* Every step of the engine, and every failure of it, preserves the invariant.
THEOREM NextInv == IInv /\ [Next]_vars => IInv'
<1> SUFFICES ASSUME IInv, [Next]_vars PROVE IInv'
  OBVIOUS
<1>1. CASE db_init
  BY <1>1, OpenKeeps
<1>2. CASE db_close \/ Crash \/ flat_search_fault \/ CompactCopyFault
  BY <1>2, VanishKeeps DEF db_close, Crash, flat_search_fault, CompactCopyFault
<1>3. CASE \E id \in Ids : \E len \in MetaLens :
             db_insert(id, len) \/ db_insert_failed(id, len) \/ CrashInInsert(id, len)
  BY <1>3, InsertKeeps, InsertFailedKeeps, CrashInInsertKeeps
<1>4. CASE \E id \in Ids : db_delete(id)
  BY <1>4, DeleteKeeps
<1>5. CASE AutoDelete
  BY <1>5, AutoDeleteOneKeeps, BookkeepingKeeps DEF AutoDelete
<1>6. CASE CompactWork
  BY <1>2, <1>6, CompactBeginKeeps, CompactSkipKeeps, CompactCopyKeeps,
     CompactFinishKeeps, CompactRenameKeeps, CompactInstallKeeps DEF CompactWork
<1>7. CASE CompactFailure
  BY <1>7, CompactAbortKeeps, CompactRenameFailedKeeps, CompactReopenFailedKeeps
  DEF CompactFailure
<1>8. CASE set_auto_delete_schedule \/ cancel_auto_delete \/ TimePasses
  BY <1>8, BookkeepingKeeps
<1>9. CASE UNCHANGED vars
  <2>1. TypeOK' /\ EngineInv' /\ LayoutInv' /\ MirrorInv' /\ CountWithinCapacity'
    BY <1>9 DEF vars, IInv, TypeOK, EngineInv, LayoutInv, MirrorInv, CountWithinCapacity
  <2>2. KeptInv'
    BY <1>9 DEF vars, IInv, KeptInv
  <2> QED BY <2>1, <2>2 DEF IInv
<1> QED BY <1>1, <1>2, <1>3, <1>4, <1>5, <1>6, <1>7, <1>8, <1>9 DEF Next

\* The inductive invariant holds in every reachable state.
THEOREM AlwaysInv == Spec => []IInv
BY InitInv, NextInv, PTL DEF Spec

\* db.c's state keeps its types in every reachable state.
THEOREM TypeCorrect == Spec => []TypeOK
<1>1. IInv => TypeOK
  BY DEF IInv
<1> QED BY <1>1, AlwaysInv, PTL

\* Whenever storage->fp is open, db->records describes data.db: the byte that
\* db_delete patches is always the flags word of the record it means.
THEOREM ArrayDescribesFile == Spec => []MemoryMatchesDisk
<1>1. IInv => MemoryMatchesDisk
  BY DEF IInv, MirrorInv, MemoryMatchesDisk
<1> QED BY <1>1, AlwaysInv, PTL

\* A record accepted since the table was opened, and not marked by a delete, is
\* live in data.db in every state a crash can expose.
THEOREM AcceptedStaysOnDisk == Spec => []SessionDurable
<1>1. IInv => SessionDurable
  BY DEF IInv, KeptInv, SessionDurable
<1> QED BY <1>1, AlwaysInv, PTL

\* Appends, torn appends, flag patches and compactions keep the records of
\* data.db apart.
THEOREM FileStaysWellFormed == Spec => []FileWellFormed
<1>1. IInv => FileWellFormed
  BY DEF IInv, LayoutInv, FileWellFormed
<1> QED BY <1>1, AlwaysInv, PTL

\* The array never holds more records than it has slots.
THEOREM CountStaysWithinCapacity == Spec => []CountWithinCapacity
<1>1. IInv => CountWithinCapacity
  BY DEF IInv
<1> QED BY <1>1, AlwaysInv, PTL

--------------------------------------------------------------------------
(* What a step of FlatDb may never do to data.db.                           *)

\* The five things that happen to data.db: nothing, a whole append, a torn
\* append, a flag patch at the start of a record, and the rename.
DataStep ==
    \/ data' = data
    \/ \E c \in Cell : c.val = inserts + 1 /\ data' = storage_write_record(data, c)
    \/ \E k \in Nat : data' = TornWrite(data, k)
    \/ \E o \in DOMAIN data.cells : data' = storage_patch_flag(data, o)
    \/ pc = "rename" /\ data' = tmp

\* db_delete patches data.db only at the start of a record: the array
\* describes the file.
LEMMA DeletePatches ==
    ASSUME IInv, NEW id \in Ids, DeleteDone(id) \/ DeleteRefused(id)
    PROVE  DataStep
<1>1. CASE DeleteDone(id)
  <2>1. PICK j \in 1 .. Len(records) :
            /\ fp
            /\ \/ data' = storage_patch_flag(data, records[j].byte_offset)
               \/ data' = data
    BY <1>1 DEF DeleteDone
  <2>2. records[j].byte_offset \in DOMAIN data.cells
    BY <2>1 DEF IInv, MirrorInv, Describes
  <2> QED BY <2>1, <2>2 DEF DataStep
<1>2. CASE DeleteRefused(id)
  BY <1>2 DEF DeleteRefused, DataStep
<1> QED BY <1>1, <1>2

\* Every step is one of the five.
LEMMA DataSteps == IInv /\ [Next]_vars => DataStep
<1> SUFFICES ASSUME IInv, [Next]_vars PROVE DataStep
  OBVIOUS
<1> USE DEF files
<1>1. CASE db_init \/ db_close \/ Crash \/ flat_search_fault
  BY <1>1 DEF db_init, db_close, Crash, flat_search_fault, DataStep
<1>2. ASSUME NEW id \in Ids, NEW len \in MetaLens,
             db_insert(id, len) \/ db_insert_failed(id, len) \/ CrashInInsert(id, len)
      PROVE  DataStep
  <2>1. TornBytes \subseteq Nat
    BY FlatDbAssumption
  <2>2. \/ data' = data
        \/ data' = storage_write_record(data, NewCell(id, len))
        \/ \E k \in TornBytes : data' = TornWrite(data, k)
    BY <1>2 DEF db_insert, db_insert_failed, CrashInInsert
  <2> QED BY <2>1, <2>2, NewCellType DEF DataStep
<1>3. ASSUME NEW id \in Ids, db_delete(id) PROVE DataStep
  BY <1>3, DeletePatches DEF db_delete
<1>4. CASE AutoDelete
  <2>1. CASE AutoDeleteOne
    BY <2>1, DeletePatches DEF AutoDeleteOne
  <2>2. CASE ~AutoDeleteOne
    BY <1>4, <2>2 DEF AutoDelete, AutoDeleteNothing, AutoDeleteBegin,
       clear_pending_deletes, clear_auto_delete_schedule, DataStep
  <2> QED BY <2>1, <2>2
<1>5. CASE CompactWork \/ CompactFailure
  BY <1>5 DEF CompactWork, CompactFailure, CompactBegin, CompactSkip, CompactCopy,
     CompactCopyFault, CompactFinish, CompactRename, CompactInstall, CompactAbort,
     CompactRenameFailed, CompactReopenFailed, DataStep
<1>6. CASE set_auto_delete_schedule \/ cancel_auto_delete \/ TimePasses \/ UNCHANGED vars
  BY <1>6 DEF set_auto_delete_schedule, cancel_auto_delete, TimePasses, vars, DataStep
<1> QED BY <1>1, <1>2, <1>3, <1>4, <1>5, <1>6 DEF Next

\* Only the rename of a compaction removes a record from data.db, and only the
\* deleted flag of a record ever changes in place.
THEOREM NothingElseRemoves == Spec => OnlyRenameRemoves
<1> DEFINE Kept ==
      pc # "rename" =>
         \A o \in DOMAIN data.cells :
            /\ o \in DOMAIN data'.cells
            /\ data'.cells[o] \in {data.cells[o],
                                   [data.cells[o] EXCEPT !.is_deleted = TRUE]}
<1>1. IInv /\ [Next]_vars => [Kept]_vars
  <2> SUFFICES ASSUME IInv, [Next]_vars, pc # "rename", NEW o \in DOMAIN data.cells
               PROVE  /\ o \in DOMAIN data'.cells
                      /\ data'.cells[o] \in {data.cells[o],
                                   [data.cells[o] EXCEPT !.is_deleted = TRUE]}
    OBVIOUS
  <2>1. IsImage(data) /\ CellsDisjoint(data) /\ DataStep
    BY DataSteps DEF IInv, TypeOK, LayoutInv
  <2>2. CASE data' = data
    BY <2>2
  <2>3. CASE \E c \in Cell : data' = storage_write_record(data, c)
    BY <2>1, <2>3, WriteRecord
  <2>4. CASE \E k \in Nat : data' = TornWrite(data, k)
    BY <2>1, <2>4, TornKeeps
  <2>5. ASSUME NEW p \in DOMAIN data.cells, data' = storage_patch_flag(data, p)
        PROVE  /\ o \in DOMAIN data'.cells
               /\ data'.cells[o] \in {data.cells[o],
                                      [data.cells[o] EXCEPT !.is_deleted = TRUE]}
    <3>1. /\ DOMAIN data'.cells = DOMAIN data.cells
          /\ data'.cells[p] = [data.cells[p] EXCEPT !.is_deleted = TRUE]
          /\ \A q \in DOMAIN data.cells : q # p => data'.cells[q] = data.cells[q]
      BY <2>1, <2>5, PatchFlag
    <3> QED BY <3>1
  <2> QED BY <2>1, <2>2, <2>3, <2>4, <2>5 DEF DataStep
<1> QED BY <1>1, AlwaysInv, PTL DEF Spec, OnlyRenameRemoves

--------------------------------------------------------------------------
(* No resurrection.                                                         *)

\* What a compaction has copied so far was live in the file it copies from.
CopyInv ==
    pc \in {"copy", "rename"} =>
        \A o \in DOMAIN tmp.cells :
            ~tmp.cells[o].is_deleted => LiveOnDisk(data, tmp.cells[o].val)

\* The record that CompactCopy copies is live in data.db.
LEMMA CopiedIsLive ==
    ASSUME IInv, CompactCopy
    PROVE  LiveOnDisk(data, records[i].val)
<1>1. i \in 1 .. Len(records) /\ ~records[i].is_deleted /\ fp
  BY DEF CompactCopy, IInv, TypeOK, EngineInv
<1>2. Describes(records, data)
  BY <1>1 DEF IInv, MirrorInv
<1> QED BY <1>1, <1>2 DEF Describes, LiveOnDisk

\* CompactCopy keeps CopyInv: the new record is live, the others were.
LEMMA CopyKeepsCopyInv ==
    ASSUME IInv, CopyInv, CompactCopy
    PROVE  CopyInv'
<1>1. IsImage(tmp) /\ CellsDisjoint(tmp) /\ records \in Seq(Record)
  BY DEF IInv, TypeOK, LayoutInv
<1>2. i \in 1 .. Len(records)
  BY DEF CompactCopy, IInv, TypeOK, EngineInv
<1>3. CellOf(records[i]) \in Cell /\ CellOf(records[i]).val = records[i].val
  <2>1. records[i] \in Record
    BY <1>1, <1>2
  <2> QED BY <2>1 DEF CellOf, Cell, Record
<1>4. tmp' = storage_write_record(tmp, CellOf(records[i])) /\ data' = data /\ pc = "copy"
  BY DEF CompactCopy
<1>5. /\ DOMAIN tmp'.cells = DOMAIN tmp.cells \cup {tmp.eof}
      /\ tmp'.cells[tmp.eof] = CellOf(records[i])
      /\ \A o \in DOMAIN tmp.cells : tmp'.cells[o] = tmp.cells[o]
  BY <1>1, <1>3, <1>4, WriteRecord
<1>6. \A v : LiveOnDisk(data, v) => LiveOnDisk(data, v)'
  BY <1>4 DEF LiveOnDisk
<1> QED BY <1>3, <1>4, <1>5, <1>6, CopiedIsLive DEF CopyInv

\* CopyInv is an invariant of the steps: it begins with an empty file, and
\* nothing but CompactCopy changes either file while it matters.
LEMMA CopyInvStep == IInv /\ CopyInv /\ [Next]_vars => CopyInv'
<1> SUFFICES ASSUME IInv, CopyInv, [Next]_vars PROVE CopyInv'
  OBVIOUS
<1>1. ASSUME data' = data, tmp' = tmp,
             pc' \in {"copy", "rename"} => pc \in {"copy", "rename"}
      PROVE  CopyInv'
  BY <1>1 DEF CopyInv, LiveOnDisk
<1>2. ASSUME pc' \notin {"copy", "rename"} PROVE CopyInv'
  BY <1>2 DEF CopyInv
<1> USE DEF files, engine, handle, ghosts
<1>3. CASE db_init
  BY <1>1, <1>3 DEF db_init
<1>4. CASE db_close \/ Crash \/ flat_search_fault \/ CompactCopyFault
  BY <1>2, <1>4 DEF db_close, Crash, flat_search_fault, CompactCopyFault, HandleGone
<1>5. ASSUME NEW id \in Ids, NEW len \in MetaLens,
             db_insert(id, len) \/ db_insert_failed(id, len) \/ CrashInInsert(id, len)
      PROVE  CopyInv'
  BY <1>2, <1>5 DEF db_insert, db_insert_failed, CrashInInsert, HandleGone
<1>6. ASSUME NEW id \in Ids, db_delete(id) PROVE CopyInv'
  BY <1>2, <1>6 DEF db_delete
<1>7. CASE AutoDelete
  BY <1>2, <1>7 DEF AutoDelete, AutoDeleteNothing, AutoDeleteBegin, AutoDeleteOne,
     clear_pending_deletes, clear_auto_delete_schedule
<1>8. CASE CompactBegin
  <2>1. CASE pc' = "idle"
    BY <1>2, <2>1
  <2>2. CASE tmp' = EmptyImage
    BY <2>2 DEF CopyInv, EmptyImage
  <2> QED BY <1>8, <2>1, <2>2 DEF CompactBegin
<1>9. CASE CompactCopy
  BY <1>9, CopyKeepsCopyInv
<1>10. CASE CompactSkip \/ CompactFinish
  BY <1>1, <1>10 DEF CompactSkip, CompactFinish
<1>11. CASE CompactRename \/ CompactInstall \/ CompactFailure
  BY <1>2, <1>11 DEF CompactRename, CompactInstall, CompactFailure, CompactAbort,
     CompactRenameFailed, CompactReopenFailed
<1>12. CASE set_auto_delete_schedule \/ cancel_auto_delete \/ TimePasses \/ UNCHANGED vars
  BY <1>1, <1>12 DEF set_auto_delete_schedule, cancel_auto_delete, TimePasses, vars
<1> QED BY <1>3, <1>4, <1>5, <1>6, <1>7, <1>8, <1>9, <1>10, <1>11, <1>12
        DEF Next, CompactWork

\* What is not live in data.db never becomes live again, whatever crashes cut
\* short and whatever they left in the temporary file.
THEOREM DeletedStaysDeleted == Spec => NoResurrection
<1> DEFINE Stays == \A v \in 1 .. inserts : LiveOnDisk(data', v) => LiveOnDisk(data, v)
<1>1. Init => CopyInv
  BY DEF Init, CopyInv
<1>2. IInv /\ CopyInv /\ [Next]_vars => [Stays]_vars
  <2> SUFFICES ASSUME IInv, CopyInv, [Next]_vars,
                      NEW v \in 1 .. inserts, LiveOnDisk(data', v)
               PROVE  LiveOnDisk(data, v)
    OBVIOUS
  <2>1. IsImage(data) /\ CellsDisjoint(data) /\ DataStep /\ inserts \in Nat
    BY DataSteps DEF IInv, TypeOK, LayoutInv
  <2>2. CASE data' = data
    BY <2>2
  <2>3. ASSUME NEW c \in Cell, c.val = inserts + 1, data' = storage_write_record(data, c)
        PROVE  LiveOnDisk(data, v)
    <3>1. /\ DOMAIN data'.cells = DOMAIN data.cells \cup {data.eof}
          /\ data'.cells[data.eof] = c
          /\ \A o \in DOMAIN data.cells : data'.cells[o] = data.cells[o]
      BY <2>1, <2>3, WriteRecord
    <3>2. c.val # v
      BY <2>1, <2>3
    <3> QED BY <3>1, <3>2 DEF LiveOnDisk
  <2>4. CASE \E k \in Nat : data' = TornWrite(data, k)
    <3>1. data'.cells = data.cells
      BY <2>1, <2>4, TornKeeps
    <3> QED BY <3>1 DEF LiveOnDisk
  <2>5. ASSUME NEW p \in DOMAIN data.cells, data' = storage_patch_flag(data, p)
        PROVE  LiveOnDisk(data, v)
    <3>1. /\ DOMAIN data'.cells = DOMAIN data.cells
          /\ data'.cells[p] = [data.cells[p] EXCEPT !.is_deleted = TRUE]
          /\ \A q \in DOMAIN data.cells : q # p => data'.cells[q] = data.cells[q]
      BY <2>1, <2>5, PatchFlag
    <3>2. data'.cells[p].is_deleted
      BY <3>1, <2>1 DEF IsImage, Cell
    <3> QED BY <3>1, <3>2 DEF LiveOnDisk
  <2>6. CASE pc = "rename" /\ data' = tmp
    BY <2>6 DEF CopyInv, LiveOnDisk
  <2> QED BY <2>1, <2>2, <2>3, <2>4, <2>5, <2>6 DEF DataStep
<1> QED BY <1>1, <1>2, CopyInvStep, AlwaysInv, PTL DEF Spec, NoResurrection

--------------------------------------------------------------------------
(* The engine implements DurableStore, for every set of ids, lengths,       *)
(* queues and failures and for any number of inserts.  The argument needs   *)
(* the inductive invariant twice: KeptInv says that a rename drops nothing  *)
(* owed, CopyInv that it brings nothing back.                               *)

Mapped == Store!Next \/ UNCHANGED Store!vars

\* A step that leaves data.db and the history alone is no step of the store.
LEMMA QuietMaps ==
    ASSUME data' = data, inserts' = inserts, acked' = acked, since' = since
    PROVE  Mapped
<1>1. StoredValues' = StoredValues /\ OwedValues' = OwedValues
  BY DEF StoredValues, OwedValues, LiveOnDisk
<1> QED BY <1>1 DEF Mapped, Store!vars

\* db_init: what was accepted before is no longer owed.
LEMMA OpenMaps == ASSUME IInv, db_init PROVE Mapped
<1>1. data' = data /\ inserts' = inserts /\ acked' = acked /\ since' = inserts
  BY DEF db_init, files
<1>2. inserts \in Nat /\ acked \subseteq 1 .. inserts
  BY DEF IInv, TypeOK
<1>3. StoredValues' = StoredValues
  BY <1>1 DEF StoredValues, LiveOnDisk
<1>4. OwedValues' = {}
  <2>1. OwedValues' = {v \in acked' : v > since'}
    BY DEF OwedValues
  <2>2. \A v \in acked : ~(v > inserts)
    BY <1>2
  <2> QED BY <1>1, <2>1, <2>2
<1> QED BY <1>1, <1>3, <1>4 DEF Mapped, Store!Next, Store!Reopen

\* An append adds its own value to what is live on disk, and no other.
LEMMA WriteStores ==
    ASSUME IInv, NEW id \in Ids, NEW len \in MetaLens, inserts' = inserts + 1,
           data' = storage_write_record(data, NewCell(id, len))
    PROVE  StoredValues' = StoredValues \cup {inserts + 1}
<1>1. /\ IsImage(data) /\ CellsDisjoint(data) /\ inserts \in Nat
  BY DEF IInv, TypeOK, LayoutInv
<1>2. /\ NewCell(id, len) \in Cell /\ NewCell(id, len).val = inserts + 1
      /\ ~NewCell(id, len).is_deleted
  BY NewCellType
<1>3. /\ DOMAIN data'.cells = DOMAIN data.cells \cup {data.eof}
      /\ data'.cells[data.eof] = NewCell(id, len)
      /\ \A o \in DOMAIN data.cells : data'.cells[o] = data.cells[o]
  BY <1>1, <1>2, WriteRecord
<1>4. \A v \in 1 .. inserts : LiveOnDisk(data', v) <=> LiveOnDisk(data, v)
  <2>1. \A v \in 1 .. inserts : v # inserts + 1
    BY <1>1
  <2> QED BY <1>2, <1>3, <2>1 DEF LiveOnDisk
<1>5. LiveOnDisk(data', inserts + 1)
  BY <1>2, <1>3 DEF LiveOnDisk
<1>6. 1 .. (inserts + 1) = (1 .. inserts) \cup {inserts + 1}
  BY <1>1
<1>7. StoredValues' = {v \in 1 .. (inserts + 1) : LiveOnDisk(data', v)}
  BY DEF StoredValues, LiveOnDisk
<1> QED BY <1>4, <1>5, <1>6, <1>7 DEF StoredValues

\* db_insert returned 0.
LEMMA InsertMaps ==
    ASSUME IInv, NEW id \in Ids, NEW len \in MetaLens, db_insert(id, len)
    PROVE  Mapped
<1>1. /\ inserts' = inserts + 1 /\ since' = since /\ acked' = acked \cup {inserts + 1}
      /\ data' = storage_write_record(data, NewCell(id, len))
  BY DEF db_insert
<1>2. StoredValues' = StoredValues \cup {inserts + 1}
  BY <1>1, WriteStores
<1>3. inserts \in Nat /\ since \in Nat
  BY DEF IInv, TypeOK
<1>4. CASE inserts + 1 > since
  <2>1. OwedValues' = OwedValues \cup {inserts + 1}
    BY <1>1, <1>4 DEF OwedValues
  <2> QED BY <1>1, <1>2, <2>1 DEF Mapped, Store!Next, Store!Accept
<1>5. CASE ~(inserts + 1 > since)
  <2>1. OwedValues' = OwedValues
    BY <1>1, <1>5 DEF OwedValues
  <2> QED BY <1>1, <1>2, <2>1 DEF Mapped, Store!Next, Store!Unanswered
<1> QED BY <1>4, <1>5

\* An append that failed or that nobody was told of.
LEMMA UnansweredMaps ==
    ASSUME IInv, NEW id \in Ids, NEW len \in MetaLens,
           db_insert_failed(id, len) \/ CrashInInsert(id, len)
    PROVE  Mapped
<1>1. /\ inserts' = inserts + 1 /\ since' = since /\ acked' = acked
      /\ \/ data' = data
         \/ \E k \in TornBytes : data' = TornWrite(data, k)
         \/ data' = storage_write_record(data, NewCell(id, len))
  BY DEF db_insert_failed, CrashInInsert
<1>2. OwedValues' = OwedValues
  BY <1>1 DEF OwedValues
<1>3. inserts \in Nat /\ IsImage(data) /\ CellsDisjoint(data)
  BY DEF IInv, TypeOK, LayoutInv
<1>4. ASSUME data'.cells = data.cells
      PROVE  StoredValues' \in {StoredValues, StoredValues \cup {inserts + 1}}
  <2>1. \A v : LiveOnDisk(data', v) <=> LiveOnDisk(data, v)
    BY <1>4 DEF LiveOnDisk
  <2>2. StoredValues' = {v \in 1 .. (inserts + 1) : LiveOnDisk(data', v)}
    BY <1>1 DEF StoredValues, LiveOnDisk
  <2>3. 1 .. (inserts + 1) = (1 .. inserts) \cup {inserts + 1}
    BY <1>3
  <2> QED BY <2>1, <2>2, <2>3 DEF StoredValues
<1>5. StoredValues' \in {StoredValues, StoredValues \cup {inserts + 1}}
  <2>1. CASE data' = data
    BY <2>1, <1>4
  <2>2. ASSUME NEW k \in TornBytes, data' = TornWrite(data, k)
        PROVE  data'.cells = data.cells
    <3>1. k \in Nat
      BY FlatDbAssumption
    <3> QED BY <3>1, <2>2, <1>3, TornKeeps
  <2>3. CASE data' = storage_write_record(data, NewCell(id, len))
    BY <2>3, <1>1, WriteStores
  <2> QED BY <1>1, <1>4, <2>1, <2>2, <2>3
<1> QED BY <1>1, <1>2, <1>5 DEF Mapped, Store!Next, Store!Unanswered

\* db_delete, from the command line or from the schedule: at most the value of
\* the record it found is lost, and that one is no longer owed.
LEMMA DeleteMaps ==
    ASSUME IInv, NEW id \in Ids, DeleteDone(id) \/ DeleteRefused(id),
           inserts' = inserts, since' = since
    PROVE  Mapped
<1>1. CASE data' = data /\ acked' = acked
  BY <1>1, QuietMaps
<1>2. ASSUME NEW j \in 1 .. Len(records), fp, acked' = acked \ {records[j].val},
             \/ data' = storage_patch_flag(data, records[j].byte_offset)
             \/ data' = data
      PROVE  Mapped
  <2> DEFINE v == records[j].val
  <2>1. /\ IsImage(data) /\ CellsDisjoint(data) /\ Describes(records, data)
        /\ inserts \in Nat /\ acked \subseteq 1 .. inserts
    BY <1>2 DEF IInv, TypeOK, LayoutInv, MirrorInv
  <2>2. OwedValues' = OwedValues \ {v}
    BY <1>2 DEF OwedValues
  <2>3. \A w : w # v => (LiveOnDisk(data', w) <=> LiveOnDisk(data, w))
    <3>1. CASE data' = data
      BY <3>1
    <3>2. CASE data' = storage_patch_flag(data, records[j].byte_offset)
      <4> DEFINE o == records[j].byte_offset
      <4>1. o \in DOMAIN data.cells /\ data.cells[o].val = v
        BY <2>1 DEF Describes
      <4>2. /\ DOMAIN data'.cells = DOMAIN data.cells
            /\ data'.cells[o] = [data.cells[o] EXCEPT !.is_deleted = TRUE]
            /\ \A q \in DOMAIN data.cells : q # o => data'.cells[q] = data.cells[q]
        BY <4>1, <2>1, <3>2, PatchFlag
      <4>3. data'.cells[o].val = v
        BY <4>1, <4>2, <2>1 DEF IsImage, Cell
      <4> HIDE DEF v, o
      <4> QED BY <4>1, <4>2, <4>3 DEF LiveOnDisk
    <3> QED BY <1>2, <3>1, <3>2
  <2> HIDE DEF v
  <2>4. StoredValues' = {w \in 1 .. inserts : LiveOnDisk(data', w)}
    BY DEF StoredValues, LiveOnDisk
  <2>6. LiveOnDisk(data', v) => LiveOnDisk(data, v)
    <3>1. CASE data' = data
      BY <3>1
    <3>2. CASE data' = storage_patch_flag(data, records[j].byte_offset)
      <4> DEFINE o == records[j].byte_offset
      <4>1. o \in DOMAIN data.cells
        BY <2>1 DEF Describes
      <4>2. /\ DOMAIN data'.cells = DOMAIN data.cells
            /\ data'.cells[o] = [data.cells[o] EXCEPT !.is_deleted = TRUE]
            /\ \A q \in DOMAIN data.cells : q # o => data'.cells[q] = data.cells[q]
        BY <4>1, <2>1, <3>2, PatchFlag
      <4>3. data'.cells[o].is_deleted
        BY <4>1, <4>2, <2>1 DEF IsImage, Cell
      <4> HIDE DEF o
      <4> QED BY <4>1, <4>2, <4>3 DEF LiveOnDisk
    <3> QED BY <1>2, <3>1, <3>2
  <2>7. StoredValues' \in {StoredValues, StoredValues \ {v}}
    <3>1. CASE LiveOnDisk(data', v)
      BY <3>1, <2>3, <2>4, <2>6 DEF StoredValues
    <3>2. CASE ~LiveOnDisk(data', v)
      <4>1. StoredValues' = StoredValues \ {v}
        BY <3>2, <2>3, <2>4 DEF StoredValues
      <4> QED BY <4>1
    <3> QED BY <3>1, <3>2
  <2>8. CASE v \in 1 .. inserts
    <3>1. Store!Delete(v)
      BY <2>2, <2>7 DEF Store!Delete
    <3> QED BY <2>8, <3>1 DEF Mapped, Store!Next
  <2>9. CASE v \notin 1 .. inserts
    <3>1. StoredValues' = StoredValues /\ OwedValues' = OwedValues
      BY <2>1, <2>2, <2>7, <2>9 DEF StoredValues, OwedValues
    <3> QED BY <3>1 DEF Mapped, Store!vars
  <2> QED BY <2>8, <2>9
<1>3. CASE DeleteDone(id)
  BY <1>2, <1>3 DEF DeleteDone
<1>4. CASE DeleteRefused(id)
  BY <1>1, <1>2, <1>4 DEF DeleteRefused
<1> QED BY <1>3, <1>4

\* The rename that installs a compacted file.
LEMMA RenameMaps == ASSUME IInv, IInv', CopyInv, CompactRename PROVE Mapped
<1>1. /\ data' = tmp /\ pc = "rename"
      /\ inserts' = inserts /\ acked' = acked /\ since' = since
  BY DEF CompactRename, ghosts
<1>2. OwedValues' = OwedValues
  BY <1>1 DEF OwedValues
<1>3. StoredValues' \subseteq StoredValues
  BY <1>1 DEF StoredValues, CopyInv, LiveOnDisk
<1>4. OwedValues' \subseteq StoredValues'
  BY DEF IInv, KeptInv, TypeOK, OwedValues, StoredValues
<1> QED BY <1>1, <1>2, <1>3, <1>4 DEF Mapped, Store!Next, Store!Rewrite

\* Every step of the engine is a step of the store or none.
LEMMA StepMaps == IInv /\ IInv' /\ CopyInv /\ [Next]_vars => Mapped
<1> SUFFICES ASSUME IInv, IInv', CopyInv, [Next]_vars PROVE Mapped
  OBVIOUS
<1> USE DEF files, ghosts
<1>1. CASE db_init
  BY <1>1, OpenMaps
<1>2. CASE db_close \/ Crash \/ flat_search_fault \/ CompactCopyFault
  BY <1>2, QuietMaps DEF db_close, Crash, flat_search_fault, CompactCopyFault
<1>3. ASSUME NEW id \in Ids, NEW len \in MetaLens,
             db_insert(id, len) \/ db_insert_failed(id, len) \/ CrashInInsert(id, len)
      PROVE  Mapped
  BY <1>3, InsertMaps, UnansweredMaps
<1>4. ASSUME NEW id \in Ids, db_delete(id) PROVE Mapped
  BY <1>4, DeleteMaps DEF db_delete
<1>5. CASE AutoDeleteOne
  BY <1>5, DeleteMaps DEF AutoDeleteOne
<1>6. CASE AutoDelete /\ ~AutoDeleteOne
  BY <1>6, QuietMaps DEF AutoDelete, AutoDeleteNothing, AutoDeleteBegin,
     clear_pending_deletes, clear_auto_delete_schedule
<1>7. CASE CompactRename
  BY <1>7, RenameMaps
<1>8. CASE (CompactWork /\ ~CompactRename /\ ~CompactCopyFault) \/ CompactFailure
  BY <1>8, QuietMaps DEF CompactWork, CompactFailure, CompactBegin, CompactSkip,
     CompactCopy, CompactFinish, CompactInstall, CompactAbort, CompactRenameFailed,
     CompactReopenFailed
<1>9. CASE set_auto_delete_schedule \/ cancel_auto_delete \/ TimePasses \/ UNCHANGED vars
  BY <1>9, QuietMaps DEF set_auto_delete_schedule, cancel_auto_delete, TimePasses, vars
<1> QED BY <1>1, <1>2, <1>3, <1>4, <1>5, <1>6, <1>7, <1>8, <1>9 DEF Next, CompactWork

\* The engine implements the store: db.c and storage.c, with every crash and
\* every failed call, behave as a set of values that keeps what it owes.
THEOREM EngineImplementsStore == Spec => ImplementsStore
<1>1. Init => Store!Init
  <2> SUFFICES ASSUME Init PROVE Store!Init
    OBVIOUS
  <2>1. StoredValues = {} /\ OwedValues = {} /\ inserts = 0
    BY DEF Init, StoredValues, OwedValues
  <2> QED BY <2>1 DEF Store!Init
<1>2. Init => CopyInv
  BY DEF Init, CopyInv
<1>3. IInv /\ IInv' /\ CopyInv /\ [Next]_vars => [Store!Next]_Store!vars
  BY StepMaps DEF Mapped
<1> QED BY <1>1, <1>2, <1>3, CopyInvStep, AlwaysInv, PTL DEF Spec, ImplementsStore, Store!Spec

\* What the engine owes is on disk, read off the store it implements.
THEOREM OwedIsStored == Spec => []Store!Kept
<1>1. IInv => Store!Kept
  BY DEF IInv, KeptInv, TypeOK, Store!Kept, OwedValues, StoredValues
<1> QED BY <1>1, AlwaysInv, PTL

--------------------------------------------------------------------------
(* The command line: Terminal, whose variables have the names of FlatDb's   *)
(* where they stand for the same thing.  Nothing is said of how the two run *)
(* together: a theorem has Session!Spec alone as its hypothesis.            *)

CONSTANTS Queues, MaxRewrites
VARIABLES rewrites, ivf_index, open, served, mishaps

Session == INSTANCE Terminal

\* TerminalAssumption.
SessionConstants ==
    Queues \subseteq SUBSET Ids /\ MaxInserts \in Nat /\ MaxRewrites \in Nat

LEMMA SamePicked == ASSUME NEW s, NEW S PROVE Session!Picked(s, S) = Picked(s, S)
<1>1. ASSUME NEW U PROVE Session!Cardinality(U) = Cardinality(U)
  BY DEF Session!Cardinality, Cardinality
<1>2. ASSUME NEW U, NEW n PROVE Session!Nth(U, n) = Nth(U, n)
  BY <1>1 DEF Session!Nth, Nth
<1> QED BY <1>1, <1>2 DEF Session!Picked, Picked

\* Marking a record and packing the live ones give an array again.
LEMMA SessionArrays ==
    ASSUME records \in Seq(Session!Record)
    PROVE  /\ \A id : \A n \in Session!Found(records, id) :
                 Session!Marked(n) \in Seq(Session!Record)
           /\ \A recs \in Seq(Session!Record) :
                 Session!Repacked(Session!Unmarked(recs)) \in Seq(Session!Record)
<1>1. ASSUME NEW id, NEW n \in Session!Found(records, id)
      PROVE  Session!Marked(n) \in Seq(Session!Record)
  <2>1. n \in 1 .. Len(records) /\ records[n] \in Session!Record
    BY DEF Session!Found
  <2> DEFINE r == [records[n] EXCEPT !.is_deleted = TRUE]
  <2>2. r \in Session!Record
    BY <2>1 DEF Session!Record
  <2>3. Session!Marked(n) = [records EXCEPT ![n] = r]
    BY DEF Session!Marked
  <2> HIDE DEF r
  <2> QED BY <2>1, <2>2, <2>3
<1>2. ASSUME NEW recs \in Seq(Session!Record)
      PROVE  Session!Repacked(Session!Unmarked(recs)) \in Seq(Session!Record)
  <2> DEFINE S == {n \in 1 .. Len(recs) : ~recs[n].is_deleted}
             live == Picked(recs, S)
  <2>1. Session!Unmarked(recs) = live
    BY SamePicked DEF Session!Unmarked
  <2>2. S \in SUBSET (1 .. Len(recs))
    OBVIOUS
  <2> HIDE DEF S
  <2>3. live \in Seq(Session!Record) /\ Len(live) \in Nat
    BY <2>2, PickedElements
  <2> HIDE DEF live
  <2> DEFINE r(n) == [live[n] EXCEPT !.vector = "null"]
  <2>4. ASSUME NEW n \in 1 .. Len(live) PROVE r(n) \in Session!Record
    <3>1. live[n] \in Session!Record
      BY <2>3
    <3> QED BY <3>1 DEF Session!Record
  <2>5. Session!Repacked(live) = [n \in 1 .. Len(live) |-> r(n)]
    BY DEF Session!Repacked
  <2> HIDE DEF r
  <2>6. [n \in 1 .. Len(live) |-> r(n)] \in Seq(Session!Record)
    BY <2>3, <2>4
  <2> QED BY <2>1, <2>5, <2>6
<1> QED BY <1>1, <1>2

\* The index is judged by these only.
SessionIndex ==
    pc # "unindex" /\ mishaps = {} => ivf_index \in {Session!NoIndex, rewrites}

\* A compaction that replaces data.db leads to the removal of the index or is a
\* mishap; one that fails before the rename leaves data.db, and the index with it.
LEMMA SessionDeletes ==
    ASSUME SessionConstants, Session!IndexOfThisFile, NEW id \in Ids, Session!Delete(id)
    PROVE  Session!IndexOfThisFile'
<1>0. Session!TypeOK /\ SessionIndex
  BY DEF Session!IndexOfThisFile, SessionIndex
<1> PICK n \in Session!Found(records, id) : Session!db_compact(Session!Marked(n))
  BY DEF Session!Delete
<1> DEFINE recs == Session!Marked(n)
<1>1. /\ ivf_index' = ivf_index /\ pending' = pending /\ open' = open /\ served' = served
      /\ pending_ids' = pending_ids /\ inserts' = inserts /\ pc = "prompt" /\ fp
  BY DEF Session!Delete
<1>2. recs \in Seq(Session!Record) /\ Session!Repacked(Session!Unmarked(recs)) \in Seq(Session!Record)
  BY <1>0, SessionArrays DEF Session!TypeOK
<1>3. Session!db_compact(recs)
  OBVIOUS
<1> HIDE DEF recs
<1>4. /\ records' \in Seq(Session!Record) /\ fp' \in BOOLEAN /\ mishaps' \subseteq Session!Mishaps
      /\ pc' \in {"prompt", "unindex"}
  <2>1. fp \in BOOLEAN /\ mishaps \subseteq Session!Mishaps
    BY <1>0 DEF Session!TypeOK
  <2>2. records' \in Seq(Session!Record)
    BY <1>2, <1>3 DEF Session!db_compact
  <2>3. fp' \in BOOLEAN
    BY <1>3, <2>1, Zenon DEF Session!db_compact
  <2>4. mishaps' \subseteq Session!Mishaps /\ pc' \in {"prompt", "unindex"}
    BY <1>1, <1>3, <2>1 DEF Session!db_compact, Session!Mishaps
  <2> QED BY <2>2, <2>3, <2>4
<1>5. /\ rewrites' \in 0 .. MaxRewrites /\ rewrites \in 0 .. rewrites'
      /\ \/ rewrites' = rewrites /\ mishaps' = mishaps /\ pc' = pc
         \/ pc' = "unindex" \/ mishaps' # {}
  <2>1. rewrites \in Nat /\ rewrites <= MaxRewrites /\ MaxRewrites \in Nat
    BY <1>0 DEF Session!TypeOK, SessionConstants
  <2>2. \/ rewrites' = rewrites
        \/ rewrites < MaxRewrites /\ rewrites' = rewrites + 1
    BY <1>3 DEF Session!db_compact
  <2>3. \/ rewrites' = rewrites /\ mishaps' = mishaps /\ pc' = pc
        \/ pc' = "unindex" \/ "reopen" \in mishaps'
    BY <1>3 DEF Session!db_compact
  <2>4. rewrites' \in 0 .. MaxRewrites /\ rewrites \in 0 .. rewrites'
    BY <2>1, <2>2
  <2> QED BY <2>3, <2>4
<1>6. ivf_index' \in {Session!NoIndex} \cup 0 .. rewrites'
  BY <1>0, <1>1, <1>5 DEF Session!TypeOK, SessionConstants
<1>7. Session!TypeOK'
  BY <1>0, <1>1, <1>4, <1>5, <1>6 DEF Session!TypeOK
<1>8. SessionIndex'
  BY <1>0, <1>1, <1>5 DEF SessionIndex
<1> QED BY <1>7, <1>8 DEF Session!IndexOfThisFile, SessionIndex

\* The commands that touch the session's array and no file.
LEMMA SessionWorks ==
    ASSUME SessionConstants, Session!IndexOfThisFile,
           \/ Session!Open
           \/ \E id \in Ids : Session!Insert(id) \/ Session!DeleteUnpatched(id)
    PROVE  Session!IndexOfThisFile'
<1>0. Session!TypeOK /\ SessionIndex
  BY DEF Session!IndexOfThisFile, SessionIndex
<1> USE DEF Session!Open, Session!Insert, Session!DeleteUnpatched, Session!files
<1>1. records' \in Seq(Session!Record)
  <2>1. CASE Session!Open
    BY <2>1 DEF Session!db_open
  <2>2. ASSUME NEW id \in Ids, Session!Insert(id) PROVE records' \in Seq(Session!Record)
    <3>1. [id |-> id, is_deleted |-> FALSE, vector |-> "heap"] \in Session!Record
      BY DEF Session!Record
    <3> QED BY <2>2, <3>1, <1>0 DEF Session!TypeOK
  <2>3. ASSUME NEW id \in Ids, Session!DeleteUnpatched(id) PROVE records' \in Seq(Session!Record)
    BY <2>3, <1>0, SessionArrays DEF Session!TypeOK
  <2> QED BY <2>1, <2>2, <2>3
<1>2. /\ rewrites' = rewrites /\ ivf_index' = ivf_index /\ pending' = pending /\ served' = served
      /\ pc' = pc /\ pending_ids' = pending_ids /\ mishaps' = mishaps
  OBVIOUS
<1>3. open' \in BOOLEAN /\ fp' \in BOOLEAN
  BY <1>0, Zenon DEF Session!TypeOK
<1>4. inserts' \in 0 .. MaxInserts /\ served' \in 0 .. inserts'
  <2>1. inserts' = inserts \/ (inserts < MaxInserts /\ inserts' = inserts + 1)
    OBVIOUS
  <2>2. /\ inserts \in Nat /\ inserts <= MaxInserts /\ MaxInserts \in Nat
        /\ served \in Nat /\ served <= inserts
    BY <1>0 DEF Session!TypeOK, SessionConstants
  <2> QED BY <1>2, <2>1, <2>2
<1>5. Session!TypeOK'
  BY <1>0, <1>1, <1>2, <1>3, <1>4 DEF Session!TypeOK
<1>6. SessionIndex'
  BY <1>0, <1>2 DEF SessionIndex
<1> QED BY <1>5, <1>6 DEF Session!IndexOfThisFile, SessionIndex

\* The commands that leave the session's table alone, and the server's steps.
LEMMA SessionRests ==
    ASSUME SessionConstants, Session!IndexOfThisFile,
           \/ Session!RemoveIndex \/ Session!ProcessDeletes \/ Session!Confirmed
           \/ Session!Aborted \/ Session!Server \/ Session!ServerInsert \/ Session!Train
    PROVE  Session!IndexOfThisFile'
<1>0. Session!TypeOK /\ SessionIndex
  BY DEF Session!IndexOfThisFile, SessionIndex
<1> USE DEF Session!RemoveIndex, Session!ProcessDeletes, Session!Confirmed, Session!Aborted,
            Session!Server, Session!ServerInsert, Session!Train
<1>1. rewrites' = rewrites /\ open' = open /\ fp' = fp /\ records' = records
  BY DEF Session!files, Session!master_db
<1>2. pending' \subseteq Ids /\ pending_ids' \subseteq Ids
  BY <1>0 DEF Session!TypeOK, Session!files
<1>3. inserts' \in 0 .. MaxInserts /\ served' \in 0 .. inserts'
  BY <1>0 DEF Session!TypeOK, SessionConstants
<1>4. pc' \in {"prompt", "unindex", "confirm", "server"} /\ mishaps' \subseteq Session!Mishaps
  BY <1>0 DEF Session!TypeOK, Session!Mishaps
<1>5. ivf_index' \in {ivf_index, Session!NoIndex, rewrites}
  BY DEF Session!files
<1>6. ivf_index' \in {Session!NoIndex} \cup 0 .. rewrites'
  BY <1>0, <1>1, <1>5 DEF Session!TypeOK, SessionConstants
<1>7. Session!TypeOK'
  BY <1>0, <1>1, <1>2, <1>3, <1>4, <1>6 DEF Session!TypeOK
<1>8. SessionIndex'
  BY <1>0, <1>1 DEF SessionIndex, Session!files
<1> QED BY <1>7, <1>8 DEF Session!IndexOfThisFile, SessionIndex

\* The end of the process, at any point.
LEMMA SessionExits ==
    ASSUME SessionConstants, Session!IndexOfThisFile, Session!Exit
    PROVE  Session!IndexOfThisFile'
<1>0. Session!TypeOK /\ SessionIndex
  BY DEF Session!IndexOfThisFile, SessionIndex
<1>1. /\ rewrites' = rewrites /\ ivf_index' = ivf_index /\ pending' = pending
      /\ inserts' = inserts /\ open' = FALSE /\ fp' = FALSE /\ records' = <<>>
      /\ served' = 0 /\ pc' = "prompt" /\ pending_ids' = {}
      /\ mishaps' = IF pc = "unindex" THEN mishaps \cup {"cut"} ELSE mishaps
  BY DEF Session!Exit, Session!files
<1>2. records' \in Seq(Session!Record) /\ open' \in BOOLEAN /\ fp' \in BOOLEAN
  <2>1. open' \in BOOLEAN /\ fp' \in BOOLEAN
    BY <1>1, Zenon
  <2>2. records' \in Seq(Session!Record)
    BY <1>1
  <2> QED BY <2>1, <2>2
<1>3. inserts' \in 0 .. MaxInserts /\ served' \in 0 .. inserts'
  BY <1>0, <1>1 DEF Session!TypeOK, SessionConstants
<1>4. mishaps' \subseteq Session!Mishaps
  BY <1>0, <1>1 DEF Session!TypeOK, Session!Mishaps
<1>5. Session!TypeOK'
  BY <1>0, <1>1, <1>2, <1>3, <1>4 DEF Session!TypeOK
<1>6. SessionIndex'
  BY <1>0, <1>1 DEF SessionIndex
<1> QED BY <1>5, <1>6 DEF Session!IndexOfThisFile, SessionIndex

\* Whatever fails in a compaction and whenever a process ends, the index on the
\* disk is of the data.db that is there, except between a compaction and the
\* removal of the index and after one of the three mishaps; for any sets of ids
\* and queues and any numbers of inserts and compactions.
THEOREM IndexGoesWithItsFile ==
    ASSUME SessionConstants PROVE Session!Spec => []Session!IndexOfThisFile
<1>1. Session!Init => Session!IndexOfThisFile
  <2> SUFFICES ASSUME Session!Init PROVE Session!TypeOK /\ SessionIndex
    BY DEF Session!IndexOfThisFile, SessionIndex
  <2> USE DEF Session!Init
  <2>1. records \in Seq(Session!Record) /\ open \in BOOLEAN /\ fp \in BOOLEAN
    <3>1. open \in BOOLEAN /\ fp \in BOOLEAN
      BY Zenon
    <3>2. records \in Seq(Session!Record)
      OBVIOUS
    <3> QED BY <3>1, <3>2
  <2>2. rewrites \in 0 .. MaxRewrites /\ inserts \in 0 .. MaxInserts /\ served \in 0 .. inserts
    BY DEF SessionConstants
  <2>3. /\ pending \subseteq Ids /\ pending_ids \subseteq Ids /\ mishaps \subseteq Session!Mishaps
        /\ ivf_index = Session!NoIndex /\ pc = "prompt"
    BY DEF SessionConstants
  <2> QED BY <2>1, <2>2, <2>3 DEF Session!TypeOK, SessionIndex
<1>2. Session!IndexOfThisFile /\ [Session!Next]_(Session!vars) => Session!IndexOfThisFile'
  <2> SUFFICES ASSUME Session!IndexOfThisFile, [Session!Next]_(Session!vars)
               PROVE  Session!IndexOfThisFile'
    OBVIOUS
  <2>1. CASE UNCHANGED Session!vars
    BY <2>1 DEF Session!vars, Session!files, Session!master_db, Session!IndexOfThisFile,
                Session!TypeOK
  <2>2. CASE Session!Open
    BY <2>2, SessionWorks
  <2>3. ASSUME NEW id \in Ids, Session!Insert(id) \/ Session!DeleteUnpatched(id)
        PROVE  Session!IndexOfThisFile'
    BY <2>3, SessionWorks
  <2>4. ASSUME NEW id \in Ids, Session!Delete(id) PROVE Session!IndexOfThisFile'
    BY <2>4, SessionDeletes
  <2>5. CASE \/ Session!RemoveIndex \/ Session!ProcessDeletes \/ Session!Confirmed
             \/ Session!Aborted \/ Session!Server \/ Session!ServerInsert \/ Session!Train
    BY <2>5, SessionRests
  <2>6. CASE Session!Exit \/ \E id \in Ids : Session!DeleteFaults(id)
    <3>1. Session!Exit
      BY <2>6 DEF Session!DeleteFaults
    <3> QED BY <3>1, SessionExits
  <2> QED BY <2>1, <2>2, <2>3, <2>4, <2>5, <2>6 DEF Session!Next
<1> QED BY <1>1, <1>2, PTL DEF Session!Spec
===========================================================================
