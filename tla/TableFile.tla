---------------------------- MODULE TableFile ----------------------------
(* The table file origin_data/<table>/data.db as storage.c reads and writes *)
(* it: a sequence of padded records.  An image keeps, for every byte offset *)
(* at which a whole record starts, what that record holds, and the length   *)
(* of the file.  Vector and metadata contents are abstracted to a value     *)
(* that names the insert they came from and to the metadata length, which   *)
(* is what decides where the next record goes.                              *)
EXTENDS Integers, Sequences

CONSTANTS
    Ids,        \* record identifiers in use
    MetaLens,   \* metadata lengths in use, in bytes
    Dimension   \* floats per vector

ASSUME TableFileAssumption ==
    /\ Ids \subseteq Nat
    /\ MetaLens \subseteq Nat
    /\ Dimension \in Nat \ {0}

RECORD_HEADER_BYTES == 24
RECORD_ALIGN == 8

\* Header, vector and metadata, rounded up to the record alignment.
record_padded_size(len) ==
    LET n == RECORD_HEADER_BYTES + 4 * Dimension + len
    IN  RECORD_ALIGN * ((n + (RECORD_ALIGN - 1)) \div RECORD_ALIGN)

Cell == [id : Ids, val : Nat, len : MetaLens, is_deleted : BOOLEAN]

IsImage(img) ==
    /\ img = [cells |-> img.cells, eof |-> img.eof]
    /\ img.eof \in Nat
    /\ DOMAIN img.cells \subseteq Nat
    /\ img.cells \in [DOMAIN img.cells -> Cell]

EmptyImage == [cells |-> [o \in {} |-> {}], eof |-> 0]

CellEnd(img, o) == o + record_padded_size(img.cells[o].len)

\* Seeded faults: the metadata is left out of the size of the record, and the
\* seek to the end of the file is missing.
WriteSizeWithoutMeta(img, c) ==
    [cells |-> [o \in DOMAIN img.cells \cup {img.eof} |->
                    IF o = img.eof THEN c ELSE img.cells[o]],
     eof   |-> img.eof + record_padded_size(0)]
WriteAtStart(img, c) ==
    [cells |-> [o \in DOMAIN img.cells \cup {0} |->
                    IF o = 0 THEN c ELSE img.cells[o]],
     eof   |-> img.eof + record_padded_size(c.len)]

\* Append a whole record at the end of the file.
storage_write_record(img, c) ==
    [cells |-> [o \in DOMAIN img.cells \cup {img.eof} |->
                    IF o = img.eof THEN c ELSE img.cells[o]],
     eof   |-> img.eof + record_padded_size(c.len)]

\* The same call cut short: k bytes reached the file, no whole record did.
TornWrite(img, k) == [img EXCEPT !.eof = @ + k]

\* Set bit 0 of the flags word of the record at offset o.
storage_patch_flag(img, o) == [img EXCEPT !.cells[o].is_deleted = TRUE]

\* Where storage_init leaves the file position: it seeks to the end to learn
\* the size and does not seek back.
storage_init_position(img) == img.eof

\* The offsets db_init's loop visits: storage_load_record reads the record at
\* the current position and advances by its padded size, until the position
\* reaches the end of the file.  (Bytes left by a torn write are where the
\* walk would stop making sense; it ends there.)
storage_load_record(img, pos) ==
    LET walk[p \in 0 .. img.eof] ==
            IF p \in DOMAIN img.cells THEN <<p>> \o walk[CellEnd(img, p)]
            ELSE <<>>
    IN  IF pos >= img.eof THEN <<>> ELSE walk[pos]

LiveOnDisk(img, v) ==
    \E o \in DOMAIN img.cells :
        img.cells[o].val = v /\ ~img.cells[o].is_deleted

\* Whole records lie inside the file and no two of them share a byte.
CellsDisjoint(img) ==
    /\ \A o \in DOMAIN img.cells : CellEnd(img, o) <= img.eof
    /\ \A o, p \in DOMAIN img.cells : o < p => CellEnd(img, o) <= p
==========================================================================
