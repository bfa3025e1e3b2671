---------------------------- MODULE GatewayProofs ----------------------------
(* A key opens its own table; the key the owner was told is the file's; the    *)
(* server serves the folder that has the name.                                 *)
EXTENDS Gateway, SubsequencesProofs

Line == [table : Tables, key : Nat]
Slot == [table : Tables, creation : Nat]
File == [exists : BOOLEAN, lines : Seq(Line), cut : BOOLEAN]
Cached == [table : Seq(STRING), key : Nat]
Places == {"idle", "make", "meta", "key", "prune", "rename", "append", "open"}

\* The types that the proofs need, stronger than TypeOK.
GTypes ==
    /\ folder \in [Tables -> [state : {"none", "bare", "ready"}, creation : Nat]]
    /\ auth_keys \in File /\ auth_tmp \in File /\ auth_cache \in Seq(Cached)
    /\ session \in [Sessions -> [pc : Places, table : Tables \cup {NoTable}, key : Nat]]
    /\ inits \in Seq(Tables) /\ told \in [Tables -> Nat]
    /\ up \in BOOLEAN /\ jammed \in BOOLEAN
    /\ open_tables \in Seq(Slot)
    /\ mishaps \subseteq Mishaps

\* What memory holds is within its bounds, and gone when the server is.
BoundsInv ==
    /\ Len(auth_cache) <= MAX_AUTH_KEYS /\ Len(open_tables) <= MAX_OPEN_TABLES
    /\ ~up => open_tables = <<>> /\ auth_cache = <<>> /\ ~jammed
    /\ \A t \in Tables : told[t] \in 0 .. Len(inits)

\* The key was generated, and for that table, whose name is valid.
Generated(lines) == \A i \in 1 .. Len(lines) : lines[i].key \in 1 .. Len(inits)
Genuine(l) ==
    /\ l.key \in 1 .. Len(inits) /\ inits[l.key] = l.table
    /\ validate_db_name(l.table)
AllGenuine(lines) == \A i \in 1 .. Len(lines) : Genuine(lines[i])

\* Wherever a line is, in the files, in the cache or on its way there; unless two
\* copies were laid over each other or one ended inside a line.
LinesInv ==
    /\ Generated(auth_keys.lines) /\ Generated(auth_tmp.lines)
    /\ \A s \in Sessions : session[s].pc \in {"prune", "rename", "append"} => Genuine(session[s])
    /\ ~auth_keys.exists => auth_keys.lines = <<>>
    /\ "garbled" \notin mishaps =>
          /\ AllGenuine(auth_keys.lines) /\ AllGenuine(auth_tmp.lines) /\ AllGenuine(auth_cache)
          /\ ~auth_keys.cut /\ ~auth_tmp.cut

Naming(s) == session[s].pc \notin {"idle", "open"}
Busy(s) == session[s].pc \in {"meta", "key", "prune", "rename", "append"}
Writing(s) == session[s].pc \in {"rename", "append"}

\* A session that creates a table has a valid name for it, and a folder from when
\* it was made; until one table is created twice, each has its own, whose key
\* nobody has been told.
BusyInv ==
    /\ \A s \in Sessions : Naming(s) =>
          session[s].table \in Tables /\ validate_db_name(session[s].table)
    /\ \A s \in Sessions : Busy(s) => folder[session[s].table].state # "none"
    /\ KeyFileSound =>
          /\ \A s \in Sessions : Busy(s) => told[session[s].table] = 0
          /\ \A r, s \in Sessions :
                Busy(r) /\ Busy(s) /\ session[r].table = session[s].table => r = s

LEMMA BusyNames == \A s \in Sessions : Busy(s) => Naming(s)
  BY DEF Busy, Naming

\* One line has the table's name, and it has that key.
Unique(lines, t, k) ==
    \E i \in 1 .. Len(lines) :
        /\ lines[i].table = t /\ lines[i].key = k
        /\ \A j \in 1 .. Len(lines) : lines[j].table = t => j = i
Absent(lines, t) == \A i \in 1 .. Len(lines) : lines[i].table # t
Complete(lines) == \A t \in Tables : told[t] # 0 => Unique(lines, t, told[t])

\* The key file, and the copy that is to replace it.
FileInv ==
    KeyFileSound =>
        /\ Complete(auth_keys.lines)
        /\ \A r, s \in Sessions : Writing(r) /\ Writing(s) => r = s
        /\ \A s \in Sessions : session[s].pc = "rename" =>
              /\ auth_tmp.exists /\ Complete(auth_tmp.lines)
              /\ Absent(auth_tmp.lines, session[s].table)
        /\ \A s \in Sessions : session[s].pc = "append" =>
              Absent(auth_keys.lines, session[s].table)

\* A slot is of the folder that has the name.
SlotInv ==
    "removed" \notin mishaps =>
        \A i \in 1 .. Len(open_tables) :
            /\ folder[open_tables[i].table].state = "ready"
            /\ folder[open_tables[i].table].creation = open_tables[i].creation

ReplyInv ==
    reply.status = 200 =>
        /\ inits[reply.key] = reply.table \/ "garbled" \in mishaps
        /\ reply.current \/ "removed" \in mishaps

GInv ==
    /\ GTypes /\ BoundsInv /\ LinesInv /\ BusyInv /\ FileInv /\ SlotInv /\ ReplyInv

LEMMA GatewayInit == Init => GInv
<1> SUFFICES ASSUME Init PROVE GInv
  OBVIOUS
<1> USE DEF Init
<1>1. GTypes
  <2>1. NoFile \in File
    <3>1. <<>> \in Seq(Line)
      OBVIOUS
    <3> QED BY <3>1 DEF NoFile, File
  <2>2. Idle \in [pc : Places, table : Tables \cup {NoTable}, key : Nat]
    BY DEF Idle, Places
  <2>3. auth_keys \in File /\ auth_tmp \in File /\ auth_cache \in Seq(Cached)
    BY <2>1
  <2>4. session \in [Sessions -> [pc : Places, table : Tables \cup {NoTable}, key : Nat]]
    BY <2>2
  <2>5. inits \in Seq(Tables) /\ open_tables \in Seq(Slot)
    OBVIOUS
  <2>6. folder \in [Tables -> [state : {"none", "bare", "ready"}, creation : Nat]]
    OBVIOUS
  <2> QED BY <2>3, <2>4, <2>5, <2>6 DEF GTypes
<1>2. /\ auth_keys.lines = <<>> /\ auth_tmp.lines = <<>> /\ auth_cache = <<>> /\ open_tables = <<>>
      /\ inits = <<>> /\ \A t \in Tables : told[t] = 0
      /\ \A s \in Sessions : session[s].pc = "idle"
      /\ reply.status # 200 /\ ~auth_keys.cut /\ ~auth_tmp.cut
  BY DEF NoFile, Idle, NoReply
<1>3. BoundsInv
  BY <1>2, GatewayAssumption DEF BoundsInv
<1>4. LinesInv
  BY <1>2 DEF LinesInv, AllGenuine, Generated
<1>5. BusyInv
  BY <1>2 DEF BusyInv, Busy, Naming
<1>6. FileInv /\ SlotInv /\ ReplyInv
  BY <1>2 DEF FileInv, SlotInv, ReplyInv, Complete, Writing
<1> QED BY <1>1, <1>3, <1>4, <1>5, <1>6 DEF GInv

\* A session goes to another place and keeps its table and its key.
LEMMA GotoKeeps ==
    ASSUME GTypes, NEW s \in Sessions, NEW where \in Places, Goto(s, where)
    PROVE  /\ session' \in [Sessions -> [pc : Places, table : Tables \cup {NoTable}, key : Nat]]
           /\ session'[s].pc = where
           /\ \A r \in Sessions : /\ session'[r].table = session[r].table
                                  /\ session'[r].key = session[r].key
                                  /\ r # s => session'[r].pc = session[r].pc
  BY DEF GTypes, Goto

\* A table's folder gets another state and keeps its creation.
LEMMA StateKeeps ==
    ASSUME GTypes, NEW t \in Tables, NEW x \in {"none", "bare", "ready"},
           folder' = [folder EXCEPT ![t].state = x]
    PROVE  /\ folder' \in [Tables -> [state : {"none", "bare", "ready"}, creation : Nat]]
           /\ folder'[t].state = x
           /\ \A u \in Tables : /\ folder'[u].creation = folder[u].creation
                                /\ u # t => folder'[u].state = folder[u].state
  BY DEF GTypes

\* Nothing is answered in the step.
LEMMA Unanswered == NoAnswer => ReplyInv'
  BY DEF NoAnswer, NoReply, ReplyInv

\* What has happened is not undone, and ends what is promised of the key file.
LEMMA Happened ==
    /\ mishaps \subseteq mishaps' => (KeyFileSound' => KeyFileSound)
    /\ \A m \in {"lost", "garbled"} : m \in mishaps' => ~KeyFileSound'
  BY DEF KeyFileSound

\* A set of numbers that is not empty has a minimum.
LEMMA MinOf ==
    ASSUME NEW S \in SUBSET Nat, S # {}
    PROVE  Min(S) \in S /\ \A x \in S : Min(S) <= x
<1>1. \E m \in S : \A x \in S : m <= x
  BY LeastNatural
<1> QED BY <1>1 DEF Min

\* A valid name is read as it was written.
LEMMA NameRead ==
    ASSUME NEW n \in Seq(STRING)
    PROVE  /\ CutName(n) \in Seq(STRING)
           /\ validate_db_name(n) => CutName(n) = n
<1> DEFINE S == {NameMax, Len(n)} \cup {i - 1 : i \in Colons(n)}
<1>1. Len(n) \in Nat /\ NameMax \in Nat
  BY GatewayAssumption
<1>2. S \in SUBSET Nat /\ S # {} /\ Len(n) \in S
  BY <1>1 DEF Colons
<1>3. CutName(n) = SubSeq(n, 1, Min(S))
  BY DEF CutName
<1>4. ASSUME validate_db_name(n) PROVE \A x \in S : Len(n) <= x
  BY <1>1, <1>4 DEF validate_db_name
<1> HIDE DEF S
<1>5. Min(S) \in Nat /\ Min(S) <= Len(n) /\ Min(S) \in S
  BY <1>2, MinOf
<1>6. CutName(n) \in Seq(STRING)
  BY <1>1, <1>3, <1>5
<1>7. ASSUME validate_db_name(n) PROVE CutName(n) = n
  <2>1. Min(S) = Len(n)
    BY <1>1, <1>4, <1>5, <1>7
  <2> QED BY <2>1, <1>3
<1> QED BY <1>6, <1>7

\* A valid name begins with no other name and a colon.
LEMMA NameMatched ==
    ASSUME NEW n \in Seq(STRING), NEW t \in Seq(STRING)
    PROVE  /\ Matches(t, t)
           /\ validate_db_name(n) /\ n # t => ~Matches(n, t)
<1>1. Len(n) \in Nat /\ Len(t) \in Nat
  OBVIOUS
<1> QED BY <1>1 DEF Matches, validate_db_name, Colons

\* Removing a table's lines removes its lines, and no others of valid names.
LEMMA PrunedLines ==
    ASSUME NEW lines \in Seq(Line), NEW t \in Tables
    PROVE  /\ Pruned(lines, t) \in Seq(Line)
           /\ Absent(Pruned(lines, t), t)
           /\ \A i \in 1 .. Len(Pruned(lines, t)) :
                 \E j \in 1 .. Len(lines) : Pruned(lines, t)[i] = lines[j]
           /\ (\A i \in 1 .. Len(lines) : validate_db_name(lines[i].table)) =>
                 \A u, k : u # t /\ Unique(lines, u, k) => Unique(Pruned(lines, t), u, k)
<1> DEFINE S == {i \in 1 .. Len(lines) : ~Matches(lines[i].table, t)}
           p == Pruned(lines, t)
           AllValid == \A i \in 1 .. Len(lines) : validate_db_name(lines[i].table)
<1>0. t \in Seq(STRING) /\ \A i \in 1 .. Len(lines) : lines[i].table \in Seq(STRING)
  <2>1. \A i \in 1 .. Len(lines) : lines[i] \in Line
    OBVIOUS
  <2>2. \A u \in Tables : u \in Seq(STRING)
    BY GatewayAssumption
  <2> QED BY <2>1, <2>2 DEF Line
<1>1. S \in SUBSET (1 .. Len(lines)) /\ p = Picked(lines, S)
  BY DEF Pruned
<1>2. /\ p \in Seq(Line) /\ Len(p) \in Nat
      /\ \A n \in 1 .. Len(p) : Nth(S, n) \in S /\ p[n] = lines[Nth(S, n)]
      /\ \A j \in S : \E n \in 1 .. Len(p) : Nth(S, n) = j
      /\ \A m, n \in 1 .. Len(p) : m < n => Nth(S, m) < Nth(S, n)
  <2> HIDE DEF S, p
  <2>1. LET q == Picked(lines, S) IN
        /\ q \in Seq(Line) /\ Len(q) \in Nat
        /\ \A n \in 1 .. Len(q) : Nth(S, n) \in S /\ q[n] = lines[Nth(S, n)]
        /\ \A j \in S : \E n \in 1 .. Len(q) : Nth(S, n) = j
        /\ \A m, n \in 1 .. Len(q) : m < n => Nth(S, m) < Nth(S, n)
    BY <1>1, PickedElements
  <2> QED BY <2>1, <1>1
<1>3. \A j \in S : j \in 1 .. Len(lines) /\ lines[j].table # t
  BY <1>0, NameMatched
<1>4. AllValid => \A j \in 1 .. Len(lines) : lines[j].table # t => j \in S
  BY <1>0, NameMatched
<1> HIDE DEF S, p
<1>5. Absent(p, t) /\ \A i \in 1 .. Len(p) : \E j \in 1 .. Len(lines) : p[i] = lines[j]
  BY <1>2, <1>3 DEF Absent
<1>6. ASSUME AllValid, NEW u, NEW k, u # t, Unique(lines, u, k)
      PROVE  Unique(p, u, k)
  <2>1. PICK i \in 1 .. Len(lines) :
           /\ lines[i].table = u /\ lines[i].key = k
           /\ \A j \in 1 .. Len(lines) : lines[j].table = u => j = i
    BY <1>6 DEF Unique
  <2>2. PICK n \in 1 .. Len(p) : Nth(S, n) = i
    BY <2>1, <1>2, <1>4, <1>6
  <2>3. p[n].table = u /\ p[n].key = k
    BY <2>1, <2>2, <1>2
  <2>4. ASSUME NEW m \in 1 .. Len(p), p[m].table = u
        PROVE  m = n
    <3>0. Nth(S, m) \in S /\ p[m] = lines[Nth(S, m)]
      BY <1>2
    <3>1. Nth(S, m) = i
      BY <3>0, <2>1, <2>4, <1>3
    <3>2. m \in Nat /\ n \in Nat /\ Nth(S, n) \in Nat
      BY <1>2, <1>3
    <3>3. ~(m < n) /\ ~(n < m)
      BY <3>1, <3>2, <2>2, <1>2
    <3> QED BY <3>2, <3>3
  <2> QED BY <2>3, <2>4 DEF Unique
<1>7. AllValid => \A u, k : u # t /\ Unique(lines, u, k) => Unique(p, u, k)
  BY <1>6
<1>8. p \in Seq(Line)
  BY <1>2
<1> QED BY <1>5, <1>7, <1>8, Zenon DEF p, AllValid

\* The one line of a name, as LinesOf gives it.
LEMMA UniqueLine ==
    ASSUME NEW lines \in Seq(Line), NEW t, NEW k, Unique(lines, t, k)
    PROVE  LinesOf(lines, t) = <<[table |-> t, key |-> k]>>
<1> DEFINE S == {i \in 1 .. Len(lines) : lines[i].table = t}
           p == LinesOf(lines, t)
<1>1. PICK i \in 1 .. Len(lines) :
         /\ lines[i].table = t /\ lines[i].key = k
         /\ \A j \in 1 .. Len(lines) : lines[j].table = t => j = i
  BY DEF Unique
<1>2. S = {i}
  BY <1>1
<1>3. S \in SUBSET (1 .. Len(lines)) /\ p = Picked(lines, S)
  BY DEF LinesOf
<1> HIDE DEF S, p
<1>4. Cardinality(S) = 1
  BY <1>2, FS_Singleton
<1>5. /\ p \in Seq(Line) /\ Len(p) = Cardinality(S)
      /\ \A n \in 1 .. Len(p) : Nth(S, n) \in S /\ p[n] = lines[Nth(S, n)]
  BY <1>3, PickedElements
<1>6. p[1] = lines[i] /\ Len(p) = 1
  BY <1>2, <1>4, <1>5
<1>7. lines[i] = [table |-> t, key |-> k]
  <2>1. lines[i] \in Line
    BY <1>1
  <2> QED BY <2>1, <1>1 DEF Line
<1>8. p = <<p[1]>>
  BY <1>5, <1>6
<1> QED BY <1>6, <1>7, <1>8 DEF p

\* A slot's table is a table.
LEMMA SlotTables ==
    ASSUME GTypes
    PROVE  \A i \in 1 .. Len(open_tables) : open_tables[i].table \in Tables
<1>1. open_tables \in Seq(Slot)
  BY DEF GTypes
<1>2. \A i \in 1 .. Len(open_tables) : open_tables[i] \in Slot
  BY <1>1
<1> QED BY <1>2 DEF Slot

\* Only the session's place changes, and it does not come to write the key file.
LEMMA FileKept ==
    ASSUME FileInv, UNCHANGED <<auth_keys, auth_tmp, mishaps>>,
           \A t \in Tables : told'[t] = told[t] \/ told'[t] = 0,
           \A r \in Sessions : \/ session'[r].pc = session[r].pc /\ session'[r].table = session[r].table
                              \/ session'[r].pc \notin {"rename", "append"}
    PROVE  FileInv'
<1> SUFFICES ASSUME KeyFileSound'
    PROVE  /\ Complete(auth_keys.lines)'
           /\ \A r, s \in Sessions : Writing(r)' /\ Writing(s)' => r = s
           /\ \A s \in Sessions : session'[s].pc = "rename" =>
                 /\ auth_tmp'.exists /\ Complete(auth_tmp.lines)'
                 /\ Absent(auth_tmp'.lines, session'[s].table)
           /\ \A s \in Sessions : session'[s].pc = "append" =>
                 Absent(auth_keys'.lines, session'[s].table)
  BY DEF FileInv
<1>1. KeyFileSound
  BY DEF KeyFileSound
<1>2. Complete(auth_keys.lines)'
  BY <1>1 DEF FileInv, Complete
<1>3. \A r, s \in Sessions : Writing(r)' /\ Writing(s)' => r = s
  BY <1>1 DEF FileInv, Writing
<1>4. ASSUME NEW s \in Sessions, session'[s].pc = "rename"
      PROVE  /\ auth_tmp'.exists /\ Complete(auth_tmp.lines)'
             /\ Absent(auth_tmp'.lines, session'[s].table)
  <2>1. session[s].pc = "rename" /\ session'[s].table = session[s].table
    BY <1>4
  <2>2. auth_tmp.exists /\ Complete(auth_tmp.lines) /\ Absent(auth_tmp.lines, session[s].table)
    BY <2>1, <1>1 DEF FileInv
  <2> QED BY <2>1, <2>2 DEF Complete
<1>5. ASSUME NEW s \in Sessions, session'[s].pc = "append"
      PROVE  Absent(auth_keys'.lines, session'[s].table)
  BY <1>1, <1>5 DEF FileInv
<1> QED BY <1>2, <1>3, <1>4, <1>5

LEMMA InitCheckKeeps ==
    ASSUME GInv, NEW s \in Sessions, NEW t \in Tables, InitCheck(s, t)
    PROVE  GInv'
<1>0. GTypes /\ BoundsInv /\ LinesInv /\ BusyInv /\ FileInv /\ SlotInv
  BY DEF GInv
<1>1. /\ session[s].pc = "idle" /\ validate_db_name(t)
      /\ UNCHANGED <<folder, auth_keys, auth_tmp, told, inits, up, jammed, auth_cache,
                     open_tables, mishaps>>
  BY DEF InitCheck, At, server, disk
<1>2. /\ session' \in [Sessions -> [pc : Places, table : Tables \cup {NoTable}, key : Nat]]
      /\ session'[s].pc = "make" /\ session'[s].table = t
      /\ \A r \in Sessions : r # s => session'[r] = session[r]
  <2> DEFINE new == [Idle EXCEPT !.pc = "make", !.table = t]
  <2>1. new.pc = "make" /\ new.table = t /\ new \in [pc : Places, table : Tables \cup {NoTable}, key : Nat]
    BY DEF Idle, Places
  <2>2. session' = [session EXCEPT ![s] = new]
    BY DEF InitCheck
  <2> HIDE DEF new
  <2> QED BY <2>1, <2>2, <1>0 DEF GTypes
<1>3. GTypes'
  BY <1>0, <1>1, <1>2 DEF GTypes
<1>4. BoundsInv' /\ SlotInv'
  BY <1>0, <1>1 DEF BoundsInv, SlotInv
<1>5. LinesInv'
  BY <1>0, <1>1, <1>2 DEF LinesInv, AllGenuine, Genuine, Generated
<1>6. BusyInv'
  <2>1. \A r \in Sessions : Busy(r)' => Busy(r) /\ session'[r] = session[r]
    BY <1>2 DEF Busy
  <2>2. \A r \in Sessions : Naming(r)' =>
           session'[r].table \in Tables /\ validate_db_name(session'[r].table)
    BY <1>0, <1>1, <1>2 DEF BusyInv, Naming
  <2>3. KeyFileSound' = KeyFileSound /\ folder' = folder /\ told' = told
    BY <1>1 DEF KeyFileSound
  <2> QED BY <2>1, <2>2, <2>3, <1>0 DEF BusyInv
<1>7. FileInv'
  BY <1>0, <1>1, <1>2, FileKept
<1>8. ReplyInv'
  BY Unanswered DEF InitCheck
<1> QED BY <1>3, <1>4, <1>5, <1>6, <1>7, <1>8 DEF GInv

LEMMA MakeFolderKeeps ==
    ASSUME GInv, NEW s \in Sessions, MakeFolder(s)
    PROVE  GInv'
<1> DEFINE t == session[s].table
<1>0. GTypes /\ BoundsInv /\ LinesInv /\ BusyInv /\ FileInv /\ SlotInv
  BY DEF GInv
<1>1. /\ session[s].pc = "make" /\ Goto(s, "meta")
      /\ UNCHANGED <<auth_keys, auth_tmp, inits, up, jammed, auth_cache, open_tables>>
  BY DEF MakeFolder, At, server
<1>2. /\ session' \in [Sessions -> [pc : Places, table : Tables \cup {NoTable}, key : Nat]]
      /\ session'[s].pc = "meta"
      /\ \A r \in Sessions : /\ session'[r].table = session[r].table
                             /\ session'[r].key = session[r].key
                             /\ r # s => session'[r].pc = session[r].pc
  BY <1>0, <1>1, GotoKeeps DEF Places
<1>3. t \in Tables /\ validate_db_name(t)
  BY <1>0, <1>1 DEF BusyInv, Naming
<1> HIDE DEF t
<1>4. \/ /\ folder[t].state = "none" /\ mishaps' = mishaps
         /\ folder' = [folder EXCEPT ![t] = [state |-> "bare", creation |-> @.creation + 1]]
         /\ told' = [told EXCEPT ![t] = 0]
      \/ /\ folder[t].state # "none" /\ folder' = folder /\ told' = told
         /\ mishaps' = mishaps \cup {"lost"}
  BY DEF MakeFolder, Note, t
<1>5. /\ folder' \in [Tables -> [state : {"none", "bare", "ready"}, creation : Nat]]
      /\ folder'[t].state # "none" /\ \A u \in Tables : u # t => folder'[u] = folder[u]
      /\ folder[t].state # "none" => folder' = folder
  <2>1. folder \in [Tables -> [state : {"none", "bare", "ready"}, creation : Nat]]
    BY <1>0 DEF GTypes
  <2>2. CASE folder[t].state = "none"
    <3> DEFINE new == [state |-> "bare", creation |-> folder[t].creation + 1]
    <3>1. folder' = [folder EXCEPT ![t] = new]
      BY <2>1, <2>2, <1>3, <1>4
    <3>2. new \in [state : {"none", "bare", "ready"}, creation : Nat] /\ new.state = "bare"
      BY <2>1, <1>3
    <3> HIDE DEF new
    <3> QED BY <3>1, <3>2, <2>1, <2>2, <1>3
  <2>3. CASE folder[t].state # "none"
    BY <2>1, <2>3, <1>4
  <2> QED BY <2>2, <2>3
<1>6. /\ told' \in [Tables -> Nat] /\ \A u \in Tables : told'[u] = told[u] \/ told'[u] = 0
      /\ \A u \in Tables : u # t => told'[u] = told[u]
      /\ folder[t].state = "none" => told'[t] = 0
  <2>1. told \in [Tables -> Nat]
    BY <1>0 DEF GTypes
  <2>2. CASE told' = [told EXCEPT ![t] = 0]
    BY <2>1, <2>2, <1>3
  <2>3. CASE told' = told /\ folder[t].state # "none"
    BY <2>1, <2>3
  <2> QED BY <2>2, <2>3, <1>4
<1>7. /\ mishaps \subseteq mishaps' /\ mishaps' \subseteq Mishaps
      /\ KeyFileSound' => KeyFileSound /\ folder[t].state = "none" /\ UNCHANGED mishaps
      /\ ("removed" \in mishaps' <=> "removed" \in mishaps)
      /\ ("garbled" \in mishaps' <=> "garbled" \in mishaps)
  BY <1>0, <1>4 DEF GTypes, Mishaps, KeyFileSound
<1>8. GTypes'
  BY <1>0, <1>1, <1>2, <1>5, <1>6, <1>7 DEF GTypes
<1>9. BoundsInv'
  <2>1. Len(inits) \in Nat
    BY <1>0 DEF GTypes
  <2>2. \A u \in Tables : told'[u] \in 0 .. Len(inits)
    BY <2>1, <1>0, <1>6 DEF BoundsInv
  <2> QED BY <2>2, <1>0, <1>1 DEF BoundsInv
<1>10. LinesInv'
  BY <1>0, <1>1, <1>2, <1>7 DEF LinesInv, AllGenuine, Genuine, Generated
<1>11. BusyInv'
  <2>1. \A r \in Sessions : r # s => (Busy(r)' <=> Busy(r)) /\ (Naming(r)' <=> Naming(r))
    BY <1>2 DEF Busy, Naming
  <2>2. \A r \in Sessions : Naming(r)' =>
           session'[r].table \in Tables /\ validate_db_name(session'[r].table)
    BY <2>1, <1>0, <1>2, <1>3 DEF BusyInv, t
  <2>3. \A r \in Sessions : Busy(r)' => folder'[session'[r].table].state # "none"
    <3> SUFFICES ASSUME NEW r \in Sessions, Busy(r)'
        PROVE  folder'[session'[r].table].state # "none"
      OBVIOUS
    <3>1. CASE session[r].table = t
      BY <3>1, <1>2, <1>5
    <3>2. CASE session[r].table # t
      <4>1. r # s
        BY <3>2 DEF t
      <4>2. Busy(r) /\ Naming(r)
        BY <4>1, <2>1, BusyNames
      <4>3. session[r].table \in Tables /\ folder[session[r].table].state # "none"
        BY <4>2, <1>0 DEF BusyInv
      <4> QED BY <4>3, <3>2, <1>2, <1>5
    <3> QED BY <3>1, <3>2
  <2>4. ASSUME KeyFileSound'
        PROVE  \A r \in Sessions : r # s /\ Busy(r)' =>
                  /\ Busy(r) /\ session[r].table \in Tables /\ session[r].table # t
    BY <2>1, <2>4, <1>0, <1>7, BusyNames DEF BusyInv
  <2>5. ASSUME KeyFileSound'
        PROVE  /\ \A r \in Sessions : Busy(r)' => told'[session'[r].table] = 0
               /\ \A q, r \in Sessions :
                     Busy(q)' /\ Busy(r)' /\ session'[q].table = session'[r].table => q = r
    <3>1. KeyFileSound /\ told'[t] = 0 /\ session[s].table = t
      BY <2>5, <1>6, <1>7 DEF t
    <3>2. ASSUME NEW r \in Sessions, Busy(r)' PROVE told'[session'[r].table] = 0
      BY <3>1, <3>2, <2>4, <2>5, <1>0, <1>2, <1>6 DEF BusyInv
    <3>3. ASSUME NEW q \in Sessions, NEW r \in Sessions, Busy(q)', Busy(r)',
                 session'[q].table = session'[r].table
          PROVE  q = r
      <4>1. CASE q = s \/ r = s
        BY <4>1, <3>1, <3>3, <2>4, <2>5, <1>2
      <4>2. CASE q # s /\ r # s
        BY <4>2, <3>1, <3>3, <2>4, <2>5, <1>0, <1>2 DEF BusyInv
      <4> QED BY <4>1, <4>2
    <3> QED BY <3>2, <3>3
  <2> QED BY <2>2, <2>3, <2>5 DEF BusyInv
<1>12. FileInv'
  <2> SUFFICES ASSUME KeyFileSound' PROVE FileInv'
    BY DEF FileInv
  <2> QED BY <1>0, <1>1, <1>2, <1>6, <1>7, FileKept
<1>13. SlotInv'
  <2>1. \A i \in 1 .. Len(open_tables) : open_tables[i].table \in Tables
    BY <1>0, SlotTables
  <2> QED BY <2>1, <1>0, <1>1, <1>5, <1>7 DEF SlotInv
<1>14. ReplyInv'
  BY Unanswered DEF MakeFolder
<1> QED BY <1>8, <1>9, <1>10, <1>11, <1>12, <1>13, <1>14 DEF GInv

LEMMA InitMetaKeeps ==
    ASSUME GInv, NEW s \in Sessions, InitMeta(s)
    PROVE  GInv'
<1>0. GTypes /\ BoundsInv /\ LinesInv /\ BusyInv /\ FileInv /\ SlotInv
  BY DEF GInv
<1>1. /\ session[s].pc = "meta" /\ Goto(s, "key")
      /\ UNCHANGED <<auth_keys, auth_tmp, told, inits, up, jammed, auth_cache, open_tables, mishaps>>
  BY DEF InitMeta, At, server
<1>2. /\ session' \in [Sessions -> [pc : Places, table : Tables \cup {NoTable}, key : Nat]]
      /\ session'[s].pc = "key"
      /\ \A r \in Sessions : /\ session'[r].table = session[r].table
                             /\ session'[r].key = session[r].key
                             /\ r # s => session'[r].pc = session[r].pc
  BY <1>0, <1>1, GotoKeeps DEF Places
<1>3. session[s].table \in Tables /\ folder[session[s].table].state # "none"
  BY <1>0, <1>1 DEF BusyInv, Busy, Naming
<1>4. /\ folder' \in [Tables -> [state : {"none", "bare", "ready"}, creation : Nat]]
      /\ \A u \in Tables : /\ folder'[u].creation = folder[u].creation
                           /\ folder'[u].state = folder[u].state \/ folder'[u].state = "ready"
  <2>1. CASE folder' = [folder EXCEPT ![session[s].table].state = "ready"]
    BY <2>1, <1>0, <1>3, StateKeeps
  <2>2. CASE UNCHANGED folder
    BY <2>2, <1>0 DEF GTypes
  <2> QED BY <2>1, <2>2 DEF InitMeta
<1>5. GTypes'
  BY <1>0, <1>1, <1>2, <1>4 DEF GTypes, Line, File
<1>6. BoundsInv'
  BY <1>0, <1>1 DEF BoundsInv
<1>7. LinesInv'
  BY <1>0, <1>1, <1>2 DEF LinesInv, AllGenuine, Genuine, Generated
<1>8. BusyInv'
  <2>1. \A r \in Sessions : (Busy(r)' => Busy(r)) /\ (Naming(r)' => Naming(r))
    BY <1>1, <1>2 DEF Busy, Naming
  <2>2. \A r \in Sessions : session'[r].table = session[r].table
    BY <1>2
  <2>3. \A u \in Tables : /\ folder[u].state # "none" => folder'[u].state # "none"
                          /\ told'[u] = told[u]
    BY <1>1, <1>4
  <2>4. KeyFileSound' = KeyFileSound
    BY <1>1 DEF KeyFileSound
  <2> QED BY <2>1, <2>2, <2>3, <2>4, <1>0, BusyNames DEF BusyInv
<1>9. FileInv'
  BY <1>0, <1>1, <1>2, FileKept
<1>10. SlotInv'
  <2>1. \A i \in 1 .. Len(open_tables) : open_tables[i].table \in Tables
    BY <1>0, SlotTables
  <2> QED BY <2>1, <1>0, <1>1, <1>4 DEF SlotInv
<1>11. ReplyInv'
  BY Unanswered DEF InitMeta
<1> QED BY <1>5, <1>6, <1>7, <1>8, <1>9, <1>10, <1>11 DEF GInv

LEMMA GenerateKeeps ==
    ASSUME GInv, NEW s \in Sessions, generate_api_key(s)
    PROVE  GInv'
<1>0. GTypes /\ BoundsInv /\ LinesInv /\ BusyInv /\ FileInv /\ SlotInv
  BY DEF GInv
<1>1. /\ session[s].pc = "key" /\ inits' = Append(inits, session[s].table)
      /\ UNCHANGED <<folder, auth_keys, auth_tmp, told, up, jammed, auth_cache, open_tables, mishaps>>
  BY DEF generate_api_key, At, server, disk
<1>2. session[s].table \in Tables /\ validate_db_name(session[s].table)
  BY <1>0, <1>1 DEF BusyInv, Naming
<1>3. /\ \A k \in 1 .. Len(inits) : k \in 1 .. Len(inits') /\ inits'[k] = inits[k]
      /\ inits' \in Seq(Tables) /\ Len(inits) <= Len(inits')
      /\ Len(inits') \in 1 .. Len(inits') /\ inits'[Len(inits')] = session[s].table
      /\ Len(inits) \in Nat /\ Len(inits') \in Nat
  BY <1>0, <1>1, <1>2 DEF GTypes
<1>4. /\ session' \in [Sessions -> [pc : Places, table : Tables \cup {NoTable}, key : Nat]]
      /\ session'[s].pc = "prune" /\ session'[s].key = Len(inits')
      /\ \A r \in Sessions : /\ session'[r].table = session[r].table
                             /\ r # s => session'[r].pc = session[r].pc /\ session'[r].key = session[r].key
  <2>1. session' = [session EXCEPT ![s].pc = "prune", ![s].key = Len(inits')]
    BY DEF generate_api_key
  <2>2. session \in [Sessions -> [pc : Places, table : Tables \cup {NoTable}, key : Nat]]
        /\ "prune" \in Places
    BY <1>0 DEF GTypes, Places
  <2> QED BY <2>1, <2>2, <1>3
<1>5. GTypes'
  BY <1>0, <1>1, <1>3, <1>4 DEF GTypes, Line, File
<1>6. BoundsInv'
  BY <1>0, <1>1, <1>3 DEF BoundsInv, GTypes
<1>7. LinesInv'
  <2>1. \A r \in Sessions : session'[r].pc \in {"prune", "rename", "append"} => Genuine(session[r])'
    BY <1>0, <1>2, <1>3, <1>4 DEF LinesInv, Genuine
  <2> QED BY <2>1, <1>0, <1>1, <1>3 DEF LinesInv, AllGenuine, Genuine, Generated
<1>8. BusyInv'
  <2>1. \A r \in Sessions : (Busy(r)' => Busy(r)) /\ (Naming(r)' => Naming(r))
    BY <1>1, <1>4 DEF Busy, Naming
  <2>2. \A r \in Sessions : session'[r].table = session[r].table
    BY <1>4
  <2>3. folder' = folder /\ told' = told /\ KeyFileSound' = KeyFileSound
    BY <1>1 DEF KeyFileSound
  <2> QED BY <2>1, <2>2, <2>3, <1>0 DEF BusyInv
<1>9. FileInv'
  BY <1>0, <1>1, <1>4, FileKept
<1>10. SlotInv'
  BY <1>0, <1>1 DEF SlotInv
<1>11. ReplyInv'
  BY Unanswered DEF generate_api_key
<1> QED BY <1>5, <1>6, <1>7, <1>8, <1>9, <1>10, <1>11 DEF GInv

LEMMA PruneCopyKeeps ==
    ASSUME GInv, NEW s \in Sessions, PruneCopy(s)
    PROVE  GInv'
<1> DEFINE t == session[s].table
           kept == Pruned(auth_keys.lines, t)
<1>0. GTypes /\ BoundsInv /\ LinesInv /\ BusyInv /\ FileInv /\ SlotInv
  BY DEF GInv
<1>1. /\ session[s].pc = "prune"
      /\ UNCHANGED <<folder, auth_keys, told, inits, up, jammed, auth_cache, open_tables>>
  BY DEF PruneCopy, At, server
<1>2. /\ auth_keys.lines \in Seq(Line) /\ auth_keys.exists \in BOOLEAN /\ auth_tmp \in File
  BY <1>0 DEF GTypes, File
<1>3. /\ kept \in Seq(Line) /\ Absent(kept, t)
      /\ \A i \in 1 .. Len(kept) : \E j \in 1 .. Len(auth_keys.lines) : kept[i] = auth_keys.lines[j]
      /\ (\A i \in 1 .. Len(auth_keys.lines) : validate_db_name(auth_keys.lines[i].table)) =>
            \A u, k : u # t /\ Unique(auth_keys.lines, u, k) => Unique(kept, u, k)
  <2>1. t \in Tables
    BY <1>0, <1>1 DEF BusyInv, Naming
  <2> HIDE DEF t
  <2> QED BY <2>1, <1>2, PrunedLines
<1>4. /\ Generated(kept)
      /\ "garbled" \notin mishaps => AllGenuine(kept)
  BY <1>0, <1>3 DEF LinesInv, AllGenuine, Generated
<1>5. PICK where \in {"rename", "append"} : Goto(s, where)
  BY DEF PruneCopy
<1>6. /\ session' \in [Sessions -> [pc : Places, table : Tables \cup {NoTable}, key : Nat]]
      /\ session'[s].pc = where
      /\ \A r \in Sessions : /\ session'[r].table = session[r].table
                             /\ session'[r].key = session[r].key
                             /\ r # s => session'[r].pc = session[r].pc
  BY <1>0, <1>5, GotoKeeps DEF Places
<1>7. /\ mishaps \subseteq mishaps' /\ mishaps' \subseteq Mishaps
      /\ ("removed" \in mishaps' <=> "removed" \in mishaps)
  BY <1>0 DEF PruneCopy, Note, GTypes, Mishaps
<1>8. /\ auth_tmp' \in File /\ Generated(auth_tmp'.lines)
      /\ "garbled" \notin mishaps' => AllGenuine(auth_tmp'.lines) /\ ~auth_tmp'.cut
  <2>1. CASE auth_tmp' = FileOf(kept, auth_keys.cut)
    <3>1. auth_keys.cut \in BOOLEAN /\ ("garbled" \notin mishaps => ~auth_keys.cut)
      BY <1>0 DEF GTypes, File, LinesInv
    <3> HIDE DEF kept
    <3> QED BY <3>1, <2>1, <1>3, <1>4, <1>7 DEF FileOf, File
  <2>2. ASSUME NEW n \in 0 .. Len(kept) - 1, auth_tmp' = FileOf(SubSeq(kept, 1, n), TRUE),
               "garbled" \in mishaps'
        PROVE  auth_tmp' \in File /\ Generated(auth_tmp'.lines)
    <3> DEFINE part == SubSeq(kept, 1, n)
    <3> HIDE DEF kept
    <3>1. part \in Seq(Line) /\ Len(part) = n /\ \A i \in 1 .. n : part[i] = kept[i] /\ i \in 1 .. Len(kept)
      BY <1>3
    <3>2. Generated(part)
      BY <3>1, <1>4 DEF Generated
    <3>3. auth_tmp' = FileOf(part, TRUE)
      BY <2>2
    <3> HIDE DEF part
    <3> QED BY <3>1, <3>2, <3>3 DEF FileOf, File
  <2>3. CASE UNCHANGED auth_tmp
    BY <2>3, <1>0, <1>2, <1>7 DEF LinesInv
  <2> QED BY <2>1, <2>2, <2>3 DEF PruneCopy, Note
<1>9. GTypes'
  BY <1>0, <1>1, <1>6, <1>7, <1>8 DEF GTypes
<1>10. BoundsInv' /\ SlotInv'
  BY <1>0, <1>1, <1>7 DEF BoundsInv, SlotInv
<1>11. LinesInv'
  <2>1. Generated(auth_keys.lines)' /\ Generated(auth_tmp.lines)'
    BY <1>0, <1>1, <1>8 DEF LinesInv, Generated
  <2>2. \A l : Genuine(l)' <=> Genuine(l)
    BY <1>1 DEF Genuine
  <2>3. \A r \in Sessions :
           session'[r].pc \in {"prune", "rename", "append"} => Genuine(session'[r])
    BY <1>0, <1>1, <1>6 DEF LinesInv, Genuine
  <2>4. "garbled" \notin mishaps' =>
           /\ AllGenuine(auth_keys.lines)' /\ AllGenuine(auth_tmp.lines)' /\ AllGenuine(auth_cache)'
           /\ ~auth_keys.cut' /\ ~auth_tmp.cut'
    <3>1. ("garbled" \notin mishaps' => "garbled" \notin mishaps) /\ UNCHANGED <<auth_keys, auth_cache>>
      BY <1>1, <1>7
    <3> QED BY <3>1, <2>2, <1>0, <1>8 DEF LinesInv, AllGenuine
  <2> QED BY <2>1, <2>2, <2>3, <2>4, <1>0, <1>1 DEF LinesInv
<1>12. BusyInv'
  <2>1. \A r \in Sessions : (Busy(r)' => Busy(r)) /\ (Naming(r)' => Naming(r))
    BY <1>1, <1>6 DEF Busy, Naming
  <2>2. KeyFileSound' => KeyFileSound
    BY <1>7, Happened
  <2> QED BY <2>1, <2>2, <1>0, <1>1, <1>6 DEF BusyInv
<1>13. FileInv'
  <2> SUFFICES ASSUME KeyFileSound' PROVE FileInv'
    BY DEF FileInv
  <2>1. KeyFileSound /\ "lost" \notin mishaps' /\ "garbled" \notin mishaps'
    BY <1>7, Happened
  <2>2. ASSUME NEW r \in Sessions PROVE ~Writing(r)
    BY <2>1 DEF PruneCopy, Note, Writing, At
  <2>3. /\ where = "rename" => auth_tmp' = FileOf(kept, auth_keys.cut)
        /\ where = "append" => ~auth_keys.exists
    <3>1. ~(Goto(s, "rename") /\ Goto(s, "append"))
      BY <1>0, GotoKeeps DEF Places
    <3> QED BY <3>1, <2>1, <1>5 DEF PruneCopy, Note
  <2>4. told[t] = 0 /\ t \in Tables
    BY <2>1, <1>0, <1>1 DEF BusyInv, Busy, Naming
  <2>5. Complete(auth_keys.lines)
    BY <2>1, <1>0 DEF FileInv
  <2>6. \A r \in Sessions : Writing(r)' => r = s
    BY <2>2, <1>6 DEF Writing
  <2>7. ASSUME NEW r \in Sessions, session'[r].pc = "rename"
        PROVE  /\ auth_tmp'.exists /\ Complete(auth_tmp.lines)'
               /\ Absent(auth_tmp'.lines, session'[r].table)
    <3>1. r = s /\ where = "rename" /\ session'[r].table = t
      BY <2>6, <2>7, <1>6 DEF Writing
    <3>2. auth_tmp'.exists /\ auth_tmp'.lines = kept
      BY <3>1, <2>3 DEF FileOf
    <3>3. \A i \in 1 .. Len(auth_keys.lines) : validate_db_name(auth_keys.lines[i].table)
      BY <2>1, <1>0, <1>7 DEF LinesInv, AllGenuine, Genuine
    <3>4. \A u \in Tables : told'[u] # 0 => Unique(kept, u, told'[u])
      BY <3>3, <1>1, <1>3, <2>4, <2>5 DEF Complete
    <3> QED BY <3>1, <3>2, <3>4, <1>3 DEF Complete
  <2>8. ASSUME NEW r \in Sessions, session'[r].pc = "append"
        PROVE  Absent(auth_keys'.lines, session'[r].table)
    <3>1. r = s /\ where = "append"
      BY <2>6, <2>8, <1>6 DEF Writing
    <3>2. auth_keys'.lines = <<>>
      BY <3>1, <2>3, <1>0, <1>1 DEF LinesInv
    <3> QED BY <3>2 DEF Absent
  <2>9. Complete(auth_keys.lines)'
    BY <2>5, <1>1 DEF Complete
  <2> QED BY <2>6, <2>7, <2>8, <2>9 DEF FileInv
<1>14. ReplyInv'
  BY Unanswered DEF PruneCopy
<1> QED BY <1>9, <1>10, <1>11, <1>12, <1>13, <1>14 DEF GInv

LEMMA PruneRenameKeeps ==
    ASSUME GInv, NEW s \in Sessions, PruneRename(s)
    PROVE  GInv'
<1>0. GTypes /\ BoundsInv /\ LinesInv /\ BusyInv /\ FileInv /\ SlotInv
  BY DEF GInv
<1>1. /\ session[s].pc = "rename" /\ Goto(s, "append") /\ auth_tmp' = NoFile
      /\ UNCHANGED <<folder, told, inits, up, jammed, auth_cache, open_tables>>
  BY DEF PruneRename, At, server
<1>2. /\ session' \in [Sessions -> [pc : Places, table : Tables \cup {NoTable}, key : Nat]]
      /\ session'[s].pc = "append"
      /\ \A r \in Sessions : /\ session'[r].table = session[r].table
                             /\ session'[r].key = session[r].key
                             /\ r # s => session'[r].pc = session[r].pc
  BY <1>0, <1>1, GotoKeeps DEF Places
<1>3. /\ mishaps \subseteq mishaps' /\ mishaps' \subseteq Mishaps
      /\ ("removed" \in mishaps' <=> "removed" \in mishaps)
  BY <1>0 DEF PruneRename, Note, GTypes, Mishaps
<1>4. /\ auth_tmp' \in File /\ auth_tmp'.lines = <<>> /\ ~auth_tmp'.cut
  <2>1. <<>> \in Seq(Line)
    OBVIOUS
  <2> QED BY <2>1, <1>1 DEF NoFile, File
<1>5. auth_keys' = auth_keys \/ (auth_keys' = auth_tmp /\ auth_tmp.exists)
  BY DEF PruneRename
<1>6. GTypes'
  BY <1>0, <1>1, <1>2, <1>3, <1>4, <1>5 DEF GTypes
<1>7. BoundsInv' /\ SlotInv'
  BY <1>0, <1>1, <1>3 DEF BoundsInv, SlotInv
<1>8. LinesInv'
  <2>1. /\ Generated(auth_keys'.lines) /\ (~auth_keys'.exists => auth_keys'.lines = <<>>)
        /\ "garbled" \notin mishaps' => AllGenuine(auth_keys'.lines) /\ ~auth_keys'.cut
    BY <1>0, <1>3, <1>5 DEF LinesInv
  <2>2. \A r \in Sessions : session'[r].pc \in {"prune", "rename", "append"} => Genuine(session[r])'
    BY <1>0, <1>1, <1>2 DEF LinesInv, Genuine
  <2>3. /\ Generated(auth_keys.lines)' /\ Generated(auth_tmp.lines)'
        /\ "garbled" \notin mishaps' =>
              AllGenuine(auth_keys.lines)' /\ AllGenuine(auth_tmp.lines)' /\ AllGenuine(auth_cache)'
    BY <2>1, <1>0, <1>1, <1>3, <1>4 DEF LinesInv, AllGenuine, Genuine, Generated
  <2> QED BY <2>1, <2>2, <2>3, <1>4 DEF LinesInv
<1>9. BusyInv'
  <2>1. \A r \in Sessions : (Busy(r)' => Busy(r)) /\ (Naming(r)' => Naming(r))
    BY <1>1, <1>2 DEF Busy, Naming
  <2>2. KeyFileSound' => KeyFileSound
    BY <1>3, Happened
  <2> QED BY <2>1, <2>2, <1>0, <1>1, <1>2 DEF BusyInv
<1>10. FileInv'
  <2> SUFFICES ASSUME KeyFileSound' PROVE FileInv'
    BY DEF FileInv
  <2>1. KeyFileSound /\ "lost" \notin mishaps'
    BY <1>3, Happened
  <2>2. auth_keys' = auth_tmp
    BY <2>1 DEF PruneRename, Note
  <2>3. \A r \in Sessions : Writing(r)' => r = s
    BY <2>1, <1>0, <1>1, <1>2 DEF FileInv, Writing
  <2>4. Complete(auth_tmp.lines) /\ Absent(auth_tmp.lines, session[s].table)
    BY <2>1, <1>0, <1>1 DEF FileInv
  <2>5. Complete(auth_keys.lines)'
    BY <2>2, <2>4, <1>1 DEF Complete
  <2>6. \A r \in Sessions : session'[r].pc = "append" => Absent(auth_keys'.lines, session'[r].table)
    BY <2>2, <2>3, <2>4, <1>2 DEF Writing
  <2>7. \A r \in Sessions : session'[r].pc # "rename"
    BY <2>3, <1>2 DEF Writing
  <2> QED BY <2>3, <2>5, <2>6, <2>7 DEF FileInv
<1>11. ReplyInv'
  BY Unanswered DEF PruneRename
<1> QED BY <1>6, <1>7, <1>8, <1>9, <1>10, <1>11 DEF GInv

\* A line at the end: one more of its name, none more of another.
LEMMA AppendedLine ==
    ASSUME NEW lines \in Seq(Line), NEW t \in Tables, NEW k \in Nat
    PROVE  LET more == Append(lines, [table |-> t, key |-> k]) IN
           /\ more \in Seq(Line)
           /\ Absent(lines, t) => Unique(more, t, k)
           /\ \A u, j : u # t /\ Unique(lines, u, j) => Unique(more, u, j)
           /\ \A i \in 1 .. Len(more) : \/ i \in 1 .. Len(lines) /\ more[i] = lines[i]
                                        \/ more[i].table = t /\ more[i].key = k
<1> DEFINE l == [table |-> t, key |-> k]
           more == Append(lines, l)
<1>1. l \in Line /\ l.table = t /\ l.key = k
  BY DEF Line
<1> HIDE DEF l
<1>2. /\ more \in Seq(Line) /\ Len(more) = Len(lines) + 1 /\ Len(lines) \in Nat
      /\ more[Len(lines) + 1] = l /\ \A i \in 1 .. Len(lines) : more[i] = lines[i]
  BY <1>1
<1> HIDE DEF more
<1>3. \A i \in 1 .. Len(more) : i \in 1 .. Len(lines) \/ i = Len(lines) + 1
  BY <1>2
<1>4. 1 .. Len(lines) \subseteq 1 .. Len(more) /\ Len(lines) + 1 \in 1 .. Len(more)
  BY <1>2
<1>5. Absent(lines, t) => Unique(more, t, k)
  BY <1>1, <1>2, <1>3, <1>4 DEF Absent, Unique
<1>6. ASSUME NEW u, NEW j, u # t, Unique(lines, u, j)
      PROVE  Unique(more, u, j)
  BY <1>1, <1>2, <1>3, <1>4, <1>6 DEF Unique
<1>7. \A i \in 1 .. Len(more) : \/ i \in 1 .. Len(lines) /\ more[i] = lines[i]
                                \/ more[i].table = t /\ more[i].key = k
  BY <1>1, <1>2, <1>3
<1>8. \A u, j : u # t /\ Unique(lines, u, j) => Unique(more, u, j)
  BY <1>6
<1>9. more \in Seq(Line)
  BY <1>2
<1> QED BY <1>5, <1>7, <1>8, <1>9, Zenon DEF more, l

LEMMA SaveKeeps ==
    ASSUME GInv, NEW s \in Sessions, save_api_key(s)
    PROVE  GInv'
<1> DEFINE t == session[s].table
           k == session[s].key
           More(n) == Append(auth_keys.lines, [table |-> n, key |-> k])
<1>0. GTypes /\ BoundsInv /\ LinesInv /\ BusyInv /\ FileInv /\ SlotInv
  BY DEF GInv
<1>1. /\ session[s].pc = "append" /\ session' = [session EXCEPT ![s] = [Idle EXCEPT !.pc = "open"]]
      /\ UNCHANGED <<folder, auth_tmp, inits, up, jammed, auth_cache, open_tables>>
  BY DEF save_api_key, At, server
<1>2. /\ session' \in [Sessions -> [pc : Places, table : Tables \cup {NoTable}, key : Nat]]
      /\ session'[s].pc = "open"
      /\ \A r \in Sessions : r # s => session'[r] = session[r]
  <2> DEFINE new == [Idle EXCEPT !.pc = "open"]
  <2>1. new.pc = "open" /\ new \in [pc : Places, table : Tables \cup {NoTable}, key : Nat]
    BY DEF Idle, Places
  <2>2. session' = [session EXCEPT ![s] = new]
    BY <1>1
  <2> HIDE DEF new
  <2> QED BY <2>1, <2>2, <1>0 DEF GTypes
<1>3. t \in Tables
  BY <1>0, <1>1 DEF BusyInv, Naming
<1>4. k \in Nat /\ k # 0 /\ k \in 1 .. Len(inits) /\ Genuine(session[s])
  <2>1. Genuine(session[s]) /\ Len(inits) \in Nat
    BY <1>0, <1>1 DEF LinesInv, GTypes
  <2> QED BY <2>1 DEF Genuine
<1>5. auth_keys.lines \in Seq(Line) /\ auth_keys.cut \in BOOLEAN
  BY <1>0 DEF GTypes, File
<1>6. ASSUME NEW n \in Tables
      PROVE  /\ More(n) \in Seq(Line)
             /\ Absent(auth_keys.lines, n) => Unique(More(n), n, k)
             /\ \A u, j : u # n /\ Unique(auth_keys.lines, u, j) => Unique(More(n), u, j)
             /\ \A i \in 1 .. Len(More(n)) :
                   \/ i \in 1 .. Len(auth_keys.lines) /\ More(n)[i] = auth_keys.lines[i]
                   \/ More(n)[i].table = n /\ More(n)[i].key = k
  <2>1. k \in Nat
    BY <1>4
  <2> HIDE DEF k
  <2> QED BY <2>1, <1>5, AppendedLine
<1> HIDE DEF More
<1>7. /\ \A n \in Tables : Generated(More(n))
      /\ "garbled" \notin mishaps => AllGenuine(More(t))
  <2>1. ASSUME NEW n \in Tables PROVE Generated(More(n))
    BY <2>1, <1>0, <1>4, <1>6 DEF LinesInv, Generated
  <2>2. ASSUME "garbled" \notin mishaps PROVE AllGenuine(More(t))
    <3>1. AllGenuine(auth_keys.lines)
      BY <2>2, <1>0 DEF LinesInv
    <3>2. \A i \in 1 .. Len(More(t)) :
             \/ i \in 1 .. Len(auth_keys.lines) /\ More(t)[i] = auth_keys.lines[i]
             \/ More(t)[i].table = t /\ More(t)[i].key = k
      BY <1>3, <1>6
    <3> QED BY <3>1, <3>2, <1>4 DEF AllGenuine, Genuine
  <2> QED BY <2>1, <2>2
<1>8. /\ told' \in [Tables -> Nat] /\ told'[t] = k
      /\ \A u \in Tables : u # t => told'[u] = told[u]
  BY <1>0, <1>3, <1>4 DEF GTypes, save_api_key
<1>9. \/ \E n \in NamesAfter(t) : auth_keys' = FileOf(More(n), FALSE) /\ mishaps' = mishaps
      \/ auth_keys' = auth_keys /\ mishaps' = mishaps \cup {"lost"}
      \/ auth_keys' = FileOf(auth_keys.lines, TRUE) /\ mishaps' = mishaps \cup {"garbled"}
  BY Zenon DEF save_api_key, Note, More
<1>10. "garbled" \notin mishaps => NamesAfter(t) = {t}
  BY <1>0, <1>5 DEF LinesInv, NamesAfter
<1>11. NamesAfter(t) \subseteq Tables
  BY <1>3 DEF NamesAfter
<1>12. mishaps \subseteq mishaps' /\ mishaps' \subseteq Mishaps
       /\ ("removed" \in mishaps' <=> "removed" \in mishaps)
  BY <1>0, <1>9 DEF GTypes, Mishaps
<1>13. /\ auth_keys' \in File /\ Generated(auth_keys'.lines)
       /\ ~auth_keys'.exists => auth_keys'.lines = <<>>
       /\ "garbled" \notin mishaps' => AllGenuine(auth_keys'.lines) /\ ~auth_keys'.cut
  <2>1. ASSUME NEW n \in NamesAfter(t), auth_keys' = FileOf(More(n), FALSE), mishaps' = mishaps
        PROVE  /\ auth_keys' \in File /\ Generated(auth_keys'.lines) /\ auth_keys'.exists
               /\ "garbled" \notin mishaps' => AllGenuine(auth_keys'.lines) /\ ~auth_keys'.cut
    <3>1. n \in Tables /\ ("garbled" \notin mishaps => n = t)
      BY <1>10, <1>11
    <3>2. More(n) \in Seq(Line) /\ Generated(More(n))
          /\ ("garbled" \notin mishaps => AllGenuine(More(n)))
      BY <3>1, <1>6, <1>7
    <3> QED BY <2>1, <3>2 DEF FileOf, File
  <2>2. CASE auth_keys' = auth_keys
    BY <2>2, <1>0, <1>12 DEF GTypes, LinesInv
  <2>3. CASE auth_keys' = FileOf(auth_keys.lines, TRUE) /\ "garbled" \in mishaps'
    BY <2>3, <1>0, <1>5 DEF FileOf, File, LinesInv
  <2> QED BY <2>1, <2>2, <2>3, <1>9
<1>14. GTypes'
  BY <1>0, <1>1, <1>2, <1>8, <1>12, <1>13 DEF GTypes
<1>15. BoundsInv' /\ SlotInv'
  <2>1. \A u \in Tables : told'[u] \in 0 .. Len(inits)
    BY <1>0, <1>3, <1>4, <1>8 DEF BoundsInv
  <2> QED BY <2>1, <1>0, <1>1, <1>12 DEF BoundsInv, SlotInv
<1>16. LinesInv'
  <2>1. \A r \in Sessions : session'[r].pc \in {"prune", "rename", "append"} => Genuine(session[r])'
    BY <1>0, <1>1, <1>2 DEF LinesInv, Genuine
  <2>2. /\ Generated(auth_keys.lines)' /\ Generated(auth_tmp.lines)'
        /\ "garbled" \notin mishaps' =>
              AllGenuine(auth_keys.lines)' /\ AllGenuine(auth_tmp.lines)' /\ AllGenuine(auth_cache)'
    BY <1>0, <1>1, <1>12, <1>13 DEF LinesInv, AllGenuine, Genuine, Generated
  <2>3. "garbled" \notin mishaps' => ~auth_tmp'.cut
    BY <1>0, <1>1, <1>12 DEF LinesInv
  <2> QED BY <2>1, <2>2, <2>3, <1>13 DEF LinesInv
<1>17. BusyInv'
  <2> HIDE DEF k
  <2>1. \A r \in Sessions : /\ Busy(r)' => Busy(r) /\ r # s /\ session'[r].table = session[r].table
                            /\ Naming(r)' => Naming(r) /\ session'[r].table = session[r].table
    BY <1>2 DEF Busy, Naming
  <2>2. KeyFileSound' => KeyFileSound
    BY <1>12, Happened
  <2>3. KeyFileSound => \A r \in Sessions : Busy(r)' => session[r].table # t
    BY <2>1, <1>0, <1>1 DEF BusyInv, Busy
  <2> HIDE DEF t
  <2> QED BY <2>1, <2>2, <2>3, <1>0, <1>1, <1>3, <1>8, BusyNames DEF BusyInv
<1>18. FileInv'
  <2> SUFFICES ASSUME KeyFileSound' PROVE FileInv'
    BY DEF FileInv
  <2>1. KeyFileSound /\ "lost" \notin mishaps' /\ "garbled" \notin mishaps'
    BY <1>12, Happened
  <2>2. auth_keys' = FileOf(More(t), FALSE)
    BY <2>1, <1>9, <1>10, <1>12
  <2>3. \A r \in Sessions : ~Writing(r)'
    BY <2>1, <1>0, <1>1, <1>2 DEF FileInv, Writing
  <2>4. Complete(auth_keys.lines) /\ Absent(auth_keys.lines, t)
    BY <2>1, <1>0, <1>1 DEF FileInv
  <2>5. auth_keys'.lines = More(t)
    BY <2>2 DEF FileOf
  <2>6. \A u \in Tables : told'[u] # 0 => Unique(More(t), u, told'[u])
    <3> HIDE DEF t, k
    <3> QED BY <2>4, <1>3, <1>6, <1>8 DEF Complete
  <2>7. Complete(auth_keys.lines)'
    BY <2>5, <2>6 DEF Complete
  <2> QED BY <2>3, <2>7 DEF FileInv, Writing
<1>19. ReplyInv'
  BY Unanswered DEF save_api_key
<1> QED BY <1>14, <1>15, <1>16, <1>17, <1>18, <1>19 DEF GInv

LEMMA SessionEndsKeeps ==
    ASSUME GInv, NEW s \in Sessions, SessionEnds(s)
    PROVE  GInv'
<1>0. GTypes /\ BoundsInv /\ LinesInv /\ BusyInv /\ FileInv /\ SlotInv
  BY DEF GInv
<1>1. UNCHANGED <<folder, auth_keys, auth_tmp, told, inits, up, jammed, auth_cache, open_tables, mishaps>>
  BY DEF SessionEnds, server, disk
<1>2. /\ session' \in [Sessions -> [pc : Places, table : Tables \cup {NoTable}, key : Nat]]
      /\ session'[s].pc = "idle"
      /\ \A r \in Sessions : r # s => session'[r] = session[r]
  <2>1. Idle.pc = "idle" /\ Idle \in [pc : Places, table : Tables \cup {NoTable}, key : Nat]
    BY DEF Idle, Places
  <2> QED BY <2>1, <1>0 DEF GTypes, SessionEnds
<1>3. GTypes'
  BY <1>0, <1>1, <1>2 DEF GTypes
<1>4. BoundsInv' /\ SlotInv'
  BY <1>0, <1>1 DEF BoundsInv, SlotInv
<1>5. LinesInv'
  BY <1>0, <1>1, <1>2 DEF LinesInv, AllGenuine, Genuine, Generated
<1>6. BusyInv'
  <2>1. \A r \in Sessions : /\ Busy(r)' => Busy(r) /\ session'[r] = session[r]
                            /\ Naming(r)' => Naming(r) /\ session'[r] = session[r]
    BY <1>2 DEF Busy, Naming
  <2>2. KeyFileSound' = KeyFileSound
    BY <1>1 DEF KeyFileSound
  <2> QED BY <2>1, <2>2, <1>0, <1>1 DEF BusyInv
<1>7. FileInv'
  BY <1>0, <1>1, <1>2, FileKept
<1>8. ReplyInv'
  BY Unanswered DEF SessionEnds
<1> QED BY <1>3, <1>4, <1>5, <1>6, <1>7, <1>8 DEF GInv

LEMMA RemoveKeeps ==
    ASSUME GInv, NEW t \in Tables, RemoveFolder(t)
    PROVE  GInv'
<1>0. GTypes /\ BoundsInv /\ LinesInv /\ BusyInv /\ FileInv /\ SlotInv
  BY DEF GInv
<1>1. /\ UNCHANGED <<auth_keys, auth_tmp, session, inits, up, jammed, auth_cache, open_tables>>
      /\ \A s \in Sessions : session[s].table # t
  BY DEF RemoveFolder, At, server
<1>2. /\ folder' \in [Tables -> [state : {"none", "bare", "ready"}, creation : Nat]]
      /\ \A u \in Tables : u # t => /\ folder'[u].creation = folder[u].creation
                                    /\ folder'[u].state = folder[u].state
  BY <1>0, StateKeeps DEF RemoveFolder
<1>3. told' \in [Tables -> Nat] /\ told'[t] = 0 /\ \A u \in Tables : u # t => told'[u] = told[u]
  BY <1>0 DEF GTypes, RemoveFolder
<1>4. /\ mishaps \subseteq mishaps' /\ mishaps' \subseteq Mishaps
      /\ Slots(t) # {} => "removed" \in mishaps'
      /\ KeyFileSound' = KeyFileSound /\ ("garbled" \in mishaps' <=> "garbled" \in mishaps)
  <2>1. mishaps' = mishaps \/ mishaps' = mishaps \cup {"removed"}
    BY DEF RemoveFolder, Note
  <2>2. Slots(t) # {} => "removed" \in mishaps'
    BY DEF RemoveFolder, Note
  <2>3. KeyFileSound' = KeyFileSound /\ ("garbled" \in mishaps' <=> "garbled" \in mishaps)
    BY <2>1 DEF KeyFileSound
  <2> QED BY <2>1, <2>2, <2>3, <1>0 DEF GTypes, Mishaps
<1>5. GTypes'
  BY <1>0, <1>1, <1>2, <1>3, <1>4 DEF GTypes
<1>6. BoundsInv'
  <2>1. Len(inits) \in Nat
    BY <1>0 DEF GTypes
  <2>2. \A u \in Tables : told'[u] \in 0 .. Len(inits)
    BY <2>1, <1>0, <1>3 DEF BoundsInv
  <2> QED BY <2>2, <1>0, <1>1 DEF BoundsInv
<1>7. LinesInv'
  BY <1>0, <1>1, <1>4 DEF LinesInv, AllGenuine, Genuine, Generated
<1>8. BusyInv'
  <2>1. \A r \in Sessions : (Busy(r)' <=> Busy(r)) /\ (Naming(r)' <=> Naming(r))
    BY <1>1 DEF Busy, Naming
  <2> QED BY <2>1, <1>0, <1>1, <1>2, <1>3, <1>4, BusyNames DEF BusyInv
<1>9. FileInv'
  <2>1. Complete(auth_keys.lines) => Complete(auth_keys.lines)'
    BY <1>1, <1>3 DEF Complete
  <2>2. Complete(auth_tmp.lines) => Complete(auth_tmp.lines)'
    BY <1>1, <1>3 DEF Complete
  <2> QED BY <2>1, <2>2, <1>0, <1>1, <1>4 DEF FileInv, Writing
<1>10. SlotInv'
  <2> SUFFICES ASSUME "removed" \notin mishaps', NEW i \in 1 .. Len(open_tables)
      PROVE  /\ folder'[open_tables[i].table].state = "ready"
             /\ folder'[open_tables[i].table].creation = open_tables[i].creation
    BY <1>1 DEF SlotInv
  <2>1. open_tables[i].table # t
    BY <1>4 DEF Slots
  <2>2. open_tables[i].table \in Tables
    BY <1>0, SlotTables
  <2> QED BY <2>1, <2>2, <1>0, <1>2, <1>4 DEF SlotInv
<1>11. ReplyInv'
  BY Unanswered DEF RemoveFolder
<1> QED BY <1>5, <1>6, <1>7, <1>8, <1>9, <1>10, <1>11 DEF GInv

\* What a load leaves in the cache: lines of the file, no more than fit, and as they
\* were written.
LEMMA LoadedLines ==
    ASSUME GTypes, BoundsInv, LinesInv
    PROVE  /\ Loaded \in Seq(Cached) /\ Len(Loaded) <= MAX_AUTH_KEYS
           /\ "garbled" \notin mishaps => AllGenuine(Loaded)
<1>1. MAX_AUTH_KEYS \in Nat
  BY GatewayAssumption
<1>2. CASE ~auth_keys.exists
  BY <1>2 DEF Loaded, GTypes, BoundsInv, LinesInv
<1>3. CASE auth_keys.exists
  <2> DEFINE lines == auth_keys.lines
             n == Min({Len(lines), MAX_AUTH_KEYS})
  <2>1. lines \in Seq(Line) /\ Len(lines) \in Nat /\ ("garbled" \notin mishaps => AllGenuine(lines))
    BY DEF GTypes, File, LinesInv
  <2>2. Loaded = [i \in 1 .. n |-> Entry(lines[i])]
    BY <1>3 DEF Loaded
  <2> HIDE DEF lines
  <2>3. n \in Nat /\ n <= Len(lines) /\ n <= MAX_AUTH_KEYS
    <3>1. {Len(lines), MAX_AUTH_KEYS} \in SUBSET Nat /\ {Len(lines), MAX_AUTH_KEYS} # {}
      BY <2>1, <1>1
    <3>2. n \in {Len(lines), MAX_AUTH_KEYS} /\ \A x \in {Len(lines), MAX_AUTH_KEYS} : n <= x
      BY <3>1, MinOf
    <3> QED BY <3>2, <2>1, <1>1
  <2> HIDE DEF n
  <2>4. \A i \in 1 .. n : lines[i] \in Line /\ i \in 1 .. Len(lines)
    BY <2>1, <2>3
  <2>5. ASSUME NEW i \in 1 .. n
        PROVE  /\ Entry(lines[i]) \in Cached
               /\ validate_db_name(lines[i].table) => Entry(lines[i]) = lines[i]
    <3>1. lines[i] \in Line /\ lines[i].table \in Seq(STRING) /\ lines[i].key \in Nat
      BY <2>4, GatewayAssumption DEF Line
    <3>2. CutName(lines[i].table) \in Seq(STRING)
      BY <3>1, NameRead
    <3>3. ASSUME validate_db_name(lines[i].table) PROVE Entry(lines[i]) = lines[i]
      <4>1. CutName(lines[i].table) = lines[i].table /\ Colons(lines[i].table) = {}
        BY <3>1, <3>3, NameRead DEF validate_db_name
      <4> QED BY <4>1, <3>1 DEF Entry, Line
    <3> QED BY <3>1, <3>2, <3>3 DEF Entry, Cached
  <2>6. Loaded \in Seq(Cached) /\ Len(Loaded) = n /\ \A i \in 1 .. n : Loaded[i] = Entry(lines[i])
    BY <2>2, <2>3, <2>5
  <2>7. ASSUME "garbled" \notin mishaps PROVE AllGenuine(Loaded)
    BY <2>1, <2>4, <2>5, <2>6, <2>7 DEF AllGenuine, Genuine
  <2> QED BY <2>3, <2>6, <2>7
<1> QED BY <1>2, <1>3

\* What holds of the lines on the disk and on their way there.
DiskLines ==
    /\ Generated(auth_keys.lines) /\ Generated(auth_tmp.lines)
    /\ \A s \in Sessions : session[s].pc \in {"prune", "rename", "append"} => Genuine(session[s])
    /\ ~auth_keys.exists => auth_keys.lines = <<>>
    /\ "garbled" \notin mishaps =>
          /\ AllGenuine(auth_keys.lines) /\ AllGenuine(auth_tmp.lines)
          /\ ~auth_keys.cut /\ ~auth_tmp.cut

\* Only the server's memory changes.
LEMMA MemoryKeeps ==
    ASSUME GInv, UNCHANGED <<disk, session, told, inits, mishaps>>
    PROVE  /\ BusyInv' /\ FileInv' /\ DiskLines'
           /\ UNCHANGED <<folder, auth_keys, auth_tmp>>
<1>1. UNCHANGED <<folder, auth_keys, auth_tmp, session, told, inits, mishaps>>
  BY DEF disk
<1>2. BusyInv'
  BY <1>1 DEF GInv, BusyInv, Busy, Naming, KeyFileSound
<1>3. FileInv'
  BY <1>1, FileKept DEF GInv
<1>4. DiskLines'
  BY <1>1 DEF GInv, LinesInv, DiskLines, AllGenuine, Genuine, Generated
<1> QED BY <1>1, <1>2, <1>3, <1>4

LEMMA LoadKeeps ==
    ASSUME GInv, ServerStart \/ load_auth_cache
    PROVE  GInv'
<1>0. GTypes /\ BoundsInv /\ LinesInv /\ BusyInv /\ FileInv /\ SlotInv
  BY DEF GInv
<1>1. /\ UNCHANGED <<disk, session, told, inits, jammed, open_tables, mishaps>>
      /\ up' = TRUE /\ auth_cache' = Loaded /\ NoAnswer
  BY <1>0 DEF ServerStart, load_auth_cache, GTypes
<1>2. /\ Loaded \in Seq(Cached) /\ Len(Loaded) <= MAX_AUTH_KEYS
      /\ "garbled" \notin mishaps => AllGenuine(Loaded)
  BY <1>0, LoadedLines
<1>3. /\ BusyInv' /\ FileInv' /\ UNCHANGED <<folder, auth_keys, auth_tmp>>
      /\ DiskLines'
  BY <1>1, MemoryKeeps
<1>4. GTypes'
  BY <1>0, <1>1, <1>2, <1>3 DEF GTypes
<1>5. BoundsInv' /\ SlotInv'
  BY <1>0, <1>1, <1>2, <1>3 DEF BoundsInv, SlotInv
<1>6. LinesInv'
  BY <1>1, <1>2, <1>3 DEF LinesInv, DiskLines, AllGenuine, Genuine
<1>7. ReplyInv'
  BY <1>1, Unanswered
<1> QED BY <1>3, <1>4, <1>5, <1>6, <1>7 DEF GInv

LEMMA StopKeeps ==
    ASSUME GInv, ServerStop
    PROVE  GInv'
<1>0. GTypes /\ BoundsInv /\ LinesInv /\ BusyInv /\ FileInv /\ SlotInv
  BY DEF GInv
<1>1. /\ UNCHANGED <<disk, session, told, inits, mishaps>>
      /\ up' = FALSE /\ jammed' = FALSE /\ auth_cache' = <<>> /\ open_tables' = <<>> /\ NoAnswer
  BY DEF ServerStop
<1>2. /\ BusyInv' /\ FileInv' /\ UNCHANGED <<folder, auth_keys, auth_tmp>>
      /\ DiskLines'
  BY <1>1, MemoryKeeps
<1>3. GTypes'
  <2>1. auth_cache' \in Seq(Cached) /\ open_tables' \in Seq(Slot)
    BY <1>1
  <2> QED BY <2>1, <1>0, <1>1, <1>2 DEF GTypes
<1>4. BoundsInv' /\ SlotInv'
  <2>1. Len(auth_cache') = 0 /\ Len(open_tables') = 0 /\ MAX_AUTH_KEYS \in Nat /\ MAX_OPEN_TABLES \in Nat
    BY <1>1, GatewayAssumption
  <2> QED BY <2>1, <1>0, <1>1 DEF BoundsInv, SlotInv
<1>5. LinesInv'
  BY <1>1, <1>2 DEF LinesInv, DiskLines, AllGenuine
<1>6. ReplyInv'
  BY <1>1, Unanswered
<1> QED BY <1>2, <1>3, <1>4, <1>5, <1>6 DEF GInv

LEMMA JamKeeps ==
    ASSUME GInv, InsertJam
    PROVE  GInv'
<1>0. GTypes /\ BoundsInv /\ LinesInv /\ BusyInv /\ FileInv /\ SlotInv
  BY DEF GInv
<1>1. /\ UNCHANGED <<disk, session, told, inits, up, auth_cache, open_tables, mishaps>>
      /\ up /\ jammed' = TRUE /\ NoAnswer
  BY DEF InsertJam
<1>2. BusyInv' /\ FileInv' /\ DiskLines' /\ UNCHANGED <<folder, auth_keys, auth_tmp>>
  BY <1>1, MemoryKeeps
<1>3. GTypes' /\ BoundsInv' /\ SlotInv'
  BY <1>0, <1>1, <1>2 DEF GTypes, BoundsInv, SlotInv
<1>4. LinesInv'
  BY <1>0, <1>1, <1>2 DEF LinesInv, DiskLines, AllGenuine, Genuine
<1>5. ReplyInv'
  BY <1>1, Unanswered
<1> QED BY <1>2, <1>3, <1>4, <1>5 DEF GInv

\* A key that the cache has for a name was generated for it.
LEMMA VerifiedKey ==
    ASSUME GTypes, LinesInv, "garbled" \notin mishaps, NEW t, NEW k, verify_api_key(t, k)
    PROVE  k \in 1 .. Len(inits) /\ inits[k] = t
<1> DEFINE S == {i \in 1 .. Len(auth_cache) : auth_cache[i].table = t}
           p == LinesOf(auth_cache, t)
<1>1. auth_cache \in Seq(Cached) /\ AllGenuine(auth_cache)
  BY DEF GTypes, LinesInv
<1>2. p # <<>> /\ Head(p).key = k
  BY DEF verify_api_key, KeyIn
<1>3. S \in SUBSET (1 .. Len(auth_cache)) /\ p = Picked(auth_cache, S)
  BY DEF LinesOf
<1>4. \A j \in S : j \in 1 .. Len(auth_cache) /\ auth_cache[j].table = t
  OBVIOUS
<1> HIDE DEF S, p
<1>5. /\ p \in Seq(Cached) /\ Len(p) \in Nat
      /\ \A n \in 1 .. Len(p) : Nth(S, n) \in S /\ p[n] = auth_cache[Nth(S, n)]
  BY <1>1, <1>3, PickedElements
<1>6. 1 \in 1 .. Len(p) /\ Head(p) = p[1]
  BY <1>2, <1>5
<1>7. PICK j \in 1 .. Len(auth_cache) : auth_cache[j].table = t /\ auth_cache[j].key = k
  BY <1>2, <1>4, <1>5, <1>6
<1> QED BY <1>1, <1>7 DEF AllGenuine, Genuine

LEMMA ClientKeeps ==
    ASSUME GInv, NEW t \in Tables, NEW k \in 1 .. Len(inits), handel_client(t, k)
    PROVE  GInv'
<1>0. GTypes /\ BoundsInv /\ LinesInv /\ BusyInv /\ FileInv /\ SlotInv
  BY DEF GInv
<1>1. /\ UNCHANGED <<disk, session, told, inits, up, jammed, auth_cache, mishaps>> /\ up
  BY DEF handel_client
<1>2. /\ BusyInv' /\ FileInv' /\ UNCHANGED <<folder, auth_keys, auth_tmp>>
      /\ DiskLines'
  BY <1>1, MemoryKeeps
<1>3. LinesInv'
  BY <1>0, <1>1, <1>2 DEF LinesInv, DiskLines, AllGenuine, Genuine
<1> DEFINE slot == [table |-> t, creation |-> folder[t].creation]
<1>4. CASE reply'.status # 200 /\ UNCHANGED open_tables
  <2>1. GTypes' /\ BoundsInv' /\ SlotInv' /\ ReplyInv'
    BY <1>0, <1>1, <1>2, <1>4 DEF GTypes, BoundsInv, SlotInv, ReplyInv
  <2> QED BY <2>1, <1>2, <1>3 DEF GInv
<1>5. CASE verify_api_key(t, k) /\ get_or_open_table(t) /\ reply'.status = 200
  <2>1. /\ reply'.key = k /\ reply'.table = t
        /\ reply'.current = (\E i \in 1 .. Len(open_tables') :
                                open_tables'[i] = slot /\ folder[t].state = "ready")
    <3> DEFINE current == \E i \in 1 .. Len(open_tables') :
                              /\ open_tables'[i] = [table |-> t, creation |-> folder[t].creation]
                              /\ folder[t].state = "ready"
    <3>1. Refused(401) \/ Refused(404) \/ Answered(t, k, current)
      BY Zenon DEF handel_client
    <3> HIDE DEF current
    <3>2. reply'.key = k /\ reply'.table = t /\ reply'.current = current
      BY <3>1, <1>5 DEF Answered, Refused, NoReply
    <3> QED BY <3>2, Zenon DEF current
  <2>2. inits[k] = t \/ "garbled" \in mishaps
    BY <1>0, <1>5, VerifiedKey
  <2>3. slot \in Slot /\ slot.table = t /\ slot.creation = folder[t].creation
    BY <1>0 DEF GTypes, Slot
  <2> HIDE DEF slot
  <2>4. CASE Slots(t) # {} /\ UNCHANGED open_tables
    <3>1. GTypes' /\ BoundsInv' /\ SlotInv'
      BY <1>0, <1>1, <1>2, <2>4 DEF GTypes, BoundsInv, SlotInv
    <3>2. ReplyInv'
      <4> SUFFICES ASSUME "removed" \notin mishaps PROVE reply'.current
        BY <2>1, <2>2, <1>1 DEF ReplyInv
      <4>1. PICK i \in 1 .. Len(open_tables) : open_tables[i].table = t
        BY <2>4 DEF Slots
      <4>2. folder[t].state = "ready" /\ folder[t].creation = open_tables[i].creation
        BY <4>1, <1>0 DEF SlotInv
      <4>3. open_tables[i] \in Slot
        BY <4>1, <1>0 DEF GTypes
      <4>4. open_tables[i] = slot
        BY <4>1, <4>2, <4>3, <2>3 DEF Slot
      <4> QED BY <4>2, <4>4, <2>1, <2>4
    <3> QED BY <3>1, <3>2, <1>2, <1>3 DEF GInv
  <2>5. CASE /\ Slots(t) = {} /\ Len(open_tables) < MAX_OPEN_TABLES
             /\ folder[t].state = "ready" /\ open_tables' = Append(open_tables, slot)
    <3>1. open_tables \in Seq(Slot)
      BY <1>0 DEF GTypes
    <3>2. /\ open_tables' \in Seq(Slot) /\ Len(open_tables') = Len(open_tables) + 1
          /\ Len(open_tables) \in Nat /\ open_tables'[Len(open_tables) + 1] = slot
          /\ \A i \in 1 .. Len(open_tables) : open_tables'[i] = open_tables[i]
      BY <3>1, <2>3, <2>5
    <3>3. MAX_OPEN_TABLES \in Nat
      BY GatewayAssumption
    <3>4. /\ Len(open_tables) + 1 \in 1 .. Len(open_tables') /\ Len(open_tables') <= MAX_OPEN_TABLES
          /\ \A i \in 1 .. Len(open_tables') : i \in 1 .. Len(open_tables) \/ i = Len(open_tables) + 1
      BY <3>2, <3>3, <2>5
    <3>5. GTypes' /\ BoundsInv'
      BY <3>2, <3>4, <1>0, <1>1, <1>2 DEF GTypes, BoundsInv
    <3>6. SlotInv'
      BY <3>2, <3>4, <2>3, <2>5, <1>0, <1>1, <1>2 DEF SlotInv
    <3>7. reply'.current
      BY <3>2, <3>4, <2>1, <2>5
    <3>8. ReplyInv'
      BY <3>7, <2>1, <2>2, <1>1 DEF ReplyInv
    <3> QED BY <3>5, <3>6, <3>8, <1>2, <1>3 DEF GInv
  <2> QED BY <1>5, <2>4, <2>5 DEF get_or_open_table, slot
<1> QED BY <1>4, <1>5 DEF handel_client, Answered, Refused, NoReply

LEMMA GatewayNext == GInv /\ [Next]_vars => GInv'
<1> SUFFICES ASSUME GInv, [Next]_vars PROVE GInv'
  OBVIOUS
<1>1. CASE UNCHANGED vars
  <2>1. UNCHANGED <<folder, auth_keys, auth_tmp, session, told, inits, up, jammed, auth_cache,
                    open_tables, reply, mishaps>>
    BY <1>1 DEF vars, disk, server
  <2>2. UNCHANGED <<disk, session, told, inits, mishaps>>
    BY <2>1 DEF disk
  <2>3. BusyInv' /\ FileInv'
    BY <2>2, MemoryKeeps
  <2>4. GTypes' /\ BoundsInv' /\ SlotInv' /\ ReplyInv'
    BY <2>1 DEF GInv, GTypes, BoundsInv, SlotInv, ReplyInv
  <2>5. LinesInv'
    BY <2>1 DEF GInv, LinesInv, AllGenuine, Genuine, Generated
  <2> QED BY <2>3, <2>4, <2>5 DEF GInv
<1>2. ASSUME NEW s \in Sessions, NEW t \in Tables, InitCheck(s, t) PROVE GInv'
  BY <1>2, InitCheckKeeps
<1>3. ASSUME NEW s \in Sessions,
             MakeFolder(s) \/ InitMeta(s) \/ generate_api_key(s) \/ prune_api_key(s) \/ save_api_key(s)
             \/ SessionEnds(s)
      PROVE GInv'
  BY <1>3, MakeFolderKeeps, InitMetaKeeps, GenerateKeeps, PruneCopyKeeps, PruneRenameKeeps, SaveKeeps,
     SessionEndsKeeps DEF prune_api_key
<1>4. ASSUME NEW t \in Tables, RemoveFolder(t) PROVE GInv'
  BY <1>4, RemoveKeeps
<1>5. CASE ServerStart \/ ServerStop \/ InsertJam \/ load_auth_cache
  BY <1>5, LoadKeeps, StopKeeps, JamKeeps
<1>6. ASSUME NEW t \in Tables, NEW k \in 1 .. Len(inits), handel_client(t, k) PROVE GInv'
  BY <1>6, ClientKeeps
<1> QED BY <1>1, <1>2, <1>3, <1>4, <1>5, <1>6 DEF Next

LEMMA GatewayInv == Spec => []GInv
  BY GatewayInit, GatewayNext, PTL DEF Spec

\* However many tables, keys and sessions, and however long their names: unless two
\* copies of the key file were laid over each other or one ended inside a line, a
\* request is served only with a key that was generated for its table, because the
\* names that are written are valid, and those are read as they were written
\* (validate_db_name, save_api_key, load_auth_cache, verify_api_key).
THEOREM KeysKept == Spec => []KeyOpensOwnTable
<1>1. GInv => KeyOpensOwnTable
  BY DEF GInv, ReplyInv, KeyOpensOwnTable
<1> QED BY <1>1, GatewayInv, PTL

\* Unless two sessions created one table or wrote the key file at once, or a write of
\* it failed, the key
\* an owner was told is the one line the file has for the table (prune_api_key and
\* save_api_key), through any number of tables, removals and ended sessions.
THEOREM ToldKeysKept == Spec => []ToldKeyStored
<1>1. GInv => ToldKeyStored
  <2> SUFFICES ASSUME GInv, KeyFileSound, NEW t \in Tables, told[t] # 0
      PROVE  LinesOf(auth_keys.lines, t) = <<[table |-> t, key |-> told[t]]>>
    BY DEF ToldKeyStored
  <2>1. auth_keys.lines \in Seq(Line)
    BY DEF GInv, GTypes, File
  <2>2. Unique(auth_keys.lines, t, told[t])
    BY DEF GInv, FileInv, Complete
  <2> QED BY <2>1, <2>2, UniqueLine
<1> QED BY <1>1, GatewayInv, PTL

\* Unless a folder was removed under the server, every answer is from the folder
\* that has the name, with any number of slots (get_or_open_table).
THEOREM CurrentTableServed == Spec => []ServesCurrentTable
<1>1. GInv => ServesCurrentTable
  <2> SUFFICES ASSUME GInv PROVE ServesCurrentTable
    OBVIOUS
  <2>0. GTypes /\ BoundsInv /\ LinesInv
    BY DEF GInv
  <2>1. \A i \in 1 .. Len(auth_keys.lines) :
           auth_keys.lines[i] \in [table : Tables, key : 1 .. Len(inits)]
    <3> SUFFICES ASSUME NEW i \in 1 .. Len(auth_keys.lines)
        PROVE  auth_keys.lines[i] \in [table : Tables, key : 1 .. Len(inits)]
      OBVIOUS
    <3>1. auth_keys.lines \in Seq(Line)
      BY <2>0 DEF GTypes, File
    <3>2. auth_keys.lines[i] \in Line
      BY <3>1
    <3>3. auth_keys.lines[i].key \in 1 .. Len(inits)
      BY <2>0 DEF LinesInv, Generated
    <3> QED BY <3>2, <3>3 DEF Line
  <2>2. \A s \in Sessions :
           /\ session[s].table \in Tables \cup {NoTable}
           /\ session[s].pc \in {"idle", "make", "meta", "key", "prune", "rename", "append", "open"}
    BY <2>0 DEF GTypes, Places
  <2>3. auth_keys.exists \in BOOLEAN
    BY <2>0 DEF GTypes, File
  <2>4. TypeOK
    BY <2>0, <2>1, <2>2, <2>3 DEF TypeOK, GTypes, BoundsInv
  <2> QED BY <2>4 DEF GInv, ReplyInv, ServesCurrentTable
<1> QED BY <1>1, GatewayInv, PTL
=============================================================================
