------------------------------- MODULE Gateway -------------------------------
(* Who may use which table: 'origin init' (terminal.c, db_init's files) with  *)
(* the key file of api-key-generate.c, run by one or more command-line        *)
(* sessions, and the server's key cache and table slots (server.c).  A table  *)
(* folder may also be removed by hand, which api-key-generate.c expects.      *)
(* Generated keys are 256 random bits: here, fresh numbers.                   *)
EXTENDS Integers, Sequences, FiniteSets, FiniteSetsExt, Subsequences

CONSTANTS
    Tables,     \* names a user may give, valid or not: sequences of characters
    NameMax,    \* the longest valid name
    Sessions,
    MAX_AUTH_KEYS, MAX_OPEN_TABLES,
    MaxInits,   \* bound on the tables created, and on the keys
    Faults      \* what may fail, see AllFaults

AllFaults == {"crash", "meta", "tmp", "full", "rename", "append"}

ASSUME GatewayAssumption ==
    /\ Tables \subseteq Seq(STRING) \ {<<>>}
    /\ {NameMax, MAX_AUTH_KEYS, MAX_OPEN_TABLES} \subseteq Nat \ {0}
    /\ MaxInits \in Nat /\ Faults \subseteq AllFaults

VARIABLES
    folder,     \* of each table: "none", "bare" (no meta.bin) or "ready", and its creation
    auth_keys,  \* origin_data/.auth_keys
    auth_tmp,   \* origin_data/.auth_keys.tmp
    session,    \* of each command line: where it is in 'origin init'
    told,       \* the key printed for the table that now has the name, 0 if none
    inits,      \* keys generated so far, each with its table
    up,         \* the server runs
    jammed,     \* sync_worker waits for ever, see InsertJam
    auth_cache,
    open_tables,  \* the slots: the table and the creation that was opened
    reply,      \* the answer of the last step; the request it served, when it did
    mishaps     \* history: what has happened that is not undone, see Mishaps

disk == <<folder, auth_keys, auth_tmp>>
server == <<up, jammed, auth_cache, open_tables>>
vars == <<disk, session, told, inits, server, reply, mishaps>>

NoTable == <<>>

\* A file, and whether it ends inside a line.
NoFile == [exists |-> FALSE, lines |-> <<>>, cut |-> FALSE]
FileOf(lines, cut) == [exists |-> TRUE, lines |-> lines, cut |-> cut]

Idle == [pc |-> "idle", table |-> NoTable, key |-> 0]
NoReply == [table |-> NoTable, key |-> 0, status |-> 0, current |-> FALSE]

\* "garbled": two sessions have rewritten the key file at once, or a write of it has
\* ended inside a line.  "lost": a write of it has failed, or two sessions have
\* created one table.  "removed": a folder is gone that the server has open.
Mishaps == {"garbled", "lost", "removed"}

Init ==
    /\ folder = [t \in Tables |-> [state |-> "none", creation |-> 0]]
    /\ auth_keys = NoFile /\ auth_tmp = NoFile
    /\ session = [s \in Sessions |-> Idle]
    /\ told = [t \in Tables |-> 0] /\ inits = <<>>
    /\ up = FALSE /\ jammed = FALSE /\ auth_cache = <<>> /\ open_tables = <<>>
    /\ reply = NoReply /\ mishaps = {}

NoAnswer == reply' = NoReply
Note(m) == mishaps' = mishaps \cup {m}

Fails(f) == f \in Faults
At(s, where) == session[s].pc = where
Goto(s, where) == session' = [session EXCEPT ![s].pc = where]

Creations == MapThenSumSet(LAMBDA t : folder[t].creation, Tables)

--------------------------------------------------------------------------
(* Names.  A line of the key file is a name, a colon and a key; every other   *)
(* character is as good as any.                                               *)

Colons(n) == {i \in 1 .. Len(n) : n[i] = ":"}

\* Seeded fault: any name will do.
ValidateNothing(n) == TRUE

\* Not empty, not too long, and of letters, digits, '_' and '-'.
validate_db_name(n) == Len(n) \in 1 .. NameMax /\ Colons(n) = {}

\* What the server takes a line for: the name ends at the first colon and is cut
\* to what an entry holds; what follows is cut too, and no key when the name
\* had a colon.
CutName(n) == SubSeq(n, 1, Min({NameMax, Len(n)} \cup {i - 1 : i \in Colons(n)}))
Entry(l) == [table |-> CutName(l.table), key |-> IF Colons(l.table) = {} THEN l.key ELSE 0]

\* The line of name n begins with the name t and a colon.
Matches(n, t) ==
    \/ n = t
    \/ Len(t) < Len(n) /\ SubSeq(n, 1, Len(t)) = t /\ n[Len(t) + 1] = ":"

--------------------------------------------------------------------------
(* 'origin init'.                                                           *)

\* The command refuses a name whose folder exists, and a session that has a
\* table open; db_init refuses an invalid name before it does anything.
InitCheck(s, t) ==
    /\ At(s, "idle") /\ folder[t].state = "none" /\ validate_db_name(t)
    /\ session' = [session EXCEPT ![s] = [Idle EXCEPT !.pc = "make", !.table = t]]
    /\ NoAnswer /\ UNCHANGED <<disk, told, inits, server, mishaps>>

\* storage_init makes the folder and data.db, and is content with a folder that
\* is there by now.
MakeFolder(s) ==
    /\ At(s, "make") /\ Goto(s, "meta")
    /\ LET t == session[s].table IN
       \/ /\ folder[t].state = "none" /\ Creations < MaxInits
          /\ folder' = [folder EXCEPT ![t] = [state |-> "bare", creation |-> @.creation + 1]]
          /\ told' = [told EXCEPT ![t] = 0] /\ UNCHANGED mishaps
       \/ /\ folder[t].state # "none" /\ Note("lost") /\ UNCHANGED <<folder, told>>
    /\ NoAnswer /\ UNCHANGED <<auth_keys, auth_tmp, inits, server>>

\* db_init writes meta.bin; whether it could is not looked at.
InitMeta(s) ==
    /\ At(s, "meta") /\ Goto(s, "key")
    /\ LET t == session[s].table IN
       \/ /\ folder[t].state # "none"
          /\ folder' = [folder EXCEPT ![t].state = "ready"]
       \/ /\ Fails("meta") \/ folder[t].state = "none"
          /\ UNCHANGED folder
    /\ NoAnswer /\ UNCHANGED <<auth_keys, auth_tmp, told, inits, server, mishaps>>

generate_api_key(s) ==
    /\ At(s, "key") /\ Len(inits) < MaxInits
    /\ inits' = Append(inits, session[s].table)
    /\ session' = [session EXCEPT ![s].pc = "prune", ![s].key = Len(inits')]
    /\ NoAnswer /\ UNCHANGED <<disk, told, server, mishaps>>

\* Seeded fault: the lines of a removed table stay, as they did before
\* prune_api_key was written.
PrunedNothing(lines, t) == lines

Pruned(lines, t) == Picked(lines, {i \in 1 .. Len(lines) : ~Matches(lines[i].table, t)})

\* prune_api_key up to the rename: the lines of other tables go to the .tmp
\* file.  What fputs and fclose return is not looked at, so a full disk leaves
\* a copy that ends early, inside a line.
PruneCopy(s) ==
    /\ At(s, "prune")
    /\ LET kept == Pruned(auth_keys.lines, session[s].table)
           overlap == IF \E r \in Sessions : At(r, "rename") \/ At(r, "append")
                      THEN {"garbled"} ELSE {}
       IN
       \/ /\ auth_keys.exists /\ auth_tmp' = FileOf(kept, auth_keys.cut)
          /\ Goto(s, "rename") /\ mishaps' = mishaps \cup overlap
       \/ /\ auth_keys.exists /\ Fails("full")
          /\ \E n \in 0 .. Len(kept) - 1 : auth_tmp' = FileOf(SubSeq(kept, 1, n), TRUE)
          /\ Goto(s, "rename") /\ Note("garbled")
       \/ /\ auth_keys.exists /\ Fails("tmp")
          /\ UNCHANGED auth_tmp /\ Goto(s, "append") /\ Note("lost")
       \/ /\ ~auth_keys.exists
          /\ UNCHANGED auth_tmp /\ Goto(s, "append") /\ mishaps' = mishaps \cup overlap
    /\ NoAnswer /\ UNCHANGED <<folder, auth_keys, told, inits, server>>

\* The rename; when it fails the .tmp file is removed and the old file stays.
PruneRename(s) ==
    /\ At(s, "rename") /\ Goto(s, "append")
    /\ \/ auth_tmp.exists /\ auth_keys' = auth_tmp /\ UNCHANGED mishaps
       \/ (~auth_tmp.exists \/ Fails("rename")) /\ UNCHANGED auth_keys /\ Note("lost")
    /\ auth_tmp' = NoFile
    /\ NoAnswer /\ UNCHANGED <<folder, told, inits, server>>

prune_api_key(s) == PruneCopy(s) \/ PruneRename(s)

\* The names a line may come to have: its own, or any when what is left of an
\* unfinished line stands before it.
NamesAfter(t) == IF auth_keys.cut THEN Tables ELSE {t}

\* The rest of save_api_key, and the command prints the key, stored or not.
save_api_key(s) ==
    /\ At(s, "append") /\ session' = [session EXCEPT ![s] = [Idle EXCEPT !.pc = "open"]]
    /\ LET t == session[s].table IN
       /\ \/ /\ \E n \in NamesAfter(t) :
                   auth_keys' = FileOf(Append(auth_keys.lines,
                                              [table |-> n, key |-> session[s].key]), FALSE)
             /\ UNCHANGED mishaps
          \/ Fails("append") /\ UNCHANGED auth_keys /\ Note("lost")
          \/ Fails("full") /\ auth_keys' = FileOf(auth_keys.lines, TRUE) /\ Note("garbled")
       /\ told' = [told EXCEPT ![t] = session[s].key]
    /\ NoAnswer /\ UNCHANGED <<folder, auth_tmp, inits, server>>

\* 'origin exit', or the process ends anywhere on the way.
SessionEnds(s) ==
    /\ At(s, "open") \/ (~At(s, "idle") /\ Fails("crash"))
    /\ session' = [session EXCEPT ![s] = Idle]
    /\ NoAnswer /\ UNCHANGED <<disk, told, inits, server, mishaps>>

Slots(t) == {i \in 1 .. Len(open_tables) : open_tables[i].table = t}

\* External: the owner removes a table's folder by hand, no command being at
\* work on it.  The table is gone, and with it the key's use.
RemoveFolder(t) ==
    /\ folder[t].state # "none"
    /\ \A s \in Sessions : session[s].table # t
    /\ folder' = [folder EXCEPT ![t].state = "none"]
    /\ told' = [told EXCEPT ![t] = 0]
    /\ IF Slots(t) # {} THEN Note("removed") ELSE UNCHANGED mishaps
    /\ NoAnswer /\ UNCHANGED <<auth_keys, auth_tmp, session, inits, server>>

--------------------------------------------------------------------------
(* The server.                                                              *)

\* The first MAX_AUTH_KEYS lines; without a file the cache stays as it is.
Loaded ==
    IF auth_keys.exists
    THEN [i \in 1 .. Min({Len(auth_keys.lines), MAX_AUTH_KEYS}) |-> Entry(auth_keys.lines[i])]
    ELSE auth_cache

ServerStart ==
    /\ ~up /\ up' = TRUE
    /\ auth_cache' = Loaded
    /\ NoAnswer /\ UNCHANGED <<disk, session, told, inits, jammed, open_tables, mishaps>>

\* External: the server ends, and its memory with it.
ServerStop ==
    /\ up /\ up' = FALSE /\ jammed' = FALSE
    /\ auth_cache' = <<>> /\ open_tables' = <<>>
    /\ NoAnswer /\ UNCHANGED <<disk, session, told, inits, mishaps>>

\* An insert holds a table's lock and wants its queue, sync_worker holds the queue
\* and wants the lock (the jam of ServerLocks): there are no more rounds.
InsertJam ==
    /\ up /\ ~jammed /\ jammed' = TRUE
    /\ NoAnswer /\ UNCHANGED <<disk, session, told, inits, up, auth_cache, open_tables, mishaps>>

\* Seeded fault: the keys are read at the start only.
ReloadNever ==
    /\ up /\ NoAnswer /\ UNCHANGED <<disk, session, told, inits, server, mishaps>>

\* sync_worker reads the keys again in every round.
load_auth_cache ==
    /\ up /\ ~jammed
    /\ auth_cache' = Loaded
    /\ NoAnswer /\ UNCHANGED <<disk, session, told, inits, up, jammed, open_tables, mishaps>>

LinesOf(lines, t) == Picked(lines, {i \in 1 .. Len(lines) : lines[i].table = t})
KeyIn(lines, t) == IF LinesOf(lines, t) = <<>> THEN 0 ELSE Head(LinesOf(lines, t)).key

\* The first line of that name decides.
verify_api_key(t, k) == k # 0 /\ KeyIn(auth_cache, t) = k

\* Seeded fault: what db_open returns is not looked at.
OpenUnready(t) ==
    \/ Slots(t) # {} /\ UNCHANGED open_tables
    \/ /\ Slots(t) = {} /\ Len(open_tables) < MAX_OPEN_TABLES
       /\ open_tables' = Append(open_tables, [table |-> t, creation |-> folder[t].creation])

\* db_open needs a valid name and meta.bin; the slots are never given back.
get_or_open_table(t) ==
    \/ Slots(t) # {} /\ UNCHANGED open_tables
    \/ /\ Slots(t) = {} /\ Len(open_tables) < MAX_OPEN_TABLES
       /\ validate_db_name(t) /\ folder[t].state = "ready"
       /\ open_tables' = Append(open_tables, [table |-> t, creation |-> folder[t].creation])

NotOpened(t) ==
    /\ Slots(t) = {}
    /\ \/ Len(open_tables) >= MAX_OPEN_TABLES
       \/ ~validate_db_name(t) \/ folder[t].state # "ready"

Refused(status) == reply' = [NoReply EXCEPT !.status = status]
Answered(t, k, current) ==
    reply' = [table |-> t, key |-> k, status |-> 200, current |-> current]

\* A search, an insert or a training: first the key, then the table.
handel_client(t, k) ==
    /\ up
    /\ \/ /\ ~verify_api_key(t, k)
          /\ Refused(401) /\ UNCHANGED open_tables
       \/ /\ verify_api_key(t, k) /\ NotOpened(t)
          /\ Refused(404) /\ UNCHANGED open_tables
       \/ /\ verify_api_key(t, k) /\ get_or_open_table(t)
          /\ Answered(t, k,
                \E i \in 1 .. Len(open_tables') :
                    /\ open_tables'[i] = [table |-> t, creation |-> folder[t].creation]
                    /\ folder[t].state = "ready")
    /\ UNCHANGED <<disk, session, told, inits, up, jammed, auth_cache, mishaps>>

Next ==
    \/ \E s \in Sessions :
        \/ \E t \in Tables : InitCheck(s, t)
        \/ MakeFolder(s) \/ InitMeta(s) \/ generate_api_key(s) \/ prune_api_key(s) \/ save_api_key(s)
        \/ SessionEnds(s)
    \/ \E t \in Tables : RemoveFolder(t)
    \/ ServerStart \/ ServerStop \/ InsertJam \/ load_auth_cache
    \/ \E t \in Tables, k \in 1 .. Len(inits) : handel_client(t, k)

Spec == Init /\ [][Next]_vars

\* sync_worker's rounds go on for as long as the server runs and is not jammed.
FairSpec == Spec /\ WF_vars(load_auth_cache)

--------------------------------------------------------------------------
(* Properties.                                                              *)

TypeOK ==
    /\ folder \in [Tables -> [state : {"none", "bare", "ready"}, creation : Nat]]
    /\ auth_keys.exists \in BOOLEAN
    /\ \A i \in 1 .. Len(auth_keys.lines) :
          auth_keys.lines[i] \in [table : Tables, key : 1 .. Len(inits)]
    /\ \A s \in Sessions : session[s].table \in Tables \cup {NoTable}
    /\ \A s \in Sessions :
          session[s].pc \in {"idle", "make", "meta", "key", "prune", "rename", "append", "open"}
    /\ \A t \in Tables : told[t] \in 0 .. Len(inits)
    /\ Len(auth_cache) <= MAX_AUTH_KEYS
    /\ Len(open_tables) <= MAX_OPEN_TABLES
    /\ ~up => open_tables = <<>> /\ auth_cache = <<>> /\ ~jammed
    /\ mishaps \subseteq Mishaps

\* A key opens the table it was generated for and no other, however the lines are
\* cut when they are read and whatever sessions end, fail or create a table twice,
\* because only valid names come to be written (validate_db_name, save_api_key,
\* load_auth_cache, verify_api_key).  Two copies of the key file laid over each
\* other, or a line that continues an unfinished one, may say anything.
KeyOpensOwnTable ==
    reply.status = 200 => \/ inits[reply.key] = reply.table
                          \/ "garbled" \in mishaps

KeyFileSound == mishaps \cap {"garbled", "lost"} = {}

\* Unless two sessions created one table or were in save_api_key at once, or a
\* write of the key file failed, the key the owner was given is the one the file
\* gives for the table, and there is no second line that could hide it or be hidden
\* by it; sessions may end anywhere and folders be removed and created again.
ToldKeyStored ==
    KeyFileSound =>
        \A t \in Tables : told[t] # 0 =>
            LinesOf(auth_keys.lines, t) = <<[table |-> t, key |-> told[t]]>>

\* A request that is answered 200 was served from the folder that has the name,
\* unless a folder was removed under the server (get_or_open_table's slots, of
\* which there are never more than MAX_OPEN_TABLES).
ServesCurrentTable ==
    /\ TypeOK
    /\ reply.status = 200 => reply.current \/ "removed" \in mishaps

\* A server that is not jammed comes to accept the key the owner was given, for as
\* long as the key file is sound and the key's line is not past the lines that the
\* cache takes (load_auth_cache).
KeyComesToWork ==
    LET Holds(t) ==
            /\ up /\ ~jammed /\ told[t] # 0 /\ KeyFileSound
            /\ \E n \in 1 .. Len(auth_keys.lines) :
                  n <= MAX_AUTH_KEYS /\ auth_keys.lines[n].table = t
    IN  \A t \in Tables : Holds(t) ~> (verify_api_key(t, told[t]) \/ ~Holds(t))
=============================================================================
