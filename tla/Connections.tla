---------------------------- MODULE Connections ----------------------------
(* The connections of server.c: acceptor_loop, the epoll workers running     *)
(* handle_conn_event, and the part of sync_worker that closes idle           *)
(* connections.  A connection object (conn_state_t) is allocated at most     *)
(* once, and names the client socket it was accepted for; a descriptor is a  *)
(* small number the kernel gives out again as soon as it is closed.  Times   *)
(* are kept relative to the clock: the age of a connection is now -          *)
(* last_active, and skew is how far the clock has moved since sync_worker    *)
(* read it.                                                                  *)
EXTENDS Integers, FiniteSets

CONSTANTS
    Conns,          \* conn_state_t objects, numbered in the order of allocation
    NoConn,         \* NULL
    Workers,        \* epoll worker threads
    Fds,            \* descriptors, 0 .. n - 1
    MAX_CONNECTIONS,
    HeaderCap,      \* sizeof(header_buffer) - 1
    MaxBody,        \* 10485760
    Lengths,        \* what atoi makes of the Content-Length clients send
    Kinds,          \* what clients ask for, see AllKinds
    IdleLimit,      \* 300
    TimeModulus     \* 2^64

AllKinds == {"route", "unknown"}

ASSUME ConnectionsAssumption ==
    /\ Conns \subseteq Nat /\ NoConn \notin Conns
    /\ Fds \subseteq Nat /\ 0 \in Fds /\ MAX_CONNECTIONS \in Nat
    /\ HeaderCap \in Nat \ {0} /\ MaxBody \in Nat
    /\ Lengths \subseteq Int /\ Kinds \subseteq AllKinds
    /\ IdleLimit \in Nat /\ TimeModulus \in Nat /\ TimeModulus > 2 * IdleLimit + 4

VARIABLES
    conn,                \* the objects, see ConnState
    sock,                \* the socket each descriptor refers to, or NoConn
    epoll,               \* the epoll entry of each socket
    active_connections,
    pc, cur, events,     \* of each worker: position, conn, rest of the batch
    acc, new_conn,       \* the acceptor's position and conn
    sync, scan, skew,    \* sync_worker's position, loop index, age of its now
    mishap               \* history, see Mishaps

vars == <<conn, sock, epoll, active_connections, pc, cur, events, acc, new_conn,
          sync, scan, skew, mishap>>
kernel == <<sock, epoll>>
worker == <<pc, cur, events>>
acceptor == <<acc, new_conn>>
sweeper == <<sync, scan, skew>>

\* What ends the model: a descriptor that handel_client has closed was given to
\* another client while a worker still means to close it, the sweep freed a
\* connection that a thread had in its hands, or memcpy was given a negative
\* length, which as a size_t is larger than any buffer.
Mishaps == {"none", "reused", "swept", "overrun"}

AgeCap == IdleLimit + 2

ConnState ==
    [st : {"none", "live", "freed"}, fd : Fds,
     phase : {"CONN_READING_HEADERS", "CONN_READING_BODY", "CONN_DONE"},
     header_length : 0 .. HeaderCap, content_length : Int, http_body : BOOLEAN,
     body_bytes_read : Nat, age : 0 .. AgeCap]

\* A conn_state_t as calloc and the acceptor leave it.
Fresh(fd) ==
    [st |-> "live", fd |-> fd, phase |-> "CONN_READING_HEADERS",
     header_length |-> 0, content_length |-> 0, http_body |-> FALSE,
     body_bytes_read |-> 0, age |-> 0]

\* What an object holds after free is of no interest.
Freed == [Fresh(0) EXCEPT !.st = "freed"]

NotRegistered == [reg |-> FALSE, ptr |-> NoConn, armed |-> FALSE]

\* After server_init: the threads run, nothing is connected.
Init ==
    /\ conn = [c \in Conns |-> [Fresh(0) EXCEPT !.st = "none"]]
    /\ sock = [fd \in Fds |-> NoConn]
    /\ epoll = [c \in Conns |-> NotRegistered]
    /\ active_connections = [fd \in Fds |-> NoConn]
    /\ pc = [w \in Workers |-> "wait"]
    /\ cur = [w \in Workers |-> NoConn] /\ events = [w \in Workers |-> {}]
    /\ acc = "accept" /\ new_conn = NoConn
    /\ sync = "sleep" /\ scan = 0 /\ skew = 0 /\ mishap = "none"

Live(c) == conn[c].st = "live"
Ok == mishap = "none"

\* The conns a thread may still dereference.
Held(w) == events[w] \cup ({cur[w]} \ {NoConn})
InHands == (UNION {Held(w) : w \in Workers}) \cup ({new_conn} \ {NoConn})

--------------------------------------------------------------------------
(* close(fd): the descriptor is free, its socket leaves the epoll set.      *)
CloseFd(fd) ==
    /\ sock' = [sock EXCEPT ![fd] = NoConn]
    /\ epoll' = IF sock[fd] = NoConn THEN epoll
                ELSE [epoll EXCEPT ![sock[fd]] = NotRegistered]

Track(fd, c) ==
    active_connections' = IF fd < MAX_CONNECTIONS
                            THEN [active_connections EXCEPT ![fd] = c]
                            ELSE active_connections

--------------------------------------------------------------------------
(* acceptor_loop.                                                           *)

\* The kernel gives the lowest descriptor that is not open.
Accept ==
    /\ Ok /\ acc = "accept"
    /\ \E c \in Conns, fd \in Fds :
        /\ conn[c].st = "none" /\ \A d \in Conns : d < c => conn[d].st # "none"
        /\ sock[fd] = NoConn /\ \A g \in Fds : g < fd => sock[g] # NoConn
        /\ sock' = [sock EXCEPT ![fd] = c]
        /\ conn' = [conn EXCEPT ![c] = Fresh(fd)]
        /\ new_conn' = c
        /\ mishap' = IF \E d \in InHands : conn[d].fd = fd THEN "reused" ELSE "none"
    /\ acc' = "track"
    /\ UNCHANGED <<epoll, active_connections, worker, sweeper>>

TrackNew ==
    /\ Ok /\ acc = "track"
    /\ Track(conn[new_conn].fd, new_conn)
    /\ acc' = "add"
    /\ UNCHANGED <<conn, kernel, worker, new_conn, sweeper, mishap>>

\* EPOLL_CTL_ADD; when it fails the connection is closed again.
AddNew ==
    LET fd == conn[new_conn].fd IN
    /\ Ok /\ acc = "add"
    /\ \/ /\ sock[fd] # NoConn /\ ~epoll[sock[fd]].reg
          /\ epoll' = [epoll EXCEPT ![sock[fd]] =
                        [reg |-> TRUE, ptr |-> new_conn, armed |-> TRUE]]
          /\ UNCHANGED <<conn, sock, active_connections>>
       \/ /\ Track(fd, NoConn)
          /\ CloseFd(fd)
          /\ conn' = [conn EXCEPT ![new_conn] = Freed]
    /\ acc' = "accept" /\ new_conn' = NoConn
    /\ UNCHANGED <<worker, sweeper, mishap>>

--------------------------------------------------------------------------
(* epoll_worker_loop and handle_conn_event.                                 *)

Goto(w, from, to) == Ok /\ pc[w] = from /\ pc' = [pc EXCEPT ![w] = to]

\* epoll_wait hands over a batch; each entry is one-shot and now disarmed.
epoll_wait(w) ==
    /\ Goto(w, "wait", "next")
    /\ \E S \in SUBSET {s \in Conns : epoll[s].armed} :
        /\ S # {}
        /\ events' = [events EXCEPT ![w] = {epoll[s].ptr : s \in S}]
        /\ epoll' = [s \in Conns |-> IF s \in S THEN [epoll[s] EXCEPT !.armed = FALSE]
                                     ELSE epoll[s]]
    /\ UNCHANGED <<conn, sock, active_connections, cur, acceptor, sweeper, mishap>>

\* The next event of the batch; last_active is set.
BeginEvent(w) ==
    \/ /\ Goto(w, "next", "recv")
       /\ \E c \in events[w] :
            /\ Live(c)
            /\ cur' = [cur EXCEPT ![w] = c]
            /\ events' = [events EXCEPT ![w] = @ \ {c}]
            /\ conn' = [conn EXCEPT ![c].age = 0]
       /\ UNCHANGED <<kernel, active_connections, acceptor, sweeper, mishap>>
    \/ /\ Goto(w, "next", "wait")
       /\ events[w] = {}
       /\ UNCHANGED <<conn, kernel, active_connections, cur, events, acceptor, sweeper, mishap>>

\* Content-Length is refused when it is 0 or above the limit, and below -1 calloc
\* is asked for more than there is; -1 passes, with a body of no bytes.
Refused(len) == len = 0 \/ len > MaxBody \/ len < -1

\* recv returned n bytes.  When they complete the headers, r of them are body;
\* what exceeds the announced length is dropped.
ReadHeaders(w, n) ==
    LET c == cur[w]
        Grown == [conn[c] EXCEPT !.header_length = @ + n]
    IN
    /\ conn[c].phase = "CONN_READING_HEADERS"
    /\ n <= HeaderCap - conn[c].header_length
    /\ \/ conn' = [conn EXCEPT ![c] = Grown] /\ pc' = pc
       \/ \E len \in Lengths :
            /\ Refused(len)
            /\ conn' = [conn EXCEPT ![c] = Grown]
            /\ pc' = [pc EXCEPT ![w] = "close"]
       \/ \E len \in Lengths, r \in 0 .. n - 1 :
            LET take == IF r > len THEN len ELSE r
                got == IF r > 0 THEN take ELSE conn[c].body_bytes_read
            IN
            /\ ~Refused(len) /\ (r > 0 => take >= 0)
            /\ conn' = [conn EXCEPT ![c] = [Grown EXCEPT
                    !.http_body = TRUE, !.content_length = len, !.body_bytes_read = got,
                    !.phase = IF got >= len THEN "CONN_DONE" ELSE "CONN_READING_BODY"]]
            /\ pc' = [pc EXCEPT ![w] = IF got >= len THEN "handle" ELSE "recv"]
    /\ mishap' = mishap

\* The same with a length of -1 and bytes behind the headers: take is negative.
CopyNegative(w, n) ==
    /\ conn[cur[w]].phase = "CONN_READING_HEADERS"
    /\ n <= HeaderCap - conn[cur[w]].header_length
    /\ \E len \in Lengths, r \in 1 .. n - 1 : ~Refused(len) /\ len < 0
    /\ mishap' = "overrun"
    /\ UNCHANGED <<conn, pc>>

ReadBody(w, n) ==
    LET c == cur[w]
        got == conn[c].body_bytes_read + n
    IN
    /\ conn[c].phase = "CONN_READING_BODY"
    /\ got <= conn[c].content_length
    /\ conn' = [conn EXCEPT ![c].body_bytes_read = got,
                  ![c].phase = IF got = conn[c].content_length THEN "CONN_DONE" ELSE @]
    /\ pc' = [pc EXCEPT ![w] = IF got = conn[c].content_length THEN "handle" ELSE "recv"]
    /\ mishap' = mishap

\* Seeded fault: the end of the stream closes the descriptor and the loop goes on.
EventClosesFd(w) ==
    /\ pc[w] = "recv" /\ Live(cur[w])
    /\ \/ /\ CloseFd(conn[cur[w]].fd) /\ pc' = pc
       \/ /\ pc' = [pc EXCEPT ![w] = "close"] /\ UNCHANGED kernel
    /\ UNCHANGED <<conn, active_connections, cur, events, acceptor, sweeper, mishap>>

\* One turn of the loop: data, nothing more for now, or the end of it (the
\* client closed, an error, no memory for the body, a full header buffer).
handle_conn_event(w) ==
    /\ Ok /\ pc[w] = "recv" /\ Live(cur[w])
    /\ \/ \E n \in 1 .. HeaderCap + MaxBody :
            ReadHeaders(w, n) \/ CopyNegative(w, n) \/ ReadBody(w, n)
       \/ /\ conn' = conn /\ mishap' = mishap
          /\ pc' \in {[pc EXCEPT ![w] = "rearm"], [pc EXCEPT ![w] = "close"]}
    /\ UNCHANGED <<kernel, active_connections, cur, events, acceptor, sweeper>>

\* handel_client.  A request for no known route has its descriptor closed.
handel_client(w) ==
    /\ Goto(w, "handle", "reply") /\ Live(cur[w])
    /\ \E kind \in Kinds :
        IF kind = "unknown" THEN CloseFd(conn[cur[w]].fd) ELSE UNCHANGED kernel
    /\ UNCHANGED <<conn, active_connections, cur, events, acceptor, sweeper, mishap>>

\* Seeded fault: the reply is sent and the counters of the request are kept.
ReplyWithoutReset(w) ==
    LET c == cur[w] IN
    /\ pc[w] = "reply" /\ Live(c)
    /\ conn' = [conn EXCEPT ![c].phase = "CONN_READING_HEADERS",
                            ![c].header_length = 0, ![c].http_body = FALSE]
    /\ pc' = [pc EXCEPT ![w] = "rearm"]
    /\ UNCHANGED <<kernel, active_connections, cur, events, acceptor, sweeper, mishap>>

\* The reply has gone out (or could not be sent within its deadline: nobody
\* looks at the result).  The client asked to close, or the object is made
\* ready for the next request.
Reply(w) ==
    LET c == cur[w] IN
    /\ Ok /\ pc[w] = "reply" /\ Live(c)
    /\ \/ conn' = conn /\ pc' = [pc EXCEPT ![w] = "close"]
       \/ /\ conn' = [conn EXCEPT ![c] = [Fresh(@.fd) EXCEPT !.age = conn[c].age]]
          /\ pc' = [pc EXCEPT ![w] = "rearm"]
    /\ UNCHANGED <<kernel, active_connections, cur, events, acceptor, sweeper, mishap>>

\* Seeded fault: the descriptor is armed again before the request is handled.
RearmEarly(w) ==
    LET c == cur[w] IN
    /\ pc[w] = "rearm" /\ Live(c)
    /\ pc' = [pc EXCEPT ![w] = "recv"]
    /\ epoll' = [epoll EXCEPT ![c].ptr = c, ![c].armed = TRUE]
    /\ UNCHANGED <<conn, sock, active_connections, cur, events, acceptor, sweeper, mishap>>

\* EPOLL_CTL_MOD acts on whatever socket the descriptor refers to now.
rearm(w) ==
    LET c == cur[w]
        s == sock[conn[c].fd]
    IN
    /\ Ok /\ pc[w] = "rearm" /\ Live(c)
    /\ IF s # NoConn /\ epoll[s].reg
         THEN /\ epoll' = [epoll EXCEPT ![s] = [@ EXCEPT !.ptr = c, !.armed = TRUE]]
              /\ pc' = [pc EXCEPT ![w] = "next"]
              /\ cur' = [cur EXCEPT ![w] = NoConn]
         ELSE pc' = [pc EXCEPT ![w] = "close"] /\ UNCHANGED <<epoll, cur>>
    /\ UNCHANGED <<conn, sock, active_connections, events, acceptor, sweeper, mishap>>

\* Seeded fault: the object stays in the table when it is freed.
CloseUntracked(w) ==
    /\ Goto(w, "close", "close_fd") /\ Live(cur[w])
    /\ UNCHANGED <<conn, kernel, active_connections, cur, events, acceptor, sweeper, mishap>>

\* close_conn: first the table of connections, under its lock ...
close_conn(w) ==
    /\ Goto(w, "close", "close_fd") /\ Live(cur[w])
    /\ Track(conn[cur[w]].fd, NoConn)
    /\ UNCHANGED <<conn, kernel, cur, events, acceptor, sweeper, mishap>>

\* ... then the descriptor and the object.
FreeConn(w) ==
    LET c == cur[w] IN
    /\ Goto(w, "close_fd", "next") /\ Live(c)
    /\ CloseFd(conn[c].fd)
    /\ conn' = [conn EXCEPT ![c] = Freed]
    /\ cur' = [cur EXCEPT ![w] = NoConn]
    /\ UNCHANGED <<active_connections, events, acceptor, sweeper, mishap>>

--------------------------------------------------------------------------
(* sync_worker's sweep over active_connections.                             *)

ReadNow ==
    /\ Ok /\ sync = "sleep" /\ sync' = "scan"
    /\ scan' = 0 /\ skew' = 0
    /\ UNCHANGED <<conn, kernel, active_connections, worker, acceptor, mishap>>

\* Seeded fault: a connection goes one second early.
ExpiredAtLimit(c) == (conn[c].age - skew) % TimeModulus >= IdleLimit

\* now - c->last_active > 300, in unsigned 64-bit arithmetic.
Expired(c) == (conn[c].age - skew) % TimeModulus > IdleLimit

\* Seeded fault: the sweep drops the connection from its table only.
SweepForgets ==
    /\ sync = "scan" /\ scan \in Fds /\ scan < MAX_CONNECTIONS
    /\ LET c == active_connections[scan] IN
       active_connections' =
            IF c # NoConn /\ Expired(c) THEN [active_connections EXCEPT ![scan] = NoConn]
            ELSE active_connections
    /\ scan' = scan + 1
    /\ UNCHANGED <<conn, kernel, worker, acceptor, sync, skew, mishap>>

\* One entry: EPOLL_CTL_DEL, close and free, whoever may be using it.
Sweep ==
    /\ Ok /\ sync = "scan" /\ scan \in Fds /\ scan < MAX_CONNECTIONS
    /\ LET c == active_connections[scan] IN
       IF c # NoConn /\ Live(c) /\ Expired(c)
         THEN /\ active_connections' = [active_connections EXCEPT ![scan] = NoConn]
              /\ CloseFd(conn[c].fd)
              /\ conn' = [conn EXCEPT ![c] = Freed]
              /\ mishap' = IF c \in InHands THEN "swept" ELSE "none"
         ELSE UNCHANGED <<conn, kernel, active_connections, mishap>>
    /\ scan' = scan + 1
    /\ UNCHANGED <<worker, acceptor, sync, skew>>

SweepEnds ==
    /\ Ok /\ sync = "scan" /\ ~(scan \in Fds /\ scan < MAX_CONNECTIONS)
    /\ sync' = "sleep" /\ scan' = 0 /\ skew' = 0
    /\ UNCHANGED <<conn, kernel, active_connections, worker, acceptor, mishap>>

\* A second passes.
Tick ==
    /\ Ok
    /\ conn' = [c \in Conns |->
                  IF conn[c].st = "live" /\ conn[c].age < AgeCap
                    THEN [conn[c] EXCEPT !.age = @ + 1] ELSE conn[c]]
    /\ skew' = IF sync = "scan" /\ skew = 0 THEN 1 ELSE skew
    /\ <<conn', skew'>> # <<conn, skew>>
    /\ UNCHANGED <<kernel, active_connections, worker, acceptor, sync, scan, mishap>>

--------------------------------------------------------------------------
acceptor_loop == Accept \/ TrackNew \/ AddNew

\* What a worker does outside handel_client, and the steps of a sweep begun.
OwnStep(w) ==
    \/ BeginEvent(w) \/ handle_conn_event(w) \/ Reply(w)
    \/ rearm(w) \/ close_conn(w) \/ FreeConn(w)
SweepStep == Sweep \/ SweepEnds

epoll_worker_loop(w) == OwnStep(w) \/ handel_client(w)

sync_worker == ReadNow \/ SweepStep

Next ==
    \/ acceptor_loop \/ sync_worker \/ Tick
    \/ \E w \in Workers : epoll_wait(w) \/ epoll_worker_loop(w)

Spec == Init /\ [][Next]_vars

\* The threads run and time passes.  The sockets do not block, so a worker does
\* not wait in recv, but epoll_wait may, and so may handel_client: a route can
\* wait for a lock that is never given back (pending_append_lock, or the insert
\* jam of ServerLocks).  The same jam may keep sync_worker from its next round;
\* the sweep itself takes locks that no thread keeps.
FairSpec ==
    /\ Spec
    /\ WF_vars(TrackNew \/ AddNew) /\ WF_vars(SweepStep) /\ SF_vars(Tick)
    /\ \A w \in Workers : WF_vars(OwnStep(w))

--------------------------------------------------------------------------
(* Properties.                                                              *)

TypeOK ==
    /\ conn \in [Conns -> ConnState]
    /\ sock \in [Fds -> Conns \cup {NoConn}]
    /\ epoll \in [Conns -> [reg : BOOLEAN, ptr : Conns \cup {NoConn}, armed : BOOLEAN]]
    /\ active_connections \in [Fds -> Conns \cup {NoConn}]
    /\ pc \in [Workers -> {"wait", "next", "recv", "handle", "reply", "rearm", "close", "close_fd"}]
    /\ cur \in [Workers -> Conns \cup {NoConn}] /\ events \in [Workers -> SUBSET Conns]
    /\ acc \in {"accept", "track", "add"} /\ new_conn \in Conns \cup {NoConn}
    /\ sync \in {"sleep", "scan"} /\ scan \in Nat /\ skew \in 0 .. 1
    /\ mishap \in Mishaps

\* No thread holds a pointer to a connection that has been freed: the worker
\* that serves it, the batch epoll_wait returned, the acceptor, the table of
\* active connections and the epoll set itself.
NoDanglingConn ==
    \/ ~Ok
    \/ /\ \A c \in InHands : Live(c)
       /\ \A fd \in Fds : active_connections[fd] # NoConn => Live(active_connections[fd])
       /\ \A s \in Conns : epoll[s].armed => Live(epoll[s].ptr)

\* One-shot events and rearming give each connection to one thread at a time,
\* and no socket is armed while a thread works on its connection; and none is
\* forgotten: every live connection is armed, in a thread's hands or on its way
\* into the epoll set, so that an event or the sweep will find it.
OneOwner ==
    \/ ~Ok
    \/ /\ \A w, v \in Workers : w # v => Held(w) \cap Held(v) = {}
       /\ \A w \in Workers, s \in Conns : epoll[s].armed =>
               /\ epoll[s].ptr \notin Held(w)
               /\ cur[w] # NoConn => sock[conn[cur[w]].fd] # s
       /\ \A c \in Conns : Live(c) => c \in InHands \/ (epoll[c].armed /\ epoll[c].ptr = c)

\* A descriptor a thread reads from, writes to, rearms or closes is the one of
\* the client its connection object was accepted for; after a request for no
\* known route it is closed.
OwnDescriptor ==
    \/ ~Ok
    \/ \A c \in InHands : Live(c) =>
         \/ sock[conn[c].fd] = c
         \/ /\ sock[conn[c].fd] = NoConn
            /\ \E w \in Workers : cur[w] = c /\ pc[w] \in {"reply", "rearm", "close", "close_fd"}

\* The size of the body's allocation: calloc(content_length + 1, 1).
Room(c) == conn[c].content_length + 1

\* What the header buffer and the body hold fits, and the body keeps a byte for
\* its terminator unless its length was -1.
BuffersInv ==
    /\ TypeOK
    /\ \A c \in Conns : Live(c) =>
        /\ conn[c].header_length <= HeaderCap
        /\ conn[c].phase # "CONN_READING_HEADERS" =>
                /\ conn[c].http_body /\ conn[c].body_bytes_read <= Room(c)
                /\ Room(c) > 0 => conn[c].body_bytes_read < Room(c)
        /\ conn[c].phase = "CONN_READING_BODY" =>
                conn[c].body_bytes_read < conn[c].content_length
        /\ conn[c].phase = "CONN_READING_HEADERS" => conn[c].body_bytes_read = 0

\* recv and memcpy never write past header_buffer or past the allocated body,
\* over any number of requests on one connection (and every variable keeps its
\* type), but for the copy under a length of -1, of which nothing is claimed.
WithinBuffers == TypeOK /\ (mishap = "overrun" \/ BuffersInv)

\* The sweep closes no connection that was used within the idle limit, but for
\* one used in the second after sync_worker has read the clock: its age is then
\* negative, and in unsigned arithmetic very large.
KeptAlive ==
    [][sync = "scan" /\ scan' = scan + 1 =>
         \A c \in Conns : Live(c) /\ conn'[c].st = "freed" =>
            conn[c].age > IdleLimit \/ conn[c].age < skew]_vars

\* A connection that waits for its client is served or closed in the end, for
\* as long as sync_worker makes its rounds: none keeps its descriptor for ever
\* without traffic.  And a thread that has a connection gives it back, unless it
\* stays inside handel_client for good (with the rest of its batch).
IdleEnds ==
    \A c \in Conns :
        /\ []<>(sync = "scan") => []<>(c \in InHands \/ ~Live(c) \/ ~Ok)
        /\ \/ []<>(c \notin InHands \/ ~Ok)
           \/ <>[](\E w \in Workers : c \in Held(w) /\ pc[w] = "handle")

--------------------------------------------------------------------------
(* The inductive invariant behind the safety properties.                    *)

\* Where a worker has a connection, and where it may have closed the descriptor.
Serving == {"recv", "handle", "reply", "rearm", "close", "close_fd"}
Closing == {"reply", "rearm", "close", "close_fd"}

\* What the threads have in their hands is live, and is one thread's only.
HandsInv ==
    /\ \A c \in InHands : Live(c)
    /\ \A w, v \in Workers : w # v => Held(w) \cap Held(v) = {}
    /\ \A w \in Workers :
          /\ new_conn \notin Held(w) /\ cur[w] \notin events[w]
          /\ cur[w] # NoConn <=> pc[w] \in Serving
          /\ pc[w] = "wait" => events[w] = {}
    /\ new_conn # NoConn <=> acc # "accept"

\* An open descriptor is a live connection's, and a live connection's descriptor
\* is open or with the worker that answered an unknown route.
SocketInv ==
    /\ \A fd \in Fds : sock[fd] # NoConn => Live(sock[fd]) /\ conn[sock[fd]].fd = fd
    /\ \A c \in Conns : Live(c) =>
          \/ sock[conn[c].fd] = c
          \/ /\ sock[conn[c].fd] = NoConn
             /\ \E w \in Workers : cur[w] = c /\ pc[w] \in Closing

\* Armed are exactly the live connections that nobody has in hands.
ArmedInv ==
    \A c \in Conns :
        /\ epoll[c].armed => Live(c) /\ epoll[c].ptr = c /\ c \notin InHands
        /\ Live(c) /\ c \notin InHands => epoll[c].armed

\* The table lists live connections under their descriptors, and none that is
\* about to be freed.
TrackInv ==
    \A fd \in Fds : active_connections[fd] # NoConn =>
        /\ fd < MAX_CONNECTIONS
        /\ Live(active_connections[fd]) /\ conn[active_connections[fd]].fd = fd
        /\ \A w \in Workers :
              cur[w] = active_connections[fd] => pc[w] # "close_fd"

\* Until a mishap, pointers, descriptors and events match.
Links == HandsInv /\ SocketInv /\ ArmedInv /\ TrackInv
ConnInv == BuffersInv /\ (Ok => Links)
==========================================================================
