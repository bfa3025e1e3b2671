------------------------ MODULE ConnectionsProofs ------------------------
(* Pointers, descriptors and events match, and no buffer is passed, for any  *)
(* number of workers, connections and descriptors.                           *)
EXTENDS Connections, TLAPS

\* What BuffersInv says of one object.
Sized(c) ==
    c.st = "live" =>
        /\ c.header_length <= HeaderCap
        /\ c.phase # "CONN_READING_HEADERS" =>
                /\ c.http_body /\ c.body_bytes_read <= c.content_length + 1
                /\ c.content_length + 1 > 0 => c.body_bytes_read < c.content_length + 1
        /\ c.phase = "CONN_READING_BODY" => c.body_bytes_read < c.content_length
        /\ c.phase = "CONN_READING_HEADERS" => c.body_bytes_read = 0

Good(c) == c \in ConnState /\ Sized(c)

--------------------------------------------------------------------------
(* One object.                                                              *)

\* A second passes, or last_active is set.
LEMMA SetAge ==
    ASSUME NEW c, Good(c), NEW a \in 0 .. AgeCap
    PROVE  LET d == [c EXCEPT !.age = a]
           IN  Good(d) /\ d.st = c.st /\ d.fd = c.fd
BY DEF Good, ConnState, Sized

\* The object is not yet, or no longer, in use.
LEMMA SetUnused ==
    ASSUME NEW c \in ConnState, NEW st \in {"none", "freed"}
    PROVE  LET d == [c EXCEPT !.st = st]
           IN  Good(d) /\ d.st = st /\ d.fd = c.fd
BY DEF Good, ConnState, Sized

\* n more bytes of headers.
LEMMA SetHeader ==
    ASSUME NEW c, Good(c), NEW h \in 0 .. HeaderCap
    PROVE  LET d == [c EXCEPT !.header_length = h]
           IN  /\ Good(d) /\ d.st = c.st /\ d.fd = c.fd
               /\ d.body_bytes_read = c.body_bytes_read
<1>1. HeaderCap \in Nat
  BY ConnectionsAssumption
<1> QED BY <1>1 DEF Good, ConnState, Sized

\* What a body may hold: no more than was announced, or nothing.
Fits(d) == d.body_bytes_read <= d.content_length
           \/ (d.body_bytes_read = 0 /\ d.content_length = -1)

\* An object whose body has begun.
LEMMA BodyBegun ==
    ASSUME NEW d \in ConnState, d.phase # "CONN_READING_HEADERS", d.http_body = TRUE,
           Fits(d),
           d.phase = "CONN_READING_BODY" => d.body_bytes_read < d.content_length
    PROVE  Good(d)
<1>1. d.header_length <= HeaderCap
  BY ConnectionsAssumption DEF ConnState
<1>2. d.body_bytes_read \in Nat /\ d.content_length \in Int
  BY DEF ConnState
<1>3. /\ d.body_bytes_read <= d.content_length + 1
      /\ d.content_length + 1 > 0 => d.body_bytes_read < d.content_length + 1
  BY <1>2 DEF Fits
<1> QED BY <1>1, <1>3 DEF Good, Sized

\* As calloc and the acceptor leave it, and as free does.
LEMMA FreshGood ==
    ASSUME NEW fd \in Fds
    PROVE  Good(Fresh(fd)) /\ Fresh(fd).st = "live" /\ Fresh(fd).fd = fd
<1>1. Fresh(fd) \in ConnState
  BY ConnectionsAssumption DEF Fresh, ConnState, AgeCap
<1>2. Sized(Fresh(fd))
  BY ConnectionsAssumption DEF Fresh, Sized
<1> QED BY <1>1, <1>2 DEF Good, Fresh

\* What free leaves behind.
LEMMA FreedGood == Good(Freed) /\ Freed.st = "freed"
<1>1. Fresh(0) \in ConnState
  BY FreshGood, ConnectionsAssumption DEF Good
<1> QED BY <1>1, SetUnused DEF Freed

--------------------------------------------------------------------------
(* All objects.                                                             *)

AllGood == conn \in [Conns -> ConnState] /\ \A c \in Conns : Good(conn[c])

\* No object begins or ends, or has another descriptor.
SameShape ==
    \A d \in Conns : conn'[d].st = conn[d].st /\ conn'[d].fd = conn[d].fd

\* BuffersInv is a statement about each object.
LEMMA Buffers ==
    /\ BuffersInv <=> TypeOK /\ AllGood
    /\ BuffersInv' <=> TypeOK' /\ AllGood'
<1>1. BuffersInv <=> TypeOK /\ AllGood
  BY DEF BuffersInv, AllGood, Good, Sized, Room, Live, TypeOK
<1>2. BuffersInv' <=> TypeOK' /\ AllGood'
  BY DEF BuffersInv, AllGood, Good, Sized, Room, Live, TypeOK
<1> QED BY <1>1, <1>2

\* One object changes to one that is in order.
LEMMA OneGood ==
    ASSUME AllGood, NEW c \in Conns, NEW new, Good(new), conn' = [conn EXCEPT ![c] = new]
    PROVE  /\ AllGood'
           /\ new.st = conn[c].st /\ new.fd = conn[c].fd => SameShape
BY DEF AllGood, Good, SameShape

\* recv into the header buffer, with its three outcomes.
LEMMA HeadersGood ==
    ASSUME AllGood, NEW w \in Workers, NEW n \in 1 .. HeaderCap + MaxBody,
           cur[w] \in Conns, Live(cur[w]), ReadHeaders(w, n)
    PROVE  /\ AllGood' /\ SameShape
           /\ pc' = pc \/ \E p \in {"recv", "handle", "close"} : pc' = [pc EXCEPT ![w] = p]
<1> DEFINE c == cur[w]
           Grown == [conn[c] EXCEPT !.header_length = @ + n]
<1>1. Good(conn[c]) /\ conn[c] \in ConnState
  BY DEF AllGood
<1>2. n \in Nat /\ n > 0
  BY ConnectionsAssumption
<1>3. conn[c].header_length + n \in 0 .. HeaderCap
  <2>1. conn[c].header_length \in Nat /\ HeaderCap \in Nat
    BY <1>1, ConnectionsAssumption DEF ConnState
  <2>2. n <= HeaderCap - conn[c].header_length
    BY DEF ReadHeaders
  <2> QED BY <2>1, <2>2, <1>2
<1>4. /\ Good(Grown) /\ Grown.st = conn[c].st /\ Grown.fd = conn[c].fd
      /\ Grown.body_bytes_read = conn[c].body_bytes_read
  BY <1>1, <1>3, SetHeader
<1> HIDE DEF Grown
<1>5. CASE conn' = [conn EXCEPT ![c] = Grown]
           /\ (pc' = pc \/ pc' = [pc EXCEPT ![w] = "close"])
  BY <1>4, <1>5, OneGood
<1>6. ASSUME NEW len \in Lengths, NEW r \in 0 .. n - 1, ~Refused(len),
             r > 0 => (IF r > len THEN len ELSE r) >= 0,
             NEW got, got = IF r > 0 THEN (IF r > len THEN len ELSE r)
                            ELSE conn[c].body_bytes_read,
             conn' = [conn EXCEPT ![c] = [Grown EXCEPT
                    !.http_body = TRUE, !.content_length = len, !.body_bytes_read = got,
                    !.phase = IF got >= len THEN "CONN_DONE" ELSE "CONN_READING_BODY"]],
             pc' = [pc EXCEPT ![w] = IF got >= len THEN "handle" ELSE "recv"]
      PROVE  /\ AllGood' /\ SameShape
             /\ \E p \in {"recv", "handle", "close"} : pc' = [pc EXCEPT ![w] = p]
  <2> DEFINE full == [Grown EXCEPT
                    !.http_body = TRUE, !.content_length = len, !.body_bytes_read = got,
                    !.phase = IF got >= len THEN "CONN_DONE" ELSE "CONN_READING_BODY"]
  <2>1. len \in Int /\ got \in Nat /\ (got <= len \/ (got = 0 /\ len = -1))
    <3>1. len \in Int /\ r \in Nat
      BY <1>2, ConnectionsAssumption
    <3>2. conn[c].body_bytes_read = 0
      BY <1>1 DEF ReadHeaders, Good, Sized, Live
    <3>3. len >= -1 /\ len # 0
      BY <3>1, <1>6, ConnectionsAssumption DEF Refused
    <3>4. CASE r > 0
      <4>1. got = IF r > len THEN len ELSE r
        BY <3>4, <1>6
      <4>2. got >= 0 /\ got \in Int /\ got <= len
        BY <4>1, <3>1, <3>4, <1>6
      <4> QED BY <4>2, <3>1
    <3>5. CASE r = 0
      <4>1. got = 0
        BY <3>2, <3>5, <1>6
      <4> QED BY <4>1, <3>1, <3>3
    <3> QED BY <3>1, <3>4, <3>5
  <2>2. Good(full) /\ full.st = conn[c].st /\ full.fd = conn[c].fd
    <3>1. Grown \in ConnState /\ got \in Nat
      BY <1>4, <2>1 DEF Good
    <3>2. /\ full \in ConnState /\ full.st = Grown.st /\ full.fd = Grown.fd
          /\ full.http_body = TRUE /\ full.content_length = len /\ full.body_bytes_read = got
          /\ full.phase = IF got >= len THEN "CONN_DONE" ELSE "CONN_READING_BODY"
      BY <3>1, <2>1 DEF ConnState
    <3> HIDE DEF full
    <3>3. /\ full.phase # "CONN_READING_HEADERS" /\ Fits(full)
          /\ full.phase = "CONN_READING_BODY" => full.body_bytes_read < full.content_length
      BY <3>2, <2>1 DEF Fits
    <3>4. Good(full)
      BY <3>2, <3>3, BodyBegun, Zenon
    <3> QED BY <3>2, <3>4, <1>4
  <2>3. conn' = [conn EXCEPT ![c] = full]
    BY <1>6
  <2> HIDE DEF full
  <2>4. AllGood' /\ SameShape
    BY <2>2, <2>3, OneGood
  <2> QED BY <2>4, <1>6
<1> QED BY <1>5, <1>6 DEF ReadHeaders, Grown

\* recv into the body.
LEMMA BodyGood ==
    ASSUME AllGood, NEW w \in Workers, NEW n \in 1 .. HeaderCap + MaxBody,
           cur[w] \in Conns, Live(cur[w]), ReadBody(w, n)
    PROVE  /\ AllGood' /\ SameShape
           /\ pc' = pc \/ \E p \in {"recv", "handle", "close"} : pc' = [pc EXCEPT ![w] = p]
<1> DEFINE c == cur[w]
           got == conn[c].body_bytes_read + n
           new == [conn[c] EXCEPT !.body_bytes_read = got,
                     !.phase = IF got = conn[c].content_length THEN "CONN_DONE" ELSE @]
<1>1. Good(conn[c]) /\ conn[c] \in ConnState
  BY DEF AllGood
<1>2. n \in Nat /\ got \in Nat /\ got <= conn[c].content_length
  <2>1. n \in Nat
    BY ConnectionsAssumption
  <2>2. conn[c].body_bytes_read \in Nat
    BY <1>1 DEF ConnState
  <2> QED BY <2>1, <2>2 DEF ReadBody
<1>3. Good(new) /\ new.st = conn[c].st /\ new.fd = conn[c].fd
  <2>1. /\ new \in ConnState /\ new.st = conn[c].st /\ new.fd = conn[c].fd
        /\ new.http_body = conn[c].http_body /\ new.content_length = conn[c].content_length
        /\ new.body_bytes_read = got
        /\ new.phase = IF got = conn[c].content_length THEN "CONN_DONE" ELSE conn[c].phase
    BY <1>1, <1>2 DEF ConnState
  <2>2. conn[c].phase = "CONN_READING_BODY" /\ conn[c].st = "live"
    BY DEF ReadBody, Live
  <2>3. conn[c].http_body = TRUE /\ conn[c].content_length \in Int
    BY <1>1, <2>2 DEF Good, Sized, ConnState
  <2> HIDE DEF got, new
  <2>4. /\ new.phase # "CONN_READING_HEADERS" /\ new.body_bytes_read <= new.content_length
        /\ new.phase = "CONN_READING_BODY" => new.body_bytes_read < new.content_length
    BY <1>2, <2>1, <2>2, <2>3
  <2>5. Good(new)
    BY <2>1, <2>3, <2>4, BodyBegun, Zenon DEF Fits
  <2> QED BY <2>1, <2>5
<1>4. conn' = [conn EXCEPT ![c] = new]
  BY DEF ReadBody, AllGood
<1> HIDE DEF new
<1>5. AllGood' /\ SameShape
  BY <1>3, <1>4, OneGood
<1> QED BY <1>5 DEF ReadBody

--------------------------------------------------------------------------
(* Hands.                                                                   *)

\* InHands by its members, before and after a step.
LEMMA HandsAre ==
    /\ \A c : c \in InHands <=>
          \/ \E w \in Workers : c \in events[w] \/ (c = cur[w] /\ c # NoConn)
          \/ c = new_conn /\ c # NoConn
    /\ \A c : c \in InHands' <=>
          \/ \E w \in Workers : c \in events'[w] \/ (c = cur'[w] /\ c # NoConn)
          \/ c = new_conn' /\ c # NoConn
<1>1. ASSUME NEW c
      PROVE  c \in InHands <=> (\E w \in Workers : c \in Held(w)) \/ (c = new_conn /\ c # NoConn)
  <2>1. c \in UNION {Held(w) : w \in Workers} <=> \E w \in Workers : c \in Held(w)
    OBVIOUS
  <2> DEFINE U == UNION {Held(w) : w \in Workers}
  <2>2. InHands = U \cup ({new_conn} \ {NoConn})
    BY DEF InHands
  <2> HIDE DEF U
  <2>3. c \in InHands <=> c \in U \/ (c = new_conn /\ c # NoConn)
    BY <2>2
  <2> QED BY <2>1, <2>3 DEF U
<1>2. ASSUME NEW c
      PROVE  c \in InHands' <=>
                (\E w \in Workers : c \in Held(w)') \/ (c = new_conn' /\ c # NoConn)
  <2>1. c \in UNION {Held(w)' : w \in Workers} <=> \E w \in Workers : c \in Held(w)'
    OBVIOUS
  <2> DEFINE U == UNION {Held(w)' : w \in Workers}
  <2>2. InHands' = U \cup ({new_conn'} \ {NoConn})
    BY DEF InHands
  <2> HIDE DEF U
  <2>3. c \in InHands' <=> c \in U \/ (c = new_conn' /\ c # NoConn)
    BY <2>2
  <2> QED BY <2>1, <2>3 DEF U
<1>3. \A w, c : c \in Held(w) <=> c \in events[w] \/ (c = cur[w] /\ c # NoConn)
  BY DEF Held
<1>4. \A w, c : c \in Held(w)' <=> c \in events'[w] \/ (c = cur'[w] /\ c # NoConn)
  BY DEF Held
<1>5. \A c : c \in InHands <=>
          \/ \E w \in Workers : c \in events[w] \/ (c = cur[w] /\ c # NoConn)
          \/ c = new_conn /\ c # NoConn
  BY <1>1, <1>3
<1>6. \A c : c \in InHands' <=>
          \/ \E w \in Workers : c \in events'[w] \/ (c = cur'[w] /\ c # NoConn)
          \/ c = new_conn' /\ c # NoConn
  BY <1>2, <1>4
<1> QED BY <1>5, <1>6

\* A step that leaves cur, events and new_conn alone leaves the hands alone.
LEMMA SameHands ==
    ASSUME UNCHANGED <<cur, events, new_conn>>
    PROVE  InHands' = InHands /\ \A w \in Workers : Held(w)' = Held(w)
<1>1. \A w \in Workers : Held(w)' = Held(w)
  BY DEF Held
<1>2. InHands' = InHands
  BY DEF InHands, Held
<1> QED BY <1>1, <1>2

\* What is in hands is an object.
LEMMA HandsAreConns ==
    ASSUME TypeOK
    PROVE  /\ \A c \in InHands : c \in Conns
           /\ \A w \in Workers : Held(w) \subseteq InHands
           /\ NoConn \notin Conns
<1>1. \A w \in Workers : events[w] \subseteq Conns /\ cur[w] \in Conns \cup {NoConn}
  BY DEF TypeOK
<1>2. new_conn \in Conns \cup {NoConn}
  BY DEF TypeOK
<1>3. \A c \in InHands : c \in Conns
  BY <1>1, <1>2, HandsAre
<1>4. \A w \in Workers : Held(w) \subseteq InHands
  BY DEF InHands
<1> QED BY <1>3, <1>4, ConnectionsAssumption

\* A step that moves positions only, and never past what they stand for.
LEMMA KeepLinks ==
    ASSUME TypeOK, Links, SameShape,
           UNCHANGED <<sock, epoll, active_connections, cur, events, acc, new_conn>>,
           \A w \in Workers :
              /\ pc'[w] \in Serving <=> pc[w] \in Serving
              /\ pc[w] \in Closing => pc'[w] \in Closing
              /\ pc'[w] = "wait" => events[w] = {}
              /\ pc'[w] = "close_fd" => pc[w] = "close_fd"
    PROVE  Links'
<1>1. InHands' = InHands /\ \A w \in Workers : Held(w)' = Held(w)
  BY SameHands
<1>2. \A c \in Conns : Live(c)' <=> Live(c)
  BY DEF SameShape, Live
<1>3. HandsInv'
  BY <1>1, <1>2, HandsAreConns DEF HandsInv, Links
<1>4. SocketInv'
  <2>1. \A fd \in Fds : sock[fd] \in Conns \cup {NoConn}
    BY DEF TypeOK
  <2> QED BY <2>1, <1>2 DEF SocketInv, Links, SameShape
<1>5. ArmedInv'
  BY <1>1, <1>2 DEF ArmedInv, Links
<1>6. TrackInv'
  <2>1. \A fd \in Fds : active_connections[fd] \in Conns \cup {NoConn}
    BY DEF TypeOK
  <2> QED BY <2>1, <1>2 DEF TrackInv, Links, SameShape
<1> QED BY <1>3, <1>4, <1>5, <1>6 DEF Links

--------------------------------------------------------------------------
(* The steps of a worker that leave the hands alone.                        *)

Entry == [reg : BOOLEAN, ptr : Conns \cup {NoConn}, armed : BOOLEAN]

\* The parts of TypeOK that most steps leave alone.
LEMMA TypeKept ==
    ASSUME TypeOK, AllGood',
           UNCHANGED <<sock, epoll, active_connections, cur, events, acc, new_conn>>,
           pc' \in [Workers -> {"wait", "next", "recv", "handle", "reply", "rearm",
                                "close", "close_fd"}],
           sync' \in {"sleep", "scan"}, scan' \in Nat, skew' \in 0 .. 1, mishap' \in Mishaps
    PROVE  TypeOK'
BY DEF TypeOK, AllGood

\* The loop of handle_conn_event.
LEMMA EventKeeps ==
    ASSUME ConnInv, NEW w \in Workers, handle_conn_event(w)
    PROVE  ConnInv'
<1>1. TypeOK /\ AllGood /\ Links /\ Ok
  BY Buffers DEF ConnInv, handle_conn_event
<1>0. mishap' \in Mishaps /\ (Ok' => mishap' = mishap)
  BY <1>1 DEF handle_conn_event, ReadHeaders, ReadBody, CopyNegative, Mishaps, Ok, TypeOK
<1>2. cur[w] \in Conns /\ pc[w] = "recv"
  BY <1>1 DEF Links, HandsInv, Serving, TypeOK, handle_conn_event
<1>3. /\ AllGood' /\ SameShape
      /\ \/ pc' = pc
         \/ \E p \in {"recv", "handle", "close", "rearm"} : pc' = [pc EXCEPT ![w] = p]
  <2>1. CASE \E n \in 1 .. HeaderCap + MaxBody : ReadHeaders(w, n) \/ ReadBody(w, n)
    BY <2>1, <1>1, <1>2, HeadersGood, BodyGood DEF handle_conn_event
  <2>2. CASE /\ conn' = conn
             /\ pc' \in {pc, [pc EXCEPT ![w] = "rearm"], [pc EXCEPT ![w] = "close"]}
    BY <2>2, <1>1 DEF AllGood, SameShape
  <2> QED BY <2>1, <2>2 DEF handle_conn_event, CopyNegative
<1>4. /\ pc \in [Workers -> {"wait", "next", "recv", "handle", "reply", "rearm",
                             "close", "close_fd"}]
      /\ sync \in {"sleep", "scan"} /\ scan \in Nat /\ skew \in 0 .. 1 /\ mishap \in Mishaps
  BY <1>1 DEF TypeOK
<1>5. UNCHANGED <<sock, epoll, active_connections, cur, events, acc, new_conn,
                  sync, scan, skew>>
  BY DEF handle_conn_event, kernel, acceptor, sweeper
<1>6. TypeOK'
  BY <1>0, <1>1, <1>3, <1>4, <1>5, TypeKept
<1>7. \A v \in Workers :
          /\ pc'[v] \in Serving <=> pc[v] \in Serving
          /\ pc[v] \in Closing => pc'[v] \in Closing
          /\ pc'[v] = "wait" => pc[v] = "wait"
          /\ pc'[v] = "close_fd" => pc[v] = "close_fd"
  BY <1>2, <1>3, <1>4 DEF Serving, Closing
<1>8. Links'
  BY <1>1, <1>3, <1>5, <1>7, KeepLinks DEF Links, HandsInv
<1> QED BY <1>3, <1>6, <1>8, Buffers DEF ConnInv

\* The request has been answered.
LEMMA ReplyKeeps ==
    ASSUME ConnInv, NEW w \in Workers, Reply(w)
    PROVE  ConnInv'
<1>1. TypeOK /\ AllGood /\ Links /\ Ok
  BY Buffers DEF ConnInv, Reply
<1>2. cur[w] \in Conns /\ pc[w] = "reply" /\ Live(cur[w])
  BY <1>1 DEF Links, HandsInv, Serving, TypeOK, Reply
<1>3. AllGood' /\ SameShape /\ \E p \in {"close", "rearm"} : pc' = [pc EXCEPT ![w] = p]
  <2>1. CASE conn' = conn /\ pc' = [pc EXCEPT ![w] = "close"]
    BY <2>1, <1>1 DEF AllGood, SameShape
  <2>2. CASE /\ conn' = [conn EXCEPT ![cur[w]] =
                            [Fresh(conn[cur[w]].fd) EXCEPT !.age = conn[cur[w]].age]]
             /\ pc' = [pc EXCEPT ![w] = "rearm"]
    <3> DEFINE c == cur[w]
               new == [Fresh(conn[c].fd) EXCEPT !.age = conn[c].age]
    <3>1. conn[c].fd \in Fds /\ conn[c].age \in 0 .. AgeCap /\ conn[c].st = "live"
      BY <1>1, <1>2 DEF AllGood, ConnState, Live
    <3>2. /\ Good(Fresh(conn[c].fd)) /\ Fresh(conn[c].fd).st = "live"
          /\ Fresh(conn[c].fd).fd = conn[c].fd
      BY <3>1, FreshGood
    <3>3. Good(new) /\ new.st = conn[c].st /\ new.fd = conn[c].fd
      BY <3>1, <3>2, SetAge
    <3> HIDE DEF new
    <3>4. AllGood' /\ SameShape
      BY <3>3, <2>2, <1>1, <1>2, OneGood DEF new
    <3> QED BY <3>4, <2>2
  <2> QED BY <2>1, <2>2 DEF Reply
<1>4. /\ pc \in [Workers -> {"wait", "next", "recv", "handle", "reply", "rearm",
                             "close", "close_fd"}]
      /\ sync \in {"sleep", "scan"} /\ scan \in Nat /\ skew \in 0 .. 1 /\ mishap \in Mishaps
  BY <1>1 DEF TypeOK
<1>5. UNCHANGED <<sock, epoll, active_connections, cur, events, acc, new_conn,
                  sync, scan, skew, mishap>>
  BY DEF Reply, kernel, acceptor, sweeper
<1>6. TypeOK'
  BY <1>1, <1>3, <1>4, <1>5, TypeKept
<1>7. \A v \in Workers :
          /\ pc'[v] \in Serving <=> pc[v] \in Serving
          /\ pc[v] \in Closing => pc'[v] \in Closing
          /\ pc'[v] = "wait" => pc[v] = "wait"
          /\ pc'[v] = "close_fd" => pc[v] = "close_fd"
  BY <1>2, <1>3, <1>4 DEF Serving, Closing
<1>8. Links'
  BY <1>1, <1>3, <1>5, <1>7, KeepLinks DEF Links, HandsInv
<1> QED BY <1>3, <1>6, <1>8, Buffers DEF ConnInv

\* The clock, and the ends of a sweep.
LEMMA TimeKeeps ==
    ASSUME ConnInv, Tick \/ ReadNow \/ SweepEnds
    PROVE  ConnInv'
<1>1. TypeOK /\ AllGood /\ Links /\ Ok
  BY Buffers DEF ConnInv, Tick, ReadNow, SweepEnds
<1>2. UNCHANGED <<sock, epoll, active_connections, cur, events, acc, new_conn, pc, mishap>>
  BY DEF Tick, ReadNow, SweepEnds, kernel, acceptor, worker
<1>3. AllGood' /\ SameShape
  <2>1. CASE conn' = conn
    BY <2>1, <1>1 DEF AllGood, SameShape
  <2>2. CASE Tick
    <3>1. ASSUME NEW c \in Conns
          PROVE  Good(conn'[c]) /\ conn'[c].st = conn[c].st /\ conn'[c].fd = conn[c].fd
      <4>1. Good(conn[c]) /\ conn[c] \in ConnState
        BY <1>1 DEF AllGood
      <4>2. CASE conn[c].st = "live" /\ conn[c].age < AgeCap
        <5>1. conn[c].age + 1 \in 0 .. AgeCap
          <6>1. conn[c].age \in 0 .. AgeCap /\ AgeCap \in Nat
            BY <4>1, ConnectionsAssumption DEF ConnState, AgeCap
          <6> QED BY <6>1, <4>2
        <5>2. conn'[c] = [conn[c] EXCEPT !.age = conn[c].age + 1]
          BY <2>2, <4>2 DEF Tick
        <5> QED BY <4>1, <5>1, <5>2, SetAge
      <4>3. CASE ~(conn[c].st = "live" /\ conn[c].age < AgeCap)
        BY <2>2, <4>1, <4>3 DEF Tick
      <4> QED BY <4>2, <4>3
    <3>2. conn' = [c \in Conns |-> conn'[c]]
      BY <2>2 DEF Tick
    <3> QED BY <3>1, <3>2 DEF AllGood, Good, SameShape
  <2> QED BY <2>1, <2>2 DEF ReadNow, SweepEnds
<1>4. /\ pc \in [Workers -> {"wait", "next", "recv", "handle", "reply", "rearm",
                             "close", "close_fd"}]
      /\ sync' \in {"sleep", "scan"} /\ scan' \in Nat /\ skew' \in 0 .. 1 /\ mishap \in Mishaps
  BY <1>1 DEF TypeOK, Tick, ReadNow, SweepEnds
<1>5. TypeOK'
  BY <1>1, <1>2, <1>3, <1>4, TypeKept
<1>6. Links'
  BY <1>1, <1>2, <1>3, KeepLinks DEF Links, HandsInv
<1> QED BY <1>3, <1>5, <1>6, Buffers DEF ConnInv

--------------------------------------------------------------------------
(* Descriptors.                                                             *)

\* What close(fd) does to the kernel's tables.
LEMMA ClosedFd ==
    ASSUME TypeOK, NEW fd \in Fds, CloseFd(fd)
    PROVE  /\ sock' \in [Fds -> Conns \cup {NoConn}] /\ epoll' \in [Conns -> Entry]
           /\ \A g \in Fds : sock'[g] = IF g = fd THEN NoConn ELSE sock[g]
           /\ \A c \in Conns : epoll'[c] = IF c = sock[fd] THEN NotRegistered ELSE epoll[c]
<1>1. sock \in [Fds -> Conns \cup {NoConn}] /\ epoll \in [Conns -> Entry]
  BY DEF TypeOK, Entry
<1>2. NotRegistered \in Entry
  BY DEF NotRegistered, Entry
<1>3. NoConn \notin Conns
  BY ConnectionsAssumption
<1> QED BY <1>1, <1>2, <1>3 DEF CloseFd

\* An entry that is not registered is not armed.
LEMMA Unarmed == NotRegistered.armed = FALSE
BY DEF NotRegistered

\* A worker's descriptor is its client's, or it is closed and the worker knows.
LEMMA OwnSocket ==
    ASSUME TypeOK, Links, NEW w \in Workers, cur[w] # NoConn
    PROVE  /\ cur[w] \in Conns /\ Live(cur[w]) /\ conn[cur[w]].fd \in Fds
           /\ cur[w] \in InHands
           /\ \/ sock[conn[cur[w]].fd] = cur[w]
              \/ sock[conn[cur[w]].fd] = NoConn /\ pc[w] \in Closing
<1>1. cur[w] \in Conns
  BY DEF TypeOK
<1>2. cur[w] \in Held(w) /\ cur[w] \in InHands
  BY HandsAre DEF Held
<1>3. Live(cur[w])
  BY <1>2 DEF Links, HandsInv
<1>4. conn[cur[w]].fd \in Fds
  BY <1>1 DEF TypeOK, ConnState
<1>5. ASSUME NEW v \in Workers, cur[v] = cur[w], pc[v] \in Closing
      PROVE  pc[w] \in Closing
  <2>1. v = w
    BY <1>2, <1>5 DEF Links, HandsInv, Held
  <2> QED BY <2>1, <1>5
<1>6. \/ sock[conn[cur[w]].fd] = cur[w]
      \/ sock[conn[cur[w]].fd] = NoConn /\ pc[w] \in Closing
  BY <1>1, <1>3, <1>5 DEF Links, SocketInv
<1> QED BY <1>1, <1>2, <1>3, <1>4, <1>6

\* The worker gives its connection away: nobody has it any more.
LEMMA GivenAway ==
    ASSUME TypeOK, HandsInv, NEW w \in Workers, cur[w] # NoConn,
           cur' = [cur EXCEPT ![w] = NoConn], UNCHANGED <<events, new_conn>>
    PROVE  /\ Held(w)' = events[w]
           /\ \A v \in Workers : v # w => Held(v)' = Held(v)
           /\ \A c : c \in InHands' <=> c \in InHands /\ c # cur[w]
<1>1. cur'[w] = NoConn /\ \A v \in Workers : v # w => cur'[v] = cur[v]
  BY DEF TypeOK
<1>2. Held(w)' = events[w]
  BY <1>1 DEF Held
<1>3. \A v \in Workers : v # w => Held(v)' = Held(v)
  BY <1>1 DEF Held
<1>4. /\ cur[w] \notin events[w] /\ cur[w] # new_conn
      /\ \A v \in Workers : v # w => cur[w] \notin events[v] /\ cur[w] # cur[v]
  BY DEF HandsInv, Held
<1>5. \A c : c \in InHands' <=> c \in InHands /\ c # cur[w]
  BY <1>1, <1>4, HandsAre
<1> QED BY <1>2, <1>3, <1>5

\* Every position of a worker.
Labels == {"wait", "next", "recv", "handle", "reply", "rearm", "close", "close_fd"}

\* handel_client; a request for no known route has its descriptor closed.
LEMMA ClientKeeps ==
    ASSUME ConnInv, NEW w \in Workers, handel_client(w)
    PROVE  ConnInv'
<1>1. TypeOK /\ AllGood /\ Links /\ Ok
  BY Buffers DEF ConnInv, handel_client, Goto
<1>2. cur[w] # NoConn /\ pc[w] = "handle" /\ pc' = [pc EXCEPT ![w] = "reply"]
  BY <1>1 DEF Links, HandsInv, Serving, TypeOK, handel_client, Goto
<1>3. UNCHANGED <<conn, active_connections, cur, events, acc, new_conn,
                  sync, scan, skew, mishap>>
  BY DEF handel_client, acceptor, sweeper
<1>4. pc' \in [Workers -> Labels] /\ \A v \in Workers : v # w => pc'[v] = pc[v]
  BY <1>1, <1>2 DEF TypeOK, Labels
<1>5. AllGood' /\ SameShape
  BY <1>1, <1>3 DEF AllGood, SameShape
<1>6. pc'[w] = "reply"
  BY <1>1, <1>2 DEF TypeOK
<1>7. CASE UNCHANGED kernel
  <2>1. TypeOK'
    BY <1>1, <1>3, <1>4, <1>7 DEF TypeOK, kernel, Labels
  <2>2. \A v \in Workers :
          /\ pc'[v] \in Serving <=> pc[v] \in Serving
          /\ pc[v] \in Closing => pc'[v] \in Closing
          /\ pc'[v] = "wait" => pc[v] = "wait"
          /\ pc'[v] = "close_fd" => pc[v] = "close_fd"
    BY <1>2, <1>4, <1>6 DEF Serving, Closing
  <2>3. Links'
    BY <1>1, <1>3, <1>5, <1>7, <2>2, KeepLinks DEF Links, HandsInv, kernel
  <2> QED BY <1>5, <2>1, <2>3, Buffers DEF ConnInv
<1>8. CASE CloseFd(conn[cur[w]].fd)
  <2> DEFINE c == cur[w]
             fd == conn[c].fd
  <2>1. c \in Conns /\ fd \in Fds /\ c \in InHands /\ sock[fd] = c
    BY <1>1, <1>2, OwnSocket DEF Closing
  <2>2. /\ sock' \in [Fds -> Conns \cup {NoConn}] /\ epoll' \in [Conns -> Entry]
        /\ \A g \in Fds : sock'[g] = IF g = fd THEN NoConn ELSE sock[g]
        /\ \A d \in Conns : epoll'[d] = IF d = c THEN NotRegistered ELSE epoll[d]
    BY <1>1, <1>8, <2>1, ClosedFd
  <2>3. TypeOK'
    BY <1>1, <1>3, <1>4, <2>2 DEF TypeOK, Labels, Entry
  <2>4. InHands' = InHands /\ \A v \in Workers : Held(v)' = Held(v)
    BY <1>3, SameHands
  <2>5. \A d \in Conns : Live(d)' <=> Live(d)
    BY <1>3 DEF Live
  <2>6. HandsInv'
    BY <1>1, <1>2, <1>3, <1>4, <1>6, <2>4, <2>5, HandsAreConns DEF HandsInv, Links, Serving
  <2>7. SocketInv'
    <3>1. ASSUME NEW g \in Fds, sock'[g] # NoConn
          PROVE  conn'[sock'[g]].st = "live" /\ conn'[sock'[g]].fd = g
      BY <3>1, <1>1, <1>3, <2>2 DEF Links, SocketInv, Live
    <3>2. ASSUME NEW d \in Conns, Live(d)
          PROVE  \/ sock'[conn'[d].fd] = d
                 \/ /\ sock'[conn'[d].fd] = NoConn
                    /\ \E v \in Workers : cur'[v] = d /\ pc'[v] \in Closing
      <4>1. conn[d].fd \in Fds
        BY <1>1 DEF TypeOK, ConnState
      <4>2. CASE d = c
        BY <4>2, <1>3, <1>6, <2>1, <2>2 DEF Closing
      <4>3. CASE d # c
        <5>1. conn[d].fd # fd \/ sock[conn[d].fd] # d
          BY <4>3, <2>1
        <5>2. \A v \in Workers : cur[v] = d => pc'[v] = pc[v]
          BY <4>3, <1>4
        <5>3. \/ sock[conn[d].fd] = d
              \/ /\ sock[conn[d].fd] = NoConn
                 /\ \E v \in Workers : cur[v] = d /\ pc[v] \in Closing
          BY <3>2, <1>1 DEF Links, SocketInv
        <5> QED BY <5>1, <5>2, <5>3, <4>1, <1>3, <2>2
      <4> QED BY <4>2, <4>3
    <3> QED BY <3>1, <3>2, <2>5 DEF SocketInv, Live
  <2>8. ArmedInv'
    BY <1>1, <2>1, <2>2, <2>4, <2>5, Unarmed DEF ArmedInv, Links
  <2>9. TrackInv'
    <3>1. \A v \in Workers : pc'[v] = "close_fd" => pc[v] = "close_fd"
      BY <1>4, <1>6
    <3> QED BY <3>1, <1>1, <1>3 DEF TrackInv, Links, Live
  <2> QED BY <1>5, <2>3, <2>6, <2>7, <2>8, <2>9, Buffers DEF ConnInv, Links
<1> QED BY <1>7, <1>8 DEF handel_client

\* EPOLL_CTL_MOD: the worker gives its connection back to the epoll set.
LEMMA RearmKeeps ==
    ASSUME ConnInv, NEW w \in Workers, rearm(w)
    PROVE  ConnInv'
<1> DEFINE c == cur[w]
           s == sock[conn[c].fd]
<1>1. TypeOK /\ AllGood /\ Links /\ Ok
  BY Buffers DEF ConnInv, rearm
<1>2. c # NoConn /\ pc[w] = "rearm"
  BY <1>1 DEF Links, HandsInv, Serving, TypeOK, rearm
<1>3. UNCHANGED <<conn, sock, active_connections, events, acc, new_conn,
                  sync, scan, skew, mishap>>
  BY DEF rearm, acceptor, sweeper
<1>4. AllGood' /\ SameShape
  BY <1>1, <1>3 DEF AllGood, SameShape
<1>5. c \in Conns /\ Live(c) /\ (s = c \/ s = NoConn)
  BY <1>1, <1>2, OwnSocket
<1>6. \A d \in Conns : Live(d)' <=> Live(d)
  BY <1>3 DEF Live
<1>7. CASE ~(s # NoConn /\ epoll[s].reg)
  <2>1. pc' = [pc EXCEPT ![w] = "close"] /\ UNCHANGED <<epoll, cur>>
    BY <1>7 DEF rearm
  <2>2. pc'[w] = "close" /\ \A v \in Workers : v # w => pc'[v] = pc[v]
    BY <1>1, <2>1 DEF TypeOK
  <2>3. TypeOK'
    BY <1>1, <1>3, <2>1 DEF TypeOK
  <2>4. \A v \in Workers :
          /\ pc'[v] \in Serving <=> pc[v] \in Serving
          /\ pc[v] \in Closing => pc'[v] \in Closing
          /\ pc'[v] = "wait" => pc[v] = "wait"
          /\ pc'[v] = "close_fd" => pc[v] = "close_fd"
    BY <1>2, <2>2 DEF Serving, Closing
  <2>5. Links'
    BY <1>1, <1>3, <1>4, <2>1, <2>4, KeepLinks DEF Links, HandsInv
  <2> QED BY <1>4, <2>3, <2>5, Buffers DEF ConnInv
<1>8. CASE s # NoConn /\ epoll[s].reg
  <2>1. /\ s = c /\ epoll' = [epoll EXCEPT ![c] = [epoll[c] EXCEPT !.ptr = c, !.armed = TRUE]]
        /\ pc' = [pc EXCEPT ![w] = "next"] /\ cur' = [cur EXCEPT ![w] = NoConn]
    BY <1>5, <1>8 DEF rearm
  <2>2. /\ epoll' \in [Conns -> Entry] /\ epoll'[c].armed = TRUE /\ epoll'[c].ptr = c
        /\ \A d \in Conns : d # c => epoll'[d] = epoll[d]
    <3>1. epoll \in [Conns -> Entry]
      BY <1>1 DEF TypeOK, Entry
    <3>2. epoll[c] \in [reg : BOOLEAN, ptr : Conns \cup {NoConn}, armed : BOOLEAN]
      BY <3>1, <1>5 DEF Entry
    <3> DEFINE new == [epoll[c] EXCEPT !.ptr = c, !.armed = TRUE]
    <3>3. new \in Entry /\ new.armed = TRUE /\ new.ptr = c
      BY <3>2, <1>5 DEF Entry
    <3>4. epoll' = [epoll EXCEPT ![c] = new]
      BY <2>1
    <3> HIDE DEF new
    <3> QED BY <3>1, <3>3, <3>4, <1>5
  <2>3. /\ pc'[w] = "next" /\ cur'[w] = NoConn
        /\ \A v \in Workers : v # w => pc'[v] = pc[v] /\ cur'[v] = cur[v]
    BY <1>1, <2>1 DEF TypeOK
  <2>4. TypeOK'
    BY <1>1, <1>3, <2>1, <2>2 DEF TypeOK, Entry
  <2>5. /\ Held(w)' = events[w]
        /\ \A v \in Workers : v # w => Held(v)' = Held(v)
        /\ \A d : d \in InHands' <=> d \in InHands /\ d # c
    BY <1>1, <1>2, <1>3, <2>1, GivenAway DEF Links
  <2>6. HandsInv'
    <3>1. \A d \in InHands' : Live(d)'
      BY <1>1, <1>6, <2>5, HandsAreConns DEF Links, HandsInv
    <3>2. \A u, v \in Workers : u # v => Held(u)' \cap Held(v)' = {}
      BY <1>1, <2>5 DEF Links, HandsInv, Held
    <3>3. \A v \in Workers :
            /\ new_conn' \notin Held(v)' /\ cur'[v] \notin events'[v]
            /\ cur'[v] # NoConn <=> pc'[v] \in Serving
            /\ pc'[v] = "wait" => events'[v] = {}
      <4>1. NoConn \notin events[w] /\ new_conn \notin events[w]
        BY <1>1, ConnectionsAssumption DEF TypeOK, Links, HandsInv, Held
      <4> QED BY <4>1, <1>1, <1>3, <2>3, <2>5 DEF Links, HandsInv, Serving
    <3> QED BY <3>1, <3>2, <3>3, <1>1, <1>3 DEF Links, HandsInv
  <2>7. SocketInv'
    <3>1. ASSUME NEW g \in Fds, sock'[g] # NoConn
          PROVE  conn'[sock'[g]].st = "live" /\ conn'[sock'[g]].fd = g
      BY <3>1, <1>1, <1>3 DEF Links, SocketInv, Live
    <3>2. ASSUME NEW d \in Conns, Live(d)
          PROVE  \/ sock'[conn'[d].fd] = d
                 \/ /\ sock'[conn'[d].fd] = NoConn
                    /\ \E v \in Workers : cur'[v] = d /\ pc'[v] \in Closing
      <4>1. CASE d = c
        BY <4>1, <1>3, <2>1
      <4>2. CASE d # c
        <5>1. \A v \in Workers : cur[v] = d => cur'[v] = d /\ pc'[v] = pc[v]
          BY <4>2, <2>3
        <5>2. \/ sock[conn[d].fd] = d
              \/ /\ sock[conn[d].fd] = NoConn
                 /\ \E v \in Workers : cur[v] = d /\ pc[v] \in Closing
          BY <3>2, <1>1 DEF Links, SocketInv
        <5> QED BY <5>1, <5>2, <1>3
      <4> QED BY <4>1, <4>2
    <3> QED BY <3>1, <3>2, <1>6 DEF SocketInv, Live
  <2>8. ArmedInv'
    <3>1. ASSUME NEW d \in Conns
          PROVE  /\ epoll'[d].armed => Live(d) /\ epoll'[d].ptr = d /\ d \notin InHands'
                 /\ Live(d) /\ d \notin InHands' => epoll'[d].armed
      <4>1. CASE d = c
        BY <4>1, <1>5, <2>2, <2>5
      <4>2. CASE d # c
        BY <4>2, <1>1, <2>2, <2>5 DEF Links, ArmedInv
      <4> QED BY <4>1, <4>2
    <3> QED BY <3>1, <1>6 DEF ArmedInv
  <2>9. TrackInv'
    <3>1. \A v \in Workers : cur'[v] # NoConn => cur'[v] = cur[v] /\ pc'[v] = pc[v]
      BY <2>3
    <3> QED BY <3>1, <1>1, <1>3 DEF TrackInv, Links, Live
  <2> QED BY <1>4, <2>4, <2>6, <2>7, <2>8, <2>9, Buffers DEF ConnInv, Links
<1> QED BY <1>7, <1>8

\* close_conn: the connection leaves the table before it is freed.
LEMMA CloseKeeps ==
    ASSUME ConnInv, NEW w \in Workers, close_conn(w)
    PROVE  ConnInv'
<1> DEFINE c == cur[w]
           fd == conn[c].fd
<1>1. TypeOK /\ AllGood /\ Links /\ Ok
  BY Buffers DEF ConnInv, close_conn, Goto
<1>2. c # NoConn /\ pc[w] = "close" /\ pc' = [pc EXCEPT ![w] = "close_fd"]
  BY <1>1 DEF Links, HandsInv, Serving, TypeOK, close_conn, Goto
<1>3. UNCHANGED <<conn, sock, epoll, cur, events, acc, new_conn, sync, scan, skew, mishap>>
  BY DEF close_conn, kernel, acceptor, sweeper
<1>4. AllGood' /\ SameShape
  BY <1>1, <1>3 DEF AllGood, SameShape
<1>5. c \in Conns /\ fd \in Fds
  BY <1>1, <1>2, OwnSocket
<1>6. pc'[w] = "close_fd" /\ \A v \in Workers : v # w => pc'[v] = pc[v]
  BY <1>1, <1>2 DEF TypeOK
<1>7. /\ active_connections' \in [Fds -> Conns \cup {NoConn}]
      /\ \A g \in Fds : active_connections'[g] =
            IF g = fd /\ fd < MAX_CONNECTIONS THEN NoConn ELSE active_connections[g]
  BY <1>1, <1>5 DEF TypeOK, close_conn, Track
<1>8. TypeOK'
  BY <1>1, <1>2, <1>3, <1>7 DEF TypeOK
<1>9. InHands' = InHands /\ \A v \in Workers : Held(v)' = Held(v)
  BY <1>3, SameHands
<1>10. \A d \in Conns : Live(d)' <=> Live(d)
  BY <1>3 DEF Live
<1>11. HandsInv'
  BY <1>1, <1>2, <1>3, <1>6, <1>9, <1>10, HandsAreConns DEF HandsInv, Links, Serving
<1>12. SocketInv'
  <2>1. \A v \in Workers : pc[v] \in Closing => pc'[v] \in Closing
    BY <1>2, <1>6 DEF Closing
  <2> QED BY <2>1, <1>1, <1>3 DEF SocketInv, Links, Live
<1>13. ArmedInv'
  BY <1>1, <1>3, <1>9, <1>10 DEF ArmedInv, Links
<1>14. TrackInv'
  <2>1. ASSUME NEW g \in Fds, active_connections'[g] # NoConn
        PROVE  /\ active_connections'[g] = active_connections[g] /\ active_connections[g] # c
    <3>1. active_connections'[g] = active_connections[g]
      BY <1>7, <2>1
    <3>2. ~(g = fd /\ fd < MAX_CONNECTIONS)
      BY <1>7, <2>1
    <3> QED BY <3>1, <3>2, <2>1, <1>1 DEF Links, TrackInv
  <2> QED BY <2>1, <1>1, <1>3, <1>6 DEF TrackInv, Links, Live
<1> QED BY <1>4, <1>8, <1>11, <1>12, <1>13, <1>14, Buffers DEF ConnInv, Links

\* close_conn: the descriptor and the object go.
LEMMA FreeKeeps ==
    ASSUME ConnInv, NEW w \in Workers, FreeConn(w)
    PROVE  ConnInv'
<1> DEFINE c == cur[w]
           fd == conn[c].fd
<1>1. TypeOK /\ AllGood /\ Links /\ Ok
  BY Buffers DEF ConnInv, FreeConn, Goto
<1>2. c # NoConn /\ pc[w] = "close_fd" /\ pc' = [pc EXCEPT ![w] = "next"]
  BY <1>1 DEF Links, HandsInv, Serving, TypeOK, FreeConn, Goto
<1>3. /\ UNCHANGED <<active_connections, events, acc, new_conn, sync, scan, skew, mishap>>
      /\ conn' = [conn EXCEPT ![c] = Freed] /\ cur' = [cur EXCEPT ![w] = NoConn]
      /\ CloseFd(fd)
  BY DEF FreeConn, acceptor, sweeper
<1>4. c \in Conns /\ fd \in Fds /\ c \in InHands /\ (sock[fd] = c \/ sock[fd] = NoConn)
  BY <1>1, <1>2, OwnSocket
<1>5. AllGood'
  BY <1>1, <1>3, <1>4, FreedGood, OneGood
<1>6. /\ sock' \in [Fds -> Conns \cup {NoConn}] /\ epoll' \in [Conns -> Entry]
      /\ \A g \in Fds : sock'[g] = IF g = fd THEN NoConn ELSE sock[g]
      /\ \A d \in Conns : epoll'[d] = IF d = sock[fd] THEN NotRegistered ELSE epoll[d]
  BY <1>1, <1>3, <1>4, ClosedFd
<1>7. /\ pc'[w] = "next" /\ cur'[w] = NoConn
      /\ \A v \in Workers : v # w => pc'[v] = pc[v] /\ cur'[v] = cur[v]
  BY <1>1, <1>2, <1>3 DEF TypeOK
<1>8. conn'[c].st = "freed" /\ \A d \in Conns : d # c => conn'[d] = conn[d]
  BY <1>1, <1>3, <1>4, FreedGood DEF AllGood
<1>9. TypeOK'
  BY <1>1, <1>2, <1>3, <1>5, <1>6 DEF TypeOK, Entry, AllGood
<1>10. /\ Held(w)' = events[w]
       /\ \A v \in Workers : v # w => Held(v)' = Held(v)
       /\ \A d : d \in InHands' <=> d \in InHands /\ d # c
  BY <1>1, <1>2, <1>3, GivenAway DEF Links
<1>11. HandsInv'
  <2>1. \A d \in InHands' : Live(d)'
    BY <1>1, <1>8, <1>10, HandsAreConns DEF Links, HandsInv, Live
  <2>2. \A u, v \in Workers : u # v => Held(u)' \cap Held(v)' = {}
    BY <1>1, <1>10 DEF Links, HandsInv, Held
  <2>3. \A v \in Workers :
          /\ new_conn' \notin Held(v)' /\ cur'[v] \notin events'[v]
          /\ cur'[v] # NoConn <=> pc'[v] \in Serving
          /\ pc'[v] = "wait" => events'[v] = {}
    <3>1. NoConn \notin events[w] /\ new_conn \notin events[w]
      BY <1>1, ConnectionsAssumption DEF TypeOK, Links, HandsInv, Held
    <3> QED BY <3>1, <1>1, <1>3, <1>7, <1>10 DEF Links, HandsInv, Serving
  <2> QED BY <2>1, <2>2, <2>3, <1>1, <1>3 DEF Links, HandsInv
<1>12. SocketInv'
  <2>1. ASSUME NEW g \in Fds, sock'[g] # NoConn
        PROVE  conn'[sock'[g]].st = "live" /\ conn'[sock'[g]].fd = g
    <3>1. g # fd /\ sock'[g] = sock[g] /\ sock[g] \in Conns
      BY <2>1, <1>1, <1>6 DEF TypeOK
    <3>2. Live(sock[g]) /\ conn[sock[g]].fd = g
      BY <2>1, <3>1, <1>1 DEF Links, SocketInv
    <3> QED BY <3>1, <3>2, <1>8 DEF Live
  <2>2. ASSUME NEW d \in Conns, Live(d)'
        PROVE  \/ sock'[conn'[d].fd] = d
               \/ /\ sock'[conn'[d].fd] = NoConn
                  /\ \E v \in Workers : cur'[v] = d /\ pc'[v] \in Closing
    <3>1. d # c /\ conn'[d] = conn[d] /\ Live(d) /\ conn[d].fd \in Fds
      BY <2>2, <1>1, <1>8 DEF Live, TypeOK, ConnState
    <3>2. \A v \in Workers : cur[v] = d => cur'[v] = d /\ pc'[v] = pc[v]
      BY <3>1, <1>7
    <3>3. \/ sock[conn[d].fd] = d
          \/ /\ sock[conn[d].fd] = NoConn
             /\ \E v \in Workers : cur[v] = d /\ pc[v] \in Closing
      BY <3>1, <1>1 DEF Links, SocketInv
    <3>4. sock[conn[d].fd] = d => conn[d].fd # fd
      BY <3>1, <1>4, ConnectionsAssumption
    <3> QED BY <3>1, <3>2, <3>3, <3>4, <1>6
  <2> QED BY <2>1, <2>2 DEF SocketInv, Live
<1>13. ArmedInv'
  <2>1. ASSUME NEW d \in Conns
        PROVE  /\ epoll'[d].armed => Live(d)' /\ epoll'[d].ptr = d /\ d \notin InHands'
               /\ Live(d)' /\ d \notin InHands' => epoll'[d].armed
    <3>1. CASE d = c
      BY <3>1, <1>1, <1>4, <1>6, <1>8, Unarmed DEF Links, ArmedInv, Live
    <3>2. CASE d # c
      <4>1. d # sock[fd]
        BY <3>2, <1>4, ConnectionsAssumption
      <4> QED BY <3>2, <4>1, <1>1, <1>6, <1>8, <1>10 DEF Links, ArmedInv, Live
    <3> QED BY <3>1, <3>2
  <2> QED BY <2>1 DEF ArmedInv
<1>14. TrackInv'
  <2>1. ASSUME NEW g \in Fds, active_connections[g] # NoConn
        PROVE  active_connections[g] # c /\ active_connections[g] \in Conns
    BY <2>1, <1>1, <1>2 DEF Links, TrackInv, TypeOK
  <2>2. \A v \in Workers : cur'[v] # NoConn => cur'[v] = cur[v] /\ pc'[v] = pc[v]
    BY <1>7
  <2> QED BY <2>1, <2>2, <1>1, <1>3, <1>8 DEF TrackInv, Links, Live
<1> QED BY <1>5, <1>9, <1>11, <1>12, <1>13, <1>14, Buffers DEF ConnInv, Links

--------------------------------------------------------------------------
(* Events.                                                                  *)

\* The next event of the batch: the connection stays in the worker's hands.
LEMMA BeginKeeps ==
    ASSUME ConnInv, NEW w \in Workers, BeginEvent(w)
    PROVE  ConnInv'
<1>1. TypeOK /\ AllGood /\ Links /\ Ok
  BY Buffers DEF ConnInv, BeginEvent, Goto
<1>2. pc[w] = "next" /\ cur[w] = NoConn
  BY <1>1 DEF Links, HandsInv, Serving, BeginEvent, Goto
<1>3. UNCHANGED <<sock, epoll, active_connections, acc, new_conn, sync, scan, skew, mishap>>
  BY DEF BeginEvent, kernel, acceptor, sweeper
<1>4. CASE /\ events[w] = {} /\ pc' = [pc EXCEPT ![w] = "wait"]
           /\ UNCHANGED <<conn, cur, events>>
  <2>1. pc'[w] = "wait" /\ \A v \in Workers : v # w => pc'[v] = pc[v]
    BY <1>1, <1>4 DEF TypeOK
  <2>2. TypeOK' /\ AllGood' /\ SameShape
    BY <1>1, <1>3, <1>4 DEF TypeOK, AllGood, SameShape
  <2>3. \A v \in Workers :
          /\ pc'[v] \in Serving <=> pc[v] \in Serving
          /\ pc[v] \in Closing => pc'[v] \in Closing
          /\ pc'[v] = "wait" => pc[v] = "wait" \/ events[v] = {}
          /\ pc'[v] = "close_fd" => pc[v] = "close_fd"
    BY <1>2, <1>4, <2>1 DEF Serving, Closing
  <2>4. Links'
    BY <1>1, <1>3, <1>4, <2>2, <2>3, KeepLinks DEF Links, HandsInv
  <2> QED BY <2>2, <2>4, Buffers DEF ConnInv
<1>5. ASSUME NEW c \in events[w], pc' = [pc EXCEPT ![w] = "recv"],
             cur' = [cur EXCEPT ![w] = c], events' = [events EXCEPT ![w] = @ \ {c}],
             conn' = [conn EXCEPT ![c].age = 0]
      PROVE  ConnInv'
  <2>1. c \in Conns /\ c # NoConn /\ c \in Held(w)
    BY <1>1, ConnectionsAssumption DEF TypeOK, Held
  <2>2. AllGood' /\ SameShape
    <3> DEFINE new == [conn[c] EXCEPT !.age = 0]
    <3>1. 0 \in 0 .. AgeCap
      BY ConnectionsAssumption DEF AgeCap
    <3>2. Good(new) /\ new.st = conn[c].st /\ new.fd = conn[c].fd
      BY <3>1, <2>1, <1>1, SetAge DEF AllGood
    <3>3. conn' = [conn EXCEPT ![c] = new]
      BY <1>5
    <3> HIDE DEF new
    <3> QED BY <3>2, <3>3, <2>1, <1>1, OneGood
  <2>3. /\ pc'[w] = "recv" /\ cur'[w] = c /\ events'[w] = events[w] \ {c}
        /\ \A v \in Workers : v # w =>
              pc'[v] = pc[v] /\ cur'[v] = cur[v] /\ events'[v] = events[v]
    BY <1>1, <1>5 DEF TypeOK
  <2>4. TypeOK'
    BY <1>1, <1>3, <1>5, <2>1, <2>2 DEF TypeOK, AllGood
  <2>5. \A v \in Workers : Held(v)' = Held(v)
    <3>1. Held(w)' = Held(w)
      BY <1>2, <2>1, <2>3 DEF Held
    <3>2. \A v \in Workers : v # w => Held(v)' = Held(v)
      BY <2>3 DEF Held
    <3> QED BY <3>1, <3>2
  <2>6. InHands' = InHands
    BY <2>5, <1>3 DEF InHands
  <2>7. \A d \in Conns : Live(d)' <=> Live(d)
    BY <2>2 DEF SameShape, Live
  <2>8. HandsInv'
    <3>1. \A v \in Workers :
            /\ cur'[v] \notin events'[v]
            /\ cur'[v] # NoConn <=> pc'[v] \in Serving
            /\ pc'[v] = "wait" => events'[v] = {}
      BY <1>1, <2>1, <2>3 DEF Links, HandsInv, Serving
    <3> QED BY <3>1, <1>1, <1>3, <2>5, <2>6, <2>7, HandsAreConns DEF Links, HandsInv
  <2>9. SocketInv'
    <3>1. \A v \in Workers : pc[v] \in Closing => cur'[v] = cur[v] /\ pc'[v] = pc[v]
      BY <1>2, <2>3 DEF Closing
    <3>2. \A fd \in Fds : sock[fd] \in Conns \cup {NoConn}
      BY <1>1 DEF TypeOK
    <3> QED BY <3>1, <3>2, <1>1, <1>3, <2>2, <2>7 DEF SocketInv, Links, SameShape
  <2>10. ArmedInv'
    BY <1>1, <1>3, <2>6, <2>7 DEF ArmedInv, Links
  <2>11. TrackInv'
    <3>1. \A v \in Workers : pc'[v] = "close_fd" => pc[v] = "close_fd" /\ cur'[v] = cur[v]
      BY <2>3
    <3>2. \A fd \in Fds : active_connections[fd] \in Conns \cup {NoConn}
      BY <1>1 DEF TypeOK
    <3> QED BY <3>1, <3>2, <1>1, <1>3, <2>2, <2>7 DEF TrackInv, Links, SameShape
  <2> QED BY <2>2, <2>4, <2>8, <2>9, <2>10, <2>11, Buffers DEF ConnInv, Links
<1> QED BY <1>4, <1>5 DEF BeginEvent, Goto

\* epoll_wait hands armed connections over and disarms them.
LEMMA WaitKeeps ==
    ASSUME ConnInv, NEW w \in Workers, epoll_wait(w)
    PROVE  ConnInv'
<1>1. TypeOK /\ AllGood /\ Links /\ Ok
  BY Buffers DEF ConnInv, epoll_wait, Goto
<1>2. pc[w] = "wait" /\ cur[w] = NoConn /\ events[w] = {} /\ pc' = [pc EXCEPT ![w] = "next"]
  BY <1>1 DEF Links, HandsInv, Serving, epoll_wait, Goto
<1>3. UNCHANGED <<conn, sock, active_connections, cur, acc, new_conn, sync, scan, skew, mishap>>
  BY DEF epoll_wait, acceptor, sweeper
<1>4. PICK S \in SUBSET {s \in Conns : epoll[s].armed} :
        /\ events' = [events EXCEPT ![w] = {epoll[s].ptr : s \in S}]
        /\ epoll' = [s \in Conns |-> IF s \in S THEN [epoll[s] EXCEPT !.armed = FALSE]
                                     ELSE epoll[s]]
  BY DEF epoll_wait
<1>5. \A s \in S : s \in Conns /\ Live(s) /\ epoll[s].ptr = s /\ s \notin InHands
  BY <1>1, <1>4 DEF Links, ArmedInv
<1>6. {epoll[s].ptr : s \in S} = S
  BY <1>5
<1>7. /\ pc'[w] = "next" /\ events'[w] = S
      /\ \A v \in Workers : v # w => pc'[v] = pc[v] /\ events'[v] = events[v]
  BY <1>1, <1>2, <1>4, <1>6 DEF TypeOK
<1>8. /\ epoll' \in [Conns -> Entry]
      /\ \A s \in S : epoll'[s].armed = FALSE
      /\ \A s \in Conns : s \notin S => epoll'[s] = epoll[s]
  <2>1. epoll \in [Conns -> Entry]
    BY <1>1 DEF TypeOK, Entry
  <2>2. ASSUME NEW s \in Conns
        PROVE  /\ [epoll[s] EXCEPT !.armed = FALSE] \in Entry
               /\ [epoll[s] EXCEPT !.armed = FALSE].armed = FALSE
    <3>1. epoll[s] \in [reg : BOOLEAN, ptr : Conns \cup {NoConn}, armed : BOOLEAN]
      BY <2>1 DEF Entry
    <3> QED BY <3>1 DEF Entry
  <2>3. ASSUME NEW s \in Conns
        PROVE  epoll'[s] \in Entry /\ (s \in S => epoll'[s].armed = FALSE)
               /\ (s \notin S => epoll'[s] = epoll[s])
    <3>1. CASE s \in S
      <4>1. epoll'[s] = [epoll[s] EXCEPT !.armed = FALSE]
        BY <3>1, <1>4
      <4> QED BY <3>1, <4>1, <2>2
    <3>2. CASE s \notin S
      BY <3>2, <1>4, <2>1
    <3> QED BY <3>1, <3>2
  <2>4. epoll' = [s \in Conns |-> epoll'[s]]
    BY <1>4
  <2> QED BY <2>3, <2>4, <1>5
<1>9. TypeOK' /\ AllGood'
  <2>1. AllGood'
    BY <1>1, <1>3 DEF AllGood
  <2>2. events' \in [Workers -> SUBSET Conns]
    BY <1>1, <1>4, <1>5, <1>6 DEF TypeOK
  <2> QED BY <2>1, <2>2, <1>1, <1>2, <1>3, <1>8 DEF TypeOK, Entry
<1>10. Held(w)' = S /\ Held(w) = {} /\ \A v \in Workers : v # w => Held(v)' = Held(v)
  BY <1>2, <1>3, <1>7 DEF Held
<1>11. \A d : d \in InHands' <=> d \in InHands \/ d \in S
  BY <1>2, <1>3, <1>7, HandsAre
<1>12. \A d \in Conns : Live(d)' <=> Live(d)
  BY <1>3 DEF Live
<1>13. HandsInv'
  <2>1. \A d \in InHands' : Live(d)'
    BY <1>1, <1>5, <1>11, <1>12, HandsAreConns DEF Links, HandsInv
  <2>2. \A v \in Workers : Held(v) \cap S = {} /\ new_conn \notin S /\ cur[v] \notin S
    <3>1. NoConn \notin S
      BY <1>5, ConnectionsAssumption
    <3> QED BY <3>1, <1>5, HandsAre DEF Held
  <2>3. \A u, v \in Workers : u # v => Held(u)' \cap Held(v)' = {}
    BY <1>1, <1>10, <2>2 DEF Links, HandsInv
  <2>4. \A v \in Workers :
          /\ new_conn' \notin Held(v)' /\ cur'[v] \notin events'[v]
          /\ cur'[v] # NoConn <=> pc'[v] \in Serving
          /\ pc'[v] = "wait" => events'[v] = {}
    BY <1>1, <1>2, <1>3, <1>7, <1>10, <2>2 DEF Links, HandsInv, Serving
  <2> QED BY <2>1, <2>3, <2>4, <1>1, <1>3 DEF Links, HandsInv
<1>14. SocketInv'
  <2>1. \A v \in Workers : pc[v] \in Closing => pc'[v] = pc[v]
    BY <1>2, <1>7 DEF Closing
  <2> QED BY <2>1, <1>1, <1>3 DEF SocketInv, Links, Live
<1>15. ArmedInv'
  BY <1>1, <1>5, <1>8, <1>11, <1>12 DEF ArmedInv, Links
<1>16. TrackInv'
  <2>1. \A v \in Workers : pc'[v] = "close_fd" => pc[v] = "close_fd"
    BY <1>7
  <2> QED BY <2>1, <1>1, <1>3 DEF TrackInv, Links, Live
<1> QED BY <1>9, <1>13, <1>14, <1>15, <1>16, Buffers DEF ConnInv, Links

--------------------------------------------------------------------------
(* The acceptor.                                                            *)

\* accept4: a new object, in the acceptor's hands, over a free descriptor.
LEMMA AcceptKeeps ==
    ASSUME ConnInv, Accept
    PROVE  ConnInv'
<1>1. TypeOK /\ AllGood /\ Links /\ Ok
  BY Buffers DEF ConnInv, Accept
<1>2. new_conn = NoConn /\ acc' = "track"
  BY <1>1 DEF Links, HandsInv, Accept
<1>3. UNCHANGED <<epoll, active_connections, pc, cur, events, sync, scan, skew>>
  BY DEF Accept, worker, sweeper
<1>4. PICK c \in Conns, fd \in Fds :
        /\ conn[c].st = "none" /\ sock[fd] = NoConn
        /\ sock' = [sock EXCEPT ![fd] = c] /\ conn' = [conn EXCEPT ![c] = Fresh(fd)]
        /\ new_conn' = c
        /\ mishap' = IF \E d \in InHands : conn[d].fd = fd THEN "reused" ELSE "none"
  BY DEF Accept
<1>5. AllGood'
  BY <1>1, <1>4, FreshGood, OneGood
<1>6. /\ conn'[c].st = "live" /\ conn'[c].fd = fd
      /\ \A d \in Conns : d # c => conn'[d] = conn[d]
  BY <1>1, <1>4, FreshGood DEF AllGood
<1>7. sock'[fd] = c /\ \A g \in Fds : g # fd => sock'[g] = sock[g]
  BY <1>1, <1>4 DEF TypeOK
<1>8. TypeOK'
  BY <1>1, <1>2, <1>3, <1>4, <1>5 DEF TypeOK, AllGood, Mishaps
<1>9. ASSUME Ok'
      PROVE  Links'
  <2>1. \A d \in InHands : conn[d].fd # fd
    BY <1>4, <1>9 DEF Ok
  <2>2. ~Live(c) /\ c \notin InHands /\ c # NoConn
    BY <1>1, <1>4, ConnectionsAssumption DEF Live, Links, HandsInv
  <2>3. \A v \in Workers : Held(v)' = Held(v)
    BY <1>3 DEF Held
  <2>4. \A d : d \in InHands' <=> d \in InHands \/ d = c
    BY <1>2, <1>3, <1>4, <2>2, HandsAre
  <2>5. HandsInv'
    <3>1. \A d \in InHands' : Live(d)'
      BY <1>1, <1>6, <2>4, HandsAreConns DEF Links, HandsInv, Live
    <3>2. \A v \in Workers : new_conn' \notin Held(v)'
      BY <1>1, <1>4, <2>2, <2>3, HandsAreConns
    <3> QED BY <3>1, <3>2, <1>1, <1>2, <1>3, <1>4, <2>2, <2>3 DEF Links, HandsInv
  <2>6. SocketInv'
    <3>1. ASSUME NEW g \in Fds, sock'[g] # NoConn
          PROVE  conn'[sock'[g]].st = "live" /\ conn'[sock'[g]].fd = g
      <4>1. CASE g = fd
        BY <4>1, <1>6, <1>7
      <4>2. CASE g # fd
        <5>1. sock'[g] = sock[g] /\ sock[g] \in Conns
          BY <4>2, <3>1, <1>1, <1>7 DEF TypeOK
        <5>2. Live(sock[g]) /\ conn[sock[g]].fd = g
          BY <5>1, <3>1, <1>1 DEF Links, SocketInv
        <5> QED BY <5>1, <5>2, <2>2, <1>6 DEF Live
      <4> QED BY <4>1, <4>2
    <3>2. ASSUME NEW d \in Conns, Live(d)'
          PROVE  \/ sock'[conn'[d].fd] = d
                 \/ /\ sock'[conn'[d].fd] = NoConn
                    /\ \E v \in Workers : cur'[v] = d /\ pc'[v] \in Closing
      <4>1. CASE d = c
        BY <4>1, <1>6, <1>7
      <4>2. CASE d # c
        <5>1. conn'[d] = conn[d] /\ Live(d) /\ conn[d].fd \in Fds
          BY <3>2, <4>2, <1>1, <1>6 DEF Live, TypeOK, ConnState
        <5>2. \/ sock[conn[d].fd] = d
              \/ /\ sock[conn[d].fd] = NoConn
                 /\ \E v \in Workers : cur[v] = d /\ pc[v] \in Closing
          BY <5>1, <1>1 DEF Links, SocketInv
        <5>3. d # NoConn
          BY ConnectionsAssumption
        <5>4. conn[d].fd # fd
          BY <5>2, <5>3, <1>4, <2>1, HandsAre
        <5> QED BY <5>1, <5>2, <5>4, <1>3, <1>7
      <4> QED BY <4>1, <4>2
    <3> QED BY <3>1, <3>2 DEF SocketInv, Live
  <2>7. ArmedInv'
    <3>1. ~epoll[c].armed
      BY <2>2, <1>1 DEF Links, ArmedInv
    <3>2. ASSUME NEW d \in Conns
          PROVE  /\ epoll'[d].armed => Live(d)' /\ epoll'[d].ptr = d /\ d \notin InHands'
                 /\ Live(d)' /\ d \notin InHands' => epoll'[d].armed
      BY <3>1, <1>1, <1>3, <1>6, <2>4 DEF Links, ArmedInv, Live
    <3> QED BY <3>2 DEF ArmedInv
  <2>8. TrackInv'
    <3>1. \A g \in Fds : active_connections[g] # NoConn =>
             active_connections[g] # c /\ active_connections[g] \in Conns
      BY <1>1, <2>2 DEF Links, TrackInv, TypeOK
    <3> QED BY <3>1, <1>1, <1>3, <1>6 DEF TrackInv, Links, Live
  <2> QED BY <2>5, <2>6, <2>7, <2>8 DEF Links
<1> QED BY <1>5, <1>8, <1>9, Buffers DEF ConnInv

\* Where the acceptor's connection stands.
LEMMA NewSocket ==
    ASSUME TypeOK, Links, acc # "accept"
    PROVE  /\ new_conn \in Conns /\ Live(new_conn) /\ new_conn \in InHands
           /\ conn[new_conn].fd \in Fds /\ sock[conn[new_conn].fd] = new_conn
           /\ \A v \in Workers : new_conn \notin Held(v) /\ cur[v] # new_conn
<1>1. new_conn # NoConn /\ new_conn \in Conns
  BY DEF Links, HandsInv, TypeOK
<1>2. new_conn \in InHands /\ Live(new_conn)
  BY <1>1, HandsAre DEF Links, HandsInv
<1>3. \A v \in Workers : new_conn \notin Held(v) /\ cur[v] # new_conn
  BY <1>1 DEF Links, HandsInv, Held
<1>4. conn[new_conn].fd \in Fds
  BY <1>1 DEF TypeOK, ConnState
<1> QED BY <1>1, <1>2, <1>3, <1>4 DEF Links, SocketInv

\* The new connection enters the table.
LEMMA TrackKeeps ==
    ASSUME ConnInv, TrackNew
    PROVE  ConnInv'
<1> DEFINE fd == conn[new_conn].fd
<1>1. TypeOK /\ AllGood /\ Links /\ Ok /\ acc = "track" /\ acc' = "add"
  BY Buffers DEF ConnInv, TrackNew
<1>2. UNCHANGED <<conn, sock, epoll, pc, cur, events, new_conn, sync, scan, skew, mishap>>
  BY DEF TrackNew, kernel, worker, sweeper
<1>3. /\ new_conn \in Conns /\ Live(new_conn) /\ fd \in Fds
      /\ \A v \in Workers : cur[v] # new_conn
  BY <1>1, NewSocket
<1>4. /\ active_connections' \in [Fds -> Conns \cup {NoConn}]
      /\ \A g \in Fds : active_connections'[g] =
            IF g = fd /\ fd < MAX_CONNECTIONS THEN new_conn ELSE active_connections[g]
  BY <1>1, <1>3 DEF TypeOK, TrackNew, Track
<1>5. TypeOK' /\ AllGood'
  BY <1>1, <1>2, <1>4 DEF TypeOK, AllGood
<1>6. InHands' = InHands /\ \A v \in Workers : Held(v)' = Held(v)
  BY <1>2, SameHands
<1>7. \A d : Live(d)' <=> Live(d)
  BY <1>2 DEF Live
<1>8. HandsInv'
  BY <1>1, <1>2, <1>6, <1>7 DEF HandsInv, Links
<1>9. SocketInv' /\ ArmedInv'
  BY <1>1, <1>2, <1>6 DEF SocketInv, ArmedInv, Links, Live
<1>10. TrackInv'
  <2>1. ASSUME NEW g \in Fds, active_connections'[g] # NoConn
        PROVE  /\ g < MAX_CONNECTIONS
               /\ conn'[active_connections'[g]].st = "live"
               /\ conn'[active_connections'[g]].fd = g
               /\ \A v \in Workers : cur'[v] = active_connections'[g] => pc'[v] # "close_fd"
    <3>1. CASE g = fd /\ fd < MAX_CONNECTIONS
      BY <3>1, <1>2, <1>3, <1>4 DEF Live
    <3>2. CASE ~(g = fd /\ fd < MAX_CONNECTIONS)
      BY <3>2, <2>1, <1>1, <1>2, <1>4 DEF Links, TrackInv, Live
    <3> QED BY <3>1, <3>2
  <2> QED BY <2>1 DEF TrackInv, Live
<1> QED BY <1>5, <1>8, <1>9, <1>10, Buffers DEF ConnInv, Links

\* A connection no worker has in hands is closed and freed: after a failed
\* EPOLL_CTL_ADD, or by the sweep.
LEMMA GoneKeeps ==
    ASSUME TypeOK, AllGood, Links, NEW c \in Conns, Live(c), sock[conn[c].fd] = c,
           \A v \in Workers : c \notin Held(v),
           CloseFd(conn[c].fd), conn' = [conn EXCEPT ![c] = Freed],
           UNCHANGED <<pc, cur, events>>,
           \/ new_conn = c /\ new_conn' = NoConn /\ acc' = "accept"
           \/ new_conn # c /\ UNCHANGED <<acc, new_conn>>,
           \A g \in Fds : active_connections'[g] # NoConn =>
              active_connections'[g] = active_connections[g] /\ active_connections[g] # c
    PROVE  /\ AllGood' /\ Links'
           /\ sock' \in [Fds -> Conns \cup {NoConn}] /\ epoll' \in [Conns -> Entry]
<1> DEFINE fd == conn[c].fd
<1>1. fd \in Fds /\ c # NoConn
  BY ConnectionsAssumption DEF TypeOK, ConnState
<1>2. AllGood'
  BY FreedGood, OneGood
<1>3. /\ sock' \in [Fds -> Conns \cup {NoConn}] /\ epoll' \in [Conns -> Entry]
      /\ \A g \in Fds : sock'[g] = IF g = fd THEN NoConn ELSE sock[g]
      /\ \A d \in Conns : epoll'[d] = IF d = c THEN NotRegistered ELSE epoll[d]
  BY <1>1, ClosedFd
<1>4. conn'[c].st = "freed" /\ \A d \in Conns : d # c => conn'[d] = conn[d]
  BY FreedGood DEF AllGood
<1>5. \A v \in Workers : Held(v)' = Held(v) /\ cur[v] # c
  BY <1>1 DEF Held
<1>6. \A d : d \in InHands' <=> d \in InHands /\ d # c
  <2>1. \A v \in Workers : c \notin events[v] /\ cur[v] # c
    BY <1>5 DEF Held
  <2> QED BY <2>1, <1>1, HandsAre
<1>7. HandsInv'
  <2>1. \A d \in InHands' : Live(d)'
    BY <1>4, <1>6, HandsAreConns DEF Links, HandsInv, Live
  <2>2. \A v \in Workers : new_conn' \notin Held(v)'
    BY <1>5, HandsAreConns DEF Links, HandsInv
  <2>3. new_conn' # NoConn <=> acc' # "accept"
    BY DEF Links, HandsInv
  <2> QED BY <2>1, <2>2, <2>3, <1>5 DEF Links, HandsInv
<1>8. SocketInv'
  <2>1. ASSUME NEW g \in Fds, sock'[g] # NoConn
        PROVE  conn'[sock'[g]].st = "live" /\ conn'[sock'[g]].fd = g
    <3>1. g # fd /\ sock'[g] = sock[g] /\ sock[g] \in Conns
      BY <2>1, <1>3 DEF TypeOK
    <3>2. Live(sock[g]) /\ conn[sock[g]].fd = g
      BY <2>1, <3>1 DEF Links, SocketInv
    <3> QED BY <3>1, <3>2, <1>4 DEF Live
  <2>2. ASSUME NEW d \in Conns, Live(d)'
        PROVE  \/ sock'[conn'[d].fd] = d
               \/ /\ sock'[conn'[d].fd] = NoConn
                  /\ \E v \in Workers : cur'[v] = d /\ pc'[v] \in Closing
    <3>1. d # c /\ conn'[d] = conn[d] /\ Live(d) /\ conn[d].fd \in Fds
      BY <2>2, <1>4 DEF Live, TypeOK, ConnState
    <3>2. \/ sock[conn[d].fd] = d
          \/ /\ sock[conn[d].fd] = NoConn
             /\ \E v \in Workers : cur[v] = d /\ pc[v] \in Closing
      BY <3>1 DEF Links, SocketInv
    <3>3. sock[conn[d].fd] = d => conn[d].fd # fd
      BY <3>1
    <3> QED BY <3>1, <3>2, <3>3, <1>3
  <2> QED BY <2>1, <2>2 DEF SocketInv, Live
<1>9. ArmedInv'
  <2>1. ASSUME NEW d \in Conns
        PROVE  /\ epoll'[d].armed => Live(d)' /\ epoll'[d].ptr = d /\ d \notin InHands'
               /\ Live(d)' /\ d \notin InHands' => epoll'[d].armed
    <3>1. CASE d = c
      BY <3>1, <1>3, <1>4, Unarmed DEF Live
    <3>2. CASE d # c
      BY <3>2, <1>3, <1>4, <1>6 DEF Links, ArmedInv, Live
    <3> QED BY <3>1, <3>2
  <2> QED BY <2>1 DEF ArmedInv
<1>10. TrackInv'
  <2>1. ASSUME NEW g \in Fds, active_connections'[g] # NoConn
        PROVE  /\ g < MAX_CONNECTIONS
               /\ conn'[active_connections'[g]].st = "live"
               /\ conn'[active_connections'[g]].fd = g
               /\ \A v \in Workers : cur'[v] = active_connections'[g] => pc'[v] # "close_fd"
    <3>1. /\ active_connections'[g] = active_connections[g] /\ active_connections[g] # c
          /\ active_connections[g] \in Conns
      BY <2>1 DEF TypeOK
    <3> QED BY <3>1, <2>1, <1>4 DEF Links, TrackInv, Live
  <2> QED BY <2>1 DEF TrackInv, Live
<1> QED BY <1>2, <1>3, <1>7, <1>8, <1>9, <1>10 DEF Links

\* EPOLL_CTL_ADD gives the new connection to the epoll set, or it is closed.
LEMMA AddKeeps ==
    ASSUME ConnInv, AddNew
    PROVE  ConnInv'
<1> DEFINE c == new_conn
           fd == conn[c].fd
<1>1. TypeOK /\ AllGood /\ Links /\ Ok /\ acc = "add" /\ acc' = "accept" /\ new_conn' = NoConn
  BY Buffers DEF ConnInv, AddNew
<1>2. UNCHANGED <<pc, cur, events, sync, scan, skew, mishap>>
  BY DEF AddNew, worker, sweeper
<1>3. /\ c \in Conns /\ Live(c) /\ c \in InHands /\ fd \in Fds /\ sock[fd] = c
      /\ \A v \in Workers : c \notin Held(v) /\ cur[v] # c
  BY <1>1, NewSocket
<1>4. c # NoConn
  BY <1>3, ConnectionsAssumption
<1>5. CASE Track(fd, NoConn) /\ CloseFd(fd) /\ conn' = [conn EXCEPT ![c] = Freed]
  <2>1. /\ active_connections' \in [Fds -> Conns \cup {NoConn}]
        /\ \A g \in Fds : active_connections'[g] =
              IF g = fd /\ fd < MAX_CONNECTIONS THEN NoConn ELSE active_connections[g]
    BY <1>1, <1>3, <1>5 DEF TypeOK, Track
  <2>2. \A g \in Fds : active_connections'[g] # NoConn =>
           active_connections'[g] = active_connections[g] /\ active_connections[g] # c
    BY <2>1, <1>1 DEF Links, TrackInv
  <2>3. /\ AllGood' /\ Links'
        /\ sock' \in [Fds -> Conns \cup {NoConn}] /\ epoll' \in [Conns -> Entry]
    BY <1>1, <1>2, <1>3, <1>5, <2>2, GoneKeeps
  <2>4. TypeOK'
    BY <1>1, <1>2, <2>1, <2>3 DEF TypeOK, Entry, AllGood
  <2> QED BY <2>3, <2>4, Buffers DEF ConnInv
<1>6. CASE /\ epoll' = [epoll EXCEPT ![sock[fd]] =
                          [reg |-> TRUE, ptr |-> new_conn, armed |-> TRUE]]
           /\ UNCHANGED <<conn, sock, active_connections>>
  <2>1. /\ epoll' \in [Conns -> Entry] /\ epoll'[c].armed = TRUE /\ epoll'[c].ptr = c
        /\ \A d \in Conns : d # c => epoll'[d] = epoll[d]
    <3> DEFINE new == [reg |-> TRUE, ptr |-> new_conn, armed |-> TRUE]
    <3>1. new \in Entry /\ new.armed = TRUE /\ new.ptr = c
      BY <1>3 DEF Entry
    <3>2. epoll' = [epoll EXCEPT ![c] = new] /\ epoll \in [Conns -> Entry]
      BY <1>1, <1>3, <1>6 DEF TypeOK, Entry
    <3> HIDE DEF new
    <3> QED BY <3>1, <3>2, <1>3
  <2>2. TypeOK' /\ AllGood'
    BY <1>1, <1>2, <1>6, <2>1 DEF TypeOK, Entry, AllGood
  <2>3. \A v \in Workers : Held(v)' = Held(v)
    BY <1>2 DEF Held
  <2>4. \A d : d \in InHands' <=> d \in InHands /\ d # c
    <3>1. \A v \in Workers : c \notin events[v]
      BY <1>3 DEF Held
    <3> QED BY <3>1, <1>1, <1>2, <1>3, <1>4, HandsAre
  <2>5. HandsInv'
    <3>1. \A d \in InHands' : Live(d)'
      BY <1>1, <1>6, <2>4 DEF Links, HandsInv, Live
    <3>2. \A v \in Workers : NoConn \notin Held(v)
      BY <1>1, HandsAreConns
    <3> QED BY <3>1, <3>2, <1>1, <1>2, <2>3 DEF Links, HandsInv
  <2>6. SocketInv' /\ TrackInv'
    BY <1>1, <1>2, <1>6 DEF Links, SocketInv, TrackInv, Live
  <2>7. ArmedInv'
    <3>1. ASSUME NEW d \in Conns
          PROVE  /\ epoll'[d].armed => Live(d) /\ epoll'[d].ptr = d /\ d \notin InHands'
                 /\ Live(d) /\ d \notin InHands' => epoll'[d].armed
      <4>1. CASE d = c
        BY <4>1, <1>3, <2>1, <2>4
      <4>2. CASE d # c
        BY <4>2, <1>1, <2>1, <2>4 DEF Links, ArmedInv
      <4> QED BY <4>1, <4>2
    <3> QED BY <3>1, <1>6 DEF ArmedInv, Live
  <2> QED BY <2>2, <2>5, <2>6, <2>7, Buffers DEF ConnInv, Links
<1> QED BY <1>5, <1>6 DEF AddNew

--------------------------------------------------------------------------
(* The sweep, and the theorems.                                             *)

\* An entry of the table is closed and freed, or left.
LEMMA SweepKeeps ==
    ASSUME ConnInv, Sweep
    PROVE  ConnInv'
<1> DEFINE c == active_connections[scan]
           fd == conn[c].fd
<1>1. TypeOK /\ AllGood /\ Links /\ Ok /\ scan \in Fds /\ scan' = scan + 1
  BY Buffers DEF ConnInv, Sweep
<1>2. UNCHANGED <<pc, cur, events, acc, new_conn, sync, skew>> /\ scan' \in Nat
  BY <1>1 DEF Sweep, worker, acceptor, TypeOK
<1>3. CASE c # NoConn /\ Live(c) /\ Expired(c)
  <2>1. /\ active_connections' = [active_connections EXCEPT ![scan] = NoConn]
        /\ CloseFd(fd) /\ conn' = [conn EXCEPT ![c] = Freed]
        /\ mishap' = IF c \in InHands THEN "swept" ELSE "none"
    BY <1>3 DEF Sweep
  <2>2. c \in Conns /\ fd = scan
    BY <1>1, <1>3 DEF Links, TrackInv, TypeOK
  <2>3. AllGood'
    BY <1>1, <2>1, <2>2, FreedGood, OneGood
  <2>4. sock' \in [Fds -> Conns \cup {NoConn}] /\ epoll' \in [Conns -> Entry]
    BY <1>1, <2>1, <2>2, ClosedFd
  <2>5. TypeOK'
    BY <1>1, <1>2, <2>1, <2>3, <2>4 DEF TypeOK, Entry, AllGood, Mishaps
  <2>6. ASSUME Ok'
        PROVE  Links'
    <3>1. c \notin InHands
      BY <2>1, <2>6 DEF Ok
    <3>2. new_conn # c /\ \A v \in Workers : c \notin Held(v) /\ cur[v] # c
      BY <1>1, <1>3, <3>1, HandsAre, HandsAreConns
    <3>3. sock[fd] = c
      BY <1>1, <1>3, <2>2, <3>2 DEF Links, SocketInv
    <3>4. \A g \in Fds : active_connections'[g] # NoConn =>
             active_connections'[g] = active_connections[g] /\ active_connections[g] # c
      <4>1. \A g \in Fds : active_connections'[g] =
               IF g = scan THEN NoConn ELSE active_connections[g]
        BY <1>1, <2>1 DEF TypeOK
      <4>2. \A g \in Fds : active_connections[g] = c => g = fd
        BY <1>1, <1>3 DEF Links, TrackInv
      <4> QED BY <4>1, <4>2, <2>2
    <3> QED BY <1>1, <1>2, <1>3, <2>1, <2>2, <3>2, <3>3, <3>4, GoneKeeps
  <2> QED BY <2>3, <2>5, <2>6, Buffers DEF ConnInv
<1>4. CASE ~(c # NoConn /\ Live(c) /\ Expired(c))
  <2>1. UNCHANGED <<conn, sock, epoll, active_connections, mishap>>
    BY <1>4 DEF Sweep, kernel
  <2>2. TypeOK' /\ AllGood' /\ SameShape
    BY <1>1, <1>2, <2>1 DEF TypeOK, AllGood, SameShape
  <2>3. Links'
    BY <1>1, <1>2, <2>1, <2>2, KeepLinks DEF Links, HandsInv
  <2> QED BY <2>2, <2>3, Buffers DEF ConnInv
<1> QED BY <1>3, <1>4

\* Nothing is connected.
LEMMA InitInv == Init => ConnInv
<1> SUFFICES ASSUME Init PROVE ConnInv
  OBVIOUS
<1> DEFINE idle == [Fresh(0) EXCEPT !.st = "none"]
<1>1. Good(idle) /\ idle.st = "none" /\ idle \in ConnState
  BY FreshGood, SetUnused, ConnectionsAssumption DEF Good
<1>2. conn = [c \in Conns |-> idle]
  BY DEF Init
<1> HIDE DEF idle
<1>3. AllGood /\ \A c \in Conns : ~Live(c)
  BY <1>1, <1>2 DEF AllGood, Live
<1>4. NotRegistered \in [reg : BOOLEAN, ptr : Conns \cup {NoConn}, armed : BOOLEAN]
  BY DEF NotRegistered
<1>5. TypeOK
  BY <1>3, <1>4 DEF Init, TypeOK, AllGood, Mishaps
<1>6. \A c : c \notin InHands
  BY HandsAre DEF Init
<1>7. HandsInv
  BY <1>6, ConnectionsAssumption DEF HandsInv, Init, Held, Serving
<1>8. SocketInv /\ TrackInv
  BY <1>3 DEF SocketInv, TrackInv, Init
<1>9. ArmedInv
  BY <1>3, Unarmed DEF ArmedInv, Init
<1> QED BY <1>3, <1>5, <1>7, <1>8, <1>9, Buffers DEF ConnInv, Links

\* Every step of every thread keeps the invariant.
LEMMA NextInv ==
    ASSUME ConnInv, [Next]_vars
    PROVE  ConnInv'
<1>1. CASE UNCHANGED vars
  <2>1. UNCHANGED <<conn, sock, epoll, active_connections, pc, cur, events, acc, new_conn,
                    sync, scan, skew, mishap>>
    BY <1>1 DEF vars
  <2>2. TypeOK' <=> TypeOK
    BY <2>1 DEF TypeOK
  <2>3. AllGood' <=> AllGood
    BY <2>1 DEF AllGood
  <2>4. Ok' <=> Ok
    BY <2>1 DEF Ok
  <2>5. TypeOK /\ AllGood /\ (Ok => Links)
    BY Buffers DEF ConnInv
  <2>6. ASSUME Ok
        PROVE  Links'
    <3>1. SameShape
      BY <2>1 DEF SameShape
    <3> QED BY <3>1, <2>1, <2>5, <2>6, KeepLinks DEF Links, HandsInv
  <2> QED BY <2>2, <2>3, <2>4, <2>5, <2>6, Buffers DEF ConnInv
<1>2. CASE acceptor_loop
  BY <1>2, AcceptKeeps, TrackKeeps, AddKeeps DEF acceptor_loop
<1>3. CASE sync_worker \/ Tick
  BY <1>3, SweepKeeps, TimeKeeps DEF sync_worker, SweepStep
<1>4. ASSUME NEW w \in Workers, epoll_wait(w) \/ epoll_worker_loop(w)
      PROVE  ConnInv'
  BY <1>4, WaitKeeps, BeginKeeps, EventKeeps, ClientKeeps, ReplyKeeps, RearmKeeps,
     CloseKeeps, FreeKeeps DEF epoll_worker_loop, OwnStep
<1> QED BY <1>1, <1>2, <1>3, <1>4 DEF Next

\* The server's threads keep pointers, descriptors, events and buffers in order
\* until a mishap: server.c with any number of workers, clients and descriptors.
THEOREM AlwaysConnInv == Spec => []ConnInv
BY InitInv, NextInv, PTL DEF Spec

\* For every Content-Length, negative ones included, what recv and memcpy put
\* into the header buffer and the body fits: calloc(content_length + 1) has the
\* room, until the copy under a length of -1.
THEOREM BuffersHold == Spec => []WithinBuffers
<1>1. ConnInv => WithinBuffers
  BY DEF ConnInv, BuffersInv, WithinBuffers
<1> QED BY <1>1, AlwaysConnInv, PTL

\* No worker, batch, table entry or epoll entry points to a freed connection.
THEOREM NoConnDangles == Spec => []NoDanglingConn
<1>1. ConnInv => NoDanglingConn
  <2> SUFFICES ASSUME ConnInv, Ok PROVE NoDanglingConn
    BY DEF NoDanglingConn
  <2>1. HandsInv /\ ArmedInv /\ TrackInv
    BY DEF ConnInv, Links
  <2>2. \A s \in Conns : epoll[s].armed => Live(epoll[s].ptr)
    BY <2>1 DEF ArmedInv
  <2> QED BY <2>1, <2>2 DEF HandsInv, TrackInv, NoDanglingConn
<1> QED BY <1>1, AlwaysConnInv, PTL

\* Each connection is one thread's or the epoll set's, and none is forgotten.
THEOREM EachHasOneOwner == Spec => []OneOwner
<1>1. ConnInv => OneOwner
  <2> SUFFICES ASSUME ConnInv, Ok PROVE OneOwner
    BY DEF OneOwner
  <2>1. Links /\ TypeOK
    BY DEF ConnInv, BuffersInv
  <2>2. ASSUME NEW w \in Workers, NEW s \in Conns, epoll[s].armed
        PROVE  /\ epoll[s].ptr \notin Held(w)
               /\ cur[w] # NoConn => sock[conn[cur[w]].fd] # s
    <3>1. epoll[s].ptr = s /\ s \notin InHands /\ s # NoConn
      BY <2>1, <2>2, ConnectionsAssumption DEF Links, ArmedInv
    <3> QED BY <3>1, <2>1, OwnSocket, HandsAreConns
  <2>3. \A c \in Conns : Live(c) => c \in InHands \/ (epoll[c].armed /\ epoll[c].ptr = c)
    BY <2>1 DEF Links, ArmedInv
  <2>4. \A w, v \in Workers : w # v => Held(w) \cap Held(v) = {}
    BY <2>1 DEF Links, HandsInv
  <2> QED BY <2>2, <2>3, <2>4 DEF OneOwner
<1> QED BY <1>1, AlwaysConnInv, PTL

\* A thread works on the descriptor of its own client, or on a closed one.
THEOREM DescriptorsAreOwn == Spec => []OwnDescriptor
<1>1. ConnInv => OwnDescriptor
  <2> SUFFICES ASSUME ConnInv, Ok PROVE OwnDescriptor
    BY DEF OwnDescriptor
  <2>1. SocketInv /\ \A c \in InHands : c \in Conns
    BY HandsAreConns DEF ConnInv, Links, BuffersInv
  <2> QED BY <2>1 DEF SocketInv, OwnDescriptor, Closing
<1> QED BY <1>1, AlwaysConnInv, PTL

\* Below the modulus nothing wraps.
LEMMA NoWrap ==
    ASSUME NEW x \in Nat, x < TimeModulus
    PROVE  x % TimeModulus = x
BY ConnectionsAssumption

\* The sweep closes a connection that was idle for longer than the limit, or
\* one used after sync_worker read the clock.
THEOREM SweepKeepsAlive == Spec => KeptAlive
<1> DEFINE Kept == sync = "scan" /\ scan' = scan + 1 =>
                     \A c \in Conns : Live(c) /\ conn'[c].st = "freed" =>
                        conn[c].age > IdleLimit \/ conn[c].age < skew
<1>1. ASSUME TypeOK, Next, sync = "scan", scan' = scan + 1
      PROVE  \A c \in Conns : Live(c) /\ conn'[c].st = "freed" =>
                conn[c].age > IdleLimit \/ conn[c].age < skew
  <2>1. Sweep
    <3>1. scan \in Nat /\ scan' # scan /\ scan' # 0
      BY <1>1 DEF TypeOK
    <3>2. ~acceptor_loop
      BY <3>1 DEF acceptor_loop, Accept, TrackNew, AddNew, sweeper
    <3>3. ~Tick /\ ~ReadNow /\ ~SweepEnds
      BY <3>1 DEF Tick, ReadNow, SweepEnds
    <3>4. \A w \in Workers : ~epoll_wait(w) /\ ~epoll_worker_loop(w)
      BY <3>1 DEF epoll_wait, epoll_worker_loop, OwnStep, BeginEvent, handle_conn_event,
         handel_client, Reply, rearm, close_conn, FreeConn, sweeper
    <3> QED BY <3>2, <3>3, <3>4, <1>1 DEF Next, sync_worker, SweepStep
  <2>2. ASSUME NEW d \in Conns, Live(d), conn'[d].st = "freed"
        PROVE  conn[d].age > IdleLimit \/ conn[d].age < skew
    <3>1. conn'[d] # conn[d]
      BY <2>2 DEF Live
    <3>2. d = active_connections[scan] /\ Expired(d)
      BY <3>1, <2>1, <1>1 DEF Sweep, TypeOK
    <3>3. conn[d].age \in Nat /\ conn[d].age <= IdleLimit + 2 /\ skew \in Nat
      BY <1>1, ConnectionsAssumption DEF TypeOK, ConnState, AgeCap
    <3>4. CASE conn[d].age >= skew
      <4>1. conn[d].age - skew \in Nat /\ conn[d].age - skew < TimeModulus
        BY <3>3, <3>4, ConnectionsAssumption
      <4>2. conn[d].age - skew > IdleLimit
        BY <4>1, <3>2, NoWrap DEF Expired
      <4> QED BY <4>2, <3>3, ConnectionsAssumption
    <3> QED BY <3>3, <3>4
  <2> QED BY <2>2
<1>2. TypeOK /\ [Next]_vars => [Kept]_vars
  BY <1>1
<1>3. ConnInv => TypeOK
  BY DEF ConnInv, BuffersInv
<1> QED BY <1>2, <1>3, AlwaysConnInv, PTL DEF Spec, KeptAlive
==========================================================================
