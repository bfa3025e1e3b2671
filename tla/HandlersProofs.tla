--------------------------- MODULE HandlersProofs ---------------------------
(* Whatever the request and wherever the handler leaves its route, it gives   *)
(* back what it took and answers once, and rightly.                           *)
EXTENDS Handlers, TLAPS

USE DEF LockNames

\* A place is after the parser, the key, the table or the validation.
Authenticated == {"open", "validate", "search", "ann", "serialize", "insert",
                  "enqueue", "queue", "append", "train", "save"}
Opened == Authenticated \ {"open", "queue", "append"}
Validated == Opened \ {"validate"}
Working == Authenticated \cup {"auth"}
Ending == {"cleanup", "done"}

\* The route decides which of the later places are reached.
RouteInv ==
    /\ pc = "unknown" => req.route = "unknown"
    /\ pc \in Working \cup {"parse", "cleanup"} => req.route # "unknown"
    /\ pc \in Opened \cup {"open"} => req.route # "delete-request"
    /\ pc \in {"search", "ann", "serialize"} => req.route = "search"
    /\ pc \in {"insert", "enqueue"} => req.route = "insert"
    /\ pc \in {"train", "save"} => req.route = "train"
    /\ pc \in {"queue", "append"} => req.route = "delete-request"

\* What the tests passed so far have shown.
PassedInv ==
    /\ pc \in Working => Parsed
    /\ pc \in Authenticated => req.authorised
    /\ pc \in Opened => req.lookup = "found"
    /\ pc \in Validated => Acceptable
    /\ pc \in {"ann", "serialize"} => "malloc" \notin req.fails
    /\ pc = "ann" => req.use_ann
    /\ pc = "serialize" => (req.use_ann => req.trained)
    /\ pc = "enqueue" => "write" \notin req.fails

\* The handler's pointer says whether the table's lock is held.
LocksInv ==
    /\ locks["pending"] = IF pc = "append" THEN 1 ELSE 0
    /\ locks["index"] = IF pc = "save" THEN 1 ELSE 0
    /\ pc \notin Ending => (table <=> pc \in Opened)
    /\ pc # "done" => locks["table"] = IF table THEN 1 ELSE 0
    /\ pc = "done" => locks["table"] = 0

OwnedInv ==
    /\ pc \in {"parse", "unknown"} => owned = {}
    /\ pc = "done" => owned \subseteq {"fp"}
    /\ pc \in Working \ {"ann", "serialize", "enqueue", "save"} => owned = {"req"}
    /\ pc \in {"ann", "serialize"} => owned = {"req", "results"}
    /\ pc = "enqueue" => owned \subseteq {"req", "vec_cpy", "meta_cpy"}
    /\ pc = "save" => owned = {"req", "trained_clusters"}
    /\ pc = "cleanup" => owned \subseteq CleanedUp \cup {"fp"}
    /\ "index" \in changed => "trained_clusters" \notin owned

\* The lock and the file of append_pending_delete.
AppendInv ==
    /\ locks["append"] = IF AppendKept THEN 1 ELSE 0
    /\ "fp" \in owned <=> AppendKept

Why400 == Reasons(400)
Why401 == Reasons(401)
Why404 == Reasons(404)
Why500 == Reasons(500)

Refusal ==
    \/ replies = <<400>> /\ Why400 /\ changed \subseteq Left(400)
    \/ replies = <<401>> /\ Why401 /\ changed \subseteq Left(401)
    \/ replies = <<404>> /\ Why404 /\ changed \subseteq Left(404)
    \/ replies = <<500>> /\ Why500 /\ changed \subseteq Left(500)

Success ==
    /\ replies = <<200>> /\ req.route # "unknown"
    /\ ~Why400 /\ ~Why401 /\ ~Why404 /\ ~Why500

\* Nothing is changed before the end but the cached index, and nothing said.
AnsweredInv ==
    /\ pc \notin Ending \cup {"serialize"} => changed = {}
    /\ pc = "serialize" => changed \subseteq {"index cache"}
    /\ changed # {} => req.authorised
    /\ pc \notin Ending => replies = <<>>
    /\ pc \in Ending => Success \/ Refusal

HInv == TypeOK /\ RouteInv /\ PassedInv /\ LocksInv /\ OwnedInv /\ AnsweredInv

\* The four routes, where CASE has a value.
LEMMA Routed ==
    ASSUME IsRequest(req), req.route # "unknown"
    PROVE  req.route \in {"search", "insert", "train", "delete-request"}
  BY DEF IsRequest, Routes

\* What the parser refuses is a reason for 400, and what it lets through is none.
LEMMA ParsedReasons ==
    ASSUME IsRequest(req), req.route # "unknown"
    PROVE  ~Parsed => Why400
<1>1. req.route \in {"search", "insert", "train", "delete-request"}
  BY Routed
<1> USE DEF Parsed, Reasons, Why400
<1>2. CASE req.route = "search"
  BY <1>2 DEF parse_search_request
<1>3. CASE req.route = "insert"
  BY <1>3 DEF parse_insert_request
<1>4. CASE req.route = "train"
  BY <1>4 DEF parse_train_request
<1>5. CASE req.route = "delete-request"
  BY <1>5 DEF parse_delete_request
<1> QED BY <1>1, <1>2, <1>3, <1>4, <1>5

\* So is what the validation refuses.
LEMMA AcceptableReasons ==
    ASSUME IsRequest(req), req.route \in {"search", "insert", "train"}
    PROVE  ~Acceptable => Why400
<1> USE DEF Acceptable, Reasons, Why400
<1>1. MAX_TOP_K \in Nat /\ MAX_TOP_K # 0
  BY HandlersAssumption
<1>2. {req.top_k, req.nprobe, req.k, req.count} \subseteq Nat
  BY DEF IsRequest
<1>3. CASE req.route = "search"
  <2>1. nprobe \in Nat /\ req.top_k \in Nat
    BY <1>2 DEF nprobe
  <2> QED BY <2>1, <1>1, <1>3
<1>4. CASE req.route = "insert"
  BY <1>4
<1>5. CASE req.route = "train"
  BY <1>2, <1>5
<1> QED BY <1>3, <1>4, <1>5

\* A request that was parsed, has a key and whose table was found and that the
\* validation accepted is refused by nothing but what goes wrong on the way.
LEMMA NoReason ==
    ASSUME IsRequest(req), req.route # "unknown", Parsed, req.authorised,
           req.route # "delete-request" => req.lookup = "found" /\ Acceptable,
           req.route = "search" => (req.use_ann => req.trained)
                                   /\ req.fails \cap {"malloc", "serialize"} = {},
           req.route = "insert" => "write" \notin req.fails,
           req.route = "train" => "save" \notin req.fails
    PROVE  ~Why400 /\ ~Why401 /\ ~Why404 /\ ~Why500
<1>1. req.route \in {"search", "insert", "train", "delete-request"}
  BY Routed
<1>2. MAX_TOP_K \in Nat /\ MAX_TOP_K # 0
  BY HandlersAssumption
<1>3. {req.top_k, req.nprobe, req.k, req.count} \subseteq Nat
  BY DEF IsRequest
<1>4. ~Why401 /\ ~Why404 /\ ~Why500
  BY <1>1 DEF Reasons, Why401, Why404, Why500
<1>5. ~Why400
  <2>1. CASE req.route = "search"
    <3>1. nprobe \in Nat /\ req.top_k \in Nat
      BY <1>3 DEF nprobe
    <3> QED BY <3>1, <1>2, <2>1 DEF Why400, Reasons, Parsed, parse_search_request, Acceptable
  <2>2. CASE req.route = "insert"
    BY <2>2 DEF Why400, Reasons, Parsed, parse_insert_request, Acceptable
  <2>3. CASE req.route = "train"
    BY <1>3, <2>3 DEF Why400, Reasons, Parsed, parse_train_request, Acceptable
  <2>4. CASE req.route = "delete-request"
    BY <2>4 DEF Why400, Reasons, Parsed, parse_delete_request
  <2> QED BY <1>1, <2>1, <2>2, <2>3, <2>4
<1> QED BY <1>4, <1>5

\* A search may leave the index loaded.
LEMMA LeftBySearch ==
    ASSUME req.route = "search"
    PROVE  {"index cache"} \subseteq Left(400) /\ {"index cache"} \subseteq Left(500)
  BY DEF Left

LEMMA NotTrained ==
    ASSUME req.route = "search", req.use_ann, ~req.trained
    PROVE  Why400
  BY DEF Why400, Reasons

LEMMA NotSerialized ==
    ASSUME req.route = "search", "serialize" \in req.fails
    PROVE  Why500
  BY DEF Why500, Reasons

\* A request stays what it is, and so does all that is said of it.
LEMMA SameRequest ==
    ASSUME UNCHANGED req
    PROVE  /\ Parsed' = Parsed /\ Acceptable' = Acceptable /\ CleanedUp' = CleanedUp
           /\ Why400' = Why400 /\ Why401' = Why401 /\ Why404' = Why404 /\ Why500' = Why500
           /\ Left(400)' = Left(400) /\ Left(401)' = Left(401)
           /\ Left(404)' = Left(404) /\ Left(500)' = Left(500)
           /\ IsRequest(req)' = IsRequest(req)
  BY DEF Left, Parsed, Acceptable, CleanedUp, Why400, Why401, Why404, Why500, Reasons, IsRequest,
         nprobe, parse_search_request, parse_insert_request, parse_train_request,
         parse_delete_request

\* The reply of a step that ends the route.
Replied(code) ==
    replies' = Append(replies, code) =>
        replies' = <<code>> /\ replies' \in Seq({200, 400, 401, 404, 500})

LEMMA OneReply ==
    ASSUME replies = <<>>
    PROVE  Replied(200) /\ Replied(400) /\ Replied(401) /\ Replied(404) /\ Replied(500)
<1>1. \A code \in {200, 400, 401, 404, 500} :
         /\ Append(<<>>, code) = <<code>>
         /\ <<code>> \in Seq({200, 400, 401, 404, 500})
  OBVIOUS
<1>2. Replied(200)
  BY <1>1 DEF Replied
<1>3. Replied(400)
  BY <1>1 DEF Replied
<1>4. Replied(401)
  BY <1>1 DEF Replied
<1>5. Replied(404)
  BY <1>1 DEF Replied
<1>6. Replied(500)
  BY <1>1 DEF Replied
<1> QED BY <1>2, <1>3, <1>4, <1>5, <1>6

\* A step that refuses the request, for a reason.
ReasonSent ==
    \/ Why400 /\ replies' = Append(replies, 400) /\ changed' \subseteq Left(400)
    \/ Why401 /\ replies' = Append(replies, 401) /\ changed' \subseteq Left(401)
    \/ Why404 /\ replies' = Append(replies, 404) /\ changed' \subseteq Left(404)
    \/ Why500 /\ replies' = Append(replies, 500) /\ changed' \subseteq Left(500)

LEMMA Refused ==
    ASSUME AnsweredInv, pc \notin Ending, UNCHANGED req, pc' \in Ending,
           ReasonSent, changed' # {} => req.authorised
    PROVE  AnsweredInv' /\ replies' \in Seq({200, 400, 401, 404, 500})
<1>1. replies = <<>>
  BY DEF AnsweredInv
<1>2. Refusal' /\ replies' \in Seq({200, 400, 401, 404, 500})
  <2>1. CASE /\ Why400 /\ replies' = Append(replies, 400)
             /\ changed' \subseteq Left(400)
    <3>1. /\ replies' = <<400>> /\ replies' \in Seq({200, 400, 401, 404, 500})
      BY <1>1, <2>1, OneReply DEF Replied
    <3> QED BY <3>1, <2>1, SameRequest DEF Refusal
  <2>2. CASE /\ Why401 /\ replies' = Append(replies, 401)
             /\ changed' \subseteq Left(401)
    <3>1. /\ replies' = <<401>> /\ replies' \in Seq({200, 400, 401, 404, 500})
      BY <1>1, <2>2, OneReply DEF Replied
    <3> QED BY <3>1, <2>2, SameRequest DEF Refusal
  <2>3. CASE /\ Why404 /\ replies' = Append(replies, 404)
             /\ changed' \subseteq Left(404)
    <3>1. /\ replies' = <<404>> /\ replies' \in Seq({200, 400, 401, 404, 500})
      BY <1>1, <2>3, OneReply DEF Replied
    <3> QED BY <3>1, <2>3, SameRequest DEF Refusal
  <2>4. CASE /\ Why500 /\ replies' = Append(replies, 500)
             /\ changed' \subseteq Left(500)
    <3>1. /\ replies' = <<500>> /\ replies' \in Seq({200, 400, 401, 404, 500})
      BY <1>1, <2>4, OneReply DEF Replied
    <3> QED BY <3>1, <2>4, SameRequest DEF Refusal
  <2> QED BY <2>1, <2>2, <2>3, <2>4 DEF ReasonSent
<1>3. pc' # "serialize" /\ (changed' # {} => req'.authorised)
  BY DEF Ending
<1> QED BY <1>2, <1>3 DEF AnsweredInv

\* A step that serves it.
LEMMA Served ==
    ASSUME AnsweredInv, pc \notin Ending, UNCHANGED req, pc' \in Ending,
           req.route # "unknown", ~Why400 /\ ~Why401 /\ ~Why404 /\ ~Why500,
           req.authorised, replies' = Append(replies, 200)
    PROVE  AnsweredInv' /\ replies' \in Seq({200, 400, 401, 404, 500})
<1>1. replies = <<>>
  BY DEF AnsweredInv
<1>2. Success' /\ replies' \in Seq({200, 400, 401, 404, 500})
  BY <1>1, SameRequest, OneReply DEF Success, Replied
<1>3. pc' # "serialize" /\ req'.authorised
  BY DEF Ending
<1> QED BY <1>2, <1>3 DEF AnsweredInv

\* A step that says nothing and changes nothing.
LEMMA Silent ==
    ASSUME AnsweredInv, pc \notin Ending, pc # "serialize", pc' \notin Ending,
           UNCHANGED <<req, replies, changed>>
    PROVE  AnsweredInv'
  BY DEF AnsweredInv

\* The locks, by name.
LEMMA LockOps ==
    ASSUME TypeOK, NEW l \in LockNames
    PROVE  /\ \A m \in LockNames :
                 /\ Took(l)[m] = IF m = l THEN locks[m] + 1 ELSE locks[m]
                 /\ Gave(l)[m] = IF m = l THEN locks[m] - 1 ELSE locks[m]
           /\ locks[l] = 0 => Took(l) \in [LockNames -> 0 .. 1]
           /\ locks[l] = 1 => Gave(l) \in [LockNames -> 0 .. 1]
<1> DEFINE L == LockNames
<1>1. locks \in [L -> 0 .. 1]
  BY DEF TypeOK
<1>2. \A m \in L : locks[m] \in 0 .. 1
  BY <1>1
<1> QED BY <1>1, <1>2, SMT DEF Took, Gave

PlaceSets ==
    /\ Authenticated = {"open", "validate", "search", "ann", "serialize", "insert",
                        "enqueue", "queue", "append", "train", "save"}
    /\ Opened = {"validate", "search", "ann", "serialize", "insert", "enqueue", "train",
                 "save"}
    /\ Validated = {"search", "ann", "serialize", "insert", "enqueue", "train", "save"}
    /\ Working = {"auth", "open", "validate", "search", "ann", "serialize", "insert",
                  "enqueue", "queue", "append", "train", "save"}
    /\ Ending = {"cleanup", "done"}

LEMMA Places == PlaceSets
  BY Zenon DEF PlaceSets, Authenticated, Opened, Validated, Working, Ending

LEMMA ParseKeeps == ASSUME HInv, Parse PROVE HInv'
<1> USE DEF HInv
<1>0. PlaceSets
  BY Places
<1>1. /\ pc = "parse" /\ req.route # "unknown" /\ UNCHANGED <<req, table, locks, changed>>
      /\ owned = {} /\ changed = {} /\ IsRequest(req)
  BY <1>0 DEF Parse, RouteInv, OwnedInv, AnsweredInv, TypeOK, PlaceSets
<1>2. /\ Parsed' = Parsed /\ IsRequest(req)' = IsRequest(req) /\ CleanedUp' = CleanedUp
  BY <1>1, SameRequest
<1>3. CASE Parsed
  <2>1. pc' = "auth" /\ owned' = {"req"} /\ UNCHANGED replies
    BY <1>3 DEF Parse
  <2>2. TypeOK'
    BY <2>1, <1>1, <1>2 DEF TypeOK
  <2>3. RouteInv' /\ PassedInv'
    BY <2>1, <1>0, <1>1, <1>2, <1>3 DEF RouteInv, PassedInv, PlaceSets
  <2>4. LocksInv' /\ OwnedInv'
    BY <2>1, <1>0, <1>1 DEF LocksInv, OwnedInv, PlaceSets
  <2>5. AnsweredInv'
    BY <2>1, <1>0, <1>1, Silent DEF PlaceSets
  <2> QED BY <2>2, <2>3, <2>4, <2>5
<1>4. CASE ~Parsed
  <2>1. pc' = "cleanup" /\ owned' = {} /\ replies' = Append(replies, 400)
    BY <1>1, <1>4 DEF Parse, Refuse, send_error
  <2>2. AnsweredInv' /\ replies' \in Seq({200, 400, 401, 404, 500})
    BY <2>1, <1>0, <1>1, <1>4, ParsedReasons, Refused DEF PlaceSets, ReasonSent
  <2>3. TypeOK'
    BY <2>1, <2>2, <1>1, <1>2 DEF TypeOK
  <2>4. RouteInv' /\ PassedInv'
    BY <2>1, <1>0, <1>1 DEF RouteInv, PassedInv, PlaceSets
  <2>5. LocksInv' /\ OwnedInv'
    BY <2>1, <1>0, <1>1 DEF LocksInv, OwnedInv, PlaceSets
  <2> QED BY <2>2, <2>3, <2>4, <2>5
<1> QED BY <1>3, <1>4

LEMMA AuthKeeps == ASSUME HInv, authenticate_request PROVE HInv'
<1> USE DEF HInv
<1>0. PlaceSets
  BY Places
<1>1. /\ pc = "auth" /\ req.route # "unknown" /\ UNCHANGED <<req, table, locks, owned, changed>>
      /\ changed = {} /\ IsRequest(req) /\ owned = {"req"} /\ Parsed /\ ~table
  BY <1>0 DEF authenticate_request, RouteInv, OwnedInv, AnsweredInv, PassedInv, LocksInv,
              TypeOK, PlaceSets
<1>2. Parsed' = Parsed /\ IsRequest(req)' = IsRequest(req) /\ CleanedUp' = CleanedUp
  BY <1>1, SameRequest
<1>3. CASE req.authorised
  <2>1. /\ pc' = IF req.route = "delete-request" THEN "queue" ELSE "open"
        /\ UNCHANGED replies
    BY <1>3 DEF authenticate_request
  <2>2. TypeOK'
    BY <2>1, <1>1, <1>2 DEF TypeOK
  <2>3. RouteInv' /\ PassedInv'
    BY <2>1, <1>0, <1>1, <1>2, <1>3 DEF RouteInv, PassedInv, PlaceSets
  <2>4. LocksInv' /\ OwnedInv'
    BY <2>1, <1>0, <1>1 DEF LocksInv, OwnedInv, PlaceSets
  <2>5. AnsweredInv'
    BY <2>1, <1>0, <1>1, Silent DEF PlaceSets
  <2> QED BY <2>2, <2>3, <2>4, <2>5
<1>4. CASE ~req.authorised
  <2>1. pc' = "cleanup" /\ replies' = Append(replies, 401)
    BY <1>1, <1>4 DEF authenticate_request, Refuse, send_error
  <2>2. AnsweredInv' /\ replies' \in Seq({200, 400, 401, 404, 500})
    <3>1. Why401
      BY <1>4 DEF Why401, Reasons
    <3> QED BY <2>1, <3>1, <1>0, <1>1, Refused DEF PlaceSets, ReasonSent
  <2>3. TypeOK'
    BY <2>1, <2>2, <1>1, <1>2 DEF TypeOK
  <2>4. RouteInv' /\ PassedInv'
    BY <2>1, <1>0, <1>1 DEF RouteInv, PassedInv, PlaceSets
  <2>5. LocksInv' /\ OwnedInv'
    BY <2>1, <1>0, <1>1, <1>2, Routed DEF LocksInv, OwnedInv, PlaceSets, CleanedUp
  <2> QED BY <2>2, <2>3, <2>4, <2>5
<1> QED BY <1>3, <1>4

LEMMA OpenKeeps == ASSUME HInv, OpenTable PROVE HInv'
<1> USE DEF HInv
<1>0. PlaceSets
  BY Places
<1>1. /\ pc = "open" /\ req.route # "unknown" /\ UNCHANGED <<req, owned, changed>>
      /\ changed = {} /\ IsRequest(req) /\ owned = {"req"} /\ Parsed /\ ~table
      /\ req.authorised /\ req.route # "delete-request"
  BY <1>0 DEF OpenTable, RouteInv, OwnedInv, AnsweredInv, PassedInv, LocksInv, TypeOK, PlaceSets
<1>2. Parsed' = Parsed /\ IsRequest(req)' = IsRequest(req) /\ CleanedUp' = CleanedUp
  BY <1>1, SameRequest
<1>3. CASE req.lookup = "found"
  <2>1. pc' = "validate" /\ UNCHANGED replies /\ table' = TRUE /\ locks' = Took("table")
    BY <1>3 DEF OpenTable
  <2>2. /\ locks' \in [LockNames -> 0 .. 1]
        /\ locks'["table"] = 1 /\ locks'["index"] = 0 /\ locks'["pending"] = 0
    <3>1. locks["table"] = 0 /\ locks["index"] = 0 /\ locks["pending"] = 0
      BY <1>0, <1>1 DEF LocksInv, PlaceSets
    <3> QED BY <2>1, <3>1, LockOps
  <2>3. TypeOK'
    BY <2>1, <2>2, <1>1, <1>2 DEF TypeOK
  <2>4. RouteInv' /\ PassedInv'
    BY <2>1, <1>0, <1>1, <1>2, <1>3 DEF RouteInv, PassedInv, PlaceSets
  <2>5. LocksInv' /\ OwnedInv'
    BY <2>1, <2>2, <1>0, <1>1 DEF LocksInv, OwnedInv, PlaceSets
  <2>6. AnsweredInv'
    BY <2>1, <1>0, <1>1, Silent DEF PlaceSets
  <2> QED BY <2>3, <2>4, <2>5, <2>6
<1>4. CASE req.lookup # "found"
  <2>1. pc' = "cleanup" /\ replies' = Append(replies, 404) /\ UNCHANGED <<table, locks>>
    BY <1>1, <1>4 DEF OpenTable, Refuse, send_error
  <2>2. AnsweredInv' /\ replies' \in Seq({200, 400, 401, 404, 500})
    <3>1. Why404
      BY <1>1, <1>4 DEF Why404, Reasons, IsRequest
    <3> QED BY <2>1, <3>1, <1>0, <1>1, Refused DEF PlaceSets, ReasonSent
  <2>3. TypeOK'
    BY <2>1, <2>2, <1>1, <1>2 DEF TypeOK
  <2>4. RouteInv' /\ PassedInv'
    BY <2>1, <1>0, <1>1 DEF RouteInv, PassedInv, PlaceSets
  <2>5. LocksInv' /\ OwnedInv'
    BY <2>1, <1>0, <1>1, <1>2, Routed DEF LocksInv, OwnedInv, PlaceSets, CleanedUp
  <2> QED BY <2>2, <2>3, <2>4, <2>5
<1> QED BY <1>3, <1>4

LEMMA ValidateKeeps == ASSUME HInv, Validate PROVE HInv'
<1> USE DEF HInv
<1>0. PlaceSets
  BY Places
<1>1. /\ pc = "validate" /\ req.route \in {"search", "insert", "train"}
      /\ UNCHANGED <<req, table, locks, owned, changed>>
      /\ changed = {} /\ IsRequest(req) /\ owned = {"req"} /\ Parsed /\ table
      /\ req.authorised /\ req.lookup = "found"
  BY <1>0, Routed DEF Validate, RouteInv, OwnedInv, AnsweredInv, PassedInv, LocksInv, TypeOK,
                      PlaceSets
<1>2. /\ Parsed' = Parsed /\ IsRequest(req)' = IsRequest(req) /\ CleanedUp' = CleanedUp
      /\ Acceptable' = Acceptable
  BY <1>1, SameRequest
<1>3. CASE Acceptable
  <2>1. pc' = req.route /\ UNCHANGED replies
    BY <1>3 DEF Validate
  <2>2. TypeOK'
    BY <2>1, <1>1, <1>2 DEF TypeOK
  <2>3. RouteInv' /\ PassedInv'
    BY <2>1, <1>0, <1>1, <1>2, <1>3 DEF RouteInv, PassedInv, PlaceSets
  <2>4. LocksInv' /\ OwnedInv'
    BY <2>1, <1>0, <1>1 DEF LocksInv, OwnedInv, PlaceSets
  <2>5. AnsweredInv'
    BY <2>1, <1>0, <1>1, Silent DEF PlaceSets
  <2> QED BY <2>2, <2>3, <2>4, <2>5
<1>4. CASE ~Acceptable
  <2>1. pc' = "cleanup" /\ replies' = Append(replies, 400)
    BY <1>1, <1>4 DEF Validate, Refuse, send_error
  <2>2. AnsweredInv' /\ replies' \in Seq({200, 400, 401, 404, 500})
    <3>1. Why400
      BY <1>1, <1>4, AcceptableReasons
    <3> QED BY <2>1, <3>1, <1>0, <1>1, Refused DEF PlaceSets, ReasonSent
  <2>3. TypeOK'
    BY <2>1, <2>2, <1>1, <1>2 DEF TypeOK
  <2>4. RouteInv' /\ PassedInv'
    BY <2>1, <1>0, <1>1 DEF RouteInv, PassedInv, PlaceSets
  <2>5. LocksInv' /\ OwnedInv'
    BY <2>1, <1>0, <1>1, <1>2 DEF LocksInv, OwnedInv, PlaceSets, CleanedUp
  <2> QED BY <2>2, <2>3, <2>4, <2>5
<1> QED BY <1>3, <1>4

LEMMA AllocateKeeps == ASSUME HInv, AllocateResults PROVE HInv'
<1> USE DEF HInv
<1>0. PlaceSets
  BY Places
<1>1. /\ pc = "search" /\ req.route = "search" /\ UNCHANGED <<req, table, locks, changed>>
      /\ changed = {} /\ IsRequest(req) /\ owned = {"req"} /\ Parsed /\ table
      /\ req.authorised /\ req.lookup = "found" /\ Acceptable
  BY <1>0 DEF AllocateResults, RouteInv, OwnedInv, AnsweredInv, PassedInv, LocksInv, TypeOK,
              PlaceSets
<1>2. /\ Parsed' = Parsed /\ IsRequest(req)' = IsRequest(req) /\ CleanedUp' = CleanedUp
      /\ Acceptable' = Acceptable
  BY <1>1, SameRequest
<1>3. CASE "malloc" \notin req.fails
  <2>1. /\ pc' = IF req.use_ann THEN "ann" ELSE "serialize"
        /\ UNCHANGED replies /\ owned' = {"req", "results"}
    BY <1>1, <1>3 DEF AllocateResults
  <2>2. TypeOK'
    BY <2>1, <1>1, <1>2 DEF TypeOK
  <2>3. RouteInv' /\ PassedInv'
    BY <2>1, <1>0, <1>1, <1>2, <1>3 DEF RouteInv, PassedInv, PlaceSets
  <2>4. LocksInv' /\ OwnedInv'
    BY <2>1, <1>0, <1>1 DEF LocksInv, OwnedInv, PlaceSets
  <2>5. AnsweredInv'
    BY <2>1, <1>0, <1>1, Silent DEF PlaceSets
  <2> QED BY <2>2, <2>3, <2>4, <2>5
<1>4. CASE "malloc" \in req.fails
  <2>1. pc' = "cleanup" /\ replies' = Append(replies, 500) /\ UNCHANGED owned
    BY <1>1, <1>4 DEF AllocateResults, Refuse, send_error
  <2>2. AnsweredInv' /\ replies' \in Seq({200, 400, 401, 404, 500})
    <3>1. Why500
      BY <1>1, <1>4 DEF Why500, Reasons
    <3>2. ReasonSent
      BY <2>1, <3>1, <1>1 DEF ReasonSent
    <3>3. pc \notin Ending /\ pc' \in Ending
      BY <2>1, <1>1 DEF Ending
    <3>4. AnsweredInv /\ UNCHANGED req /\ changed' = {}
      BY <1>1
    <3> QED BY <3>2, <3>3, <3>4, Refused
  <2>3. TypeOK'
    BY <2>1, <2>2, <1>1, <1>2 DEF TypeOK
  <2>4. RouteInv' /\ PassedInv'
    BY <2>1, <1>0, <1>1 DEF RouteInv, PassedInv, PlaceSets
  <2>5. LocksInv' /\ OwnedInv'
    BY <2>1, <1>0, <1>1, <1>2 DEF LocksInv, OwnedInv, PlaceSets, CleanedUp
  <2> QED BY <2>2, <2>3, <2>4, <2>5
<1> QED BY <1>3, <1>4

LEMMA AnnKeeps == ASSUME HInv, AnnSearch PROVE HInv'
<1> USE DEF HInv
<1>0. PlaceSets
  BY Places
<1>1. /\ pc = "ann" /\ req.route = "search" /\ UNCHANGED <<req, table, locks, owned>>
      /\ changed = {} /\ IsRequest(req) /\ owned = {"req", "results"} /\ Parsed /\ table
      /\ req.authorised /\ req.lookup = "found" /\ Acceptable /\ req.use_ann
      /\ "malloc" \notin req.fails /\ changed' \subseteq {"index cache"}
  <2>1. pc = "ann" /\ UNCHANGED <<req, table, locks, owned>> /\ IsRequest(req)
    BY DEF AnnSearch, TypeOK
  <2>2. req.route = "search" /\ owned = {"req", "results"} /\ changed = {}
    BY <1>0, <2>1 DEF RouteInv, OwnedInv, AnsweredInv, PlaceSets
  <2>3. /\ Parsed /\ req.authorised /\ req.lookup = "found" /\ Acceptable /\ req.use_ann
        /\ "malloc" \notin req.fails
    BY <1>0, <2>1 DEF PassedInv, PlaceSets
  <2>4. table
    BY <1>0, <2>1 DEF LocksInv, PlaceSets
  <2>5. changed' \subseteq {"index cache"}
    BY <2>2 DEF AnnSearch
  <2> QED BY <2>1, <2>2, <2>3, <2>4, <2>5
<1>2. /\ Parsed' = Parsed /\ IsRequest(req)' = IsRequest(req) /\ CleanedUp' = CleanedUp
      /\ Acceptable' = Acceptable
  BY <1>1, SameRequest
<1>3. CASE req.trained
  <2>1. pc' = "serialize" /\ UNCHANGED replies
    BY <1>3 DEF AnnSearch
  <2>2. TypeOK'
    BY <2>1, <1>1, <1>2 DEF TypeOK
  <2>3. RouteInv' /\ PassedInv'
    BY <2>1, <1>0, <1>1, <1>2, <1>3 DEF RouteInv, PassedInv, PlaceSets
  <2>4. LocksInv' /\ OwnedInv'
    BY <2>1, <1>0, <1>1 DEF LocksInv, OwnedInv, PlaceSets
  <2>5. AnsweredInv'
    BY <2>1, <1>0, <1>1 DEF AnsweredInv, PlaceSets
  <2> QED BY <2>2, <2>3, <2>4, <2>5
<1>4. CASE ~req.trained
  <2>1. pc' = "cleanup" /\ replies' = Append(replies, 400)
    BY <1>1, <1>4 DEF AnnSearch, Refuse, send_error
  <2>2. AnsweredInv' /\ replies' \in Seq({200, 400, 401, 404, 500})
    <3>1. Why400
      BY <1>1, <1>4, NotTrained
    <3>2. ReasonSent
      <4>1. changed' \subseteq Left(400)
        <5>1. {"index cache"} \subseteq Left(400)
          BY <1>1, LeftBySearch
        <5> QED BY <5>1, <1>1
      <4> QED BY <2>1, <3>1, <4>1 DEF ReasonSent
    <3>3. pc \notin Ending /\ pc' \in Ending
      BY <2>1, <1>1 DEF Ending
    <3>4. AnsweredInv /\ UNCHANGED req /\ req.authorised
      BY <1>1
    <3> QED BY <3>2, <3>3, <3>4, Refused
  <2>3. TypeOK'
    BY <2>1, <2>2, <1>1, <1>2 DEF TypeOK
  <2>4. RouteInv' /\ PassedInv'
    BY <2>1, <1>0, <1>1 DEF RouteInv, PassedInv, PlaceSets
  <2>5. LocksInv' /\ OwnedInv'
    BY <2>1, <1>0, <1>1, <1>2 DEF LocksInv, OwnedInv, PlaceSets, CleanedUp
  <2> QED BY <2>2, <2>3, <2>4, <2>5
<1> QED BY <1>3, <1>4

LEMMA SerializeKeeps == ASSUME HInv, SerializeAndSend PROVE HInv'
<1> USE DEF HInv
<1>0. PlaceSets
  BY Places
<1>1. /\ pc = "serialize" /\ req.route = "search" /\ UNCHANGED <<req, changed>>
      /\ IsRequest(req) /\ owned = {"req", "results"} /\ Parsed /\ table
      /\ req.authorised /\ req.lookup = "found" /\ Acceptable /\ (req.use_ann => req.trained)
      /\ "malloc" \notin req.fails /\ changed \subseteq {"index cache"}
  BY <1>0 DEF SerializeAndSend, RouteInv, OwnedInv, AnsweredInv, PassedInv, LocksInv, TypeOK,
              PlaceSets
<1>2. /\ IsRequest(req)' = IsRequest(req) /\ CleanedUp' = CleanedUp
  BY <1>1, SameRequest
<1>3. /\ pc' = "cleanup" /\ table' = FALSE /\ locks' = Gave("table")
      /\ owned' \subseteq {"req", "results", "json_payload"}
  BY <1>1 DEF SerializeAndSend
<1>4. /\ locks' \in [LockNames -> 0 .. 1]
      /\ locks'["table"] = 0 /\ locks'["index"] = 0 /\ locks'["pending"] = 0
  <2>1. locks["table"] = 1 /\ locks["index"] = 0 /\ locks["pending"] = 0
    BY <1>0, <1>1 DEF LocksInv, PlaceSets
  <2> QED BY <1>3, <2>1, LockOps
<1>5. AnsweredInv' /\ replies' \in Seq({200, 400, 401, 404, 500})
  <2>1. CASE "serialize" \in req.fails
    <3>1. Why500
      BY <1>1, <2>1, NotSerialized
    <3>2. replies' = Append(replies, 500)
      BY <2>1 DEF SerializeAndSend, send_error
    <3>3. ReasonSent
      <4>1. changed' \subseteq Left(500)
        <5>1. {"index cache"} \subseteq Left(500)
          BY <1>1, LeftBySearch
        <5> QED BY <5>1, <1>1
      <4> QED BY <3>1, <3>2, <4>1 DEF ReasonSent
    <3>4. pc \notin Ending /\ pc' \in Ending
      BY <1>1, <1>3 DEF Ending
    <3>5. /\ AnsweredInv /\ UNCHANGED req
          /\ changed' # {} => req.authorised
      BY <1>1, <1>3
    <3> QED BY <3>3, <3>4, <3>5, Refused
  <2>2. CASE "serialize" \notin req.fails
    <3>1. replies' = Append(replies, 200)
      BY <2>2 DEF SerializeAndSend, send_error
    <3>2. ~Why400 /\ ~Why401 /\ ~Why404 /\ ~Why500
      BY <1>1, <2>2, NoReason
    <3> QED BY <3>1, <3>2, <1>0, <1>1, <1>3, Served DEF PlaceSets
  <2> QED BY <2>1, <2>2
<1>6. TypeOK'
  BY <1>1, <1>2, <1>3, <1>4, <1>5 DEF TypeOK
<1>7. RouteInv' /\ PassedInv'
  BY <1>0, <1>1, <1>3 DEF RouteInv, PassedInv, PlaceSets
<1>8. LocksInv'
  BY <1>0, <1>3, <1>4 DEF LocksInv, PlaceSets
<1>9. OwnedInv'
  BY <1>0, <1>1, <1>2, <1>3 DEF OwnedInv, PlaceSets, CleanedUp
<1> QED BY <1>5, <1>6, <1>7, <1>8, <1>9

LEMMA WriteKeeps == ASSUME HInv, WriteRecord PROVE HInv'
<1> USE DEF HInv
<1>0. PlaceSets
  BY Places
<1>1. /\ pc = "insert" /\ req.route = "insert" /\ UNCHANGED <<req, table, locks>>
      /\ changed = {} /\ IsRequest(req) /\ owned = {"req"} /\ Parsed /\ table
      /\ req.authorised /\ req.lookup = "found" /\ Acceptable
  BY <1>0 DEF WriteRecord, RouteInv, OwnedInv, AnsweredInv, PassedInv, LocksInv, TypeOK,
              PlaceSets
<1>2. /\ Parsed' = Parsed /\ IsRequest(req)' = IsRequest(req) /\ CleanedUp' = CleanedUp
      /\ Acceptable' = Acceptable
  BY <1>1, SameRequest
<1>3. CASE "write" \notin req.fails
  <2>1. /\ pc' = "enqueue" /\ UNCHANGED <<replies, changed>>
        /\ owned' \subseteq {"req", "vec_cpy", "meta_cpy"}
    BY <1>1, <1>3 DEF WriteRecord
  <2>2. TypeOK'
    BY <2>1, <1>1, <1>2 DEF TypeOK
  <2>3. RouteInv' /\ PassedInv'
    BY <2>1, <1>0, <1>1, <1>2, <1>3 DEF RouteInv, PassedInv, PlaceSets
  <2>4. LocksInv' /\ OwnedInv'
    BY <2>1, <1>0, <1>1 DEF LocksInv, OwnedInv, PlaceSets
  <2>5. AnsweredInv'
    BY <2>1, <1>0, <1>1, Silent DEF PlaceSets
  <2> QED BY <2>2, <2>3, <2>4, <2>5
<1>4. CASE "write" \in req.fails
  <2>1. /\ pc' = "cleanup" /\ replies' = Append(replies, 500) /\ UNCHANGED owned
        /\ changed' \subseteq {"torn tail"}
    BY <1>1, <1>4 DEF WriteRecord, Refuse, send_error
  <2>2. AnsweredInv' /\ replies' \in Seq({200, 400, 401, 404, 500})
    <3>1. Why500
      BY <1>1, <1>4 DEF Why500, Reasons
    <3>2. ReasonSent
      <4>1. changed' \subseteq Left(500)
        BY <2>1, <1>1 DEF Left
      <4> QED BY <2>1, <3>1, <4>1 DEF ReasonSent
    <3>3. pc \notin Ending /\ pc' \in Ending
      BY <2>1, <1>1 DEF Ending
    <3>4. AnsweredInv /\ UNCHANGED req /\ req.authorised
      BY <1>1
    <3> QED BY <3>2, <3>3, <3>4, Refused
  <2>3. TypeOK'
    BY <2>1, <2>2, <1>1, <1>2 DEF TypeOK
  <2>4. RouteInv' /\ PassedInv'
    BY <2>1, <1>0, <1>1 DEF RouteInv, PassedInv, PlaceSets
  <2>5. LocksInv' /\ OwnedInv'
    BY <2>1, <1>0, <1>1, <1>2 DEF LocksInv, OwnedInv, PlaceSets, CleanedUp
  <2> QED BY <2>2, <2>3, <2>4, <2>5
<1> QED BY <1>3, <1>4

LEMMA EnqueueKeeps == ASSUME HInv, Enqueue PROVE HInv'
<1> USE DEF HInv
<1>0. PlaceSets
  BY Places
<1>1. /\ pc = "enqueue" /\ req.route = "insert" /\ UNCHANGED req /\ changed = {}
      /\ IsRequest(req) /\ owned \subseteq {"req", "vec_cpy", "meta_cpy"} /\ Parsed /\ table
      /\ req.authorised /\ req.lookup = "found" /\ Acceptable /\ "write" \notin req.fails
  BY <1>0 DEF Enqueue, RouteInv, OwnedInv, AnsweredInv, PassedInv, LocksInv, TypeOK, PlaceSets
<1>2. /\ IsRequest(req)' = IsRequest(req) /\ CleanedUp' = CleanedUp
  BY <1>1, SameRequest
<1>3. /\ pc' = "cleanup" /\ table' = FALSE /\ locks' = Gave("table")
      /\ owned' \subseteq {"req"} /\ changed' = {"records"}
  BY <1>1 DEF Enqueue
<1>4. /\ locks' \in [LockNames -> 0 .. 1]
      /\ locks'["table"] = 0 /\ locks'["index"] = 0 /\ locks'["pending"] = 0
  <2>1. locks["table"] = 1 /\ locks["index"] = 0 /\ locks["pending"] = 0
    BY <1>0, <1>1 DEF LocksInv, PlaceSets
  <2> QED BY <1>3, <2>1, LockOps
<1>5. AnsweredInv' /\ replies' \in Seq({200, 400, 401, 404, 500})
  <2>1. replies' = Append(replies, 200)
    BY DEF Enqueue, send_error
  <2>2. ~Why400 /\ ~Why401 /\ ~Why404 /\ ~Why500
    BY <1>1, NoReason
  <2> QED BY <2>1, <2>2, <1>0, <1>1, <1>3, Served DEF PlaceSets
<1>6. TypeOK'
  BY <1>1, <1>2, <1>3, <1>4, <1>5 DEF TypeOK
<1>7. RouteInv' /\ PassedInv'
  BY <1>0, <1>1, <1>3 DEF RouteInv, PassedInv, PlaceSets
<1>8. LocksInv'
  BY <1>0, <1>3, <1>4 DEF LocksInv, PlaceSets
<1>9. OwnedInv'
  BY <1>0, <1>1, <1>2, <1>3 DEF OwnedInv, PlaceSets, CleanedUp
<1> QED BY <1>5, <1>6, <1>7, <1>8, <1>9

LEMMA LockPendingKeeps == ASSUME HInv, LockPending PROVE HInv'
<1> USE DEF HInv
<1>0. PlaceSets
  BY Places
<1>1. /\ pc = "queue" /\ pc' = "append" /\ UNCHANGED <<req, table, owned, replies, changed>>
      /\ locks' = Took("pending")
  BY DEF LockPending
<1>2. /\ req.route = "delete-request" /\ Parsed /\ req.authorised /\ ~table
      /\ owned = {"req"} /\ IsRequest(req)
  BY <1>0, <1>1 DEF RouteInv, PassedInv, LocksInv, OwnedInv, TypeOK, PlaceSets
<1>3. Parsed' = Parsed /\ IsRequest(req)' = IsRequest(req)
  BY <1>1, SameRequest
<1>4. /\ locks' \in [LockNames -> 0 .. 1]
      /\ locks'["table"] = 0 /\ locks'["index"] = 0 /\ locks'["pending"] = 1
  <2>1. locks["table"] = 0 /\ locks["index"] = 0 /\ locks["pending"] = 0
    BY <1>0, <1>1, <1>2 DEF LocksInv, PlaceSets
  <2> QED BY <1>1, <2>1, LockOps
<1>5. TypeOK'
  BY <1>1, <1>3, <1>4 DEF TypeOK
<1>6. RouteInv' /\ PassedInv'
  BY <1>0, <1>1, <1>2, <1>3 DEF RouteInv, PassedInv, PlaceSets
<1>7. LocksInv' /\ OwnedInv'
  BY <1>0, <1>1, <1>2, <1>4 DEF LocksInv, OwnedInv, PlaceSets
<1>8. AnsweredInv'
  BY <1>0, <1>1, Silent DEF PlaceSets
<1> QED BY <1>5, <1>6, <1>7, <1>8

LEMMA QueueKeeps == ASSUME HInv, AppendInv, QueueDelete PROVE HInv'
<1> USE DEF HInv
<1>0. PlaceSets
  BY Places
<1>1. /\ pc = "append" /\ pc' = "cleanup" /\ UNCHANGED <<req, table>>
      /\ replies' = Append(replies, 200)
  BY DEF QueueDelete, send_error
<1>2. /\ req.route = "delete-request" /\ Parsed /\ req.authorised /\ ~table
      /\ owned = {"req"} /\ changed = {} /\ IsRequest(req) /\ replies = <<>>
  BY <1>0, <1>1 DEF RouteInv, PassedInv, LocksInv, OwnedInv, AnsweredInv, TypeOK, PlaceSets
<1>3. /\ IsRequest(req)' = IsRequest(req) /\ CleanedUp' = CleanedUp
  BY <1>1, SameRequest
<1>4. owned' \subseteq {"req", "fp"} /\ changed' \subseteq {"pending mark"}
  BY <1>2 DEF QueueDelete
<1>5. /\ locks' \in [LockNames -> 0 .. 1]
      /\ locks'["table"] = 0 /\ locks'["index"] = 0 /\ locks'["pending"] = 0
  <2>1. /\ locks["table"] = 0 /\ locks["index"] = 0 /\ locks["pending"] = 1
        /\ locks["append"] = 0
    BY <1>0, <1>1, <1>2 DEF LocksInv, PlaceSets, AppendInv, AppendKept
  <2>2. locks \in [LockNames -> 0 .. 1]
    BY DEF TypeOK
  <2>3. \/ locks' = [locks EXCEPT !["pending"] = @ - 1]
        \/ locks' = [locks EXCEPT !["pending"] = @ - 1, !["append"] = @ + 1]
    BY DEF QueueDelete, Gave
  <2>4. CASE locks' = [locks EXCEPT !["pending"] = @ - 1]
    <3>1. \A l \in LockNames : locks'[l] = 0
      BY <2>1, <2>2, <2>4
    <3>2. locks' = [l \in LockNames |-> locks'[l]]
      BY <2>2, <2>4
    <3> QED BY <3>1, <3>2
  <2>5. CASE locks' = [locks EXCEPT !["pending"] = @ - 1, !["append"] = @ + 1]
    <3>1. \A l \in LockNames : locks'[l] = IF l = "append" THEN 1 ELSE 0
      BY <2>1, <2>2, <2>5
    <3>2. locks' = [l \in LockNames |-> locks'[l]]
      BY <2>2, <2>5
    <3> QED BY <3>1, <3>2
  <2> QED BY <2>3, <2>4, <2>5
<1>6. AnsweredInv' /\ replies' \in Seq({200, 400, 401, 404, 500})
  <2>1. ~Why400 /\ ~Why401 /\ ~Why404 /\ ~Why500
    BY <1>2, NoReason
  <2> QED BY <2>1, <1>0, <1>1, <1>2, Served DEF PlaceSets
<1>7. TypeOK'
  <2>1. IsRequest(req)' /\ table' \in BOOLEAN
    BY <1>1, <1>2, <1>3 DEF TypeOK
  <2>2. /\ owned' \subseteq {"req", "results", "json_payload", "vec_cpy", "meta_cpy",
                            "trained_clusters", "fp"}
        /\ changed' \subseteq {"records", "torn tail", "index", "index file", "index cache",
                              "pending mark"}
    BY <1>4
  <2> HIDE DEF HInv
  <2> QED BY <2>1, <2>2, <1>1, <1>5, <1>6 DEF TypeOK
<1>8. RouteInv' /\ PassedInv'
  BY <1>0, <1>1, <1>2 DEF RouteInv, PassedInv, PlaceSets
<1>9. LocksInv' /\ OwnedInv'
  BY <1>0, <1>1, <1>2, <1>3, <1>4, <1>5 DEF LocksInv, OwnedInv, PlaceSets, CleanedUp
<1> QED BY <1>6, <1>7, <1>8, <1>9

LEMMA BuildKeeps == ASSUME HInv, BuildClusters PROVE HInv'
<1> USE DEF HInv
<1>0. PlaceSets
  BY Places
<1>1. /\ pc = "train" /\ req.route = "train" /\ UNCHANGED <<req, table, replies, changed>>
      /\ changed = {} /\ IsRequest(req) /\ owned = {"req"} /\ Parsed /\ table
      /\ req.authorised /\ req.lookup = "found" /\ Acceptable
      /\ pc' = "save" /\ owned' = {"req", "trained_clusters"} /\ locks' = Took("index")
  <2>1. /\ pc = "train" /\ pc' = "save" /\ UNCHANGED <<req, table, replies, changed>>
        /\ locks' = Took("index")
    BY DEF BuildClusters
  <2>2. /\ req.route = "train" /\ Parsed /\ req.authorised /\ req.lookup = "found" /\ Acceptable /\ table
    BY <2>1, <1>0 DEF RouteInv, PassedInv, LocksInv, PlaceSets
  <2>3. changed = {} /\ owned = {"req"} /\ IsRequest(req)
    BY <2>1, <1>0 DEF OwnedInv, AnsweredInv, TypeOK, PlaceSets
  <2>4. owned' = {"req", "trained_clusters"}
    BY <2>3 DEF BuildClusters
  <2> QED BY <2>1, <2>2, <2>3, <2>4
<1>2. /\ Parsed' = Parsed /\ IsRequest(req)' = IsRequest(req) /\ Acceptable' = Acceptable
  BY <1>1, SameRequest
<1>3. /\ locks' \in [LockNames -> 0 .. 1]
      /\ locks'["table"] = 1 /\ locks'["index"] = 1 /\ locks'["pending"] = 0
  <2>1. locks["table"] = 1 /\ locks["index"] = 0 /\ locks["pending"] = 0
    BY <1>0, <1>1 DEF LocksInv, PlaceSets
  <2> QED BY <1>1, <2>1, LockOps
<1>4. TypeOK'
  BY <1>1, <1>2, <1>3 DEF TypeOK
<1>5. RouteInv' /\ PassedInv'
  BY <1>0, <1>1, <1>2 DEF RouteInv, PassedInv, PlaceSets
<1>6. LocksInv' /\ OwnedInv'
  BY <1>0, <1>1, <1>3 DEF LocksInv, OwnedInv, PlaceSets
<1>7. AnsweredInv'
  BY <1>0, <1>1, Silent DEF PlaceSets
<1> QED BY <1>4, <1>5, <1>6, <1>7

LEMMA SaveKeeps == ASSUME HInv, SaveIndex PROVE HInv'
<1> USE DEF HInv
<1>0. PlaceSets
  BY Places
<1>1. /\ pc = "save" /\ req.route = "train" /\ UNCHANGED req /\ changed = {}
      /\ IsRequest(req) /\ owned = {"req", "trained_clusters"} /\ Parsed /\ table
      /\ req.authorised /\ req.lookup = "found" /\ Acceptable
      /\ pc' = "cleanup" /\ table' = FALSE
  BY <1>0 DEF SaveIndex, RouteInv, OwnedInv, AnsweredInv, PassedInv, LocksInv, TypeOK,
              PlaceSets
<1>2. /\ IsRequest(req)' = IsRequest(req) /\ CleanedUp' = CleanedUp
  BY <1>1, SameRequest
<1>3. /\ locks' \in [LockNames -> 0 .. 1]
      /\ locks'["table"] = 0 /\ locks'["index"] = 0 /\ locks'["pending"] = 0
  <2>1. locks["table"] = 1 /\ locks["index"] = 1 /\ locks["pending"] = 0
    BY <1>0, <1>1 DEF LocksInv, PlaceSets
  <2>2. locks \in [LockNames -> 0 .. 1]
    BY DEF TypeOK
  <2>3. locks' = [locks EXCEPT !["index"] = @ - 1, !["table"] = @ - 1]
    BY DEF SaveIndex
  <2>4. \A l \in LockNames :
           locks'[l] = IF l \in {"index", "table"} THEN locks[l] - 1 ELSE locks[l]
    BY <2>2, <2>3
  <2>5. \A l \in LockNames : locks'[l] \in 0 .. 1
    BY <2>1, <2>2, <2>4
  <2>6. DOMAIN locks' = LockNames /\ locks' = [l \in LockNames |-> locks'[l]]
    BY <2>2, <2>3
  <2> QED BY <2>1, <2>4, <2>5, <2>6
<1>4. CASE "save" \in req.fails
  <2>1. /\ UNCHANGED owned /\ changed' \subseteq {"index file"}
        /\ replies' = Append(replies, 500)
    BY <1>1, <1>4 DEF SaveIndex, send_error
  <2>2. AnsweredInv' /\ replies' \in Seq({200, 400, 401, 404, 500})
    <3>1. Why500
      BY <1>1, <1>4 DEF Why500, Reasons
    <3>2. ReasonSent
      <4>1. changed' \subseteq Left(500)
        BY <2>1, <1>1 DEF Left
      <4> QED BY <2>1, <3>1, <4>1 DEF ReasonSent
    <3>3. pc \notin Ending /\ pc' \in Ending
      BY <2>1, <1>1 DEF Ending
    <3>4. AnsweredInv /\ UNCHANGED req /\ req.authorised
      BY <2>1, <1>1
    <3> QED BY <3>2, <3>3, <3>4, Refused
  <2>3. TypeOK'
    BY <2>1, <2>2, <1>1, <1>2, <1>3 DEF TypeOK
  <2>4. LocksInv' /\ OwnedInv'
    BY <2>1, <1>0, <1>1, <1>2, <1>3 DEF LocksInv, OwnedInv, PlaceSets, CleanedUp
  <2>5. RouteInv' /\ PassedInv'
    BY <1>0, <1>1 DEF RouteInv, PassedInv, PlaceSets
  <2> QED BY <2>2, <2>3, <2>4, <2>5
<1>5. CASE "save" \notin req.fails
  <2>1. owned' = {"req"} /\ changed' = {"index", "index file"} /\ replies' = Append(replies, 200)
    BY <1>1, <1>5 DEF SaveIndex, send_error
  <2>2. AnsweredInv' /\ replies' \in Seq({200, 400, 401, 404, 500})
    <3>1. ~Why400 /\ ~Why401 /\ ~Why404 /\ ~Why500
      BY <1>1, <1>5, NoReason
    <3> QED BY <2>1, <3>1, <1>0, <1>1, Served DEF PlaceSets
  <2>3. TypeOK'
    BY <2>1, <2>2, <1>1, <1>2, <1>3 DEF TypeOK
  <2>4. LocksInv' /\ OwnedInv'
    BY <2>1, <1>0, <1>1, <1>2, <1>3 DEF LocksInv, OwnedInv, PlaceSets, CleanedUp
  <2>5. RouteInv' /\ PassedInv'
    BY <1>0, <1>1 DEF RouteInv, PassedInv, PlaceSets
  <2> QED BY <2>2, <2>3, <2>4, <2>5
<1> QED BY <1>4, <1>5

LEMMA CleanupKeeps == ASSUME HInv, Cleanup PROVE HInv'
<1> USE DEF HInv
<1>0. PlaceSets
  BY Places
<1>1. /\ pc = "cleanup" /\ pc' = "done" /\ UNCHANGED <<req, table, replies, changed>>
      /\ owned' \subseteq {"fp"} /\ IsRequest(req)
  <2>1. /\ pc = "cleanup" /\ pc' = "done" /\ UNCHANGED <<req, table, replies, changed>>
        /\ owned' = owned \ CleanedUp
    BY DEF Cleanup
  <2>2. owned \subseteq CleanedUp \cup {"fp"}
    BY <2>1 DEF OwnedInv
  <2> QED BY <2>1, <2>2 DEF TypeOK
<1>2. /\ IsRequest(req)' = IsRequest(req)
      /\ Why400' = Why400 /\ Why401' = Why401 /\ Why404' = Why404 /\ Why500' = Why500
      /\ Left(400)' = Left(400) /\ Left(401)' = Left(401)
      /\ Left(404)' = Left(404) /\ Left(500)' = Left(500)
  BY <1>1, SameRequest
<1>3. /\ locks' \in [LockNames -> 0 .. 1]
      /\ locks'["table"] = 0 /\ locks'["index"] = 0 /\ locks'["pending"] = 0
  <2>1. /\ locks["index"] = 0 /\ locks["pending"] = 0
        /\ locks["table"] = IF table THEN 1 ELSE 0
    BY <1>0, <1>1 DEF LocksInv, PlaceSets
  <2>2. CASE table
    <3>1. locks' = Gave("table")
      BY <2>2 DEF Cleanup
    <3> QED BY <3>1, <2>1, <2>2, LockOps
  <2>3. CASE ~table
    BY <2>1, <2>3 DEF Cleanup, TypeOK
  <2> QED BY <2>2, <2>3
<1>4. TypeOK'
  BY <1>1, <1>2, <1>3 DEF TypeOK
<1>5. RouteInv' /\ PassedInv'
  BY <1>0, <1>1 DEF RouteInv, PassedInv, PlaceSets
<1>6. LocksInv' /\ OwnedInv'
  BY <1>0, <1>1, <1>3 DEF LocksInv, OwnedInv, PlaceSets
<1>7. AnsweredInv'
  <2>1. Success' = Success
    BY <1>1, <1>2 DEF Success
  <2>2. Refusal' = Refusal
    BY <1>1, <1>2 DEF Refusal
  <2>3. pc \in Ending /\ pc' \in Ending /\ pc' # "serialize"
    BY <1>1 DEF Ending
  <2> QED BY <1>1, <2>1, <2>2, <2>3 DEF AnsweredInv
<1> QED BY <1>4, <1>5, <1>6, <1>7

LEMMA UnknownKeeps == ASSUME HInv, UnknownRoute PROVE HInv'
<1> USE DEF HInv
<1>0. PlaceSets
  BY Places
<1>1. /\ pc = "unknown" /\ req.route = "unknown" /\ UNCHANGED <<req, table, locks, owned, changed>>
      /\ changed = {} /\ IsRequest(req) /\ owned = {} /\ ~table
      /\ pc' = "done" /\ replies' = Append(replies, 404)
  BY <1>0 DEF UnknownRoute, send_error, RouteInv, OwnedInv, AnsweredInv, LocksInv, TypeOK,
              PlaceSets
<1>2. IsRequest(req)' = IsRequest(req)
  BY <1>1, SameRequest
<1>3. AnsweredInv' /\ replies' \in Seq({200, 400, 401, 404, 500})
  <2>1. Why404
    BY <1>1 DEF Why404, Reasons
  <2> QED BY <2>1, <1>0, <1>1, Refused DEF PlaceSets, ReasonSent
<1>4. TypeOK'
  BY <1>1, <1>2, <1>3 DEF TypeOK
<1>5. RouteInv' /\ PassedInv'
  BY <1>0, <1>1 DEF RouteInv, PassedInv, PlaceSets
<1>6. LocksInv' /\ OwnedInv'
  BY <1>0, <1>1 DEF LocksInv, OwnedInv, PlaceSets
<1> QED BY <1>3, <1>4, <1>5, <1>6

LEMMA HandlerInit == Init => HInv
<1> SUFFICES ASSUME Init PROVE HInv
  OBVIOUS
<1>0. PlaceSets
  BY Places
<1>1. IsRequest(req)
  BY HandlersAssumption DEF Init
<1>2. pc = IF req.route = "unknown" THEN "unknown" ELSE "parse"
  BY DEF Init
<1>3. /\ locks \in [LockNames -> 0 .. 1]
      /\ locks["table"] = 0 /\ locks["index"] = 0 /\ locks["pending"] = 0
  BY DEF Init, NoLocks
<1>4. TypeOK
  <2>1. table \in BOOLEAN /\ owned = {} /\ changed = {} /\ replies = <<>>
    BY DEF Init
  <2>2. replies \in Seq({200, 400, 401, 404, 500})
    BY <2>1
  <2> QED BY <1>1, <1>2, <1>3, <2>1, <2>2 DEF TypeOK
<1>5. RouteInv /\ PassedInv
  BY <1>0, <1>2 DEF RouteInv, PassedInv, PlaceSets
<1>6. LocksInv /\ OwnedInv /\ AnsweredInv
  BY <1>0, <1>2, <1>3 DEF Init, LocksInv, OwnedInv, AnsweredInv, PlaceSets
<1> QED BY <1>4, <1>5, <1>6 DEF HInv

LEMMA HandlerNext == HInv /\ AppendInv /\ [Next]_vars => HInv'
<1> SUFFICES ASSUME HInv, AppendInv, [Next]_vars PROVE HInv'
  OBVIOUS
<1>1. CASE UNCHANGED vars
  <2>1. UNCHANGED <<req, pc, table, locks, owned, replies, changed>>
    BY <1>1 DEF vars
  <2>2. /\ IsRequest(req)' = IsRequest(req) /\ Parsed' = Parsed /\ Acceptable' = Acceptable
        /\ CleanedUp' = CleanedUp
        /\ Why400' = Why400 /\ Why401' = Why401 /\ Why404' = Why404 /\ Why500' = Why500
        /\ Left(400)' = Left(400) /\ Left(401)' = Left(401)
        /\ Left(404)' = Left(404) /\ Left(500)' = Left(500)
    BY <2>1, SameRequest
  <2>3. TypeOK' /\ RouteInv' /\ PassedInv'
    <3>1. TypeOK'
      <4>1. TypeOK
        BY DEF HInv
      <4>2. IsRequest(req)'
        BY <4>1, <2>2 DEF TypeOK
      <4> QED BY <4>1, <4>2, <2>1, Zenon DEF TypeOK
    <3>2. RouteInv' /\ PassedInv'
      BY <2>1, <2>2 DEF HInv, RouteInv, PassedInv
    <3> QED BY <3>1, <3>2
  <2>4. LocksInv' /\ OwnedInv'
    BY <2>1, <2>2 DEF HInv, LocksInv, OwnedInv
  <2>5. AnsweredInv'
    <3>1. Success' = Success
      BY <2>1, <2>2 DEF Success
    <3>2. Refusal' = Refusal
      BY <2>1, <2>2 DEF Refusal
    <3>3. AnsweredInv
      BY DEF HInv
    <3> QED BY <2>1, <3>1, <3>2, <3>3 DEF AnsweredInv
  <2> QED BY <2>3, <2>4, <2>5 DEF HInv
<1>2. CASE Next
  BY <1>2, ParseKeeps, AuthKeeps, OpenKeeps, ValidateKeeps, AllocateKeeps, AnnKeeps,
     SerializeKeeps, WriteKeeps, EnqueueKeeps, LockPendingKeeps, QueueKeeps, BuildKeeps, SaveKeeps,
     CleanupKeeps, UnknownKeeps DEF Next
<1> QED BY <1>1, <1>2

\* A step that leaves the append lock and its file alone and does not answer a
\* delete request with 200.
LEMMA AppendLeft ==
    ASSUME HInv, AppendInv, pc \notin Ending, UNCHANGED req,
           locks'["append"] = locks["append"], "fp" \in owned' <=> "fp" \in owned,
           req.route # "delete-request" \/ replies' # << 200 >>
    PROVE  AppendInv'
<1>1. replies # <<200>>
  <2>1. replies = <<>>
    BY DEF HInv, AnsweredInv
  <2> QED BY <2>1
<1>2. ~AppendKept /\ ~AppendKept'
  BY <1>1 DEF AppendKept
<1> QED BY <1>2 DEF AppendInv

LEMMA AppendNext == HInv /\ AppendInv /\ [Next]_vars => AppendInv'
<1> SUFFICES ASSUME HInv, AppendInv, [Next]_vars PROVE AppendInv'
  OBVIOUS
<1>0. PlaceSets /\ locks \in [LockNames -> 0 .. 1]
  BY Places DEF HInv, TypeOK
<1>1. CASE UNCHANGED vars
  BY <1>1 DEF vars, AppendInv, AppendKept
<1>2. ASSUME pc \notin Ending
      PROVE  replies = <<>>
  BY <1>2 DEF HInv, AnsweredInv
<1>3. \A c \in {400, 401} : <<c>> # <<200>>
  OBVIOUS
<1>4. CASE Parse \/ authenticate_request
  <2>1. /\ pc \notin Ending /\ UNCHANGED <<req, locks>>
        /\ replies' \in {replies, Append(replies, 400), Append(replies, 401)}
        /\ "fp" \in owned' <=> "fp" \in owned
    BY <1>0, <1>4 DEF Parse, authenticate_request, Refuse, send_error, PlaceSets, HInv, OwnedInv
  <2>2. replies' # <<200>>
    BY <2>1, <1>2, <1>3
  <2> QED BY <2>1, <2>2, AppendLeft
<1>5. CASE OpenTable \/ Validate \/ AllocateResults \/ AnnSearch \/ SerializeAndSend
           \/ WriteRecord \/ Enqueue \/ BuildClusters \/ SaveIndex
  <2>1. /\ pc \notin Ending /\ UNCHANGED req /\ req.route # "delete-request"
    <3>1. /\ pc \in {"open", "validate", "search", "ann", "serialize", "insert", "enqueue",
                     "train", "save"}
          /\ UNCHANGED req
      BY <1>5 DEF OpenTable, Validate, AllocateResults, AnnSearch, SerializeAndSend,
         WriteRecord, Enqueue, BuildClusters, SaveIndex
    <3> QED BY <1>0, <3>1 DEF PlaceSets, HInv, RouteInv
  <2>2. "fp" \in owned' <=> "fp" \in owned
    <3>1. CASE OpenTable \/ Validate \/ AnnSearch
      BY <3>1 DEF OpenTable, Validate, AnnSearch
    <3>5. CASE AllocateResults
      <4>1. owned' = owned \/ owned' = owned \cup {"results"}
        BY <3>5 DEF AllocateResults
      <4> QED BY <4>1
    <3>2. CASE SerializeAndSend
      BY <3>2 DEF SerializeAndSend
    <3>3. CASE WriteRecord
      <4>1. \/ owned' = owned \/ owned' = owned \cup {"vec_cpy"} \cup {}
            \/ owned' = owned \cup {"vec_cpy"} \cup {"meta_cpy"}
        BY <3>3 DEF WriteRecord
      <4> QED BY <4>1
    <3>4. CASE Enqueue \/ BuildClusters \/ SaveIndex
      BY <3>4 DEF Enqueue, BuildClusters, SaveIndex
    <3> QED BY <1>5, <3>1, <3>2, <3>3, <3>4, <3>5
  <2>3. locks'["append"] = locks["append"]
    BY <1>0, <1>5 DEF OpenTable, Validate, AllocateResults, AnnSearch, SerializeAndSend,
       WriteRecord, Enqueue, BuildClusters, SaveIndex, Took, Gave
  <2> QED BY <2>1, <2>2, <2>3, AppendLeft
<1>6. CASE LockPending
  <2>1. /\ pc \notin Ending /\ UNCHANGED <<req, owned, replies>>
        /\ locks'["append"] = locks["append"]
    BY <1>0, <1>6 DEF LockPending, PlaceSets, Took
  <2>2. replies' # <<200>>
    BY <2>1, <1>2
  <2> QED BY <2>1, <2>2, AppendLeft
<1>7. CASE QueueDelete
  <2>1. /\ pc = "append" /\ UNCHANGED req /\ replies' = Append(replies, 200)
    BY <1>7 DEF QueueDelete, send_error
  <2>2. replies = <<>> /\ req.route = "delete-request"
    BY <1>0, <1>2, <2>1 DEF PlaceSets, HInv, RouteInv
  <2>3. replies' = <<200>>
    BY <2>1, <2>2
  <2>4. AppendKept' <=> "fopen" \notin req.fails
    BY <2>1, <2>2, <2>3 DEF AppendKept
  <2>5. ~AppendKept
    BY <2>2 DEF AppendKept
  <2>6. locks["append"] = 0 /\ "fp" \notin owned
    BY <2>5 DEF AppendInv
  <2>7. CASE "fopen" \in req.fails
    <3>1. locks' = [locks EXCEPT !["pending"] = @ - 1] /\ owned' = owned
      BY <1>7, <2>7 DEF QueueDelete, Gave
    <3>2. locks'["append"] = 0
      BY <1>0, <2>6, <3>1
    <3> QED BY <3>1, <3>2, <2>4, <2>6, <2>7 DEF AppendInv
  <2>8. CASE "fopen" \notin req.fails
    <3>1. /\ locks' = [locks EXCEPT !["pending"] = @ - 1, !["append"] = @ + 1]
          /\ owned' = owned \cup {"fp"}
      BY <1>7, <2>8 DEF QueueDelete
    <3>2. locks'["append"] = 1
      BY <1>0, <2>6, <3>1
    <3> QED BY <3>1, <3>2, <2>4, <2>8 DEF AppendInv
  <2> QED BY <2>7, <2>8
<1>8. CASE Cleanup
  <2>1. /\ UNCHANGED <<req, replies>> /\ locks'["append"] = locks["append"]
        /\ owned' = owned \ CleanedUp /\ pc = "cleanup"
    BY <1>0, <1>8 DEF Cleanup, Gave
  <2>2. "fp" \notin CleanedUp
    <3>1. req.route \in {"search", "insert", "train", "delete-request"}
      BY <1>0, <2>1, Routed DEF HInv, RouteInv, TypeOK, PlaceSets
    <3> QED BY <3>1 DEF CleanedUp
  <2> QED BY <2>1, <2>2 DEF AppendInv, AppendKept
<1>9. CASE UnknownRoute
  <2>1. /\ pc \notin Ending /\ UNCHANGED <<req, owned, locks>> /\ req.route # "delete-request"
    BY <1>0, <1>9 DEF UnknownRoute, PlaceSets, HInv, RouteInv
  <2> QED BY <2>1, AppendLeft
<1> QED BY <1>1, <1>4, <1>5, <1>6, <1>7, <1>8, <1>9 DEF Next

LEMMA HandlerInv == Spec => [](HInv /\ AppendInv)
<1>1. Init => AppendInv
  BY DEF Init, AppendInv, AppendKept, NoLocks
<1> QED BY <1>1, HandlerInit, HandlerNext, AppendNext, PTL DEF Spec

\* Whatever the request, wherever the handler leaves its route: no lock is kept or
\* given back twice, everything allocated is freed or handed over, and what was
\* handed over is not freed (handel_client's early exits and its clean-up), but
\* for the lock and the file that an answered delete request keeps.
THEOREM HandlerCleanExit == Spec => []CleanExit
<1>1. HInv /\ AppendInv => CleanExit
  <2> SUFFICES ASSUME HInv, AppendInv PROVE CleanExit
    OBVIOUS
  <2>0. PlaceSets
    BY Places
  <2>1. TypeOK
    BY DEF HInv
  <2>2. ASSUME pc = "done"
        PROVE  /\ locks = [NoLocks EXCEPT !["append"] = IF AppendKept THEN 1 ELSE 0]
               /\ owned = IF AppendKept THEN {"fp"} ELSE {}
    <3>1. locks["table"] = 0 /\ locks["index"] = 0 /\ locks["pending"] = 0
      BY <2>0, <2>2 DEF HInv, LocksInv
    <3>2. locks \in [LockNames -> 0 .. 1]
      BY <2>1 DEF TypeOK
    <3>3. owned \subseteq {"fp"}
      BY <2>2 DEF HInv, OwnedInv
    <3>4. locks["append"] = (IF AppendKept THEN 1 ELSE 0) /\ ("fp" \in owned <=> AppendKept)
      BY DEF AppendInv
    <3> HIDE DEF AppendKept
    <3>5. locks = [NoLocks EXCEPT !["append"] = IF AppendKept THEN 1 ELSE 0]
      BY <3>1, <3>2, <3>4 DEF NoLocks
    <3> QED BY <3>3, <3>4, <3>5
  <2>3. "records" \in changed => owned \cap {"vec_cpy", "meta_cpy"} = {}
    <3> SUFFICES ASSUME "records" \in changed
                 PROVE  owned \cap {"vec_cpy", "meta_cpy"} = {}
      OBVIOUS
    <3>1. pc \in {"cleanup", "done"}
      BY <2>0 DEF HInv, AnsweredInv, PlaceSets
    <3>2. CASE pc = "cleanup"
      <4>1. req.route \in {"search", "insert", "train", "delete-request"}
        BY <2>0, <3>2, Routed DEF HInv, RouteInv, TypeOK, PlaceSets
      <4>2. owned \subseteq CleanedUp \cup {"fp"}
        BY <3>2 DEF HInv, OwnedInv
      <4> QED BY <4>1, <4>2 DEF CleanedUp
    <3>3. CASE pc = "done"
      BY <3>3 DEF HInv, OwnedInv
    <3> QED BY <3>1, <3>2, <3>3
  <2>4. "index" \in changed => "trained_clusters" \notin owned
    BY DEF HInv, OwnedInv
  <2> QED BY <2>1, <2>2, <2>3, <2>4 DEF CleanExit
<1> QED BY <1>1, HandlerInv, PTL

LEMMA OnlyReply ==
    ASSUME NEW code \in {400, 401, 404, 500}, replies = <<code>>
    PROVE  Len(replies) = 1 /\ \A n \in 1 .. Len(replies) : replies[n] = code /\ replies[n] # 200
  OBVIOUS

\* Every request is answered once; a refusal has one of its status's reasons and
\* has left nothing but what Left names, success means that no reason to refuse was there, and
\* nothing is changed without a key.
THEOREM HandlerRightAnswer == Spec => []RightAnswer
<1>1. HInv => RightAnswer
  <2> SUFFICES ASSUME HInv PROVE RightAnswer
    OBVIOUS
  <2>0. PlaceSets
    BY Places
  <2>1. changed # {} => req.authorised
    BY DEF HInv, AnsweredInv
  <2>2. CASE pc \notin Ending
    <3>1. replies = <<>> /\ pc # "done"
      BY <2>0, <2>2 DEF HInv, AnsweredInv, PlaceSets
    <3> QED BY <2>1, <3>1 DEF RightAnswer
  <2>3. CASE pc \in Ending
    <3>1. CASE Success
      <4>1. Len(replies) = 1 /\ replies[1] = 200
        BY <3>1 DEF Success
      <4>2. req.route # "unknown" /\ \A s \in {400, 401, 404, 500} : ~Reasons(s)
        BY <3>1 DEF Success, Why400, Why401, Why404, Why500
      <4>3. \A n \in 1 .. Len(replies) : replies[n] = 200
        BY <4>1
      <4> QED BY <2>1, <4>1, <4>2, <4>3 DEF RightAnswer
    <3>2. CASE replies = <<400>> /\ Why400 /\ changed \subseteq Left(400)
      <4>1. replies = <<400>>
        BY <3>2
      <4>2. /\ Len(replies) = 1
            /\ \A n \in 1 .. Len(replies) : replies[n] = 400 /\ replies[n] # 200
        BY <4>1, OnlyReply
      <4>3. Why400 /\ changed \subseteq Left(400)
        BY <3>2
      <4>4. ASSUME NEW n \in 1 .. Len(replies)
            PROVE  Reasons(replies[n]) /\ changed \subseteq Left(replies[n])
        <5>1. replies[n] = 400
          BY <4>2
        <5> QED BY <5>1, <4>3 DEF Why400, Reasons
      <4>5. ASSUME NEW n \in 1 .. Len(replies)
            PROVE  IF replies[n] = 200
                   THEN req.route # "unknown" /\ \A s \in {400, 401, 404, 500} : ~Reasons(s)
                   ELSE Reasons(replies[n]) /\ changed \subseteq Left(replies[n])
        <5>1. replies[n] # 200
          BY <4>2
        <5> QED BY <5>1, <4>3, <4>4, Zenon
      <4> QED BY <2>1, <4>2, <4>5, Zenon DEF RightAnswer
    <3>3. CASE replies = <<401>> /\ Why401 /\ changed \subseteq Left(401)
      <4>1. replies = <<401>>
        BY <3>3
      <4>2. /\ Len(replies) = 1
            /\ \A n \in 1 .. Len(replies) : replies[n] = 401 /\ replies[n] # 200
        BY <4>1, OnlyReply
      <4>3. Why401 /\ changed \subseteq Left(401)
        BY <3>3
      <4>4. ASSUME NEW n \in 1 .. Len(replies)
            PROVE  Reasons(replies[n]) /\ changed \subseteq Left(replies[n])
        <5>1. replies[n] = 401
          BY <4>2
        <5> QED BY <5>1, <4>3 DEF Why401, Reasons
      <4>5. ASSUME NEW n \in 1 .. Len(replies)
            PROVE  IF replies[n] = 200
                   THEN req.route # "unknown" /\ \A s \in {400, 401, 404, 500} : ~Reasons(s)
                   ELSE Reasons(replies[n]) /\ changed \subseteq Left(replies[n])
        <5>1. replies[n] # 200
          BY <4>2
        <5> QED BY <5>1, <4>3, <4>4, Zenon
      <4> QED BY <2>1, <4>2, <4>5, Zenon DEF RightAnswer
    <3>4. CASE replies = <<404>> /\ Why404 /\ changed \subseteq Left(404)
      <4>1. replies = <<404>>
        BY <3>4
      <4>2. /\ Len(replies) = 1
            /\ \A n \in 1 .. Len(replies) : replies[n] = 404 /\ replies[n] # 200
        BY <4>1, OnlyReply
      <4>3. Why404 /\ changed \subseteq Left(404)
        BY <3>4
      <4>4. ASSUME NEW n \in 1 .. Len(replies)
            PROVE  Reasons(replies[n]) /\ changed \subseteq Left(replies[n])
        <5>1. replies[n] = 404
          BY <4>2
        <5> QED BY <5>1, <4>3 DEF Why404, Reasons
      <4>5. ASSUME NEW n \in 1 .. Len(replies)
            PROVE  IF replies[n] = 200
                   THEN req.route # "unknown" /\ \A s \in {400, 401, 404, 500} : ~Reasons(s)
                   ELSE Reasons(replies[n]) /\ changed \subseteq Left(replies[n])
        <5>1. replies[n] # 200
          BY <4>2
        <5> QED BY <5>1, <4>3, <4>4, Zenon
      <4> QED BY <2>1, <4>2, <4>5, Zenon DEF RightAnswer
    <3>5. CASE replies = <<500>> /\ Why500 /\ changed \subseteq Left(500)
      <4>1. replies = <<500>>
        BY <3>5
      <4>2. /\ Len(replies) = 1
            /\ \A n \in 1 .. Len(replies) : replies[n] = 500 /\ replies[n] # 200
        BY <4>1, OnlyReply
      <4>3. Why500 /\ changed \subseteq Left(500)
        BY <3>5
      <4>4. ASSUME NEW n \in 1 .. Len(replies)
            PROVE  Reasons(replies[n]) /\ changed \subseteq Left(replies[n])
        <5>1. replies[n] = 500
          BY <4>2
        <5> QED BY <5>1, <4>3 DEF Why500, Reasons
      <4>5. ASSUME NEW n \in 1 .. Len(replies)
            PROVE  IF replies[n] = 200
                   THEN req.route # "unknown" /\ \A s \in {400, 401, 404, 500} : ~Reasons(s)
                   ELSE Reasons(replies[n]) /\ changed \subseteq Left(replies[n])
        <5>1. replies[n] # 200
          BY <4>2
        <5> QED BY <5>1, <4>3, <4>4, Zenon
      <4> QED BY <2>1, <4>2, <4>5, Zenon DEF RightAnswer
    <3> QED BY <2>3, <3>1, <3>2, <3>3, <3>4, <3>5 DEF HInv, AnsweredInv, Refusal
  <2> QED BY <2>2, <2>3
<1> QED BY <1>1, HandlerInv, PTL
=============================================================================
