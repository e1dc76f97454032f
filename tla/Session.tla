----------------------------- MODULE Session -----------------------------
(***************************************************************************)
(* SisSession and Declaration (tcn/sqe/session.h, tcn/sqe/transport.h).    *)
(*                                                                         *)
(* A Declaration owns one registration the transport issued, a liveliness  *)
(* token or a subscriber, and drops it exactly once.  A SisSession is a    *)
(* client id, the Declaration of that client's token, and the typed path   *)
(* of its requests.  One thread owns them all; it blocks in Transport's    *)
(* query, while the network and the engine go on.                          *)
(*                                                                         *)
(* An operator whose name has an underscore after the name of another is   *)
(* that operator with a mistake, as in LeaseTable.                         *)
(***************************************************************************)
EXTENDS Integers, Sequences

CONSTANTS
  Session,      \* variables of type SisSession
  Subscriber,   \* variables of type Declaration, for subscribers
  Client,       \* client ids
  Request,      \* the requests sent, by the name of their key
  Permit,       \* "use_after_move": a request on a moved-from session
  None,         \* no session object, no client id, no reply
  MaxIssued,    \* bound: registrations the transport issues
  MaxCalls      \* bound: requests

\* The RequestKey table: how a request is sent, and what it is answered with.
Mutation == {"join", "node_update", "node_remove", "edge_update",
             "edge_remove", "target_update"}
StreamRequest == {"stream_start", "stream_stop"}
Read == {"graph_query", "pattern_query", "target_query"}

Mode_BeforeB47(q) == IF q \in {"leave", "edge_update"} THEN "publish" ELSE "query"

Mode(q) == IF q = "leave" THEN "publish" ELSE "query"

ReplyOf(q) == CASE q \in Mutation -> "mutation"
                [] q \in StreamRequest -> "stream"
                [] q \in Read \cup {"leave"} -> q

ReplyType == {"mutation", "stream"} \cup Read

\* The engine subscribes to the leaves; its other keys are queryables.
EngineServes(q, mode) ==
  \/ q = "leave" /\ mode = "publish"
  \/ q \in Mutation \cup StreamRequest \cup Read /\ mode = "query"

ASSUME ConstantsOK ==
  /\ Session \cap Subscriber = {}
  /\ None \notin Client \cup {"status"}
  /\ Request \subseteq Mutation \cup StreamRequest \cup Read \cup {"leave"}
  /\ Permit \subseteq {"use_after_move"}
  /\ MaxIssued \in Nat /\ MaxCalls \in Nat

VARIABLES
  exists,    \* the Session variables that hold an object
  id,        \* id_ of each session; None once it has been moved out
  holds,     \* reg_ of each Declaration, in a session or not; 0 is invalid
  issued,    \* the transport has issued the registrations 1 .. issued
  declared,  \* what each registration declares: a client's token, "status"
             \* for a subscriber, or None when it is not in force
  calls      \* history: the requests made, and what became of each

vars == <<exists, id, holds, issued, declared, calls>>
objects == <<exists, id, holds, issued, declared>>

Holder == Session \cup Subscriber
Reg == 1 .. MaxIssued

\* wire: where the request is.  outcome: what the caller was told.
Call == [client : Client \cup {None}, request : Request, present : BOOLEAN,
         wire : {"unsent", "flying", "lost", "served", "ignored"},
         reply : ReplyType \cup {None},
         outcome : {"waiting", "ok", "encode_failed", "transport_failed",
                    "timeout", "wrong_declared_type", "decode_failed"}]

Present(c) == c # None /\ \E r \in Reg : declared[r] = c

\* The owner's thread is not inside query.
Running == \A n \in DOMAIN calls : calls[n].outcome # "waiting"

Init ==
  /\ exists = {}
  /\ id = [s \in Session |-> None]
  /\ holds = [d \in Holder |-> 0]
  /\ issued = 0
  /\ declared = [r \in Reg |-> None]
  /\ calls = <<>>

---------------------------------------------------------------------------
(* Declarations.                                                           *)

\* release: undeclare what d holds, in the registrations ds.
Release(d, ds) ==
  IF holds[d] # 0 THEN [ds EXCEPT ![holds[d]] = None] ELSE ds

Declare_Reuses(d, what) ==
  /\ issued < MaxIssued
  /\ holds' = [holds EXCEPT ![d] = issued + 1]
  /\ UNCHANGED issued

\* The transport declares what, and d is the Declaration of it.
Declare(d, what) ==
  /\ issued < MaxIssued
  /\ issued' = issued + 1
  /\ holds' = [holds EXCEPT ![d] = issued + 1]

MoveDeclaration_Copies(dst, src) ==
  holds' = [holds EXCEPT ![dst] = holds[src]]

\* The registration changes hands; src holds none.
MoveDeclaration(dst, src) ==
  holds' = [holds EXCEPT ![dst] = holds[src], ![src] = 0]

\* subscribe, into a Declaration that holds none.  When the transport
\* refuses, or answers with an invalid registration, nothing has changed.
Subscribe(d) ==
  /\ Running /\ holds[d] = 0
  /\ Declare(d, "status")
  /\ declared' = [declared EXCEPT ![issued + 1] = "status"]
  /\ UNCHANGED <<exists, id, calls>>

\* undeclare, or the destructor: a no-op the second time.
Undeclare(d) ==
  /\ Running
  /\ declared' = Release(d, declared)
  /\ holds' = [holds EXCEPT ![d] = 0]
  /\ UNCHANGED <<exists, id, issued, calls>>

\* Declaration's move assignment; to itself, it does nothing.
AssignDeclaration(dst, src) ==
  /\ Running
  /\ IF dst = src
     THEN UNCHANGED <<holds, declared>>
     ELSE /\ declared' = Release(dst, declared)
          /\ MoveDeclaration(dst, src)
  /\ UNCHANGED <<exists, id, issued, calls>>

---------------------------------------------------------------------------
(* Sessions.                                                               *)

Open_ReleasesFirst(s, c) ==
  /\ Running
  /\ \/ /\ Declare(s, c)
        /\ declared' = [Release(s, declared) EXCEPT ![issued + 1] = c]
     \/ /\ holds' = [holds EXCEPT ![s] = 0]
        /\ declared' = Release(s, declared)
        /\ UNCHANGED issued
  /\ exists' = exists \cup {s}
  /\ id' = [id EXCEPT ![s] = c]
  /\ UNCHANGED calls

\* SisSession::open and the result moved into s: the new token is declared
\* before the token s may hold is dropped.  PresenceUnavailable changes
\* nothing: the caller has no session.
Open(s, c) ==
  /\ Running
  /\ Declare(s, c)
  /\ declared' = [Release(s, declared) EXCEPT ![issued + 1] = c]
  /\ exists' = exists \cup {s}
  /\ id' = [id EXCEPT ![s] = c]
  /\ UNCHANGED calls

\* The defaulted moves, member by member, to a new object or over another.
MoveSession(dst, src) ==
  /\ Running
  /\ dst # src /\ src \in exists
  /\ id' = [id EXCEPT ![dst] = id[src], ![src] = None]
  /\ declared' = Release(dst, declared)
  /\ MoveDeclaration(dst, src)
  /\ exists' = exists \cup {dst}
  /\ UNCHANGED <<issued, calls>>

Close(s) ==
  /\ Running
  /\ s \in exists
  /\ exists' = exists \ {s}
  /\ id' = [id EXCEPT ![s] = None]
  /\ declared' = Release(s, declared)
  /\ holds' = [holds EXCEPT ![s] = 0]
  /\ UNCHANGED <<issued, calls>>

---------------------------------------------------------------------------
(* Requests.                                                               *)

\* A request q is made on s; where it is, and what is known of it.
Make(s, q, wire, outcome) ==
  /\ Running
  /\ Len(calls) < MaxCalls
  /\ s \in exists
  /\ id[s] = None => "use_after_move" \in Permit
  /\ calls' = Append(calls,
       [client |-> id[s], request |-> q, present |-> Present(id[s]),
        wire |-> wire, reply |-> None, outcome |-> outcome])
  /\ UNCHANGED objects

EncodeFails(s, q) == Make(s, q, "unsent", "encode_failed")

\* publish_request: "ok" says it was published, and no more than that.
PublishRequest(s, q) ==
  /\ Mode(q) = "publish"
  /\ \/ Make(s, q, "flying", "ok")
     \/ Make(s, q, "unsent", "transport_failed")

\* query_request, until Transport::query has sent it.
QueryRequest(s, q) ==
  /\ Mode(q) = "query"
  /\ Make(s, q, "flying", "waiting")

\* The network loses it, or it reaches the engine, which ignores a put on a
\* queryable and never sees a query on a key it merely subscribes to.
Travel(n) ==
  /\ calls[n].wire = "flying"
  /\ \E w \in {"lost", IF EngineServes(calls[n].request, Mode(calls[n].request))
                       THEN "served" ELSE "ignored"} :
       calls' = [calls EXCEPT ![n].wire = w]
  /\ UNCHANGED objects

Check_AnyType(q, type, decodes) ==
  IF q \in Request /\ type \in ReplyType /\ ~decodes THEN "decode_failed" ELSE "ok"

\* The rest of query_request: the declared type, then the decoder.
Check(q, type, decodes) ==
  CASE type # ReplyOf(q) -> "wrong_declared_type"
    [] type = ReplyOf(q) /\ ~decodes -> "decode_failed"
    [] type = ReplyOf(q) /\ decodes -> "ok"

\* query returns a reply, of whatever type a peer may declare.
Answer(n, type, decodes) ==
  /\ calls[n].outcome = "waiting" /\ calls[n].wire = "served"
  /\ calls' = [calls EXCEPT ![n].reply = type,
                            ![n].outcome = Check(calls[n].request, type, decodes)]
  /\ UNCHANGED objects

\* query returns without a reply.  The request is not withdrawn.
GiveUp(n) ==
  /\ calls[n].outcome = "waiting"
  /\ \E why \in {"timeout", "transport_failed"} :
       calls' = [calls EXCEPT ![n].outcome = why]
  /\ UNCHANGED objects

Return(n) ==
  \/ GiveUp(n)
  \/ \E type \in ReplyType, decodes \in BOOLEAN : Answer(n, type, decodes)

Next ==
  \/ \E d \in Subscriber : Subscribe(d) \/ Undeclare(d)
  \/ \E dst, src \in Subscriber : AssignDeclaration(dst, src)
  \/ \E s \in Session, c \in Client : Open(s, c)
  \/ \E dst, src \in Session : MoveSession(dst, src)
  \/ \E s \in Session : Close(s)
  \/ \E s \in Session, q \in Request :
       EncodeFails(s, q) \/ PublishRequest(s, q) \/ QueryRequest(s, q)
  \/ \E n \in DOMAIN calls : Travel(n) \/ Return(n)

Spec == Init /\ [][Next]_vars

---------------------------------------------------------------------------
(* What sessions and declarations must get right.                          *)

TypeOK ==
  /\ exists \subseteq Session
  /\ id \in [Session -> Client \cup {None}]
  /\ holds \in [Holder -> 0 .. issued]
  /\ issued \in 0 .. MaxIssued
  /\ declared \in [Reg -> Client \cup {"status", None}]
  /\ calls \in Seq(Call)

(* Each registration in force is held by one Declaration, and a            *)
(* Declaration holds none but those: nothing the transport declared is     *)
(* leaked, dropped under its owner, or dropped twice, through every move,  *)
(* self-assignment, explicit undeclare and destructor (transport.h).       *)
HeldExactlyOnce ==
  /\ \A d \in Holder : holds[d] # 0 => declared[holds[d]] # None
  /\ \A r \in Reg : declared[r] # None => \E d \in Holder : holds[d] = r
  /\ \A d, e \in Holder : holds[d] # 0 /\ holds[d] = holds[e] => d = e

(* A session that has its client id holds that client's token in force: a  *)
(* client with a session is visible to the engine under the id it speaks   *)
(* with, after every defaulted move and every open over a live session.    *)
PresentUnderItsId ==
  \A s \in Session : id[s] # None =>
    holds[s] # 0 /\ declared[holds[s]] = id[s]

(* Replacing a client's session by a new one for the same client never     *)
(* lets its presence lapse: open declares before the old token goes, so    *)
(* the engine sees no departure, which would end the client's streams.     *)
ReopeningKeepsPresence ==
  [][\A s \in Session :
       s \in exists /\ s \in exists' /\ id[s] # None /\ id'[s] = id[s] =>
         \E r \in Reg : declared'[r] = id[s]]_vars

(* The comment on open: no code path of this library speaks to the engine  *)
(* without a token held.                                                   *)
NeverSpeaksUnseen ==
  \A n \in DOMAIN calls : calls[n].wire # "unsent" => calls[n].present

(* The RequestKey table agrees with the engine on every key: what is sent  *)
(* and arrives is served, never dropped in silence as a put on a queryable *)
(* or a query nobody answers.                                              *)
NothingIsIgnored == \A n \in DOMAIN calls : calls[n].wire # "ignored"

(* A query that succeeds was served, and its reply is of the type its      *)
(* request is answered with: a reply that would decode as another type,    *)
(* as a pattern reply does as a graph reply, is refused.                   *)
OkIsTheRightReply ==
  \A n \in DOMAIN calls :
    calls[n].outcome = "ok" /\ Mode(calls[n].request) = "query" =>
      calls[n].wire = "served" /\ calls[n].reply = ReplyOf(calls[n].request)

==========================================================================
