------------------------- MODULE RelationService -------------------------
(***************************************************************************)
(* Several clients and one engine: the relation requests of tcn/sqe put    *)
(* together the way session.h shows, with handle.h and status.h.           *)
(*                                                                         *)
(* A client is a process with a session, and one lease table for its       *)
(* client id.  Its thread is either idle or inside StartFn or StopFn,      *)
(* blocked in a query that may give up before the answer; the request is   *)
(* not withdrawn by that.  LeaseTable shows what a table does between its  *)
(* start and its stop, and with aliases and nested calls; here a table is  *)
(* its records.  The network and the engine are external; the engine may   *)
(* change the status of a stream, to one without a path too, and may end a *)
(* stream that is held.                                                    *)
(***************************************************************************)
EXTENDS Integers, FiniteSets

CONSTANTS
  Client,      \* client ids
  Stream,      \* relations, by the handle the engine has for each
  Terms,       \* triggers and biases
  None,
  Permit,      \* what may go wrong, see Latitude
  MaxClaims,   \* bound: claims of a client on a stream
  MaxLate      \* bound: requests on the way that nobody waits for

(* "give_up":   a query ends before the answer.                            *)
(* "lose":      the network loses a request.                               *)
(* "odd_reply": a reply breaks the handle invariant.                       *)
(* "unheard":   the status subscription is refused.                        *)
(* "change":    the status of a stream changes while it has requesters.    *)
(* "end":       the engine ends a stream that has requesters.              *)
(* "crash":     a process dies.   "restart": the engine does.              *)
Latitude ==
  {"give_up", "lose", "odd_reply", "unheard", "change", "end", "crash", "restart"}

ASSUME ConstantsOK ==
  /\ None \notin Client \cup Stream \cup Terms
  /\ IsFiniteSet(Client) /\ IsFiniteSet(Stream)
  /\ Permit \subseteq Latitude
  /\ MaxClaims \in Nat \ {0} /\ MaxLate \in Nat

VARIABLES
  present,     \* the clients whose liveliness token is in force
  records,     \* records_ of each client, by stream
  status,      \* the streams whose status a client is subscribed to
  call,        \* the request each client's thread waits for, or None
  reply,       \* the reply to each client's call, or None
  wire,        \* the requests on the way
  streams,     \* engine: each stream's requesters, terms and status
  marks,       \* history: what has befallen a claim since its start was answered
  failed       \* history: the attachments a failed call or a crash may have left

clientside == <<present, records, status, call>>
vars == <<clientside, streams, reply, wire, marks, failed>>

\* A request; late once its client does not wait for it any more.
Message == [client : Client, op : {"start", "stop"}, stream : Stream,
            terms : Terms \cup {None}, late : BOOLEAN]

\* A reply: the status by its ordinal, the discriminator of the handle, and
\* the topic it then carries.
Reply == [status : 0 .. 7, assigned : BOOLEAN, topic : Stream \cup {None}]

\* The statuses that occur here; 3 and 4 are refusals like NoPath, and 7 is
\* one of a later release.
Active == 0
Inactive == 1
NoPath == 2
Rejected == 5
Pending == 6
Running == {Active, Pending}
Health == Running \cup {NoPath}
Status == Health \cup {Inactive, Rejected}

\* A record; told is the status the client was told last, stale is what its
\* components know of a restart.
Record == [count : 1 .. MaxClaims, terms : Terms, told : Status, stale : BOOLEAN]

\* A stream the engine serves to by.
Engaged(by, t, health) == [by |-> by, terms |-> t, health |-> health]
Idling == Engaged({}, None, Inactive)
Serving == [by : (SUBSET Client) \ {{}}, terms : Terms, health : Health]

\* What ends a claim: a stop of its client's that came late, a restart, the
\* engine.  What keeps news from it: a status published before its subscriber
\* was there.
Mishap == {"struck", "lost", "ended", "missed"}

ASSUME NoneIsNoValue == None \notin Message \cup Reply \cup Record

---------------------------------------------------------------------------
(* handle.h and status.h.                                                  *)

carries_handle(s) == s \in {Active, Pending}

from_reply_ByTheUnion(r) ==
  IF ~r.assigned THEN "HandleAbsent"
  ELSE IF r.topic = None THEN "EmptyHandleTopic" ELSE "Ok"

\* Handle::from_reply: "Ok" is a handle with the topic of the reply.
from_reply(r) ==
  IF r.status \notin 0 .. 6 THEN "IllegalCharacter"
  ELSE IF r.assigned # carries_handle(r.status) THEN "HandleInvariantViolated"
  ELSE IF ~r.assigned THEN "HandleAbsent"
  ELSE IF r.topic = None THEN "EmptyHandleTopic" ELSE "Ok"

---------------------------------------------------------------------------

Init ==
  /\ present = {}
  /\ records = [c \in Client |-> [s \in Stream |-> None]]
  /\ status = [c \in Client |-> {}]
  /\ call = [c \in Client |-> None]
  /\ reply = [c \in Client |-> None]
  /\ wire = {}
  /\ streams = [s \in Stream |-> Idling]
  /\ marks = {} /\ failed = {}

Idle(c) == c \in present /\ call[c] = None

Holds(c, s) == records[c][s] # None

\* c holds s, or has the answer by which it will.
Expects(c, s) ==
  \/ Holds(c, s)
  \/ /\ reply[c] # None /\ call[c].op = "start" /\ call[c].stream = s
     /\ from_reply(reply[c]) = "Ok"

\* What pairs of a client and a stream befalls.
Mark(pairs, mishap) == {<<p[1], p[2], mishap>> : p \in pairs}
Unmarked(c, s) == {m \in marks : m[1] # c \/ m[2] # s}

\* A status published for s now reaches the subscriber that came with c's record.
Hears(c, s) == Holds(c, s) /\ s \in status[c]

Late(m) == [m EXCEPT !.late = TRUE]

---------------------------------------------------------------------------
(* The client: its session, and the table with its StartFn and StopFn.     *)

\* SisSession::open, also before the engine has noticed that an earlier
\* process with the client id is gone.
Open(c) ==
  /\ c \notin present
  /\ present' = present \cup {c}
  /\ UNCHANGED <<records, status, call, reply, wire, streams, marks, failed>>

\* The session goes after the table, which holds nothing any more.
Close(c) ==
  /\ Idle(c) /\ \A s \in Stream : ~Holds(c, s)
  /\ present' = present \ {c}
  /\ UNCHANGED <<records, status, call, reply, wire, streams, marks, failed>>

\* The thread sends a request and waits.
Ask(c, op, s, t) ==
  LET m == [client |-> c, op |-> op, stream |-> s, terms |-> t, late |-> FALSE]
  IN  call' = [call EXCEPT ![c] = m] /\ wire' = wire \cup {m}

\* acquire, with a record on the same terms.  On others it changes nothing.
\* A record whose stream a restart ended is a record like any other.
Join(c, s, t) ==
  /\ Idle(c) /\ Holds(c, s)
  /\ records[c][s].count < MaxClaims /\ records[c][s].terms = t
  /\ records' = [records EXCEPT ![c][s].count = @ + 1]
  /\ UNCHANGED <<present, status, call, reply, wire, streams, marks, failed>>

Start_Again(c, s, t) ==
  /\ Idle(c)
  /\ Holds(c, s) => records[c][s].terms # t
  /\ Ask(c, "start", s, t)
  /\ UNCHANGED <<present, records, status, reply, streams, marks, failed>>

\* acquire without a record, as far as StartFn's query.
Start(c, s, t) ==
  /\ Idle(c) /\ ~Holds(c, s)
  /\ Ask(c, "start", s, t)
  /\ UNCHANGED <<present, records, status, reply, streams, marks, failed>>

\* StartFn fails: acquire returns the error, and the start may have worked.
StartFails(c) ==
  /\ call[c].op = "start"
  /\ call' = [call EXCEPT ![c] = None]
  /\ failed' = failed \cup {<<c, call[c].stream>>}
  /\ marks' = Unmarked(c, call[c].stream)
  /\ UNCHANGED <<present, records, status, streams>>

\* The rest of StartFn and of acquire: the handle, the subscription, the
\* record.  hears: the subscription is in force with the record.
Obtain(c, hears) ==
  /\ from_reply(reply[c]) = "Ok"
  /\ LET s == call[c].stream
     IN  /\ records' = [records EXCEPT ![c][s] =
              [count |-> 1, terms |-> call[c].terms, told |-> reply[c].status,
               stale |-> FALSE]]
         /\ status' = IF hears THEN [status EXCEPT ![c] = @ \cup {s}] ELSE status
  /\ call' = [call EXCEPT ![c] = None]
  /\ UNCHANGED <<present, streams, marks, failed>>

StartAnswered_Unsubscribed(c) ==
  /\ reply[c] # None /\ call[c].op = "start"
  /\ reply' = [reply EXCEPT ![c] = None]
  /\ UNCHANGED wire
  /\ Obtain(c, FALSE) \/ (from_reply(reply[c]) # "Ok" /\ StartFails(c))

StartAnswered(c) ==
  /\ reply[c] # None /\ call[c].op = "start"
  /\ reply' = [reply EXCEPT ![c] = None]
  /\ UNCHANGED wire
  /\ \/ Obtain(c, TRUE)
     \/ /\ from_reply(reply[c]) # "Ok" \/ "unheard" \in Permit
        /\ StartFails(c)

\* The record is erased, and what befell its claims with it.
Erase(c, s) ==
  /\ Holds(c, s) /\ records[c][s].count = 1
  /\ records' = [records EXCEPT ![c][s] = None]
  /\ marks' = Unmarked(c, s)

Retire_DropsTheSubscriber(c, s) ==
  /\ Erase(c, s)
  /\ status' = [status EXCEPT ![c] = @ \ {s}]
  /\ Ask(c, "stop", s, None)

Retire_Silent(c, s) ==
  /\ Erase(c, s)
  /\ status' = [status EXCEPT ![c] = @ \ {s}]
  /\ UNCHANGED <<call, wire>>

Retire_KeepsRecord(c, s) ==
  /\ Holds(c, s) /\ records[c][s].count = 1
  /\ Ask(c, "stop", s, None)
  /\ UNCHANGED <<records, status, marks>>

Retire_Any(c, s) ==
  /\ Holds(c, s)
  /\ records' = [records EXCEPT ![c][s].count = @ - 1]
  /\ Ask(c, "stop", s, None)
  /\ UNCHANGED <<status, marks>>

\* The last claim goes: the record is erased, and StopFn sends the stop.
Retire(c, s) ==
  /\ Erase(c, s)
  /\ Ask(c, "stop", s, None)
  /\ UNCHANGED status

\* A lease is destroyed.
Release(c, s) ==
  /\ Idle(c) /\ Holds(c, s)
  /\ \/ Retire(c, s)
     \/ /\ records[c][s].count > 1
        /\ records' = [records EXCEPT ![c][s].count = @ - 1]
        /\ UNCHANGED <<status, call, wire, marks>>
  /\ UNCHANGED <<present, reply, streams, failed>>

\* StopFn returns, whatever its status, and the subscriber leaves scope.
StopReturns(c) ==
  /\ call[c].op = "stop"
  /\ call' = [call EXCEPT ![c] = None]
  /\ status' = [status EXCEPT ![c] = @ \ {call[c].stream}]
  /\ UNCHANGED <<present, records, streams, marks>>

StopAnswered(c) ==
  /\ reply[c] # None
  /\ reply' = [reply EXCEPT ![c] = None]
  /\ StopReturns(c)
  /\ UNCHANGED <<wire, failed>>

\* A query returns without a reply: its bound elapses, or it fails.  The
\* request stays on its way.
GiveUp(c) ==
  /\ call[c] # None
  /\ "give_up" \in Permit \/ (reply[c] = None /\ call[c] \notin wire)
  /\ wire' = {IF m = call[c] THEN Late(m) ELSE m : m \in wire}
  /\ Cardinality({m \in wire : m.late}) < MaxLate \/ call[c] \notin wire
  /\ Late(call[c]) \notin wire
  /\ reply' = [reply EXCEPT ![c] = None]
  /\ \/ StartFails(c)
     \/ /\ StopReturns(c)
        /\ failed' = failed \cup {<<c, call[c].stream>>}

\* The components of c see the token of another epoch, and know that what
\* they hold from before is lost.
Notice(c, s) ==
  /\ Idle(c) /\ Holds(c, s) /\ <<c, s, "lost">> \in marks
  /\ records' = [records EXCEPT ![c][s].stale = TRUE]
  /\ UNCHANGED <<present, status, call, reply, wire, streams, marks, failed>>

\* The process dies; what it sent is still on its way (two equal late
\* requests of one client count as one).
Crash(c) ==
  /\ "crash" \in Permit
  /\ c \in present
  /\ present' = present \ {c}
  /\ records' = [records EXCEPT ![c] = [s \in Stream |-> None]]
  /\ status' = [status EXCEPT ![c] = {}]
  /\ call' = [call EXCEPT ![c] = None]
  /\ reply' = [reply EXCEPT ![c] = None]
  /\ wire' = {IF m = call[c] THEN Late(m) ELSE m : m \in wire}
  /\ marks' = {m \in marks : m[1] # c}
  /\ failed' = failed \cup ({c} \X {s \in Stream :
                  Holds(c, s) \/ (call[c] # None /\ call[c].stream = s)})
  /\ UNCHANGED streams

---------------------------------------------------------------------------
(* The network and the engine.                                             *)

Lose(m) ==
  /\ "lose" \in Permit /\ m \in wire
  /\ wire' = wire \ {m}
  /\ UNCHANGED <<clientside, streams, reply, marks, failed>>

\* Replies to a start that break the invariant: a status nobody knows, no handle where
\* there is one to have, an empty one, one where there is none to have.
Odd(s) ==
  {[status |-> 7, assigned |-> FALSE, topic |-> None],
   [status |-> Active, assigned |-> FALSE, topic |-> None],
   [status |-> Pending, assigned |-> TRUE, topic |-> None],
   [status |-> Rejected, assigned |-> TRUE, topic |-> s]}

\* The answer reaches the client if it still waits for it.
Replies(m, st, topic) ==
  /\ wire' = wire \ {m}
  /\ IF m.late
     THEN UNCHANGED reply
     ELSE \E r \in {[status |-> st, assigned |-> topic # None, topic |-> topic]}
                   \cup {o \in Odd(m.stream) : m.op = "start" /\ "odd_reply" \in Permit} :
            reply' = [reply EXCEPT ![m.client] = r]

\* A stream without the clients cs; it ends with the last.
Without(stream, cs) ==
  IF stream.by \subseteq cs THEN Idling ELSE [stream EXCEPT !.by = @ \ cs]

\* No start that c gave up on is on its way to s.
Settled(c, s) ==
  \A m \in wire : m.client = c /\ m.stream = s /\ m.op = "start" => ~m.late

\* The engine's streams change, and those whose status does announce it to
\* whoever is subscribed to their status now.  befallen: the marks of what
\* else the change means.
Announce(next, befallen) ==
  LET told == Client \X {s \in Stream : next[s].health # streams[s].health}
      hearing == {p \in told : Hears(p[1], p[2])}
      deaf == {p \in told : Expects(p[1], p[2]) /\ ~Holds(p[1], p[2])}
  IN  /\ streams' = next
      /\ records' = [c \in Client |-> [s \in Stream |->
           IF <<c, s>> \in hearing THEN [records[c][s] EXCEPT !.told = next[s].health]
                                   ELSE records[c][s]]]
      /\ marks' = (marks \ Mark(hearing, "missed")) \cup Mark(deaf, "missed") \cup befallen

\* A start on s is refused: the refusal is published on the same topic.
AnnounceRefusal(s, st) ==
  /\ records' = [c \in Client |->
       IF Hears(c, s) THEN [records[c] EXCEPT ![s].told = st] ELSE records[c]]
  /\ UNCHANGED <<streams, marks>>

ServeStart(m) ==
  /\ m \in wire /\ m.op = "start"
  /\ LET s == m.stream
         now == streams[s]
     IN  \/ \E health \in IF now.by = {} THEN Running ELSE {now.health} \cap Running :
              /\ now.by = {} \/ now.terms = m.terms
              /\ Announce([streams EXCEPT ![s] =
                             Engaged(now.by \cup {m.client}, m.terms, health)], {})
              /\ Replies(m, health, s)
        \/ /\ now.by = {} \/ now.health = NoPath
           /\ Replies(m, NoPath, None) /\ AnnounceRefusal(s, NoPath)
        \/ /\ now.by # {} /\ now.terms # m.terms
           /\ Replies(m, Rejected, None) /\ AnnounceRefusal(s, Rejected)
  /\ UNCHANGED <<present, status, call, failed>>

ServeStop(m) ==
  /\ m \in wire /\ m.op = "stop"
  /\ LET c == m.client
         s == m.stream
     IN  /\ Announce([streams EXCEPT ![s] = Without(@, {c})],
                     IF m.late /\ c \in streams[s].by /\ Expects(c, s)
                     THEN Mark({<<c, s>>}, "struck") ELSE {})
         /\ failed' = IF Settled(c, s) THEN failed \ {<<c, s>>} ELSE failed
  /\ Replies(m, Inactive, None)
  /\ UNCHANGED <<present, status, call>>

\* The status of a stream changes while it has requesters.
Change(s) ==
  /\ "change" \in Permit /\ streams[s].by # {}
  /\ \E health \in Health \ {streams[s].health} :
       Announce([streams EXCEPT ![s].health = health], {})
  /\ UNCHANGED <<present, status, call, reply, wire, failed>>

\* The engine ends a stream of its own accord, whoever requests it.
End(s) ==
  /\ "end" \in Permit /\ streams[s].by # {}
  /\ Announce([streams EXCEPT ![s] = Idling],
              Mark({c \in streams[s].by : Expects(c, s)} \X {s}, "ended"))
  /\ UNCHANGED <<present, status, call, reply, wire, failed>>

\* A client without a token is swept.
Sweep(c) ==
  /\ c \notin present
  /\ Announce([s \in Stream |-> Without(streams[s], {c})], {})
  /\ failed' = {p \in failed : p[1] # c \/ ~Settled(c, p[2])}
  /\ UNCHANGED <<present, status, call, reply, wire>>

\* The engine restarts: fragments survive, streams do not.
Restart ==
  /\ "restart" \in Permit
  /\ streams' = [s \in Stream |-> Idling]
  /\ marks' = marks \cup Mark({p \in Client \X Stream : Expects(p[1], p[2])}, "lost")
  /\ UNCHANGED <<clientside, reply, wire, failed>>

Next ==
  \/ \E c \in Client :
       \/ Open(c) \/ Close(c) \/ Crash(c) \/ Sweep(c)
       \/ \E s \in Stream, t \in Terms : Join(c, s, t) \/ Start(c, s, t)
       \/ \E s \in Stream : Release(c, s) \/ Notice(c, s)
       \/ StartAnswered(c) \/ StopAnswered(c) \/ GiveUp(c)
  \/ \E m \in wire : Lose(m) \/ ServeStart(m) \/ ServeStop(m)
  \/ \E s \in Stream : Change(s) \/ End(s)
  \/ Restart

\* A lease whose stream a restart ended is destroyed by those who know.
GiveBack(c, s) == Holds(c, s) /\ records[c][s].stale /\ Release(c, s)

\* A thread that waits goes on with the answer or without; a request that is
\* on its way arrives or is lost; the engine sweeps; a restart is noticed, and
\* what it ended is released.  Nobody has to start, to release anything else,
\* or to open or close a session.
Fairness ==
  /\ \A c \in Client :
       /\ WF_vars(StartAnswered(c) \/ StopAnswered(c) \/ GiveUp(c))
       /\ WF_vars(Sweep(c))
       /\ \A s \in Stream : WF_vars(Notice(c, s)) /\ WF_vars(GiveBack(c, s))
  /\ \A m \in Message : WF_vars(Lose(m) \/ ServeStart(m) \/ ServeStop(m))

Spec == Init /\ [][Next]_vars /\ Fairness

---------------------------------------------------------------------------
(* What the service must get right.                                        *)

TypeOK ==
  /\ present \subseteq Client
  /\ records \in [Client -> [Stream -> Record \cup {None}]]
  /\ status \in [Client -> SUBSET Stream]
  /\ call \in [Client -> Message \cup {None}]
  /\ reply \in [Client -> Reply \cup {None}]
  /\ wire \subseteq Message
  /\ streams \in [Stream -> {Idling} \cup Serving]
  /\ marks \subseteq Client \X Stream \X Mishap
  /\ \A m \in marks : Expects(m[1], m[2])
  /\ failed \subseteq Client \X Stream

(* What a client holds, the engine serves it, on the terms the client's    *)
(* record has: no other client's stop, refusal, crash or late start takes  *)
(* it away, and neither does a reply with a handle it must not have.  Only *)
(* the engine does, by a restart or by ending the stream for all, or a     *)
(* stop of its own that came after StopFn gave up; a stream that is        *)
(* started again after that is served once more.                           *)
HeldIsServed ==
  \A c \in Client, s \in Stream :
    Holds(c, s) /\ {"struck", "lost", "ended"} \cap {m[3] : m \in marks \ Unmarked(c, s)} = {} =>
      c \in streams[s].by /\ streams[s].terms = records[c][s].terms

(* A client that holds a stream knows its status, in particular that it    *)
(* went NoPath or was ended, by the engine or by a late stop: what is      *)
(* published reaches the subscriber that came with the record, however     *)
(* many components share it (session.h 194-200).  Only what is published   *)
(* between the answer to the start and the subscription, which StartFn can *)
(* declare no earlier, is missed, and is made good by the next change      *)
(* (session.h 245-252); a restart is not announced there; and the refusal  *)
(* of somebody's start is announced there as well.                         *)
StatusIsCurrent ==
  \A c \in Client, s \in Stream :
    Holds(c, s) /\ {<<c, s, "lost">>, <<c, s, "missed">>} \cap marks = {} =>
      \/ records[c][s].told = streams[s].health
      \/ records[c][s].told = Rejected
      \/ records[c][s].told = NoPath /\ streams[s].by = {}

(* A client that is attached to a stream holds it, or is asking about it,  *)
(* or some call of its on that stream returned without having worked, or   *)
(* an earlier process with its client id died with the stream and has not  *)
(* been swept: what the table lets go it stops, and a start that is        *)
(* refused attaches nobody.                                                *)
NoSilentOrphans ==
  \A c \in present, s \in Stream :
    c \in streams[s].by =>
      \/ Holds(c, s)
      \/ call[c] # None /\ call[c].stream = s
      \/ <<c, s>> \in failed

(* The engine handles a stop that StopFn waits for while the client is     *)
(* subscribed to the stream's status: the last word on the stream, if this *)
(* ends it, has a subscriber (the order retire keeps).                     *)
LastStatusIsHeard ==
  [][\A c \in Client :
       reply[c] = None /\ reply'[c] # None /\ call[c].op = "stop" =>
         call[c].stream \in status[c]]_vars

(* A start is refused for its terms only when another client has the       *)
(* stream, or a call of this client's on it failed before, or an earlier   *)
(* process of its died with it: never because of what its own table holds  *)
(* (the first of acquire's rules).                                         *)
RejectedForOthers ==
  [][\A c \in Client :
       (/\ reply[c] = None /\ reply'[c] # None
        /\ reply'[c].status = Rejected /\ ~reply'[c].assigned) =>
         \/ streams[call[c].stream].by \ {c} # {}
         \/ <<c, call[c].stream>> \in failed]_vars

(* A stream a client does not hold comes to an end for it: it is detached, *)
(* or holds it again, or one of its calls on the stream failed or an       *)
(* earlier process of its died with it.  That is no excuse once the client *)
(* is gone: then the engine sweeps what was left (retire; session.h        *)
(* 178-186).                                                               *)
ReleasedStreamsEnd ==
  \A c \in Client, s \in Stream :
    ~Holds(c, s) ~> \/ Holds(c, s) \/ c \notin streams[s].by
                    \/ c \in present /\ <<c, s>> \in failed


==========================================================================
